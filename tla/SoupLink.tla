------------------------------ MODULE SoupLink ------------------------------
(***************************************************************************)
(* The TCP connection between a SoupBinTCP client and the server, as both  *)
(* use it: reliable and in order until one side or the network ends it.    *)
(*                                                                         *)
(* sock is "none" (no connection, or the client has dropped it), "backlog" *)
(* (connected, not yet accepted), "open", or "closed" (by the server; what *)
(* is on the wire can still be read).  asked is the requested_sequence of  *)
(* the client's LoginRequest, and wire what the server sent and the client *)
(* has not read.  A packet is [tag, seq, msg]; an S packet carries msg     *)
(* only, and its seq is history.                                           *)
(***************************************************************************)
EXTENDS Integers, Sequences, FiniteSets

VARIABLES sock, asked, wire

link == <<sock, asked, wire>>

LoginAccepted(seq) == [tag |-> "A", seq |-> seq, msg |-> 0]
LoginRejected == [tag |-> "J", seq |-> 0, msg |-> 0]
SequencedData(seq, msg) == [tag |-> "S", seq |-> seq, msg |-> msg]
EndOfSession == [tag |-> "Z", seq |-> 0, msg |-> 0]

InitLink == sock = "none" /\ asked = 0 /\ wire = <<>>
=============================================================================
