----------------------------- MODULE SoupClient -----------------------------
(***************************************************************************)
(* ResilientSoupClient of itch-soup/src/resilient.rs over SoupConnection   *)
(* (connection.rs): connect, log in, read, and reconnect from the next     *)
(* number expected.                                                        *)
(*                                                                         *)
(* client.pc is "down" (no connection), "login", "up" or "terminated";     *)
(* expected is the connection's expected_sequence.  last is history: the   *)
(* number of the last source message the caller got.  The backoff is a     *)
(* delay, so the next attempt may come at any later time.  Every message   *)
(* a SoupServer encodes decodes.                                           *)
(***************************************************************************)
EXTENDS SoupLink

CONSTANTS InitialSequences,   \* ResilientSoupConfig::initial_sequence
          MaxAttempts         \* ResilientSoupConfig::max_attempts

ASSUME SoupClientAssumption == InitialSequences \subseteq Nat

VARIABLE client

clientvars == <<client>>

\* ResilientSoupClient::new
InitClient ==
  \E n \in InitialSequences :
    client = [pc |-> "down", next_sequence |-> n, expected |-> 0, attempt |-> 0, last |-> 0]

Drop == sock' = "none" /\ wire' = <<>> /\ UNCHANGED asked

\* try_connect_once up to the reply: the login asks for next_sequence.
Connect ==
  /\ client.pc = "down" /\ sock = "none"
  /\ sock' = "backlog" /\ asked' = client.next_sequence /\ wire' = <<>>
  /\ client' = [client EXCEPT !.pc = "login"]

\* The connect, the login's send, its reply in time, or the peer fails: one attempt
\* more, or the last one.
ConnectFails ==
  /\ client.pc \in {"down", "login"}
  /\ client' = [client EXCEPT !.attempt = @ + 1,
                              !.pc = IF client.attempt + 1 >= MaxAttempts
                                     THEN "terminated" ELSE "down"]
  /\ Drop

\* login_with_timeout returns the connection, which counts from the server's number.
LoginSucceeds ==
  /\ client.pc = "login" /\ wire # <<>> /\ Head(wire).tag = "A"
  /\ client' = [client EXCEPT !.pc = "up", !.attempt = 0, !.expected = Head(wire).seq,
                              !.next_sequence = Head(wire).seq]
  /\ wire' = Tail(wire) /\ UNCHANGED <<sock, asked>>

\* A rejected login is fatal.
LoginFails ==
  /\ client.pc = "login" /\ wire # <<>> /\ Head(wire).tag = "J"
  /\ client' = [client EXCEPT !.pc = "terminated", !.attempt = @ + 1]
  /\ Drop

\* next_message returns a message: deliver_sequenced counts every S packet as one.
ReadMessage ==
  /\ client.pc = "up" /\ wire # <<>> /\ Head(wire).tag = "S"
  /\ client' = [client EXCEPT !.expected = @ + 1, !.next_sequence = client.expected + 1,
                              !.last = IF Head(wire).seq = 0 THEN @ ELSE Head(wire).seq]
  /\ wire' = Tail(wire) /\ UNCHANGED <<sock, asked>>

\* next_message returns SessionEnded or an I/O error, or finds the socket closed: the
\* connection is dropped, and the next call reconnects.
Disconnected ==
  /\ client.pc = "up"
  /\ client' = [client EXCEPT !.pc = "down", !.next_sequence = client.expected]
  /\ Drop

NextClient ==
  Connect \/ ConnectFails \/ LoginSucceeds \/ LoginFails \/ ReadMessage \/ Disconnected
=============================================================================
