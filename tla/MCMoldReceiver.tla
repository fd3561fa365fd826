--------------------------- MODULE MCMoldReceiver ---------------------------
(* A four-message session in three packets, a heartbeat, its end, a foreign
   packet, and the answers a request server gives for it. *)
EXTENDS MoldReceiver

CONSTANTS DropBound, OutboxBound

MCBody == {"x", "y", "bad"}
MCDecodable == {"x", "y"}
MCStream ==
  [s \in Session |-> [n \in 0..SeqMax |->
     IF n = 3 THEN "bad" ELSE IF (n % 2 = 0) = (s = "A") THEN "x" ELSE "y"]]

Data(s, first, last) ==
  [session |-> s, kind |-> "data", seq |-> first,
   blocks |-> [i \in 1..(last - first + 1) |-> MCStream[s][first + i - 1]]]
Mark(s, kind, seq) == [session |-> s, kind |-> kind, seq |-> seq, blocks |-> <<>>]

MCDatagrams ==
  {Data("A", 1, 1), Data("A", 2, 4), Data("A", 5, 5), Data("B", 1, 1),
   Mark("A", "heartbeat", 2), Mark("A", "eos", 6)}

Frames(first, last) ==
  [i \in 1..(last - first + 1) |->
     [sequence |-> first + i - 1, body |-> MCStream["A"][first + i - 1]]]
MCRepairs == {Frames(1, 1), Frames(1, 4), Frames(2, 3)}

MCPins == {{}, {"A"}}

ASSUME CutOnce

Bounded == rx.overflow_drops <= DropBound /\ Len(rx.outbox) <= OutboxBound

MCNext ==
  \E r \in Entry :
    \/ PollBuffered(r) /\ Bounded'
    \/ \E pkt \in Datagrams : Recv(r, pkt) /\ Bounded'
    \/ RecvError(r) /\ Bounded'
    \/ PollNothing(r) /\ Bounded'

MCSpec == Init /\ [][MCNext]_vars
=============================================================================
