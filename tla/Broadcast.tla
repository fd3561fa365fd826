----------------------------- MODULE Broadcast ------------------------------
(***************************************************************************)
(* What a broadcast feed promises: messages are published one after the    *)
(* other, and whoever joins gets the ones published from then on, in       *)
(* order, none skipped and none twice, until leaving.  Nobody waits for a  *)
(* slow subscriber, who may only be made to leave.                         *)
(***************************************************************************)
EXTENDS Naturals, Sequences

CONSTANTS Subscribers, Messages

VARIABLES log,      \* the messages published so far
          joined,   \* who is being served
          since,    \* how many messages had been published when each joined
          got       \* how many messages each has been given

feed == <<log, joined, since, got>>

Init ==
  /\ log = <<>> /\ joined = {}
  /\ since = [s \in Subscribers |-> 0] /\ got = [s \in Subscribers |-> <<>>]

Publish ==
  /\ \E m \in Messages : log' = Append(log, m)
  /\ UNCHANGED <<joined, since, got>>

Join(s) ==
  /\ s \notin joined
  /\ joined' = joined \cup {s}
  /\ since' = [since EXCEPT ![s] = Len(log)]
  /\ got' = [got EXCEPT ![s] = <<>>]
  /\ UNCHANGED log

Deliver(s) ==
  /\ s \in joined /\ since[s] + Len(got[s]) < Len(log)
  /\ got' = [got EXCEPT ![s] = Append(@, log[since[s] + Len(@) + 1])]
  /\ UNCHANGED <<log, joined, since>>

\* One or several leave: a disconnect, a subscriber too slow, the end of the publisher.
Leave ==
  /\ joined' \subseteq joined
  /\ since' = [s \in Subscribers |-> IF s \in joined' THEN since[s] ELSE 0]
  /\ got' = [s \in Subscribers |-> IF s \in joined' THEN got[s] ELSE <<>>]
  /\ UNCHANGED log

Next ==
  \/ Publish \/ Leave
  \/ \E s \in Subscribers : Join(s) \/ Deliver(s)

Spec == Init /\ [][Next]_feed
=============================================================================
