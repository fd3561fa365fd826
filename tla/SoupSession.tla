---------------------------- MODULE SoupSession ----------------------------
(***************************************************************************)
(* A SoupServer and a ResilientSoupClient over a link that may fail at any *)
(* time.  A new connection starts when the task of the last one has seen   *)
(* it go; that task does nothing but end.                                  *)
(***************************************************************************)
EXTENDS SoupServer, SoupClient

vars == <<servervars, link, clientvars>>

Init == InitServer /\ InitLink /\ InitClient

\* The listener is there until serve returns.
Reachable == server # "returned" /\ task = NoTask

ClientStep ==
  \/ Connect /\ Reachable
  \/ ConnectFails
  \/ LoginSucceeds
  \/ LoginFails
  \/ ReadMessage
  \/ Disconnected

Next ==
  \/ NextServer /\ UNCHANGED clientvars
  \/ ClientStep /\ UNCHANGED servervars

\* The runtime runs the server's tasks; the grace period ends.
Fairness ==
  /\ WF_vars((WaitIngest \/ JoinIngest \/ Return) /\ UNCHANGED clientvars)
  /\ WF_vars(TaskStep /\ UNCHANGED clientvars)

Spec == Init /\ [][Next]_vars /\ Fairness
-----------------------------------------------------------------------------
\* The store was never at its limit and never failed: nothing that was ever numbered
\* is lost to a replay.
Retained == ~cfg.flaky /\ (Stored(store) # {} => Earliest(store) = cfg.start)

Advances ==
  client.last # 0 /\ client'.last # client.last => client'.last = client.last + 1

\* The caller gets every message once and in order across any number of lost
\* connections and reconnects, when the policy has no warmup and the numbers start at 1.
\* (A login before the first message is accepted with number 1, and one that asks for a
\* number below start_sequence with that number, so the client's count falls behind when
\* the server's numbers start above it.)
HandedExact == [][Retained /\ cfg.warmup = 0 /\ cfg.start = 1 => Advances]_vars

\* next_expected_sequence is where a reconnect resumes: the caller gets every message
\* once and in order across reconnects, whatever the policy.
ResumeExact == [][Retained => Advances]_vars

\* A subscriber is let go after the source ends, and serve returns.
SessionEnds ==
  /\ (ingest.pc = "done" /\ task.pc = "live") ~> (task.pc # "live")
  /\ (ingest.pc = "done") ~> (server = "returned")
=============================================================================
