---------------------------- MODULE GapRecovery ----------------------------
(***************************************************************************)
(* GapRecoveryClient of itch-mold/src/gap_recovery.rs: a MoldStream whose  *)
(* gaps are asked for from request servers by a task of its own.           *)
(*                                                                         *)
(* active is the recovery task: [state |-> "none"], or its gap with        *)
(* "trying" (the server and the attempt it is at), "ok" (the frames it     *)
(* ended with), "err" or "panicked".  sent and cache belong to the publisher's side:   *)
(* the datagrams on the wire, and the cache every request server answers   *)
(* from.  A request, its answer under the lock and its arrival are one     *)
(* step; the answer then waits, and ages, until the client polls.          *)
(***************************************************************************)
EXTENDS MoldReceiver, RetransmitCache

CONSTANTS NServers,   \* length of GapRecoveryConfig::request_servers
          Retries     \* GapRecoveryConfig::max_retries_per_server

VARIABLE active

clientvars == <<vars, active>>

NoTask == [state |-> "none"]

InitClient == Init /\ active = NoTask

\* spawn_recovery; recover_gap starts with the first server.
SpawnRecovery(from, to) ==
  [state |-> "trying", from |-> from, to |-> to, server |-> 1, attempt |-> 0]

\* Mutant: after the last server the first one is tried again.
NextAttemptForever(task) ==
  IF task.attempt + 1 < Retries THEN [task EXCEPT !.attempt = @ + 1]
  ELSE [task EXCEPT !.server = IF @ < NServers THEN @ + 1 ELSE 1, !.attempt = 0]

\* The next attempt of recover_gap: this server again, the next one, or the end.
NextAttempt(task) ==
  IF task.attempt + 1 < Retries THEN [task EXCEPT !.attempt = @ + 1]
  ELSE IF task.server < NServers THEN [task EXCEPT !.server = @ + 1, !.attempt = 0]
  ELSE [state |-> "err", from |-> task.from, to |-> task.to]

Recovered(task, frames) ==
  [state |-> "ok", from |-> task.from, to |-> task.to, frames |-> frames]

\* Mutant: the count starts one too high.
ReceivedShifted(from, frames) ==
  [i \in DOMAIN frames |-> [sequence |-> from + i, body |-> frames[i].body]]

\* RequestClient::request: the answer carries bodies only; the client numbers them from
\* the number it asked for.
Received(from, frames) ==
  [i \in DOMAIN frames |-> [sequence |-> from + i - 1, body |-> frames[i].body]]

\* A request is answered: frames, or the end of the session, end the task; an empty
\* hole is tried again.
TaskAnswered ==
  /\ active.state = "trying"
  /\ LET resp == Answer(cache, active.from, active.to - active.from + 1)
     IN  active' = IF resp.frames # <<>> \/ resp.status = "END_OF_SESSION"
                   THEN Recovered(active, Received(active.from, resp.frames))
                   ELSE NextAttempt(active)
  /\ UNCHANGED vars

\* A connection error, or request_timeout.
TaskFails ==
  /\ active.state = "trying"
  /\ active' = NextAttempt(active)
  /\ UNCHANGED vars

\* gap_timeout
TaskExpires ==
  /\ active.state = "trying"
  /\ active' = [state |-> "err", from |-> active.from, to |-> active.to]
  /\ UNCHANGED vars

\* The task panics, or the runtime cancels it: its JoinHandle yields a JoinError.
TaskPanics ==
  /\ active.state = "trying"
  /\ active' = [state |-> "panicked", from |-> active.from, to |-> active.to]
  /\ UNCHANGED vars

\* poll_next, once the task's frames are with the stream or there are none yet: the
\* stream is polled, and a Gap it surfaces starts a recovery unless one is running.
PollStream(r, task, datagrams) ==
  /\ Poll(r, datagrams)
  /\ active' = IF item'.tag = "Gap" /\ NServers > 0 /\ task = NoTask
               THEN SpawnRecovery(item'.from, item'.to) ELSE task

\* Mutant: the frames of a recovery are dropped.
ClientPollDrops(datagrams) ==
  \/ active.state \in {"none", "trying"} /\ PollStream(rx, active, datagrams)
  \/ active.state \in {"ok", "panicked"} /\ PollStream(rx, NoTask, datagrams)

\* poll_next: a task that panicked is forgotten, and the stream polled as without one.
ClientPoll(datagrams) ==
  \/ active.state \in {"none", "trying"} /\ PollStream(rx, active, datagrams)
  \/ active.state = "panicked" /\ PollStream(rx, NoTask, datagrams)
  \/ /\ active.state = "ok"
     /\ \E r \in {IngestRetransmit(rx, active.frames)} : PollStream(r, NoTask, datagrams)

\* poll_next returns the error of a recovery that failed.
GiveUp ==
  /\ active.state = "err"
  /\ active' = NoTask
  /\ UNCHANGED vars

TaskStep == TaskAnswered \/ TaskFails \/ TaskExpires \/ TaskPanics

\* The poll that finds the recovery task ended: the only step that takes its result.
\* It may start the next recovery.  After the stream's end the caller need not poll.
PollEnded ==
  /\ ~finished
  /\ active.state \in {"ok", "err", "panicked"}
  /\ active' \in {NoTask} \cup {SpawnRecovery(m, n) : m, n \in 0..SeqMax}

NextClient == TaskStep \/ ClientPoll(sent) \/ GiveUp
-----------------------------------------------------------------------------
\* The frames a recovery brings reach the caller's queue: once they are handed to the
\* stream, next_expected is past the last of them.
RecoveryAdvances ==
  [][active.state = "ok" /\ active' # active =>
       rx'.next_expected >= active.from + Len(active.frames)]_clientvars

\* A gap that is given up is skipped: the receiver state advances past it.
GiveUpAdvances == [][GiveUp => rx'.next_expected > active.to]_clientvars

\* The stream ends only when every message before the end of the session was handed
\* out, as if no loss had occurred.
EndsComplete ==
  [][finished' /\ ~finished => rx'.next_expected >= item'.next_seq]_clientvars

\* A gap that was asked for is settled: its first number reaches the caller's queue, the
\* recovery ends in an error or a panic, or the stream has ended over it.
GapSettled ==
  \A n \in 0..SeqMax :
    (active.state = "trying" /\ active.from = n) ~>
      (rx.next_expected > n \/ active.state \in {"err", "panicked"} \/ finished)
=============================================================================
