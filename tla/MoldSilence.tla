---------------------------- MODULE MoldSilence ----------------------------
(***************************************************************************)
(* The silence timer of MoldStream (itch-mold/src/receiver.rs): how        *)
(* poll_next, the timer and the datagrams share last_seen, soft_warned,    *)
(* dead_link_pending and silence_timer.                                    *)
(*                                                                         *)
(* Instants are kept relative to the clock: idle is last_seen.elapsed()    *)
(* and due is the timer's deadline minus now, so both move on a tick.  The *)
(* events a datagram queues are counted, not named: queued is the length   *)
(* of the outbox.  consumer tells where the task is: in the loop of        *)
(* poll_next ("polling"), parked on Poll::Pending, or holding a Ready item *)
(* ("ready").  socket counts the datagrams that have arrived and are not   *)
(* read; a look at the socket and the look at the timer behind it are one  *)
(* step.  errors, fires and heard are history: the PeerSilent errors since *)
(* the last packet, the timer's expiries at the present instant, and the   *)
(* time since a datagram or a retransmission last came.                    *)
(***************************************************************************)
EXTENDS Integers

CONSTANTS Warns,     \* MoldConfig::silence_warning
          Deads,     \* MoldConfig::silence_dead_link
          MaxBatch   \* events one datagram queues, at most

ASSUME SilenceAssumption ==
  Warns \subseteq Nat \ {0} /\ Deads \subseteq Nat \ {0} /\ MaxBatch \in Nat

VARIABLES warn, dead,                       \* the configuration
          idle, due, soft_warned, dead_link_pending,
          queued, socket, consumer, errors, fires, heard

config == <<warn, dead>>
timer == <<idle, due, soft_warned, dead_link_pending>>
silencevars == <<config, timer, queued, socket, consumer, errors, fires, heard>>

\* from_socket
SilenceInit ==
  /\ warn \in Warns /\ dead \in Deads
  /\ idle = 0 /\ due = warn
  /\ soft_warned = FALSE /\ dead_link_pending = FALSE
  /\ queued = 0 /\ socket = 0 /\ consumer = "ready"
  /\ errors = 0 /\ fires = 0 /\ heard = 0

\* One unit of time; the runtime wakes a parked consumer whose timer expired.
Tick ==
  /\ idle' = idle + 1 /\ due' = due - 1 /\ heard' = heard + 1
  /\ consumer' = IF consumer = "parked" /\ due <= 1 THEN "polling" ELSE consumer
  /\ fires' = 0
  /\ UNCHANGED <<config, soft_warned, dead_link_pending, queued, socket, errors>>

\* A datagram arrives at the socket, and wakes a parked consumer.
Arrive ==
  /\ socket' = socket + 1 /\ heard' = 0
  /\ consumer' = IF consumer = "parked" THEN "polling" ELSE consumer
  /\ UNCHANGED <<config, timer, queued, errors, fires>>

\* The consumer calls poll_next again.  Events still queued come out before the
\* socket and the timer are looked at.
PollAgain ==
  /\ consumer = "ready"
  /\ IF queued > 0 THEN queued' = queued - 1 /\ consumer' = "ready"
     ELSE consumer' = "polling" /\ UNCHANGED queued
  /\ UNCHANGED <<config, timer, socket, errors, fires, heard>>

\* touch_packet
TouchPacket ==
  /\ idle' = 0 /\ due' = warn
  /\ soft_warned' = FALSE /\ dead_link_pending' = FALSE
  /\ errors' = 0

\* poll_next reads a datagram that queues n events: none, and the loop goes on; or
\* the first is returned.
RecvPacket(n) ==
  /\ consumer = "polling" /\ socket > 0
  /\ TouchPacket
  /\ socket' = socket - 1
  /\ IF n = 0 THEN queued' = 0 /\ consumer' = "polling" ELSE queued' = n - 1 /\ consumer' = "ready"
  /\ UNCHANGED <<config, fires, heard>>

\* A datagram that does not decode is returned as an error at once; it is a sign of
\* life all the same.
RecvBad ==
  /\ consumer = "polling" /\ socket > 0
  /\ TouchPacket
  /\ socket' = socket - 1
  /\ consumer' = "ready"
  /\ UNCHANGED <<config, queued, fires, heard>>

\* An error of the socket is returned; it is no sign of life.
RecvError ==
  /\ consumer \in {"polling", "parked"}
  /\ consumer' = "ready"
  /\ UNCHANGED <<config, timer, queued, socket, errors, fires, heard>>

\* The recovery client's poll_next, with frames to hand over: ingest_retransmit
\* queues n events and counts as a sign of life; then the stream is polled.
Retransmit(n) ==
  /\ consumer \in {"ready", "parked"}
  /\ TouchPacket
  /\ heard' = 0
  /\ IF queued + n = 0 THEN consumer' = "polling" /\ UNCHANGED queued
     ELSE consumer' = "ready" /\ queued' = queued + n - 1
  /\ UNCHANGED <<config, socket, fires>>

\* Mutant: no dead_link_pending.
PeerSilentRepeats == idle >= dead

\* check_silence: whether PeerSilent is to be returned, and the two flags.
PeerSilent == idle >= dead /\ ~dead_link_pending

\* Mutant: the soft warning also marks the link dead.
CheckSilenceWarnIsDead ==
  /\ soft_warned' = (soft_warned \/ idle >= warn)
  /\ dead_link_pending' = (dead_link_pending \/ idle >= warn)

CheckSilence ==
  /\ soft_warned' = (soft_warned \/ idle >= warn)
  /\ dead_link_pending' = (dead_link_pending \/ PeerSilent)

\* Mutant: the deadline is counted from now, not from last_seen.
RearmFromNow == due' = IF ~soft_warned' THEN warn ELSE dead

\* rearm_silence_timer, after check_silence
RearmSilenceTimer == due' = (IF ~soft_warned' THEN warn ELSE dead) - idle

\* Mutant: the timer is looked at before the socket.
TimerReadyFirst ==
  /\ consumer = "polling" /\ due <= 0
  /\ CheckSilence
  /\ IF PeerSilent THEN due' = dead /\ consumer' = "ready" /\ errors' = errors + 1
     ELSE RearmSilenceTimer /\ UNCHANGED <<consumer, errors>>
  /\ fires' = fires + 1
  /\ UNCHANGED <<config, idle, queued, socket, heard>>

\* The timer branch of poll_next, once the socket has nothing: an expired timer is
\* checked, and either PeerSilent is returned with the timer a whole dead-link period
\* away, or it is re-armed and the loop goes on.
TimerReady ==
  /\ consumer = "polling" /\ socket = 0 /\ due <= 0
  /\ CheckSilence
  /\ IF PeerSilent THEN due' = dead /\ consumer' = "ready" /\ errors' = errors + 1
     ELSE RearmSilenceTimer /\ UNCHANGED <<consumer, errors>>
  /\ fires' = fires + 1
  /\ UNCHANGED <<config, idle, queued, socket, heard>>

\* The timer is not due either: Poll::Pending.
TimerPending ==
  /\ consumer = "polling" /\ socket = 0 /\ due > 0
  /\ consumer' = "parked"
  /\ UNCHANGED <<config, timer, queued, socket, errors, fires, heard>>

Receive == RecvBad \/ \E n \in 0..MaxBatch : RecvPacket(n)

SilenceNext ==
  \/ Tick
  \/ Arrive
  \/ PollAgain
  \/ \E n \in 0..MaxBatch : RecvPacket(n)
  \/ RecvBad
  \/ RecvError
  \/ \E n \in 0..MaxBatch : Retransmit(n)
  \/ TimerReady
  \/ TimerPending

\* Time goes on, the consumer keeps polling, and the executor runs it.  The fairness of
\* what follows a look at the socket is strong: the socket does not fail every time.
SilenceFairness ==
  /\ WF_silencevars(Tick)
  /\ WF_silencevars(PollAgain)
  /\ SF_silencevars(Receive)
  /\ SF_silencevars(TimerReady)
  /\ SF_silencevars(TimerPending)

SilenceSpec == SilenceInit /\ [][SilenceNext]_silencevars /\ SilenceFairness
-----------------------------------------------------------------------------
\* The fields of MoldStream that poll_next, touch_packet and check_silence share have
\* their types.
SilenceTypeOK ==
  /\ idle \in Nat /\ due \in Int /\ queued \in Nat /\ socket \in Nat
  /\ errors \in Nat /\ fires \in Nat /\ heard \in Nat
  /\ soft_warned \in BOOLEAN /\ dead_link_pending \in BOOLEAN
  /\ consumer \in {"ready", "polling", "parked"}

\* PeerSilent is returned once for a silence, however long it lasts and however often
\* the consumer polls, and never without the soft warning (check_silence).
SilentOnce == errors = (IF dead_link_pending THEN 1 ELSE 0) /\ (errors = 1 => soft_warned)

\* PeerSilent tells the truth about the link, and not only about what was read of it: no
\* datagram has come for the whole threshold, not even one that still waits in the socket
\* when the timer has expired before the consumer polls (poll_next).
SilentIsTrue == [][errors' > errors => heard >= dead]_silencevars

\* A consumer is never parked with no wake-up to come: its timer is still running,
\* and set for no later than the moment the next report falls due.
ParkedIsArmed ==
  consumer = "parked" =>
    /\ due > 0
    /\ ~dead_link_pending => due + idle <= IF soft_warned THEN dead ELSE warn

\* A link that stays silent is reported: once the silence has lasted both thresholds,
\* PeerSilent is returned unless a packet comes first.
SilenceReported == (idle >= warn /\ idle >= dead) ~> (errors = 1 \/ idle < dead)

\* The timer does not loop hot: at one instant it expires at most once.
NotHot == fires <= 1
=============================================================================
