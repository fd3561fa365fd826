--------------------------- MODULE MCMoldSilence ---------------------------
(* Silences of up to IdleBound units, well past both thresholds, and up to
   SocketBound datagrams that wait. *)
EXTENDS MoldSilence

CONSTANTS IdleBound,   \* the longest silence
          FireBound,   \* expiries at one instant, at most
          SocketBound  \* datagrams in the socket, at most

MCTick == Tick /\ idle < IdleBound
MCArrive == Arrive /\ socket < SocketBound
MCTimerReady == TimerReady /\ fires < FireBound

MCNext ==
  \/ MCTick
  \/ MCArrive
  \/ PollAgain
  \/ \E n \in 0..MaxBatch : RecvPacket(n)
  \/ RecvBad
  \/ RecvError
  \/ \E n \in 0..MaxBatch : Retransmit(n) /\ queued' <= MaxBatch
  \/ MCTimerReady
  \/ TimerPending

MCSpec ==
  /\ SilenceInit /\ [][MCNext]_silencevars
  /\ WF_silencevars(MCTick) /\ WF_silencevars(PollAgain)
  /\ SF_silencevars(Receive) /\ SF_silencevars(MCTimerReady) /\ SF_silencevars(TimerPending)
=============================================================================
