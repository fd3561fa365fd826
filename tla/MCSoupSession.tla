--------------------------- MODULE MCSoupSession ---------------------------
(* The client's count grows with every warmup, so it is stopped at CountBound.
   Warmup messages, failing stores and refused logins are tried one at a time. *)
EXTENDS SoupSession

CONSTANT CountBound

Server(A) == A /\ UNCHANGED clientvars
Client(A) == A /\ UNCHANGED servervars

MCNext ==
  \/ Server(IngestStart)
  \/ Server(IngestStore)
  \/ Server(IngestDrop)
  \/ Server(IngestSend)
  \/ Server(IngestEnds)
  \/ Server(Accept)
  \/ Server(Shutdown)
  \/ Server(WaitIngest)
  \/ Server(JoinIngest)
  \/ Server(Return)
  \/ Server(LoginRefused)
  \/ Server(LoginGranted)
  \/ Server(Warmup)
  \/ Server(TaskFails)
  \/ Server(Replay)
  \/ Server(LiveRecv)
  \/ Server(LiveLagged)
  \/ Server(LiveClosed)
  \/ Server(ClientGone)
  \/ Client(Connect /\ Reachable)
  \/ Client(ConnectFails)
  \/ Client(LoginSucceeds)
  \/ Client(LoginFails)
  \/ Client(ReadMessage /\ client'.expected <= CountBound)
  \/ Client(Disconnected)

MCInit ==
  /\ Init
  /\ cfg.flaky => cfg.warmup = 0
  /\ cfg.refuse => ~cfg.flaky /\ cfg.warmup = 0

MCSpec == MCInit /\ [][MCNext]_vars /\ Fairness
=============================================================================
