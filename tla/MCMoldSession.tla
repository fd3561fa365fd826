--------------------------- MODULE MCMoldSession ---------------------------
(* Three messages in packets of one or two, and up to HeartbeatBound heartbeats.
   overflow_drops, which only counts, is stopped at DropBound. *)
EXTENDS MoldSession

CONSTANTS DropBound, HeartbeatBound

MCSource == <<"x", "y", "bad">>
MCSizeOf == [b \in Body |-> 1]
MCStream ==
  [s \in Session |-> [n \in 0..SeqMax |->
     IF s = PubSession /\ n - StartSeq + 1 \in DOMAIN Source THEN Source[n - StartSeq + 1]
     ELSE "x"]]
MCDatagrams == SessionPackets
MCRepairs == SessionRepairs

Readable == {pkt \in sent : Ingest(rx, pkt).overflow_drops <= DropBound}

FewHeartbeats == Cardinality({pkt \in sent : pkt.kind = "heartbeat"}) <= HeartbeatBound

Client(A) == UNCHANGED pubvars /\ A
Publisher(A) == UNCHANGED clientvars /\ A

MCNext ==
  \/ Publisher(TakeMessage)
  \/ Publisher(SourceExhausted)
  \/ Publisher(SelectFails)
  \/ Publisher(HeartbeatDue) /\ FewHeartbeats'
  \/ Publisher(FlushCache)
  \/ Publisher(FlushSend)
  \/ Publisher(EosSend)
  \/ Publisher(SendFails)
  \/ Publisher(EosMark)
  \/ Client(TaskAnswered)
  \/ Client(TaskFails)
  \/ Client(TaskExpires)
  \/ Client(TaskPanics)
  \/ Client(ClientPoll(Readable))
  \/ Client(GiveUp)

MCSpec ==
  /\ SessionInit /\ [][MCNext]_sessionvars
  /\ WF_sessionvars(Client(TaskStep))
  /\ WF_active(PollEnded)
  /\ WF_sessionvars(Publisher(Progress))
=============================================================================
