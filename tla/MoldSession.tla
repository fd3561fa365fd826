---------------------------- MODULE MoldSession ----------------------------
(***************************************************************************)
(* A MoldUDP64 session end to end: the publisher, its retransmission cache *)
(* and request servers, a network that loses, repeats and reorders its     *)
(* datagrams, and a GapRecoveryClient.  A datagram once sent stays in      *)
(* sent, so the client may read it never, once or again.                   *)
(***************************************************************************)
EXTENDS MoldPublisher, GapRecovery

\* The runs of consecutive messages of the source: the first number and the length.
Runs ==
  {run \in (StartSeq..(StartSeq + Len(Source))) \X (1..Len(Source)) :
     run[1] + run[2] <= StartSeq + Len(Source)}

\* All the packets of the session, and all the answers about it.
SessionPackets ==
  {DataPacket(run[1], [i \in 1..run[2] |-> Source[run[1] + i - StartSeq]]) : run \in Runs}
  \cup [session : {PubSession}, kind : {"heartbeat", "eos"},
        seq : StartSeq..(StartSeq + Len(Source)), blocks : {<<>>}]

SessionRepairs ==
  {<<>>} \cup
  {[i \in 1..run[2] |->
      [sequence |-> run[1] + i - 1, body |-> Source[run[1] + i - StartSeq]]] :
     run \in {x \in Runs : x[2] <= MaxResponse}}

\* The receiver is told of a stream that has the source in it, and may get any packet
\* and any answer of the session.  The numbers do not run out, and the receiver does
\* not ask for numbers before the publisher's first one.
ASSUME SessionAssumption ==
  /\ PubSession \in Session
  /\ StartSeq + Len(Source) <= SeqMax + 1
  /\ \A i \in DOMAIN Source : Stream[PubSession][StartSeq + i - 1] = Source[i]
  /\ SessionPackets \subseteq Datagrams
  /\ SessionRepairs \subseteq Repairs
  /\ \A s \in Starts : s = 0 \/ s >= StartSeq
  /\ NServers \in Nat /\ Retries \in Nat /\ MaxResponse \in Nat

sessionvars == <<pubvars, clientvars>>

SessionInit == PublisherInit /\ InitClient

SessionNext ==
  \/ PublisherNext /\ UNCHANGED clientvars
  \/ NextClient /\ UNCHANGED pubvars

\* The publisher gets on, as in PublisherSpec; so does the recovery task, because every
\* await of it has a timeout; and its end wakes the client, which polls.
SessionFairness ==
  /\ WF_sessionvars(Progress /\ UNCHANGED clientvars)
  /\ WF_sessionvars(TaskStep /\ UNCHANGED pubvars)
  /\ WF_active(PollEnded)

SessionSpec == SessionInit /\ [][SessionNext]_sessionvars /\ SessionFairness
-----------------------------------------------------------------------------
\* A recovery is only ever about at least one number, and numbers the publisher has
\* sent: a Gap is inferred from what a later packet implies (ingest, spawn_recovery).
TaskWellFounded ==
  active.state # "none" =>
    /\ active.from <= active.to
    /\ active.from..active.to \subseteq Published

\* The session, with its publisher, lossy network and request servers, implements the
\* receiver's specification: whatever is proved of MoldReceiver holds of it.
ImplementsReceiver == Spec

\* What the caller gets, end to end: the source's messages in the source's order, none
\* twice, from the receiver's first number on.
SourceOrder ==
  [][handed' # handed => item'.body = Source[rx'.base - StartSeq + handed']]_vars
=============================================================================
