----------------------------- MODULE SoupServer -----------------------------
(***************************************************************************)
(* SoupServer of itch-soup/src/server.rs: the ingest task that stores and  *)
(* broadcasts the source's messages, the accept loop and its shutdown, and *)
(* handle_subscriber, the task of one connection.  Subscribers do not meet *)
(* but in the broadcast, where each has its own cursor, so one is enough.  *)
(*                                                                         *)
(* A message is its place in the source; 0 is a warmup message.  log is    *)
(* all that was broadcast, task.pos how much of it the subscriber's        *)
(* receiver has consumed or missed.  A step ends where the task awaits.    *)
(***************************************************************************)
EXTENDS SoupLink, SeqStore

CONSTANTS NMsgs,         \* messages the source yields before it is exhausted
          StartSeqs,     \* with_start_sequence
          Capacities,    \* of the store
          Buffers,       \* with_broadcast_capacity (powers of two)
          Warmups,       \* how many messages SubscriptionPolicy::warmup returns
          Chunk          \* frames asked of the store at once (256)

ASSUME SoupAssumption ==
  /\ NMsgs \in Nat /\ Chunk \in Nat \ {0}
  /\ StartSeqs \subseteq Nat \ {0} /\ Capacities \subseteq Nat
  /\ Buffers \subseteq Nat \ {0} /\ Warmups \subseteq Nat

VARIABLES cfg,      \* [start, buffer, warmup; refuse: the login is rejected;
                    \*  flaky: store and policy may fail]
          store, ingest, log, server, task

servervars == <<cfg, store, ingest, log, server, task>>

NoTask == [pc |-> "none", pos |-> 0, latest |-> 0, next_expected |-> 0]

InitServer ==
  /\ cfg \in [start : StartSeqs, buffer : Buffers, warmup : Warmups,
              refuse : BOOLEAN, flaky : BOOLEAN]
  /\ \E c \in Capacities : store = NewStore(c)
  /\ ingest = [pc |-> "start", next_seq |-> 0, taken |-> 0]
  /\ log = <<>> /\ server = "accepting" /\ task = NoTask
-----------------------------------------------------------------------------
\* The ingest task numbers on from what the store holds.
IngestStart ==
  /\ ingest.pc = "start"
  /\ ingest' = [ingest EXCEPT !.pc = "pull",
                              !.next_seq = IF Latest(store) + 1 > cfg.start
                                           THEN Latest(store) + 1 ELSE cfg.start]
  /\ UNCHANGED <<cfg, store, log, server, task, link>>

\* Mutant: broadcast first, store after.
IngestStoreUnstored ==
  /\ ingest.pc = "pull" /\ ingest.taken < NMsgs
  /\ ingest' = [ingest EXCEPT !.pc = "send", !.taken = @ + 1]
  /\ UNCHANGED <<cfg, store, log, server, task, link>>

\* The source yields a message, and it is stored under the next number.
IngestStore ==
  /\ ingest.pc = "pull" /\ ingest.taken < NMsgs
  /\ Accepts(store, ingest.next_seq, ingest.taken + 1)
  /\ store' = Store(store, ingest.next_seq, ingest.taken + 1)
  /\ ingest' = [ingest EXCEPT !.pc = "send", !.taken = @ + 1]
  /\ UNCHANGED <<cfg, log, server, task, link>>

\* The store refuses it: the message is dropped, its number is not used up.
IngestDrop ==
  /\ ingest.pc = "pull" /\ ingest.taken < NMsgs
  /\ cfg.flaky \/ ~Accepts(store, ingest.next_seq, ingest.taken + 1)
  /\ ingest' = [ingest EXCEPT !.taken = @ + 1]
  /\ UNCHANGED <<cfg, store, log, server, task, link>>

\* The stored message is broadcast, and only then the number moves on.
IngestSend ==
  /\ ingest.pc = "send"
  /\ log' = Append(log, [seq |-> ingest.next_seq, msg |-> ingest.taken])
  /\ ingest' = [ingest EXCEPT !.pc = "pull", !.next_seq = @ + 1]
  /\ UNCHANGED <<cfg, store, server, task, link>>

\* The source is exhausted, or fails: ingest ends and its sender is dropped.
IngestEnds ==
  /\ ingest.pc = "pull"
  /\ ingest' = [ingest EXCEPT !.pc = "done"]
  /\ UNCHANGED <<cfg, store, log, server, task, link>>
-----------------------------------------------------------------------------
\* The accept loop: the new task's receiver is subscribed before the task starts.
Accept ==
  /\ server = "accepting" /\ sock = "backlog" /\ task = NoTask
  /\ sock' = "open"
  /\ task' = [NoTask EXCEPT !.pc = "login", !.pos = Len(log)]
  /\ UNCHANGED <<cfg, store, ingest, log, server, asked, wire>>

\* The accept loop ends on the shutdown signal, or when ingest has ended; either way
\* ingest is then waited for.
Shutdown ==
  /\ server = "accepting"
  /\ server' = "joining"
  /\ UNCHANGED <<cfg, store, ingest, log, task, link>>

WaitIngest ==
  /\ server = "accepting" /\ ingest.pc = "done"
  /\ server' = "joining"
  /\ UNCHANGED <<cfg, store, ingest, log, task, link>>

JoinIngest ==
  /\ server = "joining" /\ ingest.pc = "done"
  /\ server' = "grace"
  /\ UNCHANGED <<cfg, store, ingest, log, task, link>>

\* Mutant: the subscribers are waited for without a limit.
ReturnWaits ==
  /\ server = "grace" /\ task = NoTask
  /\ server' = "returned"
  /\ sock' = IF sock = "backlog" THEN "closed" ELSE sock
  /\ UNCHANGED <<cfg, store, ingest, log, task, asked, wire>>

\* The subscribers have ended, or shutdown_grace has passed: serve returns.  Only then
\* are the accept loop's sender and the listener dropped.
Return ==
  /\ server = "grace"
  /\ server' = "returned"
  /\ sock' = IF sock = "backlog" THEN "closed" ELSE sock
  /\ UNCHANGED <<cfg, store, ingest, log, task, asked, wire>>

\* Every sender of the broadcast is gone.
Closed == ingest.pc = "done" /\ server = "returned"
-----------------------------------------------------------------------------
\* handle_subscriber goes on with the connection of its task.
At(pc) == task.pc = pc /\ sock = "open"

\* The task ends; the socket closes behind what it has sent.
TaskEnds(packets) ==
  /\ task' = NoTask /\ sock' = "closed" /\ wire' = wire \o packets
  /\ UNCHANGED <<cfg, store, ingest, log, server, asked>>

TaskGoesOn(new, packets) ==
  /\ task' = new /\ wire' = wire \o packets
  /\ UNCHANGED <<cfg, store, ingest, log, server, sock, asked>>

\* The login is rejected: credentials, or a session that is not this one.
LoginRefused == At("login") /\ cfg.refuse /\ TaskEnds(<<LoginRejected>>)

\* Where the subscriber resumes; 0 asks for the next live message.
ResumeFrom(latest) == IF asked = 0 THEN latest + 1 ELSE asked

\* latest is read, and the login accepted with the number to come next.  A store that
\* cannot tell is taken to be empty.
LoginGranted ==
  /\ At("login") /\ ~cfg.refuse
  /\ \E latest \in {Latest(store)} \cup (IF cfg.flaky THEN {0} ELSE {}) :
       TaskGoesOn([task EXCEPT !.pc = "warmup", !.latest = latest,
                               !.next_expected = ResumeFrom(latest)],
                  <<LoginAccepted(ResumeFrom(latest))>>)

\* The warmup messages go out as sequenced data.
Warmup ==
  /\ At("warmup")
  /\ TaskGoesOn([task EXCEPT !.pc = IF task.next_expected <= task.latest
                                    THEN "replay" ELSE "live"],
                [i \in 1..cfg.warmup |-> SequencedData(0, 0)])

\* policy.warmup() or store.range() fails.
TaskFails == cfg.flaky /\ (At("warmup") \/ At("replay")) /\ TaskEnds(<<>>)

\* Mutant: the replay stops at the latest number read at the login.
ReplayToLatest ==
  /\ At("replay")
  /\ LET range == StoreRange(store, task.next_expected, Chunk)
     IN  IF range = <<>> \/ task.next_expected >= task.latest
         THEN TaskGoesOn([task EXCEPT !.pc = "live"], <<>>)
         ELSE TaskGoesOn([task EXCEPT !.next_expected = range[Len(range)].seq + 1],
                         [i \in DOMAIN range |-> SequencedData(range[i].seq, range[i].msg)])

\* The loop over store.range: chunk by chunk until the store has no next number.
Replay ==
  /\ At("replay")
  /\ LET range == StoreRange(store, task.next_expected, Chunk)
     IN  IF range = <<>> THEN TaskGoesOn([task EXCEPT !.pc = "live"], <<>>)
         ELSE TaskGoesOn([task EXCEPT !.next_expected = range[Len(range)].seq + 1],
                         [i \in DOMAIN range |-> SequencedData(range[i].seq, range[i].msg)])

Lagging == Len(log) - task.pos > cfg.buffer

\* Mutant: what the replay has covered is sent again.
LiveRecvRepeats ==
  /\ At("live") /\ ~Lagging /\ task.pos < Len(log)
  /\ LET m == log[task.pos + 1]
     IN  TaskGoesOn([task EXCEPT !.pos = @ + 1, !.next_expected = m.seq + 1],
                    <<SequencedData(m.seq, m.msg)>>)

\* A broadcast is received: what the replay has covered is skipped.
LiveRecv ==
  /\ At("live") /\ ~Lagging /\ task.pos < Len(log)
  /\ LET m == log[task.pos + 1]
     IN  IF m.seq < task.next_expected THEN TaskGoesOn([task EXCEPT !.pos = @ + 1], <<>>)
         ELSE TaskGoesOn([task EXCEPT !.pos = @ + 1, !.next_expected = m.seq + 1],
                         <<SequencedData(m.seq, m.msg)>>)

\* A subscriber that has missed a broadcast is dropped without a word.
LiveLagged == At("live") /\ Lagging /\ TaskEnds(<<>>)

\* The broadcast is closed and drained: the session ends.
LiveClosed ==
  At("live") /\ task.pos = Len(log) /\ Closed /\ TaskEnds(<<EndOfSession>>)

\* The client has gone: the task's read or send fails.
ClientGone ==
  /\ task # NoTask /\ sock = "none"
  /\ task' = NoTask
  /\ UNCHANGED <<cfg, store, ingest, log, server, link>>

TaskStep ==
  \/ LoginRefused \/ LoginGranted \/ Warmup \/ TaskFails \/ Replay
  \/ LiveRecv \/ LiveLagged \/ LiveClosed \/ ClientGone

NextServer ==
  \/ IngestStart \/ IngestStore \/ IngestDrop \/ IngestSend \/ IngestEnds
  \/ Accept \/ Shutdown \/ WaitIngest \/ JoinIngest \/ Return
  \/ TaskStep
-----------------------------------------------------------------------------
\* What is broadcast was stored before, under the same number, and the numbers run on
\* without a hole: a subscriber that drops out can ask for what it missed.
StoredBeforeSent ==
  \A i \in DOMAIN log :
    /\ log[i].seq = log[1].seq + i - 1
    /\ log[i].seq <= store.max_seen
    /\ log[i].seq \in Stored(store) => store.map[log[i].seq] = log[i].msg

\* From the replay into the live broadcast nothing is skipped that the store still
\* holds next, however ingest and the login interleave: the receiver was subscribed
\* before latest was read (handle_subscriber).
ReplayMeetsLive ==
  [][LET new == {wire'[i].seq : i \in (Len(wire) + 1)..Len(wire')}
         skipped == (task.next_expected..(task'.next_expected - 1)) \ new
     IN  ~cfg.flaky /\ task.pc \in {"replay", "live"} /\ task' # NoTask /\ skipped # {}
           => task.next_expected \notin Stored(store)]_<<servervars, link>>

\* EndOfSession is the end: the store holds nothing that the subscriber waits for.
EndComplete ==
  [][~cfg.flaky /\ wire' = Append(wire, EndOfSession)
       => task.next_expected \notin Stored(store)]_<<servervars, link>>

\* On a graceful end EndOfSession is sent before the listener is dropped.
EndBeforeReturn ==
  [][wire' = Append(wire, EndOfSession) => server # "returned"]_<<servervars, link>>
=============================================================================
