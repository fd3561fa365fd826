----------------------------- MODULE TcpServer ------------------------------
(***************************************************************************)
(* Server of itch-tcp/src/server.rs: the ingest task that numbers, stores  *)
(* and broadcasts what the source yields, the accept loop, and             *)
(* handle_subscriber, the task of one connection, with its warmup from a   *)
(* fixed list or from the store (WarmupFromSeqStore).  The database        *)
(* outlives the server, which may crash and start again.                   *)
(*                                                                         *)
(* A message is its place in the source; 0 is a message of the fixed       *)
(* warmup list.  A step ends where a task awaits.  A call to the database  *)
(* can fail, before it took effect or after, when only its answer is lost. *)
(***************************************************************************)
EXTENDS SharedStore, Sources

CONSTANTS Subscribers,
          Setups,        \* [backend, policy, kind, pacing, items] of the server: items is
                         \* what the source yields
          Capacity,      \* with_broadcast_capacity (a power of two)
          MaxFaults,     \* calls of the ingest task to the database that fail
          MaxRestarts

ASSUME TcpAssumption ==
  /\ Capacity \in Nat \ {0} /\ MaxFaults \in Nat /\ MaxRestarts \in Nat
  /\ \A c \in Setups :
       /\ c.backend \in {"null", "postgres", "redis"} /\ c.kind \in {"iterator", "kafka"}
       /\ c.items \in Seq([ok : BOOLEAN, id : Nat, ts : Nat])
       /\ \A i \in DOMAIN c.items : c.items[i].id = IF c.items[i].ok THEN i ELSE 0
       /\ c.kind = "iterator" => \A i \in DOMAIN c.items : c.items[i].ok

VARIABLES setup, source, db,
          ingest,    \* the ingest task: pc, next_seq, and the message in hand
          ring,      \* what the broadcast channel holds, the last Capacity messages
          serve,     \* the accept loop: "accepting" or "returned"
          subs,      \* the subscriber tasks
          faults, restarts,
          log,       \* history: [seq, msg] of all that was broadcast
          held,      \* history: [seq, msg] of all that the database ever held
          taken,     \* history: what the source has yielded
          gone,      \* history: what was dropped, or lost in a crash
          doubtful   \* history: the numbering may repeat, or a failed INSERT took effect

tasks == <<ingest, ring, serve, subs>>
history == <<log, held, taken, gone, doubtful>>
vars == <<setup, source, db, tasks, faults, restarts, history>>

NewIngest == [pc |-> "start", next_seq |-> 0, msg |-> 0]

NoTask == [pc |-> "out", pos |-> 0, since |-> 0, latest |-> 0, earliest |-> 0,
           warm |-> <<>>, sent |-> <<>>, live |-> <<>>, aged |-> FALSE]
Finished == [NoTask EXCEPT !.pc = "closed"]

Init ==
  /\ setup \in Setups
  /\ source = NewPaced(setup.kind, setup.items, setup.pacing)
  /\ db = EmptyDatabase
  /\ ingest = NewIngest /\ ring = <<>> /\ serve = "accepting"
  /\ subs = [s \in Subscribers |-> NoTask]
  /\ faults = 0 /\ restarts = 0
  /\ log = <<>> /\ held = {} /\ taken = {} /\ gone = {} /\ doubtful = FALSE
-----------------------------------------------------------------------------
\* The ingest task: the numbering goes on from what the store holds ...
IngestStart ==
  /\ ingest.pc = "start"
  /\ ingest' = [ingest EXCEPT !.pc = "pull", !.next_seq = Latest(setup.backend, db) + 1]
  /\ UNCHANGED <<setup, source, db, ring, serve, subs, faults, restarts, history>>

\* ... or from 1, when the store cannot tell.
IngestStartBlind ==
  /\ ingest.pc = "start" /\ setup.backend # "null" /\ faults < MaxFaults
  /\ ingest' = [ingest EXCEPT !.pc = "pull", !.next_seq = 1]
  /\ faults' = faults + 1
  /\ doubtful' = (doubtful \/ Latest(setup.backend, db) # 0)
  /\ UNCHANGED <<setup, source, db, ring, serve, subs, restarts, log, held, taken, gone>>

\* source.next(): a message goes to the store; an error of any kind, like the end of the
\* stream, ends the task and drops its sender.
IngestPull ==
  /\ ingest.pc = "pull"
  /\ \E step \in poll_next(source) :
       /\ step.src # source \/ step.ret.poll # "pending"
       /\ source' = step.src
       /\ ingest' = CASE step.ret.poll = "item" ->
                           [ingest EXCEPT !.pc = "store", !.msg = step.ret.item.id]
                      [] step.ret.poll = "pending" -> ingest
                      [] OTHER -> [ingest EXCEPT !.pc = "done"]
       /\ taken' = taken \cup ({source.inner[i].id : i \in
                              1..(Len(source.inner) - Len(step.src.inner))} \ {0})
  /\ UNCHANGED <<setup, db, ring, serve, subs, faults, restarts, log, held, gone, doubtful>>

\* What the command in progress does to the database, and what comes after it.
Command ==
  CASE setup.backend = "null" -> null_store(db)
    [] setup.backend = "postgres" -> pg_insert(db, ingest.next_seq, ingest.msg)
    [] setup.backend = "redis" /\ ingest.pc = "store" -> redis_set(db, ingest.next_seq, ingest.msg)
    [] setup.backend = "redis" /\ ingest.pc = "eval" -> redis_eval(db, ingest.next_seq)
    [] setup.backend = "redis" /\ ingest.pc = "floor" -> redis_floor(db, ingest.next_seq)

AfterCommand ==
  IF setup.backend # "redis" THEN "send"
  ELSE CASE ingest.pc = "store" -> "eval" [] ingest.pc = "eval" -> "floor"
         [] ingest.pc = "floor" -> "send"

Fits == setup.backend = "postgres" => seq_to_i64(ingest.next_seq)

Holding(base) == held \cup {[seq |-> n, msg |-> base.rows[n]] : n \in DOMAIN base.rows}

\* Mutant: broadcast without waiting for the store.
IngestStoreUnstored ==
  /\ ingest.pc \in {"store", "eval", "floor"} /\ Fits
  /\ ingest' = [ingest EXCEPT !.pc = "send"]
  /\ UNCHANGED <<setup, source, db, ring, serve, subs, faults, restarts, history>>

\* store.store(next_seq, msg), one command at a time.
IngestStore ==
  /\ ingest.pc \in {"store", "eval", "floor"} /\ Fits
  /\ db' = Command /\ held' = Holding(Command)
  /\ ingest' = [ingest EXCEPT !.pc = AfterCommand]
  /\ UNCHANGED <<setup, source, ring, serve, subs, faults, restarts, log, taken, gone,
                 doubtful>>

\* It fails: the frame is dropped, its number is not used up.
IngestDrop ==
  /\ ingest.pc \in {"store", "eval", "floor"} /\ setup.backend # "null"
  /\ ~Fits \/ faults < MaxFaults
  /\ \E effective \in (IF Fits THEN BOOLEAN ELSE {FALSE}) :
       /\ db' = IF effective THEN Command ELSE db
       /\ held' = IF effective THEN Holding(Command) ELSE held
       /\ doubtful' = (doubtful \/ (effective /\ setup.backend = "postgres"))
  /\ ingest' = [ingest EXCEPT !.pc = "pull", !.msg = 0]
  /\ faults' = IF Fits THEN faults + 1 ELSE faults
  /\ gone' = gone \cup {ingest.msg}
  /\ UNCHANGED <<setup, source, ring, serve, subs, restarts, log, taken>>

\* ingest_tx.send: the channel keeps the last Capacity messages.
IngestSend ==
  /\ ingest.pc = "send"
  /\ ring' = IF Len(ring) = Capacity THEN Append(Tail(ring), ingest.msg)
             ELSE Append(ring, ingest.msg)
  /\ log' = Append(log, [seq |-> ingest.next_seq, msg |-> ingest.msg])
  /\ ingest' = [ingest EXCEPT !.pc = "pull", !.next_seq = @ + 1, !.msg = 0]
  /\ UNCHANGED <<setup, source, db, serve, subs, faults, restarts, held, taken, gone,
                 doubtful>>
-----------------------------------------------------------------------------
\* Only the subscriber's task changes; a client may go at any time, which the task notices
\* when it sends.
Task(s, new) ==
  /\ subs' = [subs EXCEPT ![s] = new]
  /\ UNCHANGED <<setup, source, db, ingest, ring, serve, faults, restarts, history>>

TaskEnds(s) == Task(s, Finished)

\* The accept loop: the receiver is subscribed before the task starts.
Accept(s) ==
  /\ serve = "accepting" /\ subs[s].pc = "out"
  /\ Task(s, [NoTask EXCEPT !.pc = "policy", !.pos = Len(log), !.since = Len(log)])

\* policy.warmup(): StaticPolicy has its list; the policy on the store begins with latest,
\* and 0 means there is nothing.
WarmupStatic(s) ==
  /\ subs[s].pc = "policy" /\ setup.policy = "static"
  /\ Task(s, [subs[s] EXCEPT !.pc = "warmup", !.warm = <<0>>])

WarmupLatest(s) ==
  /\ subs[s].pc = "policy" /\ setup.policy = "store"
  /\ LET latest == Latest(setup.backend, db)
     IN  Task(s, [subs[s] EXCEPT !.pc = IF latest = 0 THEN "warmup" ELSE "earliest",
                                 !.latest = latest])

WarmupEarliest(s) ==
  /\ subs[s].pc = "earliest"
  /\ Task(s, [subs[s] EXCEPT !.pc = "range", !.earliest = Earliest(setup.backend, db)])

\* count = latest - earliest + 1, in unsigned arithmetic.
Count(t) == t.latest + 1 - t.earliest

\* When the lowest number was read after the highest had expired the subtraction
\* underflows: the task panics, or, if only just and in a build that wraps, asks for 0.
WarmupUnderflow(s) ==
  /\ subs[s].pc = "range" /\ subs[s].earliest > subs[s].latest
  /\ \/ TaskEnds(s)
     \/ Count(subs[s]) = 0 /\ Task(s, [subs[s] EXCEPT !.pc = "warmup"])

\* range(earliest, count): one SELECT of Postgres, ...
WarmupSelect(s) ==
  /\ subs[s].pc = "range" /\ setup.backend = "postgres" /\ Count(subs[s]) > 0
  /\ Task(s, [subs[s] EXCEPT !.pc = "warmup",
                             !.warm = pg_range(db, subs[s].earliest, Count(subs[s]))])

\* ... or one GET after the other of Redis.
WarmupGet(s) ==
  LET t == subs[s]
      seq == t.earliest + Len(t.warm)
  IN  /\ t.pc = "range" /\ setup.backend = "redis" /\ Count(t) > 0
      /\ IF Len(t.warm) < Count(t) /\ redis_has(db, seq)
         THEN Task(s, [t EXCEPT !.warm = Append(@, redis_get(db, seq))])
         ELSE Task(s, [t EXCEPT !.pc = "warmup"])

\* A read of the store fails: the connection is closed.
WarmupFails(s) ==
  /\ subs[s].pc \in {"policy", "earliest", "range"}
  /\ setup.policy = "store" /\ setup.backend # "null"
  /\ TaskEnds(s)

\* Mutant: the receiver is subscribed when the live loop begins.
WarmupSendJoins(s) ==
  /\ subs[s].pc = "warmup"
  /\ IF subs[s].warm = <<>>
     THEN Task(s, [subs[s] EXCEPT !.pc = "live", !.pos = Len(log), !.since = Len(log)])
     ELSE Task(s, [subs[s] EXCEPT !.warm = Tail(@), !.sent = Append(@, Head(subs[s].warm))])

\* framed.send of the warmup messages, then on to the live loop.
WarmupSend(s) ==
  /\ subs[s].pc = "warmup"
  /\ IF subs[s].warm = <<>> THEN Task(s, [subs[s] EXCEPT !.pc = "live"])
     ELSE Task(s, [subs[s] EXCEPT !.warm = Tail(@), !.sent = Append(@, Head(subs[s].warm))])
-----------------------------------------------------------------------------
\* How many of the messages broadcast the channel has forgotten.
Forgotten == Len(log) - Len(ring)

\* Mutant: a receiver that lags goes on with the oldest message there is.
LiveRecvSkips(s) ==
  /\ subs[s].pc = "live" /\ subs[s].pos < Len(log)
  /\ LET at == IF subs[s].pos < Forgotten THEN Forgotten ELSE subs[s].pos
     IN  Task(s, [subs[s] EXCEPT !.pos = at + 1,
                                 !.live = Append(@, ring[at - Forgotten + 1])])

\* rx.recv: the next message is sent.
LiveRecv(s) ==
  /\ subs[s].pc = "live" /\ Forgotten <= subs[s].pos /\ subs[s].pos < Len(log)
  /\ Task(s, [subs[s] EXCEPT !.pos = @ + 1,
                             !.live = Append(@, ring[subs[s].pos - Forgotten + 1])])

\* RecvError::Lagged: the subscriber is dropped.
LiveLagged(s) == subs[s].pc = "live" /\ subs[s].pos < Forgotten /\ TaskEnds(s)

\* RecvError::Closed: every sender is gone, the accept loop's too, and all is received.
LiveClosed(s) ==
  /\ subs[s].pc = "live" /\ subs[s].pos = Len(log)
  /\ ingest.pc = "done" /\ serve = "returned"
  /\ TaskEnds(s)

\* The client has gone.
SendFails(s) ==
  /\ \/ subs[s].pc = "warmup" /\ subs[s].warm # <<>>
     \/ subs[s].pc = "live" /\ subs[s].pos < Len(log)
  /\ TaskEnds(s)

SubscriberStep(s) ==
  \/ WarmupStatic(s) \/ WarmupLatest(s) \/ WarmupEarliest(s) \/ WarmupUnderflow(s)
  \/ WarmupSelect(s) \/ WarmupGet(s) \/ WarmupFails(s) \/ WarmupSend(s)
  \/ LiveRecv(s) \/ LiveLagged(s) \/ LiveClosed(s) \/ SendFails(s)

\* Mutant: serve returns when every subscriber has disconnected, as its comment says.
ServeReturnsLast ==
  /\ serve = "accepting" /\ ingest.pc = "done"
  /\ \A s \in Subscribers : subs[s].pc \in {"out", "closed"}
  /\ serve' = "returned"
  /\ UNCHANGED <<setup, source, db, ingest, ring, subs, faults, restarts, history>>

\* wait_ingest ends the accept loop, and serve returns; nothing waits for the subscribers.
ServeReturns ==
  /\ serve = "accepting" /\ ingest.pc = "done"
  /\ serve' = "returned"
  /\ UNCHANGED <<setup, source, db, ingest, ring, subs, faults, restarts, history>>

\* A key of Redis expires.
Expire ==
  /\ setup.backend = "redis" /\ CanExpire(db)
  /\ db' = redis_expire(db)
  /\ subs' = [s \in Subscribers |->
               [subs[s] EXCEPT !.aged = @ \/ subs[s].pc \in {"policy", "earliest", "range"}]]
  /\ UNCHANGED <<setup, source, ingest, ring, serve, faults, restarts, history>>

\* The process dies and starts again: its tasks and what they held are gone.
Restart ==
  /\ restarts < MaxRestarts /\ ingest.pc # "start"
  /\ restarts' = restarts + 1
  /\ gone' = gone \cup ({ingest.msg, source.pending.id} \ {0})
  /\ source' = NewPaced(setup.kind, source.inner, setup.pacing)
  /\ ingest' = NewIngest /\ ring' = <<>> /\ serve' = "accepting"
  /\ subs' = [s \in Subscribers |-> IF subs[s].pc = "out" THEN NoTask ELSE Finished]
  /\ UNCHANGED <<setup, db, faults, log, held, taken, doubtful>>

IngestStep ==
  IngestStart \/ IngestStartBlind \/ IngestPull \/ IngestStore \/ IngestDrop \/ IngestSend

Next ==
  \/ IngestStep \/ ServeReturns \/ Expire \/ Restart
  \/ \E s \in Subscribers : Accept(s) \/ SubscriberStep(s)

\* The runtime runs every task that can go on, and a client reads what it is sent or goes.
Fairness ==
  /\ WF_vars(IngestStep) /\ WF_vars(ServeReturns)
  /\ \A s \in Subscribers : WF_vars(SubscriberStep(s))

Spec == Init /\ [][Next]_vars /\ Fairness
-----------------------------------------------------------------------------
\* Every message that was broadcast had been kept by the database under its number before
\* ("persisted ... before any subscriber sees the bytes", server.rs).  IngestStartBlind
\* numbers from 1 again, and PostgresSeqStore::store keeps the old row and reports success.
Persisted == setup.backend # "null" => \A e \in Range(log) : e \in held

\* The same where the numbering was never started blindly over rows that are there, and no
\* INSERT took effect although it failed.
PersistedBeforeSeen == doubtful \/ Persisted

\* A subscriber that warms up from the store misses nothing in between: of the messages
\* broadcast, all that lie between two that it was sent were sent to it.  This rests on
\* the order of Accept (subscribe) and the reads of WarmupFromSeqStore.  Excepted are the
\* cases above, and a subscriber of Redis under whose reads keys expired.
NoHole ==
  \A s \in Subscribers :
    LET seen == Range(subs[s].sent) \cup Range(subs[s].live)
    IN  setup.policy = "store" /\ ~doubtful /\ ~subs[s].aged =>
          \A i, k \in seen : \A e \in Range(log) :
            i < e.msg /\ e.msg < k => e.msg \in seen

\* What the source has yielded is broadcast in its order, unless a failed store call
\* dropped it or a crash lost it; nothing stays behind in the pacing adapter when the
\* stream ends (PacedSource::poll_next, the ingest loop).
Accounted ==
  /\ taken = {e.msg : e \in Range(log)} \cup gone
             \cup ({ingest.msg, source.pending.id} \ {0})
  /\ \A i, j \in DOMAIN log : i < j => log[i].msg < log[j].msg
  /\ ingest.pc = "done" => source.pending = Nothing

\* The broadcast, seen from its subscribers: the channel of the last Capacity messages,
\* with its positions and its RecvError::Lagged, gives each the messages from Accept on,
\* in order and without a hole, or drops it.
Feed == INSTANCE Broadcast WITH
          Messages <- UNION {DOMAIN c.items : c \in Setups},
          log <- [i \in 1..Len(log) |-> log[i].msg],
          joined <- {s \in Subscribers : subs[s].pc \notin {"out", "closed"}},
          since <- [s \in Subscribers |-> subs[s].since],
          got <- [s \in Subscribers |-> subs[s].live]

ImplementsBroadcast == Feed!Spec

\* When the source ends or fails, serve returns and every subscriber task ends, unless the
\* process is restarted (drop of ingest_tx, wait_ingest, RecvError::Closed).
Released ==
  ingest.pc = "done" ~>
    \/ ingest.pc # "done"
    \/ serve = "returned" /\ \A s \in Subscribers : subs[s].pc \in {"out", "closed"}
=============================================================================
