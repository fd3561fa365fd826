-------------------------- MODULE TcpServerProofs ---------------------------
(***************************************************************************)
(* Proofs about TcpServer, for every source, backend, policy and pacing,   *)
(* any number of subscribers, and any number of faults and restarts: the   *)
(* server implements Broadcast, persists before it broadcasts, and         *)
(* accounts for every message of the source.                               *)
(***************************************************************************)
EXTENDS TcpServer, IntervalTheorems

Backends == {"null", "postgres", "redis"}
Items == [ok : BOOLEAN, id : Nat, ts : Nat]
Paced ==
  [kind : {setup.kind}, inner : Seq(Items), pacing : {setup.pacing}, pending : Items,
   sleeping : BOOLEAN, last_ts : Nat, ticked : BOOLEAN]
InHand == {"store", "eval", "floor", "send"}
Ingests == [pc : {"start", "pull", "done"} \cup InHand, next_seq : Nat, msg : Nat]
Entries == [seq : Nat, msg : Nat]

\* A record with the fields that matter, and their types where they do.
IsDatabase(d) == {"rows", "floors", "latest", "age"} \subseteq DOMAIN d /\ d.latest \in Nat

IsTask(t) ==
  /\ {"pc", "pos", "since", "live"} \subseteq DOMAIN t
  /\ t.pos \in Nat /\ t.since \in Nat /\ t.live \in Seq(Nat)

Shape ==
  /\ setup \in Setups
  /\ IsDatabase(db)
  /\ setup.backend = "postgres" => DOMAIN db.rows \subseteq 0..I64Max
  /\ ingest \in Ingests
  /\ source \in Paced
  /\ log \in Seq(Entries) /\ ring \in Seq(Nat)
  /\ subs = [s \in Subscribers |-> subs[s]] /\ \A s \in Subscribers : IsTask(subs[s])

\* How far the source has been read.
Pulled == Len(setup.items) - Len(source.inner)

\* What is left of the source is its end; an item held back was read from it, and so was
\* the message in hand; one of the two at most is there.
SourceInv ==
  /\ Len(source.inner) <= Len(setup.items)
  /\ \A i \in 1..Len(source.inner) : source.inner[i] = setup.items[Pulled + i]
  /\ IF source.sleeping THEN source.pending.id \in 1..Pulled /\ ingest.pc = "pull"
     ELSE source.pending = Nothing
  /\ IF ingest.pc \in InHand THEN ingest.msg \in 1..Pulled ELSE ingest.msg = 0

\* What is in hand or held back comes after all that was broadcast.
OrderInv ==
  \A i \in DOMAIN log :
    /\ log[i].msg \in 1..Pulled
    /\ ingest.pc \in InHand => log[i].msg < ingest.msg
    /\ source.sleeping => log[i].msg < source.pending.id
    /\ \A j \in DOMAIN log : i < j => log[i].msg < log[j].msg

\* The channel holds the end of what was broadcast, and a subscriber has got what was
\* broadcast between the place where it was accepted and its position.
FeedInv ==
  /\ Len(ring) <= Len(log)
  /\ \A k \in 1..Len(ring) : ring[k] = log[Len(log) - Len(ring) + k].msg
  /\ \A s \in Subscribers :
       IF subs[s].pc \in {"out", "closed"} THEN subs[s].since = 0 /\ subs[s].live = <<>>
       ELSE subs[s].pos = subs[s].since + Len(subs[s].live) /\ subs[s].pos <= Len(log)

\* The number in use is above every row of Postgres, until its own is there.
StoreInv ==
  /\ ingest.pc \in {"eval", "floor"} => setup.backend = "redis"
  /\ setup.backend # "null" /\ ~doubtful =>
       /\ \A i \in DOMAIN log : log[i] \in held
       /\ ingest.pc \in {"eval", "floor", "send"} =>
            [seq |-> ingest.next_seq, msg |-> ingest.msg] \in held
       /\ setup.backend = "postgres" /\ ingest.pc # "start" =>
            \A n \in DOMAIN db.rows :
              n < ingest.next_seq \/ (ingest.pc = "send" /\ n = ingest.next_seq)

Inv == Shape /\ SourceInv /\ OrderInv /\ FeedInv /\ StoreInv /\ Accounted
-----------------------------------------------------------------------------
(* What the calls do. *)

\* The next item of the source is the one after what was read.
LEMMA NextItem ==
  ASSUME Shape, SourceInv
  PROVE  /\ Pulled \in Nat /\ Pulled <= Len(setup.items)
         /\ setup.items \in Seq(Items)
         /\ source.inner # <<>> =>
              /\ Pulled + 1 \in DOMAIN setup.items
              /\ Head(source.inner) = setup.items[Pulled + 1]
              /\ Len(Tail(source.inner)) = Len(source.inner) - 1
              /\ \A i \in 1..Len(Tail(source.inner)) :
                   Tail(source.inner)[i] = setup.items[Pulled + 1 + i]
<1>1. setup.items \in Seq(Items) /\ source.inner \in Seq(Items)
  BY TcpAssumption DEF Shape, Paced, Items
<1>2. PICK m \in Nat : m = Len(setup.items) /\ DOMAIN setup.items = 1..m
  BY <1>1
<1>3. PICK n \in Nat : n = Len(source.inner)
  BY <1>1
<1>4. n <= m /\ Pulled = m - n
  BY <1>2, <1>3 DEF SourceInv, Pulled
<1>5. ASSUME source.inner # <<>>
      PROVE  /\ Pulled + 1 \in DOMAIN setup.items
             /\ Head(source.inner) = setup.items[Pulled + 1]
             /\ Len(Tail(source.inner)) = Len(source.inner) - 1
             /\ \A i \in 1..Len(Tail(source.inner)) :
                  Tail(source.inner)[i] = setup.items[Pulled + 1 + i]
  <2>1. n >= 1 /\ Head(source.inner) = source.inner[1] /\ Len(Tail(source.inner)) = n - 1
    BY <1>1, <1>3, <1>5
  <2>2. m - n + 1 \in 1..m
    BY <1>4, <2>1
  <2>3. source.inner[1] = setup.items[Pulled + 1]
    BY <1>3, <2>1 DEF SourceInv
  <2>4. ASSUME NEW i \in 1..(n - 1)
        PROVE  Tail(source.inner)[i] = setup.items[Pulled + 1 + i]
    <3>1. Tail(source.inner)[i] = source.inner[i + 1]
      BY <1>1, <1>3, <1>5, <2>1
    <3>2. i + 1 \in 1..n /\ Pulled + (i + 1) = Pulled + 1 + i
      BY <1>4
    <3>3. source.inner[i + 1] = setup.items[Pulled + (i + 1)]
      BY <1>3, <3>2 DEF SourceInv
    <3> QED BY <3>1, <3>2, <3>3, Zenon
  <2> QED BY <1>2, <1>3, <1>4, <2>1, <2>2, <2>3, <2>4, Zenon
<1> QED BY <1>1, <1>2, <1>4, <1>5

\* PacedSource::poll_next gives up the item held back, or reads nothing, or reads the next
\* item, to drop it with an error, to return it or to hold it back.
LEMMA PollStep ==
  ASSUME Shape, SourceInv, NEW step \in poll_next(source)
  PROVE  /\ step.src \in Paced
         /\ \/ /\ source.sleeping /\ ~step.src.sleeping
               /\ step.ret = Ready(source.pending)
               /\ step.src.inner = source.inner /\ step.src.pending = Nothing
            \/ /\ ~source.sleeping /\ step.src.inner = source.inner /\ source.inner = <<>>
               /\ step.src.pending = source.pending /\ ~step.src.sleeping
               /\ step.ret.poll \in {"end", "pending"}
            \/ /\ ~source.sleeping /\ source.inner # <<>>
               /\ step.src.inner = Tail(source.inner)
               /\ \/ /\ ~Head(source.inner).ok /\ step.ret.poll = "error"
                     /\ step.src.pending = source.pending /\ ~step.src.sleeping
                  \/ /\ Head(source.inner).ok /\ step.ret = Ready(Head(source.inner))
                     /\ step.src.pending = source.pending /\ ~step.src.sleeping
                  \/ /\ Head(source.inner).ok /\ step.ret = Pending
                     /\ step.src.pending = Head(source.inner) /\ step.src.sleeping
<1> DEFINE p == source
           r == inner_next(p)
           pulled == [p EXCEPT !.inner = IF @ = <<>> THEN <<>> ELSE Tail(@)]
<1>1. p \in Paced /\ p.kind = setup.kind /\ setup \in Setups
  BY DEF Shape, Paced
<1>2. CASE p.sleeping
  <2>1. step = [src |-> Emit([p EXCEPT !.sleeping = FALSE, !.pending = Nothing], p.pending),
                ret |-> Ready(p.pending)]
    BY <1>2 DEF poll_next
  <2>2. Nothing \in Items /\ p.pending \in Items
    BY <1>1 DEF Paced, Items, Nothing
  <2> QED BY <1>1, <1>2, <2>1, <2>2, ZenonT(60) DEF Paced, Emit, Items
<1>3. CASE ~p.sleeping /\ p.inner = <<>>
  <2>1. r \in {Ended, Pending} /\ pulled = p
    BY <1>1, <1>3 DEF inner_next, kafka_next, iterator_next, Paced
  <2>2. step = [src |-> pulled, ret |-> r]
    BY <1>3, <2>1 DEF poll_next, Ended, Pending
  <2> QED BY <1>1, <1>3, <2>1, <2>2 DEF Ended, Pending
<1>4. CASE ~p.sleeping /\ p.inner # <<>>
  <2> DEFINE hd == Head(source.inner)
             q == [source EXCEPT !.inner = Tail(source.inner)]
  <2>1. hd \in Items /\ q \in Paced /\ pulled = q
    BY <1>1, <1>4, SMTT(30) DEF Paced
  <2>2. hd.ok \/ setup.kind = "kafka"
    <3>1. hd = setup.items[Pulled + 1] /\ Pulled + 1 \in DOMAIN setup.items
      BY <1>4, NextItem, SMTT(30)
    <3> QED BY <1>1, <3>1, TcpAssumption
  <2>3. CASE hd.ok
    <3>1. r = Ready(hd) /\ Ready(hd).item = hd
      BY <1>4, <2>3 DEF inner_next, kafka_next, iterator_next, Ready
    <3>2. \/ step = [src |-> Emit(q, hd), ret |-> Ready(hd)]
          \/ step = [src |-> [q EXCEPT !.pending = hd, !.sleeping = TRUE], ret |-> Pending]
      BY <1>4, <2>1, <3>1, SMTT(30) DEF poll_next, Ready
    <3>3. /\ Emit(q, hd) \in Paced /\ [q EXCEPT !.pending = hd, !.sleeping = TRUE] \in Paced
          /\ Emit(q, hd).inner = Tail(source.inner) /\ Emit(q, hd).pending = source.pending
          /\ ~Emit(q, hd).sleeping
      BY <1>1, <1>4, <2>1, ZenonT(60) DEF Paced, Emit, Items
    <3>4. CASE step = [src |-> Emit(q, hd), ret |-> Ready(hd)]
      BY <1>4, <2>3, <3>3, <3>4
    <3>5. CASE step = [src |-> [q EXCEPT !.pending = hd, !.sleeping = TRUE], ret |-> Pending]
      <4>1. /\ step.src.inner = Tail(source.inner) /\ step.src.pending = hd /\ step.src.sleeping
            /\ step.src \in Paced
        BY <1>1, <3>3, <3>5, Zenon DEF Paced
      <4> QED BY <1>4, <2>3, <3>5, <4>1
    <3> QED BY <3>2, <3>4, <3>5
  <2>4. CASE ~hd.ok
    <3>1. r = Failed
      BY <1>1, <1>4, <2>2, <2>4 DEF inner_next, kafka_next
    <3>2. step = [src |-> q, ret |-> Failed]
      BY <1>4, <2>1, <3>1 DEF poll_next, Failed
    <3> QED BY <1>1, <1>4, <2>1, <2>4, <3>2, ZenonT(60) DEF Paced, Failed
  <2> QED BY <2>3, <2>4
<1> QED BY <1>2, <1>3, <1>4

\* latest() of the backend in use is a number that no row of Postgres exceeds.
LEMMA LatestStep ==
  ASSUME Shape
  PROVE  /\ Latest(setup.backend, db) \in Nat
         /\ setup.backend = "postgres" =>
              \A n \in DOMAIN db.rows : n <= Latest(setup.backend, db)
<1>1. setup.backend \in Backends
  BY TcpAssumption DEF Shape, Backends
<1>2. CASE setup.backend = "postgres" /\ DOMAIN db.rows # {}
  <2>1. DOMAIN db.rows \in SUBSET (0..I64Max) /\ I64Max \in Nat
    BY <1>2, I64Assumption DEF Shape
  <2>2. \E x \in DOMAIN db.rows : \A y \in DOMAIN db.rows : x >= y
    BY <1>2, <2>1, GreatestBelow, Zenon
  <2>3. Latest(setup.backend, db) = Max(DOMAIN db.rows)
    BY <1>2 DEF Latest, pg_latest, Greatest
  <2>4. Max(DOMAIN db.rows) \in DOMAIN db.rows
        /\ \A y \in DOMAIN db.rows : Max(DOMAIN db.rows) >= y
    BY <2>2 DEF Max
  <2> QED BY <2>1, <2>3, <2>4
<1>3. CASE setup.backend = "postgres" /\ DOMAIN db.rows = {}
  BY <1>3 DEF Latest, pg_latest, Greatest
<1>4. CASE setup.backend # "postgres"
  BY <1>1, <1>4 DEF Latest, redis_latest, null_latest, Shape, IsDatabase, Backends
<1> QED BY <1>2, <1>3, <1>4

\* A command of store leaves the database sound.  After the first one the database has
\* held the message under its number, unless Postgres already had a row there.
LEMMA CommandStep ==
  ASSUME Shape, StoreInv, ingest.pc \in {"store", "eval", "floor"}, Fits
  PROVE  /\ IsDatabase(Command)
         /\ setup.backend = "postgres" =>
              /\ DOMAIN Command.rows \subseteq 0..I64Max
              /\ DOMAIN Command.rows \subseteq DOMAIN db.rows \cup {ingest.next_seq}
         /\ ingest.pc = "store" /\ setup.backend # "null" =>
              \/ setup.backend = "postgres" /\ ingest.next_seq \in DOMAIN db.rows
              \/ [seq |-> ingest.next_seq, msg |-> ingest.msg] \in Holding(Command)
<1>1. setup.backend \in Backends /\ ingest.next_seq \in Nat
  BY TcpAssumption DEF Shape, Backends, Ingests
<1>2. \A m : /\ ingest.next_seq \in DOMAIN With(db.rows, ingest.next_seq, m)
             /\ With(db.rows, ingest.next_seq, m)[ingest.next_seq] = m
             /\ DOMAIN With(db.rows, ingest.next_seq, m)
                  = DOMAIN db.rows \cup {ingest.next_seq}
  BY DEF With
<1>3. \A d : ingest.next_seq \in DOMAIN d.rows /\ d.rows[ingest.next_seq] = ingest.msg
               => [seq |-> ingest.next_seq, msg |-> ingest.msg] \in Holding(d)
  BY DEF Holding
<1>4. CASE setup.backend = "null"
  BY <1>4 DEF Command, null_store, Shape
<1>5. CASE setup.backend = "postgres"
  <2>1. Command = pg_insert(db, ingest.next_seq, ingest.msg)
    BY <1>5 DEF Command
  <2>2. CASE ingest.next_seq \in DOMAIN db.rows
    BY <1>5, <2>1, <2>2 DEF pg_insert, Shape
  <2>3. CASE ingest.next_seq \notin DOMAIN db.rows
    <3>1. Command = [db EXCEPT !.rows = With(@, ingest.next_seq, ingest.msg)]
      BY <2>1, <2>3 DEF pg_insert
    <3>2. IsDatabase(Command)
          /\ Command.rows = With(db.rows, ingest.next_seq, ingest.msg)
      BY <3>1 DEF Shape, IsDatabase
    <3>3. ingest.next_seq \in 0..I64Max
      BY <1>1, <1>5, I64Assumption DEF Fits, seq_to_i64
    <3>4. DOMAIN Command.rows = DOMAIN db.rows \cup {ingest.next_seq}
      BY <1>2, <3>2, Zenon
    <3>5. DOMAIN Command.rows \subseteq 0..I64Max
      BY <1>5, <3>3, <3>4, Zenon DEF Shape
    <3>6. [seq |-> ingest.next_seq, msg |-> ingest.msg] \in Holding(Command)
      BY <1>2, <1>3, <3>2, Zenon
    <3> QED BY <3>2, <3>4, <3>5, <3>6, Zenon
  <2> QED BY <2>2, <2>3
<1>6. CASE setup.backend = "redis"
  <2>1. CASE ingest.pc = "store"
    <3>1. Command = redis_set(db, ingest.next_seq, ingest.msg)
      BY <1>6, <2>1 DEF Command
    <3>2. IsDatabase(Command)
          /\ Command.rows = With(db.rows, ingest.next_seq, ingest.msg)
      BY <3>1 DEF Shape, IsDatabase, redis_set
    <3> QED BY <1>2, <1>3, <1>6, <3>2
  <2>2. CASE ingest.pc = "eval"
    <3>1. Command = redis_eval(db, ingest.next_seq)
      BY <1>6, <2>2 DEF Command
    <3> QED BY <1>1, <1>6, <2>2, <3>1 DEF Shape, IsDatabase, redis_eval
  <2>3. CASE ingest.pc = "floor"
    <3>1. Command = redis_floor(db, ingest.next_seq)
      BY <1>6, <2>3 DEF Command
    <3> QED BY <1>6, <2>3, <3>1 DEF Shape, IsDatabase, redis_floor
  <2> QED BY <2>1, <2>2, <2>3
<1> QED BY <1>1, <1>4, <1>5, <1>6 DEF Backends

\* What a step may do to the task of a subscriber: accepted at the end of the log, ended,
\* going on without a message, or given the next message of the log.
Served(t) == t.pc \notin {"out", "closed"}
Joins(t, new) ==
  t.pc = "out" /\ Served(new) /\ new.pos = Len(log) /\ new.since = Len(log) /\ new.live = <<>>
Stays(t, new) ==
  Served(t) /\ Served(new) /\ new.pos = t.pos /\ new.since = t.since /\ new.live = t.live
Gets(t, new) ==
  /\ Served(t) /\ Served(new) /\ t.pos < Len(log) /\ new.pos = t.pos + 1
  /\ new.since = t.since /\ new.live = Append(t.live, log[t.pos + 1].msg)

LEMMA SubscriberTask ==
  ASSUME Shape, FeedInv, NEW s \in Subscribers, Accept(s) \/ SubscriberStep(s)
  PROVE  \E new : /\ Task(s, new) /\ IsTask(new)
                  /\ \/ Joins(subs[s], new) \/ new = Finished
                     \/ Stays(subs[s], new) \/ Gets(subs[s], new)
<1> DEFINE Found(new) ==
             /\ Task(s, new) /\ IsTask(new)
             /\ \/ Joins(subs[s], new) \/ new = Finished
                \/ Stays(subs[s], new) \/ Gets(subs[s], new)
<1>1. IsTask(subs[s]) /\ Len(log) \in Nat /\ IsTask(Finished)
  BY DEF Shape, Finished, NoTask, IsTask
<1>2. ASSUME TaskEnds(s) PROVE Found(Finished)
  BY <1>1, <1>2 DEF TaskEnds
<1>3. CASE Accept(s)
  <2> DEFINE new == [NoTask EXCEPT !.pc = "policy", !.pos = Len(log), !.since = Len(log)]
  <2>1. Task(s, new) /\ subs[s].pc = "out"
    BY <1>3 DEF Accept
  <2>2. IsTask(new) /\ Joins(subs[s], new)
    BY <1>1, <2>1 DEF Joins, Served, NoTask, IsTask
  <2> QED BY <2>1, <2>2
<1>4. CASE WarmupStatic(s)
  <2> DEFINE new == [subs[s] EXCEPT !.pc = "warmup", !.warm = <<0>>]
  <2>1. Task(s, new) /\ Served(subs[s])
    BY <1>4 DEF WarmupStatic, Served
  <2>2. IsTask(new) /\ Stays(subs[s], new)
    BY <1>1, <2>1 DEF Stays, Served, IsTask
  <2> QED BY <2>1, <2>2
<1>5. CASE WarmupLatest(s)
  <2> DEFINE new == [subs[s] EXCEPT
                      !.pc = IF Latest(setup.backend, db) = 0 THEN "warmup" ELSE "earliest",
                      !.latest = Latest(setup.backend, db)]
  <2>1. Task(s, new) /\ Served(subs[s])
    BY <1>5 DEF WarmupLatest, Served
  <2>2. IsTask(new) /\ Stays(subs[s], new)
    BY <1>1, <2>1 DEF Stays, Served, IsTask
  <2> QED BY <2>1, <2>2
<1>6. CASE WarmupEarliest(s)
  <2> DEFINE new == [subs[s] EXCEPT !.pc = "range", !.earliest = Earliest(setup.backend, db)]
  <2>1. Task(s, new) /\ Served(subs[s])
    BY <1>6 DEF WarmupEarliest, Served
  <2>2. IsTask(new) /\ Stays(subs[s], new)
    BY <1>1, <2>1 DEF Stays, Served, IsTask
  <2> QED BY <2>1, <2>2
<1>7. CASE WarmupUnderflow(s)
  <2> DEFINE new == [subs[s] EXCEPT !.pc = "warmup"]
  <2>1. Served(subs[s]) /\ (Task(s, new) \/ TaskEnds(s))
    BY <1>7 DEF WarmupUnderflow, Served
  <2>2. IsTask(new) /\ Stays(subs[s], new)
    BY <1>1, <2>1 DEF Stays, Served, IsTask
  <2> QED BY <1>2, <2>1, <2>2
<1>8. CASE WarmupSelect(s)
  <2> DEFINE new == [subs[s] EXCEPT !.pc = "warmup",
                      !.warm = pg_range(db, subs[s].earliest, Count(subs[s]))]
  <2>1. Task(s, new) /\ Served(subs[s])
    BY <1>8 DEF WarmupSelect, Served
  <2>2. IsTask(new) /\ Stays(subs[s], new)
    BY <1>1, <2>1 DEF Stays, Served, IsTask
  <2> QED BY <2>1, <2>2
<1>9. CASE WarmupGet(s)
  <2> DEFINE more == [subs[s] EXCEPT
                       !.warm = Append(@, redis_get(db, subs[s].earliest + Len(subs[s].warm)))]
             stop == [subs[s] EXCEPT !.pc = "warmup"]
  <2>1. Served(subs[s]) /\ (Task(s, more) \/ Task(s, stop))
    BY <1>9 DEF WarmupGet, Served
  <2>2. IsTask(more) /\ Stays(subs[s], more) /\ IsTask(stop) /\ Stays(subs[s], stop)
    BY <1>1, <2>1 DEF Stays, Served, IsTask
  <2> QED BY <2>1, <2>2
<1>10. CASE WarmupFails(s) \/ LiveLagged(s) \/ LiveClosed(s) \/ SendFails(s)
  BY <1>2, <1>10 DEF WarmupFails, LiveLagged, LiveClosed, SendFails
<1>11. CASE WarmupSend(s)
  <2> DEFINE live == [subs[s] EXCEPT !.pc = "live"]
             more == [subs[s] EXCEPT !.warm = Tail(@),
                                     !.sent = Append(@, Head(subs[s].warm))]
  <2>1. Served(subs[s]) /\ (Task(s, more) \/ Task(s, live))
    BY <1>11 DEF WarmupSend, Served
  <2>2. IsTask(more) /\ Stays(subs[s], more) /\ IsTask(live) /\ Stays(subs[s], live)
    BY <1>1, <2>1 DEF Stays, Served, IsTask
  <2> QED BY <2>1, <2>2
<1>12. CASE LiveRecv(s)
  <2> DEFINE t == subs[s]
             new == [t EXCEPT !.pos = @ + 1,
                              !.live = Append(@, ring[t.pos - Forgotten + 1])]
  <2>1. Task(s, new) /\ t.pc = "live" /\ Forgotten <= t.pos /\ t.pos < Len(log)
    BY <1>12 DEF LiveRecv
  <2>2. ring[t.pos - Forgotten + 1] = log[t.pos + 1].msg
    <3>1. PICK m, n \in Nat : m = Len(log) /\ n = Len(ring)
      <4>1. log \in Seq(Entries) /\ ring \in Seq(Nat)
        BY Zenon DEF Shape
      <4> QED BY <4>1
    <3>2. t.pos \in Nat /\ t.pos < m /\ m - n <= t.pos
      BY <1>1, <2>1, <3>1 DEF Forgotten, IsTask
    <3>3. t.pos - (m - n) + 1 \in 1..n /\ m - n + (t.pos - (m - n) + 1) = t.pos + 1
      BY <3>2
    <3>4. ring[t.pos - (m - n) + 1] = log[m - n + (t.pos - (m - n) + 1)].msg
      BY <3>1, <3>3 DEF FeedInv
    <3> QED BY <3>1, <3>3, <3>4 DEF Forgotten
  <2>3. log[t.pos + 1] \in Entries
    <3>1. t.pos + 1 \in 1..Len(log)
      BY <1>1, <2>1 DEF IsTask
    <3> QED BY <3>1 DEF Shape
  <2>4. Append(t.live, log[t.pos + 1].msg) \in Seq(Nat)
    BY <1>1, <2>3 DEF Entries, IsTask
  <2>5. /\ new.pc = t.pc /\ new.pos = t.pos + 1 /\ new.since = t.since
        /\ new.live = Append(t.live, log[t.pos + 1].msg) /\ DOMAIN new = DOMAIN t
    <3>1. new.pc = t.pc /\ new.pos = t.pos + 1 /\ new.since = t.since /\ DOMAIN new = DOMAIN t
      BY <1>1 DEF IsTask
    <3>2. new.live = Append(t.live, ring[t.pos - Forgotten + 1])
      BY <1>1 DEF IsTask
    <3> QED BY <2>2, <3>1, <3>2, Zenon
  <2> HIDE DEF new
  <2>6. t.pos + 1 \in Nat /\ t.since \in Nat
    BY <1>1 DEF IsTask
  <2>7. IsTask(new)
    BY <1>1, <2>4, <2>5, <2>6, Zenon DEF IsTask
  <2>8. Gets(t, new)
    BY <2>1, <2>5, Zenon DEF Gets, Served
  <2> QED BY <2>1, <2>7, <2>8, Zenon
<1> QED BY <1>3, <1>4, <1>5, <1>6, <1>7, <1>8, <1>9, <1>10, <1>11, <1>12, SMTT(30) DEF SubscriberStep
-----------------------------------------------------------------------------
(* The invariant holds at first, and every action keeps it. *)

LEMMA InitInv == Init => Inv
<1> SUFFICES ASSUME Init PROVE Inv
  OBVIOUS
<1> USE DEF Init, NewIngest, NewPaced
<1>1. setup \in Setups /\ setup.items \in Seq(Items)
  BY TcpAssumption DEF Items
<1>2. IsDatabase(db) /\ DOMAIN db.rows = {}
  BY DEF EmptyDatabase, IsDatabase
<1>3. ingest \in Ingests
  BY DEF Ingests, InHand
<1>4. source \in Paced
  BY <1>1 DEF Paced, Items, Nothing
<1>5. \A s \in Subscribers : IsTask(subs[s]) /\ subs[s] = NoTask
  <2>1. IsTask(NoTask)
    BY DEF NoTask, IsTask
  <2> QED BY <2>1
<1>6. Shape
  BY <1>1, <1>2, <1>3, <1>4, <1>5, SMTT(30) DEF Shape
<1>7. SourceInv /\ Pulled = 0
  <2>1. Pulled = 0
    BY <1>1 DEF Pulled
  <2> QED BY <1>1, <2>1 DEF SourceInv, InHand
<1>8. OrderInv /\ StoreInv
  BY <1>2 DEF OrderInv, StoreInv
<1>9. FeedInv
  BY <1>5 DEF FeedInv, NoTask
<1>10. Accounted
  BY DEF Accounted, Range, Nothing
<1> QED BY <1>6, <1>7, <1>8, <1>9, <1>10 DEF Inv

LEMMA IngestStartInv == Inv /\ (IngestStart \/ IngestStartBlind) => Inv'
<1> SUFFICES ASSUME Inv, IngestStart \/ IngestStartBlind PROVE Inv'
  OBVIOUS
<1> DEFINE top == Latest(setup.backend, db)
<1>0. /\ top \in Nat
      /\ setup.backend = "postgres" => \A n \in DOMAIN db.rows : n <= top
  BY LatestStep DEF Inv
<1>1. ingest.pc = "start" /\ ingest \in Ingests
  BY DEF IngestStart, IngestStartBlind, Inv, Shape
<1>2. /\ UNCHANGED <<setup, source, db, ring, subs, log, held, taken, gone>>
      /\ ~doubtful' => ~doubtful
  <2>1. CASE IngestStart
    BY <2>1, Zenon DEF IngestStart, history
  <2>2. CASE IngestStartBlind
    BY <2>2, Zenon DEF IngestStartBlind
  <2> QED BY <2>1, <2>2, Zenon
<1>3. /\ ingest' \in Ingests /\ ingest'.pc = "pull" /\ ingest'.msg = ingest.msg
      /\ ingest'.next_seq = top + 1 \/ ingest'.next_seq = 1
  <2>1. PICK n \in {top + 1, 1} : ingest' = [ingest EXCEPT !.pc = "pull", !.next_seq = n]
    BY DEF IngestStart, IngestStartBlind
  <2> HIDE DEF top
  <2>2. n \in Nat
    BY <1>0, <2>1
  <2> QED BY <1>1, <2>1, <2>2, Zenon DEF Ingests, InHand
<1>4. ~doubtful' => ingest'.next_seq = top + 1
  <2>1. CASE IngestStart
    BY <1>1, <2>1 DEF IngestStart, Ingests
  <2>2. CASE IngestStartBlind
    <3>1. ~doubtful' => top = 0
      BY <2>2, Zenon DEF IngestStartBlind
    <3>2. ingest'.next_seq = 1
      BY <1>1, <2>2 DEF IngestStartBlind, Ingests
    <3> HIDE DEF top
    <3>3. top = 0 => ingest'.next_seq = top + 1
      BY <3>2
    <3> QED BY <3>1, <3>3, Zenon
  <2> QED BY <2>1, <2>2
<1> HIDE DEF top
<1>5. Shape'
  BY <1>2, <1>3 DEF Inv, Shape, Paced
<1>6. SourceInv'
  BY <1>1, <1>2, <1>3, Zenon DEF Inv, SourceInv, Pulled, InHand
<1>7. OrderInv'
  BY <1>1, <1>2, <1>3, Zenon DEF Inv, OrderInv, SourceInv, Pulled, InHand
<1>8. FeedInv'
  BY <1>2 DEF Inv, FeedInv
<1>9. StoreInv'
  <2>1. ASSUME setup.backend = "postgres", ingest'.next_seq = top + 1
        PROVE  \A n \in DOMAIN db.rows : n < ingest'.next_seq
    <3>1. \A n \in DOMAIN db.rows : n \in Nat /\ n <= top
      BY <1>0, <2>1, I64Assumption DEF Inv, Shape
    <3> QED BY <1>0, <2>1, <3>1
  <2> QED BY <1>2, <1>3, <1>4, <2>1 DEF Inv, StoreInv
<1>10. Accounted'
  BY <1>1, <1>2, <1>3 DEF Inv, Accounted
<1> QED BY <1>5, <1>6, <1>7, <1>8, <1>9, <1>10, SMTT(30) DEF Inv

LEMMA IngestPullInv == Inv /\ IngestPull => Inv'
<1> SUFFICES ASSUME Inv, IngestPull PROVE Inv'
  BY SMTT(30)
<1>1. PICK step \in poll_next(source) :
        /\ source' = step.src
        /\ ingest' = CASE step.ret.poll = "item" ->
                            [ingest EXCEPT !.pc = "store", !.msg = step.ret.item.id]
                       [] step.ret.poll = "pending" -> ingest
                       [] OTHER -> [ingest EXCEPT !.pc = "done"]
        /\ taken' = taken \cup ({source.inner[i].id : i \in
                               1..(Len(source.inner) - Len(step.src.inner))} \ {0})
  BY Zenon DEF IngestPull
<1>2. /\ ingest.pc = "pull" /\ ingest.msg = 0 /\ ingest \in Ingests
      /\ UNCHANGED <<setup, db, ring, subs, log, held, gone>>
  BY DEF IngestPull, Inv, Shape, SourceInv, InHand
<1>3. UNCHANGED doubtful
  BY DEF IngestPull
<1>4. Shape /\ SourceInv /\ OrderInv /\ Accounted /\ setup \in Setups /\ source \in Paced
  BY DEF Inv, Shape
<1>5. Pulled \in Nat /\ Pulled <= Len(setup.items) /\ setup.items \in Seq(Items)
  BY <1>4, NextItem
<1>6. step.src \in Paced
  BY <1>4, PollStep
<1> DEFINE Out == {e.msg : e \in Range(log)} \cup gone
           read == {source.inner[i].id : i \in 1..(Len(source.inner) - Len(step.src.inner))}
           hd == Head(source.inner)
           Kept == /\ ingest' \in Ingests /\ ingest'.next_seq = ingest.next_seq
                   /\ ingest'.pc \in {"pull", "store", "done"}
                   /\ SourceInv' /\ OrderInv' /\ Accounted'
<1>7. /\ taken = Out \cup ({0, source.pending.id} \ {0}) /\ Out' = Out
      /\ Accounted' <=>
           /\ taken' = Out \cup ({ingest'.msg, source'.pending.id} \ {0})
           /\ \A i, j \in DOMAIN log : i < j => log[i].msg < log[j].msg
           /\ ingest'.pc = "done" => source'.pending = Nothing
  BY <1>2, <1>4 DEF Accounted
<1> HIDE DEF Out
<1>8. ASSUME step.src.inner = source.inner PROVE Kept
  <2>1. Pulled' = Pulled /\ taken' = taken
    <3>1. Len(source.inner) \in Nat
      BY <1>4 DEF Paced
    <3>2. 1..(Len(source.inner) - Len(step.src.inner)) = {}
      BY <1>8, <3>1
    <3>3. read = {}
      BY <3>2, Zenon
    <3> QED BY <1>1, <1>2, <1>8, <3>3 DEF Pulled
  <2>2. ASSUME source.sleeping, ~step.src.sleeping, step.ret = Ready(source.pending),
               step.src.pending = Nothing
        PROVE  Kept
    <3>1. ingest' = [ingest EXCEPT !.pc = "store", !.msg = source.pending.id]
      BY <1>1, <2>2 DEF Ready
    <3>2. /\ source.pending.id \in 1..Pulled /\ source.pending.id \in Nat
          /\ source.pending.id # 0 /\ Nothing.id = 0
      BY <1>4, <1>5, <2>2 DEF SourceInv, Nothing
    <3>3. /\ ingest' \in Ingests /\ ingest'.pc = "store" /\ ingest'.msg = source.pending.id
          /\ ingest'.next_seq = ingest.next_seq
      BY <1>2, <3>1, <3>2, Zenon DEF Ingests, InHand
    <3>4. SourceInv'
      BY <1>1, <1>2, <1>4, <1>8, <2>1, <2>2, <3>2, <3>3 DEF SourceInv, InHand
    <3>5. OrderInv'
      BY <1>1, <1>2, <1>4, <2>1, <2>2, <3>3, SMTT(30) DEF OrderInv
    <3>6. Accounted'
      <4>1. taken' = Out \cup {source.pending.id}
        BY <1>7, <2>1, <3>2
      <4> QED BY <1>1, <1>4, <1>7, <2>2, <3>2, <3>3, <4>1, ZenonT(60) DEF Accounted
    <3> QED BY <3>3, <3>4, <3>5, <3>6
  <2>3. ASSUME ~source.sleeping, ~step.src.sleeping, step.src.pending = source.pending,
               step.ret.poll \in {"end", "pending"}
        PROVE  Kept
    <3>1. ingest' = ingest \/ ingest' = [ingest EXCEPT !.pc = "done"]
      BY <1>1, <2>3
    <3>2. /\ ingest' \in Ingests /\ ingest'.pc \in {"pull", "done"} /\ ingest'.msg = 0
          /\ ingest'.next_seq = ingest.next_seq
      BY <1>2, <3>1 DEF Ingests
    <3>3. SourceInv'
      BY <1>1, <1>2, <1>4, <1>8, <2>1, <2>3, <3>2 DEF SourceInv, InHand
    <3>4. OrderInv'
      BY <1>1, <1>2, <1>4, <2>1, <2>3, <3>2, SMTT(30) DEF OrderInv, InHand
    <3>5. Accounted'
      BY <1>1, <1>4, <1>7, <2>1, <2>3, <3>2, Zenon DEF Accounted, SourceInv
    <3> QED BY <3>2, <3>3, <3>4, <3>5
  <2>4. Tail(source.inner) # source.inner \/ source.inner = <<>>
    <3>1. Len(source.inner) \in Nat
      BY <1>4 DEF Paced
    <3>2. source.inner # <<>> => Len(Tail(source.inner)) = Len(source.inner) - 1
      BY <1>4, NextItem
    <3>3. Len(source.inner) # Len(source.inner) - 1
      BY <3>1
    <3> QED BY <3>2, <3>3, Zenon
  <2> QED BY <1>4, <1>8, <2>2, <2>3, <2>4, PollStep, SMTT(30)

<1>9. ASSUME ~source.sleeping, source.inner # <<>>, step.src.inner = Tail(source.inner)
      PROVE  Kept
  <2>1. /\ Pulled + 1 \in DOMAIN setup.items /\ hd = setup.items[Pulled + 1]
        /\ Len(Tail(source.inner)) = Len(source.inner) - 1
        /\ \A i \in 1..Len(Tail(source.inner)) :
             Tail(source.inner)[i] = setup.items[Pulled + 1 + i]
    BY <1>4, <1>9, NextItem, Zenon
  <2>2. Pulled' = Pulled + 1 /\ Pulled + 1 <= Len(setup.items)
    <3>1. PICK m, n \in Nat : m = Len(setup.items) /\ n = Len(source.inner)
      BY <1>4, <1>5 DEF Paced
    <3>2. Pulled = m - n /\ Pulled' = m - (n - 1)
      BY <1>1, <1>2, <1>9, <2>1, <3>1, Zenon DEF Pulled
    <3>3. m - (n - 1) = (m - n) + 1
      OBVIOUS
    <3>4. Pulled + 1 \in 1..m
      BY <1>5, <2>1, <3>1
    <3>5. Pulled + 1 <= m
      BY <3>4
    <3> QED BY <3>1, <3>2, <3>3, <3>5
  <2>3. hd.id = IF hd.ok THEN Pulled + 1 ELSE 0
    BY <1>4, <2>1, TcpAssumption
  <2>4. taken' = Out \cup ({hd.id} \ {0}) /\ source.pending = Nothing /\ Nothing.id = 0
    <3>1. source.pending = Nothing /\ Nothing.id = 0
      BY <1>4, <1>9 DEF SourceInv, Nothing
    <3>2. taken = Out
      BY <1>7, <3>1
    <3>3. PICK n \in Nat : n = Len(source.inner)
      BY <1>4 DEF Paced
    <3>4. n - (n - 1) = 1 /\ 1..1 = {1}
      OBVIOUS
    <3>5. source.inner[1] = hd
      BY <1>4, <1>9 DEF Paced
    <3>6. read = {hd.id}
      BY <1>9, <2>1, <3>3, <3>4, <3>5, SMTT(30)
    <3> QED BY <1>1, <3>1, <3>2, <3>6, Zenon
  <2>5. ASSUME ingest' \in Ingests, ingest'.next_seq = ingest.next_seq,
               ingest'.pc \in {"pull", "store", "done"},
               IF ingest'.pc = "store" THEN ingest'.msg = Pulled + 1 ELSE ingest'.msg = 0,
               IF step.src.sleeping THEN step.src.pending.id = Pulled + 1 /\ ingest'.pc = "pull"
               ELSE step.src.pending = Nothing,
               {hd.id} \ {0} = {ingest'.msg, step.src.pending.id} \ {0}
        PROVE  Kept
    <3>1. SourceInv'
      BY <1>1, <1>2, <1>4, <1>5, <1>9, <2>1, <2>2, <2>5, SMTT(30) DEF SourceInv, InHand
    <3>2. OrderInv'
      BY <1>1, <1>2, <1>4, <1>5, <2>2, <2>5, SMTT(30) DEF OrderInv, InHand
    <3>3. Accounted'
      BY <1>1, <1>4, <1>7, <2>4, <2>5, ZenonT(60) DEF Accounted
    <3> QED BY <2>5, <3>1, <3>2, <3>3, SMTT(30)
  <2>6. Pulled + 1 \in Nat
    BY <1>5
  <2>7. ASSUME ~hd.ok, step.ret.poll = "error", step.src.pending = source.pending,
               ~step.src.sleeping
        PROVE  Kept
    <3>1. ingest' = [ingest EXCEPT !.pc = "done"]
      BY <1>1, <2>7
    <3>2. /\ ingest' \in Ingests /\ ingest'.pc = "done" /\ ingest'.msg = 0
          /\ ingest'.next_seq = ingest.next_seq
      BY <1>2, <3>1 DEF Ingests
    <3> QED BY <2>3, <2>4, <2>5, <2>7, <3>2
  <2>8. ASSUME hd.ok, step.ret = Ready(hd), step.src.pending = source.pending,
               ~step.src.sleeping
        PROVE  Kept
    <3>1. ingest' = [ingest EXCEPT !.pc = "store", !.msg = hd.id]
      BY <1>1, <2>8 DEF Ready
    <3>2. /\ ingest' \in Ingests /\ ingest'.pc = "store" /\ ingest'.msg = Pulled + 1
          /\ ingest'.next_seq = ingest.next_seq
      BY <1>2, <2>3, <2>6, <2>8, <3>1, ZenonT(60) DEF Ingests, InHand
    <3> QED BY <2>3, <2>4, <2>5, <2>8, <3>2, SMTT(30)
  <2>9. ASSUME hd.ok, step.ret = Pending, step.src.pending = hd, step.src.sleeping
        PROVE  Kept
    <3>1. ingest' = ingest
      BY <1>1, <2>9, SMTT(30) DEF Pending
    <3> QED BY <1>2, <2>3, <2>5, <2>9, <3>1
  <2> QED BY <1>4, <1>8, <1>9, <2>7, <2>8, <2>9, PollStep, SMTT(30)
<1>10. Kept
  BY <1>4, <1>8, <1>9, PollStep, SMTT(30)
<1>11. Shape'
  BY <1>1, <1>2, <1>6, <1>10, SMTT(30) DEF Inv, Shape, Paced
<1>12. FeedInv'
  BY <1>2 DEF Inv, FeedInv
<1>13. StoreInv'
  BY <1>2, <1>3, <1>10 DEF Inv, StoreInv
<1> QED BY <1>10, <1>11, <1>12, <1>13 DEF Inv

LEMMA IngestStoreInv == Inv /\ IngestStore => Inv'
<1> SUFFICES ASSUME Inv, IngestStore PROVE Inv'
  OBVIOUS
<1>1. /\ ingest.pc \in {"store", "eval", "floor"} /\ Fits /\ db' = Command
      /\ held' = Holding(Command) /\ ingest' = [ingest EXCEPT !.pc = AfterCommand]
      /\ UNCHANGED <<setup, source, ring, subs, log, taken, gone>>
  BY DEF IngestStore
<1>2. UNCHANGED doubtful
  BY DEF IngestStore
<1>3. Shape /\ StoreInv /\ ingest \in Ingests
  BY DEF Inv, Shape
<1>4. /\ AfterCommand \in {"eval", "floor", "send"}
      /\ AfterCommand \in {"eval", "floor"} => setup.backend = "redis"
  BY <1>1 DEF AfterCommand
<1>5. /\ ingest' \in Ingests /\ ingest'.pc = AfterCommand /\ ingest'.msg = ingest.msg
      /\ ingest'.next_seq = ingest.next_seq
  BY <1>1, <1>3, <1>4 DEF Ingests, InHand
<1>6. Shape'
  BY <1>1, <1>3, <1>5, CommandStep, SMTT(30) DEF Shape, Paced
<1>7. SourceInv' /\ OrderInv'
  BY <1>1, <1>4, <1>5, ZenonT(60) DEF Inv, SourceInv, OrderInv, Pulled, InHand
<1>8. FeedInv'
  BY <1>1 DEF Inv, FeedInv
<1>9. StoreInv'
  <2>1. held \subseteq held'
    BY <1>1 DEF Holding
  <2> DEFINE entry == [seq |-> ingest.next_seq, msg |-> ingest.msg]
  <2>2. ASSUME setup.backend # "null", ~doubtful
        PROVE  entry \in held'
    <3>1. CASE ingest.pc = "store"
      <4>1. ~(setup.backend = "postgres" /\ ingest.next_seq \in DOMAIN db.rows)
        BY <1>3, <2>2, <3>1, SMTT(30) DEF StoreInv, Ingests
      <4> QED BY <1>1, <1>3, <2>2, <3>1, <4>1, CommandStep, SMTT(30)
    <3>2. CASE ingest.pc \in {"eval", "floor"}
      BY <1>3, <2>1, <2>2, <3>2, SMTT(30) DEF StoreInv
    <3> QED BY <1>1, <3>1, <3>2
  <2>3. ASSUME setup.backend = "postgres", ~doubtful, NEW n \in DOMAIN db'.rows
        PROVE  n < ingest.next_seq \/ (ingest'.pc = "send" /\ n = ingest.next_seq)
    <3>1. n \in DOMAIN db.rows \/ n = ingest.next_seq
      BY <1>1, <1>3, <2>3, CommandStep, SMTT(30)
    <3>2. ingest'.pc = "send"
      BY <1>5, <2>3 DEF AfterCommand
    <3>3. n \in DOMAIN db.rows => n < ingest.next_seq \/ n = ingest.next_seq
      BY <1>1, <1>3, <2>3, SMTT(30) DEF StoreInv
    <3> QED BY <3>1, <3>2, <3>3
  <2> HIDE DEF entry
  <2>4. ASSUME setup.backend # "null", ~doubtful
        PROVE  \A i \in DOMAIN log : log[i] \in held'
    BY <1>3, <2>1, <2>4 DEF StoreInv
  <2> USE DEF entry
  <2> QED BY <1>1, <1>2, <1>4, <1>5, <2>2, <2>3, <2>4 DEF StoreInv
<1>10. Accounted'
  BY <1>1, <1>4, <1>5, SMTT(30) DEF Inv, Accounted
<1> QED BY <1>6, <1>7, <1>8, <1>9, <1>10, SMTT(30) DEF Inv

LEMMA IngestDropInv == Inv /\ IngestDrop => Inv'
<1> SUFFICES ASSUME Inv, IngestDrop PROVE Inv'
  OBVIOUS
<1>1. /\ ingest.pc \in {"store", "eval", "floor"}
      /\ ingest' = [ingest EXCEPT !.pc = "pull", !.msg = 0]
      /\ gone' = gone \cup {ingest.msg}
      /\ UNCHANGED <<setup, source, ring, subs, log, taken>>
  BY DEF IngestDrop
<1>2. \/ db' = Command /\ Fits /\ held' = Holding(Command)
      \/ db' = db /\ held' = held
  BY Zenon DEF IngestDrop
<1>3. Shape /\ SourceInv /\ StoreInv /\ ingest \in Ingests
  BY DEF Inv, Shape
<1>4. /\ ingest' \in Ingests /\ ingest'.pc = "pull" /\ ingest'.msg = 0
      /\ ingest'.next_seq = ingest.next_seq
  BY <1>1, <1>3, ZenonT(60) DEF Ingests
<1>5. ingest.msg \in Nat \ {0} /\ source.pending = Nothing /\ ~source.sleeping
  BY <1>1, <1>3, NextItem DEF SourceInv, InHand
<1>6. Shape'
  BY <1>1, <1>2, <1>3, <1>4, CommandStep, SMTT(30) DEF Shape, Paced
<1>7. SourceInv' /\ OrderInv'
  BY <1>1, <1>4, <1>5, Zenon DEF Inv, SourceInv, OrderInv, Pulled, InHand
<1>8. FeedInv'
  BY <1>1 DEF Inv, FeedInv
<1>9. StoreInv'
  <2>1. ~doubtful' => ~doubtful /\ (setup.backend = "postgres" => db' = db)
    BY <1>1, Zenon DEF IngestDrop
  <2>2. held \subseteq held'
    BY <1>2 DEF Holding
  <2>3. ASSUME setup.backend # "null", ~doubtful'
        PROVE  \A i \in DOMAIN log : log[i] \in held'
    BY <1>3, <2>1, <2>2, <2>3, SMTT(30) DEF StoreInv
  <2>4. ASSUME setup.backend = "postgres", ~doubtful'
        PROVE  \A n \in DOMAIN db'.rows : n < ingest.next_seq
    BY <1>1, <1>3, <2>1, <2>4, SMTT(30) DEF StoreInv
  <2> QED BY <1>1, <1>4, <2>3, <2>4 DEF StoreInv
<1>10. Accounted'
  <2>1. Nothing.id = 0
    BY DEF Nothing
  <2> QED BY <1>1, <1>4, <1>5, <2>1, SMTT(30) DEF Inv, Accounted
<1> QED BY <1>6, <1>7, <1>8, <1>9, <1>10 DEF Inv

LEMMA IngestSendInv == Inv /\ IngestSend => Inv'
<1> SUFFICES ASSUME Inv, IngestSend PROVE Inv'
  OBVIOUS
<1> DEFINE entry == [seq |-> ingest.next_seq, msg |-> ingest.msg]
           base == IF Len(ring) = Capacity THEN Tail(ring) ELSE ring
<1>1. /\ ingest.pc = "send" /\ ring' = Append(base, ingest.msg) /\ log' = Append(log, entry)
      /\ ingest' = [ingest EXCEPT !.pc = "pull", !.next_seq = @ + 1, !.msg = 0]
      /\ UNCHANGED <<setup, source, db, subs, held, taken, gone>>
  BY DEF IngestSend
<1>2. UNCHANGED doubtful
  BY DEF IngestSend
<1>3. Shape /\ SourceInv /\ OrderInv /\ ingest \in Ingests /\ log \in Seq(Entries)
      /\ ring \in Seq(Nat)
  BY DEF Inv, Shape
<1>4. /\ ingest' \in Ingests /\ ingest'.pc = "pull" /\ ingest'.msg = 0
      /\ ingest'.next_seq = ingest.next_seq + 1 /\ ingest.next_seq \in Nat
  <2>1. ingest.next_seq \in Nat
    BY <1>3 DEF Ingests
  <2>2. PICK k \in Nat : k = ingest.next_seq + 1
    BY <2>1
  <2>3. ingest' = [ingest EXCEPT !.pc = "pull", !.next_seq = k, !.msg = 0]
    BY <1>1, <2>2
  <2>4. ingest' \in Ingests /\ ingest'.pc = "pull" /\ ingest'.msg = 0 /\ ingest'.next_seq = k
    BY <1>3, <2>3, Zenon DEF Ingests
  <2> QED BY <2>1, <2>2, <2>4
<1>5. ingest.msg \in 1..Pulled /\ source.pending = Nothing /\ ~source.sleeping
  BY <1>1, <1>3 DEF SourceInv, InHand
<1>6. ingest.msg \in Nat /\ ingest.msg # 0 /\ entry \in Entries /\ entry.msg = ingest.msg
  BY <1>3, <1>5, NextItem DEF Ingests, Entries
<1>7. PICK m, n \in Nat : /\ m = Len(log) /\ n = Len(base) /\ n <= m /\ base \in Seq(Nat)
                          /\ \A k \in 1..n : base[k] = log[m - n + k].msg
  <2>1. PICK m, l \in Nat : m = Len(log) /\ l = Len(ring) /\ l <= m
    BY <1>3 DEF Inv, FeedInv
  <2>2. \A k \in 1..l : ring[k] = log[m - l + k].msg
    BY <2>1 DEF Inv, FeedInv
  <2>3. CASE l = Capacity
    <3>0. Capacity \in Nat /\ Capacity >= 1
      BY TcpAssumption
    <3>1. l >= 1 /\ ring # <<>> /\ base = Tail(ring)
      <4>1. l >= 1
        BY <2>3, <3>0
      <4>2. ring = <<>> => l = 0
        BY <1>3, <2>1
      <4>3. ring # <<>>
        BY <4>1, <4>2
      <4>4. base = Tail(ring)
        BY <2>1, <2>3
      <4> QED BY <4>1, <4>3, <4>4
    <3>2. base \in Seq(Nat) /\ Len(base) = l - 1 /\ \A k \in 1..(l - 1) : base[k] = ring[k + 1]
      BY <1>3, <2>1, <3>1
    <3>3. \A k \in 1..(l - 1) : k + 1 \in 1..l /\ m - l + (k + 1) = m - (l - 1) + k
      OBVIOUS
    <3>4. \A k \in 1..(l - 1) : base[k] = log[m - (l - 1) + k].msg
      BY <2>2, <3>2, <3>3
    <3>5. l - 1 \in Nat /\ l - 1 <= m
      BY <2>1, <3>1
    <3> QED BY <2>1, <3>2, <3>4, <3>5, ZenonT(60)
  <2>4. CASE l # Capacity
    BY <1>3, <2>1, <2>2, <2>4, Zenon
  <2> QED BY <2>3, <2>4, Zenon
<1> HIDE DEF base
<1>8. /\ log' \in Seq(Entries) /\ Len(log') = m + 1 /\ log'[m + 1] = entry
      /\ \A i \in 1..m : log'[i] = log[i]
  BY <1>1, <1>3, <1>6, <1>7
<1>9. /\ ring' \in Seq(Nat) /\ Len(ring') = n + 1 /\ ring'[n + 1] = ingest.msg
      /\ \A k \in 1..n : ring'[k] = base[k]
  BY <1>1, <1>6, <1>7
<1>10. DOMAIN log = 1..m /\ DOMAIN log' = 1..(m + 1)
  BY <1>3, <1>7, <1>8, SMTT(30)
<1>11. Shape'
  BY <1>1, <1>3, <1>4, <1>8, <1>9, SMTT(30) DEF Shape, Paced
<1>12. SourceInv'
  BY <1>1, <1>4, <1>5 DEF Inv, SourceInv, Pulled, InHand
<1>13. OrderInv'
  <2>1. Pulled' = Pulled
    BY <1>1 DEF Pulled
  <2>2. \A i \in 1..m : /\ log'[i].msg \in 1..Pulled /\ log'[i].msg < ingest.msg
                        /\ \A j \in 1..m : i < j => log'[i].msg < log'[j].msg
    BY <1>1, <1>3, <1>8, <1>10, SMTT(30) DEF OrderInv, InHand
  <2>3. log'[m + 1].msg = ingest.msg
    BY <1>6, <1>8
  <2>4. \A i \in 1..(m + 1) : i \in 1..m \/ i = m + 1
    OBVIOUS
  <2>5. ASSUME NEW i \in 1..(m + 1) PROVE log'[i].msg \in 1..Pulled
    BY <1>5, <2>2, <2>3, <2>4, SMTT(30)
  <2>6. ASSUME NEW i \in 1..(m + 1), NEW j \in 1..(m + 1), i < j
        PROVE  log'[i].msg < log'[j].msg
    <3>1. i \in 1..m
      BY <2>6
    <3> QED BY <2>2, <2>3, <2>4, <2>6, <3>1, SMTT(30)
  <2> QED BY <1>1, <1>4, <1>5, <1>10, <2>1, <2>5, <2>6, SMTT(30) DEF OrderInv, InHand
<1>14. FeedInv'
  <2>1. Len(ring') <= Len(log')
    BY <1>7, <1>8, <1>9
  <2>2. ASSUME NEW k \in 1..(n + 1)
        PROVE  ring'[k] = log'[(m + 1) - (n + 1) + k].msg
    <3>1. CASE k \in 1..n
      <4>1. (m + 1) - (n + 1) + k = m - n + k /\ m - n + k \in 1..m
        BY <1>7, <3>1
      <4>2. ring'[k] = base[k] /\ base[k] = log[m - n + k].msg
        BY <1>7, <1>9, <3>1, SMTT(30)
      <4>3. log'[m - n + k] = log[m - n + k]
        BY <1>8, <4>1
      <4> QED BY <4>1, <4>2, <4>3, SMTT(30)
    <3>2. CASE k = n + 1
      <4>1. (m + 1) - (n + 1) + k = m + 1
        BY <3>2
      <4>2. ring'[k] = ingest.msg /\ log'[m + 1].msg = ingest.msg
        BY <1>6, <1>8, <1>9, <3>2, SMTT(30)
      <4> QED BY <4>1, <4>2
    <3> QED BY <3>1, <3>2
  <2>3. \A s \in Subscribers :
          IF subs[s].pc \in {"out", "closed"} THEN subs[s].since = 0 /\ subs[s].live = <<>>
          ELSE subs[s].pos = subs[s].since + Len(subs[s].live) /\ subs[s].pos <= m + 1
    <3>1. \A s \in Subscribers : subs[s].pos \in Nat
      BY <1>3 DEF Shape, IsTask
    <3> QED BY <1>7, <3>1 DEF Inv, FeedInv
  <2> QED BY <1>1, <1>8, <1>9, <2>1, <2>2, <2>3, ZenonT(60) DEF FeedInv
<1>15. StoreInv'
  <2>1. ASSUME setup.backend # "null", ~doubtful
        PROVE  \A i \in 1..(m + 1) : log'[i] \in held
    <3>1. entry \in held /\ \A i \in 1..m : log[i] \in held
      BY <1>1, <1>10, <2>1 DEF Inv, StoreInv
    <3>2. \A i \in 1..(m + 1) : i \in 1..m \/ i = m + 1
      OBVIOUS
    <3> HIDE DEF entry
    <3> QED BY <1>8, <3>1, <3>2
  <2>2. ASSUME setup.backend = "postgres", ~doubtful, NEW k \in DOMAIN db.rows
        PROVE  k < ingest.next_seq + 1
    <3>1. k \in Nat
      BY <1>3, <2>2, I64Assumption DEF Shape
    <3>2. k < ingest.next_seq \/ k = ingest.next_seq
      BY <1>1, <2>2 DEF Inv, StoreInv
    <3> QED BY <1>4, <3>1, <3>2
  <2> QED BY <1>1, <1>2, <1>4, <1>10, <2>1, <2>2, SMTT(30) DEF StoreInv
<1>16. Accounted'
  <2>1. {e.msg : e \in Range(log')} = {e.msg : e \in Range(log)} \cup {ingest.msg}
    <3>1. Range(log') = Range(log) \cup {entry}
      <4>1. \A i \in 1..(m + 1) : i \in 1..m \/ i = m + 1
        OBVIOUS
      <4>2. \A i \in 1..m : i \in 1..(m + 1)
        OBVIOUS
      <4>3. m + 1 \in 1..(m + 1)
        OBVIOUS
      <4> HIDE DEF entry
      <4> QED BY <1>8, <1>10, <4>1, <4>2, <4>3, SMTT(30) DEF Range
    <3> QED BY <1>6, <3>1
  <2>2. \A i, j \in DOMAIN log' : i < j => log'[i].msg < log'[j].msg
    BY <1>13 DEF OrderInv
  <2>3. Nothing.id = 0
    BY DEF Nothing
  <2> QED BY <1>1, <1>4, <1>5, <1>6, <2>1, <2>2, <2>3, ZenonT(60) DEF Inv, Accounted
<1> QED BY <1>11, <1>12, <1>13, <1>14, <1>15, <1>16, SMTT(30) DEF Inv

LEMMA SubscriberInv ==
  ASSUME Inv, NEW s \in Subscribers, Accept(s) \/ SubscriberStep(s)
  PROVE  Inv'
<1>1. PICK new : /\ Task(s, new) /\ IsTask(new)
                 /\ \/ Joins(subs[s], new) \/ new = Finished
                    \/ Stays(subs[s], new) \/ Gets(subs[s], new)
  BY SubscriberTask DEF Inv
<1>2. subs' = [subs EXCEPT ![s] = new]
  BY <1>1 DEF Task
<1>3. UNCHANGED <<setup, source, db, ingest, ring, log, held, taken, gone, doubtful>>
  BY <1>1, Zenon DEF Task, history
<1>4. Shape /\ FeedInv /\ IsTask(subs[s]) /\ Len(log) \in Nat
  BY DEF Inv, Shape
<1>5. /\ subs' = [t \in Subscribers |-> subs'[t]] /\ subs'[s] = new
      /\ \A t \in Subscribers : t # s => subs'[t] = subs[t]
  BY <1>2, <1>4, SMTT(30) DEF Shape
<1>6. Shape'
  BY <1>1, <1>3, <1>4, <1>5, SMTT(30) DEF Shape, Paced
<1>7. SourceInv' /\ OrderInv'
  BY <1>3, ZenonT(60) DEF Inv, SourceInv, OrderInv, Pulled
<1>8. FeedInv'
  <2> DEFINE Right(t) ==
               IF t.pc \in {"out", "closed"} THEN t.since = 0 /\ t.live = <<>>
               ELSE t.pos = t.since + Len(t.live) /\ t.pos <= Len(log)
  <2>1. Right(subs[s])
    BY <1>4 DEF FeedInv
  <2>2. Right(new)
    <3>1. CASE Joins(subs[s], new)
      BY <1>4, <3>1 DEF Joins, Served
    <3>2. CASE new = Finished
      BY <3>2 DEF Finished, NoTask
    <3>3. CASE Stays(subs[s], new)
      BY <2>1, <3>3, SMTT(30) DEF Stays, Served
    <3>4. CASE Gets(subs[s], new)
      <4>1. subs[s].live \in Seq(Nat) /\ Len(new.live) = Len(subs[s].live) + 1
        BY <1>4, <3>4 DEF Gets, IsTask
      <4>2. /\ subs[s].pos \in Nat /\ subs[s].since \in Nat /\ Len(subs[s].live) \in Nat
            /\ subs[s].pos = subs[s].since + Len(subs[s].live)
        BY <1>4, <2>1, <3>4, <4>1, SMTT(30) DEF Gets, Served, IsTask
      <4>3. PICK p, q, l, m \in Nat :
              /\ p = subs[s].pos /\ q = subs[s].since /\ l = Len(subs[s].live) /\ m = Len(log)
              /\ p = q + l /\ p < m
        BY <1>4, <3>4, <4>2, SMTT(30) DEF Gets
      <4>4. p + 1 = q + (l + 1) /\ p + 1 <= m
        BY <4>3, SMTT(30)
      <4> QED BY <3>4, <4>1, <4>3, <4>4, SMTT(30) DEF Gets, Served
    <3> QED BY <1>1, <3>1, <3>2, <3>3, <3>4, SMTT(30)
  <2>3. \A t \in Subscribers : Right(subs'[t])
    BY <1>4, <1>5, <2>2, SMTT(30) DEF FeedInv
  <2> QED BY <1>3, <1>4, <2>3 DEF FeedInv
<1>9. StoreInv'
  BY <1>3 DEF Inv, StoreInv
<1>10. Accounted'
  BY <1>3, SMTT(30) DEF Inv, Accounted
<1> QED BY <1>6, <1>7, <1>8, <1>9, <1>10, SMTT(30) DEF Inv

LEMMA ExpireInv == Inv /\ Expire => Inv'
<1> SUFFICES ASSUME Inv, Expire PROVE Inv'
  OBVIOUS
<1>1. setup.backend = "redis" /\ db' = redis_expire(db)
  BY DEF Expire
<1>2. UNCHANGED <<setup, source, ingest, ring, log, held, taken, gone, doubtful>>
  BY Zenon DEF Expire, history
<1>3. subs' = [s \in Subscribers |->
                [subs[s] EXCEPT !.aged = @ \/ subs[s].pc \in {"policy", "earliest", "range"}]]
  BY DEF Expire
<1>4. \A s \in Subscribers : IsTask(subs[s])
  BY DEF Inv, Shape
<1>5. \A s \in Subscribers : /\ subs'[s].pc = subs[s].pc /\ subs'[s].pos = subs[s].pos
                             /\ subs'[s].since = subs[s].since /\ subs'[s].live = subs[s].live
                             /\ DOMAIN subs'[s] = DOMAIN subs[s]
  BY <1>3, <1>4 DEF IsTask
<1>6. IsDatabase(db')
  <2> DEFINE rest == [db EXCEPT !.age = Tail(@)]
  <2>1. IsDatabase(db)
    BY Zenon DEF Inv, Shape
  <2>2. IsDatabase(rest)
    BY <2>1 DEF IsDatabase
  <2> HIDE DEF rest
  <2>3. \A S : /\ IsDatabase([rest EXCEPT !.floors = S]) /\ IsDatabase([rest EXCEPT !.rows = S])
              /\ IsDatabase([rest EXCEPT !.age = S]) /\ IsDatabase([rest EXCEPT !.latest = 0])
    BY <2>2 DEF IsDatabase
  <2> QED BY <1>1, <2>3 DEF redis_expire, rest
<1>7. Shape'
  <2>1. subs' = [s \in Subscribers |-> subs'[s]]
    BY <1>3
  <2>2. \A s \in Subscribers : IsTask(subs'[s])
    BY <1>4, <1>5 DEF IsTask
  <2> QED BY <1>1, <1>2, <1>6, <2>1, <2>2, SMTT(30) DEF Inv, Shape, Paced
<1>8. SourceInv' /\ OrderInv'
  BY <1>2, Zenon DEF Inv, SourceInv, OrderInv, Pulled
<1>9. FeedInv'
  BY <1>2, <1>5 DEF Inv, FeedInv
<1>10. StoreInv'
  BY <1>1, <1>2 DEF Inv, StoreInv
<1>11. Accounted'
  BY <1>2, SMTT(30) DEF Inv, Accounted
<1> QED BY <1>7, <1>8, <1>9, <1>10, <1>11 DEF Inv

LEMMA RestartInv == Inv /\ Restart => Inv'
<1> SUFFICES ASSUME Inv, Restart PROVE Inv'
  OBVIOUS
<1>1. /\ gone' = gone \cup ({ingest.msg, source.pending.id} \ {0})
      /\ source' = NewPaced(setup.kind, source.inner, setup.pacing)
      /\ ingest' = NewIngest /\ ring' = <<>>
      /\ subs' = [s \in Subscribers |-> IF subs[s].pc = "out" THEN NoTask ELSE Finished]
      /\ UNCHANGED <<setup, db, log, held, taken>>
  BY DEF Restart
<1>2. UNCHANGED doubtful
  BY DEF Restart
<1>3. Shape /\ source \in Paced
  BY DEF Inv, Shape
<1>4. /\ source' \in Paced /\ source'.inner = source.inner /\ source'.pending = Nothing
      /\ ~source'.sleeping
  BY <1>1, <1>3 DEF NewPaced, Paced, Items, Nothing
<1>5. ingest' \in Ingests /\ ingest'.pc = "start" /\ ingest'.msg = 0
  BY <1>1 DEF NewIngest, Ingests
<1>6. \A s \in Subscribers : /\ IsTask(subs'[s]) /\ subs'[s].pc \in {"out", "closed"}
                             /\ subs'[s].since = 0 /\ subs'[s].live = <<>>
  BY <1>1 DEF NoTask, Finished, IsTask
<1>7. Shape'
  BY <1>1, <1>3, <1>4, <1>5, <1>6, SMTT(30) DEF Shape, Paced
<1>8. SourceInv' /\ OrderInv'
  BY <1>1, <1>4, <1>5, ZenonT(60) DEF Inv, SourceInv, OrderInv, Pulled, InHand
<1>9. FeedInv'
  BY <1>1, <1>3, <1>6 DEF FeedInv, Shape
<1>10. StoreInv'
  BY <1>1, <1>2, <1>5, SMTT(30) DEF Inv, StoreInv
<1>11. Accounted'
  <2>1. Nothing.id = 0
    BY DEF Nothing
  <2> QED BY <1>1, <1>4, <1>5, <2>1, SMTT(30) DEF Inv, Accounted
<1> QED BY <1>7, <1>8, <1>9, <1>10, <1>11 DEF Inv
-----------------------------------------------------------------------------
(* The theorems. *)

LEMMA NextInv == Inv /\ [Next]_vars => Inv'
<1> SUFFICES ASSUME Inv, [Next]_vars PROVE Inv'
  OBVIOUS
<1>1. CASE IngestStep
  BY <1>1, IngestStartInv, IngestPullInv, IngestStoreInv, IngestDropInv, IngestSendInv, SMTT(30)
  DEF IngestStep
<1>2. CASE ServeReturns \/ UNCHANGED vars
  <2>1. UNCHANGED <<setup, source, db, ingest, ring, subs, log, held, taken, gone, doubtful>>
    BY <1>2 DEF ServeReturns, vars, tasks, history
  <2>2. Shape' /\ SourceInv' /\ OrderInv'
    BY <2>1, SMTT(30) DEF Inv, Shape, Paced, SourceInv, OrderInv, Pulled
  <2>3. FeedInv' /\ StoreInv' /\ Accounted'
    BY <2>1 DEF Inv, FeedInv, StoreInv, Accounted
  <2> QED BY <2>2, <2>3 DEF Inv
<1>3. CASE Expire
  BY <1>3, ExpireInv
<1>4. CASE Restart
  BY <1>4, RestartInv
<1>5. CASE \E s \in Subscribers : Accept(s) \/ SubscriberStep(s)
  BY <1>5, SubscriberInv
<1> QED BY <1>1, <1>2, <1>3, <1>4, <1>5, SMTT(30) DEF Next

\* The inductive invariant of the server: where the source, the message in hand, the
\* database, the channel and the subscribers stand in relation to each other.
THEOREM Invariance == Spec => []Inv
<1> QED BY InitInv, NextInv, PTL DEF Spec

\* What the source yields is broadcast in order, or dropped by a failed store or a crash,
\* whatever the pacing and however often the server is restarted.
THEOREM SourceAccounted == Spec => []Accounted
<1>1. Inv => Accounted
  BY DEF Inv
<1> QED BY <1>1, Invariance, PTL

\* A message is in the database before any subscriber can see it, unless the numbering
\* was started blindly or an INSERT failed after it took effect.
THEOREM PersistedFirst == Spec => []PersistedBeforeSeen
<1>1. Inv => PersistedBeforeSeen
  <2>1. ASSUME Inv, ~doubtful, setup.backend # "null", NEW e \in Range(log)
        PROVE  e \in held
    BY <2>1 DEF Inv, StoreInv, Range
  <2> QED BY <2>1 DEF PersistedBeforeSeen, Persisted
<1> QED BY <1>1, Invariance, PTL
-----------------------------------------------------------------------------
(* The server implements Broadcast. *)

Messages == UNION {DOMAIN c.items : c \in Setups}
Published == [i \in 1..Len(log) |-> log[i].msg]
Joined == {s \in Subscribers : subs[s].pc \notin {"out", "closed"}}
Since == [s \in Subscribers |-> subs[s].since]
Got == [s \in Subscribers |-> subs[s].live]

LEMMA FeedInit == Init => Feed!Init
  BY SMTT(30) DEF Init, NoTask, Feed!Init

\* A step of the ingest task publishes a message or nothing.
LEMMA FeedPublishes == Inv /\ IngestSend => Feed!Publish
<1> SUFFICES ASSUME Inv, IngestSend PROVE Feed!Publish
  OBVIOUS
<1> DEFINE entry == [seq |-> ingest.next_seq, msg |-> ingest.msg]
<1>1. ingest.pc = "send" /\ log' = Append(log, entry) /\ UNCHANGED subs
  BY DEF IngestSend
<1>2. ingest.msg \in Messages
  <2>1. /\ ingest.msg \in 1..Pulled /\ Pulled \in Nat /\ Pulled <= Len(setup.items)
        /\ setup.items \in Seq(Items) /\ setup \in Setups
    BY <1>1, NextItem DEF Inv, Shape, SourceInv, InHand
  <2>2. ingest.msg \in DOMAIN setup.items
    BY <2>1
  <2> QED BY <2>1, <2>2 DEF Messages
<1>3. Published' = Append(Published, ingest.msg)
  <2>1. log \in Seq(Entries) /\ entry \in Entries /\ entry.msg = ingest.msg
    BY DEF Inv, Shape, Entries, Ingests
  <2>2. PICK m \in Nat : m = Len(log)
    BY <2>1
  <2>3. Len(log') = m + 1 /\ log'[m + 1] = entry /\ \A i \in 1..m : log'[i] = log[i]
    BY <1>1, <2>1, <2>2
  <2>4. Published \in Seq(Nat) /\ Len(Published) = m
    <3>0. \A i \in 1..m : log[i] \in Entries
      BY <2>1, <2>2
    <3>1. \A i \in 1..m : log[i].msg \in Nat
      BY <3>0 DEF Entries
    <3>2. Published \in [1..m -> Nat]
      BY <2>2, <3>1 DEF Published
    <3> QED BY <3>2
  <2>5. /\ Append(Published, ingest.msg) = [i \in 1..(m + 1) |->
              IF i = m + 1 THEN ingest.msg ELSE Published[i]]
    BY <2>2, <2>4
  <2>6. ASSUME NEW i \in 1..(m + 1)
        PROVE  log'[i].msg = IF i = m + 1 THEN ingest.msg ELSE Published[i]
    BY <2>1, <2>2, <2>3 DEF Published
  <2> QED BY <2>3, <2>5, <2>6 DEF Published
<1> QED BY <1>1, <1>2, <1>3, Zenon DEF Feed!Publish, Messages, Published

\* A step of a subscriber's task joins, leaves, delivers, or changes nothing.
LEMMA FeedServes ==
  ASSUME Inv, NEW s \in Subscribers, Accept(s) \/ SubscriberStep(s)
  PROVE  Feed!Join(s) \/ Feed!Leave \/ Feed!Deliver(s) \/ UNCHANGED Feed!feed
<1>1. PICK new : /\ Task(s, new) /\ IsTask(new)
                 /\ \/ Joins(subs[s], new) \/ new = Finished
                    \/ Stays(subs[s], new) \/ Gets(subs[s], new)
  BY SubscriberTask DEF Inv
<1>2. subs' = [subs EXCEPT ![s] = new] /\ UNCHANGED log
  BY <1>1 DEF Task, history
<1>3. /\ subs'[s] = new /\ \A t \in Subscribers : t # s => subs'[t] = subs[t]
  BY <1>2 DEF Inv, Shape
<1>4. log \in Seq(Entries) /\ IsTask(subs[s]) /\ Len(log) \in Nat
  BY DEF Inv, Shape
<1>5. Len(Published) = Len(log) /\ \A i \in 1..Len(log) : Published[i] = log[i].msg
  BY <1>4 DEF Published
<1>6. \A t \in Subscribers : t \notin Joined => Since[t] = 0 /\ Got[t] = <<>>
  BY DEF Inv, FeedInv, Joined, Since, Got
<1>7. CASE Joins(subs[s], new)
  <2>1. s \notin Joined /\ Joined' = Joined \cup {s}
    BY <1>3, <1>7 DEF Joins, Served, Joined
  <2>2. Since' = [Since EXCEPT ![s] = Len(Published)] /\ Got' = [Got EXCEPT ![s] = <<>>]
    BY <1>3, <1>5, <1>7, Zenon DEF Joins, Since, Got
  <2> QED BY <1>2, <2>1, <2>2, Zenon DEF Feed!Join, Published, Joined, Since, Got
<1>8. CASE new = Finished
  <2>1. Joined' = Joined \ {s}
    BY <1>3, <1>8 DEF Finished, NoTask, Joined
  <2>2. /\ Since' = [t \in Subscribers |-> IF t \in Joined' THEN Since[t] ELSE 0]
        /\ Got' = [t \in Subscribers |-> IF t \in Joined' THEN Got[t] ELSE <<>>]
    BY <1>3, <1>6, <1>8, <2>1, SMTT(30) DEF Finished, NoTask, Since, Got
  <2> QED BY <1>2, <2>1, <2>2 DEF Feed!Leave, Published, Joined, Since, Got
<1>9. CASE Stays(subs[s], new)
  <2>1. Joined' = Joined /\ Since' = Since /\ Got' = Got
    BY <1>3, <1>9, SMTT(30) DEF Stays, Served, Joined, Since, Got
  <2> QED BY <1>2, <2>1, SMTT(30) DEF Feed!feed, Published, Joined, Since, Got
<1>10. CASE Gets(subs[s], new)
  <2>1. s \in Joined /\ Joined' = Joined /\ Since' = Since
    BY <1>3, <1>10, SMTT(30) DEF Gets, Served, Joined, Since
  <2>2. subs[s].pos = Since[s] + Len(Got[s]) /\ subs[s].pos < Len(log) /\ subs[s].pos \in Nat
    BY <1>4, <1>10 DEF Gets, Served, Inv, FeedInv, Since, Got, IsTask
  <2>3. subs[s].pos + 1 \in 1..Len(log)
    BY <1>4, <2>2, SMTT(30)
  <2>4. new.live = Append(Got[s], Published[Since[s] + Len(Got[s]) + 1])
    BY <1>5, <1>10, <2>2, <2>3, SMTT(30) DEF Gets, Got
  <2>5. Got' = [Got EXCEPT ![s] = Append(@, Published[Since[s] + Len(@) + 1])]
    BY <1>3, <2>4, Zenon DEF Got
  <2> QED BY <1>2, <1>5, <2>1, <2>2, <2>5, SMTT(30) DEF Feed!Deliver, Published, Joined, Since, Got
<1> QED BY <1>1, <1>7, <1>8, <1>9, <1>10, SMTT(30)

LEMMA FeedStep == Inv /\ [Next]_vars => [Feed!Next]_(Feed!feed)
<1> SUFFICES ASSUME Inv, [Next]_vars PROVE Feed!Next \/ UNCHANGED Feed!feed
  OBVIOUS
<1>1. ASSUME UNCHANGED <<log, subs>> PROVE UNCHANGED Feed!feed
  BY <1>1 DEF Feed!feed
<1>2. CASE IngestStep \/ ServeReturns \/ UNCHANGED vars
  <2>1. CASE IngestSend
    BY <2>1, FeedPublishes DEF Feed!Next
  <2>2. CASE IngestStart \/ IngestStartBlind \/ IngestPull \/ IngestStore \/ IngestDrop
    <3>1. UNCHANGED <<log, subs>>
      BY <2>2, ZenonT(60) DEF IngestStart, IngestStartBlind, IngestPull, IngestStore, IngestDrop, history
    <3> QED BY <1>1, <3>1, SMTT(30)
  <2>3. CASE ServeReturns \/ UNCHANGED vars
    <3>1. UNCHANGED <<log, subs>>
      BY <2>3 DEF ServeReturns, vars, tasks, history
    <3> QED BY <1>1, <3>1
  <2> QED BY <1>2, <2>1, <2>2, <2>3, SMTT(30) DEF IngestStep
<1>3. CASE Expire
  <2>1. UNCHANGED log
    BY <1>3 DEF Expire, history
  <2>2. \A s \in Subscribers : /\ subs'[s].pc = subs[s].pc /\ subs'[s].since = subs[s].since
                               /\ subs'[s].live = subs[s].live
    BY <1>3 DEF Expire, Inv, Shape, IsTask
  <2>3. Joined' = Joined /\ Since' = Since /\ Got' = Got
    BY <2>2 DEF Joined, Since, Got
  <2> QED BY <2>1, <2>3 DEF Feed!feed, Published, Joined, Since, Got
<1>4. CASE Restart
  <2>1. UNCHANGED log
    BY <1>4 DEF Restart
  <2>2. \A s \in Subscribers : /\ subs'[s].pc \in {"out", "closed"} /\ subs'[s].since = 0
                               /\ subs'[s].live = <<>>
    BY <1>4 DEF Restart, NoTask, Finished
  <2>3. /\ Joined' = {} /\ Since' = [s \in Subscribers |-> 0]
        /\ Got' = [s \in Subscribers |-> <<>>]
    BY <2>2 DEF Joined, Since, Got
  <2>4. Feed!Leave
    BY <2>1, <2>3 DEF Feed!Leave, Published, Joined, Since, Got
  <2> QED BY <2>4 DEF Feed!Next
<1>5. CASE \E s \in Subscribers : Accept(s) \/ SubscriberStep(s)
  BY <1>5, FeedServes DEF Feed!Next
<1> QED BY <1>2, <1>3, <1>4, <1>5 DEF Next

\* The server implements the abstract broadcast: with a channel that keeps only the last
\* Capacity messages, every subscriber gets what is broadcast from Accept on, in order and
\* without a hole, or is dropped.
THEOREM BroadcastImplemented == Spec => ImplementsBroadcast
<1> QED BY FeedInit, FeedStep, Invariance, PTL DEF Spec, ImplementsBroadcast, Feed!Spec
=============================================================================
