------------------------- MODULE SoupSessionProofs --------------------------
(***************************************************************************)
(* Proofs about SoupSession, for every length of the session, capacity of  *)
(* the store and of the broadcast, warmup and chunk: what is broadcast is  *)
(* stored, and the replay meets the live broadcast.                        *)
(***************************************************************************)
EXTENDS SoupSession, Counting, TLAPS

Packets == [tag : {"A", "J", "S", "Z"}, seq : Nat, msg : Nat]

Tasks == [pc : {"none", "login", "warmup", "replay", "live"}, pos : Nat,
          latest : Nat, next_expected : Nat]

LinkShape ==
  /\ wire \in Seq(Packets) /\ asked \in Nat
  /\ DOMAIN client = {"pc", "next_sequence", "expected", "attempt", "last"}
  /\ client.next_sequence \in Nat /\ client.expected \in Nat

ServerShape ==
  /\ cfg.start \in Nat \ {0} /\ cfg.warmup \in Nat
  /\ ingest \in [pc : {"start", "pull", "send", "done"}, next_seq : Nat, taken : Nat]
  /\ log \in Seq([seq : Nat, msg : Nat])
  /\ task \in Tasks
  /\ task.pos <= Len(log)

\* The store holds numbers it has seen, the last of them the one ingest is at.
StoreInv ==
  /\ DOMAIN store = {"map", "max_seen", "capacity"}
  /\ store.max_seen \in Nat /\ store.capacity \in Nat \ {0}
  /\ \A n \in Stored(store) : n \in Nat /\ n <= store.max_seen /\ store.map[n] \in Nat
  /\ ingest.pc = "start" => Stored(store) = {} /\ store.max_seen = 0 /\ log = <<>>
  /\ ingest.pc \in {"pull", "done"} => store.max_seen < ingest.next_seq
  /\ ingest.pc = "send" =>
       /\ store.max_seen = ingest.next_seq
       /\ ingest.next_seq \in Stored(store) => store.map[ingest.next_seq] = ingest.taken

\* The broadcast is a run of numbers up to the one ingest is at, as the store has them.
LogInv ==
  /\ log # <<>> => ingest.next_seq <= store.max_seen + 1
  /\ \A i \in 1..Len(log) :
       /\ log[i].seq = ingest.next_seq - Len(log) + i - 1
       /\ log[i].seq \in Stored(store) => store.map[log[i].seq] = log[i].msg

\* The number of the broadcast that the task receives next.
Due == ingest.next_seq - Len(log) + task.pos

\* What the store holds beyond the latest number read at the login will still be received;
\* so will, after the replay, the number the subscriber waits for if the store holds it.
TaskInv ==
  ~cfg.flaky =>
    /\ task.pc \in {"warmup", "replay"} =>
         \A n \in Stored(store) : n > task.latest => n >= Due
    /\ task.pc = "live" /\ task.next_expected \in Stored(store) => task.next_expected >= Due

Inv == LinkShape /\ ServerShape /\ StoreInv /\ LogInv /\ TaskInv
-----------------------------------------------------------------------------
LEMMA ElementOf ==
  ASSUME NEW S, NEW q \in Seq(S), NEW i \in 1..Len(q)
  PROVE  q[i] \in S
OBVIOUS

\* What follows a sequence keeps its order.
LEMMA Following ==
  ASSUME NEW S, NEW q \in Seq(S), NEW r \in Seq(S)
  PROVE  /\ Len(q \o r) = Len(q) + Len(r)
         /\ \A i \in 1..Len(r) : (q \o r)[Len(q) + i] = r[i]
OBVIOUS

RunOf(s, from, m, range) ==
  /\ range = [i \in 1..m |-> [seq |-> from + i - 1, msg |-> s.map[from + i - 1]]]
  /\ from..(from + m - 1) \subseteq Stored(s)
  /\ m = 0 => from \notin Stored(s)

\* store.range returns a run of numbers that the store holds, and nothing only when the
\* store does not hold the first.
LEMMA RangeIsRun ==
  ASSUME Counting, NEW s, NEW from \in Nat, NEW count \in Nat \ {0}
  PROVE  \E m \in Nat : RunOf(s, from, m, StoreRange(s, from, count))
<1> DEFINE R == {k \in 0..(count - 1) : from..(from + k) \subseteq Stored(s)}
<1>1. R \in SUBSET Nat /\ R \in SUBSET (0..(count - 1))
  OBVIOUS
<1>2. \A n \in R : 0 <= n /\ 0..n \subseteq R
  OBVIOUS
<1>3. \A n \in R : from..(from + n) \subseteq Stored(s)
  BY Zenon
<1>4. from \in Stored(s) => 0 \in R
  <2>1. from..(from + 0) = {from} /\ 0 \in 0..(count - 1)
    OBVIOUS
  <2> QED BY <2>1, Zenon
<1>5. StoreRange(s, from, count) =
        [i \in 1..Cardinality(R) |-> [seq |-> from + i - 1, msg |-> s.map[from + i - 1]]]
  BY Zenon DEF StoreRange
<1> HIDE DEF R
<1>6. IsFiniteSet(R)
  <2>1. IsFiniteSet(0..(count - 1))
    BY DEF Counting, CountInterval
  <2> QED BY <1>1, <2>1, Zenon DEF Counting, CountSubset
<1>7. 0 \in Nat
  BY Zenon
<1>8. Cardinality(R) \in Nat /\ R = 0..(0 + Cardinality(R) - 1)
  BY <1>1, <1>2, <1>6, <1>7, Zenon DEF Counting, CountRun
<1>9. PICK m \in Nat : m = Cardinality(R)
  BY <1>8, Zenon
<1>10. R = 0..(m - 1)
  BY <1>8, <1>9
<1>11. from..(from + m - 1) \subseteq Stored(s)
  <2>1. CASE m = 0
    BY <2>1
  <2>2. CASE m > 0
    <3>1. m - 1 \in R /\ from + (m - 1) = from + m - 1
      BY <1>10, <2>2
    <3> QED BY <1>3, <3>1, Zenon
  <2> QED BY <2>1, <2>2
<1>12. m = 0 => from \notin Stored(s)
  BY <1>4, <1>10
<1>13. RunOf(s, from, m, StoreRange(s, from, count))
  BY <1>5, <1>9, <1>11, <1>12, Zenon DEF RunOf
<1> QED BY <1>13, Zenon

\* A number above all that the store has seen is stored; others may go, none changes.
LEMMA StoreAbove ==
  ASSUME NEW s, DOMAIN s = {"map", "max_seen", "capacity"}, s.max_seen \in Nat,
         \A n \in Stored(s) : n \in Nat /\ n <= s.max_seen,
         NEW seq \in Nat, seq > s.max_seen, NEW msg
  PROVE  LET t == Store(s, seq, msg)
         IN  /\ DOMAIN t = {"map", "max_seen", "capacity"}
             /\ t.max_seen = seq /\ t.capacity = s.capacity
             /\ Stored(t) \subseteq Stored(s) \cup {seq}
             /\ seq \in Stored(t) /\ t.map[seq] = msg
             /\ \A n \in Stored(t) : n # seq => t.map[n] = s.map[n]
<1> DEFINE kept == IF Cardinality(Stored(s)) = s.capacity
                   THEN {n \in Stored(s) : \E m \in Stored(s) : m < n} ELSE Stored(s)
           map == [n \in kept \cup {seq} |-> IF n = seq THEN msg ELSE s.map[n]]
           t == [s EXCEPT !.map = map, !.max_seen = IF seq > @ THEN seq ELSE @]
<1>1. kept \subseteq Stored(s)
  BY Zenon
<1>2. seq \notin Stored(s)
  OBVIOUS
<1>3. Store(s, seq, msg) = t
  BY <1>2, Zenon DEF Store
<1>4. DOMAIN map = kept \cup {seq} /\ map[seq] = msg
  BY Zenon
<1>5. \A n \in DOMAIN map : n # seq => map[n] = s.map[n]
  BY Zenon
<1> HIDE DEF kept, map
<1>6. /\ DOMAIN t = {"map", "max_seen", "capacity"} /\ t.map = map
      /\ t.max_seen = seq /\ t.capacity = s.capacity
  BY Zenon
<1> HIDE DEF t
<1> QED BY <1>1, <1>3, <1>4, <1>5, <1>6, Zenon DEF Stored
-----------------------------------------------------------------------------
LEMMA NoTaskIsTask == NoTask \in Tasks /\ NoTask.pc = "none" /\ NoTask.pos = 0
BY Zenon DEF NoTask, Tasks

\* The initial states satisfy the invariant.
LEMMA InitInv == Init => Inv
<1> SUFFICES ASSUME Init PROVE Inv
  BY Zenon
<1> USE DEF Init, InitServer, InitLink, InitClient
<1>1. LinkShape
  BY SoupClientAssumption DEF LinkShape, Packets
<1>2. ServerShape
  <2>1. cfg.start \in StartSeqs /\ cfg.warmup \in Warmups
    BY Zenon
  <2>2. log \in Seq([seq : Nat, msg : Nat]) /\ Len(log) = 0
    OBVIOUS
  <2>3. ingest \in [pc : {"start", "pull", "send", "done"}, next_seq : Nat, taken : Nat]
    BY Zenon
  <2>4. task \in Tasks /\ task.pos <= Len(log)
    BY <2>2, NoTaskIsTask
  <2>5. cfg.start \in Nat \ {0} /\ cfg.warmup \in Nat
    BY <2>1, SoupAssumption, Zenon
  <2> QED BY <2>2, <2>3, <2>4, <2>5, Zenon DEF ServerShape
<1>3. Stored(store) = {} /\ StoreInv
  <2>1. PICK c \in Capacities : store = NewStore(c)
    BY Zenon
  <2>2. DOMAIN store = {"map", "max_seen", "capacity"} /\ store.max_seen = 0
        /\ store.map = [n \in {} |-> 0] /\ store.capacity = IF c = 0 THEN 1 ELSE c
    BY <2>1, Zenon DEF NewStore
  <2>3. Stored(store) = {} /\ store.capacity \in Nat \ {0} /\ ingest.pc = "start"
    BY <2>2, SoupAssumption DEF Stored
  <2> QED BY <2>2, <2>3 DEF StoreInv
<1>4. LogInv
  <2>1. log = <<>> /\ Len(log) = 0
    BY Zenon
  <2> QED BY <2>1 DEF LogInv
<1>5. TaskInv
  BY <1>3, NoTaskIsTask, Zenon DEF TaskInv
<1> QED BY <1>1, <1>2, <1>3, <1>4, <1>5, Zenon DEF Inv
\* A step that leaves ingest alone and moves the task keeps the invariant if it keeps the
\* parts that are about the task and the link.
LEMMA TaskMoves ==
  ASSUME Inv, UNCHANGED <<cfg, store, ingest, log>>, LinkShape',
         task' \in Tasks, task'.pos <= Len(log), TaskInv'
  PROVE  Inv'
<1>1. ServerShape'
  BY Zenon DEF Inv, ServerShape
<1>2. StoreInv'
  BY Zenon DEF Inv, StoreInv
<1>3. LogInv'
  BY Zenon DEF Inv, LogInv
<1> QED BY <1>1, <1>2, <1>3, Zenon DEF Inv

\* A subscriber that is gone, or not yet logged in, waits for nothing.
LEMMA TaskIdle ==
  ASSUME task'.pc \in {"none", "login"}
  PROVE  TaskInv'
BY Zenon DEF TaskInv

\* A step that leaves the server's variables alone keeps the invariant if it keeps the
\* shape of the link.
LEMMA LinkMoves ==
  ASSUME Inv, UNCHANGED <<cfg, store, ingest, log, task>>, LinkShape'
  PROVE  Inv'
<1>1. TaskInv'
  BY Zenon DEF Inv, TaskInv, Due
<1>2. task' \in Tasks /\ task'.pos <= Len(log)
  BY Zenon DEF Inv, ServerShape
<1> QED BY <1>1, <1>2, TaskMoves, Zenon

\* The steps of the resilient client keep the invariant.
LEMMA ClientInv ==
  ASSUME Inv, ClientStep, UNCHANGED servervars
  PROVE  Inv'
<1>0. UNCHANGED <<cfg, store, ingest, log, task>>
  BY Zenon DEF servervars
<1>1. LinkShape
  BY Zenon DEF Inv
<1>2. wire # <<>> => Tail(wire) \in Seq(Packets) /\ Head(wire) \in Packets
  BY <1>1 DEF LinkShape
<1>3. <<>> \in Seq(Packets)
  OBVIOUS
<1>4. LinkShape'
  <2>1. CASE Connect
    BY <1>1, <1>3, <2>1, Zenon DEF Connect, LinkShape
  <2>2. CASE ConnectFails
    BY <1>1, <1>3, <2>2, Zenon DEF ConnectFails, Drop, LinkShape
  <2>3. CASE LoginSucceeds
    <3>1. Head(wire).seq \in Nat
      BY <1>2, <2>3, Zenon DEF LoginSucceeds, Packets
    <3> QED BY <1>1, <1>2, <2>3, <3>1, Zenon DEF LoginSucceeds, LinkShape
  <2>4. CASE LoginFails
    BY <1>1, <1>3, <2>4, Zenon DEF LoginFails, Drop, LinkShape
  <2>5. CASE ReadMessage
    BY <1>1, <1>2, <2>5 DEF ReadMessage, LinkShape
  <2>6. CASE Disconnected
    BY <1>1, <1>3, <2>6, Zenon DEF Disconnected, Drop, LinkShape
  <2> QED BY <2>1, <2>2, <2>3, <2>4, <2>5, <2>6, Zenon DEF ClientStep
<1> QED BY <1>0, <1>4, LinkMoves, Zenon

\* The accept loop and the shutdown keep the invariant.
LEMMA AcceptInv ==
  ASSUME Inv, Accept \/ Shutdown \/ WaitIngest \/ JoinIngest \/ Return, UNCHANGED clientvars
  PROVE  Inv'
<1>1. UNCHANGED <<cfg, store, ingest, log, asked, wire, client>>
  BY Zenon DEF Accept, Shutdown, WaitIngest, JoinIngest, Return, link, clientvars
<1>2. LinkShape'
  BY <1>1, Zenon DEF Inv, LinkShape
<1>3. CASE Accept
  <2>1. PICK k \in Nat : k = Len(log)
    BY DEF Inv, ServerShape
  <2>2. task' = [pc |-> "login", pos |-> k, latest |-> 0, next_expected |-> 0]
    BY <1>3, <2>1, Zenon DEF Accept, NoTask
  <2>3. task' \in Tasks /\ task'.pos <= Len(log) /\ task'.pc = "login"
    BY <2>1, <2>2 DEF Tasks
  <2> QED BY <1>1, <1>2, <2>3, TaskMoves, TaskIdle, Zenon
<1>4. CASE ~Accept
  <2>1. task' = task
    BY <1>4, Zenon DEF Shutdown, WaitIngest, JoinIngest, Return
  <2> QED BY <1>1, <1>2, <2>1, LinkMoves, Zenon
<1> QED BY <1>3, <1>4, Zenon
-----------------------------------------------------------------------------
\* The ingest task keeps the invariant: it starts above what the store has seen, ...
LEMMA IngestStartInv ==
  ASSUME Inv, IngestStart, UNCHANGED clientvars
  PROVE  Inv'
<1> USE DEF IngestStart, clientvars, link
<1>1. LinkShape'
  BY Zenon DEF Inv, LinkShape
<1>2. ingest.pc = "start" /\ store.max_seen = 0 /\ Stored(store) = {} /\ log = <<>>
  BY Zenon DEF Inv, StoreInv
<1>3. PICK t \in Nat : t = ingest.taken
  BY Zenon DEF Inv, ServerShape
<1>4. PICK n \in Nat \ {0} : ingest' = [pc |-> "pull", next_seq |-> n, taken |-> t]
  <2>1. cfg.start \in Nat \ {0} /\ DOMAIN ingest = {"pc", "next_seq", "taken"}
    BY Zenon DEF Inv, ServerShape
  <2> DEFINE n == IF Latest(store) + 1 > cfg.start THEN Latest(store) + 1 ELSE cfg.start
  <2>2. n \in Nat \ {0}
    BY <1>2, <2>1 DEF Latest
  <2> HIDE DEF n
  <2>3. ingest' = [ingest EXCEPT !.pc = "pull", !.next_seq = n]
    BY Zenon DEF n
  <2>4. ingest' = [pc |-> "pull", next_seq |-> n, taken |-> t]
    BY <1>3, <2>1, <2>3, Zenon
  <2> QED BY <2>2, <2>4, Zenon
<1>5. ServerShape'
  BY <1>4 DEF Inv, ServerShape
<1>6. StoreInv'
  <2>1. store' = store
    BY Zenon
  <2> HIDE DEF IngestStart
  <2>2. ingest'.pc = "pull" /\ ingest'.next_seq = n
    BY <1>4, Zenon
  <2> QED BY <1>2, <2>1, <2>2 DEF Inv, StoreInv, Stored
<1>7. LogInv'
  <2>1. log' = <<>> /\ Len(log') = 0
    BY <1>2, Zenon
  <2> QED BY <2>1 DEF LogInv
<1>8. TaskInv'
  <2>1. Stored(store)' = {} /\ cfg' = cfg
    BY <1>2, Zenon
  <2> QED BY <2>1, Zenon DEF TaskInv
<1> QED BY <1>1, <1>5, <1>6, <1>7, <1>8, Zenon DEF Inv

\* ... it stores a message under a number that is still to be broadcast, ...
LEMMA IngestStoreInv ==
  ASSUME Inv, IngestStore, UNCHANGED clientvars
  PROVE  Inv'
<1> USE DEF IngestStore, clientvars, link
<1>1. LinkShape'
  BY Zenon DEF Inv, LinkShape
<1>2. PICK n \in Nat, t \in Nat : ingest = [pc |-> "pull", next_seq |-> n, taken |-> t]
  BY Zenon DEF Inv, ServerShape
<1>3. ingest' = [pc |-> "send", next_seq |-> n, taken |-> t + 1]
  BY <1>2, Zenon
<1>4. store' = Store(store, n, t + 1)
  BY <1>2, Zenon
<1>5. /\ DOMAIN store = {"map", "max_seen", "capacity"} /\ store.max_seen \in Nat
      /\ \A k \in Stored(store) : k \in Nat /\ k <= store.max_seen /\ store.map[k] \in Nat
      /\ store.max_seen < n /\ store.capacity \in Nat \ {0}
  BY <1>2, Zenon DEF Inv, StoreInv
<1>6. /\ DOMAIN store' = {"map", "max_seen", "capacity"}
      /\ store'.max_seen = n /\ store'.capacity = store.capacity
      /\ Stored(store') \subseteq Stored(store) \cup {n}
      /\ n \in Stored(store') /\ store'.map[n] = t + 1
      /\ \A k \in Stored(store') : k # n => store'.map[k] = store.map[k]
  BY <1>4, <1>5, StoreAbove
<1>7. ServerShape'
  BY <1>3 DEF Inv, ServerShape
<1>8. StoreInv'
  <2>1. \A k \in Stored(store') : k \in Nat /\ k <= n /\ store'.map[k] \in Nat
    BY <1>5, <1>6
  <2> HIDE DEF IngestStore
  <2>2. ingest'.pc = "send" /\ ingest'.next_seq = n /\ ingest'.taken = t + 1
    BY <1>3, Zenon
  <2> QED BY <1>5, <1>6, <2>1, <2>2 DEF StoreInv, Stored
<1>9. LogInv'
  <2>1. \A i \in 1..Len(log) :
          /\ log[i].seq = n - Len(log) + i - 1
          /\ log[i].seq \in Stored(store) => store.map[log[i].seq] = log[i].msg
    BY <1>2, Zenon DEF Inv, LogInv
  <2>2. Len(log) \in Nat
    BY DEF Inv, ServerShape
  <2>3. \A i \in 1..Len(log) : log[i].seq < n
    BY <2>1, <2>2
  <2>4. \A i \in 1..Len(log) :
          log[i].seq \in Stored(store') => store'.map[log[i].seq] = log[i].msg
    <3> TAKE i \in 1..Len(log)
    <3> SUFFICES ASSUME log[i].seq \in Stored(store')
                 PROVE  store'.map[log[i].seq] = log[i].msg
      BY Zenon
    <3>1. log[i].seq # n
      BY <2>1, <2>2, <2>3
    <3>2. log[i].seq \in Stored(store)
      BY <1>6, <3>1, Zenon
    <3>3. store'.map[log[i].seq] = store.map[log[i].seq]
      BY <1>6, <3>1, Zenon
    <3> QED BY <2>1, <3>2, <3>3, Zenon
  <2>5. log' = log
    BY Zenon
  <2> HIDE DEF IngestStore
  <2>6. ingest'.next_seq = n
    BY <1>3, Zenon
  <2> QED BY <1>6, <2>1, <2>2, <2>4, <2>5, <2>6 DEF LogInv, Stored
<1>10. TaskInv'
  <2>1. task' = task /\ cfg' = cfg /\ Due' = Due
    BY <1>2, <1>3, Zenon DEF Due
  <2>2. n >= Due
    <3>1. Len(log) \in Nat /\ task.pos \in Nat /\ task.pos <= Len(log)
      BY DEF Inv, ServerShape, Tasks
    <3> QED BY <1>2, <3>1 DEF Due
  <2> QED BY <1>6, <2>1, <2>2, Zenon DEF Inv, TaskInv
<1> QED BY <1>1, <1>7, <1>8, <1>9, <1>10, Zenon DEF Inv

\* ... it drops a message the store refuses, or ends, ...
LEMMA IngestStopInv ==
  ASSUME Inv, IngestDrop \/ IngestEnds, UNCHANGED clientvars
  PROVE  Inv'
<1>1. UNCHANGED <<cfg, store, log, task, asked, wire, client>> /\ ingest.pc = "pull"
  BY Zenon DEF IngestDrop, IngestEnds, clientvars, link
<1>2. PICK n \in Nat, t \in Nat : ingest = [pc |-> "pull", next_seq |-> n, taken |-> t]
  BY <1>1, Zenon DEF Inv, ServerShape
<1>3. \/ ingest' = [pc |-> "pull", next_seq |-> n, taken |-> t + 1]
      \/ ingest' = [pc |-> "done", next_seq |-> n, taken |-> t]
  BY <1>2, Zenon DEF IngestDrop, IngestEnds
<1>4. ingest'.next_seq = n /\ ingest'.pc \in {"pull", "done"} /\ ingest.next_seq = n
  BY <1>2, <1>3
<1>5. LinkShape'
  BY <1>1, Zenon DEF Inv, LinkShape
<1>6. ServerShape'
  <2>1. ingest' \in [pc : {"start", "pull", "send", "done"}, next_seq : Nat, taken : Nat]
    BY <1>3
  <2> QED BY <1>1, <2>1, Zenon DEF Inv, ServerShape
<1>7. StoreInv'
  BY <1>1, <1>4, Zenon DEF Inv, StoreInv
<1>8. LogInv'
  BY <1>1, <1>4, Zenon DEF Inv, LogInv
<1>9. TaskInv'
  BY <1>1, <1>4, Zenon DEF Inv, TaskInv, Due
<1> QED BY <1>5, <1>6, <1>7, <1>8, <1>9, Zenon DEF Inv

\* ... and it broadcasts what it has stored, one number after the other.
LEMMA IngestSendInv ==
  ASSUME Inv, IngestSend, UNCHANGED clientvars
  PROVE  Inv'
<1>1. UNCHANGED <<cfg, store, task, asked, wire, client>> /\ ingest.pc = "send"
  BY Zenon DEF IngestSend, clientvars, link
<1>2. PICK n \in Nat, t \in Nat : ingest = [pc |-> "send", next_seq |-> n, taken |-> t]
  BY <1>1, Zenon DEF Inv, ServerShape
<1>3. ingest' = [pc |-> "pull", next_seq |-> n + 1, taken |-> t]
  BY <1>2, Zenon DEF IngestSend
<1>4. log' = Append(log, [seq |-> n, msg |-> t])
  BY <1>2, Zenon DEF IngestSend
<1>5. /\ ingest'.next_seq = n + 1 /\ ingest'.pc = "pull"
      /\ ingest.next_seq = n /\ ingest.pc = "send" /\ ingest.taken = t
  BY <1>2, <1>3, Zenon
<1>6. PICK k \in Nat : k = Len(log)
  BY DEF Inv, ServerShape
<1>7. log \in Seq([seq : Nat, msg : Nat])
  BY Zenon DEF Inv, ServerShape
<1>8. /\ log' \in Seq([seq : Nat, msg : Nat]) /\ Len(log') = k + 1
      /\ log'[k + 1] = [seq |-> n, msg |-> t]
      /\ \A i \in 1..k : log'[i] = log[i]
  BY <1>4, <1>6, <1>7
<1>9. LinkShape'
  BY <1>1, Zenon DEF Inv, LinkShape
<1>10. ServerShape'
  <2>1. ingest' \in [pc : {"start", "pull", "send", "done"}, next_seq : Nat, taken : Nat]
    BY <1>3
  <2>2. task' \in Tasks /\ task'.pos \in Nat /\ task'.pos <= k
    BY <1>1, <1>6, Zenon DEF Inv, ServerShape, Tasks
  <2> QED BY <1>1, <1>8, <2>1, <2>2, SMTT(30) DEF Inv, ServerShape
<1>11. store.max_seen = n /\ (n \in Stored(store) => store.map[n] = t)
  BY <1>5, Zenon DEF Inv, StoreInv
<1>12. StoreInv'
  BY <1>1, <1>5, <1>11, SMTT(30) DEF Inv, StoreInv
<1>13. LogInv'
  <2>1. \A i \in 1..k :
          /\ log[i].seq = n - k + i - 1
          /\ log[i].seq \in Stored(store) => store.map[log[i].seq] = log[i].msg
    BY <1>5, <1>6, Zenon DEF Inv, LogInv
  <2>2. \A i \in 1..k :
          /\ log'[i].seq = (n + 1) - (k + 1) + i - 1
          /\ log'[i].seq \in Stored(store) => store.map[log'[i].seq] = log'[i].msg
    <3> TAKE i \in 1..k
    <3>1. log'[i] = log[i] /\ i \in Int /\ n - k + i - 1 = (n + 1) - (k + 1) + i - 1
      BY <1>8
    <3> QED BY <2>1, <3>1, Zenon
  <2>3. log'[k + 1].seq = n /\ log'[k + 1].msg = t
    BY <1>8
  <2>4. n = (n + 1) - (k + 1) + (k + 1) - 1 /\ 1..(k + 1) = (1..k) \cup {k + 1}
    OBVIOUS
  <2>5. \A i \in 1..(k + 1) :
          /\ log'[i].seq = (n + 1) - (k + 1) + i - 1
          /\ log'[i].seq \in Stored(store) => store.map[log'[i].seq] = log'[i].msg
    BY <1>11, <2>2, <2>3, <2>4, Zenon
  <2> QED BY <1>1, <1>5, <1>8, <1>11, <2>5 DEF LogInv
<1>14. TaskInv'
  <2>1. task.pos \in Nat
    BY Zenon DEF Inv, ServerShape, Tasks
  <2>2. Due' = Due
    BY <1>1, <1>5, <1>6, <1>8, <2>1 DEF Due
  <2> QED BY <1>1, <2>2, Zenon DEF Inv, TaskInv
<1> QED BY <1>9, <1>10, <1>12, <1>13, <1>14, Zenon DEF Inv
-----------------------------------------------------------------------------
\* What the task sends are packets.
LEMMA LinkGrows ==
  ASSUME LinkShape, NEW packets \in Seq(Packets), wire' = wire \o packets,
         asked' = asked, client' = client
  PROVE  LinkShape'
<1>1. wire \o packets \in Seq(Packets)
  BY DEF LinkShape
<1> QED BY <1>1, Zenon DEF LinkShape

LEMMA PacketTypes ==
  /\ \A n \in Nat : LoginAccepted(n) \in Packets
  /\ \A n, m \in Nat : SequencedData(n, m) \in Packets
  /\ LoginRejected \in Packets /\ EndOfSession \in Packets
BY Zenon DEF Packets, LoginAccepted, SequencedData, LoginRejected, EndOfSession

\* A task that ends keeps the invariant.
LEMMA TaskEndsInv ==
  ASSUME Inv, LoginRefused \/ TaskFails \/ LiveLagged \/ LiveClosed \/ ClientGone,
         UNCHANGED clientvars
  PROVE  Inv'
<1>1. /\ UNCHANGED <<cfg, store, ingest, log, asked, client>> /\ task' = NoTask
      /\ \/ wire' = wire
         \/ \E p \in {<<LoginRejected>>, <<>>, <<EndOfSession>>} : wire' = wire \o p
  BY Zenon DEF LoginRefused, TaskFails, LiveLagged, LiveClosed, ClientGone, TaskEnds, clientvars, link
<1>2. \A p \in {<<LoginRejected>>, <<>>, <<EndOfSession>>} : p \in Seq(Packets)
  <2>1. \A x \in Packets : <<x>> \in Seq(Packets)
    OBVIOUS
  <2>2. <<>> \in Seq(Packets)
    OBVIOUS
  <2> QED BY <2>1, <2>2, PacketTypes, Zenon
<1>3. LinkShape'
  <2>1. LinkShape
    BY Zenon DEF Inv
  <2>2. CASE wire' = wire
    BY <1>1, <2>1, <2>2, Zenon DEF LinkShape
  <2> QED BY <1>1, <1>2, <2>1, <2>2, LinkGrows, Zenon
<1>4. task' \in Tasks /\ task'.pc = "none" /\ task'.pos <= Len(log)
  <2>1. Len(log) \in Nat
    BY DEF Inv, ServerShape
  <2> QED BY <1>1, <2>1, NoTaskIsTask
<1> QED BY <1>1, <1>3, <1>4, TaskMoves, TaskIdle, Zenon

\* What the login does.
LEMMA LoginGrantedInv ==
  ASSUME Inv, LoginGranted, UNCHANGED clientvars
  PROVE  Inv'
<1>1. PICK p, l, e \in Nat : task = [pc |-> "login", pos |-> p, latest |-> l, next_expected |-> e]
  BY Zenon DEF LoginGranted, At, Inv, ServerShape, Tasks
<1>2. PICK latest \in {Latest(store)} \cup (IF cfg.flaky THEN {0} ELSE {}) :
        TaskGoesOn([task EXCEPT !.pc = "warmup", !.latest = latest,
                                !.next_expected = ResumeFrom(latest)],
                   <<LoginAccepted(ResumeFrom(latest))>>)
  BY Zenon DEF LoginGranted
<1>3. latest \in Nat /\ (~cfg.flaky => latest = store.max_seen) /\ store.max_seen \in Nat
  BY <1>2 DEF Inv, StoreInv, Latest
<1>4. asked \in Nat /\ LinkShape
  BY Zenon DEF Inv, LinkShape
<1>5. PICK r \in Nat : r = ResumeFrom(latest)
  BY <1>3, <1>4 DEF ResumeFrom
<1>6. task' = [pc |-> "warmup", pos |-> p, latest |-> latest, next_expected |-> r]
  BY <1>1, <1>2, <1>5, Zenon DEF TaskGoesOn
<1>7. UNCHANGED <<cfg, store, ingest, log, asked, client>> /\ wire' = wire \o <<LoginAccepted(r)>>
  BY <1>2, <1>5, Zenon DEF TaskGoesOn, clientvars
<1>8. LinkShape'
  <2>1. <<LoginAccepted(r)>> \in Seq(Packets)
    BY PacketTypes
  <2> QED BY <1>4, <1>7, <2>1, LinkGrows, Zenon
<1>9. task' \in Tasks /\ task'.pos <= Len(log)
  BY <1>1, <1>3, <1>6, Zenon DEF Inv, ServerShape, Tasks
<1>10. TaskInv'
  <2>1. ~cfg.flaky => \A n \in Stored(store) : ~(n > latest)
    BY <1>3 DEF Inv, StoreInv
  <2>2. task'.pc = "warmup" /\ task'.latest = latest
    BY <1>6, Zenon
  <2> QED BY <1>7, <2>1, <2>2, Zenon DEF TaskInv
<1> QED BY <1>7, <1>8, <1>9, <1>10, TaskMoves, Zenon

\* The warmup messages keep the invariant.
LEMMA WarmupInv ==
  ASSUME Inv, Warmup, UNCHANGED clientvars
  PROVE  Inv'
<1>1. PICK p, l, e \in Nat : task = [pc |-> "warmup", pos |-> p, latest |-> l, next_expected |-> e]
  BY Zenon DEF Warmup, At, Inv, ServerShape, Tasks
<1>2. task' = [pc |-> IF e <= l THEN "replay" ELSE "live", pos |-> p, latest |-> l,
               next_expected |-> e]
  BY <1>1, Zenon DEF Warmup, TaskGoesOn
<1> DEFINE warmup == [i \in 1..cfg.warmup |-> SequencedData(0, 0)]
<1>3. UNCHANGED <<cfg, store, ingest, log, asked, client>> /\ wire' = wire \o warmup
  BY Zenon DEF Warmup, TaskGoesOn, clientvars
<1>4. warmup \in Seq(Packets)
  <2>1. cfg.warmup \in Nat /\ SequencedData(0, 0) \in Packets
    BY PacketTypes, Zenon DEF Inv, ServerShape
  <2> QED BY <2>1
<1> HIDE DEF warmup
<1>5. LinkShape'
  <2>1. LinkShape
    BY Zenon DEF Inv
  <2> QED BY <1>3, <1>4, <2>1, LinkGrows, Zenon
<1>6. task' \in Tasks /\ task'.pos <= Len(log)
  BY <1>1, <1>2, Zenon DEF Inv, ServerShape, Tasks
<1>7. TaskInv'
  <2>1. /\ task'.pc \in {"replay", "live"} /\ (task'.pc = "live" => e > l)
        /\ task'.latest = l /\ task'.next_expected = e /\ task'.pos = p
        /\ task.latest = l /\ task.pc = "warmup" /\ task.pos = p
    BY <1>1, <1>2
  <2>2. Due' = Due
    BY <1>3, <2>1, Zenon DEF Due
  <2>3. ~cfg.flaky => \A n \in Stored(store) : n > l => n >= Due
    BY <2>1, Zenon DEF Inv, TaskInv
  <2> QED BY <1>3, <2>1, <2>2, <2>3, Zenon DEF TaskInv
<1> QED BY <1>3, <1>5, <1>6, <1>7, TaskMoves, Zenon
-----------------------------------------------------------------------------
ReplaySends(p, l, e, m) ==
  /\ task = [pc |-> "replay", pos |-> p, latest |-> l, next_expected |-> e]
  /\ task' = [pc |-> IF m = 0 THEN "live" ELSE "replay", pos |-> p, latest |-> l,
              next_expected |-> e + m]
  /\ wire' = wire \o [i \in 1..m |-> SequencedData(e + i - 1, store.map[e + i - 1])]
  /\ e..(e + m - 1) \subseteq Stored(store)
  /\ m = 0 => e \notin Stored(store)
  /\ UNCHANGED <<cfg, store, ingest, log, asked>>

\* One chunk of the replay: what the store holds next, and nothing only when it does not
\* hold the number the subscriber waits for.
LEMMA ReplayStep ==
  ASSUME Counting, Inv, Replay
  PROVE  \E p, l, e, m \in Nat : ReplaySends(p, l, e, m)
<1>1. PICK p, l, e \in Nat : task = [pc |-> "replay", pos |-> p, latest |-> l, next_expected |-> e]
  BY Zenon DEF Replay, At, Inv, ServerShape, Tasks
<1> DEFINE range == StoreRange(store, e, Chunk)
<1>2. Chunk \in Nat \ {0} /\ task.next_expected = e
  BY <1>1, SoupAssumption, Zenon
<1>3. IF range = <<>> THEN TaskGoesOn([task EXCEPT !.pc = "live"], <<>>)
      ELSE TaskGoesOn([task EXCEPT !.next_expected = range[Len(range)].seq + 1],
                      [i \in DOMAIN range |-> SequencedData(range[i].seq, range[i].msg)])
  BY <1>2, Zenon DEF Replay
<1>4. PICK m \in Nat : RunOf(store, e, m, range)
  BY <1>2, RangeIsRun, Zenon
<1> HIDE DEF range
<1>5. /\ range = [i \in 1..m |-> [seq |-> e + i - 1, msg |-> store.map[e + i - 1]]]
      /\ e..(e + m - 1) \subseteq Stored(store)
      /\ m = 0 => e \notin Stored(store)
  BY <1>4, SMTT(30) DEF RunOf
<1> DEFINE sent == [i \in 1..m |-> SequencedData(e + i - 1, store.map[e + i - 1])]
<1>6. ASSUME m = 0 PROVE ReplaySends(p, l, e, m)
  <2>1. range = <<>> /\ sent = <<>>
    BY <1>5, <1>6
  <2>2. TaskGoesOn([task EXCEPT !.pc = "live"], sent)
    BY <1>3, <2>1, Zenon
  <2>3. task' = [pc |-> IF m = 0 THEN "live" ELSE "replay", pos |-> p, latest |-> l,
                 next_expected |-> e + m]
    BY <1>1, <1>6, <2>2 DEF TaskGoesOn
  <2>4. UNCHANGED <<cfg, store, ingest, log, asked>> /\ wire' = wire \o sent
    BY <2>2, Zenon DEF TaskGoesOn
  <2> QED BY <1>1, <1>5, <2>3, <2>4, Zenon DEF ReplaySends
<1>7. ASSUME m > 0 PROVE ReplaySends(p, l, e, m)
  <2>1. DOMAIN range = 1..m
    BY <1>5, Zenon
  <2>2. Len(range) = m /\ range # <<>>
    BY <1>5, <1>7
  <2>3. range[m].seq = e + m - 1
    BY <1>5, <1>7
  <2>4. [i \in DOMAIN range |-> SequencedData(range[i].seq, range[i].msg)] = sent
    <3>1. \A i \in 1..m : range[i].seq = e + i - 1 /\ range[i].msg = store.map[e + i - 1]
      BY <1>5, Zenon
    <3> QED BY <2>1, <3>1, Zenon
  <2> HIDE DEF sent
  <2>5. TaskGoesOn([task EXCEPT !.next_expected = (e + m - 1) + 1], sent)
    BY <1>3, <2>2, <2>3, <2>4, Zenon
  <2>6. task' = [pc |-> "replay", pos |-> p, latest |-> l, next_expected |-> e + m]
    <3>1. (e + m - 1) + 1 = e + m
      OBVIOUS
    <3> QED BY <1>1, <2>5, <3>1, Zenon DEF TaskGoesOn
  <2>7. UNCHANGED <<cfg, store, ingest, log, asked>> /\ wire' = wire \o sent
    BY <2>5, Zenon DEF TaskGoesOn
  <2>8. task' = [pc |-> IF m = 0 THEN "live" ELSE "replay", pos |-> p, latest |-> l,
                 next_expected |-> e + m]
    BY <1>7, <2>6
  <2> QED BY <1>1, <1>5, <2>7, <2>8, Zenon DEF sent, ReplaySends
<1>8. ReplaySends(p, l, e, m)
  BY <1>6, <1>7
<1> QED BY <1>8, Zenon

\* What the replay sends are packets.
LEMMA ReplayPackets ==
  ASSUME Inv, NEW p \in Nat, NEW l \in Nat, NEW e \in Nat, NEW m \in Nat,
         ReplaySends(p, l, e, m)
  PROVE  [i \in 1..m |-> SequencedData(e + i - 1, store.map[e + i - 1])] \in Seq(Packets)
<1>1. \A i \in 1..m : e + i - 1 \in Nat /\ store.map[e + i - 1] \in Nat
  <2>1. \A i \in 1..m : e + i - 1 \in e..(e + m - 1)
    OBVIOUS
  <2> QED BY <2>1, Zenon DEF Inv, StoreInv, ReplaySends
<1>2. \A i \in 1..m : SequencedData(e + i - 1, store.map[e + i - 1]) \in Packets
  BY <1>1, PacketTypes, Zenon
<1> QED BY <1>2

\* The replay keeps the invariant.
LEMMA ReplayInv ==
  ASSUME Counting, Inv, Replay, UNCHANGED clientvars
  PROVE  Inv'
<1>1. PICK p, l, e, m \in Nat : ReplaySends(p, l, e, m)
  BY ReplayStep, Zenon
<1>2. client' = client
  BY Zenon DEF clientvars
<1> DEFINE sent == [i \in 1..m |-> SequencedData(e + i - 1, store.map[e + i - 1])]
<1>3. sent \in Seq(Packets)
  BY <1>1, ReplayPackets, Zenon
<1> HIDE DEF sent
<1>4. LinkShape'
  <2>1. LinkShape /\ wire' = wire \o sent /\ asked' = asked
    BY <1>1, Zenon DEF Inv, sent, ReplaySends
  <2> QED BY <1>2, <1>3, <2>1, LinkGrows, Zenon
<1>5. /\ task.pc = "replay" /\ task.pos = p /\ task.latest = l
      /\ task'.pos = p /\ task'.latest = l /\ task'.next_expected = e + m
      /\ task'.pc \in {"live", "replay"} /\ (task'.pc = "live" => m = 0)
  BY <1>1, Zenon DEF ReplaySends
<1>6. task' \in Tasks /\ task'.pos <= Len(log)
  BY <1>1 DEF Inv, ServerShape, Tasks, ReplaySends
<1>7. TaskInv'
  <2>1. Due' = Due
    BY <1>1, <1>5, Zenon DEF Due, ReplaySends
  <2>2. ~cfg.flaky => \A n \in Stored(store) : n > l => n >= Due
    BY <1>5, Zenon DEF Inv, TaskInv
  <2>3. task'.pc = "live" => task'.next_expected \notin Stored(store)
    BY <1>1, <1>5 DEF ReplaySends
  <2>4. cfg' = cfg /\ store' = store
    BY <1>1, Zenon DEF ReplaySends
  <2> QED BY <1>5, <2>1, <2>2, <2>3, <2>4, Zenon DEF TaskInv
<1>8. UNCHANGED <<cfg, store, ingest, log>>
  BY <1>1, Zenon DEF ReplaySends
<1> QED BY <1>4, <1>6, <1>7, <1>8, TaskMoves, Zenon
-----------------------------------------------------------------------------
LiveSends(p, l, e, d) ==
  /\ task = [pc |-> "live", pos |-> p, latest |-> l, next_expected |-> e]
  /\ p < Len(log) /\ d = Due
  /\ UNCHANGED <<cfg, store, ingest, log, asked>>
  /\ \/ /\ d < e /\ wire' = wire \o <<>>
        /\ task' = [pc |-> "live", pos |-> p + 1, latest |-> l, next_expected |-> e]
     \/ /\ d >= e /\ \E m \in Nat : wire' = wire \o <<SequencedData(d, m)>>
        /\ task' = [pc |-> "live", pos |-> p + 1, latest |-> l, next_expected |-> d + 1]

\* One broadcast received: its number is the one that is due.
LEMMA LiveStep ==
  ASSUME Inv, LiveRecv
  PROVE  \E p, l, e, d \in Nat : LiveSends(p, l, e, d)
<1>1. PICK p, l, e \in Nat : task = [pc |-> "live", pos |-> p, latest |-> l, next_expected |-> e]
  BY Zenon DEF LiveRecv, At, Inv, ServerShape, Tasks
<1>2. PICK k \in Nat : k = Len(log)
  BY DEF Inv, ServerShape
<1>3. task.pos = p /\ task.next_expected = e /\ p < k
  BY <1>1, <1>2, Zenon DEF LiveRecv
<1>4. PICK n \in Nat : n = ingest.next_seq
  BY Zenon DEF Inv, ServerShape
<1>5. PICK d \in Nat, m \in Nat : d = log[p + 1].seq /\ m = log[p + 1].msg
  <2>1. log \in Seq([seq : Nat, msg : Nat])
    BY Zenon DEF Inv, ServerShape
  <2>2. p + 1 \in 1..Len(log)
    BY <1>2, <1>3
  <2>3. log[p + 1] \in [seq : Nat, msg : Nat]
    BY <2>1, <2>2, ElementOf, Zenon
  <2> QED BY <2>3, Zenon
<1>6. d = Due
  <2>1. p + 1 \in 1..k
    BY <1>3
  <2>2. d = n - k + (p + 1) - 1
    BY <1>2, <1>4, <1>5, <2>1, Zenon DEF Inv, LogInv
  <2> QED BY <1>2, <1>3, <1>4, <2>2 DEF Due
<1>7. IF d < e THEN TaskGoesOn([task EXCEPT !.pos = @ + 1], <<>>)
      ELSE TaskGoesOn([task EXCEPT !.pos = @ + 1, !.next_expected = d + 1],
                      <<SequencedData(d, m)>>)
  BY <1>3, <1>5, Zenon DEF LiveRecv
<1>8. UNCHANGED <<cfg, store, ingest, log, asked>>
  BY <1>7, Zenon DEF TaskGoesOn
<1>9. CASE d < e
  <2>1. task' = [pc |-> "live", pos |-> p + 1, latest |-> l, next_expected |-> e]
        /\ wire' = wire \o <<>>
    BY <1>1, <1>7, <1>9, Zenon DEF TaskGoesOn
  <2>2. LiveSends(p, l, e, d)
    BY <1>1, <1>2, <1>3, <1>6, <1>8, <1>9, <2>1, Zenon DEF LiveSends
  <2> QED BY <2>2, Zenon
<1>10. CASE d >= e
  <2>1. ~(d < e)
    BY <1>10
  <2>2. task' = [pc |-> "live", pos |-> p + 1, latest |-> l, next_expected |-> d + 1]
        /\ wire' = wire \o <<SequencedData(d, m)>>
    BY <1>1, <1>7, <2>1, Zenon DEF TaskGoesOn
  <2>3. LiveSends(p, l, e, d)
    BY <1>1, <1>2, <1>3, <1>6, <1>8, <1>10, <2>2, Zenon DEF LiveSends
  <2> QED BY <2>3, Zenon
<1> QED BY <1>9, <1>10

\* The live broadcast keeps the invariant.
LEMMA LiveRecvInv ==
  ASSUME Inv, LiveRecv, UNCHANGED clientvars
  PROVE  Inv'
<1>1. PICK p, l, e, d \in Nat : LiveSends(p, l, e, d)
  BY LiveStep, Zenon
<1>2. UNCHANGED <<cfg, store, ingest, log, asked, client>> /\ LinkShape
  BY <1>1, Zenon DEF LiveSends, clientvars, Inv
<1>3. LinkShape'
  <2>1. <<>> \in Seq(Packets)
    OBVIOUS
  <2>2. \A m \in Nat : <<SequencedData(d, m)>> \in Seq(Packets)
    BY PacketTypes
  <2>3. \E packets \in Seq(Packets) : wire' = wire \o packets
    BY <1>1, <2>1, <2>2, Zenon DEF LiveSends
  <2> QED BY <1>2, <2>3, LinkGrows, Zenon
<1>4. PICK f \in Nat :
        /\ task' = [pc |-> "live", pos |-> p + 1, latest |-> l, next_expected |-> f]
        /\ d + 1 <= f
  BY <1>1 DEF LiveSends
<1>5. task' \in Tasks /\ task'.pc = "live" /\ task'.pos = p + 1 /\ task'.next_expected = f
  BY <1>4 DEF Tasks
<1>6. PICK k \in Nat, n \in Nat : k = Len(log) /\ n = ingest.next_seq
  BY DEF Inv, ServerShape
<1>7. task.pos = p /\ p < k /\ d = Due
  BY <1>1, <1>6, Zenon DEF LiveSends
<1>8. TaskInv'
  <2>1. Due' = d + 1
    BY <1>2, <1>5, <1>6, <1>7, SMTT(30) DEF Due
  <2> QED BY <1>4, <1>5, <2>1, Zenon DEF TaskInv
<1>9. task'.pos <= Len(log)
  BY <1>5, <1>6, <1>7
<1> QED BY <1>2, <1>3, <1>5, <1>8, <1>9, TaskMoves, Zenon
-----------------------------------------------------------------------------
\* Every step keeps the invariant.
LEMMA NextInv ==
  ASSUME Counting
  PROVE  Inv /\ [Next]_vars => Inv'
<1> SUFFICES ASSUME Inv, [Next]_vars PROVE Inv'
  BY Zenon
<1>1. CASE UNCHANGED vars
  <2>1. UNCHANGED <<cfg, store, ingest, log, task, asked, wire, client>>
    BY <1>1, Zenon DEF vars, servervars, link, clientvars
  <2>2. LinkShape'
    BY <2>1, Zenon DEF Inv, LinkShape
  <2> QED BY <2>1, <2>2, LinkMoves, Zenon
<1>2. CASE ClientStep /\ UNCHANGED servervars
  BY <1>2, ClientInv, Zenon
<1>3. ASSUME NextServer, UNCHANGED clientvars PROVE Inv'
  BY <1>3, IngestStartInv, IngestStoreInv, IngestStopInv, IngestSendInv, AcceptInv,
     TaskEndsInv, LoginGrantedInv, WarmupInv, ReplayInv, LiveRecvInv, Zenon
     DEF NextServer, TaskStep
<1> QED BY <1>1, <1>2, <1>3, Zenon DEF Next

LEMMA StoredFirstStep ==
  Inv => StoredBeforeSent
<1> SUFFICES ASSUME Inv, NEW i \in DOMAIN log
             PROVE  /\ log[i].seq = log[1].seq + i - 1
                    /\ log[i].seq <= store.max_seen
                    /\ log[i].seq \in Stored(store) => store.map[log[i].seq] = log[i].msg
  BY Zenon DEF StoredBeforeSent
<1>1. PICK k \in Nat, n \in Nat, x \in Nat :
        k = Len(log) /\ n = ingest.next_seq /\ x = store.max_seen
  BY DEF Inv, ServerShape, StoreInv
<1>2. DOMAIN log = 1..k
  BY <1>1 DEF Inv, ServerShape
<1>3. i \in 1..k /\ 1 \in 1..k
  BY <1>2
<1>4. log[i].seq = n - k + i - 1 /\ log[1].seq = n - k + 1 - 1
  BY <1>1, <1>3, Zenon DEF Inv, LogInv
<1>5. log[i].seq \in Stored(store) => store.map[log[i].seq] = log[i].msg
  BY <1>1, <1>3, Zenon DEF Inv, LogInv
<1>6. log # <<>>
  BY <1>1, <1>3
<1>7. n <= x + 1
  BY <1>1, <1>6, Zenon DEF Inv, LogInv
<1> QED BY <1>1, <1>3, <1>4, <1>5, <1>7

LEMMA ReplayJoinsLiveStep ==
  ASSUME Counting, Inv, [Next]_vars, ~cfg.flaky, task.pc \in {"replay", "live"}, task' # NoTask,
         (task.next_expected..(task'.next_expected - 1))
            \ {wire'[i].seq : i \in (Len(wire) + 1)..Len(wire')} # {}
  PROVE  task.next_expected \notin Stored(store)
<1> DEFINE new == {wire'[i].seq : i \in (Len(wire) + 1)..Len(wire')}
           skipped == (task.next_expected..(task'.next_expected - 1)) \ new
<1>0. task \in Tasks /\ task.next_expected \in Nat
  BY Zenon DEF Inv, ServerShape, Tasks
<1>1. CASE task' = task
  BY <1>0, <1>1
<1>2. CASE Replay
  <2>1. PICK p, l, e, m \in Nat : ReplaySends(p, l, e, m)
    BY <1>2, ReplayStep, Zenon
  <2> DEFINE sent == [i \in 1..m |-> SequencedData(e + i - 1, store.map[e + i - 1])]
  <2>2. task.next_expected = e /\ task'.next_expected = e + m /\ wire' = wire \o sent
    BY <2>1, Zenon DEF ReplaySends
  <2>3. PICK k \in Nat : k = Len(wire)
    BY DEF Inv, LinkShape
  <2>4. \A i \in 1..m : sent[i].seq = e + i - 1
    BY Zenon DEF SequencedData
  <2>5. sent \in Seq(Packets) /\ DOMAIN sent = 1..m
    BY <2>1, ReplayPackets, Zenon
  <2> HIDE DEF sent
  <2>6. Len(wire') = k + m /\ \A i \in 1..m : wire'[k + i] = sent[i]
    <3>1. Len(sent) = m
      BY <2>5
    <3>2. wire \in Seq(Packets)
      BY Zenon DEF Inv, LinkShape
    <3>3. /\ Len(wire \o sent) = Len(wire) + Len(sent)
          /\ \A i \in 1..Len(sent) : (wire \o sent)[Len(wire) + i] = sent[i]
      BY <2>5, <3>2, Following, ZenonT(60)
    <3> QED BY <2>2, <2>3, <3>1, <3>3, Zenon
  <2>7. \A n \in e..(e + m - 1) : n \in new
    <3> TAKE n \in e..(e + m - 1)
    <3>1. n - e + 1 \in 1..m /\ k + (n - e + 1) \in (k + 1)..(k + m)
      OBVIOUS
    <3>2. wire'[k + (n - e + 1)].seq = e + (n - e + 1) - 1
      BY <2>4, <2>6, <3>1, Zenon
    <3>3. e + (n - e + 1) - 1 = n
      OBVIOUS
    <3> QED BY <2>3, <2>6, <3>1, <3>2, <3>3, Zenon
  <2> HIDE DEF new
  <2>8. task.next_expected..(task'.next_expected - 1) = e..(e + m - 1)
    BY <2>2
  <2>9. skipped = {}
    BY <2>7, <2>8, Zenon
  <2> QED BY <2>9, Zenon DEF new
<1>3. CASE LiveRecv
  <2>1. PICK p, l, e, d \in Nat : LiveSends(p, l, e, d)
    BY <1>3, LiveStep, Zenon
  <2>2. task.pc = "live" /\ task.next_expected = e /\ d = Due
    BY <2>1, Zenon DEF LiveSends
  <2>3. task.next_expected \in Stored(store) => e >= d
    BY <2>2, Zenon DEF Inv, TaskInv
  <2>4. CASE d < e
    <3>1. task'.next_expected = e
      BY <2>1, <2>4 DEF LiveSends
    <3> QED BY <2>2, <3>1
  <2>5. CASE d > e
    BY <2>2, <2>3, <2>5
  <2>6. CASE d = e
    <3>1. task'.next_expected = d + 1
      BY <2>1, <2>6 DEF LiveSends
    <3>2. PICK m \in Nat : wire' = wire \o <<SequencedData(d, m)>>
      BY <2>1, <2>6, SMTT(30) DEF LiveSends
    <3>3. PICK k \in Nat : k = Len(wire)
      BY DEF Inv, LinkShape
    <3>4. Len(wire') = k + 1 /\ wire'[k + 1] = SequencedData(d, m)
      <4>1. wire \in Seq(Packets) /\ SequencedData(d, m) \in Packets
        BY PacketTypes, Zenon DEF Inv, LinkShape
      <4> QED BY <3>2, <3>3, <4>1
    <3>5. wire'[k + 1].seq = d
      BY <3>4 DEF SequencedData
    <3>6. d \in new
      BY <3>3, <3>4, <3>5, SMTT(30)
    <3> QED BY <2>2, <2>6, <3>1, <3>6
  <2> QED BY <2>4, <2>5, <2>6
<1>4. \/ task' \in {task, NoTask} \/ Replay \/ LiveRecv
      \/ task = NoTask \/ task.pc \in {"login", "warmup"}
  BY Zenon DEF Next, NextServer, TaskStep, ClientStep, IngestStart, IngestStore, IngestDrop,
     IngestSend, IngestEnds, Accept, Shutdown, WaitIngest, JoinIngest, Return, LoginRefused,
     LoginGranted, Warmup, TaskFails, LiveLagged, LiveClosed, ClientGone, TaskEnds, At,
     vars, servervars
<1> QED BY <1>1, <1>2, <1>3, <1>4, NoTaskIsTask, Zenon

\* A step that sends anything else, or nothing, does not send EndOfSession.
LEMMA NotTheEnd ==
  ASSUME LinkShape, NEW packets \in Seq(Packets), wire' = wire \o packets,
         \A i \in 1..Len(packets) : packets[i].tag # "Z"
  PROVE  wire' # Append(wire, EndOfSession)
<1> SUFFICES ASSUME wire' = Append(wire, EndOfSession) PROVE FALSE
  BY Zenon
<1>1. PICK k \in Nat, m \in Nat : k = Len(wire) /\ m = Len(packets)
  BY DEF LinkShape
<1>2. wire \in Seq(Packets)
  BY Zenon DEF LinkShape
<1>3. Len(wire \o packets) = k + m /\ \A i \in 1..m : (wire \o packets)[k + i] = packets[i]
  <2>1. /\ Len(wire \o packets) = Len(wire) + Len(packets)
        /\ \A i \in 1..Len(packets) : (wire \o packets)[Len(wire) + i] = packets[i]
    BY <1>2, Following, ZenonT(60)
  <2> QED BY <1>1, <2>1, Zenon
<1>4. Len(wire') = k + 1 /\ wire'[k + 1] = EndOfSession
  BY <1>1, <1>2
<1>5. m = 1
  BY <1>3, <1>4
<1>6. packets[1] = EndOfSession /\ packets[1].tag # "Z"
  BY <1>1, <1>3, <1>4, <1>5
<1> QED BY <1>6 DEF EndOfSession

LEMMA EndIsEndStep ==
  ASSUME Counting, Inv, [Next]_vars, ~cfg.flaky, wire' = Append(wire, EndOfSession)
  PROVE  task.next_expected \notin Stored(store)
<1>1. LinkShape /\ wire \in Seq(Packets)
  BY Zenon DEF Inv, LinkShape
<1>2. wire' # wire /\ wire' # <<>> /\ (wire # <<>> => wire' # Tail(wire))
  BY <1>1
<1>3. \A x \in Packets : x.tag # "Z" => ~(wire' = wire \o <<x>>)
  <2> SUFFICES ASSUME NEW x \in Packets, x.tag # "Z", wire' = wire \o <<x>> PROVE FALSE
    BY Zenon
  <2> DEFINE packets == <<x>>
  <2>1. packets \in Seq(Packets) /\ \A i \in 1..Len(packets) : packets[i] = x
    OBVIOUS
  <2>2. wire' = wire \o packets
    BY Zenon
  <2> HIDE DEF packets
  <2> QED BY <1>1, <2>1, <2>2, NotTheEnd, Zenon
<1>4. CASE LoginGranted
  <2>1. PICK latest \in {Latest(store)} \cup (IF cfg.flaky THEN {0} ELSE {}) :
          wire' = wire \o <<LoginAccepted(ResumeFrom(latest))>>
    BY <1>4, Zenon DEF LoginGranted, TaskGoesOn
  <2>2. ResumeFrom(latest) \in Nat
    BY DEF Inv, StoreInv, LinkShape, Latest, ResumeFrom
  <2>3. LoginAccepted(ResumeFrom(latest)) \in Packets
    BY <2>2, PacketTypes, Zenon
  <2>4. LoginAccepted(ResumeFrom(latest)).tag = "A"
    BY Zenon DEF LoginAccepted
  <2> QED BY <1>3, <2>1, <2>3, <2>4, Zenon
<1>5. CASE Warmup
  <2> DEFINE warmup == [i \in 1..cfg.warmup |-> SequencedData(0, 0)]
  <2>1. wire' = wire \o warmup
    BY <1>5, Zenon DEF Warmup, TaskGoesOn
  <2>2. cfg.warmup \in Nat /\ SequencedData(0, 0) \in Packets
    BY PacketTypes, Zenon DEF Inv, ServerShape
  <2>3. warmup \in Seq(Packets) /\ \A i \in 1..Len(warmup) : warmup[i] = SequencedData(0, 0)
    BY <2>2
  <2>4. SequencedData(0, 0).tag = "S"
    BY Zenon DEF SequencedData
  <2> QED BY <1>1, <2>1, <2>3, <2>4, NotTheEnd, Zenon
<1>6. CASE Replay
  <2>1. PICK p, l, e, m \in Nat : ReplaySends(p, l, e, m)
    BY <1>6, ReplayStep, Zenon
  <2> DEFINE sent == [i \in 1..m |-> SequencedData(e + i - 1, store.map[e + i - 1])]
  <2>2. wire' = wire \o sent
    BY <2>1, Zenon DEF ReplaySends
  <2>3. \A i \in DOMAIN sent : sent[i].tag = "S"
    BY Zenon DEF SequencedData
  <2>4. sent \in Seq(Packets)
    BY <2>1, ReplayPackets, Zenon
  <2> HIDE DEF sent
  <2>5. \A i \in 1..Len(sent) : sent[i].tag # "Z"
    BY <2>3, <2>4
  <2> QED BY <1>1, <2>2, <2>4, <2>5, NotTheEnd, Zenon
<1>7. CASE LiveRecv
  <2>1. PICK p, l, e, d \in Nat : LiveSends(p, l, e, d)
    BY <1>7, LiveStep, Zenon
  <2>2. wire \o <<>> = wire
    BY <1>1
  <2>3. PICK m \in Nat : wire' = wire \o <<SequencedData(d, m)>>
    BY <1>2, <2>1, <2>2, Zenon DEF LiveSends
  <2>4. SequencedData(d, m) \in Packets /\ SequencedData(d, m).tag = "S"
    BY PacketTypes, Zenon DEF SequencedData
  <2> QED BY <1>3, <2>3, <2>4, Zenon
<1>8. CASE LiveClosed
  <2>1. task.pc = "live" /\ task.pos = Len(log) /\ ingest.pc = "done"
    BY <1>8, Zenon DEF LiveClosed, At, Closed
  <2>2. PICK k \in Nat, n \in Nat : k = Len(log) /\ n = ingest.next_seq
    BY DEF Inv, ServerShape
  <2>3. Due = n
    BY <2>1, <2>2 DEF Due
  <2>4. \A x \in Stored(store) : x < n
    BY <2>1, <2>2 DEF Inv, StoreInv
  <2> QED BY <2>1, <2>3, <2>4 DEF Inv, TaskInv, ServerShape, Tasks
<1>9. CASE LoginRefused
  BY <1>3, <1>9, PacketTypes, Zenon DEF LoginRefused, TaskEnds, LoginRejected
<1>10. CASE TaskFails \/ LiveLagged
  <2>1. wire' = wire \o <<>> /\ wire \o <<>> = wire
    BY <1>1, <1>10 DEF TaskFails, LiveLagged, TaskEnds
  <2> QED BY <1>2, <2>1, Zenon
<1>11. CASE UNCHANGED wire
  BY <1>2, <1>11, Zenon
<1>12. CASE ClientStep
  BY <1>2, <1>12, Zenon DEF ClientStep, Connect, ConnectFails, LoginSucceeds, LoginFails,
     ReadMessage, Disconnected, Drop
<1>13. \/ LoginGranted \/ Warmup \/ Replay \/ LiveRecv \/ LiveClosed \/ LoginRefused
       \/ TaskFails \/ LiveLagged \/ UNCHANGED wire \/ ClientStep
  BY Zenon DEF Next, NextServer, TaskStep, IngestStart, IngestStore, IngestDrop,
     IngestSend, IngestEnds, Accept, Shutdown, WaitIngest, JoinIngest, Return, ClientGone,
     vars, link
<1> QED BY <1>4, <1>5, <1>6, <1>7, <1>8, <1>9, <1>10, <1>11, <1>12, <1>13, Zenon

-----------------------------------------------------------------------------
\* The store has every number, and the numbers are the source's places.
Whole ==
  /\ ~cfg.flaky /\ cfg.warmup = 0 /\ cfg.start = 1
  /\ Stored(store) # {} => 1 \in Stored(store)

\* Numbers count from 1.
Counted ==
  /\ \A n \in Stored(store) : n >= 1
  /\ ingest.pc # "start" => ingest.next_seq >= 1

\* Every number up to the last is stored, and broadcast by ingest.
Complete ==
  /\ Stored(store) = 1..store.max_seen
  /\ ingest.pc \in {"pull", "done"} => ingest.next_seq = store.max_seen + 1
  /\ ingest.pc # "start" => Len(log) = ingest.next_seq - 1

Sending == task.pc \in {"warmup", "replay", "live"} /\ sock = "open"

\* The two ends of the connection: where each of them stands, and that the client's
\* next_sequence is the number after the last one its caller got.
EndsInv ==
  /\ sock \in {"none", "backlog", "open", "closed"}
  /\ client.pc \in {"down", "login", "up", "terminated"} /\ client.last \in Nat
  /\ client.last # 0 => client.next_sequence = client.last + 1
  /\ client.pc = "up" => client.expected = client.next_sequence /\ sock \in {"open", "closed"}
  /\ client.pc = "login" => asked = client.next_sequence
  /\ sock = "none" <=> client.pc \in {"down", "terminated"}
  /\ sock \in {"none", "backlog"} => wire = <<>>
  /\ sock \in {"backlog", "closed"} => task.pc = "none"
  /\ sock = "open" => task.pc # "none"
  /\ sock = "open" /\ task.pc = "login" => client.pc = "login" /\ wire = <<>>
  /\ Sending => /\ task.next_expected >= 1
                /\ client.pc = "login" => wire # <<>> /\ Head(wire).tag = "A"

\* The packets of a sequence are, or those of them that carry a message, numbered from n on.
Runs(packets, n) ==
  \A i \in 1..Len(packets) : packets[i].tag = "S" /\ packets[i].seq = n + i - 1
Follows(packets, n) ==
  \A i \in 1..Len(packets) : packets[i].tag = "S" => packets[i].seq = n + i - 1

Stream(packets, n) ==
  /\ Follows(packets, n)
  /\ Sending => Runs(packets, n) /\ task.next_expected = n + Len(packets)

\* What is on the wire is numbered on from what the client expects, or will when it has
\* read the login's reply, up to what the task sends next.
StreamInv ==
  /\ client.pc = "up" => Stream(wire, client.expected)
  /\ client.pc = "login" /\ wire # <<>> /\ Head(wire).tag # "J" =>
       /\ Head(wire).tag = "A" /\ (asked # 0 => Head(wire).seq = asked)
       /\ Stream(Tail(wire), Head(wire).seq)

Joined == Complete /\ EndsInv /\ StreamInv

ExactInv == Counted /\ (Whole => Joined)
-----------------------------------------------------------------------------
\* A set of naturals that holds a number has a least one.
LEMMA LeastOf ==
  ASSUME Counting, NEW S, \A n \in S : n \in Nat, NEW x \in S
  PROVE  \E n \in S : \A m \in S : n <= m
<1> SUFFICES ASSUME \A n \in S : \E m \in S : ~(n <= m) PROVE FALSE
  BY Zenon
<1> DEFINE R == {k \in Nat : \A m \in S : k <= m}
<1>1. 0 \in R
  OBVIOUS
<1>2. \A k \in R : k + 1 \in R
  OBVIOUS
<1>3. x + 1 \in Nat /\ x + 1 \in 0..(x + 1)
  OBVIOUS
<1>4. \A i \in 0..(x + 1) : i \in R /\ i < x + 1 => i + 1 \in R
  BY <1>2, Zenon
<1> HIDE DEF R
<1>5. 0..(x + 1) \subseteq R
  BY <1>1, <1>3, <1>4, Zenon DEF Counting, Induction
<1> QED BY <1>3, <1>5 DEF R

\* A sequence numbered on, its tail, and what is appended to it.
LEMMA RunsAppend ==
  ASSUME NEW p \in Seq(Packets), NEW q \in Seq(Packets), NEW n \in Nat,
         Runs(p, n), Runs(q, n + Len(p))
  PROVE  Runs(p \o q, n) /\ Len(p \o q) = Len(p) + Len(q)
<1>1. PICK k \in Nat, m \in Nat : k = Len(p) /\ m = Len(q)
  OBVIOUS
<1>2. Len(p \o q) = k + m
  BY <1>1
<1>3. ASSUME NEW i \in 1..(k + m)
      PROVE  (p \o q)[i].tag = "S" /\ (p \o q)[i].seq = n + i - 1
  <2>1. CASE i <= k
    <3>1. i \in 1..k /\ (p \o q)[i] = p[i]
      BY <1>1, <2>1
    <3>2. p[i].tag = "S" /\ p[i].seq = n + i - 1
      BY <1>1, <3>1, Zenon DEF Runs
    <3> QED BY <3>1, <3>2, Zenon
  <2>2. CASE i > k
    <3>1. i - k \in 1..m /\ (p \o q)[i] = q[i - k]
      BY <1>1, <2>2
    <3>2. q[i - k].tag = "S" /\ q[i - k].seq = (n + k) + (i - k) - 1
      BY <1>1, <3>1, Zenon DEF Runs
    <3>3. (n + k) + (i - k) - 1 = n + i - 1
      OBVIOUS
    <3> QED BY <3>1, <3>2, <3>3, Zenon
  <2>3. i <= k \/ i > k
    OBVIOUS
  <2> QED BY <2>1, <2>2, <2>3, Zenon
<1>4. n + Len(p) = n + k /\ Len(p \o q) = Len(p) + Len(q)
  BY <1>1, <1>2, Zenon
<1> QED BY <1>2, <1>3, <1>4, Zenon DEF Runs

LEMMA RunsFollows ==
  ASSUME NEW p, NEW n, Runs(p, n)
  PROVE  Follows(p, n)
BY Zenon DEF Runs, Follows

LEMMA EndFollows ==
  ASSUME NEW p \in Seq(Packets), NEW n \in Nat, Runs(p, n), NEW q \in {<<>>, <<EndOfSession>>}
  PROVE  Follows(p \o q, n)
<1>1. PICK k \in Nat : k = Len(p)
  OBVIOUS
<1>2. CASE q = <<>>
  <2>1. p \o q = p
    BY <1>2
  <2> QED BY <2>1, RunsFollows, Zenon
<1>3. CASE q = <<EndOfSession>>
  <2>1. EndOfSession.tag = "Z" /\ EndOfSession \in Packets
    BY PacketTypes, Zenon DEF EndOfSession
  <2>2. Len(p \o q) = k + 1 /\ (p \o q)[k + 1] = EndOfSession
    BY <1>1, <1>3, <2>1
  <2>3. \A i \in 1..k : (p \o q)[i] = p[i]
    BY <1>1, <1>3, <2>1
  <2>4. \A i \in 1..(k + 1) : i \in 1..k \/ i = k + 1
    OBVIOUS
  <2> QED BY <1>1, <2>1, <2>2, <2>3, <2>4, Zenon DEF Runs, Follows
<1> QED BY <1>2, <1>3, Zenon

LEMMA TailFollows ==
  ASSUME NEW p \in Seq(Packets), p # <<>>, NEW n \in Nat
  PROVE  /\ Follows(p, n) => Follows(Tail(p), n + 1)
         /\ Runs(p, n) => Runs(Tail(p), n + 1)
         /\ Len(Tail(p)) = Len(p) - 1
<1>1. PICK k \in Nat : k = Len(p) /\ k > 0
  OBVIOUS
<1>2. Len(Tail(p)) = k - 1
  BY <1>1
<1>3. \A i \in 1..(k - 1) : i + 1 \in 1..k /\ Tail(p)[i] = p[i + 1] /\ n + (i + 1) - 1 = (n + 1) + i - 1
  BY <1>1
<1>4. Len(Tail(p)) = Len(p) - 1
  BY <1>1, <1>2, Zenon
<1>5. ASSUME NEW i \in 1..Len(Tail(p))
      PROVE  i + 1 \in 1..Len(p) /\ Tail(p)[i] = p[i + 1] /\ (n + 1) + i - 1 = n + (i + 1) - 1
  BY <1>1, <1>2, <1>3, Zenon
<1>6. ASSUME Runs(p, n) PROVE Runs(Tail(p), n + 1)
  BY <1>5, <1>6, Zenon DEF Runs
<1>7. ASSUME Follows(p, n) PROVE Follows(Tail(p), n + 1)
  BY <1>5, <1>7, Zenon DEF Follows
<1> QED BY <1>4, <1>6, <1>7, Zenon

LEMMA HeadTail ==
  ASSUME NEW p \in Seq(Packets), p # <<>>, NEW q \in Seq(Packets)
  PROVE  /\ p \o q # <<>> /\ Head(p \o q) = Head(p)
         /\ Tail(p) \in Seq(Packets) /\ Head(p) \in Packets
         /\ Tail(p \o q) = Tail(p) \o q
<1>1. PICK k \in Nat, m \in Nat : k = Len(p) /\ m = Len(q) /\ k > 0
  OBVIOUS
<1>2. p \o q # <<>> /\ Head(p \o q) = Head(p) /\ Tail(p) \in Seq(Packets) /\ Head(p) \in Packets
  OBVIOUS
<1>3. Tail(p \o q) \in Seq(Packets) /\ Tail(p) \o q \in Seq(Packets)
  BY <1>2
<1>4. Len(Tail(p \o q)) = k + m - 1 /\ Len(Tail(p) \o q) = k + m - 1
  BY <1>1, <1>2
<1>5. \A i \in 1..(k + m - 1) : Tail(p \o q)[i] = (Tail(p) \o q)[i]
  <2> SUFFICES ASSUME NEW i \in 1..(k + m - 1) PROVE Tail(p \o q)[i] = (Tail(p) \o q)[i]
    BY Zenon
  <2>1. Tail(p \o q)[i] = (p \o q)[i + 1]
    BY <1>1
  <2>2. CASE i < k
    BY <1>1, <2>1, <2>2
  <2>3. CASE i >= k
    <3>1. i + 1 - k \in 1..m /\ (p \o q)[i + 1] = q[i + 1 - k]
      BY <1>1, <2>3
    <3>2. Len(Tail(p)) = k - 1 /\ i - (k - 1) = i + 1 - k
      BY <1>1
    <3>3. (Tail(p) \o q)[i] = q[i - (k - 1)]
      BY <1>1, <1>2, <2>3, <3>2
    <3> QED BY <2>1, <3>1, <3>2, <3>3, Zenon
  <2>4. i < k \/ i >= k
    OBVIOUS
  <2> QED BY <2>2, <2>3, <2>4, Zenon
<1> QED BY <1>2, <1>3, <1>4, <1>5
-----------------------------------------------------------------------------
\* A step that leaves the connection alone, and one that leaves the store alone.
LEMMA EndsKept ==
  ASSUME EndsInv, StreamInv, UNCHANGED <<sock, asked, wire, client, task>>
  PROVE  EndsInv' /\ StreamInv'
BY DEF EndsInv, StreamInv, Sending, Stream, Follows, Runs

LEMMA StoreKept ==
  ASSUME UNCHANGED <<cfg, store, ingest, log>>
  PROVE  /\ Whole' = Whole /\ Counted' = Counted /\ Complete' = Complete
BY Zenon DEF Whole, Counted, Complete

\* A number above all that the store has seen drops the first number only if the store
\* loses it.
LEMMA StoreWhole ==
  ASSUME NEW s, DOMAIN s = {"map", "max_seen", "capacity"}, s.max_seen \in Nat,
         \A n \in Stored(s) : n \in Nat /\ n >= 1 /\ n <= s.max_seen,
         NEW seq \in Nat, seq > s.max_seen, NEW msg, 1 \in Stored(Store(s, seq, msg))
  PROVE  /\ Stored(s) # {} => 1 \in Stored(s)
         /\ Stored(Store(s, seq, msg)) = Stored(s) \cup {seq}
<1> DEFINE kept == IF Cardinality(Stored(s)) = s.capacity
                   THEN {n \in Stored(s) : \E m \in Stored(s) : m < n} ELSE Stored(s)
<1>1. Stored(Store(s, seq, msg)) = kept \cup {seq}
  <2> DEFINE map == [n \in kept \cup {seq} |-> IF n = seq THEN msg ELSE s.map[n]]
             t == [s EXCEPT !.map = map, !.max_seen = IF seq > @ THEN seq ELSE @]
  <2>1. Store(s, seq, msg) = t
    BY DEF Store
  <2>2. DOMAIN map = kept \cup {seq}
    BY Zenon
  <2> HIDE DEF kept, map
  <2>3. t.map = map
    BY Zenon
  <2> HIDE DEF t
  <2> QED BY <2>1, <2>2, <2>3, Zenon DEF Stored
<1>2. CASE seq = 1
  <2>1. Stored(s) = {}
    BY <1>2
  <2>2. kept = {}
    BY <2>1, Zenon
  <2> QED BY <1>1, <2>1, <2>2, Zenon
<1>3. CASE seq # 1
  <2>1. 1 \in kept
    BY <1>1, <1>3, Zenon
  <2>2. 1 \in Stored(s) /\ kept = Stored(s)
    BY <2>1
  <2> HIDE DEF kept
  <2> QED BY <1>1, <2>2, Zenon
<1> QED BY <1>2, <1>3, Zenon

\* Ingest keeps the store whole, or the store was not whole.
LEMMA IngestExact ==
  ASSUME Inv, ExactInv,
         IngestStart \/ IngestStore \/ IngestDrop \/ IngestSend \/ IngestEnds,
         UNCHANGED clientvars
  PROVE  ExactInv'
<1>1. UNCHANGED <<cfg, sock, asked, wire, client, task>>
  BY Zenon DEF IngestStart, IngestStore, IngestDrop, IngestSend, IngestEnds, link, clientvars
<1>2. PICK n \in Nat, x \in Nat, k \in Nat, t \in Nat :
        n = ingest.next_seq /\ x = store.max_seen /\ k = Len(log) /\ t = ingest.taken
  BY DEF Inv, ServerShape, StoreInv
<1>3. ingest = [pc |-> ingest.pc, next_seq |-> n, taken |-> t]
  BY <1>2, Zenon DEF Inv, ServerShape
<1>4. ASSUME Counted', (Whole' => Whole), (Whole' /\ Whole /\ Complete => Complete')
      PROVE  ExactInv'
  BY <1>1, <1>4, EndsKept, Zenon DEF ExactInv, Joined
<1>5. CASE IngestStart
  <2>1. /\ ingest.pc = "start" /\ x = 0 /\ Stored(store) = {} /\ log = <<>>
        /\ UNCHANGED <<store, log>>
    BY <1>2, <1>5, Zenon DEF Inv, StoreInv, IngestStart
  <2>2. PICK s \in Nat \ {0} : s = cfg.start
    BY Zenon DEF Inv, ServerShape
  <2>3. ingest'.pc = "pull" /\ ingest'.next_seq = s
    BY <1>2, <1>3, <1>5, <2>1, <2>2 DEF IngestStart, Latest
  <2>4. k = 0
    BY <1>2, <2>1, Zenon
  <2>5. Counted'
    BY <2>1, <2>3 DEF Counted
  <2>6. Whole' => Whole /\ s = 1
    BY <1>1, <2>1, <2>2, Zenon DEF Whole
  <2>7. ASSUME Whole' PROVE Complete'
    <3>0. 1..0 = {}
      OBVIOUS
    <3>1. Stored(store') = 1..0 /\ store'.max_seen = 0 /\ Len(log') = 0
      BY <1>2, <2>1, <2>4, <3>0, Zenon
    <3>2. ingest'.pc = "pull" /\ ingest'.next_seq = 1
      BY <2>3, <2>6, <2>7, SMTT(30)
    <3> QED BY <3>1, <3>2 DEF Complete
  <2> QED BY <1>4, <2>5, <2>6, <2>7, Zenon
<1>6. CASE IngestStore
  <2>1. /\ ingest.pc = "pull" /\ log' = log /\ x < n
        /\ store' = Store(store, n, t + 1)
    BY <1>2, <1>6, SMTT(30) DEF IngestStore, Inv, StoreInv
  <2>2. ingest'.pc = "send" /\ ingest'.next_seq = n
    BY <1>2, <1>3, <1>6, Zenon DEF IngestStore
  <2>3. /\ DOMAIN store = {"map", "max_seen", "capacity"}
        /\ \A i \in Stored(store) : i \in Nat /\ i >= 1 /\ i <= store.max_seen
    BY SMTT(30) DEF Inv, StoreInv, ExactInv, Counted
  <2>4. /\ store'.max_seen = n
        /\ Stored(store') \subseteq Stored(store) \cup {n} /\ n \in Stored(store')
    BY <1>2, <2>1, <2>3, StoreAbove
  <2>5. n >= 1
    BY <1>2, <2>1, Zenon DEF ExactInv, Counted
  <2>6. Counted'
    BY <2>2, <2>3, <2>4, <2>5, Zenon DEF Counted
  <2>7. ASSUME Whole'
        PROVE  Whole /\ Stored(store') = Stored(store) \cup {n}
    <3>1. 1 \in Stored(store')
      BY <2>4, <2>7, Zenon DEF Whole
    <3>2. /\ Stored(store) # {} => 1 \in Stored(store)
          /\ Stored(store') = Stored(store) \cup {n}
      BY <1>2, <2>1, <2>3, <3>1, StoreWhole, SMTT(30)
    <3> QED BY <1>1, <2>7, <3>2, SMTT(30) DEF Whole
  <2>8. ASSUME Whole', Complete PROVE Complete'
    <3>1. n = x + 1 /\ Stored(store) = 1..x /\ k = n - 1
      BY <1>2, <2>1, <2>8, Zenon DEF Complete
    <3>2. Stored(store') = 1..n
      <4>1. (1..x) \cup {x + 1} = 1..(x + 1)
        OBVIOUS
      <4> QED BY <2>7, <2>8, <3>1, <4>1, Zenon
    <3> QED BY <1>2, <2>1, <2>2, <2>4, <3>1, <3>2, Zenon DEF Complete
  <2> QED BY <1>4, <2>6, <2>7, <2>8, Zenon
<1>7. CASE IngestDrop \/ IngestEnds
  <2>1. UNCHANGED <<store, log>> /\ ingest.pc = "pull"
    BY <1>7, Zenon DEF IngestDrop, IngestEnds
  <2>2. ingest'.pc \in {"pull", "done"} /\ ingest'.next_seq = n
    BY <1>2, <1>3, <1>7, Zenon DEF IngestDrop, IngestEnds
  <2>3. Counted' /\ (Whole' => Whole) /\ (Complete => Complete')
    BY <1>1, <1>2, <2>1, <2>2, Zenon DEF ExactInv, Counted, Whole, Complete
  <2> QED BY <1>4, <2>3, Zenon
<1>8. CASE IngestSend
  <2>1. store' = store /\ ingest.pc = "send" /\ x = n
    BY <1>2, <1>8, Zenon DEF IngestSend, Inv, StoreInv
  <2>2. ingest'.pc = "pull" /\ ingest'.next_seq = n + 1
    BY <1>2, <1>3, <1>8, Zenon DEF IngestSend
  <2>3. Len(log') = k + 1
    BY <1>2, <1>8 DEF IngestSend, Inv, ServerShape
  <2>4. Counted' /\ (Whole' => Whole)
    BY <1>1, <2>1, <2>2 DEF ExactInv, Counted, Whole
  <2>5. ASSUME Complete PROVE Complete'
    <3>1. k = n - 1 /\ Stored(store') = 1..n /\ store'.max_seen = n
      BY <1>2, <2>1, <2>5, Zenon DEF Complete
    <3>2. Len(log') = (n + 1) - 1
      BY <2>3, <3>1
    <3> QED BY <2>2, <3>1, <3>2, Zenon DEF Complete
  <2> QED BY <1>4, <2>4, <2>5, Zenon
<1> QED BY <1>5, <1>6, <1>7, <1>8, Zenon
-----------------------------------------------------------------------------
\* What the task sends next continues the stream.
LEMMA SendsOn ==
  ASSUME LinkShape, EndsInv, StreamInv, Sending, task.next_expected \in Nat,
         NEW packets \in Seq(Packets), Runs(packets, task.next_expected),
         wire' = wire \o packets, UNCHANGED <<sock, asked, client>>,
         task'.pc \in {"warmup", "replay", "live"},
         task'.next_expected = task.next_expected + Len(packets)
  PROVE  EndsInv' /\ StreamInv'
<1>1. wire \in Seq(Packets) /\ client.expected \in Nat
  BY Zenon DEF LinkShape
<1>2. PICK m \in Nat, e \in Nat : m = Len(packets) /\ e = task.next_expected
  OBVIOUS
<1>3. sock = "open" /\ e >= 1 /\ client.pc \in {"login", "up"}
  BY <1>2, Zenon DEF EndsInv, Sending
<1>4. ASSUME NEW q \in Seq(Packets), NEW n \in Nat, Stream(q, n)
      PROVE  Follows(q \o packets, n) /\ Runs(q \o packets, n)
             /\ task'.next_expected = n + Len(q \o packets)
  <2>1. Runs(q, n) /\ e = n + Len(q)
    BY <1>2, <1>4, Zenon DEF Stream
  <2>2. Runs(packets, n + Len(q))
    BY <1>2, <2>1, Zenon
  <2>3. Runs(q \o packets, n) /\ Len(q \o packets) = Len(q) + m
    BY <1>2, <2>1, <2>2, RunsAppend, Zenon
  <2>4. task'.next_expected = n + Len(q \o packets)
    BY <1>2, <2>1, <2>3, SMTT(30)
  <2> QED BY <2>3, <2>4, RunsFollows, Zenon
<1>5. client.pc = "login" =>
        /\ wire # <<>> /\ Head(wire).tag = "A"
        /\ wire' # <<>> /\ Head(wire') = Head(wire) /\ Head(wire) \in Packets
        /\ Tail(wire) \in Seq(Packets) /\ Tail(wire') = Tail(wire) \o packets
  BY <1>1, HeadTail, Zenon DEF EndsInv
<1>6. EndsInv'
  <2>1. Sending' /\ task'.next_expected >= 1
    BY <1>2, <1>3, SMTT(30) DEF Sending
  <2> QED BY <1>3, <1>5, <2>1, SMTT(30) DEF EndsInv
<1>7. CASE client.pc = "up"
  <2>1. Stream(wire, client.expected)
    BY <1>7, Zenon DEF StreamInv
  <2>2. Stream(wire, client.expected)'
    BY <1>1, <1>4, <2>1, SMTT(30) DEF Stream
  <2> QED BY <1>6, <1>7, <2>2, SMTT(30) DEF StreamInv
<1>8. CASE client.pc = "login"
  <2>1. Stream(Tail(wire), Head(wire).seq) /\ Head(wire).seq \in Nat
    BY <1>5, <1>8, SMTT(30) DEF StreamInv, Packets
  <2>2. Stream(Tail(wire), Head(wire).seq)'
    BY <1>4, <1>5, <1>8, <2>1, Zenon DEF Stream
  <2>3. asked # 0 => Head(wire).seq = asked
    BY <1>5, <1>8, Zenon DEF StreamInv
  <2> QED BY <1>5, <1>6, <1>8, <2>2, <2>3, Zenon DEF StreamInv
<1> QED BY <1>3, <1>7, <1>8, Zenon

\* A task that ends closes the stream behind what it has sent.
LEMMA StreamEnds ==
  ASSUME LinkShape, EndsInv, StreamInv, Sending,
         NEW packets \in {<<>>, <<EndOfSession>>}, TaskEnds(packets), UNCHANGED client
  PROVE  EndsInv' /\ StreamInv'
<1>1. wire \in Seq(Packets) /\ client.expected \in Nat
  BY Zenon DEF LinkShape
<1>2. packets \in Seq(Packets)
  <2>1. \A x \in Packets : <<x>> \in Seq(Packets)
    OBVIOUS
  <2>2. <<>> \in Seq(Packets)
    OBVIOUS
  <2> QED BY <2>1, <2>2, PacketTypes, Zenon
<1>3. /\ task'.pc = "none" /\ sock' = "closed" /\ wire' = wire \o packets
      /\ UNCHANGED <<asked, client>>
  BY NoTaskIsTask, Zenon DEF TaskEnds
<1>4. ~Sending' /\ client.pc \in {"login", "up"}
  BY <1>3, Zenon DEF Sending, EndsInv
<1>5. client.pc = "login" =>
        /\ wire # <<>> /\ Head(wire).tag = "A"
        /\ wire' # <<>> /\ Head(wire') = Head(wire) /\ Head(wire) \in Packets
        /\ Tail(wire) \in Seq(Packets) /\ Tail(wire') = Tail(wire) \o packets
  BY <1>1, <1>2, <1>3, HeadTail, SMTT(30) DEF EndsInv
<1>6. EndsInv'
  BY <1>3, <1>4, Zenon DEF EndsInv
<1>7. CASE client.pc = "up"
  <2>1. Runs(wire, client.expected)
    BY <1>7, Zenon DEF StreamInv, Stream
  <2>2. Follows(wire', client.expected)
    BY <1>1, <1>3, <2>1, EndFollows, Zenon
  <2>3. Stream(wire, client.expected)'
    BY <1>3, <1>4, <2>2, Zenon DEF Stream
  <2> QED BY <1>3, <1>6, <1>7, <2>3, Zenon DEF StreamInv
<1>8. CASE client.pc = "login"
  <2>1. Runs(Tail(wire), Head(wire).seq) /\ Head(wire).seq \in Nat
    BY <1>5, <1>8, Zenon DEF StreamInv, Stream, Packets
  <2>2. Follows(Tail(wire'), Head(wire').seq)
    BY <1>5, <1>8, <2>1, EndFollows, Zenon
  <2>3. Stream(Tail(wire), Head(wire).seq)'
    BY <1>4, <2>2, Zenon DEF Stream
  <2>4. asked # 0 => Head(wire).seq = asked
    BY <1>5, <1>8, Zenon DEF StreamInv
  <2> QED BY <1>3, <1>5, <1>6, <1>8, <2>3, <2>4, SMTT(30) DEF StreamInv
<1> QED BY <1>4, <1>7, <1>8, Zenon

\* The client's steps.
LEMMA ClientExact ==
  ASSUME Inv, EndsInv, StreamInv, ClientStep, UNCHANGED servervars
  PROVE  EndsInv' /\ StreamInv'
<1>0. LinkShape /\ task' = task
  BY Zenon DEF Inv, servervars
<1>1. /\ wire \in Seq(Packets) /\ asked \in Nat
      /\ DOMAIN client = {"pc", "next_sequence", "expected", "attempt", "last"}
      /\ client.next_sequence \in Nat /\ client.expected \in Nat /\ client.last \in Nat
  BY <1>0, Zenon DEF LinkShape, EndsInv
<1>2. wire # <<>> => Tail(wire) \in Seq(Packets) /\ Head(wire).seq \in Nat
  <2>1. wire # <<>> => Tail(wire) \in Seq(Packets) /\ Head(wire) \in Packets
    BY <1>1
  <2> QED BY <2>1, Zenon DEF Packets
<1>3. CASE Connect /\ Reachable
  <2>1. /\ client'.pc = "login" /\ client'.next_sequence = client.next_sequence
        /\ client'.last = client.last /\ client'.expected = client.expected
    BY <1>1, <1>3, Zenon DEF Connect
  <2>2. sock' = "backlog" /\ asked' = client.next_sequence /\ wire' = <<>> /\ task.pc = "none"
    BY <1>3, NoTaskIsTask, Zenon DEF Connect, Reachable
  <2>3. ~Sending'
    BY <2>2, Zenon DEF Sending
  <2> QED BY <1>0, <1>1, <2>1, <2>2, <2>3, Zenon DEF EndsInv, StreamInv
<1>4. CASE ConnectFails \/ LoginFails
  <2>1. /\ client'.pc \in {"down", "terminated"} /\ client'.next_sequence = client.next_sequence
        /\ client'.last = client.last /\ client'.expected = client.expected
    BY <1>1, <1>4, Zenon DEF ConnectFails, LoginFails
  <2>2. sock' = "none" /\ wire' = <<>>
    BY <1>4, Zenon DEF ConnectFails, LoginFails, Drop
  <2>3. ~Sending'
    BY <2>2, Zenon DEF Sending
  <2> QED BY <1>0, <1>1, <2>1, <2>2, <2>3, Zenon DEF EndsInv, StreamInv
<1>5. CASE Disconnected
  <2>1. /\ client'.pc = "down" /\ client'.next_sequence = client.expected
        /\ client'.last = client.last /\ client.pc = "up"
    BY <1>1, <1>5, Zenon DEF Disconnected
  <2>2. sock' = "none" /\ wire' = <<>>
    BY <1>5, Zenon DEF Disconnected, Drop
  <2>3. ~Sending'
    BY <2>2, Zenon DEF Sending
  <2> QED BY <1>0, <1>1, <2>1, <2>2, <2>3, Zenon DEF EndsInv, StreamInv
<1>6. CASE LoginSucceeds
  <2>1. /\ client'.pc = "up" /\ client'.next_sequence = Head(wire).seq
        /\ client'.last = client.last /\ client'.expected = Head(wire).seq
        /\ client.pc = "login" /\ wire # <<>> /\ Head(wire).tag = "A"
        /\ wire' = Tail(wire) /\ UNCHANGED <<sock, asked>>
    BY <1>1, <1>6, Zenon DEF LoginSucceeds
  <2>2. /\ asked # 0 => Head(wire).seq = asked
        /\ Stream(Tail(wire), Head(wire).seq)
    BY <2>1, SMTT(30) DEF StreamInv
  <2>3. Stream(wire, client.expected)'
    BY <1>0, <2>1, <2>2, Zenon DEF Stream, Sending, Follows, Runs
  <2>4. StreamInv'
    BY <2>1, <2>3, SMTT(30) DEF StreamInv
  <2>5. client.last # 0 => Head(wire).seq = client.last + 1
    BY <1>1, <2>1, <2>2 DEF EndsInv
  <2>6. sock \in {"open", "closed"} /\ (sock = "open" => task.pc # "login")
    BY <2>1, SMTT(30) DEF EndsInv
  <2>7. Sending' = Sending
    BY <1>0, <2>1, Zenon DEF Sending
  <2>8. EndsInv'
    BY <1>0, <1>1, <2>1, <2>5, <2>6, <2>7, SMTT(30) DEF EndsInv
  <2> QED BY <2>4, <2>8, Zenon
<1>7. CASE ReadMessage
  <2>1. /\ client'.pc = "up" /\ client'.next_sequence = client.expected + 1
        /\ client'.expected = client.expected + 1
        /\ client'.last = IF Head(wire).seq = 0 THEN client.last ELSE Head(wire).seq
        /\ client.pc = "up" /\ wire # <<>> /\ Head(wire).tag = "S"
        /\ wire' = Tail(wire) /\ UNCHANGED <<sock, asked>>
    BY <1>1, <1>7, Zenon DEF ReadMessage
  <2>2. Stream(wire, client.expected)
    BY <2>1, Zenon DEF StreamInv
  <2>3. Head(wire).seq = client.expected
    <3>1. 1 \in 1..Len(wire) /\ wire[1] = Head(wire)
      BY <1>1, <2>1, SMTT(30)
    <3> QED BY <1>1, <2>1, <2>2, <3>1 DEF Stream, Follows
  <2>4. /\ Follows(Tail(wire), client.expected + 1)
        /\ Runs(wire, client.expected) => Runs(Tail(wire), client.expected + 1)
        /\ Len(Tail(wire)) = Len(wire) - 1
    BY <1>1, <2>1, <2>2, TailFollows, Zenon DEF Stream
  <2>5. Sending' = Sending
    BY <1>0, <2>1, Zenon DEF Sending
  <2>6. Sending => task.next_expected = (client.expected + 1) + Len(Tail(wire))
    <3>1. PICK w \in Nat, e \in Nat : w = Len(wire) /\ e = client.expected
      BY <1>1
    <3>2. Sending => task.next_expected = e + w
      BY <2>2, <3>1, Zenon DEF Stream
    <3>3. Len(Tail(wire)) = w - 1
      BY <2>4, <3>1, Zenon
    <3>4. e + w = (e + 1) + (w - 1)
      OBVIOUS
    <3> QED BY <3>1, <3>2, <3>3, <3>4, Zenon
  <2>7. Stream(wire, client.expected)'
    BY <1>0, <2>1, <2>2, <2>4, <2>5, <2>6, SMTT(30) DEF Stream
  <2>8. client'.last \in Nat /\ (client'.last # 0 => client'.last = client.expected)
    BY <1>1, <2>1, <2>3 DEF EndsInv
  <2>9. EndsInv'
    BY <1>0, <1>1, <2>1, <2>5, <2>8, SMTT(30) DEF EndsInv
  <2> QED BY <2>1, <2>7, <2>9, SMTT(30) DEF StreamInv
<1> QED BY <1>3, <1>4, <1>5, <1>6, <1>7, Zenon DEF ClientStep
-----------------------------------------------------------------------------
\* The accept loop's steps, and those of a task about its login or its client.
LEMMA ServerExact ==
  ASSUME Inv, EndsInv, StreamInv, ~cfg.flaky,
         Accept \/ Shutdown \/ WaitIngest \/ JoinIngest \/ Return
         \/ LoginRefused \/ LoginGranted \/ ClientGone,
         UNCHANGED client
  PROVE  EndsInv' /\ StreamInv'
<1>0. LinkShape /\ task \in Tasks
  BY Zenon DEF Inv, ServerShape
<1>1. CASE Shutdown \/ WaitIngest \/ JoinIngest
  <2>1. UNCHANGED <<sock, asked, wire, client, task>>
    BY <1>1, Zenon DEF Shutdown, WaitIngest, JoinIngest, link
  <2> QED BY <2>1, EndsKept, Zenon
<1>2. CASE Accept
  <2>1. sock' = "open" /\ task'.pc = "login" /\ UNCHANGED <<asked, wire>> /\ sock = "backlog"
    BY <1>2, Zenon DEF Accept, NoTask
  <2>2. ~Sending' /\ wire = <<>> /\ client.pc = "login"
    BY <2>1, Zenon DEF Sending, EndsInv
  <2> QED BY <2>1, <2>2, Zenon DEF EndsInv, StreamInv
<1>3. CASE Return
  <2>1. /\ sock' = IF sock = "backlog" THEN "closed" ELSE sock
        /\ UNCHANGED <<asked, wire, task>>
    BY <1>3, Zenon DEF Return
  <2>2. CASE sock = "backlog"
    <3>1. ~Sending' /\ wire = <<>> /\ client.pc = "login"
      BY <2>1, <2>2 DEF Sending, EndsInv
    <3> QED BY <2>1, <2>2, <3>1, SMTT(30) DEF EndsInv, StreamInv
  <2>3. CASE sock # "backlog"
    <3>1. UNCHANGED <<sock, asked, wire, client, task>>
      BY <2>1, <2>3, SMTT(30)
    <3> QED BY <3>1, EndsKept, Zenon
  <2> QED BY <2>2, <2>3, SMTT(30)
<1>4. CASE ClientGone
  <2>1. task'.pc = "none" /\ sock = "none" /\ UNCHANGED <<sock, asked, wire>>
    BY <1>4, NoTaskIsTask, SMTT(30) DEF ClientGone, link
  <2>2. ~Sending' /\ client.pc \in {"down", "terminated"}
    BY <2>1, Zenon DEF Sending, EndsInv
  <2> QED BY <2>1, <2>2, Zenon DEF EndsInv, StreamInv
<1>5. CASE LoginRefused
  <2>1. /\ task'.pc = "none" /\ sock' = "closed" /\ asked' = asked
        /\ wire' = wire \o <<LoginRejected>> /\ sock = "open" /\ task.pc = "login"
    BY <1>5, NoTaskIsTask, Zenon DEF LoginRefused, At, TaskEnds
  <2>2. wire = <<>> /\ client.pc = "login"
    BY <2>1, SMTT(30) DEF EndsInv
  <2>3. wire' = <<LoginRejected>>
    BY <2>1, <2>2, PacketTypes
  <2>4. wire' # <<>> /\ Head(wire').tag = "J" /\ ~Sending'
    BY <2>1, <2>3, SMTT(30) DEF LoginRejected, Sending
  <2> QED BY <2>1, <2>2, <2>4, SMTT(30) DEF EndsInv, StreamInv
<1>6. CASE LoginGranted
  <2>1. PICK p, l, e \in Nat : task = [pc |-> "login", pos |-> p, latest |-> l, next_expected |-> e]
    BY <1>0, <1>6, ZenonT(60) DEF LoginGranted, At, Tasks
  <2>2. TaskGoesOn([task EXCEPT !.pc = "warmup", !.latest = Latest(store),
                                !.next_expected = ResumeFrom(Latest(store))],
                   <<LoginAccepted(ResumeFrom(Latest(store)))>>)
    BY <1>6, Zenon DEF LoginGranted
  <2>3. PICK f \in Nat : f = ResumeFrom(Latest(store))
    BY <1>0, SMTT(30) DEF Inv, StoreInv, LinkShape, Latest, ResumeFrom
  <2>4. f >= 1 /\ (asked # 0 => f = asked)
    BY <1>0, <2>3 DEF Inv, StoreInv, LinkShape, Latest, ResumeFrom
  <2>5. /\ task'.pc = "warmup" /\ task'.next_expected = f
        /\ wire' = wire \o <<LoginAccepted(f)>> /\ UNCHANGED <<sock, asked>>
    BY <2>1, <2>2, <2>3, SMTT(30) DEF TaskGoesOn
  <2>6. sock = "open" /\ wire = <<>> /\ client.pc = "login"
    BY <1>6, ZenonT(60) DEF LoginGranted, At, EndsInv
  <2>7. wire' = <<LoginAccepted(f)>>
    BY <2>5, <2>6, PacketTypes
  <2>8. /\ wire' # <<>> /\ Head(wire').tag = "A" /\ Head(wire').seq = f
        /\ Tail(wire') = <<>> /\ Len(Tail(wire')) = 0
    BY <2>7, SMTT(30) DEF LoginAccepted
  <2>9. Stream(Tail(wire), Head(wire).seq)'
    BY <2>3, <2>5, <2>8, SMTT(30) DEF Stream, Follows, Runs
  <2>10. EndsInv'
    BY <2>4, <2>5, <2>6, <2>8, SMTT(30) DEF EndsInv, Sending
  <2> QED BY <2>4, <2>5, <2>6, <2>8, <2>9, <2>10, Zenon DEF StreamInv
<1> QED BY <1>1, <1>2, <1>3, <1>4, <1>5, <1>6, Zenon

\* What a task sends while the store is whole.
LEMMA TaskExact ==
  ASSUME Counting, Inv, Joined, Whole, Warmup \/ Replay \/ LiveRecv \/ LiveLagged \/ LiveClosed,
         UNCHANGED client
  PROVE  EndsInv' /\ StreamInv'
<1>0. LinkShape /\ task \in Tasks /\ EndsInv /\ StreamInv /\ Complete
  BY Zenon DEF Inv, ServerShape, Joined
<1>1. Sending /\ task.next_expected \in Nat
  BY <1>0, Zenon DEF Sending, Warmup, Replay, LiveRecv, LiveLagged, LiveClosed, At, Tasks
<1>2. ASSUME NEW packets \in Seq(Packets), Runs(packets, task.next_expected),
             wire' = wire \o packets, UNCHANGED <<sock, asked>>,
             task'.pc \in {"warmup", "replay", "live"},
             task'.next_expected = task.next_expected + Len(packets)
      PROVE  EndsInv' /\ StreamInv'
  BY <1>0, <1>1, <1>2, SendsOn, Zenon
<1>3. <<>> \in Seq(Packets) /\ Len(<<>>) = 0 /\ Runs(<<>>, task.next_expected)
  BY DEF Runs
<1>4. CASE LiveLagged \/ LiveClosed
  <2>1. PICK packets \in {<<>>, <<EndOfSession>>} : TaskEnds(packets)
    BY <1>4, Zenon DEF LiveLagged, LiveClosed
  <2> QED BY <1>0, <1>1, <2>1, StreamEnds, SMTT(30)
<1>5. CASE Warmup
  <2>1. PICK p, l, e \in Nat : task = [pc |-> "warmup", pos |-> p, latest |-> l, next_expected |-> e]
    BY <1>0, <1>5, Zenon DEF Warmup, At, Tasks
  <2>2. cfg.warmup = 0
    BY Zenon DEF Whole
  <2>3. [i \in 1..cfg.warmup |-> SequencedData(0, 0)] = <<>>
    BY <2>2
  <2>4. TaskGoesOn([task EXCEPT !.pc = IF task.next_expected <= task.latest
                                       THEN "replay" ELSE "live"], <<>>)
    BY <1>5, <2>3, Zenon DEF Warmup
  <2>5. /\ task'.pc \in {"replay", "live"} /\ task'.next_expected = e
        /\ wire' = wire \o <<>> /\ UNCHANGED <<sock, asked>>
    BY <2>1, <2>4, Zenon DEF TaskGoesOn
  <2>6. task.next_expected = e /\ e + 0 = e
    BY <2>1
  <2> QED BY <1>2, <1>3, <2>5, <2>6, ZenonT(60)
<1>6. CASE Replay
  <2>1. PICK p, l, e, m \in Nat : ReplaySends(p, l, e, m)
    BY <1>6, ReplayStep, Zenon
  <2> DEFINE packets == [i \in 1..m |-> SequencedData(e + i - 1, store.map[e + i - 1])]
  <2>2. packets \in Seq(Packets)
    BY <2>1, ReplayPackets, Zenon
  <2>3. Len(packets) = m /\ \A i \in 1..m : packets[i] = SequencedData(e + i - 1, store.map[e + i - 1])
    OBVIOUS
  <2>4. Runs(packets, e)
    <3>1. \A i \in 1..m : packets[i].tag = "S" /\ packets[i].seq = e + i - 1
      BY <2>3, Zenon DEF SequencedData
    <3> QED BY <2>3, <3>1, Zenon DEF Runs
  <2>5. wire' = wire \o packets
    BY <2>1, SMTT(30) DEF ReplaySends
  <2> HIDE DEF packets
  <2>6. /\ task.next_expected = e /\ task'.next_expected = e + m
        /\ task'.pc \in {"live", "replay"} /\ asked' = asked
    BY <2>1, SMTT(30) DEF ReplaySends
  <2>7. sock' = sock
    BY <1>6, Zenon DEF Replay, TaskGoesOn
  <2> QED BY <1>2, <2>2, <2>3, <2>4, <2>5, <2>6, <2>7, ZenonT(60)
<1>7. CASE LiveRecv
  <2>1. PICK p, l, e, d \in Nat : LiveSends(p, l, e, d)
    BY <1>7, LiveStep, SMTT(30)
  <2>2. /\ task.pc = "live" /\ task.next_expected = e /\ task.pos = p /\ p < Len(log) /\ d = Due
        /\ asked' = asked /\ task'.pc = "live"
    BY <2>1 DEF LiveSends
  <2>3. sock' = sock
    BY <1>7, SMTT(30) DEF LiveRecv, TaskGoesOn
  <2>4. CASE d < e
    <3>1. wire' = wire \o <<>> /\ task'.next_expected = e /\ e + 0 = e
      BY <2>1, <2>4 DEF LiveSends
    <3> QED BY <1>2, <1>3, <2>2, <2>3, <3>1, ZenonT(60)
  <2>5. CASE d >= e
    <3>1. PICK m \in Nat : wire' = wire \o <<SequencedData(d, m)>>
      BY <2>1, <2>5, SMTT(30) DEF LiveSends
    <3>2. task'.next_expected = d + 1
      BY <2>1, <2>5, SMTT(30) DEF LiveSends
    <3>3. d = e
      <4>1. PICK k \in Nat, n \in Nat, x \in Nat :
              k = Len(log) /\ n = ingest.next_seq /\ x = store.max_seen
        BY DEF Inv, ServerShape, StoreInv
      <4>2. ingest.pc # "start"
        <5>1. ingest.pc = "start" => log = <<>>
          BY SMTT(30) DEF Inv, StoreInv
        <5> QED BY <2>2, <5>1, SMTT(30)
      <4>3. k = n - 1 /\ Stored(store) = 1..x /\ n <= x + 1
        <5>1. ingest.pc \in {"pull", "done", "send"}
          BY <4>2, Zenon DEF Inv, ServerShape
        <5> QED BY <1>0, <4>1, <4>2, <5>1, SMTT(30) DEF Complete, Inv, StoreInv
      <4>4. d = p + 1 /\ p < k
        BY <2>2, <4>1, <4>3, SMTT(30) DEF Due
      <4>5. e >= 1
        BY <1>0, <1>1, <2>2, Zenon DEF EndsInv
      <4>6. e \in Stored(store)
        BY <2>5, <4>3, <4>4, <4>5, SMTT(30)
      <4>7. e >= d
        BY <2>2, <4>6, Zenon DEF Inv, TaskInv, Whole
      <4> QED BY <2>5, <4>7, SMTT(30)
    <3> DEFINE packets == <<SequencedData(d, m)>>
    <3>4. packets \in Seq(Packets) /\ Len(packets) = 1
      BY PacketTypes
    <3>5. Runs(packets, e)
      <4>1. \A i \in 1..1 : packets[i].tag = "S" /\ packets[i].seq = e + i - 1
        BY <3>3 DEF SequencedData
      <4> QED BY <3>4, <4>1, Zenon DEF Runs
    <3>6. wire' = wire \o packets
      BY <3>1, Zenon
    <3> HIDE DEF packets
    <3>7. task'.next_expected = e + Len(packets)
      BY <3>2, <3>3, <3>4, Zenon
    <3> QED BY <1>2, <2>2, <2>3, <3>4, <3>5, <3>6, <3>7, Zenon
  <2> QED BY <2>4, <2>5
<1> QED BY <1>4, <1>5, <1>6, <1>7, Zenon
-----------------------------------------------------------------------------
\* The initial states satisfy the invariant of exact delivery, and every step keeps it.
LEMMA InitExact == Init => ExactInv
<1> SUFFICES ASSUME Init PROVE ExactInv
  BY Zenon
<1>1. PICK c \in Capacities : store = NewStore(c)
  BY Zenon DEF Init, InitServer
<1>2. Stored(store) = {} /\ store.max_seen = 0
  BY <1>1, Zenon DEF NewStore, Stored
<1>3. 1..0 = {}
  BY SMTT(30)
<1>4. Counted /\ Complete
  BY <1>2, <1>3, SMTT(30) DEF Init, InitServer, Counted, Complete
<1>5. task.pc = "none" /\ sock = "none" /\ wire = <<>> /\ client.pc = "down" /\ client.last = 0
  BY NoTaskIsTask, SMTT(30) DEF Init, InitServer, InitLink, InitClient
<1>6. EndsInv /\ StreamInv
  BY <1>5 DEF EndsInv, StreamInv, Sending
<1> QED BY <1>4, <1>6, Zenon DEF ExactInv, Joined

LEMMA NextExact ==
  ASSUME Counting
  PROVE  Inv /\ ExactInv /\ [Next]_vars => ExactInv'
<1> SUFFICES ASSUME Inv, ExactInv, [Next]_vars PROVE ExactInv'
  BY Zenon
<1>1. ASSUME UNCHANGED <<cfg, store, ingest, log>>,
             Whole /\ Joined => EndsInv' /\ StreamInv'
      PROVE  ExactInv'
  BY <1>1, StoreKept, SMTT(30) DEF ExactInv, Joined
<1>2. CASE UNCHANGED vars
  <2>1. UNCHANGED <<cfg, store, ingest, log, task, sock, asked, wire, client>>
    BY <1>2, SMTT(30) DEF vars, servervars, link, clientvars
  <2> QED BY <1>1, <2>1, EndsKept, Zenon DEF Joined
<1>3. CASE ClientStep /\ UNCHANGED servervars
  <2>1. UNCHANGED <<cfg, store, ingest, log>>
    BY <1>3, SMTT(30) DEF servervars
  <2> QED BY <1>1, <1>3, <2>1, ClientExact, Zenon DEF Joined
<1>4. ASSUME NextServer, UNCHANGED clientvars PROVE ExactInv'
  <2>1. client' = client
    BY <1>4, SMTT(30) DEF clientvars
  <2>2. CASE IngestStart \/ IngestStore \/ IngestDrop \/ IngestSend \/ IngestEnds
    BY <1>4, <2>2, IngestExact, Zenon
  <2>3. CASE Accept \/ Shutdown \/ WaitIngest \/ JoinIngest \/ Return
             \/ LoginRefused \/ LoginGranted \/ ClientGone
    <3>1. UNCHANGED <<cfg, store, ingest, log>>
      BY <2>3, ZenonT(60) DEF Accept, Shutdown, WaitIngest, JoinIngest, Return, LoginRefused,
         LoginGranted, ClientGone, TaskEnds, TaskGoesOn
    <3> QED BY <1>1, <2>1, <2>3, <3>1, ServerExact, SMTT(30) DEF Joined, Whole
  <2>4. CASE Warmup \/ Replay \/ LiveRecv \/ LiveLagged \/ LiveClosed
    <3>1. UNCHANGED <<cfg, store, ingest, log>>
      BY <2>4, Zenon DEF Warmup, Replay, LiveRecv, LiveLagged, LiveClosed, TaskEnds, TaskGoesOn
    <3> QED BY <1>1, <2>1, <2>4, <3>1, TaskExact, Zenon
  <2>5. CASE TaskFails
    <3>1. UNCHANGED <<cfg, store, ingest, log>> /\ ~Whole
      BY <2>5, Zenon DEF TaskFails, TaskEnds, Whole
    <3> QED BY <1>1, <3>1, Zenon
  <2> QED BY <1>4, <2>2, <2>3, <2>4, <2>5, Zenon DEF NextServer, TaskStep
<1> QED BY <1>2, <1>3, <1>4, Zenon DEF Next

LEMMA ExactDeliveryStep ==
  ASSUME Counting, Inv, ExactInv, [Next]_vars, Retained, cfg.warmup = 0, cfg.start = 1
  PROVE  Advances
<1>1. Whole
  <2>1. ASSUME NEW x \in Stored(store) PROVE 1 \in Stored(store)
    <3>1. \A n \in Stored(store) : n \in Nat
      BY Zenon DEF Inv, StoreInv
    <3>2. \E n \in Stored(store) : \A m \in Stored(store) : n <= m
      BY <2>1, <3>1, LeastOf, Zenon
    <3>3. Earliest(store) \in Stored(store)
      BY <2>1, <3>2, Zenon DEF Earliest
    <3> QED BY <2>1, <3>3, SMTT(30) DEF Retained
  <2> QED BY <2>1, Zenon DEF Whole, Retained
<1>2. EndsInv /\ StreamInv
  BY <1>1, SMTT(30) DEF ExactInv, Joined
<1>3. CASE ReadMessage
  <2>1. /\ client.pc = "up" /\ wire # <<>> /\ Head(wire).tag = "S"
        /\ client'.last = IF Head(wire).seq = 0 THEN client.last ELSE Head(wire).seq
    BY <1>3, SMTT(30) DEF ReadMessage, Inv, LinkShape
  <2>2. Follows(wire, client.expected) /\ wire \in Seq(Packets) /\ client.expected \in Nat
    BY <1>2, <2>1, SMTT(30) DEF StreamInv, Stream, Inv, LinkShape
  <2>3. Head(wire).seq = client.expected
    <3>1. 1 \in 1..Len(wire) /\ wire[1] = Head(wire)
      BY <2>1, <2>2
    <3> QED BY <2>1, <2>2, <3>1 DEF Follows
  <2> QED BY <1>2, <2>1, <2>3, Zenon DEF EndsInv, Advances
<1>4. CASE ~ReadMessage
  <2>1. client'.last = client.last
    <3>1. DOMAIN client = {"pc", "next_sequence", "expected", "attempt", "last"}
      BY Zenon DEF Inv, LinkShape
    <3>2. ClientStep \/ client' = client
      BY Zenon DEF Next, vars, clientvars
    <3> QED BY <1>4, <3>1, <3>2, Zenon DEF ClientStep, Connect, ConnectFails, LoginSucceeds,
            LoginFails, Disconnected
  <2> QED BY <2>1, Zenon DEF Advances
<1> QED BY <1>3, <1>4, SMTT(30)

INSTANCE IntervalTheorems

\* The inductive invariant: what is broadcast is a run of numbers the store has seen, and
\* a subscriber still receives whatever its replay cannot have covered.
THEOREM Invariance == Spec => []Inv
<1>1. Init => Inv
  BY InitInv
<1>2. Inv /\ [Next]_vars => Inv'
  BY CountingHolds, NextInv, Zenon
<1> QED BY <1>1, <1>2, PTL DEF Spec

\* What is broadcast was stored before, under the same number and without a hole
\* (SoupServer::serve's ingest task), for every length of the session and capacity.
THEOREM StoredFirst == Spec => []StoredBeforeSent
<1>1. Inv => StoredBeforeSent
  BY StoredFirstStep
<1> QED BY <1>1, Invariance, PTL

\* From the replay into the live broadcast nothing is skipped that the store still holds
\* next (handle_subscriber), for every chunk, capacity and interleaving.
THEOREM ReplayJoinsLive == Spec => ReplayMeetsLive
<1>1. ASSUME Inv, [Next]_vars, ~cfg.flaky, task.pc \in {"replay", "live"}, task' # NoTask,
             (task.next_expected..(task'.next_expected - 1))
                \ {wire'[i].seq : i \in (Len(wire) + 1)..Len(wire')} # {}
      PROVE  task.next_expected \notin Stored(store)
  BY <1>1, CountingHolds, ReplayJoinsLiveStep, Zenon
<1>2. Inv /\ [Next]_vars =>
        [~cfg.flaky /\ task.pc \in {"replay", "live"} /\ task' # NoTask
         /\ (task.next_expected..(task'.next_expected - 1))
              \ {wire'[i].seq : i \in (Len(wire) + 1)..Len(wire')} # {}
         => task.next_expected \notin Stored(store)]_<<servervars, link>>
  BY <1>1
<1> QED BY <1>2, Invariance, PTL DEF Spec, ReplayMeetsLive

\* EndOfSession is the end (handle_subscriber, RecvError::Closed): when it is sent the
\* store does not hold the number the subscriber waits for.
THEOREM EndIsEnd == Spec => EndComplete
<1>1. ASSUME Inv, [Next]_vars, ~cfg.flaky, wire' = Append(wire, EndOfSession)
      PROVE  task.next_expected \notin Stored(store)
  BY <1>1, CountingHolds, EndIsEndStep, Zenon
<1>2. Inv /\ [Next]_vars => [~cfg.flaky /\ wire' = Append(wire, EndOfSession)
        => task.next_expected \notin Stored(store)]_<<servervars, link>>
  BY <1>1, Zenon
<1> QED BY <1>2, Invariance, PTL DEF Spec, EndComplete

\* Across any number of lost connections and reconnects the caller gets every message once
\* and in order (ResilientSoupClient::next_message over SoupServer), for every length of
\* the session, chunk and broadcast buffer, as long as the store keeps what it was given,
\* the policy has no warmup and the numbers start at 1.
THEOREM ExactDelivery == Spec => HandedExact
<1>1. ASSUME Inv, ExactInv, [Next]_vars, Retained, cfg.warmup = 0, cfg.start = 1
      PROVE  Advances
  BY <1>1, CountingHolds, ExactDeliveryStep, Zenon
<1>2. Spec => []ExactInv
  <2>1. Inv /\ ExactInv /\ [Next]_vars => ExactInv'
    BY CountingHolds, NextExact, Zenon
  <2> QED BY <2>1, InitExact, Invariance, PTL DEF Spec
<1>3. Inv /\ ExactInv /\ [Next]_vars => [Retained /\ cfg.warmup = 0 /\ cfg.start = 1 => Advances]_vars
  BY <1>1, Zenon
<1> QED BY <1>2, <1>3, Invariance, PTL DEF Spec, HandedExact
=============================================================================
