---------------------------- MODULE ClientProofs ----------------------------
(***************************************************************************)
(* Proofs about what a client makes of the feed.  BookManager, for any     *)
(* number of symbols, references, prices and shares: the queues of the L3  *)
(* book hold its orders by arrival, and no message moves an order ahead of *)
(* another.  MoldSilence, for every pair of thresholds: when the caller is *)
(* told that the peer is silent.  CompressedClient, for sessions of any    *)
(* length, packets of any size, any number of attempts and of faults: what *)
(* the cursor of the connection counts, and what the caller has got below  *)
(* it.                                                                     *)
(***************************************************************************)
EXTENDS BookManager, MoldSilence, CompressedClient, TLAPS

-----------------------------------------------------------------------------
(* The books. *)

Order == [level : Level, shares : Int, arrival_seq : Nat]

Shape(b) ==
  /\ {"queues", "orders", "arrival_seq"} \subseteq DOMAIN b
  /\ b.arrival_seq \in Nat
  /\ b.orders \in [DOMAIN b.orders -> Order]
  /\ b.queues \in [DOMAIN b.queues -> Seq(Ref)]

\* QueuesAreOrders, of one book.
Queued(b) ==
  /\ DOMAIN b.queues = {b.orders[ref].level : ref \in DOMAIN b.orders}
  /\ \A level \in DOMAIN b.queues :
       /\ Range(b.queues[level]) = Resting(b, level)
       /\ \A i, j \in DOMAIN b.queues[level] :
            i < j => b.orders[b.queues[level][i]].arrival_seq
                       < b.orders[b.queues[level][j]].arrival_seq

\* Every order has arrived: a new one comes after all of them.
Arrived(b) == \A ref \in DOMAIN b.orders : b.orders[ref].arrival_seq <= b.arrival_seq

Good(b) == Shape(b) /\ Queued(b) /\ Arrived(b)

\* What PriorityKept says of a step from book b to book c.
InPlace(b, c) ==
  \A p, q \in Ref : Before(c, p, q) => q \notin DOMAIN b.orders \/ Before(b, p, q)

Inv ==
  /\ l3 = [s \in Locate |-> l3[s]]
  /\ used \subseteq Ref
  /\ \A s \in Locate : Good(l3[s]) /\ DOMAIN l3[s].orders \subseteq used
-----------------------------------------------------------------------------
(* What the methods do. *)

\* A queue stands for its orders: a reference in it is at one place only.
LEMMA OnePlace ==
  ASSUME NEW b, Good(b), NEW level \in DOMAIN b.queues,
         NEW i \in DOMAIN b.queues[level], NEW j \in DOMAIN b.queues[level],
         b.queues[level][i] = b.queues[level][j]
  PROVE  i = j
<1>1. b.queues[level] \in Seq(Ref)
  BY Zenon DEF Good, Shape
<1>2. i \in Nat /\ j \in Nat
  BY <1>1
<1>3. b.queues[level][i] \in DOMAIN b.orders
  BY DEF Good, Queued, Range, Resting
<1>4. b.orders[b.queues[level][i]].arrival_seq \in Nat
  BY <1>3, Zenon DEF Good, Shape, Order
<1> QED BY <1>2, <1>4 DEF Good, Queued

LEMMA Glued ==
  ASSUME NEW S, NEW a \in Seq(S), NEW b \in Seq(S)
  PROVE  /\ a \o b \in Seq(S) /\ Len(a \o b) = Len(a) + Len(b)
         /\ \A i \in 1..(Len(a) + Len(b)) :
              (a \o b)[i] = IF i < Len(a) + 1 THEN a[i] ELSE b[i - Len(a)]
OBVIOUS

\* r is q without its element at k.
Without(r, q, k) ==
  /\ Len(r) = Len(q) - 1
  /\ \A i \in 1..(Len(q) - 1) : r[i] = IF i < k THEN q[i] ELSE q[i + 1]

\* remove_from_queue takes out exactly the order: the others close up.
LEMMA TakenOut ==
  ASSUME NEW S, NEW q \in Seq(S), NEW k \in 1..Len(q),
         \A j \in 1..Len(q) : q[j] = q[k] => j = k
  PROVE  TakeOut(q, q[k]) \in Seq(S) /\ Without(TakeOut(q, q[k]), q, k)
<1>1. {j \in DOMAIN q : q[j] = q[k]} = {k}
  OBVIOUS
<1>2. Min({k}) = k
  BY DEF Min
<1>3. {k} # {}
  BY Zenon
<1>4. TakeOut(q, q[k]) = SubSeq(q, 1, k - 1) \o SubSeq(q, k + 1, Len(q))
  BY <1>1, <1>2, <1>3, Zenon DEF TakeOut
<1>5. SubSeq(q, 1, k - 1) \in Seq(S) /\ Len(SubSeq(q, 1, k - 1)) = k - 1
  OBVIOUS
<1>6. SubSeq(q, k + 1, Len(q)) \in Seq(S) /\ Len(SubSeq(q, k + 1, Len(q))) = Len(q) - k
  OBVIOUS
<1> DEFINE front == SubSeq(q, 1, k - 1)
           back == SubSeq(q, k + 1, Len(q))
<1>7. \A i \in 1..(k - 1) : front[i] = q[i]
  OBVIOUS
<1>8. \A i \in 1..(Len(q) - k) : back[i] = q[k + i]
  OBVIOUS
<1>9. /\ front \o back \in Seq(S) /\ Len(front \o back) = Len(q) - 1
      /\ \A i \in 1..(Len(q) - 1) :
           (front \o back)[i] = IF i < k THEN front[i] ELSE back[i - k + 1]
  <2>1. front \in Seq(S) /\ Len(front) = k - 1 /\ back \in Seq(S) /\ Len(back) = Len(q) - k
    BY <1>5, <1>6, Zenon
  <2> HIDE DEF front, back
  <2>2. Len(front) + Len(back) = Len(q) - 1
    BY <2>1
  <2>3. /\ front \o back \in Seq(S) /\ Len(front \o back) = Len(front) + Len(back)
        /\ \A i \in 1..(Len(front) + Len(back)) :
             (front \o back)[i] = IF i < Len(front) + 1 THEN front[i] ELSE back[i - Len(front)]
    BY <2>1, Glued, Zenon
  <2>4. \A i \in 1..(Len(q) - 1) : i - Len(front) = i - k + 1 /\ (i < Len(front) + 1 <=> i < k)
    BY <2>1
  <2> QED BY <2>2, <2>3, <2>4, SMTT(30)
<1>10. ASSUME NEW i \in 1..(Len(q) - 1), i >= k PROVE back[i - k + 1] = q[i + 1]
  BY <1>8, <1>10
<1>11. \A i \in 1..(Len(q) - 1) : i < k => i \in 1..(k - 1)
  OBVIOUS
<1>12. TakeOut(q, q[k]) = front \o back
  BY <1>4, Zenon
<1> HIDE DEF front, back
<1>13. \A i \in 1..(Len(q) - 1) : (front \o back)[i] = IF i < k THEN q[i] ELSE q[i + 1]
  BY <1>7, <1>9, <1>10, <1>11
<1> QED BY <1>9, <1>12, <1>13, Zenon DEF Without


\* The queue of a level, empty if there is none, holds the orders of the level.
LEMMA QueueOfLevel ==
  ASSUME NEW b, Good(b), NEW level
  PROVE  /\ Queue(b, level) \in Seq(Ref)
         /\ Range(Queue(b, level)) = Resting(b, level)
         /\ \A i, j \in 1..Len(Queue(b, level)) :
              i < j => b.orders[Queue(b, level)[i]].arrival_seq
                         < b.orders[Queue(b, level)[j]].arrival_seq
<1>1. CASE level \in DOMAIN b.queues
  <2>1. Queue(b, level) = b.queues[level] /\ b.queues[level] \in Seq(Ref)
    BY <1>1, Zenon DEF Queue, Good, Shape
  <2> QED BY <1>1, <2>1 DEF Good, Queued
<1>2. CASE level \notin DOMAIN b.queues
  <2>1. Queue(b, level) = <<>>
    BY <1>2, Zenon DEF Queue
  <2>2. Resting(b, level) = {}
    BY <1>2, Zenon DEF Good, Queued, Resting
  <2> QED BY <2>1, <2>2 DEF Range
<1> QED BY <1>1, <1>2, SMTT(30)

\* insert_order: the new order is behind all others of its level.
LEMMA Inserted ==
  ASSUME NEW b, Good(b), NEW ref \in Ref, ref \notin DOMAIN b.orders,
         NEW level \in Level, NEW shares \in Int
  PROVE  LET c == InsertOrder(b, ref, level, shares)
         IN  Good(c) /\ InPlace(b, c) /\ DOMAIN c.orders = DOMAIN b.orders \cup {ref}
<1> DEFINE c == InsertOrder(b, ref, level, shares)
           q == Queue(b, level)
<1>1. /\ {"queues", "orders", "arrival_seq"} \subseteq DOMAIN c
      /\ c.arrival_seq = b.arrival_seq + 1
      /\ DOMAIN c.orders = DOMAIN b.orders \cup {ref}
      /\ c.orders[ref] = [level |-> level, shares |-> shares, arrival_seq |-> b.arrival_seq + 1]
      /\ \A r \in DOMAIN b.orders : c.orders[r] = b.orders[r]
  BY Zenon DEF InsertOrder, Put
<1>2. /\ DOMAIN c.queues = DOMAIN b.queues \cup {level}
      /\ c.queues[level] = Append(q, ref)
      /\ \A l \in DOMAIN b.queues : l # level => c.queues[l] = b.queues[l]
      /\ c.queues = [l \in DOMAIN c.queues |-> c.queues[l]]
      /\ c.orders = [r \in DOMAIN c.orders |-> c.orders[r]]
  BY Zenon DEF InsertOrder, Put
<1>3. /\ q \in Seq(Ref) /\ Range(q) = Resting(b, level)
      /\ \A i, j \in 1..Len(q) : i < j => b.orders[q[i]].arrival_seq < b.orders[q[j]].arrival_seq
  BY QueueOfLevel, Zenon
<1> HIDE DEF c, q
<1>4. Append(q, ref) \in Seq(Ref) /\ Len(Append(q, ref)) = Len(q) + 1 /\ Len(q) \in Nat
      /\ Append(q, ref)[Len(q) + 1] = ref /\ \A i \in 1..Len(q) : Append(q, ref)[i] = q[i]
  BY <1>3
<1>5. \A i \in 1..Len(q) : q[i] \in DOMAIN b.orders /\ b.orders[q[i]].level = level
  BY <1>3 DEF Range, Resting
<1>6. Shape(c)
  <2>1. c.orders \in [DOMAIN c.orders -> Order]
    BY <1>1, <1>2 DEF Good, Shape, Order
  <2>2. c.queues \in [DOMAIN c.queues -> Seq(Ref)]
    BY <1>2, <1>4, ZenonT(60) DEF Good, Shape
  <2> QED BY <1>1, <2>1, <2>2, SMTT(30) DEF Good, Shape
<1>7. Arrived(c)
  BY <1>1 DEF Good, Shape, Arrived, Order
<1>8. DOMAIN c.queues = {c.orders[r].level : r \in DOMAIN c.orders}
  BY <1>1, <1>2, SMTT(30) DEF Good, Queued
<1>9. ASSUME NEW l \in DOMAIN c.queues, l # level
      PROVE  /\ Range(c.queues[l]) = Resting(c, l)
             /\ \A i, j \in DOMAIN c.queues[l] :
                  i < j => c.orders[c.queues[l][i]].arrival_seq < c.orders[c.queues[l][j]].arrival_seq
  <2>1. l \in DOMAIN b.queues /\ c.queues[l] = b.queues[l]
    BY <1>2, <1>9, Zenon
  <2>2. Resting(c, l) = Resting(b, l)
    BY <1>1, <1>9 DEF Resting
  <2>3. \A i \in DOMAIN b.queues[l] : b.queues[l][i] \in DOMAIN b.orders
    BY <2>1 DEF Good, Queued, Range, Resting
  <2> QED BY <1>1, <2>1, <2>2, <2>3, SMTT(30) DEF Good, Queued
<1>10. Range(c.queues[level]) = Resting(c, level)
  <2>1. Range(Append(q, ref)) = Range(q) \cup {ref}
    BY <1>3, <1>4 DEF Range
  <2>2. Resting(c, level) = Resting(b, level) \cup {ref}
    BY <1>1 DEF Resting
  <2> QED BY <1>2, <1>3, <2>1, <2>2, Zenon
<1>11. \A i, j \in DOMAIN c.queues[level] :
         i < j => c.orders[c.queues[level][i]].arrival_seq < c.orders[c.queues[level][j]].arrival_seq
  <2> SUFFICES ASSUME NEW i \in 1..(Len(q) + 1), NEW j \in 1..(Len(q) + 1), i < j
               PROVE  c.orders[Append(q, ref)[i]].arrival_seq
                        < c.orders[Append(q, ref)[j]].arrival_seq
    BY <1>2, <1>4
  <2>1. i \in 1..Len(q) /\ q[i] \in DOMAIN b.orders /\ Append(q, ref)[i] = q[i]
    BY <1>4, <1>5
  <2>2. CASE j = Len(q) + 1
    <3>1. b.orders[q[i]].arrival_seq \in Nat /\ b.orders[q[i]].arrival_seq <= b.arrival_seq
      BY <2>1, Zenon DEF Good, Shape, Order, Arrived
    <3>2. b.arrival_seq \in Nat
      BY DEF Good, Shape
    <3> QED BY <1>1, <1>4, <2>1, <2>2, <3>1, <3>2, SMTT(30)
  <2>3. CASE j \in 1..Len(q)
    BY <1>1, <1>3, <1>4, <1>5, <2>1, <2>3, SMTT(30)
  <2> QED BY <1>4, <2>2, <2>3
<1>12. Queued(c)
  BY <1>8, <1>9, <1>10, <1>11, Zenon DEF Queued
<1>13. InPlace(b, c)
  <2> SUFFICES ASSUME NEW p \in Ref, NEW r \in Ref, Before(c, p, r), r \in DOMAIN b.orders
               PROVE  Before(b, p, r)
    BY Zenon DEF InPlace
  <2>1. PICK l \in DOMAIN c.queues : \E i, j \in DOMAIN c.queues[l] :
          i < j /\ c.queues[l][i] = p /\ c.queues[l][j] = r
    BY Zenon DEF Before
  <2>2. CASE l # level
    BY <1>2, <2>1, <2>2, SMTT(30) DEF Before
  <2>3. CASE l = level
    <3>1. PICK i \in 1..(Len(q) + 1), j \in 1..(Len(q) + 1) :
            i < j /\ Append(q, ref)[i] = p /\ Append(q, ref)[j] = r
      <4>1. DOMAIN Append(q, ref) = 1..(Len(q) + 1) /\ c.queues[l] = Append(q, ref)
        BY <1>2, <1>4, <2>3
      <4> QED BY <2>1, <4>1, Zenon
    <3>2. i \in 1..Len(q) /\ j \in 1..Len(q) /\ q[i] = p /\ q[j] = r
      BY <1>4, <3>1
    <3>3. level \in DOMAIN b.queues /\ q = b.queues[level]
      <4>1. q = IF level \in DOMAIN b.queues THEN b.queues[level] ELSE <<>>
        BY Zenon DEF q, Queue
      <4>2. q # <<>>
        BY <1>3, <3>2
      <4> QED BY <4>1, <4>2, Zenon
    <3>4. DOMAIN q = 1..Len(q)
      BY <1>3
    <3> QED BY <3>1, <3>2, <3>3, <3>4, Zenon DEF Before
  <2> QED BY <2>2, <2>3, Zenon
<1> QED BY <1>1, <1>6, <1>7, <1>12, <1>13, Zenon DEF Good, c

\* An order leaves its queue and the index; the others keep their places.
LEMMA TakesOut ==
  ASSUME NEW b, Good(b), NEW ref \in DOMAIN b.orders
  PROVE  LET c == Removed(b, ref)
         IN  Good(c) /\ InPlace(b, c) /\ DOMAIN c.orders = DOMAIN b.orders \ {ref}
<1> DEFINE c == Removed(b, ref)
           level == b.orders[ref].level
           q == b.queues[level]
           rest == TakeOut(q, ref)
<1>1. /\ level \in DOMAIN b.queues /\ q \in Seq(Ref) /\ DOMAIN q = 1..Len(q) /\ Len(q) \in Nat
      /\ Range(q) = Resting(b, level)
      /\ \A i, j \in 1..Len(q) : i < j => b.orders[q[i]].arrival_seq < b.orders[q[j]].arrival_seq
  BY SMTT(30) DEF Good, Queued, Shape
<1>2. PICK k \in 1..Len(q) : q[k] = ref
  <2>1. ref \in Range(q)
    BY <1>1, ZenonT(60) DEF Resting
  <2> QED BY <1>1, <2>1, ZenonT(60) DEF Range
<1>3. \A j \in 1..Len(q) : q[j] = q[k] => j = k
  BY <1>1, OnePlace, Zenon
<1>4. /\ rest \in Seq(Ref) /\ Len(rest) = Len(q) - 1 /\ DOMAIN rest = 1..(Len(q) - 1)
      /\ \A i \in 1..(Len(q) - 1) : rest[i] = IF i < k THEN q[i] ELSE q[i + 1]
  <2> HIDE DEF q
  <2>1. TakeOut(q, q[k]) \in Seq(Ref) /\ Without(TakeOut(q, q[k]), q, k)
    BY <1>1, <1>3, TakenOut, Zenon
  <2>2. rest = TakeOut(q, q[k])
    BY <1>2, Zenon
  <2> HIDE DEF rest
  <2>3. rest \in Seq(Ref) => DOMAIN rest = 1..Len(rest)
    OBVIOUS
  <2> QED BY <2>1, <2>2, <2>3, Zenon DEF Without
<1>5. /\ {"queues", "orders", "arrival_seq"} \subseteq DOMAIN c
      /\ c.arrival_seq = b.arrival_seq
      /\ c.orders = [r \in DOMAIN b.orders \ {ref} |-> b.orders[r]]
      /\ c.queues = RemoveFromQueue(b.queues, level, ref)
  <2>1. {"queues", "orders", "arrival_seq"} \subseteq DOMAIN b
    BY Zenon DEF Good, Shape
  <2>2. c = [b EXCEPT !.queues = RemoveFromQueue(b.queues, level, ref),
                      !.orders = Drop(b.orders, ref)]
    BY Zenon DEF Removed
  <2>3. /\ DOMAIN c = DOMAIN b /\ c.arrival_seq = b.arrival_seq
        /\ c.orders = Drop(b.orders, ref) /\ c.queues = RemoveFromQueue(b.queues, level, ref)
    BY <2>1, <2>2, Zenon
  <2> QED BY <2>1, <2>3, Zenon DEF Drop, Restrict
<1>6. /\ DOMAIN c.queues = IF rest = <<>> THEN DOMAIN b.queues \ {level} ELSE DOMAIN b.queues
      /\ \A l \in DOMAIN c.queues : c.queues[l] = IF l = level THEN rest ELSE b.queues[l]
      /\ c.queues = [l \in DOMAIN c.queues |-> c.queues[l]]
  BY <1>1, <1>5, ZenonT(60) DEF RemoveFromQueue, Drop, Restrict, Good, Shape
<1> HIDE DEF c, rest, q
<1>7. DOMAIN c.orders = DOMAIN b.orders \ {ref}
      /\ \A r \in DOMAIN c.orders : c.orders[r] = b.orders[r]
  BY <1>5, Zenon
<1>8. Shape(c) /\ Arrived(c)
  BY <1>4, <1>5, <1>6, <1>7 DEF Good, Shape, Arrived
\* Where the places of the rest come from.
<1>9. ASSUME NEW i \in 1..(Len(q) - 1)
      PROVE  LET at == IF i < k THEN i ELSE i + 1
             IN  at \in 1..Len(q) /\ at # k /\ rest[i] = q[at]
  BY <1>1, <1>4
<1>10. ASSUME NEW j \in 1..Len(q), j # k
       PROVE  \E i \in 1..(Len(q) - 1) : rest[i] = q[j]
  <2>1. CASE j < k
    <3>1. j \in 1..(Len(q) - 1)
      BY <1>1, <2>1, SMTT(30)
    <3> QED BY <1>4, <2>1, <3>1, Zenon
  <2>2. CASE j > k
    <3>1. j - 1 \in 1..(Len(q) - 1) /\ ~(j - 1 < k) /\ (j - 1) + 1 = j
      BY <1>1, <2>2
    <3> QED BY <1>4, <3>1, Zenon
  <2> QED BY <1>10, <2>1, <2>2
<1>11. Range(rest) = Range(q) \ {ref}
  <2>1. Range(rest) \subseteq Range(q) \ {ref}
    BY <1>1, <1>2, <1>3, <1>4, <1>9, SMTT(30) DEF Range
  <2>2. Range(q) \ {ref} \subseteq Range(rest)
    <3> SUFFICES ASSUME NEW j \in 1..Len(q), q[j] # ref PROVE q[j] \in Range(rest)
      BY <1>1, Zenon DEF Range
    <3>1. PICK i \in 1..(Len(q) - 1) : rest[i] = q[j]
      BY <1>2, <1>10, Zenon
    <3> QED BY <1>4, <3>1, SMTT(30) DEF Range
  <2> QED BY <2>1, <2>2, Zenon
<1>12. Range(rest) = Resting(c, level)
  BY <1>1, <1>7, <1>11, Zenon DEF Resting
<1>13. DOMAIN c.queues = {c.orders[r].level : r \in DOMAIN c.orders}
  <2>1. rest = <<>> <=> Resting(c, level) = {}
    <3>1. rest # <<>> => rest[1] \in Range(rest)
      BY <1>4 DEF Range
    <3>2. rest = <<>> => Range(rest) = {}
      BY DEF Range
    <3> QED BY <1>12, <3>1, <3>2, Zenon
  <2>2. level \in {c.orders[r].level : r \in DOMAIN c.orders} <=> rest # <<>>
    BY <2>1, Zenon DEF Resting
  <2>3. DOMAIN b.queues = {b.orders[r].level : r \in DOMAIN b.orders}
    BY Zenon DEF Good, Queued
  <2>4. {c.orders[r].level : r \in DOMAIN c.orders} \cup {level} = DOMAIN b.queues
    BY <1>7, <2>3, SMTT(30)
  <2> QED BY <1>6, <2>2, <2>4
<1>14. ASSUME NEW l \in DOMAIN c.queues, l # level
       PROVE  /\ Range(c.queues[l]) = Resting(c, l)
              /\ \A i, j \in DOMAIN c.queues[l] :
                   i < j => c.orders[c.queues[l][i]].arrival_seq < c.orders[c.queues[l][j]].arrival_seq
  <2>1. l \in DOMAIN b.queues /\ c.queues[l] = b.queues[l]
    BY <1>6, <1>14, Zenon
  <2>2. Resting(c, l) = Resting(b, l)
    BY <1>7, <1>14, SMTT(30) DEF Resting
  <2>3. Range(c.queues[l]) = Resting(c, l)
    BY <2>1, <2>2, Zenon DEF Good, Queued
  <2>4. \A i \in DOMAIN c.queues[l] : c.queues[l][i] \in DOMAIN c.orders
    BY <2>3, Zenon DEF Range, Resting
  <2> QED BY <1>7, <2>1, <2>3, <2>4, SMTT(30) DEF Good, Queued
<1>15. \A i, j \in 1..(Len(q) - 1) :
         i < j => c.orders[rest[i]].arrival_seq < c.orders[rest[j]].arrival_seq
  <2> TAKE i, j \in 1..(Len(q) - 1)
  <2> HAVE i < j
  <2> DEFINE at(n) == IF n < k THEN n ELSE n + 1
  <2>1. at(i) \in 1..Len(q) /\ at(j) \in 1..Len(q) /\ at(i) < at(j)
    BY <1>1, <1>9
  <2>2. rest[i] = q[at(i)] /\ rest[j] = q[at(j)]
    BY <1>9, Zenon
  <2>3. rest[i] \in DOMAIN c.orders /\ rest[j] \in DOMAIN c.orders
    BY <1>4, <1>12, SMTT(30) DEF Range, Resting
  <2>4. b.orders[q[at(i)]].arrival_seq < b.orders[q[at(j)]].arrival_seq
    BY <1>1, <2>1, Zenon
  <2> QED BY <1>7, <2>2, <2>3, <2>4, SMTT(30)
<1>16. Queued(c)
  BY <1>4, <1>6, <1>12, <1>13, <1>14, <1>15, Zenon DEF Queued
<1>17. InPlace(b, c)
  <2> SUFFICES ASSUME NEW p \in Ref, NEW r \in Ref, Before(c, p, r) PROVE Before(b, p, r)
    BY Zenon DEF InPlace
  <2>1. PICK l \in DOMAIN c.queues : \E i, j \in DOMAIN c.queues[l] :
          i < j /\ c.queues[l][i] = p /\ c.queues[l][j] = r
    BY Zenon DEF Before
  <2>2. CASE l # level
    BY <1>6, <2>1, <2>2, SMTT(30) DEF Before
  <2>3. CASE l = level
    <3>1. PICK i \in 1..(Len(q) - 1), j \in 1..(Len(q) - 1) : i < j /\ rest[i] = p /\ rest[j] = r
      <4>1. c.queues[l] = rest
        BY <1>6, <2>3, Zenon
      <4> QED BY <1>4, <2>1, <4>1, Zenon
    <3> DEFINE at(n) == IF n < k THEN n ELSE n + 1
    <3>2. at(i) \in 1..Len(q) /\ at(j) \in 1..Len(q) /\ at(i) < at(j)
      BY <1>1, <1>9, <3>1
    <3>3. q[at(i)] = p /\ q[at(j)] = r
      BY <1>9, <3>1, Zenon
    <3> HIDE DEF at
    <3> QED BY <1>1, <3>2, <3>3, Zenon DEF Before, q
  <2> QED BY <2>2, <2>3, Zenon
<1> QED BY <1>7, <1>8, <1>16, <1>17, SMTT(30) DEF Good, c

\* A partial execution or cancellation changes the shares of one order and no place.
LEMMA Reshared ==
  ASSUME NEW b, Good(b), NEW ref \in DOMAIN b.orders, NEW n \in Int
  PROVE  LET c == [b EXCEPT !.orders[ref].shares = @ - n]
         IN  Good(c) /\ InPlace(b, c) /\ DOMAIN c.orders = DOMAIN b.orders
<1> DEFINE c == [b EXCEPT !.orders[ref].shares = @ - n]
<1>1. {"queues", "orders", "arrival_seq"} \subseteq DOMAIN b /\ b.orders \in [DOMAIN b.orders -> Order]
  BY Zenon DEF Good, Shape
<1>2. /\ DOMAIN c = DOMAIN b /\ c.arrival_seq = b.arrival_seq /\ c.queues = b.queues
      /\ c.orders = [b.orders EXCEPT ![ref] = [b.orders[ref] EXCEPT !.shares = @ - n]]
  BY <1>1, Zenon
<1>3. b.orders[ref] \in Order
  BY <1>1, Zenon
<1>4. LET o == [b.orders[ref] EXCEPT !.shares = @ - n]
      IN  o \in Order /\ o.level = b.orders[ref].level
          /\ o.arrival_seq = b.orders[ref].arrival_seq
  BY <1>3 DEF Order
<1> HIDE DEF c
<1>5. /\ DOMAIN c.orders = DOMAIN b.orders /\ c.orders \in [DOMAIN c.orders -> Order]
      /\ \A r \in DOMAIN b.orders : /\ c.orders[r].level = b.orders[r].level
                                    /\ c.orders[r].arrival_seq = b.orders[r].arrival_seq
  BY <1>1, <1>2, <1>4, Zenon
<1>6. Shape(c) /\ Arrived(c)
  BY <1>1, <1>2, <1>5, Zenon DEF Good, Shape, Arrived
<1>7. \A level : Resting(c, level) = Resting(b, level)
  BY <1>5 DEF Resting
<1>8. \A level \in DOMAIN b.queues : \A i \in DOMAIN b.queues[level] :
        b.queues[level][i] \in DOMAIN b.orders
  BY SMTT(30) DEF Good, Queued, Range, Resting
<1>9. Queued(c)
  <2>1. {c.orders[r].level : r \in DOMAIN c.orders} = {b.orders[r].level : r \in DOMAIN b.orders}
    BY <1>5
  <2> QED BY <1>2, <1>5, <1>7, <1>8, <2>1, SMTT(30) DEF Good, Queued
<1>10. InPlace(b, c)
  BY <1>2 DEF InPlace, Before
<1> QED BY <1>5, <1>6, <1>9, <1>10, SMTT(30) DEF Good, c

\* What a method may make of a book whose orders are among known.
Kept(b, c, known) == Good(c) /\ InPlace(b, c) /\ DOMAIN c.orders \subseteq known

LEMMA SameKept ==
  ASSUME NEW b, NEW known, Good(b), DOMAIN b.orders \subseteq known
  PROVE  Kept(b, b, known)
BY Zenon DEF Kept, InPlace

\* execute: an order that is used up and not the front of its queue stays with no shares.
LEMMA ExecuteKept ==
  ASSUME NEW b, NEW known, Good(b), DOMAIN b.orders \subseteq known, NEW ref, NEW shares \in Int
  PROVE  Kept(b, ExecuteL3(b, ref, shares).book, known)
<1>1. CASE ref \notin DOMAIN b.orders
  BY <1>1, SameKept, Zenon DEF ExecuteL3, Outcome
<1>2. CASE ref \in DOMAIN b.orders
  <2> DEFINE left == [b EXCEPT !.orders[ref].shares = @ - shares]
             q == Queue(b, b.orders[ref].level)
  <2>1. Kept(b, left, known)
    BY <1>2, Reshared, Zenon DEF Kept
  <2>2. Kept(b, Removed(b, ref), known)
    BY <1>2, TakesOut, Zenon DEF Kept
  <2>3. q # <<>>
    <3>1. ref \in Range(q)
      BY <1>2, QueueOfLevel DEF Resting
    <3> QED BY <3>1 DEF Range
  <2>4. ExecuteL3(b, ref, shares).book \in {b, left, Removed(b, ref)}
    <3> HIDE DEF left, q
    <3> QED BY <1>2, <2>3, Zenon DEF ExecuteL3, Outcome, left, q
  <2> QED BY <2>1, <2>2, <2>4, SameKept, Zenon
<1> QED BY <1>1, <1>2, Zenon

LEMMA CancelKept ==
  ASSUME NEW b, NEW known, Good(b), DOMAIN b.orders \subseteq known, NEW ref, NEW shares \in Int
  PROVE  Kept(b, CancelL3(b, ref, shares).book, known)
<1>1. CASE ref \notin DOMAIN b.orders
  BY <1>1, SameKept, SMTT(30) DEF CancelL3, Outcome
<1>2. CASE ref \in DOMAIN b.orders
  <2> DEFINE left == [b EXCEPT !.orders[ref].shares = @ - shares]
  <2>1. Kept(b, left, known)
    BY <1>2, Reshared, Zenon DEF Kept
  <2>2. Kept(b, Removed(b, ref), known)
    BY <1>2, TakesOut, Zenon DEF Kept
  <2>3. CancelL3(b, ref, shares).book \in {b, left, Removed(b, ref)}
    BY <1>2, Zenon DEF CancelL3, Outcome
  <2> QED BY <2>1, <2>2, <2>3, SameKept, Zenon
<1> QED BY <1>1, <1>2, Zenon

LEMMA DeleteKept ==
  ASSUME NEW b, NEW known, Good(b), DOMAIN b.orders \subseteq known, NEW ref
  PROVE  Kept(b, DeleteL3(b, ref), known)
BY SameKept, TakesOut, Zenon DEF DeleteL3, Kept

LEMMA InsertKept ==
  ASSUME NEW b, NEW known, Good(b), DOMAIN b.orders \subseteq known,
         NEW ref \in Ref, ref \notin known, NEW level \in Level, NEW shares \in Int
  PROVE  Kept(b, InsertOrder(b, ref, level, shares), known \cup {ref})
BY Inserted DEF Kept

\* replace: out of its place and to the back of the new level, under the new reference.
LEMMA ReplaceKept ==
  ASSUME NEW b, NEW known, Good(b), DOMAIN b.orders \subseteq known, NEW ref,
         NEW new \in Ref, new \notin known, NEW shares \in Int, NEW price \in Price
  PROVE  Kept(b, ReplaceL3(b, ref, new, shares, price), known \cup {new})
<1>1. CASE ref \notin DOMAIN b.orders
  BY <1>1, SameKept, Zenon DEF ReplaceL3, Kept
<1>2. CASE ref \in DOMAIN b.orders
  <2> DEFINE a == Removed(b, ref)
             level == <<b.orders[ref].level[1], price>>
             c == InsertOrder(a, new, level, shares)
  <2>1. Good(a) /\ InPlace(b, a) /\ DOMAIN a.orders = DOMAIN b.orders \ {ref}
    BY <1>2, TakesOut, Zenon
  <2>2. level \in Level
    BY <1>2, Zenon DEF Good, Shape, Order, Level
  <2> HIDE DEF a, level
  <2>3. Good(c) /\ InPlace(a, c) /\ DOMAIN c.orders = DOMAIN a.orders \cup {new}
    BY <2>1, <2>2, Inserted, SMTT(30)
  <2> HIDE DEF c
  <2>4. ASSUME NEW p \in Ref, NEW q \in Ref, Before(c, p, q) PROVE q \in DOMAIN c.orders
    BY <2>3, <2>4, SMTT(30) DEF Before, Good, Queued, Range, Resting
  <2>5. InPlace(b, c)
    BY <1>2, <2>1, <2>3, <2>4, SMTT(30) DEF InPlace
  <2>6. ReplaceL3(b, ref, new, shares, price) = c
    BY <1>2, Zenon DEF ReplaceL3, a, level, c
  <2> QED BY <2>1, <2>3, <2>5, <2>6, Zenon DEF Kept
<1> QED BY <1>1, <1>2, Zenon

-----------------------------------------------------------------------------
(* The inductive invariant. *)

StepKept == Inv' /\ \A s \in Locate : InPlace(l3[s], l3'[s])

LEMMA InitInv == Init => Inv
<1> SUFFICES ASSUME Init PROVE Inv
  BY Zenon
<1>1. Good(NewL3)
  BY Zenon DEF NewL3, Empty, Good, Shape, Queued, Arrived
<1>2. DOMAIN NewL3.orders = {}
  BY Zenon DEF NewL3, Empty
<1> HIDE DEF NewL3
<1> QED BY <1>1, <1>2, Zenon DEF Init, Inv

\* A message changes the book of one symbol.
LEMMA OneBook ==
  ASSUME Inv, NEW s \in Locate, NEW c, l3' = [l3 EXCEPT ![s] = c], Kept(l3[s], c, used'),
         used \subseteq used', used' \subseteq Ref
  PROVE  StepKept
<1>1. l3'[s] = c /\ \A t \in Locate : t # s => l3'[t] = l3[t]
  BY Zenon DEF Inv
<1>2. \A t \in Locate : Kept(l3[t], l3'[t], used')
  BY <1>1, SameKept, Zenon DEF Inv
<1>3. l3' = [t \in Locate |-> l3'[t]]
  BY Zenon DEF Inv
<1> QED BY <1>2, <1>3, Zenon DEF StepKept, Inv, Kept

LEMMA Unchanged ==
  ASSUME Inv, UNCHANGED <<l3, used>>
  PROVE  StepKept
BY Zenon DEF StepKept, Inv, InPlace

LEMMA AppliedKept ==
  ASSUME Inv, NEW s \in Locate, NEW ref, NEW out2, NEW out3, Apply(s, ref, out2, out3),
         Kept(l3[s], out3.book, used'), used \subseteq used', used' \subseteq Ref
  PROVE  StepKept
<1> DEFINE c == IF out2.ok THEN out3.book ELSE l3[s]
<1>1. l3' = [l3 EXCEPT ![s] = c]
  BY Zenon DEF Apply
<1>2. Kept(l3[s], l3[s], used')
  BY SameKept, Zenon DEF Inv
<1>3. Kept(l3[s], c, used')
  BY <1>2, Zenon
<1> HIDE DEF c
<1> QED BY <1>1, <1>3, OneBook, Zenon

LEMMA NextInv == Inv /\ [Next]_vars => StepKept
<1> SUFFICES ASSUME Inv, [Next]_vars PROVE StepKept
  BY Zenon
<1>1. CASE UNCHANGED vars
  BY <1>1, Unchanged, Zenon DEF vars
<1>2. ASSUME NEW s \in Locate, NEW p \in Price, NEW n \in 1..MaxShares, Trade(s, p, n)
      PROVE  StepKept
  BY <1>2, Unchanged, Zenon DEF Trade
<1>3. ASSUME NEW s \in Locate PROVE Good(l3[s]) /\ DOMAIN l3[s].orders \subseteq used
  BY Zenon DEF Inv
<1>4. used \subseteq Ref /\ 0..MaxShares \subseteq Int /\ 1..MaxShares \subseteq Int
  BY BookAssumption DEF Inv
<1>5. ASSUME NEW s \in Locate, NEW ref \in Ref, NEW level \in Level, NEW n \in 1..MaxShares,
             Add(s, ref, level, n)
      PROVE  StepKept
  <2> DEFINE c == InsertOrder(l3[s], ref, level, n)
  <2>1. used' = used \cup {ref} /\ ref \notin used
        /\ Apply(s, ref, Outcome(TRUE, AddOrder(l2[s], ref, level, n)), Outcome(TRUE, c))
    BY <1>5, Zenon DEF Add
  <2>2. Kept(l3[s], c, used')
    BY <1>3, <1>4, <2>1, InsertKept, Zenon
  <2>3. Outcome(TRUE, c).book = c
    BY Zenon DEF Outcome
  <2> QED BY <1>4, <2>1, <2>2, <2>3, AppliedKept, Zenon
<1>6. ASSUME NEW s \in Locate, NEW ref \in Ref, NEW n \in 0..MaxShares, UNCHANGED used,
             Apply(s, ref, ExecuteL2(l2[s], ref, n), ExecuteL3(l3[s], ref, n))
      PROVE  StepKept
  <2>1. Kept(l3[s], ExecuteL3(l3[s], ref, n).book, used')
    BY <1>3, <1>4, <1>6, ExecuteKept, Zenon
  <2> QED BY <1>4, <1>6, <2>1, AppliedKept, SMTT(30)
<1>7. ASSUME NEW s \in Locate, NEW ref \in Ref, NEW n \in 0..MaxShares, Cancel(s, ref, n)
      PROVE  StepKept
  <2>1. used' = used /\ Apply(s, ref, ExecuteL2(l2[s], ref, n), CancelL3(l3[s], ref, n))
    BY <1>7, Zenon DEF Cancel
  <2>2. Kept(l3[s], CancelL3(l3[s], ref, n).book, used')
    BY <1>3, <1>4, <2>1, CancelKept, Zenon
  <2> QED BY <1>4, <2>1, <2>2, AppliedKept, Zenon
<1>8. ASSUME NEW s \in Locate, NEW ref \in Ref, Delete(s, ref) PROVE StepKept
  <2> DEFINE c == DeleteL3(l3[s], ref)
  <2>1. used' = used /\ Apply(s, ref, Outcome(TRUE, DeleteL2(l2[s], ref)), Outcome(TRUE, c))
    BY <1>8, Zenon DEF Delete
  <2>2. Kept(l3[s], c, used')
    BY <1>3, <2>1, DeleteKept, Zenon
  <2>3. Outcome(TRUE, c).book = c
    BY Zenon DEF Outcome
  <2> QED BY <1>4, <2>1, <2>2, <2>3, AppliedKept, Zenon
<1>9. ASSUME NEW s \in Locate, NEW ref \in Ref, NEW new \in Ref, NEW n \in 1..MaxShares,
             NEW p \in Price, Replace(s, ref, new, n, p)
      PROVE  StepKept
  <2>1. /\ used' = used \cup {new} /\ new \notin used
        /\ l3' = [l3 EXCEPT ![s] = ReplaceL3(l3[s], ref, new, n, p)]
    BY <1>9, Zenon DEF Replace
  <2>2. Kept(l3[s], ReplaceL3(l3[s], ref, new, n, p), used')
    BY <1>3, <1>4, <2>1, ReplaceKept, Zenon
  <2> QED BY <1>4, <2>1, <2>2, OneBook, Zenon
<1>10. ASSUME NEW s \in Locate, NEW ref \in Ref, NEW n \in 0..MaxShares,
              \/ Execute(s, ref, n)
              \/ \E p \in Price : ExecuteWithPrice(s, ref, n, p)
       PROVE  StepKept
  BY <1>6, <1>10, Zenon DEF Execute, ExecuteWithPrice
<1> QED BY <1>1, <1>2, <1>5, <1>7, <1>8, <1>9, <1>10, Zenon DEF Next

\* The inductive invariant of the books: the queues and the index of every L3 book agree,
\* and what is in a book was entered by the feed.
THEOREM Invariance == Spec => []Inv
<1>1. Inv /\ [Next]_vars => Inv'
  BY NextInv, Zenon DEF StepKept
<1> QED BY InitInv, <1>1, PTL DEF Spec

\* After any sequence of messages and errors, a queue of l3.rs holds the orders of its
\* level, each once and in the order of their arrival.
THEOREM QueuesKept == Spec => []QueuesAreOrders
<1>1. Inv => QueuesAreOrders
  BY Zenon DEF Inv, Good, Queued, QueuesAreOrders
<1> QED BY <1>1, Invariance, PTL

\* No message moves an order ahead of another one of its level.
THEOREM PriorityStays == Spec => PriorityKept
<1>1. Inv /\ [Next]_vars =>
        [\A s \in Locate : \A p, q \in Ref :
           Before(l3'[s], p, q) => q \notin DOMAIN l3[s].orders \/ Before(l3[s], p, q)]_vars
  BY NextInv, Zenon DEF StepKept, InPlace
<1> QED BY <1>1, Invariance, PTL DEF Spec, PriorityKept
-----------------------------------------------------------------------------
(* The silence timer.  What makes its safety properties inductive is where it stands:
   until the warning it is set for last_seen + warn, and between the warning and the
   report for last_seen + dead; and that nothing has come since last_seen when the socket
   is empty. *)

TimerSet ==
  /\ ~soft_warned => due + idle = warn /\ ~dead_link_pending
  /\ soft_warned /\ ~dead_link_pending => due + idle = dead

SilenceInv ==
  /\ SilenceTypeOK
  /\ warn \in Nat \ {0} /\ dead \in Nat \ {0}
  /\ TimerSet
  /\ errors = (IF dead_link_pending THEN 1 ELSE 0)
  /\ consumer = "parked" => due > 0
  /\ socket = 0 => idle <= heard

\* from_socket establishes the invariant.
LEMMA SilenceInitInv == SilenceInit => SilenceInv
<1> SUFFICES ASSUME SilenceInit PROVE SilenceInv
  BY Zenon
<1>1. warn \in Nat \ {0} /\ dead \in Nat \ {0} /\ idle = 0 /\ due = warn /\ consumer = "ready"
  BY SilenceAssumption, Zenon DEF SilenceInit
<1>2. ~soft_warned /\ ~dead_link_pending
  BY Zenon DEF SilenceInit
<1>3. SilenceTypeOK
  <2>1. soft_warned \in BOOLEAN /\ dead_link_pending \in BOOLEAN
    BY <1>2, Zenon DEF SilenceInit
  <2>2. /\ idle \in Nat /\ due \in Int /\ queued \in Nat /\ socket \in Nat
        /\ errors \in Nat /\ fires \in Nat /\ heard \in Nat
    BY <1>1 DEF SilenceInit
  <2> QED BY <1>1, <2>1, <2>2, Zenon DEF SilenceTypeOK
<1>4. TimerSet
  BY <1>1, <1>2 DEF TimerSet
<1>5. errors = (IF dead_link_pending THEN 1 ELSE 0)
  BY <1>2, Zenon DEF SilenceInit
<1>6. idle <= heard
  BY <1>1 DEF SilenceInit
<1> QED BY <1>1, <1>3, <1>4, <1>5, <1>6, Zenon DEF SilenceInv

\* touch_packet sets the timer for the next warning.
LEMMA TouchInv ==
  ASSUME SilenceInv, TouchPacket, UNCHANGED <<config, fires>>,
         queued' \in Nat, socket' \in Nat, heard' \in Nat,
         consumer' \in {"ready", "polling"}
  PROVE  SilenceInv'
<1>1. /\ warn' = warn /\ dead' = dead /\ warn \in Nat \ {0} /\ dead \in Nat \ {0}
      /\ idle' = 0 /\ due' = warn /\ errors' = 0 /\ fires' = fires /\ fires \in Nat
  BY Zenon DEF SilenceInv, SilenceTypeOK, TouchPacket, config
<1>2. soft_warned' = FALSE /\ dead_link_pending' = FALSE
  BY Zenon DEF TouchPacket
<1>3. SilenceTypeOK'
  <2>1. soft_warned' \in BOOLEAN /\ dead_link_pending' \in BOOLEAN
    BY <1>2, Zenon
  <2>2. idle' \in Nat /\ due' \in Int /\ errors' \in Nat /\ fires' \in Nat
    BY <1>1
  <2> QED BY <2>1, <2>2, Zenon DEF SilenceTypeOK
<1>4. TimerSet'
  BY <1>1, <1>2 DEF TimerSet
<1>5. errors' = (IF dead_link_pending' THEN 1 ELSE 0)
  BY <1>1, <1>2, Zenon
<1>6. idle' <= heard'
  BY <1>1
<1> QED BY <1>1, <1>3, <1>4, <1>5, <1>6, Zenon DEF SilenceInv

\* Every step keeps the invariant, and reports a silence only when nothing has come.
LEMMA SilenceNextInv ==
  ASSUME SilenceInv, [SilenceNext]_silencevars
  PROVE  SilenceInv' /\ (errors' > errors => heard >= dead)
<1> USE DEF SilenceInv, SilenceTypeOK
<1>0. warn \in Nat /\ dead \in Nat /\ errors \in Nat
  BY Zenon
<1>1. CASE Tick
  BY <1>1 DEF Tick, TimerSet, config
<1>2. CASE PollAgain
  BY <1>2 DEF PollAgain, TimerSet, config, timer
<1>9. CASE Arrive
  BY <1>9 DEF Arrive, TimerSet, config, timer
<1>10. CASE RecvError
  BY <1>10 DEF RecvError, TimerSet, config, timer
<1>3. ASSUME NEW n \in 0..MaxBatch, RecvPacket(n)
      PROVE  SilenceInv' /\ (errors' > errors => heard >= dead)
  <2>1. /\ queued' \in Nat /\ socket' \in Nat /\ heard' \in Nat
        /\ consumer' \in {"ready", "polling"}
    BY <1>3, SilenceAssumption DEF RecvPacket
  <2>2. SilenceInv'
    BY <1>3, <2>1, TouchInv, Zenon DEF RecvPacket
  <2> QED BY <1>3, <2>2 DEF RecvPacket, TouchPacket
<1>4. CASE RecvBad
  <2>1. /\ queued' \in Nat /\ socket' \in Nat /\ heard' \in Nat
        /\ consumer' \in {"ready", "polling"}
    BY <1>4 DEF RecvBad
  <2>2. SilenceInv'
    BY <1>4, <2>1, TouchInv, Zenon DEF RecvBad
  <2> QED BY <1>4, <2>2 DEF RecvBad, TouchPacket
<1>5. ASSUME NEW n \in 0..MaxBatch, Retransmit(n)
      PROVE  SilenceInv' /\ (errors' > errors => heard >= dead)
  <2>1. /\ queued' \in Nat /\ socket' \in Nat /\ heard' \in Nat
        /\ consumer' \in {"ready", "polling"}
    BY <1>5, SilenceAssumption DEF Retransmit
  <2>2. SilenceInv'
    BY <1>5, <2>1, TouchInv, Zenon DEF Retransmit
  <2> QED BY <1>5, <2>2 DEF Retransmit, TouchPacket
<1>6. CASE TimerReady
  <2>1. soft_warned \/ idle >= warn
    BY <1>6 DEF TimerReady, TimerSet
  <2>2. soft_warned' = TRUE
    BY <1>6, <2>1, Zenon DEF TimerReady, CheckSilence
  <2>3. CASE PeerSilent
    BY <1>6, <2>2, <2>3 DEF TimerReady, CheckSilence, PeerSilent, TimerSet, config
  <2>4. CASE ~PeerSilent
    BY <1>6, <2>2, <2>4 DEF TimerReady, CheckSilence, PeerSilent, RearmSilenceTimer, TimerSet, config
  <2> QED BY <2>3, <2>4, Zenon
<1>7. CASE TimerPending
  BY <1>7 DEF TimerPending, TimerSet, config, timer
<1>8. CASE UNCHANGED silencevars
  BY <1>8 DEF silencevars, TimerSet, config, timer
<1> QED BY <1>1, <1>2, <1>3, <1>4, <1>5, <1>6, <1>7, <1>8, <1>9, <1>10, Zenon DEF SilenceNext

\* The invariant holds of every reachable state.
THEOREM SilenceInvariance == SilenceSpec => []SilenceInv
<1>1. SilenceInv /\ [SilenceNext]_silencevars => SilenceInv'
  BY SilenceNextInv, Zenon
<1> QED BY <1>1, SilenceInitInv, PTL DEF SilenceSpec

\* One PeerSilent for a silence, after its warning (check_silence), for all thresholds.
THEOREM SilentOnceAlways == SilenceSpec => []SilentOnce
<1>1. SilenceInv => SilentOnce
  BY DEF SilenceInv, TimerSet, SilentOnce, SilenceTypeOK
<1> QED BY <1>1, SilenceInvariance, PTL

\* A parked consumer always has its wake-up armed in time (rearm_silence_timer).
THEOREM ParkedIsArmedAlways == SilenceSpec => []ParkedIsArmed
<1>1. SilenceInv => ParkedIsArmed
  BY DEF SilenceInv, TimerSet, ParkedIsArmed, SilenceTypeOK
<1> QED BY <1>1, SilenceInvariance, PTL

\* PeerSilent is returned only when nothing has arrived for the whole threshold.
THEOREM SilentIsTrueAlways == SilenceSpec => SilentIsTrue
<1>1. SilenceInv /\ [SilenceNext]_silencevars => [errors' > errors => heard >= dead]_silencevars
  BY SilenceNextInv, Zenon
<1> QED BY <1>1, SilenceInvariance, PTL DEF SilenceSpec, SilentIsTrue
-----------------------------------------------------------------------------
(* The compressed stream. *)

Message == [no : Nat, ok : BOOLEAN]

\* Messages with the numbers from a on.
Following(messages, a) == \A i \in 1..Len(messages) : messages[i].no = a + i - 1

Settled == Range(handed) \cup spoiled

\* The number of the message that the connection reads next.
Base == client.expected + lost

CompressedShape ==
  /\ client \in [pc : {"idle", "handshake", "open", "terminated"}, attempt : Nat,
                 next_sequence : Nat \ {0}, expected : Nat, scratch : Seq(Message)]
  /\ peer \in Nat /\ lost \in Nat /\ handed \in Seq(Nat)
  /\ client.pc # "open" => client.scratch = <<>>
  /\ inbox # <<>> =>
       /\ inbox = <<Head(inbox)>> /\ peer # 0
       /\ Head(inbox).kind = "data" =>
            client.pc = "open" /\ Head(inbox).msgs \in Seq(Message) /\ Head(inbox).msgs # <<>>

\* The connection counts from where the login asked, the packets follow on each other, and
\* what was discarded is what the cursor lags behind.
StreamInv ==
  /\ client.pc = "handshake" => peer \in {0, client.next_sequence}
  /\ client.pc = "open" =>
       client.expected = client.next_sequence /\ Following(client.scratch, Base)
  /\ client.pc = "open" /\ peer # 0 =>
       IF inbox # <<>> /\ Head(inbox).kind = "data"
       THEN /\ Following(Head(inbox).msgs, Base + Len(client.scratch))
            /\ peer = Base + Len(client.scratch) + Len(Head(inbox).msgs)
       ELSE peer = Base + Len(client.scratch)

\* Everything below the cursor, below the next message and below a message handed out was
\* handed out or discarded.
SettledInv ==
  /\ 1..(client.next_sequence - 1) \subseteq Settled
  /\ client.pc = "open" => 1..(Base - 1) \subseteq Settled
  /\ \A m \in Range(handed) : 1..(m - 1) \subseteq Settled

\* While nothing was discarded, the cursor counts what was handed out.
CleanInv ==
  spoiled = {} =>
    /\ lost = 0 /\ client.next_sequence = Len(handed) + 1
    /\ \A i \in 1..Len(handed) : handed[i] = i

CompressedInv == CompressedShape /\ StreamInv /\ SettledInv /\ CleanInv
-----------------------------------------------------------------------------
LEMMA CompressedInitInv == CompressedInit => CompressedInv
BY DEF CompressedInit, CompressedInv, CompressedShape, StreamInv, SettledInv, CleanInv, Settled, Range, Message

\* Messages that follow on each other have the numbers of an interval.
LEMMA NumbersOfRun ==
  ASSUME NEW messages \in Seq(Message), NEW a \in Nat, Following(messages, a)
  PROVE  Numbers(messages) = a..(a + Len(messages) - 1)
<1>1. PICK n \in Nat : n = Len(messages) /\ DOMAIN messages = 1..n
  OBVIOUS
<1>2. Numbers(messages) = a..(a + n - 1)
  <2>1. ASSUME NEW x \in Numbers(messages) PROVE x \in a..(a + n - 1)
    <3>1. PICK i \in 1..n : x = messages[i].no
      BY <1>1, <2>1, Zenon DEF Numbers, Range
    <3> QED BY <1>1, <3>1 DEF Following
  <2>2. ASSUME NEW x \in a..(a + n - 1) PROVE x \in Numbers(messages)
    <3>1. x - a + 1 \in 1..n /\ messages[x - a + 1].no = x
      BY <1>1, <2>2 DEF Following
    <3> QED BY <1>1, <3>1, Zenon DEF Numbers, Range
  <2> QED BY <2>1, <2>2, Zenon
<1> QED BY <1>1, <1>2, Zenon

\* A step that hands out and discards nothing, leaves the number to ask for alone and
\* leaves the client without an open connection.
LEMMA NoConnection ==
  ASSUME CompressedInv, UNCHANGED <<handed, spoiled, lost>>,
         client' \in [pc : {"idle", "handshake", "terminated"}, attempt : Nat,
                      next_sequence : Nat \ {0}, expected : Nat, scratch : {<<>>}],
         client'.next_sequence = client.next_sequence,
         peer' \in Nat,
         client'.pc = "handshake" => peer' \in {0, client.next_sequence},
         inbox' # <<>> =>
           inbox' = <<Head(inbox')>> /\ peer' # 0 /\ Head(inbox').kind # "data"
  PROVE  CompressedInv'
<1>1. CompressedShape'
  <2>1. /\ client' \in [pc : {"idle", "handshake", "open", "terminated"}, attempt : Nat,
                         next_sequence : Nat \ {0}, expected : Nat, scratch : Seq(Message)]
        /\ client'.scratch = <<>>
    <3>1. {<<>>} \subseteq Seq(Message)
      OBVIOUS
    <3> QED BY <3>1, Zenon
  <2> QED BY <2>1, Zenon DEF CompressedInv, CompressedShape
<1>2. StreamInv'
  BY Zenon DEF StreamInv
<1>3. SettledInv'
  BY Zenon DEF CompressedInv, SettledInv, Settled
<1>4. CleanInv'
  BY Zenon DEF CompressedInv, CleanInv
<1> QED BY <1>1, <1>2, <1>3, <1>4, Zenon DEF CompressedInv

LEMMA PeerAnswersInv ==
  ASSUME CompressedInv, NEW kind \in {"accepted", "rejected", "mismatch", "debug", "other"},
         PeerAnswers(kind)
  PROVE  CompressedInv'
<1>1. /\ client.pc = "handshake" /\ peer # 0 /\ inbox' = <<Packet(kind)>>
      /\ UNCHANGED <<client, peer, handed, spoiled, lost>>
  BY Zenon DEF PeerAnswers
<1>2. Head(inbox') = Packet(kind) /\ Packet(kind).kind # "data"
  BY <1>1 DEF Packet
<1>3. /\ client' \in [pc : {"idle", "handshake", "terminated"}, attempt : Nat,
                      next_sequence : Nat \ {0}, expected : Nat, scratch : {<<>>}]
      /\ client'.next_sequence = client.next_sequence
  BY <1>1, Zenon DEF CompressedInv, CompressedShape
<1>4. peer' \in Nat /\ peer' \in {0, client.next_sequence} /\ peer' # 0
  BY <1>1, Zenon DEF CompressedInv, CompressedShape, StreamInv
<1> QED BY <1>1, <1>2, <1>3, <1>4, NoConnection, Zenon

LEMMA PeerSaysInv ==
  ASSUME CompressedInv, NEW kind \in {"heartbeat", "debug", "end", "other"}, PeerSays(kind)
  PROVE  CompressedInv'
<1>1. /\ client.pc = "open" /\ inbox = <<>> /\ peer # 0 /\ inbox' = <<Packet(kind)>>
      /\ UNCHANGED <<client, peer, handed, spoiled, lost>>
  BY Zenon DEF PeerSays
<1>2. Head(inbox') = Packet(kind) /\ Packet(kind).kind # "data" /\ inbox' = <<Head(inbox')>>
  BY <1>1 DEF Packet
<1>3. CompressedShape'
  BY <1>1, <1>2, Zenon DEF CompressedInv, CompressedShape
<1>4. StreamInv'
  BY <1>1, <1>2, Zenon DEF CompressedInv, StreamInv, Base
<1>5. SettledInv' /\ CleanInv'
  BY <1>1, Zenon DEF CompressedInv, SettledInv, CleanInv, Settled, Base
<1> QED BY <1>3, <1>4, <1>5, Zenon DEF CompressedInv

LEMMA LinkBreaksInv == ASSUME CompressedInv, LinkBreaks PROVE CompressedInv'
<1>1. /\ peer' = 0 /\ inbox' = <<>>
      /\ UNCHANGED <<client, handed, spoiled, lost>>
  BY Zenon DEF LinkBreaks
<1>2. CompressedShape'
  BY <1>1, Zenon DEF CompressedInv, CompressedShape
<1>3. StreamInv'
  BY <1>1, Zenon DEF CompressedInv, StreamInv, Base
<1>4. SettledInv' /\ CleanInv'
  BY <1>1, Zenon DEF CompressedInv, SettledInv, CleanInv, Settled, Base
<1> QED BY <1>2, <1>3, <1>4, Zenon DEF CompressedInv

\* The next messages are put into a packet: they follow on what is in scratch.
LEMMA PeerSendsInv == ASSUME CompressedInv, PeerSends PROVE CompressedInv'
<1>1. /\ client.pc = "open" /\ inbox = <<>> /\ peer \in 1..NMsgs
      /\ UNCHANGED <<client, handed, spoiled, lost>>
  BY Zenon DEF PeerSends
<1>2. PICK k \in Nat \ {0}, messages \in Seq(Message), sound \in BOOLEAN :
        /\ inbox' = <<Data(messages, sound)>> /\ peer' = peer + k
        /\ Len(messages) = k /\ Following(messages, peer)
  <2> DEFINE Run(k, bad) == [i \in 1..k |-> [no |-> peer + i - 1, ok |-> i # bad]]
  <2>1. PICK k \in 1..(MaxDecompressed + 1), bad \in Nat, sound \in BOOLEAN :
          inbox' = <<Data(Run(k, bad), sound)>> /\ peer' = peer + k
    <3>1. PICK k \in 1..(MaxDecompressed + 1) :
            /\ peer' = peer + k
            /\ \/ inbox' = <<Data(Run(k, 0), TRUE)>>
               \/ inbox' = <<Data(Run(k, 0), FALSE)>>
               \/ \E i \in 1..k : inbox' = <<Data(Run(k, i), TRUE)>>
      BY Zenon DEF PeerSends
    <3>2. k \in Nat
      BY <3>1, CompressedAssumption
    <3>3. 0 \in Nat /\ \A i \in 1..k : i \in Nat
      BY <3>2
    <3> QED BY <3>1, <3>3, Zenon
  <2>2. k \in Nat \ {0} /\ peer \in Nat
    BY <1>1, <2>1, CompressedAssumption
  <2>3. \A i \in 1..k : [no |-> peer + i - 1, ok |-> i # bad] \in Message
    <3>1. \A i \in 1..k : peer + i - 1 \in Nat
      BY <2>2
    <3> QED BY <3>1, Zenon DEF Message
  <2>4. Run(k, bad) \in [1..k -> Message]
    BY <2>3, Zenon
  <2>5. Run(k, bad) \in Seq(Message) /\ Len(Run(k, bad)) = k
    <3> HIDE DEF Run
    <3> QED BY <2>2, <2>4
  <2>6. Following(Run(k, bad), peer)
    <3>1. \A i \in 1..k : Run(k, bad)[i].no = peer + i - 1
      BY Zenon
    <3> HIDE DEF Run
    <3> QED BY <2>5, <3>1, Zenon DEF Following
  <2> HIDE DEF Run
  <2> QED BY <2>1, <2>2, <2>5, <2>6, Zenon
<1>3. /\ inbox' = <<Head(inbox')>> /\ Head(inbox').kind = "data"
      /\ Head(inbox').msgs = messages /\ messages # <<>>
  BY <1>2 DEF Data
<1>4. peer = Base + Len(client.scratch)
  BY <1>1 DEF CompressedInv, StreamInv
<1>5. peer' \in Nat /\ peer' # 0 /\ peer' = peer + Len(messages)
  BY <1>1, <1>2 DEF CompressedInv, CompressedShape
<1>6. CompressedShape'
  BY <1>1, <1>3, <1>5, Zenon DEF CompressedInv, CompressedShape
<1>7. StreamInv'
  BY <1>1, <1>2, <1>3, <1>4, <1>5, Zenon DEF CompressedInv, StreamInv, Base
<1>8. SettledInv' /\ CleanInv'
  BY <1>1, Zenon DEF CompressedInv, SettledInv, CleanInv, Settled, Base
<1> QED BY <1>6, <1>7, <1>8, Zenon DEF CompressedInv

LEMMA ConnectInv == ASSUME CompressedInv, Connect PROVE CompressedInv'
<1>1. /\ client.pc = "idle" /\ client' = [client EXCEPT !.pc = "handshake"]
      /\ peer' = client.next_sequence /\ inbox' = <<>>
      /\ UNCHANGED <<handed, spoiled, lost>>
  BY Zenon DEF Connect
<1>2. /\ client' \in [pc : {"idle", "handshake", "terminated"}, attempt : Nat,
                      next_sequence : Nat \ {0}, expected : Nat, scratch : {<<>>}]
      /\ client'.next_sequence = client.next_sequence /\ peer' \in Nat
  BY <1>1, Zenon DEF CompressedInv, CompressedShape
<1> QED BY <1>1, <1>2, NoConnection, Zenon

\* A connection given up leaves the client idle or terminated, with its number.
LEMMA GivenUp ==
  ASSUME CompressedInv
  PROVE  LET Ended == [pc : {"idle", "terminated"}, attempt : Nat,
                         next_sequence : Nat \ {0}, expected : Nat, scratch : {<<>>}]
         IN  /\ AttemptFails(client) \in Ended
             /\ AttemptFails(client).next_sequence = client.next_sequence
             /\ [AttemptFails(client) EXCEPT !.pc = "terminated"] \in Ended
             /\ [AttemptFails(client) EXCEPT !.pc = "terminated"].next_sequence
                  = client.next_sequence
<1> DEFINE c == AttemptFails(client)
<1>1. <<>> \in Seq(Message) /\ client.attempt + 1 \in Nat
  BY DEF CompressedInv, CompressedShape
<1>2. PICK pc \in {"idle", "terminated"} :
        c = [pc |-> pc, attempt |-> client.attempt + 1,
             next_sequence |-> client.next_sequence, expected |-> 0, scratch |-> <<>>]
  <2>1. client = [pc |-> client.pc, attempt |-> client.attempt,
                  next_sequence |-> client.next_sequence,
                  expected |-> client.expected, scratch |-> client.scratch]
    BY Zenon DEF CompressedInv, CompressedShape
  <2> DEFINE pc == IF client.attempt + 1 >= MaxAttempts THEN "terminated" ELSE "idle"
  <2>2. c = [pc |-> pc, attempt |-> client.attempt + 1,
             next_sequence |-> client.next_sequence, expected |-> 0, scratch |-> <<>>]
    <3> HIDE DEF pc
    <3>1. c = [client EXCEPT !.attempt = client.attempt + 1, !.expected = 0,
                             !.scratch = <<>>, !.pc = pc]
      BY Zenon DEF AttemptFails, pc
    <3> QED BY <2>1, <3>1, Zenon
  <2>3. pc \in {"idle", "terminated"}
    BY Zenon
  <2> HIDE DEF c, pc
  <2> QED BY <2>2, <2>3, Zenon
<1>3. /\ c \in [pc : {"idle", "terminated"}, attempt : Nat,
                next_sequence : Nat \ {0}, expected : Nat, scratch : {<<>>}]
      /\ c.next_sequence = client.next_sequence
  <2>1. client.next_sequence \in Nat \ {0}
    BY Zenon DEF CompressedInv, CompressedShape
  <2> HIDE DEF c
  <2> QED BY <1>1, <1>2, <2>1, Zenon
<1> HIDE DEF c
<1>4. /\ [c EXCEPT !.pc = "terminated"] \in
           [pc : {"idle", "terminated"}, attempt : Nat,
            next_sequence : Nat \ {0}, expected : Nat, scratch : {<<>>}]
      /\ [c EXCEPT !.pc = "terminated"].next_sequence = client.next_sequence
  BY <1>3, Zenon
<1> QED BY <1>3, <1>4, Zenon DEF c

LEMMA ConnectRefusedInv == ASSUME CompressedInv, ConnectRefused PROVE CompressedInv'
<1>1. client.pc = "idle" /\ client' = AttemptFails(client)
      /\ UNCHANGED <<inbox, peer, handed, spoiled, lost>>
  BY Zenon DEF ConnectRefused
<1>2. /\ client' \in [pc : {"idle", "handshake", "terminated"}, attempt : Nat,
                      next_sequence : Nat \ {0}, expected : Nat, scratch : {<<>>}]
      /\ client'.next_sequence = client.next_sequence /\ client'.pc # "handshake"
  BY <1>1, GivenUp, Zenon
<1>3. /\ peer' \in Nat
      /\ inbox' # <<>> => inbox' = <<Head(inbox')>> /\ peer' # 0 /\ Head(inbox').kind # "data"
  BY <1>1, Zenon DEF CompressedInv, CompressedShape
<1> QED BY <1>1, <1>2, <1>3, NoConnection, Zenon

LEMMA HandshakeEndsInv ==
  ASSUME CompressedInv, HandshakeFatal \/ HandshakeFails \/ LoginTimeout
  PROVE  CompressedInv'
<1>1. /\ client' = AttemptFails(client)
           \/ client' = [AttemptFails(client) EXCEPT !.pc = "terminated"]
      /\ peer' = 0 /\ inbox' = <<>> /\ UNCHANGED <<handed, spoiled, lost>>
  BY Zenon DEF HandshakeFatal, HandshakeFails, LoginTimeout, Hangup
<1>2. /\ client' \in [pc : {"idle", "handshake", "terminated"}, attempt : Nat,
                      next_sequence : Nat \ {0}, expected : Nat, scratch : {<<>>}]
      /\ client'.next_sequence = client.next_sequence
  BY <1>1, GivenUp, Zenon
<1> QED BY <1>1, <1>2, NoConnection, Zenon

\* There is never more than one packet under way.
LEMMA OneTaken == CompressedInv /\ inbox # <<>> => Tail(inbox) = <<>>
<1> SUFFICES ASSUME CompressedInv, inbox # <<>> PROVE Tail(inbox) = <<>>
  BY Zenon
<1>1. PICK p : inbox = <<p>>
  BY Zenon DEF CompressedInv, CompressedShape
<1> QED BY <1>1

LEMMA HandshakeDebugInv == ASSUME CompressedInv, HandshakeDebug PROVE CompressedInv'
<1>1. client.pc = "handshake" /\ inbox' = <<>>
      /\ UNCHANGED <<client, peer, handed, spoiled, lost>>
  BY OneTaken, Zenon DEF HandshakeDebug
<1>2. /\ client' \in [pc : {"idle", "handshake", "terminated"}, attempt : Nat,
                      next_sequence : Nat \ {0}, expected : Nat, scratch : {<<>>}]
      /\ client'.next_sequence = client.next_sequence
      /\ peer' \in Nat /\ peer' \in {0, client.next_sequence}
  BY <1>1, Zenon DEF CompressedInv, CompressedShape, StreamInv
<1> QED BY <1>1, <1>2, NoConnection, Zenon

\* The connection counts from the number that was asked for.
LEMMA HandshakeAcceptedInv == ASSUME CompressedInv, HandshakeAccepted PROVE CompressedInv'
<1>1. /\ client.pc = "handshake" /\ inbox # <<>>
      /\ client' = [client EXCEPT !.pc = "open", !.attempt = 0, !.expected = peer,
                                  !.next_sequence = peer]
      /\ lost' = 0 /\ UNCHANGED <<peer, handed, spoiled>>
  BY Zenon DEF HandshakeAccepted
<1>2. inbox' = <<>>
  BY OneTaken, Zenon DEF HandshakeAccepted
<1>3. peer = client.next_sequence /\ peer \in Nat \ {0}
  BY <1>1, Zenon DEF CompressedInv, CompressedShape, StreamInv
<1>4. client.scratch = <<>>
  BY <1>1, Zenon DEF CompressedInv, CompressedShape
<1>5. CompressedShape'
  BY <1>1, <1>2, <1>3, Zenon DEF CompressedInv, CompressedShape
<1>6. /\ client'.pc = "open" /\ client'.scratch = <<>>
      /\ client'.expected = peer /\ client'.next_sequence = peer
  BY <1>1, <1>4, Zenon DEF CompressedInv, CompressedShape
<1>7. StreamInv'
  BY <1>1, <1>2, <1>3, <1>6 DEF StreamInv, Base, Following
<1>8. SettledInv'
  BY <1>1, <1>3, <1>6 DEF CompressedInv, SettledInv, Settled, Base
<1>9. CleanInv'
  BY <1>1, <1>3, <1>6, Zenon DEF CompressedInv, CleanInv
<1> QED BY <1>5, <1>7, <1>8, <1>9, Zenon DEF CompressedInv


LEMMA PollFilteredInv == ASSUME CompressedInv, PollFiltered PROVE CompressedInv'
<1>1. /\ client.pc = "open" /\ inbox # <<>> /\ Head(inbox).kind # "data"
      /\ UNCHANGED <<client, peer, handed, spoiled, lost>>
  BY Zenon DEF PollFiltered
<1>2. inbox' = <<>>
  BY OneTaken, Zenon DEF PollFiltered
<1>3. CompressedShape'
  BY <1>1, <1>2, Zenon DEF CompressedInv, CompressedShape
<1>4. StreamInv'
  BY <1>1, <1>2, Zenon DEF CompressedInv, StreamInv, Base
<1>5. SettledInv' /\ CleanInv'
  BY <1>1, Zenon DEF CompressedInv, SettledInv, CleanInv, Settled, Base
<1> QED BY <1>3, <1>4, <1>5, Zenon DEF CompressedInv

\* The cursor of the connection, which the client keeps, is the number it has already.
LEMMA PollDropsInv == ASSUME CompressedInv, PollDrops PROVE CompressedInv'
<1>1. /\ client.pc = "open" /\ client.scratch = <<>>
      /\ client' = [Dropped(client) EXCEPT !.next_sequence = client.expected]
      /\ peer' = 0 /\ inbox' = <<>> /\ UNCHANGED <<handed, spoiled, lost>>
  BY Zenon DEF PollDrops, Hangup
<1>2. client.expected = client.next_sequence
  BY <1>1, Zenon DEF CompressedInv, StreamInv
<1>3. client' = [pc |-> "idle", attempt |-> client.attempt,
                 next_sequence |-> client.next_sequence, expected |-> 0, scratch |-> <<>>]
  BY <1>1, <1>2, Zenon DEF CompressedInv, CompressedShape, Dropped
<1>4. /\ client' \in [pc : {"idle", "handshake", "terminated"}, attempt : Nat,
                      next_sequence : Nat \ {0}, expected : Nat, scratch : {<<>>}]
      /\ client'.next_sequence = client.next_sequence
  BY <1>3, Zenon DEF CompressedInv, CompressedShape
<1> QED BY <1>1, <1>3, <1>4, NoConnection, Zenon

LEMMA FirstOfRun ==
  ASSUME NEW messages \in Seq(Message), messages # <<>>, NEW a \in Nat,
         Following(messages, a)
  PROVE  /\ Len(messages) \in Nat \ {0} /\ Head(messages).no = a
         /\ Tail(messages) \in Seq(Message) /\ Len(Tail(messages)) = Len(messages) - 1
         /\ Following(Tail(messages), a + 1)
<1>1. PICK n \in Nat : n = Len(messages) /\ n > 0
  OBVIOUS
<1>2. Head(messages) = messages[1]
  BY <1>1
<1>3. PICK rest \in Seq(Message) : rest = Tail(messages)
  <2>1. Tail(messages) \in Seq(Message)
    OBVIOUS
  <2> QED BY <2>1, Zenon
<1>4. Len(rest) = n - 1 /\ \A i \in 1..(n - 1) : rest[i] = messages[i + 1]
  BY <1>1, <1>3
<1>5. Following(rest, a + 1)
  BY <1>1, <1>4 DEF Following
<1> QED BY <1>1, <1>2, <1>3, <1>4, <1>5 DEF Following

\* The first message of scratch is the one the cursor and what was lost add up to.
LEMMA DrainInv == ASSUME CompressedInv, Drain PROVE CompressedInv'
<1>1. /\ client.pc = "open" /\ client.scratch # <<>>
      /\ client' = [client EXCEPT !.scratch = Tail(@), !.expected = @ + 1,
                                  !.next_sequence = client.expected + 1]
      /\ handed' = Append(handed, Head(client.scratch).no)
      /\ UNCHANGED <<inbox, peer, spoiled, lost>>
  BY Zenon DEF Drain
<1>2. /\ client.scratch \in Seq(Message) /\ Following(client.scratch, Base)
      /\ client.expected \in Nat /\ lost \in Nat /\ client.attempt \in Nat
  BY <1>1, Zenon DEF CompressedInv, CompressedShape, StreamInv
<1> DEFINE rest == Tail(client.scratch)
<1>3. Base \in Nat
  BY <1>2 DEF Base
<1>4. /\ Head(client.scratch).no = Base
      /\ rest \in Seq(Message) /\ Len(rest) = Len(client.scratch) - 1
      /\ Following(rest, Base + 1) /\ Len(client.scratch) \in Nat
  BY <1>1, <1>2, <1>3, FirstOfRun, Zenon
<1> HIDE DEF rest
<1>5. /\ client' = [pc |-> "open", attempt |-> client.attempt,
                    next_sequence |-> client.expected + 1,
                    expected |-> client.expected + 1, scratch |-> rest]
      /\ Base' = Base + 1
  <2>1. client' = [pc |-> "open", attempt |-> client.attempt,
                   next_sequence |-> client.expected + 1,
                   expected |-> client.expected + 1, scratch |-> rest]
    BY <1>1, Zenon DEF CompressedInv, CompressedShape, rest
  <2>2. client'.expected = client.expected + 1 /\ lost' = lost
    BY <1>1, <2>1, Zenon
  <2>3. Base' = Base + 1
    BY <1>2, <2>2 DEF Base
  <2> QED BY <2>1, <2>3, Zenon
<1>6. Range(handed') = Range(handed) \cup {Base} /\ handed' \in Seq(Nat)
  <2>1. PICK h \in Nat : h = Len(handed) /\ DOMAIN handed = 1..h
    BY DEF CompressedInv, CompressedShape
  <2>2. /\ handed' \in Seq(Nat) /\ DOMAIN handed' = 1..(h + 1)
        /\ \A i \in 1..h : handed'[i] = handed[i]
        /\ handed'[h + 1] = Base
    BY <1>1, <1>3, <1>4, <2>1, SMTT(30) DEF CompressedInv, CompressedShape
  <2>3. 1..(h + 1) = 1..h \cup {h + 1}
    BY <2>1
  <2> QED BY <2>1, <2>2, <2>3 DEF Range
<1>7. CompressedShape'
  <2>1. client' \in [pc : {"idle", "handshake", "open", "terminated"}, attempt : Nat,
                     next_sequence : Nat \ {0}, expected : Nat, scratch : Seq(Message)]
    BY <1>2, <1>4, <1>5
  <2> QED BY <1>1, <1>5, <1>6, <2>1, Zenon DEF CompressedInv, CompressedShape
<1>8. StreamInv'
  <2>1. Base' + Len(client'.scratch) = Base + Len(client.scratch)
    BY <1>3, <1>4, <1>5
  <2>2. /\ client'.pc = "open" /\ client'.expected = client'.next_sequence
        /\ Following(client'.scratch, Base')
    BY <1>4, <1>5, Zenon
  <2>3. UNCHANGED <<inbox, peer>>
    BY <1>1, Zenon
  <2>4. peer # 0 =>
          IF inbox # <<>> /\ Head(inbox).kind = "data"
          THEN /\ Following(Head(inbox).msgs, Base + Len(client.scratch))
               /\ peer = Base + Len(client.scratch) + Len(Head(inbox).msgs)
          ELSE peer = Base + Len(client.scratch)
    BY <1>1, Zenon DEF CompressedInv, StreamInv
  <2> QED BY <2>1, <2>2, <2>3, <2>4, Zenon DEF StreamInv
<1>9. SettledInv'
  <2>1. Settled' = Settled \cup {Base}
    BY <1>1, <1>6, Zenon DEF Settled
  <2>2. 1..(Base - 1) \subseteq Settled
    BY <1>1, Zenon DEF CompressedInv, SettledInv
  <2>3. 1..(Base' - 1) \subseteq Settled'
    BY <1>3, <1>5, <2>1, <2>2
  <2>4. 1..(client'.next_sequence - 1) \subseteq 1..(Base' - 1)
    BY <1>2, <1>5 DEF Base
  <2>5. \A m \in Range(handed') : 1..(m - 1) \subseteq Settled'
    BY <1>6, <2>1, <2>2, Zenon DEF CompressedInv, SettledInv
  <2> QED BY <2>3, <2>4, <2>5, Zenon DEF SettledInv
<1>10. CleanInv'
  <2> SUFFICES ASSUME spoiled = {} PROVE CleanInv'
    BY <1>1, Zenon DEF CleanInv
  <2>1. /\ lost = 0 /\ client.next_sequence = Len(handed) + 1
        /\ \A i \in 1..Len(handed) : handed[i] = i
    BY Zenon DEF CompressedInv, CleanInv
  <2>2. client.expected = client.next_sequence /\ Base = client.expected
    BY <1>1, <1>2, <2>1 DEF CompressedInv, StreamInv, Base
  <2>3. PICK h \in Nat : h = Len(handed)
    BY DEF CompressedInv, CompressedShape
  <2>4. /\ Len(handed') = h + 1 /\ handed'[h + 1] = Base
        /\ \A i \in 1..h : handed'[i] = handed[i]
    BY <1>1, <1>3, <1>4, <2>3 DEF CompressedInv, CompressedShape
  <2>5. \A i \in 1..(h + 1) : handed'[i] = i
    BY <2>1, <2>2, <2>3, <2>4
  <2> QED BY <1>1, <1>5, <2>1, <2>2, <2>3, <2>4, <2>5 DEF CleanInv
<1> QED BY <1>7, <1>8, <1>9, <1>10, Zenon DEF CompressedInv

\* Messages that were next and are discarded: they are counted as lost, so that the cursor
\* stays where it was and the number read next moves past them.
LEMMA DiscardInv ==
  ASSUME CompressedInv, client.pc = "open",
         NEW messages \in Seq(Message), messages # <<>>, Following(messages, Base),
         client' = [client EXCEPT !.scratch = <<>>, !.next_sequence = client.expected],
         spoiled' = spoiled \cup Numbers(messages),
         lost' = lost + Len(messages), UNCHANGED <<peer, handed>>,
         inbox' # <<>> => inbox' = inbox,
         peer # 0 =>
           IF inbox' # <<>> /\ Head(inbox).kind = "data"
           THEN /\ Following(Head(inbox).msgs, Base + Len(messages))
                /\ peer = Base + Len(messages) + Len(Head(inbox).msgs)
           ELSE peer = Base + Len(messages)
  PROVE  CompressedInv'
<1>1. PICK n \in Nat \ {0} : n = Len(messages)
  OBVIOUS
<1>2. client.expected \in Nat \ {0} /\ lost \in Nat /\ client.attempt \in Nat
      /\ client.expected = client.next_sequence /\ Base \in Nat
  BY DEF CompressedInv, CompressedShape, StreamInv, Base
<1>3. client' = [pc |-> "open", attempt |-> client.attempt,
                 next_sequence |-> client.expected,
                 expected |-> client.expected, scratch |-> <<>>]
  BY Zenon DEF CompressedInv, CompressedShape
<1>4. Base' = Base + n
  <2>1. client'.expected = client.expected /\ lost' = lost + n
    BY <1>1, <1>3, Zenon
  <2> QED BY <1>1, <1>2, <2>1 DEF Base
<1>5. Numbers(messages) = Base..(Base + n - 1)
  BY <1>1, <1>2, NumbersOfRun
<1>6. CompressedShape'
  <2>1. client' \in [pc : {"idle", "handshake", "open", "terminated"}, attempt : Nat,
                     next_sequence : Nat \ {0}, expected : Nat, scratch : Seq(Message)]
    <3>1. <<>> \in Seq(Message)
      OBVIOUS
    <3> QED BY <1>2, <1>3, <3>1, Zenon
  <2>2. lost' \in Nat /\ client'.pc = "open"
    BY <1>1, <1>2, <1>3
  <2> QED BY <2>1, <2>2, SMTT(30) DEF CompressedInv, CompressedShape
<1>7. StreamInv'
  <2>1. /\ client'.pc = "open" /\ client'.expected = client'.next_sequence
        /\ Following(client'.scratch, Base') /\ Base' + Len(client'.scratch) = Base + Len(messages)
    BY <1>1, <1>2, <1>3, <1>4 DEF Following
  <2> QED BY <2>1, Zenon DEF StreamInv
<1>8. SettledInv'
  <2>1. Settled' = Settled \cup Base..(Base + n - 1)
    BY <1>5, Zenon DEF Settled
  <2>2. /\ 1..(Base - 1) \subseteq Settled /\ 1..(client.next_sequence - 1) \subseteq Settled
        /\ \A m \in Range(handed) : 1..(m - 1) \subseteq Settled
    BY Zenon DEF CompressedInv, SettledInv
  <2>3. 1..(Base' - 1) \subseteq Settled'
    BY <1>2, <1>4, <2>1, <2>2
  <2>4. 1..(client'.next_sequence - 1) \subseteq Settled'
    BY <1>2, <1>3, <2>1, <2>2, Zenon
  <2> QED BY <2>1, <2>2, <2>3, <2>4, Zenon DEF SettledInv
<1>9. CleanInv'
  <2>1. Base \in spoiled'
    BY <1>1, <1>2, <1>5
  <2> QED BY <2>1, Zenon DEF CleanInv
<1> QED BY <1>6, <1>7, <1>8, <1>9, Zenon DEF CompressedInv

LEMMA DrainBadInv == ASSUME CompressedInv, DrainBad PROVE CompressedInv'
<1> DEFINE messages == client.scratch
<1>1. /\ client.pc = "open" /\ messages # <<>>
      /\ client' = [client EXCEPT !.scratch = <<>>, !.next_sequence = client.expected]
      /\ spoiled' = spoiled \cup Numbers(messages)
      /\ lost' = lost + Len(messages) /\ UNCHANGED <<inbox, peer, handed>>
  BY Zenon DEF DrainBad
<1>2. messages \in Seq(Message) /\ Following(messages, Base)
  BY <1>1, Zenon DEF CompressedInv, CompressedShape, StreamInv
<1>3. peer # 0 =>
        IF inbox # <<>> /\ Head(inbox).kind = "data"
        THEN /\ Following(Head(inbox).msgs, Base + Len(messages))
             /\ peer = Base + Len(messages) + Len(Head(inbox).msgs)
        ELSE peer = Base + Len(messages)
  BY <1>1, Zenon DEF CompressedInv, StreamInv
<1> HIDE DEF messages
<1> QED BY <1>1, <1>2, <1>3, DiscardInv, Zenon

LEMMA PollDataInv == ASSUME CompressedInv, PollData PROVE CompressedInv'
<1> DEFINE messages == Head(inbox).msgs
<1>1. /\ client.pc = "open" /\ client.scratch = <<>>
      /\ inbox # <<>> /\ Head(inbox).kind = "data"
      /\ UNCHANGED <<peer, handed>>
  BY Zenon DEF PollData
<1>2. inbox' = <<>>
  BY OneTaken, Zenon DEF PollData
<1>3. messages \in Seq(Message) /\ messages # <<>> /\ peer # 0
  BY <1>1, Zenon DEF CompressedInv, CompressedShape
<1>4. Base \in Nat /\ lost \in Nat
  BY DEF CompressedInv, CompressedShape, Base
<1>5. Following(messages, Base) /\ peer = Base + Len(messages)
  <2>1. Base + Len(client.scratch) = Base
    BY <1>1, <1>4
  <2> QED BY <1>1, <1>3, <2>1, Zenon DEF CompressedInv, StreamInv
<1> DEFINE out == decompress_into(Head(inbox))
<1>6. /\ client' = [client EXCEPT !.scratch = out.scratch,
                      !.next_sequence = IF out.ok THEN client.next_sequence ELSE client.expected]
      /\ spoiled' = spoiled \cup Numbers(IF out.ok THEN <<>> ELSE messages)
      /\ lost' = lost + Len(IF out.ok THEN <<>> ELSE messages)
  BY Zenon DEF PollData
<1>7. CASE Head(inbox).sound /\ Len(messages) <= MaxDecompressed
  <2>1. out.ok /\ out.scratch = messages
    BY <1>7, Zenon DEF decompress_into
  <2> HIDE DEF out
  <2>2. /\ client' = [client EXCEPT !.scratch = messages]
        /\ spoiled' = spoiled /\ lost' = lost + Len(<<>>)
    <3>1. client' = [client EXCEPT !.scratch = messages,
                                   !.next_sequence = client.next_sequence]
      BY <1>6, <2>1, Zenon
    <3>2. spoiled' = spoiled \cup Numbers(<<>>) /\ lost' = lost + Len(<<>>)
      BY <1>6, <2>1, Zenon
    <3>3. Numbers(<<>>) = {}
      BY DEF Numbers, Range
    <3>4. spoiled' = spoiled
      BY <3>2, <3>3, Zenon
    <3> QED BY <3>1, <3>2, <3>4, Zenon DEF CompressedInv, CompressedShape
  <2>3. lost' = lost
    BY <1>4, <2>2
  <2> HIDE DEF messages
  <2>4. /\ client' = [pc |-> "open", attempt |-> client.attempt,
                      next_sequence |-> client.next_sequence,
                      expected |-> client.expected, scratch |-> messages]
    BY <1>1, <2>2, Zenon DEF CompressedInv, CompressedShape
  <2>5. CompressedShape'
    BY <1>1, <1>2, <1>3, <2>3, <2>4, Zenon DEF CompressedInv, CompressedShape
  <2>6. Base' = Base
    BY <2>3, <2>4, Zenon DEF Base
  <2>7. StreamInv'
    BY <1>1, <1>2, <1>5, <2>4, <2>6, Zenon DEF CompressedInv, StreamInv
  <2>8. SettledInv' /\ CleanInv'
    BY <1>1, <2>2, <2>3, <2>4, <2>6, Zenon DEF CompressedInv, SettledInv, CleanInv, Settled
  <2> QED BY <2>5, <2>7, <2>8, Zenon DEF CompressedInv
<1>8. CASE ~(Head(inbox).sound /\ Len(messages) <= MaxDecompressed)
  <2>1. ~out.ok /\ out.scratch = <<>>
    BY <1>8, Zenon DEF decompress_into
  <2> HIDE DEF out
  <2>2. /\ client' = [client EXCEPT !.scratch = <<>>, !.next_sequence = client.expected]
        /\ spoiled' = spoiled \cup Numbers(messages)
        /\ lost' = lost + Len(messages)
    BY <1>6, <2>1, Zenon
  <2> HIDE DEF messages
  <2> QED BY <1>1, <1>2, <1>3, <1>5, <2>2, DiscardInv, Zenon
<1> QED BY <1>7, <1>8, Zenon

LEMMA CompressedNextInv == CompressedInv /\ [CompressedNext]_compressedvars => CompressedInv'
<1> SUFFICES ASSUME CompressedInv, [CompressedNext]_compressedvars PROVE CompressedInv'
  BY Zenon
<1>1. ASSUME UNCHANGED compressedvars PROVE CompressedInv'
  BY <1>1, Zenon DEF compressedvars, CompressedInv, CompressedShape, StreamInv, SettledInv, CleanInv, Settled, Base
<1>2. ASSUME ClientStep PROVE CompressedInv'
  BY <1>2, ConnectInv, HandshakeAcceptedInv, HandshakeEndsInv, HandshakeDebugInv, PollDataInv,
     DrainInv, DrainBadInv, PollFilteredInv, PollDropsInv
     DEF ClientStep
<1> QED BY <1>1, <1>2, PeerSendsInv, ConnectRefusedInv, HandshakeEndsInv, LinkBreaksInv,
           PeerAnswersInv, PeerSaysInv, Zenon
           DEF CompressedNext

\* The inductive invariant behind the theorems of this module: the packets follow on each
\* other, and the cursor, with what was discarded, is the number read next.
THEOREM CompressedInvariance == CompressedSpec => []CompressedInv
<1>1. CompressedInit => CompressedInv
  BY CompressedInitInv, Zenon
<1>2. CompressedInv /\ [CompressedNext]_compressedvars => CompressedInv'
  BY CompressedNextInv, Zenon
<1> QED BY <1>1, <1>2, PTL DEF CompressedSpec

\* While nothing is discarded, next_message of ResilientCompressedSoupClient hands out the
\* session exactly, across reconnects in the middle of a packet, for sessions and packets
\* of every length.
THEOREM CleanIsExact == CompressedSpec => []ExactWhileClean
<1>1. CompressedInv => ExactWhileClean
  <2> SUFFICES ASSUME CompressedInv, spoiled = {} PROVE handed = [i \in 1..Len(handed) |-> i]
    BY Zenon DEF ExactWhileClean
  <2>1. handed \in Seq(Nat) /\ \A i \in 1..Len(handed) : handed[i] = i
    BY Zenon DEF CompressedInv, CompressedShape, CleanInv
  <2> QED BY <2>1
<1> QED BY <1>1, CompressedInvariance, PTL

\* A bad frame or message costs what was discarded with it and nothing else, whatever the
\* client asks for after it.
THEOREM DiscardedOnly == CompressedSpec => []NothingSkipped
<1>1. CompressedInv => NothingSkipped
  <2> SUFFICES ASSUME CompressedInv, NEW n \in 1..NMsgs,
                      n < client.next_sequence \/ \E m \in Range(handed) : n < m
               PROVE  n \in Settled
    BY Zenon DEF NothingSkipped, Settled
  <2>1. n \in Nat \ {0} /\ client.next_sequence \in Nat
    BY CompressedAssumption DEF CompressedInv, CompressedShape
  <2>2. CASE n < client.next_sequence
    BY <2>1, <2>2 DEF CompressedInv, SettledInv
  <2>3. ASSUME NEW m \in Range(handed), n < m PROVE n \in Settled
    <3>1. m \in Nat
      BY <2>3 DEF CompressedInv, CompressedShape, Range
    <3> QED BY <2>1, <2>3, <3>1 DEF CompressedInv, SettledInv
  <2> QED BY <2>2, <2>3, Zenon
<1> QED BY <1>1, CompressedInvariance, PTL
=============================================================================
