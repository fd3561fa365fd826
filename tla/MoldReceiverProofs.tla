------------------------- MODULE MoldReceiverProofs -------------------------
(***************************************************************************)
(* The theorems about MoldReceiver, for every session, stream, network and *)
(* configuration: the invariant of MoldReceiverLemmas, and what the caller *)
(* of poll_next may rely on.  Two more facts about the buffer are shown    *)
(* method by method: what a datagram brings is delivered, held or counted  *)
(* (Accounted), and under the Error policy what is held of a packet is its *)
(* beginning, so that a closed gap flushes it (Ahead).                     *)
(***************************************************************************)
EXTENDS MoldReceiverLemmas
-----------------------------------------------------------------------------
(* What the methods do to the buffer and to the counter of drops. *)

\* The configuration and the counter of a struct that only delivered or reported.
SameCount(r, p) ==
  /\ p.pending_overflow = r.pending_overflow /\ p.max_pending = r.max_pending
  /\ p.overflow_drops = r.overflow_drops

\* Queueing an item touches neither the buffer nor the counter.
LEMMA PushCount ==
  ASSUME NEW r \in ReceiverStates, NEW e
  PROVE  SameCount(r, Push(r, e)) /\ Held(Push(r, e)) = Held(r)
BY Zenon DEF ReceiverStates, SameCount, Push, Held

\* deliver touches neither the buffer nor the counter.
LEMMA DeliverCount ==
  ASSUME NEW r \in ReceiverStates, NEW end, NEW body
  PROVE  LET p == DeliverUpTo(r, end, body)
         IN  SameCount(r, p) /\ Held(p) = Held(r) /\ p.next_expected = end /\ p.session = r.session
<1> DEFINE p == DeliverUpTo(r, end, body)
           q == r.outbox \o [i \in 1..(end - r.next_expected) |->
                  Delivery(r.next_expected + i - 1, body[r.next_expected + i - 1])]
<1>1. p = [r EXCEPT !.outbox = q, !.next_expected = end]
  BY Zenon DEF DeliverUpTo
<1> HIDE DEF p, q
<1>2. SameCount(r, p) /\ p.pending = r.pending /\ p.next_expected = end /\ p.session = r.session
  BY <1>1, Zenon DEF ReceiverStates, SameCount
<1> QED BY <1>2, Zenon DEF p, Held

\* Narrowing the buffer leaves the counter.
LEMMA KeepCount ==
  ASSUME NEW r \in ReceiverStates, NEW K
  PROVE  LET p == Keep(r, K)
         IN  SameCount(r, p) /\ Held(p) = K /\ p.next_expected = r.next_expected
             /\ p.session = r.session
<1> DEFINE f == [n \in K |-> r.pending[n]]
<1>1. Keep(r, K) = [r EXCEPT !.pending = f] /\ DOMAIN f = K
  BY Zenon DEF Keep
<1> HIDE DEF f
<1> QED BY <1>1, Zenon DEF ReceiverStates, SameCount, Held

\* flush_pending takes its run out of the buffer, and moves the cursor past it.
LEMMA FlushCount ==
  ASSUME NEW r \in ReceiverStates
  PROVE  LET p == FlushPending(r)
         IN  /\ SameCount(r, p) /\ p.session = r.session
             /\ Held(p) = Held(r) \ Flushable(r)
             /\ p.next_expected = r.next_expected + Cardinality(Flushable(r))
<1> DEFINE K == Held(r) \ Flushable(r)
           k == Keep(r, K)
           end == r.next_expected + Cardinality(Flushable(r))
           p == DeliverUpTo(k, end, r.pending)
<1>1. FlushPending(r) = p
  BY Zenon DEF FlushPending
<1>2. SameCount(r, k) /\ Held(k) = K /\ k.session = r.session
  <2> HIDE DEF K
  <2> QED BY KeepCount, Zenon
<1>3. k \in ReceiverStates
  <2>1. K \in SUBSET Held(r)
    BY Zenon
  <2> HIDE DEF K
  <2> QED BY <2>1, KeepFields, Zenon
<1> HIDE DEF k, end
<1>4. SameCount(k, p) /\ Held(p) = Held(k) /\ p.next_expected = end /\ p.session = k.session
  BY <1>3, DeliverCount
<1> QED BY <1>1, <1>2, <1>4, Zenon DEF SameCount, end

\* The session lock touches neither the buffer nor the counter.
LEMMA LockOnCount ==
  ASSUME NEW r \in ReceiverStates, NEW pkt
  PROVE  LET p == LockOn(r, pkt)
         IN  /\ SameCount(r, p) /\ Held(p) = Held(r)
             /\ \/ p.next_expected = r.next_expected
                \/ ~r.bootstrapped /\ p.next_expected = pkt.seq
BY Zenon DEF ReceiverStates, SameCount, LockOn, Held

\* A drop is counted once.
LEMMA DropCount ==
  ASSUME NEW r \in ReceiverStates
  PROVE  LET p == [r EXCEPT !.overflow_drops = @ + 1]
         IN  /\ p.overflow_drops = r.overflow_drops + 1 /\ Held(p) = Held(r)
             /\ p.pending_overflow = r.pending_overflow /\ p.max_pending = r.max_pending
BY Zenon DEF ReceiverStates, Held

\* Going from r to p, every number of S is held or among as many as the drops counted.
Accounted(r, S, p) ==
  /\ p.overflow_drops >= r.overflow_drops
  /\ \E L : /\ IsFiniteSet(L)
            /\ Cardinality(L) <= p.overflow_drops - r.overflow_drops
            /\ S \subseteq Held(p) \cup L

\* pop_first loses one block, which it counts.
LEMMA PopFirstAccounted ==
  ASSUME Counting, NEW r \in ReceiverStates
  PROVE  Accounted(r, Held(r), PopFirst(r))
<1>0. r.overflow_drops \in Nat
  BY Zenon DEF ReceiverStates
<1>1. CASE Held(r) = {}
  <2>1. PopFirst(r) = r
    BY <1>1, Zenon DEF PopFirst
  <2>2. IsFiniteSet({}) /\ Cardinality({}) = 0
    BY Zenon DEF Counting, CountNone
  <2> QED BY <1>0, <1>1, <2>1, <2>2 DEF Accounted
<1>2. CASE Held(r) # {}
  <2> DEFINE K == {n \in Held(r) : \E m \in Held(r) : m < n}
             k == Keep(r, K)
             p == [k EXCEPT !.overflow_drops = @ + 1]
  <2>1. K \in SUBSET Held(r)
    BY Zenon
  <2>2. Held(r) \in SUBSET Nat
    BY HeldType, SeqMaxAssumption
  <2>3. PICK m \in Held(r) : \A n \in Held(r) : m <= n
    BY <1>2, <2>2, Zenon DEF Counting, LeastMember
  <2>4. Held(r) \subseteq K \cup {m}
    BY <2>2, <2>3
  <2>5. PopFirst(r) = p
    BY <1>2, Zenon DEF PopFirst
  <2> HIDE DEF K
  <2>6. k \in ReceiverStates /\ SameCount(r, k) /\ Held(k) = K
    BY <2>1, KeepFields, KeepCount, Zenon
  <2> HIDE DEF k
  <2>7. p.overflow_drops = k.overflow_drops + 1 /\ Held(p) = Held(k)
    BY <2>6, DropCount, Zenon
  <2> HIDE DEF p
  <2>8. IsFiniteSet({m}) /\ Cardinality({m}) = 1
    BY Zenon DEF Counting, CountOne
  <2>9. p.overflow_drops = r.overflow_drops + 1
    BY <2>6, <2>7, Zenon DEF SameCount
  <2>10. p.overflow_drops >= r.overflow_drops /\ p.overflow_drops - r.overflow_drops = 1
    BY <1>0, <2>9
  <2>11. Held(r) \subseteq Held(p) \cup {m} /\ Cardinality({m}) <= 1
    BY <2>4, <2>6, <2>7, <2>8
  <2>12. Accounted(r, Held(r), p)
    BY <2>8, <2>10, <2>11, Zenon DEF Accounted
  <2> QED BY <2>5, <2>12, Zenon
<1> QED BY <1>1, <1>2, Zenon

\* stash_pending: the block and those held before it are held or counted; under the
\* Error policy nothing held leaves, and the block enters exactly when there is room.
LEMMA StashCount ==
  ASSUME Counting, NEW r \in ReceiverStates, NEW seq \in 0..SeqMax, NEW body \in Body
  PROVE  LET p == StashPending(r, seq, body)
         IN  /\ Accounted(r, Held(r) \cup {seq}, p)
             /\ p.pending_overflow = r.pending_overflow /\ p.max_pending = r.max_pending
             /\ r.pending_overflow = "Error" =>
                  \/ Cardinality(Held(r)) < r.max_pending /\ Held(p) = Held(r) \cup {seq}
                  \/ (seq \in Held(r) \/ ~(Cardinality(Held(r)) < r.max_pending))
                       /\ Held(p) = Held(r)
<1> DEFINE p == StashPending(r, seq, body)
<1>0. r.overflow_drops \in Nat /\ r.pending_overflow \in Policies
  BY Zenon DEF ReceiverStates
<1>e. IsFiniteSet({}) /\ Cardinality({}) = 0
  BY Zenon DEF Counting, CountNone
<1>i. ASSUME NEW x \in ReceiverStates
      PROVE  LET y == Insert(x, seq, body)
             IN  SameCount(x, y) /\ Held(y) = Held(x) \cup {seq}
  <2> DEFINE y == Insert(x, seq, body)
             f == [n \in Held(x) \cup {seq} |-> IF n = seq THEN body ELSE x.pending[n]]
  <2>1. y = [x EXCEPT !.pending = f] /\ DOMAIN f = Held(x) \cup {seq}
    BY Zenon DEF Insert
  <2> HIDE DEF f, y
  <2>2. SameCount(x, y) /\ y.pending = f
    BY <1>i, <2>1, Zenon DEF ReceiverStates, SameCount
  <2> QED BY <2>1, <2>2, Zenon DEF y, Held
<1>1. CASE seq \in Held(r)
  <2>1. p = r
    BY <1>1, Zenon DEF StashPending
  <2>2. Accounted(r, Held(r) \cup {seq}, r)
    BY <1>0, <1>1, <1>e DEF Accounted
  <2> QED BY <1>1, <2>1, <2>2, Zenon
<1>2. CASE seq \notin Held(r) /\ Cardinality(Held(r)) < r.max_pending
  <2>1. p = Insert(r, seq, body)
    BY <1>2, Zenon DEF StashPending
  <2>2. SameCount(r, p) /\ Held(p) = Held(r) \cup {seq}
    BY <1>i, <2>1, Zenon
  <2> HIDE DEF p
  <2>3. Accounted(r, Held(r) \cup {seq}, p)
    <3>1. p.overflow_drops >= r.overflow_drops /\ p.overflow_drops - r.overflow_drops = 0
      BY <1>0, <2>2 DEF SameCount
    <3> QED BY <1>e, <2>2, <3>1 DEF Accounted
  <2> QED BY <1>2, <2>2, <2>3, Zenon DEF SameCount, p
<1>3. CASE seq \notin Held(r) /\ ~(Cardinality(Held(r)) < r.max_pending)
           /\ r.pending_overflow = "DropOldest"
  <2> DEFINE x == PopFirst(r)
  <2>1. p = Insert(x, seq, body)
    BY <1>3, Zenon DEF StashPending
  <2>2. /\ x \in ReceiverStates
        /\ x.max_pending = r.max_pending /\ x.pending_overflow = r.pending_overflow
    BY PopFirstFields
  <2>3. Accounted(r, Held(r), x)
    BY PopFirstAccounted, Zenon
  <2> HIDE DEF x
  <2>4. SameCount(x, p) /\ Held(p) = Held(x) \cup {seq}
    BY <1>i, <2>1, <2>2, Zenon
  <2> HIDE DEF p
  <2>5. Accounted(r, Held(r) \cup {seq}, p)
    <3>1. PICK L : /\ IsFiniteSet(L)
                   /\ Cardinality(L) <= x.overflow_drops - r.overflow_drops
                   /\ Held(r) \subseteq Held(x) \cup L
      BY <2>3, Zenon DEF Accounted
    <3>2. Held(r) \cup {seq} \subseteq Held(p) \cup L
      BY <2>4, <3>1, Zenon
    <3>3. p.overflow_drops = x.overflow_drops
      BY <2>4, Zenon DEF SameCount
    <3> QED BY <2>3, <3>1, <3>2, <3>3 DEF Accounted
  <2> QED BY <1>3, <2>2, <2>4, <2>5, Zenon DEF SameCount, p
<1>4. CASE seq \notin Held(r) /\ ~(Cardinality(Held(r)) < r.max_pending)
           /\ r.pending_overflow # "DropOldest"
  <2> DEFINE e == [tag |-> "PendingBufferFull"]
             x == Push(r, e)
             y == [x EXCEPT !.overflow_drops = @ + 1]
  <2>1. p = y
    BY <1>4, Zenon DEF StashPending
  <2>2. SameCount(r, x) /\ Held(x) = Held(r)
    BY PushCount, Zenon
  <2>3. x \in ReceiverStates
    <3>1. e \in Item
      BY Zenon DEF Item, ErrorItem
    <3> HIDE DEF e
    <3> QED BY <3>1, PushFields, Zenon
  <2> HIDE DEF x, e
  <2>4. /\ y.overflow_drops = x.overflow_drops + 1 /\ Held(y) = Held(x)
        /\ y.pending_overflow = x.pending_overflow /\ y.max_pending = x.max_pending
    BY <2>3, DropCount, Zenon
  <2> HIDE DEF y
  <2>5. Accounted(r, Held(r) \cup {seq}, y)
    <3>1. IsFiniteSet({seq}) /\ Cardinality({seq}) = 1
      BY Zenon DEF Counting, CountOne
    <3>2. y.overflow_drops >= r.overflow_drops /\ y.overflow_drops - r.overflow_drops = 1
      BY <1>0, <2>2, <2>4 DEF SameCount
    <3>3. Held(r) \cup {seq} \subseteq Held(y) \cup {seq} /\ Cardinality({seq}) <= 1
      BY <2>2, <2>4, <3>1
    <3> QED BY <3>1, <3>2, <3>3, Zenon DEF Accounted
  <2> HIDE DEF p
  <2> QED BY <1>4, <2>1, <2>2, <2>4, <2>5, Zenon DEF SameCount, p
<1> QED BY <1>1, <1>2, <1>3, <1>4, Zenon

\* Drops add up: what two steps account for, they account for together.
LEMMA AccountedTwice ==
  ASSUME Counting, NEW r, NEW p, NEW q, r.overflow_drops \in Nat, p.overflow_drops \in Nat,
         q.overflow_drops \in Nat, NEW S, NEW x,
         Accounted(r, S, p), Accounted(p, Held(p) \cup {x}, q)
  PROVE  Accounted(r, S \cup {x}, q)
<1>1. PICK L : /\ IsFiniteSet(L)
               /\ Cardinality(L) <= p.overflow_drops - r.overflow_drops
               /\ S \subseteq Held(p) \cup L
  BY Zenon DEF Accounted
<1>2. PICK M : /\ IsFiniteSet(M)
               /\ Cardinality(M) <= q.overflow_drops - p.overflow_drops
               /\ Held(p) \cup {x} \subseteq Held(q) \cup M
  BY Zenon DEF Accounted
<1>3. /\ IsFiniteSet(L \cup M)
      /\ Cardinality(L \cup M) = Cardinality(L) + Cardinality(M) - Cardinality(L \cap M)
  BY <1>1, <1>2, Zenon DEF Counting, CountUnion
<1>4. Cardinality(L) \in Nat /\ Cardinality(M) \in Nat /\ Cardinality(L \cap M) \in Nat
  <2>1. L \cap M \in SUBSET L
    BY Zenon
  <2>2. IsFiniteSet(L \cap M)
    BY <1>1, <2>1, Zenon DEF Counting, CountSubset
  <2> QED BY <1>1, <1>2, <2>2, Zenon DEF Counting, CountIsNat
<1>5. Cardinality(L \cup M) <= q.overflow_drops - r.overflow_drops
  BY <1>1, <1>2, <1>3, <1>4
<1>6. S \cup {x} \subseteq Held(q) \cup (L \cup M)
  BY <1>1, <1>2, Zenon
<1>7. q.overflow_drops >= r.overflow_drops
  BY DEF Accounted
<1> QED BY <1>3, <1>5, <1>6, <1>7, Zenon DEF Accounted

\* The stash loop: every block of the packet, and every block held before it, is held
\* or counted.
LEMMA StashBlocksAccounted ==
  ASSUME Counting, NEW r, NEW h, Good(r, h), NEW s \in Session, r.session = {s}, r.bootstrapped,
         NEW pkt \in Packet, BlocksOf(pkt, s)
  PROVE  Accounted(r, Held(r) \cup BlockNumbers(pkt), StashBlocks(r, pkt))
<1> DEFINE g == StashSteps(r, pkt)
           n == Len(pkt.blocks)
<1>1. pkt.blocks \in Seq(Body) /\ n \in Nat /\ DOMAIN pkt.blocks = 1..n /\ pkt.seq \in Nat
  BY DEF Packet
<1>2. g[0] = r /\ \A i \in 1..n : g[i] = StashPending(g[i - 1], pkt.seq + i - 1, pkt.blocks[i])
  <2>1. Len(pkt.blocks) \in Nat
    BY <1>1, Zenon
  <2>2. g[0] = r
    BY <2>1, StashStepsDef, Zenon
  <2>3. \A i \in 1..n : g[i] = StashPending(g[i - 1], pkt.seq + i - 1, pkt.blocks[i])
    BY <2>1, StashStepsDef
  <2> QED BY <2>2, <2>3, Zenon
<1> DEFINE S(i) == Held(r) \cup (pkt.seq..(pkt.seq + i - 1))
           D == {i \in 0..n : /\ Good(g[i], h) /\ SameCursor(r, g[i])
                              /\ Accounted(r, S(i), g[i])}
<1>d. ASSUME NEW x, Good(x, h) PROVE x \in ReceiverStates /\ x.overflow_drops \in Nat
  BY <1>d, Zenon DEF Good, ReceiverStates
<1> HIDE DEF g, n
<1>3. 0 \in D
  <2>1. g[0] = r
    BY <1>2, Zenon
  <2>2. SameCursor(r, r)
    BY Zenon DEF SameCursor
  <2>3. S(0) = Held(r)
    BY <1>1
  <2>4. IsFiniteSet({}) /\ Cardinality({}) = 0
    BY Zenon DEF Counting, CountNone
  <2>5. Accounted(r, Held(r), r)
    BY <1>d, <2>4 DEF Accounted
  <2> HIDE DEF S
  <2> QED BY <1>1, <2>1, <2>2, <2>3, <2>5
<1>4. \A i \in 0..n : i \in D /\ i < n => i + 1 \in D
  <2> SUFFICES ASSUME NEW i \in 0..n, i \in D, i < n
               PROVE  i + 1 \in D
    BY Zenon
  <2>1. i + 1 \in 0..n /\ i + 1 \in DOMAIN pkt.blocks /\ pkt.seq + i \in Nat
    BY <1>1
  <2> DEFINE x == g[i]
             y == g[i + 1]
             m == pkt.seq + i
  <2>2. y = StashPending(x, m, pkt.blocks[i + 1])
    <3>1. i + 1 \in 1..n /\ (i + 1) - 1 = i /\ pkt.seq + (i + 1) - 1 = m
      BY <1>1, <2>1
    <3>2. y = StashPending(g[(i + 1) - 1], pkt.seq + (i + 1) - 1, pkt.blocks[i + 1])
      BY <1>2, <3>1, Zenon
    <3> QED BY <3>1, <3>2, Zenon
  <2>3. m \in 0..SeqMax /\ pkt.blocks[i + 1] = Stream[s][m]
    <3>1. pkt.seq + (i + 1) - 1 = pkt.seq + i
      BY <1>1
    <3> QED BY <2>1, <3>1, SeqMaxAssumption DEF BlocksOf
  <2>3a. pkt.blocks[i + 1] \in Body
    BY <1>1, <2>1
  <2>4. /\ Good(x, h) /\ x.session = {s} /\ x.bootstrapped /\ SameCursor(r, x)
        /\ Accounted(r, S(i), x)
    BY Zenon DEF SameCursor
  <2>5. S(i + 1) = S(i) \cup {m}
    BY <1>1, <2>1
  <2> HIDE DEF x, y, m, S
  <2>6. Good(y, h) /\ SameCursor(x, y)
    BY <2>2, <2>3, <2>4, StashGood, Zenon
  <2>7. Accounted(x, Held(x) \cup {m}, y)
    BY <1>d, <2>2, <2>3, <2>3a, <2>4, StashCount, Zenon
  <2>8. r.overflow_drops \in Nat /\ x.overflow_drops \in Nat /\ y.overflow_drops \in Nat
    BY <1>d, <2>4, <2>6
  <2>9. Accounted(r, S(i) \cup {m}, y)
    BY <2>4, <2>7, <2>8, AccountedTwice, Zenon
  <2>10. SameCursor(r, y)
    BY <2>4, <2>6, Zenon DEF SameCursor
  <2> QED BY <2>1, <2>5, <2>6, <2>9, <2>10, Zenon DEF y
<1>5. n \in D
  <2> HIDE DEF D
  <2>1. 0..n \subseteq D
    BY <1>1, <1>3, <1>4, Zenon DEF Counting, Induction
  <2>2. n \in 0..n
    BY <1>1
  <2> QED BY <2>1, <2>2, Zenon
<1>6. StashBlocks(r, pkt) = g[n]
  BY Zenon DEF StashBlocks, g, n
<1>7. Accounted(r, S(n), g[n])
  BY <1>5, Zenon
<1> QED BY <1>6, <1>7, Zenon DEF n, BlockNumbers

\* ingest of a data packet of the locked session: every number of the packet, and every
\* number held before it, is below the cursor, held or counted.
LEMMA IngestDataAccounted ==
  ASSUME Counting, NEW r, NEW h, Good(r, h), NEW pkt \in Packet,
         BlocksOf(pkt, pkt.session), r.session = {pkt.session}, r.bootstrapped,
         NEW S, S = {n \in Held(r) \cup BlockNumbers(pkt) : n >= IngestData(r, pkt).next_expected}
  PROVE  Accounted(r, S, IngestData(r, pkt))
<1> DEFINE m == r.next_expected
           l == Len(pkt.blocks)
           end == pkt.seq + l
           A == BlockNumbers(pkt)
           z == IngestData(r, pkt)
<1>1. /\ m \in Nat /\ pkt.seq \in Nat /\ l \in Nat /\ pkt.session \in Session
      /\ r \in ReceiverStates /\ r.overflow_drops \in Nat
  BY GoodType, PacketType, Zenon
<1>2. Held(r) \in SUBSET Nat /\ end \in Nat /\ \A n \in A : n \in Nat /\ n < end
  BY <1>1, HeldType, SeqMaxAssumption DEF BlockNumbers
<1>e. IsFiniteSet({}) /\ Cardinality({}) = 0
  BY Zenon DEF Counting, CountNone
<1> HIDE DEF l, A
<1>3. CASE end <= m
  <2>1. z = r
    BY <1>3, Zenon DEF IngestData, l
  <2>2. S \subseteq Held(r)
    BY <1>1, <1>2, <1>3, <2>1 DEF A
  <2> HIDE DEF z
  <2>3. Accounted(r, S, r)
    BY <1>1, <1>e, <2>2 DEF Accounted
  <2> QED BY <2>1, <2>3, Zenon DEF z
<1>4. CASE ~(end <= m) /\ pkt.seq > m
  <2> DEFINE e == [tag |-> "Gap", from |-> m, to |-> pkt.seq - 1]
             x == Push(r, e)
  <2>1. e \in Item /\ ~IsDelivery(e)
    <3>1. m \in Nat /\ pkt.seq - 1 \in Nat
      BY <1>1, <1>4
    <3> HIDE DEF m
    <3> QED BY <3>1 DEF Item, GapItem, IsDelivery
  <2>2. Good(x, h) /\ SameCursor(r, x)
    BY <2>1, PushGood, Zenon
  <2>3. SameCount(r, x) /\ Held(x) = Held(r)
    BY <1>1, PushCount, Zenon
  <2>4. z = StashBlocks(x, pkt)
    BY <1>4, Zenon DEF IngestData, l
  <2> HIDE DEF x, e, z
  <2>5. x.session = {pkt.session} /\ x.bootstrapped
    BY <2>2, Zenon DEF SameCursor
  <2>6. Accounted(x, Held(x) \cup A, z)
    BY <1>1, <2>2, <2>4, <2>5, StashBlocksAccounted DEF A
  <2>7. S \subseteq Held(x) \cup A
    BY <2>3, Zenon DEF A
  <2>8. Accounted(r, S, z)
    <3>1. x.overflow_drops = r.overflow_drops
      BY <2>3, Zenon DEF SameCount
    <3> QED BY <2>6, <2>7, <3>1, Zenon DEF Accounted
  <2> QED BY <2>8, Zenon DEF z
<1>5. CASE ~(end <= m) /\ ~(pkt.seq > m)
  <2> DEFINE x == DeliverBlocks(r, pkt)
  <2>1. pkt.seq <= m /\ m < pkt.seq + Len(pkt.blocks)
    BY <1>1, <1>5 DEF l
  <2>2. z = FlushPending(x)
    BY <1>5, Zenon DEF IngestData, l
  <2>3. x \in ReceiverStates
    BY <2>1, DeliverBlocksGood, Zenon DEF Good
  <2>4. /\ x.overflow_drops = r.overflow_drops /\ Held(x) = Held(r)
        /\ x.next_expected = end
    BY <2>1, DeliverBlocksGood DEF l, Held
  <2> HIDE DEF x
  <2>5. /\ SameCount(x, z) /\ Held(z) = Held(x) \ Flushable(x)
        /\ z.next_expected = x.next_expected + Cardinality(Flushable(x))
    BY <2>2, <2>3, FlushCount, Zenon
  <2>6. PICK c \in Nat : c = Cardinality(Flushable(x)) /\ Flushable(x) = end..(end + c - 1)
    <3>1. /\ Cardinality(Flushable(x)) \in Nat
          /\ x.next_expected..(x.next_expected + Cardinality(Flushable(x)) - 1) = Flushable(x)
      BY <2>3, FlushableIsRun, Zenon
    <3> QED BY <2>4, <3>1, Zenon
  <2>7. S \subseteq Held(z)
    <3> SUFFICES ASSUME NEW n \in S PROVE n \in Held(z)
      BY Zenon
    <3>1. n \in Held(r) \cup A /\ n >= z.next_expected
      BY Zenon DEF A, z
    <3>2. n \in Nat /\ n >= end + c
      BY <1>2, <2>4, <2>5, <2>6, <3>1, Zenon
    <3>3. n \notin A /\ n \notin Flushable(x)
      <4>1. n >= end
        BY <1>2, <3>2
      <4>2. n \notin A
        BY <1>2, <3>2, <4>1
      <4>3. n \notin end..(end + c - 1)
        BY <1>2, <3>2
      <4> QED BY <2>6, <4>2, <4>3, Zenon
    <3> QED BY <2>4, <2>5, <3>1, <3>3, Zenon
  <2> HIDE DEF z
  <2>8. z.overflow_drops = r.overflow_drops
    BY <2>4, <2>5, Zenon DEF SameCount
  <2>9. Accounted(r, S, z)
    BY <1>1, <1>e, <2>7, <2>8 DEF Accounted
  <2> QED BY <2>9, Zenon DEF z
<1> QED BY <1>3, <1>4, <1>5, Zenon

\* What NoSilentLoss says of a step.
NothingLost ==
  \A pkt \in Datagrams :
    Recv(rx, pkt) /\ pkt.kind = "data" /\ rx'.session = {pkt.session} =>
      LET lost == {n \in Held(rx) \cup BlockNumbers(pkt) :
                     n >= rx'.next_expected /\ n \notin Held(rx')}
      IN  Cardinality(lost) <= rx'.overflow_drops - rx.overflow_drops

\* A poll that reads a datagram loses nothing silently.
LEMMA RecvLosesNothing ==
  ASSUME Counting
  PROVE  Inv => NothingLost
<1> SUFFICES ASSUME Inv, NEW pkt \in Datagrams, Recv(rx, pkt), pkt.kind = "data",
                    rx'.session = {pkt.session}
             PROVE  LET lost == {n \in Held(rx) \cup BlockNumbers(pkt) :
                                   n >= rx'.next_expected /\ n \notin Held(rx')}
                    IN  Cardinality(lost) <= rx'.overflow_drops - rx.overflow_drops
  BY Zenon DEF NothingLost
<1> DEFINE arrived == BlockNumbers(pkt)
           lost == {n \in Held(rx) \cup arrived :
                      n >= rx'.next_expected /\ n \notin Held(rx')}
           p == Ingest(rx, pkt)
           x == LockOn(rx, pkt)
<1>1. Good(rx, handed) /\ rx \in ReceiverStates
  BY Zenon DEF Inv, Good
<1>2. /\ pkt \in Packet /\ pkt.seq <= SeqMax + 1 /\ BlocksOf(pkt, pkt.session) /\ Honest(pkt)
  BY DatagramAssumption, Zenon DEF Honest, BlocksOf
<1>3. /\ rx'.session = p.session /\ Held(rx') = Held(p)
      /\ rx'.next_expected = p.next_expected /\ rx'.overflow_drops = p.overflow_drops
  <2>1. p \in ReceiverStates
    BY <1>1, <1>2, IngestGood DEF Good
  <2>2. IF p.outbox # <<>> THEN Yield(p)
        ELSE rx' = p /\ item' = Nothing /\ UNCHANGED <<finished, handed>>
    BY Zenon DEF Recv
  <2> HIDE DEF p
  <2>3. rx' = p \/ rx' = [p EXCEPT !.outbox = Tail(@)]
    BY <2>2, Zenon DEF Yield
  <2> QED BY <2>1, <2>3 DEF ReceiverStates, Held
<1>4. rx.session = {} \/ rx.session = {pkt.session}
  <2> SUFFICES ASSUME rx.session # {} /\ rx.session # {pkt.session} PROVE FALSE
    BY Zenon
  <2>1. p = Push(rx, [tag |-> "SessionMismatch"])
    BY Zenon DEF Ingest
  <2>2. p.session = rx.session
    BY <1>1, <2>1, Zenon DEF Push, ReceiverStates
  <2> QED BY <1>3, <2>2, Zenon
<1>5. p = IngestData(x, pkt)
  BY <1>4, Zenon DEF Ingest
<1>6. Good(x, handed) /\ x.session = {pkt.session} /\ x.bootstrapped
  BY <1>1, <1>2, <1>4, LockOnGood
<1>7. SameCount(rx, x) /\ Held(x) = Held(rx)
  BY <1>1, LockOnCount, Zenon
<1> HIDE DEF x, p, arrived
<1> DEFINE S == {n \in Held(x) \cup arrived : n >= p.next_expected}
<1>8. Accounted(x, S, p)
  BY <1>2, <1>5, <1>6, IngestDataAccounted, Zenon DEF arrived
<1>9. lost \subseteq S \ Held(p)
  BY <1>3, <1>7, Zenon
<1> HIDE DEF lost, S
<1>10. PICK L : /\ IsFiniteSet(L)
                /\ Cardinality(L) <= p.overflow_drops - x.overflow_drops
                /\ S \subseteq Held(p) \cup L
  BY <1>8, Zenon DEF Accounted
<1>11. lost \in SUBSET L
  BY <1>9, <1>10, Zenon
<1>12. IsFiniteSet(lost) /\ Cardinality(lost) <= Cardinality(L)
  BY <1>10, <1>11, Zenon DEF Counting, CountSubset
<1>13. Cardinality(lost) \in Nat /\ Cardinality(L) \in Nat
  BY <1>10, <1>12, Zenon DEF Counting, CountIsNat
<1>14. /\ p.overflow_drops - x.overflow_drops = rx'.overflow_drops - rx.overflow_drops
       /\ p.overflow_drops - x.overflow_drops \in Int
  <2>1. p \in ReceiverStates
    BY <1>1, <1>2, IngestGood, Zenon DEF Good, p
  <2>2. p.overflow_drops \in Nat /\ x.overflow_drops \in Nat
    BY <1>6, <2>1, Zenon DEF Good, ReceiverStates
  <2> QED BY <1>3, <1>7, <2>2 DEF SameCount
<1>15. Cardinality(lost) <= rx'.overflow_drops - rx.overflow_drops
  BY <1>10, <1>12, <1>13, <1>14
<1> QED BY <1>15, Zenon DEF lost, arrived


-----------------------------------------------------------------------------
(* The Error policy never leaves a block behind. *)

\* Of the blocks of a packet, those held are the first ones.
PrefixHeld(H, pkt) == \A n \in H \cap BlockNumbers(pkt) : pkt.seq..n \subseteq H

\* What is held is beyond the cursor, and of every packet a prefix.
Ahead(r) ==
  r.pending_overflow = "Error" =>
    /\ \A n \in Held(r) : n > r.next_expected
    /\ \A pkt \in Datagrams :
         pkt.kind = "data" /\ r.session = {pkt.session} => PrefixHeld(Held(r), pkt)

\* F is the run of c numbers of H that starts at m, its least.
IsRun(m, c, H, F) ==
  /\ \A n \in H : n >= m
  /\ F = m..(m + c - 1)
  /\ F = {n \in H : m..n \subseteq H}

\* What such a run leaves is beyond the number after it, and an interval of H that ends
\* in what is left is left whole.
LeftBeyond(m, c, H, F) ==
  /\ \A n \in H \ F : n > m + c
  /\ \A a \in Nat, n \in H \ F : a..n \subseteq H => a..n \subseteq H \ F

LEMMA RunLeaves ==
  ASSUME NEW m \in Nat, NEW c \in Nat, NEW H \in SUBSET Nat, NEW F, IsRun(m, c, H, F)
  PROVE  LeftBeyond(m, c, H, F)
<1>0. F = m..(m + c - 1) /\ F = {n \in H : m..n \subseteq H} /\ \A n \in H : n >= m
  BY Zenon DEF IsRun
<1> USE <1>0
<1>1. m + c \notin H
  <2> SUFFICES ASSUME m + c \in H PROVE FALSE
    BY Zenon
  <2>1. F \subseteq H
    BY Zenon
  <2>2. m..(m + c) \subseteq H
    <3> SUFFICES ASSUME NEW k \in m..(m + c) PROVE k \in H
      BY Zenon
    <3>1. k = m + c \/ k \in F
      OBVIOUS
    <3> QED BY <2>1, <3>1, Zenon
  <2>3. m + c \in F
    BY <2>2, Zenon
  <2>4. m + c \notin m..(m + c - 1)
    OBVIOUS
  <2> QED BY <2>3, <2>4, Zenon
<1>2. ASSUME NEW n \in H \ F PROVE n \in Nat /\ n > m + c
  <2>1. n \in Nat /\ n >= m /\ n \notin m..(m + c - 1)
    BY <1>2, Zenon
  <2>2. n # m + c
    BY <1>1, <1>2, Zenon
  <2> QED BY <2>1, <2>2
<1>3. ASSUME NEW a \in Nat, NEW n \in H \ F, a..n \subseteq H, NEW k \in a..n
      PROVE  k \in H \ F
  <2>1. k \in H /\ k \in Nat /\ k <= n /\ a <= k
    BY <1>2, <1>3
  <2>2. ASSUME k \in F PROVE FALSE
    <3>1. k <= m + c - 1
      BY <2>1, <2>2
    <3>2. m + c \in a..n
      BY <1>2, <1>3, <2>1, <3>1
    <3> QED BY <1>1, <1>3, <3>2, Zenon
  <2> QED BY <2>1, <2>2, Zenon
<1> QED BY <1>2, <1>3, Zenon DEF LeftBeyond

\* flush_pending leaves only blocks beyond the cursor, when none is below it.
LEMMA FlushAhead ==
  ASSUME Counting, NEW r \in ReceiverStates, \A n \in Held(r) : n >= r.next_expected,
         \A pkt \in Datagrams :
           pkt.kind = "data" /\ r.session = {pkt.session} => PrefixHeld(Held(r), pkt)
  PROVE  /\ Ahead(FlushPending(r))
         /\ FlushPending(r).next_expected >= r.next_expected
<1> DEFINE m == r.next_expected
           H == Held(r)
           F == Flushable(r)
           p == FlushPending(r)
<1>1. m \in Nat /\ H \in SUBSET Nat
  BY HeldType, StateType, HeldNat, Zenon
<1>2. PICK c \in Nat : c = Cardinality(F) /\ F = m..(m + c - 1)
  <2>1. /\ Cardinality(F) \in Nat
        /\ r.next_expected..(r.next_expected + Cardinality(F) - 1) = F
    BY FlushableIsRun, Zenon
  <2> QED BY <2>1, Zenon
<1>3. F = {n \in H : m..n \subseteq H}
  <2>1. ~ \E n \in H : n < m
    BY <1>1
  <2> QED BY <2>1, Zenon DEF Flushable
<1>4. Held(p) = H \ F /\ p.next_expected = m + c /\ p.session = r.session
  BY <1>2, FlushCount, Zenon
<1> HIDE DEF m, H, F, p
<1>5. \A n \in H : n >= m
  BY Zenon DEF m, H
<1>6. LeftBeyond(m, c, H, F)
  <2>1. IsRun(m, c, H, F)
    BY <1>2, <1>3, <1>5, Zenon DEF IsRun
  <2> QED BY <1>1, <2>1, RunLeaves
<1>7. ASSUME NEW pkt \in Datagrams, pkt.kind = "data", p.session = {pkt.session}
      PROVE  PrefixHeld(Held(p), pkt)
  <2>1. PrefixHeld(H, pkt) /\ pkt.seq \in Nat
    BY <1>4, <1>7, DatagramAssumption, Zenon DEF H, Honest, Packet
  <2> QED BY <1>4, <1>6, <2>1, Zenon DEF PrefixHeld, LeftBeyond
<1>8. Ahead(p)
  BY <1>4, <1>6, <1>7, Zenon DEF Ahead, LeftBeyond
<1>9. p.next_expected >= m
  BY <1>1, <1>4
<1> QED BY <1>8, <1>9, Zenon DEF p, m

\* A data packet that is late, or in order with none of its blocks held.
LEMMA InOrderAhead ==
  ASSUME Counting, NEW r, NEW h, Good(r, h), NEW pkt \in Packet, BlocksOf(pkt, pkt.session),
         r.session = {pkt.session}, r.bootstrapped, pkt.seq <= r.next_expected,
         r.pending_overflow = "Error", Ahead(r),
         pkt.seq + Len(pkt.blocks) > r.next_expected => Held(r) \cap BlockNumbers(pkt) = {}
  PROVE  /\ Ahead(IngestData(r, pkt))
         /\ IngestData(r, pkt).next_expected >= r.next_expected
         /\ IngestData(r, pkt).next_expected >= pkt.seq + Len(pkt.blocks)
<1> DEFINE m == r.next_expected
           l == Len(pkt.blocks)
           end == pkt.seq + l
           z == IngestData(r, pkt)
<1>1. /\ m \in Nat /\ pkt.seq \in Nat /\ l \in Nat /\ pkt.session \in Session
      /\ r \in ReceiverStates /\ end \in Nat
  BY GoodType, PacketType, Zenon
<1>2. Held(r) \in SUBSET Nat
  BY <1>1, HeldType, SeqMaxAssumption
<1>n. BlockNumbers(pkt) = pkt.seq..(end - 1)
  BY <1>1 DEF BlockNumbers
<1> HIDE DEF l
<1>3. CASE end <= m
  <2>1. z = r
    BY <1>3, Zenon DEF IngestData, l
  <2> QED BY <1>1, <1>3, <2>1 DEF l
<1>4. CASE ~(end <= m)
  <2> DEFINE x == DeliverBlocks(r, pkt)
  <2>1. m < pkt.seq + Len(pkt.blocks)
    BY <1>1, <1>4 DEF l
  <2>2. z = FlushPending(x)
    BY <1>1, <1>4 DEF IngestData, l
  <2>3. x \in ReceiverStates
    BY <2>1, DeliverBlocksGood, Zenon DEF Good
  <2>4. Held(x) = Held(r) /\ x.next_expected = end /\ x.session = r.session
    BY <2>1, DeliverBlocksGood DEF l, Held
  <2> HIDE DEF x
  <2>5. ASSUME NEW n \in Held(r) PROVE n >= end
    <3>1. n \in Nat /\ n > m /\ n \notin BlockNumbers(pkt)
      BY <1>1, <1>2, <1>4, <2>5 DEF Ahead, l
    <3>2. n \notin pkt.seq..(end - 1)
      BY <1>n, <3>1, Zenon
    <3> QED BY <1>1, <3>1, <3>2
  <2>6. \A q \in Datagrams :
          q.kind = "data" /\ x.session = {q.session} => PrefixHeld(Held(x), q)
    BY <2>4, Zenon DEF Ahead
  <2>7. Ahead(FlushPending(x)) /\ FlushPending(x).next_expected >= x.next_expected
    BY <2>3, <2>4, <2>5, <2>6, FlushAhead, Zenon
  <2>8. z.next_expected \in Nat
    <3>1. Good(z, h)
      BY IngestDataGood, Zenon
    <3> QED BY <3>1, GoodType, Zenon
  <2> QED BY <1>1, <1>4, <2>2, <2>4, <2>7, <2>8 DEF l
<1> QED BY <1>3, <1>4, Zenon

\* The numbers held after i steps of the stash loop under the Error policy, H0 having
\* been held before: a prefix of the packet's numbers, all of them while there is room.
Filled(H0, H, seq, i, max) ==
  /\ H0 \subseteq H /\ H \subseteq H0 \cup (seq..(seq + i - 1))
  /\ Cardinality(H) < max => seq..(seq + i - 1) \subseteq H

\* What stash_pending does to the numbers held under the Error policy.
Stashed(H, n, max, K) ==
  \/ Cardinality(H) < max /\ K = H \cup {n}
  \/ (n \in H \/ ~(Cardinality(H) < max)) /\ K = H

PrefixIn(H, first, last) == \A n \in H \cap (first..last) : first..n \subseteq H

\* One step of that loop.
LEMMA FilledStep ==
  ASSUME NEW H0 \in SUBSET Nat, NEW H, IsFiniteSet(H), NEW seq \in Nat, NEW i \in Nat,
         NEW max \in Nat, Filled(H0, H, seq, i, max), NEW K, Stashed(H, seq + i, max, K),
         NEW last \in Nat, PrefixIn(H, seq, last)
  PROVE  Filled(H0, K, seq, i + 1, max) /\ PrefixIn(K, seq, last)
<1>1. seq..(seq + (i + 1) - 1) = (seq..(seq + i - 1)) \cup {seq + i}
  OBVIOUS
<1> DEFINE R == seq..(seq + i - 1)
<1>2. CASE Cardinality(H) < max /\ K = H \cup {seq + i}
  <2>1. R \subseteq H
    BY <1>2, Zenon DEF Filled
  <2>2. Filled(H0, K, seq, i + 1, max)
    <3> HIDE DEF R
    <3>1. H0 \subseteq H /\ H \subseteq H0 \cup R
      BY Zenon DEF Filled, R
    <3>2. seq..(seq + (i + 1) - 1) = R \cup {seq + i}
      BY <1>1, Zenon DEF R
    <3>3. H0 \subseteq K /\ K \subseteq H0 \cup (R \cup {seq + i}) /\ R \cup {seq + i} \subseteq K
      BY <1>2, <2>1, <3>1, Zenon
    <3> QED BY <3>2, <3>3, Zenon DEF Filled
  <2>3. ASSUME NEW n \in K \cap (seq..last) PROVE seq..n \subseteq K
    <3>1. CASE n \in H
      <4>1. seq..n \subseteq H
        BY <2>3, <3>1, Zenon DEF PrefixIn
      <4> QED BY <1>2, <4>1, Zenon
    <3>2. CASE n = seq + i
      <4>1. seq..n = R \cup {seq + i}
        BY <3>2
      <4> QED BY <1>2, <2>1, <4>1, Zenon
    <3> QED BY <1>2, <2>3, <3>1, <3>2, Zenon
  <2> QED BY <2>2, <2>3, Zenon DEF PrefixIn
<1>3. CASE (seq + i \in H \/ ~(Cardinality(H) < max)) /\ K = H
  <2> HIDE DEF R
  <2>1. H0 \subseteq H /\ H \subseteq H0 \cup R /\ (Cardinality(H) < max => R \subseteq H)
    BY Zenon DEF Filled, R
  <2>2. seq..(seq + (i + 1) - 1) = R \cup {seq + i}
    BY <1>1, Zenon DEF R
  <2>3. /\ H0 \subseteq K /\ K \subseteq H0 \cup (R \cup {seq + i})
        /\ Cardinality(K) < max => R \cup {seq + i} \subseteq K
    BY <1>3, <2>1, Zenon
  <2> QED BY <1>3, <2>2, <2>3, Zenon DEF Filled
<1> QED BY <1>2, <1>3, Zenon DEF Stashed

\* Under the Error policy the stash loop drops nothing held, and of the packet it holds
\* a prefix if a prefix was held.
LEMMA StashBlocksAhead ==
  ASSUME Counting, NEW r, NEW h, Good(r, h), NEW s \in Session, r.session = {s}, r.bootstrapped,
         r.pending_overflow = "Error",
         NEW pkt \in Packet, BlocksOf(pkt, s), PrefixHeld(Held(r), pkt)
  PROVE  LET z == StashBlocks(r, pkt)
         IN  /\ z.pending_overflow = "Error" /\ SameCursor(r, z)
             /\ Held(r) \subseteq Held(z) /\ Held(z) \subseteq Held(r) \cup BlockNumbers(pkt)
             /\ PrefixHeld(Held(z), pkt)
<1> DEFINE g == StashSteps(r, pkt)
           n == Len(pkt.blocks)
           last == pkt.seq + n - 1
<1>1. /\ pkt.blocks \in Seq(Body) /\ n \in Nat /\ DOMAIN pkt.blocks = 1..n /\ pkt.seq \in Nat
      /\ BlockNumbers(pkt) = pkt.seq..last
  BY DEF Packet, BlockNumbers
<1>2. g[0] = r /\ \A i \in 1..n : g[i] = StashPending(g[i - 1], pkt.seq + i - 1, pkt.blocks[i])
  <2>1. Len(pkt.blocks) \in Nat
    BY <1>1, Zenon
  <2>2. g[0] = r
    BY <2>1, StashStepsDef, Zenon
  <2>3. \A i \in 1..n : g[i] = StashPending(g[i - 1], pkt.seq + i - 1, pkt.blocks[i])
    BY <2>1, StashStepsDef
  <2> QED BY <2>2, <2>3, Zenon
<1>3. /\ r \in ReceiverStates /\ r.max_pending \in Nat /\ Held(r) \in SUBSET Nat
  BY HeldType, GoodType, HeldNat, Zenon
<1> DEFINE P(x, i) == /\ Good(x, h) /\ SameCursor(r, x)
                      /\ x.pending_overflow = "Error" /\ x.max_pending = r.max_pending
                      /\ Filled(Held(r), Held(x), pkt.seq, i, r.max_pending)
                      /\ PrefixHeld(Held(x), pkt)
           D == {i \in 0..n : P(g[i], i)}
<1> HIDE DEF g, n, last
<1>4. CASE n = 0
  <2>1. StashBlocks(r, pkt) = r
    BY <1>2, <1>4, Zenon DEF StashBlocks, g, n
  <2> QED BY <2>1, Zenon DEF SameCursor
<1>5. CASE n # 0
  <2>0. last \in Nat
    BY <1>1, <1>5 DEF last
  <2>1. 0 \in D
    <3>1. SameCursor(r, r)
      BY Zenon DEF SameCursor
    <3>2. pkt.seq..(pkt.seq + 0 - 1) = {}
      BY <1>1
    <3>3. Filled(Held(r), Held(r), pkt.seq, 0, r.max_pending)
      BY <3>2, Zenon DEF Filled
    <3> QED BY <1>1, <1>2, <3>1, <3>3
  <2>2. \A i \in 0..n : i \in D /\ i < n => i + 1 \in D
    <3> SUFFICES ASSUME NEW i \in 0..n, i \in D, i < n
                 PROVE  i + 1 \in D
      BY Zenon
    <3>1. i + 1 \in 0..n /\ i + 1 \in DOMAIN pkt.blocks /\ pkt.seq + i \in Nat
      <4> HIDE DEF D
      <4> QED BY <1>1
    <3> DEFINE x == g[i]
               y == g[i + 1]
               m == pkt.seq + i
    <3>2. y = StashPending(x, m, pkt.blocks[i + 1])
      <4>1. i + 1 \in 1..n /\ (i + 1) - 1 = i /\ pkt.seq + (i + 1) - 1 = m
        BY <1>1, <3>1
      <4>2. y = StashPending(g[(i + 1) - 1], pkt.seq + (i + 1) - 1, pkt.blocks[i + 1])
        BY <1>2, <4>1
      <4> QED BY <4>1, <4>2, Zenon
    <3>3. m \in 0..SeqMax /\ pkt.blocks[i + 1] = Stream[s][m]
      <4>1. pkt.seq + (i + 1) - 1 = pkt.seq + i
        BY <1>1
      <4> QED BY <3>1, <4>1, SeqMaxAssumption DEF BlocksOf
    <3>4. pkt.blocks[i + 1] \in Body
      BY <1>1, <3>1
    <3>5. P(x, i)
      BY Zenon
    <3>6. /\ Good(x, h) /\ x.session = {s} /\ x.bootstrapped /\ x \in ReceiverStates
          /\ IsFiniteSet(Held(x))
      BY <3>5, Zenon DEF SameCursor, Good
    <3> HIDE DEF x, y
    <3>7. Good(y, h) /\ SameCursor(x, y)
      BY <3>2, <3>3, <3>6, StashGood, Zenon
    <3>8. /\ y.pending_overflow = x.pending_overflow /\ y.max_pending = x.max_pending
          /\ x.pending_overflow = "Error" =>
               \/ Cardinality(Held(x)) < x.max_pending /\ Held(y) = Held(x) \cup {m}
               \/ (m \in Held(x) \/ ~(Cardinality(Held(x)) < x.max_pending))
                    /\ Held(y) = Held(x)
      BY <3>2, <3>3, <3>4, <3>6, StashCount, ZenonT(30)
    <3>9. PrefixIn(Held(x), pkt.seq, last)
      BY <1>1, <3>5, Zenon DEF PrefixHeld, PrefixIn
    <3>10. i \in Nat
      BY <1>1
    <3>11. Stashed(Held(x), pkt.seq + i, r.max_pending, Held(y))
      BY <3>5, <3>8, Zenon DEF Stashed
    <3>12. Filled(Held(r), Held(x), pkt.seq, i, r.max_pending)
      BY <3>5, Zenon
    <3>13. /\ Filled(Held(r), Held(y), pkt.seq, i + 1, r.max_pending)
           /\ PrefixIn(Held(y), pkt.seq, last)
      BY <1>1, <1>3, <2>0, <3>6, <3>9, <3>10, <3>11, <3>12, FilledStep, Zenon
    <3>14. PrefixHeld(Held(y), pkt)
      BY <1>1, <3>13, Zenon DEF PrefixHeld, PrefixIn
    <3>15. P(y, i + 1)
      BY <3>5, <3>7, <3>8, <3>13, <3>14, Zenon DEF SameCursor
    <3> QED BY <3>1, <3>15, Zenon DEF y
  <2>3. n \in D
    <3> HIDE DEF D
    <3>1. 0..n \subseteq D
      BY <1>1, <2>1, <2>2, Zenon DEF Counting, Induction
    <3> QED BY <1>1, <3>1
  <2>4. StashBlocks(r, pkt) = g[n] /\ P(g[n], n)
    BY <2>3, Zenon DEF StashBlocks, g, n
  <2>5. BlockNumbers(pkt) = pkt.seq..(pkt.seq + n - 1)
    BY <1>1, Zenon DEF last
  <2> DEFINE z == g[n]
  <2> HIDE DEF z
  <2>6. P(z, n) /\ StashBlocks(r, pkt) = z
    BY <2>4, Zenon DEF z
  <2>7. Held(r) \subseteq Held(z) /\ Held(z) \subseteq Held(r) \cup BlockNumbers(pkt)
    BY <2>5, <2>6, Zenon DEF Filled
  <2> QED BY <2>6, <2>7, Zenon
<1> QED BY <1>4, <1>5, Zenon

\* A data packet of a publisher that cuts the session once keeps what is held ahead.
LEMMA IngestDataAhead ==
  ASSUME Counting, CutOnce, NEW r, NEW h, Good(r, h), NEW pkt \in Datagrams, pkt.kind = "data",
         r.session = {pkt.session}, r.bootstrapped, r.pending_overflow = "Error", Ahead(r)
  PROVE  Ahead(IngestData(r, pkt))
<1> DEFINE m == r.next_expected
           z == IngestData(r, pkt)
<1>1. pkt \in Packet /\ BlocksOf(pkt, pkt.session) /\ pkt.seq \in Nat /\ Len(pkt.blocks) \in Nat
      /\ pkt.session \in Session
  BY DatagramAssumption DEF Honest, BlocksOf, Packet
<1>2. m \in Nat /\ r \in ReceiverStates /\ Held(r) \in SUBSET Nat
  BY HeldType, GoodType, HeldNat, Zenon
<1>3. PrefixHeld(Held(r), pkt) /\ \A n \in Held(r) : n > m
  BY Zenon DEF Ahead
<1>4. CASE pkt.seq <= m
  <2>1. ASSUME NEW n \in Held(r) \cap BlockNumbers(pkt) PROVE FALSE
    <3>1. n \in Nat /\ n > m /\ pkt.seq..n \subseteq Held(r)
      BY <1>2, <1>3, <2>1, Zenon DEF PrefixHeld
    <3>2. m \in pkt.seq..n
      BY <1>1, <1>2, <1>4, <3>1
    <3>3. m \in Held(r)
      BY <3>1, <3>2, Zenon
    <3> QED BY <1>2, <1>3, <3>3
  <2>2. Held(r) \cap BlockNumbers(pkt) = {}
    BY <2>1, Zenon
  <2> QED BY <1>1, <1>4, <2>2, InOrderAhead
<1>5. CASE pkt.seq > m /\ pkt.seq + Len(pkt.blocks) <= m
  BY <1>1, <1>2, <1>5
<1>6. CASE pkt.seq > m /\ ~(pkt.seq + Len(pkt.blocks) <= m)
  <2> DEFINE e == [tag |-> "Gap", from |-> m, to |-> pkt.seq - 1]
             x == Push(r, e)
  <2>1. e \in Item /\ ~IsDelivery(e)
    <3>1. m \in Nat /\ pkt.seq - 1 \in Nat
      BY <1>1, <1>2, <1>6
    <3> HIDE DEF m
    <3> QED BY <3>1, Zenon DEF Item, GapItem, IsDelivery
  <2>2. Good(x, h) /\ SameCursor(r, x)
    BY <2>1, PushGood, Zenon
  <2>3. SameCount(r, x) /\ Held(x) = Held(r)
    BY <1>2, PushCount
  <2>4. z = StashBlocks(x, pkt)
    BY <1>6, Zenon DEF IngestData
  <2> HIDE DEF x, e, z
  <2>5. x.session = {pkt.session} /\ x.bootstrapped /\ x.pending_overflow = "Error"
    BY <2>2, <2>3, Zenon DEF SameCursor, SameCount
  <2>6. /\ z.pending_overflow = "Error" /\ SameCursor(x, z)
        /\ Held(x) \subseteq Held(z) /\ Held(z) \subseteq Held(x) \cup BlockNumbers(pkt)
        /\ PrefixHeld(Held(z), pkt)
    BY <1>1, <1>3, <2>2, <2>3, <2>4, <2>5, StashBlocksAhead
  <2>7. ASSUME NEW n \in Held(z) PROVE n > m
    <3>1. CASE n \in Held(r)
      BY <1>3, <3>1, Zenon
    <3>2. CASE n \in BlockNumbers(pkt)
      BY <1>1, <1>2, <1>6, <3>2 DEF BlockNumbers
    <3> QED BY <2>3, <2>6, <2>7, <3>1, <3>2, Zenon
  <2>8. ASSUME NEW q \in Datagrams, q.kind = "data", z.session = {q.session}
        PROVE  PrefixHeld(Held(z), q)
    <3>1. q.session = pkt.session
      BY <2>5, <2>6, <2>8, Zenon DEF SameCursor
    <3>2. CASE BlockNumbers(q) \cap BlockNumbers(pkt) # {}
      <4>1. q = pkt
        BY <2>8, <3>1, <3>2, Zenon DEF CutOnce
      <4> QED BY <2>6, <4>1, Zenon
    <3>3. CASE BlockNumbers(q) \cap BlockNumbers(pkt) = {}
      <4>1. PrefixHeld(Held(r), q)
        BY <2>8, <3>1, Zenon DEF Ahead
      <4> QED BY <2>3, <2>6, <3>3, <4>1 DEF PrefixHeld
    <3> QED BY <3>2, <3>3, Zenon
  <2>9. z.next_expected = m
    BY <2>2, <2>6, Zenon DEF SameCursor
  <2>10. Ahead(z)
    BY <2>7, <2>8, <2>9 DEF Ahead
  <2> QED BY <2>10, Zenon DEF z
<1> QED BY <1>1, <1>2, <1>4, <1>5, <1>6

\* What has the same buffer, cursor, session and policy is ahead alike.
LEMMA AheadSame ==
  ASSUME NEW r, NEW p, Ahead(r), Held(p) = Held(r), p.next_expected = r.next_expected,
         p.session = r.session, p.pending_overflow = r.pending_overflow
  PROVE  Ahead(p)
BY Zenon DEF Ahead

\* The session lock: before the bootstrap nothing is held.
LEMMA LockOnAhead ==
  ASSUME NEW r, NEW h, Good(r, h), Ahead(r), NEW pkt,
         r.session = {} \/ r.session = {pkt.session}
  PROVE  Ahead(LockOn(r, pkt))
<1> DEFINE x == LockOn(r, pkt)
<1>1. r \in ReceiverStates /\ Faithful(r)
  BY Zenon DEF Good
<1>2. SameCount(r, x) /\ Held(x) = Held(r)
  BY <1>1, LockOnCount, Zenon
<1>3. CASE ~r.bootstrapped
  <2>1. Held(x) = {}
    BY <1>1, <1>2, <1>3, Zenon DEF Faithful
  <2> HIDE DEF x
  <2>2. Ahead(x)
    BY <2>1, Zenon DEF Ahead, PrefixHeld
  <2> QED BY <2>2, Zenon DEF x
<1>4. CASE r.bootstrapped
  <2>1. r.session = {pkt.session}
    BY <1>1, <1>4, Zenon DEF Faithful
  <2>2. x.next_expected = r.next_expected /\ x.session = r.session
    BY <1>1, <1>4, <2>1, Zenon DEF LockOn, ReceiverStates
  <2> HIDE DEF x
  <2>3. Ahead(x)
    BY <1>2, <2>2, AheadSame, Zenon DEF SameCount
  <2> QED BY <2>3, Zenon DEF x
<1> QED BY <1>3, <1>4, Zenon

\* ingest of a datagram.
LEMMA IngestAhead ==
  ASSUME Counting, CutOnce, NEW r, NEW h, Good(r, h), Ahead(r), r.pending_overflow = "Error",
         NEW pkt \in Datagrams
  PROVE  Ahead(Ingest(r, pkt))
<1>1. /\ pkt \in Packet /\ pkt.seq <= SeqMax + 1
      /\ pkt.kind \in {"data", "heartbeat", "eos"} /\ r \in ReceiverStates
  BY DatagramAssumption, Zenon DEF Honest, Packet, Good
<1>p. ASSUME NEW x \in ReceiverStates, NEW e, Ahead(x) PROVE Ahead(Push(x, e))
  <2>1. SameCount(x, Push(x, e)) /\ Held(Push(x, e)) = Held(x)
    BY <1>p, PushCount, Zenon
  <2>2. Push(x, e).next_expected = x.next_expected /\ Push(x, e).session = x.session
    BY <1>p, Zenon DEF Push, ReceiverStates
  <2> QED BY <1>p, <2>1, <2>2, AheadSame, Zenon DEF SameCount
<1>2. CASE r.session # {} /\ r.session # {pkt.session}
  <2>1. Ingest(r, pkt) = Push(r, [tag |-> "SessionMismatch"])
    BY <1>2, Zenon DEF Ingest
  <2> QED BY <1>1, <1>p, <2>1, Zenon
<1>3. CASE r.session = {} \/ r.session = {pkt.session}
  <2> DEFINE x == LockOn(r, pkt)
  <2>1. Good(x, h) /\ x.session = {pkt.session} /\ x.bootstrapped
    BY <1>1, <1>3, LockOnGood, Zenon
  <2>2. Ahead(x)
    BY <1>3, LockOnAhead, Zenon
  <2>3. x.pending_overflow = "Error" /\ x \in ReceiverStates
    BY <1>1, <2>1, LockOnCount, Zenon DEF SameCount, Good
  <2>4. CASE pkt.kind = "heartbeat"
    <3>1. Ingest(r, pkt) = Push(x, [tag |-> "Heartbeat", next_seq |-> pkt.seq])
      BY <1>3, <2>4, Zenon DEF Ingest
    <3> HIDE DEF x
    <3> QED BY <1>p, <2>2, <2>3, <3>1, Zenon
  <2>5. CASE pkt.kind = "eos"
    <3> DEFINE e == [tag |-> "EndOfSession", next_seq |-> pkt.seq]
               y == Push(x, e)
               z == [y EXCEPT !.eos = TRUE]
    <3>1. Ingest(r, pkt) = z
      BY <1>3, <2>5, Zenon DEF Ingest
    <3>2. Ahead(y)
      BY <1>p, <2>2, <2>3, Zenon
    <3>3. /\ z.pending = y.pending /\ z.next_expected = y.next_expected
          /\ z.session = y.session /\ z.pending_overflow = y.pending_overflow
      <4>1. DOMAIN y = DOMAIN x
        BY Zenon DEF Push
      <4> HIDE DEF x, y
      <4> QED BY <2>3, <4>1, Zenon DEF ReceiverStates
    <3> HIDE DEF x, y, z, e
    <3>4. Held(z) = Held(y)
      BY <3>3, Zenon DEF Held
    <3>5. Ahead(z)
      BY <3>2, <3>3, <3>4, AheadSame, Zenon
    <3> QED BY <3>1, <3>5, Zenon
  <2>6. CASE pkt.kind = "data"
    <3>1. Ingest(r, pkt) = IngestData(x, pkt)
      BY <1>3, <2>6, Zenon DEF Ingest
    <3> HIDE DEF x
    <3> QED BY <2>1, <2>2, <2>3, <2>6, <3>1, IngestDataAhead
  <2> QED BY <1>1, <2>4, <2>5, <2>6, Zenon
<1> QED BY <1>2, <1>3, Zenon

\* A retransmitted frame at or below the cursor is delivered or late, never stashed, and
\* puts the cursor beyond itself.
LEMMA FrameAhead ==
  ASSUME Counting, NEW r, NEW h, Good(r, h), Ahead(r), r.pending_overflow = "Error",
         NEW s \in Session, r.session = {s}, NEW f \in Frame, f.sequence <= r.next_expected,
         Honest(OneBlock(s, f))
  PROVE  LET p == Ingest(r, OneBlock(s, f))
         IN  Ahead(p) /\ p.next_expected >= f.sequence + 1
<1> DEFINE pkt == OneBlock(s, f)
           x == LockOn(r, pkt)
<1>1. /\ pkt \in Packet /\ BlocksOf(pkt, pkt.session) /\ pkt.seq <= SeqMax + 1
      /\ r \in ReceiverStates
  BY Zenon DEF Honest, BlocksOf, OneBlock, Good
<1>2. /\ pkt.session = s /\ pkt.kind = "data" /\ pkt.seq = f.sequence /\ f.sequence \in Nat
      /\ Len(pkt.blocks) = 1
  <2>1. f.sequence \in Nat
    BY SeqMaxAssumption DEF Frame
  <2>2. Len(<<f.body>>) = 1
    OBVIOUS
  <2> QED BY <2>1, <2>2, Zenon DEF OneBlock
<1> HIDE DEF pkt
<1>3. Ingest(r, pkt) = IngestData(x, pkt)
  BY <1>2, Zenon DEF Ingest
<1>4. Good(x, h) /\ x.session = {pkt.session} /\ x.bootstrapped
  BY <1>1, <1>2, LockOnGood
<1>5. Ahead(x)
  BY <1>2, LockOnAhead, Zenon
<1>6. x.pending_overflow = "Error" /\ pkt.seq <= x.next_expected
  <2>1. /\ SameCount(r, x)
        /\ x.next_expected = r.next_expected \/ x.next_expected = pkt.seq
    BY <1>1, LockOnCount, Zenon
  <2> HIDE DEF x
  <2> QED BY <1>2, <2>1 DEF SameCount
<1> HIDE DEF x
<1>7. pkt.seq + Len(pkt.blocks) > x.next_expected => Held(x) \cap BlockNumbers(pkt) = {}
  <2> SUFFICES ASSUME pkt.seq + Len(pkt.blocks) > x.next_expected,
                      NEW n \in Held(x), n \in BlockNumbers(pkt)
               PROVE  FALSE
    BY Zenon
  <2>1. x.next_expected \in Nat
    BY <1>4, GoodType, Zenon
  <2>2. x.next_expected = pkt.seq
    BY <1>2, <1>6, <2>1
  <2>3. n = pkt.seq
    BY <1>2 DEF BlockNumbers
  <2>4. n > x.next_expected
    BY <1>5, <1>6, Zenon DEF Ahead
  <2> QED BY <1>2, <2>2, <2>3, <2>4
<1>8. /\ Ahead(IngestData(x, pkt))
      /\ IngestData(x, pkt).next_expected >= pkt.seq + Len(pkt.blocks)
  BY <1>1, <1>4, <1>5, <1>6, <1>7, InOrderAhead
<1> QED BY <1>2, <1>3, <1>8, Zenon DEF pkt

\* ingest does not change the policy.
LEMMA IngestPolicy ==
  ASSUME Counting, NEW r, NEW h, Good(r, h), NEW pkt, Honest(pkt)
  PROVE  Ingest(r, pkt).pending_overflow = r.pending_overflow
<1>1. /\ pkt \in Packet /\ pkt.seq <= SeqMax + 1 /\ r \in ReceiverStates
      /\ pkt.kind \in {"data", "heartbeat", "eos"}
      /\ pkt.kind = "data" => BlocksOf(pkt, pkt.session)
  BY Zenon DEF Honest, Packet, BlocksOf, Good
<1>2. CASE r.session # {} /\ r.session # {pkt.session}
  <2>1. Ingest(r, pkt) = Push(r, [tag |-> "SessionMismatch"])
    BY <1>2, Zenon DEF Ingest
  <2> QED BY <1>1, <2>1, PushCount DEF SameCount
<1>3. CASE r.session = {} \/ r.session = {pkt.session}
  <2> DEFINE x == LockOn(r, pkt)
  <2>1. Good(x, h) /\ x.session = {pkt.session} /\ x.bootstrapped
    BY <1>1, <1>3, LockOnGood
  <2>2. x.pending_overflow = r.pending_overflow /\ x \in ReceiverStates
    BY <1>1, <2>1, LockOnCount DEF SameCount, Good
  <2>3. CASE pkt.kind = "heartbeat"
    <3>1. Ingest(r, pkt) = Push(x, [tag |-> "Heartbeat", next_seq |-> pkt.seq])
      BY <1>3, <2>3, Zenon DEF Ingest
    <3> HIDE DEF x
    <3> QED BY <2>2, <3>1, PushCount DEF SameCount
  <2>4. CASE pkt.kind = "eos"
    <3> DEFINE y == Push(x, [tag |-> "EndOfSession", next_seq |-> pkt.seq])
    <3>1. Ingest(r, pkt) = [y EXCEPT !.eos = TRUE]
      BY <1>3, <2>4, Zenon DEF Ingest
    <3>2. y.pending_overflow = x.pending_overflow
      BY <2>2, PushCount, Zenon DEF SameCount
    <3>3. [y EXCEPT !.eos = TRUE].pending_overflow = y.pending_overflow
      <4>1. "pending_overflow" \in DOMAIN y
        BY <2>2, Zenon DEF Push, ReceiverStates
      <4> HIDE DEF y
      <4> QED BY <4>1, Zenon
    <3> QED BY <2>2, <3>1, <3>2, <3>3, Zenon
  <2>5. CASE pkt.kind = "data"
    <3>1. Ingest(r, pkt) = IngestData(x, pkt)
      BY <1>3, <2>5, Zenon DEF Ingest
    <3> HIDE DEF x
    <3>2. IngestData(x, pkt).pending_overflow = x.pending_overflow
      <4> DEFINE m == x.next_expected
                 end == pkt.seq + Len(pkt.blocks)
      <4>1. m \in Nat /\ pkt.seq \in Nat /\ pkt.session \in Session
        BY <1>1, <2>2, StateType, PacketType, Zenon
      <4>2. CASE end <= m
        BY <4>2, Zenon DEF IngestData
      <4>3. CASE ~(end <= m) /\ pkt.seq > m
        <5> DEFINE e == [tag |-> "Gap", from |-> m, to |-> pkt.seq - 1]
                   y == Push(x, e)
        <5>1. e \in Item /\ ~IsDelivery(e)
          <6>1. m \in Nat /\ pkt.seq - 1 \in Nat
            BY <4>1, <4>3
          <6> HIDE DEF m
          <6> QED BY <6>1, Zenon DEF Item, GapItem, IsDelivery
        <5>2. Good(y, h) /\ SameCursor(x, y)
          BY <2>1, <5>1, PushGood, Zenon
        <5>3. IngestData(x, pkt) = StashBlocks(y, pkt)
          BY <4>3, Zenon DEF IngestData
        <5> HIDE DEF y
        <5>4. y.session = {pkt.session} /\ y.bootstrapped
          BY <2>1, <5>2, Zenon DEF SameCursor
        <5>5. SameCursor(y, StashBlocks(y, pkt))
          BY <1>1, <2>5, <4>1, <5>2, <5>4, StashBlocksGood
        <5> QED BY <5>2, <5>3, <5>5, Zenon DEF SameCursor
      <4>4. CASE ~(end <= m) /\ ~(pkt.seq > m)
        <5> DEFINE y == DeliverBlocks(x, pkt)
        <5>1. IngestData(x, pkt) = FlushPending(y)
          BY <4>4 DEF IngestData
        <5>2. pkt.seq <= m /\ m < pkt.seq + Len(pkt.blocks)
          BY <1>1, <4>1, <4>4 DEF Packet
        <5>3. y \in ReceiverStates /\ y.pending_overflow = x.pending_overflow
          BY <1>1, <2>1, <2>5, <5>2, DeliverBlocksGood, Zenon DEF Good
        <5> HIDE DEF y
        <5>4. SameCount(y, FlushPending(y))
          BY <5>3, FlushCount
        <5> QED BY <5>1, <5>3, <5>4 DEF SameCount
      <4> QED BY <4>2, <4>3, <4>4, Zenon
    <3> QED BY <2>2, <3>1, <3>2, Zenon
  <2> QED BY <1>1, <2>3, <2>4, <2>5
<1> QED BY <1>2, <1>3

\* Under the Error policy ingest_retransmit keeps what is held ahead, for consecutive
\* frames that start at or below the cursor; under either, it keeps the policy.
LEMMA RetransmitAhead ==
  ASSUME Counting, NEW r, NEW h, Good(r, h), Ahead(r), NEW s \in Session, r.session = {s},
         NEW frames \in Seq(Frame), OfSession(frames, s),
         frames # <<>> => frames[1].sequence <= r.next_expected,
         \A i \in DOMAIN frames : frames[i].sequence = frames[1].sequence + i - 1
  PROVE  /\ Ahead(IngestRetransmit(r, frames))
         /\ IngestRetransmit(r, frames).pending_overflow = r.pending_overflow
<1> DEFINE g == RetransmitSteps(r, frames)
           n == Len(frames)
           first == frames[1].sequence
           P(i) == OneBlock(s, frames[i])
           D == {i \in 0..n : /\ Good(g[i], h) /\ g[i].session = {s}
                              /\ g[i].pending_overflow = r.pending_overflow
                              /\ r.pending_overflow = "Error" =>
                                   Ahead(g[i]) /\ (n > 0 => first + i <= g[i].next_expected)}
<1>1. n \in Nat /\ DOMAIN frames = 1..n /\ (n > 0 => frames # <<>>)
  OBVIOUS
<1>2. g[0] = r /\ \A i \in 1..n : g[i] = Ingest(g[i - 1], P(i))
  <2>1. LockedSession(r) = s
    BY Zenon DEF LockedSession
  <2>2. \A i \in 1..n : g[i] = Ingest(g[i - 1], OneBlock(LockedSession(r), frames[i]))
    BY <1>1, RetransmitStepsDef
  <2>3. g[0] = r
    BY <1>1, RetransmitStepsDef, SMTT(30)
  <2> QED BY <2>1, <2>2, <2>3, Zenon
<1>3. \A i \in 1..n : frames[i] \in Frame /\ Honest(P(i))
  BY <1>1, FramesHonest, Zenon
<1>4. n > 0 => first \in Nat /\ first <= r.next_expected
  <2> SUFFICES ASSUME n > 0 PROVE first \in Nat /\ first <= r.next_expected
    BY Zenon
  <2>1. 1 \in 1..n /\ frames # <<>>
    BY <1>1
  <2>2. frames[1] \in Frame
    BY <1>3, <2>1, Zenon
  <2>3. first \in Nat
    BY <2>2, SeqMaxAssumption DEF Frame
  <2> QED BY <2>1, <2>3, Zenon
<1>5. \A i \in 1..n : frames[i].sequence = first + i - 1
  BY <1>1, Zenon
<1>6. r.next_expected \in Nat
  BY GoodType, Zenon
<1> HIDE DEF g, n, P, first
<1>7. 0 \in D
  <2>1. n > 0 => first + 0 <= r.next_expected
    BY <1>4, <1>6
  <2> QED BY <1>1, <1>2, <2>1
<1>8. \A i \in 0..n : i \in D /\ i < n => i + 1 \in D
  <2> SUFFICES ASSUME NEW i \in 0..n, i \in D, i < n
               PROVE  i + 1 \in D
    BY Zenon
  <2> DEFINE x == g[i]
             y == g[i + 1]
             f == frames[i + 1]
  <2>1. i + 1 \in 0..n /\ i + 1 \in 1..n /\ (i + 1) - 1 = i /\ n > 0
    BY <1>1
  <2>2. y = Ingest(x, OneBlock(s, f))
    <3>1. y = Ingest(g[(i + 1) - 1], P(i + 1))
      BY <1>2, <2>1, Zenon
    <3> QED BY <2>1, <3>1, Zenon DEF P
  <2>3. /\ Good(x, h) /\ x.session = {s} /\ x.pending_overflow = r.pending_overflow
        /\ r.pending_overflow = "Error" => Ahead(x) /\ first + i <= x.next_expected
    BY <2>1, Zenon
  <2>4. f \in Frame /\ Honest(OneBlock(s, f)) /\ f.sequence = first + i /\ first \in Nat
    <3>1. frames[i + 1].sequence = first + (i + 1) - 1
      BY <1>5, <2>1, Zenon
    <3>2. first \in Nat /\ first + (i + 1) - 1 = first + i
      BY <1>4, <2>1, Zenon
    <3> QED BY <1>3, <2>1, <3>1, <3>2 DEF P
  <2> HIDE DEF x, y, f
  <2>5. Good(y, h) /\ y.session = {s} /\ y.pending_overflow = r.pending_overflow
    BY <2>2, <2>3, <2>4, IngestGood, IngestPolicy
  <2>6. ASSUME r.pending_overflow = "Error"
        PROVE  Ahead(y) /\ first + (i + 1) <= y.next_expected
    <3>1. Ahead(y) /\ y.next_expected >= f.sequence + 1
      BY <2>2, <2>3, <2>4, <2>6, FrameAhead, Zenon
    <3>2. y.next_expected \in Nat
      BY <2>5, GoodType, Zenon
    <3> QED BY <2>4, <3>1, <3>2
  <2> QED BY <2>1, <2>5, <2>6 DEF y
<1>9. n \in D
  <2> HIDE DEF D
  <2>1. 0..n \subseteq D
    BY <1>1, <1>7, <1>8, Zenon DEF Counting, Induction
  <2>2. n \in 0..n
    BY <1>1
  <2> QED BY <2>1, <2>2, Zenon
<1>10. IngestRetransmit(r, frames) = g[n]
  BY Zenon DEF IngestRetransmit, g, n
<1>11. r.pending_overflow # "Error" => Ahead(g[n])
  BY <1>9, Zenon DEF Ahead
<1> QED BY <1>9, <1>10, <1>11, Zenon

\* Every step keeps what is held ahead of the cursor.
LEMMA NextAhead ==
  ASSUME Counting, CutOnce, Inv, Ahead(rx), [Next]_vars
  PROVE  Ahead(rx')
<1>0. Good(rx, handed)
  BY Zenon DEF Inv
<1>1. ASSUME NEW r \in Entry PROVE Good(r, handed) /\ Ahead(r)
  <2>1. CASE r = rx
    BY <1>0, <2>1, Zenon
  <2>2. CASE \E frames \in Repairs : Usable(frames) /\ r = IngestRetransmit(rx, frames)
    <3>1. PICK frames \in Repairs : Usable(frames) /\ r = IngestRetransmit(rx, frames)
      BY <2>2, Zenon
    <3>2. PICK s \in Session : rx.session = {s} /\ OfSession(frames, s)
      BY <3>1, Zenon DEF Usable
    <3>3. /\ frames \in Seq(Frame)
          /\ \A i \in DOMAIN frames : frames[i].sequence = frames[1].sequence + i - 1
          /\ frames # <<>> => frames[1].sequence <= rx.next_expected
      BY <3>1, RepairAssumption, Zenon DEF Usable
    <3>4. Good(IngestRetransmit(rx, frames), handed)
      BY <1>0, <3>2, <3>3, RetransmitGood
    <3>5. Ahead(IngestRetransmit(rx, frames))
      BY <1>0, <3>2, <3>3, RetransmitAhead, Zenon
    <3> QED BY <3>1, <3>4, <3>5
  <2> QED BY <1>1, <2>1, <2>2, Zenon DEF Entry
<1>2. ASSUME NEW p \in ReceiverStates, Ahead(p)
      PROVE  Ahead([p EXCEPT !.outbox = Tail(@)])
  <2> DEFINE q == [p EXCEPT !.outbox = Tail(@)]
  <2>1. /\ q.pending = p.pending /\ q.next_expected = p.next_expected
        /\ q.session = p.session /\ q.pending_overflow = p.pending_overflow
    BY <1>2, Zenon DEF ReceiverStates
  <2> HIDE DEF q
  <2>2. Ahead(q)
    BY <1>2, <2>1, AheadSame DEF Held
  <2> QED BY <2>2, Zenon DEF q
<1>3. ASSUME NEW r \in Entry, PollBuffered(r)
      PROVE  Ahead(rx')
  BY <1>1, <1>2, <1>3, Zenon DEF PollBuffered, Yield, Good
<1>4. ASSUME NEW r \in Entry, NEW pkt \in Datagrams, Recv(r, pkt)
      PROVE  Ahead(rx')
  <2> DEFINE p == Ingest(r, pkt)
  <2>1. Good(p, handed) /\ Ahead(p)
    <3>1. Good(p, handed) /\ p.pending_overflow = r.pending_overflow
      BY <1>1, DatagramAssumption, IngestGood, IngestPolicy
    <3>2. CASE r.pending_overflow = "Error"
      BY <1>1, <3>1, <3>2, IngestAhead, Zenon
    <3>3. CASE r.pending_overflow # "Error"
      BY <3>1, <3>3, Zenon DEF Ahead
    <3> QED BY <3>1, <3>2, <3>3, Zenon
  <2>2. rx' = p \/ rx' = [p EXCEPT !.outbox = Tail(@)]
    <3> HIDE DEF p
    <3>1. IF p.outbox # <<>> THEN Yield(p)
          ELSE rx' = p /\ item' = Nothing /\ UNCHANGED <<finished, handed>>
      BY <1>4, Zenon DEF Recv, p
    <3> QED BY <3>1, Zenon DEF Yield
  <2> HIDE DEF p
  <2> QED BY <1>2, <2>1, <2>2, Zenon DEF Good
<1>5. ASSUME NEW r \in Entry, RecvError(r) \/ PollNothing(r)
      PROVE  Ahead(rx')
  BY <1>1, <1>5, Zenon DEF RecvError, PollNothing
<1>6. CASE UNCHANGED vars
  BY <1>6, Zenon DEF vars
<1> QED BY <1>3, <1>4, <1>5, <1>6, Zenon DEF Next, Poll

INSTANCE IntervalTheorems

\* The invariant holds of every reachable state.
THEOREM Invariance == Spec => []Inv
<1>1. Init => Inv
  BY CountingHolds, InitInv, Zenon
<1>2. Inv /\ [Next]_vars => Inv'
  BY CountingHolds, NextStep, Zenon
<1> QED BY <1>1, <1>2, PTL DEF Spec

\* The fields of the receiver keep their types: the cursor never passes the end of
\* the stream, and only numbers of the stream are ever held (ingest, stash_pending).
THEOREM TypeCorrect == Spec => []TypeOK
<1>1. Inv => TypeOK
  BY DEF Inv, Good, TypeOK
<1> QED BY <1>1, Invariance, PTL

\* Whatever the network does, what is queued for the caller is exactly the numbers it
\* has not got up to next_expected, each once and in order (deliver, flush_pending).
THEOREM QueueStaysInOrder == Spec => []QueueInOrder
<1>1. Inv => QueueInOrder
  BY QueueStaysInOrderStep
<1> QED BY <1>1, Invariance, PTL

\* The out-of-order buffer never exceeds its configured cap, under either overflow
\* policy and for every cap (stash_pending).
THEOREM PendingStaysBounded == Spec => []PendingBounded
<1>1. Inv => PendingBounded
  BY Zenon DEF Inv, Good, PendingBounded, Cap
<1> QED BY <1>1, Invariance, PTL

\* The caller of poll_next gets consecutive sequence numbers with the publisher's
\* bodies: no datagram lost, repeated or reordered, and no retransmission, makes it
\* see a number twice, out of order, or with another message's body.
THEOREM CallerSeesStream == Spec => HandedInOrder
<1>1. Inv /\ [Next]_vars => [HandedNext]_vars
  BY CountingHolds, NextStep, Zenon
<1> QED BY <1>1, Invariance, PTL DEF Spec, HandedInOrder, HandedNext

\* ingest loses nothing silently: whatever a datagram brings, and whatever was held when
\* it came, is delivered, held, or counted in overflow_drops, under both overflow
\* policies and for every cap (stash_pending, pop_first, flush_pending).
THEOREM LossIsCounted == Spec => NoSilentLoss
<1>1. Inv /\ [Next]_vars => [NothingLost]_vars
  BY CountingHolds, RecvLosesNothing, Zenon
<1> QED BY <1>1, Invariance, PTL DEF Spec, NoSilentLoss, NothingLost

\* An overflow under the Error policy does not poison the stream of a publisher that cuts
\* the session into packets once: in every reachable state what is held is beyond
\* next_expected, so the block that closes the gap flushes it (stash_pending, ingest,
\* flush_pending, ingest_retransmit).
THEOREM OverflowIsHarmless ==
  ASSUME CutOnce
  PROVE  Spec => []ErrorPolicyFlushes
<1>1. Init => Ahead(rx)
  <2> SUFFICES ASSUME Init PROVE Ahead(rx)
    BY Zenon
  <2>1. rx.pending = [n \in {} |-> n]
    BY DEF Init, New
  <2>2. Held(rx) = {}
    BY <2>1 DEF Held
  <2> QED BY <2>2 DEF Ahead, PrefixHeld
<1>2. Inv /\ Ahead(rx) /\ [Next]_vars => Ahead(rx)'
  BY CountingHolds, NextAhead, Zenon
<1>3. Ahead(rx) => ErrorPolicyFlushes
  BY Zenon DEF Ahead, ErrorPolicyFlushes
<1> QED BY <1>1, <1>2, <1>3, Invariance, PTL DEF Spec
=============================================================================
