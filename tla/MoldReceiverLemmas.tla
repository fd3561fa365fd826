------------------------- MODULE MoldReceiverLemmas -------------------------
(***************************************************************************)
(* The receiver of itch-mold, method by method, for every session, stream, *)
(* network and configuration.  The inductive invariant is stated on the    *)
(* struct, as Good(r, h): r is a ReceiverState whose caller has got h      *)
(* deliveries.  Every method is shown to preserve it, and so is poll_next. *)
(* The second half follows the Gaps: Told says where a Gap may lie when    *)
(* the receiver has been told the truth, and Moves what a method that      *)
(* tells it nothing new leaves alone; the session's proofs rest on these.  *)
(*                                                                         *)
(* The lemmas assume Counting; the theorems that use them discharge it.    *)
(***************************************************************************)
EXTENDS MoldReceiver, Counting, TLAPS

-----------------------------------------------------------------------------
(* The inductive invariant. *)

Cap(r) == IF r.pending_overflow = "DropOldest" /\ r.max_pending = 0 THEN 1 ELSE r.max_pending

\* Every block held or queued is what the publisher of the locked session numbered.
Faithful(r) ==
  /\ r.session = {} => ~r.bootstrapped
  /\ ~r.bootstrapped => Held(r) = {} /\ r.next_expected = r.base
  /\ \A n \in Held(r) : \E s \in Session : r.session = {s} /\ r.pending[n] = Stream[s][n]
  /\ \A i \in DOMAIN r.outbox : IsDelivery(r.outbox[i]) =>
       /\ r.bootstrapped
       /\ r.outbox[i].seq <= SeqMax
       /\ \E s \in Session : r.session = {s} /\ r.outbox[i].body = Stream[s][r.outbox[i].seq]

\* What is queued is lo..hi-1, each once and in order.
Queued(q, lo, hi) ==
  /\ \A i \in DOMAIN q : IsDelivery(q[i]) => lo <= q[i].seq /\ q[i].seq < hi
  /\ \A n \in lo..(hi - 1) : \E i \in DOMAIN q : IsDelivery(q[i]) /\ q[i].seq = n
  /\ \A i, j \in DOMAIN q :
       IsDelivery(q[i]) /\ IsDelivery(q[j]) /\ i < j => q[i].seq < q[j].seq

Good(r, h) ==
  /\ r \in ReceiverStates
  /\ h \in Nat
  /\ r.base + h <= r.next_expected
  /\ Faithful(r)
  /\ Queued(r.outbox, r.base + h, r.next_expected)
  /\ IsFiniteSet(Held(r)) /\ Cardinality(Held(r)) <= Cap(r)

\* The types of a receiver and of a packet, field by field.
LEMMA StateType ==
  ASSUME NEW r \in ReceiverStates
  PROVE  /\ r.next_expected \in Nat /\ r.next_expected <= SeqMax + 1 /\ r.base \in Nat
         /\ r.outbox \in Seq(Item) /\ r.overflow_drops \in Nat /\ r.max_pending \in Nat
BY SeqMaxAssumption DEF ReceiverStates

LEMMA GoodType ==
  ASSUME NEW r, NEW h, Good(r, h)
  PROVE  /\ r \in ReceiverStates /\ h \in Nat /\ r.base + h <= r.next_expected
         /\ r.next_expected \in Nat /\ r.next_expected <= SeqMax + 1 /\ r.base \in Nat
         /\ r.outbox \in Seq(Item) /\ r.overflow_drops \in Nat /\ r.max_pending \in Nat
BY StateType, Zenon DEF Good

LEMMA PacketType ==
  ASSUME NEW pkt \in Packet
  PROVE  /\ pkt.session \in Session /\ {pkt.session} \in SUBSET Session /\ pkt.seq \in Nat
         /\ pkt.blocks \in Seq(Body) /\ Len(pkt.blocks) \in Nat
         /\ DOMAIN pkt.blocks = 1..Len(pkt.blocks) /\ pkt.seq + Len(pkt.blocks) \in Nat
BY DEF Packet

-----------------------------------------------------------------------------
(* Queueing. *)

\* Queueing anything but a delivery leaves the deliveries as they were.
LEMMA PushKeepsQueued ==
  ASSUME NEW q \in Seq(Item), NEW lo \in Nat, NEW hi \in Nat, Queued(q, lo, hi),
         NEW e \in Item, ~IsDelivery(e)
  PROVE  Queued(Append(q, e), lo, hi)
<1> DEFINE p == Append(q, e)
<1>1. /\ DOMAIN q = 1..Len(q) /\ Len(q) \in Nat /\ DOMAIN p = 1..(Len(q) + 1)
      /\ \A i \in DOMAIN q : p[i] = q[i]
      /\ p[Len(q) + 1] = e
  OBVIOUS
<1> HIDE DEF p
<1>2. \A i \in DOMAIN p : IsDelivery(p[i]) => i \in DOMAIN q /\ p[i] = q[i]
  BY <1>1
<1>3. DOMAIN q \subseteq DOMAIN p
  BY <1>1
<1>4. Queued(p, lo, hi)
  <2>1. \A n \in lo..(hi - 1) : \E i \in DOMAIN p : IsDelivery(p[i]) /\ p[i].seq = n
    BY <1>1, <1>3, Zenon DEF Queued
  <2>2. \A i \in DOMAIN p : IsDelivery(p[i]) => lo <= p[i].seq /\ p[i].seq < hi
    BY <1>2, Zenon DEF Queued
  <2>3. \A i, j \in DOMAIN p :
          IsDelivery(p[i]) /\ IsDelivery(p[j]) /\ i < j => p[i].seq < p[j].seq
    BY <1>2, Zenon DEF Queued
  <2> QED BY <2>1, <2>2, <2>3, Zenon DEF Queued
<1> QED BY <1>4, Zenon DEF p

\* The indices of a concatenation.
LEMMA ConcatFacts ==
  ASSUME NEW q \in Seq(Item), NEW t \in Seq(Item)
  PROVE  /\ DOMAIN q = 1..Len(q) /\ Len(q) \in Nat /\ Len(t) \in Nat
         /\ q \o t \in Seq(Item) /\ DOMAIN (q \o t) = 1..(Len(q) + Len(t))
         /\ \A i \in DOMAIN q : (q \o t)[i] = q[i]
         /\ \A i \in 1..Len(t) : (q \o t)[Len(q) + i] = t[i]
OBVIOUS

\* Queueing the deliveries numbered hi..end-1 extends the run.
LEMMA ConcatExtendsQueued ==
  ASSUME NEW q \in Seq(Item), NEW lo \in Nat, NEW hi \in Nat, Queued(q, lo, hi), lo <= hi,
         NEW end \in Nat, hi <= end, NEW t \in Seq(Item), Len(t) = end - hi,
         \A i \in 1..Len(t) : IsDelivery(t[i]) /\ t[i].seq = hi + i - 1
  PROVE  Queued(q \o t, lo, end)
<1> DEFINE p == q \o t
<1>1. /\ DOMAIN q = 1..Len(q) /\ Len(q) \in Nat /\ Len(t) \in Nat
      /\ DOMAIN p = 1..(Len(q) + Len(t))
      /\ \A i \in DOMAIN q : p[i] = q[i]
      /\ \A i \in 1..Len(t) : p[Len(q) + i] = t[i]
  BY ConcatFacts, Zenon
<1> HIDE DEF p
<1>2. \A i \in DOMAIN p : i \notin DOMAIN q =>
        i > Len(q) /\ IsDelivery(p[i]) /\ p[i].seq = hi + (i - Len(q)) - 1
  <2> SUFFICES ASSUME NEW i \in DOMAIN p, i \notin DOMAIN q
               PROVE  i > Len(q) /\ IsDelivery(p[i]) /\ p[i].seq = hi + (i - Len(q)) - 1
    BY Zenon
  <2>0. i \in 1..(Len(q) + Len(t)) /\ i \notin 1..Len(q)
    BY <1>1, Zenon
  <2>1. i - Len(q) \in 1..Len(t) /\ i = Len(q) + (i - Len(q)) /\ i > Len(q)
    <3>1. \A a, b \in Nat : \A k \in 1..(a + b) :
            k \notin 1..a => k - a \in 1..b /\ k = a + (k - a) /\ k > a
      OBVIOUS
    <3> QED BY <1>1, <2>0, <3>1, Zenon
  <2>2. p[i] = t[i - Len(q)]
    BY <1>1, <2>1, Zenon
  <2> QED BY <2>1, <2>2, Zenon
<1>3. \A n \in lo..(end - 1) : \E i \in DOMAIN p : IsDelivery(p[i]) /\ p[i].seq = n
  <2> SUFFICES ASSUME NEW n \in lo..(end - 1)
               PROVE  \E i \in DOMAIN p : IsDelivery(p[i]) /\ p[i].seq = n
    BY Zenon
  <2>1. CASE n < hi
    <3>1. n \in lo..(hi - 1)
      BY <2>1
    <3>2. PICK i \in DOMAIN q : IsDelivery(q[i]) /\ q[i].seq = n
      BY <3>1, Zenon DEF Queued
    <3>3. i \in DOMAIN p /\ p[i] = q[i]
      BY <1>1
    <3> QED BY <3>2, <3>3, Zenon
  <2>2. CASE n >= hi
    <3>1. Len(q) + (n - hi + 1) \in DOMAIN p /\ n - hi + 1 \in 1..Len(t)
      BY <1>1, <2>2
    <3>2. p[Len(q) + (n - hi + 1)] = t[n - hi + 1]
      BY <1>1, <3>1, Zenon
    <3>3. IsDelivery(t[n - hi + 1]) /\ t[n - hi + 1].seq = n
      BY <3>1
    <3> QED BY <3>1, <3>2, <3>3, Zenon
  <2> QED BY <2>1, <2>2
<1>4. \A i \in DOMAIN p : IsDelivery(p[i]) => lo <= p[i].seq /\ p[i].seq < end
  <2> SUFFICES ASSUME NEW i \in DOMAIN p, IsDelivery(p[i])
               PROVE  lo <= p[i].seq /\ p[i].seq < end
    BY Zenon
  <2>1. CASE i \in DOMAIN q
    <3>1. p[i] = q[i] /\ p[i] \in Item
      BY <1>1, <2>1
    <3>2. p[i].seq \in Nat
      BY <3>1, Zenon DEF Item, DeliveryItem, GapItem, MarkItem, ErrorItem, IsDelivery
    <3> QED BY <2>1, <3>1, <3>2 DEF Queued
  <2>2. CASE i \notin DOMAIN q
    BY <1>1, <1>2, <2>2
  <2> QED BY <2>1, <2>2, Zenon
<1>5. \A i, j \in DOMAIN p :
        IsDelivery(p[i]) /\ IsDelivery(p[j]) /\ i < j => p[i].seq < p[j].seq
  <2> SUFFICES ASSUME NEW i \in DOMAIN p, NEW j \in DOMAIN p,
                      IsDelivery(p[i]), IsDelivery(p[j]), i < j
               PROVE  p[i].seq < p[j].seq
    BY Zenon
  <2>1. CASE j \in DOMAIN q
    <3>1. i \in DOMAIN q /\ p[i] = q[i] /\ p[j] = q[j]
      BY <1>1, <2>1
    <3> QED BY <2>1, <3>1, Zenon DEF Queued
  <2>2. CASE i \in DOMAIN q /\ j \notin DOMAIN q
    <3>1. p[i] \in Item /\ p[i].seq < hi
      BY <1>1, <2>2 DEF Queued
    <3>2. p[i].seq \in Nat
      BY <3>1, Zenon DEF Item, DeliveryItem, GapItem, MarkItem, ErrorItem, IsDelivery
    <3> QED BY <1>1, <1>2, <2>2, <3>1, <3>2
  <2>3. CASE i \notin DOMAIN q /\ j \notin DOMAIN q
    BY <1>1, <1>2, <2>3
  <2> QED BY <1>1, <2>1, <2>2, <2>3, Zenon
<1>6. Queued(p, lo, end)
  BY <1>3, <1>4, <1>5, Zenon DEF Queued
<1> QED BY <1>6, Zenon DEF p
-----------------------------------------------------------------------------
(* The methods of the struct. *)

\* What the methods that only hold blocks and queue reports leave alone.
SameCursor(r, p) ==
  /\ p.session = r.session /\ p.bootstrapped = r.bootstrapped
  /\ p.next_expected = r.next_expected /\ p.base = r.base
  /\ p.pending_overflow = r.pending_overflow

\* push_back changes the outbox only.
LEMMA PushFields ==
  ASSUME NEW r \in ReceiverStates, NEW e \in Item
  PROVE  LET p == Push(r, e)
         IN  /\ p \in ReceiverStates /\ p.outbox = Append(r.outbox, e)
             /\ p.session = r.session /\ p.next_expected = r.next_expected /\ p.base = r.base
             /\ p.bootstrapped = r.bootstrapped /\ p.pending = r.pending /\ p.eos = r.eos
             /\ p.max_pending = r.max_pending /\ p.pending_overflow = r.pending_overflow
<1>1. r.outbox \in Seq(Item) /\ Append(r.outbox, e) \in Seq(Item)
  BY DEF ReceiverStates
<1> QED BY <1>1, SMTT(30) DEF Push, ReceiverStates

\* Queueing an event or an error keeps the invariant (Push).
LEMMA PushGood ==
  ASSUME NEW r, NEW h, Good(r, h), NEW e \in Item, ~IsDelivery(e)
  PROVE  Good(Push(r, e), h) /\ SameCursor(r, Push(r, e)) /\ Push(r, e).eos = r.eos
<1> DEFINE p == Push(r, e)
           q == Append(r.outbox, e)
<1>1. r \in ReceiverStates /\ r.outbox \in Seq(Item) /\ q \in Seq(Item)
  BY DEF Good, ReceiverStates
<1>2. /\ p \in ReceiverStates /\ p.outbox = q
      /\ p.session = r.session /\ p.next_expected = r.next_expected /\ p.base = r.base
      /\ p.bootstrapped = r.bootstrapped /\ p.pending = r.pending /\ p.eos = r.eos
      /\ p.max_pending = r.max_pending /\ p.pending_overflow = r.pending_overflow
  BY <1>1, PushFields, Zenon
<1>3. \A i \in DOMAIN q : IsDelivery(q[i]) => i \in DOMAIN r.outbox /\ q[i] = r.outbox[i]
  BY <1>1
<1> HIDE DEF p
<1>4. Faithful(p)
  <2> HIDE DEF q
  <2> QED BY <1>2, <1>3 DEF Good, Faithful, Held
<1>5. Queued(q, p.base + h, p.next_expected)
  <2>1. r.base + h \in Nat /\ r.next_expected \in Nat
    <3>1. r.base \in Nat /\ h \in Nat /\ r.next_expected \in Nat
      BY <1>1, GoodType, Zenon
    <3> QED BY <3>1
  <2> QED BY <1>1, <1>2, <2>1, PushKeepsQueued, Zenon DEF Good
<1>6. Good(p, h)
  <2> HIDE DEF q
  <2> QED BY <1>2, <1>4, <1>5, Zenon DEF Good, Held, Cap
<1> QED BY <1>2, <1>6, Zenon DEF SameCursor, p

\* pop_first removes exactly one block of a buffer that holds any.
LEMMA PopFirstRemovesOne ==
  ASSUME Counting, NEW H \in SUBSET Nat, IsFiniteSet(H), H # {}
  PROVE  LET K == {n \in H : \E m \in H : m < n}
         IN  IsFiniteSet(K) /\ Cardinality(K) = Cardinality(H) - 1
<1> DEFINE K == {n \in H : \E m \in H : m < n}
<1>1. PICK m \in H : \A n \in H : m <= n
  BY Zenon DEF Counting, LeastMember
<1>2. K = H \ {m}
  <2>1. \A n \in H : n \in Nat /\ m \in Nat /\ m <= n
    BY <1>1, Zenon
  <2>2. \A n \in H : (\E k \in H : k < n) <=> n # m
    BY <2>1
  <2> QED BY <2>2, Zenon
<1> HIDE DEF K
<1>3. IsFiniteSet(K) /\ Cardinality(K) = Cardinality(H) - 1
  BY <1>2, Zenon DEF Counting, CountRemove
<1> QED BY <1>3, Zenon DEF K
\* insert keeps everything but the size of the buffer.
LEMMA InsertFields ==
  ASSUME NEW r \in ReceiverStates, NEW seq \in 0..SeqMax, NEW body \in Body
  PROVE  LET p == Insert(r, seq, body)
         IN  /\ p \in ReceiverStates /\ SameCursor(r, p) /\ p.outbox = r.outbox
             /\ p.max_pending = r.max_pending /\ p.pending_overflow = r.pending_overflow
             /\ Held(p) = Held(r) \cup {seq}
             /\ \A n \in Held(p) : p.pending[n] = IF n = seq THEN body ELSE r.pending[n]
<1> DEFINE H == DOMAIN r.pending
           f == [n \in H \cup {seq} |-> IF n = seq THEN body ELSE r.pending[n]]
<1>1. PICK S \in SUBSET (0..SeqMax) : r.pending \in [S -> Body]
  BY Zenon DEF ReceiverStates, Buffer
<1>2. f \in [S \cup {seq} -> Body] /\ S \cup {seq} \in SUBSET (0..SeqMax)
  BY <1>1, Zenon
<1>3. f \in Buffer
  <2> HIDE DEF f
  <2> QED BY <1>2, Zenon DEF Buffer
<1>4. Insert(r, seq, body) = [r EXCEPT !.pending = f]
  BY Zenon DEF Insert, Held
<1>5. DOMAIN f = H \cup {seq} /\ \A n \in DOMAIN f : f[n] = IF n = seq THEN body ELSE r.pending[n]
  BY Zenon
<1> HIDE DEF f
<1> QED BY <1>3, <1>4, <1>5 DEF ReceiverStates, SameCursor, Held

\* Narrowing the buffer keeps everything else.
LEMMA KeepFields ==
  ASSUME NEW r \in ReceiverStates, NEW K \in SUBSET Held(r)
  PROVE  LET p == Keep(r, K)
         IN  /\ p \in ReceiverStates /\ SameCursor(r, p) /\ p.outbox = r.outbox
             /\ p.max_pending = r.max_pending /\ p.pending_overflow = r.pending_overflow
             /\ Held(p) = K /\ \A n \in K : p.pending[n] = r.pending[n]
<1> DEFINE f == [n \in K |-> r.pending[n]]
<1>1. PICK S \in SUBSET (0..SeqMax) : r.pending \in [S -> Body]
  BY Zenon DEF ReceiverStates, Buffer
<1>2. K \in SUBSET (0..SeqMax) /\ f \in [K -> Body]
  BY <1>1, Zenon DEF Held
<1>3. f \in Buffer
  <2> HIDE DEF f
  <2> QED BY <1>2, Zenon DEF Buffer
<1>4. Keep(r, K) = [r EXCEPT !.pending = f]
  BY Zenon DEF Keep
<1>5. DOMAIN f = K /\ \A n \in K : f[n] = r.pending[n]
  BY Zenon
<1> HIDE DEF f
<1> QED BY <1>3, <1>4, <1>5 DEF ReceiverStates, SameCursor, Held

\* The buffer holds sequence numbers, finitely many.
LEMMA HeldType ==
  ASSUME Counting, NEW r \in ReceiverStates
  PROVE  Held(r) \in SUBSET (0..SeqMax) /\ IsFiniteSet(Held(r))
<1>1. PICK S \in SUBSET (0..SeqMax) : r.pending \in [S -> Body]
  BY Zenon DEF ReceiverStates, Buffer
<1>2. Held(r) = S
  BY <1>1, Zenon DEF Held
<1>3. IsFiniteSet(0..SeqMax)
  BY SeqMaxAssumption DEF Counting, CountInterval
<1> QED BY <1>2, <1>3, Zenon DEF Counting, CountSubset

LEMMA HeldNat == ASSUME Counting, NEW r \in ReceiverStates PROVE Held(r) \in SUBSET Nat
BY HeldType, SeqMaxAssumption

\* Counting a drop changes nothing else.
LEMMA CountFields ==
  ASSUME NEW x \in ReceiverStates
  PROVE  LET p == [x EXCEPT !.overflow_drops = @ + 1]
         IN  /\ p \in ReceiverStates /\ SameCursor(x, p) /\ p.outbox = x.outbox
             /\ p.pending = x.pending
             /\ p.max_pending = x.max_pending /\ p.pending_overflow = x.pending_overflow
BY DEF ReceiverStates, SameCursor

\* pop_first keeps the invariant's clauses and makes room.
LEMMA PopFirstFields ==
  ASSUME Counting, NEW r \in ReceiverStates
  PROVE  LET p == PopFirst(r)
         IN  /\ p \in ReceiverStates /\ SameCursor(r, p) /\ p.outbox = r.outbox
             /\ p.max_pending = r.max_pending /\ p.pending_overflow = r.pending_overflow
             /\ Held(p) \subseteq Held(r) /\ \A n \in Held(p) : p.pending[n] = r.pending[n]
             /\ Held(r) # {} => Cardinality(Held(p)) = Cardinality(Held(r)) - 1
             /\ Held(r) = {} => Held(p) = {}
<1>1. CASE Held(r) = {}
  BY <1>1, Zenon DEF PopFirst, SameCursor
<1>2. CASE Held(r) # {}
  <2> DEFINE K == {n \in Held(r) : \E m \in Held(r) : m < n}
             k == Keep(r, K)
             p == [k EXCEPT !.overflow_drops = @ + 1]
  <2>1. K \in SUBSET Held(r)
    BY Zenon
  <2>2. Held(r) \in SUBSET Nat /\ IsFiniteSet(Held(r))
    BY HeldType, HeldNat, Zenon
  <2>3. Cardinality(K) = Cardinality(Held(r)) - 1
    BY <1>2, <2>2, PopFirstRemovesOne, Zenon
  <2>4. PopFirst(r) = p
    BY <1>2, Zenon DEF PopFirst
  <2> HIDE DEF K
  <2>5. /\ k \in ReceiverStates /\ SameCursor(r, k) /\ k.outbox = r.outbox
        /\ k.max_pending = r.max_pending /\ k.pending_overflow = r.pending_overflow
        /\ Held(k) = K /\ \A n \in K : k.pending[n] = r.pending[n]
    BY <2>1, KeepFields, Zenon
  <2> HIDE DEF k
  <2>6. p \in ReceiverStates /\ SameCursor(k, p) /\ p.outbox = k.outbox
        /\ p.pending = k.pending
        /\ p.max_pending = k.max_pending /\ p.pending_overflow = k.pending_overflow
    BY <2>5, CountFields, Zenon
  <2> HIDE DEF p
  <2>7. Held(p) = K
    BY <2>5, <2>6, Zenon DEF Held
  <2> QED BY <1>2, <2>1, <2>3, <2>4, <2>5, <2>6, <2>7, Zenon DEF SameCursor
<1> QED BY <1>1, <1>2, Zenon
\* Holding one more faithful block keeps the invariant when there is room, x being
\* the struct r with some blocks dropped.
LEMMA InsertGood ==
  ASSUME Counting, NEW r, NEW h, Good(r, h), NEW s \in Session, r.session = {s}, r.bootstrapped,
         NEW seq \in 0..SeqMax, NEW body, body = Stream[s][seq],
         NEW x \in ReceiverStates, SameCursor(r, x), x.outbox = r.outbox,
         x.max_pending = r.max_pending, x.pending_overflow = r.pending_overflow,
         Held(x) \subseteq Held(r), \A n \in Held(x) : x.pending[n] = r.pending[n],
         Cardinality(Held(x)) + 1 <= Cap(r)
  PROVE  Good(Insert(x, seq, body), h) /\ SameCursor(r, Insert(x, seq, body))
<1> DEFINE p == Insert(x, seq, body)
<1>1. body \in Body
  BY StreamAssumption, Zenon
<1>2. /\ p \in ReceiverStates /\ SameCursor(x, p) /\ p.outbox = x.outbox
      /\ p.max_pending = x.max_pending /\ p.pending_overflow = x.pending_overflow
      /\ Held(p) = Held(x) \cup {seq}
      /\ \A n \in Held(p) : p.pending[n] = IF n = seq THEN body ELSE x.pending[n]
  BY <1>1, InsertFields
<1> HIDE DEF p
<1>3. SameCursor(r, p) /\ p.outbox = r.outbox
  BY <1>2, Zenon DEF SameCursor
<1>4. Faithful(p)
  <2>1. \A n \in Held(p) : \E t \in Session : p.session = {t} /\ p.pending[n] = Stream[t][n]
    BY <1>2, <1>3 DEF Good, Faithful, SameCursor
  <2> QED BY <1>3, <2>1, SMTT(30) DEF Good, Faithful, SameCursor
<1>5. IsFiniteSet(Held(p)) /\ Cardinality(Held(p)) <= Cap(p)
  <2>1. IsFiniteSet(Held(x)) /\ Cardinality(Held(x)) \in Nat
    BY HeldType, Zenon DEF Counting, CountIsNat
  <2>2. IsFiniteSet(Held(p)) /\ Cardinality(Held(p)) <= Cardinality(Held(x)) + 1
    <3>1. /\ IsFiniteSet(Held(x) \cup {seq})
          /\ \/ Cardinality(Held(x) \cup {seq}) = Cardinality(Held(x))
             \/ Cardinality(Held(x) \cup {seq}) = Cardinality(Held(x)) + 1
      BY <2>1, Zenon DEF Counting, CountAdd
    <3> QED BY <1>2, <2>1, <3>1
  <2>3. Cap(p) = Cap(r) /\ Cap(r) \in Nat
    BY <1>2 DEF Cap, Good, ReceiverStates
  <2>4. Cardinality(Held(p)) \in Nat
    BY <2>2, Zenon DEF Counting, CountIsNat
  <2> QED BY <2>1, <2>2, <2>3, <2>4
<1>6. Good(p, h)
  BY <1>2, <1>3, <1>4, <1>5, Zenon DEF Good, SameCursor
<1> QED BY <1>3, <1>6, Zenon DEF p

\* stash_pending keeps the invariant and the cursor.
LEMMA StashGood ==
  ASSUME Counting, NEW r, NEW h, Good(r, h), NEW s \in Session, r.session = {s}, r.bootstrapped,
         NEW seq \in 0..SeqMax, NEW body, body = Stream[s][seq]
  PROVE  Good(StashPending(r, seq, body), h) /\ SameCursor(r, StashPending(r, seq, body))
<1> DEFINE c == Cardinality(Held(r))
<1>0. /\ r \in ReceiverStates /\ r.max_pending \in Nat /\ r.pending_overflow \in Policies
      /\ c \in Nat /\ c <= Cap(r) /\ Cap(r) \in Nat /\ r.max_pending <= Cap(r)
  BY DEF Counting, CountIsNat, Good, ReceiverStates, Cap
<1> USE <1>0
<1>1. CASE seq \in Held(r)
  BY <1>1, Zenon DEF StashPending, SameCursor
<1>2. CASE seq \notin Held(r) /\ c < r.max_pending
  <2>1. StashPending(r, seq, body) = Insert(r, seq, body)
    BY <1>2, Zenon DEF StashPending
  <2>2. SameCursor(r, r) /\ c + 1 <= Cap(r)
    BY <1>2 DEF SameCursor
  <2> QED BY <2>1, <2>2, InsertGood
<1>3. CASE seq \notin Held(r) /\ ~(c < r.max_pending) /\ r.pending_overflow = "DropOldest"
  <2> DEFINE x == PopFirst(r)
  <2>1. StashPending(r, seq, body) = Insert(x, seq, body)
    BY <1>3, Zenon DEF StashPending
  <2>2. /\ x \in ReceiverStates /\ SameCursor(r, x) /\ x.outbox = r.outbox
        /\ x.max_pending = r.max_pending /\ x.pending_overflow = r.pending_overflow
        /\ Held(x) \subseteq Held(r) /\ \A n \in Held(x) : x.pending[n] = r.pending[n]
        /\ Held(r) # {} => Cardinality(Held(x)) = c - 1
        /\ Held(r) = {} => Held(x) = {}
    BY PopFirstFields, Zenon
  <2> HIDE DEF x
  <2>3. Cardinality(Held(x)) + 1 <= Cap(r)
    <3>1. CASE Held(r) = {}
      <4>1. Cardinality(Held(x)) = 0 /\ c = 0
        BY <2>2, <3>1, Zenon DEF Counting, CountNone
      <4>2. r.max_pending = 0
        BY <1>3, <4>1
      <4>3. Cap(r) = 1
        BY <1>3, <4>2, Zenon DEF Cap
      <4> QED BY <4>1, <4>3
    <3>2. CASE Held(r) # {}
      BY <2>2, <3>2
    <3> QED BY <3>1, <3>2, Zenon
  <2> QED BY <2>1, <2>2, <2>3, InsertGood
<1>4. CASE seq \notin Held(r) /\ ~(c < r.max_pending) /\ r.pending_overflow # "DropOldest"
  <2> DEFINE e == [tag |-> "PendingBufferFull"]
             x == Push(r, e)
             p == [x EXCEPT !.overflow_drops = @ + 1]
  <2>1. StashPending(r, seq, body) = p
    BY <1>4, Zenon DEF StashPending
  <2>2. e \in Item /\ ~IsDelivery(e)
    BY Zenon DEF Item, ErrorItem, IsDelivery
  <2>3. Good(x, h) /\ SameCursor(r, x)
    BY <2>2, PushGood, Zenon
  <2> HIDE DEF x
  <2>3a. x \in ReceiverStates /\ Faithful(x)
    BY <2>3, Zenon DEF Good
  <2>4. /\ p \in ReceiverStates /\ SameCursor(x, p) /\ p.outbox = x.outbox
        /\ p.pending = x.pending
        /\ p.max_pending = x.max_pending /\ p.pending_overflow = x.pending_overflow
    BY <2>3a, CountFields, Zenon
  <2> HIDE DEF p
  <2>5. Faithful(p) /\ Held(p) = Held(x) /\ Cap(p) = Cap(x)
    BY <2>3a, <2>4 DEF Faithful, Held, SameCursor, Cap
  <2>6. Good(p, h)
    BY <2>3, <2>4, <2>5, Zenon DEF Good, SameCursor
  <2> QED BY <2>1, <2>3, <2>4, <2>6, Zenon DEF SameCursor
<1> QED BY <1>1, <1>2, <1>3, <1>4, Zenon

\* The stash loop is a recursive function of the block index.
LEMMA StashStepsDef ==
  ASSUME Counting, NEW r, NEW pkt, Len(pkt.blocks) \in Nat
  PROVE  /\ StashSteps(r, pkt)[0] = r
         /\ \A i \in 1..Len(pkt.blocks) :
              StashSteps(r, pkt)[i] =
                StashPending(StashSteps(r, pkt)[i - 1], pkt.seq + i - 1, pkt.blocks[i])
<1> DEFINE St(x, i) == StashPending(x, pkt.seq + i - 1, pkt.blocks[i])
           F(g, k) == g = [i \in 0..k |-> IF i = 0 THEN r ELSE St(g[i - 1], i)]
           n == Len(pkt.blocks)
           D == {k \in 0..n : \E g : F(g, k)}
<1>0. StashSteps(r, pkt) = CHOOSE g : F(g, n)
  BY Zenon DEF StashSteps
<1> HIDE DEF St
<1>1. \E g : F(g, 0)
  <2> DEFINE g == [i \in 0..0 |-> r]
  <2>1. F(g, 0)
    OBVIOUS
  <2> HIDE DEF F
  <2> QED BY <2>1, Zenon
<1>2. ASSUME NEW k \in 0..n, NEW g, F(g, k) PROVE \E p : F(p, k + 1)
  <2> DEFINE p == [i \in 0..(k + 1) |-> IF i <= k THEN g[i] ELSE St(g[k], k + 1)]
  <2>1. \A i \in 0..(k + 1) : p[i] = IF i = 0 THEN r ELSE St(p[i - 1], i)
    <3> SUFFICES ASSUME NEW i \in 0..(k + 1)
                 PROVE  p[i] = IF i = 0 THEN r ELSE St(p[i - 1], i)
      BY Zenon
    <3>1. CASE i = 0
      BY <1>2, <3>1
    <3>2. CASE i > 0 /\ i <= k
      <4>1. p[i] = g[i] /\ p[i - 1] = g[i - 1]
        BY <3>2
      <4>2. g[i] = St(g[i - 1], i)
        BY <1>2, <3>2
      <4> QED BY <3>2, <4>1, <4>2
    <3>3. CASE i = k + 1
      <4>1. p[i - 1] = g[k] /\ p[i] = St(g[k], k + 1)
        BY <3>3
      <4> QED BY <3>3, <4>1
    <3> QED BY <3>1, <3>2, <3>3
  <2>2. F(p, k + 1)
    BY <2>1, Zenon
  <2> HIDE DEF p, F
  <2> QED BY <2>2, Zenon
<1> HIDE DEF F
<1>3. 0 \in D /\ \A i \in 0..n : i \in D /\ i < n => i + 1 \in D
  BY <1>1, <1>2
<1>4. \E g : F(g, n)
  <2> HIDE DEF D
  <2>1. n \in Nat
    BY Zenon
  <2> HIDE DEF n
  <2>2. 0..n \subseteq D
    BY <1>3, <2>1, Zenon DEF Counting, Induction
  <2>3. n \in D
    BY <2>1, <2>2
  <2> QED BY <2>3, Zenon DEF D
<1>5. F(CHOOSE g : F(g, n), n)
  BY <1>4, Zenon
<1> DEFINE f == StashSteps(r, pkt)
<1>6. f = [i \in 0..n |-> IF i = 0 THEN r ELSE St(f[i - 1], i)]
  BY <1>0, <1>5, Zenon DEF F
<1> HIDE DEF f
<1>7. f[0] = r /\ \A i \in 1..n : f[i] = St(f[i - 1], i)
  <2>1. n \in Nat
    BY Zenon
  <2> HIDE DEF n
  <2> QED BY <1>6, <2>1
<1> QED BY <1>7, Zenon DEF f, St

\* The blocks of a packet are what the publisher of session s numbered.
BlocksOf(pkt, s) ==
  \A i \in DOMAIN pkt.blocks :
    pkt.seq + i - 1 <= SeqMax /\ pkt.blocks[i] = Stream[s][pkt.seq + i - 1]

\* The stash loop keeps the invariant and the cursor.
LEMMA StashBlocksGood ==
  ASSUME Counting, NEW r, NEW h, Good(r, h), NEW s \in Session, r.session = {s}, r.bootstrapped,
         NEW pkt \in Packet, BlocksOf(pkt, s)
  PROVE  Good(StashBlocks(r, pkt), h) /\ SameCursor(r, StashBlocks(r, pkt))
<1> DEFINE g == StashSteps(r, pkt)
           n == Len(pkt.blocks)
           D == {i \in 0..n : Good(g[i], h) /\ SameCursor(r, g[i])}
<1>1. pkt.blocks \in Seq(Body) /\ n \in Nat /\ DOMAIN pkt.blocks = 1..n /\ pkt.seq \in Nat
  BY DEF Packet
<1>2. g[0] = r /\ \A i \in 1..n : g[i] = StashPending(g[i - 1], pkt.seq + i - 1, pkt.blocks[i])
  <2>1. Len(pkt.blocks) \in Nat
    BY <1>1, Zenon
  <2>2. g[0] = r
    BY <2>1, StashStepsDef, Zenon
  <2>3. \A i \in 1..n : g[i] = StashPending(g[i - 1], pkt.seq + i - 1, pkt.blocks[i])
    BY <2>1, StashStepsDef
  <2> QED BY <2>2, <2>3, Zenon
<1> HIDE DEF g, n
<1>3. 0 \in D
  <2>1. g[0] = r
    BY <1>2, Zenon
  <2>2. SameCursor(r, r)
    BY Zenon DEF SameCursor
  <2> QED BY <1>1, <2>1, <2>2
<1>4. \A i \in 0..n : i \in D /\ i < n => i + 1 \in D
  <2> SUFFICES ASSUME NEW i \in 0..n, i \in D, i < n
               PROVE  i + 1 \in D
    BY Zenon
  <2>1. i + 1 \in 0..n /\ i + 1 \in DOMAIN pkt.blocks /\ pkt.seq + i \in Nat
    BY <1>1
  <2>2. g[i + 1] = StashPending(g[i], pkt.seq + i, pkt.blocks[i + 1])
    <3>1. i + 1 \in 1..n /\ (i + 1) - 1 = i /\ pkt.seq + (i + 1) - 1 = pkt.seq + i
      BY <1>1, <2>1
    <3>2. g[i + 1] = StashPending(g[(i + 1) - 1], pkt.seq + (i + 1) - 1, pkt.blocks[i + 1])
      BY <1>2, <3>1, Zenon
    <3> QED BY <3>1, <3>2, Zenon
  <2>3. pkt.seq + i \in 0..SeqMax /\ pkt.blocks[i + 1] = Stream[s][pkt.seq + i]
    <3>1. pkt.seq + (i + 1) - 1 = pkt.seq + i
      BY <1>1
    <3> QED BY <2>1, <3>1, SeqMaxAssumption DEF BlocksOf
  <2>4. Good(g[i], h) /\ g[i].session = {s} /\ g[i].bootstrapped /\ SameCursor(r, g[i])
    BY Zenon DEF SameCursor
  <2>5. Good(g[i + 1], h) /\ SameCursor(g[i], g[i + 1])
    BY <2>2, <2>3, <2>4, StashGood
  <2> QED BY <2>1, <2>4, <2>5, Zenon DEF SameCursor
<1>5. n \in D
  <2> HIDE DEF D
  <2>1. 0..n \subseteq D
    BY <1>1, <1>3, <1>4, Zenon DEF Counting, Induction
  <2>2. n \in 0..n
    BY <1>1
  <2> QED BY <2>1, <2>2, Zenon
<1>6. StashBlocks(r, pkt) = g[n]
  BY Zenon DEF StashBlocks, g, n
<1> QED BY <1>5, <1>6, Zenon

\* Dropping blocks from the buffer keeps the invariant.
LEMMA KeepGood ==
  ASSUME Counting, NEW r, NEW h, Good(r, h), NEW K \in SUBSET Held(r)
  PROVE  Good(Keep(r, K), h) /\ SameCursor(r, Keep(r, K))
<1> DEFINE p == Keep(r, K)
<1>1. r \in ReceiverStates /\ IsFiniteSet(Held(r)) /\ Cardinality(Held(r)) <= Cap(r)
  BY Zenon DEF Good
<1>2. /\ p \in ReceiverStates /\ SameCursor(r, p) /\ p.outbox = r.outbox
      /\ p.max_pending = r.max_pending /\ p.pending_overflow = r.pending_overflow
      /\ Held(p) = K /\ \A n \in K : p.pending[n] = r.pending[n]
  BY <1>1, KeepFields, Zenon
<1> HIDE DEF p
<1>3. Faithful(p)
  BY <1>2 DEF Good, Faithful, SameCursor
<1>4. IsFiniteSet(K) /\ Cardinality(K) <= Cap(p)
  <2>1. IsFiniteSet(K) /\ Cardinality(K) <= Cardinality(Held(r))
    BY <1>1, Zenon DEF Counting, CountSubset
  <2>2. Cardinality(K) \in Nat /\ Cardinality(Held(r)) \in Nat
    BY <1>1, <2>1, Zenon DEF Counting, CountIsNat
  <2>3. Cap(p) = Cap(r) /\ Cap(r) \in Nat
    BY <1>1, <1>2 DEF Cap, ReceiverStates
  <2> QED BY <1>1, <2>1, <2>2, <2>3
<1>5. Good(p, h)
  BY <1>2, <1>3, <1>4, Zenon DEF Good, SameCursor
<1> QED BY <1>2, <1>5, Zenon DEF p

\* deliver, repeated up to end with the publisher's blocks, keeps the invariant.
LEMMA DeliverGood ==
  ASSUME NEW r, NEW h, Good(r, h), NEW s \in Session, r.session = {s}, r.bootstrapped,
         NEW end \in Nat, r.next_expected <= end, end <= SeqMax + 1,
         NEW body, \A n \in r.next_expected..(end - 1) : body[n] = Stream[s][n]
  PROVE  /\ Good(DeliverUpTo(r, end, body), h)
         /\ DeliverUpTo(r, end, body).session = {s}
         /\ DeliverUpTo(r, end, body).bootstrapped
         /\ DeliverUpTo(r, end, body).pending = r.pending
         /\ DeliverUpTo(r, end, body).next_expected = end
<1> DEFINE m == r.next_expected
           t == [i \in 1..(end - m) |-> Delivery(m + i - 1, body[m + i - 1])]
           p == DeliverUpTo(r, end, body)
<1>1. r \in ReceiverStates /\ m \in Nat /\ r.base \in Nat /\ r.outbox \in Seq(Item)
  BY GoodType, Zenon
<1>2. \A i \in 1..(end - m) :
        /\ t[i] \in Item /\ IsDelivery(t[i]) /\ t[i].seq = m + i - 1 /\ t[i].seq <= SeqMax
        /\ t[i].body = Stream[s][m + i - 1]
  <2> SUFFICES ASSUME NEW i \in 1..(end - m)
               PROVE  /\ t[i] \in Item /\ IsDelivery(t[i]) /\ t[i].seq = m + i - 1
                      /\ t[i].seq <= SeqMax /\ t[i].body = Stream[s][m + i - 1]
    BY Zenon
  <2>1. m + i - 1 \in m..(end - 1) /\ m + i - 1 \in 0..SeqMax
    BY <1>1, SeqMaxAssumption, SMTT(30)
  <2>2. body[m + i - 1] = Stream[s][m + i - 1] /\ Stream[s][m + i - 1] \in Body
    BY <2>1, StreamAssumption, Zenon
  <2>3. t[i] = Delivery(m + i - 1, body[m + i - 1])
    BY Zenon
  <2> HIDE DEF m, t
  <2>4. /\ Delivery(m + i - 1, body[m + i - 1]) \in DeliveryItem
        /\ IsDelivery(Delivery(m + i - 1, body[m + i - 1]))
        /\ Delivery(m + i - 1, body[m + i - 1]).seq = m + i - 1
        /\ Delivery(m + i - 1, body[m + i - 1]).body = body[m + i - 1]
    BY <2>1, <2>2 DEF Delivery, DeliveryItem, IsDelivery
  <2> QED BY <2>1, <2>2, <2>3, <2>4, SMTT(30) DEF Item
<1>3. end - m \in Nat
  BY <1>1
<1>4. t \in Seq(Item) /\ Len(t) = end - m
  <2>1. t \in [1..(end - m) -> Item]
    BY <1>2, Zenon
  <2> HIDE DEF t, m
  <2> QED BY <1>3, <2>1
<1>5. p = [r EXCEPT !.outbox = @ \o t, !.next_expected = end]
  BY Zenon DEF DeliverUpTo
<1> HIDE DEF t, m, p
<1>6. r.outbox \o t \in Seq(Item) /\ end \in 0..(SeqMax + 1)
  BY <1>1, <1>4
<1>7. /\ p \in ReceiverStates /\ p.outbox = r.outbox \o t /\ p.next_expected = end
      /\ p.session = r.session /\ p.base = r.base /\ p.bootstrapped = r.bootstrapped
      /\ p.pending = r.pending
      /\ p.max_pending = r.max_pending /\ p.pending_overflow = r.pending_overflow
  BY <1>1, <1>5, <1>6, Zenon DEF ReceiverStates
<1>8. Queued(p.outbox, p.base + h, p.next_expected)
  <2>1. Queued(r.outbox, r.base + h, m) /\ r.base + h \in Nat /\ r.base + h <= m /\ h \in Nat
    BY <1>1 DEF Good, m
  <2>2. \A i \in 1..Len(t) : IsDelivery(t[i]) /\ t[i].seq = m + i - 1
    BY <1>2, <1>4, Zenon
  <2>3. m <= end
    BY Zenon DEF m
  <2>4. r.outbox \in Seq(Item) /\ t \in Seq(Item) /\ m \in Nat /\ Len(t) = end - m
    BY <1>1, <1>4, Zenon
  <2>5. Queued(r.outbox \o t, r.base + h, end)
    BY <2>1, <2>2, <2>3, <2>4, ConcatExtendsQueued, Zenon
  <2> QED BY <1>7, <2>5, Zenon
<1>9. \A i \in DOMAIN p.outbox : IsDelivery(p.outbox[i]) =>
        /\ p.outbox[i].seq <= SeqMax
        /\ p.outbox[i].body = Stream[s][p.outbox[i].seq]
  <2> SUFFICES ASSUME NEW i \in DOMAIN p.outbox, IsDelivery(p.outbox[i])
               PROVE  /\ p.outbox[i].seq <= SeqMax
                      /\ p.outbox[i].body = Stream[s][p.outbox[i].seq]
    BY Zenon
  <2>1. /\ DOMAIN p.outbox = 1..(Len(r.outbox) + Len(t)) /\ Len(r.outbox) \in Nat
        /\ DOMAIN r.outbox = 1..Len(r.outbox) /\ Len(t) \in Nat
        /\ \A k \in DOMAIN r.outbox : p.outbox[k] = r.outbox[k]
        /\ \A k \in 1..Len(t) : p.outbox[Len(r.outbox) + k] = t[k]
    <3>1. r.outbox \in Seq(Item) /\ t \in Seq(Item) /\ p.outbox = r.outbox \o t
      BY <1>1, <1>4, <1>7, Zenon
    <3>2. /\ DOMAIN r.outbox = 1..Len(r.outbox) /\ Len(r.outbox) \in Nat /\ Len(t) \in Nat
          /\ DOMAIN (r.outbox \o t) = 1..(Len(r.outbox) + Len(t))
          /\ \A k \in DOMAIN r.outbox : (r.outbox \o t)[k] = r.outbox[k]
          /\ \A k \in 1..Len(t) : (r.outbox \o t)[Len(r.outbox) + k] = t[k]
      BY <3>1, ConcatFacts, Zenon
    <3> QED BY <3>1, <3>2, Zenon
  <2>2. CASE i \in DOMAIN r.outbox
    <3>1. p.outbox[i] = r.outbox[i] /\ IsDelivery(r.outbox[i])
      BY <2>1, <2>2, Zenon
    <3>2. Faithful(r)
      BY Zenon DEF Good
    <3>3. PICK x \in Session : r.session = {x} /\ r.outbox[i].body = Stream[x][r.outbox[i].seq]
      BY <2>2, <3>1, <3>2, Zenon DEF Faithful
    <3>4. x = s /\ r.outbox[i].seq <= SeqMax
      BY <2>2, <3>1, <3>2, <3>3, Zenon DEF Faithful
    <3> QED BY <3>1, <3>3, <3>4, Zenon
  <2>3. CASE i \notin DOMAIN r.outbox
    <3>1. \A a, b \in Nat : \A k \in 1..(a + b) : k \notin 1..a => k - a \in 1..b /\ k = a + (k - a)
      OBVIOUS
    <3>2. i - Len(r.outbox) \in 1..Len(t) /\ i = Len(r.outbox) + (i - Len(r.outbox))
      BY <2>1, <2>3, <3>1, SMTT(30)
    <3>3. p.outbox[i] = t[i - Len(r.outbox)]
      BY <2>1, <3>2, Zenon
    <3> QED BY <1>2, <1>4, <3>2, <3>3
  <2> QED BY <2>2, <2>3, Zenon
<1>10. Faithful(p)
  <2>1. Faithful(r)
    BY Zenon DEF Good
  <2>2. /\ p.session = {} => ~p.bootstrapped
        /\ ~p.bootstrapped => Held(p) = {} /\ p.next_expected = p.base
    BY <1>7, Zenon
  <2>3. \A n \in Held(p) : \E x \in Session : p.session = {x} /\ p.pending[n] = Stream[x][n]
    <3>1. Held(p) = Held(r)
      BY <1>7, Zenon DEF Held
    <3>2. \A n \in Held(r) : \E x \in Session : r.session = {x} /\ r.pending[n] = Stream[x][n]
      BY <2>1, Zenon DEF Faithful
    <3>3. p.pending = r.pending /\ p.session = r.session
      BY <1>7, Zenon
    <3> QED BY <3>1, <3>2, <3>3
  <2>4. p.bootstrapped /\ p.session = {s}
    BY <1>7, Zenon
  <2> QED BY <1>9, <2>2, <2>3, <2>4, Zenon DEF Faithful
<1>11. p.base + h <= p.next_expected
  BY <1>1, <1>7 DEF Good, m
<1>12. Held(p) = Held(r) /\ Cap(p) = Cap(r)
  BY <1>7, Zenon DEF Held, Cap
<1>13. Good(p, h)
  BY <1>7, <1>8, <1>10, <1>11, <1>12, Zenon DEF Good
<1> QED BY <1>7, <1>13, Zenon DEF p
\* What flush_pending takes is the run of held numbers that starts at next_expected.
LEMMA FlushableIsRun ==
  ASSUME Counting, NEW r \in ReceiverStates
  PROVE  LET c == Cardinality(Flushable(r))
         IN  /\ c \in Nat /\ Flushable(r) \subseteq Held(r)
             /\ r.next_expected..(r.next_expected + c - 1) = Flushable(r)
             /\ r.next_expected + c <= SeqMax + 1
<1> DEFINE m == r.next_expected
           R == Flushable(r)
<1>1. m \in Nat /\ m <= SeqMax + 1 /\ Held(r) \in SUBSET (0..SeqMax) /\ IsFiniteSet(Held(r))
  BY HeldType, StateType, Zenon
<1>2. R \subseteq Held(r)
  BY Zenon DEF Flushable
<1>3. \A n \in R : m <= n /\ m..n \subseteq R
  <2>1. CASE \E n \in Held(r) : n < m
    BY <2>1, Zenon DEF Flushable
  <2>2. CASE ~ \E n \in Held(r) : n < m
    <3>1. R = {n \in Held(r) : m..n \subseteq Held(r)}
      BY <2>2, Zenon DEF Flushable
    <3>2. \A n \in Held(r) : n \in Nat /\ m <= n
      BY <1>1, <2>2
    <3> HIDE DEF R, m
    <3> QED BY <1>1, <3>1, <3>2
  <2> QED BY <2>1, <2>2, Zenon
<1>4. R \in SUBSET Nat /\ IsFiniteSet(R)
  BY <1>1, <1>2, SeqMaxAssumption DEF Counting, CountSubset
<1> HIDE DEF R, m
<1>5. Cardinality(R) \in Nat /\ R = m..(m + Cardinality(R) - 1)
  BY <1>1, <1>3, <1>4, Zenon DEF Counting, CountRun
<1>6. m + Cardinality(R) <= SeqMax + 1
  <2>1. CASE Cardinality(R) = 0
    BY <1>1, <2>1, SeqMaxAssumption
  <2>2. CASE Cardinality(R) > 0
    <3>1. m + Cardinality(R) - 1 \in R
      BY <1>1, <1>5, <2>2
    <3>2. m + Cardinality(R) - 1 \in 0..SeqMax
      BY <1>1, <1>2, <3>1, Zenon
    <3> QED BY <1>1, <1>5, <3>2, SeqMaxAssumption
  <2> QED BY <1>5, <2>1, <2>2
<1> QED BY <1>2, <1>5, <1>6, Zenon DEF R, m

\* flush_pending keeps the invariant.
LEMMA FlushGood ==
  ASSUME Counting, NEW r, NEW h, Good(r, h), NEW s \in Session, r.session = {s}, r.bootstrapped
  PROVE  Good(FlushPending(r), h) /\ FlushPending(r).session = {s}
<1> DEFINE run == Flushable(r)
           end == r.next_expected + Cardinality(run)
           k == Keep(r, Held(r) \ run)
<1>1. r \in ReceiverStates /\ r.next_expected \in Nat
  BY GoodType, Zenon
<1>2. /\ Cardinality(run) \in Nat /\ run \subseteq Held(r) /\ end <= SeqMax + 1
      /\ r.next_expected..(end - 1) = run
  BY <1>1, FlushableIsRun
<1> HIDE DEF run
<1>3. Good(k, h) /\ SameCursor(r, k)
  <2>1. Held(r) \ run \in SUBSET Held(r)
    BY Zenon
  <2> QED BY <2>1, KeepGood, Zenon
<1> HIDE DEF k
<1>4. k.session = {s} /\ k.bootstrapped /\ k.next_expected = r.next_expected
  BY <1>3, Zenon DEF SameCursor
<1>5. \A n \in k.next_expected..(end - 1) : r.pending[n] = Stream[s][n]
  <2> SUFFICES ASSUME NEW n \in run PROVE r.pending[n] = Stream[s][n]
    BY <1>2, <1>4, Zenon
  <2>1. PICK x \in Session : r.session = {x} /\ r.pending[n] = Stream[x][n]
    BY <1>2, Zenon DEF Good, Faithful
  <2>2. x = s
    BY <2>1, Zenon
  <2> QED BY <2>1, <2>2, Zenon
<1>6. end \in Nat /\ k.next_expected <= end
  BY <1>1, <1>2, <1>4
<1>7. FlushPending(r) = DeliverUpTo(k, end, r.pending)
  BY Zenon DEF FlushPending, k, run
<1> HIDE DEF end
<1> QED BY <1>2, <1>3, <1>4, <1>5, <1>6, <1>7, DeliverGood

\* The session lock and the bootstrap keep the invariant.
LEMMA LockOnGood ==
  ASSUME NEW r, NEW h, Good(r, h), NEW pkt \in Packet, pkt.seq <= SeqMax + 1,
         r.session = {} \/ r.session = {pkt.session}
  PROVE  /\ Good(LockOn(r, pkt), h)
         /\ LockOn(r, pkt).session = {pkt.session} /\ LockOn(r, pkt).bootstrapped
<1> DEFINE p == LockOn(r, pkt)
           first == IF r.start_sequence = 0 THEN pkt.seq ELSE r.next_expected
<1>1. /\ r \in ReceiverStates /\ pkt.session \in Session /\ {pkt.session} \in SUBSET Session
      /\ pkt.seq \in 0..(SeqMax + 1) /\ first \in 0..(SeqMax + 1)
  <2>1. /\ r \in ReceiverStates /\ pkt.session \in Session /\ {pkt.session} \in SUBSET Session
        /\ pkt.seq \in Nat /\ r.next_expected \in Nat /\ r.next_expected <= SeqMax + 1
    BY GoodType, PacketType, Zenon
  <2> QED BY <2>1, SeqMaxAssumption
<1>2. CASE r.bootstrapped
  <2>1. p = [r EXCEPT !.session = {pkt.session}] /\ r.session = {pkt.session}
    BY <1>2, Zenon DEF LockOn, Good, Faithful
  <2>2. p = r
    BY <1>1, <2>1 DEF ReceiverStates
  <2> QED BY <1>2, <2>1, <2>2, Zenon
<1>3. CASE ~r.bootstrapped
  <2>1. p = [r EXCEPT !.session = {pkt.session}, !.bootstrapped = TRUE,
                      !.next_expected = first, !.base = first]
    BY <1>3, Zenon DEF LockOn
  <2> HIDE DEF first, p
  <2>2. /\ p \in ReceiverStates /\ p.session = {pkt.session} /\ p.bootstrapped
        /\ p.next_expected = first /\ p.base = first
        /\ p.pending = r.pending /\ p.outbox = r.outbox
        /\ p.max_pending = r.max_pending /\ p.pending_overflow = r.pending_overflow
    BY <1>1, <2>1, Zenon DEF ReceiverStates
  <2>3. h = 0
    <3>1. r.next_expected = r.base /\ r.base + h <= r.next_expected /\ h \in Nat
      BY <1>3, Zenon DEF Good, Faithful
    <3>2. r.base \in Int
      BY <1>1 DEF ReceiverStates
    <3> QED BY <3>1, <3>2
  <2>4. Held(p) = {} /\ Held(r) = {} /\ Cap(p) = Cap(r)
    BY <1>3, <2>2, Zenon DEF Good, Faithful, Held, Cap
  <2>5. \A i \in DOMAIN p.outbox : ~IsDelivery(p.outbox[i])
    BY <1>3, <2>2, Zenon DEF Good, Faithful
  <2>6. Faithful(p)
    BY <2>2, <2>4, <2>5, Zenon DEF Faithful
  <2>7. Queued(p.outbox, p.base + h, p.next_expected) /\ p.base + h <= p.next_expected
    BY <1>1, <2>2, <2>3, <2>5 DEF Queued
  <2>8. Good(p, h)
    BY <2>2, <2>3, <2>4, <2>6, <2>7, Zenon DEF Good
  <2> QED BY <2>2, <2>8, Zenon DEF p
<1> QED BY <1>2, <1>3, Zenon

\* Delivering the blocks of a packet in order keeps the invariant and the buffer.
LEMMA DeliverBlocksGood ==
  ASSUME NEW r, NEW h, Good(r, h), NEW pkt \in Packet,
         BlocksOf(pkt, pkt.session), r.session = {pkt.session}, r.bootstrapped,
         pkt.seq <= r.next_expected, r.next_expected < pkt.seq + Len(pkt.blocks)
  PROVE  LET x == DeliverBlocks(r, pkt)
         IN  /\ Good(x, h) /\ x.session = {pkt.session} /\ x.bootstrapped
             /\ x.pending = r.pending /\ x.next_expected = pkt.seq + Len(pkt.blocks)
             /\ x.overflow_drops = r.overflow_drops /\ x.pending_overflow = r.pending_overflow
<1> DEFINE m == r.next_expected
           end == pkt.seq + Len(pkt.blocks)
           b == [n \in pkt.seq..(end - 1) |-> pkt.blocks[n - pkt.seq + 1]]
           x == DeliverBlocks(r, pkt)
<1>1. /\ m \in Nat /\ pkt.seq \in Nat /\ Len(pkt.blocks) \in Nat /\ r \in ReceiverStates
      /\ DOMAIN pkt.blocks = 1..Len(pkt.blocks) /\ pkt.session \in Session
  BY GoodType, PacketType, Zenon
<1>2. x = DeliverUpTo(r, end, b)
  BY Zenon DEF DeliverBlocks
<1>3. end \in Nat /\ m <= end
  BY <1>1
<1>4. \A n \in m..(end - 1) : b[n] = Stream[pkt.session][n]
  <2> SUFFICES ASSUME NEW n \in m..(end - 1) PROVE b[n] = Stream[pkt.session][n]
    BY Zenon
  <2>1. n \in pkt.seq..(end - 1) /\ n - pkt.seq + 1 \in DOMAIN pkt.blocks
    BY <1>1
  <2>2. pkt.seq + (n - pkt.seq + 1) - 1 = n
    BY <1>1
  <2> QED BY <2>1, <2>2, Zenon DEF BlocksOf
<1>5. end <= SeqMax + 1
  <2>1. Len(pkt.blocks) \in DOMAIN pkt.blocks
    BY <1>1
  <2>2. pkt.seq + Len(pkt.blocks) - 1 <= SeqMax
    BY <2>1, Zenon DEF BlocksOf
  <2> QED BY <1>1, <2>2, SeqMaxAssumption
<1>6. x.overflow_drops = r.overflow_drops /\ x.pending_overflow = r.pending_overflow
  <2> DEFINE q == r.outbox \o [i \in 1..(end - m) |-> Delivery(m + i - 1, b[m + i - 1])]
  <2>1. x = [r EXCEPT !.outbox = q, !.next_expected = end]
    BY <1>2, Zenon DEF DeliverUpTo
  <2> HIDE DEF q, end, x
  <2> QED BY <1>1, <2>1, Zenon DEF ReceiverStates
<1> HIDE DEF b, end, x
<1>7. /\ Good(x, h) /\ x.session = {pkt.session} /\ x.bootstrapped
      /\ x.pending = r.pending /\ x.next_expected = end
  BY <1>1, <1>2, <1>3, <1>4, <1>5, DeliverGood
<1> QED BY <1>6, <1>7, Zenon DEF x, end

\* The data part of ingest keeps the invariant and the session.
LEMMA IngestDataGood ==
  ASSUME Counting, NEW r, NEW h, Good(r, h), NEW pkt \in Packet,
         BlocksOf(pkt, pkt.session), r.session = {pkt.session}, r.bootstrapped
  PROVE  Good(IngestData(r, pkt), h) /\ IngestData(r, pkt).session = {pkt.session}
<1> DEFINE m == r.next_expected
           end == pkt.seq + Len(pkt.blocks)
<1>1. /\ m \in Nat /\ m <= SeqMax + 1 /\ pkt.seq \in Nat /\ pkt.blocks \in Seq(Body)
      /\ Len(pkt.blocks) \in Nat /\ DOMAIN pkt.blocks = 1..Len(pkt.blocks)
      /\ pkt.session \in Session
  BY GoodType, PacketType, Zenon
<1>2. CASE end <= m
  BY <1>2, Zenon DEF IngestData
<1>3. CASE ~(end <= m) /\ pkt.seq > m
  <2> DEFINE e == [tag |-> "Gap", from |-> m, to |-> pkt.seq - 1]
             x == Push(r, e)
  <2>1. e \in Item /\ ~IsDelivery(e)
    <3>1. m \in Nat /\ pkt.seq - 1 \in Nat
      BY <1>1, <1>3
    <3> HIDE DEF m
    <3> QED BY <3>1, Zenon DEF Item, GapItem, IsDelivery
  <2>2. Good(x, h) /\ SameCursor(r, x)
    BY <2>1, PushGood, Zenon
  <2>3. IngestData(r, pkt) = StashBlocks(x, pkt)
    BY <1>3, Zenon DEF IngestData
  <2> HIDE DEF x
  <2>4. x.session = {pkt.session} /\ x.bootstrapped
    BY <2>2, Zenon DEF SameCursor
  <2> DEFINE z == StashBlocks(x, pkt)
  <2>5. Good(z, h) /\ SameCursor(x, z)
    BY <1>1, <2>2, <2>4, StashBlocksGood, Zenon
  <2> HIDE DEF e, z
  <2>6. z.session = {pkt.session}
    BY <2>4, <2>5, Zenon DEF SameCursor
  <2> QED BY <2>3, <2>5, <2>6, Zenon DEF z
<1>4. CASE ~(end <= m) /\ ~(pkt.seq > m)
  <2> DEFINE x == DeliverBlocks(r, pkt)
  <2>1. pkt.seq <= m /\ m < end
    BY <1>1, <1>4
  <2>2. IngestData(r, pkt) = FlushPending(x)
    BY <1>4, Zenon DEF IngestData
  <2>3. Good(x, h) /\ x.session = {pkt.session} /\ x.bootstrapped
    BY <2>1, DeliverBlocksGood, Zenon
  <2> HIDE DEF x
  <2>4. ASSUME NEW y, Good(y, h), NEW s \in Session, y.session = {s}, y.bootstrapped
        PROVE  Good(FlushPending(y), h) /\ FlushPending(y).session = {s}
    BY <2>4, FlushGood, Zenon
  <2>5. Good(FlushPending(x), h) /\ FlushPending(x).session = {pkt.session}
    BY <1>1, <2>3, <2>4, Zenon
  <2> QED BY <2>2, <2>5, Zenon
<1> QED BY <1>2, <1>3, <1>4, Zenon

\* ingest keeps the invariant, and a locked session.
LEMMA IngestGood ==
  ASSUME Counting, NEW r, NEW h, Good(r, h), NEW pkt, Honest(pkt)
  PROVE  /\ Good(Ingest(r, pkt), h)
         /\ r.session # {} => Ingest(r, pkt).session = r.session
<1>1. /\ pkt \in Packet /\ pkt.seq <= SeqMax + 1 /\ pkt.seq \in Nat
      /\ pkt.kind \in {"data", "heartbeat", "eos"}
      /\ pkt.kind = "data" => BlocksOf(pkt, pkt.session)
  BY Zenon DEF Honest, Packet, BlocksOf
<1>2. CASE r.session # {} /\ r.session # {pkt.session}
  <2> DEFINE e == [tag |-> "SessionMismatch"]
  <2>1. e \in Item /\ ~IsDelivery(e)
    BY Zenon DEF Item, ErrorItem, IsDelivery
  <2>2. Good(Push(r, e), h) /\ SameCursor(r, Push(r, e))
    BY <2>1, PushGood, Zenon
  <2>3. Ingest(r, pkt) = Push(r, e)
    BY <1>2, Zenon DEF Ingest
  <2> QED BY <2>2, <2>3, Zenon DEF SameCursor
<1>3. CASE r.session = {} \/ r.session = {pkt.session}
  <2> DEFINE x == LockOn(r, pkt)
  <2>1. Good(x, h) /\ x.session = {pkt.session} /\ x.bootstrapped
    BY <1>1, <1>3, LockOnGood, Zenon
  <2>2. CASE pkt.kind = "heartbeat"
    <3> DEFINE e == [tag |-> "Heartbeat", next_seq |-> pkt.seq]
    <3>1. e \in Item /\ ~IsDelivery(e)
      BY <1>1, Zenon DEF Item, MarkItem, IsDelivery
    <3>2. Ingest(r, pkt) = Push(x, e)
      BY <1>3, <2>2, Zenon DEF Ingest
    <3> HIDE DEF x, e
    <3>3. Good(Push(x, e), h) /\ SameCursor(x, Push(x, e))
      BY <2>1, <3>1, PushGood, Zenon
    <3> QED BY <1>3, <2>1, <3>2, <3>3, Zenon DEF SameCursor
  <2>3. CASE pkt.kind = "eos"
    <3> DEFINE e == [tag |-> "EndOfSession", next_seq |-> pkt.seq]
               y == Push(x, e)
               z == [y EXCEPT !.eos = TRUE]
    <3>1. e \in Item /\ ~IsDelivery(e)
      BY <1>1, Zenon DEF Item, MarkItem, IsDelivery
    <3>2. Ingest(r, pkt) = z
      BY <1>3, <2>3, Zenon DEF Ingest
    <3> HIDE DEF x, e
    <3>3. Good(y, h) /\ SameCursor(x, y)
      BY <2>1, <3>1, PushGood, Zenon
    <3> HIDE DEF y
    <3>4. y \in ReceiverStates /\ Faithful(y)
      BY <3>3, Zenon DEF Good
    <3>5. /\ z \in ReceiverStates /\ SameCursor(y, z) /\ z.outbox = y.outbox
          /\ z.pending = y.pending
          /\ z.max_pending = y.max_pending /\ z.pending_overflow = y.pending_overflow
      BY <3>4, Zenon DEF ReceiverStates, SameCursor
    <3> HIDE DEF z
    <3>6. Faithful(z) /\ Held(z) = Held(y) /\ Cap(z) = Cap(y)
      BY <3>4, <3>5 DEF Faithful, Held, SameCursor, Cap
    <3>7. Good(z, h)
      BY <3>3, <3>5, <3>6, Zenon DEF Good, SameCursor
    <3> QED BY <1>3, <2>1, <3>2, <3>3, <3>5, <3>7 DEF SameCursor
  <2>4. CASE pkt.kind = "data"
    <3>1. Ingest(r, pkt) = IngestData(x, pkt)
      BY <1>3, <2>4, Zenon DEF Ingest
    <3> HIDE DEF x
    <3>2. Good(IngestData(x, pkt), h) /\ IngestData(x, pkt).session = {pkt.session}
      BY <1>1, <2>1, <2>4, IngestDataGood, Zenon
    <3> QED BY <1>3, <3>1, <3>2, Zenon
  <2> QED BY <1>1, <2>2, <2>3, <2>4, Zenon
<1> QED BY <1>2, <1>3, Zenon
\* The loop of ingest_retransmit is a recursive function of the frame index.
LEMMA RetransmitStepsDef ==
  ASSUME Counting, NEW r, NEW frames, Len(frames) \in Nat
  PROVE  LET g == RetransmitSteps(r, frames)
         IN  /\ g[0] = r
             /\ \A i \in 1..Len(frames) :
                  g[i] = Ingest(g[i - 1], OneBlock(LockedSession(r), frames[i]))
<1> DEFINE St(x, i) == Ingest(x, OneBlock(LockedSession(r), frames[i]))
           F(g, k) == g = [i \in 0..k |-> IF i = 0 THEN r ELSE St(g[i - 1], i)]
           n == Len(frames)
           D == {k \in 0..n : \E g : F(g, k)}
<1>0. RetransmitSteps(r, frames) = CHOOSE g : F(g, n)
  BY Zenon DEF RetransmitSteps
<1> HIDE DEF St
<1>1. \E g : F(g, 0)
  <2> DEFINE g == [i \in 0..0 |-> r]
  <2>1. F(g, 0)
    OBVIOUS
  <2> HIDE DEF F
  <2> QED BY <2>1, Zenon
<1>2. ASSUME NEW k \in 0..n, NEW g, F(g, k) PROVE \E p : F(p, k + 1)
  <2> DEFINE p == [i \in 0..(k + 1) |-> IF i <= k THEN g[i] ELSE St(g[k], k + 1)]
  <2>1. \A i \in 0..(k + 1) : p[i] = IF i = 0 THEN r ELSE St(p[i - 1], i)
    <3> SUFFICES ASSUME NEW i \in 0..(k + 1)
                 PROVE  p[i] = IF i = 0 THEN r ELSE St(p[i - 1], i)
      BY Zenon
    <3>1. CASE i = 0
      BY <1>2, <3>1
    <3>2. CASE i > 0 /\ i <= k
      <4>1. p[i] = g[i] /\ p[i - 1] = g[i - 1]
        BY <3>2
      <4>2. g[i] = St(g[i - 1], i)
        BY <1>2, <3>2
      <4> QED BY <3>2, <4>1, <4>2
    <3>3. CASE i = k + 1
      <4>1. p[i - 1] = g[k] /\ p[i] = St(g[k], k + 1)
        BY <3>3
      <4> QED BY <3>3, <4>1
    <3> QED BY <3>1, <3>2, <3>3
  <2>2. F(p, k + 1)
    BY <2>1, Zenon
  <2> HIDE DEF p, F
  <2> QED BY <2>2, Zenon
<1> HIDE DEF F
<1>3. 0 \in D /\ \A i \in 0..n : i \in D /\ i < n => i + 1 \in D
  BY <1>1, <1>2
<1>4. \E g : F(g, n)
  <2> HIDE DEF D
  <2>1. n \in Nat
    BY Zenon
  <2> HIDE DEF n
  <2>2. 0..n \subseteq D
    BY <1>3, <2>1, Zenon DEF Counting, Induction
  <2>3. n \in D
    BY <2>1, <2>2
  <2> QED BY <2>3, Zenon DEF D
<1>5. F(CHOOSE g : F(g, n), n)
  BY <1>4, Zenon
<1> DEFINE f == RetransmitSteps(r, frames)
<1>6. f = [i \in 0..n |-> IF i = 0 THEN r ELSE St(f[i - 1], i)]
  BY <1>0, <1>5, Zenon DEF F
<1> HIDE DEF f
<1>7. f[0] = r /\ \A i \in 1..n : f[i] = St(f[i - 1], i)
  BY <1>6
<1> QED BY <1>7, Zenon DEF f, St

\* The packet made of a frame holds what the publisher numbered.
LEMMA FramesHonest ==
  ASSUME NEW s \in Session, NEW frames \in Seq(Frame), OfSession(frames, s),
         NEW i \in DOMAIN frames
  PROVE  frames[i] \in Frame /\ Honest(OneBlock(s, frames[i]))
<1> DEFINE f == frames[i]
           p == OneBlock(s, f)
<1>1. f \in Frame /\ f.body = Stream[s][f.sequence]
  BY DEF OfSession
<1>2. f.sequence \in 0..SeqMax /\ f.body \in Body
  BY <1>1, Zenon DEF Frame
<1> HIDE DEF f
<1>3. p \in Packet /\ p.seq <= SeqMax + 1
  BY <1>2, SeqMaxAssumption DEF Packet, OneBlock
<1>4. \A j \in DOMAIN p.blocks :
        p.seq + j - 1 <= SeqMax /\ p.blocks[j] = Stream[p.session][p.seq + j - 1]
  <2>1. DOMAIN p.blocks = {1} /\ p.blocks[1] = f.body
    BY DEF OneBlock
  <2>2. p.seq + 1 - 1 = f.sequence /\ p.session = s
    BY <1>2, SeqMaxAssumption DEF OneBlock
  <2> HIDE DEF p
  <2> QED BY <1>1, <1>2, <2>1, <2>2
<1>5. Honest(p)
  BY <1>3, <1>4, Zenon DEF Honest
<1> QED BY <1>1, <1>5, Zenon DEF f

\* ingest_retransmit keeps the invariant.
LEMMA RetransmitGood ==
  ASSUME Counting, NEW r, NEW h, Good(r, h), NEW s \in Session, r.session = {s},
         NEW frames \in Seq(Frame), OfSession(frames, s)
  PROVE  Good(IngestRetransmit(r, frames), h)
<1> DEFINE g == RetransmitSteps(r, frames)
           n == Len(frames)
           P(i) == OneBlock(s, frames[i])
           D == {i \in 0..n : Good(g[i], h) /\ g[i].session = {s}}
<1>1. n \in Nat /\ DOMAIN frames = 1..n
  OBVIOUS
<1>2. g[0] = r /\ \A i \in 1..n : g[i] = Ingest(g[i - 1], P(i))
  <2>1. LockedSession(r) = s
    BY Zenon DEF LockedSession
  <2>2. \A i \in 1..n : g[i] = Ingest(g[i - 1], OneBlock(LockedSession(r), frames[i]))
    BY <1>1, RetransmitStepsDef
  <2>3. g[0] = r
    BY <1>1, RetransmitStepsDef, SMTT(30)
  <2> QED BY <2>1, <2>2, <2>3, Zenon
<1>3. \A i \in 1..n : Honest(P(i))
  BY <1>1, FramesHonest, Zenon
<1> HIDE DEF g, n, P
<1>4. 0 \in D
  <2>1. g[0] = r
    BY <1>1, <1>2, Zenon
  <2> QED BY <1>1, <2>1
<1>5. \A i \in 0..n : i \in D /\ i < n => i + 1 \in D
  <2> SUFFICES ASSUME NEW i \in 0..n, i \in D, i < n
               PROVE  i + 1 \in D
    BY Zenon
  <2>1. i + 1 \in 0..n /\ i + 1 \in 1..n
    BY <1>1
  <2>2. g[i + 1] = Ingest(g[i], P(i + 1))
    BY <1>1, <1>2, <2>1
  <2>3. Good(g[i + 1], h) /\ g[i + 1].session = {s}
    BY <1>3, <2>1, <2>2, IngestGood, ZenonT(60)
  <2> QED BY <2>1, <2>3, Zenon
<1>6. n \in D
  <2> HIDE DEF D
  <2>1. 0..n \subseteq D
    BY <1>1, <1>4, <1>5, Zenon DEF Counting, Induction
  <2>2. n \in 0..n
    BY <1>1
  <2> QED BY <2>1, <2>2, Zenon
<1>7. IngestRetransmit(r, frames) = g[n]
  BY Zenon DEF IngestRetransmit, g, n
<1> QED BY <1>6, <1>7, Zenon
-----------------------------------------------------------------------------
(* poll_next *)

\* Only a Message or a DecodeError is a delivery, and it has a number.
LEMMA DeliveryHasSeq ==
  ASSUME NEW e \in Item, IsDelivery(e)
  PROVE  e.seq \in Nat
<1>1. e \notin GapItem /\ e \notin MarkItem /\ e \notin ErrorItem
  BY Zenon DEF IsDelivery, GapItem, MarkItem, ErrorItem
<1>2. e \in DeliveryItem
  BY <1>1, Zenon DEF Item
<1> QED BY <1>2, Zenon DEF DeliveryItem

\* Taking the front of the queue takes its smallest number.
LEMMA TailQueued ==
  ASSUME NEW q \in Seq(Item), q # <<>>, NEW lo \in Nat, NEW hi \in Nat, Queued(q, lo, hi)
  PROVE  /\ IsDelivery(q[1]) => q[1].seq = lo /\ lo < hi /\ Queued(Tail(q), lo + 1, hi)
         /\ ~IsDelivery(q[1]) => Queued(Tail(q), lo, hi)
<1> DEFINE t == Tail(q)
           n == Len(q)
<1>1. /\ n \in Nat /\ n >= 1 /\ DOMAIN q = 1..n
      /\ DOMAIN t = 1..(n - 1) /\ \A i \in 1..(n - 1) : t[i] = q[i + 1]
  OBVIOUS
<1>2. \A i \in 1..n : IsDelivery(q[i]) => q[i].seq \in Nat
  BY <1>1, DeliveryHasSeq
<1> HIDE DEF t, n
<1>3. \A i \in 1..(n - 1) : i + 1 \in 1..n
  BY <1>1
<1>4. \A j \in 1..n : j = 1 \/ (j - 1 \in 1..(n - 1) /\ j = (j - 1) + 1)
  BY <1>1
<1>5. \A i, j \in 1..(n - 1) : IsDelivery(t[i]) /\ IsDelivery(t[j]) /\ i < j => t[i].seq < t[j].seq
  <2> SUFFICES ASSUME NEW i \in 1..(n - 1), NEW j \in 1..(n - 1),
                      IsDelivery(t[i]), IsDelivery(t[j]), i < j
               PROVE  t[i].seq < t[j].seq
    BY Zenon
  <2>1. i + 1 \in DOMAIN q /\ j + 1 \in DOMAIN q /\ i + 1 < j + 1
    BY <1>1
  <2>2. t[i] = q[i + 1] /\ t[j] = q[j + 1]
    BY <1>1, Zenon
  <2> QED BY <2>1, <2>2, Zenon DEF Queued
<1>6. CASE ~IsDelivery(q[1])
  <2>1. \A i \in DOMAIN t : IsDelivery(t[i]) => lo <= t[i].seq /\ t[i].seq < hi
    BY <1>1, <1>3, Zenon DEF Queued
  <2>2. ASSUME NEW k \in lo..(hi - 1)
        PROVE  \E i \in DOMAIN t : IsDelivery(t[i]) /\ t[i].seq = k
    <3>1. PICK j \in DOMAIN q : IsDelivery(q[j]) /\ q[j].seq = k
      BY Zenon DEF Queued
    <3>2. j - 1 \in 1..(n - 1) /\ j = (j - 1) + 1
      BY <1>1, <1>4, <1>6, <3>1, Zenon
    <3>3. t[j - 1] = q[j]
      BY <1>1, <3>2, Zenon
    <3> QED BY <1>1, <3>1, <3>2, <3>3, Zenon
  <2> QED BY <1>1, <1>5, <1>6, <2>1, <2>2, Zenon DEF Queued, t
<1>7. CASE IsDelivery(q[1])
  <2>1. 1 \in DOMAIN q /\ q[1].seq \in Nat /\ lo <= q[1].seq /\ q[1].seq < hi
    BY <1>1, <1>2, <1>7 DEF Queued
  <2>2. lo \in lo..(hi - 1)
    BY <2>1
  <2>3. PICK j \in DOMAIN q : IsDelivery(q[j]) /\ q[j].seq = lo
    BY <2>2, Zenon DEF Queued
  <2>4. j \in Nat /\ (j = 1 \/ 1 < j)
    BY <1>1
  <2>5. q[1].seq = lo
    <3>1. CASE 1 < j
      <4>1. q[1].seq < lo
        BY <1>7, <2>1, <2>3, <3>1, Zenon DEF Queued
      <4> QED BY <2>1, <4>1
    <3> QED BY <2>3, <2>4, <3>1, Zenon
  <2>6. \A i \in DOMAIN t : IsDelivery(t[i]) => lo + 1 <= t[i].seq /\ t[i].seq < hi
    <3> SUFFICES ASSUME NEW i \in 1..(n - 1), IsDelivery(t[i])
                 PROVE  lo + 1 <= t[i].seq /\ t[i].seq < hi
      BY <1>1, Zenon
    <3>1. i + 1 \in DOMAIN q /\ 1 < i + 1 /\ t[i] = q[i + 1] /\ t[i].seq \in Nat
      BY <1>1, <1>2, <1>3
    <3>2. q[1].seq < q[i + 1].seq /\ q[i + 1].seq < hi
      BY <1>7, <2>1, <3>1, Zenon DEF Queued
    <3> QED BY <2>5, <3>1, <3>2
  <2>7. ASSUME NEW k \in (lo + 1)..(hi - 1)
        PROVE  \E i \in DOMAIN t : IsDelivery(t[i]) /\ t[i].seq = k
    <3>0. k \in lo..(hi - 1) /\ k # lo
      OBVIOUS
    <3>1. PICK m \in DOMAIN q : IsDelivery(q[m]) /\ q[m].seq = k
      BY <3>0, Zenon DEF Queued
    <3>2. m - 1 \in 1..(n - 1) /\ m = (m - 1) + 1
      BY <1>1, <1>4, <2>5, <3>0, <3>1, Zenon
    <3>3. t[m - 1] = q[m]
      BY <1>1, <3>2, Zenon
    <3> QED BY <1>1, <3>1, <3>2, <3>3, Zenon
  <2>8. Queued(t, lo + 1, hi)
    BY <1>1, <1>5, <2>6, <2>7, SMTT(30) DEF Queued
  <2> QED BY <1>7, <2>1, <2>5, <2>8, Zenon DEF t
<1> QED BY <1>6, <1>7, Zenon

\* poll_next hands out the next number, with the publisher's body, and keeps the
\* invariant for one delivery more.
LEMMA YieldGood ==
  ASSUME NEW r, NEW h, Good(r, h), r.outbox # <<>>
  PROVE  LET e == Head(r.outbox)
             p == [r EXCEPT !.outbox = Tail(@)]
         IN  /\ Good(p, IF IsDelivery(e) THEN h + 1 ELSE h)
             /\ IsDelivery(e) =>
                  /\ e.seq = p.base + h
                  /\ \E s \in Session : p.session = {s} /\ e.body = Stream[s][e.seq]
<1> DEFINE q == r.outbox
           e == q[1]
           p == [r EXCEPT !.outbox = Tail(@)]
           k == IF IsDelivery(e) THEN h + 1 ELSE h
<1>1. /\ r \in ReceiverStates /\ q \in Seq(Item) /\ h \in Nat
      /\ r.base \in Nat /\ r.next_expected \in Nat /\ r.base + h <= r.next_expected
  BY GoodType, Zenon
<1>2. /\ Tail(q) \in Seq(Item) /\ DOMAIN q = 1..Len(q) /\ 1 \in DOMAIN q
      /\ \A i \in DOMAIN Tail(q) : i + 1 \in DOMAIN q /\ Tail(q)[i] = q[i + 1]
      /\ Head(q) = e
  BY <1>1
<1>3. /\ p \in ReceiverStates /\ p.outbox = Tail(q)
      /\ p.session = r.session /\ p.next_expected = r.next_expected /\ p.base = r.base
      /\ p.bootstrapped = r.bootstrapped /\ p.pending = r.pending
      /\ p.max_pending = r.max_pending /\ p.pending_overflow = r.pending_overflow
  BY <1>1, <1>2, Zenon DEF ReceiverStates
<1> HIDE DEF p
<1>4. Queued(q, r.base + h, r.next_expected)
  BY Zenon DEF Good
<1>5. /\ IsDelivery(e) => /\ e.seq = r.base + h
                          /\ r.base + h < r.next_expected
                          /\ Queued(Tail(q), r.base + h + 1, r.next_expected)
      /\ ~IsDelivery(e) => Queued(Tail(q), r.base + h, r.next_expected)
  <2> DEFINE lo == r.base + h
             hi == r.next_expected
  <2>1. lo \in Nat /\ hi \in Nat /\ q \in Seq(Item) /\ q # <<>> /\ Queued(q, lo, hi)
    BY <1>1, <1>4
  <2> HIDE DEF lo, hi, q
  <2>2. /\ IsDelivery(q[1]) => q[1].seq = lo /\ lo < hi /\ Queued(Tail(q), lo + 1, hi)
        /\ ~IsDelivery(q[1]) => Queued(Tail(q), lo, hi)
    BY <2>1, TailQueued, SMTT(30)
  <2> QED BY <2>2, Zenon DEF lo, hi
<1>6. IsDelivery(e) => \E s \in Session : r.session = {s} /\ e.body = Stream[s][e.seq]
  BY <1>2, SMTT(30) DEF Good, Faithful
<1>7. Faithful(p)
  BY <1>2, <1>3 DEF Good, Faithful, Held
<1>8. IsFiniteSet(Held(p)) /\ Cardinality(Held(p)) <= Cap(p)
  BY <1>3, Zenon DEF Good, Held, Cap
<1> HIDE DEF e, q
<1>9. CASE IsDelivery(e)
  <2>1. r.base + h + 1 = p.base + (h + 1) /\ h + 1 \in Nat /\ p.base + (h + 1) <= p.next_expected
    BY <1>1, <1>3, <1>5, <1>9
  <2>2. Good(p, h + 1)
    BY <1>3, <1>5, <1>7, <1>8, <1>9, <2>1, Zenon DEF Good
  <2> QED BY <1>2, <1>3, <1>5, <1>6, <1>9, <2>2, Zenon DEF p, q
<1>10. CASE ~IsDelivery(e)
  <2>1. Good(p, h)
    BY <1>1, <1>3, <1>5, <1>7, <1>8, <1>10, Zenon DEF Good
  <2> QED BY <1>2, <1>10, <2>1, Zenon DEF p, q
<1> QED BY <1>9, <1>10, Zenon
-----------------------------------------------------------------------------
(* The stream. *)

Inv == Good(rx, handed) /\ finished \in BOOLEAN

\* A fresh receiver is good: nothing is held, nothing is queued (ReceiverState::new).
LEMMA InitInv ==
  ASSUME Counting
  PROVE  Init => Inv
<1> SUFFICES ASSUME Init PROVE Inv
  BY Zenon
<1>1. PICK p \in Pins, s \in Starts, m \in Caps, o \in Policies : rx = New(p, s, m, o)
  BY Zenon DEF Init
<1>2. /\ p \in SUBSET Session /\ s \in 0..SeqMax /\ m \in Nat
  BY ConfigAssumption
<1>3. [n \in {} |-> n] \in Buffer /\ DOMAIN [n \in {} |-> n] = {}
  <2>1. [n \in {} |-> n] \in [{} -> Body]
    BY Zenon
  <2>2. {} \in SUBSET (0..SeqMax)
    BY Zenon
  <2> QED BY <2>1, <2>2, Zenon DEF Buffer
<1>4. /\ rx.session = p /\ rx.next_expected = s /\ rx.base = s /\ rx.bootstrapped = FALSE
      /\ rx.pending = [n \in {} |-> n] /\ rx.outbox = <<>>
      /\ rx.max_pending = m /\ rx.pending_overflow = o
  BY <1>1, Zenon DEF New
<1>5. rx \in ReceiverStates
  <2>1. s \in 0..(SeqMax + 1) /\ 0 \in Nat /\ <<>> \in Seq(Item)
    BY <1>2, SeqMaxAssumption
  <2> QED BY <1>1, <1>2, <1>3, <2>1, Zenon DEF New, ReceiverStates
<1>6. Held(rx) = {}
  BY <1>3, <1>4, Zenon DEF Held
<1>7. IsFiniteSet(Held(rx)) /\ Cardinality(Held(rx)) = 0
  BY <1>6, Zenon DEF Counting, CountNone
<1>8. Cap(rx) \in Nat
  BY <1>2, <1>4, Zenon DEF Cap
<1>9. DOMAIN rx.outbox = {}
  BY <1>4
<1>10. Faithful(rx)
  BY <1>4, <1>6, <1>9, Zenon DEF Faithful
<1>11. handed = 0 /\ finished \in BOOLEAN
  BY Zenon DEF Init
<1>12. rx.base + 0 = s /\ rx.next_expected = s /\ s \in Nat
  BY <1>2, <1>4
<1>13. Queued(rx.outbox, s, s)
  BY <1>9, <1>12 DEF Queued
<1> QED BY <1>5, <1>7, <1>8, <1>10, <1>11, <1>12, <1>13 DEF Inv, Good

\* A delivery handed out is the next number, with the publisher's body.
HandedNext ==
  handed' # handed =>
    /\ item'.seq = rx'.base + handed
    /\ \E s \in Session : rx'.session = {s} /\ item'.body = Stream[s][item'.seq]

\* What a poll that returns an item does, for the invariant and for the caller.
LEMMA YieldStep ==
  ASSUME NEW r, Good(r, handed), r.outbox # <<>>, Yield(r)
  PROVE  Inv' /\ HandedNext
<1> DEFINE e == Head(r.outbox)
           p == [r EXCEPT !.outbox = Tail(@)]
<1>1. /\ item' = e /\ rx' = p /\ finished' \in BOOLEAN
      /\ handed' = IF IsDelivery(e) THEN handed + 1 ELSE handed
  BY Zenon DEF Yield
<1>2. /\ Good(p, IF IsDelivery(e) THEN handed + 1 ELSE handed)
      /\ IsDelivery(e) =>
           /\ e.seq = p.base + handed
           /\ \E s \in Session : p.session = {s} /\ e.body = Stream[s][e.seq]
  BY YieldGood, Zenon
<1> HIDE DEF e, p
<1>3. Good(rx', handed')
  BY <1>1, <1>2, Zenon
<1> QED BY <1>1, <1>2, <1>3, Zenon DEF Inv, HandedNext

\* Every step keeps the invariant, and hands out only the next number of the stream.
LEMMA NextStep ==
  ASSUME Counting, Inv, [Next]_vars
  PROVE  Inv' /\ HandedNext
<1>0. Good(rx, handed) /\ finished \in BOOLEAN
  BY Zenon DEF Inv
<1>1. ASSUME NEW r \in Entry PROVE Good(r, handed)
  <2>1. CASE r = rx
    BY <1>0, <2>1, Zenon
  <2>2. CASE \E frames \in Repairs : Usable(frames) /\ r = IngestRetransmit(rx, frames)
    <3>1. PICK frames \in Repairs : Usable(frames) /\ r = IngestRetransmit(rx, frames)
      BY <2>2, Zenon
    <3>2. PICK s \in Session : rx.session = {s} /\ OfSession(frames, s)
      BY <3>1, Zenon DEF Usable
    <3>3. frames \in Seq(Frame)
      BY RepairAssumption, Zenon
    <3>4. Good(IngestRetransmit(rx, frames), handed)
      BY <1>0, <3>2, <3>3, RetransmitGood, Zenon
    <3> QED BY <3>1, <3>4, Zenon
  <2> QED BY <1>1, <2>1, <2>2, Zenon DEF Entry
<1>2. ASSUME NEW r \in Entry, PollBuffered(r)
      PROVE  Inv' /\ HandedNext
  BY <1>1, <1>2, YieldStep, Zenon DEF PollBuffered
<1>3. ASSUME NEW r \in Entry, NEW pkt \in Datagrams, Recv(r, pkt)
      PROVE  Inv' /\ HandedNext
  <2> DEFINE p == Ingest(r, pkt)
  <2>1. Good(p, handed)
    BY <1>1, DatagramAssumption, IngestGood, Zenon
  <2>2. IF p.outbox # <<>> THEN Yield(p)
        ELSE rx' = p /\ item' = Nothing /\ UNCHANGED <<finished, handed>>
    BY <1>3, Zenon DEF Recv
  <2> HIDE DEF p
  <2>3. CASE p.outbox # <<>>
    BY <2>1, <2>2, <2>3, YieldStep, Zenon
  <2>4. CASE p.outbox = <<>>
    BY <1>0, <2>1, <2>2, <2>4, Zenon DEF Inv, HandedNext
  <2> QED BY <2>3, <2>4, Zenon
<1>4. ASSUME NEW r \in Entry, RecvError(r) \/ PollNothing(r)
      PROVE  Inv' /\ HandedNext
  BY <1>0, <1>1, <1>4, Zenon DEF RecvError, PollNothing, Inv, HandedNext
<1>5. CASE UNCHANGED vars
  BY <1>0, <1>5, Zenon DEF vars, Inv, HandedNext
<1> QED BY <1>2, <1>3, <1>4, <1>5, Zenon DEF Next, Poll

LEMMA QueueStaysInOrderStep ==
  Inv => QueueInOrder
<1> SUFFICES ASSUME Inv PROVE QueueInOrder
  BY Zenon
<1> DEFINE q == rx.outbox
           D == {i \in DOMAIN q : IsDelivery(q[i])}
           lo == rx.base + handed
           hi == rx.next_expected
<1>1. Queued(q, lo, hi) /\ q \in Seq(Item) /\ lo \in Nat /\ hi \in Nat
  BY SeqMaxAssumption DEF Inv, Good, ReceiverStates
<1> HIDE DEF q, lo, hi
<1>2. ASSUME NEW i \in D PROVE q[i].seq \in lo..(hi - 1)
  <2>1. q[i] \in Item /\ IsDelivery(q[i])
    BY <1>1
  <2>2. q[i].seq \in Nat
    BY <2>1, DeliveryHasSeq, Zenon
  <2> QED BY <1>1, <2>2 DEF Queued
<1>3. \A n \in lo..(hi - 1) : \E i \in D : q[i].seq = n
  BY <1>1, Zenon DEF Queued
<1>4. {q[i].seq : i \in D} = lo..(hi - 1)
  BY <1>2, <1>3, Zenon
<1>5. \A i, j \in D : i < j => q[i].seq < q[j].seq
  BY <1>1, Zenon DEF Queued
<1> QED BY <1>4, <1>5, Zenon DEF QueueInOrder, q, lo, hi

-----------------------------------------------------------------------------
(* What a receiver is told, and where its Gaps lie. *)

GapsOf(q) == {q[i] : i \in {j \in DOMAIN q : q[j].tag = "Gap"}}

\* A Gap is about at least one number, from the publisher's first number lo on, before
\* the first one not sent hi, and from where the cursor was or before.
Between(gap, next, lo, hi) ==
  lo <= gap.from /\ gap.from <= gap.to /\ gap.to < hi /\ gap.from <= next

\* What is held or delivered is below top.
Below(r, top) ==
  /\ \A n \in Held(r) : n < top
  /\ r.next_expected <= top \/ r.next_expected = r.base

\* Whatever r was told came from a publisher of session s that has sent lo..hi-1.
Told(r, s, lo, hi, top) ==
  /\ r.bootstrapped => r.session = {s}
  /\ r.bootstrapped \/ r.start_sequence # 0 => lo <= r.base
  /\ \A gap \in GapsOf(r.outbox) : r.bootstrapped /\ Between(gap, r.next_expected, lo, hi)
  /\ Below(r, top)

\* From r to p the cursor may move on and deliveries and errors be queued, but no Gap.
Moves(r, p, top) ==
  /\ p.session = r.session /\ p.bootstrapped = r.bootstrapped
  /\ p.start_sequence = r.start_sequence /\ p.base = r.base
  /\ p.next_expected >= r.next_expected
  /\ GapsOf(p.outbox) \subseteq GapsOf(r.outbox)
  /\ Below(r, top) => Below(p, top)

Cursors(r) == r.next_expected \in Nat /\ r.base \in Nat

\* The Gaps of a queue when one item, or several that are no Gaps, join it.
LEMMA GapsAppend ==
  ASSUME NEW q \in Seq(Item), NEW e \in Item
  PROVE  GapsOf(Append(q, e)) \subseteq GapsOf(q) \cup {x \in {e} : x.tag = "Gap"}
<1> SUFFICES ASSUME NEW i \in DOMAIN Append(q, e), Append(q, e)[i].tag = "Gap"
             PROVE  Append(q, e)[i] \in GapsOf(q) \cup {x \in {e} : x.tag = "Gap"}
  BY Zenon DEF GapsOf
<1>1. CASE i \in DOMAIN q
  <2>1. Append(q, e)[i] = q[i]
    BY <1>1
  <2> QED BY <1>1, <2>1, Zenon DEF GapsOf
<1>2. CASE i \notin DOMAIN q
  <2>1. Append(q, e)[i] = e
    BY <1>2
  <2> QED BY <2>1, Zenon
<1> QED BY <1>1, <1>2, Zenon

LEMMA GapsConcat ==
  ASSUME NEW q \in Seq(Item), NEW t \in Seq(Item), \A i \in 1..Len(t) : t[i].tag # "Gap"
  PROVE  GapsOf(q \o t) \subseteq GapsOf(q)
<1> SUFFICES ASSUME NEW i \in DOMAIN (q \o t), (q \o t)[i].tag = "Gap"
             PROVE  (q \o t)[i] \in GapsOf(q)
  BY Zenon DEF GapsOf
<1> DEFINE u == q \o t
<1>1. /\ DOMAIN q = 1..Len(q) /\ Len(q) \in Nat /\ Len(t) \in Nat
      /\ DOMAIN u = 1..(Len(q) + Len(t))
      /\ \A k \in DOMAIN q : u[k] = q[k]
      /\ \A k \in 1..Len(t) : u[Len(q) + k] = t[k]
  BY ConcatFacts
<1> HIDE DEF u
<1>2. i \in DOMAIN u /\ u[i].tag = "Gap"
  BY Zenon DEF u
<1>3. CASE i \in DOMAIN q
  <2>1. u[i] = q[i]
    BY <1>1, <1>3, Zenon
  <2> QED BY <1>2, <1>3, <2>1, Zenon DEF GapsOf, u
<1>4. CASE i \notin DOMAIN q
  <2>1. PICK k \in 1..Len(t) : i = Len(q) + k
    <3>1. i - Len(q) \in 1..Len(t) /\ i = Len(q) + (i - Len(q))
      BY <1>1, <1>2, <1>4
    <3> QED BY <3>1, Zenon
  <2>2. u[i] = t[k]
    BY <1>1, <2>1, Zenon
  <2> QED BY <1>2, <2>1, <2>2, Zenon
<1> QED BY <1>3, <1>4, Zenon

LEMMA GapsTail ==
  ASSUME NEW q \in Seq(Item), q # <<>>
  PROVE  /\ GapsOf(Tail(q)) \subseteq GapsOf(q)
         /\ Head(q).tag = "Gap" => Head(q) \in GapsOf(q)
<1>1. 1 \in DOMAIN q /\ Head(q) = q[1]
  OBVIOUS
<1>2. ASSUME NEW i \in DOMAIN Tail(q) PROVE i + 1 \in DOMAIN q /\ Tail(q)[i] = q[i + 1]
  OBVIOUS
<1> QED BY <1>1, <1>2 DEF GapsOf

\* Moving on twice is moving on; and it keeps what the receiver was told.
LEMMA MovesTwice ==
  ASSUME NEW r, NEW x, NEW p, Cursors(r), Cursors(x), Cursors(p), NEW top,
         Moves(r, x, top), Moves(x, p, top)
  PROVE  Moves(r, p, top)
BY DEF Moves, Cursors

LEMMA MovesTold ==
  ASSUME NEW r, NEW p, Cursors(r), Cursors(p), NEW top, Moves(r, p, top),
         NEW s, NEW lo \in Nat, NEW hi \in Nat,
         Told(r, s, lo, hi, top), \A gap \in GapsOf(r.outbox) : gap.from \in Nat
  PROVE  Told(p, s, lo, hi, top)
<1> SUFFICES ASSUME NEW gap \in GapsOf(p.outbox)
             PROVE  p.bootstrapped /\ Between(gap, p.next_expected, lo, hi)
  BY Zenon DEF Told, Moves
<1>1. /\ gap \in GapsOf(r.outbox) /\ p.next_expected >= r.next_expected
      /\ p.bootstrapped = r.bootstrapped
  BY Zenon DEF Moves
<1>2. r.bootstrapped /\ Between(gap, r.next_expected, lo, hi) /\ gap.from \in Nat
  BY <1>1, Zenon DEF Told
<1> QED BY <1>1, <1>2 DEF Between, Cursors

\* The numbers of a Gap that is queued.
LEMMA GapType ==
  ASSUME NEW q \in Seq(Item), NEW gap \in GapsOf(q)
  PROVE  gap.from \in Nat /\ gap.to \in Nat /\ gap \in GapItem
<1>1. PICK i \in DOMAIN q : gap = q[i] /\ q[i].tag = "Gap"
  BY Zenon DEF GapsOf
<1>2. q[i] \in Item
  BY <1>1
<1>3. q[i] \in GapItem
  BY <1>1, <1>2, Zenon DEF Item, DeliveryItem, MarkItem, ErrorItem, GapItem
<1> QED BY <1>1, <1>3, Zenon DEF GapItem

LEMMA CursorsOf == ASSUME NEW r \in ReceiverStates PROVE Cursors(r)
BY SeqMaxAssumption DEF ReceiverStates, Cursors
-----------------------------------------------------------------------------
(* The methods. *)

LEMMA PushMoves ==
  ASSUME NEW r \in ReceiverStates, NEW e \in Item, e.tag # "Gap", NEW top
  PROVE  Moves(r, Push(r, e), top)
<1> DEFINE p == Push(r, e)
<1>1. /\ p.session = r.session /\ p.bootstrapped = r.bootstrapped
      /\ p.start_sequence = r.start_sequence /\ p.base = r.base
      /\ p.next_expected = r.next_expected /\ p.outbox = Append(r.outbox, e)
      /\ r.outbox \in Seq(Item) /\ p.pending = r.pending
  BY Zenon DEF Push, ReceiverStates
<1>2. Cursors(r)
  BY CursorsOf, Zenon
<1> HIDE DEF p
<1>3. GapsOf(p.outbox) \subseteq GapsOf(r.outbox)
  BY <1>1, GapsAppend
<1> QED BY <1>1, <1>2, <1>3 DEF Moves, Cursors, Below, Held, p

LEMMA StashMoves ==
  ASSUME Counting, NEW r \in ReceiverStates, NEW seq \in 0..SeqMax, NEW body \in Body, NEW top, seq < top
  PROVE  Moves(r, StashPending(r, seq, body), top)
<1>1. Cursors(r)
  BY CursorsOf, Zenon
<1>2. ASSUME NEW p, p.session = r.session, p.bootstrapped = r.bootstrapped,
             p.start_sequence = r.start_sequence, p.base = r.base,
             p.next_expected = r.next_expected, p.outbox = r.outbox,
             Held(p) \subseteq Held(r) \cup {seq}
      PROVE  Moves(r, p, top)
  BY <1>1, <1>2 DEF Moves, Cursors, Below
<1>3. CASE seq \in Held(r)
  BY <1>2, <1>3, Zenon DEF StashPending
<1>4. CASE seq \notin Held(r) /\ Cardinality(Held(r)) < r.max_pending
  <2>1. StashPending(r, seq, body) = Insert(r, seq, body)
    BY <1>4, Zenon DEF StashPending
  <2> DEFINE p == Insert(r, seq, body)
  <2>2. /\ SameCursor(r, p) /\ p.outbox = r.outbox /\ Held(p) = Held(r) \cup {seq}
    BY InsertFields
  <2>3. p.start_sequence = r.start_sequence
    BY Zenon DEF Insert, ReceiverStates
  <2> QED BY <1>2, <2>1, <2>2, <2>3, Zenon DEF SameCursor
<1>5. CASE /\ seq \notin Held(r) /\ ~(Cardinality(Held(r)) < r.max_pending)
           /\ r.pending_overflow = "DropOldest"
  <2>1. StashPending(r, seq, body) = Insert(PopFirst(r), seq, body)
    BY <1>5, Zenon DEF StashPending
  <2> DEFINE x == PopFirst(r)
             p == Insert(x, seq, body)
  <2>2. x \in ReceiverStates /\ SameCursor(r, x) /\ x.outbox = r.outbox /\ Held(x) \subseteq Held(r)
    BY PopFirstFields, Zenon
  <2>3. x.start_sequence = r.start_sequence
    BY Zenon DEF PopFirst, Keep, ReceiverStates
  <2> HIDE DEF x
  <2>4. /\ SameCursor(x, p) /\ p.outbox = x.outbox /\ Held(p) = Held(x) \cup {seq}
    BY <2>2, InsertFields
  <2>5. p.start_sequence = x.start_sequence
    BY <2>2, Zenon DEF Insert, ReceiverStates
  <2> HIDE DEF p
  <2> QED BY <1>2, <2>1, <2>2, <2>3, <2>4, <2>5, Zenon DEF SameCursor, p, x
<1>6. CASE /\ seq \notin Held(r) /\ ~(Cardinality(Held(r)) < r.max_pending)
           /\ r.pending_overflow # "DropOldest"
  <2> DEFINE e == [tag |-> "PendingBufferFull"]
             x == Push(r, e)
             p == [x EXCEPT !.overflow_drops = @ + 1]
  <2>1. StashPending(r, seq, body) = p
    BY <1>6, Zenon DEF StashPending
  <2>2. e \in Item /\ e.tag # "Gap"
    BY Zenon DEF Item, ErrorItem
  <2>3. Moves(r, x, top)
    BY <2>2, PushMoves, Zenon
  <2>4. /\ p.session = x.session /\ p.bootstrapped = x.bootstrapped
        /\ p.start_sequence = x.start_sequence /\ p.base = x.base
        /\ p.next_expected = x.next_expected /\ p.outbox = x.outbox /\ p.pending = x.pending
    BY Zenon DEF Push, ReceiverStates
  <2> HIDE DEF x, p
  <2> QED BY <2>1, <2>3, <2>4, Zenon DEF Moves, Below, Held
<1> QED BY <1>3, <1>4, <1>5, <1>6, Zenon

LEMMA StashBlocksMoves ==
  ASSUME Counting, NEW r, NEW h, Good(r, h), NEW s \in Session, r.session = {s}, r.bootstrapped,
         NEW pkt \in Packet, BlocksOf(pkt, s),
         NEW top \in Nat, pkt.seq + Len(pkt.blocks) <= top
  PROVE  Moves(r, StashBlocks(r, pkt), top)
<1> DEFINE g == StashSteps(r, pkt)
           n == Len(pkt.blocks)
           D == {i \in 0..n : Good(g[i], h) /\ SameCursor(r, g[i]) /\ Moves(r, g[i], top)}
<1>1. pkt.blocks \in Seq(Body) /\ n \in Nat /\ DOMAIN pkt.blocks = 1..n /\ pkt.seq \in Nat
  BY DEF Packet
<1>2. g[0] = r /\ \A i \in 1..n : g[i] = StashPending(g[i - 1], pkt.seq + i - 1, pkt.blocks[i])
  <2>1. Len(pkt.blocks) \in Nat
    BY <1>1, Zenon
  <2>2. g[0] = r
    BY <2>1, StashStepsDef, Zenon
  <2>3. \A i \in 1..n : g[i] = StashPending(g[i - 1], pkt.seq + i - 1, pkt.blocks[i])
    BY <2>1, StashStepsDef
  <2> QED BY <2>2, <2>3, Zenon
<1> HIDE DEF g, n
<1>3. 0 \in D
  <2>1. g[0] = r
    BY <1>2, Zenon
  <2>2. SameCursor(r, r) /\ Cursors(r)
    BY CursorsOf, Zenon DEF SameCursor, Good
  <2>3. Moves(r, r, top)
    BY <2>2 DEF Moves, Cursors
  <2> QED BY <1>1, <2>1, <2>2, <2>3
<1>4. \A i \in 0..n : i \in D /\ i < n => i + 1 \in D
  <2> SUFFICES ASSUME NEW i \in 0..n, i \in D, i < n
               PROVE  i + 1 \in D
    BY Zenon
  <2>1. i + 1 \in 0..n /\ i + 1 \in DOMAIN pkt.blocks /\ pkt.seq + i \in Nat
    BY <1>1
  <2>2. g[i + 1] = StashPending(g[i], pkt.seq + i, pkt.blocks[i + 1])
    <3>1. i + 1 \in 1..n /\ (i + 1) - 1 = i /\ pkt.seq + (i + 1) - 1 = pkt.seq + i
      BY <1>1, <2>1
    <3>2. g[i + 1] = StashPending(g[(i + 1) - 1], pkt.seq + (i + 1) - 1, pkt.blocks[i + 1])
      BY <1>2, <3>1, Zenon
    <3> QED BY <3>1, <3>2, Zenon
  <2>3. pkt.seq + i \in 0..SeqMax /\ pkt.blocks[i + 1] = Stream[s][pkt.seq + i]
    <3>1. pkt.seq + (i + 1) - 1 = pkt.seq + i
      BY <1>1
    <3> QED BY <2>1, <3>1, SeqMaxAssumption DEF BlocksOf
  <2>4. /\ Good(g[i], h) /\ g[i].session = {s} /\ g[i].bootstrapped /\ SameCursor(r, g[i])
        /\ Moves(r, g[i], top)
    BY Zenon DEF SameCursor
  <2>5. Good(g[i + 1], h) /\ SameCursor(g[i], g[i + 1])
    BY <2>2, <2>3, <2>4, StashGood
  <2>6. g[i] \in ReceiverStates /\ pkt.blocks[i + 1] \in Body /\ pkt.seq + i < top
    BY <1>1, <2>1, <2>4 DEF Good, n
  <2>7. Moves(g[i], g[i + 1], top)
    BY <2>2, <2>3, <2>6, StashMoves, Zenon
  <2>8. Cursors(r) /\ Cursors(g[i]) /\ Cursors(g[i + 1])
    BY <2>4, <2>5, CursorsOf, Zenon DEF Good
  <2>9. Moves(r, g[i + 1], top)
    BY <2>4, <2>7, <2>8, MovesTwice, Zenon
  <2> QED BY <2>1, <2>4, <2>5, <2>9, Zenon DEF SameCursor
<1>5. n \in D
  <2> HIDE DEF D
  <2>1. 0..n \subseteq D
    BY <1>1, <1>3, <1>4, Zenon DEF Counting, Induction
  <2>2. n \in 0..n
    BY <1>1
  <2> QED BY <2>1, <2>2, Zenon
<1>6. StashBlocks(r, pkt) = g[n]
  BY Zenon DEF StashBlocks, g, n
<1> QED BY <1>5, <1>6, Zenon

\* deliver queues deliveries only.
LEMMA DeliverMoves ==
  ASSUME NEW r \in ReceiverStates, NEW end \in Nat, r.next_expected <= end, NEW body,
         \A n \in r.next_expected..(end - 1) : body[n] \in Body,
         NEW top, end <= top \/ end = r.next_expected
  PROVE  Moves(r, DeliverUpTo(r, end, body), top)
<1> DEFINE m == r.next_expected
           t == [i \in 1..(end - m) |-> Delivery(m + i - 1, body[m + i - 1])]
           p == DeliverUpTo(r, end, body)
<1>1. m \in Nat /\ r.outbox \in Seq(Item) /\ end - m \in Nat
  <2>1. m \in Nat /\ r.outbox \in Seq(Item)
    BY StateType, Zenon
  <2> QED BY <2>1
<1>2. \A i \in 1..(end - m) : t[i] \in Item /\ t[i].tag # "Gap"
  <2> SUFFICES ASSUME NEW i \in 1..(end - m) PROVE t[i] \in Item /\ t[i].tag # "Gap"
    BY Zenon
  <2>1. m + i - 1 \in m..(end - 1) /\ m + i - 1 \in Nat
    BY <1>1, SMTT(30)
  <2>2. body[m + i - 1] \in Body
    BY <2>1, Zenon
  <2>3. t[i] = Delivery(m + i - 1, body[m + i - 1])
    BY Zenon
  <2> HIDE DEF m, t
  <2> QED BY <2>1, <2>2, <2>3 DEF Delivery, DeliveryItem, Item
<1>3. t \in Seq(Item) /\ Len(t) = end - m
  <2>1. t \in [1..(end - m) -> Item]
    BY <1>2, Zenon
  <2> HIDE DEF t, m
  <2> QED BY <1>1, <2>1
<1>4. p = [r EXCEPT !.outbox = @ \o t, !.next_expected = end]
  BY Zenon DEF DeliverUpTo
<1> HIDE DEF t, m, p
<1>5. /\ p.outbox = r.outbox \o t /\ p.next_expected = end /\ p.session = r.session
      /\ p.base = r.base /\ p.bootstrapped = r.bootstrapped
      /\ p.start_sequence = r.start_sequence /\ p.pending = r.pending
  BY <1>4, Zenon DEF ReceiverStates
<1>6. GapsOf(p.outbox) \subseteq GapsOf(r.outbox)
  BY <1>1, <1>2, <1>3, <1>5, GapsConcat
<1>7. Below(r, top) => Below(p, top)
  BY <1>5, Zenon DEF Below, Held
<1> QED BY <1>1, <1>5, <1>6, <1>7, Zenon DEF Moves, p, m

LEMMA FlushMoves ==
  ASSUME Counting, NEW r, NEW h, Good(r, h), NEW top \in Nat
  PROVE  Moves(r, FlushPending(r), top)
<1> DEFINE run == Flushable(r)
           end == r.next_expected + Cardinality(run)
           k == Keep(r, Held(r) \ run)
<1>1. r \in ReceiverStates /\ r.next_expected \in Nat
  BY GoodType, Zenon
<1>2. /\ Cardinality(run) \in Nat /\ run \subseteq Held(r)
      /\ r.next_expected..(end - 1) = run
  BY <1>1, FlushableIsRun
<1>3. FlushPending(r) = DeliverUpTo(k, end, r.pending)
  BY Zenon DEF FlushPending
<1> HIDE DEF run
<1>4. /\ k \in ReceiverStates /\ k.next_expected = r.next_expected /\ k.outbox = r.outbox
      /\ k.session = r.session /\ k.bootstrapped = r.bootstrapped /\ k.base = r.base
      /\ Held(k) \subseteq Held(r)
  <2>1. Held(r) \ run \in SUBSET Held(r)
    BY Zenon
  <2> QED BY <1>1, <2>1, KeepFields, Zenon DEF SameCursor
<1>5. k.start_sequence = r.start_sequence
  BY <1>1, Zenon DEF Keep, ReceiverStates
<1> HIDE DEF k
<1>6. \A n \in k.next_expected..(end - 1) : r.pending[n] \in Body
  <2>1. \A n \in Held(r) : r.pending[n] \in Body
    BY <1>1 DEF ReceiverStates, Buffer, Held
  <2> QED BY <1>2, <1>4, <2>1, Zenon
<1>7. end \in Nat /\ k.next_expected <= end
  BY <1>1, <1>2, <1>4
<1>8. ASSUME Below(r, top) PROVE end <= top \/ end = k.next_expected
  <2>1. CASE run = {}
    BY <1>1, <1>2, <1>4, <2>1
  <2>2. CASE run # {}
    <3>1. end - 1 \in run
      BY <1>1, <1>2, <2>2
    <3>2. end - 1 < top
      BY <1>2, <1>8, <3>1, Zenon DEF Below
    <3> QED BY <1>7, <3>2
  <2> QED BY <2>1, <2>2, Zenon
<1> HIDE DEF end
<1>9. ASSUME NEW t, end <= t \/ end = k.next_expected PROVE Moves(k, FlushPending(r), t)
  BY <1>3, <1>4, <1>6, <1>7, <1>9, DeliverMoves
<1>10. Moves(k, FlushPending(r), end)
  BY <1>7, <1>9
<1>11. Below(r, top) => Below(k, top) /\ Moves(k, FlushPending(r), top)
  BY <1>4, <1>8, <1>9, Zenon DEF Below
<1> QED BY <1>4, <1>5, <1>10, <1>11, Zenon DEF Moves

\* The loop that delivers the blocks of a packet.
LEMMA DeliverBlocksMoves ==
  ASSUME NEW r \in ReceiverStates, NEW pkt \in Packet, pkt.seq <= r.next_expected,
         r.next_expected < pkt.seq + Len(pkt.blocks),
         NEW top, pkt.seq + Len(pkt.blocks) <= top
  PROVE  Moves(r, DeliverBlocks(r, pkt), top)
<1> DEFINE end == pkt.seq + Len(pkt.blocks)
           body == [n \in pkt.seq..(end - 1) |-> pkt.blocks[n - pkt.seq + 1]]
<1>1. /\ pkt.seq \in Nat /\ pkt.blocks \in Seq(Body) /\ Len(pkt.blocks) \in Nat
      /\ end \in Nat /\ r.next_expected \in Nat
  BY StateType, PacketType, Zenon
<1>2. \A n \in r.next_expected..(end - 1) : body[n] \in Body
  <2> SUFFICES ASSUME NEW n \in r.next_expected..(end - 1) PROVE body[n] \in Body
    BY Zenon
  <2>1. n \in pkt.seq..(end - 1) /\ n - pkt.seq + 1 \in DOMAIN pkt.blocks
    BY <1>1
  <2>2. body[n] = pkt.blocks[n - pkt.seq + 1]
    BY <2>1, Zenon
  <2> QED BY <1>1, <2>1, <2>2
<1>3. DeliverBlocks(r, pkt) = DeliverUpTo(r, end, body)
  BY Zenon DEF DeliverBlocks
<1>4. r.next_expected <= end /\ end <= top
  BY <1>1
<1> HIDE DEF end, body
<1> QED BY <1>1, <1>2, <1>3, <1>4, DeliverMoves, Zenon

\* What an ingest does for a receiver that is told of session s.
ToldMore(r, p, s, lo, hi, top) ==
  /\ Told(p, s, lo, hi, top)
  /\ r.bootstrapped => p.bootstrapped /\ p.next_expected >= r.next_expected

\* The data part of ingest: a Gap lies between what was delivered and the packet.
LEMMA IngestDataTold ==
  ASSUME Counting, NEW r, NEW h, Good(r, h), NEW pkt \in Packet, BlocksOf(pkt, pkt.session),
         r.session = {pkt.session}, r.bootstrapped,
         NEW lo \in Nat, NEW hi \in Nat, NEW top \in Nat,
         Told(r, pkt.session, lo, hi, top), pkt.seq <= hi, pkt.seq + Len(pkt.blocks) <= top
  PROVE  ToldMore(r, IngestData(r, pkt), pkt.session, lo, hi, top)
<1> DEFINE m == r.next_expected
           end == pkt.seq + Len(pkt.blocks)
           p == IngestData(r, pkt)
<1>1. /\ r \in ReceiverStates /\ m \in Nat /\ pkt.seq \in Nat /\ Len(pkt.blocks) \in Nat
      /\ pkt.session \in Session /\ r.outbox \in Seq(Item) /\ r.base \in Nat /\ h \in Nat
      /\ r.base + h <= m
  BY GoodType, PacketType, Zenon
<1>2. Good(p, h)
  BY IngestDataGood, Zenon
<1>3. Cursors(r) /\ Cursors(p)
  BY <1>1, <1>2, CursorsOf, Zenon DEF Good
<1>4. ASSUME Moves(r, p, top) PROVE ToldMore(r, p, pkt.session, lo, hi, top)
  <2> HIDE DEF p
  <2>1. \A gap \in GapsOf(r.outbox) : gap.from \in Nat
    BY <1>1, GapType, Zenon
  <2>2. Told(p, pkt.session, lo, hi, top)
    BY <1>3, <1>4, <2>1, MovesTold, Zenon
  <2> QED BY <1>4, <2>2, Zenon DEF ToldMore, Moves
<1>5. CASE end <= m
  <2>1. p = r
    BY <1>5, Zenon DEF IngestData
  <2>2. Moves(r, r, top)
    BY <1>1 DEF Moves
  <2> QED BY <1>4, <2>1, <2>2, Zenon
<1>6. CASE ~(end <= m) /\ pkt.seq > m
  <2> DEFINE e == [tag |-> "Gap", from |-> m, to |-> pkt.seq - 1]
             x == Push(r, e)
  <2>1. m \in Nat /\ pkt.seq - 1 \in Nat
    BY <1>1, <1>6
  <2>2. e \in Item /\ ~IsDelivery(e)
    <3> HIDE DEF m
    <3> QED BY <2>1, Zenon DEF Item, GapItem, IsDelivery
  <2>3. Good(x, h) /\ SameCursor(r, x)
    BY <2>2, PushGood, Zenon
  <2>4. p = StashBlocks(x, pkt)
    BY <1>6, Zenon DEF IngestData
  <2>5. /\ x.outbox = Append(r.outbox, e) /\ x.start_sequence = r.start_sequence
        /\ x.pending = r.pending
    BY <1>1, Zenon DEF Push, ReceiverStates
  <2> HIDE DEF x
  <2>6. x.session = {pkt.session} /\ x.bootstrapped /\ x.next_expected = m /\ x.base = r.base
    BY <2>3, Zenon DEF SameCursor
  <2>7. Moves(x, p, top)
    <3>1. Good(x, h) /\ x.session = {pkt.session} /\ x.bootstrapped /\ pkt.session \in Session
      BY <1>1, <2>3, <2>6, Zenon
    <3>2. Moves(x, StashBlocks(x, pkt), top)
      BY <3>1, StashBlocksMoves, Zenon
    <3> QED BY <2>4, <3>2, Zenon
  <2>8. Between(e, m, lo, hi)
    <3>1. lo <= r.base
      BY Zenon DEF Told
    <3> QED BY <1>1, <1>6, <3>1 DEF Between
  <2>9. Told(x, pkt.session, lo, hi, top)
    <3>1. GapsOf(x.outbox) \subseteq GapsOf(r.outbox) \cup {e}
      BY <1>1, <2>2, <2>5, GapsAppend, ZenonT(30)
    <3> HIDE DEF e
    <3>2. \A gap \in GapsOf(x.outbox) : Between(gap, m, lo, hi)
      BY <2>8, <3>1, Zenon DEF Told
    <3>3. Below(x, top)
      BY <2>5, <2>6, Zenon DEF Told, Below, Held
    <3> QED BY <2>5, <2>6, <3>2, <3>3 DEF Told
  <2>10. Cursors(x) /\ x.outbox \in Seq(Item)
    BY <2>3, CursorsOf, Zenon DEF Good, ReceiverStates
  <2>11. Told(p, pkt.session, lo, hi, top)
    <3>1. \A gap \in GapsOf(x.outbox) : gap.from \in Nat
      BY <2>10, GapType, Zenon
    <3> HIDE DEF p
    <3> QED BY <1>3, <2>7, <2>9, <2>10, <3>1, MovesTold, Zenon
  <2>12. p.bootstrapped /\ p.next_expected >= m
    BY <2>6, <2>7, Zenon DEF Moves
  <2> QED BY <2>11, <2>12, Zenon DEF ToldMore
<1>7. CASE ~(end <= m) /\ ~(pkt.seq > m)
  <2> DEFINE x == DeliverBlocks(r, pkt)
  <2>1. pkt.seq <= m /\ m < end
    BY <1>1, <1>7
  <2>2. p = FlushPending(x)
    BY <1>7, Zenon DEF IngestData
  <2>3. Good(x, h)
    BY <2>1, DeliverBlocksGood, Zenon
  <2>4. Moves(r, x, top)
    BY <1>1, <2>1, DeliverBlocksMoves, Zenon
  <2> HIDE DEF x
  <2>5. Moves(x, p, top)
    BY <2>2, <2>3, FlushMoves, Zenon
  <2>6. Cursors(x)
    BY <2>3, CursorsOf, Zenon DEF Good
  <2>7. Moves(r, p, top)
    <3> HIDE DEF p
    <3> QED BY <1>3, <2>4, <2>5, <2>6, MovesTwice
  <2> QED BY <1>4, <2>7, Zenon
<1> QED BY <1>5, <1>6, <1>7, Zenon

\* A receiver that locks on to session s is told of it.
LEMMA LockOnTold ==
  ASSUME NEW r, NEW h, Good(r, h), NEW pkt \in Packet, pkt.seq <= SeqMax + 1,
         r.session = {} \/ r.session = {pkt.session},
         NEW lo \in Nat, NEW hi \in Nat, NEW top,
         Told(r, pkt.session, lo, hi, top), lo <= pkt.seq
  PROVE  ToldMore(r, LockOn(r, pkt), pkt.session, lo, hi, top)
<1> DEFINE p == LockOn(r, pkt)
           first == IF r.start_sequence = 0 THEN pkt.seq ELSE r.next_expected
<1>1. r \in ReceiverStates /\ r.next_expected \in Nat
  BY GoodType, Zenon
<1>2. CASE r.bootstrapped
  <2>1. p = [r EXCEPT !.session = {pkt.session}] /\ r.session = {pkt.session}
    BY <1>2, Zenon DEF LockOn, Good, Faithful
  <2>2. p = r
    BY <1>1, <2>1 DEF ReceiverStates
  <2> QED BY <1>1, <2>2 DEF ToldMore
<1>3. CASE ~r.bootstrapped
  <2>1. p = [r EXCEPT !.session = {pkt.session}, !.bootstrapped = TRUE,
                      !.next_expected = first, !.base = first]
    BY <1>3, Zenon DEF LockOn
  <2>2. lo <= first
    BY <1>3, Zenon DEF Told, Good, Faithful
  <2> HIDE DEF first, p
  <2>3. /\ p.session = {pkt.session} /\ p.base = first /\ p.outbox = r.outbox
        /\ p.next_expected = first /\ p.pending = r.pending
    BY <1>1, <2>1, Zenon DEF ReceiverStates
  <2>4. GapsOf(p.outbox) = {}
    BY <1>3, <2>3, Zenon DEF Told
  <2>5. Below(p, top)
    BY <2>3, Zenon DEF Told, Below, Held
  <2> QED BY <1>3, <2>2, <2>3, <2>4, <2>5 DEF Told, ToldMore, p
<1> QED BY <1>2, <1>3

\* ingest of a packet that the publisher of session s has sent.
LEMMA IngestTold ==
  ASSUME Counting, NEW r, NEW h, Good(r, h), NEW pkt, Honest(pkt), NEW lo \in Nat, NEW hi \in Nat, NEW top \in Nat,
         Told(r, pkt.session, lo, hi, top), lo <= pkt.seq,
         pkt.kind = "data" => pkt.seq <= hi /\ pkt.seq + Len(pkt.blocks) <= top
  PROVE  ToldMore(r, Ingest(r, pkt), pkt.session, lo, hi, top)
<1> DEFINE s == pkt.session
<1>1. /\ pkt \in Packet /\ pkt.seq <= SeqMax + 1 /\ pkt.seq \in Nat
      /\ pkt.kind \in {"data", "heartbeat", "eos"}
      /\ pkt.kind = "data" => BlocksOf(pkt, pkt.session)
  BY Zenon DEF Honest, Packet, BlocksOf
<1>2. ASSUME NEW x, Good(x, h), ToldMore(r, x, s, lo, hi, top), NEW y, Good(y, h), Moves(x, y, top)
      PROVE  ToldMore(r, y, s, lo, hi, top)
  <2>1. Cursors(x) /\ Cursors(y) /\ x.outbox \in Seq(Item) /\ Cursors(r)
    BY <1>2, CursorsOf, Zenon DEF Good, ReceiverStates
  <2>2. \A gap \in GapsOf(x.outbox) : gap.from \in Nat
    BY <2>1, GapType, Zenon
  <2>3. Told(y, s, lo, hi, top)
    BY <1>2, <2>1, <2>2, MovesTold, Zenon DEF ToldMore
  <2> QED BY <1>2, <2>1, <2>3 DEF ToldMore, Moves, Cursors
<1>3. r \in ReceiverStates /\ ToldMore(r, r, s, lo, hi, top)
  <2>1. r \in ReceiverStates /\ r.next_expected \in Nat
    BY GoodType, Zenon
  <2> QED BY <2>1 DEF ToldMore
<1>4. CASE r.session # {} /\ r.session # {s}
  <2> DEFINE e == [tag |-> "SessionMismatch"]
  <2>1. e \in Item /\ ~IsDelivery(e) /\ e.tag # "Gap"
    BY Zenon DEF Item, ErrorItem, IsDelivery
  <2>2. Ingest(r, pkt) = Push(r, e)
    BY <1>4, Zenon DEF Ingest
  <2> HIDE DEF e, s
  <2>3. Good(Push(r, e), h) /\ Moves(r, Push(r, e), top)
    BY <1>3, <2>1, PushGood, PushMoves, Zenon
  <2> QED BY <1>2, <1>3, <2>2, <2>3, Zenon DEF s
<1>5. CASE r.session = {} \/ r.session = {s}
  <2> DEFINE x == LockOn(r, pkt)
  <2>1. Good(x, h) /\ x.session = {s} /\ x.bootstrapped
    BY <1>1, <1>5, LockOnGood, Zenon
  <2>2. ToldMore(r, x, s, lo, hi, top)
    BY <1>1, <1>5, LockOnTold, Zenon
  <2>3. x \in ReceiverStates
    BY <2>1, Zenon DEF Good
  <2>4. CASE pkt.kind = "heartbeat"
    <3> DEFINE e == [tag |-> "Heartbeat", next_seq |-> pkt.seq]
    <3>1. e \in Item /\ ~IsDelivery(e) /\ e.tag # "Gap"
      BY <1>1, Zenon DEF Item, MarkItem, IsDelivery
    <3>2. Ingest(r, pkt) = Push(x, e)
      BY <1>5, <2>4, Zenon DEF Ingest
    <3> HIDE DEF x, e, s
    <3>3. Good(Push(x, e), h) /\ Moves(x, Push(x, e), top)
      BY <2>1, <2>3, <3>1, PushGood, PushMoves, Zenon
    <3> QED BY <1>2, <2>1, <2>2, <3>2, <3>3, Zenon DEF s
  <2>5. CASE pkt.kind = "eos"
    <3> DEFINE e == [tag |-> "EndOfSession", next_seq |-> pkt.seq]
               y == Push(x, e)
               z == [y EXCEPT !.eos = TRUE]
    <3>1. e \in Item /\ ~IsDelivery(e) /\ e.tag # "Gap"
      BY <1>1, Zenon DEF Item, MarkItem, IsDelivery
    <3>2. Ingest(r, pkt) = z
      BY <1>5, <2>5, Zenon DEF Ingest
    <3> HIDE DEF x, e, s
    <3>3. Moves(x, y, top) /\ y \in ReceiverStates
      BY <2>1, <2>3, <3>1, PushGood, PushMoves, Zenon DEF Good
    <3> HIDE DEF y
    <3>4. /\ z.session = y.session /\ z.bootstrapped = y.bootstrapped /\ z.base = y.base
          /\ z.start_sequence = y.start_sequence /\ z.next_expected = y.next_expected
          /\ z.outbox = y.outbox /\ z.pending = y.pending
      BY <3>3, Zenon DEF ReceiverStates
    <3> HIDE DEF z
    <3>5. Moves(x, z, top)
      BY <3>3, <3>4, Zenon DEF Moves, Below, Held
    <3>6. Good(z, h)
      BY <3>2, IngestGood, Zenon
    <3> QED BY <1>2, <2>1, <2>2, <3>2, <3>5, <3>6, Zenon DEF s
  <2>6. CASE pkt.kind = "data"
    <3>1. Ingest(r, pkt) = IngestData(x, pkt)
      BY <1>5, <2>6, Zenon DEF Ingest
    <3> HIDE DEF x
    <3>2. ToldMore(x, IngestData(x, pkt), s, lo, hi, top)
      BY <1>1, <2>1, <2>2, <2>6, IngestDataTold, Zenon DEF ToldMore
    <3>3. Good(IngestData(x, pkt), h)
      BY <3>1, IngestGood, Zenon
    <3>4. Cursors(r) /\ Cursors(x) /\ Cursors(IngestData(x, pkt))
      BY <1>3, <2>3, <3>3, CursorsOf, Zenon DEF Good
    <3> QED BY <2>1, <2>2, <3>1, <3>2, <3>4 DEF ToldMore, Cursors
  <2> QED BY <1>1, <2>4, <2>5, <2>6, Zenon
<1> QED BY <1>4, <1>5, Zenon

\* A retransmitted frame at or below the cursor is late or delivered, and puts the cursor
\* beyond itself.
LEMMA FrameMoves ==
  ASSUME Counting, NEW r, NEW h, Good(r, h), r.bootstrapped, NEW s \in Session, r.session = {s},
         NEW f \in Frame, f.sequence <= r.next_expected, Honest(OneBlock(s, f)),
         NEW top \in Nat, f.sequence + 1 <= top
  PROVE  LET p == Ingest(r, OneBlock(s, f))
         IN  Good(p, h) /\ Moves(r, p, top) /\ p.next_expected >= f.sequence + 1
<1> DEFINE pkt == OneBlock(s, f)
           p == Ingest(r, pkt)
<1>1. /\ pkt.session = s /\ pkt.kind = "data" /\ pkt.seq = f.sequence /\ Len(pkt.blocks) = 1
      /\ pkt \in Packet /\ BlocksOf(pkt, s) /\ f.sequence \in Nat
  BY DEF OneBlock, Honest, BlocksOf, Frame
<1>2. Good(p, h)
  BY IngestGood, Zenon
<1> HIDE DEF pkt
<1>3. r \in ReceiverStates /\ r.next_expected \in Nat /\ Cursors(r) /\ Cursors(p)
  BY <1>2, GoodType, CursorsOf, Zenon
<1>4. p = IngestData(r, pkt)
  <2>1. LockOn(r, pkt) = [r EXCEPT !.session = {s}]
    BY <1>1, Zenon DEF LockOn
  <2>2. [r EXCEPT !.session = {s}] = r
    BY <1>3, Zenon DEF ReceiverStates
  <2> QED BY <1>1, <2>1, <2>2, Zenon DEF Ingest
<1>5. CASE f.sequence + 1 <= r.next_expected
  <2>1. p = r
    BY <1>1, <1>4, <1>5, Zenon DEF IngestData
  <2>2. Moves(r, r, top)
    BY <1>3 DEF Moves
  <2> QED BY <1>2, <1>5, <2>1, <2>2 DEF pkt
<1>6. CASE ~(f.sequence + 1 <= r.next_expected)
  <2> DEFINE x == DeliverBlocks(r, pkt)
  <2>1. pkt.seq <= r.next_expected /\ r.next_expected < pkt.seq + Len(pkt.blocks)
    BY <1>1, <1>3, <1>6
  <2>2. p = FlushPending(x)
    BY <1>1, <1>3, <1>4, <1>6, <2>1 DEF IngestData
  <2>3. Good(x, h) /\ x.next_expected = f.sequence + 1
    <3>1. r.session = {pkt.session} /\ BlocksOf(pkt, pkt.session)
      BY <1>1, Zenon
    <3>2. Good(x, h) /\ x.next_expected = pkt.seq + Len(pkt.blocks)
      BY <1>1, <2>1, <3>1, DeliverBlocksGood, ZenonT(60)
    <3> QED BY <1>1, <3>2, Zenon
  <2>4. Moves(r, x, top)
    BY <1>1, <1>3, <2>1, DeliverBlocksMoves, Zenon
  <2> HIDE DEF x, p
  <2>5. Moves(x, p, top)
    BY <2>2, <2>3, FlushMoves, Zenon
  <2>6. Cursors(x)
    BY <2>3, CursorsOf, Zenon DEF Good
  <2>7. Moves(r, p, top)
    BY <1>3, <2>4, <2>5, <2>6, MovesTwice, Zenon
  <2>8. p.next_expected >= f.sequence + 1
    BY <2>3, <2>5, Zenon DEF Moves
  <2> QED BY <1>2, <2>7, <2>8, Zenon DEF p, pkt
<1> QED BY <1>5, <1>6, Zenon

\* ingest_retransmit with consecutive frames that start at or below the cursor.
LEMMA RetransmitMoves ==
  ASSUME Counting, NEW r, NEW h, Good(r, h), r.bootstrapped, NEW s \in Session, r.session = {s},
         NEW frames \in Seq(Frame), OfSession(frames, s),
         NEW first \in Nat, first <= r.next_expected,
         \A i \in DOMAIN frames : frames[i].sequence = first + i - 1,
         NEW top \in Nat, first + Len(frames) <= top
  PROVE  LET p == IngestRetransmit(r, frames)
         IN  Good(p, h) /\ Moves(r, p, top) /\ p.next_expected >= first + Len(frames)
<1> DEFINE g == RetransmitSteps(r, frames)
           n == Len(frames)
           P(i) == OneBlock(s, frames[i])
           D == {i \in 0..n : Good(g[i], h) /\ Moves(r, g[i], top) /\ g[i].next_expected >= first + i}
<1>1. n \in Nat /\ DOMAIN frames = 1..n /\ first + n <= top
  OBVIOUS
<1>2. g[0] = r /\ \A i \in 1..n : g[i] = Ingest(g[i - 1], P(i))
  <2>1. LockedSession(r) = s
    BY Zenon DEF LockedSession
  <2>2. \A i \in 1..n : g[i] = Ingest(g[i - 1], OneBlock(LockedSession(r), frames[i]))
    BY <1>1, RetransmitStepsDef
  <2>3. g[0] = r
    BY <1>1, RetransmitStepsDef, SMTT(30)
  <2> QED BY <2>1, <2>2, <2>3, Zenon
<1>3. \A i \in 1..n : Honest(P(i)) /\ frames[i] \in Frame /\ frames[i].sequence = first + i - 1
  BY <1>1, FramesHonest, Zenon
<1>4. IngestRetransmit(r, frames) = g[n]
  BY Zenon DEF IngestRetransmit
<1> HIDE DEF g, n
<1>5. 0 \in D
  <2>1. g[0] = r /\ Cursors(r)
    BY <1>1, <1>2, CursorsOf, Zenon DEF Good
  <2>2. Moves(r, r, top) /\ r.next_expected >= first + 0
    BY <2>1 DEF Moves, Cursors
  <2> QED BY <1>1, <2>1, <2>2
<1>6. \A i \in 0..n : i \in D /\ i < n => i + 1 \in D
  <2> SUFFICES ASSUME NEW i \in 0..n, i \in D, i < n
               PROVE  i + 1 \in D
    BY Zenon
  <2> DEFINE x == g[i]
             f == frames[i + 1]
             y == g[i + 1]
  <2>1. i + 1 \in 0..n /\ i + 1 \in 1..n /\ i \in Nat /\ (i + 1) - 1 = i
    BY <1>1
  <2>2. y = Ingest(x, OneBlock(s, f))
    BY <1>2, <2>1, Zenon
  <2>3. Good(x, h) /\ Moves(r, x, top) /\ x.next_expected >= first + i
    BY <2>1, Zenon
  <2>4. f \in Frame /\ Honest(OneBlock(s, f)) /\ f.sequence = first + i
    <3>1. f.sequence = first + (i + 1) - 1
      BY <1>3, <2>1, Zenon
    <3> QED BY <1>3, <2>1, <3>1, Zenon
  <2> HIDE DEF x, y, f, P
  <2>5. x.bootstrapped /\ x.session = {s} /\ f.sequence <= x.next_expected /\ x.next_expected \in Nat
    <3>1. x.bootstrapped /\ x.session = {s}
      BY <2>3, Zenon DEF Moves
    <3>2. x.next_expected \in Nat
      BY <2>3, CursorsOf, Zenon DEF Good, Cursors
    <3> HIDE DEF D
    <3> QED BY <2>1, <2>3, <2>4, <3>1, <3>2, Zenon
  <2>5a. f.sequence + 1 <= top
    <3> HIDE DEF D
    <3> QED BY <1>1, <2>1, <2>4
  <2>6. Good(y, h) /\ Moves(x, y, top) /\ y.next_expected >= f.sequence + 1
    BY <2>2, <2>3, <2>4, <2>5, <2>5a, FrameMoves, Zenon
  <2>7. Cursors(r) /\ Cursors(x) /\ Cursors(y)
    BY <2>3, <2>6, CursorsOf DEF Good
  <2>8. Moves(r, y, top)
    BY <2>3, <2>6, <2>7, MovesTwice, Zenon
  <2>9. y.next_expected >= first + (i + 1)
    BY <2>1, <2>4, <2>6
  <2> QED BY <2>1, <2>6, <2>8, <2>9, Zenon DEF y
<1>7. n \in D
  <2> HIDE DEF D
  <2>1. 0..n \subseteq D
    BY <1>1, <1>5, <1>6, Zenon DEF Counting, Induction
  <2>2. n \in 0..n
    BY <1>1
  <2> QED BY <2>1, <2>2, Zenon
<1> QED BY <1>4, <1>7, Zenon DEF n
-----------------------------------------------------------------------------
(* poll_next *)

\* A Gap that is handed out was told truly.
Surfaces(lo, hi) ==
  item'.tag = "Gap" =>
    /\ rx'.bootstrapped /\ item'.from \in Nat /\ item'.to \in Nat
    /\ Between(item', rx'.next_expected, lo, hi)

LEMMA YieldTold ==
  ASSUME NEW r, NEW h, Good(r, h), r.outbox # <<>>, Yield(r),
         NEW s, NEW lo \in Nat, NEW hi \in Nat, NEW top,
         Told(r, s, lo, hi, top)
  PROVE  ToldMore(r, rx', s, lo, hi, top) /\ Surfaces(lo, hi)
<1> DEFINE e == Head(r.outbox)
           p == [r EXCEPT !.outbox = Tail(@)]
<1>1. item' = e /\ rx' = p
  BY Zenon DEF Yield
<1>2. r \in ReceiverStates /\ r.outbox \in Seq(Item) /\ Cursors(r)
  BY CursorsOf, Zenon DEF Good, ReceiverStates
<1>3. /\ p.outbox = Tail(r.outbox) /\ p.session = r.session /\ p.bootstrapped = r.bootstrapped
      /\ p.base = r.base /\ p.start_sequence = r.start_sequence
      /\ p.next_expected = r.next_expected /\ p.pending = r.pending
  BY <1>2 DEF ReceiverStates
<1> HIDE DEF e, p
<1>4. GapsOf(p.outbox) \subseteq GapsOf(r.outbox) /\ (e.tag = "Gap" => e \in GapsOf(r.outbox))
  BY <1>2, <1>3, GapsTail DEF e
<1>5. e.tag = "Gap" => e.from \in Nat /\ e.to \in Nat
  BY <1>2, <1>4, GapType
<1>6. ToldMore(r, p, s, lo, hi, top)
  BY <1>2, <1>3, <1>4 DEF Told, ToldMore, Cursors, Below, Held
<1> QED BY <1>1, <1>3, <1>4, <1>5, <1>6, Zenon DEF Surfaces, Told

\* poll_next of a receiver whose datagrams come from that publisher.
LEMMA PollTold ==
  ASSUME Counting, NEW r, NEW h, Good(r, h), NEW s, NEW lo \in Nat, NEW hi \in Nat,
         NEW top \in Nat, Told(r, s, lo, hi, top), NEW datagrams,
         \A pkt \in datagrams :
           /\ Honest(pkt) /\ pkt.session = s /\ lo <= pkt.seq
           /\ pkt.kind = "data" => pkt.seq <= hi /\ pkt.seq + Len(pkt.blocks) <= top,
         Poll(r, datagrams)
  PROVE  ToldMore(r, rx', s, lo, hi, top) /\ Surfaces(lo, hi)
<1>1. Cursors(r)
  BY CursorsOf, Zenon DEF Good
<1>2. ToldMore(r, r, s, lo, hi, top)
  BY <1>1 DEF ToldMore, Cursors
<1>3. CASE PollBuffered(r)
  BY <1>3, YieldTold, Zenon DEF PollBuffered
<1>4. ASSUME NEW pkt \in datagrams, Recv(r, pkt)
      PROVE  ToldMore(r, rx', s, lo, hi, top) /\ Surfaces(lo, hi)
  <2> DEFINE p == Ingest(r, pkt)
  <2>1. Good(p, h)
    BY IngestGood, Zenon
  <2>2. ToldMore(r, p, s, lo, hi, top)
    BY IngestTold, Zenon
  <2>3. IF p.outbox # <<>> THEN Yield(p)
        ELSE rx' = p /\ item' = Nothing /\ UNCHANGED <<finished, handed>>
    BY <1>4, Zenon DEF Recv
  <2> HIDE DEF p
  <2>4. CASE p.outbox # <<>>
    <3>1. ToldMore(p, rx', s, lo, hi, top) /\ Surfaces(lo, hi)
      BY <2>1, <2>2, <2>3, <2>4, YieldTold, Zenon DEF ToldMore
    <3>2. Cursors(p) /\ rx'.next_expected \in Nat
      <4>1. Cursors(p)
        BY <2>1, CursorsOf, Zenon DEF Good
      <4>2. p \in ReceiverStates /\ rx' = [p EXCEPT !.outbox = Tail(@)]
        BY <2>1, <2>3, <2>4, Zenon DEF Good, Yield
      <4>3. rx'.next_expected = p.next_expected
        BY <4>2, Zenon DEF ReceiverStates
      <4> QED BY <4>1, <4>3, Zenon DEF Cursors
    <3> QED BY <1>1, <2>2, <3>1, <3>2 DEF ToldMore, Cursors
  <2>5. CASE p.outbox = <<>>
    BY <2>2, <2>3, <2>5 DEF Surfaces, Nothing
  <2> QED BY <2>4, <2>5, Zenon
<1>5. CASE RecvError(r)
  BY <1>2, <1>5, Zenon DEF RecvError, Surfaces
<1>6. CASE PollNothing(r)
  BY <1>2, <1>6, Zenon DEF PollNothing, Surfaces, Nothing
<1> QED BY <1>3, <1>4, <1>5, <1>6, Zenon DEF Poll
=============================================================================
