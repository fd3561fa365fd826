------------------------- MODULE MoldSessionProofs --------------------------
(***************************************************************************)
(* Proofs about MoldPublisher and MoldSession, for every source, budget,   *)
(* capacity, number of servers and of retries.                             *)
(*                                                                         *)
(* The invariant of the publisher relates what has been read, the packet   *)
(* being filled, the cache and the wire: they are consecutive runs of the  *)
(* source.  So every packet on the wire, and every answer of a cache, is a *)
(* run of messages of the source under their own numbers.  With what       *)
(* MoldReceiverLemmas says of a receiver that is told the truth, the       *)
(* session implements MoldReceiver, a recovery asks for what was sent and  *)
(* advances the stream, and the caller gets the source.                    *)
(***************************************************************************)
EXTENDS MoldSession, MoldReceiverLemmas

-----------------------------------------------------------------------------
(* The publisher. *)


Bodies == DOMAIN SizeOf
Frames == [sequence : Nat, body : Bodies]

\* The messages of the source from number first on.
FromSource(first, blocks) ==
  /\ blocks \in Seq(Bodies) /\ first \in Nat /\ first >= StartSeq
  /\ \A i \in 1..Len(blocks) : blocks[i] = Source[first + i - StartSeq]

\* The number of the first message that has not been sent, and of the first not cached.
Unsent ==
  IF out # <<>> THEN out[1].seq
  ELSE IF pending_blocks # <<>> THEN pending_first_seq ELSE next_seq
Uncached == IF pending_blocks # <<>> THEN pending_first_seq ELSE next_seq

Shape ==
  /\ taken \in 0..Len(Source) /\ next_seq \in Nat
  /\ pc \in {"select", "flush", "send", "eos", "done", "failed"}
  /\ after \in {"select", "push", "eos"}
  /\ pending_first_seq \in Nat /\ pending_blocks \in Seq(Bodies)
  /\ carry \in Seq(Bodies)
  /\ carry # <<>> => carry = <<Source[taken]>> /\ taken > 0

\* What each value of pc knows of the packet under construction and of the source.
ControlInv ==
  /\ pc # "failed" => (out # <<>> <=> pc = "send")
  /\ pc = "flush" => pending_blocks # <<>>
  /\ pc \in {"flush", "send"} => (carry # <<>> <=> after = "push")
  /\ pc \in {"flush", "send"} /\ after = "eos" => taken = Len(Source)
  /\ pc \in {"select", "eos", "done"} => carry = <<>>
  /\ pc \in {"eos", "done"} => pending_blocks = <<>> /\ taken = Len(Source)

\* Every message taken is numbered, or waits in carry; what is packed is the source.
PackInv ==
  /\ next_seq + Len(carry) = StartSeq + taken
  /\ pending_blocks # <<>> =>
       /\ pending_first_seq + Len(pending_blocks) = next_seq
       /\ FromSource(pending_first_seq, pending_blocks)
  /\ out # <<>> =>
       /\ pending_blocks = <<>> /\ out = <<DataPacket(out[1].seq, out[1].blocks)>>
       /\ out[1].seq + Len(out[1].blocks) = next_seq /\ out[1].blocks # <<>>
       /\ FromSource(out[1].seq, out[1].blocks)

\* What was sent is the source up to Unsent, in packets that do not overlap.
SentInv ==
  /\ \A p \in Data : FromSource(p.seq, p.blocks) /\ p.seq + Len(p.blocks) <= Unsent
  /\ \A n \in StartSeq..(Unsent - 1) : \E p \in Data : n \in Numbers(p)
  /\ \A p, q \in Data : p # q => Numbers(p) \cap Numbers(q) = {}

\* The cache is a run of numbers up to Uncached, empty only if nothing was cached.
IsCache(c) ==
  /\ DOMAIN c = {"inner", "capacity", "eos"}
  /\ c.inner \in Seq(Frames) /\ c.capacity \in Nat \ {0}

RunTo(c, end) ==
  \A i \in 1..Len(c.inner) : c.inner[i].sequence = end - Len(c.inner) + i - 1

CacheInv ==
  /\ IsCache(cache) /\ RunTo(cache, Uncached)
  /\ cache.inner = <<>> => Uncached = StartSeq

EndInv ==
  /\ cache.eos => pc = "done"
  /\ (\E p \in sent : p.kind = "eos") =>
       /\ pc \in {"eos", "done", "failed"} /\ taken = Len(Source)
       /\ pending_blocks = <<>> /\ out = <<>> /\ carry = <<>>

\* go[i] is the cache c after the first i of n blocks.
Pushes(go, c, seq, blocks, n) ==
  /\ go[0] = c
  /\ \A i \in 1..n :
       go[i] = CachePush(go[i - 1], [sequence |-> seq + i - 1, body |-> blocks[i]])
  /\ CacheBlocks(c, seq, blocks) = go[n]

PublisherInv == Shape /\ ControlInv /\ PackInv /\ SentInv /\ CacheInv /\ EndInv
-----------------------------------------------------------------------------
\* The loop of flush_pending over the blocks has the result that CacheBlocks names.
LEMMA CacheLoop ==
  ASSUME Counting, NEW c, NEW seq \in Nat, NEW blocks \in Seq(Bodies), NEW n \in Nat, n = Len(blocks)
  PROVE  \E go : Pushes(go, c, seq, blocks, n)
<1> SUFFICES \E go :
               /\ go[0] = c
               /\ \A i \in 1..n :
                    go[i] = CachePush(go[i - 1], [sequence |-> seq + i - 1, body |-> blocks[i]])
               /\ CacheBlocks(c, seq, blocks) = go[n]
  BY Zenon DEF Pushes
<1>1. n \in Nat /\ n = Len(blocks)
  BY Zenon
<1> DEFINE Round(g, i) ==
             IF i = 0 THEN c
             ELSE CachePush(g[i - 1], [sequence |-> seq + i - 1, body |-> blocks[i]])
           D == {k \in 0..n : \E g : g = [i \in 0..k |-> Round(g, i)]}
<1>2. 0 \in D
  <2>1. [i \in 0..0 |-> c] = [i \in 0..0 |-> Round([j \in 0..0 |-> c], i)]
    <3>1. \A i \in 0..0 : i = 0
      OBVIOUS
    <3> QED BY <3>1, Zenon
  <2> HIDE DEF Round
  <2>2. \E g : g = [i \in 0..0 |-> Round(g, i)]
    BY <2>1, Zenon
  <2> QED BY <1>1, <2>2
<1>3. ASSUME NEW k \in 0..n, k \in D, k < n PROVE k + 1 \in D
  <2>1. PICK g : g = [i \in 0..k |-> Round(g, i)]
    BY <1>3, Zenon
  <2> DEFINE h == [i \in 0..(k + 1) |-> IF i <= k THEN g[i] ELSE Round(g, i)]
  <2>2. \A i \in 0..(k + 1) : h[i] = Round(g, i)
    <3> HIDE DEF Round
    <3> DEFINE r == [i \in 0..k |-> Round(g, i)]
    <3>1. \A i \in 0..k : r[i] = Round(g, i)
      BY Zenon
    <3>2. g = r
      BY <2>1, Zenon
    <3> HIDE DEF r
    <3>3. \A i \in 0..k : g[i] = Round(g, i)
      BY <3>1, <3>2, Zenon
    <3> QED BY <1>1, <1>3, <3>3
  <2>3. \A i \in 0..(k + 1) : Round(h, i) = Round(g, i)
    <3> TAKE i \in 0..(k + 1)
    <3>1. CASE i = 0
      BY <3>1, Zenon
    <3>2. CASE i # 0
      <4>1. i - 1 \in 0..k
        BY <1>1, <1>3, <3>2
      <4>2. h[i - 1] = g[i - 1]
        <5> HIDE DEF Round
        <5> QED BY <1>1, <1>3, <4>1
      <4> HIDE DEF h
      <4> QED BY <4>2, Zenon
    <3> QED BY <3>1, <3>2, Zenon
  <2>4. h = [i \in 0..(k + 1) |-> Round(h, i)]
    <3>1. h = [i \in 0..(k + 1) |-> h[i]]
      BY Zenon
    <3> HIDE DEF h, Round
    <3> QED BY <2>2, <2>3, <3>1, Zenon
  <2>5. \E f : f = [i \in 0..(k + 1) |-> Round(f, i)]
    <3> HIDE DEF h, Round
    <3> QED BY <2>4, Zenon
  <2>6. k + 1 \in 0..n
    BY <1>1, <1>3
  <2> QED BY <2>5, <2>6, Zenon
<1>4. \E g : g = [i \in 0..n |-> Round(g, i)]
  <2> HIDE DEF D
  <2>1. 0..n \subseteq D
    BY <1>1, <1>2, <1>3, Zenon DEF Counting, Induction
  <2>2. n \in D
    BY <1>1, <2>1
  <2> QED BY <2>2, Zenon DEF D
<1> DEFINE go == CHOOSE g : g = [i \in 0..n |-> Round(g, i)]
<1>5. go = [i \in 0..n |-> Round(go, i)]
  <2> HIDE DEF Round
  <2> QED BY <1>4, Zenon
<1>6. CacheBlocks(c, seq, blocks) = go[n]
  BY <1>1, Zenon DEF CacheBlocks
<1>7. \A i \in 0..n : go[i] = Round(go, i)
  <2> DEFINE r == [i \in 0..n |-> Round(go, i)]
  <2>1. \A i \in 0..n : r[i] = Round(go, i)
    <3> HIDE DEF Round
    <3> QED BY Zenon
  <2>2. go = r
    BY <1>5, Zenon
  <2> HIDE DEF r, go, Round
  <2> QED BY <2>1, <2>2, Zenon
<1> HIDE DEF go
<1>8. 0 \in 0..n /\ \A i \in 1..n : i \in 0..n /\ i # 0
  BY <1>1
<1> QED BY <1>6, <1>7, <1>8, Zenon

\* push lengthens the run of numbers, and forgets its oldest frame if it must.
LEMMA PushRun ==
  ASSUME NEW c, NEW frame \in Frames, IsCache(c), RunTo(c, frame.sequence)
  PROVE  LET d == CachePush(c, frame)
         IN  IsCache(d) /\ RunTo(d, frame.sequence + 1) /\ d.inner # <<>> /\ d.eos = c.eos
<1> DEFINE kept == IF Len(c.inner) = c.capacity THEN Tail(c.inner) ELSE c.inner
           d == CachePush(c, frame)
           end == frame.sequence
<1>1. PICK inner \in Seq(Frames), n \in Nat :
        /\ inner = c.inner /\ n = Len(inner) /\ end \in Nat /\ c.capacity \in Nat \ {0}
        /\ \A i \in 1..n : inner[i].sequence = end - n + i - 1
  <2>1. c.inner \in Seq(Frames) /\ c.capacity \in Nat \ {0}
    BY Zenon DEF IsCache
  <2>2. Len(c.inner) \in Nat
    BY <2>1
  <2>3. frame.sequence \in Nat
    BY DEF Frames
  <2> QED BY <2>1, <2>2, <2>3, Zenon DEF RunTo
<1> HIDE DEF end
<1>2. PICK m \in Nat :
        /\ kept \in Seq(Frames) /\ Len(kept) = m
        /\ \A i \in 1..m : kept[i].sequence = end - m + i - 1
  <2>1. CASE n = c.capacity
    <3>1. n > 0 /\ inner # <<>> /\ kept = Tail(inner)
      <4>1. n > 0
        BY <1>1, <2>1
      <4>2. inner # <<>>
        BY <1>1, <4>1
      <4> QED BY <1>1, <2>1, <4>1, <4>2, Zenon
    <3> HIDE DEF kept
    <3>2. kept \in Seq(Frames)
      BY <3>1
    <3>3. Len(kept) = n - 1 /\ \A i \in 1..(n - 1) : kept[i] = inner[i + 1]
      BY <1>1, <3>1
    <3>4. \A i \in 1..(n - 1) : kept[i].sequence = end - (n - 1) + i - 1
      <4> TAKE i \in 1..(n - 1)
      <4>1. i + 1 \in 1..n /\ kept[i] = inner[i + 1]
        BY <1>1, <3>3
      <4>2. inner[i + 1].sequence = end - n + (i + 1) - 1
        BY <1>1, <4>1, Zenon
      <4> QED BY <1>1, <4>1, <4>2
    <3>5. n - 1 \in Nat
      BY <1>1, <3>1
    <3> QED BY <3>2, <3>3, <3>4, <3>5, Zenon
  <2>2. CASE n # c.capacity
    <3>1. kept = inner
      BY <1>1, <2>2, Zenon
    <3> QED BY <1>1, <3>1, Zenon
  <2> QED BY <2>1, <2>2, Zenon
<1>3. d = [c EXCEPT !.inner = Append(kept, frame)]
  BY Zenon DEF CachePush
<1> HIDE DEF kept, d
<1>4. PICK s \in Seq(Frames) : s = Append(kept, frame)
  <2>1. Append(kept, frame) \in Seq(Frames)
    BY <1>2
  <2> QED BY <2>1, Zenon
<1>5. /\ Len(s) = m + 1 /\ s[m + 1] = frame /\ \A i \in 1..m : s[i] = kept[i]
  BY <1>2, <1>4
<1>6. DOMAIN d = {"inner", "capacity", "eos"} /\ d.inner = s /\ d.capacity = c.capacity
      /\ d.eos = c.eos
  BY <1>3, <1>4, Zenon DEF IsCache
<1>7. \A i \in 1..(m + 1) : s[i].sequence = end + 1 - (m + 1) + i - 1
  BY <1>1, <1>2, <1>5, SMTT(30) DEF end
<1>8. IsCache(d) /\ RunTo(d, end + 1)
  BY <1>1, <1>5, <1>6, <1>7 DEF IsCache, RunTo
<1>9. d.inner # <<>>
  BY <1>4, <1>5, <1>6
<1> QED BY <1>6, <1>8, <1>9, Zenon DEF d, end

\* So does the loop of flush_pending.
LEMMA CacheBlocksRun ==
  ASSUME Counting, NEW c, NEW seq \in Nat, NEW blocks \in Seq(Bodies), blocks # <<>>,
         IsCache(c), RunTo(c, seq)
  PROVE  LET d == CacheBlocks(c, seq, blocks)
         IN  IsCache(d) /\ RunTo(d, seq + Len(blocks)) /\ d.inner # <<>> /\ d.eos = c.eos
<1>1. PICK n \in Nat : n = Len(blocks) /\ n > 0
  OBVIOUS
<1>p. PICK go : Pushes(go, c, seq, blocks, n)
  BY <1>1, CacheLoop, Zenon
<1>2. /\ go[0] = c
      /\ \A i \in 1..n :
           go[i] = CachePush(go[i - 1], [sequence |-> seq + i - 1, body |-> blocks[i]])
      /\ CacheBlocks(c, seq, blocks) = go[n]
  BY <1>p, Zenon DEF Pushes
<1> DEFINE Pushed(i) == /\ IsCache(go[i]) /\ RunTo(go[i], seq + i) /\ go[i].eos = c.eos
                        /\ i > 0 => go[i].inner # <<>>
           D == {i \in 0..n : Pushed(i)}
<1>3. 0 \in D
  BY <1>1, <1>2
<1>4. ASSUME NEW i \in 0..n, i \in D, i < n PROVE i + 1 \in D
  <2> DEFINE frame == [sequence |-> seq + i, body |-> blocks[i + 1]]
  <2>1. frame \in Frames /\ frame.sequence = seq + i /\ i + 1 \in 1..n
    BY <1>1, <1>4 DEF Frames
  <2>2. go[i + 1] = CachePush(go[i], frame)
    <3>1. (i + 1) - 1 = i /\ seq + (i + 1) - 1 = seq + i
      BY <1>1
    <3> QED BY <1>2, <2>1, <3>1, Zenon
  <2> HIDE DEF frame
  <2>3. Pushed(i)
    BY <1>4, Zenon
  <2>4. /\ IsCache(go[i + 1]) /\ RunTo(go[i + 1], seq + i + 1)
        /\ go[i + 1].inner # <<>> /\ go[i + 1].eos = c.eos
    BY <2>1, <2>2, <2>3, PushRun
  <2>5. seq + i + 1 = seq + (i + 1) /\ i + 1 \in 0..n
    BY <1>1, <1>4
  <2> QED BY <2>4, <2>5, Zenon
<1>5. Pushed(n)
  <2> HIDE DEF D
  <2>1. 0..n \subseteq D
    BY <1>1, <1>3, <1>4, Zenon DEF Counting, Induction
  <2>2. n \in D
    BY <1>1, <2>1
  <2> QED BY <2>2, Zenon DEF D
<1> QED BY <1>1, <1>2, <1>5, Zenon
-----------------------------------------------------------------------------
LEMMA PublisherInitInv == PublisherInit => PublisherInv
<1> SUFFICES ASSUME PublisherInit PROVE PublisherInv
  BY Zenon
<1>1. /\ taken = 0 /\ next_seq = StartSeq /\ pending_blocks = <<>>
      /\ pending_first_seq = StartSeq /\ pc = "select" /\ after = "select"
      /\ carry = <<>> /\ out = <<>> /\ sent = {} /\ StartSeq \in Nat
  BY PublisherAssumption, Zenon DEF PublisherInit
<1>2. PICK capacity \in Nat : cache = WithCapacity(capacity)
  BY PublisherAssumption, Zenon DEF PublisherInit
<1>3. Shape /\ ControlInv /\ PackInv
  BY <1>1, PublisherAssumption DEF Shape, ControlInv, PackInv
<1>4. Unsent = StartSeq /\ Uncached = StartSeq /\ Data = {}
  BY <1>1, Zenon DEF Unsent, Uncached, Data
<1>5. SentInv
  BY <1>1, <1>4 DEF SentInv
<1>6. /\ cache.inner = <<>> /\ cache.capacity \in Nat \ {0} /\ ~cache.eos
      /\ DOMAIN cache = {"inner", "capacity", "eos"}
  BY <1>2 DEF WithCapacity
<1>7. CacheInv
  BY <1>4, <1>6 DEF CacheInv, IsCache, RunTo
<1>8. EndInv
  BY <1>1, <1>6, Zenon DEF EndInv
<1> QED BY <1>3, <1>5, <1>7, <1>8, Zenon DEF PublisherInv

\* What was sent stays as it is while the first number not sent does.
LEMMA SameSent ==
  ASSUME SentInv, Data' = Data, Unsent' = Unsent
  PROVE  SentInv'
BY Zenon DEF SentInv

\* A heartbeat or end of session is no data.
LEMMA MarkSent ==
  ASSUME NEW kind \in {"heartbeat", "eos"}, sent' = sent \cup {MarkPacket(kind)}
  PROVE  Data' = Data
BY DEF Data, MarkPacket

\* A body numbered next_seq joins the packet or starts one.
LEMMA PushBlockPacks ==
  ASSUME NEW body \in Bodies, PushBlock(body),
         next_seq \in Nat, next_seq >= StartSeq, StartSeq \in Nat,
         pending_blocks \in Seq(Bodies),
         body = Source[next_seq + 1 - StartSeq],
         pending_blocks # <<>> =>
           /\ pending_first_seq + Len(pending_blocks) = next_seq
           /\ FromSource(pending_first_seq, pending_blocks)
  PROVE  /\ next_seq' = next_seq + 1 /\ pending_blocks' # <<>>
         /\ pending_first_seq' + Len(pending_blocks') = next_seq'
         /\ FromSource(pending_first_seq', pending_blocks')
         /\ pending_first_seq' = Uncached /\ pending_blocks' \in Seq(Bodies)
<1>1. next_seq' = next_seq + 1 /\ pending_blocks' = Append(pending_blocks, body)
  BY Zenon DEF PushBlock
<1>2. PICK n \in Nat : n = Len(pending_blocks)
  OBVIOUS
<1>3. /\ pending_blocks' \in Seq(Bodies) /\ pending_blocks' # <<>>
      /\ Len(pending_blocks') = n + 1 /\ pending_blocks'[n + 1] = body
      /\ \A i \in 1..n : pending_blocks'[i] = pending_blocks[i]
  BY <1>1, <1>2
<1>4. CASE pending_blocks = <<>>
  <2>1. pending_first_seq' = next_seq /\ n = 0
    BY <1>2, <1>4, Zenon DEF PushBlock
  <2>2. FromSource(next_seq, pending_blocks')
    BY <1>3, <2>1 DEF FromSource
  <2> QED BY <1>1, <1>3, <1>4, <2>1, <2>2 DEF Uncached
<1>5. CASE pending_blocks # <<>>
  <2>1. pending_first_seq' = pending_first_seq
    BY <1>5, Zenon DEF PushBlock
  <2>2. /\ pending_first_seq + n = next_seq /\ pending_first_seq \in Nat
        /\ pending_first_seq >= StartSeq
        /\ \A i \in 1..n : pending_blocks[i] = Source[pending_first_seq + i - StartSeq]
    BY <1>2, <1>5, Zenon DEF FromSource
  <2>3. \A i \in 1..(n + 1) : pending_blocks'[i] = Source[pending_first_seq + i - StartSeq]
    <3> TAKE i \in 1..(n + 1)
    <3>1. CASE i \in 1..n
      BY <1>3, <2>2, <3>1, Zenon
    <3>2. CASE i = n + 1
      <4>1. pending_first_seq + i - StartSeq = next_seq + 1 - StartSeq
        BY <1>2, <2>2, <3>2
      <4> QED BY <1>3, <3>2, <4>1, Zenon
    <3> QED BY <1>2, <3>1, <3>2
  <2>4. FromSource(pending_first_seq', pending_blocks')
    BY <1>3, <2>1, <2>2, <2>3, Zenon DEF FromSource
  <2>5. pending_first_seq' + Len(pending_blocks') = next_seq'
    <3>1. Len(pending_blocks') = n + 1 /\ next_seq' = next_seq + 1
      BY <1>1, <1>3, Zenon
    <3>2. pending_first_seq + n = next_seq /\ pending_first_seq \in Nat /\ n \in Nat
      BY <1>2, <2>2, Zenon
    <3> QED BY <2>1, <3>1, <3>2
  <2> QED BY <1>1, <1>3, <1>5, <2>1, <2>4, <2>5, Zenon DEF Uncached
<1> QED BY <1>4, <1>5, Zenon

\* A message is taken that fits.
LEMMA TakeFits ==
  ASSUME PublisherInv, pc = "select", taken < Len(Source), taken' = taken + 1,
         PushBlock(Source[taken + 1]),
         UNCHANGED <<pc, after, carry, out, burst, cache, sent>>
  PROVE  PublisherInv'
<1> DEFINE body == Source[taken + 1]
<1>1. /\ out = <<>> /\ carry = <<>> /\ next_seq \in Nat /\ StartSeq \in Nat
      /\ pending_blocks \in Seq(Bodies) /\ taken \in Nat /\ Len(Source) \in Nat
      /\ Source \in Seq(Bodies)
  BY PublisherAssumption DEF PublisherInv, Shape, ControlInv, Bodies
<1>2. next_seq = StartSeq + taken
  BY <1>1 DEF PublisherInv, PackInv
<1>3. body \in Bodies /\ body = Source[next_seq + 1 - StartSeq] /\ next_seq >= StartSeq
  <2>1. next_seq + 1 - StartSeq = taken + 1 /\ next_seq >= StartSeq
    BY <1>1, <1>2
  <2>2. taken + 1 \in 1..Len(Source)
    BY <1>1
  <2>3. body \in Bodies
    BY <1>1, <2>2
  <2> QED BY <2>1, <2>3, Zenon
<1>4. pending_blocks # <<>> =>
        /\ pending_first_seq + Len(pending_blocks) = next_seq
        /\ FromSource(pending_first_seq, pending_blocks)
  BY Zenon DEF PublisherInv, PackInv
<1> HIDE DEF body
<1>5. /\ next_seq' = next_seq + 1 /\ pending_blocks' # <<>>
      /\ pending_first_seq' + Len(pending_blocks') = next_seq'
      /\ FromSource(pending_first_seq', pending_blocks')
      /\ pending_first_seq' = Uncached /\ pending_blocks' \in Seq(Bodies)
  BY <1>1, <1>3, <1>4, PushBlockPacks, Zenon DEF body
<1>6. Shape'
  <2>1. next_seq' \in Nat /\ pending_first_seq' \in Nat /\ taken' \in 0..Len(Source)
    BY <1>1, <1>5 DEF FromSource
  <2> QED BY <1>1, <1>5, <2>1, Zenon DEF PublisherInv, Shape
<1>7. ControlInv'
  BY Zenon DEF PublisherInv, ControlInv
<1>8. PackInv'
  <2>1. next_seq' + Len(carry') = StartSeq + taken'
    <3>1. carry' = <<>>
      BY <1>1, Zenon
    <3>2. next_seq' = next_seq + 1
      BY <1>5, Zenon
    <3> QED BY <1>1, <1>2, <3>1, <3>2
  <2>2. out' = <<>>
    BY <1>1, Zenon
  <2> QED BY <1>5, <2>1, <2>2, Zenon DEF PackInv
<1>9. Uncached' = Uncached /\ Unsent' = Unsent
  BY <1>1, <1>5, Zenon DEF Uncached, Unsent
<1>10. SentInv'
  BY <1>9, SameSent, Zenon DEF PublisherInv, Data
<1>11. CacheInv'
  BY <1>9, Zenon DEF PublisherInv, CacheInv
<1>12. EndInv'
  BY Zenon DEF PublisherInv, EndInv
<1> QED BY <1>6, <1>7, <1>8, <1>10, <1>11, <1>12, Zenon DEF PublisherInv

\* A message is taken that has to wait for the flush.
LEMMA TakeWaits ==
  ASSUME PublisherInv, pc = "select", taken < Len(Source), taken' = taken + 1,
         ~Fits(Source[taken + 1]),
         pc' = "flush", after' = "push", carry' = <<Source[taken + 1]>>,
         UNCHANGED packing, UNCHANGED <<out, burst, cache, sent>>
  PROVE  PublisherInv'
<1>1. /\ out = <<>> /\ carry = <<>> /\ next_seq \in Nat /\ StartSeq \in Nat
      /\ taken \in Nat /\ Len(Source) \in Nat /\ Source \in Seq(Bodies)
      /\ UNCHANGED <<next_seq, pending_blocks, pending_first_seq>>
  BY PublisherAssumption DEF PublisherInv, Shape, ControlInv, Bodies, packing
<1>2. pending_blocks # <<>>
  BY Zenon DEF Fits
<1>3. carry' \in Seq(Bodies) /\ carry' # <<>> /\ carry' = <<Source[taken']>> /\ Len(carry') = 1
  <2>1. taken + 1 \in 1..Len(Source)
    BY <1>1
  <2>2. Source[taken + 1] \in Bodies
    BY <1>1, <2>1
  <2> QED BY <2>2
<1>4. Shape'
  BY <1>1, <1>3 DEF PublisherInv, Shape
<1>5. ControlInv'
  BY <1>1, <1>2, <1>3, Zenon DEF PublisherInv, ControlInv
<1>6. PackInv'
  <2>1. next_seq = StartSeq + taken
    BY <1>1 DEF PublisherInv, PackInv
  <2>2. next_seq' + Len(carry') = StartSeq + taken'
    BY <1>1, <1>3, <2>1
  <2> QED BY <1>1, <2>2, Zenon DEF PublisherInv, PackInv
<1>7. Uncached' = Uncached /\ Unsent' = Unsent
  BY <1>1, Zenon DEF Uncached, Unsent
<1>8. SentInv'
  BY <1>7, SameSent, Zenon DEF PublisherInv, Data
<1>9. CacheInv'
  BY <1>7, Zenon DEF PublisherInv, CacheInv
<1>10. EndInv'
  BY Zenon DEF PublisherInv, EndInv
<1> QED BY <1>4, <1>5, <1>6, <1>8, <1>9, <1>10, Zenon DEF PublisherInv

LEMMA TakeMessageInv == PublisherInv /\ TakeMessage => PublisherInv'
<1> SUFFICES ASSUME PublisherInv, TakeMessage PROVE PublisherInv'
  BY Zenon
<1> QED BY TakeFits, TakeWaits, Zenon DEF TakeMessage

\* A step that moves only pc, after, burst and the marks among what was sent.
LEMMA OnlyControl ==
  ASSUME PublisherInv, UNCHANGED <<taken, next_seq, pending_blocks, pending_first_seq, carry, out>>,
         Data' = Data, ControlInv',
         pc' \in {"select", "flush", "send", "eos", "done", "failed"},
         after' \in {"select", "push", "eos"},
         IsCache(cache'), cache'.inner = cache.inner, EndInv'
  PROVE  PublisherInv'
<1>1. Shape' /\ PackInv'
  BY Zenon DEF PublisherInv, Shape, PackInv
<1>2. Uncached' = Uncached /\ Unsent' = Unsent
  BY Zenon DEF Uncached, Unsent
<1>3. SentInv'
  BY <1>2, SameSent, Zenon DEF PublisherInv
<1>4. CacheInv'
  BY <1>2, Zenon DEF PublisherInv, CacheInv, RunTo
<1> QED BY <1>1, <1>3, <1>4, Zenon DEF PublisherInv

LEMMA SelectInv == PublisherInv /\ (SourceExhausted \/ SelectFails \/ SendFails) => PublisherInv'
<1> SUFFICES ASSUME PublisherInv, SourceExhausted \/ SelectFails \/ SendFails PROVE PublisherInv'
  BY Zenon
<1>1. UNCHANGED <<taken, next_seq, pending_blocks, pending_first_seq, carry, out, cache, sent>>
  BY Zenon DEF SourceExhausted, SelectFails, SendFails, packing
<1>2. Data' = Data /\ IsCache(cache')
  BY <1>1, Zenon DEF PublisherInv, CacheInv, Data
<1>3. /\ pc' \in {"select", "flush", "send", "eos", "done", "failed"}
      /\ after' \in {"select", "push", "eos"}
  BY Zenon DEF SourceExhausted, SelectFails, SendFails, PublisherInv, Shape
<1>4. ControlInv'
  BY <1>1, Zenon DEF SourceExhausted, SelectFails, SendFails, PublisherInv, Shape, ControlInv
<1>5. EndInv'
  BY <1>1, Zenon DEF SourceExhausted, SelectFails, SendFails, PublisherInv, EndInv
<1> QED BY <1>1, <1>2, <1>3, <1>4, <1>5, OnlyControl, Zenon

LEMMA HeartbeatDueInv == PublisherInv /\ HeartbeatDue => PublisherInv'
<1> SUFFICES ASSUME PublisherInv, HeartbeatDue PROVE PublisherInv'
  BY Zenon
<1>1. /\ UNCHANGED <<taken, next_seq, pending_blocks, pending_first_seq, carry, out, cache>>
      /\ pc = "select"
  BY Zenon DEF HeartbeatDue, packing
<1>2. sent' = sent \/ sent' = sent \cup {MarkPacket("heartbeat")}
  BY Zenon DEF HeartbeatDue
<1>3. Data' = Data /\ IsCache(cache')
  <2>1. IsCache(cache')
    BY <1>1, Zenon DEF PublisherInv, CacheInv
  <2>2. CASE sent' = sent
    BY <2>1, <2>2, Zenon DEF Data
  <2>3. CASE sent' = sent \cup {MarkPacket("heartbeat")}
    BY <2>1, <2>3, MarkSent, Zenon
  <2> QED BY <1>2, <2>2, <2>3, Zenon
<1>4. /\ pc' \in {"select", "flush", "send", "eos", "done", "failed"}
      /\ after' \in {"select", "push", "eos"}
  BY Zenon DEF HeartbeatDue, PublisherInv, Shape
<1>5. ControlInv'
  BY <1>1, Zenon DEF HeartbeatDue, PublisherInv, Shape, ControlInv
<1>6. EndInv'
  <2>1. MarkPacket("heartbeat").kind # "eos"
    BY Zenon DEF MarkPacket
  <2>2. ~(\E p \in sent : p.kind = "eos") /\ ~cache.eos
    BY <1>1, Zenon DEF PublisherInv, EndInv
  <2> QED BY <1>1, <1>2, <2>1, <2>2, Zenon DEF EndInv
<1> QED BY <1>1, <1>3, <1>4, <1>5, <1>6, OnlyControl, Zenon

LEMMA EosInv == PublisherInv /\ (EosSend \/ EosMark) => PublisherInv'
<1> SUFFICES ASSUME PublisherInv, EosSend \/ EosMark PROVE PublisherInv'
  BY Zenon
<1>1. /\ UNCHANGED <<taken, next_seq, pending_blocks, pending_first_seq, carry, out, after>>
      /\ pc = "eos" /\ pc' \in {"eos", "done"}
  BY Zenon DEF EosSend, EosMark, packing
<1>2. taken = Len(Source) /\ pending_blocks = <<>> /\ out = <<>> /\ carry = <<>>
  BY <1>1, Zenon DEF PublisherInv, ControlInv
<1>3. Data' = Data
  <2>1. CASE EosSend
    BY <2>1, MarkSent, Zenon DEF EosSend
  <2>2. CASE EosMark
    BY <2>2, Zenon DEF EosMark, Data
  <2> QED BY <2>1, <2>2, Zenon
<1>4. IsCache(cache') /\ cache'.inner = cache.inner
  BY Zenon DEF EosSend, EosMark, MarkEndOfSession, PublisherInv, CacheInv, IsCache
<1>5. ControlInv'
  BY <1>1, <1>2, Zenon DEF ControlInv
<1>6. EndInv'
  <2>1. cache'.eos => pc' = "done"
    <3>1. CASE EosSend
      BY <1>1, <3>1, Zenon DEF EosSend, PublisherInv, EndInv
    <3>2. CASE EosMark
      BY <3>2, Zenon DEF EosMark
    <3> QED BY <3>1, <3>2, Zenon
  <2> QED BY <1>1, <1>2, <2>1, Zenon DEF EndInv
<1> QED BY <1>1, <1>3, <1>4, <1>5, <1>6, OnlyControl, Zenon DEF PublisherInv, Shape

\* The packet under construction is cached, then it is out.
LEMMA FlushCacheInv ==
  ASSUME Counting
  PROVE  PublisherInv /\ FlushCache => PublisherInv'
<1> SUFFICES ASSUME PublisherInv, FlushCache PROVE PublisherInv'
  BY Zenon
<1> DEFINE first == pending_first_seq
           blocks == pending_blocks
<1>1. /\ pc = "flush" /\ pc' = "send" /\ out' = <<DataPacket(first, blocks)>>
      /\ cache' = CacheBlocks(cache, first, blocks) /\ pending_blocks' = <<>>
      /\ UNCHANGED <<taken, next_seq, pending_first_seq, after, carry, sent>>
  BY Zenon DEF FlushCache
<1>2. /\ blocks # <<>> /\ blocks \in Seq(Bodies) /\ first \in Nat
      /\ first + Len(blocks) = next_seq /\ FromSource(first, blocks)
      /\ out = <<>> /\ next_seq \in Nat
  BY <1>1, Zenon DEF PublisherInv, ControlInv, PackInv, Shape
<1>3. Unsent = first /\ Uncached = first
  BY <1>2, Zenon DEF Unsent, Uncached
<1> HIDE DEF first, blocks
<1>4. out'[1].seq = first /\ out'[1].blocks = blocks /\ out' # <<>>
      /\ out' = <<DataPacket(out'[1].seq, out'[1].blocks)>>
  BY <1>1, Zenon DEF DataPacket
<1>5. Unsent' = first /\ Uncached' = next_seq
  BY <1>1, <1>4, Zenon DEF Unsent, Uncached
<1>6. /\ IsCache(cache') /\ RunTo(cache', next_seq) /\ cache'.inner # <<>>
      /\ cache'.eos = cache.eos
  BY <1>1, <1>2, <1>3, CacheBlocksRun, Zenon DEF PublisherInv, CacheInv
<1>7. Shape'
  BY <1>1 DEF PublisherInv, Shape
<1>8. ControlInv'
  BY <1>1, <1>4, Zenon DEF PublisherInv, ControlInv
<1>9. PackInv'
  <2>1. next_seq' + Len(carry') = StartSeq + taken'
    BY <1>1, Zenon DEF PublisherInv, PackInv
  <2> QED BY <1>1, <1>2, <1>4, <2>1, Zenon DEF PackInv
<1>10. SentInv'
  BY <1>1, <1>3, <1>5, SameSent, Zenon DEF PublisherInv, Data
<1>11. CacheInv'
  BY <1>5, <1>6, Zenon DEF CacheInv
<1>12. EndInv'
  BY <1>1, <1>6, Zenon DEF PublisherInv, EndInv
<1> QED BY <1>7, <1>8, <1>9, <1>10, <1>11, <1>12, Zenon DEF PublisherInv

\* A packet that starts where what was sent ends.
LEMMA SendExtends ==
  ASSUME SentInv, NEW pkt, Data' = Data \cup {pkt}, FromSource(pkt.seq, pkt.blocks),
         Unsent = pkt.seq, Unsent' = pkt.seq + Len(pkt.blocks), StartSeq \in Nat
  PROVE  SentInv'
<1>1. PICK f \in Nat, n \in Nat : f = pkt.seq /\ n = Len(pkt.blocks) /\ f >= StartSeq
  BY DEF FromSource
<1>2. Unsent = f /\ Unsent' = f + n /\ Numbers(pkt) = f..(f + n - 1)
  BY <1>1, Zenon DEF Numbers
<1>3. ASSUME NEW p \in Data
      PROVE  /\ FromSource(p.seq, p.blocks) /\ p.seq + Len(p.blocks) <= f
             /\ Numbers(p) \cap Numbers(pkt) = {}
  <2>1. FromSource(p.seq, p.blocks) /\ p.seq + Len(p.blocks) <= f
    BY <1>2, <1>3 DEF SentInv
  <2>2. PICK g \in Nat, m \in Nat : g = p.seq /\ m = Len(p.blocks)
    BY <2>1 DEF FromSource
  <2>3. Numbers(p) = g..(g + m - 1) /\ g + m <= f
    BY <2>1, <2>2, Zenon DEF Numbers
  <2>4. Numbers(p) \cap Numbers(pkt) = {}
    BY <1>1, <1>2, <2>2, <2>3, SMTT(30)
  <2> QED BY <2>1, <2>4, Zenon
<1>4. \A p \in Data' : FromSource(p.seq, p.blocks) /\ p.seq + Len(p.blocks) <= Unsent'
  <2>1. ASSUME NEW p \in Data PROVE p.seq + Len(p.blocks) <= f + n
    <3>1. FromSource(p.seq, p.blocks) /\ p.seq + Len(p.blocks) <= f
      BY <1>3, <2>1, Zenon
    <3>2. p.seq \in Nat /\ Len(p.blocks) \in Nat
      BY <3>1 DEF FromSource
    <3> QED BY <1>1, <3>1, <3>2
  <2>2. pkt.seq + Len(pkt.blocks) <= f + n
    BY <1>1
  <2> QED BY <1>2, <1>3, <2>1, <2>2, Zenon
<1>5. \A k \in StartSeq..(Unsent' - 1) : \E p \in Data' : k \in Numbers(p)
  <2> TAKE k \in StartSeq..(Unsent' - 1)
  <2>1. CASE k < f
    <3>1. k \in StartSeq..(Unsent - 1)
      BY <1>1, <1>2, <2>1
    <3> QED BY <3>1, Zenon DEF SentInv
  <2>2. CASE ~(k < f)
    <3>1. k \in Numbers(pkt)
      BY <1>1, <1>2, <2>2, SMTT(30)
    <3> QED BY <3>1, Zenon
  <2> QED BY <2>1, <2>2, Zenon
<1>6. \A p, q \in Data' : p # q => Numbers(p) \cap Numbers(q) = {}
  BY <1>3, Zenon DEF SentInv
<1> QED BY <1>4, <1>5, <1>6, Zenon DEF SentInv, Numbers, FromSource

LEMMA FlushSendInv == PublisherInv /\ FlushSend => PublisherInv'
<1> SUFFICES ASSUME PublisherInv, FlushSend PROVE PublisherInv'
  BY Zenon
<1>1. /\ pc = "send" /\ sent' = sent \cup {out[1]} /\ out' = <<>>
      /\ UNCHANGED <<taken, after, burst, cache>>
  BY Zenon DEF FlushSend
<1>2. /\ pending_blocks = <<>> /\ out = <<DataPacket(out[1].seq, out[1].blocks)>>
      /\ out[1].seq + Len(out[1].blocks) = next_seq /\ out # <<>>
      /\ FromSource(out[1].seq, out[1].blocks)
  BY <1>1, Zenon DEF PublisherInv, ControlInv, PackInv
<1>3. /\ next_seq \in Nat /\ StartSeq \in Nat /\ next_seq >= StartSeq
      /\ taken \in Nat /\ Source \in Seq(Bodies) /\ taken <= Len(Source)
  <2>1. /\ next_seq \in Nat /\ StartSeq \in Nat
        /\ taken \in Nat /\ Source \in Seq(Bodies) /\ taken <= Len(Source)
    BY PublisherAssumption DEF PublisherInv, Shape, Bodies
  <2>2. out[1].seq \in Nat /\ Len(out[1].blocks) \in Nat /\ out[1].seq >= StartSeq
    <3>1. out[1].blocks \in Seq(Bodies)
      BY <1>2, Zenon DEF FromSource
    <3>2. Len(out[1].blocks) \in Nat
      BY <3>1
    <3> QED BY <1>2, <3>2, Zenon DEF FromSource
  <2>3. PICK f \in Nat, n \in Nat : f >= StartSeq /\ f + n = next_seq
    BY <1>2, <2>2, Zenon
  <2> QED BY <2>1, <2>3
<1>4. Data' = Data \cup {out[1]}
  <2>1. out[1].kind = "data"
    BY <1>2 DEF DataPacket
  <2> QED BY <1>1, <2>1, Zenon DEF Data
<1>5. Unsent = out[1].seq /\ Uncached = next_seq
  BY <1>2, Zenon DEF Unsent, Uncached
<1>6. ~(\E p \in sent' : p.kind = "eos") /\ ~cache'.eos
  <2>1. out[1].kind = "data"
    BY <1>2 DEF DataPacket
  <2> QED BY <1>1, <2>1, Zenon DEF PublisherInv, EndInv
<1>7. EndInv'
  BY <1>6, Zenon DEF EndInv
<1>8. CASE after = "push"
  <2>1. /\ PushBlock(carry[1]) /\ carry' = <<>> /\ pc' = "select"
    BY <1>8, Zenon DEF FlushSend
  <2>2. carry = <<Source[taken]>> /\ taken > 0
    <3>1. carry # <<>>
      BY <1>1, <1>8, Zenon DEF PublisherInv, ControlInv
    <3> QED BY <3>1, Zenon DEF PublisherInv, Shape
  <2>3. next_seq + 1 = StartSeq + taken
    BY <2>2, Zenon DEF PublisherInv, PackInv
  <2>4. carry[1] \in Bodies /\ carry[1] = Source[next_seq + 1 - StartSeq]
    <3>1. taken \in 1..Len(Source) /\ next_seq + 1 - StartSeq = taken
      BY <1>3, <2>2, <2>3
    <3> QED BY <1>3, <2>2, <3>1
  <2>5. /\ next_seq' = next_seq + 1 /\ pending_blocks' # <<>>
        /\ pending_first_seq' + Len(pending_blocks') = next_seq'
        /\ FromSource(pending_first_seq', pending_blocks')
        /\ pending_first_seq' = next_seq /\ pending_blocks' \in Seq(Bodies)
    BY <1>2, <1>3, <1>5, <2>1, <2>4, PushBlockPacks
  <2>6. Unsent' = next_seq /\ Uncached' = next_seq
    BY <1>1, <2>5, Zenon DEF Unsent, Uncached
  <2>7. Shape'
    BY <1>1, <1>3, <2>1, <2>5 DEF PublisherInv, Shape
  <2>8. ControlInv'
    BY <1>1, <2>1, Zenon DEF ControlInv
  <2>9. PackInv'
    <3>1. next_seq' + Len(carry') = StartSeq + taken'
      BY <1>1, <1>3, <2>1, <2>3, <2>5
    <3> QED BY <1>1, <2>5, <3>1, Zenon DEF PackInv
  <2>10. SentInv'
    BY <1>2, <1>3, <1>4, <1>5, <2>6, SendExtends, Zenon DEF PublisherInv
  <2>11. CacheInv'
    BY <1>1, <1>5, <2>6, Zenon DEF PublisherInv, CacheInv
  <2> QED BY <1>7, <2>7, <2>8, <2>9, <2>10, <2>11, Zenon DEF PublisherInv
<1>9. CASE after # "push"
  <2>1. /\ pending_first_seq' = next_seq /\ pc' = after
        /\ UNCHANGED <<next_seq, pending_blocks, carry>>
    BY <1>9, Zenon DEF FlushSend
  <2>2. carry = <<>> /\ after \in {"select", "eos"}
    BY <1>1, <1>9, Zenon DEF PublisherInv, Shape, ControlInv
  <2>3. Unsent' = next_seq /\ Uncached' = next_seq
    BY <1>1, <1>2, <2>1, Zenon DEF Unsent, Uncached
  <2>4. Shape'
    BY <1>1, <1>3, <2>1, <2>2, Zenon DEF PublisherInv, Shape
  <2>5. ControlInv'
    BY <1>1, <1>2, <2>1, <2>2, Zenon DEF PublisherInv, ControlInv
  <2>6. PackInv'
    BY <1>1, <1>2, <2>1, Zenon DEF PublisherInv, PackInv
  <2>7. SentInv'
    BY <1>2, <1>3, <1>4, <1>5, <2>3, SendExtends, Zenon DEF PublisherInv
  <2>8. CacheInv'
    BY <1>1, <1>5, <2>3, Zenon DEF PublisherInv, CacheInv
  <2> QED BY <1>7, <2>4, <2>5, <2>6, <2>7, <2>8, Zenon DEF PublisherInv
<1> QED BY <1>8, <1>9, Zenon

LEMMA PublisherNextInv ==
  ASSUME Counting
  PROVE  PublisherInv /\ [PublisherNext]_pubvars => PublisherInv'
<1> SUFFICES ASSUME PublisherInv, [PublisherNext]_pubvars PROVE PublisherInv'
  BY SMTT(30)
<1>1. ASSUME UNCHANGED pubvars PROVE PublisherInv'
  BY <1>1 DEF pubvars, packing, PublisherInv, Shape, ControlInv, PackInv, SentInv, CacheInv, EndInv,
     Unsent, Uncached, Data
<1> QED BY <1>1, TakeMessageInv, SelectInv, HeartbeatDueInv, FlushCacheInv, FlushSendInv, EosInv, Zenon
           DEF PublisherNext
-----------------------------------------------------------------------------
-----------------------------------------------------------------------------
\* The size of a packet is its header and its blocks, one by one.
LEMMA WireLenLoop ==
  ASSUME Counting, NEW blocks \in Seq(Bodies), NEW n \in Nat, n = Len(blocks)
  PROVE  \E go :
           /\ go[0] = Header
           /\ \A i \in 1..n : go[i] = go[i - 1] + BlockSize(blocks[i])
           /\ WireLen(blocks) = go[n]
<1>1. n \in Nat /\ n = Len(blocks)
  BY Zenon
<1> DEFINE Round(g, i) ==
             IF i = 0 THEN Header ELSE g[i - 1] + BlockSize(blocks[i])
           D == {k \in 0..n : \E g : g = [i \in 0..k |-> Round(g, i)]}
<1>2. 0 \in D
  <2>1. [i \in 0..0 |-> Header] = [i \in 0..0 |-> Round([j \in 0..0 |-> Header], i)]
    <3>1. \A i \in 0..0 : i = 0
      OBVIOUS
    <3> QED BY <3>1, Zenon
  <2> HIDE DEF Round
  <2>2. \E g : g = [i \in 0..0 |-> Round(g, i)]
    BY <2>1, Zenon
  <2> QED BY <1>1, <2>2
<1>3. ASSUME NEW k \in 0..n, k \in D, k < n PROVE k + 1 \in D
  <2>1. PICK g : g = [i \in 0..k |-> Round(g, i)]
    BY <1>3, Zenon
  <2> DEFINE h == [i \in 0..(k + 1) |-> IF i <= k THEN g[i] ELSE Round(g, i)]
  <2>2. \A i \in 0..(k + 1) : h[i] = Round(g, i)
    <3> HIDE DEF Round
    <3> DEFINE r == [i \in 0..k |-> Round(g, i)]
    <3>1. \A i \in 0..k : r[i] = Round(g, i)
      BY Zenon
    <3>2. g = r
      BY <2>1, Zenon
    <3> HIDE DEF r
    <3>3. \A i \in 0..k : g[i] = Round(g, i)
      BY <3>1, <3>2, Zenon
    <3> QED BY <1>1, <1>3, <3>3
  <2>3. \A i \in 0..(k + 1) : Round(h, i) = Round(g, i)
    <3> TAKE i \in 0..(k + 1)
    <3>1. CASE i = 0
      BY <3>1, Zenon
    <3>2. CASE i # 0
      <4>1. i - 1 \in 0..k
        BY <1>1, <1>3, <3>2
      <4>2. h[i - 1] = g[i - 1]
        <5> HIDE DEF Round
        <5> QED BY <1>1, <1>3, <4>1
      <4> HIDE DEF h
      <4> QED BY <4>2, Zenon
    <3> QED BY <3>1, <3>2, Zenon
  <2>4. h = [i \in 0..(k + 1) |-> Round(h, i)]
    <3>1. h = [i \in 0..(k + 1) |-> h[i]]
      BY Zenon
    <3> HIDE DEF h, Round
    <3> QED BY <2>2, <2>3, <3>1, Zenon
  <2>5. \E f : f = [i \in 0..(k + 1) |-> Round(f, i)]
    <3> HIDE DEF h, Round
    <3> QED BY <2>4, Zenon
  <2>6. k + 1 \in 0..n
    BY <1>1, <1>3
  <2> QED BY <2>5, <2>6, Zenon
<1>4. \E g : g = [i \in 0..n |-> Round(g, i)]
  <2> HIDE DEF D
  <2>1. 0..n \subseteq D
    BY <1>1, <1>2, <1>3, Zenon DEF Counting, Induction
  <2>2. n \in D
    BY <1>1, <2>1
  <2> QED BY <2>2, Zenon DEF D
<1> DEFINE go == CHOOSE g : g = [i \in 0..n |-> Round(g, i)]
<1>5. go = [i \in 0..n |-> Round(go, i)]
  <2> HIDE DEF Round
  <2> QED BY <1>4, Zenon
<1>6. WireLen(blocks) = go[n]
  BY <1>1, Zenon DEF WireLen
<1>7. \A i \in 0..n : go[i] = Round(go, i)
  <2> DEFINE r == [i \in 0..n |-> Round(go, i)]
  <2>1. \A i \in 0..n : r[i] = Round(go, i)
    <3> HIDE DEF Round
    <3> QED BY Zenon
  <2>2. go = r
    BY <1>5, Zenon
  <2> HIDE DEF r, go, Round
  <2> QED BY <2>1, <2>2, Zenon
<1> HIDE DEF go
<1>8. 0 \in 0..n /\ \A i \in 1..n : i \in 0..n /\ i # 0
  BY <1>1
<1> QED BY <1>6, <1>7, <1>8, Zenon

\* A block adds its size.
LEMMA WireLenAppend ==
  ASSUME Counting, NEW blocks \in Seq(Bodies), NEW body \in Bodies
  PROVE  /\ WireLen(Append(blocks, body)) = WireLen(blocks) + BlockSize(body)
         /\ blocks = <<>> => WireLen(blocks) = Header
<1>1. PICK n \in Nat : n = Len(blocks)
  OBVIOUS
<1>2. PICK more \in Seq(Bodies) : more = Append(blocks, body)
  <2>1. Append(blocks, body) \in Seq(Bodies)
    OBVIOUS
  <2> QED BY <2>1, Zenon
<1>3. /\ n + 1 = Len(more) /\ n + 1 \in Nat /\ more[n + 1] = body
      /\ \A i \in 1..n : more[i] = blocks[i]
  BY <1>1, <1>2
<1>4. PICK g : /\ g[0] = Header
               /\ \A i \in 1..n : g[i] = g[i - 1] + BlockSize(blocks[i])
               /\ WireLen(blocks) = g[n]
  BY <1>1, WireLenLoop, Zenon
<1>5. PICK h : /\ h[0] = Header
               /\ \A i \in 1..(n + 1) : h[i] = h[i - 1] + BlockSize(more[i])
               /\ WireLen(more) = h[n + 1]
  BY <1>3, WireLenLoop, SMTT(30)
<1> DEFINE D == {i \in 0..n : g[i] = h[i]}
<1>6. 0 \in D
  BY <1>4, <1>5
<1>7. ASSUME NEW i \in 0..n, i \in D, i < n PROVE i + 1 \in D
  <2>1. i + 1 \in 1..n /\ i + 1 \in 1..(n + 1) /\ (i + 1) - 1 = i /\ i + 1 \in 0..n
    BY <1>7
  <2>2. g[i + 1] = g[i] + BlockSize(blocks[i + 1]) /\ h[i + 1] = h[i] + BlockSize(more[i + 1])
    BY <1>4, <1>5, <2>1, Zenon
  <2>3. g[i] = h[i] /\ more[i + 1] = blocks[i + 1]
    BY <1>3, <1>7, <2>1, Zenon
  <2>4. g[i + 1] = h[i + 1]
    BY <2>2, <2>3, Zenon
  <2> QED BY <2>1, <2>4, Zenon
<1>8. g[n] = h[n]
  <2> HIDE DEF D
  <2>1. 0..n \subseteq D
    BY <1>6, <1>7, Zenon DEF Counting, Induction
  <2>2. n \in D
    BY <2>1
  <2> QED BY <2>2, Zenon DEF D
<1>9. h[n + 1] = h[n] + BlockSize(body)
  <2>1. n + 1 \in 1..(n + 1) /\ (n + 1) - 1 = n
    OBVIOUS
  <2> QED BY <1>3, <1>5, <2>1, Zenon
<1>10. WireLen(Append(blocks, body)) = WireLen(blocks) + BlockSize(body)
  BY <1>2, <1>4, <1>5, <1>8, <1>9, Zenon
<1>11. blocks = <<>> => WireLen(blocks) = Header
  BY <1>1, <1>4, Zenon
<1> QED BY <1>10, <1>11, Zenon

\* Packets, under construction and sent, keep to the MTU, and pending_size is the size of
\* the one under construction.
Within(blocks) == WireLen(blocks) <= mtu \/ Len(blocks) = 1

SizeInv ==
  /\ pending_blocks # <<>> => pending_size = WireLen(pending_blocks) /\ Within(pending_blocks)
  /\ out # <<>> => Within(out[1].blocks)
  /\ \A p \in Data : Within(p.blocks)

LEMMA PushBlockFits ==
  ASSUME Counting, NEW body \in Bodies, PushBlock(body), Fits(body), pending_blocks \in Seq(Bodies),
         pending_blocks # <<>> => pending_size = WireLen(pending_blocks), mtu' = mtu
  PROVE  pending_size' = WireLen(pending_blocks') /\ Within(pending_blocks)'
<1>1. pending_blocks' = Append(pending_blocks, body)
  BY Zenon DEF PushBlock
<1>2. WireLen(pending_blocks') = WireLen(pending_blocks) + BlockSize(body)
  BY <1>1, WireLenAppend, Zenon
<1>3. CASE pending_blocks = <<>>
  <2>1. WireLen(pending_blocks) = Header
    BY <1>3, WireLenAppend, Zenon
  <2>2. Len(pending_blocks') = 1
    BY <1>1, <1>3
  <2> QED BY <1>2, <1>3, <2>1, <2>2, Zenon DEF PushBlock, Within
<1>4. CASE pending_blocks # <<>>
  BY <1>2, <1>4, Zenon DEF PushBlock, Fits, Within
<1> QED BY <1>3, <1>4, Zenon

LEMMA InitSize == PublisherInit => SizeInv
BY Zenon DEF PublisherInit, SizeInv, Data

LEMMA NextSize ==
  ASSUME Counting
  PROVE  PublisherInv /\ SizeInv /\ [PublisherNext]_pubvars => SizeInv'
<1> SUFFICES ASSUME PublisherInv, SizeInv, [PublisherNext]_pubvars PROVE SizeInv'
  BY Zenon
<1>1. mtu' = mtu
  BY Zenon DEF PublisherNext, TakeMessage, SourceExhausted, SelectFails, HeartbeatDue, FlushCache, FlushSend,
     EosSend, SendFails, EosMark, pubvars
<1>2. CASE UNCHANGED <<pending_blocks, pending_size, out>> /\ Data' = Data
  BY <1>1, <1>2, Zenon DEF SizeInv, Within
<1>3. CASE TakeMessage
  <2> DEFINE body == Source[taken + 1]
  <2>1. CASE Fits(body) /\ PushBlock(body)
    <3>1. body \in Bodies /\ pending_blocks \in Seq(Bodies)
      <4>1. taken + 1 \in 1..Len(Source) /\ Source \in Seq(Bodies)
        BY <1>3, PublisherAssumption DEF TakeMessage, PublisherInv, Shape, Bodies
      <4> QED BY <4>1 DEF PublisherInv, Shape
    <3>2. pending_size' = WireLen(pending_blocks') /\ Within(pending_blocks)'
      BY <1>1, <2>1, <3>1, PushBlockFits, Zenon DEF SizeInv
    <3>3. out' = out /\ Data' = Data
      BY <1>3, Zenon DEF TakeMessage, Data
    <3> QED BY <1>1, <3>2, <3>3, Zenon DEF SizeInv, Within
  <2>2. CASE UNCHANGED packing
    BY <1>2, <1>3, <2>2, Zenon DEF TakeMessage, packing, Data
  <2> QED BY <1>3, <2>1, <2>2, Zenon DEF TakeMessage
<1>4. CASE FlushCache
  <2>1. pending_blocks # <<>> /\ pending_blocks' = <<>> /\ Data' = Data
    BY <1>4, Zenon DEF FlushCache, PublisherInv, ControlInv, Data
  <2>2. out'[1].blocks = pending_blocks
    BY <1>4, Zenon DEF FlushCache, DataPacket
  <2> QED BY <1>1, <2>1, <2>2, Zenon DEF SizeInv, Within
<1>5. CASE FlushSend
  <2>1. /\ pending_blocks = <<>> /\ out # <<>> /\ out' = <<>> /\ sent' = sent \cup {out[1]}
    BY <1>5, Zenon DEF FlushSend, PublisherInv, ControlInv, PackInv
  <2>2. \A p \in Data' : Within(p.blocks)'
    BY <1>1, <2>1, Zenon DEF Data, SizeInv, Within
  <2>3. pending_blocks' # <<>> => pending_size' = WireLen(pending_blocks') /\ Within(pending_blocks)'
    <3>1. CASE after = "push"
      <4>1. PushBlock(carry[1]) /\ Fits(carry[1])
        BY <1>5, <2>1, <3>1, Zenon DEF FlushSend, Fits
      <4>2. carry[1] \in Bodies /\ pending_blocks \in Seq(Bodies)
        <5>1. carry # <<>> /\ carry \in Seq(Bodies) /\ pending_blocks \in Seq(Bodies)
          BY <1>5, <3>1, Zenon DEF FlushSend, PublisherInv, ControlInv, Shape
        <5> QED BY <5>1
      <4> QED BY <1>1, <2>1, <4>1, <4>2, PushBlockFits, Zenon
    <3>2. CASE after # "push"
      BY <1>5, <2>1, <3>2, Zenon DEF FlushSend
    <3> QED BY <3>1, <3>2, Zenon
  <2> QED BY <2>1, <2>2, <2>3, Zenon DEF SizeInv
<1>6. CASE HeartbeatDue \/ EosSend
  <2>1. /\ UNCHANGED <<pending_blocks, pending_size, out>>
        /\ \/ sent' = sent
           \/ \E kind \in {"heartbeat", "eos"} : sent' = sent \cup {MarkPacket(kind)}
    BY <1>6, Zenon DEF HeartbeatDue, EosSend, packing
  <2>2. Data' = Data
    BY <2>1, MarkSent, Zenon DEF Data
  <2> QED BY <1>2, <2>1, <2>2, Zenon
<1>7. CASE SourceExhausted \/ SelectFails \/ SendFails \/ EosMark \/ UNCHANGED pubvars
  BY <1>2, <1>7, Zenon DEF SourceExhausted, SelectFails, SendFails, EosMark, pubvars, packing, Data
<1> QED BY <1>3, <1>4, <1>5, <1>6, <1>7, Zenon DEF PublisherNext

\* What was published are the numbers up to the first that was not sent.
LEMMA PublishedUpTo ==
  ASSUME Counting, PublisherInv
  PROVE  /\ Unsent \in Nat /\ Unsent >= StartSeq /\ StartSeq \in Nat
         /\ Published = StartSeq..(Unsent - 1)
         /\ Cardinality(Published) = Unsent - StartSeq
<1>1. StartSeq \in Nat /\ taken \in Nat /\ next_seq \in Nat
  BY PublisherAssumption DEF PublisherInv, Shape
<1>2. Unsent \in Nat /\ Unsent >= StartSeq
  <2>1. next_seq >= StartSeq
    <3>1. CASE carry = <<>>
      BY <1>1, <3>1 DEF PublisherInv, PackInv
    <3>2. CASE carry # <<>>
      <4>1. carry = <<Source[taken]>> /\ taken > 0
        BY <3>2, Zenon DEF PublisherInv, Shape
      <4>2. next_seq + 1 = StartSeq + taken
        BY <4>1, Zenon DEF PublisherInv, PackInv
      <4> QED BY <1>1, <4>1, <4>2
    <3> QED BY <3>1, <3>2, Zenon
  <2> QED BY <1>1, <2>1, Zenon DEF PublisherInv, PackInv, FromSource, Unsent
<1>3. ASSUME NEW n \in Published PROVE n \in StartSeq..(Unsent - 1)
  <2>1. PICK p \in Data : n \in Numbers(p)
    BY <1>3, Zenon DEF Published
  <2>2. FromSource(p.seq, p.blocks) /\ p.seq + Len(p.blocks) <= Unsent
    BY <2>1, Zenon DEF PublisherInv, SentInv
  <2>3. PICK f \in Nat, m \in Nat : f = p.seq /\ m = Len(p.blocks) /\ f >= StartSeq
    BY <2>2 DEF FromSource
  <2>4. n \in f..(f + m - 1) /\ f + m <= Unsent
    BY <2>1, <2>2, <2>3, Zenon DEF Numbers
  <2> QED BY <1>1, <1>2, <2>3, <2>4
<1>4. ASSUME NEW n \in StartSeq..(Unsent - 1) PROVE n \in Published
  BY <1>4, Zenon DEF PublisherInv, SentInv, Published
<1>5. Published = StartSeq..(Unsent - 1)
  BY <1>3, <1>4, Zenon
<1>6. Cardinality(StartSeq..(Unsent - 1)) = Unsent - StartSeq
  <2>1. \A b \in Int : Cardinality(StartSeq..b) = IF StartSeq > b THEN 0 ELSE b - StartSeq + 1
    BY <1>1 DEF Counting, CountInterval
  <2> QED BY <1>1, <1>2, <2>1
<1> QED BY <1>1, <1>2, <1>5, <1>6, Zenon

LEMMA SourcePublishedStep ==
  ASSUME Counting
  PROVE  PublisherInv /\ SizeInv => PublishedIsSource
<1> SUFFICES ASSUME PublisherInv, SizeInv PROVE PublishedIsSource
  BY Zenon
<1>1. Published = StartSeq..(StartSeq + Cardinality(Published) - 1)
  <2>1. StartSeq + (Unsent - StartSeq) - 1 = Unsent - 1
    BY PublishedUpTo
  <2> QED BY <2>1, PublishedUpTo, Zenon
<1>2. \A p, q \in Data : p # q => Numbers(p) \cap Numbers(q) = {}
  BY Zenon DEF PublisherInv, SentInv
<1>3. ASSUME NEW p \in Data, NEW i \in DOMAIN p.blocks
      PROVE  p.blocks[i] = Source[p.seq + i - StartSeq]
  BY <1>3 DEF PublisherInv, SentInv, FromSource
<1>4. \A p \in Data : WireLen(p.blocks) <= mtu \/ Len(p.blocks) = 1
  BY Zenon DEF SizeInv, Within
<1> QED BY <1>1, <1>2, <1>3, <1>4, Zenon DEF PublishedIsSource

LEMMA NoLength == ASSUME NEW S, NEW s \in Seq(S), Len(s) = 0 PROVE s = <<>>
OBVIOUS

LEMMA CachedFirstStep ==
  ASSUME Counting
  PROVE  PublisherInv => CachedBeforeSent
<1> SUFFICES ASSUME PublisherInv, NEW n \in Published
             PROVE  n \in Cached(cache) \/ n < cache.inner[1].sequence
  BY Zenon DEF CachedBeforeSent
<1>1. /\ n \in StartSeq..(Unsent - 1) /\ StartSeq \in Nat /\ Unsent \in Nat
  BY PublishedUpTo, Zenon
<1>2. Uncached \in Nat /\ Unsent <= Uncached
  <2>1. CASE out = <<>>
    BY <1>1, <2>1 DEF Unsent, Uncached
  <2>2. CASE out # <<>>
    <3>1. /\ pending_blocks = <<>> /\ out[1].seq + Len(out[1].blocks) = next_seq
          /\ out[1].seq \in Nat /\ Len(out[1].blocks) \in Nat
      BY <2>2 DEF PublisherInv, PackInv, FromSource
    <3>2. Unsent = out[1].seq /\ Uncached = next_seq
      BY <2>2, <3>1, Zenon DEF Unsent, Uncached
    <3> QED BY <3>1, <3>2
  <2> QED BY <2>1, <2>2, Zenon
<1>3. PICK m \in Nat :
        /\ m = Len(cache.inner) /\ DOMAIN cache.inner = 1..m
        /\ \A i \in 1..m : cache.inner[i].sequence = Uncached - m + i - 1
  BY DEF PublisherInv, CacheInv, IsCache, RunTo
<1>4. m # 0
  <2>1. PICK inner \in Seq(Frames) : inner = cache.inner
    BY Zenon DEF PublisherInv, CacheInv, IsCache
  <2>2. m = 0 => inner = <<>>
    <3>1. m = Len(inner)
      BY <1>3, <2>1, Zenon
    <3> QED BY <3>1, NoLength, Zenon
  <2>3. inner # <<>>
    BY <1>1, <1>2, <2>1 DEF PublisherInv, CacheInv
  <2> QED BY <2>2, <2>3, Zenon
<1>5. n \in Nat /\ n < Uncached
  BY <1>1, <1>2
<1>6. CASE n < Uncached - m
  <2>1. 1 \in 1..m /\ Uncached - m + 1 - 1 = Uncached - m
    BY <1>2, <1>4
  <2>2. cache.inner[1].sequence = Uncached - m
    BY <1>3, <2>1, Zenon
  <2> QED BY <1>6, <2>2, Zenon
<1>7. CASE ~(n < Uncached - m)
  <2> DEFINE i == n - Uncached + m + 1
  <2>1. i \in 1..m /\ Uncached - m + i - 1 = n
    BY <1>2, <1>7, <1>5
  <2> HIDE DEF i
  <2>2. cache.inner[i].sequence = n /\ i \in DOMAIN cache.inner
    BY <1>3, <2>1, Zenon
  <2> QED BY <2>2, Zenon DEF Cached
<1> QED BY <1>6, <1>7, Zenon

LEMMA EndCompleteStep ==
  ASSUME Counting
  PROVE  PublisherInv => EndIsComplete
<1> SUFFICES ASSUME PublisherInv, (\E p \in sent : p.kind = "eos") \/ cache.eos
             PROVE  Cardinality(Published) = Len(Source)
  BY Zenon DEF EndIsComplete
<1>1. taken = Len(Source) /\ pending_blocks = <<>> /\ out = <<>> /\ carry = <<>>
  BY Zenon DEF PublisherInv, EndInv, ControlInv
<1>2. Unsent = next_seq
  BY <1>1, Zenon DEF Unsent
<1>3. /\ next_seq + Len(carry) = StartSeq + taken /\ next_seq \in Nat /\ taken \in Nat
  BY DEF PublisherInv, PackInv, Shape
<1>4. next_seq = StartSeq + taken
  BY <1>1, <1>3
<1> QED BY <1>1, <1>2, <1>3, <1>4, PublishedUpTo

LEMMA MarksHonestStep ==
  ASSUME Counting
  PROVE  PublisherInv /\ [PublisherNext]_pubvars
      => [\A p \in sent' \ sent : p.kind # "data" => p.seq = StartSeq + Cardinality(Published)]_pubvars
<1> SUFFICES ASSUME PublisherInv, PublisherNext, NEW p \in sent' \ sent, p.kind # "data"
             PROVE  p.seq = StartSeq + Cardinality(Published)
  BY Zenon
<1>1. CASE FlushSend
  <2>1. p = out[1] /\ pc = "send"
    BY <1>1, Zenon DEF FlushSend
  <2>2. out[1].kind = "data"
    <3>1. out = <<DataPacket(out[1].seq, out[1].blocks)>>
      BY <2>1, Zenon DEF PublisherInv, ControlInv, PackInv
    <3> QED BY <3>1 DEF DataPacket
  <2> QED BY <2>1, <2>2, Zenon
<1>2. CASE HeartbeatDue \/ EosSend
  <2>1. /\ pc \in {"select", "eos"} /\ pending_blocks = <<>>
        /\ \E kind \in {"heartbeat", "eos"} : p = MarkPacket(kind)
    BY <1>2, Zenon DEF HeartbeatDue, EosSend, PublisherInv, ControlInv
  <2>2. p.seq = next_seq
    BY <2>1 DEF MarkPacket
  <2>3. Unsent = next_seq
    BY <2>1, Zenon DEF PublisherInv, ControlInv, Unsent
  <2> QED BY <2>2, <2>3, PublishedUpTo
<1>3. CASE TakeMessage \/ SourceExhausted \/ SelectFails \/ FlushCache \/ SendFails \/ EosMark
  BY <1>3, Zenon DEF TakeMessage, SourceExhausted, SelectFails, FlushCache, SendFails, EosMark
<1> QED BY <1>1, <1>2, <1>3, Zenon DEF PublisherNext

-----------------------------------------------------------------------------
(* What a session's client may read: the packets on the wire, and the cache. *)

\* The frames of the cache carry the messages of the source.
BodiesOf(c) ==
  \A i \in 1..Len(c.inner) :
    /\ c.inner[i].sequence >= StartSeq
    /\ c.inner[i].body = Source[c.inner[i].sequence - StartSeq + 1]

OnWire(p) ==
  \/ p = DataPacket(p.seq, p.blocks) /\ p.blocks # <<>>
  \/ p \in [session : {PubSession}, kind : {"heartbeat", "eos"},
            seq : StartSeq..(StartSeq + Len(Source)), blocks : {<<>>}]

WireInv == BodiesOf(cache) /\ \A p \in sent : OnWire(p)

\* push keeps the bodies.
LEMMA PushBodies ==
  ASSUME NEW c, IsCache(c), BodiesOf(c), NEW frame \in Frames, frame.sequence >= StartSeq,
         frame.body = Source[frame.sequence - StartSeq + 1]
  PROVE  BodiesOf(CachePush(c, frame))
<1> DEFINE kept == IF Len(c.inner) = c.capacity THEN Tail(c.inner) ELSE c.inner
<1>1. PICK inner \in Seq(Frames), n \in Nat :
        inner = c.inner /\ n = Len(inner) /\ c.capacity \in Nat \ {0}
  BY DEF IsCache
<1>2. CachePush(c, frame).inner = Append(kept, frame)
  BY <1>1, Zenon DEF CachePush, IsCache
<1>3. /\ kept \in Seq(Frames)
      /\ \A i \in 1..Len(kept) : \E j \in 1..n : kept[i] = inner[j]
  <2>1. CASE n = c.capacity
    <3>1. n > 0 /\ inner # <<>> /\ kept = Tail(inner)
      <4>1. n > 0
        BY <1>1, <2>1
      <4>2. inner # <<>>
        BY <1>1, <4>1
      <4> QED BY <1>1, <2>1, <4>1, <4>2, Zenon
    <3> HIDE DEF kept
    <3>2. kept \in Seq(Frames) /\ Len(kept) = n - 1 /\ \A i \in 1..(n - 1) : kept[i] = inner[i + 1]
      BY <1>1, <3>1
    <3>3. \A i \in 1..(n - 1) : i + 1 \in 1..n
      BY <1>1
    <3> QED BY <3>2, <3>3, Zenon
  <2>2. CASE n # c.capacity
    <3>1. kept = inner
      BY <1>1, <2>2, Zenon
    <3> HIDE DEF kept
    <3> QED BY <1>1, <3>1, Zenon
  <2> QED BY <2>1, <2>2, Zenon
<1> HIDE DEF kept
<1>4. PICK m \in Nat : m = Len(kept)
  BY <1>3
<1>5. \A i \in 1..m : kept[i].sequence >= StartSeq /\ kept[i].body = Source[kept[i].sequence - StartSeq + 1]
  BY <1>1, <1>3, <1>4 DEF BodiesOf
<1>6. /\ Len(Append(kept, frame)) = m + 1 /\ Append(kept, frame)[m + 1] = frame
      /\ \A i \in 1..m : Append(kept, frame)[i] = kept[i]
  BY <1>3, <1>4
<1>7. \A i \in 1..(m + 1) : i \in 1..m \/ i = m + 1
  BY <1>4
<1>8. \A i \in 1..(m + 1) :
        /\ Append(kept, frame)[i].sequence >= StartSeq
        /\ Append(kept, frame)[i].body = Source[Append(kept, frame)[i].sequence - StartSeq + 1]
  BY <1>5, <1>6, <1>7, Zenon
<1> QED BY <1>2, <1>6, <1>8, Zenon DEF BodiesOf

\* So does the loop of flush_pending.
LEMMA CacheBlocksBodies ==
  ASSUME Counting, NEW c, NEW seq \in Nat, NEW blocks \in Seq(Bodies),
         IsCache(c), RunTo(c, seq), BodiesOf(c), FromSource(seq, blocks), StartSeq \in Nat
  PROVE  BodiesOf(CacheBlocks(c, seq, blocks))
<1>1. PICK n \in Nat : n = Len(blocks)
  OBVIOUS
<1>p. PICK go : Pushes(go, c, seq, blocks, n)
  BY <1>1, CacheLoop, Zenon
<1>2. /\ go[0] = c
      /\ \A i \in 1..n :
           go[i] = CachePush(go[i - 1], [sequence |-> seq + i - 1, body |-> blocks[i]])
      /\ CacheBlocks(c, seq, blocks) = go[n]
  BY <1>p, Zenon DEF Pushes
<1> DEFINE Fine(i) == IsCache(go[i]) /\ RunTo(go[i], seq + i) /\ BodiesOf(go[i])
           D == {i \in 0..n : Fine(i)}
<1>3. 0 \in D
  BY <1>1, <1>2
<1>4. ASSUME NEW i \in 0..n, i \in D, i < n PROVE i + 1 \in D
  <2> DEFINE frame == [sequence |-> seq + i, body |-> blocks[i + 1]]
  <2>1. frame \in Frames /\ frame.sequence = seq + i /\ i + 1 \in 1..n
    BY <1>1, <1>4 DEF Frames
  <2>2. go[i + 1] = CachePush(go[i], frame)
    <3>1. (i + 1) - 1 = i /\ seq + (i + 1) - 1 = seq + i
      BY <1>1
    <3> QED BY <1>2, <2>1, <3>1, Zenon
  <2>3. frame.sequence >= StartSeq /\ frame.body = Source[frame.sequence - StartSeq + 1]
    <3>1. seq + (i + 1) - StartSeq = (seq + i) - StartSeq + 1 /\ seq >= StartSeq
      BY <1>1, <1>4 DEF FromSource
    <3>2. blocks[i + 1] = Source[seq + (i + 1) - StartSeq]
      BY <1>1, <2>1, Zenon DEF FromSource
    <3> QED BY <1>4, <3>1, <3>2
  <2> HIDE DEF frame
  <2>4. Fine(i)
    BY <1>4, Zenon
  <2>5. IsCache(go[i + 1]) /\ RunTo(go[i + 1], seq + i + 1)
    BY <2>1, <2>2, <2>4, PushRun, Zenon
  <2>6. BodiesOf(go[i + 1])
    BY <2>1, <2>2, <2>3, <2>4, PushBodies, Zenon
  <2>7. seq + i + 1 = seq + (i + 1) /\ i + 1 \in 0..n
    BY <1>1, <1>4
  <2> QED BY <2>5, <2>6, <2>7, Zenon
<1>5. Fine(n)
  <2> HIDE DEF D
  <2>1. 0..n \subseteq D
    BY <1>1, <1>3, <1>4, Zenon DEF Counting, Induction
  <2>2. n \in D
    BY <1>1, <2>1
  <2> QED BY <2>2, Zenon DEF D
<1> QED BY <1>2, <1>5, Zenon

LEMMA InitWire == PublisherInit => WireInv
<1> SUFFICES ASSUME PublisherInit PROVE WireInv
  BY Zenon
<1>1. PICK capacity : cache = WithCapacity(capacity)
  BY Zenon DEF PublisherInit
<1>2. cache.inner = <<>> /\ sent = {}
  BY <1>1, Zenon DEF WithCapacity, PublisherInit
<1> QED BY <1>2 DEF WireInv, BodiesOf

\* Every step keeps what a client may read, and takes no packet from the wire.
LEMMA NextWire ==
  ASSUME Counting, PublisherInv, WireInv, [PublisherNext]_pubvars
  PROVE  WireInv' /\ sent \subseteq sent'
<1>0. /\ StartSeq \in Nat /\ Len(Source) \in Nat /\ next_seq \in Nat
      /\ next_seq >= StartSeq /\ next_seq <= StartSeq + Len(Source)
  <2>1. /\ StartSeq \in Nat /\ Len(Source) \in Nat /\ next_seq \in Nat
        /\ taken \in Nat /\ taken <= Len(Source) /\ Len(carry) \in Nat
        /\ next_seq + Len(carry) = StartSeq + taken
    BY PublisherAssumption DEF PublisherInv, Shape, PackInv
  <2>2. Len(carry) <= taken
    <3>1. CASE carry = <<>>
      BY <2>1, <3>1
    <3>2. CASE carry # <<>>
      <4>1. carry = <<Source[taken]>> /\ taken > 0
        BY <3>2, Zenon DEF PublisherInv, Shape
      <4>2. Len(carry) = 1
        BY <4>1, Zenon
      <4> QED BY <2>1, <4>1, <4>2
    <3> QED BY <3>1, <3>2, Zenon
  <2> QED BY <2>1, <2>2
<1>1. ASSUME NEW kind \in {"heartbeat", "eos"} PROVE OnWire(MarkPacket(kind))
  BY <1>0 DEF OnWire, MarkPacket
<1>2. ASSUME cache' = cache, sent' = sent PROVE WireInv' /\ sent \subseteq sent'
  BY <1>2, Zenon DEF WireInv
<1>3. ASSUME cache' = cache, NEW p, OnWire(p), sent' = sent \cup {p}
      PROVE  WireInv' /\ sent \subseteq sent'
  BY <1>3, Zenon DEF WireInv
<1>4. CASE TakeMessage
  BY <1>2, <1>4, Zenon DEF TakeMessage
<1>5. CASE SourceExhausted \/ SelectFails \/ SendFails
  BY <1>2, <1>5, Zenon DEF SourceExhausted, SelectFails, SendFails
<1>6. CASE HeartbeatDue
  BY <1>1, <1>2, <1>3, <1>6, Zenon DEF HeartbeatDue
<1>7. CASE FlushCache
  <2>1. /\ cache' = CacheBlocks(cache, pending_first_seq, pending_blocks) /\ sent' = sent
        /\ pc = "flush"
    BY <1>7, Zenon DEF FlushCache
  <2>2. /\ pending_blocks # <<>> /\ pending_blocks \in Seq(Bodies) /\ pending_first_seq \in Nat
        /\ FromSource(pending_first_seq, pending_blocks) /\ Uncached = pending_first_seq
    BY <2>1, Zenon DEF PublisherInv, ControlInv, PackInv, Shape, Uncached
  <2>3. IsCache(cache) /\ RunTo(cache, pending_first_seq) /\ BodiesOf(cache)
    BY <2>2, Zenon DEF PublisherInv, CacheInv, WireInv
  <2>4. BodiesOf(cache')
    BY <1>0, <2>1, <2>2, <2>3, CacheBlocksBodies, Zenon
  <2> QED BY <2>1, <2>4, Zenon DEF WireInv
<1>8. CASE FlushSend
  <2>1. pc = "send" /\ sent' = sent \cup {out[1]} /\ cache' = cache
    BY <1>8, Zenon DEF FlushSend
  <2>2. out # <<>> /\ out = <<DataPacket(out[1].seq, out[1].blocks)>> /\ out[1].blocks # <<>>
    BY <2>1, Zenon DEF PublisherInv, ControlInv, PackInv
  <2>3. OnWire(out[1])
    BY <2>2 DEF OnWire
  <2> QED BY <1>3, <2>1, <2>3, Zenon
<1>9. CASE EosSend
  BY <1>1, <1>3, <1>9, Zenon DEF EosSend
<1>10. CASE EosMark
  <2>1. sent' = sent /\ cache' = MarkEndOfSession(cache)
    BY <1>10, Zenon DEF EosMark
  <2>2. cache'.inner = cache.inner
    BY <2>1, Zenon DEF MarkEndOfSession, PublisherInv, CacheInv, IsCache
  <2> QED BY <2>1, <2>2, Zenon DEF WireInv, BodiesOf
<1>11. CASE UNCHANGED pubvars
  BY <1>2, <1>11, Zenon DEF pubvars
<1> QED BY <1>4, <1>5, <1>6, <1>7, <1>8, <1>9, <1>10, <1>11, Zenon DEF PublisherNext

\* lookup answers with messages of the source: those from start on, each with its number,
\* and no more than were asked for.
LEMMA LookupRun ==
  ASSUME Counting, PublisherInv, WireInv, MaxResponse \in Nat, NEW start \in Nat, NEW count \in Nat,
         Lookup(cache, start, count) # <<>>
  PROVE  \E n \in 1..Wanted(count) :
           /\ start >= StartSeq /\ start + n <= Uncached
           /\ Lookup(cache, start, count) =
                [i \in 1..n |->
                   [sequence |-> start + i - 1, body |-> Source[start + i - StartSeq]]]
<1> DEFINE at == CHOOSE i \in DOMAIN cache.inner : cache.inner[i].sequence = start
           run == {k \in 0..(Wanted(count) - 1) : start..(start + k) \subseteq Cached(cache)}
           frames == Lookup(cache, start, count)
<1>1. PICK inner \in Seq(Frames), m \in Nat, end \in Nat :
        /\ inner = cache.inner /\ m = Len(inner) /\ end = Uncached /\ StartSeq \in Nat
        /\ \A i \in 1..m : inner[i].sequence = end - m + i - 1
        /\ \A i \in 1..m : /\ inner[i].sequence >= StartSeq
                           /\ inner[i].body = Source[inner[i].sequence - StartSeq + 1]
  <2>1. Uncached \in Nat /\ StartSeq \in Nat
    BY PublisherAssumption, Zenon DEF Uncached, PublisherInv, Shape
  <2>2. cache.inner \in Seq(Frames) /\ Len(cache.inner) \in Nat
    BY DEF PublisherInv, CacheInv, IsCache
  <2>3. RunTo(cache, Uncached) /\ BodiesOf(cache)
    BY Zenon DEF PublisherInv, CacheInv, WireInv
  <2> QED BY <2>1, <2>2, <2>3, Zenon DEF RunTo, BodiesOf
<1>2. PICK w \in Nat : w = Wanted(count)
  BY Zenon DEF Wanted
<1>3. start \in Cached(cache) /\ frames = SubSeq(inner, at, at + Cardinality(run) - 1)
  BY <1>1, Zenon DEF Lookup
<1>4. \A x \in Cached(cache) : \E i \in 1..m : x = inner[i].sequence
  BY <1>1 DEF Cached
<1>5. at \in 1..m /\ inner[at].sequence = start
  <2>1. \E i \in DOMAIN cache.inner : cache.inner[i].sequence = start
    BY <1>3, Zenon DEF Cached
  <2>2. at \in DOMAIN cache.inner /\ cache.inner[at].sequence = start
    BY <2>1, Zenon
  <2> HIDE DEF at
  <2> QED BY <1>1, <2>2
<1> HIDE DEF at
<1>6. start = end - m + at - 1 /\ start >= StartSeq
  BY <1>1, <1>5, Zenon
<1>7. PICK c \in Nat : /\ c = Cardinality(run)
                      /\ run = 0..(c - 1)
  <2>1. run \in SUBSET Nat /\ \A k \in run : 0 <= k /\ 0..k \subseteq run
    BY <1>2
  <2>2. IsFiniteSet(run)
    <3>1. run \subseteq 0..(w - 1) /\ w - 1 \in Int
      BY <1>2
    <3>2. IsFiniteSet(0..(w - 1))
      BY <3>1 DEF Counting, CountInterval
    <3> HIDE DEF run
    <3> QED BY <3>1, <3>2, Zenon DEF Counting, CountSubset
  <2> HIDE DEF run
  <2>3. Cardinality(run) \in Nat /\ run = 0..(0 + Cardinality(run) - 1)
    BY <2>1, <2>2, Zenon DEF Counting, CountRun
  <2> QED BY <2>3
<1>8. c > 0 => c <= w /\ start + c - 1 \in Cached(cache)
  <2> SUFFICES ASSUME c > 0 PROVE c <= w /\ start + c - 1 \in Cached(cache)
    BY Zenon
  <2>1. c - 1 \in run
    <3>1. c - 1 \in 0..(c - 1)
      OBVIOUS
    <3> HIDE DEF run
    <3> QED BY <1>7, <3>1, Zenon
  <2>2. c - 1 \in 0..(w - 1) /\ start..(start + (c - 1)) \subseteq Cached(cache)
    BY <1>2, <2>1, Zenon
  <2> QED BY <2>2
<1> HIDE DEF run
<1>9. c > 0
  <2>1. SUFFICES ASSUME c = 0 PROVE FALSE
    BY <1>7
  <2>2. frames = SubSeq(inner, at, at - 1)
    BY <1>3, <1>5, <1>7, <2>1
  <2>3. SubSeq(inner, at, at - 1) = <<>>
    BY <1>1, <1>5
  <2> QED BY <2>2, <2>3, Zenon
<1>10. at + c - 1 <= m /\ start + c <= end
  <2>1. PICK i \in 1..m : start + c - 1 = inner[i].sequence
    BY <1>4, <1>8, <1>9, Zenon
  <2>2. start + c - 1 = end - m + i - 1
    BY <1>1, <2>1, Zenon
  <2> QED BY <1>5, <1>6, <2>1, <2>2
<1> DEFINE good == [i \in 1..c |->
                      [sequence |-> start + i - 1, body |-> Source[start + i - StartSeq]]]
<1>11. /\ frames \in Seq(Frames) /\ Len(frames) = c /\ DOMAIN frames = 1..c
       /\ frames = [i \in 1..c |-> frames[i]]
       /\ \A i \in 1..c : frames[i] = inner[at + i - 1]
  <2> HIDE DEF frames
  <2>1. frames = SubSeq(inner, at, at + c - 1)
    BY <1>3, <1>7, Zenon
  <2>2. PICK b \in Nat : /\ b = at + c - 1 /\ b <= m /\ b - at + 1 = c
                         /\ at \in Nat /\ at >= 1
    BY <1>1, <1>5, <1>9, <1>10
  <2>3. frames = SubSeq(inner, at, b)
    BY <2>1, <2>2, Zenon
  <2>4. /\ frames \in Seq(Frames) /\ Len(frames) = b - at + 1
        /\ \A i \in 1..(b - at + 1) : frames[i] = inner[at + i - 1]
    BY <1>1, <2>2, <2>3
  <2>5. Len(frames) = c /\ \A i \in 1..c : frames[i] = inner[at + i - 1]
    BY <2>2, <2>4, Zenon
  <2> QED BY <2>4, <2>5
<1>12. \A i \in 1..c : frames[i] = good[i]
  <2> HIDE DEF frames
  <2> TAKE i \in 1..c
  <2>1. at + i - 1 \in 1..m /\ i \in Nat
    BY <1>1, <1>5, <1>10
  <2>2. inner[at + i - 1] \in Frames
    BY <1>1, <2>1
  <2>3. inner[at + i - 1].sequence = start + i - 1
    <3>1. end - m + (at + i - 1) - 1 = start + i - 1
      BY <1>5, <1>6, <2>1
    <3>2. inner[at + i - 1].sequence = end - m + (at + i - 1) - 1
      BY <1>1, <2>1, Zenon
    <3> QED BY <3>1, <3>2, Zenon
  <2>4. inner[at + i - 1].body = Source[start + i - StartSeq]
    <3>1. (start + i - 1) - StartSeq + 1 = start + i - StartSeq
      BY <1>1, <2>1
    <3> QED BY <1>1, <2>1, <2>3, <3>1
  <2> QED BY <1>11, <2>2, <2>3, <2>4, Zenon DEF Frames
<1>13. frames = good
  <2> HIDE DEF frames
  <2>1. good = [i \in 1..c |-> good[i]]
    BY Zenon
  <2> HIDE DEF good
  <2> QED BY <1>11, <1>12, <2>1, Zenon
<1>14. c \in 1..w
  BY <1>8, <1>9
<1> QED BY <1>1, <1>2, <1>6, <1>10, <1>13, <1>14, Zenon

\* What is on the wire is of the session, from its first number on, and of the source.
LEMMA WireFacts ==
  ASSUME Counting, PublisherInv, WireInv
  PROVE  /\ StartSeq \in Nat /\ Len(Source) \in Nat /\ Unsent \in Nat /\ Uncached \in Nat
         /\ StartSeq <= Unsent /\ Uncached <= StartSeq + Len(Source)
         /\ \A p \in sent : p.session = PubSession /\ p.seq \in Nat /\ StartSeq <= p.seq
         /\ \A p \in Data : /\ p = DataPacket(p.seq, p.blocks) /\ p.blocks # <<>>
                            /\ FromSource(p.seq, p.blocks) /\ p.seq + Len(p.blocks) <= Unsent
                            /\ p.seq + Len(p.blocks) <= StartSeq + Len(Source)
<1>1. /\ StartSeq \in Nat /\ Len(Source) \in Nat /\ next_seq \in Nat /\ Len(carry) \in Nat
      /\ taken \in Nat /\ taken <= Len(Source) /\ next_seq + Len(carry) = StartSeq + taken
      /\ pending_first_seq \in Nat /\ Len(pending_blocks) \in Nat
  BY PublisherAssumption DEF PublisherInv, Shape, PackInv
<1>2. next_seq <= StartSeq + Len(Source)
  BY <1>1
<1>3. Unsent \in Nat /\ StartSeq <= Unsent
  BY PublishedUpTo, Zenon
<1>4. Uncached \in Nat /\ Uncached <= next_seq
  BY <1>1 DEF Uncached, PublisherInv, PackInv
<1>5. Unsent <= next_seq
  <2>1. CASE out # <<>>
    <3>1. out[1].seq + Len(out[1].blocks) = next_seq /\ out[1].seq \in Nat /\ Len(out[1].blocks) \in Nat
      BY <2>1 DEF PublisherInv, PackInv, FromSource
    <3> QED BY <1>1, <2>1, <3>1 DEF Unsent
  <2>2. CASE out = <<>>
    BY <1>1, <1>4, <2>2, Zenon DEF Unsent, Uncached
  <2> QED BY <2>1, <2>2, Zenon
<1>6. ASSUME NEW p \in Data
      PROVE  /\ p = DataPacket(p.seq, p.blocks) /\ p.blocks # <<>>
             /\ FromSource(p.seq, p.blocks) /\ p.seq + Len(p.blocks) <= Unsent
             /\ p.seq + Len(p.blocks) <= StartSeq + Len(Source)
  <2>1. p \in sent /\ p.kind = "data"
    BY Zenon DEF Data
  <2>2. p = DataPacket(p.seq, p.blocks) /\ p.blocks # <<>>
    BY <2>1, Zenon DEF WireInv, OnWire
  <2>3. FromSource(p.seq, p.blocks) /\ p.seq + Len(p.blocks) <= Unsent
    BY Zenon DEF PublisherInv, SentInv
  <2>4. p.seq \in Nat /\ Len(p.blocks) \in Nat
    BY <2>3 DEF FromSource
  <2> QED BY <1>1, <1>2, <1>3, <1>5, <2>2, <2>3, <2>4
<1>7. ASSUME NEW p \in sent
      PROVE  p.session = PubSession /\ p.seq \in Nat /\ StartSeq <= p.seq
  <2>1. CASE p = DataPacket(p.seq, p.blocks)
    <3>1. p.session = PubSession /\ p.kind = "data"
      BY <2>1 DEF DataPacket
    <3>2. p \in Data
      BY <3>1, Zenon DEF Data
    <3> QED BY <1>6, <3>1, <3>2, Zenon DEF FromSource
  <2>2. CASE p \in [session : {PubSession}, kind : {"heartbeat", "eos"},
                    seq : StartSeq..(StartSeq + Len(Source)), blocks : {<<>>}]
    BY <1>1, <2>2
  <2> QED BY <2>1, <2>2, Zenon DEF WireInv, OnWire
<1> QED BY <1>1, <1>2, <1>3, <1>4, <1>6, <1>7

PublishedRun == Published = StartSeq..(Unsent - 1) /\ Unsent \in Nat /\ StartSeq <= Unsent

LEMMA PublishedIsRun ==
  ASSUME Counting
  PROVE  PublisherInv => PublishedRun
BY PublishedUpTo, Zenon DEF PublishedRun

\* The first number that was not sent only grows.
LEMMA UnsentGrows ==
  ASSUME Counting, PublisherInv, WireInv, [PublisherNext]_pubvars
  PROVE  Unsent <= Unsent'
<1>1. PublisherInv' /\ sent \subseteq sent'
  BY PublisherNextInv, NextWire, Zenon
<1>2. Published = StartSeq..(Unsent - 1) /\ Unsent \in Nat /\ StartSeq \in Nat /\ StartSeq <= Unsent
  BY PublishedUpTo, Zenon
<1>3. /\ Published' = StartSeq..(Unsent' - 1) /\ Unsent' \in Nat /\ StartSeq <= Unsent'
  <2>1. PublishedRun'
    BY <1>1, PublishedIsRun, PTL
  <2> QED BY <2>1, Zenon DEF PublishedRun
<1>4. Published \subseteq Published'
  BY <1>1, Zenon DEF Published, Data, Numbers
<1>5. PICK a \in Nat, b \in Nat : a = Unsent /\ b = Unsent' /\ StartSeq <= b
  BY <1>2, <1>3, Zenon
<1>6. StartSeq..(a - 1) \subseteq StartSeq..(b - 1) /\ StartSeq \in Nat /\ StartSeq <= b
  BY <1>2, <1>3, <1>4, <1>5, Zenon
<1>7. a <= b
  <2>1. a > StartSeq => a - 1 \in StartSeq..(b - 1)
    BY <1>6
  <2> QED BY <1>6, <2>1
<1> QED BY <1>5, <1>7, Zenon
-----------------------------------------------------------------------------
(* The inductive invariant. *)

Top == StartSeq + Len(Source)

\* The recovery task is about numbers the publisher has sent and the cursor has not
\* passed by; what it ends with are consecutive messages of the source from there.
TaskInv ==
  /\ active.state \in {"none", "trying", "ok", "err", "panicked"}
  /\ active.state = "none" => active = NoTask
  /\ active.state # "none" =>
       /\ active.from \in Nat /\ active.to \in Nat /\ rx.bootstrapped
       /\ Between(active, rx.next_expected, StartSeq, Unsent)
  /\ active.state = "trying" =>
       active \in [state : {"trying"}, from : Nat, to : Nat, server : Nat, attempt : Nat]
  /\ active.state = "ok" =>
       /\ active.frames \in SessionRepairs
       /\ \A i \in DOMAIN active.frames : active.frames[i].sequence = active.from + i - 1

ClientInv == Inv /\ Told(rx, PubSession, StartSeq, Unsent, Top) /\ TaskInv

SessionInv == PublisherInv /\ WireInv /\ ClientInv
-----------------------------------------------------------------------------
(* What is on the wire, and what the request servers answer. *)

\* The packets on the wire are packets of the session.
LEMMA SentIsSession ==
  ASSUME Counting, PublisherInv, WireInv
  PROVE  sent \subseteq SessionPackets
<1> SUFFICES ASSUME NEW p \in sent PROVE p \in SessionPackets
  BY Zenon
<1>1. StartSeq \in Nat /\ Len(Source) \in Nat
  BY PublisherAssumption
<1>2. CASE p = DataPacket(p.seq, p.blocks) /\ p.blocks # <<>>
  <2>1. p \in Data
    BY <1>2 DEF Data, DataPacket
  <2>2. PICK f \in Nat, b \in Seq(Bodies), n \in Nat :
          /\ f = p.seq /\ b = p.blocks /\ n = Len(b) /\ n # 0 /\ f >= StartSeq
          /\ f + n <= StartSeq + Len(Source)
          /\ \A i \in 1..n : b[i] = Source[f + i - StartSeq]
    <3>1. FromSource(p.seq, p.blocks) /\ p.seq + Len(p.blocks) <= StartSeq + Len(Source)
      BY <2>1, WireFacts, Zenon
    <3>2. p.blocks \in Seq(Bodies) /\ Len(p.blocks) # 0
      BY <1>2, <3>1, NoLength, Zenon DEF FromSource
    <3> QED BY <3>1, <3>2 DEF FromSource
  <2>3. b = [i \in 1..n |-> Source[f + i - StartSeq]]
    BY <2>2
  <2> DEFINE run == <<f, n>>
  <2>4. run \in Runs
    BY <1>1, <2>2 DEF Runs
  <2>5. p = DataPacket(run[1], [i \in 1..run[2] |-> Source[run[1] + i - StartSeq]])
    BY <1>2, <2>2, <2>3, Zenon
  <2> HIDE DEF run
  <2> QED BY <2>4, <2>5, Zenon DEF SessionPackets
<1>3. CASE p \in [session : {PubSession}, kind : {"heartbeat", "eos"},
                  seq : StartSeq..(StartSeq + Len(Source)), blocks : {<<>>}]
  BY <1>3, Zenon DEF SessionPackets
<1> QED BY <1>2, <1>3, Zenon DEF WireInv, OnWire

\* What they are for the receiver.
LEMMA SentIsTold ==
  ASSUME Counting, PublisherInv, WireInv
  PROVE  /\ sent \subseteq Datagrams
         /\ \A pkt \in sent :
              /\ Honest(pkt) /\ pkt.session = PubSession /\ StartSeq <= pkt.seq
              /\ pkt.kind = "data" => pkt.seq <= Unsent /\ pkt.seq + Len(pkt.blocks) <= Top
<1>1. sent \subseteq Datagrams
  BY SentIsSession, SessionAssumption
<1>2. ASSUME NEW pkt \in sent
      PROVE  /\ Honest(pkt) /\ pkt.session = PubSession /\ StartSeq <= pkt.seq
             /\ pkt.kind = "data" => pkt.seq <= Unsent /\ pkt.seq + Len(pkt.blocks) <= Top
  <2>1. Honest(pkt)
    BY <1>1, DatagramAssumption
  <2>2. pkt.session = PubSession /\ StartSeq <= pkt.seq
    BY WireFacts, Zenon
  <2>3. ASSUME pkt.kind = "data" PROVE pkt.seq <= Unsent /\ pkt.seq + Len(pkt.blocks) <= Top
    <3>1. pkt \in Data
      BY <2>3, Zenon DEF Data
    <3>2. /\ FromSource(pkt.seq, pkt.blocks) /\ pkt.seq + Len(pkt.blocks) <= Unsent
          /\ pkt.seq + Len(pkt.blocks) <= StartSeq + Len(Source) /\ Unsent \in Nat
      BY <3>1, WireFacts
    <3>3. pkt.seq \in Nat /\ Len(pkt.blocks) \in Nat
      BY <3>2 DEF FromSource
    <3> QED BY <3>2, <3>3 DEF Top
  <2> QED BY <2>1, <2>2, <2>3
<1> QED BY <1>1, <1>2

\* The frames of an answer carry what the receiver's stream numbers so.
LEMMA RepairFacts ==
  ASSUME NEW frames \in SessionRepairs
  PROVE  /\ frames \in Repairs /\ frames \in Seq(Frame) /\ OfSession(frames, PubSession)
         /\ frames # <<>> => /\ 1 \in DOMAIN frames
                             /\ frames[1].sequence + Len(frames) <= Top
<1>1. frames \in Repairs /\ frames \in Seq(Frame)
  BY SessionAssumption, RepairAssumption, Zenon
<1>2. CASE frames = <<>>
  BY <1>1, <1>2 DEF OfSession
<1>3. CASE frames # <<>>
  <2>1. PICK run \in Runs :
          frames = [i \in 1..run[2] |->
                      [sequence |-> run[1] + i - 1, body |-> Source[run[1] + i - StartSeq]]]
    BY <1>3, Zenon DEF SessionRepairs
  <2>2. PICK f \in Nat, n \in Nat :
          /\ f = run[1] /\ n = run[2] /\ f >= StartSeq /\ n >= 1
          /\ f + n <= StartSeq + Len(Source) /\ StartSeq \in Nat /\ Len(Source) \in Nat
    BY PublisherAssumption DEF Runs
  <2>3. frames = [i \in 1..n |-> [sequence |-> f + i - 1, body |-> Source[f + i - StartSeq]]]
    BY <2>1, <2>2
  <2>4. DOMAIN frames = 1..n /\ Len(frames) = n /\ 1 \in DOMAIN frames
    BY <1>1, <2>2, <2>3
  <2>5. ASSUME NEW i \in 1..n
        PROVE  frames[i].body = Stream[PubSession][frames[i].sequence]
    <3>1. frames[i].sequence = f + i - 1 /\ frames[i].body = Source[f + i - StartSeq]
      BY <2>3
    <3>2. f + i - StartSeq \in DOMAIN Source /\ StartSeq + (f + i - StartSeq) - 1 = f + i - 1
      <4>0. /\ f \in Nat /\ n \in Nat /\ StartSeq \in Nat /\ Len(Source) \in Nat
            /\ f >= StartSeq /\ f + n <= StartSeq + Len(Source) /\ i \in 1..n
        BY <2>2, <2>5, Zenon
      <4>1. f + i - StartSeq \in 1..Len(Source) /\ StartSeq + (f + i - StartSeq) - 1 = f + i - 1
        BY ONLY <4>0, SMT
      <4>2. DOMAIN Source = 1..Len(Source)
        BY PublisherAssumption
      <4> QED BY <4>1, <4>2, Zenon
    <3>3. Stream[PubSession][StartSeq + (f + i - StartSeq) - 1] = Source[f + i - StartSeq]
      BY <3>2, SessionAssumption
    <3> QED BY <3>1, <3>2, <3>3
  <2>6. frames[1].sequence = f
    BY <2>2, <2>3
  <2> QED BY <1>1, <2>2, <2>4, <2>5, <2>6 DEF OfSession, Top
<1> QED BY <1>2, <1>3

\* The answer to the recovery task: consecutive messages from where the gap starts.
LEMMA AnswerFacts ==
  ASSUME Counting, PublisherInv, WireInv, NEW from \in Nat, NEW count \in Nat, count # 0
  PROVE  LET frames == Received(from, Answer(cache, from, count).frames)
         IN  /\ frames \in SessionRepairs
             /\ \A i \in DOMAIN frames : frames[i].sequence = from + i - 1
<1> DEFINE found == Lookup(cache, from, count)
           frames == Received(from, found)
<1>1. Answer(cache, from, count).frames = found
  BY Zenon DEF Answer
<1>2. CASE found = <<>>
  <2>1. DOMAIN found = {}
    BY <1>2
  <2> HIDE DEF found
  <2>2. frames = [i \in {} |-> [sequence |-> from + i - 1, body |-> found[i].body]]
    BY <2>1, Zenon DEF Received
  <2>3. frames = <<>>
    BY <2>2
  <2> QED BY <1>1, <2>3 DEF SessionRepairs, found
<1>3. CASE found # <<>>
  <2>1. PICK n \in 1..Wanted(count) :
          /\ from >= StartSeq /\ from + n <= Uncached
          /\ found = [i \in 1..n |->
                        [sequence |-> from + i - 1, body |-> Source[from + i - StartSeq]]]
    BY <1>3, SessionAssumption, LookupRun, Zenon
  <2> HIDE DEF found
  <2>2. /\ n \in Nat /\ n >= 1 /\ n <= MaxResponse /\ StartSeq \in Nat /\ Len(Source) \in Nat
        /\ from + n <= StartSeq + Len(Source)
    <3>1. n \in Nat /\ n >= 1 /\ n <= MaxResponse
      BY SessionAssumption DEF Wanted
    <3>2. /\ StartSeq \in Nat /\ Len(Source) \in Nat /\ Uncached \in Nat
          /\ Uncached <= StartSeq + Len(Source)
      BY WireFacts, Zenon
    <3> QED BY <2>1, <3>1, <3>2
  <2>3. frames = [i \in 1..n |->
                    [sequence |-> from + i - 1, body |-> Source[from + i - StartSeq]]]
    <3>1. DOMAIN found = 1..n
      BY <2>1, Zenon
    <3>2. \A i \in 1..n : found[i].body = Source[from + i - StartSeq]
      BY <2>1, Zenon
    <3> QED BY <3>1, <3>2 DEF Received
  <2> HIDE DEF frames
  <2> DEFINE run == <<from, n>>
  <2>4. run \in {x \in Runs : x[2] <= MaxResponse}
    BY <2>1, <2>2 DEF Runs
  <2>5. frames = [i \in 1..run[2] |->
                    [sequence |-> run[1] + i - 1, body |-> Source[run[1] + i - StartSeq]]]
    BY <2>3, Zenon
  <2>6. \A i \in DOMAIN frames : frames[i].sequence = from + i - 1
    BY <2>3, Zenon
  <2> HIDE DEF run
  <2>7. frames \in SessionRepairs
    BY <2>4, <2>5, Zenon DEF SessionRepairs
  <2> QED BY <1>1, <2>6, <2>7 DEF frames
<1> QED BY <1>2, <1>3
-----------------------------------------------------------------------------
(* The steps. *)

LEMMA SessionInitInv ==
  ASSUME Counting
  PROVE  SessionInit => SessionInv
<1> SUFFICES ASSUME SessionInit PROVE SessionInv
  BY Zenon
<1>1. PublisherInv /\ WireInv
  BY PublisherInitInv, InitWire DEF SessionInit
<1>2. Init /\ active = NoTask
  BY Zenon DEF SessionInit, InitClient
<1>3. Inv
  BY <1>2, InitInv, Zenon
<1>4. TaskInv
  BY <1>2, Zenon DEF TaskInv, NoTask
<1>5. Told(rx, PubSession, StartSeq, Unsent, Top)
  <2>1. PICK p \in Pins, start \in Starts, m \in Caps, o \in Policies : rx = New(p, start, m, o)
    BY <1>2, Zenon DEF Init
  <2>2. /\ ~rx.bootstrapped /\ rx.start_sequence = start /\ rx.base = start
        /\ rx.next_expected = start /\ rx.outbox = <<>> /\ DOMAIN rx.pending = {}
    BY <2>1, Zenon DEF New
  <2>3. start = 0 \/ start >= StartSeq
    BY SessionAssumption, Zenon
  <2>4. start \in Nat /\ StartSeq \in Nat
    BY ConfigAssumption, SeqMaxAssumption, PublisherAssumption
  <2>5. GapsOf(rx.outbox) = {}
    BY <2>2 DEF GapsOf
  <2> QED BY <2>2, <2>3, <2>4, <2>5 DEF Told, Below, Held
<1> QED BY <1>1, <1>3, <1>4, <1>5 DEF SessionInv, ClientInv

\* A gap stays between what was sent and the cursor as both move on.
LEMMA BetweenGrows ==
  ASSUME NEW gap, gap.from \in Nat, gap.to \in Nat, NEW lo \in Nat,
         NEW hi \in Nat, NEW hi2 \in Nat, hi <= hi2,
         NEW next \in Nat, NEW next2 \in Nat, next <= next2, Between(gap, next, lo, hi)
  PROVE  Between(gap, next2, lo, hi2)
BY DEF Between

\* A step of the publisher.
LEMMA PublisherKeeps ==
  ASSUME Counting, SessionInv, [PublisherNext]_pubvars, UNCHANGED clientvars
  PROVE  SessionInv'
<1> USE DEF SessionInv
<1>1. PublisherInv' /\ WireInv' /\ Unsent <= Unsent'
  BY PublisherNextInv, NextWire, UnsentGrows
<1>2. PICK lo \in Nat, hi \in Nat, hi2 \in Nat :
        lo = StartSeq /\ hi = Unsent /\ hi2 = Unsent' /\ hi <= hi2
  <2>1. PublishedRun'
    BY <1>1, PublishedIsRun, PTL
  <2> QED BY <1>1, <2>1, WireFacts DEF PublishedRun
<1>3. rx' = rx /\ finished' = finished /\ handed' = handed /\ active' = active
  BY Zenon DEF clientvars, vars
<1>4. Inv'
  BY <1>3, Zenon DEF ClientInv, Inv
<1>5. rx \in ReceiverStates /\ rx.outbox \in Seq(Item) /\ rx.next_expected \in Nat
  BY GoodType, Zenon DEF ClientInv, Inv
<1>6. Told(rx, PubSession, lo, hi2, Top)
  <2>1. Told(rx, PubSession, lo, hi, Top)
    BY <1>2, Zenon DEF ClientInv
  <2>2. ASSUME NEW gap \in GapsOf(rx.outbox)
        PROVE  rx.bootstrapped /\ Between(gap, rx.next_expected, lo, hi2)
    <3>1. rx.bootstrapped /\ Between(gap, rx.next_expected, lo, hi)
      BY <2>1, Zenon DEF Told
    <3>2. gap.from \in Nat /\ gap.to \in Nat
      BY <1>5, GapType
    <3> QED BY <1>2, <1>5, <3>1, <3>2, BetweenGrows
  <2> QED BY <2>1, <2>2, Zenon DEF Told
<1>7. active.state # "none" => Between(active, rx.next_expected, lo, hi2)
  <2> SUFFICES ASSUME active.state # "none" PROVE Between(active, rx.next_expected, lo, hi2)
    BY Zenon
  <2>1. active.from \in Nat /\ active.to \in Nat /\ Between(active, rx.next_expected, lo, hi)
    BY <1>2, Zenon DEF ClientInv, TaskInv
  <2> QED BY <1>2, <1>5, <2>1, BetweenGrows
<1>8. Told(rx, PubSession, StartSeq, Unsent, Top)'
  BY <1>2, <1>3, <1>6, Zenon DEF Top
<1>9. TaskInv'
  BY <1>2, <1>3, <1>7, Zenon DEF ClientInv, TaskInv
<1> QED BY <1>1, <1>4, <1>8, <1>9, Zenon DEF ClientInv

\* What was sent are messages of the source.
LEMMA UnsentBelow ==
  ASSUME Counting, PublisherInv, WireInv
  PROVE  Unsent <= StartSeq + Len(Source)
<1>1. /\ Unsent \in Nat /\ Uncached \in Nat /\ StartSeq \in Nat /\ Len(Source) \in Nat
      /\ Uncached <= StartSeq + Len(Source)
  BY WireFacts, Zenon
<1>2. Unsent <= Uncached
  <2>1. CASE out = <<>>
    BY <1>1, <2>1 DEF Unsent, Uncached
  <2>2. CASE out # <<>>
    <3>1. /\ pending_blocks = <<>> /\ out[1].seq + Len(out[1].blocks) = next_seq
          /\ out[1].seq \in Nat /\ Len(out[1].blocks) \in Nat
      BY <2>2 DEF PublisherInv, PackInv, FromSource
    <3>2. Unsent = out[1].seq /\ Uncached = next_seq
      BY <2>2, <3>1, Zenon DEF Unsent, Uncached
    <3> QED BY <3>1, <3>2
  <2> QED BY <2>1, <2>2, Zenon
<1> QED BY <1>1, <1>2

\* The publisher's side as the client finds it.
LEMMA SideFacts ==
  ASSUME Counting, SessionInv
  PROVE  /\ StartSeq \in Nat /\ Unsent \in Nat /\ Top \in Nat /\ PubSession \in Session
         /\ Good(rx, handed) /\ Cursors(rx) /\ rx.outbox \in Seq(Item)
         /\ \A gap \in GapsOf(rx.outbox) : gap.from \in Nat
<1>1. StartSeq \in Nat /\ Unsent \in Nat /\ Top \in Nat /\ PubSession \in Session
  BY WireFacts, SessionAssumption DEF SessionInv, Top
<1>2. Good(rx, handed) /\ Cursors(rx) /\ rx.outbox \in Seq(Item)
  BY CursorsOf, Zenon DEF SessionInv, ClientInv, Inv, Good, ReceiverStates
<1> QED BY <1>1, <1>2, GapType, Zenon

\* The recovery task ends an attempt.
LEMMA AttemptKeeps ==
  ASSUME SessionInv, active.state = "trying"
  PROVE  LET next == NextAttempt(active)
         IN  /\ next.state \in {"trying", "err"} /\ next.from = active.from /\ next.to = active.to
             /\ next.state = "trying" =>
                  next \in [state : {"trying"}, from : Nat, to : Nat, server : Nat, attempt : Nat]
<1>1. active \in [state : {"trying"}, from : Nat, to : Nat, server : Nat, attempt : Nat]
  BY Zenon DEF SessionInv, ClientInv, TaskInv
<1>2. PICK from \in Nat, to \in Nat, server \in Nat, attempt \in Nat :
        active = [state |-> "trying", from |-> from, to |-> to,
                  server |-> server, attempt |-> attempt]
  BY <1>1, Zenon
<1>3. CASE attempt + 1 < Retries
  <2>1. NextAttempt(active) = [state |-> "trying", from |-> from, to |-> to,
                               server |-> server, attempt |-> attempt + 1]
    BY <1>2, <1>3 DEF NextAttempt
  <2> QED BY <1>2, <2>1
<1>4. CASE ~(attempt + 1 < Retries) /\ server < NServers
  <2>1. NextAttempt(active) = [state |-> "trying", from |-> from, to |-> to,
                               server |-> server + 1, attempt |-> 0]
    BY <1>2, <1>4, Zenon DEF NextAttempt
  <2> QED BY <1>2, <2>1
<1>5. CASE ~(attempt + 1 < Retries) /\ ~(server < NServers)
  <2>1. NextAttempt(active) = [state |-> "err", from |-> from, to |-> to]
    BY <1>2, <1>5 DEF NextAttempt
  <2> QED BY <1>2, <2>1
<1> QED BY <1>3, <1>4, <1>5, Zenon

\* A step of the client leaves the publisher's side as it was.
LEMMA SideKept ==
  ASSUME Counting, SessionInv, UNCHANGED pubvars
  PROVE  PublisherInv' /\ WireInv' /\ Unsent' = Unsent
<1>1. [PublisherNext]_pubvars /\ PublisherInv /\ WireInv
  BY Zenon DEF SessionInv
<1>2. PublisherInv' /\ WireInv'
  BY <1>1, PublisherNextInv, NextWire
<1>3. Unsent' = Unsent
  BY Zenon DEF Unsent, pubvars, packing
<1> QED BY <1>2, <1>3, Zenon

\* A step of the recovery task.
LEMMA TaskKeeps ==
  ASSUME Counting, SessionInv, TaskStep, UNCHANGED pubvars
  PROVE  SessionInv'
<1>1. rx' = rx /\ finished' = finished /\ handed' = handed /\ active.state = "trying"
  BY Zenon DEF TaskStep, TaskAnswered, TaskFails, TaskExpires, TaskPanics, vars
<1>2. PublisherInv' /\ WireInv' /\ Unsent' = Unsent
  BY SideKept, Zenon
<1>3. Inv' /\ Told(rx, PubSession, StartSeq, Unsent, Top)'
  BY <1>1, <1>2 DEF SessionInv, ClientInv, Inv, Top
<1>4. /\ active.from \in Nat /\ active.to \in Nat /\ rx.bootstrapped
      /\ Between(active, rx.next_expected, StartSeq, Unsent)
  BY <1>1, Zenon DEF SessionInv, ClientInv, TaskInv
<1>5. ASSUME active'.state \in {"trying", "ok", "err", "panicked"},
             active'.from = active.from, active'.to = active.to,
             active'.state = "trying" =>
               active' \in [state : {"trying"}, from : Nat, to : Nat, server : Nat, attempt : Nat],
             active'.state = "ok" =>
               /\ active'.frames \in SessionRepairs
               /\ \A i \in DOMAIN active'.frames :
                    active'.frames[i].sequence = active'.from + i - 1
      PROVE  TaskInv'
  <2>1. Between(active', rx'.next_expected, StartSeq, Unsent')
    BY <1>1, <1>2, <1>4, <1>5, Zenon DEF Between
  <2> QED BY <1>1, <1>4, <1>5, <2>1 DEF TaskInv
<1>6. ASSUME active' = NextAttempt(active) PROVE TaskInv'
  <2>1. /\ active'.state \in {"trying", "err"}
        /\ active'.from = active.from /\ active'.to = active.to
        /\ active'.state = "trying" =>
             active' \in [state : {"trying"}, from : Nat, to : Nat, server : Nat, attempt : Nat]
    BY <1>1, <1>6, AttemptKeeps
  <2>2. active'.state # "ok"
    BY <2>1, Zenon
  <2> QED BY <1>5, <2>1, <2>2, Zenon
<1>7. ASSUME NEW end \in {"err", "panicked"},
             active' = [state |-> end, from |-> active.from, to |-> active.to]
      PROVE  TaskInv'
  <2>1. active'.state = end /\ active'.from = active.from /\ active'.to = active.to
    BY <1>7, Zenon
  <2> QED BY <1>5, <2>1
<1>8. ASSUME active' = Recovered(active, Received(active.from,
                         Answer(cache, active.from, active.to - active.from + 1).frames))
      PROVE  TaskInv'
  <2> DEFINE frames == Received(active.from,
                         Answer(cache, active.from, active.to - active.from + 1).frames)
  <2>1. active.to - active.from + 1 \in Nat /\ active.to - active.from + 1 # 0
    BY <1>4, WireFacts DEF Between, SessionInv
  <2>2. /\ frames \in SessionRepairs
        /\ \A i \in DOMAIN frames : frames[i].sequence = active.from + i - 1
    BY <1>4, <2>1, AnswerFacts DEF SessionInv
  <2>3. /\ active'.state = "ok" /\ active'.from = active.from /\ active'.to = active.to
        /\ active'.frames = frames
    BY <1>8, Zenon DEF Recovered
  <2> HIDE DEF frames
  <2>4. /\ active'.frames \in SessionRepairs
        /\ \A i \in DOMAIN active'.frames :
             active'.frames[i].sequence = active'.from + i - 1
    BY <2>2, <2>3
  <2> QED BY <1>5, <2>3, <2>4
<1>9. TaskInv'
  <2>1. CASE TaskAnswered
    BY <1>6, <1>8, <2>1, Zenon DEF TaskAnswered
  <2>2. CASE TaskFails
    BY <1>6, <2>2, Zenon DEF TaskFails
  <2>3. CASE TaskExpires
    BY <1>7, <2>3, Zenon DEF TaskExpires
  <2>4. CASE TaskPanics
    BY <1>7, <2>4, Zenon DEF TaskPanics
  <2> QED BY <2>1, <2>2, <2>3, <2>4, Zenon DEF TaskStep
<1> QED BY <1>2, <1>3, <1>9 DEF SessionInv, ClientInv

\* A poll of the stream, from the struct r the client has made of it.
LEMMA PollKeeps ==
  ASSUME Counting, SessionInv, UNCHANGED pubvars,
         NEW r \in Entry, Good(r, handed), Told(r, PubSession, StartSeq, Unsent, Top),
         NEW task, task = NoTask \/ (task = active /\ r = rx /\ active.state \in {"none", "trying"}),
         PollStream(r, task, sent)
  PROVE  SessionInv' /\ Next /\ ToldMore(r, rx', PubSession, StartSeq, Unsent, Top)
<1>1. PublisherInv' /\ WireInv' /\ Unsent' = Unsent
  BY SideKept, Zenon
<1>2. Poll(r, sent)
  BY Zenon DEF PollStream
<1>3. Next
  <2>1. Poll(r, Datagrams)
    BY <1>2, SentIsTold DEF Poll, SessionInv
  <2> QED BY <2>1, Zenon DEF Next
<1>4. Inv'
  BY <1>3, NextStep DEF SessionInv, ClientInv
<1>5. ToldMore(r, rx', PubSession, StartSeq, Unsent, Top) /\ Surfaces(StartSeq, Unsent)
  <2>1. \A pkt \in sent :
          /\ Honest(pkt) /\ pkt.session = PubSession /\ StartSeq <= pkt.seq
          /\ pkt.kind = "data" => pkt.seq <= Unsent /\ pkt.seq + Len(pkt.blocks) <= Top
    BY SentIsTold, Zenon DEF SessionInv
  <2>2. StartSeq \in Nat /\ Unsent \in Nat /\ Top \in Nat
    BY SideFacts, Zenon
  <2> QED BY <1>2, <2>1, <2>2, PollTold
<1>6. Told(rx, PubSession, StartSeq, Unsent, Top)'
  BY <1>1, <1>5 DEF ToldMore, Top
<1>7. TaskInv'
  <2>1. CASE item'.tag = "Gap" /\ NServers > 0 /\ task = NoTask
    <3>1. active' = SpawnRecovery(item'.from, item'.to)
      BY <2>1, Zenon DEF PollStream
    <3>2. /\ rx'.bootstrapped /\ item'.from \in Nat /\ item'.to \in Nat
          /\ Between(item', rx'.next_expected, StartSeq, Unsent)
      BY <1>5, <2>1 DEF Surfaces
    <3>3. /\ active'.state = "trying" /\ active'.from = item'.from /\ active'.to = item'.to
          /\ active' \in [state : {"trying"}, from : Nat, to : Nat, server : Nat, attempt : Nat]
      BY <3>1, <3>2, Zenon DEF SpawnRecovery
    <3>4. Between(active', rx'.next_expected, StartSeq, Unsent')
      BY <1>1, <3>2, <3>3 DEF Between
    <3> QED BY <3>2, <3>3, <3>4 DEF TaskInv
  <2>2. CASE active' = NoTask
    BY <2>2, Zenon DEF TaskInv, NoTask
  <2>3. CASE task # NoTask
    <3>1. active' = active /\ r = rx /\ active.state = "trying"
      BY <2>3, Zenon DEF PollStream, SessionInv, ClientInv, TaskInv
    <3>2. /\ active.from \in Nat /\ active.to \in Nat /\ rx.bootstrapped
          /\ Between(active, rx.next_expected, StartSeq, Unsent)
          /\ active \in [state : {"trying"}, from : Nat, to : Nat, server : Nat, attempt : Nat]
      BY <3>1, Zenon DEF SessionInv, ClientInv, TaskInv
    <3>3. /\ rx'.bootstrapped /\ rx'.next_expected >= rx.next_expected
          /\ rx.next_expected \in Nat
      BY <1>5, <3>1, <3>2, SideFacts DEF ToldMore, Cursors
    <3>4. rx'.next_expected \in Nat
      BY <1>4, GoodType, Zenon DEF Inv
    <3>5. Between(active, rx'.next_expected, StartSeq, Unsent)
      BY <3>2, <3>3, <3>4, SideFacts, BetweenGrows
    <3> QED BY <1>1, <3>1, <3>2, <3>3, <3>5 DEF TaskInv
  <2> QED BY <2>1, <2>2, <2>3, Zenon DEF PollStream
<1> QED BY <1>1, <1>3, <1>4, <1>5, <1>6, <1>7 DEF SessionInv, ClientInv

\* The frames of the recovery, handed to the stream.
LEMMA FramesIngested ==
  ASSUME Counting, SessionInv, active.state = "ok"
  PROVE  LET r == IngestRetransmit(rx, active.frames)
         IN  /\ r \in Entry /\ Good(r, handed) /\ r.bootstrapped
             /\ Told(r, PubSession, StartSeq, Unsent, Top)
             /\ r.next_expected >= active.from + Len(active.frames)
<1> DEFINE frames == active.frames
           first == active.from
           r == IngestRetransmit(rx, frames)
<1>1. /\ StartSeq \in Nat /\ Unsent \in Nat /\ Top \in Nat /\ PubSession \in Session
      /\ Good(rx, handed) /\ Cursors(rx)
      /\ \A gap \in GapsOf(rx.outbox) : gap.from \in Nat
  BY SideFacts, Zenon
<1>2. /\ first \in Nat /\ rx.bootstrapped /\ first <= rx.next_expected
      /\ frames \in SessionRepairs
      /\ \A i \in DOMAIN frames : frames[i].sequence = first + i - 1
  BY Zenon DEF SessionInv, ClientInv, TaskInv, Between
<1>3. Told(rx, PubSession, StartSeq, Unsent, Top) /\ rx.session = {PubSession}
  BY <1>2, Zenon DEF SessionInv, ClientInv, Told
<1>4. /\ frames \in Repairs /\ frames \in Seq(Frame) /\ OfSession(frames, PubSession)
      /\ frames # <<>> => 1 \in DOMAIN frames /\ frames[1].sequence + Len(frames) <= Top
  BY <1>2, RepairFacts
<1>5. frames # <<>> => frames[1].sequence = first
  BY <1>1, <1>2, <1>4
<1>6. first + Len(frames) <= Top
  <2>1. CASE frames # <<>>
    BY <1>4, <1>5, <2>1, Zenon
  <2>2. CASE frames = <<>>
    <3>1. first < Unsent
      <4>1. active.to \in Nat /\ first <= active.to /\ active.to < Unsent
        BY Zenon DEF SessionInv, ClientInv, TaskInv, Between
      <4> QED BY <1>1, <1>2, <4>1
    <3>2. Unsent <= Top
      BY UnsentBelow, Zenon DEF SessionInv, Top
    <3>3. Len(frames) = 0
      BY <2>2
    <3> QED BY <1>1, <1>2, <3>1, <3>2, <3>3
  <2> QED BY <2>1, <2>2, Zenon
<1>7. r \in Entry
  <2>1. Usable(frames)
    BY <1>1, <1>2, <1>3, <1>4, <1>5, ZenonT(30) DEF Usable
  <2> QED BY <1>4, <2>1, Zenon DEF Entry
<1> HIDE DEF frames, first
<1>8. Good(r, handed) /\ Moves(rx, r, Top) /\ r.next_expected >= first + Len(frames)
  BY <1>1, <1>2, <1>3, <1>4, <1>6, RetransmitMoves, ZenonT(30)
<1> HIDE DEF r
<1>9. Cursors(r) /\ r.bootstrapped
  BY <1>2, <1>8, CursorsOf, ZenonT(30) DEF Good, Moves
<1>10. Told(r, PubSession, StartSeq, Unsent, Top)
  BY <1>1, <1>3, <1>8, <1>9, MovesTold
<1> QED BY <1>7, <1>8, <1>9, <1>10 DEF r, frames, first

\* Taking what a recovery ended with moves the cursor past it.
RecoveryNext ==
  active.state = "ok" /\ active' # active =>
    rx'.next_expected >= active.from + Len(active.frames)

\* A poll of the recovery client.
LEMMA ClientKeeps ==
  ASSUME Counting, SessionInv, ClientPoll(sent), UNCHANGED pubvars
  PROVE  SessionInv' /\ Next /\ RecoveryNext
<1>1. CASE active.state \in {"none", "trying"} /\ PollStream(rx, active, sent)
  <2>1. rx \in Entry /\ Good(rx, handed) /\ Told(rx, PubSession, StartSeq, Unsent, Top)
    BY SideFacts, Zenon DEF Entry, SessionInv, ClientInv
  <2>2. SessionInv' /\ Next
    BY <1>1, <2>1, PollKeeps
  <2> QED BY <1>1, <2>2, Zenon DEF RecoveryNext
<1>2. CASE active.state = "ok" /\
           \E r \in {IngestRetransmit(rx, active.frames)} : PollStream(r, NoTask, sent)
  <2> DEFINE r == IngestRetransmit(rx, active.frames)
  <2>1. /\ r \in Entry /\ Good(r, handed) /\ r.bootstrapped
        /\ Told(r, PubSession, StartSeq, Unsent, Top)
        /\ r.next_expected >= active.from + Len(active.frames)
    BY <1>2, FramesIngested
  <2>2. PollStream(r, NoTask, sent)
    BY <1>2, Zenon
  <2> HIDE DEF r
  <2>3. SessionInv' /\ Next /\ ToldMore(r, rx', PubSession, StartSeq, Unsent, Top)
    BY <2>1, <2>2, PollKeeps
  <2>4. rx'.next_expected >= r.next_expected /\ r.next_expected \in Nat
    BY <2>1, <2>3, CursorsOf DEF ToldMore, Good, Cursors
  <2>5. rx'.next_expected \in Nat
    BY <2>3, GoodType, Zenon DEF SessionInv, ClientInv, Inv
  <2>6. active.from + Len(active.frames) \in Nat
    <3>1. active.from \in Nat /\ active.frames \in SessionRepairs
      BY <1>2, Zenon DEF SessionInv, ClientInv, TaskInv
    <3>2. active.frames \in Seq(Frame)
      BY <3>1, RepairFacts, Zenon
    <3> QED BY <3>1, <3>2
  <2>7. RecoveryNext
    BY <2>1, <2>4, <2>5, <2>6 DEF RecoveryNext
  <2> QED BY <2>3, <2>7
<1>3. CASE active.state = "panicked" /\ PollStream(rx, NoTask, sent)
  <2>1. rx \in Entry /\ Good(rx, handed) /\ Told(rx, PubSession, StartSeq, Unsent, Top)
    BY SideFacts, Zenon DEF Entry, SessionInv, ClientInv
  <2>2. SessionInv' /\ Next
    BY <1>3, <2>1, PollKeeps
  <2> QED BY <1>3, <2>2, Zenon DEF RecoveryNext
<1> QED BY <1>1, <1>2, <1>3, Zenon DEF ClientPoll

\* poll_next returns the error of a recovery.
LEMMA GiveUpKeeps ==
  ASSUME Counting, SessionInv, GiveUp, UNCHANGED pubvars
  PROVE  SessionInv'
<1>1. rx' = rx /\ finished' = finished /\ handed' = handed /\ active' = NoTask
  BY Zenon DEF GiveUp, vars
<1>2. PublisherInv' /\ WireInv' /\ Unsent' = Unsent
  BY SideKept, Zenon
<1>3. Inv' /\ Told(rx, PubSession, StartSeq, Unsent, Top)'
  BY <1>1, <1>2, Zenon DEF SessionInv, ClientInv, Inv, Top
<1>4. TaskInv'
  BY <1>1, Zenon DEF TaskInv, NoTask
<1> QED BY <1>2, <1>3, <1>4, Zenon DEF SessionInv, ClientInv

\* A step of the session is a step of the receiver or leaves it alone.
LEMMA SessionStep ==
  ASSUME Counting, SessionInv, [SessionNext]_sessionvars
  PROVE  SessionInv' /\ [Next]_vars /\ RecoveryNext
<1>1. CASE PublisherNext /\ UNCHANGED clientvars
  BY <1>1, PublisherKeeps, Zenon DEF clientvars, RecoveryNext
<1>2. CASE TaskStep /\ UNCHANGED pubvars
  <2>1. UNCHANGED vars /\ active.state = "trying"
    BY <1>2, Zenon DEF TaskStep, TaskAnswered, TaskFails, TaskExpires, TaskPanics
  <2> QED BY <1>2, <2>1, TaskKeeps, Zenon DEF RecoveryNext
<1>3. CASE ClientPoll(sent) /\ UNCHANGED pubvars
  BY <1>3, ClientKeeps, Zenon
<1>4. CASE GiveUp /\ UNCHANGED pubvars
  BY <1>4, GiveUpKeeps, Zenon DEF GiveUp, RecoveryNext
<1>5. CASE UNCHANGED sessionvars
  <2>1. UNCHANGED clientvars /\ UNCHANGED pubvars
    BY <1>5, Zenon DEF sessionvars
  <2> QED BY <2>1, PublisherKeeps, Zenon DEF clientvars, RecoveryNext
<1> QED BY <1>1, <1>2, <1>3, <1>4, <1>5 DEF SessionNext, NextClient
-----------------------------------------------------------------------------
(* The theorems about the session. *)
LEMMA RecoveriesWellFoundedStep ==
  ASSUME Counting
  PROVE  SessionInv => TaskWellFounded
<1> SUFFICES ASSUME SessionInv, active.state # "none"
             PROVE  active.from <= active.to /\ active.from..active.to \subseteq Published
  BY Zenon DEF TaskWellFounded
<1>1. /\ active.from \in Nat /\ active.to \in Nat
      /\ Between(active, rx.next_expected, StartSeq, Unsent)
  BY Zenon DEF SessionInv, ClientInv, TaskInv
<1>2. /\ Published = StartSeq..(Unsent - 1) /\ Unsent \in Nat /\ StartSeq \in Nat
  BY PublishedUpTo, Zenon DEF SessionInv
<1> QED BY <1>1, <1>2 DEF Between

\* A poll hands out at most one message.
LEMMA HandedByOne ==
  ASSUME [Next]_vars
  PROVE  handed' = handed \/ handed' = handed + 1
BY Zenon DEF Next, Poll, PollBuffered, Recv, RecvError, PollNothing, Yield, vars

LEMMA EndToEndStep ==
  ASSUME Counting, SessionInv, [SessionNext]_sessionvars, SessionInv', handed' # handed
  PROVE  item'.body = Source[rx'.base - StartSeq + handed']
<1>1. [Next]_vars
  BY SessionStep, Zenon
<1>2. HandedNext
  BY <1>1, NextStep DEF SessionInv, ClientInv
<1>3. handed' = handed + 1 /\ handed \in Nat
  BY <1>1, HandedByOne, SideFacts DEF Good
<1>4. PICK s \in Session : rx'.session = {s} /\ item'.body = Stream[s][item'.seq]
  BY <1>2, Zenon DEF HandedNext
<1>5. /\ Good(rx', handed') /\ StartSeq \in Nat /\ Len(Source) \in Nat
      /\ rx'.bootstrapped => rx'.session = {PubSession}
      /\ rx'.bootstrapped => StartSeq <= rx'.base
      /\ rx'.next_expected <= StartSeq + Len(Source) \/ rx'.next_expected = rx'.base
  BY WireFacts, Zenon DEF SessionInv, ClientInv, Inv, Told, Below, Top
<1>6. /\ rx'.base \in Nat /\ rx'.next_expected \in Nat
      /\ rx'.base + handed' <= rx'.next_expected
      /\ ~rx'.bootstrapped => rx'.next_expected = rx'.base
  BY <1>5, GoodType, Zenon DEF Good, Faithful
<1>7. rx'.bootstrapped /\ rx'.next_expected # rx'.base
  BY <1>3, <1>6
<1>8. PICK b \in Nat, h \in Nat :
        /\ b = rx'.base /\ h = handed /\ handed' = h + 1
        /\ StartSeq <= b /\ b + h + 1 <= StartSeq + Len(Source) /\ item'.seq = b + h
  <2>1. item'.seq = rx'.base + handed
    BY <1>2, Zenon DEF HandedNext
  <2> QED BY <1>3, <1>5, <1>6, <1>7, <2>1
<1>9. s = PubSession
  BY <1>4, <1>5, <1>7
<1>10. /\ b - StartSeq + h + 1 \in DOMAIN Source
       /\ StartSeq + (b - StartSeq + h + 1) - 1 = b + h
       /\ b - StartSeq + (h + 1) = b - StartSeq + h + 1
  <2>0. DOMAIN Source = 1..Len(Source) /\ StartSeq \in Nat /\ Len(Source) \in Nat
    BY PublisherAssumption
  <2>1. PICK a \in Nat, n \in Nat : a = StartSeq /\ n = Len(Source) /\ DOMAIN Source = 1..n
    BY <2>0, Zenon
  <2>2. a <= b /\ b + h + 1 <= a + n
    BY <1>8, <2>1
  <2>3. /\ b - a + h + 1 \in 1..n
        /\ a + (b - a + h + 1) - 1 = b + h /\ b - a + (h + 1) = b - a + h + 1
    BY <2>2
  <2> QED BY <2>1, <2>3, Zenon
<1>11. Stream[PubSession][b + h] = Source[b - StartSeq + h + 1]
  BY <1>10, SessionAssumption
<1> QED BY <1>4, <1>8, <1>9, <1>10, <1>11

INSTANCE IntervalTheorems

\* The inductive invariant behind the theorems of this module: every message that was taken
\* is sent, cached and out, packed, or waits in carry, in this order of numbers.
THEOREM PublisherInvariance == PublisherSpec => []PublisherInv
<1>1. PublisherInit => PublisherInv
  BY PublisherInitInv
<1>2. PublisherInv /\ [PublisherNext]_pubvars => PublisherInv'
  BY CountingHolds, PublisherNextInv, Zenon
<1> QED BY <1>1, <1>2, PTL DEF PublisherSpec

\* Every packet that serve sends keeps to the MTU, or is a single block.
LEMMA SizesKept == PublisherSpec => []SizeInv
<1>1. PublisherInit => SizeInv
  BY InitSize, Zenon
<1>2. PublisherInv /\ SizeInv /\ [PublisherNext]_pubvars => SizeInv'
  BY CountingHolds, NextSize, Zenon
<1> QED BY <1>1, <1>2, PublisherInvariance, PTL DEF PublisherSpec

\* serve publishes the source, every message once and under its own number, in packets
\* that keep to the MTU, for every source, MTU and interleaving of heartbeats.
THEOREM SourcePublished == PublisherSpec => []PublishedIsSource
<1>1. PublisherInv /\ SizeInv => PublishedIsSource
  BY CountingHolds, SourcePublishedStep, Zenon
<1> QED BY <1>1, PublisherInvariance, SizesKept, PTL

\* A message on the wire is in the retransmission cache, or is older than what is there:
\* flush_pending caches before it sends.
THEOREM CachedFirst == PublisherSpec => []CachedBeforeSent
<1>1. PublisherInv => CachedBeforeSent
  BY CountingHolds, CachedFirstStep, Zenon
<1> QED BY <1>1, PublisherInvariance, PTL

\* The end of the session is announced and marked only over the whole source.
THEOREM EndComplete == PublisherSpec => []EndIsComplete
<1>1. PublisherInv => EndIsComplete
  BY CountingHolds, EndCompleteStep, Zenon
<1> QED BY <1>1, PublisherInvariance, PTL

\* A heartbeat and the end of the session carry the number after the last message sent.
THEOREM MarksHonest == PublisherSpec => MarksTruthful
<1>1. PublisherInv /\ [PublisherNext]_pubvars
        => [\A p \in sent' \ sent : p.kind # "data" => p.seq = StartSeq + Cardinality(Published)]_pubvars
  BY CountingHolds, MarksHonestStep, Zenon
<1> QED BY <1>1, PublisherInvariance, PTL DEF PublisherSpec, MarksTruthful

\* The invariant of the session: publisher, wire, receiver and recovery task.
THEOREM SessionInvariance == SessionSpec => []SessionInv
<1>1. SessionInit => SessionInv
  BY CountingHolds, SessionInitInv, Zenon
<1>2. SessionInv /\ [SessionNext]_sessionvars => SessionInv'
  BY CountingHolds, SessionStep, Zenon
<1> QED BY <1>1, <1>2, PTL DEF SessionSpec

\* Every recovery is about at least one number, all of them published: spawn_recovery
\* gets its range from a Gap of ingest, and a Gap ends before a packet that was sent.
THEOREM RecoveriesWellFounded == SessionSpec => []TaskWellFounded
<1>1. SessionInv => TaskWellFounded
  BY CountingHolds, RecoveriesWellFoundedStep, Zenon
<1> QED BY <1>1, SessionInvariance, PTL

\* The session with its publisher, lossy network and request servers implements the
\* receiver's specification: every theorem about Spec holds of it.
THEOREM SessionRefines == SessionSpec => ImplementsReceiver
<1>1. SessionInit => Init
  BY Zenon DEF SessionInit, InitClient
<1>2. SessionInv /\ [SessionNext]_sessionvars => [Next]_vars
  BY CountingHolds, SessionStep, Zenon
<1> QED BY <1>1, <1>2, SessionInvariance, PTL DEF SessionSpec, ImplementsReceiver, Spec

\* The frames of a recovery are delivered, or were already: ingest_retransmit leaves
\* next_expected past them.
THEOREM RecoveriesAdvance == SessionSpec => RecoveryAdvances
<1>1. SessionInv /\ [SessionNext]_sessionvars => [RecoveryNext]_clientvars
  BY CountingHolds, SessionStep, Zenon
<1>2. [RecoveryNext]_clientvars =>
        [active.state = "ok" /\ active' # active =>
           rx'.next_expected >= active.from + Len(active.frames)]_clientvars
  BY Zenon DEF RecoveryNext
<1> QED BY <1>1, <1>2, SessionInvariance, PTL DEF SessionSpec, RecoveryAdvances

\* End to end, the caller gets the source's messages in the source's order, each once,
\* from the receiver's first number on, whatever the network loses, repeats or reorders
\* and whoever repairs it.
THEOREM EndToEnd == SessionSpec => SourceOrder
<1>1. ASSUME SessionInv, [SessionNext]_sessionvars, SessionInv', handed' # handed
      PROVE  item'.body = Source[rx'.base - StartSeq + handed']
  BY <1>1, CountingHolds, EndToEndStep, Zenon
<1>2. SessionInv /\ SessionInv' /\ [SessionNext]_sessionvars =>
        [handed' # handed => item'.body = Source[rx'.base - StartSeq + handed']]_vars
  BY <1>1, Zenon
<1> QED BY <1>2, SessionInvariance, PTL DEF SessionSpec, SourceOrder
=============================================================================
