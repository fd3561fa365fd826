--------------------------- MODULE MoldPublisher ---------------------------
(***************************************************************************)
(* MoldPublisher::serve of itch-mold/src/publisher.rs: one task that       *)
(* numbers the messages of a source, packs them into datagrams, feeds the  *)
(* retransmission cache and ends the session.                              *)
(*                                                                         *)
(* A step ends where the task awaits: at the select, at the lock of the    *)
(* cache, at a send.  sent is the set of packets that went out on the      *)
(* wire; a message is its encoded body, of SizeOf[body] bytes.  The        *)
(* heartbeat timer may expire at any select.  No ITCH message is longer    *)
(* than MAX_BLOCK_LEN, so serve's check of that never fails.               *)
(***************************************************************************)
EXTENDS RetransmitCache

CONSTANTS Source,      \* the messages the source yields before it is exhausted
          SizeOf,      \* the encoded length of a body
          PubSession,  \* PublisherConfig::session
          StartSeq,    \* PublisherConfig::start_sequence
          Mtus,        \* PublisherConfig::mtu
          Header,      \* HEADER_LEN
          MaxBlock,    \* MAX_BLOCK_LEN
          EosBurst,    \* PublisherConfig::eos_burst
          Capacities   \* of the cache

ASSUME PublisherAssumption ==
  /\ StartSeq \in Nat /\ EosBurst \in Nat /\ Mtus \subseteq Nat /\ Capacities \subseteq Nat
  /\ Source \in Seq(DOMAIN SizeOf)
  /\ \A i \in DOMAIN Source : SizeOf[Source[i]] \in 1..MaxBlock

VARIABLES mtu, taken, next_seq, pending_blocks, pending_first_seq, pending_size,
          pc, after, carry, out, burst

packing == <<next_seq, pending_blocks, pending_first_seq, pending_size>>
pubvars == <<mtu, taken, packing, pc, after, carry, out, burst, cache, sent>>

DataPacket(seq, blocks) ==
  [session |-> PubSession, kind |-> "data", seq |-> seq, blocks |-> blocks]
MarkPacket(kind) == [session |-> PubSession, kind |-> kind, seq |-> next_seq, blocks |-> <<>>]

BlockSize(body) == 2 + SizeOf[body]

\* bind, with_cache and the locals of serve
PublisherInit ==
  /\ mtu \in Mtus
  /\ taken = 0 /\ next_seq = StartSeq
  /\ pending_blocks = <<>> /\ pending_first_seq = StartSeq /\ pending_size = Header
  /\ pc = "select" /\ after = "select" /\ carry = <<>> /\ out = <<>> /\ burst = 0
  /\ \E capacity \in Capacities : cache = WithCapacity(capacity)
  /\ sent = {}

\* Mutant: the first number of a packet is not set anew.
PushBlockStaleFirst(body) ==
  /\ pending_size' = (IF pending_blocks = <<>> THEN Header ELSE pending_size) + BlockSize(body)
  /\ pending_blocks' = Append(pending_blocks, body)
  /\ next_seq' = next_seq + 1
  /\ UNCHANGED pending_first_seq

\* A body joins the packet under construction, or starts one, and is numbered.
PushBlock(body) ==
  /\ IF pending_blocks = <<>>
     THEN pending_first_seq' = next_seq /\ pending_size' = Header + BlockSize(body)
     ELSE pending_size' = pending_size + BlockSize(body) /\ UNCHANGED pending_first_seq
  /\ pending_blocks' = Append(pending_blocks, body)
  /\ next_seq' = next_seq + 1

Fits(body) == pending_blocks = <<>> \/ pending_size + BlockSize(body) <= mtu

\* The source yields a message: one that does not fit waits in carry until the packet
\* under construction is flushed.
TakeMessage ==
  /\ pc = "select" /\ taken < Len(Source)
  /\ taken' = taken + 1
  /\ LET body == Source[taken + 1]
     IN  \/ /\ Fits(body)
            /\ PushBlock(body)
            /\ UNCHANGED <<pc, after, carry>>
         \/ /\ ~Fits(body)
            /\ pc' = "flush" /\ after' = "push" /\ carry' = <<body>>
            /\ UNCHANGED packing
  /\ UNCHANGED <<mtu, out, burst, cache, sent>>

\* Mutant: the last packet is not flushed.
SourceExhaustedNoFlush ==
  /\ pc = "select" /\ taken = Len(Source)
  /\ pc' = "eos" /\ after' = "eos"
  /\ UNCHANGED <<mtu, taken, packing, carry, out, burst, cache, sent>>

\* The source is exhausted: flush what remains, then the end-of-session burst.
SourceExhausted ==
  /\ pc = "select" /\ taken = Len(Source)
  /\ pc' = IF pending_blocks = <<>> THEN "eos" ELSE "flush"
  /\ after' = "eos"
  /\ UNCHANGED <<mtu, taken, packing, carry, out, burst, cache, sent>>

\* Any other source error, or a heartbeat that cannot be sent, ends the task.
SelectFails ==
  /\ pc = "select"
  /\ pc' = "failed"
  /\ UNCHANGED <<mtu, taken, packing, after, carry, out, burst, cache, sent>>

\* Mutant: a heartbeat goes out over a partly filled packet.
HeartbeatAlways ==
  /\ pc = "select"
  /\ sent' = sent \cup {MarkPacket("heartbeat")}
  /\ UNCHANGED <<mtu, taken, packing, pc, after, carry, out, burst, cache>>

\* The heartbeat interval has passed: a partly filled packet goes out, or a heartbeat.
HeartbeatDue ==
  /\ pc = "select"
  /\ IF pending_blocks # <<>>
     THEN pc' = "flush" /\ after' = "select" /\ UNCHANGED sent
     ELSE sent' = sent \cup {MarkPacket("heartbeat")} /\ UNCHANGED <<pc, after>>
  /\ UNCHANGED <<mtu, taken, packing, carry, out, burst, cache>>

\* flush_pending pushes the blocks of a packet into the cache, in order.
CacheBlocks(c, seq, blocks) ==
  LET go[i \in 0..Len(blocks)] ==
        IF i = 0 THEN c
        ELSE CachePush(go[i - 1], [sequence |-> seq + i - 1, body |-> blocks[i]])
  IN  go[Len(blocks)]

\* flush_pending up to the send: the blocks are taken, and cached under the lock.
FlushCache ==
  /\ pc = "flush"
  /\ out' = <<DataPacket(pending_first_seq, pending_blocks)>>
  /\ cache' = CacheBlocks(cache, pending_first_seq, pending_blocks)
  /\ pending_blocks' = <<>>
  /\ pc' = "send"
  /\ UNCHANGED <<mtu, taken, next_seq, pending_first_seq, pending_size, after, carry, burst, sent>>

\* The send of flush_pending, and what its caller does next without an await.
FlushSend ==
  /\ pc = "send"
  /\ sent' = sent \cup {out[1]} /\ out' = <<>>
  /\ IF after = "push"
     THEN PushBlock(carry[1]) /\ carry' = <<>> /\ pc' = "select"
     ELSE /\ pending_size' = Header /\ pending_first_seq' = next_seq /\ pc' = after
          /\ UNCHANGED <<next_seq, pending_blocks, carry>>
  /\ UNCHANGED <<mtu, taken, after, burst, cache>>

\* eos_burst: one end-of-session datagram.
EosSend ==
  /\ pc = "eos" /\ burst < EosBurst
  /\ sent' = sent \cup {MarkPacket("eos")}
  /\ burst' = burst + 1
  /\ UNCHANGED <<mtu, taken, packing, pc, after, carry, out, cache>>

\* A send that fails ends the task.
SendFails ==
  /\ pc = "send" \/ (pc = "eos" /\ burst < EosBurst)
  /\ pc' = "failed"
  /\ UNCHANGED <<mtu, taken, packing, after, carry, out, burst, cache, sent>>

\* Mutant: one datagram more is waited for than the burst has.
EosMarkLate ==
  /\ pc = "eos" /\ burst = EosBurst + 1
  /\ cache' = MarkEndOfSession(cache)
  /\ pc' = "done"
  /\ UNCHANGED <<mtu, taken, packing, after, carry, out, burst, sent>>

\* The end of eos_burst: the cache learns of the end of the session.
EosMark ==
  /\ pc = "eos" /\ burst = EosBurst
  /\ cache' = MarkEndOfSession(cache)
  /\ pc' = "done"
  /\ UNCHANGED <<mtu, taken, packing, after, carry, out, burst, sent>>

PublisherNext ==
  \/ TakeMessage
  \/ SourceExhausted
  \/ SelectFails
  \/ HeartbeatDue
  \/ FlushCache
  \/ FlushSend
  \/ EosSend
  \/ SendFails
  \/ EosMark

\* The task runs: the source keeps yielding, and a send completes or fails.
Progress == TakeMessage \/ SourceExhausted \/ FlushCache \/ FlushSend \/ EosSend \/ EosMark

PublisherSpec == PublisherInit /\ [][PublisherNext]_pubvars /\ WF_pubvars(Progress)
-----------------------------------------------------------------------------
Numbers(pkt) == pkt.seq..(pkt.seq + Len(pkt.blocks) - 1)
Data == {pkt \in sent : pkt.kind = "data"}
Published == UNION {Numbers(pkt) : pkt \in Data}
WireLen(blocks) ==
  LET go[i \in 0..Len(blocks)] == IF i = 0 THEN Header ELSE go[i - 1] + BlockSize(blocks[i])
  IN  go[Len(blocks)]

\* What goes out is the source: every message under its own number, no number twice
\* and none left out, whatever flushes the packets; and the packets keep to the MTU, but
\* for a block that alone exceeds it.
PublishedIsSource ==
  /\ Published = StartSeq..(StartSeq + Cardinality(Published) - 1)
  /\ \A p, q \in Data : p # q => Numbers(p) \cap Numbers(q) = {}
  /\ \A p \in Data : \A i \in DOMAIN p.blocks : p.blocks[i] = Source[p.seq + i - StartSeq]
  /\ \A p \in Data : WireLen(p.blocks) <= mtu \/ Len(p.blocks) = 1

\* A packet that a receiver may have lost can be asked for: its frames are cached
\* before it is sent, and leave the cache only when newer ones need the room.
CachedBeforeSent ==
  \A n \in Published : n \in Cached(cache) \/ n < cache.inner[1].sequence

\* A heartbeat or end of session announces the number after the last message sent: it
\* never goes out over messages still waiting to be packed.
MarksTruthful ==
  [][\A p \in sent' \ sent : p.kind # "data" => p.seq = StartSeq + Cardinality(Published)]_pubvars

\* The end of the session is announced, and marked in the cache, only after the whole
\* source went out.
EndIsComplete ==
  (\E p \in sent : p.kind = "eos") \/ cache.eos => Cardinality(Published) = Len(Source)

\* serve ends: the session is closed unless an error ended the task.
ServeEnds == <>(pc = "failed" \/ (pc = "done" /\ cache.eos))
=============================================================================
