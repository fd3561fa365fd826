--------------------------- MODULE ReceiverState ---------------------------
(***************************************************************************)
(* The pure packet state machine of the MoldUDP64 receiver: the struct     *)
(* ReceiverState of itch-mold/src/receiver.rs and the methods that         *)
(* transform it.  A method is an operator from the old struct and its      *)
(* argument to the new struct; events and errors are queued on the field   *)
(* outbox, as in the code.                                                 *)
(*                                                                         *)
(* Abstraction.  A session id is a member of Session and an encoded ITCH   *)
(* message a member of Body; Decodable holds the bodies Message::decode    *)
(* accepts.  Stream[s][n] is the body that the publisher of session s      *)
(* numbered n.  An Option<session> is a set with at most one member.  A    *)
(* packet is [session, kind, seq, blocks].  The field base is a history    *)
(* field: the sequence number at which the receiver locked on.  The seq of *)
(* a DecodeError item is history too: the code queues the bare error.      *)
(***************************************************************************)
EXTENDS Integers, Sequences, FiniteSets

CONSTANTS Session,       \* session ids
          SeqMax,        \* the largest sequence number (u64::MAX in the code)
          Body,          \* encoded inner messages
          Decodable,     \* the bodies that decode
          Stream,        \* what each session's publisher numbered
          BlankSession   \* ten spaces: session_from_str("")

ASSUME SeqMaxAssumption == SeqMax \in Nat

ASSUME StreamAssumption == Stream \in [Session -> [0..SeqMax -> Body]]

ASSUME BlankAssumption == BlankSession \in Session

Policies == {"DropOldest", "Error"}

Packet ==
  [session : Session, kind : {"data", "heartbeat", "eos"}, seq : Nat, blocks : Seq(Body)]

Buffer == UNION {[S -> Body] : S \in SUBSET (0..SeqMax)}

\* The items queued for poll_next: MoldEvent and MoldError.
DeliveryItem == [tag : {"Message", "DecodeError"}, seq : Nat, body : Body]
GapItem == [tag : {"Gap"}, from : Nat, to : Nat]
MarkItem == [tag : {"Heartbeat", "EndOfSession"}, next_seq : Nat]
ErrorItem == [tag : {"SessionMismatch", "PendingBufferFull"}]
Item == DeliveryItem \cup GapItem \cup MarkItem \cup ErrorItem

\* struct ReceiverState
ReceiverStates ==
  [session : SUBSET Session, next_expected : 0..(SeqMax + 1), bootstrapped : BOOLEAN,
   pending : Buffer, outbox : Seq(Item), eos : BOOLEAN, max_pending : Nat,
   pending_overflow : Policies, start_sequence : 0..SeqMax, overflow_drops : Nat,
   base : 0..(SeqMax + 1)]

IsDelivery(item) == item.tag \in {"Message", "DecodeError"}

Push(r, item) == [r EXCEPT !.outbox = Append(@, item)]

-----------------------------------------------------------------------------
\* ReceiverState::new
New(session, start, max, policy) ==
  [session          |-> session,
   next_expected    |-> start,
   bootstrapped     |-> FALSE,
   pending          |-> [n \in {} |-> n],
   outbox           |-> <<>>,
   eos              |-> FALSE,
   max_pending      |-> max,
   pending_overflow |-> policy,
   start_sequence   |-> start,
   overflow_drops   |-> 0,
   base             |-> start]

\* deliver: a block that does not decode is reported, and skipped.
Delivery(seq, body) ==
  [tag |-> IF body \in Decodable THEN "Message" ELSE "DecodeError", seq |-> seq, body |-> body]

Held(r) == DOMAIN r.pending

Insert(r, seq, body) ==
  [r EXCEPT !.pending = [n \in Held(r) \cup {seq} |-> IF n = seq THEN body ELSE r.pending[n]]]

Keep(r, S) == [r EXCEPT !.pending = [n \in S |-> r.pending[n]]]

\* Mutant: an eviction that is not counted.
PopFirstUncounted(r) ==
  IF Held(r) = {} THEN r ELSE Keep(r, {n \in Held(r) : \E m \in Held(r) : m < n})

\* pending.pop_first(): the smallest sequence number held leaves.
PopFirst(r) ==
  IF Held(r) = {} THEN r
  ELSE [Keep(r, {n \in Held(r) : \E m \in Held(r) : m < n})
          EXCEPT !.overflow_drops = @ + 1]

\* Mutant: the cap is checked with <= for <.
StashPendingOneMore(r, seq, body) ==
  IF seq \in Held(r) THEN r
  ELSE IF Cardinality(Held(r)) <= r.max_pending THEN Insert(r, seq, body)
  ELSE IF r.pending_overflow = "DropOldest" THEN Insert(PopFirst(r), seq, body)
  ELSE [Push(r, [tag |-> "PendingBufferFull"]) EXCEPT !.overflow_drops = @ + 1]

\* stash_pending
StashPending(r, seq, body) ==
  IF seq \in Held(r) THEN r
  ELSE IF Cardinality(Held(r)) < r.max_pending THEN Insert(r, seq, body)
  ELSE IF r.pending_overflow = "DropOldest" THEN Insert(PopFirst(r), seq, body)
  ELSE [Push(r, [tag |-> "PendingBufferFull"]) EXCEPT !.overflow_drops = @ + 1]

\* The loop of ingest that stashes the blocks of a packet beyond the gap, in order.
StashSteps(r, pkt) ==
  LET go[i \in 0..Len(pkt.blocks)] ==
        IF i = 0 THEN r ELSE StashPending(go[i - 1], pkt.seq + i - 1, pkt.blocks[i])
  IN  go

StashBlocks(r, pkt) == StashSteps(r, pkt)[Len(pkt.blocks)]

\* deliver, once for every number from next_expected up to end; body[n] is the
\* block numbered n.
DeliverUpTo(r, end, body) ==
  LET first == r.next_expected
  IN  [r EXCEPT !.outbox = @ \o [i \in 1..(end - first) |->
                                   Delivery(first + i - 1, body[first + i - 1])],
                !.next_expected = end]

\* Mutant: the blocks of a packet below next_expected are not skipped.
DeliverBlocksFromStart(r, pkt) ==
  LET end == pkt.seq + Len(pkt.blocks)
  IN  [r EXCEPT !.outbox = @ \o [i \in 1..Len(pkt.blocks) |->
                                   Delivery(pkt.seq + i - 1, pkt.blocks[i])],
                !.next_expected = end]

\* The loop of ingest that delivers the blocks numbered next_expected and above.
DeliverBlocks(r, pkt) ==
  LET end == pkt.seq + Len(pkt.blocks)
  IN  DeliverUpTo(r, end, [n \in pkt.seq..(end - 1) |-> pkt.blocks[n - pkt.seq + 1]])

\* The entries the loop of flush_pending takes: it looks at the smallest key only
\* and stops as soon as that is not next_expected.
Flushable(r) ==
  IF \E n \in Held(r) : n < r.next_expected THEN {}
  ELSE {n \in Held(r) : r.next_expected..n \subseteq Held(r)}

\* Mutant: the entries that are delivered stay in the buffer.
FlushPendingKeeps(r) ==
  DeliverUpTo(r, r.next_expected + Cardinality(Flushable(r)), r.pending)

\* flush_pending
FlushPending(r) ==
  LET run == Flushable(r)
  IN  DeliverUpTo(Keep(r, Held(r) \ run), r.next_expected + Cardinality(run), r.pending)

\* The session lock and the bootstrap of the cursor, at the head of ingest.
LockOn(r, pkt) ==
  LET first == IF r.start_sequence = 0 THEN pkt.seq ELSE r.next_expected
  IN  IF r.bootstrapped THEN [r EXCEPT !.session = {pkt.session}]
      ELSE [r EXCEPT !.session = {pkt.session}, !.bootstrapped = TRUE,
                     !.next_expected = first, !.base = first]

\* Mutant: the gap is reported from the last number delivered.
IngestDataWideGap(r, pkt) ==
  IF pkt.seq + Len(pkt.blocks) <= r.next_expected THEN r
  ELSE IF pkt.seq > r.next_expected
  THEN StashBlocks(Push(r, [tag |-> "Gap", from |-> r.next_expected - 1, to |-> pkt.seq - 1]), pkt)
  ELSE FlushPending(DeliverBlocks(r, pkt))

\* The sequenced-data part of ingest: late, beyond a gap, or in order.
IngestData(r, pkt) ==
  IF pkt.seq + Len(pkt.blocks) <= r.next_expected THEN r
  ELSE IF pkt.seq > r.next_expected
  THEN StashBlocks(Push(r, [tag |-> "Gap", from |-> r.next_expected, to |-> pkt.seq - 1]), pkt)
  ELSE FlushPending(DeliverBlocks(r, pkt))

\* Mutant: no session check.
IngestAnySession(r, pkt) ==
  CASE pkt.kind = "heartbeat" ->
         Push(LockOn(r, pkt), [tag |-> "Heartbeat", next_seq |-> pkt.seq])
    [] pkt.kind = "eos" ->
         [Push(LockOn(r, pkt), [tag |-> "EndOfSession", next_seq |-> pkt.seq])
            EXCEPT !.eos = TRUE]
    [] pkt.kind = "data" -> IngestData(LockOn(r, pkt), pkt)

\* ingest
Ingest(r, pkt) ==
  IF r.session # {} /\ r.session # {pkt.session}
  THEN Push(r, [tag |-> "SessionMismatch"])
  ELSE CASE pkt.kind = "heartbeat" ->
              Push(LockOn(r, pkt), [tag |-> "Heartbeat", next_seq |-> pkt.seq])
         [] pkt.kind = "eos" ->
              [Push(LockOn(r, pkt), [tag |-> "EndOfSession", next_seq |-> pkt.seq])
                 EXCEPT !.eos = TRUE]
         [] pkt.kind = "data" -> IngestData(LockOn(r, pkt), pkt)

\* The session ingest_retransmit gives its packets, and the packet it makes of a frame.
LockedSession(r) ==
  IF r.session = {} THEN BlankSession ELSE CHOOSE x \in Session : r.session = {x}

OneBlock(s, frame) ==
  [session |-> s, kind |-> "data", seq |-> frame.sequence, blocks |-> <<frame.body>>]

\* ingest_retransmit: every frame is ingested as a one-block packet.
RetransmitSteps(r, frames) ==
  LET go[i \in 0..Len(frames)] ==
        IF i = 0 THEN r ELSE Ingest(go[i - 1], OneBlock(LockedSession(r), frames[i]))
  IN  go

IngestRetransmit(r, frames) == RetransmitSteps(r, frames)[Len(frames)]
=============================================================================
