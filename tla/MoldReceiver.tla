---------------------------- MODULE MoldReceiver ----------------------------
(***************************************************************************)
(* MoldStream of itch-mold/src/receiver.rs as its caller sees it: the      *)
(* ReceiverState fed by a multicast network that loses, repeats and        *)
(* reorders the publisher's datagrams, by retransmitted frames, and        *)
(* drained by poll_next.  The silence timer is module MoldSilence.         *)
(*                                                                         *)
(* handed and item are history: how many deliveries the caller has got,    *)
(* and the item the last poll_next returned, if any.                       *)
(***************************************************************************)
EXTENDS ReceiverState

CONSTANTS Datagrams,   \* the packets the network may bring, any number of times
          Repairs,     \* the frame lists a request server may answer with
          Pins,        \* MoldConfig::session: {} or one session
          Starts,      \* MoldConfig::start_sequence
          Caps         \* MoldConfig::max_pending_messages

\* The block numbered n of a packet is what the publisher of its session numbered n.
Honest(pkt) ==
  /\ pkt \in Packet
  /\ pkt.seq <= SeqMax + 1
  /\ pkt.kind = "data" =>
       \A i \in DOMAIN pkt.blocks :
         pkt.seq + i - 1 <= SeqMax /\ pkt.blocks[i] = Stream[pkt.session][pkt.seq + i - 1]

\* The sequence numbers of the blocks of a packet.
BlockNumbers(pkt) == pkt.seq..(pkt.seq + Len(pkt.blocks) - 1)

ASSUME DatagramAssumption == \A pkt \in Datagrams : Honest(pkt)

\* A request server answers with consecutive frames.
Frame == [sequence : 0..SeqMax, body : Body]

ASSUME RepairAssumption ==
  \A frames \in Repairs :
    /\ frames \in Seq(Frame)
    /\ \A i \in DOMAIN frames : frames[i].sequence = frames[1].sequence + i - 1

ASSUME ConfigAssumption ==
  /\ \A p \in Pins : p = {} \/ \E s \in Session : p = {s}
  /\ Starts \subseteq 0..SeqMax
  /\ Caps \subseteq Nat

VARIABLES rx, finished, handed, item

vars == <<rx, finished, handed, item>>

Nothing == [tag |-> "None"]

Init ==
  /\ \E p \in Pins, s \in Starts, m \in Caps, o \in Policies : rx = New(p, s, m, o)
  /\ finished = FALSE
  /\ handed = 0
  /\ item = Nothing

\* The bodies of the frames are those of session s.
OfSession(frames, s) ==
  \A i \in DOMAIN frames : frames[i].body = Stream[s][frames[i].sequence]

\* What a request server answers for an earlier Gap: a session is locked, and the
\* frames start where next_expected was then.
Usable(frames) ==
  /\ frames # <<>> => frames[1].sequence <= rx.next_expected
  /\ \E s \in Session : rx.session = {s} /\ OfSession(frames, s)

\* The receiver as poll_next finds it: as the last poll left it, or after the
\* recovery client has called ingest_retransmit.
Entry == {rx} \cup {IngestRetransmit(rx, frames) : frames \in {f \in Repairs : Usable(f)}}

\* poll_next returns the front of the outbox; EndOfSession ends the stream.
Yield(r) ==
  LET e == Head(r.outbox)
  IN  /\ item' = e
      /\ rx' = [r EXCEPT !.outbox = Tail(@)]
      /\ finished' = (e.tag = "EndOfSession")
      /\ handed' = IF IsDelivery(e) THEN handed + 1 ELSE handed

\* poll_next with events buffered: the socket is not read.
PollBuffered(r) ==
  /\ ~finished
  /\ r.outbox # <<>>
  /\ Yield(r)

\* poll_next reads one datagram; without an event the loop reads on.
Recv(r, pkt) ==
  /\ ~finished
  /\ r.outbox = <<>>
  /\ \E p \in {Ingest(r, pkt)} :
       IF p.outbox # <<>> THEN Yield(p)
       ELSE rx' = p /\ item' = Nothing /\ UNCHANGED <<finished, handed>>

\* A datagram that does not decode, or a socket error, is returned at once.
RecvError(r) ==
  /\ ~finished
  /\ r.outbox = <<>>
  /\ rx' = r
  /\ item' = [tag |-> "RecvError"]
  /\ UNCHANGED <<finished, handed>>

\* poll_next finds no event and no datagram, or is called after the end.
PollNothing(r) ==
  /\ finished \/ r.outbox = <<>>
  /\ rx' = r
  /\ item' = Nothing
  /\ UNCHANGED <<finished, handed>>

Poll(r, datagrams) ==
  \/ PollBuffered(r)
  \/ \E pkt \in datagrams : Recv(r, pkt)
  \/ RecvError(r)
  \/ PollNothing(r)

Next == \E r \in Entry : Poll(r, Datagrams)

Spec == Init /\ [][Next]_vars
-----------------------------------------------------------------------------
\* The fields of ReceiverState hold what their types and their comments say.
TypeOK == rx \in ReceiverStates /\ finished \in BOOLEAN /\ handed \in Nat

\* What is queued for the caller is exactly the sequence numbers from the first
\* one it has not got up to next_expected, each once and in order (ingest, deliver
\* and flush_pending), whatever the network loses, repeats and reorders.
QueueInOrder ==
  LET q == rx.outbox
      D == {i \in DOMAIN q : IsDelivery(q[i])}
  IN  /\ {q[i].seq : i \in D} = (rx.base + handed)..(rx.next_expected - 1)
      /\ \A i, j \in D : i < j => q[i].seq < q[j].seq

\* The caller gets consecutive sequence numbers, without a repeat or a hole, and
\* with each the body that the publisher of the locked session gave that number.
HandedInOrder ==
  [][handed' # handed =>
       /\ item'.seq = rx'.base + handed
       /\ \E s \in Session : rx'.session = {s} /\ item'.body = Stream[s][item'.seq]]_vars

\* The out-of-order buffer keeps its cap (stash_pending); a cap of 0 still lets
\* DropOldest hold one block.
PendingBounded ==
  Cardinality(Held(rx)) <=
    IF rx.pending_overflow = "DropOldest" /\ rx.max_pending = 0 THEN 1 ELSE rx.max_pending

\* A block that arrives in a datagram, or was held when it arrives, is delivered,
\* held, or counted in overflow_drops: ingest loses nothing silently.
NoSilentLoss ==
  [][\A pkt \in Datagrams :
       Recv(rx, pkt) /\ pkt.kind = "data" /\ rx'.session = {pkt.session} =>
         LET lost == {n \in Held(rx) \cup BlockNumbers(pkt) :
                        n >= rx'.next_expected /\ n \notin Held(rx')}
         IN  Cardinality(lost) <= rx'.overflow_drops - rx.overflow_drops]_vars

\* Once next_expected is held it is delivered: ingest ends with flush_pending, so
\* no step leaves the awaited block in the buffer.
AwaitedNotHeld == rx.next_expected \notin Held(rx)

\* A publisher cuts a session into packets once (PublishedIsSource of MoldPublisher): a
\* number is in one data packet only, however often the network brings it.
CutOnce ==
  \A p, q \in Datagrams :
    /\ p.kind = "data" /\ q.kind = "data" /\ p.session = q.session
    /\ BlockNumbers(p) \cap BlockNumbers(q) # {}
    => p = q

\* Under the Error policy an overflow does not poison the stream of a publisher that
\* cuts the session once (CutOnce): the buffer holds only blocks beyond next_expected,
\* so the block that closes the gap flushes it.
ErrorPolicyFlushes ==
  rx.pending_overflow = "Error" => \A n \in Held(rx) : n > rx.next_expected
=============================================================================
