-------------------------- MODULE RetransmitCache --------------------------
(***************************************************************************)
(* The retransmission cache of itch-mold/src/request_server.rs: the struct *)
(* RingBufferSeqStore that the publisher fills and MoldRequestServer       *)
(* answers from, both under one mutex.  A frame is [sequence, body].       *)
(***************************************************************************)
EXTENDS Integers, Sequences, FiniteSets

CONSTANT MaxResponse   \* MAX_RESPONSE_FRAMES

VARIABLES cache,   \* the publisher's RingBufferSeqStore
          sent     \* the packets that went out on the wire

\* with_capacity: room for one frame at least.
WithCapacity(capacity) ==
  [inner |-> <<>>, capacity |-> IF capacity = 0 THEN 1 ELSE capacity, eos |-> FALSE]

\* Mutant: the full ring refuses the new frame instead of dropping the oldest.
CachePushRefuses(c, frame) ==
  IF Len(c.inner) = c.capacity THEN c ELSE [c EXCEPT !.inner = Append(@, frame)]

\* push: a full ring drops its oldest frame.
CachePush(c, frame) ==
  [c EXCEPT !.inner = Append(IF Len(@) = c.capacity THEN Tail(@) ELSE @, frame)]

\* mark_end_of_session
MarkEndOfSession(c) == [c EXCEPT !.eos = TRUE]

Cached(c) == {c.inner[i].sequence : i \in DOMAIN c.inner}

Wanted(count) == IF count < MaxResponse THEN count ELSE MaxResponse

\* Mutant: a number that is no longer cached is answered with the oldest frames.
LookupOldest(c, start, count) ==
  IF c.inner = <<>> \/ start > c.inner[Len(c.inner)].sequence THEN <<>>
  ELSE LET at == CHOOSE i \in DOMAIN c.inner :
                   /\ c.inner[i].sequence >= start
                   /\ \A j \in DOMAIN c.inner : c.inner[j].sequence >= start => i <= j
       IN  SubSeq(c.inner, at, at)

\* lookup: the frames from start on, as long as they are consecutive.  The publisher
\* pushes in order, so the binary search finds start if it is there.
Lookup(c, start, count) ==
  IF start \notin Cached(c) THEN <<>>
  ELSE LET at == CHOOSE i \in DOMAIN c.inner : c.inner[i].sequence = start
           run == {k \in 0..(Wanted(count) - 1) :
                     start..(start + k) \subseteq Cached(c)}
       IN  SubSeq(c.inner, at, at + Cardinality(run) - 1)

\* status_for: all of it, cut short by the end of the session, or a hole.
StatusFor(c, start, count, returned) ==
  LET last == c.inner[Len(c.inner)].sequence
      past == c.inner = <<>> \/ start > last \/ start + Wanted(count) > last + 1
  IN  IF returned = Wanted(count) THEN "OK"
      ELSE IF c.eos /\ past THEN "END_OF_SESSION" ELSE "HOLE"

\* serve_conn: the answer to one request, computed under the lock.
Answer(c, start, count) ==
  LET frames == Lookup(c, start, count)
  IN  IF count = 0 THEN [status |-> "OK", frames |-> <<>>]
      ELSE [status |-> StatusFor(c, start, count, Len(frames)), frames |-> frames]
=============================================================================
