------------------------------ MODULE SeqStore ------------------------------
(***************************************************************************)
(* RingBufferSeqStore of itch-source/src/impls/ring_buffer_seq_store.rs,   *)
(* the bounded store behind the trait SeqStore: a map from sequence        *)
(* numbers to messages, and the highest number ever stored.  Each method   *)
(* runs under the store's lock, so it is one operator.                     *)
(***************************************************************************)
EXTENDS Integers, Sequences, FiniteSets

\* with_capacity: room for one frame at least.
NewStore(capacity) ==
  [map |-> [n \in {} |-> 0], max_seen |-> 0, capacity |-> IF capacity = 0 THEN 1 ELSE capacity]

Stored(s) == DOMAIN s.map

\* latest, and earliest
Latest(s) == s.max_seen
Earliest(s) ==
  IF Stored(s) = {} THEN 0 ELSE CHOOSE n \in Stored(s) : \A m \in Stored(s) : n <= m

\* A number keeps its message: another one is refused (SequenceConflict).
Accepts(s, seq, msg) == seq \in Stored(s) => s.map[seq] = msg

\* store: a full store drops its lowest number.  A number that is there already was
\* counted in max_seen when it came.
Store(s, seq, msg) ==
  LET kept == IF Cardinality(Stored(s)) = s.capacity
              THEN {n \in Stored(s) : \E m \in Stored(s) : m < n} ELSE Stored(s)
  IN  IF seq \in Stored(s) THEN s
      ELSE [s EXCEPT !.map = [n \in kept \cup {seq} |-> IF n = seq THEN msg ELSE s.map[n]],
                     !.max_seen = IF seq > @ THEN seq ELSE @]

\* range: at most count frames from number from on, up to the first number missing.
StoreRange(s, from, count) ==
  LET run == {k \in 0..(count - 1) : from..(from + k) \subseteq Stored(s)}
  IN  [i \in 1..Cardinality(run) |-> [seq |-> from + i - 1, msg |-> s.map[from + i - 1]]]
=============================================================================
