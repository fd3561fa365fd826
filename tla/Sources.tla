------------------------------ MODULE Sources -------------------------------
(***************************************************************************)
(* The message sources of itch-source and itch-source-kafka, as the        *)
(* streams that a server's ingest task polls: IteratorSource, KafkaSource, *)
(* and PacedSource around either.  Time is left out: a sleep ends whenever *)
(* it does, and a period has passed or it has not.                         *)
(*                                                                         *)
(* An item of the inner stream is a message with its place in the stream   *)
(* and its timestamp, or a record that cannot be decoded or read.          *)
(***************************************************************************)
EXTENDS Naturals, Sequences

Good(id, ts) == [ok |-> TRUE, id |-> id, ts |-> ts]
Bad == [ok |-> FALSE, id |-> 0, ts |-> 0]
Nothing == [ok |-> FALSE, id |-> 0, ts |-> 1]

\* What a poll returns: an item, an error, the end of the stream, or Pending.
Ready(item) == [poll |-> "item", item |-> item]
Failed == [poll |-> "error", item |-> Bad]
Ended == [poll |-> "end", item |-> Nothing]
Pending == [poll |-> "pending", item |-> Nothing]

\* paced(inner, pacing): last_ts and last_tick are 0 until there is one.
NewPaced(kind, items, pacing) ==
  [kind |-> kind, inner |-> items, pacing |-> pacing, pending |-> Nothing,
   sleeping |-> FALSE, last_ts |-> 0, ticked |-> FALSE]

\* IteratorSource: its items, then the end.
iterator_next(inner) == IF inner = <<>> THEN Ended ELSE Ready(Head(inner))

\* KafkaSource: a record without payload, one that does not decode and an error of the
\* consumer are errors of the stream, which goes on with the next record; it never ends.
kafka_next(inner) ==
  IF inner = <<>> THEN Pending
  ELSE IF Head(inner).ok THEN Ready(Head(inner)) ELSE Failed

inner_next(p) == IF p.kind = "kafka" THEN kafka_next(p.inner) ELSE iterator_next(p.inner)

\* Whether PacedSource holds the item back, after which it sleeps: in Fixed pacing when
\* the tick has not come yet, which time decides, in Realtime when its timestamp is later.
MayHold(p, item) ==
  \/ p.pacing = "fixed" /\ p.ticked
  \/ p.pacing = "realtime" /\ p.last_ts # 0 /\ item.ts > p.last_ts

MustHold(p, item) == p.pacing = "realtime" /\ MayHold(p, item)

Emit(p, item) == [p EXCEPT !.last_ts = item.ts, !.ticked = TRUE]

\* Mutant: the inner stream is polled while an item is held back.
poll_next_overwrites(p) ==
  LET r == inner_next(p)
      pulled == [p EXCEPT !.inner = IF @ = <<>> THEN <<>> ELSE Tail(@)]
  IN  IF p.inner = <<>> /\ p.sleeping
      THEN {[src |-> Emit([p EXCEPT !.sleeping = FALSE, !.pending = Nothing], p.pending),
             ret |-> Ready(p.pending)]}
      ELSE IF r.poll # "item" THEN {[src |-> pulled, ret |-> r]}
      ELSE {[src |-> [pulled EXCEPT !.pending = r.item, !.sleeping = TRUE], ret |-> Pending]}

\* PacedSource::poll_next: the outcomes there can be.  A sleep is driven to its end first
\* and gives up the item held back; only then is the inner stream polled.
poll_next(p) ==
  LET r == inner_next(p)
      pulled == [p EXCEPT !.inner = IF @ = <<>> THEN <<>> ELSE Tail(@)]
      now == [src |-> Emit(pulled, r.item), ret |-> r]
      later == [src |-> [pulled EXCEPT !.pending = r.item, !.sleeping = TRUE],
                ret |-> Pending]
  IN  IF p.sleeping
      THEN {[src |-> Emit([p EXCEPT !.sleeping = FALSE, !.pending = Nothing], p.pending),
             ret |-> Ready(p.pending)]}
      ELSE IF r.poll # "item" THEN {[src |-> pulled, ret |-> r]}
      ELSE (IF MayHold(p, r.item) THEN {later} ELSE {})
           \cup (IF MustHold(p, r.item) THEN {} ELSE {now})
=============================================================================
