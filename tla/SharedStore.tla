---------------------------- MODULE SharedStore -----------------------------
(***************************************************************************)
(* The SeqStore implementations outside the process: PostgresSeqStore      *)
(* (itch-source-postgres/src/lib.rs), a table of rows, and RedisSeqStore   *)
(* (itch-source-redis/src/lib.rs), keys that expire; and NullSeqStore,     *)
(* which keeps nothing.  A database outlives the server, and the server's  *)
(* tasks reach it call by call.                                            *)
(*                                                                         *)
(* A database is a record: rows, the messages by number; floors and        *)
(* latest, the other keys of Redis; age, the keys of Redis in the order in *)
(* which they were last set.  One call that the database executes as one   *)
(* command is one operator.                                                *)
(***************************************************************************)
EXTENDS Integers, Sequences, FiniteSets, FiniteSetsExt

CONSTANT I64Max     \* i64::MAX, the last number a BIGINT holds

ASSUME I64Assumption == I64Max \in Nat \ {0}

EmptyDatabase ==
  [rows |-> [n \in {} |-> 0], floors |-> {}, latest |-> 0, age |-> <<>>]

With(rows, seq, msg) ==
  [n \in DOMAIN rows \cup {seq} |-> IF n = seq THEN msg ELSE rows[n]]

\* The least and the greatest number of a set, 0 when there is none (COALESCE).
Least(S) == IF S = {} THEN 0 ELSE Min(S)
Greatest(S) == IF S = {} THEN 0 ELSE Max(S)
-----------------------------------------------------------------------------
\* A number that does not fit a BIGINT cannot be stored.
seq_to_i64(seq) == seq <= I64Max

\* PostgresSeqStore::store: INSERT ... ON CONFLICT DO NOTHING.  A row that is there stays.
pg_insert(db, seq, msg) ==
  IF seq \in DOMAIN db.rows THEN db ELSE [db EXCEPT !.rows = With(@, seq, msg)]

\* PostgresSeqStore::range, one SELECT: the rows from number from on, at most count of
\* them, up to the first number missing.
pg_range(db, from, count) ==
  LET run == {k \in 1..count : from..(from + k - 1) \subseteq DOMAIN db.rows}
  IN  IF ~seq_to_i64(from) THEN <<>>
      ELSE [i \in 1..Cardinality(run) |-> db.rows[from + i - 1]]

pg_latest(db) == Greatest(DOMAIN db.rows)
pg_earliest(db) == Least(DOMAIN db.rows)
-----------------------------------------------------------------------------
\* A key that is set again starts a new life.
Renewed(age, key) == Append(SelectSeq(age, LAMBDA k : k # key), key)

\* RedisSeqStore::store is three commands: SET of the message with its time to live, ...
redis_set(db, seq, msg) ==
  [db EXCEPT !.rows = With(@, seq, msg), !.age = Renewed(@, <<"msg", seq>>)]

\* ... EVAL, which raises the counter and gives it twice that time when it does, ...
redis_eval(db, seq) ==
  IF db.latest >= seq THEN db
  ELSE [db EXCEPT !.latest = seq,
                  !.age = Append(SelectSeq(@, LAMBDA k : k[1] # "latest"), <<"latest", 1>>)]

\* ... and SET of the floor key.
redis_floor(db, seq) ==
  [db EXCEPT !.floors = @ \cup {seq}, !.age = Renewed(@, <<"floor", seq>>)]

\* One GET of RedisSeqStore::range, which stops at the first key missing.
redis_has(db, seq) == seq \in DOMAIN db.rows
redis_get(db, seq) == db.rows[seq]

redis_latest(db) == db.latest

\* RedisSeqStore::earliest scans the floor keys, not the messages.
redis_earliest(db) == Least(db.floors)

\* Redis drops the key that was set first, whatever else depends on it.  The counter goes
\* round twice: halfway through its life it has as long to go as a key that is set then.
CanExpire(db) == db.age # <<>>

redis_expire(db) ==
  LET kind == Head(db.age)[1]
      seq == Head(db.age)[2]
      rest == [db EXCEPT !.age = Tail(@)]
  IN  CASE kind = "floor" -> [rest EXCEPT !.floors = @ \ {seq}]
        [] kind = "msg" -> [rest EXCEPT !.rows = [n \in DOMAIN @ \ {seq} |-> @[n]]]
        [] kind = "latest" /\ seq = 1 -> [rest EXCEPT !.age = Append(@, <<"latest", 2>>)]
        [] OTHER -> [rest EXCEPT !.latest = 0]
-----------------------------------------------------------------------------
\* NullSeqStore
null_store(db) == db
null_latest(db) == 0
null_earliest(db) == 0

\* latest and earliest of the backend in use
Latest(backend, db) ==
  CASE backend = "postgres" -> pg_latest(db)
    [] backend = "redis" -> redis_latest(db)
    [] backend = "null" -> null_latest(db)

Earliest(backend, db) ==
  CASE backend = "postgres" -> pg_earliest(db)
    [] backend = "redis" -> redis_earliest(db)
    [] backend = "null" -> null_earliest(db)
=============================================================================
