------------------------------- MODULE L2Book -------------------------------
(***************************************************************************)
(* L2Book of itch-book/src/book.rs: the shares at each price level of one  *)
(* symbol, and an index of its open orders.  A method is an operator from  *)
(* the old book to the outcome [ok, book].                                 *)
(*                                                                         *)
(* A book is [levels, orders]: levels maps <<side, price>> to a total (the *)
(* two maps bids and asks), orders maps a reference to an order            *)
(* [level, shares].  The totals stay far below 2^64, so they do not        *)
(* saturate.                                                               *)
(***************************************************************************)
EXTENDS Integers, Sequences, FiniteSetsExt

Empty == [x \in {} |-> 0]

Outcome(ok, book) == [ok |-> ok, book |-> book]

\* HashMap and BTreeMap: insert and remove.
Put(f, key, value) == [k \in DOMAIN f \cup {key} |-> IF k = key THEN value ELSE f[k]]
Drop(f, key) == Restrict(f, DOMAIN f \ {key})

NewL2 == [levels |-> Empty, orders |-> Empty]

\* add_order: the index, then the level's total.
AddOrder(b, ref, level, shares) ==
  [levels |-> Put(b.levels, level,
                  shares + IF level \in DOMAIN b.levels THEN b.levels[level] ELSE 0),
   orders |-> Put(b.orders, ref, [level |-> level, shares |-> shares])]

\* reduce_level: a level that reaches zero goes; the subtraction saturates.
ReduceLevel(levels, level, shares) ==
  IF level \notin DOMAIN levels THEN levels
  ELSE IF levels[level] <= shares THEN Drop(levels, level)
  ELSE [levels EXCEPT ![level] = @ - shares]

\* execute, for E, C and X: more shares than are open is an error.
ExecuteL2(b, ref, shares) ==
  IF ref \notin DOMAIN b.orders THEN Outcome(TRUE, b)
  ELSE LET o == b.orders[ref]
       IN  IF shares > o.shares THEN Outcome(FALSE, b)
           ELSE Outcome(TRUE,
                  [levels |-> ReduceLevel(b.levels, o.level, shares),
                   orders |-> IF shares = o.shares THEN Drop(b.orders, ref)
                              ELSE [b.orders EXCEPT ![ref].shares = @ - shares]])

\* delete
DeleteL2(b, ref) ==
  IF ref \notin DOMAIN b.orders THEN b
  ELSE [levels |-> ReduceLevel(b.levels, b.orders[ref].level, b.orders[ref].shares),
        orders |-> Drop(b.orders, ref)]

\* replace: the new order takes the side of the old one.
ReplaceL2(b, ref, new, shares, price) ==
  IF ref \notin DOMAIN b.orders THEN b
  ELSE AddOrder(DeleteL2(b, ref), new, <<b.orders[ref].level[1], price>>, shares)
=============================================================================
