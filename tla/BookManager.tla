---------------------------- MODULE BookManager ----------------------------
(***************************************************************************)
(* BookManager of itch-book/src/manager.rs: each message goes to the L2    *)
(* and then to the L3 book of its symbol.                                  *)
(*                                                                         *)
(* The feed gives every new order its own reference and at least one       *)
(* share, as ITCH does; apart from that it may name any order, known or    *)
(* not, and any number of shares.  A book that was not created yet is an   *)
(* empty one.  used is history: the references given out; so is stale: the *)
(* orders the L3 book refused to execute when the L2 book did, and the     *)
(* ones that replaced them.  The counter last_seq and the directory are    *)
(* left out.                                                               *)
(*                                                                         *)
(* The same messages go to an OhlcvAccumulator (as in the README and the   *)
(* tests of itch-book); tape is history: the trades that were printed.     *)
(***************************************************************************)
EXTENDS L3Book, Ohlcv

CONSTANTS Locate,   \* symbols (stock_locate)
          Ref,      \* order references
          Price, MaxShares,
          MaxFeed   \* bound on the orders entered and the trades printed, together

ASSUME BookAssumption == MaxShares \in Nat /\ Price \subseteq Nat /\ MaxFeed \in Nat

VARIABLES l2, l3, used, stale, bars, tape

vars == <<l2, l3, used, stale, bars, tape>>

Side == {"Buy", "Sell"}
Level == Side \X Price

Init ==
  /\ l2 = [s \in Locate |-> NewL2]
  /\ l3 = [s \in Locate |-> NewL3]
  /\ used = {}
  /\ stale = {}
  /\ bars = Empty
  /\ tape = <<>>

\* apply: the L3 book is not consulted when the L2 book refuses the message.
Apply(s, ref, out2, out3) ==
  /\ l2' = [l2 EXCEPT ![s] = out2.book]
  /\ l3' = [l3 EXCEPT ![s] = IF out2.ok THEN out3.book ELSE @]
  /\ stale' = IF out2.ok /\ ~out3.ok THEN stale \cup {ref} ELSE stale

Room == Cardinality(used) + Len(tape) < MaxFeed

\* A printed trade: what OhlcvAccumulator::apply makes of C (if printable), P and Q.
PrintTrade(s, price, shares) ==
  /\ Room
  /\ bars' = apply_trade(bars, s, price, shares)
  /\ tape' = Append(tape, [locate |-> s, price |-> price, shares |-> shares])

NoTrade == UNCHANGED <<bars, tape>>

\* A and F
Add(s, ref, level, shares) ==
  /\ Room
  /\ ref \notin used
  /\ used' = used \cup {ref}
  /\ Apply(s, ref, Outcome(TRUE, AddOrder(l2[s], ref, level, shares)),
                   Outcome(TRUE, InsertOrder(l3[s], ref, level, shares)))
  /\ NoTrade

\* E, and C that is not printable
Execute(s, ref, shares) ==
  /\ Apply(s, ref, ExecuteL2(l2[s], ref, shares), ExecuteL3(l3[s], ref, shares))
  /\ NoTrade
  /\ UNCHANGED used

\* C that is printable, at a price of its own: the trade counts whatever the books say.
ExecuteWithPrice(s, ref, shares, price) ==
  /\ Apply(s, ref, ExecuteL2(l2[s], ref, shares), ExecuteL3(l3[s], ref, shares))
  /\ PrintTrade(s, price, shares)
  /\ UNCHANGED used

\* P and Q leave the books alone.
Trade(s, price, shares) ==
  /\ PrintTrade(s, price, shares)
  /\ UNCHANGED <<l2, l3, used, stale>>

\* X
Cancel(s, ref, shares) ==
  /\ Apply(s, ref, ExecuteL2(l2[s], ref, shares), CancelL3(l3[s], ref, shares))
  /\ NoTrade
  /\ UNCHANGED used

\* D
Delete(s, ref) ==
  /\ Apply(s, ref, Outcome(TRUE, DeleteL2(l2[s], ref)), Outcome(TRUE, DeleteL3(l3[s], ref)))
  /\ NoTrade
  /\ UNCHANGED used

\* U: both books accept it, so stale grows only by the replacement of a stale order.
Replace(s, ref, new, shares, price) ==
  /\ Room
  /\ new \notin used
  /\ used' = used \cup {new}
  /\ l2' = [l2 EXCEPT ![s] = ReplaceL2(@, ref, new, shares, price)]
  /\ l3' = [l3 EXCEPT ![s] = ReplaceL3(@, ref, new, shares, price)]
  /\ stale' = IF ref \in stale THEN stale \cup {new} ELSE stale
  /\ NoTrade

Next ==
  \/ \E s \in Locate, p \in Price, n \in 1..MaxShares : Trade(s, p, n)
  \/ \E s \in Locate, ref \in Ref :
      \/ \E level \in Level, n \in 1..MaxShares : Add(s, ref, level, n)
      \/ \E n \in 0..MaxShares : Execute(s, ref, n)
      \/ \E n \in 0..MaxShares, p \in Price : ExecuteWithPrice(s, ref, n, p)
      \/ \E n \in 0..MaxShares : Cancel(s, ref, n)
      \/ Delete(s, ref)
      \/ \E new \in Ref, n \in 1..MaxShares, p \in Price : Replace(s, ref, new, n, p)

Spec == Init /\ [][Next]_vars
-----------------------------------------------------------------------------
Resting(book, level) == {ref \in DOMAIN book.orders : book.orders[ref].level = level}

\* A queue holds the orders of its level, each once, in the order of their arrival,
\* after any sequence of messages and errors.
QueuesAreOrders ==
  \A s \in Locate :
    /\ DOMAIN l3[s].queues = {l3[s].orders[ref].level : ref \in DOMAIN l3[s].orders}
    /\ \A level \in DOMAIN l3[s].queues :
         LET q == l3[s].queues[level]
         IN  /\ Range(q) = Resting(l3[s], level)
             /\ \A i, j \in DOMAIN q :
                  i < j => l3[s].orders[q[i]].arrival_seq < l3[s].orders[q[j]].arrival_seq

\* The L2 book derived from the L3 book (summary_l2) is the L2 book, over-executions
\* included, once the orders that a FifoViolation left behind are taken out: an error
\* in one book does not touch the agreement on any other order.
BooksAgree ==
  \A s \in Locate :
    SummaryL2([l3[s] EXCEPT !.orders = Restrict(@, DOMAIN @ \ stale)]) = l2[s]

Before(book, p, q) ==
  \E level \in DOMAIN book.queues :
    \E i, j \in DOMAIN book.queues[level] :
      i < j /\ book.queues[level][i] = p /\ book.queues[level][j] = q

\* No message moves an order ahead of another: the orders that stay keep their places,
\* and a new or replaced order stands behind all of its level.
PriorityKept ==
  [][\A s \in Locate : \A p, q \in Ref :
       Before(l3'[s], p, q) => q \notin DOMAIN l3[s].orders \/ Before(l3[s], p, q)]_vars

\* OhlcvAccumulator: a symbol's bar is the summary of the trades printed for it, in
\* whatever order the trades of the symbols came, and of no other message: the
\* extremes, the first and the last price, and the shares up to the counter's limit.
BarsAreTape ==
  /\ DOMAIN bars = {tape[i].locate : i \in DOMAIN tape}
  /\ \A s \in DOMAIN bars :
       LET trades == SelectSeq(tape, LAMBDA t : t.locate = s)
           prices == {trades[i].price : i \in DOMAIN trades}
           total == MapThenSumSet(LAMBDA i : trades[i].shares, DOMAIN trades)
       IN  bars[s] = [open |-> trades[1].price, close |-> trades[Len(trades)].price,
                      high |-> Max(prices), low |-> Min(prices),
                      volume |-> IF total < VolumeMax THEN total ELSE VolumeMax,
                      trade_count |-> Len(trades)]
=============================================================================
