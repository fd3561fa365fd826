------------------------------- MODULE L3Book -------------------------------
(***************************************************************************)
(* L3Book of itch-book/src/l3.rs: the open orders of one symbol, in a      *)
(* queue of references at each price level, oldest first.                  *)
(*                                                                         *)
(* A book is [queues, orders, arrival_seq]; an order is [level, shares,    *)
(* arrival_seq].  The attribution of an order is left out, so A and F are  *)
(* one operation.                                                          *)
(***************************************************************************)
EXTENDS L2Book

NewL3 == [queues |-> Empty, orders |-> Empty, arrival_seq |-> 0]

Queue(b, level) == IF level \in DOMAIN b.queues THEN b.queues[level] ELSE <<>>

\* Mutant: a new order goes to the front.
InsertOrderFront(b, ref, level, shares) ==
  [queues |-> Put(b.queues, level, <<ref>> \o Queue(b, level)),
   orders |-> Put(b.orders, ref, [level |-> level, shares |-> shares,
                                  arrival_seq |-> b.arrival_seq + 1]),
   arrival_seq |-> b.arrival_seq + 1]

\* insert_order: the order goes to the back of its level.
InsertOrder(b, ref, level, shares) ==
  [queues |-> Put(b.queues, level, Append(Queue(b, level), ref)),
   orders |-> Put(b.orders, ref, [level |-> level, shares |-> shares,
                                  arrival_seq |-> b.arrival_seq + 1]),
   arrival_seq |-> b.arrival_seq + 1]

\* Mutant: the front of the queue is removed, not the order itself.
RemoveFromQueueFront(queues, level, ref) ==
  IF level \notin DOMAIN queues THEN queues
  ELSE LET q == Tail(queues[level])
       IN  IF q = <<>> THEN Drop(queues, level) ELSE [queues EXCEPT ![level] = q]

\* queue.iter().position and queue.remove: the first occurrence goes.
TakeOut(q, ref) ==
  LET found == {i \in DOMAIN q : q[i] = ref}
      idx == Min(found)
  IN  IF found = {} THEN q ELSE SubSeq(q, 1, idx - 1) \o SubSeq(q, idx + 1, Len(q))

\* remove_from_queue: the order goes from wherever it stands, and an empty level goes.
RemoveFromQueue(queues, level, ref) ==
  IF level \notin DOMAIN queues THEN queues
  ELSE LET q == TakeOut(queues[level], ref)
       IN  IF q = <<>> THEN Drop(queues, level) ELSE [queues EXCEPT ![level] = q]

\* The order is out of its queue and out of the index.
Removed(b, ref) ==
  [b EXCEPT !.queues = RemoveFromQueue(@, b.orders[ref].level, ref), !.orders = Drop(@, ref)]

\* execute, for E and C: an order that is used up must be the front of its queue.  If
\* it is not, the error leaves it in the book with no shares.
ExecuteL3(b, ref, shares) ==
  IF ref \notin DOMAIN b.orders THEN Outcome(TRUE, b)
  ELSE LET o == b.orders[ref]
           left == [b EXCEPT !.orders[ref].shares = @ - shares]
           q == Queue(b, o.level)
       IN  IF shares > o.shares THEN Outcome(FALSE, b)
           ELSE IF shares < o.shares THEN Outcome(TRUE, left)
           ELSE IF q = <<>> THEN Outcome(TRUE, [b EXCEPT !.orders = Drop(@, ref)])
           ELSE IF Head(q) # ref THEN Outcome(FALSE, left)
           ELSE Outcome(TRUE, Removed(b, ref))

\* Mutant: an order that is cancelled to nothing stays.
CancelL3Keeps(b, ref, shares) ==
  IF ref \notin DOMAIN b.orders THEN Outcome(TRUE, b)
  ELSE IF shares > b.orders[ref].shares THEN Outcome(FALSE, b)
  ELSE Outcome(TRUE, [b EXCEPT !.orders[ref].shares = @ - shares])

\* cancel, for X: a partial cancel keeps the order's place.
CancelL3(b, ref, shares) ==
  IF ref \notin DOMAIN b.orders THEN Outcome(TRUE, b)
  ELSE IF shares > b.orders[ref].shares THEN Outcome(FALSE, b)
  ELSE IF shares = b.orders[ref].shares THEN Outcome(TRUE, Removed(b, ref))
  ELSE Outcome(TRUE, [b EXCEPT !.orders[ref].shares = @ - shares])

\* delete
DeleteL3(b, ref) == IF ref \notin DOMAIN b.orders THEN b ELSE Removed(b, ref)

\* replace: the new order keeps the side and goes to the back of its level.
ReplaceL3(b, ref, new, shares, price) ==
  IF ref \notin DOMAIN b.orders THEN b
  ELSE InsertOrder(Removed(b, ref), new, <<b.orders[ref].level[1], price>>, shares)

\* summary_l2: an L2 book built afresh from the index, one added order per entry.
SummaryL2(b) ==
  FoldSet(LAMBDA ref, l2 : AddOrder(l2, ref, b.orders[ref].level, b.orders[ref].shares),
          NewL2, DOMAIN b.orders)
=============================================================================
