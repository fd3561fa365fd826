---------------------------- MODULE MCTcpServer -----------------------------
(***************************************************************************)
(* The TCP server over each backend, with every pacing, on short sources:  *)
(* one that ends, one of Kafka with a record that does not decode.         *)
(***************************************************************************)
EXTENDS TcpServer

Postgres ==
  [backend |-> "postgres", policy |-> "store", kind |-> "iterator", pacing |-> "max",
   items |-> <<Good(1, 1), Good(2, 1), Good(3, 1), Good(4, 1)>>]

\* A fixed list, or an empty store, does not need a database.
MCSetups ==
  {Postgres,
   [backend |-> "redis", policy |-> "store", kind |-> "kafka", pacing |-> "max",
    items |-> <<Good(1, 1), Good(2, 1), Good(3, 1)>>],
   [backend |-> "null", policy |-> "static", kind |-> "iterator", pacing |-> "fixed",
    items |-> <<Good(1, 1), Good(2, 1), Good(3, 1), Good(4, 1)>>],
   [backend |-> "null", policy |-> "store", kind |-> "kafka", pacing |-> "realtime",
    items |-> <<Good(1, 2), Good(2, 1), Bad, Good(4, 3)>>]}

MCSetupsPostgres == {Postgres}
=============================================================================
