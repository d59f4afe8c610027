-------------------------- MODULE MCOrderManager --------------------------
(* One portfolio slot and a table of two orders: enough for a table slot to *)
(* be reused while reports of its former order are still on their way, and  *)
(* for a full table to meet an order that ends short.  Three requests: two  *)
(* sells over one buy, or a sell of two buys that executes in parts.  All   *)
(* three ways to start the program are initial states of one run.           *)
EXTENDS OrderManager
=============================================================================
