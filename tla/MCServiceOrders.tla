-------------------------- MODULE MCServiceOrders --------------------------
(* Small instances of ServiceOrders for TLC.                               *)
EXTENDS ServiceOrders, TLC

Interchangeable ==
  Permutations(Order) \cup Permutations(Account) \cup Permutations(Transfer) \cup Permutations(Handler)
=============================================================================
