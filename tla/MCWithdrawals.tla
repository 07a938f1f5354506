--------------------------- MODULE MCWithdrawals ---------------------------
(* Small instances of Withdrawals for TLC.                                 *)
EXTENDS Withdrawals, TLC

(* Requests, transfers and milestones are told apart only by name.         *)
Interchangeable ==
  Permutations(Withdrawal) \cup Permutations(Payment) \cup Permutations(Milestone)
  \cup Permutations(Handler)
=============================================================================
