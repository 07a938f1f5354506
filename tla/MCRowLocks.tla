----------------------------- MODULE MCRowLocks -----------------------------
(* A small instance of RowLocks for TLC.                                   *)
EXTENDS RowLocks, TLC

CONSTANTS m1, m2, c1, c2

(* One criterion on each of two milestones that share the wallets.         *)
OneEach == c1 :> m1 @@ c2 :> m2

(* An odd amount with a fee that rounds: 5% of 33 is 1.65, split 16 + 17.  *)
Price == [m \in Milestone |-> 33]

(* Requests are alike, and so are the milestones with their criteria.      *)
Swap == m1 :> m2 @@ m2 :> m1 @@ c1 :> c2 @@ c2 :> c1
Interchangeable == Permutations(Handler) \cup {Swap}
=============================================================================
