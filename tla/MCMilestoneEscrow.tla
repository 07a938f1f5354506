------------------------- MODULE MCMilestoneEscrow -------------------------
(* Small instances of MilestoneEscrow, with the pages, for TLC.            *)
EXTENDS ReviewScreens, TLC

CONSTANTS m1, m2, c1, c2, c3

(* Two criteria on one milestone and one on another.                       *)
TwoAndOne == c1 :> m1 @@ c2 :> m1 @@ c3 :> m2

(* An odd amount with a fee that rounds: 5% of 33 is 1.65, split 16 + 17.  *)
Price == [m \in Milestone |-> 33]
=============================================================================
