------------------------- MODULE MCContractFunding -------------------------
(* Small instances of ContractFunding for TLC.                             *)
EXTENDS ContractFunding, TLC

(* Virtual accounts, transfers and milestones are told apart only by name. *)
Interchangeable ==
  Permutations(VA) \cup Permutations(Payment) \cup Permutations(Milestone)
=============================================================================
