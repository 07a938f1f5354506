--------------------------- MODULE MCElicitation ---------------------------
(* Small instances of Elicitation for TLC.                                 *)
EXTENDS Elicitation, TLC

Interchangeable == Permutations(Account) \cup Permutations(Text) \cup Permutations(Archetype)
=============================================================================
