------------------------ MODULE MCSeamVerification ------------------------
(* A small instance of SeamVerification for TLC.                           *)
EXTENDS SeamVerification, TLC

(* Seams, entries and attempts are told apart only by name.                *)
Interchangeable == Permutations(Seam) \cup Permutations(Entry) \cup Permutations(Attempt)
=============================================================================
