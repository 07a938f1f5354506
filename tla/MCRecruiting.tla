---------------------------- MODULE MCRecruiting ----------------------------
(* A small instance of Recruiting for TLC.                                 *)
EXTENDS Recruiting, TLC

(* Experts and handlers are told apart only by name.                       *)
Interchangeable == Permutations(Expert) \cup Permutations(Handler)
=============================================================================
