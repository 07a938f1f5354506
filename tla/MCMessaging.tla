---------------------------- MODULE MCMessaging ----------------------------
(* A small instance of Messaging for TLC.                                  *)
EXTENDS Messaging, TLC

(* The threads are told apart only by name.                                *)
Interchangeable == Permutations(Thread)
=============================================================================
