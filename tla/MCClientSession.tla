-------------------------- MODULE MCClientSession --------------------------
(* A small instance of ClientSession for TLC.  No symmetry: a liveness     *)
(* property is checked.                                                    *)
EXTENDS ClientSession
=============================================================================
