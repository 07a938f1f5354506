----------------------------- MODULE MCBidding -----------------------------
(* Small instances of Bidding for TLC.                                     *)
EXTENDS BidScreens, TLC

CONSTANTS b1, b2, e1, e2

Interchangeable == Permutations(Expert)
=============================================================================
