-------------------------- MODULE LedgerArithmetic --------------------------
(***************************************************************************)
(* How an escrowed amount is divided (backend/src/shared/ledger).  Amounts *)
(* are whole Vietnamese dong, as BIGINT columns hold them.  The platform   *)
(* fee percentage is a float in [0, 1]; it is the fraction num/den here.   *)
(***************************************************************************)
EXTENDS Integers

(* Math.round on a non-negative quotient: the nearest integer, halves up.  *)
RoundHalfUp(num, den) == (2 * num + den) \div (2 * den)

(* releaseMilestoneWithTx: the platform's part and what is left.           *)
PlatformFee(total, num, den) == RoundHalfUp(total * num, den)
ExpertNet(total, num, den)   == total - PlatformFee(total, num, den)

(* splitEscrowWithTx: the client gets the floor, the expert the remainder. *)
ClientHalf(total) == total \div 2
ExpertHalf(total) == total - ClientHalf(total)
=============================================================================
