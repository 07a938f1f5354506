--------------------------- MODULE AbstractEscrow ---------------------------
(***************************************************************************)
(* What the escrow of a milestone promises, whatever happens in between:   *)
(* the amount is held until one decision is taken, the decision is taken   *)
(* once, and it pays the three parties exactly what it says.               *)
(***************************************************************************)
EXTENDS Integers, LedgerArithmetic

CONSTANTS Milestone, Amount, FeeNum, FeeDen

VARIABLES
  outcome,   \* "held", or how the escrow of the milestone was settled
  paid       \* what each party has received for the milestone

Init ==
  /\ outcome = [m \in Milestone |-> "held"]
  /\ paid = [m \in Milestone |-> [client |-> 0, expert |-> 0, platform |-> 0]]

Settle(m, how, client, expert, platform) ==
  /\ outcome[m] = "held"
  /\ outcome' = [outcome EXCEPT ![m] = how]
  /\ paid' = [paid EXCEPT ![m] =
       [client |-> client, expert |-> expert, platform |-> platform]]

(* The work was accepted: the expert is paid, less the platform's fee.     *)
PayExpert(m) == Settle(m, "RELEASED", 0, ExpertNet(Amount[m], FeeNum, FeeDen),
                       PlatformFee(Amount[m], FeeNum, FeeDen))

(* The client won a dispute: the whole amount comes back, without a fee.   *)
RepayClient(m) == Settle(m, "REFUNDED", Amount[m], 0, 0)

(* A dispute was split: half each, the odd dong to the expert, no fee.     *)
Share(m) == Settle(m, "SPLIT", ClientHalf(Amount[m]), ExpertHalf(Amount[m]), 0)

Next == \E m \in Milestone : PayExpert(m) \/ RepayClient(m) \/ Share(m)

Spec == Init /\ [][Next]_<<outcome, paid>>
=============================================================================
