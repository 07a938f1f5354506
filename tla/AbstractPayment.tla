--------------------------- MODULE AbstractPayment ---------------------------
(***************************************************************************)
(* What paying by bank transfer promises, whoever issued the account and   *)
(* however often the bank repeats its notices: a transfer is for one item, *)
(* which is settled when it is made; it is credited at most once, and only *)
(* if it is of the amount asked for; and an item is paid by one transfer,  *)
(* whose amount is then in escrow for it.                                  *)
(***************************************************************************)
EXTENDS Naturals

CONSTANTS
  Item,      \* what is paid for
  Reference, \* reference codes of bank transfers
  Amount

VARIABLES
  sent,      \* for what a transfer was made, of how much, and if that is what was asked
  credits,   \* how often a transfer was credited
  escrow     \* what is in escrow for an item

Unsent == [item |-> "none"]

Init ==
  /\ sent = [t \in Reference |-> Unsent]
  /\ credits = [t \in Reference |-> 0]
  /\ escrow = [i \in Item |-> 0]

(* The client's bank: a transfer is for an item, of an amount that is or   *)
(* is not what was asked.                                                  *)
Send(t) ==
  /\ sent[t] = Unsent
  /\ sent'[t] \in [item : Item, amount : Amount, exact : BOOLEAN]
  /\ sent' = [sent EXCEPT ![t] = sent'[t]]
  /\ UNCHANGED <<credits, escrow>>

(* The platform.                                                           *)
Credit(t) ==
  /\ sent[t] # Unsent /\ sent[t].exact /\ credits[t] = 0
  /\ LET i == sent[t].item IN
     /\ escrow[i] = 0
     /\ escrow' = [escrow EXCEPT ![i] = sent[t].amount]
  /\ credits' = [credits EXCEPT ![t] = 1]
  /\ UNCHANGED sent

Next == \E t \in Reference : Send(t) \/ Credit(t)

Spec == Init /\ [][Next]_<<sent, credits, escrow>>
=============================================================================
