----------------------------- MODULE Withdrawals -----------------------------
(***************************************************************************)
(* The wallet of one expert: top-ups by bank transfer, what approved       *)
(* milestones pay, withdrawal requests, and what the admin (complete,      *)
(* fail) or the expert (cancel) makes of them.  Completing the withdrawal  *)
(* of a milestone's payment releases the milestone and, with the last one, *)
(* closes the engagement.  Subscriptions are bought from the same wallet.  *)
(*                                                                         *)
(* Handlers are requests, as in MilestoneEscrow: what the guards need is   *)
(* read in one step and written in a later one.                            *)
(***************************************************************************)
EXTENDS Integers, FiniteSets, Sequences, Functions

CONSTANTS
  Milestone,    \* the milestones of the expert's engagement
  Withdrawal,   \* ids of withdrawal_requests; bounds how many are made
  Payment,      \* reference codes of transfers to the expert's permanent VA
  Handler,      \* requests that can be in progress at a time
  Amounts,      \* amounts the expert may transfer or ask for, prices of packages
  MaxPeriods,   \* bound on the subscriptions the expert buys
  Net,          \* what a released milestone pays the expert
  Manual        \* the null of withdrawal_requests.milestone_id: EXPERT_MANUAL

ASSUME ConstantsOK ==
  /\ IsFiniteSet(Withdrawal)
  /\ Amounts \subseteq Nat \ {0}
  /\ Net \in Nat
  /\ Milestone # {}
  /\ MaxPeriods \in Nat
  /\ Manual \notin Milestone

VARIABLES
  balance,      \* wallets.available_balance
  paidIn,       \* sum of the wallet's TOP_UP, earned and split rows
  topup,        \* number of TOP_UP rows with a reference
  withdrawal,   \* withdrawal_requests; each has one WITHDRAWAL row
  refunds,      \* number of WITHDRAWAL_REFUND rows of a request
  milestone,    \* milestones.state, from review to release
  engagement,   \* engagements.state
  pro,          \* the tier is pro and expires in the future
  charged,      \* prices of the wallet's SUBSCRIPTION rows
  lapsed,       \* history: the subscriptions that have expired
  overlapped,   \* history: some request began while another was in progress
  request       \* what each handler is doing and what it has read

wallet       == <<balance, paidIn, topup, refunds>>
subscription == <<pro, charged, lapsed>>
vars == <<balance, paidIn, topup, withdrawal, refunds, milestone, engagement,
          subscription, overlapped, request>>

-----------------------------------------------------------------------------
Status == {"PENDING", "COMPLETED", "FAILED", "CANCELLED"}

NotMade == [status |-> "NONE"]
Idle    == [op |-> "idle"]
Request ==
       {Idle}
  \cup [op : {"topup"}, p : Payment, amount : Amounts]
  \cup [op : {"withdraw"}, amount : Amounts]
  \cup [op : {"cancel", "fail", "complete"}, w : Withdrawal]
  \cup [op : {"released"}, w : Withdrawal, last : BOOLEAN]
  \cup [op : {"subscribe", "charge"}, price : Amounts]

Starts(h, r) ==
  /\ request[h] = Idle
  /\ request' = [request EXCEPT ![h] = r]
  /\ overlapped' = (overlapped \/ \E g \in Handler : request[g] # Idle)
Becomes(h, r) == request' = [request EXCEPT ![h] = r] /\ UNCHANGED overlapped
Ends(h)       == Becomes(h, Idle)

(* The row lock a completing transaction holds on its request.             *)
Locked(h, w) == \E g \in Handler \ {h} :
  request[g].op = "released" /\ request[g].w = w

Make(w, m, amount) ==
  /\ withdrawal[w] = NotMade
  /\ withdrawal' = [withdrawal EXCEPT ![w] =
       [status |-> "PENDING", m |-> m, amount |-> amount]]

Pending(w) == withdrawal[w].status = "PENDING"
Made(w)    == withdrawal[w] # NotMade

-----------------------------------------------------------------------------
Init ==
  /\ balance = 0 /\ paidIn = 0
  /\ topup = [p \in Payment |-> 0]
  /\ withdrawal = [w \in Withdrawal |-> NotMade]
  /\ refunds = [w \in Withdrawal |-> 0]
  /\ milestone = [m \in Milestone |-> "SUBMITTED"]
  /\ engagement = "ACTIVE"
  /\ pro = FALSE /\ charged = <<>> /\ lapsed = 0
  /\ overlapped = FALSE
  /\ request = [h \in Handler |-> Idle]

-----------------------------------------------------------------------------
(* A milestone is approved (MilestoneEscrow).  Released with a bank account *)
(* linked, its net amount goes straight into a request; otherwise it, or   *)
(* the expert's part of a split, or nothing, is added to the balance.      *)
Approve(m) ==
  /\ milestone[m] = "SUBMITTED"
  /\ milestone' = [milestone EXCEPT ![m] = "APPROVED"]
  /\ \E signedOff \in BOOLEAN : engagement' =
       IF signedOff /\ \A n \in Milestone \ {m} : milestone[n] # "SUBMITTED"
       THEN "CLOSED" ELSE engagement
  /\ UNCHANGED <<topup, refunds, subscription, overlapped, request>>

ApproveLinked(m) ==
  /\ Approve(m)
  /\ \E w \in Withdrawal : Make(w, m, Net)
  /\ paidIn' = paidIn + Net
  /\ UNCHANGED balance

ApproveUnlinked(m) ==
  /\ Approve(m)
  /\ \E part \in {0, Net} : balance' = balance + part /\ paidIn' = paidIn + part
  /\ UNCHANGED withdrawal

-----------------------------------------------------------------------------
(* IpnHandlerService.handleWalletTopup: once per reference.                *)
BeginTopup(h, p, amount) ==
  /\ topup[p] = 0
  /\ Starts(h, [op |-> "topup", p |-> p, amount |-> amount])
  /\ UNCHANGED <<wallet, withdrawal, milestone, engagement, subscription>>

CommitTopup(h) ==
  /\ request[h].op = "topup"
  /\ balance' = balance + request[h].amount
  /\ paidIn' = paidIn + request[h].amount
  /\ topup' = [topup EXCEPT ![request[h].p] = @ + 1]
  /\ Ends(h)
  /\ UNCHANGED <<withdrawal, refunds, milestone, engagement, subscription>>

(* WithdrawalsService.requestWithdrawal.                                   *)
SufficientIfAny(amount) == balance > 0
Sufficient(amount)      == balance >= amount

BeginWithdraw(h, amount) ==
  /\ Sufficient(amount)
  /\ Starts(h, [op |-> "withdraw", amount |-> amount])
  /\ UNCHANGED <<wallet, withdrawal, milestone, engagement, subscription>>

CommitWithdraw(h) ==
  /\ request[h].op = "withdraw"
  /\ balance' = balance - request[h].amount
  /\ \E w \in Withdrawal : Make(w, Manual, request[h].amount)
  /\ Ends(h)
  /\ UNCHANGED <<paidIn, topup, refunds, milestone, engagement, subscription>>

-----------------------------------------------------------------------------
(* WithdrawalsService.cancelWithdrawal by the expert; AdminService's       *)
(* failWithdrawal and completeWithdrawal.                                  *)
Decide(h, op, w) ==
  /\ Pending(w)
  /\ Starts(h, [op |-> op, w |-> w])
  /\ UNCHANGED <<wallet, withdrawal, milestone, engagement, subscription>>

BeginCancel(h, w)   == Decide(h, "cancel", w)
BeginFail(h, w)     == Decide(h, "fail", w)
BeginComplete(h, w) == Decide(h, "complete", w)

Marked(w, status) == withdrawal' = [withdrawal EXCEPT ![w].status = status]

CreditBackUnbooked(w) ==
  balance' = balance + withdrawal[w].amount /\ UNCHANGED refunds
CreditBack(w) ==
  /\ balance' = balance + withdrawal[w].amount
  /\ refunds' = [refunds EXCEPT ![w] = @ + 1]

CommitCancelUnmarked(h) ==
  /\ request[h].op = "cancel" /\ ~ Locked(h, request[h].w)
  /\ CreditBack(request[h].w)
  /\ Ends(h)
  /\ UNCHANGED <<withdrawal, paidIn, topup, milestone, engagement, subscription>>
CommitCancel(h) ==
  /\ request[h].op = "cancel" /\ ~ Locked(h, request[h].w)
  /\ Marked(request[h].w, "CANCELLED")
  /\ CreditBack(request[h].w)
  /\ Ends(h)
  /\ UNCHANGED <<paidIn, topup, milestone, engagement, subscription>>

CommitFail(h) ==
  /\ request[h].op = "fail" /\ ~ Locked(h, request[h].w)
  /\ Marked(request[h].w, "FAILED")
  /\ CreditBack(request[h].w)
  /\ Ends(h)
  /\ UNCHANGED <<paidIn, topup, milestone, engagement, subscription>>

(* Completing a manual withdrawal is a single update.  That of a milestone *)
(* updates the request and the milestone, counts the unreleased ones, and  *)
(* may close the engagement.                                               *)
CommitManual(h) ==
  /\ request[h].op = "complete" /\ ~ Locked(h, request[h].w)
  /\ withdrawal[request[h].w].m = Manual
  /\ Marked(request[h].w, "COMPLETED")
  /\ Ends(h)
  /\ UNCHANGED <<wallet, milestone, engagement, subscription>>

AllReleased(m)    == \A n \in Milestone : milestone[n] = "RELEASED"
OthersReleased(m) == \A n \in Milestone \ {m} : milestone[n] = "RELEASED"

CountUnreleased(h) ==
  /\ request[h].op = "complete" /\ ~ Locked(h, request[h].w)
  /\ LET m == withdrawal[request[h].w].m IN
       /\ m # Manual
       /\ Becomes(h, [op |-> "released", w |-> request[h].w, last |-> OthersReleased(m)])
  /\ UNCHANGED <<wallet, withdrawal, milestone, engagement, subscription>>

CloseIfLast(h) == engagement' = IF request[h].last THEN "CLOSED" ELSE engagement

CommitRelease(h) ==
  /\ request[h].op = "released"
  /\ Marked(request[h].w, "COMPLETED")
  /\ LET m == withdrawal[request[h].w].m IN
       IF milestone[m] = "APPROVED"
       THEN milestone' = [milestone EXCEPT ![m] = "RELEASED"] /\ CloseIfLast(h)
       ELSE UNCHANGED <<milestone, engagement>>
  /\ Ends(h)
  /\ UNCHANGED <<wallet, subscription>>

-----------------------------------------------------------------------------
(* SubscriptionService.activateSubscription: whether the last one still    *)
(* runs is read with the user, the balance by the transaction.             *)
BeginSubscribe(h, price) ==
  /\ ~ pro
  /\ Starts(h, [op |-> "subscribe", price |-> price])
  /\ UNCHANGED <<wallet, withdrawal, milestone, engagement, subscription>>

CheckBalance(h) ==
  /\ request[h].op = "subscribe"
  /\ Sufficient(request[h].price)
  /\ Becomes(h, [request[h] EXCEPT !.op = "charge"])
  /\ UNCHANGED <<wallet, withdrawal, milestone, engagement, subscription>>

CommitSubscribeUnrecorded(h) ==
  /\ request[h].op = "charge"
  /\ Len(charged) < MaxPeriods
  /\ balance' = balance - request[h].price
  /\ charged' = Append(charged, request[h].price)
  /\ Ends(h)
  /\ UNCHANGED <<paidIn, topup, withdrawal, refunds, milestone, engagement, pro, lapsed>>

CommitSubscribe(h) ==
  /\ request[h].op = "charge"
  /\ Len(charged) < MaxPeriods
  /\ balance' = balance - request[h].price
  /\ charged' = Append(charged, request[h].price)
  /\ pro' = TRUE
  /\ Ends(h)
  /\ UNCHANGED <<paidIn, topup, withdrawal, refunds, milestone, engagement, lapsed>>

(* sub_expert_expires_at passes.                                           *)
Lapse ==
  /\ pro
  /\ pro' = FALSE /\ lapsed' = lapsed + 1
  /\ UNCHANGED <<wallet, withdrawal, milestone, engagement, charged, overlapped, request>>

(* The database aborts the transaction, or the process dies; the bank may  *)
(* deliver an IPN again.                                                   *)
Stop(h) ==
  /\ request[h] # Idle
  /\ Ends(h)
  /\ UNCHANGED <<wallet, withdrawal, milestone, engagement, subscription>>

-----------------------------------------------------------------------------
Serve(h) ==
  \/ \E p \in Payment, amount \in Amounts : BeginTopup(h, p, amount)
  \/ CommitTopup(h)
  \/ \E amount \in Amounts : BeginWithdraw(h, amount)
  \/ CommitWithdraw(h)
  \/ \E w \in Withdrawal : BeginCancel(h, w) \/ BeginFail(h, w) \/ BeginComplete(h, w)
  \/ CommitCancel(h) \/ CommitFail(h) \/ CommitManual(h)
  \/ CountUnreleased(h) \/ CommitRelease(h)
  \/ \E price \in Amounts : BeginSubscribe(h, price)
  \/ CheckBalance(h) \/ CommitSubscribe(h)
  \/ Stop(h)

Next ==
  \/ \E h \in Handler : Serve(h)
  \/ \E m \in Milestone : ApproveLinked(m) \/ ApproveUnlinked(m)
  \/ Lapse

Spec == Init /\ [][Next]_vars

-----------------------------------------------------------------------------
(* Every variable holds a value of its column's type; the deployed schema  *)
(* lets the balance be negative.                                           *)
TypeOK ==
  /\ balance \in Int /\ paidIn \in Nat
  /\ topup \in [Payment -> Nat]
  /\ withdrawal \in [Withdrawal -> {NotMade} \cup
       [status : Status, m : Milestone \cup {Manual}, amount : Amounts \cup {Net}]]
  /\ refunds \in [Withdrawal -> Nat]
  /\ milestone \in [Milestone -> {"SUBMITTED", "APPROVED", "RELEASED"}]
  /\ engagement \in {"ACTIVE", "CLOSED"}
  /\ pro \in BOOLEAN /\ charged \in Seq(Amounts) /\ lapsed \in Nat
  /\ overlapped \in BOOLEAN
  /\ request \in [Handler -> Request]

(* However requests overlap, the balance is what the wallet's rows add up  *)
(* to: each debit, refund and top-up has its row.                          *)
Taken == [w \in Withdrawal |->
  IF Made(w) THEN (1 - refunds[w]) * withdrawal[w].amount ELSE 0]
BooksBalance == balance + SumFunction(charged) = paidIn - SumFunction(Taken)

(* The rest holds as long as requests are served one after the other.      *)

(* The money of a request is in one place: on its way or paid out while it *)
(* is PENDING or COMPLETED, and given back once when it failed or was      *)
(* cancelled.                                                              *)
GivenBackOnce == overlapped \/ \A w \in Withdrawal :
  refunds[w] = IF withdrawal[w].status \in {"FAILED", "CANCELLED"} THEN 1 ELSE 0

(* The expert never withdraws or spends what is not there.                 *)
NeverOverdrawn == overlapped \/ balance >= 0

(* A subscription is charged once for each period: the one that runs and   *)
(* those that have expired.                                                *)
OneChargePerPeriod == overlapped \/ Len(charged) = lapsed + (IF pro THEN 1 ELSE 0)

(* A milestone is released exactly when its payment was confirmed, and an  *)
(* engagement whose milestones are all released is closed.                 *)
ReleasedWhenPaidOut == overlapped \/
  /\ \A m \in Milestone : milestone[m] = "RELEASED" <=>
       \E w \in Withdrawal : withdrawal[w].status = "COMPLETED" /\ withdrawal[w].m = m
  /\ (\A m \in Milestone : milestone[m] = "RELEASED") => engagement = "CLOSED"
=============================================================================
