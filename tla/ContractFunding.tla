-------------------------- MODULE ContractFunding --------------------------
(***************************************************************************)
(* From accepted terms to work: the NDA signatures that connect a project  *)
(* engagement, the virtual accounts (VA) a client pays its milestones      *)
(* into, the payment notifications (IPN) of the bank, and cancellation.    *)
(*                                                                         *)
(* Handlers are requests, as in MilestoneEscrow: what the guards need is   *)
(* read in one step and written in a later one.  The bank delivers the IPN *)
(* of a transfer late, again, or several times at once.                    *)
(***************************************************************************)
EXTENDS Integers, FiniteSets
LOCAL INSTANCE Functions

CONSTANTS
  Milestone,   \* the milestones of one engagement, its terms accepted
  VA,          \* ids of virtual_accounts rows; bounds how many are issued
  Payment,     \* reference codes of bank transfers
  Handler,     \* requests that can be in progress at a time
  NoVA         \* the null of milestones.va_number

ASSUME ConstantsOK == NoVA \notin VA /\ IsFiniteSet(Payment)

VARIABLES
  engagement,  \* engagements.state
  signed,      \* the parties whose *_nda_accepted_at is set
  milestone,   \* milestones.state
  current,     \* milestones.va_number
  va,          \* virtual_accounts: status, milestone, and expires_at < now()
  transfer,    \* at the bank: the VA a transfer names, and if it pays it exactly
  credits,     \* number of TOP_UP wallet_transactions with this reference
  escrows,     \* number of escrow_accounts of a milestone
  document,    \* the release states of a milestone's pay-gated documents
  request      \* what each handler is doing and what it has read

contract == <<engagement, signed>>
funds    == <<credits, escrows>>
vars     == <<engagement, signed, milestone, current, va, transfer, credits,
              escrows, document, request>>

-----------------------------------------------------------------------------
Party           == {"client", "expert"}
EngagementState == {"PENDING", "CONNECTED", "ACTIVE", "DECLINED", "CANCELLED"}
MilestoneState  == {"DEFINED", "AWAITING_PAYMENT", "IN_PROGRESS"}
VAStatus        == {"ACTIVE", "EXPIRED", "USED"}
ReleaseState    == {"STAGED", "RELEASED"}

Unissued   == [status |-> "NONE"]
NoTransfer == [va |-> NoVA]
Idle       == [op |-> "idle"]
Request ==
       {Idle}
  \cup [op : {"sign"}, party : Party]
  \cup [op : {"decline", "cancel"}]
  \cup [op : {"fund"}, m : Milestone]
  \cup [op : {"renew"}, m : Milestone, stale : VA, status : VAStatus]
  \cup [op : {"expire"}, v : VA]
  \cup [op : {"notify", "credit"}, p : Payment]
  \cup [op : {"stage"}, m : Milestone, as : ReleaseState]

PaidInto(p)  == transfer[p].va
PaidFor(p)   == va[PaidInto(p)].m
Transfers(m) == {p \in Payment : transfer[p] # NoTransfer /\ PaidFor(p) = m}

Starts(h, r)  == request[h] = Idle /\ request' = [request EXCEPT ![h] = r]
Becomes(h, r) == request' = [request EXCEPT ![h] = r]
Ends(h)       == Becomes(h, Idle)

-----------------------------------------------------------------------------
Init ==
  /\ engagement = "PENDING"
  /\ signed = {}
  /\ milestone = [m \in Milestone |-> "DEFINED"]
  /\ current = [m \in Milestone |-> NoVA]
  /\ va = [v \in VA |-> Unissued]
  /\ transfer = [p \in Payment |-> NoTransfer]
  /\ credits = [p \in Payment |-> 0]
  /\ escrows = [m \in Milestone |-> 0]
  /\ document = [m \in Milestone |-> {}]
  /\ request = [h \in Handler |-> Idle]

-----------------------------------------------------------------------------
(* EngagementsService.acceptNda and acceptConnect.  The transaction holds  *)
(* the engagement's row, so CONNECTED is derived from both signatures.     *)
BeginSign(h, party) ==
  /\ engagement = "PENDING" /\ party \notin signed
  /\ Starts(h, [op |-> "sign", party |-> party])
  /\ UNCHANGED <<contract, milestone, current, va, transfer, funds, document>>

CommitSignAlone(h) ==
  /\ request[h].op = "sign"
  /\ signed' = signed \cup {request[h].party}
  /\ engagement' = IF engagement = "PENDING" THEN "CONNECTED" ELSE engagement
  /\ Ends(h)
  /\ UNCHANGED <<milestone, current, va, transfer, funds, document>>
CommitSign(h) ==
  /\ request[h].op = "sign"
  /\ signed' = signed \cup {request[h].party}
  /\ engagement' = IF engagement = "PENDING" /\ signed' = Party
                   THEN "CONNECTED" ELSE engagement
  /\ Ends(h)
  /\ UNCHANGED <<milestone, current, va, transfer, funds, document>>

(* EngagementsService.decline and cancelEngagement.  Only FUNDED, SUBMITTED *)
(* and IN_REVISION milestones stop a cancellation: none of those here.     *)
BeginDecline(h) ==
  /\ engagement = "PENDING"
  /\ Starts(h, [op |-> "decline"])
  /\ UNCHANGED <<contract, milestone, current, va, transfer, funds, document>>

CommitDecline(h) ==
  /\ request[h].op = "decline"
  /\ engagement' = "DECLINED"
  /\ Ends(h)
  /\ UNCHANGED <<signed, milestone, current, va, transfer, funds, document>>

BeginCancel(h) ==
  /\ Starts(h, [op |-> "cancel"])
  /\ UNCHANGED <<contract, milestone, current, va, transfer, funds, document>>

CommitCancel(h) ==
  /\ request[h].op = "cancel"
  /\ engagement' = "CANCELLED"
  /\ Ends(h)
  /\ UNCHANGED <<signed, milestone, current, va, transfer, funds, document>>

-----------------------------------------------------------------------------
(* MilestonesService.initiateFunding, for a DEFINED milestone, and for one  *)
(* whose payment window has closed without a payment.                      *)
Contracted == engagement \in {"CONNECTED", "ACTIVE"} /\ signed = Party

FreshIfUnpaid(m) == milestone[m] # "AWAITING_PAYMENT"
Fresh(m)         == milestone[m] = "DEFINED"

WindowClosed(m) ==
  \/ va[current[m]].status = "EXPIRED"
  \/ va[current[m]].status = "ACTIVE" /\ va[current[m]].elapsed

BeginFund(h, m) ==
  /\ Fresh(m) /\ Contracted
  /\ Starts(h, [op |-> "fund", m |-> m])
  /\ UNCHANGED <<contract, milestone, current, va, transfer, funds, document>>

BeginRenew(h, m) ==
  /\ milestone[m] = "AWAITING_PAYMENT" /\ WindowClosed(m) /\ Contracted
  /\ Starts(h, [op |-> "renew", m |-> m, stale |-> current[m],
                status |-> va[current[m]].status])
  /\ UNCHANGED <<contract, milestone, current, va, transfer, funds, document>>

WithStatus(v, status) == [status |-> status, m |-> va[v].m, elapsed |-> va[v].elapsed]

Issue(v, m, expired) ==
  /\ va[v] = Unissued
  /\ va' = [w \in VA |->
       IF w = v THEN [status |-> "ACTIVE", m |-> m, elapsed |-> FALSE]
       ELSE IF w \in expired THEN WithStatus(w, "EXPIRED") ELSE va[w]]
  /\ milestone' = [milestone EXCEPT ![m] = "AWAITING_PAYMENT"]
  /\ current' = [current EXCEPT ![m] = v]

CommitFund(h) ==
  /\ request[h].op = "fund"
  /\ \E v \in VA : Issue(v, request[h].m, {})
  /\ Ends(h)
  /\ UNCHANGED <<contract, transfer, funds, document>>

(* The stale account is closed if its status is still the one read.        *)
CommitRenewOnly(h) ==
  /\ request[h].op = "renew"
  /\ va[request[h].stale].status = request[h].status
  /\ \E v \in VA : Issue(v, request[h].m, {})
  /\ Ends(h)
  /\ UNCHANGED <<contract, transfer, funds, document>>
CommitRenew(h) ==
  /\ request[h].op = "renew"
  /\ va[request[h].stale].status = request[h].status
  /\ \E v \in VA : Issue(v, request[h].m, {request[h].stale})
  /\ Ends(h)
  /\ UNCHANGED <<contract, transfer, funds, document>>

-----------------------------------------------------------------------------
(* Time, and the client's bank.                                            *)
Elapse(v) ==
  /\ va[v] # Unissued /\ ~ va[v].elapsed
  /\ va' = [va EXCEPT ![v] = [status |-> va[v].status, m |-> va[v].m, elapsed |-> TRUE]]
  /\ UNCHANGED <<contract, milestone, current, transfer, funds, document, request>>

Transfer(p, v, exact) ==
  /\ transfer[p] = NoTransfer /\ va[v] # Unissued
  /\ transfer' = [transfer EXCEPT ![p] = [va |-> v, exact |-> exact]]
  /\ UNCHANGED <<contract, milestone, current, va, funds, document, request>>

(* IpnHandlerService.handleIpn: the VA is looked up, then, in a            *)
(* transaction, the guards are evaluated on what was looked up.            *)
BeginIpn(h, p) ==
  /\ transfer[p] # NoTransfer
  /\ LET v == PaidInto(p) IN
       /\ va[v].status = "ACTIVE"
       /\ \/ va[v].elapsed /\ Starts(h, [op |-> "expire", v |-> v])
          \/ ~ va[v].elapsed /\ transfer[p].exact /\ Starts(h, [op |-> "notify", p |-> p])
  /\ UNCHANGED <<contract, milestone, current, va, transfer, funds, document>>

CommitExpire(h) ==
  /\ request[h].op = "expire"
  /\ va' = [va EXCEPT ![request[h].v] = WithStatus(request[h].v, "EXPIRED")]
  /\ Ends(h)
  /\ UNCHANGED <<contract, milestone, current, transfer, funds, document>>

(* handleMilestoneTopup: no TOP_UP with this reference, milestone unpaid.  *)
CheckIpn(h) ==
  /\ request[h].op = "notify"
  /\ LET p == request[h].p IN
       /\ ~ va[PaidInto(p)].elapsed
       /\ credits[p] = 0
       /\ milestone[PaidFor(p)] = "AWAITING_PAYMENT"
       /\ Becomes(h, [op |-> "credit", p |-> p])
  /\ UNCHANGED <<contract, milestone, current, va, transfer, funds, document>>

(* fundAndLockEscrowWithTx: TOP_UP, ESCROW_LOCK and a new escrow account.  *)
Lock(p) ==
  /\ credits' = [credits EXCEPT ![p] = @ + 1]
  /\ escrows' = [escrows EXCEPT ![PaidFor(p)] = @ + 1]

WorkStarts(m) == milestone' = [milestone EXCEPT ![m] = "IN_PROGRESS"]

OnlyFunded(m)       == \A n \in Milestone \ {m} : milestone[n] # "IN_PROGRESS"

CommitCredit(h) ==
  /\ request[h].op = "credit"
  /\ LET p == request[h].p
         v == PaidInto(p)
         m == PaidFor(p) IN
       /\ Lock(p)
       /\ WorkStarts(m)
       /\ va' = [va EXCEPT ![v] = WithStatus(v, "USED")]
       /\ document' = [document EXCEPT ![m] = {"RELEASED" : s \in @}]
       /\ engagement' = IF OnlyFunded(m) THEN "ACTIVE" ELSE engagement
  /\ Ends(h)
  /\ UNCHANGED <<signed, current, transfer>>

-----------------------------------------------------------------------------
(* SubmissionsService.uploadDocument and uploadBulkDocuments.              *)
StagedBeforeFunding(m) == milestone[m] = "DEFINED"
StagedUntilPaid(m)     == milestone[m] \in {"DEFINED", "AWAITING_PAYMENT"}

BeginStage(h, m) ==
  /\ Starts(h, [op |-> "stage", m |-> m,
                as |-> IF StagedUntilPaid(m) THEN "STAGED" ELSE "RELEASED"])
  /\ UNCHANGED <<contract, milestone, current, va, transfer, funds, document>>

CommitStage(h) ==
  /\ request[h].op = "stage"
  /\ document' = [document EXCEPT ![request[h].m] = @ \cup {request[h].as}]
  /\ Ends(h)
  /\ UNCHANGED <<contract, milestone, current, va, transfer, funds>>

(* A later guard refuses the request, the database aborts its transaction, *)
(* or the process dies; the bank may deliver an IPN again.                 *)
Stop(h) ==
  /\ request[h] # Idle
  /\ Ends(h)
  /\ UNCHANGED <<contract, milestone, current, va, transfer, funds, document>>

-----------------------------------------------------------------------------
Serve(h) ==
  \/ \E party \in Party : BeginSign(h, party)
  \/ CommitSign(h)
  \/ BeginDecline(h) \/ CommitDecline(h) \/ BeginCancel(h) \/ CommitCancel(h)
  \/ \E m \in Milestone : BeginFund(h, m) \/ BeginRenew(h, m) \/ BeginStage(h, m)
  \/ CommitFund(h) \/ CommitRenew(h) \/ CommitStage(h)
  \/ \E p \in Payment : BeginIpn(h, p)
  \/ CommitExpire(h) \/ CheckIpn(h) \/ CommitCredit(h)
  \/ Stop(h)

Next ==
  \/ \E h \in Handler : Serve(h)
  \/ \E v \in VA : Elapse(v)
  \/ \E p \in Payment, v \in VA, exact \in BOOLEAN : Transfer(p, v, exact)

Spec == Init /\ [][Next]_vars

-----------------------------------------------------------------------------
(* Every variable holds a value of its column's type.                      *)
TypeOK ==
  /\ engagement \in EngagementState
  /\ signed \subseteq Party
  /\ milestone \in [Milestone -> MilestoneState]
  /\ current \in [Milestone -> VA \cup {NoVA}]
  /\ va \in [VA -> {Unissued} \cup [status : VAStatus, m : Milestone, elapsed : BOOLEAN]]
  /\ transfer \in [Payment -> {NoTransfer} \cup [va : VA, exact : BOOLEAN]]
  /\ credits \in [Payment -> Nat]
  /\ escrows \in [Milestone -> Nat]
  /\ document \in [Milestone -> SUBSET ReleaseState]
  /\ request \in [Handler -> Request]

(* However requests overlap, an engagement is connected, a milestone can   *)
(* be paid and its work starts only after both parties signed the NDA.     *)
NoWorkWithoutNda ==
  /\ engagement \in {"CONNECTED", "ACTIVE"} => signed = Party
  /\ \A m \in Milestone : milestone[m] # "DEFINED" => signed = Party

(* A milestone is paid exactly once: its work starts with one escrow       *)
(* account, and one that has not started has none.                         *)
PaidExactlyOnce == \A m \in Milestone :
  escrows[m] = IF milestone[m] = "IN_PROGRESS" THEN 1 ELSE 0

(* An account that can be paid into is the one its unpaid milestone shows, *)
(* and what an unpaid milestone shows can be paid into or renewed.         *)
OneWindow ==
  /\ \A v \in VA : va[v].status = "ACTIVE" =>
       milestone[va[v].m] = "AWAITING_PAYMENT" /\ current[va[v].m] = v
  /\ \A m \in Milestone : milestone[m] = "AWAITING_PAYMENT" =>
       va[current[m]].status # "USED"

(* Pay-gated documents are staged until the milestone is paid and released *)
(* from then on.                                                           *)
DocumentsFollowPayment == \A m \in Milestone : \A s \in document[m] :
  s = "RELEASED" <=> milestone[m] = "IN_PROGRESS"

(* So milestones are paid as AbstractPayment promises, if escrow accounts  *)
(* are counted, each for the one amount of its milestone.                  *)
Sent == [p \in Payment |->
  IF transfer[p] = NoTransfer THEN [item |-> "none"]
  ELSE [item |-> PaidFor(p), amount |-> 1, exact |-> transfer[p].exact]]

Promise == INSTANCE AbstractPayment
  WITH Item <- Milestone, Reference <- Payment, Amount <- {1}, sent <- Sent, escrow <- escrows
PaidAsPromised == Promise!Spec

-----------------------------------------------------------------------------
(* What the documents of the repository say and the code does not do.      *)

(* BR-PAY-02: a duplicate of a bank notification is ignored.               *)
CreditedOnce == \A p \in Payment : credits[p] <= 1
=============================================================================
