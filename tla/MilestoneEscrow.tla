-------------------------- MODULE MilestoneEscrow --------------------------
(***************************************************************************)
(* The life of a funded milestone in the AITasker backend: delivery,       *)
(* two-stage review, revision, dispute, AI or admin resolution, and the    *)
(* release, refund or split of the escrow that pays for it.                *)
(*                                                                         *)
(* A handler is one HTTP request being served.  Every service method reads *)
(* what its guards need in one step, outside any transaction, and writes   *)
(* in a later one, so a request is two or more steps and other requests    *)
(* may run between them.  A transaction runs at READ COMMITTED: it is one  *)
(* step, except where it reads rows it does not lock before it writes; it  *)
(* is then two, the rows written before the reads being locked in between. *)
(* RowLocks extends it with the order in which a transaction takes its row *)
(* locks.  With one handler, requests are served one after the other.      *)
(***************************************************************************)
EXTENDS Integers, FiniteSets, LedgerArithmetic

CONSTANTS
  Milestone,       \* the milestones of one engagement
  Criterion,       \* acceptance criteria
  Dispute,         \* ids of dispute rows; bounds how many are ever filed
  Handler,         \* requests that can be in progress at a time
  MilestoneOf,     \* the milestone of a criterion
  Required,        \* the criteria with is_required = true
  JointReview,     \* sign_off_authority is JOINT (else CEO)
  Amount,          \* payment_amount_vnd of a milestone
  FeeNum, FeeDen,  \* platform_fee_pct = FeeNum / FeeDen
  MaxSubmissions   \* bound on the deliverables a milestone holds at once

ASSUME ConstantsOK ==
  /\ MilestoneOf \in [Criterion -> Milestone]
  /\ Required \subseteq Criterion
  /\ JointReview \in BOOLEAN
  /\ Amount \in [Milestone -> Nat \ {0}]
  /\ FeeNum \in Nat /\ FeeDen \in Nat \ {0} /\ FeeNum <= FeeDen
  /\ MaxSubmissions \in Nat

VARIABLES
  milestone,    \* milestones.state
  submissions,  \* number of milestone_submissions rows
  criterion,    \* tech_verified_at, ceo_verified_at, verified_at: set or not
  escrow,       \* escrow_accounts.status
  dispute,      \* disputes: state and the criterion disputed
  wallet,       \* what the milestone's payment has put into each balance
  ledger,       \* wallet_transactions of the milestone, summed by kind
  engagement,   \* engagements.state
  request       \* what each handler is doing and what it has read

money == <<escrow, wallet, ledger>>
vars  == <<milestone, submissions, criterion, escrow, dispute, wallet, ledger,
           engagement, request>>

-----------------------------------------------------------------------------
MilestoneState  == {"FUNDED", "IN_PROGRESS", "SUBMITTED", "IN_REVISION",
                    "DISPUTED", "APPROVED"}
EscrowStatus    == {"HELD", "FROZEN", "RELEASED", "REFUNDED", "SPLIT"}
OpenState       == {"LAYER_1_EVAL", "MANUAL_REVIEW"}
ClosedState     == {"RESOLVED", "AUTO_RESOLVED"}
Decision        == {"EXPERT_WINS", "CLIENT_WINS", "SPLIT"}
Source          == {"AI", "ADMIN"}

(* Kinds of wallet_transactions: on the client's wallet, escrow_lock,      *)
(* escrow_release, refund and the client's part of a split; on the         *)
(* expert's, what was earned, the expert's part and a withdrawal; on the   *)
(* platform's, the fee.                                                    *)
Kind == {"lock", "release", "refund", "splitClient",
         "earned", "splitExpert", "withdrawal", "fee"}

NoDispute == [state |-> "NONE"]
Unreviewed == [tech |-> FALSE, ceo |-> FALSE, verified |-> FALSE]

Idle == [op |-> "idle"]
Request ==
       {Idle}
  \cup [op : {"submit", "retract"}, m : Milestone]
  \cup [op : {"techVerify", "ceoVerify", "revise", "file"}, c : Criterion]
  \cup [op : {"ceoCounted"}, c : Criterion, complete : BOOLEAN, last : BOOLEAN]
  \cup [op : {"evaluate"}, d : Dispute]
  \cup [op : {"resolve"}, d : Dispute, source : Source, decision : Decision]
  \cup [op : {"award"}, d : Dispute, source : Source, complete : BOOLEAN]
  \cup [op : {"refund", "split"}, d : Dispute, source : Source]

RequiredOf(m) == {c \in Required : MilestoneOf[c] = m}

DisputedMilestone(d) == MilestoneOf[dispute[d].criterion]

IsFiled(d) == dispute[d] # NoDispute
IsOpen(d)  == dispute[d].state \in OpenState

OpenDisputes(m) == {d \in Dispute : IsOpen(d) /\ DisputedMilestone(d) = m}

TechComplete(m) == \A c \in RequiredOf(m) : criterion[c].tech

OthersDelivered(m) == \A n \in Milestone \ {m} : milestone[n] \in {"SUBMITTED", "APPROVED"}
OthersApproved(m)  == \A n \in Milestone \ {m} : milestone[n] = "APPROVED"

(* Row locks held between the two steps of a transaction.                  *)
CriterionLocked(h, c) == \E g \in Handler \ {h} :
  \/ request[g].op = "ceoCounted" /\ request[g].c = c
  \/ request[g].op = "award" /\ dispute[request[g].d].criterion = c

EscrowLocked(h, m) == \E g \in Handler \ {h} :
  request[g].op = "award" /\ DisputedMilestone(request[g].d) = m

Starts(h, r)  == request[h] = Idle /\ request' = [request EXCEPT ![h] = r]
Becomes(h, r) == request' = [request EXCEPT ![h] = r]
Ends(h)       == Becomes(h, Idle)

-----------------------------------------------------------------------------
Init ==
  /\ milestone \in [Milestone -> {"FUNDED", "IN_PROGRESS"}]
  /\ submissions = [m \in Milestone |-> 0]
  /\ criterion = [c \in Criterion |-> Unreviewed]
  /\ escrow = [m \in Milestone |-> "HELD"]
  /\ dispute = [d \in Dispute |-> NoDispute]
  /\ wallet = [m \in Milestone |->
       [locked |-> Amount[m], client |-> 0, expert |-> 0, platform |-> 0, outbound |-> 0]]
  /\ ledger = [m \in Milestone |-> [k \in Kind |-> IF k = "lock" THEN Amount[m] ELSE 0]]
  /\ engagement = "ACTIVE"
  /\ request = [h \in Handler |-> Idle]

-----------------------------------------------------------------------------
(* SubmissionsService.submitMilestones and retractSubmission.  The DoD     *)
(* gate can only refuse a submission.                                     *)
MaySubmit(m) == milestone[m] \in {"FUNDED", "IN_PROGRESS", "IN_REVISION"}

BeginSubmit(h, m) ==
  /\ MaySubmit(m)
  /\ submissions[m] < MaxSubmissions
  /\ Starts(h, [op |-> "submit", m |-> m])
  /\ UNCHANGED <<milestone, submissions, criterion, dispute, engagement, money>>

CommitSubmit(h) ==
  /\ request[h].op = "submit"
  /\ LET m == request[h].m IN
       /\ submissions' = [submissions EXCEPT ![m] = @ + 1]
       /\ milestone' = [milestone EXCEPT ![m] = "SUBMITTED"]
  /\ Ends(h)
  /\ UNCHANGED <<criterion, dispute, engagement, money>>

MayRetract(m) == milestone[m] = "SUBMITTED"

BeginRetract(h, m) ==
  /\ MayRetract(m)
  /\ Starts(h, [op |-> "retract", m |-> m])
  /\ UNCHANGED <<milestone, submissions, criterion, dispute, engagement, money>>

CommitRetract(h) ==
  /\ request[h].op = "retract"
  /\ LET m == request[h].m IN
       /\ submissions' = [submissions EXCEPT ![m] = IF @ > 0 THEN @ - 1 ELSE @]
       /\ milestone' = [milestone EXCEPT ![m] = "IN_PROGRESS"]
  /\ Ends(h)
  /\ UNCHANGED <<criterion, dispute, engagement, money>>

-----------------------------------------------------------------------------
(* LedgerService: the three ways an escrow is settled.  Pay moves the      *)
(* amount out of the locked balance, Book writes the wallet_transactions.  *)
Pay(m, client, expert, platform, outbound) ==
  wallet' = [wallet EXCEPT ![m] =
    [locked |-> @.locked - Amount[m], client |-> @.client + client,
     expert |-> @.expert + expert, platform |-> @.platform + platform,
     outbound |-> @.outbound + outbound]]

Book(m, rows) == ledger' = [ledger EXCEPT ![m] =
  [k \in Kind |-> IF k \in DOMAIN rows THEN ledger[m][k] + rows[k] ELSE ledger[m][k]]]

SettleOnly(m, status) ==
  escrow' = [escrow EXCEPT ![m] = status] /\ UNCHANGED milestone
Settle(m, status) ==
  /\ escrow' = [escrow EXCEPT ![m] = status]
  /\ milestone' = [milestone EXCEPT ![m] = "APPROVED"]

Fee(m) == PlatformFee(Amount[m], FeeNum, FeeDen)
Net(m) == ExpertNet(Amount[m], FeeNum, FeeDen)

(* linked: the expert has a bank account linked, so the net amount goes    *)
(* straight into a MILESTONE_RELEASE withdrawal request.                   *)
ReleaseUnbooked(m) == \E linked \in BOOLEAN :
  /\ Pay(m, 0, IF linked THEN 0 ELSE Net(m), Fee(m), IF linked THEN Net(m) ELSE 0)
  /\ Book(m, [release |-> Amount[m], fee |-> Fee(m), earned |-> Net(m)])
  /\ Settle(m, "RELEASED")
Release(m) == \E linked \in BOOLEAN :
  LET out == IF linked THEN Net(m) ELSE 0 IN
    /\ Pay(m, 0, Net(m) - out, Fee(m), out)
    /\ Book(m, [release |-> Amount[m], fee |-> Fee(m), earned |-> Net(m), withdrawal |-> out])
    /\ Settle(m, "RELEASED")

RefundLessFee(m) ==
  /\ Pay(m, Net(m), 0, 0, 0)
  /\ Book(m, [refund |-> Net(m)])
  /\ Settle(m, "REFUNDED")
Refund(m) ==
  /\ Pay(m, Amount[m], 0, 0, 0)
  /\ Book(m, [refund |-> Amount[m]])
  /\ Settle(m, "REFUNDED")

SplitSwapped(m) ==
  /\ Pay(m, ExpertHalf(Amount[m]), ClientHalf(Amount[m]), 0, 0)
  /\ Book(m, [splitClient |-> ExpertHalf(Amount[m]), splitExpert |-> ClientHalf(Amount[m])])
  /\ Settle(m, "SPLIT")
Split(m) ==
  /\ Pay(m, ClientHalf(Amount[m]), ExpertHalf(Amount[m]), 0, 0)
  /\ Book(m, [splitClient |-> ClientHalf(Amount[m]), splitExpert |-> ExpertHalf(Amount[m])])
  /\ Settle(m, "SPLIT")

-----------------------------------------------------------------------------
(* CriteriaService.verify and requestRevision.                             *)
MayTechVerify(c) ==
  /\ milestone[MilestoneOf[c]] = "SUBMITTED"
  /\ JointReview /\ ~ criterion[c].tech

BeginTechVerify(h, c) ==
  /\ MayTechVerify(c)
  /\ Starts(h, [op |-> "techVerify", c |-> c])
  /\ UNCHANGED <<milestone, submissions, criterion, dispute, engagement, money>>

CommitTechVerify(h) ==
  /\ request[h].op = "techVerify" /\ ~ CriterionLocked(h, request[h].c)
  /\ criterion' = [criterion EXCEPT ![request[h].c].tech = TRUE]
  /\ Ends(h)
  /\ UNCHANGED <<milestone, submissions, dispute, engagement, money>>

MayCeoVerify(c) ==
  /\ milestone[MilestoneOf[c]] = "SUBMITTED"
  /\ JointReview => TechComplete(MilestoneOf[c])
  /\ ~ criterion[c].ceo

BeginCeoVerify(h, c) ==
  /\ MayCeoVerify(c)
  /\ Starts(h, [op |-> "ceoVerify", c |-> c])
  /\ UNCHANGED <<milestone, submissions, criterion, dispute, engagement, money>>

(* The transaction has updated its criterion and counts the others, and    *)
(* whether this is the engagement's last unapproved milestone.             *)
CountSignOffs(h) ==
  /\ request[h].op = "ceoVerify"
  /\ LET c == request[h].c
         m == MilestoneOf[c] IN
       /\ ~ CriterionLocked(h, c)
       /\ Becomes(h, [op |-> "ceoCounted", c |-> c,
            complete |-> \A k \in RequiredOf(m) \ {c} : criterion[k].ceo,
            last |-> OthersApproved(m)])
  /\ UNCHANGED <<milestone, submissions, criterion, dispute, engagement, money>>

ApprovesEarly(h) ==
  LET m == MilestoneOf[request[h].c] IN
    OpenDisputes(m) = {} /\ milestone[m] = "SUBMITTED"
Approves(h) ==
  LET m == MilestoneOf[request[h].c] IN
    request[h].complete /\ OpenDisputes(m) = {} /\ milestone[m] = "SUBMITTED"

SignOff(c) == criterion' = [criterion EXCEPT ![c].ceo = TRUE, ![c].verified = TRUE]

CommitPartialSignOff(h) ==
  /\ request[h].op = "ceoCounted" /\ ~ Approves(h)
  /\ SignOff(request[h].c)
  /\ Ends(h)
  /\ UNCHANGED <<milestone, submissions, dispute, engagement, money>>

CommitFinalSignOff(h) ==
  /\ request[h].op = "ceoCounted" /\ Approves(h)
  /\ escrow[MilestoneOf[request[h].c]] = "HELD"
  /\ ~ EscrowLocked(h, MilestoneOf[request[h].c])
  /\ SignOff(request[h].c)
  /\ Release(MilestoneOf[request[h].c])
  /\ engagement' = IF request[h].last THEN "CLOSED" ELSE engagement
  /\ Ends(h)
  /\ UNCHANGED <<submissions, dispute>>

(* Asked by the tech team for a criterion it has not signed, or by the CEO *)
(* once the tech team has signed them all.                                 *)
MayRevise(c) ==
  /\ milestone[MilestoneOf[c]] = "SUBMITTED"
  /\ \/ JointReview /\ ~ criterion[c].tech
     \/ JointReview => TechComplete(MilestoneOf[c])

BeginRevise(h, c) ==
  /\ MayRevise(c)
  /\ Starts(h, [op |-> "revise", c |-> c])
  /\ UNCHANGED <<milestone, submissions, criterion, dispute, engagement, money>>

CommitRevise(h) ==
  /\ request[h].op = "revise" /\ ~ CriterionLocked(h, request[h].c)
  /\ LET c == request[h].c IN
       /\ criterion' = [criterion EXCEPT ![c] = Unreviewed]
       /\ milestone' = [milestone EXCEPT ![MilestoneOf[c]] = "IN_REVISION"]
  /\ Ends(h)
  /\ UNCHANGED <<submissions, dispute, engagement, money>>

-----------------------------------------------------------------------------
(* DisputesService.create: file, then wait for the AI evaluation.          *)
MayFile(c) ==
  /\ ~ criterion[c].verified
  /\ milestone[MilestoneOf[c]] \in {"SUBMITTED", "IN_REVISION"}
  /\ escrow[MilestoneOf[c]] = "HELD"

BeginFile(h, c) ==
  /\ MayFile(c)
  /\ Cardinality({d \in Dispute : ~ IsFiled(d)})
       > Cardinality({g \in Handler : request[g].op = "file"})
  /\ Starts(h, [op |-> "file", c |-> c])
  /\ UNCHANGED <<milestone, submissions, criterion, dispute, engagement, money>>

CommitFile(h) ==
  /\ request[h].op = "file"
  /\ LET c == request[h].c
         m == MilestoneOf[c] IN
       /\ ~ EscrowLocked(h, m)
       /\ \E d \in Dispute :
            /\ ~ IsFiled(d)
            /\ dispute' = [dispute EXCEPT ![d] = [state |-> "LAYER_1_EVAL", criterion |-> c]]
            /\ Becomes(h, [op |-> "evaluate", d |-> d])
       /\ escrow' = [escrow EXCEPT ![m] = "FROZEN"]
       /\ milestone' = [milestone EXCEPT ![m] = "DISPUTED"]
  /\ UNCHANGED <<submissions, criterion, wallet, ledger, engagement>>

(* confidence_score >= 0.8: applyResolution re-reads the dispute's state.  *)
EvaluationConfident(h, decision) ==
  /\ request[h].op = "evaluate"
  /\ IsOpen(request[h].d)
  /\ Becomes(h, [op |-> "resolve", d |-> request[h].d, source |-> "AI",
                 decision |-> decision])
  /\ UNCHANGED <<milestone, submissions, criterion, dispute, engagement, money>>

(* Below the threshold the dispute is handed to the admin, unconditionally. *)
EvaluationUnsure(h) ==
  /\ request[h].op = "evaluate"
  /\ dispute' = [dispute EXCEPT ![request[h].d].state = "MANUAL_REVIEW"]
  /\ Ends(h)
  /\ UNCHANGED <<milestone, submissions, criterion, engagement, money>>

(* AdminService.resolveDispute: the state is read before the transaction.  *)
BeginResolve(h, d, decision) ==
  /\ IsOpen(d)
  /\ Starts(h, [op |-> "resolve", d |-> d, source |-> "ADMIN", decision |-> decision])
  /\ UNCHANGED <<milestone, submissions, criterion, dispute, engagement, money>>

(* applyResolution, EXPERT_WINS: the criterion and the escrow are written, *)
(* then the unverified criteria and the other open disputes are counted.   *)
CountForExpert(h) ==
  /\ request[h].op = "resolve" /\ request[h].decision = "EXPERT_WINS"
  /\ LET d == request[h].d
         c == dispute[d].criterion
         m == MilestoneOf[c] IN
       /\ ~ CriterionLocked(h, c) /\ ~ EscrowLocked(h, m)
       /\ Becomes(h, [op |-> "award", d |-> d, source |-> request[h].source,
            complete |-> /\ \A k \in RequiredOf(m) \ {c} : criterion[k].verified
                         /\ OpenDisputes(m) \subseteq {d}])
  /\ UNCHANGED <<milestone, submissions, criterion, dispute, engagement, money>>

(* CLIENT_WINS and SPLIT: the escrow is read, and must be FROZEN.          *)
ReadFrozen(h) ==
  /\ request[h].op = "resolve" /\ request[h].decision # "EXPERT_WINS"
  /\ escrow[DisputedMilestone(request[h].d)] = "FROZEN"
  /\ Becomes(h, [op |-> IF request[h].decision = "SPLIT" THEN "split" ELSE "refund",
                 d |-> request[h].d, source |-> request[h].source])
  /\ UNCHANGED <<milestone, submissions, criterion, dispute, engagement, money>>

ResolvedAs(h) ==
  dispute' = [dispute EXCEPT ![request[h].d].state = request[h].source]
LeftOpen(h) == UNCHANGED dispute
Resolved(h) ==
  dispute' = [dispute EXCEPT ![request[h].d].state =
                IF request[h].source = "ADMIN" THEN "RESOLVED" ELSE "AUTO_RESOLVED"]

AwardCriterion(c) ==
  criterion' = [criterion EXCEPT ![c].verified = TRUE]

CommitAwardAndRelease(h) ==
  /\ request[h].op = "award" /\ request[h].complete
  /\ LET c == dispute[request[h].d].criterion
         m == MilestoneOf[c] IN
       /\ AwardCriterion(c)
       /\ Release(m)
  /\ Resolved(h) /\ Ends(h)
  /\ UNCHANGED <<submissions, engagement>>

CommitAward(h) ==
  /\ request[h].op = "award" /\ ~ request[h].complete
  /\ LET c == dispute[request[h].d].criterion
         m == MilestoneOf[c] IN
       /\ AwardCriterion(c)
       /\ escrow' = [escrow EXCEPT ![m] = "HELD"]
       /\ milestone' = [milestone EXCEPT ![m] = "SUBMITTED"]
  /\ Resolved(h) /\ Ends(h)
  /\ UNCHANGED <<submissions, wallet, ledger, engagement>>

CommitRefund(h) ==
  /\ request[h].op = "refund"
  /\ ~ EscrowLocked(h, DisputedMilestone(request[h].d))
  /\ Refund(DisputedMilestone(request[h].d))
  /\ Resolved(h) /\ Ends(h)
  /\ UNCHANGED <<submissions, criterion, engagement>>

CommitSplit(h) ==
  /\ request[h].op = "split"
  /\ ~ EscrowLocked(h, DisputedMilestone(request[h].d))
  /\ Split(DisputedMilestone(request[h].d))
  /\ Resolved(h) /\ Ends(h)
  /\ UNCHANGED <<submissions, criterion, engagement>>

-----------------------------------------------------------------------------
(* A request stops with no further effect: a guard its later step          *)
(* evaluates fails (the dispute is closed, the escrow not FROZEN or HELD   *)
(* any more) and rolls the transaction back, the AI service does not       *)
(* answer, the database aborts the transaction, or the process dies.       *)
Fail(h) ==
  /\ request[h] # Idle
  /\ Ends(h)
  /\ UNCHANGED <<milestone, submissions, criterion, dispute, engagement, money>>

-----------------------------------------------------------------------------
Start(h) ==
  \/ \E m \in Milestone : BeginSubmit(h, m) \/ BeginRetract(h, m)
  \/ \E c \in Criterion : \/ BeginTechVerify(h, c) \/ BeginCeoVerify(h, c)
                          \/ BeginRevise(h, c) \/ BeginFile(h, c)
  \/ \E d \in Dispute, decision \in Decision : BeginResolve(h, d, decision)

Continue(h) ==
  \/ CommitSubmit(h) \/ CommitRetract(h) \/ CommitTechVerify(h)
  \/ CountSignOffs(h) \/ CommitPartialSignOff(h) \/ CommitFinalSignOff(h)
  \/ CommitRevise(h) \/ CommitFile(h)
  \/ \E decision \in {"EXPERT_WINS", "CLIENT_WINS"} : EvaluationConfident(h, decision)
  \/ EvaluationUnsure(h)
  \/ CountForExpert(h) \/ ReadFrozen(h)
  \/ CommitAwardAndRelease(h) \/ CommitAward(h) \/ CommitRefund(h) \/ CommitSplit(h)

Next == \E h \in Handler : Start(h) \/ Continue(h) \/ Fail(h)

Spec == Init /\ [][Next]_vars

-----------------------------------------------------------------------------
(* Every variable holds a value of its column's type; balances may be      *)
(* negative, the deployed schema does not forbid it.                       *)
TypeOK ==
  /\ milestone \in [Milestone -> MilestoneState]
  /\ submissions \in [Milestone -> Nat]
  /\ criterion \in [Criterion -> [tech : BOOLEAN, ceo : BOOLEAN, verified : BOOLEAN]]
  /\ escrow \in [Milestone -> EscrowStatus]
  /\ dispute \in [Dispute -> {NoDispute}
       \cup [state : OpenState \cup ClosedState, criterion : Criterion]]
  /\ wallet \in [Milestone ->
       [locked : Int, client : Int, expert : Int, platform : Int, outbound : Int]]
  /\ ledger \in [Milestone -> [Kind -> Int]]
  /\ engagement \in {"ACTIVE", "CLOSED"}
  /\ request \in [Handler -> Request]

(* However requests overlap, settling a milestone creates and destroys no  *)
(* money: what the client locked is in the five places it can be.          *)
MoneyConserved == \A m \in Milestone :
  wallet[m].locked + wallet[m].client + wallet[m].expert
    + wallet[m].platform + wallet[m].outbound = Amount[m]

(* The locked money that the rows of the client's own wallet still show.   *)
LockedByRows(l) == l.lock - l.release - l.refund - l.splitClient

(* However requests overlap, each balance is what the rows of its own      *)
(* wallet say.  A split is the exception: the whole escrow leaves the      *)
(* locked balance, of which the client's wallet records the client's half, *)
(* so its rows show the expert's half as locked still.  The error is       *)
(* exactly what was booked on the expert's wallet, and 0 without a split.  *)
BooksBalance == \A m \in Milestone :
  LET w == wallet[m]
      l == ledger[m] IN
    /\ w.client = l.refund + l.splitClient
    /\ w.expert = l.earned + l.splitExpert - l.withdrawal
    /\ w.platform = l.fee
    /\ w.outbound = l.withdrawal
    /\ LockedByRows(l) - w.locked = l.splitExpert

(* An escrow is frozen exactly while its milestone is DISPUTED, which is   *)
(* exactly while one open dispute, and no second one, waits for a decision. *)
FrozenWhileDisputed == \A m \in Milestone :
  /\ escrow[m] = "FROZEN" <=> milestone[m] = "DISPUTED"
  /\ escrow[m] = "FROZEN" <=> OpenDisputes(m) # {}
  /\ \A d, e \in OpenDisputes(m) : d = e

(* A milestone is APPROVED exactly when its escrow has been settled.       *)
ApprovedWhenSettled == \A m \in Milestone :
  milestone[m] = "APPROVED" <=> escrow[m] \in {"RELEASED", "REFUNDED", "SPLIT"}

(* The expert is paid in full only for a milestone all of whose required   *)
(* criteria are accepted: signed off, or awarded by a dispute.             *)
ReleasedWhenAccepted == \A m \in Milestone :
  escrow[m] = "RELEASED" => \A c \in RequiredOf(m) : criterion[c].verified

(* A closed engagement has no escrow left to settle.                       *)
ClosedMeansSettled == engagement = "CLOSED" =>
  \A m \in Milestone : escrow[m] \notin {"HELD", "FROZEN"}

(* The ledger, the disputes and the reviews together keep the promise of   *)
(* AbstractEscrow: each escrow is settled once and pays what it should.    *)
Outcome == [m \in Milestone |->
  IF escrow[m] \in {"HELD", "FROZEN"} THEN "held" ELSE escrow[m]]
Paid == [m \in Milestone |->
  [client   |-> wallet[m].client,
   expert   |-> wallet[m].expert + wallet[m].outbound,
   platform |-> wallet[m].platform]]
Promise == INSTANCE AbstractEscrow WITH outcome <- Outcome, paid <- Paid
PromiseKept == Promise!Spec
=============================================================================
