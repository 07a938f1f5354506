--------------------------- MODULE ReviewScreens ---------------------------
(***************************************************************************)
(* What the pages of the web client offer while a milestone is worked on,  *)
(* reviewed and disputed.  Each page decides from the columns it fetched   *)
(* which buttons it shows; the services decide by guards of their own.     *)
(* The pages are those of the CEO, the tech team, the expert and the       *)
(* admin, for a milestone of a project; what they fetched is up to date.   *)
(***************************************************************************)
EXTENDS MilestoneEscrow

(* "Verify & Approve" and "Request Revision" on the CEO's page: a          *)
(* criterion that was verified, by whomever, counts as signed.             *)
CeoSigned(c) == criterion[c].ceo \/ criterion[c].verified
CeoReviews(c) ==
  /\ milestone[MilestoneOf[c]] = "SUBMITTED"
  /\ JointReview => TechComplete(MilestoneOf[c])
  /\ ~ CeoSigned(c)

(* The same two buttons on the tech team's page.                           *)
TechReviewsLast(c) ==
  /\ milestone[MilestoneOf[c]] = "SUBMITTED"
  /\ JointReview /\ TechComplete(MilestoneOf[c]) /\ ~ criterion[c].tech
TechReviews(c) ==
  /\ milestone[MilestoneOf[c]] = "SUBMITTED"
  /\ JointReview /\ ~ TechComplete(MilestoneOf[c]) /\ ~ criterion[c].tech

(* "File Dispute", for CEO and expert, and the criteria the form lists.    *)
DisputableAny(c) == milestone[MilestoneOf[c]] \in {"SUBMITTED", "IN_REVISION"}
Disputable(c) ==
  milestone[MilestoneOf[c]] \in {"SUBMITTED", "IN_REVISION"} /\ ~ criterion[c].verified

(* The expert's form to deliver, and "Retract Submission".                 *)
Deliverable(m) == milestone[m] \in {"FUNDED", "IN_PROGRESS", "IN_REVISION"}
Retractable(m) == milestone[m] = "SUBMITTED" /\ submissions[m] > 0

(* The three decisions of the admin on a dispute.                          *)
Decidable(d) == dispute[d].state = "MANUAL_REVIEW"

-----------------------------------------------------------------------------
AtRest == \A h \in Handler : request[h] = Idle

(* What a page offers, on data that is up to date, no service refuses: the *)
(* conditions of the pages imply the guards of the services, in every      *)
(* state that requests served one at a time lead to.                       *)
OfferedIsAccepted == AtRest =>
  /\ \A c \in Criterion :
       /\ CeoReviews(c) => MayCeoVerify(c) /\ MayRevise(c)
       /\ TechReviews(c) => MayTechVerify(c) /\ MayRevise(c)
       /\ Disputable(c) => MayFile(c)
  /\ \A m \in Milestone :
       /\ Deliverable(m) => MaySubmit(m)
       /\ Retractable(m) => MayRetract(m)
  /\ \A d \in Dispute : Decidable(d) => IsOpen(d)

(* Some page always offers the step that brings unsettled money nearer to  *)
(* its end, filing a dispute not counted, but in two cases: a dispute whose *)
(* evaluation failed is shown to the admin without a decision to take, and *)
(* a criterion won in a dispute is shown to the CEO as signed, while the   *)
(* service waits for his signature on it.  A contract's milestone has a    *)
(* required criterion (bid-negotiation.ts:206); one a client wrote by hand *)
(* without any is approved at the first signature, if it has a criterion.  *)
Unanswered(m) == \E d \in OpenDisputes(m) : dispute[d].state = "LAYER_1_EVAL"
Awarded(m)    == milestone[m] = "SUBMITTED"
                   /\ \E c \in RequiredOf(m) : criterion[c].verified /\ ~ criterion[c].ceo
SomebodyCanAct == AtRest =>
  \A m \in Milestone : escrow[m] \in {"HELD", "FROZEN"} /\ RequiredOf(m) # {} =>
    \/ Deliverable(m)
    \/ \E c \in RequiredOf(m) : CeoReviews(c) \/ TechReviews(c)
    \/ \E d \in OpenDisputes(m) : Decidable(d)
    \/ Unanswered(m) \/ Awarded(m)
=============================================================================
