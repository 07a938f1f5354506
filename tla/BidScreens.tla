----------------------------- MODULE BidScreens -----------------------------
(***************************************************************************)
(* What the pages of the web client offer while a bid is negotiated: those *)
(* of the CEO, the expert and the tech team, and the expert's list of      *)
(* projects, which leads to his.  Each decides from the fields that        *)
(* toBidResponse and withContractFlags derive; what it fetched is up to    *)
(* date.                                                                   *)
(***************************************************************************)
EXTENDS Bidding

(* "Accept offer", "Decline" and "Counter" (canAct).  The bid must have an *)
(* offer to show, or the page it leads to says there is none.              *)
Decides(b, role) ==
  /\ envelope[b] # NoEnvelope
  /\ NextActionBy(b) = role
  /\ envelope[b].review # "REVISION_REQUESTED"

(* "Revise technical terms" (canRevise).                                   *)
RevisesAny(b, role) ==
  envelope[b] # NoEnvelope /\ envelope[b].state = "PENDING"
    /\ envelope[b].review = "REVISION_REQUESTED"
Revises(b, role) ==
  /\ envelope[b] # NoEnvelope
  /\ NextActionBy(b) = role
  /\ envelope[b].review = "REVISION_REQUESTED"
  /\ envelope[b].proposer = role

(* "Approve Bid" and "Request Revision" of the tech team, which a project  *)
(* reviewed by its own CEO does not have (canReview).                      *)
ReviewsScopeOnce(b) ==
  ~ SelfTechnical /\ Made(b) /\ bid[b].state = "SUBMITTED" /\ bid[b].tech = "PENDING"
ReviewsScope(b) ==
  /\ ~ SelfTechnical /\ Made(b)
  /\ bid[b].state \notin {"DECLINED", "WITHDRAWN"}
  /\ bid[b].tech = "PENDING"

(* "Withdraw Bid" (canWithdraw).                                           *)
Withdraws(b) == Made(b) /\ bid[b].state \in {"SUBMITTED", "TECH_REVIEW"}

(* "Sign NDA": the expert signs after the CEO.  What it shows once the     *)
(* engagement is no longer pending is left out.                            *)
SignsNda(b, role) ==
  /\ Accepted(b) /\ engagement[b].state = "PENDING"
  /\ role \notin engagement[b].signed
  /\ role = "EXPERT" => "CEO" \in engagement[b].signed

(* What the expert's list of projects makes of a bid: the button it shows. *)
Listed(b) ==
  IF \/ engagement[b].state \in {"DECLINED", "CANCELLED"}
     \/ bid[b].state \in {"DECLINED", "WITHDRAWN"} THEN "DECLINED"
  ELSE IF engagement[b].state # "PENDING" THEN "IN_PROGRESS"
  ELSE IF Accepted(b) THEN "NDA_PENDING"
  ELSE IF bid[b].tech = "REVISION_REQUESTED" \/ Decides(b, "EXPERT") THEN "COUNTER_OFFER"
  ELSE "BID_SENT"

-----------------------------------------------------------------------------
AtRest == \A h \in Handler : request[h] = Idle

(* A negotiation that can still end in a contract.  The pages do not look  *)
(* at the engagement, which either party may have left, nor at milestones  *)
(* created before the terms were accepted, which acceptance refuses.       *)
Negotiable(b) ==
  /\ envelope[b] # NoEnvelope /\ bid[b].state \notin Closed
  /\ engagement[b].state = "PENDING" /\ milestones[b] = NoRows

(* What a page offers, on data that is up to date, no service refuses, in  *)
(* a negotiation that can still end in a contract, and up to its NDA.      *)
ShownStepsAccepted == AtRest => \A b \in Bid :
  /\ Negotiable(b) =>
       /\ \A role \in Role :
            /\ Decides(b, role) => MayAccept(b, role) /\ MayDecline(b, role)
            /\ Decides(b, role) \/ Revises(b, role) => MayCounter(b, role)
       /\ ReviewsScope(b) => MayReview(b)
       /\ Withdraws(b) => MayWithdraw(b)
  /\ \A role \in Role : SignsNda(b, role) => MaySign(b, role)

(* Some page always offers the step that brings a negotiation nearer to a  *)
(* contract, or a contract nearer to its NDA; when that step is the        *)
(* expert's, his list leads him to the page.                               *)
NegotiationMovesOn == AtRest => \A b \in Bid :
  /\ Negotiable(b) =>
       \/ ReviewsScope(b)
       \/ Decides(b, "CEO") \/ Revises(b, "CEO")
       \/ (Decides(b, "EXPERT") \/ Revises(b, "EXPERT")) /\ Listed(b) = "COUNTER_OFFER"
  /\ bid[b].state = "SELECTED" /\ envelope[b] # NoEnvelope /\ engagement[b].state = "PENDING" =>
       SignsNda(b, "CEO") \/ (SignsNda(b, "EXPERT") /\ Listed(b) = "NDA_PENDING")
=============================================================================
