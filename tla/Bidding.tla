------------------------------ MODULE Bidding ------------------------------
(***************************************************************************)
(* The bids on one published project, from the first offer to the accepted *)
(* contract: offers and counter-offers between the CEO and an expert, the  *)
(* technical review of their scope, acceptance that declines the rivals,   *)
(* and the edits of the milestone framework and of the milestones that     *)
(* accepted terms lock.                                                    *)
(*                                                                         *)
(* Everything that changes an offer runs in a SERIALIZABLE transaction and *)
(* is one step.  Creating and withdrawing a bid and editing terms read     *)
(* first and write later; such a request is two or more steps, kept in     *)
(* request[h].  Who may bid on the project at all is in Recruiting.        *)
(*                                                                         *)
(* Of the terms of an offer only the technical scope is kept.  Open is a   *)
(* scope in which a field the framework may supply is missing.             *)
(***************************************************************************)
EXTENDS Integers, FiniteSets

CONSTANTS
  Bid,            \* ids of capability_bids and of their engagements
  Legacy,         \* the bids written before there were envelopes
  Expert,         \* experts on the project's shortlist
  Handler,        \* requests that can be in progress at a time
  Scope, Open,    \* technical scopes; Open lacks a field
  SelfTechnical,  \* projects.self_technical: no technical review
  MaxVersion      \* bound on the offers made in one bid

ASSUME ConstantsOK ==
  /\ IsFiniteSet(Bid) /\ Legacy \subseteq Bid
  /\ Open \in Scope
  /\ "NONE" \notin Scope \cup Bid
  /\ SelfTechnical \in BOOLEAN
  /\ MaxVersion \in Nat \ {0}

VARIABLES
  framework,    \* projects.milestone_framework_json: a scope and whose terms it mirrors
  bid,          \* capability_bids: expert, state, tech_status, ceo_status, version
  envelope,     \* conditional_pricing_json: current offer and technical review
  engagement,   \* engagements: state and, while PENDING, who signed the NDA
  milestones,   \* scope of the engagement's DEFINED milestones, if any
  approved,     \* history: the scopes the tech team approved in a bid
  request       \* what each handler is doing and what it has read

vars == <<framework, bid, envelope, engagement, milestones, approved, request>>

-----------------------------------------------------------------------------
Role     == {"CEO", "EXPERT"}
BidState == {"SUBMITTED", "TECH_REVIEW", "REVISION_REQUESTED", "SELECTED",
             "DECLINED", "WITHDRAWN"}
Status   == {"PENDING", "APPROVED", "REVISION_REQUESTED"}
Closed   == {"SELECTED", "DECLINED", "WITHDRAWN"}

NoBid      == [state |-> "NONE"]
NoEnvelope == [state |-> "NONE"]
NoRows     == "NONE"
Nobody     == "NONE"
Idle       == [op |-> "idle"]

Envelope == [version : 1..MaxVersion, proposer : Role, recipient : Role,
             state : {"PENDING", "ACCEPTED", "DECLINED"}, scope : Scope,
             scopeVersion : 1..MaxVersion, reviewVersion : 1..MaxVersion, review : Status]

Request ==
       {Idle}
  \cup [op : {"create"}, expert : Expert, scope : Scope]
  \cup [op : {"withdraw"}, b : Bid, envelope : Envelope \cup {NoEnvelope}]
  \cup [op : {"withdrawn", "edit"}, b : Bid]
  \cup [op : {"framework"}, b : Bid \cup {Nobody}]

Made(b)     == bid[b] # NoBid
Accepted(b) == envelope[b].state = "ACCEPTED"
LiveState   == {"PENDING", "CONNECTED", "ACTIVE"}
IsLive(b)   == engagement[b].state \in LiveState
BidsOf(e)   == {b \in Bid : Made(b) /\ bid[b].expert = e}

Starts(h, r)  == request[h] = Idle /\ request' = [request EXCEPT ![h] = r]
Becomes(h, r) == request' = [request EXCEPT ![h] = r]
Ends(h)       == Becomes(h, Idle)

Opposite(role) == IF role = "CEO" THEN "EXPERT" ELSE "CEO"

-----------------------------------------------------------------------------
(* bid-negotiation: normalizeMilestoneTerms takes from the framework what  *)
(* the offer lacks.  (That it refuses another set of milestones is left    *)
(* out: it only refuses.)                                                  *)
FillIn(offered) == IF offered = Open THEN framework.scope ELSE offered


(* deriveNegotiationState: who is told to act next.                        *)
NextActionBy(b) ==
  LET e == envelope[b] IN
  IF e.state # "PENDING" THEN Nobody
  ELSE IF e.review = "REVISION_REQUESTED" THEN e.proposer
  ELSE IF ~ SelfTechnical /\ e.review = "PENDING" THEN "TECH_TEAM"
  ELSE e.recipient

(* buildOffer, and the technical review it is put under.                   *)
Offer(version, proposer, recipient, scope, scopeVersion, needsReview) ==
  [version |-> version, proposer |-> proposer, recipient |-> recipient,
   state |-> "PENDING", scope |-> scope, scopeVersion |-> scopeVersion,
   reviewVersion |-> scopeVersion,
   review |-> IF needsReview THEN "PENDING" ELSE "APPROVED"]

(* An engagement nobody has signed, or whose signatures no longer matter.  *)
Left(state) == [state |-> state, signed |-> {}]

Init ==
  /\ framework \in [scope : Scope, mirrors : {Nobody}]
  /\ \E e \in Expert, state \in {"SUBMITTED", "SELECTED"},
        progress \in {"PENDING", "CONNECTED"} :
       /\ bid = [b \in Bid |-> IF b \in Legacy
            THEN [expert |-> e, state |-> state, version |-> 1,
                  tech |-> IF state = "SELECTED" THEN "APPROVED" ELSE "PENDING",
                  ceo |-> IF state = "SELECTED" THEN "APPROVED" ELSE "PENDING"]
            ELSE NoBid]
       /\ milestones \in [Bid -> {NoRows, framework.scope}]
       /\ \A b \in Bid : milestones[b] # NoRows => b \in Legacy /\ state = "SELECTED"
       /\ progress = "CONNECTED" => state = "SELECTED"
       /\ engagement = [b \in Bid |-> Left(IF b \in Legacy THEN progress ELSE "NONE")]
  /\ envelope = [b \in Bid |-> NoEnvelope]
  /\ approved = [b \in Bid \ Legacy |-> {}]
  /\ request = [h \in Handler |-> Idle]

-----------------------------------------------------------------------------
(* BidsService.create.  Shortlist and subscription can only refuse; the    *)
(* ids in Bid bound how often it is called.                                *)
MayBid(e) == \A b \in BidsOf(e) : ~ IsLive(b)

BeginCreate(h, e, offered) ==
  /\ MayBid(e) /\ \E b \in Bid : ~ Made(b)
  /\ Starts(h, [op |-> "create", expert |-> e, scope |-> FillIn(offered)])
  /\ UNCHANGED <<framework, bid, envelope, engagement, milestones, approved>>

CommitCreate(h) ==
  /\ request[h].op = "create"
  /\ LET e == request[h].expert
         needsReview == ~ SelfTechnical IN
     /\ \E b \in Bid :
          /\ ~ Made(b)
          /\ bid' = [bid EXCEPT ![b] = [expert |-> e, state |-> "SUBMITTED", version |-> 1,
               tech |-> IF needsReview THEN "PENDING" ELSE "APPROVED", ceo |-> "PENDING"]]
          /\ envelope' = [envelope EXCEPT ![b] =
               Offer(1, "EXPERT", "CEO", request[h].scope, 1, needsReview)]
          /\ engagement' = [engagement EXCEPT ![b] = Left("PENDING")]
  /\ Ends(h)
  /\ UNCHANGED <<framework, milestones, approved>>

-----------------------------------------------------------------------------
(* A new current offer; the one before it is superseded.                   *)
Supersede(b, offer, ceo) ==
  /\ offer.version <= MaxVersion
  /\ envelope' = [envelope EXCEPT ![b] = offer]
  /\ bid' = [bid EXCEPT ![b] =
       [@ EXCEPT !.version = offer.version, !.tech = offer.review, !.ceo = ceo,
                 !.state = IF offer.review = "PENDING" THEN "TECH_REVIEW" ELSE "SUBMITTED"]]
  /\ UNCHANGED <<framework, engagement, milestones, approved, request>>

(* BidsService.update, by the expert.                                      *)
Update(b, offered) ==
  LET e == envelope[b]
      version == bid[b].version + 1 IN
  /\ e # NoEnvelope
  /\ bid[b].tech = "REVISION_REQUESTED"
  /\ e.proposer = "EXPERT"
  /\ Supersede(b, Offer(version, "EXPERT", e.recipient, FillIn(offered), version, ~ SelfTechnical),
               bid[b].ceo)

(* BidsService.techReview.                                                 *)
StateAfterReview(action) == IF action = "APPROVED" THEN "SUBMITTED" ELSE action

MayReview(b) ==
  /\ envelope[b] # NoEnvelope
  /\ ~ SelfTechnical
  /\ bid[b].state \notin Closed
  /\ envelope[b].scopeVersion = envelope[b].reviewVersion
  /\ envelope[b].review \in {"PENDING", "REVISION_REQUESTED"}

TechReview(b, action) ==
  /\ MayReview(b)
  /\ envelope' = [envelope EXCEPT ![b].review = action]
  /\ bid' = [bid EXCEPT ![b] = [@ EXCEPT !.tech = action, !.state = StateAfterReview(action)]]
  /\ approved' = [c \in Bid \ Legacy |->
       approved[c] \cup IF c = b /\ action = "APPROVED" THEN {envelope[b].scope} ELSE {}]
  /\ UNCHANGED <<framework, engagement, milestones, request>>

MayCounter(b, role) ==
  LET e == envelope[b] IN
  IF e.review = "REVISION_REQUESTED" THEN e.proposer = role
  ELSE (SelfTechnical \/ e.review = "APPROVED") /\ e.recipient = role

ScopeChangedOnRequest(b, scope) == envelope[b].review = "REVISION_REQUESTED"
ScopeChanged(b, scope) ==
  envelope[b].review = "REVISION_REQUESTED" \/ scope # envelope[b].scope

(* BidsService.createOffer: a requested revision by the proposer, or a     *)
(* counter-offer by the recipient.                                         *)
CreateOffer(b, role, offered) ==
  LET e == envelope[b]
      scope == FillIn(offered)
      version == bid[b].version + 1
      recipient == IF e.review = "REVISION_REQUESTED" THEN e.recipient ELSE Opposite(role) IN
  /\ e # NoEnvelope
  /\ bid[b].state \notin Closed
  /\ e.version = bid[b].version
  /\ MayCounter(b, role)
  /\ Supersede(b, Offer(version, role, recipient, scope,
       IF ScopeChanged(b, scope) THEN version ELSE e.scopeVersion,
       ~ SelfTechnical /\ ScopeChanged(b, scope)), "PENDING")

-----------------------------------------------------------------------------
(* BidsService.acceptOffer.  It does not ask for the state of the bid, nor *)
(* whether another bid of the project was accepted before.                 *)
Reviewed(e) == e.review = "APPROVED" /\ e.reviewVersion = e.scopeVersion

MayAccept(b, role) ==
  /\ envelope[b] # NoEnvelope
  /\ envelope[b].version = bid[b].version
  /\ envelope[b].state = "PENDING"
  /\ envelope[b].recipient = role
  /\ SelfTechnical \/ Reviewed(envelope[b])
  /\ engagement[b].state = "PENDING"
  /\ milestones[b] = NoRows

RivalsUnderReview(b) ==
  {c \in Bid \ {b} : Made(c) /\ bid[c].state \in {"TECH_REVIEW", "REVISION_REQUESTED"}}
Rivals(b) == {c \in Bid \ {b} : Made(c) /\ bid[c].state \notin {"DECLINED", "WITHDRAWN"}}

DeclinedBid(r)        == [r EXCEPT !.state = "DECLINED", !.ceo = "DECLINED"]
DeclinedOffer(e)      == IF e.state = "PENDING" THEN [e EXCEPT !.state = "DECLINED"] ELSE e
DeclinedEngagement(g) == Left("DECLINED")

AcceptOffer(b, role) ==
  LET scope == FillIn(envelope[b].scope) IN
  /\ MayAccept(b, role)
  /\ milestones' = [milestones EXCEPT ![b] = scope]
  /\ framework' = [scope |-> scope, mirrors |-> b]
  /\ bid' = [c \in Bid |->
       CASE c = b -> [bid[c] EXCEPT !.state = "SELECTED", !.ceo = "APPROVED"]
         [] c \in Rivals(b) -> DeclinedBid(bid[c])
         [] OTHER -> bid[c]]
  /\ envelope' = [c \in Bid |->
       CASE c = b -> [envelope[c] EXCEPT !.state = "ACCEPTED", !.scope = scope]
         [] c \in Rivals(b) -> DeclinedOffer(envelope[c])
         [] OTHER -> envelope[c]]
  /\ engagement' = [c \in Bid |->
       IF c \in Rivals(b) THEN DeclinedEngagement(engagement[c]) ELSE engagement[c]]
  /\ UNCHANGED <<approved, request>>

(* BidsService.declineOffer, also ceoDecision with DECLINED.               *)
MayDecline(b, role) ==
  /\ envelope[b] # NoEnvelope
  /\ envelope[b].version = bid[b].version
  /\ envelope[b].state = "PENDING"
  /\ envelope[b].recipient = role

DeclineOffer(b, role) ==
  /\ MayDecline(b, role)
  /\ envelope' = [envelope EXCEPT ![b] = DeclinedOffer(@)]
  /\ bid' = [bid EXCEPT ![b] = DeclinedBid(@)]
  /\ engagement' = [engagement EXCEPT ![b] = DeclinedEngagement(@)]
  /\ UNCHANGED <<framework, milestones, approved, request>>

-----------------------------------------------------------------------------
(* BidsService.reconcileLegacyBid gives a bid of the old form an envelope, *)
(* and one that was chosen its milestones.                                 *)
WasChosen(b) ==
  \/ bid[b].state = "SELECTED" \/ bid[b].ceo = "APPROVED"
  \/ engagement[b].state \in {"CONNECTED", "ACTIVE"}

(* Its terms are the ones it was written with, or those of its milestones. *)
LegacyTerms(b) == {FillIn(offered) : offered \in Scope} \cup ({milestones[b]} \ {NoRows})

ReconcileLegacyBid(b, scope) ==
  LET review == IF WasChosen(b) \/ SelfTechnical THEN "APPROVED" ELSE bid[b].tech IN
  /\ Made(b) /\ envelope[b] = NoEnvelope
  /\ milestones[b] \in {NoRows, scope}
  /\ envelope' = [envelope EXCEPT ![b] =
       [Offer(bid[b].version, "EXPERT", "CEO", scope, bid[b].version, FALSE) EXCEPT
          !.state = IF WasChosen(b) THEN "ACCEPTED" ELSE "PENDING", !.review = review]]
  /\ IF WasChosen(b)
     THEN /\ bid' = [bid EXCEPT ![b] = [@ EXCEPT !.state = "SELECTED", !.ceo = "APPROVED"]]
          /\ milestones' = [milestones EXCEPT ![b] = scope]
          /\ framework' = [scope |-> scope, mirrors |-> b]
     ELSE /\ bid' = IF SelfTechnical
                    THEN [bid EXCEPT ![b] = [@ EXCEPT !.state = "SUBMITTED", !.tech = "APPROVED"]]
                    ELSE bid
          /\ UNCHANGED <<milestones, framework>>
  /\ UNCHANGED <<engagement, approved, request>>

-----------------------------------------------------------------------------
(* BidsService.withdraw: three statements, no transaction.  The envelope   *)
(* written is the one that was read.                                       *)
MayWithdraw(b) == bid[b].state \in {"SUBMITTED", "TECH_REVIEW"}

BeginWithdraw(h, b) ==
  /\ MayWithdraw(b)
  /\ Starts(h, [op |-> "withdraw", b |-> b, envelope |->
       IF envelope[b] = NoEnvelope THEN NoEnvelope ELSE [envelope[b] EXCEPT !.state = "DECLINED"]])
  /\ UNCHANGED <<framework, bid, envelope, engagement, milestones, approved>>

WithdrawBid(h) ==
  /\ request[h].op = "withdraw"
  /\ LET b == request[h].b IN
       /\ bid' = [bid EXCEPT ![b].state = "WITHDRAWN"]
       /\ envelope' = IF request[h].envelope = NoEnvelope THEN envelope
                      ELSE [envelope EXCEPT ![b] = request[h].envelope]
       /\ Becomes(h, [op |-> "withdrawn", b |-> b])
  /\ UNCHANGED <<framework, engagement, milestones, approved>>

WithdrawEngagement(h) ==
  /\ request[h].op = "withdrawn"
  /\ engagement' = [engagement EXCEPT ![request[h].b] = DeclinedEngagement(@)]
  /\ Ends(h)
  /\ UNCHANGED <<framework, bid, envelope, milestones, approved>>

-----------------------------------------------------------------------------
(* EngagementsService.acceptNda and acceptConnect, decline, cancel, and    *)
(* the first payment (ContractFunding), as far as the bids see them.       *)
MaySign(b, role) ==
  /\ engagement[b].state = "PENDING"
  /\ Accepted(b) /\ milestones[b] # NoRows
  /\ role \notin engagement[b].signed

Sign(b, role) ==
  /\ MaySign(b, role)
  /\ LET signed == engagement[b].signed \cup {role} IN
       engagement' = [engagement EXCEPT ![b] =
         IF signed = Role THEN Left("CONNECTED") ELSE [state |-> "PENDING", signed |-> signed]]
  /\ UNCHANGED <<framework, bid, envelope, milestones, approved, request>>

(* One that was never connected counts as declined also when it is         *)
(* cancelled: nothing here tells the two apart.                            *)
LeaveEngagement(b) ==
  /\ IsLive(b)
  /\ engagement' = [engagement EXCEPT ![b] =
       IF @.state = "PENDING" THEN DeclinedEngagement(@) ELSE Left("CANCELLED")]
  /\ UNCHANGED <<framework, bid, envelope, milestones, approved, request>>

-----------------------------------------------------------------------------
(* milestone-terms-lock: terms may be edited until they are accepted.  The *)
(* lock is read before, and outside, the transaction that edits.           *)
ProjectTermsEditableUnlessSigned ==
  LET selected == {b \in Bid : bid[b].state = "SELECTED"} IN
  selected = {} \/ \E b \in selected : ~ Accepted(b) \/ engagement[b] = Left("PENDING")
ProjectTermsEditable ==
  LET selected == {b \in Bid : bid[b].state = "SELECTED"} IN
  selected = {} \/ \E b \in selected : ~ Accepted(b)
TermsEditable(b)     == ~ Accepted(b)

(* ProjectsService.updateMilestoneFramework also rewrites the milestones   *)
(* of an engagement under way; updateProjectMilestones does not.           *)
BeginUpdateFramework(h) ==
  /\ ProjectTermsEditable
  /\ LET underWay == {b \in Bid : engagement[b].state \in {"CONNECTED", "ACTIVE"}} IN
       \E b \in IF underWay = {} THEN {Nobody} ELSE underWay :
         Starts(h, [op |-> "framework", b |-> b])
  /\ UNCHANGED <<framework, bid, envelope, engagement, milestones, approved>>

BeginUpdateProjectMilestones(h) ==
  /\ ProjectTermsEditable
  /\ Starts(h, [op |-> "framework", b |-> Nobody])
  /\ UNCHANGED <<framework, bid, envelope, engagement, milestones, approved>>

CommitFramework(h, scope) ==
  /\ request[h].op = "framework"
  /\ framework' = [scope |-> scope, mirrors |-> Nobody]
  /\ milestones' = IF request[h].b = Nobody THEN milestones
                   ELSE [milestones EXCEPT ![request[h].b] = scope]
  /\ Ends(h)
  /\ UNCHANGED <<bid, envelope, engagement, approved>>

(* MilestonesService.createMilestone, bulkInitialize, updateMilestone and  *)
(* deleteMilestone.  They begin alike, so that which of them it is shows   *)
(* when it commits; CriteriaService.create and deleteCriterion change the  *)
(* scope of a milestone as updateMilestone does.  Bound: the milestones of *)
(* an engagement that has ended are left as they are.                      *)
BeginEdit(h, b) ==
  /\ IsLive(b) /\ TermsEditable(b)
  /\ Starts(h, [op |-> "edit", b |-> b])
  /\ UNCHANGED <<framework, bid, envelope, engagement, milestones, approved>>

CommitMilestones(h, rows) ==
  /\ request[h].op = "edit"
  /\ milestones' = [milestones EXCEPT ![request[h].b] = rows]
  /\ Ends(h)
  /\ UNCHANGED <<framework, bid, envelope, engagement, approved>>

CreateMilestones(h, scope) == CommitMilestones(h, scope)
UpdateMilestone(h, scope)  ==
  request[h].op = "edit" /\ milestones[request[h].b] # NoRows /\ CommitMilestones(h, scope)
DeleteLastMilestone(h) ==
  request[h].op = "edit" /\ milestones[request[h].b] # NoRows /\ CommitMilestones(h, NoRows)

(* A statement fails or the process dies between two steps.                *)
Stop(h) ==
  /\ request[h] # Idle
  /\ Ends(h)
  /\ UNCHANGED <<framework, bid, envelope, engagement, milestones, approved>>

-----------------------------------------------------------------------------
Negotiate(b) ==
  \/ \E offered \in Scope : Update(b, offered)
  \/ \E action \in {"APPROVED", "REVISION_REQUESTED"} : TechReview(b, action)
  \/ \E role \in Role, offered \in Scope : CreateOffer(b, role, offered)
  \/ \E role \in Role : AcceptOffer(b, role) \/ DeclineOffer(b, role) \/ Sign(b, role)
  \/ \E scope \in LegacyTerms(b) : ReconcileLegacyBid(b, scope)
  \/ LeaveEngagement(b)

Serve(h) ==
  \/ \E e \in Expert, offered \in Scope : BeginCreate(h, e, offered)
  \/ CommitCreate(h)
  \/ \E b \in Bid : BeginWithdraw(h, b) \/ BeginEdit(h, b)
  \/ WithdrawBid(h) \/ WithdrawEngagement(h)
  \/ BeginUpdateFramework(h) \/ BeginUpdateProjectMilestones(h)
  \/ \E scope \in Scope :
       CommitFramework(h, scope) \/ CreateMilestones(h, scope) \/ UpdateMilestone(h, scope)
  \/ DeleteLastMilestone(h)
  \/ Stop(h)

(* A request that is one transaction needs a handler free to serve it: one *)
(* handler serves one request after the other.                             *)
Next ==
  \/ \E h \in Handler : Serve(h)
  \/ /\ \E h \in Handler : request[h] = Idle
     /\ \E b \in Bid : Negotiate(b)

Spec == Init /\ [][Next]_vars

-----------------------------------------------------------------------------
(* Every column holds a value of its type.                                 *)
TypeOK ==
  /\ framework \in [scope : Scope, mirrors : Bid \cup {Nobody}]
  /\ bid \in [Bid -> {NoBid} \cup
       [expert : Expert, state : BidState, version : 1..MaxVersion, tech : Status,
        ceo : {"PENDING", "APPROVED", "DECLINED"}]]
  /\ envelope \in [Bid -> {NoEnvelope} \cup Envelope]
  /\ engagement \in [Bid ->
       [state : LiveState \cup {"NONE", "DECLINED", "CANCELLED"}, signed : SUBSET Role]]
  /\ milestones \in [Bid -> Scope \cup {NoRows}]
  /\ approved \in [Bid \ Legacy -> SUBSET Scope]
  /\ request \in [Handler -> Request]

(* BR-BID-10: however the negotiations went, at most one accepted contract *)
(* of the project is alive, and its milestones are what was agreed.        *)
OneContract ==
  /\ \A b, c \in Bid : Accepted(b) /\ IsLive(b) /\ Accepted(c) /\ IsLive(c) => b = c
  /\ \A b \in Bid : Accepted(b) => milestones[b] = envelope[b].scope

(* BR-BID-08: while a bid is selected the project's framework mirrors the  *)
(* accepted terms, whatever edits were asked for.                          *)
FrameworkMirrorsContract == \A b \in Bid :
  bid[b].state = "SELECTED" /\ Accepted(b) => framework = [scope |-> milestones[b], mirrors |-> b]

(* BR-BID-03 and 09: what is accepted in a bid is a scope the tech team    *)
(* approved in it, but for what the framework supplied to an open one.     *)
(* (Bids chosen before there were envelopes are taken as approved.)        *)
ReviewedBeforeAccepted == \A b \in Bid \ Legacy :
  Accepted(b) /\ ~ SelfTechnical => approved[b] \cap {Open, envelope[b].scope} # {}
=============================================================================
