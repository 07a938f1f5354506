--------------------------- MODULE BiddingProofs ---------------------------
(***************************************************************************)
(* What holds of Bidding for any number of bids, experts and offers: what  *)
(* was reviewed before it is accepted, however requests overlap, and that  *)
(* there is one contract, as long as they do not.                          *)
(***************************************************************************)
EXTENDS BidScreens, TLAPS

BidRow == [expert : Expert, state : BidState, version : 1..MaxVersion, tech : Status,
           ceo : {"PENDING", "APPROVED", "DECLINED"}]
EngagementRow == [state : LiveState \cup {"NONE", "DECLINED", "CANCELLED"}, signed : SUBSET Role]

(* An envelope's approved review is of a scope that was approved, or of    *)
(* what the framework put in the place of an open one.                     *)
ApprovedScope(b, e) ==
  b \notin Legacy /\ ~ SelfTechnical /\ e # NoEnvelope /\ e.review = "APPROVED" =>
    approved[b] \cap {Open, e.scope} # {}

RowOK(b) ==
  /\ envelope[b] # NoEnvelope => Made(b)
  /\ b \notin Legacy /\ Made(b) => envelope[b] # NoEnvelope
  /\ b \notin Legacy /\ ~ SelfTechnical /\ Accepted(b) => envelope[b].review = "APPROVED"
  /\ ApprovedScope(b, envelope[b])

(* What a withdrawal is about to write is such an envelope too.            *)
RequestOK(h) == request[h].op = "withdraw" =>
  /\ Made(request[h].b)
  /\ request[h].envelope # NoEnvelope => request[h].envelope.state = "DECLINED"
  /\ ApprovedScope(request[h].b, request[h].envelope)

Inv == /\ TypeOK
       /\ \A b \in Bid : RowOK(b)
       /\ \A h \in Handler : RequestOK(h)

-----------------------------------------------------------------------------
LEMMA RequestFields ==
  ASSUME NEW r \in Request
  PROVE  /\ r.op = "create" => r.expert \in Expert /\ r.scope \in Scope
         /\ r.op \in {"withdraw", "withdrawn", "edit"} => r.b \in Bid
         /\ r.op = "withdraw" => r.envelope \in Envelope \cup {NoEnvelope}
         /\ r.op = "framework" => r.b \in Bid \cup {Nobody}
  BY DEF Request, Idle

LEMMA Typed ==
  ASSUME Inv
  PROVE  /\ framework \in [scope : Scope, mirrors : Bid \cup {Nobody}]
         /\ bid \in [Bid -> {NoBid} \cup BidRow]
         /\ envelope \in [Bid -> {NoEnvelope} \cup Envelope]
         /\ engagement \in [Bid -> EngagementRow]
         /\ milestones \in [Bid -> Scope \cup {NoRows}]
         /\ approved \in [Bid \ Legacy -> SUBSET Scope]
         /\ request \in [Handler -> Request]
  BY DEF Inv, TypeOK, BidRow, EngagementRow

(* A bid that was made, or has an envelope, has its row.                   *)
LEMMA MadeRow ==
  ASSUME Inv, NEW b \in Bid, Made(b) \/ envelope[b] # NoEnvelope
  PROVE  /\ bid[b] \in BidRow /\ Made(b)
         /\ bid[b].expert \in Expert /\ bid[b].state \in BidState
         /\ bid[b].version \in 1..MaxVersion /\ bid[b].tech \in Status
         /\ bid[b].ceo \in {"PENDING", "APPROVED", "DECLINED"}
<1>1. Made(b)
  BY DEF Inv, RowOK
<1>2. bid[b] \in BidRow
  BY <1>1, Typed DEF Made
<1>3. QED
  BY <1>1, <1>2 DEF BidRow

LEMMA EnvelopeFields ==
  ASSUME NEW e \in Envelope
  PROVE  /\ e # NoEnvelope
         /\ e.version \in 1..MaxVersion /\ e.proposer \in Role /\ e.recipient \in Role
         /\ e.state \in {"PENDING", "ACCEPTED", "DECLINED"} /\ e.scope \in Scope
         /\ e.scopeVersion \in 1..MaxVersion /\ e.reviewVersion \in 1..MaxVersion
         /\ e.review \in Status
  BY DEF Envelope, NoEnvelope

LEMMA FillInTyped ==
  ASSUME Inv, NEW offered \in Scope
  PROVE  FillIn(offered) \in Scope
  BY Typed DEF FillIn

LEMMA LeftTyped ==
  ASSUME NEW s \in LiveState \cup {"NONE", "DECLINED", "CANCELLED"}
  PROVE  Left(s) \in EngagementRow /\ Left(s).state = s
  BY DEF Left, EngagementRow

-----------------------------------------------------------------------------
(* Requests and rows that a step leaves alone stay right.                  *)
LEMMA RequestsStay ==
  ASSUME Inv, \A b \in Bid : Made(b) => Made(b)',
         \A b \in Bid \ Legacy : approved[b] \subseteq approved'[b],
         \A h \in Handler : request'[h] = request[h] \/ RequestOK(h)'
  PROVE  \A h \in Handler : RequestOK(h)'
<1>1. SUFFICES ASSUME NEW h \in Handler, request'[h] = request[h], request[h].op = "withdraw"
               PROVE  RequestOK(h)'
  BY DEF RequestOK
<1>2. PICK b \in Bid : b = request[h].b /\ Made(b) /\ ApprovedScope(b, request[h].envelope)
  BY <1>1, Typed, RequestFields DEF Inv, RequestOK
<1>3. ApprovedScope(b, request[h].envelope)'
  BY <1>1, <1>2 DEF ApprovedScope
<1>4. QED
  BY <1>1, <1>2, <1>3 DEF Inv, RequestOK

(* A step that leaves bids and envelopes as they are.                      *)
LEMMA OtherStep ==
  ASSUME Inv, UNCHANGED <<bid, envelope, approved>>,
         framework' \in [scope : Scope, mirrors : Bid \cup {Nobody}],
         engagement' \in [Bid -> EngagementRow],
         milestones' \in [Bid -> Scope \cup {NoRows}],
         request' \in [Handler -> Request],
         \A h \in Handler : request'[h] = request[h] \/ RequestOK(h)'
  PROVE  Inv'
<1>1. \A h \in Handler : RequestOK(h)'
  BY RequestsStay DEF Made
<1>2. \A b \in Bid : RowOK(b)'
  BY DEF Inv, RowOK, Made, Accepted, ApprovedScope
<1>3. TypeOK'
  BY DEF Inv, TypeOK, EngagementRow
<1>4. QED
  BY <1>1, <1>2, <1>3 DEF Inv

(* A step that writes the row and the envelope of one bid.                 *)
LEMMA OneBidStep ==
  ASSUME Inv, NEW b \in Bid, NEW row \in BidRow, NEW e \in Envelope,
         bid' = [bid EXCEPT ![b] = row], envelope' = [envelope EXCEPT ![b] = e],
         framework' \in [scope : Scope, mirrors : Bid \cup {Nobody}],
         engagement' \in [Bid -> EngagementRow],
         milestones' \in [Bid -> Scope \cup {NoRows}],
         approved' \in [Bid \ Legacy -> SUBSET Scope],
         request' \in [Handler -> Request],
         \A h \in Handler : request'[h] = request[h] \/ RequestOK(h)',
         \A c \in Bid \ Legacy : approved[c] \subseteq approved'[c],
         e.state = "ACCEPTED" => b \in Legacy \/ SelfTechnical \/ e.review = "APPROVED",
         ApprovedScope(b, e)'
  PROVE  Inv'
<1>1. row # NoBid /\ e # NoEnvelope
  BY DEF BidRow, NoBid, BidState, Envelope, NoEnvelope
<1>2. /\ bid'[b] = row /\ envelope'[b] = e
      /\ \A c \in Bid \ {b} : bid'[c] = bid[c] /\ envelope'[c] = envelope[c]
  BY Typed
<1>3. \A c \in Bid : Made(c) => Made(c)'
  BY <1>1, <1>2 DEF Made
<1>4. \A h \in Handler : RequestOK(h)'
  BY <1>3, RequestsStay
<1>5. RowOK(b)'
  BY <1>1, <1>2 DEF RowOK, Made, Accepted, ApprovedScope
<1>6. ASSUME NEW c \in Bid \ {b}
      PROVE  RowOK(c)'
  <2>1. RowOK(c)
    BY DEF Inv
  <2>2. QED
    BY <1>2, <2>1 DEF RowOK, Made, Accepted, ApprovedScope
<1>7. TypeOK'
  BY Typed DEF TypeOK, EngagementRow, BidRow
<1>8. QED
  BY <1>4, <1>5, <1>6, <1>7 DEF Inv

LEMMA InitInv == Init => Inv
<1> SUFFICES ASSUME Init PROVE Inv
  OBVIOUS
<1>1. /\ \A b \in Bid : envelope[b] = NoEnvelope /\ (b \notin Legacy => bid[b] = NoBid)
      /\ \A h \in Handler : request[h] = Idle
  BY ConstantsOK DEF Init, ConstantsOK
<1>2. TypeOK
  BY ConstantsOK DEF Init, TypeOK, ConstantsOK, BidState, Status, Left, LiveState, Idle, Request,
     Nobody, NoRows, NoBid
<1>3. \A b \in Bid : RowOK(b)
  BY <1>1 DEF RowOK, Made, Accepted, NoEnvelope, ApprovedScope
<1>4. QED
  BY <1>1, <1>2, <1>3 DEF Inv, RequestOK, Idle

-----------------------------------------------------------------------------
(* Requests: those that read, those that fail, and those that write        *)
(* engagements, milestones or the framework.                               *)
LEMMA RequestStep ==
  ASSUME Inv, NEW h \in Handler, NEW r \in Request, Becomes(h, r),
         r.op = "withdraw" => /\ Made(r.b)
                              /\ r.envelope # NoEnvelope => r.envelope.state = "DECLINED"
                              /\ ApprovedScope(r.b, r.envelope),
         UNCHANGED <<bid, approved>>
  PROVE  /\ request' \in [Handler -> Request]
         /\ \A g \in Handler : request'[g] = request[g] \/ RequestOK(g)'
<1>1. request' \in [Handler -> Request] /\ request'[h] = r
  BY Typed DEF Becomes
<1>2. \A g \in Handler \ {h} : request'[g] = request[g]
  BY Typed DEF Becomes
<1>3. RequestOK(h)'
  BY <1>1 DEF RequestOK, Made, ApprovedScope
<1>4. QED
  BY <1>1, <1>2, <1>3

LEMMA EndsTyped ==
  ASSUME Inv, NEW h \in Handler, Ends(h)
  PROVE  /\ request' \in [Handler -> Request]
         /\ \A g \in Handler : request'[g] = request[g] \/ RequestOK(g)'
<1>1. request' = [request EXCEPT ![h] = Idle] /\ Idle \in Request
  BY DEF Ends, Becomes, Request
<1>2. \A g \in Handler : request'[g] = IF g = h THEN Idle ELSE request[g]
  BY <1>1, Typed
<1>3. QED
  BY <1>1, <1>2, Typed DEF RequestOK, Idle

LEMMA BeginInv ==
  ASSUME Inv, NEW h \in Handler,
         \/ \E e \in Expert, offered \in Scope : BeginCreate(h, e, offered)
         \/ \E b \in Bid : BeginWithdraw(h, b) \/ BeginEdit(h, b)
         \/ BeginUpdateFramework(h) \/ BeginUpdateProjectMilestones(h)
  PROVE  Inv'
<1>1. ASSUME NEW r \in Request, Becomes(h, r),
             r.op = "withdraw" => /\ Made(r.b)
                                  /\ r.envelope # NoEnvelope => r.envelope.state = "DECLINED"
                                  /\ ApprovedScope(r.b, r.envelope),
             UNCHANGED <<framework, bid, envelope, engagement, milestones, approved>>
      PROVE  Inv'
  <2>1. /\ request' \in [Handler -> Request]
        /\ \A g \in Handler : request'[g] = request[g] \/ RequestOK(g)'
    BY <1>1, RequestStep
  <2>2. QED
    BY <1>1, <2>1, Typed, OtherStep
<1>2. ASSUME NEW e \in Expert, NEW offered \in Scope, BeginCreate(h, e, offered)
      PROVE  Inv'
  <2>1. [op |-> "create", expert |-> e, scope |-> FillIn(offered)] \in Request
    BY FillInTyped DEF Request
  <2>2. QED
    BY <1>1, <1>2, <2>1 DEF BeginCreate, Starts, Becomes
<1>3. ASSUME NEW b \in Bid, BeginWithdraw(h, b)
      PROVE  Inv'
  <2> DEFINE e == IF envelope[b] = NoEnvelope THEN NoEnvelope
                                              ELSE [envelope[b] EXCEPT !.state = "DECLINED"]
  <2>1. Made(b) /\ ApprovedScope(b, envelope[b])
    BY <1>3 DEF BeginWithdraw, MayWithdraw, Made, NoBid, Inv, RowOK
  <2>2. /\ e \in Envelope \cup {NoEnvelope}
        /\ e # NoEnvelope => /\ e.state = "DECLINED"
                             /\ e.review = envelope[b].review /\ e.scope = envelope[b].scope
        /\ e # NoEnvelope => envelope[b] # NoEnvelope
    BY Typed DEF Envelope
  <2>3. ApprovedScope(b, e)
    BY <2>1, <2>2 DEF ApprovedScope
  <2>4. [op |-> "withdraw", b |-> b, envelope |-> e] \in Request
    BY <2>2 DEF Request
  <2>5. Becomes(h, [op |-> "withdraw", b |-> b, envelope |-> e])
    BY <1>3 DEF BeginWithdraw, MayWithdraw, Starts, Becomes
  <2> HIDE DEF e
  <2>6. QED
    BY <1>1, <1>3, <2>1, <2>2, <2>3, <2>4, <2>5 DEF BeginWithdraw, MayWithdraw
<1>4. ASSUME NEW b \in Bid, BeginEdit(h, b)
      PROVE  Inv'
  <2>1. [op |-> "edit", b |-> b] \in Request
    BY DEF Request
  <2>2. QED
    BY <1>1, <1>4, <2>1 DEF BeginEdit, Starts, Becomes
<1>5. CASE BeginUpdateFramework(h) \/ BeginUpdateProjectMilestones(h)
  <2>1. PICK b \in Bid \cup {Nobody} : Becomes(h, [op |-> "framework", b |-> b])
    BY <1>5 DEF BeginUpdateFramework, BeginUpdateProjectMilestones, Starts, Becomes
  <2>2. [op |-> "framework", b |-> b] \in Request
    BY DEF Request
  <2>3. QED
    BY <1>1, <1>5, <2>1, <2>2 DEF BeginUpdateFramework, BeginUpdateProjectMilestones
<1>6. QED
  BY <1>2, <1>3, <1>4, <1>5

LEMMA OtherInv ==
  ASSUME Inv, NEW h \in Handler,
         \/ WithdrawEngagement(h) \/ Stop(h) \/ DeleteLastMilestone(h)
         \/ \E scope \in Scope : \/ CommitFramework(h, scope) \/ CreateMilestones(h, scope)
                                 \/ UpdateMilestone(h, scope)
  PROVE  Inv'
<1>1. Ends(h) /\ UNCHANGED <<bid, envelope, approved>>
  BY DEF WithdrawEngagement, Stop, DeleteLastMilestone, CommitFramework, CreateMilestones,
     UpdateMilestone, CommitMilestones
<1>2. /\ request' \in [Handler -> Request]
      /\ \A g \in Handler : request'[g] = request[g] \/ RequestOK(g)'
  BY <1>1, EndsTyped
<1>3. CASE WithdrawEngagement(h) \/ Stop(h)
  <2>1. engagement' \in [Bid -> EngagementRow]
    BY <1>3, Typed, LeftTyped DEF WithdrawEngagement, Stop, DeclinedEngagement
  <2>2. QED
    BY <1>1, <1>2, <1>3, <2>1, Typed, OtherStep DEF WithdrawEngagement, Stop
<1>4. ASSUME NEW rows \in Scope \cup {NoRows}, CommitMilestones(h, rows)
      PROVE  Inv'
  <2>1. milestones' \in [Bid -> Scope \cup {NoRows}]
    BY <1>4, Typed DEF CommitMilestones
  <2>2. QED
    BY <1>1, <1>2, <1>4, <2>1, Typed, OtherStep DEF CommitMilestones
<1>5. ASSUME NEW scope \in Scope, CommitFramework(h, scope)
      PROVE  Inv'
  <2>1. milestones' \in [Bid -> Scope \cup {NoRows}]
    BY <1>5, Typed DEF CommitFramework
  <2>2. framework' \in [scope : Scope, mirrors : Bid \cup {Nobody}]
    BY <1>5 DEF CommitFramework
  <2>3. QED
    BY <1>1, <1>2, <1>5, <2>1, <2>2, Typed, OtherStep DEF CommitFramework
<1>6. QED
  BY <1>3, <1>4, <1>5 DEF DeleteLastMilestone, CreateMilestones, UpdateMilestone

LEMMA EngagementInv ==
  ASSUME Inv, NEW b \in Bid, (\E role \in Role : Sign(b, role)) \/ LeaveEngagement(b)
  PROVE  Inv'
<1>1. PICK row : /\ engagement' = [engagement EXCEPT ![b] = row]
                 /\ row \in EngagementRow
  <2>1. ASSUME NEW role \in Role, Sign(b, role)
        PROVE  \E row \in EngagementRow : engagement' = [engagement EXCEPT ![b] = row]
    <3> DEFINE signed == engagement[b].signed \cup {role}
               row == IF signed = Role THEN Left("CONNECTED")
                                       ELSE [state |-> "PENDING", signed |-> signed]
    <3>1. signed \in SUBSET Role
      BY Typed DEF EngagementRow
    <3>2. row \in EngagementRow
      BY <3>1, LeftTyped DEF EngagementRow, LiveState
    <3>3. QED
      BY <2>1, <3>2 DEF Sign, MaySign
  <2>2. CASE LeaveEngagement(b)
    BY <2>2, LeftTyped DEF LeaveEngagement, DeclinedEngagement
  <2>3. QED
    BY <2>1, <2>2
<1>2. engagement' \in [Bid -> EngagementRow]
  BY <1>1, Typed
<1>3. UNCHANGED <<framework, bid, envelope, milestones, approved, request>>
  BY DEF Sign, MaySign, LeaveEngagement
<1>4. QED
  BY <1>2, <1>3, Typed, OtherStep

-----------------------------------------------------------------------------
(* The steps of a negotiation.                                             *)
LEMMA CreateInv ==
  ASSUME Inv, NEW h \in Handler, CommitCreate(h)
  PROVE  Inv'
<1> DEFINE r == request[h]
           offer == Offer(1, "EXPERT", "CEO", r.scope, 1, ~ SelfTechnical)
           row == [expert |-> r.expert, state |-> "SUBMITTED", version |-> 1,
                   tech |-> IF ~ SelfTechnical THEN "PENDING" ELSE "APPROVED", ceo |-> "PENDING"]
<1>1. r.expert \in Expert /\ r.scope \in Scope
  BY Typed, RequestFields DEF CommitCreate
<1>2. 1 \in 1..MaxVersion /\ SelfTechnical \in BOOLEAN
  BY ConstantsOK DEF ConstantsOK
<1>3. PICK e \in Envelope :
        /\ e = offer /\ e.state = "PENDING"
        /\ ~ SelfTechnical => e.review = "PENDING"
  <2>1. /\ offer \in Envelope /\ offer.state = "PENDING"
        /\ ~ SelfTechnical => offer.review = "PENDING"
    BY <1>1, <1>2 DEF Offer, Envelope, Role, Status
  <2>2. QED
    BY <2>1
<1>4. row \in BidRow
  BY <1>1, <1>2 DEF BidRow, BidState, Status
<1>5. PICK b \in Bid :
        /\ bid' = [bid EXCEPT ![b] = row] /\ envelope' = [envelope EXCEPT ![b] = e]
        /\ engagement' = [engagement EXCEPT ![b] = Left("PENDING")]
  BY <1>3 DEF CommitCreate
<1>6. engagement' \in [Bid -> EngagementRow]
  BY <1>5, LeftTyped, Typed DEF LiveState
<1>7. Ends(h) /\ UNCHANGED <<framework, milestones, approved>>
  BY DEF CommitCreate
<1>8. /\ request' \in [Handler -> Request]
      /\ \A g \in Handler : request'[g] = request[g] \/ RequestOK(g)'
  BY <1>7, EndsTyped
<1> HIDE DEF offer, row, r
<1>9. ApprovedScope(b, e)'
  BY <1>3 DEF ApprovedScope
<1>10. QED
  BY <1>3, <1>4, <1>5, <1>6, <1>7, <1>8, <1>9, Typed, OneBidStep

(* A new offer is under review, unless its scope was approved.             *)
LEMMA SupersedeInv ==
  ASSUME Inv, NEW b \in Bid, envelope[b] # NoEnvelope, NEW e \in Envelope,
         NEW ceo \in {"PENDING", "APPROVED", "DECLINED"},
         e.state = "PENDING", ApprovedScope(b, e), Supersede(b, e, ceo)
  PROVE  Inv'
<1> DEFINE row == [bid[b] EXCEPT !.version = e.version, !.tech = e.review, !.ceo = ceo,
                     !.state = IF e.review = "PENDING" THEN "TECH_REVIEW" ELSE "SUBMITTED"]
<1>1. row \in BidRow
  BY MadeRow, EnvelopeFields DEF BidRow, BidState
<1>2. /\ bid' = [bid EXCEPT ![b] = row] /\ envelope' = [envelope EXCEPT ![b] = e]
      /\ UNCHANGED <<framework, engagement, milestones, approved, request>>
  BY DEF Supersede
<1> HIDE DEF row
<1>3. ApprovedScope(b, e)'
  BY <1>2 DEF ApprovedScope
<1>4. QED
  BY <1>1, <1>2, <1>3, Typed, OneBidStep

LEMMA UpdateInv ==
  ASSUME Inv, NEW b \in Bid, NEW offered \in Scope, Update(b, offered)
  PROVE  Inv'
<1> DEFINE version == bid[b].version + 1
           offer == Offer(version, "EXPERT", envelope[b].recipient, FillIn(offered), version,
                          ~ SelfTechnical)
<1>1. envelope[b] \in Envelope /\ bid[b].version \in 1..MaxVersion
  BY Typed, MadeRow DEF Update
<1>2. version <= MaxVersion
  BY DEF Update, Supersede, Offer
<1>3. version \in 1..MaxVersion /\ envelope[b].recipient \in Role /\ SelfTechnical \in BOOLEAN
  BY <1>1, <1>2, EnvelopeFields, ConstantsOK DEF ConstantsOK
<1>4. Supersede(b, offer, bid[b].ceo) /\ envelope[b] # NoEnvelope
  BY DEF Update
<1>5. bid[b].ceo \in {"PENDING", "APPROVED", "DECLINED"}
  BY <1>4, MadeRow
<1> HIDE DEF version
<1>6. PICK e \in Envelope :
        /\ e = offer /\ e.state = "PENDING"
        /\ ~ SelfTechnical => e.review = "PENDING"
  <2>1. /\ offer \in Envelope /\ offer.state = "PENDING"
        /\ ~ SelfTechnical => offer.review = "PENDING"
    BY <1>3, FillInTyped DEF Offer, Envelope, Role, Status
  <2>2. QED
    BY <2>1
<1> HIDE DEF offer
<1>7. ApprovedScope(b, e)
  BY <1>6 DEF ApprovedScope
<1>8. QED
  BY <1>4, <1>5, <1>6, <1>7, SupersedeInv

LEMMA CreateOfferInv ==
  ASSUME Inv, NEW b \in Bid, NEW role \in Role, NEW offered \in Scope, CreateOffer(b, role, offered)
  PROVE  Inv'
<1> DEFINE scope == FillIn(offered)
           version == bid[b].version + 1
           recipient == IF envelope[b].review = "REVISION_REQUESTED" THEN envelope[b].recipient
                                                                     ELSE Opposite(role)
           scopeVersion == IF ScopeChanged(b, scope) THEN version ELSE envelope[b].scopeVersion
           offer == Offer(version, role, recipient, scope, scopeVersion,
                          ~ SelfTechnical /\ ScopeChanged(b, scope))
<1>1. envelope[b] \in Envelope /\ bid[b].version \in 1..MaxVersion /\ envelope[b] # NoEnvelope
  BY Typed, MadeRow DEF CreateOffer
<1>2. version <= MaxVersion
  BY DEF CreateOffer, Supersede, Offer
<1>3. /\ scope \in Scope /\ recipient \in Role /\ SelfTechnical \in BOOLEAN
      /\ version \in 1..MaxVersion /\ scopeVersion \in 1..MaxVersion
  BY <1>1, <1>2, FillInTyped, EnvelopeFields, ConstantsOK DEF ConstantsOK, Role, Opposite
<1>4. Supersede(b, offer, "PENDING")
  BY DEF CreateOffer
<1>5. ~ SelfTechnical /\ ~ ScopeChanged(b, scope) =>
        envelope[b].review = "APPROVED" /\ scope = envelope[b].scope
  BY DEF CreateOffer, MayCounter, ScopeChanged
<1> HIDE DEF version, recipient, scopeVersion, scope
<1>6. PICK e \in Envelope :
        /\ e = offer /\ e.state = "PENDING" /\ e.scope = scope
        /\ ~ SelfTechnical /\ ScopeChanged(b, scope) => e.review = "PENDING"
  <2>1. /\ offer \in Envelope /\ offer.state = "PENDING" /\ offer.scope = scope
        /\ ~ SelfTechnical /\ ScopeChanged(b, scope) => offer.review = "PENDING"
    BY <1>3 DEF Offer, Envelope, Status
  <2>2. QED
    BY <2>1
<1> HIDE DEF offer
<1>7. ApprovedScope(b, envelope[b])
  BY DEF Inv, RowOK
<1>8. ApprovedScope(b, e)
  BY <1>1, <1>5, <1>6, <1>7 DEF ApprovedScope
<1>9. QED
  BY <1>1, <1>4, <1>6, <1>8, SupersedeInv

LEMMA TechReviewInv ==
  ASSUME Inv, NEW b \in Bid, NEW action \in {"APPROVED", "REVISION_REQUESTED"}, TechReview(b, action)
  PROVE  Inv'
<1> DEFINE reviewed == [envelope[b] EXCEPT !.review = action]
           row == [bid[b] EXCEPT !.tech = action, !.state = StateAfterReview(action)]
<1>1. envelope[b] \in Envelope /\ envelope[b] # NoEnvelope /\ RowOK(b)
      /\ envelope[b].review # "APPROVED"
  BY Typed DEF TechReview, MayReview, Inv
<1>2. PICK e \in Envelope :
        /\ e = reviewed /\ e.review = action
        /\ e.state = envelope[b].state /\ e.scope = envelope[b].scope
  <2>1. /\ reviewed \in Envelope /\ reviewed.review = action
        /\ reviewed.state = envelope[b].state /\ reviewed.scope = envelope[b].scope
    BY <1>1 DEF Envelope, Status
  <2>2. QED
    BY <2>1
<1>3. row \in BidRow
  BY <1>1, MadeRow DEF BidRow, BidState, Status, StateAfterReview
<1>4. /\ envelope' = [envelope EXCEPT ![b] = e] /\ bid' = [bid EXCEPT ![b] = row]
      /\ UNCHANGED <<framework, engagement, milestones, request>>
  BY <1>2 DEF TechReview, MayReview
<1>5. /\ approved' \in [Bid \ Legacy -> SUBSET Scope]
      /\ \A c \in Bid \ Legacy : approved[c] \subseteq approved'[c]
      /\ b \notin Legacy /\ action = "APPROVED" => envelope[b].scope \in approved'[b]
  <2>1. envelope[b].scope \in Scope
    BY <1>1, EnvelopeFields
  <2>2. QED
    BY <2>1, Typed DEF TechReview, MayReview
<1>6. ~ SelfTechnical
  BY DEF TechReview, MayReview
<1>7. envelope[b].state = "ACCEPTED" => b \in Legacy
  BY <1>1, <1>6 DEF RowOK, Accepted
<1> HIDE DEF reviewed, row
<1>8. ApprovedScope(b, e)'
  BY <1>2, <1>5 DEF ApprovedScope
<1>9. QED
  BY <1>2, <1>3, <1>4, <1>5, <1>7, <1>8, Typed, OneBidStep

LEMMA DeclinedTyped ==
  /\ \A row \in BidRow : DeclinedBid(row) \in BidRow /\ DeclinedBid(row).state = "DECLINED"
  /\ \A e \in Envelope : /\ DeclinedOffer(e) \in Envelope
                         /\ DeclinedOffer(e).review = e.review /\ DeclinedOffer(e).scope = e.scope
                         /\ DeclinedOffer(e).state = "ACCEPTED" <=> e.state = "ACCEPTED"
<1>1. ASSUME NEW row \in BidRow
      PROVE  DeclinedBid(row) \in BidRow /\ DeclinedBid(row).state = "DECLINED"
  BY DEF DeclinedBid, BidRow, BidState
<1>2. ASSUME NEW e \in Envelope
      PROVE  /\ DeclinedOffer(e) \in Envelope
             /\ DeclinedOffer(e).review = e.review /\ DeclinedOffer(e).scope = e.scope
             /\ DeclinedOffer(e).state = "ACCEPTED" <=> e.state = "ACCEPTED"
  BY DEF DeclinedOffer, Envelope
<1>3. QED
  BY <1>1, <1>2

LEMMA DeclineInv ==
  ASSUME Inv, NEW b \in Bid, NEW role \in Role, DeclineOffer(b, role)
  PROVE  Inv'
<1>1. /\ envelope[b] \in Envelope /\ envelope[b].state = "PENDING" /\ bid[b] \in BidRow
      /\ ApprovedScope(b, envelope[b]) /\ envelope[b] # NoEnvelope
  BY Typed, MadeRow DEF DeclineOffer, MayDecline, Inv, RowOK
<1>2. PICK e \in Envelope, row \in BidRow :
        /\ e = DeclinedOffer(envelope[b]) /\ row = DeclinedBid(bid[b])
        /\ e.review = envelope[b].review /\ e.scope = envelope[b].scope /\ e.state # "ACCEPTED"
  BY <1>1, DeclinedTyped
<1>3. /\ envelope' = [envelope EXCEPT ![b] = e] /\ bid' = [bid EXCEPT ![b] = row]
      /\ engagement' = [engagement EXCEPT ![b] = Left("DECLINED")]
      /\ UNCHANGED <<framework, milestones, approved, request>>
  BY <1>2 DEF DeclineOffer, DeclinedEngagement
<1>4. engagement' \in [Bid -> EngagementRow]
  BY <1>3, LeftTyped, Typed
<1>5. ApprovedScope(b, e)'
  BY <1>1, <1>2, <1>3 DEF ApprovedScope
<1>6. QED
  BY <1>2, <1>3, <1>4, <1>5, Typed, OneBidStep

(* Only a bid of the old form is without an envelope.                      *)
LEMMA ReconcileInv ==
  ASSUME Inv, NEW b \in Bid, NEW scope \in LegacyTerms(b), ReconcileLegacyBid(b, scope)
  PROVE  Inv'
<1> DEFINE review == IF WasChosen(b) \/ SelfTechnical THEN "APPROVED" ELSE bid[b].tech
           terms == [Offer(bid[b].version, "EXPERT", "CEO", scope, bid[b].version, FALSE) EXCEPT
                      !.state = IF WasChosen(b) THEN "ACCEPTED" ELSE "PENDING", !.review = review]
           chosen == [bid[b] EXCEPT !.state = "SELECTED", !.ceo = "APPROVED"]
           unreviewed == [bid[b] EXCEPT !.state = "SUBMITTED", !.tech = "APPROVED"]
<1>1. /\ Made(b) /\ b \in Legacy /\ scope \in Scope
      /\ bid[b] \in BidRow /\ bid[b].version \in 1..MaxVersion /\ bid[b].tech \in Status
  <2>1. Made(b) /\ envelope[b] = NoEnvelope
    BY DEF ReconcileLegacyBid
  <2>2. scope \in Scope
    BY FillInTyped, Typed DEF LegacyTerms
  <2>3. QED
    BY <2>1, <2>2, MadeRow DEF Inv, RowOK
<1>2. PICK e \in Envelope : e = terms
  <2>1. terms \in Envelope
    BY <1>1 DEF Offer, Envelope, Role, Status
  <2>2. QED
    BY <2>1
<1>3. chosen \in BidRow /\ unreviewed \in BidRow
  BY <1>1 DEF BidRow, BidState, Status
<1>4. /\ envelope' = [envelope EXCEPT ![b] = e]
      /\ UNCHANGED <<engagement, approved, request>>
  BY <1>2 DEF ReconcileLegacyBid
<1>5. PICK row \in BidRow : bid' = [bid EXCEPT ![b] = row]
  <2>1. \/ bid' = [bid EXCEPT ![b] = chosen] \/ bid' = [bid EXCEPT ![b] = unreviewed]
        \/ bid' = bid
    BY DEF ReconcileLegacyBid
  <2>2. bid = [bid EXCEPT ![b] = bid[b]]
    BY Typed
  <2> HIDE DEF chosen, unreviewed
  <2>3. QED
    BY <1>1, <1>3, <2>1, <2>2
<1>6. /\ milestones' \in [Bid -> Scope \cup {NoRows}]
      /\ framework' \in [scope : Scope, mirrors : Bid \cup {Nobody}]
  BY <1>1, Typed DEF ReconcileLegacyBid
<1>7. ApprovedScope(b, e)'
  BY <1>1 DEF ApprovedScope
<1>8. QED
  BY <1>1, <1>4, <1>5, <1>6, <1>7, Typed, OneBidStep

LEMMA WithdrawInv ==
  ASSUME Inv, NEW h \in Handler, WithdrawBid(h)
  PROVE  Inv'
<1>1. PICK b \in Bid, e \in Envelope \cup {NoEnvelope} :
        b = request[h].b /\ e = request[h].envelope
  BY Typed, RequestFields DEF WithdrawBid
<1>2. Made(b) /\ (e # NoEnvelope => e.state = "DECLINED") /\ ApprovedScope(b, e)
  BY <1>1 DEF Inv, RequestOK, WithdrawBid
<1>3. PICK row \in BidRow : row = [bid[b] EXCEPT !.state = "WITHDRAWN"]
  <2>1. [bid[b] EXCEPT !.state = "WITHDRAWN"] \in BidRow
    BY <1>2, MadeRow DEF BidRow, BidState
  <2>2. QED
    BY <2>1
<1>4. /\ bid' = [bid EXCEPT ![b] = row]
      /\ envelope' = IF e = NoEnvelope THEN envelope ELSE [envelope EXCEPT ![b] = e]
      /\ Becomes(h, [op |-> "withdrawn", b |-> b])
      /\ UNCHANGED <<framework, engagement, milestones, approved>>
  BY <1>1, <1>3 DEF WithdrawBid
<1>5. /\ request' \in [Handler -> Request]
      /\ \A g \in Handler : request'[g] = request[g] \/ RequestOK(g)'
  <2>1. [op |-> "withdrawn", b |-> b] \in Request
    BY DEF Request
  <2>2. /\ request' \in [Handler -> Request]
        /\ request'[h] = [op |-> "withdrawn", b |-> b]
        /\ \A g \in Handler \ {h} : request'[g] = request[g]
    BY <1>4, <2>1, Typed DEF Becomes
  <2>3. RequestOK(h)'
    BY <2>2 DEF RequestOK
  <2>4. QED
    BY <2>2, <2>3
<1>6. CASE e # NoEnvelope
  <2>1. ApprovedScope(b, e)'
    BY <1>2, <1>4 DEF ApprovedScope
  <2>2. QED
    BY <1>2, <1>4, <1>5, <1>6, <2>1, Typed, OneBidStep
<1>7. CASE e = NoEnvelope /\ envelope[b] # NoEnvelope
  <2>1. envelope[b] \in Envelope /\ envelope' = [envelope EXCEPT ![b] = envelope[b]]
    BY <1>4, <1>7, Typed
  <2>2. RowOK(b)
    BY DEF Inv
  <2>3. PICK f \in Envelope : f = envelope[b]
    BY <2>1
  <2>4. ApprovedScope(b, f)' /\ (f.state = "ACCEPTED" => b \in Legacy \/ SelfTechnical \/ f.review = "APPROVED")
    BY <1>4, <2>2, <2>3 DEF RowOK, ApprovedScope, Accepted
  <2>5. QED
    BY <1>4, <1>5, <2>1, <2>3, <2>4, Typed, OneBidStep
<1>8. CASE envelope[b] = NoEnvelope /\ e = NoEnvelope
  <2>1. b \in Legacy
    BY <1>2, <1>8 DEF Inv, RowOK
  <2>2. row # NoBid /\ envelope' = envelope
    BY <1>4, <1>8 DEF BidRow, NoBid, BidState
  <2>3. /\ bid'[b] = row
        /\ \A c \in Bid \ {b} : bid'[c] = bid[c]
    BY <1>4, Typed
  <2>4. \A c \in Bid : Made(c) => Made(c)'
    BY <2>2, <2>3 DEF Made
  <2>5. \A g \in Handler : RequestOK(g)'
    BY <1>4, <1>5, <2>4, RequestsStay
  <2>6. RowOK(b)'
    BY <1>8, <2>1, <2>2, <2>3 DEF RowOK, Made, Accepted, ApprovedScope, NoEnvelope
  <2>7. ASSUME NEW c \in Bid \ {b}
        PROVE  RowOK(c)'
    <3>1. RowOK(c)
      BY DEF Inv
    <3>2. QED
      BY <1>4, <2>2, <2>3, <3>1 DEF RowOK, Made, Accepted, ApprovedScope
  <2>8. TypeOK'
    BY <1>4, <1>5, <2>2, Typed DEF TypeOK, EngagementRow, BidRow
  <2>9. QED
    BY <2>5, <2>6, <2>7, <2>8 DEF Inv
<1>9. QED
  BY <1>6, <1>7, <1>8

(* What an acceptance does to the bid accepted, to its rivals and to the   *)
(* others.                                                                 *)
LEMMA AcceptRows ==
  ASSUME Inv, NEW b \in Bid, NEW role \in Role, AcceptOffer(b, role)
  PROVE  /\ Made(b) /\ envelope[b] \in Envelope /\ envelope[b].state = "PENDING"
         /\ bid'[b] \in BidRow /\ bid'[b].state = "SELECTED" /\ bid'[b].version = bid[b].version
         /\ envelope'[b] \in Envelope /\ envelope'[b].state = "ACCEPTED"
         /\ envelope'[b].version = envelope[b].version
         /\ envelope'[b].scopeVersion = envelope[b].scopeVersion
         /\ envelope'[b].reviewVersion = envelope[b].reviewVersion
         /\ envelope'[b].review = envelope[b].review
         /\ envelope'[b].scope = FillIn(envelope[b].scope)
         /\ milestones' = [milestones EXCEPT ![b] = FillIn(envelope[b].scope)]
         /\ framework' = [scope |-> FillIn(envelope[b].scope), mirrors |-> b]
         /\ engagement'[b] = engagement[b]
         /\ \A c \in Bid \ {b} : c \in Rivals(b) =>
              /\ bid'[c] = DeclinedBid(bid[c]) /\ envelope'[c] = DeclinedOffer(envelope[c])
              /\ engagement'[c] = Left("DECLINED")
         /\ \A c \in Bid \ {b} : c \notin Rivals(b) =>
              bid'[c] = bid[c] /\ envelope'[c] = envelope[c] /\ engagement'[c] = engagement[c]
<1>1. envelope[b] \in Envelope /\ envelope[b].state = "PENDING" /\ Made(b) /\ bid[b] \in BidRow
  BY Typed, MadeRow DEF AcceptOffer, MayAccept
<1>2. b \notin Rivals(b)
  BY DEF Rivals
<1> DEFINE row(c) == [bid[c] EXCEPT !.state = "SELECTED", !.ceo = "APPROVED"]
           terms(c) == [envelope[c] EXCEPT !.state = "ACCEPTED", !.scope = FillIn(envelope[b].scope)]
<1>3. bid' = [c \in Bid |-> CASE c = b -> row(c)
                              [] c \in Rivals(b) -> DeclinedBid(bid[c])
                              [] OTHER -> bid[c]]
  BY Zenon DEF AcceptOffer
<1>4. envelope' = [c \in Bid |-> CASE c = b -> terms(c)
                                   [] c \in Rivals(b) -> DeclinedOffer(envelope[c])
                                   [] OTHER -> envelope[c]]
  BY Zenon DEF AcceptOffer
<1>5. row(b) \in BidRow /\ row(b).state = "SELECTED" /\ row(b).version = bid[b].version
  BY <1>1 DEF BidRow, BidState
<1>6. FillIn(envelope[b].scope) \in Scope
  BY <1>1, FillInTyped, EnvelopeFields
<1>7. /\ terms(b) \in Envelope /\ terms(b).state = "ACCEPTED"
      /\ terms(b).version = envelope[b].version
      /\ terms(b).scopeVersion = envelope[b].scopeVersion
      /\ terms(b).reviewVersion = envelope[b].reviewVersion
      /\ terms(b).review = envelope[b].review
      /\ terms(b).scope = FillIn(envelope[b].scope)
  BY <1>1, <1>6 DEF Envelope
<1> HIDE DEF row, terms
<1>8. engagement'[b] = engagement[b]
  BY <1>2 DEF AcceptOffer
<1>9. ASSUME NEW c \in Bid \ {b}, c \in Rivals(b)
      PROVE  /\ bid'[c] = DeclinedBid(bid[c]) /\ envelope'[c] = DeclinedOffer(envelope[c])
             /\ engagement'[c] = Left("DECLINED")
  BY <1>3, <1>4, <1>9 DEF AcceptOffer, DeclinedEngagement
<1>10. ASSUME NEW c \in Bid \ {b}, c \notin Rivals(b)
       PROVE  bid'[c] = bid[c] /\ envelope'[c] = envelope[c] /\ engagement'[c] = engagement[c]
  BY <1>3, <1>4, <1>10 DEF AcceptOffer
<1>11. /\ milestones' = [milestones EXCEPT ![b] = FillIn(envelope[b].scope)]
       /\ framework' = [scope |-> FillIn(envelope[b].scope), mirrors |-> b]
  BY DEF AcceptOffer
<1>12. bid'[b] = row(b) /\ envelope'[b] = terms(b)
  BY <1>2, <1>3, <1>4
<1>13. QED
  BY <1>1, <1>5, <1>7, <1>8, <1>9, <1>10, <1>11, <1>12

LEMMA AcceptInv ==
  ASSUME Inv, NEW b \in Bid, NEW role \in Role, AcceptOffer(b, role)
  PROVE  Inv'
<1>1. UNCHANGED <<approved, request>>
  BY DEF AcceptOffer
<1>2. /\ \A c \in Bid : bid'[c] \in {NoBid} \cup BidRow /\ (Made(c) => bid'[c] \in BidRow)
      /\ \A c \in Bid : ~ Made(c) => bid'[c] = bid[c]
      /\ \A c \in Bid : envelope'[c] \in {NoEnvelope} \cup Envelope
      /\ \A c \in Bid : envelope'[c] = NoEnvelope <=> envelope[c] = NoEnvelope
      /\ \A c \in Bid : engagement'[c] \in EngagementRow
  <2>1. ASSUME NEW c \in Bid
        PROVE  /\ bid'[c] \in {NoBid} \cup BidRow /\ (Made(c) => bid'[c] \in BidRow)
               /\ ~ Made(c) => bid'[c] = bid[c]
               /\ envelope'[c] \in {NoEnvelope} \cup Envelope
               /\ envelope'[c] = NoEnvelope <=> envelope[c] = NoEnvelope
               /\ engagement'[c] \in EngagementRow
    <3>1. CASE c = b
      <4>1. envelope'[b] # NoEnvelope /\ envelope[b] # NoEnvelope
        BY AcceptRows, EnvelopeFields
      <4>2. QED
        BY <3>1, <4>1, AcceptRows, Typed
    <3>2. CASE c # b /\ c \notin Rivals(b)
      BY <3>2, AcceptRows, Typed, MadeRow
    <3>3. CASE c # b /\ c \in Rivals(b)
      <4>1. Made(c) /\ bid'[c] = DeclinedBid(bid[c]) /\ envelope'[c] = DeclinedOffer(envelope[c])
            /\ engagement'[c] = Left("DECLINED")
        BY <3>3, AcceptRows DEF Rivals
      <4>2. bid'[c] \in BidRow
        BY <4>1, MadeRow, DeclinedTyped
      <4>3. CASE envelope[c] = NoEnvelope
        BY <4>1, <4>2, <4>3, LeftTyped DEF DeclinedOffer, NoEnvelope
      <4>4. CASE envelope[c] # NoEnvelope
        <5>1. envelope[c] \in Envelope
          BY <4>4, Typed
        <5>2. envelope'[c] \in Envelope /\ envelope'[c] # NoEnvelope
          BY <4>1, <5>1, DeclinedTyped, EnvelopeFields
        <5>3. QED
          BY <4>1, <4>2, <4>4, <5>2, LeftTyped
      <4>5. QED
        BY <4>3, <4>4
    <3>4. QED
      BY <3>1, <3>2, <3>3
  <2>2. QED
    BY <2>1
<1>3. /\ bid' \in [Bid -> {NoBid} \cup BidRow]
      /\ envelope' \in [Bid -> {NoEnvelope} \cup Envelope]
      /\ engagement' \in [Bid -> EngagementRow]
  <2> DEFINE row(c) == CASE c = b -> [bid[c] EXCEPT !.state = "SELECTED", !.ceo = "APPROVED"]
                         [] c \in Rivals(b) -> DeclinedBid(bid[c])
                         [] OTHER -> bid[c]
             terms(c) == CASE c = b -> [envelope[c] EXCEPT !.state = "ACCEPTED",
                                                           !.scope = FillIn(envelope[b].scope)]
                           [] c \in Rivals(b) -> DeclinedOffer(envelope[c])
                           [] OTHER -> envelope[c]
  <2>1. bid' = [c \in Bid |-> row(c)] /\ envelope' = [c \in Bid |-> terms(c)]
    BY Zenon DEF AcceptOffer
  <2> HIDE DEF row, terms
  <2>2. \A c \in Bid : bid'[c] = row(c) /\ envelope'[c] = terms(c)
    BY <2>1
  <2>3. engagement' \in [Bid -> EngagementRow]
    BY Typed, LeftTyped DEF AcceptOffer, DeclinedEngagement
  <2>4. QED
    BY <1>2, <2>1, <2>2, <2>3
<1>4. /\ milestones' \in [Bid -> Scope \cup {NoRows}]
      /\ framework' \in [scope : Scope, mirrors : Bid \cup {Nobody}]
  <2>1. FillIn(envelope[b].scope) \in Scope
    BY AcceptRows, EnvelopeFields, FillInTyped
  <2>2. QED
    BY <2>1, AcceptRows, Typed
<1>5. TypeOK'
  BY <1>1, <1>3, <1>4, Typed DEF TypeOK, EngagementRow, BidRow
<1>6. \A c \in Bid : Made(c) <=> Made(c)'
  <2>1. \A row \in BidRow : row # NoBid
    BY DEF BidRow, NoBid, BidState
  <2>2. QED
    BY <1>2, <2>1 DEF Made
<1>7. \A h \in Handler : RequestOK(h)'
  BY <1>1, <1>6, RequestsStay
<1>8. ASSUME NEW c \in Bid
      PROVE  RowOK(c)'
  <2>1. RowOK(c)
    BY DEF Inv
  <2>2. /\ envelope'[c] # NoEnvelope => Made(c)'
        /\ c \notin Legacy /\ Made(c)' => envelope'[c] # NoEnvelope
    BY <1>2, <1>6, <2>1 DEF RowOK
  <2>3. CASE c = b
    <3>1. SelfTechnical \/ envelope[b].review = "APPROVED"
      BY DEF AcceptOffer, MayAccept, Reviewed
    <3>2. envelope[b].scope = Open \/ envelope'[b].scope = envelope[b].scope
      BY AcceptRows DEF FillIn
    <3>3. ApprovedScope(b, envelope[b]) /\ envelope[b] # NoEnvelope
      BY <2>1, <2>3, AcceptRows, EnvelopeFields DEF RowOK
    <3>4. ApprovedScope(c, envelope[c])'
      BY <1>1, <2>3, <3>2, <3>3, AcceptRows DEF ApprovedScope
    <3>5. QED
      BY <2>2, <2>3, <3>1, <3>4, AcceptRows DEF RowOK, Accepted
  <2>4. CASE c # b /\ c \notin Rivals(b)
    <3>1. envelope'[c] = envelope[c]
      BY <2>4, AcceptRows
    <3>2. QED
      BY <1>1, <2>1, <2>2, <3>1 DEF RowOK, Accepted, ApprovedScope
  <2>5. CASE c # b /\ c \in Rivals(b)
    <3>1. envelope'[c] = DeclinedOffer(envelope[c])
      BY <2>5, AcceptRows
    <3>2. CASE envelope[c] = NoEnvelope
      BY <1>2, <2>2, <3>2 DEF RowOK, Accepted, ApprovedScope, NoEnvelope
    <3>3. CASE envelope[c] # NoEnvelope
      <4>1. envelope[c] \in Envelope
        BY <3>3, Typed
      <4>2. /\ envelope'[c].review = envelope[c].review /\ envelope'[c].scope = envelope[c].scope
            /\ envelope'[c].state = "ACCEPTED" <=> envelope[c].state = "ACCEPTED"
        BY <3>1, <4>1, DeclinedTyped
      <4>3. QED
        BY <1>1, <2>1, <2>2, <3>3, <4>2 DEF RowOK, Accepted, ApprovedScope
    <3>4. QED
      BY <3>2, <3>3
  <2>6. QED
    BY <2>3, <2>4, <2>5
<1>9. QED
  BY <1>5, <1>7, <1>8 DEF Inv

-----------------------------------------------------------------------------
LEMMA InvInductive == Inv /\ [Next]_vars => Inv'
<1> SUFFICES ASSUME Inv, [Next]_vars PROVE Inv'
  OBVIOUS
<1>1. CASE UNCHANGED vars
  BY <1>1 DEF vars, Inv, TypeOK, RowOK, RequestOK, Made, Accepted, ApprovedScope
<1>2. ASSUME NEW h \in Handler, Serve(h)
      PROVE  Inv'
  BY <1>2, BeginInv, OtherInv, CreateInv, WithdrawInv DEF Serve
<1>3. ASSUME NEW b \in Bid, Negotiate(b)
      PROVE  Inv'
  BY <1>3, UpdateInv, TechReviewInv, CreateOfferInv, AcceptInv, DeclineInv, EngagementInv,
     ReconcileInv DEF Negotiate
<1>4. QED
  BY <1>1, <1>2, <1>3 DEF Next

LEMMA SpecInv == Spec => []Inv
  BY InitInv, InvInductive, PTL DEF Spec

(* For any number of bids, offers and overlapping requests, every column   *)
(* of the negotiation keeps its type.                                      *)
THEOREM TypeCorrect == Spec => []TypeOK
<1>1. Inv => TypeOK
  BY DEF Inv
<1>2. QED
  BY <1>1, SpecInv, PTL

(* However requests overlap, no scope is accepted that the tech team has   *)
(* not approved in that bid, or that the framework has not supplied.       *)
THEOREM ReviewComesFirst == Spec => []ReviewedBeforeAccepted
<1>1. Inv => ReviewedBeforeAccepted
  BY DEF Inv, RowOK, ApprovedScope, Accepted, NoEnvelope, ReviewedBeforeAccepted
<1>2. QED
  BY <1>1, SpecInv, PTL

-----------------------------------------------------------------------------
(* From here on requests are served one at a time, and at most one bid is  *)
(* older than the envelope.                                                *)
OneAtATime == \A g, h \in Handler : g = h
OneLegacy  == \A a, b \in Legacy : a = b

Selected(b) == bid[b].state = "SELECTED"

(* Only a selected bid has a contract alive, and the framework and its     *)
(* milestones are the contract's.                                          *)
ContractRow(b) ==
  /\ Accepted(b) => bid[b].state \in {"SELECTED", "DECLINED"} /\ milestones[b] = envelope[b].scope
  /\ bid[b].state = "DECLINED" => ~ IsLive(b)
  /\ Selected(b) /\ Accepted(b) => framework = [scope |-> milestones[b], mirrors |-> b]
  /\ Made(b) /\ envelope[b] = NoEnvelope /\ WasChosen(b) => Selected(b)

OneSelected == \A b, c \in Bid : Selected(b) /\ Selected(c) => b = c

Contracts == (\A b \in Bid : ContractRow(b)) /\ OneSelected

(* What a request has read still holds when it takes its next step.        *)
StillTrue(r) ==
  /\ r.op = "withdraw" => /\ bid[r.b].state \in {"SUBMITTED", "TECH_REVIEW"}
                          /\ r.envelope = NoEnvelope => envelope[r.b] = NoEnvelope
  /\ r.op = "edit" => ~ Accepted(r.b)
  /\ r.op = "framework" => /\ \A b \in Bid : ~ (Selected(b) /\ Accepted(b))
                           /\ r.b # Nobody => ~ Accepted(r.b)

Serial == Inv /\ Contracts /\ \A h \in Handler : StillTrue(request[h])

LEMMA SerialInit ==
  ASSUME OneLegacy
  PROVE  Init => Serial
<1> SUFFICES ASSUME Init PROVE Serial
  OBVIOUS
<1>1. Inv
  BY InitInv
<1>2. /\ \A b \in Bid : envelope[b] = NoEnvelope
      /\ \A h \in Handler : request[h] = Idle
  BY DEF Init
<1>3. PICK e \in Expert, state \in {"SUBMITTED", "SELECTED"}, progress \in {"PENDING", "CONNECTED"} :
        /\ \A b \in Legacy : /\ bid[b].state = state
                             /\ bid[b].ceo = IF state = "SELECTED" THEN "APPROVED" ELSE "PENDING"
                             /\ engagement[b].state = progress
        /\ \A b \in Bid \ Legacy : bid[b] = NoBid
        /\ progress = "CONNECTED" => state = "SELECTED"
  BY ConstantsOK DEF Init, ConstantsOK, Left
<1>4. \A b \in Bid : ContractRow(b)
  BY <1>2, <1>3 DEF ContractRow, Accepted, NoEnvelope, NoBid, Made, WasChosen, Selected
<1>5. OneSelected
  BY <1>3 DEF OneSelected, Selected, NoBid, OneLegacy
<1>6. QED
  BY <1>1, <1>2, <1>4, <1>5 DEF Serial, Contracts, StillTrue, Idle

-----------------------------------------------------------------------------
(* A request that only reads.                                              *)
LEMMA SerialRead ==
  ASSUME OneAtATime, Serial, Inv', NEW h \in Handler, NEW r, Becomes(h, r), StillTrue(r),
         UNCHANGED <<framework, bid, envelope, engagement, milestones, approved>>
  PROVE  Serial'
<1>1. \A g \in Handler : request'[g] = r
  BY Typed DEF Serial, OneAtATime, Becomes
<1>2. \A g \in Handler : StillTrue(request[g])'
  BY <1>1 DEF StillTrue, Selected, Accepted
<1>3. Contracts'
  BY DEF Serial, Contracts, ContractRow, OneSelected, Selected, Accepted, IsLive, Made, WasChosen
<1>4. QED
  BY <1>2, <1>3 DEF Serial

(* A request that remembers nothing any more.                              *)
LEMMA SerialWrite ==
  ASSUME OneAtATime, Serial, Inv', Contracts', NEW h \in Handler, NEW r, Becomes(h, r),
         r.op \notin {"withdraw", "edit", "framework"}
  PROVE  Serial'
<1>1. \A g \in Handler : request'[g] = r
  BY Typed DEF Serial, OneAtATime, Becomes
<1>2. \A g \in Handler : StillTrue(request[g])'
  BY <1>1 DEF StillTrue
<1>3. QED
  BY <1>2 DEF Serial

LEMMA SerialEnds ==
  ASSUME OneAtATime, Serial, Inv', Contracts', NEW h \in Handler, Ends(h)
  PROVE  Serial'
<1>1. Idle.op \notin {"withdraw", "edit", "framework"}
  BY DEF Idle
<1>2. QED
  BY <1>1, SerialWrite DEF Ends

(* A step that concerns one bid.                                           *)
LEMMA OneContractRow ==
  ASSUME Serial, NEW b \in Bid,
         \A c \in Bid \ {b} :
           /\ bid'[c] = bid[c] /\ envelope'[c] = envelope[c]
           /\ engagement'[c] = engagement[c] /\ milestones'[c] = milestones[c],
         framework' = framework \/ \A c \in Bid \ {b} : ~ (Selected(c) /\ Accepted(c)),
         ContractRow(b)', Selected(b)' => Selected(b)
  PROVE  Contracts'
<1>1. ASSUME NEW c \in Bid \ {b}
      PROVE  ContractRow(c)' /\ (Selected(c)' <=> Selected(c))
  <2>1. ContractRow(c)
    BY DEF Serial, Contracts
  <2>2. QED
    BY <2>1 DEF ContractRow, Selected, Accepted, IsLive, Made, WasChosen
<1>2. OneSelected'
  BY <1>1 DEF Serial, Contracts, OneSelected
<1>3. QED
  BY <1>1, <1>2 DEF Contracts

(* A bid with an offer that is not accepted is still open.                 *)
LEMMA OpenRow ==
  ASSUME Serial, NEW b \in Bid,
         envelope'[b] # NoEnvelope, envelope'[b].state # "ACCEPTED",
         bid'[b].state \notin {"SELECTED", "DECLINED"},
         \A c \in Bid \ {b} :
           /\ bid'[c] = bid[c] /\ envelope'[c] = envelope[c] /\ engagement'[c] = engagement[c],
         milestones' = milestones, framework' = framework
  PROVE  Contracts'
<1>1. ContractRow(b)' /\ ~ Selected(b)'
  BY DEF ContractRow, Selected, Accepted
<1>2. QED
  BY <1>1, OneContractRow

LEMMA SerialBegin ==
  ASSUME OneAtATime, Serial, Inv', NEW h \in Handler,
         \/ \E e \in Expert, offered \in Scope : BeginCreate(h, e, offered)
         \/ \E b \in Bid : BeginWithdraw(h, b) \/ BeginEdit(h, b)
         \/ BeginUpdateFramework(h) \/ BeginUpdateProjectMilestones(h) \/ Stop(h)
  PROVE  Serial'
<1>1. CASE \E e \in Expert, offered \in Scope : BeginCreate(h, e, offered)
  <2>1. PICK e \in Expert, offered \in Scope : BeginCreate(h, e, offered)
    BY <1>1
  <2>2. StillTrue([op |-> "create", expert |-> e, scope |-> FillIn(offered)])
    BY DEF StillTrue
  <2>3. QED
    BY <2>1, <2>2, SerialRead DEF BeginCreate, Starts, Becomes
<1>2. ASSUME NEW b \in Bid, BeginWithdraw(h, b)
      PROVE  Serial'
  <2> DEFINE e == IF envelope[b] = NoEnvelope THEN NoEnvelope
                                              ELSE [envelope[b] EXCEPT !.state = "DECLINED"]
             r == [op |-> "withdraw", b |-> b, envelope |-> e]
  <2>1. e = NoEnvelope => envelope[b] = NoEnvelope
    <3>1. ASSUME envelope[b] # NoEnvelope
          PROVE  [envelope[b] EXCEPT !.state = "DECLINED"] # NoEnvelope
      <4>1. envelope[b] \in Envelope
        BY <3>1, Typed DEF Serial
      <4>2. [envelope[b] EXCEPT !.state = "DECLINED"].state = "DECLINED"
        BY <4>1 DEF Envelope
      <4>3. QED
        BY <4>2 DEF NoEnvelope
    <3>2. QED
      BY <3>1
  <2>2. bid[b].state \in {"SUBMITTED", "TECH_REVIEW"} /\ Becomes(h, r)
    BY <1>2 DEF BeginWithdraw, MayWithdraw, Starts, Becomes
  <2> HIDE DEF e
  <2>3. StillTrue(r)
    BY <2>1, <2>2 DEF StillTrue
  <2>4. QED
    BY <1>2, <2>2, <2>3, SerialRead DEF BeginWithdraw, MayWithdraw
<1>3. ASSUME NEW b \in Bid, BeginEdit(h, b)
      PROVE  Serial'
  <2>1. StillTrue([op |-> "edit", b |-> b])
    BY <1>3 DEF BeginEdit, TermsEditable, StillTrue
  <2>2. QED
    BY <1>3, <2>1, SerialRead DEF BeginEdit, Starts, Becomes
<1>4. CASE BeginUpdateFramework(h) \/ BeginUpdateProjectMilestones(h)
  <2>1. \A b \in Bid : ~ (Selected(b) /\ Accepted(b))
    BY <1>4 DEF BeginUpdateFramework, BeginUpdateProjectMilestones, ProjectTermsEditable, Serial,
       Contracts, OneSelected, Selected
  <2>2. PICK b \in Bid \cup {Nobody} :
          /\ Becomes(h, [op |-> "framework", b |-> b])
          /\ b = Nobody \/ (b \in Bid /\ engagement[b].state \in {"CONNECTED", "ACTIVE"})
    BY <1>4 DEF BeginUpdateFramework, BeginUpdateProjectMilestones, Starts, Becomes
  <2>3. b # Nobody => ~ Accepted(b)
    BY <2>1, <2>2 DEF Serial, Contracts, ContractRow, IsLive, LiveState, Selected
  <2>4. StillTrue([op |-> "framework", b |-> b])
    BY <2>1, <2>3 DEF StillTrue
  <2>5. QED
    BY <1>4, <2>2, <2>4, SerialRead DEF BeginUpdateFramework, BeginUpdateProjectMilestones
<1>5. CASE Stop(h)
  <2>1. StillTrue(Idle)
    BY DEF StillTrue, Idle
  <2>2. QED
    BY <1>5, <2>1, SerialRead DEF Stop, Ends
<1>6. QED
  BY <1>1, <1>2, <1>3, <1>4, <1>5

LEMMA SerialCreate ==
  ASSUME OneAtATime, Serial, Inv', NEW h \in Handler, CommitCreate(h)
  PROVE  Serial'
<1> DEFINE r == request[h]
           row == [expert |-> r.expert, state |-> "SUBMITTED", version |-> 1,
                   tech |-> IF ~ SelfTechnical THEN "PENDING" ELSE "APPROVED", ceo |-> "PENDING"]
           offer == Offer(1, "EXPERT", "CEO", r.scope, 1, ~ SelfTechnical)
<1>1. offer # NoEnvelope /\ offer.state = "PENDING" /\ row.state = "SUBMITTED"
  BY DEF Offer, NoEnvelope
<1>2. PICK b \in Bid :
        /\ bid' = [bid EXCEPT ![b] = row] /\ envelope' = [envelope EXCEPT ![b] = offer]
        /\ engagement' = [engagement EXCEPT ![b] = Left("PENDING")]
  BY DEF CommitCreate
<1>3. Ends(h) /\ UNCHANGED <<framework, milestones>>
  BY DEF CommitCreate
<1> HIDE DEF r, row, offer
<1>4. /\ bid'[b] = row /\ envelope'[b] = offer
      /\ \A c \in Bid \ {b} :
           /\ bid'[c] = bid[c] /\ envelope'[c] = envelope[c] /\ engagement'[c] = engagement[c]
  BY <1>2, Typed DEF Serial
<1>5. Contracts'
  BY <1>1, <1>3, <1>4, OpenRow
<1>6. QED
  BY <1>3, <1>5, SerialEnds

(* The requests that are one transaction find no other in progress.        *)
LEMMA SerialTransaction ==
  ASSUME OneAtATime, Serial, Inv', Contracts', request' = request,
         NEW h \in Handler, request[h] = Idle
  PROVE  Serial'
<1>1. \A g \in Handler : request'[g] = Idle
  BY DEF OneAtATime
<1>2. \A g \in Handler : StillTrue(request[g])'
  BY <1>1 DEF StillTrue, Idle
<1>3. QED
  BY <1>2 DEF Serial

(* A counter-offer, a revision or a review leaves the bid open.            *)
LEMMA ContractsOffer ==
  ASSUME Serial, NEW b \in Bid,
         \/ \E offered \in Scope : Update(b, offered)
         \/ \E role \in Role, offered \in Scope : CreateOffer(b, role, offered)
         \/ \E action \in {"APPROVED", "REVISION_REQUESTED"} : TechReview(b, action)
  PROVE  Contracts'
<1>0. envelope[b] \in Envelope /\ bid[b] \in BidRow /\ Inv /\ ContractRow(b)
  BY Typed, MadeRow DEF Serial, Contracts, Update, CreateOffer, TechReview, MayReview
<1>1. ASSUME NEW offer, NEW ceo, offer.state = "PENDING", Supersede(b, offer, ceo)
      PROVE  Contracts'
  <2>1. /\ envelope'[b] = offer
        /\ bid'[b].state \in {"TECH_REVIEW", "SUBMITTED"}
        /\ \A c \in Bid \ {b} : bid'[c] = bid[c] /\ envelope'[c] = envelope[c]
    BY <1>0, <1>1, Typed DEF Supersede, BidRow
  <2>2. offer # NoEnvelope
    BY <1>1 DEF NoEnvelope
  <2>3. UNCHANGED <<engagement, milestones, framework>>
    BY <1>1 DEF Supersede
  <2>4. QED
    BY <1>1, <2>1, <2>2, <2>3, OpenRow
<1>2. ASSUME NEW offered \in Scope, Update(b, offered)
      PROVE  Contracts'
  <2>1. PICK offer, ceo : offer.state = "PENDING" /\ Supersede(b, offer, ceo)
    BY <1>2 DEF Update, Offer
  <2>2. QED
    BY <1>1, <2>1
<1>3. ASSUME NEW role \in Role, NEW offered \in Scope, CreateOffer(b, role, offered)
      PROVE  Contracts'
  <2>1. PICK offer, ceo : offer.state = "PENDING" /\ Supersede(b, offer, ceo)
    BY <1>3 DEF CreateOffer, Offer
  <2>2. QED
    BY <1>1, <2>1
<1>4. ASSUME NEW action \in {"APPROVED", "REVISION_REQUESTED"}, TechReview(b, action)
      PROVE  Contracts'
  <2>1. envelope[b].state # "ACCEPTED" /\ envelope[b] # NoEnvelope
    BY <1>0, <1>4 DEF TechReview, MayReview, ContractRow, Accepted, Closed
  <2>2. /\ envelope'[b].state = envelope[b].state /\ envelope'[b].review = action
        /\ bid'[b].state \in {"SUBMITTED", "REVISION_REQUESTED"}
        /\ \A c \in Bid \ {b} : bid'[c] = bid[c] /\ envelope'[c] = envelope[c]
    BY <1>0, <1>4, Typed DEF TechReview, MayReview, BidRow, Envelope, StateAfterReview
  <2>3. envelope'[b] # NoEnvelope
    <3>1. envelope[b].state \in {"PENDING", "ACCEPTED", "DECLINED"}
      BY <1>0, EnvelopeFields
    <3>2. QED
      BY <2>2, <3>1 DEF NoEnvelope
  <2>4. UNCHANGED <<engagement, milestones, framework>>
    BY <1>4 DEF TechReview, MayReview
  <2>5. QED
    BY <2>1, <2>2, <2>3, <2>4, OpenRow
<1>5. QED
  BY <1>2, <1>3, <1>4

-----------------------------------------------------------------------------
(* Withdrawals and edits find what they have read.                         *)
LEMMA SerialWithdraw ==
  ASSUME OneAtATime, Serial, Inv', NEW h \in Handler, WithdrawBid(h) \/ WithdrawEngagement(h)
  PROVE  Serial'
<1>1. CASE WithdrawBid(h)
  <2>1. PICK b \in Bid, e \in Envelope \cup {NoEnvelope} :
          b = request[h].b /\ e = request[h].envelope
    BY <1>1, Typed, RequestFields DEF WithdrawBid, Serial
  <2>2. /\ bid[b].state \in {"SUBMITTED", "TECH_REVIEW"}
        /\ e = NoEnvelope => envelope[b] = NoEnvelope
        /\ e # NoEnvelope => e.state = "DECLINED"
    BY <1>1, <2>1 DEF WithdrawBid, Serial, StillTrue, Inv, RequestOK
  <2>3. /\ bid' = [bid EXCEPT ![b] = [bid[b] EXCEPT !.state = "WITHDRAWN"]]
        /\ envelope' = IF e = NoEnvelope THEN envelope ELSE [envelope EXCEPT ![b] = e]
        /\ Becomes(h, [op |-> "withdrawn", b |-> b])
        /\ UNCHANGED <<framework, engagement, milestones>>
    BY <1>1, <2>1 DEF WithdrawBid
  <2>4. bid[b] \in BidRow
    BY <2>2, MadeRow DEF Made, NoBid, Serial
  <2>5. /\ bid'[b].state = "WITHDRAWN" /\ bid'[b].ceo = bid[b].ceo
        /\ \A c \in Bid \ {b} : bid'[c] = bid[c] /\ envelope'[c] = envelope[c]
        /\ envelope'[b] = e
    BY <2>2, <2>3, <2>4, Typed DEF BidRow, Serial
  <2>6. Contracts'
    <3>1. CASE e # NoEnvelope
      BY <2>2, <2>3, <2>5, <3>1, OpenRow
    <3>2. CASE e = NoEnvelope
      <4>1. ~ WasChosen(b)
        BY <2>2, <2>4, <3>2, MadeRow DEF Serial, Contracts, ContractRow, Selected, Made, BidRow,
           NoBid
      <4>2. ~ WasChosen(b)'
        BY <2>3, <2>5, <4>1 DEF WasChosen
      <4>3. ContractRow(b)' /\ ~ Selected(b)'
        BY <2>5, <3>2, <4>2 DEF ContractRow, Selected, Accepted, NoEnvelope
      <4>4. QED
        BY <2>3, <2>5, <4>3, OneContractRow
    <3>3. QED
      BY <3>1, <3>2
  <2>7. QED
    BY <2>3, <2>6, SerialWrite
<1>2. CASE WithdrawEngagement(h)
  <2>1. PICK b \in Bid : engagement' = [engagement EXCEPT ![b] = Left("DECLINED")]
    BY <1>2, Typed, RequestFields DEF WithdrawEngagement, DeclinedEngagement, Serial
  <2>2. Ends(h) /\ UNCHANGED <<framework, bid, envelope, milestones>>
    BY <1>2 DEF WithdrawEngagement
  <2>3. /\ engagement'[b].state = "DECLINED"
        /\ \A c \in Bid \ {b} : engagement'[c] = engagement[c]
    BY <2>1, Typed DEF Left, Serial
  <2>4. ContractRow(b)
    BY DEF Serial, Contracts
  <2>5. ContractRow(b)' /\ (Selected(b)' <=> Selected(b))
    BY <2>2, <2>3, <2>4 DEF ContractRow, Selected, Accepted, IsLive, LiveState, Made, WasChosen
  <2>6. QED
    BY <2>2, <2>3, <2>5, OneContractRow, SerialEnds
<1>3. QED
  BY <1>1, <1>2

LEMMA SerialEdit ==
  ASSUME OneAtATime, Serial, Inv', NEW h \in Handler,
         \/ DeleteLastMilestone(h)
         \/ \E scope \in Scope : \/ CommitFramework(h, scope) \/ CreateMilestones(h, scope)
                                 \/ UpdateMilestone(h, scope)
  PROVE  Serial'
<1>1. ASSUME NEW rows, CommitMilestones(h, rows)
      PROVE  Serial'
  <2>1. PICK b \in Bid : b = request[h].b /\ ~ Accepted(b)
    BY <1>1, Typed, RequestFields DEF CommitMilestones, Serial, StillTrue
  <2>2. /\ \A c \in Bid \ {b} : milestones'[c] = milestones[c]
        /\ Ends(h) /\ UNCHANGED <<framework, bid, envelope, engagement>>
    BY <1>1, <2>1, Typed DEF CommitMilestones, Serial
  <2>3. ContractRow(b)
    BY DEF Serial, Contracts
  <2>4. ContractRow(b)' /\ (Selected(b)' <=> Selected(b))
    BY <2>1, <2>2, <2>3 DEF ContractRow, Selected, Accepted, IsLive, Made, WasChosen
  <2>5. QED
    BY <2>2, <2>4, OneContractRow, SerialEnds
<1>2. ASSUME NEW scope \in Scope, CommitFramework(h, scope)
      PROVE  Serial'
  <2>1. PICK b \in Bid \cup {Nobody} : b = request[h].b /\ (b # Nobody => ~ Accepted(b))
    BY <1>2, Typed, RequestFields DEF CommitFramework, Serial, StillTrue
  <2>2. \A c \in Bid : ~ (Selected(c) /\ Accepted(c))
    BY <1>2 DEF CommitFramework, Serial, StillTrue
  <2>3. milestones' = IF b = Nobody THEN milestones ELSE [milestones EXCEPT ![b] = scope]
    BY <1>2, <2>1 DEF CommitFramework
  <2>4. \A c \in Bid : Accepted(c) => milestones'[c] = milestones[c]
    BY <2>1, <2>3, Typed DEF Serial
  <2>5. Ends(h) /\ UNCHANGED <<bid, envelope, engagement>>
    BY <1>2 DEF CommitFramework
  <2>6. ASSUME NEW c \in Bid
        PROVE  ContractRow(c)' /\ (Selected(c)' <=> Selected(c))
    <3>1. ContractRow(c)
      BY DEF Serial, Contracts
    <3>2. QED
      BY <2>2, <2>4, <2>5, <3>1 DEF ContractRow, Selected, Accepted, IsLive, Made, WasChosen
  <2>7. Contracts'
    BY <2>6 DEF Serial, Contracts, OneSelected
  <2>8. QED
    BY <2>5, <2>7, SerialEnds
<1>3. QED
  BY <1>1, <1>2 DEF DeleteLastMilestone, CreateMilestones, UpdateMilestone

-----------------------------------------------------------------------------
(* The other transactions.                                                 *)
LEMMA ContractsEngagement ==
  ASSUME Serial, NEW b \in Bid, (\E role \in Role : Sign(b, role)) \/ LeaveEngagement(b)
  PROVE  Contracts'
<1>1. ContractRow(b) /\ b \in Bid
  BY DEF Serial, Contracts
<1>2. /\ \A c \in Bid \ {b} : engagement'[c] = engagement[c]
      /\ UNCHANGED <<framework, bid, envelope, milestones>>
  BY Typed DEF Sign, MaySign, LeaveEngagement, Serial
<1>3. ContractRow(b)'
  <2>1. ASSUME NEW role \in Role, Sign(b, role)
        PROVE  ContractRow(b)'
    <3>1. Accepted(b) /\ IsLive(b) /\ envelope[b] # NoEnvelope
      BY <2>1 DEF Sign, MaySign, IsLive, LiveState, Accepted, NoEnvelope
    <3>2. bid[b].state # "DECLINED"
      BY <1>1, <3>1 DEF ContractRow
    <3>3. QED
      BY <1>1, <1>2, <3>1, <3>2 DEF ContractRow, Accepted, Selected, Made
  <2>2. CASE LeaveEngagement(b)
    <3>1. engagement'[b].state \in {"DECLINED", "CANCELLED"}
      BY <2>2, Typed DEF LeaveEngagement, DeclinedEngagement, Left, Serial
    <3>2. QED
      BY <1>1, <1>2, <3>1 DEF ContractRow, Accepted, Selected, Made, IsLive, LiveState, WasChosen
  <2>3. QED
    BY <2>1, <2>2
<1>4. Selected(b)' => Selected(b)
  BY <1>2 DEF Selected
<1>5. QED
  BY <1>2, <1>3, <1>4, OneContractRow

LEMMA ContractsDecline ==
  ASSUME Serial, NEW b \in Bid, NEW role \in Role, DeclineOffer(b, role)
  PROVE  Contracts'
<1>1. /\ envelope[b] \in Envelope /\ envelope[b].state = "PENDING" /\ bid[b] \in BidRow
      /\ envelope[b] # NoEnvelope
  BY Typed, MadeRow DEF DeclineOffer, MayDecline, Serial
<1>2. /\ bid' = [bid EXCEPT ![b] = DeclinedBid(bid[b])]
      /\ envelope' = [envelope EXCEPT ![b] = DeclinedOffer(envelope[b])]
      /\ engagement' = [engagement EXCEPT ![b] = Left("DECLINED")]
      /\ UNCHANGED <<framework, milestones>>
  BY DEF DeclineOffer, DeclinedEngagement
<1>3. DeclinedOffer(envelope[b]) \in Envelope /\ DeclinedOffer(envelope[b]).state # "ACCEPTED"
  BY <1>1, DeclinedTyped
<1>4. /\ bid'[b].state = "DECLINED" /\ engagement'[b].state = "DECLINED"
      /\ envelope'[b] \in Envelope /\ envelope'[b].state # "ACCEPTED"
      /\ \A c \in Bid \ {b} :
           /\ bid'[c] = bid[c] /\ envelope'[c] = envelope[c] /\ engagement'[c] = engagement[c]
  BY <1>1, <1>2, <1>3, DeclinedTyped, Typed DEF Left, Serial
<1>5. ContractRow(b)' /\ ~ Selected(b)'
  BY <1>4, EnvelopeFields DEF ContractRow, Selected, Accepted, IsLive, LiveState
<1>6. QED
  BY <1>2, <1>4, <1>5, OneContractRow

LEMMA ContractsAccept ==
  ASSUME Serial, NEW b \in Bid, NEW role \in Role, AcceptOffer(b, role)
  PROVE  Contracts'
<1>1. Inv
  BY DEF Serial
<1>2. /\ milestones'[b] = envelope'[b].scope
      /\ framework' = [scope |-> milestones'[b], mirrors |-> b]
      /\ \A c \in Bid \ {b} : milestones'[c] = milestones[c]
      /\ bid'[b].state = "SELECTED" /\ envelope'[b].state = "ACCEPTED"
      /\ envelope'[b] # NoEnvelope
  BY <1>1, AcceptRows, EnvelopeFields, Typed
<1>3. ContractRow(b)'
  BY <1>2 DEF ContractRow, Accepted
<1>4. ASSUME NEW c \in Bid \ {b}
      PROVE  ContractRow(c)' /\ ~ Selected(c)'
  <2>1. ContractRow(c)
    BY DEF Serial, Contracts
  <2>2. CASE c \in Rivals(b)
    <3>1. /\ bid'[c] = DeclinedBid(bid[c]) /\ envelope'[c] = DeclinedOffer(envelope[c])
          /\ engagement'[c].state = "DECLINED"
      BY <1>1, <2>2, AcceptRows DEF Left
    <3>2. bid[c] \in BidRow
      BY <1>1, <2>2, MadeRow DEF Rivals
    <3>3. bid'[c].state = "DECLINED" /\ bid'[c].ceo = "DECLINED"
      BY <3>1, <3>2 DEF DeclinedBid, BidRow
    <3>4. /\ Accepted(c)' => Accepted(c) /\ envelope'[c].scope = envelope[c].scope
          /\ Accepted(c) => bid[c].state \in {"SELECTED", "DECLINED"}
      <4>1. CASE envelope[c] = NoEnvelope
        BY <2>1, <3>1, <4>1 DEF DeclinedOffer, NoEnvelope, Accepted, ContractRow
      <4>2. CASE envelope[c] # NoEnvelope
        <5>1. envelope[c] \in Envelope
          BY <1>1, <4>2, Typed
        <5>2. QED
          BY <2>1, <3>1, <5>1, DeclinedTyped DEF Accepted, ContractRow
      <4>3. QED
        BY <4>1, <4>2
    <3>5. ~ WasChosen(c)' /\ ~ Selected(c)' /\ ~ IsLive(c)'
      BY <3>1, <3>3 DEF WasChosen, Selected, IsLive, LiveState
    <3>6. QED
      BY <1>2, <2>1, <3>3, <3>4, <3>5 DEF ContractRow, Accepted
  <2>3. CASE c \notin Rivals(b)
    <3>1. bid'[c] = bid[c] /\ envelope'[c] = envelope[c] /\ engagement'[c] = engagement[c]
      BY <1>1, <2>3, AcceptRows
    <3>2. ~ Selected(c)
      BY <2>3 DEF Rivals, Made, Selected, NoBid
    <3>3. QED
      BY <1>2, <2>1, <3>1, <3>2 DEF ContractRow, Selected, Accepted, IsLive, Made, WasChosen
  <2>4. QED
    BY <2>2, <2>3
<1>5. OneSelected'
  BY <1>4 DEF OneSelected
<1>6. QED
  BY <1>3, <1>4, <1>5 DEF Contracts

LEMMA ContractsReconcile ==
  ASSUME Serial, NEW b \in Bid, NEW scope \in LegacyTerms(b), ReconcileLegacyBid(b, scope)
  PROVE  Contracts'
<1>1. /\ Made(b) /\ envelope[b] = NoEnvelope /\ bid[b] \in BidRow /\ ContractRow(b)
      /\ UNCHANGED engagement
  BY MadeRow DEF ReconcileLegacyBid, Serial, Contracts
<1> DEFINE review == IF WasChosen(b) \/ SelfTechnical THEN "APPROVED" ELSE bid[b].tech
           terms == [Offer(bid[b].version, "EXPERT", "CEO", scope, bid[b].version, FALSE) EXCEPT
                      !.state = IF WasChosen(b) THEN "ACCEPTED" ELSE "PENDING", !.review = review]
<1>2. /\ terms # NoEnvelope /\ terms.scope = scope
      /\ terms.state = IF WasChosen(b) THEN "ACCEPTED" ELSE "PENDING"
  BY DEF Offer, NoEnvelope
<1>3. envelope' = [envelope EXCEPT ![b] = terms]
  BY DEF ReconcileLegacyBid
<1> HIDE DEF terms
<1>4. envelope'[b] = terms /\ \A c \in Bid \ {b} : envelope'[c] = envelope[c]
  BY <1>3, Typed DEF Serial
<1>5. CASE WasChosen(b)
  <2>1. Selected(b)
    BY <1>1, <1>5 DEF ContractRow
  <2>2. /\ bid' = [bid EXCEPT ![b] = [bid[b] EXCEPT !.state = "SELECTED", !.ceo = "APPROVED"]]
        /\ milestones' = [milestones EXCEPT ![b] = scope]
        /\ framework' = [scope |-> scope, mirrors |-> b]
    BY <1>5 DEF ReconcileLegacyBid
  <2>3. /\ bid'[b].state = "SELECTED" /\ milestones'[b] = scope
        /\ \A c \in Bid \ {b} : bid'[c] = bid[c] /\ milestones'[c] = milestones[c]
    BY <1>1, <2>2, Typed DEF BidRow, Serial
  <2>4. ContractRow(b)'
    BY <1>2, <1>4, <2>2, <2>3 DEF ContractRow, Accepted, Selected
  <2>5. \A c \in Bid \ {b} : ~ Selected(c)
    BY <2>1 DEF Serial, Contracts, OneSelected
  <2>6. QED
    BY <1>1, <1>4, <2>1, <2>3, <2>4, <2>5, OneContractRow
<1>6. CASE ~ WasChosen(b)
  <2>1. /\ \/ bid' = [bid EXCEPT ![b] = [bid[b] EXCEPT !.state = "SUBMITTED", !.tech = "APPROVED"]]
           \/ bid' = bid
        /\ UNCHANGED <<milestones, framework>>
    BY <1>6 DEF ReconcileLegacyBid
  <2>2. /\ bid'[b].state \in {"SUBMITTED", bid[b].state}
        /\ \A c \in Bid \ {b} : bid'[c] = bid[c]
    <3>1. [bid[b] EXCEPT !.state = "SUBMITTED", !.tech = "APPROVED"].state = "SUBMITTED"
      BY <1>1 DEF BidRow
    <3>2. PICK row : /\ bid' = [bid EXCEPT ![b] = row] \/ bid' = bid
                     /\ row.state = "SUBMITTED"
      BY <2>1, <3>1
    <3>3. QED
      BY <3>2, Typed DEF Serial
  <2>3. ContractRow(b)' /\ (Selected(b)' => Selected(b))
    BY <1>1, <1>2, <1>4, <1>6, <2>2 DEF ContractRow, Accepted, Selected, IsLive
  <2>4. QED
    BY <1>1, <1>4, <2>1, <2>2, <2>3, OneContractRow
<1>7. QED
  BY <1>5, <1>6

LEMMA SerialInductive ==
  ASSUME OneAtATime
  PROVE  Serial /\ [Next]_vars => Serial'
<1> SUFFICES ASSUME Serial, [Next]_vars PROVE Serial'
  OBVIOUS
<1>1. Inv'
  BY InvInductive DEF Serial
<1>2. CASE UNCHANGED vars
  BY <1>1, <1>2 DEF vars, Serial, Contracts, ContractRow, OneSelected, Selected, Accepted, IsLive,
     Made, WasChosen, StillTrue
<1>3. ASSUME NEW h \in Handler, Serve(h)
      PROVE  Serial'
  BY <1>1, <1>3, SerialBegin, SerialCreate, SerialWithdraw, SerialEdit DEF Serve
<1>4. ASSUME NEW h \in Handler, request[h] = Idle, NEW b \in Bid, Negotiate(b)
      PROVE  Serial'
  <2>1. Contracts'
    BY <1>4, ContractsOffer, ContractsEngagement, ContractsDecline, ContractsAccept,
       ContractsReconcile DEF Negotiate
  <2>2. request' = request
    BY <1>4 DEF Negotiate, Update, TechReview, CreateOffer, Supersede, AcceptOffer, DeclineOffer,
       Sign, LeaveEngagement, ReconcileLegacyBid
  <2>3. QED
    BY <1>1, <1>4, <2>1, <2>2, SerialTransaction
<1>5. QED
  BY <1>2, <1>3, <1>4 DEF Next

LEMMA SpecSerial ==
  ASSUME OneAtATime, OneLegacy
  PROVE  Spec => []Serial
<1>1. Init => Serial
  BY SerialInit
<1>2. Serial /\ [Next]_vars => Serial'
  BY SerialInductive
<1>3. QED
  BY <1>1, <1>2, PTL DEF Spec

(* BR-BID-10: with requests served one at a time, and at most one bid from *)
(* before the envelopes, at most one accepted contract is alive and its    *)
(* milestones are the agreed ones, after any number of bids and offers.    *)
THEOREM OneContractAtMost ==
  ASSUME OneAtATime, OneLegacy
  PROVE  Spec => []OneContract
<1>1. Serial => OneContract
  BY DEF Serial, Contracts, ContractRow, OneSelected, Selected, OneContract
<1>2. QED
  BY <1>1, SpecSerial, PTL

(* BR-BID-08: under the same assumptions the project's framework is that   *)
(* of the accepted terms for as long as their bid is selected.             *)
THEOREM FrameworkIsContract ==
  ASSUME OneAtATime, OneLegacy
  PROVE  Spec => []FrameworkMirrorsContract
<1>1. Serial => FrameworkMirrorsContract
  BY DEF Serial, Contracts, ContractRow, Selected, FrameworkMirrorsContract
<1>2. QED
  BY <1>1, SpecSerial, PTL

-----------------------------------------------------------------------------
(* What the pages rely on, requests being served one at a time: the        *)
(* columns of a bid and its envelope say the same, and an engagement that  *)
(* both parties signed is no longer pending.                               *)
Paired(row, e, rows) ==
  /\ e.version = row.version /\ e.reviewVersion = e.scopeVersion
  /\ SelfTechnical => e.review = "APPROVED"
  /\ row.state \notin Closed => e.review = row.tech /\ e.state = "PENDING"
  /\ row.state = "SELECTED" => e.state = "ACCEPTED"
  /\ e.state = "ACCEPTED" => row.state \in {"SELECTED", "DECLINED"} /\ rows # NoRows

PairedIn(b) == envelope[b] # NoEnvelope => Paired(bid[b], envelope[b], milestones[b])

Pairs    == \A b \in Bid : PairedIn(b)
Unsigned == \A b \in Bid : engagement[b].state = "PENDING" => engagement[b].signed # Role

Recalls(r) ==
  /\ r.op = "withdraw" =>
       /\ MayWithdraw(r.b)
       /\ r.envelope = IF envelope[r.b] = NoEnvelope THEN NoEnvelope
                       ELSE [envelope[r.b] EXCEPT !.state = "DECLINED"]
  /\ r.op = "edit" => TermsEditable(r.b)

Desk == Inv /\ Pairs /\ Unsigned /\ \A h \in Handler : Recalls(request[h])

LEMMA LeftUnsigned == \A state : Left(state).signed # Role
  BY DEF Left, Role

LEMMA DeskInit == Init => Desk
<1> SUFFICES ASSUME Init PROVE Desk
  OBVIOUS
<1>1. Unsigned
  <2>1. ASSUME NEW b \in Bid PROVE \E state : engagement[b] = Left(state)
    BY <2>1 DEF Init
  <2>2. QED
    BY <2>1, LeftUnsigned DEF Unsigned
<1>2. \A h \in Handler : Recalls(request[h])
  BY DEF Init, Recalls, Idle
<1>3. QED
  BY <1>1, <1>2, InitInv DEF Init, Desk, Pairs, PairedIn

(* A step that concerns the offer of one bid.                              *)
LEMMA OnePair ==
  ASSUME Pairs, NEW b \in Bid,
         \A c \in Bid \ {b} : /\ bid'[c] = bid[c] /\ envelope'[c] = envelope[c]
                              /\ milestones'[c] = milestones[c],
         PairedIn(b)'
  PROVE  Pairs'
<1>1. ASSUME NEW c \in Bid \ {b} PROVE PairedIn(c)'
  BY <1>1 DEF Pairs, PairedIn, Paired
<1>2. QED
  BY <1>1 DEF Pairs

LEMMA SamePairs ==
  ASSUME Pairs, UNCHANGED <<bid, envelope, milestones>>
  PROVE  Pairs'
  BY DEF Pairs, PairedIn, Paired

LEMMA DeclinedPair ==
  ASSUME NEW row \in BidRow, NEW e \in Envelope, NEW rows, Paired(row, e, rows)
  PROVE  Paired(DeclinedBid(row), DeclinedOffer(e), rows)
<1>1. DeclinedBid(row).state = "DECLINED" /\ DeclinedBid(row).version = row.version
  BY DEF DeclinedBid, BidRow
<1>2. /\ DeclinedOffer(e).version = e.version /\ DeclinedOffer(e).review = e.review
      /\ DeclinedOffer(e).scopeVersion = e.scopeVersion
      /\ DeclinedOffer(e).reviewVersion = e.reviewVersion
      /\ DeclinedOffer(e).state = "ACCEPTED" => e.state = "ACCEPTED"
  BY DEF DeclinedOffer, Envelope
<1>3. QED
  BY <1>1, <1>2 DEF Paired, Closed

(* A new offer, from Update or CreateOffer.                                *)
LEMMA OfferPair ==
  ASSUME Inv, Pairs, NEW b \in Bid, envelope[b] # NoEnvelope, NEW e, NEW ceo, Supersede(b, e, ceo),
         e.state = "PENDING", e.reviewVersion = e.scopeVersion, e.review \in {"PENDING", "APPROVED"},
         SelfTechnical => e.review = "APPROVED"
  PROVE  Pairs'
<1>1. PICK state \in {"TECH_REVIEW", "SUBMITTED"} :
        state = IF e.review = "PENDING" THEN "TECH_REVIEW" ELSE "SUBMITTED"
  OBVIOUS
<1>2. PICK row : row = [bid[b] EXCEPT !.version = e.version, !.tech = e.review, !.ceo = ceo,
                                      !.state = state]
  OBVIOUS
<1>3. bid[b] \in BidRow
  BY MadeRow
<1>4. row.version = e.version /\ row.tech = e.review /\ row.state = state
  BY <1>2, <1>3 DEF BidRow
<1>5. /\ bid' = [bid EXCEPT ![b] = row] /\ envelope' = [envelope EXCEPT ![b] = e]
      /\ milestones' = milestones
  BY <1>1, <1>2 DEF Supersede
<1>6. /\ bid'[b] = row /\ envelope'[b] = e
      /\ \A c \in Bid \ {b} : bid'[c] = bid[c] /\ envelope'[c] = envelope[c]
  BY <1>5, Typed
<1>7. Paired(row, e, milestones'[b])
  BY <1>4 DEF Paired, Closed
<1>8. PairedIn(b)'
  BY <1>6, <1>7 DEF PairedIn
<1>9. QED
  BY <1>5, <1>6, <1>8, OnePair

LEMMA OffersPair ==
  ASSUME Inv, Pairs, NEW b \in Bid,
         \/ \E offered \in Scope : Update(b, offered)
         \/ \E role \in Role, offered \in Scope : CreateOffer(b, role, offered)
  PROVE  Pairs'
<1>1. ASSUME NEW offered \in Scope, Update(b, offered)
      PROVE  Pairs'
  <2>1. PICK e : e = Offer(bid[b].version + 1, "EXPERT", envelope[b].recipient, FillIn(offered),
                           bid[b].version + 1, ~ SelfTechnical)
    OBVIOUS
  <2>2. /\ e.state = "PENDING" /\ e.reviewVersion = e.scopeVersion
        /\ e.review \in {"PENDING", "APPROVED"} /\ (SelfTechnical => e.review = "APPROVED")
    BY <2>1 DEF Offer
  <2>3. envelope[b] # NoEnvelope /\ Supersede(b, e, bid[b].ceo)
    BY <1>1, <2>1 DEF Update
  <2>4. QED
    BY <2>2, <2>3, OfferPair
<1>2. ASSUME NEW role \in Role, NEW offered \in Scope, CreateOffer(b, role, offered)
      PROVE  Pairs'
  <2>1. PICK version, scope, scopeVersion, recipient, e :
          /\ e = Offer(version, role, recipient, scope, scopeVersion,
                       ~ SelfTechnical /\ ScopeChanged(b, scope))
          /\ Supersede(b, e, "PENDING")
    BY <1>2 DEF CreateOffer
  <2>2. /\ e.state = "PENDING" /\ e.reviewVersion = e.scopeVersion
        /\ e.review \in {"PENDING", "APPROVED"} /\ (SelfTechnical => e.review = "APPROVED")
    BY <2>1 DEF Offer
  <2>3. envelope[b] # NoEnvelope
    BY <1>2 DEF CreateOffer
  <2>4. QED
    BY <2>1, <2>2, <2>3, OfferPair
<1>3. QED
  BY <1>1, <1>2

LEMMA ReviewPair ==
  ASSUME Inv, Pairs, NEW b \in Bid, NEW action \in {"APPROVED", "REVISION_REQUESTED"},
         TechReview(b, action)
  PROVE  Pairs'
<1>1. PICK old \in Envelope, was \in BidRow :
        /\ old = envelope[b] /\ was = bid[b] /\ Paired(was, old, milestones[b])
        /\ was.state \notin Closed
  BY Typed, MadeRow DEF TechReview, MayReview, Pairs, PairedIn
<1>2. PICK e, row : /\ e = [old EXCEPT !.review = action]
                    /\ row = [was EXCEPT !.tech = action, !.state = StateAfterReview(action)]
  OBVIOUS
<1>3. /\ e.version = old.version /\ e.scopeVersion = old.scopeVersion
      /\ e.reviewVersion = old.reviewVersion /\ e.state = old.state /\ e.review = action
  BY <1>2 DEF Envelope
<1>4. /\ row.version = was.version /\ row.tech = action
      /\ row.state \in {"SUBMITTED", "REVISION_REQUESTED"}
  BY <1>2 DEF BidRow, StateAfterReview
<1>5. Paired(row, e, milestones'[b])
  BY <1>1, <1>3, <1>4 DEF Paired, TechReview, MayReview, Closed
<1>6. /\ bid'[b] = row /\ envelope'[b] = e /\ milestones' = milestones
      /\ \A c \in Bid \ {b} : bid'[c] = bid[c] /\ envelope'[c] = envelope[c]
  BY <1>1, <1>2, Typed DEF TechReview
<1>7. PairedIn(b)'
  BY <1>5, <1>6 DEF PairedIn
<1>8. QED
  BY <1>6, <1>7, OnePair

LEMMA DeclinePair ==
  ASSUME Inv, Pairs, NEW b \in Bid, NEW role \in Role, DeclineOffer(b, role)
  PROVE  Pairs'
<1>1. PICK old \in Envelope, was \in BidRow :
        old = envelope[b] /\ was = bid[b] /\ Paired(was, old, milestones[b])
  BY Typed, MadeRow DEF DeclineOffer, MayDecline, Pairs, PairedIn
<1>2. PICK e, row : e = DeclinedOffer(old) /\ row = DeclinedBid(was)
  OBVIOUS
<1>3. Paired(row, e, milestones[b])
  BY <1>1, <1>2, DeclinedPair
<1>4. /\ bid'[b] = row /\ envelope'[b] = e /\ milestones' = milestones
      /\ \A c \in Bid \ {b} : bid'[c] = bid[c] /\ envelope'[c] = envelope[c]
  BY <1>1, <1>2, Typed DEF DeclineOffer
<1>5. PairedIn(b)'
  BY <1>3, <1>4 DEF PairedIn
<1>6. QED
  BY <1>4, <1>5, OnePair

LEMMA AcceptPair ==
  ASSUME Inv, Pairs, NEW b \in Bid, NEW role \in Role, AcceptOffer(b, role)
  PROVE  Pairs'
<1>1. PairedIn(b)'
  <2>1. envelope[b] # NoEnvelope /\ Paired(bid[b], envelope[b], milestones[b])
    BY DEF AcceptOffer, MayAccept, Pairs, PairedIn
  <2>2. PICK scope \in Scope : milestones'[b] = scope
    BY AcceptRows, FillInTyped, EnvelopeFields, Typed
  <2>3. scope # NoRows
    BY <2>2, ConstantsOK DEF ConstantsOK, NoRows
  <2>4. Paired(bid'[b], envelope'[b], scope)
    BY <2>1, <2>3, AcceptRows DEF Paired, Closed
  <2>5. QED
    BY <2>2, <2>4 DEF PairedIn
<1>2. ASSUME NEW c \in Bid \ {b} PROVE PairedIn(c)'
  <2>1. PairedIn(c) /\ milestones'[c] = milestones[c]
    BY AcceptRows, Typed DEF Pairs
  <2>2. CASE c \in Rivals(b)
    <3>1. bid'[c] = DeclinedBid(bid[c]) /\ envelope'[c] = DeclinedOffer(envelope[c])
      BY <2>2, AcceptRows
    <3>2. CASE envelope[c] = NoEnvelope
      BY <3>1, <3>2 DEF PairedIn, DeclinedOffer, NoEnvelope
    <3>3. CASE envelope[c] # NoEnvelope
      <4>1. bid[c] \in BidRow /\ envelope[c] \in Envelope
        BY <3>3, MadeRow, Typed
      <4>2. PICK row, e : row = DeclinedBid(bid[c]) /\ e = DeclinedOffer(envelope[c])
        OBVIOUS
      <4>3. Paired(row, e, milestones[c])
        BY <2>1, <3>3, <4>1, <4>2, DeclinedPair DEF PairedIn
      <4>4. QED
        BY <2>1, <3>1, <4>2, <4>3 DEF PairedIn
    <3>4. QED
      BY <3>2, <3>3
  <2>3. CASE c \notin Rivals(b)
    <3>1. bid'[c] = bid[c] /\ envelope'[c] = envelope[c]
      BY <2>3, AcceptRows
    <3>2. QED
      BY <2>1, <3>1 DEF PairedIn, Paired
  <2>4. QED
    BY <2>2, <2>3
<1>3. QED
  BY <1>1, <1>2 DEF Pairs

LEMMA ReconcilePair ==
  ASSUME Inv, Pairs, NEW b \in Bid, NEW scope \in LegacyTerms(b), ReconcileLegacyBid(b, scope)
  PROVE  Pairs'
<1>1. /\ Made(b) /\ envelope[b] = NoEnvelope /\ bid[b] \in BidRow
      /\ scope \in Scope /\ scope # NoRows
  <2>1. Made(b) /\ envelope[b] = NoEnvelope
    BY DEF ReconcileLegacyBid
  <2>2. scope \in Scope
    BY FillInTyped, Typed DEF LegacyTerms
  <2>3. scope # NoRows
    BY <2>2, ConstantsOK DEF ConstantsOK, NoRows
  <2>4. QED
    BY <2>1, <2>2, <2>3, MadeRow
<1>2. PICK was \in BidRow : was = bid[b]
  BY <1>1
<1>3. PICK review, state :
        /\ review = IF WasChosen(b) \/ SelfTechnical THEN "APPROVED" ELSE was.tech
        /\ state = IF WasChosen(b) THEN "ACCEPTED" ELSE "PENDING"
  OBVIOUS
<1>4. PICK e : e = [Offer(was.version, "EXPERT", "CEO", scope, was.version, FALSE) EXCEPT
                     !.state = state, !.review = review]
  OBVIOUS
<1>5. /\ e.version = was.version /\ e.reviewVersion = e.scopeVersion
      /\ e.state = state /\ e.review = review
  BY <1>4 DEF Offer
<1>6. envelope'[b] = e /\ \A c \in Bid \ {b} : envelope'[c] = envelope[c]
  BY <1>2, <1>3, <1>4, Typed DEF ReconcileLegacyBid
<1>7. CASE WasChosen(b)
  <2>1. PICK row : row = [was EXCEPT !.state = "SELECTED", !.ceo = "APPROVED"]
    OBVIOUS
  <2>2. row.state = "SELECTED" /\ row.version = was.version
    BY <2>1 DEF BidRow
  <2>3. Paired(row, e, scope)
    BY <1>1, <1>3, <1>5, <1>7, <2>2 DEF Paired, Closed
  <2>4. /\ bid'[b] = row /\ milestones'[b] = scope
        /\ \A c \in Bid \ {b} : bid'[c] = bid[c] /\ milestones'[c] = milestones[c]
    BY <1>2, <1>7, <2>1, Typed DEF ReconcileLegacyBid
  <2>5. PairedIn(b)'
    BY <1>6, <2>3, <2>4 DEF PairedIn
  <2>6. QED
    BY <1>6, <2>4, <2>5, OnePair
<1>8. CASE ~ WasChosen(b)
  <2>1. PICK row : row = IF SelfTechnical
                         THEN [was EXCEPT !.state = "SUBMITTED", !.tech = "APPROVED"] ELSE was
    OBVIOUS
  <2>2. /\ row.version = was.version /\ row.state # "SELECTED"
        /\ row.tech = review
    BY <1>2, <1>3, <1>8, <2>1 DEF BidRow, WasChosen
  <2>3. Paired(row, e, milestones[b])
    BY <1>3, <1>5, <1>8, <2>2 DEF Paired
  <2>4. /\ bid'[b] = row /\ milestones' = milestones
        /\ \A c \in Bid \ {b} : bid'[c] = bid[c]
    BY <1>2, <1>8, <2>1, Typed DEF ReconcileLegacyBid
  <2>5. PairedIn(b)'
    BY <1>6, <2>3, <2>4 DEF PairedIn
  <2>6. QED
    BY <1>6, <2>4, <2>5, OnePair
<1>9. QED
  BY <1>7, <1>8

-----------------------------------------------------------------------------
(* Signatures.                                                             *)
LEMMA SameSignatures ==
  ASSUME Unsigned,
         \A b \in Bid : engagement'[b] = engagement[b] \/ \E state : engagement'[b] = Left(state)
  PROVE  Unsigned'
  BY LeftUnsigned DEF Unsigned

LEMMA StillUnsigned ==
  ASSUME Desk, Next
  PROVE  Unsigned'
<1>1. ASSUME NEW b \in Bid, NEW state, engagement' = [engagement EXCEPT ![b] = Left(state)]
      PROVE  Unsigned'
  BY <1>1, Typed, SameSignatures DEF Desk
<1>2. ASSUME UNCHANGED engagement
      PROVE  Unsigned'
  BY <1>2, SameSignatures DEF Desk
<1>3. ASSUME NEW h \in Handler, Serve(h)
      PROVE  Unsigned'
  <2>1. CASE CommitCreate(h)
    BY <1>1, <2>1 DEF CommitCreate
  <2>2. CASE WithdrawEngagement(h)
    <3>1. request[h].b \in Bid
      BY <2>2, Typed, RequestFields DEF WithdrawEngagement, Desk
    <3>2. QED
      BY <1>1, <2>2, <3>1 DEF WithdrawEngagement, DeclinedEngagement
  <2>3. CASE ~ CommitCreate(h) /\ ~ WithdrawEngagement(h)
    <3>1. UNCHANGED engagement
      BY <1>3, <2>3 DEF Serve, BeginCreate, BeginWithdraw, BeginEdit, WithdrawBid,
         BeginUpdateFramework, BeginUpdateProjectMilestones, CommitFramework, CreateMilestones,
         UpdateMilestone, DeleteLastMilestone, CommitMilestones, Stop
    <3>2. QED
      BY <1>2, <3>1
  <2>4. QED
    BY <2>1, <2>2, <2>3
<1>4. ASSUME NEW b \in Bid, Negotiate(b)
      PROVE  Unsigned'
  <2>1. ASSUME NEW role \in Role, AcceptOffer(b, role)
        PROVE  Unsigned'
    BY <2>1, AcceptRows, SameSignatures DEF Desk
  <2>2. ASSUME NEW role \in Role, DeclineOffer(b, role)
        PROVE  Unsigned'
    BY <1>1, <2>2 DEF DeclineOffer, DeclinedEngagement
  <2>3. ASSUME NEW role \in Role, Sign(b, role)
        PROVE  Unsigned'
    <3>1. PICK signed : signed = engagement[b].signed \cup {role}
      OBVIOUS
    <3>2. CASE signed = Role
      BY <1>1, <2>3, <3>1, <3>2 DEF Sign
    <3>3. CASE signed # Role
      <4>1. PICK row : row = [state |-> "PENDING", signed |-> signed]
        OBVIOUS
      <4>2. engagement' = [engagement EXCEPT ![b] = row]
        BY <2>3, <3>1, <3>3, <4>1 DEF Sign
      <4>3. row.signed # Role
        BY <3>3, <4>1
      <4>4. engagement'[b] = row /\ \A c \in Bid \ {b} : engagement'[c] = engagement[c]
        BY <4>2, Typed DEF Desk
      <4>5. QED
        BY <4>3, <4>4 DEF Unsigned, Desk
    <3>4. QED
      BY <3>2, <3>3
  <2>4. CASE LeaveEngagement(b)
    BY <1>1, <2>4 DEF LeaveEngagement, DeclinedEngagement
  <2>5. CASE \/ \E offered \in Scope : Update(b, offered)
             \/ \E action \in {"APPROVED", "REVISION_REQUESTED"} : TechReview(b, action)
             \/ \E role \in Role, offered \in Scope : CreateOffer(b, role, offered)
             \/ \E scope \in LegacyTerms(b) : ReconcileLegacyBid(b, scope)
    BY <1>2, <2>5 DEF Update, TechReview, CreateOffer, Supersede, ReconcileLegacyBid
  <2>6. QED
    BY <1>4, <2>1, <2>2, <2>3, <2>4, <2>5 DEF Negotiate
<1>5. QED
  BY <1>3, <1>4 DEF Next

-----------------------------------------------------------------------------
(* Requests, one at a time.                                                *)
LEMMA DeskStep ==
  ASSUME OneAtATime, Desk, Inv', Pairs', Unsigned', NEW h \in Handler, NEW r, Becomes(h, r),
         Recalls(r)'
  PROVE  Desk'
<1>1. request'[h] = r /\ \A g \in Handler : g = h
  BY Typed DEF Desk, OneAtATime, Becomes
<1>2. Recalls(request[h])'
  BY <1>1
<1>3. QED
  BY <1>1, <1>2 DEF Desk

LEMMA DeskEnds ==
  ASSUME OneAtATime, Desk, Inv', Pairs', Unsigned', NEW h \in Handler, Ends(h)
  PROVE  Desk'
<1>1. Recalls(Idle)'
  BY DEF Recalls, Idle
<1>2. QED
  BY <1>1, DeskStep DEF Ends

LEMMA DeskReads ==
  ASSUME OneAtATime, Desk, Inv', Unsigned', NEW h \in Handler, NEW r, Starts(h, r), Recalls(r),
         UNCHANGED <<bid, envelope, milestones>>
  PROVE  Desk'
<1>1. Recalls(r)'
  BY DEF Recalls, MayWithdraw, TermsEditable, Accepted
<1>2. QED
  BY <1>1, DeskStep, SamePairs DEF Starts, Becomes, Desk

LEMMA DeskBegin ==
  ASSUME OneAtATime, Desk, Inv', Unsigned', NEW h \in Handler,
         \/ \E e \in Expert, offered \in Scope : BeginCreate(h, e, offered)
         \/ \E b \in Bid : BeginWithdraw(h, b) \/ BeginEdit(h, b)
         \/ BeginUpdateFramework(h) \/ BeginUpdateProjectMilestones(h)
  PROVE  Desk'
<1>1. ASSUME NEW e \in Expert, NEW offered \in Scope, BeginCreate(h, e, offered)
      PROVE  Desk'
  <2>1. PICK r : r = [op |-> "create", expert |-> e, scope |-> FillIn(offered)]
    OBVIOUS
  <2>2. Recalls(r)
    BY <2>1 DEF Recalls
  <2>3. QED
    BY <1>1, <2>1, <2>2, DeskReads DEF BeginCreate
<1>2. ASSUME NEW b \in Bid, BeginWithdraw(h, b)
      PROVE  Desk'
  <2>1. PICK e : e = IF envelope[b] = NoEnvelope THEN NoEnvelope
                     ELSE [envelope[b] EXCEPT !.state = "DECLINED"]
    OBVIOUS
  <2>2. PICK r : r = [op |-> "withdraw", b |-> b, envelope |-> e]
    OBVIOUS
  <2>3. Recalls(r)
    BY <1>2, <2>1, <2>2 DEF Recalls, BeginWithdraw
  <2>4. QED
    BY <1>2, <2>1, <2>2, <2>3, DeskReads DEF BeginWithdraw
<1>3. ASSUME NEW b \in Bid, BeginEdit(h, b)
      PROVE  Desk'
  <2>1. PICK r : r = [op |-> "edit", b |-> b]
    OBVIOUS
  <2>2. Recalls(r)
    BY <1>3, <2>1 DEF Recalls, BeginEdit
  <2>3. QED
    BY <1>3, <2>1, <2>2, DeskReads DEF BeginEdit
<1>4. CASE BeginUpdateFramework(h) \/ BeginUpdateProjectMilestones(h)
  <2>1. PICK b : Starts(h, [op |-> "framework", b |-> b])
    BY <1>4 DEF BeginUpdateFramework, BeginUpdateProjectMilestones
  <2>2. PICK r : r = [op |-> "framework", b |-> b]
    OBVIOUS
  <2>3. Recalls(r)
    BY <2>2 DEF Recalls
  <2>4. UNCHANGED <<bid, envelope, milestones>>
    BY <1>4 DEF BeginUpdateFramework, BeginUpdateProjectMilestones
  <2>5. QED
    BY <2>1, <2>2, <2>3, <2>4, DeskReads
<1>5. QED
  BY <1>1, <1>2, <1>3, <1>4

LEMMA DeskCreate ==
  ASSUME OneAtATime, Desk, Inv', Unsigned', NEW h \in Handler, CommitCreate(h)
  PROVE  Desk'
<1>1. PICK e : e = Offer(1, "EXPERT", "CEO", request[h].scope, 1, ~ SelfTechnical)
  OBVIOUS
<1>2. PICK row : row = [expert |-> request[h].expert, state |-> "SUBMITTED", version |-> 1,
                        tech |-> IF ~ SelfTechnical THEN "PENDING" ELSE "APPROVED",
                        ceo |-> "PENDING"]
  OBVIOUS
<1>3. PICK b \in Bid : bid' = [bid EXCEPT ![b] = row] /\ envelope' = [envelope EXCEPT ![b] = e]
  BY <1>1, <1>2 DEF CommitCreate
<1>4. Ends(h) /\ UNCHANGED milestones
  BY DEF CommitCreate
<1>5. /\ bid'[b] = row /\ envelope'[b] = e
      /\ \A c \in Bid \ {b} : bid'[c] = bid[c] /\ envelope'[c] = envelope[c]
  BY <1>3, Typed DEF Desk
<1>6. Paired(row, e, milestones'[b])
  BY <1>1, <1>2 DEF Paired, Offer
<1>7. PairedIn(b)'
  BY <1>5, <1>6 DEF PairedIn
<1>8. QED
  BY <1>4, <1>5, <1>7, OnePair, DeskEnds DEF Desk

LEMMA DeskWithdraw ==
  ASSUME OneAtATime, Desk, Inv', Unsigned', NEW h \in Handler,
         WithdrawBid(h) \/ WithdrawEngagement(h)
  PROVE  Desk'
<1>1. CASE WithdrawEngagement(h)
  BY <1>1, SamePairs, DeskEnds DEF WithdrawEngagement, Desk
<1>2. CASE WithdrawBid(h)
  <2>1. PICK b \in Bid, e \in Envelope \cup {NoEnvelope} :
          b = request[h].b /\ e = request[h].envelope
    BY <1>2, Typed, RequestFields DEF WithdrawBid, Desk
  <2>2. /\ MayWithdraw(b)
        /\ e = IF envelope[b] = NoEnvelope THEN NoEnvelope
               ELSE [envelope[b] EXCEPT !.state = "DECLINED"]
    BY <1>2, <2>1 DEF WithdrawBid, Desk, Recalls
  <2>3. PICK was \in BidRow : was = bid[b]
    BY <2>2, MadeRow DEF MayWithdraw, Made, NoBid, Desk
  <2>4. PICK row : row = [was EXCEPT !.state = "WITHDRAWN"]
    OBVIOUS
  <2>5. row.state = "WITHDRAWN" /\ row.version = was.version
    BY <2>4 DEF BidRow
  <2>6. /\ bid'[b] = row /\ milestones' = milestones
        /\ \A c \in Bid \ {b} : bid'[c] = bid[c] /\ envelope'[c] = envelope[c]
    BY <1>2, <2>1, <2>3, <2>4, Typed DEF WithdrawBid, Desk
  <2>7. PairedIn(b)'
    <3>1. CASE envelope[b] = NoEnvelope
      <4>1. envelope'[b] = NoEnvelope
        BY <1>2, <2>1, <2>2, <3>1 DEF WithdrawBid
      <4>2. QED
        BY <4>1 DEF PairedIn
    <3>2. CASE envelope[b] # NoEnvelope
      <4>1. PICK old \in Envelope : old = envelope[b]
        BY <3>2, Typed DEF Desk
      <4>2. /\ e.version = old.version /\ e.scopeVersion = old.scopeVersion
            /\ e.reviewVersion = old.reviewVersion /\ e.review = old.review
            /\ e.state = "DECLINED" /\ e # NoEnvelope
        <5>1. e = [old EXCEPT !.state = "DECLINED"]
          BY <2>2, <3>2, <4>1
        <5>2. e.state = "DECLINED"
          BY <5>1 DEF Envelope
        <5>3. QED
          BY <5>1, <5>2 DEF Envelope, NoEnvelope
      <4>3. envelope'[b] = e
        BY <1>2, <2>1, <4>2, Typed DEF WithdrawBid, Desk
      <4>4. Paired(was, old, milestones[b])
        BY <2>3, <3>2, <4>1 DEF Desk, Pairs, PairedIn
      <4>5. Paired(row, e, milestones'[b])
        BY <2>5, <4>2, <4>4 DEF Paired, Closed
      <4>6. QED
        BY <2>6, <4>3, <4>5 DEF PairedIn
    <3>3. QED
      BY <3>1, <3>2
  <2>8. PICK r : r = [op |-> "withdrawn", b |-> b]
    OBVIOUS
  <2>9. Recalls(r)' /\ Becomes(h, r)
    BY <1>2, <2>1, <2>8 DEF Recalls, WithdrawBid
  <2>10. Pairs'
    BY <2>6, <2>7, OnePair DEF Desk
  <2>11. QED
    BY <2>9, <2>10, DeskStep
<1>3. QED
  BY <1>1, <1>2

LEMMA DeskEdit ==
  ASSUME OneAtATime, Desk, Inv', Unsigned', NEW h \in Handler,
         \/ DeleteLastMilestone(h) \/ Stop(h)
         \/ \E scope \in Scope : \/ CommitFramework(h, scope) \/ CreateMilestones(h, scope)
                                 \/ UpdateMilestone(h, scope)
  PROVE  Desk'
<1>1. ASSUME NEW rows, CommitMilestones(h, rows)
      PROVE  Desk'
  <2>1. PICK b \in Bid : b = request[h].b /\ ~ Accepted(b)
    BY <1>1, Typed, RequestFields DEF CommitMilestones, Desk, Recalls, TermsEditable
  <2>2. /\ \A c \in Bid \ {b} : milestones'[c] = milestones[c]
        /\ UNCHANGED <<bid, envelope>> /\ Ends(h)
    BY <1>1, <2>1, Typed DEF CommitMilestones, Desk
  <2>3. PairedIn(b)'
    BY <2>1, <2>2 DEF Desk, Pairs, PairedIn, Paired, Accepted
  <2>4. Pairs'
    BY <2>2, <2>3, OnePair DEF Desk
  <2>5. QED
    BY <2>2, <2>4, DeskEnds
<1>2. ASSUME NEW scope \in Scope, CommitFramework(h, scope)
      PROVE  Desk'
  <2>1. scope # NoRows
    BY ConstantsOK DEF ConstantsOK, NoRows
  <2>2. /\ \A c \in Bid : milestones'[c] \in {milestones[c], scope}
        /\ UNCHANGED <<bid, envelope>> /\ Ends(h)
    BY <1>2, Typed DEF CommitFramework, Desk
  <2>3. Pairs'
    BY <2>1, <2>2 DEF Desk, Pairs, PairedIn, Paired
  <2>4. QED
    BY <2>2, <2>3, DeskEnds
<1>3. CASE Stop(h)
  BY <1>3, SamePairs, DeskEnds DEF Stop, Desk
<1>4. QED
  BY <1>1, <1>2, <1>3 DEF DeleteLastMilestone, CreateMilestones, UpdateMilestone

LEMMA DeskInductive ==
  ASSUME OneAtATime
  PROVE  Desk /\ [Next]_vars => Desk'
<1> SUFFICES ASSUME Desk, [Next]_vars PROVE Desk'
  OBVIOUS
<1>1. Inv /\ Inv'
  BY InvInductive DEF Desk
<1>2. CASE UNCHANGED vars
  BY <1>1, <1>2 DEF vars, Desk, Pairs, PairedIn, Paired, Unsigned, Recalls, MayWithdraw,
     TermsEditable, Accepted
<1>3. CASE Next
  <2>1. Unsigned'
    BY <1>3, StillUnsigned
  <2>2. ASSUME NEW h \in Handler, Serve(h)
        PROVE  Desk'
    BY <1>1, <2>1, <2>2, DeskBegin, DeskCreate, DeskWithdraw, DeskEdit DEF Serve
  <2>3. ASSUME NEW h \in Handler, request[h] = Idle, NEW b \in Bid, Negotiate(b)
        PROVE  Desk'
    <3>1. Pairs
      BY DEF Desk
    <3>2. Pairs'
      <4>1. CASE (\E role \in Role : Sign(b, role)) \/ LeaveEngagement(b)
        BY <3>1, <4>1, SamePairs DEF Sign, LeaveEngagement
      <4>2. QED
        BY <1>1, <2>3, <3>1, <4>1, OffersPair, ReviewPair, AcceptPair, DeclinePair, ReconcilePair
           DEF Negotiate
    <3>3. request' = request
      BY <2>3 DEF Negotiate, Update, TechReview, CreateOffer, Supersede, AcceptOffer, DeclineOffer,
         Sign, LeaveEngagement, ReconcileLegacyBid
    <3>4. Becomes(h, Idle) /\ Recalls(Idle)'
      BY <1>1, <2>3, <3>3, Typed DEF Becomes, Recalls, Idle
    <3>5. QED
      BY <1>1, <2>1, <3>2, <3>4, DeskStep
  <2>4. QED
    BY <1>3, <2>2, <2>3 DEF Next
<1>4. QED
  BY <1>2, <1>3

LEMMA SpecDesk ==
  ASSUME OneAtATime
  PROVE  Spec => []Desk
  BY DeskInit, DeskInductive, PTL DEF Spec

-----------------------------------------------------------------------------
(* What follows for the pages.                                             *)
LEMMA PairFields ==
  ASSUME Desk, NEW b \in Bid, envelope[b] # NoEnvelope
  PROVE  /\ Made(b) /\ Paired(bid[b], envelope[b], milestones[b])
         /\ bid[b].state \in BidState /\ bid[b].tech \in Status
         /\ envelope[b].review \in Status
         /\ envelope[b].proposer \in Role /\ envelope[b].recipient \in Role
<1>1. envelope[b] \in Envelope /\ Inv
  BY Typed DEF Desk
<1>2. QED
  BY <1>1, MadeRow, EnvelopeFields DEF Desk, Pairs, PairedIn

LEMMA DecisionAccepted ==
  ASSUME Desk, NEW b \in Bid, Negotiable(b), NEW role \in Role
  PROVE  /\ Decides(b, role) => MayAccept(b, role) /\ MayDecline(b, role) /\ MayCounter(b, role)
         /\ Revises(b, role) => MayCounter(b, role)
<1>1. /\ Paired(bid[b], envelope[b], milestones[b]) /\ envelope[b].review \in Status
      /\ envelope[b] # NoEnvelope /\ bid[b].state \notin Closed
      /\ engagement[b].state = "PENDING" /\ milestones[b] = NoRows
  BY PairFields DEF Negotiable
<1>2. ASSUME Decides(b, role)
      PROVE  /\ envelope[b].state = "PENDING" /\ envelope[b].recipient = role
             /\ envelope[b].review = "APPROVED"
  BY <1>1, <1>2 DEF Decides, NextActionBy, Paired, Role, Nobody, Status
<1>3. QED
  BY <1>1, <1>2 DEF Revises, MayAccept, MayDecline, MayCounter, Reviewed, Paired

LEMMA ReviewAccepted ==
  ASSUME Desk, NEW b \in Bid, Negotiable(b), ReviewsScope(b)
  PROVE  MayReview(b)
<1>1. Paired(bid[b], envelope[b], milestones[b])
  BY PairFields DEF Negotiable
<1>2. QED
  BY <1>1 DEF Negotiable, ReviewsScope, MayReview, Paired

LEMMA SignatureAccepted ==
  ASSUME Desk, NEW b \in Bid, NEW role \in Role, SignsNda(b, role)
  PROVE  MaySign(b, role)
<1>1. Accepted(b) /\ envelope[b] # NoEnvelope
  BY DEF SignsNda, Accepted, NoEnvelope
<1>2. Paired(bid[b], envelope[b], milestones[b])
  BY <1>1, PairFields
<1>3. QED
  BY <1>1, <1>2 DEF SignsNda, MaySign, Paired, Accepted

(* BidDetail, CounterOfferReceived, BidReviewDetail and                    *)
(* NdaClickThrough: when requests are served one at a time, whatever was   *)
(* offered, reviewed, reconciled or given up before, no service refuses a  *)
(* step that a page offers on a negotiation that can end in a contract.    *)
THEOREM NoOfferedStepIsRefused ==
  ASSUME OneAtATime
  PROVE  Spec => []ShownStepsAccepted
<1>1. ASSUME Desk
      PROVE  ShownStepsAccepted
  BY <1>1, DecisionAccepted, ReviewAccepted, SignatureAccepted
     DEF ShownStepsAccepted, Withdraws, MayWithdraw
<1>2. QED
  BY <1>1, SpecDesk, PTL

LEMMA SomebodyDecides ==
  ASSUME Desk, NEW b \in Bid, Negotiable(b)
  PROVE  \/ ReviewsScope(b)
         \/ Decides(b, "CEO") \/ Revises(b, "CEO")
         \/ (Decides(b, "EXPERT") \/ Revises(b, "EXPERT")) /\ Listed(b) = "COUNTER_OFFER"
<1>1. /\ Paired(bid[b], envelope[b], milestones[b]) /\ envelope[b].review \in Status
      /\ envelope[b] # NoEnvelope /\ bid[b].state \notin Closed /\ Made(b)
      /\ engagement[b].state = "PENDING"
      /\ envelope[b].proposer \in Role /\ envelope[b].recipient \in Role
  BY PairFields DEF Negotiable
<1>2. /\ envelope[b].state = "PENDING" /\ bid[b].tech = envelope[b].review
      /\ SelfTechnical => envelope[b].review = "APPROVED"
  BY <1>1 DEF Paired
<1>3. ~ Accepted(b) /\ bid[b].state \notin {"DECLINED", "WITHDRAWN"}
  BY <1>1, <1>2 DEF Accepted, Closed
<1>4. CASE envelope[b].review = "REVISION_REQUESTED"
  <2>1. Revises(b, envelope[b].proposer)
    BY <1>1, <1>2, <1>4 DEF Revises, NextActionBy
  <2>2. Listed(b) = "COUNTER_OFFER"
    BY <1>1, <1>2, <1>3, <1>4 DEF Listed
  <2>3. QED
    BY <1>1, <2>1, <2>2 DEF Role
<1>5. CASE envelope[b].review = "PENDING"
  BY <1>1, <1>2, <1>3, <1>5 DEF ReviewsScope
<1>6. CASE envelope[b].review = "APPROVED"
  <2>1. Decides(b, envelope[b].recipient)
    BY <1>1, <1>2, <1>6 DEF Decides, NextActionBy
  <2>2. envelope[b].recipient = "EXPERT" => Listed(b) = "COUNTER_OFFER"
    BY <1>1, <1>3, <2>1 DEF Listed
  <2>3. QED
    BY <1>1, <2>1, <2>2 DEF Role
<1>7. QED
  BY <1>1, <1>4, <1>5, <1>6 DEF Status

LEMMA SomebodySigns ==
  ASSUME Desk, NEW b \in Bid,
         bid[b].state = "SELECTED", envelope[b] # NoEnvelope, engagement[b].state = "PENDING"
  PROVE  SignsNda(b, "CEO") \/ (SignsNda(b, "EXPERT") /\ Listed(b) = "NDA_PENDING")
<1>1. Accepted(b)
  BY PairFields DEF Paired, Accepted
<1>2. engagement[b].signed # Role /\ engagement[b].signed \in SUBSET Role
  BY Typed DEF Desk, Unsigned, EngagementRow
<1>3. "CEO" \notin engagement[b].signed \/ "EXPERT" \notin engagement[b].signed
  BY <1>2 DEF Role
<1>4. Listed(b) = "NDA_PENDING"
  BY <1>1 DEF Listed
<1>5. QED
  BY <1>1, <1>3, <1>4 DEF SignsNda

(* BidDetail, CounterOfferReceived, BidReviewDetail and                    *)
(* ExpertProjectsPage: when requests are served one at a time, a           *)
(* negotiation never waits on somebody whom no page offers the next step.  *)
THEOREM SomebodyIsToldToAct ==
  ASSUME OneAtATime
  PROVE  Spec => []NegotiationMovesOn
<1>1. ASSUME Desk
      PROVE  NegotiationMovesOn
  BY <1>1, SomebodyDecides, SomebodySigns DEF NegotiationMovesOn
<1>2. QED
  BY <1>1, SpecDesk, PTL
=============================================================================
