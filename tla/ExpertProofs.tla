---------------------------- MODULE ExpertProofs ----------------------------
(***************************************************************************)
(* Proofs about what experts are judged by: Recruiting, for every set of   *)
(* experts and of requests, every time to live and timeout; and            *)
(* SeamVerification, for every set of seams, entries and overlapping       *)
(* attempts, every limit and ratio.  The two specifications are apart, and *)
(* share only this module: each theorem is about one of them.              *)
(***************************************************************************)
EXTENDS Recruiting, SeamVerification, FiniteSetTheorems, TLAPS

-----------------------------------------------------------------------------
(* The lists of experts.                                                   *)

(* A pool is as old as the call it was read for.                           *)
FitIsNow   == \A e \in fit : unfit[e] = 0
PoolsAge   == \A h \in Handler :
  Calling(h) => \A e \in request[h].pool : unfit[e] <= request[h].age

(* An entry that is served was scored from a pool that was no older than   *)
(* one call when it was stored.                                            *)
MemoAges   == IsFresh => \A e \in memo.experts : unfit[e] <= memo.age + Timeout

(* No time passes between storing the entry and reading it once more.      *)
RefreshedIsNew == \A h \in Handler : request[h].op = "refreshed" => memo.age = 0

IInv == TypeOK /\ FitIsNow /\ PoolsAge /\ MemoAges /\ RefreshedIsNew /\ ShownWereFit

-----------------------------------------------------------------------------
LEMMA InitInv == Init => IInv
<1> SUFFICES ASSUME Init
             PROVE  IInv
  OBVIOUS
<1> USE ConstantsOK
<1>1. TypeOK
  <2>1. unfit \in [Expert -> 0 .. Horizon] /\ memo \in [experts : SUBSET Expert, age : 0 .. Ttl]
    BY DEF Init, Horizon
  <2>2. row \in [stored : BOOLEAN, experts : SUBSET Expert]
    <3>1. NoRow \in [stored : BOOLEAN, experts : SUBSET Expert]
      BY DEF NoRow
    <3>2. Stored(fit) \in [stored : BOOLEAN, experts : SUBSET Expert]
      BY DEF Init, Stored
    <3>3. QED
      BY <3>1, <3>2 DEF Init
  <2>3. request \in [Handler -> Request]
    BY DEF Init, Request
  <2>4. QED
    BY <2>1, <2>2, <2>3 DEF Init, TypeOK
<1>2. FitIsNow /\ PoolsAge /\ MemoAges /\ RefreshedIsNew /\ ShownWereFit
  BY DEF Init, FitIsNow, PoolsAge, MemoAges, RefreshedIsNew, ShownWereFit, Calling, IsFresh, Idle
<1>3. QED
  BY <1>1, <1>2 DEF IInv

(* What each kind of request holds.                                        *)
LEMMA Shapes ==
  ASSUME TypeOK, NEW h \in Handler
  PROVE  /\ Calling(h) => /\ request[h].pool \in SUBSET Expert
                          /\ request[h].age \in 0 .. Timeout
         /\ request[h].op \in {"check", "refreshed"} => request[h].expert \in Expert
         /\ request[h].op = "score" => request[h].again \in BOOLEAN
  BY DEF TypeOK, Request, Idle, Calling

(* A step of one handler to a request that is no call and has stored no    *)
(* row, which leaves the lists and the experts alone.                      *)
LEMMA QuietStep ==
  ASSUME IInv, NEW h \in Handler, NEW r \in Request, Becomes(h, r),
         r.op \notin {"check", "score", "persisted"},
         UNCHANGED <<fit, unfit>>,
         UNCHANGED memo \/ (memo'.age = 0 /\ memo' \in [experts : SUBSET Expert, age : 0 .. Ttl]
                            /\ \A e \in memo'.experts : unfit[e] <= Timeout),
         r.op = "refreshed" => memo'.age = 0,
         row' = row \/ row' = NoRow,
         invitation' \in [Expert -> {"NONE", "PENDING", "ACCEPTED", "DECLINED"}],
         answered' \subseteq Expert
  PROVE  IInv'
<1> USE ConstantsOK
<1>1. request' = [request EXCEPT ![h] = r] /\ request' \in [Handler -> Request]
  BY DEF Becomes, IInv, TypeOK
<1>2. row' \in [stored : BOOLEAN, experts : SUBSET Expert] /\ row'.experts \subseteq row.experts
  <2>1. CASE row' = row
    BY <2>1 DEF IInv, TypeOK
  <2>2. CASE row' = NoRow
    BY <2>2 DEF NoRow
  <2>3. QED
    BY <2>1, <2>2
<1>3. memo' \in [experts : SUBSET Expert, age : 0 .. Ttl]
  BY DEF IInv, TypeOK
<1>4. TypeOK'
  BY <1>1, <1>2, <1>3 DEF IInv, TypeOK, Horizon
<1>5. FitIsNow'
  BY DEF IInv, FitIsNow
<1>6. PoolsAge'
  BY <1>1 DEF IInv, PoolsAge, Calling
<1>7. MemoAges'
  BY <1>3 DEF IInv, MemoAges, IsFresh
<1>8. ShownWereFit'
  BY <1>1, <1>2 DEF IInv, ShownWereFit
<1>9. RefreshedIsNew'
  BY <1>1 DEF IInv, RefreshedIsNew
<1>10. QED
  BY <1>4, <1>5, <1>6, <1>7, <1>8, <1>9 DEF IInv

(* A step that starts a call reads the pool of now.                        *)
LEMMA CallStep ==
  ASSUME IInv, NEW h \in Handler, NEW r \in Request, Becomes(h, r),
         r.op \in {"check", "score"}, r.pool = fit, r.age = 0,
         UNCHANGED <<fit, unfit, lists, offers>>
  PROVE  IInv'
<1> USE ConstantsOK
<1>1. request' = [request EXCEPT ![h] = r] /\ request' \in [Handler -> Request]
  BY DEF Becomes, IInv, TypeOK
<1>2. TypeOK'
  BY <1>1 DEF IInv, TypeOK, lists, offers, Horizon
<1>3. FitIsNow' /\ MemoAges'
  BY DEF IInv, FitIsNow, MemoAges, IsFresh, lists
<1>4. PoolsAge'
  BY <1>1 DEF IInv, PoolsAge, FitIsNow, Calling
<1>5. ShownWereFit' /\ RefreshedIsNew'
  BY <1>1 DEF IInv, ShownWereFit, RefreshedIsNew, lists
<1>6. QED
  BY <1>2, <1>3, <1>4, <1>5 DEF IInv

-----------------------------------------------------------------------------
LEMMA TickInv ==
  ASSUME IInv, Tick
  PROVE  IInv'
<1> USE ConstantsOK
<1>1. \A e \in Expert : /\ unfit'[e] \in 0 .. Horizon
                        /\ unfit'[e] <= unfit[e] + 1
                        /\ e \in fit => unfit'[e] = 0
  BY DEF Tick, IInv, TypeOK, Later, Horizon
<1>2. /\ memo' \in [experts : SUBSET Expert, age : 0 .. Ttl]
      /\ memo'.experts = memo.experts
      /\ memo'.age < Ttl => memo'.age = memo.age + 1
  BY DEF Tick, IInv, TypeOK, Later
<1>3. ASSUME NEW h \in Handler
      PROVE  /\ request'[h] \in Request
             /\ request'[h].op = request[h].op
             /\ Calling(h) => /\ request'[h].pool = request[h].pool
                              /\ request'[h].age = request[h].age + 1
  <2>1. request'[h] = IF Calling(h) THEN [request[h] EXCEPT !.age = @ + 1] ELSE request[h]
    BY DEF Tick
  <2>2. CASE Calling(h)
    <3>1. request[h].age \in 0 .. Timeout /\ request[h].age < Timeout
      BY <2>2, Shapes DEF Tick, InTime, IInv
    <3>2. request[h] \in Request
      BY DEF IInv, TypeOK
    <3>3. CASE request[h].op = "check"
      BY <2>1, <2>2, <3>1, <3>2, <3>3 DEF Request, Idle
    <3>4. CASE request[h].op = "score"
      BY <2>1, <2>2, <3>1, <3>2, <3>4 DEF Request, Idle
    <3>5. QED
      BY <2>2, <3>3, <3>4 DEF Calling
  <2>3. CASE ~ Calling(h)
    BY <2>1, <2>3 DEF IInv, TypeOK
  <2>4. QED
    BY <2>2, <2>3
<1>4. TypeOK'
  <2>1. unfit' \in [Expert -> 0 .. Horizon] /\ request' \in [Handler -> Request]
    BY <1>1, <1>3 DEF Tick
  <2>2. QED
    BY <1>2, <2>1 DEF Tick, IInv, TypeOK, offers
<1>5. FitIsNow'
  BY <1>1 DEF Tick, FitIsNow, IInv, TypeOK
<1>6. PoolsAge'
  <2> SUFFICES ASSUME NEW h \in Handler, Calling(h)', NEW e \in request'[h].pool
               PROVE  unfit'[e] <= request'[h].age
    BY DEF PoolsAge
  <2>1. Calling(h) /\ e \in request[h].pool /\ e \in Expert
    BY <1>3, Shapes DEF Calling, IInv
  <2>2. unfit[e] <= request[h].age /\ unfit[e] \in Nat /\ request[h].age \in Nat
    BY <2>1, Shapes DEF IInv, PoolsAge, TypeOK, Horizon
  <2>3. QED
    BY <1>1, <1>3, <2>1, <2>2
<1>7. MemoAges'
  <2> SUFFICES ASSUME memo'.age < Ttl, NEW e \in memo'.experts
               PROVE  unfit'[e] <= memo'.age + Timeout
    BY DEF MemoAges, IsFresh
  <2>1. e \in Expert /\ memo.age \in Nat /\ unfit[e] \in Nat
    BY <1>2 DEF IInv, TypeOK
  <2>2. unfit[e] <= memo.age + Timeout
    BY <1>2, <2>1 DEF IInv, MemoAges, IsFresh
  <2>3. QED
    BY <1>1, <1>2, <2>1, <2>2
<1>8. ShownWereFit' /\ RefreshedIsNew'
  BY <1>3 DEF Tick, ShownWereFit, RefreshedIsNew
<1>9. QED
  BY <1>4, <1>5, <1>6, <1>7, <1>8 DEF IInv

LEMMA RescoredInv ==
  ASSUME IInv, NEW x \in Expert, Rescored(x)
  PROVE  IInv'
<1> USE ConstantsOK
<1>1. \A e \in Expert : unfit'[e] = IF e = x THEN 0 ELSE unfit[e]
  BY DEF Rescored, IInv, TypeOK
<1>2. \A e \in Expert : unfit'[e] <= unfit[e] /\ unfit[e] \in Nat
  BY <1>1 DEF IInv, TypeOK, Horizon
<1>3. TypeOK'
  BY DEF Rescored, IInv, TypeOK, Horizon, lists, offers
<1>4. FitIsNow'
  BY <1>1, <1>3 DEF Rescored, IInv, FitIsNow, TypeOK
<1>5. PoolsAge'
  <2> SUFFICES ASSUME NEW h \in Handler, Calling(h), NEW e \in request[h].pool
               PROVE  unfit'[e] <= request[h].age
    BY DEF PoolsAge, Calling, Rescored
  <2>1. request[h].pool \in SUBSET Expert /\ request[h].age \in 0 .. Timeout
    BY Shapes DEF IInv
  <2>2. unfit[e] <= request[h].age
    BY DEF IInv, PoolsAge
  <2>3. /\ unfit'[e] <= unfit[e] /\ unfit[e] \in Nat
        /\ unfit'[e] \in Nat
    BY <1>1, <1>2, <2>1
  <2>4. QED
    BY <2>1, <2>2, <2>3
<1>6. MemoAges'
  BY <1>2 DEF Rescored, IInv, MemoAges, TypeOK, IsFresh, lists
<1>7. ShownWereFit' /\ RefreshedIsNew'
  BY <1>2 DEF Rescored, IInv, ShownWereFit, RefreshedIsNew, TypeOK, lists
<1>8. QED
  BY <1>3, <1>4, <1>5, <1>6, <1>7 DEF IInv

LEMMA EndMatchingInv ==
  ASSUME IInv, NEW h \in Handler, EndMatching(h)
  PROVE  IInv'
<1> USE ConstantsOK
<1> DEFINE r == [op |-> "persisted", again |-> request[h].again]
<1>1. r \in Request /\ request[h].pool \in SUBSET Expert
  BY Shapes DEF EndMatching, Request, IInv, Calling
<1>2. request' = [request EXCEPT ![h] = r] /\ request' \in [Handler -> Request]
  BY <1>1 DEF EndMatching, Becomes, IInv, TypeOK
<1>3. TypeOK'
  BY <1>1, <1>2 DEF EndMatching, IInv, TypeOK, PersistCache, Stored, offers, Horizon
<1>4. FitIsNow' /\ MemoAges' /\ RefreshedIsNew'
  BY <1>2 DEF EndMatching, IInv, FitIsNow, MemoAges, RefreshedIsNew, IsFresh
<1>5. PoolsAge'
  BY <1>2 DEF EndMatching, IInv, PoolsAge, Calling
<1>6. \A e \in row'.experts : unfit[e] <= Timeout
  <2>1. request[h].age \in 0 .. Timeout
        /\ \A e \in request[h].pool : unfit[e] <= request[h].age /\ unfit[e] \in Nat
    BY Shapes DEF EndMatching, IInv, PoolsAge, Calling, TypeOK, Horizon
  <2>2. QED
    BY <2>1 DEF EndMatching, PersistCache, Stored
<1>7. ShownWereFit'
  BY <1>6 DEF EndMatching, ShownWereFit
<1>8. QED
  BY <1>3, <1>4, <1>5, <1>7 DEF IInv

LEMMA EndRefreshInv ==
  ASSUME IInv, NEW h \in Handler, EndRefresh(h)
  PROVE  IInv'
<1> USE ConstantsOK
<1>1. /\ request[h].pool \in SUBSET Expert /\ request[h].expert \in Expert
      /\ request[h].age \in 0 .. Timeout
  BY Shapes DEF EndRefresh, IInv, Calling
<1>2. \A e \in request[h].pool : unfit[e] <= request[h].age /\ unfit[e] \in Nat
  BY <1>1 DEF EndRefresh, IInv, PoolsAge, Calling, TypeOK, Horizon
<1>3. PICK r \in Request : Becomes(h, r) /\ r.op = "refreshed"
  BY <1>1 DEF EndRefresh, Request
<1>4. /\ memo'.age = 0 /\ memo' \in [experts : SUBSET Expert, age : 0 .. Ttl]
      /\ \A e \in memo'.experts : unfit[e] <= Timeout
  BY <1>1, <1>2 DEF EndRefresh
<1>5. QED
  BY <1>3, <1>4, QuietStep DEF EndRefresh, offers, IInv, TypeOK

-----------------------------------------------------------------------------
LEMMA NextInv == IInv /\ [Next]_vars => IInv'
<1> SUFFICES ASSUME IInv, [Next]_vars
             PROVE  IInv'
  OBVIOUS
<1> USE ConstantsOK
<1>1. CASE UNCHANGED vars
  BY <1>1 DEF vars, IInv, TypeOK, FitIsNow, PoolsAge, MemoAges, RefreshedIsNew, ShownWereFit,
     Calling, IsFresh, Horizon
<1>2. CASE Tick
  BY <1>2, TickInv
<1>3. ASSUME NEW e \in Expert, Rescored(e)
      PROVE  IInv'
  BY <1>3, RescoredInv
<1>4. ASSUME NEW e \in Expert, Invite(e)
      PROVE  IInv'
  BY <1>4 DEF Invite, lists, IInv, TypeOK, FitIsNow, PoolsAge, MemoAges, RefreshedIsNew,
     ShownWereFit, Calling, IsFresh, Horizon
<1>5. ASSUME NEW h \in Handler, NEW e \in Expert, CheckInMemory(h, e)
      PROVE  IInv'
  BY <1>5, QuietStep DEF CheckInMemory, Starts, Request, lists, offers, IInv, TypeOK
<1>6. ASSUME NEW h \in Handler, NEW e \in Expert, BeginRefresh(h, e)
      PROVE  IInv'
  BY <1>6, CallStep DEF BeginRefresh, Starts, Request, IInv, TypeOK
<1>7. ASSUME NEW h \in Handler, EndRefresh(h)
      PROVE  IInv'
  BY <1>7, EndRefreshInv
<1>8. ASSUME NEW h \in Handler, CommitBid(h)
      PROVE  IInv'
  <2>1. request[h].expert \in Expert
    BY <1>8 DEF CommitBid, IInv, TypeOK, Request, Idle
  <2>2. /\ invitation' \in [Expert -> {"NONE", "PENDING", "ACCEPTED", "DECLINED"}]
        /\ answered' \subseteq Expert
    BY <1>8, <2>1 DEF CommitBid, Answers, IInv, TypeOK
  <2>3. QED
    BY <1>8, <2>2, QuietStep DEF CommitBid, Ends, Idle, Request, lists
<1>9. ASSUME NEW h \in Handler, MissList(h) \/ ForceRefresh(h)
      PROVE  IInv'
  BY <1>9, QuietStep DEF MissList, ForceRefresh, Starts, Request, lists, offers, IInv, TypeOK
<1>10. ASSUME NEW h \in Handler, TriggerMatching(h)
       PROVE  IInv'
  <2> DEFINE r == [op |-> "score", again |-> request[h].again, pool |-> fit, age |-> 0]
  <2>1. r \in Request
    BY <1>10 DEF TriggerMatching, IInv, TypeOK, Request, Idle
  <2>2. QED
    BY <1>10, <2>1, CallStep DEF TriggerMatching
<1>11. ASSUME NEW h \in Handler, EndMatching(h)
       PROVE  IInv'
  BY <1>11, EndMatchingInv
<1>12. ASSUME NEW h \in Handler, ShowList(h) \/ FailCall(h)
       PROVE  IInv'
  BY <1>12, QuietStep DEF ShowList, FailCall, Ends, Idle, Request, lists, offers, IInv, TypeOK
<1>13. ASSUME NEW h \in Handler, NEW e \in Expert, BeginDecline(h, e) \/ BeginRetract(h, e)
       PROVE  IInv'
  BY <1>13, QuietStep DEF BeginDecline, BeginRetract, Starts, Request, lists, offers, IInv, TypeOK
<1>14. ASSUME NEW h \in Handler, CommitAnswer(h)
       PROVE  IInv'
  BY <1>14, QuietStep DEF CommitAnswer, Ends, Idle, Request, lists, IInv, TypeOK
<1>15. ASSUME NEW h \in Handler, CheckRefreshed(h)
       PROVE  IInv'
  <2>1. request[h].expert \in Expert
    BY <1>15, Shapes DEF CheckRefreshed, IInv
  <2>2. PICK r \in Request : Becomes(h, r) /\ r.op \in {"admitted", "idle"}
    BY <1>15, <2>1 DEF CheckRefreshed, Ends, Idle, Request
  <2>3. QED
    BY <1>15, <2>2, QuietStep DEF CheckRefreshed, lists, offers, IInv, TypeOK
<1>16. QED
  BY <1>1, <1>2, <1>3, <1>4, <1>5, <1>6, <1>7, <1>8, <1>9, <1>10, <1>11, <1>12, <1>13, <1>14, <1>15
  DEF Next, Bids, Lists, Answering

LEMMA Invariant == Spec => []IInv
  BY InitInv, NextInv, PTL DEF Spec

-----------------------------------------------------------------------------
(* Lists, invitations and requests keep their types.                       *)
THEOREM ListsTypeCorrect == Spec => []TypeOK
<1>1. IInv => TypeOK
  BY DEF IInv
<1>2. QED
  BY Invariant, <1>1, PTL

(* The CEO's list after a refresh is at most one call old.                 *)
THEOREM CeoSeesRecent == Spec => []ShownWereFit
<1>1. IInv => ShownWereFit
  BY DEF IInv
<1>2. QED
  BY Invariant, <1>1, PTL

(* Who is admitted to bid was fit less than Ttl + Timeout ago.             *)
LEMMA Admission ==
  ASSUME IInv, Next, NEW h \in Handler,
         request[h].op # "admitted", request'[h].op = "admitted"
  PROVE  unfit[request'[h].expert] < Ttl + Timeout
<1> USE ConstantsOK
<1>1. ASSUME NEW g \in Handler, NEW e \in Expert, CheckInMemory(g, e)
      PROVE  unfit[request'[h].expert] < Ttl + Timeout
  <2>1. request' = [request EXCEPT ![g] = [op |-> "admitted", expert |-> e]]
    BY <1>1 DEF CheckInMemory, Starts, Becomes
  <2>2. g = h /\ request'[h].expert = e
    BY <2>1 DEF IInv, TypeOK
  <2>3. memo.age \in 0 .. Ttl /\ memo.age < Ttl /\ unfit[e] <= memo.age + Timeout /\ unfit[e] \in Nat
    BY <1>1 DEF CheckInMemory, Serves, IsFresh, IInv, MemoAges, TypeOK, Horizon
  <2>4. QED
    BY <2>2, <2>3
<1>2. ASSUME NEW g \in Handler, CheckRefreshed(g)
      PROVE  unfit[request'[h].expert] < Ttl + Timeout
  <2>1. g = h
    BY <1>2 DEF CheckRefreshed, Becomes, Ends, IInv, TypeOK
  <2>2. /\ request[h].expert \in memo.experts
        /\ request'[h].expert = request[h].expert
    BY <1>2, <2>1 DEF CheckRefreshed, Becomes, Ends, Idle, IInv, TypeOK
  <2>3. /\ memo.age = 0 /\ unfit[request[h].expert] <= memo.age + Timeout
        /\ unfit[request[h].expert] \in Nat
    BY <1>2, <2>1, <2>2, Shapes DEF CheckRefreshed, IsFresh, IInv, RefreshedIsNew, MemoAges,
       TypeOK, Horizon
  <2>4. QED
    BY <2>2, <2>3
<1>3. ASSUME Tick
      PROVE  FALSE
  BY <1>3 DEF Tick, Calling
<1>4. ASSUME NEW g \in Handler,
             \/ \E e \in Expert : BeginRefresh(g, e) \/ BeginDecline(g, e) \/ BeginRetract(g, e)
             \/ EndRefresh(g) \/ CommitBid(g) \/ Lists(g) \/ CommitAnswer(g) \/ FailCall(g)
      PROVE  FALSE
  BY <1>4 DEF BeginRefresh, EndRefresh, BeginDecline, BeginRetract, CommitBid, Lists, MissList, ForceRefresh,
     TriggerMatching, EndMatching, ShowList, CommitAnswer, FailCall, Starts, Becomes, Ends, Idle,
     IInv, TypeOK
<1>5. ASSUME NEW e \in Expert, Rescored(e) \/ Invite(e)
      PROVE  FALSE
  BY <1>5 DEF Rescored, Invite
<1>6. QED
  BY <1>1, <1>2, <1>3, <1>4, <1>5 DEF Next, Bids, Answering

THEOREM AdmissionIsRecent == Spec => AdmittedWereFit
<1>1. IInv /\ [Next]_vars => [\A h \in Handler :
        request[h].op # "admitted" /\ request'[h].op = "admitted"
          => unfit[request'[h].expert] < Ttl + Timeout]_vars
  BY Admission
<1>2. QED
  BY Invariant, <1>1, PTL DEF Spec, AdmittedWereFit

-----------------------------------------------------------------------------
(* A bid answers the invitation, and nothing else accepts it.              *)
LEMMA NextInvitation ==
  TypeOK /\ InvitationFollowsBid /\ [Next]_vars => InvitationFollowsBid'
<1> SUFFICES ASSUME TypeOK, InvitationFollowsBid, [Next]_vars
             PROVE  InvitationFollowsBid'
  OBVIOUS
<1>1. CASE UNCHANGED offers
  BY <1>1 DEF InvitationFollowsBid, offers
<1>2. ASSUME NEW e \in Expert, Invite(e)
      PROVE  InvitationFollowsBid'
  BY <1>2 DEF Invite, InvitationFollowsBid, TypeOK
<1>3. ASSUME NEW h \in Handler, CommitBid(h)
      PROVE  InvitationFollowsBid'
  <2>1. request[h].expert \in Expert
    BY <1>3 DEF CommitBid, TypeOK, Request, Idle
  <2>2. QED
    BY <1>3, <2>1 DEF CommitBid, Answers, InvitationFollowsBid, TypeOK
<1>4. ASSUME NEW h \in Handler, CommitAnswer(h)
      PROVE  InvitationFollowsBid'
  BY <1>4 DEF CommitAnswer, InvitationFollowsBid, TypeOK
<1>5. QED
  BY <1>1, <1>2, <1>3, <1>4 DEF Next, vars, Bids, Lists, Answering, Tick, Rescored, CheckInMemory,
     BeginRefresh, EndRefresh, CheckRefreshed, MissList, ForceRefresh, TriggerMatching, EndMatching,
     ShowList, BeginDecline, BeginRetract, FailCall, offers

THEOREM BidAnswersInvitation == Spec => []InvitationFollowsBid
<1>1. Init => InvitationFollowsBid
  BY DEF Init, InvitationFollowsBid
<1>2. QED
  BY <1>1, ListsTypeCorrect, NextInvitation, PTL DEF Spec

-----------------------------------------------------------------------------
(* The seams of one expert.                                                *)

(* Only the last allowed failure locks: below it no lock is kept.          *)
CountBelowLock == \A s \in Claims : claim[s].lock = "none" => claim[s].count < MaxAttempts

(* What is known of a seam whose attempts never overlapped: one is under   *)
(* evaluation at most, and has read what the claim still says.             *)
Counted(s) ==
  /\ s \notin Claims => failed[s] = 0
  /\ s \in Claims => /\ failed[s] = EffectiveCount(s)
                     /\ claim[s].lock = "running" => claim[s].count = MaxAttempts
  /\ \A g, h \in Evaluating(s) : g = h
  /\ \A h \in Evaluating(s) : /\ claim[s].lock # "running"
                              /\ attempt[h].count = EffectiveCount(s)
AttemptsCounted == \A s \in Seam \ overlapped : Counted(s)

SeamInv == SeamTypeOK /\ EntriesHaveClaims /\ CountBelowLock /\ AttemptsCounted

ClaimRow == [tier : Tier, count : 0 .. MaxAttempts, lock : Lock]

-----------------------------------------------------------------------------
LEMMA SeamInitInv == SeamInit => SeamInv
  BY SeamConstantsOK
  DEF SeamInit, SeamInv, SeamTypeOK, EntriesHaveClaims, CountBelowLock, AttemptsCounted, Counted, Claims,
      EntriesOf, Evaluating, NoClaim, NoEntry, NoAttempt, AttemptState

(* The shapes of claims and attempts.                                      *)
LEMMA SeamShapes ==
  ASSUME SeamTypeOK
  PROVE  /\ \A s \in Claims : s \in Seam /\ claim[s] \in ClaimRow
         /\ \A s \in Seam : s \notin Claims => claim[s] = NoClaim
         /\ \A h \in Attempt : attempt[h].op = "evaluate" =>
              /\ attempt[h].s \in Seam /\ attempt[h].e \in Entry
              /\ attempt[h].count \in 0 .. MaxAttempts - 1
         /\ \A s \in Seam, t \in Tier : Holds(s, t) <=> claim[s].tier = t
  BY DEF SeamTypeOK, Claims, ClaimRow, AttemptState, NoAttempt, Orphan, NoClaim, Holds, Tier

(* An attempt under evaluation is of a claim that is there.                *)
LEMMA EvaluatesClaim ==
  ASSUME SeamInv, NEW h \in Attempt, attempt[h].op = "evaluate"
  PROVE  /\ attempt[h].s \in Claims
         /\ h \in Evaluating(attempt[h].s)
         /\ entry[attempt[h].e] # NoEntry /\ entry[attempt[h].e].s = attempt[h].s
<1>1. h \in Evaluating(attempt[h].s) /\ attempt[h].s \in Seam
  BY SeamShapes DEF Evaluating, SeamInv
<1>2. attempt[h].e \in EntriesOf(attempt[h].s)
  BY <1>1 DEF SeamInv, EntriesHaveClaims
<1>3. QED
  BY <1>1, <1>2 DEF SeamInv, EntriesHaveClaims, EntriesOf

-----------------------------------------------------------------------------
LEMMA CreateInv ==
  ASSUME SeamInv, NEW s \in Seam, CreateClaim(s)
  PROVE  SeamInv'
<1> USE SeamConstantsOK
<1>1. SeamTypeOK'
  BY DEF SeamInv, SeamTypeOK, CreateClaim, Fresh, Tier, Lock
<1>2. /\ claim'[s] = Fresh /\ \A x \in Seam \ {s} : claim'[x] = claim[x]
      /\ Claims' = Claims \cup {s}
  BY DEF SeamInv, SeamTypeOK, CreateClaim, Claims, Fresh, NoClaim
<1>3. EntriesHaveClaims'
  BY <1>2 DEF SeamInv, EntriesHaveClaims, CreateClaim, EntriesOf, Evaluating
<1>4. CountBelowLock'
  BY <1>2, SeamShapes DEF SeamInv, CountBelowLock, Fresh
<1>5. Evaluating(s) = {}
  <2>1. \A h \in Evaluating(s) : s \in Claims
    BY EvaluatesClaim DEF Evaluating
  <2>2. QED
    BY <2>1 DEF CreateClaim
<1>6. AttemptsCounted'
  <2> SUFFICES ASSUME NEW x \in Seam \ overlapped'
               PROVE  Counted(x)'
    BY DEF AttemptsCounted
  <2>1. Counted(x) /\ Evaluating(x)' = Evaluating(x)
    BY DEF SeamInv, AttemptsCounted, CreateClaim, Evaluating
  <2>2. CASE x = s
    BY <2>1, <2>2, <1>2, <1>5 DEF Counted, CreateClaim, Fresh, EffectiveCount
  <2>3. CASE x # s
    BY <2>1, <2>3, <1>2 DEF Counted, CreateClaim, EffectiveCount
  <2>4. QED
    BY <2>2, <2>3
<1>7. QED
  BY <1>1, <1>3, <1>4, <1>6 DEF SeamInv

LEMMA SyncInv ==
  ASSUME SeamInv, NEW kept \in SUBSET Seam, SyncClaims(kept)
  PROVE  SeamInv'
<1> USE SeamConstantsOK
<1>1. SeamTypeOK'
  BY DEF SeamInv, SeamTypeOK, SyncClaims, Fresh, Tier, Lock, Claims
<1>2. /\ Claims' = kept
      /\ \A s \in kept : claim'[s] = IF s \in Claims THEN claim[s] ELSE Fresh
      /\ \A s \in Seam : failed'[s] = IF s \in kept THEN failed[s] ELSE 0
  BY DEF SyncClaims, Claims, Fresh, NoClaim
<1>3. \A s \in Seam : s \in Claims \ kept => EntriesOf(s) = {} /\ Evaluating(s) = {}
  <2>1. \A s \in Seam : s \in Claims \ kept => EntriesOf(s) = {}
    BY DEF SyncClaims, Removable
  <2>2. QED
    BY <2>1 DEF SeamInv, EntriesHaveClaims
<1>4. EntriesHaveClaims'
  BY <1>2, <1>3 DEF SeamInv, EntriesHaveClaims, SyncClaims, EntriesOf, Evaluating
<1>5. CountBelowLock'
  BY <1>2, SeamShapes DEF SeamInv, CountBelowLock, Fresh
<1>6. \A s \in Seam : s \notin Claims => Evaluating(s) = {}
  BY DEF SeamInv, EntriesHaveClaims, Evaluating
<1>7. AttemptsCounted'
  <2> SUFFICES ASSUME NEW x \in Seam \ overlapped'
               PROVE  Counted(x)'
    BY DEF AttemptsCounted
  <2>1. Counted(x) /\ Evaluating(x)' = Evaluating(x) /\ attempt' = attempt
    BY DEF SeamInv, AttemptsCounted, SyncClaims, Evaluating
  <2>2. CASE x \in kept /\ x \in Claims
    BY <2>1, <2>2, <1>2 DEF Counted, EffectiveCount
  <2>3. CASE x \in kept /\ x \notin Claims
    BY <2>1, <2>3, <1>2, <1>6 DEF Counted, EffectiveCount, Fresh
  <2>4. CASE x \notin kept
    BY <2>1, <2>4, <1>2, <1>3, <1>6 DEF Counted
  <2>5. QED
    BY <2>2, <2>3, <2>4
<1>8. QED
  BY <1>1, <1>4, <1>5, <1>7 DEF SeamInv

LEMMA BeginInv ==
  ASSUME SeamInv, NEW h \in Attempt, NEW s \in Seam, NEW e \in Entry, BeginSubmit(h, s, e)
  PROVE  SeamInv'
<1> USE SeamConstantsOK
<1>1. s \in Claims /\ EffectiveCount(s) \in 0 .. MaxAttempts - 1
  BY SeamShapes DEF BeginSubmit, Holds, SeamInv, ClaimRow, EffectiveCount
<1>2. /\ attempt'[h] = [op |-> "evaluate", s |-> s, count |-> EffectiveCount(s), e |-> e]
      /\ \A g \in Attempt \ {h} : attempt'[g] = attempt[g]
      /\ entry'[e] = [status |-> "PENDING", s |-> s]
      /\ \A d \in Entry \ {e} : entry'[d] = entry[d]
      /\ attempt[h] = NoAttempt /\ entry[e] = NoEntry
      /\ claim' = claim /\ failed' = failed
  BY DEF SeamInv, SeamTypeOK, BeginSubmit
<1>3. SeamTypeOK'
  BY <1>1, <1>2 DEF SeamInv, SeamTypeOK, BeginSubmit, AttemptState, Status
<1>4. /\ Claims' = Claims
      /\ \A x \in Seam : Evaluating(x)' = IF x = s THEN Evaluating(x) \cup {h} ELSE Evaluating(x)
      /\ \A x \in Seam : EntriesOf(x)' = IF x = s THEN EntriesOf(x) \cup {e} ELSE EntriesOf(x)
  BY <1>2 DEF Claims, Evaluating, EntriesOf, NoAttempt, NoEntry
<1>5. EntriesHaveClaims'
  BY <1>1, <1>2, <1>4 DEF SeamInv, EntriesHaveClaims, Evaluating
<1>6. CountBelowLock'
  BY <1>2, <1>4 DEF SeamInv, CountBelowLock
<1>7. AttemptsCounted'
  <2> SUFFICES ASSUME NEW x \in Seam \ overlapped'
               PROVE  Counted(x)'
    BY DEF AttemptsCounted
  <2>1. Counted(x)
    BY DEF SeamInv, AttemptsCounted, BeginSubmit
  <2>2. CASE x = s
    <3>1. Evaluating(s) = {}
      BY <2>2 DEF BeginSubmit
    <3>2. Evaluating(x)' = {h}
      BY <2>2, <3>1, <1>4
    <3>3. EffectiveCount(x)' = EffectiveCount(x)
      BY <1>2 DEF EffectiveCount
    <3>4. QED
      BY <2>1, <2>2, <3>2, <3>3, <1>2, <1>4 DEF Counted, BeginSubmit
  <2>3. CASE x # s
    <3>1. Evaluating(x)' = Evaluating(x) /\ h \notin Evaluating(x)
      BY <2>3, <1>2, <1>4 DEF Evaluating, NoAttempt
    <3>2. EffectiveCount(x)' = EffectiveCount(x)
      BY <1>2 DEF EffectiveCount
    <3>3. QED
      BY <2>1, <3>1, <3>2, <1>2, <1>4 DEF Counted, Evaluating
  <2>4. QED
    BY <2>2, <2>3
<1>8. QED
  BY <1>3, <1>5, <1>6, <1>7 DEF SeamInv

-----------------------------------------------------------------------------
(* What an evaluation that ends does to the requests and entries.          *)
LEMMA EndOfEvaluation ==
  ASSUME SeamInv, NEW h \in Attempt, attempt[h].op = "evaluate", EndsAttempt(h),
         NEW status \in Status,
         entry' = [entry EXCEPT ![attempt[h].e] = [status |-> status, s |-> attempt[h].s]]
  PROVE  /\ attempt' \in [Attempt -> AttemptState]
         /\ entry' \in [Entry -> {NoEntry} \cup [status : Status, s : Seam]]
         /\ \A x \in Seam : EntriesOf(x)' = EntriesOf(x)
         /\ \A x \in Seam : Evaluating(x)' = Evaluating(x) \ {h}
         /\ \A g \in Attempt \ {h} : attempt'[g] = attempt[g]
<1>1. /\ attempt' \in [Attempt -> AttemptState] /\ attempt'[h] = NoAttempt
      /\ \A g \in Attempt \ {h} : attempt'[g] = attempt[g]
  BY DEF SeamInv, SeamTypeOK, EndsAttempt, AttemptState
<1>2. entry' \in [Entry -> {NoEntry} \cup [status : Status, s : Seam]]
  BY SeamShapes DEF SeamInv, SeamTypeOK
<1>3. \A x \in Seam : Evaluating(x)' = Evaluating(x) \ {h}
  BY <1>1 DEF Evaluating, NoAttempt
<1>4. \A d \in Entry : entry'[d] =
        IF d = attempt[h].e THEN [status |-> status, s |-> attempt[h].s] ELSE entry[d]
  BY DEF SeamInv, SeamTypeOK
<1>5. [status |-> status, s |-> attempt[h].s] # NoEntry
  BY DEF NoEntry, Status
<1>6. \A x \in Seam : EntriesOf(x)' = EntriesOf(x)
  BY <1>4, <1>5, EvaluatesClaim DEF EntriesOf
<1>7. QED
  BY <1>1, <1>2, <1>3, <1>6

LEMMA PassInv ==
  ASSUME SeamInv, NEW h \in Attempt, CommitPass(h)
  PROVE  SeamInv'
<1> USE SeamConstantsOK
<1> DEFINE s == attempt[h].s
<1>1. s \in Claims /\ s \in Seam /\ claim[s] \in ClaimRow /\ attempt[h].op = "evaluate"
  BY EvaluatesClaim, SeamShapes DEF CommitPass, SeamInv
<1>2. /\ claim'[s] = [tier |-> "EVIDENCE_BACKED", count |-> claim[s].count, lock |-> claim[s].lock]
      /\ \A x \in Seam \ {s} : claim'[x] = claim[x]
      /\ failed' = failed /\ overlapped' = overlapped
  BY <1>1 DEF CommitPass, SeamInv, SeamTypeOK
<1>3. /\ attempt' \in [Attempt -> AttemptState]
      /\ entry' \in [Entry -> {NoEntry} \cup [status : Status, s : Seam]]
      /\ \A x \in Seam : EntriesOf(x)' = EntriesOf(x)
      /\ \A x \in Seam : Evaluating(x)' = Evaluating(x) \ {h}
      /\ \A g \in Attempt \ {h} : attempt'[g] = attempt[g]
  BY <1>1, EndOfEvaluation DEF CommitPass, Status
<1>4. SeamTypeOK'
  BY <1>1, <1>3 DEF CommitPass, SeamInv, SeamTypeOK, ClaimRow, Tier
<1>5. Claims' = Claims
  BY <1>1, <1>2 DEF Claims, NoClaim
<1>6. \A x \in Seam : Evaluating(x)' \subseteq Evaluating(x) /\ h \notin Evaluating(x)'
  BY <1>3
<1>7. EntriesHaveClaims'
  BY <1>3, <1>5, <1>6 DEF SeamInv, EntriesHaveClaims, Evaluating
<1>8. CountBelowLock'
  BY <1>1, <1>2, <1>5, SeamShapes DEF SeamInv, CountBelowLock
<1>9. AttemptsCounted'
  <2> SUFFICES ASSUME NEW x \in Seam \ overlapped'
               PROVE  Counted(x)'
    BY DEF AttemptsCounted
  <2>1. Counted(x)
    BY <1>2 DEF SeamInv, AttemptsCounted
  <2>2. EffectiveCount(x)' = EffectiveCount(x) /\ claim'[x].lock = claim[x].lock
        /\ claim'[x].count = claim[x].count
    BY <1>2 DEF EffectiveCount
  <2>3. \A g \in Evaluating(x)' : g \in Evaluating(x) /\ attempt'[g] = attempt[g]
    BY <1>3, <1>6 DEF Evaluating
  <2>4. QED
    BY <2>1, <2>2, <2>3, <1>2, <1>5 DEF Counted
<1>10. QED
  BY <1>4, <1>7, <1>8, <1>9 DEF SeamInv

LEMMA FailInv ==
  ASSUME SeamInv, NEW h \in Attempt, CommitFail(h)
  PROVE  SeamInv'
<1> USE SeamConstantsOK
<1> DEFINE s == attempt[h].s
           n == attempt[h].count + 1
<1>1. /\ s \in Claims /\ s \in Seam /\ claim[s] \in ClaimRow /\ attempt[h].op = "evaluate"
      /\ n \in 1 .. MaxAttempts /\ h \in Evaluating(s)
  BY EvaluatesClaim, SeamShapes DEF CommitFail, SeamInv
<1>2. /\ claim'[s] = [tier |-> claim[s].tier, count |-> n,
                      lock |-> IF n >= MaxAttempts THEN "running" ELSE "none"]
      /\ \A x \in Seam \ {s} : claim'[x] = claim[x] /\ failed'[x] = failed[x]
      /\ failed'[s] = failed[s] + 1
      /\ overlapped' = overlapped
  BY <1>1 DEF CommitFail, SeamInv, SeamTypeOK, AfterFailure, Locks
<1>3. /\ attempt' \in [Attempt -> AttemptState]
      /\ entry' \in [Entry -> {NoEntry} \cup [status : Status, s : Seam]]
      /\ \A x \in Seam : EntriesOf(x)' = EntriesOf(x)
      /\ \A x \in Seam : Evaluating(x)' = Evaluating(x) \ {h}
      /\ \A g \in Attempt \ {h} : attempt'[g] = attempt[g]
  BY <1>1, EndOfEvaluation DEF CommitFail, Status
<1>4. SeamTypeOK'
  <2>1. AfterFailure(s, n) \in ClaimRow
    BY <1>1 DEF AfterFailure, ClaimRow, Tier, Lock
  <2>2. claim' \in [Seam -> {NoClaim} \cup ClaimRow]
    BY <2>1 DEF CommitFail, SeamInv, SeamTypeOK, ClaimRow
  <2>3. failed' \in [Seam -> Nat]
    <3>1. failed \in [Seam -> Nat] /\ failed[s] + 1 \in Nat
      BY <1>1 DEF SeamInv, SeamTypeOK
    <3>2. failed' = [failed EXCEPT ![s] = failed[s] + 1]
      BY DEF CommitFail
    <3>3. QED
      BY <3>1, <3>2
  <2>4. QED
    BY <1>2, <1>3, <2>2, <2>3 DEF SeamInv, SeamTypeOK, ClaimRow
<1>5. Claims' = Claims
  BY <1>1, <1>2 DEF Claims, NoClaim
<1>6. \A x \in Seam : Evaluating(x)' \subseteq Evaluating(x) /\ h \notin Evaluating(x)'
  BY <1>3
<1>7. EntriesHaveClaims'
  BY <1>3, <1>5, <1>6 DEF SeamInv, EntriesHaveClaims, Evaluating
<1>8. CountBelowLock'
  BY <1>1, <1>2, <1>5, SeamShapes DEF SeamInv, CountBelowLock
<1>9. AttemptsCounted'
  <2> SUFFICES ASSUME NEW x \in Seam \ overlapped'
               PROVE  Counted(x)'
    BY DEF AttemptsCounted
  <2>1. Counted(x)
    BY <1>2 DEF SeamInv, AttemptsCounted
  <2>2. CASE x = s
    <3>1. Evaluating(x)' = {}
      BY <2>1, <2>2, <1>1, <1>3 DEF Counted
    <3>2. failed[x] = EffectiveCount(x) /\ attempt[h].count = EffectiveCount(x)
      BY <2>1, <2>2, <1>1 DEF Counted
    <3>3. EffectiveCount(x)' = n
      BY <2>2, <1>2 DEF EffectiveCount
    <3>4. failed'[x] = n
      BY <2>2, <3>2, <1>2
    <3>5. claim'[x].lock = "running" => claim'[x].count = MaxAttempts
      BY <2>2, <1>1, <1>2
    <3>6. QED
      BY <2>2, <3>1, <3>3, <3>4, <3>5, <1>1, <1>5 DEF Counted
  <2>3. CASE x # s
    <3>1. EffectiveCount(x)' = EffectiveCount(x) /\ claim'[x] = claim[x]
      BY <2>3, <1>2 DEF EffectiveCount
    <3>2. \A g \in Evaluating(x)' : g \in Evaluating(x) /\ attempt'[g] = attempt[g]
      BY <1>3, <1>6 DEF Evaluating
    <3>3. QED
      BY <2>1, <2>3, <3>1, <3>2, <1>2, <1>5 DEF Counted
  <2>4. QED
    BY <2>2, <2>3
<1>10. QED
  BY <1>4, <1>7, <1>8, <1>9 DEF SeamInv

(* Requests that end without a word, or lose their entry.                  *)
LEMMA QuietInv ==
  ASSUME SeamInv, (\E h \in Attempt : Stop(h)) \/ (\E e \in Entry : Delete(e))
  PROVE  SeamInv'
<1>1. /\ claim' = claim /\ failed' = failed /\ overlapped' = overlapped
      /\ attempt' \in [Attempt -> AttemptState]
      /\ \A g \in Attempt : attempt'[g] \in {NoAttempt, Orphan} \/ attempt'[g] = attempt[g]
      /\ entry' \in [Entry -> {NoEntry} \cup [status : Status, s : Seam]]
      /\ \A d \in Entry : entry'[d] \in {NoEntry, entry[d]}
  BY DEF SeamInv, SeamTypeOK, Stop, Delete, EndsAttempt, AttemptState
<1>2. \A x \in Seam : \A g \in Evaluating(x)' : g \in Evaluating(x) /\ attempt'[g] = attempt[g]
  BY <1>1 DEF Evaluating, NoAttempt, Orphan
<1>3. \A x \in Seam : EntriesOf(x)' \subseteq EntriesOf(x)
  BY <1>1 DEF EntriesOf
<1>4. \A x \in Seam : \A g \in Evaluating(x)' : attempt'[g].e \in EntriesOf(x)'
  <2> TAKE x \in Seam
  <2> TAKE g \in Evaluating(x)'
  <2>1. g \in Evaluating(x) /\ attempt'[g] = attempt[g] /\ attempt[g].e \in EntriesOf(x)
    BY <1>2 DEF SeamInv, EntriesHaveClaims
  <2>2. entry'[attempt[g].e] = entry[attempt[g].e]
    <3>1. CASE \E h \in Attempt : Stop(h)
      BY <3>1 DEF Stop
    <3>2. ASSUME NEW e \in Entry, Delete(e)
          PROVE  entry'[attempt[g].e] = entry[attempt[g].e]
      <4>1. g \in Attempt /\ attempt'[g].op = "evaluate"
        BY DEF Evaluating
      <4>2. attempt[g].e # e
        BY <3>2, <4>1, <2>1 DEF Delete, Orphan
      <4>3. QED
        BY <3>2, <4>2, <2>1 DEF Delete, EntriesOf, SeamInv, SeamTypeOK
    <3>3. QED
      BY <3>1, <3>2
  <2>3. QED
    BY <2>1, <2>2 DEF EntriesOf
<1>5. SeamTypeOK' /\ Claims' = Claims /\ CountBelowLock'
  BY <1>1 DEF SeamInv, SeamTypeOK, Claims, CountBelowLock
<1>6. EntriesHaveClaims'
  BY <1>3, <1>4, <1>5 DEF SeamInv, EntriesHaveClaims
<1>7. AttemptsCounted'
  <2> SUFFICES ASSUME NEW x \in Seam \ overlapped'
               PROVE  Counted(x)'
    BY DEF AttemptsCounted
  <2>1. Counted(x) /\ EffectiveCount(x)' = EffectiveCount(x)
    BY <1>1 DEF SeamInv, AttemptsCounted, EffectiveCount
  <2>2. QED
    BY <2>1, <1>1, <1>2, <1>5 DEF Counted
<1>8. QED
  BY <1>5, <1>6, <1>7 DEF SeamInv

LEMMA ElapseInv ==
  ASSUME SeamInv, NEW s \in Seam, Elapse(s)
  PROVE  SeamInv'
<1>1. claim[s] \in ClaimRow /\ s \in Claims
  BY SeamShapes DEF Elapse, SeamInv
<1>2. /\ claim'[s] = [tier |-> claim[s].tier, count |-> claim[s].count, lock |-> "over"]
      /\ \A x \in Seam \ {s} : claim'[x] = claim[x] /\ failed'[x] = failed[x]
      /\ failed'[s] = 0
      /\ entry' = entry /\ attempt' = attempt /\ overlapped' = overlapped
  BY DEF Elapse, SeamInv, SeamTypeOK
<1>3. SeamTypeOK'
  BY <1>1 DEF Elapse, SeamInv, SeamTypeOK, ClaimRow, Lock
<1>4. Claims' = Claims
  BY <1>1, <1>2 DEF Claims, NoClaim
<1>5. EntriesHaveClaims'
  BY <1>2, <1>4 DEF SeamInv, EntriesHaveClaims, EntriesOf, Evaluating
<1>6. CountBelowLock'
  BY <1>1, <1>2, <1>4, SeamShapes DEF SeamInv, CountBelowLock
<1>7. AttemptsCounted'
  <2> SUFFICES ASSUME NEW x \in Seam \ overlapped'
               PROVE  Counted(x)'
    BY DEF AttemptsCounted
  <2>1. Counted(x) /\ Evaluating(x)' = Evaluating(x)
    BY <1>2 DEF SeamInv, AttemptsCounted, Evaluating
  <2>2. CASE x = s
    <3>1. Evaluating(x) = {}
      BY <2>1, <2>2 DEF Counted, Elapse
    <3>2. QED
      BY <2>1, <2>2, <3>1, <1>1, <1>2, <1>4 DEF Counted, EffectiveCount
  <2>3. CASE x # s
    BY <2>1, <2>3, <1>2, <1>4 DEF Counted, EffectiveCount
  <2>4. QED
    BY <2>2, <2>3
<1>8. QED
  BY <1>3, <1>5, <1>6, <1>7 DEF SeamInv

LEMMA SeamNextInv == SeamInv /\ [SeamNext]_seamVars => SeamInv'
<1> SUFFICES ASSUME SeamInv, [SeamNext]_seamVars
             PROVE  SeamInv'
  OBVIOUS
<1>1. CASE \E h \in Attempt : Serve(h)
  BY <1>1, BeginInv, PassInv, FailInv, QuietInv DEF Serve
<1>2. CASE \E s \in Seam : CreateClaim(s) \/ Elapse(s)
  BY <1>2, CreateInv, ElapseInv
<1>3. CASE \E kept \in SUBSET Seam : SyncClaims(kept)
  BY <1>3, SyncInv
<1>4. CASE \E e \in Entry : Delete(e)
  BY <1>4, QuietInv
<1>5. CASE UNCHANGED seamVars
  BY <1>5 DEF seamVars, SeamInv, SeamTypeOK, EntriesHaveClaims, CountBelowLock, AttemptsCounted, Counted,
     Claims, EntriesOf, Evaluating, EffectiveCount
<1>6. QED
  BY <1>1, <1>2, <1>3, <1>4, <1>5 DEF SeamNext

LEMMA SeamInvariant == SeamSpec => []SeamInv
  BY SeamInitInv, SeamNextInv, PTL DEF SeamSpec

-----------------------------------------------------------------------------
(* Every column keeps its type, however many attempts overlap.             *)
THEOREM SeamsTypeCorrect == SeamSpec => []SeamTypeOK
<1>1. SeamInv => SeamTypeOK
  BY DEF SeamInv
<1>2. QED
  BY SeamInvariant, <1>1, PTL

(* The answer of every evaluation finds the claim and the entry it is for. *)
THEOREM EveryEntryHasItsClaim == SeamSpec => []EntriesHaveClaims
<1>1. SeamInv => EntriesHaveClaims
  BY DEF SeamInv
<1>2. QED
  BY SeamInvariant, <1>1, PTL

(* Attempts on a claim that do not overlap lock it after exactly           *)
(* MaxAttempts failures.                                                   *)
THEOREM TooManyFailuresLock == SeamSpec => []FailuresLock
<1>1. SeamInv => FailuresLock
  <2> SUFFICES ASSUME SeamInv, NEW s \in Claims \ overlapped
               PROVE  /\ failed[s] <= MaxAttempts
                      /\ failed[s] = MaxAttempts <=> claim[s].lock = "running"
    BY DEF FailuresLock
  <2>1. s \in Seam /\ claim[s] \in ClaimRow /\ Counted(s)
    BY SeamShapes DEF SeamInv, AttemptsCounted
  <2>2. claim[s].lock = "none" => claim[s].count < MaxAttempts
    BY DEF SeamInv, CountBelowLock
  <2>3. QED
    BY <2>1, <2>2, SeamConstantsOK DEF Counted, EffectiveCount, ClaimRow, Lock
<1>2. QED
  BY SeamInvariant, <1>1, PTL

(* However attempts overlap, nobody is locked out for good.                *)
THEOREM NobodyIsStuck == SeamSpec => []NeverStuck
<1>1. SeamInv => NeverStuck
  <2> SUFFICES ASSUME SeamInv, NEW s \in Claims, claim[s].lock # "running"
               PROVE  EffectiveCount(s) < MaxAttempts
    BY DEF NeverStuck
  <2>1. claim[s] \in ClaimRow
    BY SeamShapes DEF SeamInv
  <2>2. QED
    BY <2>1, SeamConstantsOK DEF SeamInv, CountBelowLock, EffectiveCount, ClaimRow, Lock
<1>2. QED
  BY SeamInvariant, <1>1, PTL

(* No step takes verification from a seam with an entry that is kept.      *)
LEMMA StepKeepsEvidence ==
  ASSUME SeamInv, SeamNext, NEW s \in Seam, Holds(s, "EVIDENCE_BACKED"), EntriesOf(s) # {}
  PROVE  Holds(s, "EVIDENCE_BACKED")'
<1> USE DEF Holds
<1>1. s \in Claims /\ claim[s] \in ClaimRow /\ claim[s].tier = "EVIDENCE_BACKED"
  BY SeamShapes DEF SeamInv
<1>2. SUFFICES claim'[s] # NoClaim /\ claim'[s].tier = "EVIDENCE_BACKED"
  BY DEF Claims
<1>3. SUFFICES claim'[s].tier = "EVIDENCE_BACKED"
  BY DEF NoClaim
<1>4. ASSUME NEW h \in Attempt, Serve(h)
      PROVE  claim'[s].tier = "EVIDENCE_BACKED"
  BY <1>1, <1>4 DEF Serve, BeginSubmit, CommitPass, CommitFail, Stop, AfterFailure, SeamInv, SeamTypeOK
<1>5. ASSUME NEW x \in Seam, CreateClaim(x) \/ Elapse(x)
      PROVE  claim'[s].tier = "EVIDENCE_BACKED"
  BY <1>1, <1>5 DEF CreateClaim, Elapse, SeamInv, SeamTypeOK
<1>6. ASSUME NEW kept \in SUBSET Seam, SyncClaims(kept)
      PROVE  claim'[s].tier = "EVIDENCE_BACKED"
  BY <1>1, <1>6 DEF SyncClaims, Removable
<1>7. ASSUME NEW e \in Entry, Delete(e)
      PROVE  claim'[s].tier = "EVIDENCE_BACKED"
  BY <1>1, <1>7 DEF Delete
<1>8. QED
  BY <1>4, <1>5, <1>6, <1>7 DEF SeamNext

(* What was verified stays verified as long as an entry for it is kept.    *)
THEOREM EvidenceIsKept == SeamSpec => EvidenceStays
<1>1. SeamInv /\ [SeamNext]_seamVars => [\A s \in Seam :
        Holds(s, "EVIDENCE_BACKED") /\ EntriesOf(s) # {} => Holds(s, "EVIDENCE_BACKED")']_seamVars
  BY StepKeepsEvidence
<1>2. QED
  BY SeamInvariant, <1>1, PTL DEF SeamSpec, EvidenceStays

(* A project that requires at most one seam more than the ratio leaves     *)
(* out nobody who has verified one of them.                                *)
THEOREM FewSeamsSpareAll == SeamSpec => []GateSparesFewSeams
<1>1. GateSparesFewSeams
  <2> SUFFICES ASSUME Cardinality(Seam) <= Ratio + 1, FailsGate
               PROVE  FALSE
    BY DEF GateSparesFewSeams
  <2> DEFINE C == {s \in Seam : Holds(s, "CLAIMED")}
             V == {s \in Seam : Holds(s, "EVIDENCE_BACKED")}
  <2>1. IsFiniteSet(V) /\ Cardinality(V) \in Nat /\ Cardinality(V) # 0
    BY FS_Subset, FS_CardinalityType, SeamConstantsOK DEF FailsGate, VerifiedCount
  <2>2. PICK v \in V : TRUE
    BY <2>1, FS_EmptySet
  <2>3. /\ IsFiniteSet(Seam \ {v})
        /\ Cardinality(Seam \ {v}) = Cardinality(Seam) - 1
        /\ Cardinality(Seam) \in Nat
    BY <2>2, FS_RemoveElement, FS_CardinalityType, SeamConstantsOK
  <2>4. C \in SUBSET (Seam \ {v})
    BY <2>2 DEF Holds
  <2>5. Cardinality(C) <= Ratio /\ Cardinality(C) \in Nat
    BY <2>3, <2>4, FS_Subset, FS_CardinalityType, SeamConstantsOK
  <2>6. Ratio * Cardinality(V) >= Ratio
    <3>1. \A r, n \in Nat : n # 0 => r * n >= r
      OBVIOUS
    <3>2. QED
      BY <3>1, <2>1, SeamConstantsOK
  <2>7. Cardinality(C) > Ratio * Cardinality(V)
    BY DEF FailsGate, ExceedsRatio, ClaimedCount, VerifiedCount
  <2>8. QED
    BY <2>1, <2>5, <2>6, <2>7, SeamConstantsOK
<1>2. QED
  BY <1>1, PTL
=============================================================================
