----------------------------- MODULE Recruiting -----------------------------
(***************************************************************************)
(* Who may bid on one published project, and who is invited to: the two    *)
(* lists of experts computed from the same scoring, one in memory that     *)
(* admits a bid and one in the database that the CEO sees, and the         *)
(* invitation of an expert, which his bid answers.                         *)
(*                                                                         *)
(* A list is as old as the pool it was scored from.  Time is in ticks; it  *)
(* passes during a call of the AI service, which has a timeout, and while  *)
(* an admitted bid waits to be written, not between two statements.        *)
(* Suspended experts are left out: only the list in memory excludes them.  *)
(***************************************************************************)
EXTENDS Integers

CONSTANTS
  Expert,   \* experts other than the owner of the project
  Handler,  \* requests that can be in progress at a time
  Ttl,      \* ticks an entry in memory is served, ShortlistService.TTL_MS
  Timeout   \* ticks until a call of /llm/matching fails, TIMEOUT_MATCHING

ASSUME ConstantsOK == Ttl \in Nat \ {0} /\ Timeout \in Nat

VARIABLES
  fit,         \* the experts the scoring would return now
  unfit,       \* history: ticks since each of them was last fit
  memo,        \* ShortlistService.cache: the experts, and ticks since fetchedAt
  row,         \* project_shortlist_cache.results_json
  invitation,  \* invitations.status, per expert
  answered,    \* history: experts who bid since they were last invited
  request      \* what each handler is doing and what it has read

lists == <<memo, row>>
offers == <<invitation, answered>>
vars   == <<fit, unfit, memo, row, invitation, answered, request>>

-----------------------------------------------------------------------------
Horizon == Ttl + Timeout      \* nothing tells later times apart
NoRow   == [stored |-> FALSE, experts |-> {}]
Stored(experts) == [stored |-> TRUE, experts |-> experts]
Idle    == [op |-> "idle"]

Request ==
       {Idle}
  \cup [op : {"check"}, expert : Expert, pool : SUBSET Expert, age : 0 .. Timeout]
  \cup [op : {"refreshed", "admitted", "answer"}, expert : Expert]
  \cup [op : {"missing", "persisted"}, again : BOOLEAN]
  \cup [op : {"score"}, again : BOOLEAN, pool : SUBSET Expert, age : 0 .. Timeout]

Becomes(h, r) == request' = [request EXCEPT ![h] = r]
Starts(h, r)  == request[h] = Idle /\ Becomes(h, r)
Ends(h)       == Becomes(h, Idle)
Calling(h)    == request[h].op \in {"check", "score"}

Init ==
  /\ fit \in SUBSET Expert
  /\ unfit = [e \in Expert |-> IF e \in fit THEN 0 ELSE Horizon]
  /\ memo = [experts |-> {}, age |-> Ttl]
  /\ row \in {NoRow, Stored(fit)}
  /\ invitation = [e \in Expert |-> "NONE"] /\ answered = {}
  /\ request = [h \in Handler |-> Idle]

-----------------------------------------------------------------------------
(* Claims, evidence and domain depths change what the scoring returns.     *)
Rescored(e) ==
  /\ fit' = IF e \in fit THEN fit \ {e} ELSE fit \cup {e}
  /\ unfit' = [unfit EXCEPT ![e] = 0]
  /\ UNCHANGED <<lists, offers, request>>

InTime(h)      == Calling(h) => request[h].age < Timeout

Later(n, limit) == IF n < limit THEN n + 1 ELSE limit

Tick ==
  /\ \A h \in Handler : request[h].op \notin {"refreshed", "missing", "persisted"} /\ InTime(h)
  /\ unfit' = [e \in Expert |-> IF e \in fit THEN 0 ELSE Later(unfit[e], Horizon)]
  /\ memo' = [memo EXCEPT !.age = Later(@, Ttl)]
  /\ request' = [h \in Handler |->
       IF Calling(h) THEN [request[h] EXCEPT !.age = @ + 1] ELSE request[h]]
  /\ UNCHANGED <<fit, row, offers>>

(* The call of /llm/matching fails, or runs into its timeout.              *)
FailCall(h) ==
  /\ Calling(h)
  /\ Ends(h)
  /\ UNCHANGED <<fit, unfit, lists, offers>>

-----------------------------------------------------------------------------
(* BidsService.create asks isExpertShortlisted.  That it refuses one who   *)
(* has a bid is in Bidding.                                                *)
IsFresh         == memo.age < Ttl
ServesAnyAge(e) == e \in memo.experts
Serves(e)       == IsFresh /\ e \in memo.experts

CheckInMemory(h, e) ==
  /\ Serves(e)
  /\ Starts(h, [op |-> "admitted", expert |-> e])
  /\ UNCHANGED <<fit, unfit, lists, offers>>

BeginRefresh(h, e) ==
  /\ ~ IsFresh
  /\ Starts(h, [op |-> "check", expert |-> e, pool |-> fit, age |-> 0])
  /\ UNCHANGED <<fit, unfit, lists, offers>>

EndRefresh(h) ==
  /\ request[h].op = "check"
  /\ memo' = [experts |-> request[h].pool, age |-> 0]
  /\ Becomes(h, [op |-> "refreshed", expert |-> request[h].expert])
  /\ UNCHANGED <<fit, unfit, row, offers>>

(* The entry is read once more: another refresh may have replaced it.      *)
CheckRefreshed(h) ==
  /\ request[h].op = "refreshed"
  /\ IF request[h].expert \in memo.experts
     THEN Becomes(h, [op |-> "admitted", expert |-> request[h].expert])
     ELSE Ends(h)
  /\ UNCHANGED <<fit, unfit, lists, offers>>

(* The transaction of create: bid and engagement, and the invitation.      *)
LeavesInvitation(e) == invitation[e]
Answers(e) == IF invitation[e] = "PENDING" THEN "ACCEPTED" ELSE invitation[e]

CommitBid(h) ==
  /\ request[h].op = "admitted"
  /\ LET e == request[h].expert IN
     /\ invitation' = [invitation EXCEPT ![e] = Answers(e)]
     /\ answered' = answered \cup {e}
  /\ Ends(h)
  /\ UNCHANGED <<fit, unfit, lists>>

-----------------------------------------------------------------------------
(* MatchingService for the CEO: getShortlist reads the row, and scores on  *)
(* a miss; forceRefresh evicts it, scores, and then does getShortlist.     *)
MissList(h) ==
  /\ ~ row.stored
  /\ Starts(h, [op |-> "missing", again |-> FALSE])
  /\ UNCHANGED <<fit, unfit, lists, offers>>

ForceRefresh(h) ==
  /\ row' = NoRow
  /\ Starts(h, [op |-> "missing", again |-> TRUE])
  /\ UNCHANGED <<fit, unfit, memo, offers>>

TriggerMatching(h) ==
  /\ request[h].op = "missing"
  /\ Becomes(h, [op |-> "score", again |-> request[h].again, pool |-> fit, age |-> 0])
  /\ UNCHANGED <<fit, unfit, lists, offers>>

PersistUnlessStored(h) == IF row.stored THEN row ELSE Stored(request[h].pool)
PersistCache(h)        == Stored(request[h].pool)

EndMatching(h) ==
  /\ request[h].op = "score"
  /\ row' = PersistCache(h)
  /\ Becomes(h, [op |-> "persisted", again |-> request[h].again])
  /\ UNCHANGED <<fit, unfit, memo, offers>>

(* The row is read once more: another refresh may have evicted it.         *)
ShowList(h) ==
  /\ request[h].op = "persisted"
  /\ IF request[h].again /\ ~ row.stored
     THEN Becomes(h, [op |-> "missing", again |-> FALSE])
     ELSE Ends(h)
  /\ UNCHANGED <<fit, unfit, lists, offers>>

-----------------------------------------------------------------------------
(* upsertInvitation, whatever the invitation was before.                   *)
Invite(e) ==
  /\ invitation' = [invitation EXCEPT ![e] = "PENDING"]
  /\ answered' = answered \ {e}
  /\ UNCHANGED <<fit, unfit, lists, request>>

(* declineInvitation and retractInvitation, which read and then write.     *)
BeginDecline(h, e) ==
  /\ invitation[e] = "PENDING"
  /\ Starts(h, [op |-> "answer", expert |-> e])
  /\ UNCHANGED <<fit, unfit, lists, offers>>

BeginRetract(h, e) ==
  /\ invitation[e] \notin {"NONE", "ACCEPTED"}
  /\ Starts(h, [op |-> "answer", expert |-> e])
  /\ UNCHANGED <<fit, unfit, lists, offers>>

CommitAnswer(h) ==
  /\ request[h].op = "answer"
  /\ invitation' = [invitation EXCEPT ![request[h].expert] = "DECLINED"]
  /\ Ends(h)
  /\ UNCHANGED <<fit, unfit, lists, answered>>

-----------------------------------------------------------------------------
Bids(h) ==
  \/ \E e \in Expert : CheckInMemory(h, e) \/ BeginRefresh(h, e)
  \/ EndRefresh(h) \/ CheckRefreshed(h) \/ CommitBid(h)

Lists(h) ==
  \/ MissList(h) \/ ForceRefresh(h) \/ TriggerMatching(h)
  \/ EndMatching(h) \/ ShowList(h)

Answering(h) ==
  \/ \E e \in Expert : BeginDecline(h, e) \/ BeginRetract(h, e)
  \/ CommitAnswer(h)

Next ==
  \/ Tick
  \/ \E e \in Expert : Rescored(e) \/ Invite(e)
  \/ \E h \in Handler : Bids(h) \/ Lists(h) \/ Answering(h) \/ FailCall(h)

Spec == Init /\ [][Next]_vars

-----------------------------------------------------------------------------
(* Every variable holds a value of its type.                               *)
TypeOK ==
  /\ fit \subseteq Expert
  /\ unfit \in [Expert -> 0 .. Horizon]
  /\ memo \in [experts : SUBSET Expert, age : 0 .. Ttl]
  /\ row \in [stored : BOOLEAN, experts : SUBSET Expert]
  /\ invitation \in [Expert -> {"NONE", "PENDING", "ACCEPTED", "DECLINED"}]
  /\ answered \subseteq Expert
  /\ request \in [Handler -> Request]

(* Whoever is admitted to bid was fit less than Ttl + Timeout ago, however *)
(* many refreshes overlap and in whatever order their answers come: the    *)
(* entry a slow one leaves is served for the whole Ttl again.              *)
AdmittedWereFit == [][\A h \in Handler :
  request[h].op # "admitted" /\ request'[h].op = "admitted"
    => unfit[request'[h].expert] < Ttl + Timeout]_vars

(* The list the CEO gets after a refresh, or a miss, shows nobody who was  *)
(* last fit before the timeout of one call, even when several refreshes    *)
(* evict and overwrite the row at once.                                    *)
ShownWereFit == \A h \in Handler :
  request[h].op = "persisted" => \A e \in row.experts : unfit[e] <= Timeout

(* An expert's bid answers the invitation he has, and nothing else accepts *)
(* it: it is not left PENDING by a bid, nor ACCEPTED without one.          *)
InvitationFollowsBid == \A e \in Expert :
  /\ invitation[e] = "PENDING" => e \notin answered
  /\ invitation[e] = "ACCEPTED" => e \in answered
=============================================================================
