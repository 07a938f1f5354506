----------------------------- MODULE PageProofs -----------------------------
(***************************************************************************)
(* Proofs about what one page of the client keeps: ClientSession, for      *)
(* every set of calls; and Messaging, for every set of threads, page size, *)
(* number of messages and of faults.  The two specifications are apart,    *)
(* and share only this module: each theorem is about one of them.          *)
(***************************************************************************)
EXTENDS ClientSession, Messaging, SequenceTheorems, TLAPS

-----------------------------------------------------------------------------
(* The session.                                                            *)

Pending    == {"unauthorized", "queued", "refreshing", "granted", "renewed", "denied"}
Refreshing == {"refreshing", "granted", "renewed", "denied"}

(* A login is answered at once, so only logins and refreshes carry tokens. *)
LoginsAnswered   == \A r \in At(Pending) : request[r].kind # "login"
CallsHaveNoToken == \A r \in At({"sent", "answered", "unauthorized", "queued"}) :
  request[r].kind # "login" => request[r].token = "none"

(* At most one refresh is the page's own, and isRefreshing is set for it.  *)
OneRefresh == \A q, r \in At(Refreshing) :
  request[q].live /\ request[r].live => refreshing /\ q = r

(* The calls of the page that may bring it a new refresh token.            *)
Bringers         == {r \in LoginsOut \cup Refreshes : request[r].live}
OneBringer       == \A q, r \in Bringers : q = r
BroughtIsCurrent == \A r \in Bringers :
  request[r].stage \in {"answered", "renewed"} => request[r].token = "current"

Undisturbed == /\ OneBringer /\ BroughtIsCurrent
               /\ saved.refresh = store.refresh
               /\ HeldIsCurrent

SessionInv == /\ TypeOK /\ LoginsAnswered /\ CallsHaveNoToken /\ OneRefresh
              /\ strayed \/ Undisturbed

Entry == {Unsent, Ended} \cup Call

LEMMA SessionInit == Init => SessionInv
<1> SUFFICES ASSUME Init
             PROVE  SessionInv
  OBVIOUS
<1>1. \A stages : "unsent" \notin stages => At(stages) = {}
  BY DEF Init, At, Unsent
<1>2. TypeOK
  BY DEF Init, TypeOK, Tokens, Empty, Token
<1>3. LoginsAnswered /\ CallsHaveNoToken /\ OneRefresh
  BY <1>1 DEF LoginsAnswered, CallsHaveNoToken, OneRefresh, Pending, Refreshing
<1>4. Bringers = {}
  BY <1>1 DEF Bringers, LoginsOut, Refreshes
<1>5. Undisturbed
  BY <1>4 DEF Undisturbed, OneBringer, BroughtIsCurrent, HeldIsCurrent, Init, Empty
<1>6. QED
  BY <1>2, <1>3, <1>5 DEF SessionInv

(* A call that has been sent and has not ended has all its fields.         *)
LEMMA Fields ==
  ASSUME TypeOK, NEW r \in Request, request[r].stage \in Stage
  PROVE  /\ request[r] \in Call
         /\ request[r].kind \in Kind /\ request[r].retry \in BOOLEAN
         /\ request[r].access \in BOOLEAN /\ request[r].live \in BOOLEAN
         /\ request[r].token \in Token
  BY DEF TypeOK, Unsent, Ended, Call, Stage

LEMMA EntryFields ==
  ASSUME TypeOK, NEW r \in Request
  PROVE  /\ request[r] \in Entry
         /\ request[r].token \in Token
         /\ request[r].stage \in Stage \cup {"unsent", "ended"}
  BY DEF TypeOK, Unsent, Ended, Call, Stage, Entry, Token

(* One call changes, to an entry that keeps the invariant.                 *)
LEMMA OneCallChanges ==
  ASSUME SessionInv, NEW r \in Request, NEW c \in Entry,
         request' = [request EXCEPT ![r] = c],
         hash' \in {"null", "set"}, store' \in Tokens, saved' \in Tokens,
         refreshing' \in BOOLEAN, strayed' \in BOOLEAN,
         refreshing => refreshing',
         c.stage \in Pending => c.kind # "login",
         c.stage \in {"sent", "answered", "unauthorized", "queued"} /\ c.kind # "login"
           => c.token = "none",
         c.stage \in Refreshing /\ c.live =>
           \/ ~ refreshing /\ refreshing'
           \/ request[r].stage \in Refreshing /\ request[r].live
  PROVE  TypeOK' /\ LoginsAnswered' /\ CallsHaveNoToken' /\ OneRefresh'
<1>1. \A q \in Request : request'[q] = IF q = r THEN c ELSE request[q]
  BY DEF SessionInv, TypeOK
<1>2. TypeOK'
  BY <1>1 DEF SessionInv, TypeOK, Entry
<1>3. LoginsAnswered' /\ CallsHaveNoToken'
  BY <1>1 DEF SessionInv, LoginsAnswered, CallsHaveNoToken, At
<1>4. OneRefresh'
  BY <1>1 DEF SessionInv, OneRefresh, At
<1>5. QED
  BY <1>2, <1>3, <1>4

(* An entry that may bring the page a refresh token.                       *)
Bringer(c) == /\ \/ c.stage \in {"sent", "answered"} /\ c.kind = "login"
                 \/ c.stage \in {"refreshing", "granted", "renewed"}
              /\ c.live

LEMMA BringersAre == Bringers = {r \in Request : Bringer(request[r])}
  BY DEF Bringers, Bringer, LoginsOut, Refreshes, At

(* One call changes, and the page's own token is replaced by what the call *)
(* brought, or cleared, or stays as long as nothing brought is dropped.    *)
LEMMA OneCallBrings ==
  ASSUME SessionInv, NEW r \in Request, NEW c \in Entry,
         request' = [request EXCEPT ![r] = c],
         strayed => strayed',
         ~ strayed' =>
           /\ saved'.refresh = store'.refresh
           /\ store'.refresh # "old" \/ (store'.refresh = store.refresh /\ ~ BringsToken(r))
           /\ Bringer(c) => Bringer(request[r]) \/ Bringers = {}
           /\ Bringer(c) /\ c.stage \in {"answered", "renewed"} => c.token = "current"
  PROVE  strayed' \/ Undisturbed'
<1> SUFFICES ASSUME ~ strayed'
             PROVE  Undisturbed'
  OBVIOUS
<1>1. \A q \in Request : request'[q] = IF q = r THEN c ELSE request[q]
  BY DEF SessionInv, TypeOK
<1>2. Undisturbed
  BY DEF SessionInv
<1>3. Bringers' = {q \in Request : Bringer(request'[q])}
  BY DEF Bringers, Bringer, LoginsOut, Refreshes, At
<1>4. OneBringer' /\ BroughtIsCurrent'
  BY <1>1, <1>2, <1>3, BringersAre DEF Undisturbed, OneBringer, BroughtIsCurrent
<1>5. HeldIsCurrent'
  BY <1>1, <1>2 DEF Undisturbed, HeldIsCurrent, BringsToken
<1>6. QED
  BY <1>4, <1>5 DEF Undisturbed

-----------------------------------------------------------------------------
(* The steps in which one call changes.                                    *)
LEMMA SendInv ==
  ASSUME SessionInv, NEW r \in Request, NEW kind \in Kind, Send(r, kind)
  PROVE  SessionInv'
<1> DEFINE c == [stage |-> "sent", kind |-> kind, retry |-> FALSE, token |-> "none",
                 access |-> store.access \/ saved.access, live |-> TRUE]
<1>1. c \in Entry
  <2>1. (store.access \/ saved.access) \in BOOLEAN
    OBVIOUS
  <2>2. QED
    BY <2>1 DEF Entry, Call, Stage, Token
<1>2. request' = [request EXCEPT ![r] = c]
  BY DEF Send
<1>3. TypeOK' /\ LoginsAnswered' /\ CallsHaveNoToken' /\ OneRefresh'
  BY <1>1, <1>2, OneCallChanges DEF Send, SessionInv, TypeOK, Pending, Refreshing
<1>4. strayed' \/ Undisturbed'
  <2>1. ~ BringsToken(r)
    BY DEF Send, BringsToken, Unsent
  <2>2. Bringer(c) /\ ~ strayed' => Bringers = {}
    BY DEF Send, Bringer, Bringers
  <2>3. ~ strayed => saved.refresh = store.refresh
    BY DEF SessionInv, Undisturbed
  <2>4. QED
    BY <1>1, <1>2, <2>1, <2>2, <2>3, OneCallBrings DEF Send
<1>5. QED
  BY <1>3, <1>4 DEF SessionInv

(* A call that goes on to another stage, where it can be from.             *)
LEMMA StageInv ==
  ASSUME SessionInv, NEW r \in Request, NEW stage, request' = To(r, stage),
         \/ /\ stage \in {"answered", "unauthorized", "queued"}
            /\ request[r].stage \in {"sent", "unauthorized"} /\ request[r].kind # "login"
         \/ stage = "granted" /\ request[r].stage = "refreshing"
         \/ /\ stage = "denied" /\ request[r].stage \in {"refreshing", "renewed"}
            /\ request[r].stage = "renewed" => strayed',
         UNCHANGED <<store, saved, refreshing>>, hash' \in {"null", "set"},
         strayed' \in BOOLEAN, strayed => strayed'
  PROVE  SessionInv'
<1> DEFINE c == [request[r] EXCEPT !.stage = stage]
<1>1. request[r] \in Call /\ stage \in Stage
  BY Fields DEF SessionInv, Stage
<1>2. /\ c \in Entry /\ c.stage = stage /\ c.kind = request[r].kind
      /\ c.live = request[r].live /\ c.token = request[r].token
  BY <1>1 DEF Entry, Call
<1>3. request' = [request EXCEPT ![r] = c]
  BY DEF To
<1> HIDE DEF c
<1>4. TypeOK' /\ LoginsAnswered' /\ CallsHaveNoToken' /\ OneRefresh'
  <2>1. c.stage \in Pending => c.kind # "login"
    BY <1>2 DEF SessionInv, LoginsAnswered, At, Pending
  <2>2. c.stage \in {"sent", "answered", "unauthorized", "queued"} => c.token = "none"
    BY <1>2 DEF SessionInv, CallsHaveNoToken, At
  <2>3. store' \in Tokens /\ saved' \in Tokens /\ refreshing' \in BOOLEAN
    BY DEF SessionInv, TypeOK
  <2>4. c.stage \in Refreshing /\ c.live => request[r].stage \in Refreshing /\ request[r].live
    BY <1>2 DEF Refreshing
  <2>5. QED
    BY <1>2, <1>3, <2>1, <2>2, <2>3, <2>4, OneCallChanges
<1>5. strayed' \/ Undisturbed'
  <2>1. Bringer(c) => Bringer(request[r]) /\ c.stage = "granted"
    BY <1>2 DEF Bringer
  <2>2. ~ strayed => saved.refresh = store.refresh
    BY DEF SessionInv, Undisturbed
  <2>3. QED
    BY <1>2, <1>3, <2>1, <2>2, OneCallBrings DEF BringsToken
<1>6. QED
  BY <1>4, <1>5 DEF SessionInv

(* A call that ends; one that brings a token replaces the page's by it.    *)
LEMMA EndInv ==
  ASSUME SessionInv, NEW r \in Request, request' = End(r), UNCHANGED <<hash, refreshing>>,
         strayed' \in BOOLEAN, strayed => strayed',
         store' \in Tokens, saved' \in Tokens,
         ~ strayed' =>
           /\ saved'.refresh = store'.refresh
           /\ store'.refresh # "old" \/ (store'.refresh = store.refresh /\ ~ BringsToken(r))
  PROVE  SessionInv'
<1>1. Ended \in Entry /\ Ended.stage = "ended"
  BY DEF Entry, Ended
<1>2. request' = [request EXCEPT ![r] = Ended]
  BY DEF End
<1>3. TypeOK' /\ LoginsAnswered' /\ CallsHaveNoToken' /\ OneRefresh'
  BY <1>1, <1>2, OneCallChanges DEF SessionInv, TypeOK, Pending, Refreshing
<1>4. strayed' \/ Undisturbed'
  BY <1>1, <1>2, OneCallBrings DEF Bringer
<1>5. QED
  BY <1>3, <1>4 DEF SessionInv

LEMMA EmptyTokens == Empty \in Tokens /\ Empty.refresh = "none"
  BY DEF Empty, Tokens, Token

(* A call that ends and leaves the tokens alone, or clears them.           *)
LEMMA EndOrClearInv ==
  ASSUME SessionInv, NEW r \in Request, request' = End(r), UNCHANGED <<hash, refreshing>>,
         strayed' = (strayed \/ BringsToken(r)),
         Saves(Empty) \/ UNCHANGED <<store, saved>>
  PROVE  SessionInv'
<1>1. store' \in Tokens /\ saved' \in Tokens
  BY EmptyTokens DEF Saves, SessionInv, TypeOK
<1>2. strayed' \in BOOLEAN
  BY DEF SessionInv, TypeOK
<1>3. ASSUME ~ strayed'
      PROVE  /\ saved'.refresh = store'.refresh
             /\ store'.refresh # "old" \/ (store'.refresh = store.refresh /\ ~ BringsToken(r))
  BY <1>3, EmptyTokens DEF Saves, SessionInv, Undisturbed
<1>4. QED
  BY <1>1, <1>2, <1>3, EndInv

LEMMA ReceiveInv ==
  ASSUME SessionInv, NEW r \in Request, Receive(r)
  PROVE  SessionInv'
<1>1. request[r].token \in Token
  BY EntryFields DEF SessionInv
<1>2. store' \in Tokens /\ saved' \in Tokens
  <2>1. TakeTokens(r) \in Tokens /\ [store EXCEPT !.access = TRUE] \in Tokens
    BY <1>1 DEF TakeTokens, Tokens, SessionInv, TypeOK
  <2>2. QED
    BY <2>1, EmptyTokens DEF Receive, Saves, SessionInv, TypeOK
<1>3. ASSUME ~ strayed
      PROVE  /\ saved'.refresh = store'.refresh
             /\ store'.refresh # "old" \/ (store'.refresh = store.refresh /\ ~ BringsToken(r))
  <2>1. saved.refresh = store.refresh /\ BroughtIsCurrent
    BY <1>3 DEF SessionInv, Undisturbed
  <2>2. CASE request[r].kind = "login"
    <3>1. request[r].token = "current"
      BY <2>1, <2>2, BringersAre DEF BroughtIsCurrent, Bringer, Receive
    <3>2. QED
      BY <2>2, <3>1 DEF Receive, Saves, TakeTokens
  <2>3. CASE request[r].kind # "login"
    <3>1. ~ BringsToken(r)
      BY <2>3 DEF SessionInv, CallsHaveNoToken, At, Receive, BringsToken
    <3>2. [store EXCEPT !.access = TRUE].refresh = store.refresh
      BY DEF SessionInv, TypeOK, Tokens
    <3>3. QED
      BY <2>1, <2>3, <3>1, <3>2, EmptyTokens DEF Receive, Saves
  <2>4. QED
    BY <2>2, <2>3
<1>4. QED
  BY <1>2, <1>3, EndInv DEF Receive, SessionInv, TypeOK

LEMMA StartRefreshInv ==
  ASSUME SessionInv, NEW r \in Request, StartRefresh(r)
  PROVE  SessionInv'
<1> DEFINE c == [request[r] EXCEPT !.stage = "refreshing", !.token = store.refresh, !.retry = TRUE]
<1>1. request[r] \in Call
  BY Fields DEF SessionInv, StartRefresh, Unauthorized, Stage
<1>2. store.refresh \in Token
  BY DEF SessionInv, TypeOK, Tokens
<1>3. /\ c \in Entry /\ c.stage = "refreshing" /\ c.kind = request[r].kind
      /\ c.live = request[r].live
  BY <1>1, <1>2 DEF Entry, Call, Stage
<1>4. request' = [request EXCEPT ![r] = c]
  BY DEF StartRefresh, AskRefresh
<1> HIDE DEF c
<1>5. TypeOK' /\ LoginsAnswered' /\ CallsHaveNoToken' /\ OneRefresh'
  <2>1. c.kind # "login"
    BY <1>3 DEF SessionInv, LoginsAnswered, At, Pending, StartRefresh, Unauthorized
  <2>2. ~ refreshing /\ refreshing' /\ strayed' \in BOOLEAN
    BY DEF StartRefresh, MayRefresh, SessionInv, TypeOK
  <2>3. QED
    BY <1>3, <1>4, <2>1, <2>2, OneCallChanges DEF StartRefresh, SessionInv, TypeOK
<1>6. strayed' \/ Undisturbed'
  <2>1. Refreshes \cap {q \in Request : request[q].live} = {}
    BY DEF StartRefresh, MayRefresh, SessionInv, OneRefresh, Refreshes, Refreshing, At
  <2>2. ~ strayed' => Bringers = {}
    BY <2>1 DEF StartRefresh, Bringers, Refreshes, At
  <2>3. ~ BringsToken(r)
    BY DEF StartRefresh, Unauthorized, BringsToken
  <2>4. ~ strayed => saved.refresh = store.refresh
    BY DEF SessionInv, Undisturbed
  <2>5. QED
    BY <1>3, <1>4, <2>2, <2>3, <2>4, OneCallBrings DEF StartRefresh
<1>7. QED
  BY <1>5, <1>6 DEF SessionInv

-----------------------------------------------------------------------------
(* The steps in which tokens of several calls grow old, or calls are sent  *)
(* again or forgotten.                                                     *)
Older(c) == [c EXCEPT !.token = Aged(@)]

LEMMA OlderEntry ==
  ASSUME NEW c \in Entry
  PROVE  /\ Older(c) \in Entry
         /\ Older(c).stage = c.stage /\ Older(c).token = Aged(c.token)
         /\ c.stage \in Stage => Older(c).kind = c.kind /\ Older(c).live = c.live
<1>1. CASE c = Unsent
  <2>1. Older(c) = Unsent
    BY <1>1 DEF Older, Aged, Unsent
  <2>2. QED
    BY <1>1, <2>1 DEF Entry, Unsent, Stage, Aged
<1>2. CASE c = Ended
  <2>1. Older(c) = Ended
    BY <1>2 DEF Older, Aged, Ended
  <2>2. QED
    BY <1>2, <2>1 DEF Entry, Ended, Stage, Aged
<1>3. CASE c \in Call
  <2>1. Aged(c.token) \in Token
    BY <1>3 DEF Aged, Call, Token
  <2>2. QED
    BY <1>3, <2>1 DEF Older, Entry, Call
<1>4. QED
  BY <1>1, <1>2, <1>3 DEF Entry

LEMMA OlderTokens ==
  ASSUME NEW s \in Tokens
  PROVE  /\ [s EXCEPT !.refresh = Aged(@)] \in Tokens
         /\ [s EXCEPT !.refresh = Aged(@)].refresh = Aged(s.refresh)
  BY DEF Tokens, Token, Aged

LEMMA HandOutInv ==
  ASSUME SessionInv, NEW r \in Request, NEW stage, HandOut(r, stage),
         \/ stage = "answered" /\ request[r].stage = "sent" /\ request[r].kind = "login"
         \/ stage = "renewed" /\ request[r].stage = "granted",
         strayed' = (strayed \/ ~ request[r].live), UNCHANGED refreshing
  PROVE  SessionInv'
<1> DEFINE c == [request[r] EXCEPT !.stage = stage, !.token = "current"]
<1>1. request[r] \in Call /\ stage \in Stage
  BY Fields DEF SessionInv, Stage
<1>2. /\ c \in Entry /\ c.stage = stage /\ c.kind = request[r].kind
      /\ c.live = request[r].live /\ c.token = "current"
  BY <1>1 DEF Entry, Call, Token
<1>3. /\ \A q \in Request : request'[q] = IF q = r THEN c ELSE Older(request[q])
      /\ request' = [q \in Request |-> request'[q]]
  BY DEF HandOut, Older
<1>4. \A q \in Request : request[q] \in Entry
  BY EntryFields DEF SessionInv
<1> HIDE DEF c
<1>5. TypeOK'
  <2>1. \A q \in Request : request'[q] \in Entry
    BY <1>2, <1>3, <1>4, OlderEntry
  <2>2. store' \in Tokens /\ saved' \in Tokens /\ strayed' \in BOOLEAN
    BY OlderTokens DEF HandOut, SessionInv, TypeOK
  <2>3. QED
    BY <1>3, <2>1, <2>2 DEF HandOut, SessionInv, TypeOK, Entry
<1>6. \A q \in Request \ {r} :
        /\ request'[q].stage = request[q].stage
        /\ request'[q].token = Aged(request[q].token)
        /\ request[q].stage \in Stage =>
             request'[q].kind = request[q].kind /\ request'[q].live = request[q].live
  BY <1>3, <1>4, OlderEntry
<1>7. LoginsAnswered'
  BY <1>2, <1>3, <1>6 DEF SessionInv, LoginsAnswered, At, Pending, Stage
<1>8. CallsHaveNoToken'
  BY <1>2, <1>3, <1>6 DEF SessionInv, CallsHaveNoToken, At, Aged, Stage
<1>9. OneRefresh'
  BY <1>2, <1>3, <1>6 DEF SessionInv, OneRefresh, At, Refreshing, Stage
<1>10. ASSUME ~ strayed'
       PROVE  Undisturbed'
  <2>1. request[r].live /\ Undisturbed
    BY <1>10 DEF SessionInv
  <2>2. r \in Bringers
    BY <2>1, BringersAre DEF Bringer
  <2>3. \A q \in Request : Bringer(request'[q]) => q = r
    <3>1. \A q \in Request \ {r} : Bringer(request'[q]) => Bringer(request[q])
      BY <1>6 DEF Bringer, Stage
    <3>2. QED
      BY <2>1, <2>2, <3>1, BringersAre DEF Undisturbed, OneBringer
  <2>4. Bringers' = {q \in Request : Bringer(request'[q])}
    BY DEF Bringers, Bringer, LoginsOut, Refreshes, At
  <2>5. OneBringer' /\ BroughtIsCurrent'
    BY <1>2, <1>3, <2>3, <2>4 DEF OneBringer, BroughtIsCurrent
  <2>6. HeldIsCurrent'
    BY <1>2, <1>3, <2>1 DEF HeldIsCurrent, BringsToken
  <2>7. saved'.refresh = store'.refresh
    BY <2>1, OlderTokens DEF HandOut, SessionInv, TypeOK, Undisturbed
  <2>8. QED
    BY <2>5, <2>6, <2>7 DEF Undisturbed
<1>11. QED
  BY <1>5, <1>7, <1>8, <1>9, <1>10 DEF SessionInv

LEMMA ElsewhereInv ==
  ASSUME SessionInv, NEW written \in BOOLEAN, Elsewhere(written)
  PROVE  SessionInv'
<1>1. /\ \A q \in Request : request'[q] = Older(request[q])
      /\ request' = [q \in Request |-> request'[q]]
  BY DEF Elsewhere, Older
<1>2. \A q \in Request : request[q] \in Entry
  BY EntryFields DEF SessionInv
<1>3. TypeOK'
  <2>1. \A q \in Request : request'[q] \in Entry
    BY <1>1, <1>2, OlderEntry
  <2>2. [access |-> TRUE, refresh |-> "current"] \in Tokens
    BY DEF Tokens, Token
  <2>3. store' \in Tokens /\ saved' \in Tokens
    BY <2>2, OlderTokens DEF Elsewhere, SessionInv, TypeOK
  <2>4. QED
    BY <1>1, <2>1, <2>3 DEF Elsewhere, SessionInv, TypeOK, Entry
<1>4. \A q \in Request :
        /\ request'[q].stage = request[q].stage
        /\ request'[q].token = Aged(request[q].token)
        /\ request[q].stage \in Stage =>
             request'[q].kind = request[q].kind /\ request'[q].live = request[q].live
  BY <1>1, <1>2, OlderEntry
<1>5. LoginsAnswered' /\ CallsHaveNoToken'
  BY <1>4 DEF SessionInv, LoginsAnswered, CallsHaveNoToken, At, Pending, Aged, Stage
<1>6. OneRefresh'
  BY <1>4 DEF Elsewhere, SessionInv, OneRefresh, At, Refreshing, Stage
<1>7. QED
  BY <1>3, <1>5, <1>6 DEF Elsewhere, SessionInv

(* What a page that loads leaves of a call: none of the page's own.        *)
LEMMA ForgottenEntry ==
  ASSUME NEW calls \in [Request -> Entry], NEW q \in Request
  PROVE  /\ Forget(calls)[q] \in Entry
         /\ \/ Forget(calls)[q].stage \in {"unsent", "ended"}
            \/ /\ calls[q] \in Call
               /\ Forget(calls)[q].stage = calls[q].stage
               /\ Forget(calls)[q].kind = calls[q].kind
               /\ Forget(calls)[q].token = calls[q].token
               /\ ~ Forget(calls)[q].live
<1> DEFINE f == Forget(calls)[q]
           gone == [calls[q] EXCEPT !.live = FALSE]
           kept == \/ calls[q].stage \in {"refreshing", "granted"}
                   \/ calls[q].stage = "sent" /\ calls[q].kind \in {"login", "logout"}
<1>1. CASE calls[q] \in {Unsent, Ended}
  <2>1. f = calls[q]
    BY <1>1 DEF Forget, Unsent, Ended
  <2>2. QED
    BY <1>1, <2>1 DEF Entry, Unsent, Ended
<1>2. CASE calls[q] \in Call /\ calls[q] \notin {Unsent, Ended} /\ kept
  <2>1. f = gone
    BY <1>2 DEF Forget
  <2>2. gone \in Call /\ ~ gone.live
    BY <1>2 DEF Call
  <2>3. QED
    BY <1>2, <2>1, <2>2 DEF Entry, Call
<1>3. CASE calls[q] \notin {Unsent, Ended} /\ ~ kept
  <2>1. f = Ended
    BY <1>3 DEF Forget
  <2>2. QED
    BY <2>1 DEF Entry, Ended
<1>4. calls[q] \in Entry
  OBVIOUS
<1>5. QED
  BY <1>1, <1>2, <1>3, <1>4 DEF Entry

LEMMA ForgetInv ==
  ASSUME SessionInv, NEW calls \in [Request -> Entry], request' = Forget(calls),
         \A q \in Request : calls[q] \in {request[q], Ended},
         hash' = hash, store' \in Tokens, saved' \in Tokens, refreshing' = FALSE,
         strayed' = (strayed \/ \E q \in Request : BringsToken(q)),
         ~ strayed' => /\ saved'.refresh = store'.refresh
                       /\ store'.refresh \in {store.refresh, "none"}
  PROVE  SessionInv'
<1>1. \A q \in Request :
        /\ request'[q] \in Entry
        /\ \/ request'[q].stage \in {"unsent", "ended"}
           \/ /\ request[q] \in Call
              /\ request'[q].stage = request[q].stage /\ request'[q].kind = request[q].kind
              /\ request'[q].token = request[q].token /\ ~ request'[q].live
  <2> SUFFICES ASSUME NEW q \in Request
               PROVE  /\ request'[q] \in Entry
                      /\ \/ request'[q].stage \in {"unsent", "ended"}
                         \/ /\ request[q] \in Call
                            /\ request'[q].stage = request[q].stage
                            /\ request'[q].kind = request[q].kind
                            /\ request'[q].token = request[q].token /\ ~ request'[q].live
    OBVIOUS
  <2>1. Ended \notin Call
    BY DEF Ended, Call, Stage
  <2>2. QED
    BY <2>1, ForgottenEntry
<1>2. TypeOK'
  <2>1. request' = [q \in Request |-> request'[q]]
    BY DEF Forget
  <2>2. strayed' \in BOOLEAN
    BY DEF SessionInv, TypeOK
  <2>3. QED
    BY <1>1, <2>1, <2>2 DEF SessionInv, TypeOK, Entry
<1>3. LoginsAnswered' /\ CallsHaveNoToken'
  BY <1>1 DEF SessionInv, LoginsAnswered, CallsHaveNoToken, At, Pending
<1>4. OneRefresh'
  BY <1>1 DEF OneRefresh, At, Refreshing
<1>5. ASSUME ~ strayed'
      PROVE  Undisturbed'
  <2>1. Bringers' = {}
    BY <1>1 DEF Bringers, LoginsOut, Refreshes, At
  <2>2. HeldIsCurrent
    BY <1>5 DEF SessionInv, Undisturbed
  <2>3. store.refresh # "old"
    BY <1>5, <2>2 DEF HeldIsCurrent
  <2>4. HeldIsCurrent'
    BY <1>5, <2>3 DEF HeldIsCurrent
  <2>5. QED
    BY <1>5, <2>1, <2>4 DEF Undisturbed, OneBringer, BroughtIsCurrent
<1>6. QED
  BY <1>2, <1>3, <1>4, <1>5 DEF SessionInv

LEMMA HomeInv ==
  ASSUME SessionInv, NEW r \in Request, GoHome(End(r)), UNCHANGED hash
  PROVE  SessionInv'
<1>1. End(r) \in [Request -> Entry] /\ \A q \in Request : End(r)[q] \in {request[q], Ended}
  BY DEF End, SessionInv, TypeOK, Entry
<1>2. QED
  BY <1>1, ForgetInv, EmptyTokens DEF GoHome, Saves

LEMMA LoadInv ==
  ASSUME SessionInv, Load
  PROVE  SessionInv'
<1>1. request \in [Request -> Entry]
  BY DEF SessionInv, TypeOK, Entry
<1>2. ~ strayed => saved.refresh = store.refresh
  BY DEF SessionInv, Undisturbed
<1>3. QED
  BY <1>1, <1>2, ForgetInv DEF Load, SessionInv, TypeOK

(* The refreshed token is taken, and what waited for it is sent again.     *)
LEMMA ReceiveRefreshInv ==
  ASSUME SessionInv, NEW r \in Request, ReceiveRefresh(r)
  PROVE  SessionInv'
<1> DEFINE again == {q \in Request : q = r \/ request[q].stage = "queued"}
           sent(q) == [request[q] EXCEPT !.stage = "sent", !.access = TRUE, !.token = "none"]
<1>1. \A q \in again : request[q] \in Call /\ request[q].kind # "login"
  BY Fields DEF SessionInv, ReceiveRefresh, Stage, LoginsAnswered, At, Pending
<1>2. /\ request' = [q \in Request |-> request'[q]]
      /\ \A q \in Request : request'[q] = IF q \in again THEN sent(q) ELSE request[q]
  BY DEF ReceiveRefresh, Resend
<1>3. \A q \in again : /\ sent(q) \in Call /\ sent(q).stage = "sent" /\ sent(q).token = "none"
                       /\ sent(q).kind = request[q].kind
  BY <1>1 DEF Call, Stage, Token
<1> HIDE DEF again, sent
<1>4. TypeOK'
  <2>1. request[r].token \in Token
    BY EntryFields DEF SessionInv
  <2>2. TakeTokens(r) \in Tokens
    BY <2>1 DEF TakeTokens, Tokens
  <2>3. \A q \in Request : request'[q] \in Entry
    BY <1>2, <1>3, EntryFields DEF SessionInv, Entry
  <2>4. QED
    BY <1>2, <2>2, <2>3 DEF ReceiveRefresh, Saves, SessionInv, TypeOK, Entry
<1>5. LoginsAnswered' /\ CallsHaveNoToken'
  BY <1>2, <1>3 DEF SessionInv, LoginsAnswered, CallsHaveNoToken, At, Pending
<1>6. r \in again
  BY DEF again
<1>7. OneRefresh'
  <2>1. \A q \in Request : request[q].stage \in Refreshing /\ request[q].live => q = r
    BY DEF SessionInv, OneRefresh, At, ReceiveRefresh, Refreshing
  <2>2. QED
    BY <1>2, <1>3, <1>6, <2>1 DEF OneRefresh, At, Refreshing
<1>8. ASSUME ~ strayed'
      PROVE  Undisturbed'
  <2>1. Undisturbed
    BY <1>8 DEF SessionInv, ReceiveRefresh
  <2>2. r \in Bringers /\ request[r].token = "current"
    BY <2>1, BringersAre DEF Bringer, ReceiveRefresh, Undisturbed, BroughtIsCurrent
  <2>3. Bringers' = {q \in Request : Bringer(request'[q])}
    BY DEF Bringers, Bringer, LoginsOut, Refreshes, At
  <2>4. Bringers' \subseteq Bringers \ {r}
    BY <1>1, <1>2, <1>3, <1>6, <2>3, BringersAre DEF Bringer
  <2>5. Bringers' = {}
    BY <2>1, <2>2, <2>4 DEF Undisturbed, OneBringer
  <2>6. store'.refresh = "current" /\ saved' = store'
    BY <2>2 DEF ReceiveRefresh, Saves, TakeTokens
  <2>7. QED
    BY <2>5, <2>6 DEF Undisturbed, OneBringer, BroughtIsCurrent, HeldIsCurrent
<1>9. QED
  BY <1>4, <1>5, <1>7, <1>8 DEF SessionInv

-----------------------------------------------------------------------------
LEMMA ProgressInv ==
  ASSUME SessionInv, NEW r \in Request, Progress(r)
  PROVE  SessionInv'
<1>1. CASE ServeLogin(r)
  BY <1>1, HandOutInv DEF ServeLogin
<1>2. CASE Rotate(r)
  BY <1>2, HandOutInv DEF Rotate
<1>3. CASE Serve(r)
  BY <1>3, StageInv DEF Serve, SessionInv, TypeOK
<1>4. CASE Queue(r) \/ Grant(r)
  <2>1. Queue(r) => request[r].kind # "login"
    BY DEF Queue, Unauthorized, SessionInv, LoginsAnswered, At, Pending
  <2>2. QED
    BY <1>4, <2>1, StageInv DEF Queue, Grant, Unauthorized, SessionInv, TypeOK
<1>5. CASE Reject(r)
  <2>1. CASE request[r].live
    BY <1>5, <2>1, StageInv DEF Reject, SessionInv, TypeOK
  <2>2. CASE ~ request[r].live
    BY <1>5, <2>2, EndOrClearInv DEF Reject, BringsToken, SessionInv, TypeOK
  <2>3. QED
    BY <2>1, <2>2
<1>6. CASE Deny(r)
  <2>1. CASE request[r].live
    BY <1>6, <2>1, StageInv DEF Deny, SessionInv, TypeOK
  <2>2. CASE ~ request[r].live
    <3>1. strayed' \in BOOLEAN /\ (strayed => strayed') /\ (BringsToken(r) => strayed')
      BY <1>6 DEF Deny, SessionInv, TypeOK, BringsToken
    <3>2. ~ strayed => saved.refresh = store.refresh
      BY DEF SessionInv, Undisturbed
    <3>3. QED
      BY <1>6, <2>2, <3>1, <3>2, EndInv DEF Deny, SessionInv, TypeOK
  <2>3. QED
    BY <2>1, <2>2
<1>7. CASE Fail(r)
  BY <1>7, EndOrClearInv DEF Fail
<1>8. CASE GiveUp(r)
  BY <1>8, EndOrClearInv DEF GiveUp, Unauthorized, BringsToken, SessionInv, TypeOK
<1>9. CASE Receive(r)
  BY <1>9, ReceiveInv
<1>10. CASE SignOut(r) \/ ReceiveDenial(r)
  BY <1>10, HomeInv DEF SignOut, ReceiveDenial
<1>11. CASE StartRefresh(r)
  BY <1>11, StartRefreshInv
<1>12. CASE ReceiveRefresh(r)
  BY <1>12, ReceiveRefreshInv
<1>13. QED
  BY <1>1, <1>2, <1>3, <1>4, <1>5, <1>6, <1>7, <1>8, <1>9, <1>10, <1>11, <1>12 DEF Progress

LEMMA SessionNext == SessionInv /\ [Next]_vars => SessionInv'
<1> SUFFICES ASSUME SessionInv, [Next]_vars
             PROVE  SessionInv'
  OBVIOUS
<1>1. CASE UNCHANGED vars
  BY <1>1 DEF vars, SessionInv, TypeOK, LoginsAnswered, CallsHaveNoToken, OneRefresh, Undisturbed,
     OneBringer, BroughtIsCurrent, HeldIsCurrent, Bringers, LoginsOut, Refreshes, At, BringsToken
<1>2. CASE Next
  BY <1>2, ProgressInv, SendInv, LoadInv, ElsewhereInv DEF Next
<1>3. QED
  BY <1>1, <1>2

LEMMA SessionInvariant == Spec => []SessionInv
  BY SessionInit, SessionNext, PTL DEF Spec

(* Tokens and calls keep their types, whatever other pages do.             *)
THEOREM SessionTypeCorrect == Spec => []TypeOK
<1>1. SessionInv => TypeOK
  BY DEF SessionInv
<1>2. QED
  BY SessionInvariant, <1>1, PTL

(* The page has one refresh under way at most, and knows when it has.      *)
THEOREM OneRefreshAtATime == Spec => []OneRefresh
<1>1. SessionInv => OneRefresh
  BY DEF SessionInv
<1>2. QED
  BY SessionInvariant, <1>1, PTL

(* As long as nothing interferes, the refresh token of the page is the one *)
(* the server accepts, or what replaces it is on its way.                  *)
THEOREM HeldTokenIsCurrent == Spec => []HeldIsCurrent
<1>1. SessionInv => HeldIsCurrent
  BY DEF SessionInv, Undisturbed, HeldIsCurrent
<1>2. QED
  BY SessionInvariant, <1>1, PTL

-----------------------------------------------------------------------------
(* The messages.                                                           *)

Values(s) == {s[k] : k \in DOMAIN s}
Waiting   == Values(inbox)

(* A message the server counts as unread is on its way to the page, or has *)
(* been counted there, or its thread is being marked, or the page has no   *)
(* count of its own for it.                                                *)
CountedOrComing(i) ==
  \/ log[i].mine \/ i \in read \/ ~ log[i].told \/ i \in Waiting
  \/ log[i].thread \in unread \cup marking
  \/ log[i].thread \notin entered

(* What the cache of a thread still brings of message i: by a fetch that   *)
(* the server has yet to serve, by an answer, by what it has, or because   *)
(* opening the thread will fetch.                                          *)
Reaches(q, i, open) ==
  \/ q.call = "asked"
  \/ q.call = "served" /\ i \in q.answer
  \/ q.call = "idle" /\ (i \in q.data \/ (~ q.fresh /\ ~ open))

CachedOrComing(i) ==
  \/ log[i].mine \/ ~ log[i].told \/ i \in Waiting \/ i \in crossed
  \/ i \notin FirstPage(log[i].thread)
  \/ Reaches(query[log[i].thread], i, view = log[i].thread)

CacheIsShown == \A t \in Thread : view = t => query[t].data \subseteq shown

(* What is cached of a thread, and shown of the open one, is of the thread. *)
CacheIsLogged == \A t \in Thread : query[t].data \cup query[t].answer \subseteq In(t)
ShownIsOfView == IF view = Nobody THEN shown = {} ELSE shown \subseteq In(view)

ChatInv == /\ ChatTypeOK /\ CacheIsLogged /\ CacheIsShown /\ ShownIsOfView
           /\ faults = 0 => \A i \in 1 .. Len(log) : CountedOrComing(i) /\ CachedOrComing(i)

LogRow == [thread : Thread, mine : BOOLEAN, told : BOOLEAN]

LEMMA ChatInitInv == ChatInit => ChatInv
<1> SUFFICES ASSUME ChatInit
             PROVE  ChatInv
  OBVIOUS
<1> USE ChatConstantsOK
<1>1. ChatTypeOK
  BY DEF ChatInit, ChatTypeOK, Unasked, Query
<1>2. CacheIsShown /\ CacheIsLogged /\ ShownIsOfView
  BY DEF ChatInit, CacheIsShown, CacheIsLogged, ShownIsOfView, Unasked
<1>3. QED
  BY <1>1, <1>2 DEF ChatInv, ChatInit

(* The queue of events: what it holds after an event comes or is taken.    *)
LEMMA Appending ==
  ASSUME NEW S, NEW s \in Seq(S), NEW x \in S
  PROVE  /\ Append(s, x) \in Seq(S) /\ Len(Append(s, x)) = Len(s) + 1
         /\ \A k \in 1 .. Len(s) : Append(s, x)[k] = s[k]
         /\ Append(s, x)[Len(s) + 1] = x
         /\ Values(Append(s, x)) = Values(s) \cup {x}
<1>1. /\ Append(s, x) \in Seq(S) /\ Len(Append(s, x)) = Len(s) + 1 /\ Len(s) \in Nat
      /\ \A k \in 1 .. Len(s) : Append(s, x)[k] = s[k]
      /\ Append(s, x)[Len(s) + 1] = x
  OBVIOUS
<1>2. DOMAIN s = 1 .. Len(s) /\ DOMAIN Append(s, x) = 1 .. Len(s) + 1
  BY <1>1, LenProperties
<1>3. QED
  BY <1>1, <1>2 DEF Values

LEMMA Taking ==
  ASSUME NEW S, NEW s \in Seq(S), s # <<>>
  PROVE  /\ Head(s) \in S /\ Tail(s) \in Seq(S)
         /\ Values(s) = {Head(s)} \cup Values(Tail(s))
<1>1. /\ Head(s) \in S /\ Tail(s) \in Seq(S) /\ Head(s) = s[1]
      /\ Len(s) \in Nat \ {0} /\ Len(Tail(s)) = Len(s) - 1
      /\ \A k \in 1 .. Len(Tail(s)) : Tail(s)[k] = s[k + 1]
  BY HeadTailProperties, EmptySeq
<1>2. DOMAIN s = 1 .. Len(s) /\ DOMAIN Tail(s) = 1 .. Len(Tail(s))
  BY <1>1, LenProperties
<1>3. \A k \in 2 .. Len(s) : k - 1 \in 1 .. Len(Tail(s)) /\ s[k] = Tail(s)[k - 1]
  BY <1>1
<1>4. Values(s) \subseteq {Head(s)} \cup Values(Tail(s))
  <2> SUFFICES ASSUME NEW k \in 1 .. Len(s)
               PROVE  s[k] \in {Head(s)} \cup Values(Tail(s))
    BY <1>2 DEF Values
  <2>1. CASE k = 1
    BY <1>1, <2>1
  <2>2. CASE k # 1
    <3>1. k \in 2 .. Len(s)
      BY <1>1, <2>2
    <3>2. QED
      BY <1>2, <1>3, <3>1 DEF Values
  <2>3. QED
    BY <2>1, <2>2
<1>5. {Head(s)} \cup Values(Tail(s)) \subseteq Values(s)
  BY <1>1, <1>2 DEF Values
<1>6. QED
  BY <1>1, <1>4, <1>5

(* What the log says of a message, and what the caches hold.               *)
LEMMA Rows ==
  ASSUME ChatTypeOK
  PROVE  /\ Len(log) \in Nat
         /\ \A i \in 1 .. Len(log) :
              log[i] \in LogRow /\ log[i].thread \in Thread /\ i \in Id
         /\ \A t \in Thread : query[t] \in Query
         /\ Waiting \subseteq 1 .. Len(log)
<1>1. Len(log) \in Nat /\ Len(log) <= MaxMessages /\ MaxMessages \in Nat
  BY ChatConstantsOK DEF ChatTypeOK
<1>2. \A i \in 1 .. Len(log) : log[i] \in LogRow
  BY ElementOfSeq DEF ChatTypeOK, LogRow
<1>3. \A i \in 1 .. Len(log) : log[i].thread \in Thread
  BY <1>2 DEF LogRow
<1>4. \A i \in 1 .. Len(log) : i \in Id
  BY <1>1 DEF Id
<1>5. \A t \in Thread : query[t] \in Query
  BY DEF ChatTypeOK
<1>6. Waiting \subseteq 1 .. Len(log)
  BY LenProperties DEF ChatTypeOK, Waiting, Values
<1>7. QED
  BY <1>1, <1>2, <1>3, <1>4, <1>5, <1>6

(* The first page of a thread does not change for the messages in it: only *)
(* later ones are added.                                                   *)
LEMMA PageStays ==
  ASSUME ChatTypeOK, Len(log') \in Nat, Len(log) <= Len(log'),
         \A i \in 1 .. Len(log) : log'[i].thread = log[i].thread,
         NEW t, NEW i \in 1 .. Len(log), i \in FirstPage(t)'
  PROVE  i \in FirstPage(t)
<1>1. Len(log) \in Nat
  BY DEF ChatTypeOK
<1>2. i \in In(t)' /\ i \in In(t)
  BY <1>1 DEF FirstPage, In
<1>3. {j \in In(t)' : j <= i} = {j \in In(t) : j <= i}
  BY <1>1 DEF In
<1>4. QED
  BY <1>2, <1>3 DEF FirstPage
(* A step of the server: messages are added or announced, marks are made.  *)
LEMMA ServerStep ==
  ASSUME ChatInv, UNCHANGED <<page, faults, crossed>>,
         ChatTypeOK', Len(log) <= Len(log'),
         \A i \in 1 .. Len(log) :
           /\ log'[i].thread = log[i].thread /\ log'[i].mine = log[i].mine
           /\ log'[i].told => log[i].told \/ i \in Waiting',
         \A i \in 1 .. Len(log') : i \in 1 .. Len(log) \/ log'[i].mine \/ ~ log'[i].told,
         Waiting \subseteq Waiting', read \subseteq read',
         \A i \in 1 .. Len(log) : log[i].thread \in marking =>
           log[i].thread \in marking' \/ log[i].mine \/ i \in read'
  PROVE  ChatInv'
<1>1. CacheIsShown' /\ CacheIsLogged' /\ ShownIsOfView'
  <2>1. Len(log) \in Nat /\ Len(log') \in Nat
    BY DEF ChatInv, ChatTypeOK
  <2>2. \A t : In(t) \subseteq In(t)'
    BY <2>1 DEF In
  <2>3. QED
    BY <2>2 DEF ChatInv, CacheIsShown, CacheIsLogged, ShownIsOfView, page
<1>2. ASSUME faults' = 0, NEW i \in 1 .. Len(log')
      PROVE  CountedOrComing(i)' /\ CachedOrComing(i)'
  <2>1. CASE i \in 1 .. Len(log)
    <3>1. CountedOrComing(i) /\ CachedOrComing(i)
      BY <1>2, <2>1 DEF ChatInv
    <3>2. CountedOrComing(i)'
      BY <2>1, <3>1 DEF CountedOrComing, page
    <3>3. i \in FirstPage(log[i].thread)' => i \in FirstPage(log[i].thread)
      <4>1. PICK t : t = log[i].thread
        OBVIOUS
      <4>2. t = log'[i].thread /\ Len(log') \in Nat
        BY <2>1, <4>1 DEF ChatTypeOK
      <4>3. i \in FirstPage(t)' => i \in FirstPage(t)
        BY <2>1, <4>2, PageStays DEF ChatInv
      <4>4. FirstPage(log[i].thread)' = FirstPage(t)'
        BY <4>2
      <4>5. QED
        BY <4>1, <4>3, <4>4
    <3>4. CachedOrComing(i)'
      BY <2>1, <3>1, <3>3 DEF CachedOrComing, Reaches, page
    <3>5. QED
      BY <3>2, <3>4
  <2>2. CASE i \notin 1 .. Len(log)
    BY <2>2 DEF CountedOrComing, CachedOrComing
  <2>3. QED
    BY <2>1, <2>2
<1>3. QED
  BY <1>1, <1>2 DEF ChatInv

LEMMA StoreInv ==
  ASSUME ChatInv, NEW t \in Thread, NEW mine \in BOOLEAN, Store(t, mine)
  PROVE  ChatInv'
<1> DEFINE row == [thread |-> t, mine |-> mine, told |-> mine]
           n == Len(log)
<1>1. /\ log \in Seq(LogRow) /\ n \in Nat /\ row \in LogRow /\ inbox \in Seq(1 .. n)
      /\ n + 1 <= MaxMessages
  BY ChatConstantsOK DEF ChatInv, ChatTypeOK, LogRow, Store
<1>2. /\ log' = Append(log, row) /\ log' \in Seq(LogRow) /\ Len(log') = n + 1
      /\ \A i \in 1 .. n : log'[i] = log[i]
      /\ log'[n + 1] = row
  BY <1>1 DEF Store
<1>3. 1 .. n \subseteq 1 .. n + 1
  BY <1>1
<1>4. inbox' \in Seq(1 .. n + 1) /\ Waiting \subseteq Waiting'
  <2>1. inbox \in Seq(1 .. n + 1)
    BY <1>1, <1>3, SeqMonotonic
  <2>2. CASE t \in rooms
    <3>1. inbox' = Append(inbox, n + 1) /\ n + 1 \in 1 .. n + 1
      BY <1>1, <2>2 DEF Store
    <3>2. QED
      BY <2>1, <3>1, Appending DEF Waiting
  <2>3. CASE t \notin rooms
    BY <2>1, <2>3 DEF Store, Waiting
  <2>4. QED
    BY <2>2, <2>3
<1>5. ChatTypeOK'
  BY <1>1, <1>2, <1>3, <1>4 DEF ChatInv, ChatTypeOK, Store, page, LogRow
<1>6. QED
  BY <1>1, <1>2, <1>4, <1>5, ServerStep DEF Store

LEMMA TellPartyInv ==
  ASSUME ChatInv, NEW x \in 1 .. Len(log), TellParty(x)
  PROVE  ChatInv'
<1>1. log \in Seq(LogRow) /\ inbox \in Seq(1 .. Len(log))
  BY DEF ChatInv, ChatTypeOK, LogRow
<1>2. /\ log' \in Seq(LogRow) /\ Len(log') = Len(log)
      /\ \A i \in 1 .. Len(log) : log'[i] = IF i = x THEN [log[i] EXCEPT !.told = TRUE] ELSE log[i]
  <2>1. log[x] \in LogRow /\ log' = [log EXCEPT ![x] = [log[x] EXCEPT !.told = TRUE]]
    BY Rows DEF ChatInv, TellParty
  <2>2. [log[x] EXCEPT !.told = TRUE] \in LogRow
    BY <2>1 DEF LogRow
  <2> DEFINE row == [log[x] EXCEPT !.told = TRUE]
  <2>3. row \in LogRow /\ log' = [log EXCEPT ![x] = row]
    BY <2>1, <2>2
  <2> HIDE DEF row
  <2>4. /\ log' \in Seq(LogRow) /\ Len(log') = Len(log)
        /\ \A i \in 1 .. Len(log) : log'[i] = IF i = x THEN row ELSE log[i]
    BY <1>1, <2>3, ExceptSeq
  <2>5. QED
    BY <2>4 DEF row
<1>3. inbox' \in Seq(1 .. Len(log)) /\ Waiting \subseteq Waiting' /\ x \in Waiting'
  <2>1. inbox' = Append(inbox, x)
    BY DEF TellParty
  <2>2. QED
    BY <1>1, <2>1, Appending DEF Waiting
<1>4. \A i \in 1 .. Len(log) : /\ log'[i].thread = log[i].thread /\ log'[i].mine = log[i].mine
                             /\ log'[i].told => log[i].told \/ i \in Waiting'
  BY <1>2, <1>3, Rows DEF ChatInv, LogRow
<1>5. ChatTypeOK'
  BY <1>1, <1>2, <1>3 DEF ChatInv, ChatTypeOK, TellParty, page, LogRow
<1>6. QED
  BY <1>1, <1>2, <1>3, <1>4, <1>5, ServerStep DEF TellParty

LEMMA MarkInv ==
  ASSUME ChatInv, UNCHANGED <<log, rooms, inbox, page, faults, crossed>>,
         read' \in SUBSET (1 .. Len(log)), read \subseteq read', marking' \subseteq marking,
         \A t \in marking : t \in marking' \/ Theirs(t) \subseteq read'
  PROVE  ChatInv'
<1>1. ChatTypeOK'
  BY DEF ChatInv, ChatTypeOK, page
<1>2. \A i \in 1 .. Len(log) : log[i].thread \in marking =>
           log[i].thread \in marking' \/ log[i].mine \/ i \in read'
  BY DEF Theirs, In
<1>3. Len(log) \in Nat
  BY Rows DEF ChatInv
<1>4. QED
  BY <1>1, <1>2, <1>3, ServerStep DEF Waiting

-----------------------------------------------------------------------------
(* The steps of the page.                                                  *)
LEMMA OpenInv ==
  ASSUME ChatInv, NEW t \in Thread, Open(t)
  PROVE  ChatInv'
<1>1. query[t] \in Query /\ query \in [Thread -> Query]
  BY DEF ChatInv, ChatTypeOK
<1>2. /\ Mounted(query[t]) \in Query /\ Mounted(query[t]).data = query[t].data
      /\ \A i : Reaches(query[t], i, FALSE) => Reaches(Mounted(query[t]), i, TRUE)
  BY <1>1 DEF Mounted, Fetched, Query, Reaches
<1>3. /\ query' \in [Thread -> Query]
      /\ \A x \in Thread : query'[x].data = query[x].data
      /\ \A x \in Thread \ {t} : query'[x] = query[x]
  BY <1>1, <1>2 DEF Open
<1>4. \A i : Reaches(query[t], i, FALSE) => Reaches(query'[t], i, TRUE)
  BY <1>1, <1>2 DEF Open, Reaches
<1>5. ChatTypeOK'
  BY <1>3, ChatConstantsOK DEF ChatInv, ChatTypeOK, CacheIsLogged, In, Open, SetActive, Joins,
     OpenOn
<1>6. CacheIsLogged' /\ CacheIsShown' /\ ShownIsOfView'
  <2>1. query'[t].answer \in {query[t].answer, {}}
    BY <1>1 DEF Open, Mounted, Fetched, Query
  <2>2. \A x : In(x)' = In(x)
    BY DEF Open, In
  <2>3. view' = t /\ t # Nobody /\ shown' = query[t].data
    BY ChatConstantsOK DEF Open, SetActive, OpenOn
  <2>4. QED
    BY <1>3, <2>1, <2>2, <2>3 DEF ChatInv, CacheIsLogged, CacheIsShown, ShownIsOfView
<1>7. ASSUME faults = 0, NEW i \in 1 .. Len(log)
      PROVE  CountedOrComing(i)' /\ CachedOrComing(i)'
  <2>1. CountedOrComing(i) /\ CachedOrComing(i) /\ log[i].thread \in Thread
    BY <1>7, Rows DEF ChatInv
  <2>2. CountedOrComing(i)'
    BY <2>1 DEF CountedOrComing, Open, SetActive, Waiting
  <2>3. Reaches(query[log[i].thread], i, view = log[i].thread) =>
          Reaches(query'[log[i].thread], i, view' = log[i].thread)
    <3>1. CASE log[i].thread = t
      BY <1>4, <3>1 DEF Open, SetActive
    <3>2. CASE log[i].thread # t
      BY <1>3, <2>1, <3>2 DEF Open, SetActive, Reaches
    <3>3. QED
      BY <3>1, <3>2
  <2>4. CachedOrComing(i)'
    BY <2>1, <2>3 DEF CachedOrComing, Open, Waiting, FirstPage, In
  <2>5. QED
    BY <2>2, <2>4
<1>8. QED
  BY <1>5, <1>6, <1>7 DEF ChatInv, Open

LEMMA CloseInv ==
  ASSUME ChatInv, Close
  PROVE  ChatInv'
<1> USE ChatConstantsOK
<1>1. view' = Nobody /\ shown' = {} /\ unread' = unread /\ entered' = entered
  BY DEF Close, SetActive, ChatInv, ChatTypeOK
<1>2. ChatTypeOK'
  BY <1>1 DEF ChatInv, ChatTypeOK, Close, server
<1>3. CacheIsLogged' /\ CacheIsShown' /\ ShownIsOfView'
  BY <1>1 DEF ChatInv, CacheIsLogged, CacheIsShown, ShownIsOfView, In, Close, server
<1>4. ASSUME faults = 0, NEW i \in 1 .. Len(log)
      PROVE  CountedOrComing(i)' /\ CachedOrComing(i)'
  <2>1. CountedOrComing(i) /\ CachedOrComing(i) /\ log[i].thread \in Thread
    BY <1>4, Rows DEF ChatInv
  <2>2. CountedOrComing(i)'
    BY <1>1, <2>1 DEF CountedOrComing, Close, server, Waiting
  <2>3. CachedOrComing(i)'
    BY <1>1, <2>1 DEF CachedOrComing, Reaches, Close, server, Waiting, FirstPage, In
  <2>4. QED
    BY <2>2, <2>3
<1>5. QED
  BY <1>2, <1>3, <1>4 DEF ChatInv, Close, server

(* A step that changes the cache of one thread and at most adds to what is *)
(* shown.                                                                  *)
LEMMA CacheStep ==
  ASSUME ChatInv, NEW t \in Thread, NEW q \in Query,
         query' = [query EXCEPT ![t] = q],
         UNCHANGED <<server, inbox, view, entered, unread, marking, faults, crossed>>,
         q.data \cup q.answer \subseteq In(t),
         shown \subseteq shown', shown' \subseteq 1 .. Len(log), ShownIsOfView',
         view = t => q.data \subseteq shown',
         \A i \in FirstPage(t) : Reaches(query[t], i, view = t) => Reaches(q, i, view = t)
  PROVE  ChatInv'
<1>1. \A x \in Thread : query'[x] = IF x = t THEN q ELSE query[x]
  BY DEF ChatInv, ChatTypeOK
<1>2. ChatTypeOK'
  BY <1>1 DEF ChatInv, ChatTypeOK, server
<1>3. CacheIsLogged' /\ CacheIsShown'
  BY <1>1 DEF ChatInv, CacheIsLogged, CacheIsShown, In, server
<1>4. ASSUME faults = 0, NEW i \in 1 .. Len(log)
      PROVE  CountedOrComing(i)' /\ CachedOrComing(i)'
  <2>1. CountedOrComing(i) /\ CachedOrComing(i) /\ log[i].thread \in Thread
    BY <1>4, Rows DEF ChatInv
  <2>2. CountedOrComing(i)'
    BY <2>1 DEF CountedOrComing, server, Waiting
  <2>3. CachedOrComing(i)'
    BY <1>1, <2>1 DEF CachedOrComing, server, Waiting, FirstPage, In
  <2>4. QED
    BY <2>2, <2>3
<1>5. QED
  BY <1>2, <1>3, <1>4 DEF ChatInv, server

LEMMA ServeFetchInv ==
  ASSUME ChatInv, NEW t \in Thread, ServeFetch(t)
  PROVE  ChatInv'
<1> DEFINE q == [query[t] EXCEPT !.call = "served", !.answer = FirstPage(t)]
<1>1. query[t] \in Query
  BY DEF ChatInv, ChatTypeOK
<1>2. FirstPage(t) \subseteq 1 .. Len(log) /\ 1 .. Len(log) \subseteq Id
  BY Rows DEF ChatInv, FirstPage, In
<1>3. /\ q \in Query /\ q.call = "served" /\ q.answer = FirstPage(t) /\ q.data = query[t].data
  BY <1>1, <1>2 DEF Query
<1>4. query' = [query EXCEPT ![t] = q]
  BY DEF ServeFetch
<1> HIDE DEF q
<1>5. /\ shown \subseteq 1 .. Len(log) /\ query[t].data \subseteq In(t)
      /\ FirstPage(t) \subseteq In(t)
  BY DEF ChatInv, ChatTypeOK, CacheIsLogged, FirstPage
<1>6. view = t => query[t].data \subseteq shown
  BY DEF ChatInv, CacheIsShown
<1>7. \A i \in FirstPage(t) : Reaches(q, i, view = t)
  BY <1>3 DEF Reaches
<1>8. /\ UNCHANGED <<server, inbox, view, entered, unread, marking, faults, crossed>>
      /\ shown' = shown /\ ShownIsOfView'
  BY DEF ServeFetch, ChatInv, ShownIsOfView, In, server
<1>9. /\ q.data \cup q.answer \subseteq In(t)
      /\ shown \subseteq shown' /\ shown' \subseteq 1 .. Len(log)
      /\ view = t => q.data \subseteq shown'
  BY <1>3, <1>5, <1>6, <1>8
<1>10. QED
  BY <1>3, <1>4, <1>7, <1>8, <1>9, CacheStep

LEMMA TakeAnswerInv ==
  ASSUME ChatInv, NEW t \in Thread, TakeAnswer(t)
  PROVE  ChatInv'
<1> DEFINE q == [known |-> TRUE, data |-> query[t].answer, fresh |-> TRUE, call |-> "idle",
                 answer |-> {}]
<1>1. query[t] \in Query
  BY DEF ChatInv, ChatTypeOK
<1>2. q \in Query
  BY <1>1 DEF Query
<1>3. query' = [query EXCEPT ![t] = q]
  BY DEF TakeAnswer
<1>4. /\ shown \subseteq 1 .. Len(log) /\ query[t].answer \subseteq In(t)
      /\ In(t) \subseteq 1 .. Len(log)
  BY DEF ChatInv, ChatTypeOK, CacheIsLogged, In
<1>5. /\ shown \subseteq shown' /\ shown' \subseteq 1 .. Len(log)
      /\ view = t => q.data \subseteq shown'
  BY <1>4 DEF TakeAnswer, ShowMerge
<1>6. ShownIsOfView'
  <2>1. view' = view /\ \A x : In(x)' = In(x)
    BY DEF TakeAnswer, In, server
  <2>2. CASE view = t
    <3>1. shown \subseteq In(t) /\ view' = t /\ t # Nobody
      BY <2>1, <2>2, ChatConstantsOK DEF ChatInv, ShownIsOfView
    <3>2. shown' = shown \cup query[t].answer
      BY <2>2 DEF TakeAnswer, ShowMerge
    <3>3. QED
      BY <1>4, <2>1, <3>1, <3>2 DEF ShownIsOfView
  <2>3. CASE view # t
    BY <2>1, <2>3 DEF TakeAnswer, ChatInv, ShownIsOfView
  <2>4. QED
    BY <2>2, <2>3
<1>7. \A i : Reaches(query[t], i, view = t) => Reaches(q, i, view = t)
  BY DEF TakeAnswer, Reaches
<1> HIDE DEF q
<1>8. q.data \cup q.answer \subseteq In(t)
  BY <1>4 DEF q
<1>9. QED
  BY <1>2, <1>3, <1>5, <1>6, <1>7, <1>8, CacheStep DEF TakeAnswer

LEMMA EvictInv ==
  ASSUME ChatInv, NEW t \in Thread, Evict(t)
  PROVE  ChatInv'
<1>1. Unasked \in Query /\ Unasked.data \cup Unasked.answer = {}
  BY DEF Unasked, Query
<1>2. \A i : Reaches(Unasked, i, view = t)
  BY DEF Evict, Unasked, Reaches
<1>3. shown' = shown /\ shown \subseteq 1 .. Len(log) /\ ShownIsOfView'
  BY DEF Evict, server, ChatInv, ChatTypeOK, ShownIsOfView, In
<1>4. QED
  BY <1>1, <1>2, <1>3, CacheStep DEF Evict

(* A page that has just been loaded has nothing, and fetches what it opens. *)
LEMMA LoadPageInv ==
  ASSUME ChatInv, LoadPage
  PROVE  ChatInv'
<1>1. Unasked \in Query /\ Unasked.data \cup Unasked.answer = {}
  BY DEF Unasked, Query
<1>2. /\ log' = log /\ read' = read /\ faults' = faults /\ inbox' = <<>> /\ rooms' = {}
      /\ view' = Nobody /\ shown' = {} /\ entered' = {} /\ unread' = {} /\ crossed' = {}
      /\ marking' \subseteq marking
      /\ query' \in [Thread -> Query] /\ \A t \in Thread : query'[t] = Unasked
  BY <1>1 DEF LoadPage
<1>3. ChatTypeOK'
  <2>1. inbox' \in Seq(1 .. Len(log'))
    BY <1>2, EmptySeq
  <2>2. QED
    BY <1>2, <2>1 DEF ChatInv, ChatTypeOK
<1>4. CacheIsLogged' /\ CacheIsShown' /\ ShownIsOfView'
  BY <1>1, <1>2, ChatConstantsOK DEF CacheIsLogged, CacheIsShown, ShownIsOfView
<1>5. ASSUME NEW i \in 1 .. Len(log)
      PROVE  CountedOrComing(i)' /\ CachedOrComing(i)'
  <2>1. log[i].thread \in Thread /\ Nobody \notin Thread
    BY Rows, ChatConstantsOK DEF ChatInv
  <2>2. Reaches(query'[log[i].thread], i, view' = log[i].thread)
    BY <1>2, <2>1 DEF Reaches, Unasked
  <2>3. QED
    BY <1>2, <2>2 DEF CountedOrComing, CachedOrComing
<1>6. QED
  BY <1>2, <1>3, <1>4, <1>5 DEF ChatInv

LEMMA DeliverInv ==
  ASSUME ChatInv, Deliver
  PROVE  ChatInv'
<1> DEFINE i == Head(inbox)
           t == log[i].thread
<1>1. /\ i \in 1 .. Len(log) /\ inbox' \in Seq(1 .. Len(log))
      /\ Waiting = {i} \cup Waiting'
  BY Taking DEF ChatInv, ChatTypeOK, Deliver, Waiting
<1>2. t \in Thread /\ log[i].mine \in BOOLEAN /\ query[t] \in Query
  <2>1. log[i] \in LogRow /\ t \in Thread
    BY <1>1, Rows DEF ChatInv
  <2>2. QED
    BY <2>1, Rows DEF ChatInv, LogRow
<1>3. /\ shown' = Appended(t, i) /\ query' = CacheAfter(t, i)
      /\ unread' = Incremented(t, i) /\ entered' = entered \cup unread'
      /\ marking' = marking \cup Marks(t, i)
      /\ crossed' = crossed \cup
           {x \in {i} : faults = 0 /\ query[t].call # "idle" /\ (view # t \/ ~ query[t].known)}
      /\ UNCHANGED <<server, view, faults>>
  BY DEF Deliver
<1> DEFINE q == query'[t]
<1> HIDE DEF i, t
<1>4. /\ q \in Query /\ query' \in [Thread -> Query] /\ \A x \in Thread \ {t} : query'[x] = query[x]
      /\ q.data = query[t].data /\ q.answer \in {query[t].answer, {}}
      /\ \A j : Reaches(query[t], j, view = t) => Reaches(q, j, view = t)
      /\ ~ log[i].mine /\ (query[t].call = "idle" \/ (view = t /\ query[t].known)) =>
           Reaches(q, i, view = t)
  <2>1. query \in [Thread -> Query]
    BY DEF ChatInv, ChatTypeOK
  <2>2. CASE log[i].mine
    BY <1>2, <1>3, <2>1, <2>2 DEF CacheAfter
  <2>3. CASE ~ log[i].mine /\ view = t
    <3>1. q = Refetched(query[t]) /\ query' = [query EXCEPT ![t] = q]
      BY <1>2, <1>3, <2>1, <2>3 DEF CacheAfter
    <3>2. q \in Query /\ q.data = query[t].data /\ q.answer \in {query[t].answer, {}}
      BY <1>2, <3>1 DEF Refetched, Fetched, Query
    <3>3. CASE query[t].call = "idle" \/ query[t].known
      <4>1. q.call = "asked"
        BY <1>2, <3>1, <3>3 DEF Refetched, Fetched, Query
      <4>2. QED
        BY <2>1, <3>1, <3>2, <4>1 DEF Reaches
    <3>4. CASE ~ (query[t].call = "idle" \/ query[t].known)
      <4>1. q = query[t]
        BY <3>1, <3>4 DEF Refetched
      <4>2. QED
        BY <2>1, <3>1, <3>2, <3>4, <4>1
    <3>5. QED
      BY <3>3, <3>4
  <2>4. CASE ~ log[i].mine /\ view # t
    <3>1. q = Outdated(query[t]) /\ query' = [query EXCEPT ![t] = q]
      BY <1>2, <1>3, <2>1, <2>4 DEF CacheAfter
    <3>2. /\ q \in Query /\ q.data = query[t].data /\ q.answer = query[t].answer
          /\ q.call = query[t].call /\ ~ q.fresh
      BY <1>2, <3>1 DEF Outdated, Query
    <3>3. QED
      BY <2>1, <2>4, <3>1, <3>2 DEF Reaches
  <2>5. QED
    BY <2>2, <2>3, <2>4
<1> HIDE DEF q
<1>5. shown \subseteq shown' /\ shown' \subseteq 1 .. Len(log)
  BY <1>1, <1>3 DEF Appended, ChatInv, ChatTypeOK
<1>6. ChatTypeOK'
  <2>1. unread' \subseteq entered' /\ entered' \subseteq Thread /\ marking' \subseteq Thread
    BY <1>2, <1>3 DEF Incremented, Marks, ChatInv, ChatTypeOK
  <2>2. QED
    BY <1>1, <1>3, <1>4, <1>5, <2>1 DEF server, ChatInv, ChatTypeOK
<1>7. CacheIsLogged' /\ CacheIsShown' /\ ShownIsOfView'
  <2>1. view' = view /\ (\A x : In(x)' = In(x)) /\ i \in In(t) /\ t # Nobody
    BY <1>1, <1>2, <1>3, ChatConstantsOK DEF server, In, t
  <2>2. CacheIsLogged' /\ CacheIsShown'
    BY <1>3, <1>4, <1>5, <2>1 DEF ChatInv, CacheIsLogged, CacheIsShown, q
  <2>3. QED
    BY <1>3, <2>1, <2>2 DEF ChatInv, ShownIsOfView, Appended
<1>8. ASSUME faults = 0, NEW j \in 1 .. Len(log)
      PROVE  CountedOrComing(j)' /\ CachedOrComing(j)'
  <2>1. CountedOrComing(j) /\ CachedOrComing(j) /\ log[j].thread \in Thread
    BY <1>8, Rows DEF ChatInv
  <2>2. unread \subseteq unread' /\ marking \subseteq marking' /\ crossed \subseteq crossed'
    BY <1>3 DEF Incremented
  <2>3. CASE j # i
    <3>1. j \in Waiting => j \in Waiting'
      BY <1>1, <2>3
    <3>2. CountedOrComing(j)'
      BY <1>3, <2>1, <2>2, <3>1 DEF CountedOrComing, server
    <3>3. Reaches(query[log[j].thread], j, view = log[j].thread) =>
            Reaches(query'[log[j].thread], j, view = log[j].thread)
      BY <1>4, <2>1 DEF q
    <3>4. CachedOrComing(j)'
      BY <1>3, <2>1, <2>2, <3>1, <3>3 DEF CachedOrComing, server, FirstPage, In
    <3>5. QED
      BY <3>2, <3>4
  <2>4. CASE j = i
    <3>1. log[i].mine \/ t \in unread' \cup marking'
      BY <1>3 DEF Incremented, Marks
    <3>2. log[i].mine \/ i \in crossed' \/ Reaches(q, i, view = t)
      BY <1>3, <1>4, <1>8
    <3>3. QED
      BY <1>3, <2>4, <3>1, <3>2 DEF CountedOrComing, CachedOrComing, server, t, q
  <2>5. QED
    BY <2>3, <2>4
<1>9. QED
  BY <1>3, <1>6, <1>7, <1>8 DEF ChatInv, server

(* After a fault nothing is promised but what the cache shows.             *)
LEMMA FaultInv ==
  ASSUME ChatInv, Reconnect \/ \E t \in Thread : FailFetch(t) \/ FailMark(t)
  PROVE  ChatInv'
<1>1. faults' \in 0 .. MaxFaults /\ faults' # 0 /\ crossed' = {}
  <2>1. faults \in Nat /\ 0 <= faults /\ MaxFaults \in Nat
    BY ChatConstantsOK DEF ChatInv, ChatTypeOK
  <2>2. faults < MaxFaults /\ faults' = faults + 1 /\ crossed' = {}
    BY DEF Reconnect, FailFetch, FailMark
  <2>3. QED
    BY <2>1, <2>2
<1>2. CASE Reconnect
  <2>1. inbox' \in Seq(1 .. Len(log)) /\ rooms' \subseteq Thread
    BY <1>2, EmptySeq DEF Reconnect, ChatInv, ChatTypeOK
  <2>2. QED
    BY <1>1, <1>2, <2>1 DEF Reconnect, page, ChatInv, ChatTypeOK, CacheIsLogged, CacheIsShown,
       ShownIsOfView, In
<1>3. ASSUME NEW t \in Thread, FailFetch(t)
      PROVE  ChatInv'
  <2>1. query \in [Thread -> Query] /\ query[t] \in Query
    BY DEF ChatInv, ChatTypeOK
  <2>2. /\ query' \in [Thread -> Query]
        /\ \A x \in Thread : query'[x].data = query[x].data
        /\ \A x \in Thread : query'[x].answer \in {query[x].answer, {}}
    BY <1>3, <2>1 DEF FailFetch, Query
  <2>3. QED
    BY <1>1, <1>3, <2>2 DEF FailFetch, server, ChatInv, ChatTypeOK, CacheIsLogged, CacheIsShown,
       ShownIsOfView, In
<1>4. ASSUME NEW t \in Thread, FailMark(t)
      PROVE  ChatInv'
  BY <1>1, <1>4 DEF FailMark, server, page, ChatInv, ChatTypeOK, CacheIsLogged, CacheIsShown,
     ShownIsOfView, In
<1>5. QED
  BY <1>2, <1>3, <1>4

LEMMA ReadsInv ==
  ASSUME ChatInv, ReadElsewhere \/ \E t \in Thread : MarkRead(t)
  PROVE  ChatInv'
<1>1. read \subseteq 1 .. Len(log) /\ \A t : Theirs(t) \subseteq 1 .. Len(log)
  BY DEF ChatInv, ChatTypeOK, Theirs, In
<1>2. CASE ReadElsewhere
  BY <1>1, <1>2, MarkInv DEF ReadElsewhere
<1>3. ASSUME NEW t \in Thread, MarkRead(t)
      PROVE  ChatInv'
  BY <1>1, <1>3, MarkInv DEF MarkRead
<1>4. QED
  BY <1>2, <1>3

LEMMA ChatNextInv == ChatInv /\ [ChatNext]_chatVars => ChatInv'
<1> SUFFICES ASSUME ChatInv, [ChatNext]_chatVars
             PROVE  ChatInv'
  OBVIOUS
<1>1. CASE UNCHANGED chatVars
  <2>1. CacheIsLogged' /\ CacheIsShown' /\ ShownIsOfView'
    BY <1>1 DEF chatVars, ChatInv, CacheIsLogged, CacheIsShown, ShownIsOfView, In
  <2>2. ChatTypeOK'
    BY <1>1 DEF chatVars, ChatInv, ChatTypeOK
  <2>3. QED
    BY <1>1, <2>1, <2>2 DEF chatVars, ChatInv, CountedOrComing, CachedOrComing, Waiting,
       FirstPage, In
<1>2. CASE Announce
  BY <1>2, TellPartyInv DEF Announce
<1>3. CASE Answer
  BY <1>3, ReadsInv, ServeFetchInv, TakeAnswerInv DEF Answer
<1>4. CASE Deliver \/ Close \/ LoadPage
  BY <1>4, DeliverInv, CloseInv, LoadPageInv
<1>5. ASSUME NEW t \in Thread, Store(t, TRUE) \/ Store(t, FALSE)
      PROVE  ChatInv'
  BY <1>5, StoreInv
<1>6. ASSUME NEW t \in Thread, Open(t) \/ Evict(t)
      PROVE  ChatInv'
  BY <1>6, OpenInv, EvictInv
<1>7. ASSUME NEW t \in Thread, FailFetch(t) \/ FailMark(t)
      PROVE  ChatInv'
  BY <1>7, FaultInv
<1>8. CASE Reconnect
  BY <1>8, FaultInv
<1>9. CASE ReadElsewhere
  BY <1>9, ReadsInv
<1>10. QED
  BY <1>1, <1>2, <1>3, <1>4, <1>5, <1>6, <1>7, <1>8, <1>9 DEF ChatNext

LEMMA ChatInvariant == ChatSpec => []ChatInv
  BY ChatInitInv, ChatNextInv, PTL DEF ChatSpec

-----------------------------------------------------------------------------
(* Messages, caches and events keep their types; what is cached is logged. *)
THEOREM ChatTypeCorrect == ChatSpec => []ChatTypeOK
<1>1. ChatInv => ChatTypeOK
  BY DEF ChatInv
<1>2. QED
  BY ChatInvariant, <1>1, PTL

(* A closed thread the page counts nothing of has nothing unread, once     *)
(* nothing is under way any more.                                          *)
LEMMA QuietMeansRead == ChatInv => ZeroMeansRead
<1> SUFFICES ASSUME ChatInv, NEW t \in entered \ unread, Quiet(t), NEW i \in Theirs(t)
             PROVE  i \in read
  BY DEF ZeroMeansRead
<1>1. i \in 1 .. Len(log) /\ log[i].thread = t /\ ~ log[i].mine /\ log[i].told
  BY DEF Theirs, In, Quiet
<1>2. CountedOrComing(i) /\ Waiting = {}
  BY <1>1 DEF ChatInv, Quiet, Waiting, Values
<1>3. QED
  BY <1>1, <1>2 DEF CountedOrComing, Quiet

(* With no fault and nothing under way, a count of the page's own that is  *)
(* zero hides no unread message of a closed thread.                        *)
THEOREM ZeroHidesNothing == ChatSpec => []ZeroMeansRead
  BY ChatInvariant, QuietMeansRead, PTL

(* An open thread shows what others wrote, once nothing is under way.      *)
LEMMA QuietMeansComplete == ChatInv => OpenThreadIsComplete
<1>1. ASSUME ChatInv, NEW t \in Thread, view = t
      PROVE  shown \subseteq In(t)
  BY <1>1, ChatConstantsOK DEF ChatInv, ShownIsOfView
<1> SUFFICES ASSUME ChatInv, NEW t \in Thread, view = t, Quiet(t), In(t) \subseteq FirstPage(t),
                    NEW i \in Theirs(t), i \notin crossed
             PROVE  i \in shown
  BY <1>1 DEF OpenThreadIsComplete
<1>2. /\ i \in 1 .. Len(log) /\ log[i].thread = t /\ ~ log[i].mine /\ log[i].told
      /\ i \in FirstPage(t)
  BY DEF Theirs, In, Quiet
<1>3. CachedOrComing(i) /\ Waiting = {}
  BY <1>2 DEF ChatInv, Quiet, Waiting, Values
<1>4. i \in query[t].data
  BY <1>2, <1>3 DEF CachedOrComing, Reaches, Quiet
<1>5. QED
  BY <1>4 DEF ChatInv, CacheIsShown

(* An open thread shows messages of no other and, with no fault and        *)
(* nothing under way, all that others wrote in it but for what crossed its *)
(* fetch.                                                                  *)
THEOREM OpenThreadsAreComplete == ChatSpec => []OpenThreadIsComplete
  BY ChatInvariant, QuietMeansComplete, PTL

(* No step takes a message away from a thread that stays open.             *)
THEOREM ShownMessagesStay == ChatSpec => NothingVanishes
<1>1. ChatInv /\ [ChatNext]_chatVars => [view' = view => shown \subseteq shown']_chatVars
  <2> SUFFICES ASSUME ChatInv, ChatNext, view' = view
               PROVE  shown \subseteq shown'
    OBVIOUS
  <2>1. CASE Announce \/ Reconnect \/ ReadElsewhere
    BY <2>1 DEF Announce, TellParty, Reconnect, ReadElsewhere, page
  <2>2. CASE Answer
    BY <2>2 DEF Answer, MarkRead, ServeFetch, TakeAnswer, ShowMerge, page
  <2>3. CASE Deliver
    BY <2>3 DEF Deliver, Appended
  <2>4. CASE Close \/ LoadPage
    BY <2>4 DEF Close, SetActive, LoadPage, ChatInv, ShownIsOfView
  <2>5. ASSUME NEW t \in Thread, Store(t, TRUE) \/ Store(t, FALSE)
        PROVE  shown \subseteq shown'
    BY <2>5 DEF Store, page
  <2>6. ASSUME NEW t \in Thread, Open(t) \/ Evict(t) \/ FailFetch(t) \/ FailMark(t)
        PROVE  shown \subseteq shown'
    BY <2>6 DEF Open, SetActive, Evict, FailFetch, FailMark, page
  <2>7. QED
    BY <2>1, <2>2, <2>3, <2>4, <2>5, <2>6 DEF ChatNext
<1>2. QED
  BY <1>1, ChatInvariant, PTL DEF ChatSpec, NothingVanishes
=============================================================================
