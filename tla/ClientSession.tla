--------------------------- MODULE ClientSession ---------------------------
(***************************************************************************)
(* How one page of the web client keeps a user signed in: the interceptors *)
(* of api-client.ts, the token store and its copy in localStorage, and the *)
(* token handlers of AuthService.  Each refresh token replaces the one     *)
(* before it, so of all tokens handed out only the last can be used, until *)
(* a logout clears the hash and stops the comparison.                      *)
(*                                                                         *)
(* Other pages and devices of the user are Elsewhere.  A token is          *)
(* "current" or "old"; access tokens are only there or not, for a token    *)
(* that is there may have expired, and its user may be suspended.          *)
(***************************************************************************)
EXTENDS FiniteSets

CONSTANT Request     \* the API calls the user makes, each of them once

ASSUME ConstantsOK == IsFiniteSet(Request)

VARIABLES
  hash,        \* users.refresh_token_hash
  store,       \* useAuthStore: accessToken, refreshToken
  saved,       \* the same in localStorage
  refreshing,  \* isRefreshing
  request,     \* every call; failedQueue is the set of those that are queued
  strayed      \* history: a token was replaced or lost behind this page's back

vars == <<hash, store, saved, refreshing, request, strayed>>

-----------------------------------------------------------------------------
Kind   == {"call", "login", "logout"}
Token  == {"none", "old", "current"}
Tokens == [access : BOOLEAN, refresh : Token]
Empty  == [access |-> FALSE, refresh |-> "none"]

Stage  == {"sent", "answered", "unauthorized", "queued", "refreshing",
           "granted", "renewed", "denied"}
Unsent == [stage |-> "unsent", token |-> "none"]
Ended  == [stage |-> "ended", token |-> "none"]
Call   == [stage : Stage, kind : Kind, retry : BOOLEAN, access : BOOLEAN,
           token : Token, live : BOOLEAN]

At(stages) == {r \in Request : request[r].stage \in stages}
LoginsOut  == {r \in At({"sent", "answered"}) : request[r].kind = "login"}
Refreshes  == At({"refreshing", "granted", "renewed"})

To(r, stage) == [request EXCEPT ![r].stage = stage]
End(r)       == [request EXCEPT ![r] = Ended]
Saves(s)     == store' = s /\ saved' = s

(* A new refresh token makes every other one old, wherever it is.          *)
Aged(token) == IF token = "current" THEN "old" ELSE token
HandOut(r, stage) ==
  /\ hash' = "set"
  /\ store' = [store EXCEPT !.refresh = Aged(@)]
  /\ saved' = [saved EXCEPT !.refresh = Aged(@)]
  /\ request' = [q \in Request |->
       IF q = r THEN [request[r] EXCEPT !.stage = stage, !.token = "current"]
       ELSE [request[q] EXCEPT !.token = Aged(@)]]

(* A page that loads forgets its calls, and the tokens that answers bring; *)
(* the server may still have those that change something.                  *)
Forget(calls) == [r \in Request |->
  CASE calls[r] \in {Unsent, Ended} -> calls[r]
    [] \/ calls[r].stage \in {"refreshing", "granted"}
       \/ calls[r].stage = "sent" /\ calls[r].kind \in {"login", "logout"} ->
         [calls[r] EXCEPT !.live = FALSE]
    [] OTHER -> Ended]
BringsToken(r) == request[r].stage \in {"answered", "renewed"} /\ request[r].token = "current"

-----------------------------------------------------------------------------
Init ==
  /\ hash = "null"
  /\ store = Empty
  /\ saved = Empty
  /\ refreshing = FALSE
  /\ request = [r \in Request |-> Unsent]
  /\ strayed = FALSE

-----------------------------------------------------------------------------
(* The request interceptor falls back on localStorage.                     *)
Send(r, kind) ==
  /\ request[r] = Unsent
  /\ request' = [request EXCEPT ![r] =
       [stage |-> "sent", kind |-> kind, retry |-> FALSE, token |-> "none",
        access |-> store.access \/ saved.access, live |-> TRUE]]
  /\ strayed' = (strayed \/ (kind = "login" /\ LoginsOut \cup Refreshes # {}))
  /\ UNCHANGED <<hash, store, saved, refreshing>>

(* AuthService.login; any handler behind the JwtAuthGuard, of which logout *)
(* and changePassword clear the hash.                                      *)
ServeLogin(r) ==
  /\ request[r].stage = "sent" /\ request[r].kind = "login"
  /\ HandOut(r, "answered")
  /\ strayed' = (strayed \/ ~ request[r].live)
  /\ UNCHANGED refreshing

Serve(r) ==
  /\ request[r].stage = "sent" /\ request[r].kind # "login" /\ request[r].access
  /\ request' = To(r, "answered")
  /\ \/ request[r].kind = "call" /\ hash' = hash
     \/ hash' = "null"
  /\ UNCHANGED <<store, saved, refreshing, strayed>>

(* JwtStrategy: no token, an expired one, or an account not active.        *)
Reject(r) ==
  /\ request[r].stage = "sent" /\ request[r].kind # "login"
  /\ request' = IF request[r].live THEN To(r, "unauthorized") ELSE End(r)
  /\ UNCHANGED <<hash, store, saved, refreshing, strayed>>

(* A login refused, an answer lost, or none within 15 seconds.  use-auth's *)
(* logout clears the store all the same.                                   *)
Fail(r) ==
  /\ request[r].stage \in {"sent", "answered"}
  /\ request' = End(r)
  /\ strayed' = (strayed \/ BringsToken(r))
  /\ IF request[r].kind = "logout" /\ request[r].live
     THEN Saves(Empty) ELSE UNCHANGED <<store, saved>>
  /\ UNCHANGED <<hash, refreshing>>

(* useAuth: what the page does with an answer; the one to switchRole       *)
(* brings a new access token.                                              *)
TakeTokens(r)  == [access |-> TRUE, refresh |-> request[r].token]

Receive(r) ==
  /\ request[r].stage = "answered" /\ request[r].live
  /\ request' = End(r)
  /\ \/ request[r].kind = "login"  /\ Saves(TakeTokens(r))
     \/ request[r].kind = "logout" /\ Saves(Empty)
     \/ request[r].kind = "call"   /\ Saves([store EXCEPT !.access = TRUE])
     \/ request[r].kind = "call"   /\ UNCHANGED <<store, saved>>
  /\ UNCHANGED <<hash, refreshing, strayed>>

-----------------------------------------------------------------------------
(* The response interceptor: what becomes of a 401.                        *)
Unauthorized(r) == request[r].stage = "unauthorized" /\ request[r].live

GiveUp(r) ==
  /\ Unauthorized(r) /\ request[r].retry
  /\ request' = End(r)
  /\ IF request[r].kind = "logout" THEN Saves(Empty) ELSE UNCHANGED <<store, saved>>
  /\ UNCHANGED <<hash, refreshing, strayed>>

(* logout() and, by window.location, a fresh page.                         *)
GoHome(calls) ==
  /\ Saves(Empty)
  /\ request' = Forget(calls)
  /\ refreshing' = FALSE
  /\ strayed' = (strayed \/ \E r \in Request : BringsToken(r))

SignOut(r) ==
  /\ Unauthorized(r) /\ ~ request[r].retry /\ store.refresh = "none"
  /\ GoHome(End(r))
  /\ UNCHANGED hash

MayRefreshAtOnce == TRUE
MayRefresh       == ~ refreshing

Queue(r) ==
  /\ Unauthorized(r) /\ ~ request[r].retry /\ store.refresh # "none"
  /\ ~ MayRefresh
  /\ request' = To(r, "queued")
  /\ UNCHANGED <<hash, store, saved, refreshing, strayed>>

AskRefreshAgain(r) ==
  [request EXCEPT ![r].stage = "refreshing", ![r].token = store.refresh]
AskRefresh(r) ==
  [request EXCEPT ![r].stage = "refreshing", ![r].token = store.refresh,
                  ![r].retry = TRUE]

StartRefresh(r) ==
  /\ Unauthorized(r) /\ ~ request[r].retry /\ store.refresh # "none"
  /\ MayRefresh
  /\ request' = AskRefresh(r)
  /\ refreshing' = TRUE
  /\ strayed' = (strayed \/ LoginsOut # {})
  /\ UNCHANGED <<hash, store, saved>>

(* AuthService.refreshToken: the hash is compared, then replaced.          *)
Grant(r) ==
  /\ request[r].stage = "refreshing"
  /\ hash = "null" \/ request[r].token = "current"
  /\ request' = To(r, "granted")
  /\ UNCHANGED <<hash, store, saved, refreshing, strayed>>

Rotate(r) ==
  /\ request[r].stage = "granted"
  /\ HandOut(r, "renewed")
  /\ strayed' = (strayed \/ ~ request[r].live)
  /\ UNCHANGED refreshing

(* An invalidated token, one over 7 days old, or an answer that is lost.   *)
Deny(r) ==
  /\ request[r].stage \in {"refreshing", "renewed"}
  /\ request' = IF request[r].live THEN To(r, "denied") ELSE End(r)
  /\ strayed' = (strayed \/ request[r].stage = "renewed")
  /\ UNCHANGED <<hash, store, saved, refreshing>>

(* setTokens, processQueue, and the original call once more.               *)
Resend(r) == [q \in Request |->
  IF q = r \/ request[q].stage = "queued"
  THEN [request[q] EXCEPT !.stage = "sent", !.access = TRUE, !.token = "none"]
  ELSE request[q]]

ReceiveRefresh(r) ==
  /\ request[r].stage = "renewed" /\ request[r].live
  /\ Saves(TakeTokens(r))
  /\ request' = Resend(r)
  /\ refreshing' = FALSE
  /\ UNCHANGED <<hash, strayed>>

ReceiveDenial(r) ==
  /\ request[r].stage = "denied"
  /\ GoHome(End(r))
  /\ UNCHANGED hash

-----------------------------------------------------------------------------
(* The user reloads the page, which reads localStorage.                    *)
Load ==
  /\ store' = saved
  /\ UNCHANGED <<hash, saved>>
  /\ request' = Forget(request)
  /\ refreshing' = FALSE
  /\ strayed' = (strayed \/ \E r \in Request : BringsToken(r))

(* Another tab or device signs in or refreshes; a tab saves what it has.   *)
(* Bound: not again once this page's tokens have been interfered with.     *)
Elsewhere(written) ==
  /\ ~ strayed
  /\ hash' = "set"
  /\ store' = [store EXCEPT !.refresh = Aged(@)]
  /\ saved' = IF written THEN [access |-> TRUE, refresh |-> "current"]
              ELSE [saved EXCEPT !.refresh = Aged(@)]
  /\ request' = [q \in Request |-> [request[q] EXCEPT !.token = Aged(@)]]
  /\ strayed' = TRUE
  /\ UNCHANGED refreshing

-----------------------------------------------------------------------------
Progress(r) ==
  \/ ServeLogin(r) \/ Serve(r) \/ Reject(r) \/ Fail(r) \/ Receive(r)
  \/ GiveUp(r) \/ SignOut(r) \/ Queue(r) \/ StartRefresh(r)
  \/ Grant(r) \/ Rotate(r) \/ Deny(r) \/ ReceiveRefresh(r) \/ ReceiveDenial(r)

Next ==
  \/ \E r \in Request : Progress(r) \/ \E kind \in Kind : Send(r, kind)
  \/ Load
  \/ \E written \in BOOLEAN : Elsewhere(written)

(* Calls end: the server answers, the network reports a failure, or        *)
(* axios' timeout passes.  Nobody has to use the page.                     *)
Spec == Init /\ [][Next]_vars /\ \A r \in Request : WF_vars(Progress(r))

-----------------------------------------------------------------------------
(* Every variable holds a value of its type.                               *)
TypeOK ==
  /\ hash \in {"null", "set"}
  /\ store \in Tokens /\ saved \in Tokens
  /\ refreshing \in BOOLEAN /\ strayed \in BOOLEAN
  /\ request \in [Request -> {Unsent, Ended} \cup Call]

(* As long as no other page, no lost answer and no login during a refresh  *)
(* interferes, the refresh token the page has is the one the server will   *)
(* accept, or an answer that replaces it is on its way.                    *)
HeldIsCurrent ==
  store.refresh = "old" /\ ~ strayed =>
    \E r \in Request : BringsToken(r) /\ request[r].live

(* Every call comes to an end: none waits in the queue for ever, and none  *)
(* goes round between 401 and refresh, as for a suspended user it could.   *)
EveryCallSettles ==
  \A r \in Request : request[r].stage = "sent" ~> request[r].stage = "ended"
=============================================================================
