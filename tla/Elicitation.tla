---------------------------- MODULE Elicitation ----------------------------
(***************************************************************************)
(* How a CEO's description becomes a published project: five stages of a   *)
(* session, the hand-off of the fourth to a tech-team account by a         *)
(* single-use link, and the synthesis whose quality gate publishes the     *)
(* project or returns the session to an earlier stage.                     *)
(*                                                                         *)
(* No operation runs in a transaction but the use of a link.  Each reads   *)
(* the session, may wait for the AI service, and then updates some columns *)
(* of it: two steps, with what is to be written kept in request[h].        *)
(*                                                                         *)
(* Of the content of the stages only what later stages are checked against *)
(* is kept; a void is open when it is HIGH and not acknowledged.           *)
(***************************************************************************)
EXTENDS Integers, FiniteSets

CONSTANTS
  Session,    \* ids of elicitation_sessions, all of one CEO
  Account,    \* accounts that may join as tech team
  Handler,    \* requests that can be in progress at a time
  Text,       \* descriptions the CEO may give in stage 1
  Archetype,  \* active archetype codes
  MaxLinks    \* bound on the hand-off links made for a session

ASSUME ConstantsOK ==
  /\ IsFiniteSet(Session) /\ IsFiniteSet(Account)
  /\ "NONE" \notin Text \cup Archetype \cup Account
  /\ MaxLinks \in Nat

VARIABLES
  session,      \* elicitation_sessions
  selfTech,     \* users.self_technical and its override for each session
  project,      \* the project published from each session
  profile,      \* tech_team_profiles: the linked project
  interrupted,  \* history: a publication stopped half-way
  request       \* what each handler is doing and what it has read

vars == <<session, selfTech, project, profile, interrupted, request>>

-----------------------------------------------------------------------------
None      == "NONE"
CEO       == "CEO"
NoSession == [state |-> "NONE"]
Deleted   == [state |-> "DELETED"]
NoProject == [probes |-> None]
Idle      == [op |-> "idle"]

SessionState == {"IN_PROGRESS", "COMPLETED", "RETURNED", "ABANDONED"}

Row == [state : SessionState, stage : 1..5,
        text : Text \cup {None}, recommended : SUBSET Archetype, openVoid : BOOLEAN,
        archetype : Archetype \cup {None}, probes : Archetype \cup {None},
        scenario : {None, "A", "B"}, tech : Account \cup {None, CEO},
        link : 0..MaxLinks, consumed : BOOLEAN]

Fresh == [state |-> "IN_PROGRESS", stage |-> 1, text |-> None, recommended |-> {},
          openVoid |-> FALSE, archetype |-> None, probes |-> None, scenario |-> None,
          tech |-> None, link |-> 0, consumed |-> FALSE]

Exists(x)  == session[x] \notin {NoSession, Deleted}
AtStage(x, stages) == Exists(x) /\ session[x].stage \in stages

Starts(h, r) == request[h] = Idle /\ request' = [request EXCEPT ![h] = r]
Becomes(h, r) == request' = [request EXCEPT ![h] = r]
Ends(h)       == Becomes(h, Idle)

(* The row with some of its columns updated.                               *)
With(row, columns) ==
  [c \in DOMAIN row |-> IF c \in DOMAIN columns THEN columns[c] ELSE row[c]]

(* The request is going to update these columns of the session.            *)
Writes(h, x, columns) ==
  /\ Starts(h, [op |-> "write", x |-> x, columns |-> columns])
  /\ UNCHANGED <<session, selfTech, project, profile, interrupted>>

Write(h) ==
  /\ request[h].op = "write"
  /\ Exists(request[h].x)
  /\ session' = [session EXCEPT ![request[h].x] = With(@, request[h].columns)]
  /\ Ends(h)
  /\ UNCHANGED <<selfTech, project, profile, interrupted>>

Init ==
  /\ session = [x \in Session |-> NoSession]
  /\ selfTech \in [Session -> BOOLEAN]
  /\ project = [x \in Session |-> NoProject]
  /\ profile = [a \in Account |-> None]
  /\ interrupted = FALSE
  /\ request = [h \in Handler |-> Idle]

-----------------------------------------------------------------------------
(* ElicitationService.createSession: the session in progress, or a new one.*)
BeginCreateSession(h) ==
  /\ \A x \in Session : session[x].state # "IN_PROGRESS"
  /\ Starts(h, [op |-> "create"])
  /\ UNCHANGED <<session, selfTech, project, profile, interrupted>>

CommitCreateSession(h) ==
  /\ request[h].op = "create"
  /\ \E x \in Session : session[x] = NoSession /\ session' = [session EXCEPT ![x] = Fresh]
  /\ Ends(h)
  /\ UNCHANGED <<selfTech, project, profile, interrupted>>

SetSelfTechnical(x, value) ==
  /\ Exists(x)
  /\ selfTech' = [selfTech EXCEPT ![x] = value]
  /\ UNCHANGED <<session, project, profile, interrupted, request>>

(* The AI finds the symptoms of the text, the voids in them and the        *)
(* archetypes to recommend; a text that was processed before is skipped.   *)
ProcessStage1(h, x, text) ==
  /\ AtStage(x, {1})
  /\ IF session[x].text = text
     THEN Writes(h, x, [stage |-> 2])
     ELSE \E recommended \in SUBSET Archetype, void \in BOOLEAN :
            Writes(h, x, [stage |-> 2, state |-> "IN_PROGRESS", text |-> text,
                          recommended |-> recommended, openVoid |-> void])

(* BadRequest unless the archetype is one of those recommended, if any.    *)
MayChooseAnyArchetype(x, archetype) == TRUE
MayChoose(x, archetype) ==
  session[x].recommended = {} \/ archetype \in session[x].recommended

ProcessStage2(h, x, archetype, acknowledge) ==
  /\ AtStage(x, {2})
  /\ MayChoose(x, archetype)
  /\ Writes(h, x, [stage |-> 3, state |-> "IN_PROGRESS", archetype |-> archetype,
                   openVoid |-> session[x].openVoid /\ ~ acknowledge])

(* Answers the AI finds vague change nothing.                              *)
ProcessStage3(h, x) ==
  /\ AtStage(x, {3})
  /\ session[x].archetype # None
  /\ Writes(h, x, [stage |-> 4, state |-> "IN_PROGRESS", probes |-> session[x].archetype,
                   scenario |-> IF selfTech[x] THEN "B" ELSE "A"])

ProcessStage4(h, x) ==
  /\ AtStage(x, {4, 5})
  /\ Writes(h, x, [stage |-> 5, state |-> "IN_PROGRESS", tech |-> CEO])

ProcessStage4Handoff(h, x, a) ==
  /\ profile[a] # None
  /\ AtStage(x, {4, 5})
  /\ Writes(h, x, [stage |-> 5, state |-> "IN_PROGRESS", tech |-> a])

-----------------------------------------------------------------------------
(* resolveTechTeamUserId: who submitted stage 4, or the one profile that   *)
(* is not linked yet.                                                      *)
OnlyUnlinked(x) ==
  LET unlinked == {a \in Account : profile[a] = "UNLINKED"} IN
  IF session[x].scenario # "B" /\ Cardinality(unlinked) = 1
  THEN CHOOSE a \in unlinked : TRUE
  ELSE None
Submitter(x) == IF session[x].tech \in Account THEN session[x].tech ELSE OnlyUnlinked(x)

AllStagesComplete(row) ==
  row.text # None /\ row.archetype # None /\ row.probes # None /\ row.tech # None

(* processStage5, and retryFailedSynthesis for a session at stage 5: the   *)
(* stage is moved up before the session is found to be complete or not.    *)
BeginSynthesis(h, x) ==
  /\ request[h] = Idle
  /\ AtStage(x, {4, 5})
  /\ session' = [session EXCEPT ![x].stage = 5]
  /\ IF session[x].state # "COMPLETED" /\ AllStagesComplete(session[x])
     THEN Starts(h, [op |-> "synthesis", x |-> x, row |-> session'[x], submitter |-> Submitter(x)])
     ELSE UNCHANGED request
  /\ UNCHANGED <<selfTech, project, profile, interrupted>>

(* handleGatePassed: four statements.  The unique index refuses a second   *)
(* project of the session; the request then ends (Stop).                   *)
PublishAfterCompleting(h) ==
  /\ request[h].op = "synthesis"
  /\ ~ request[h].row.openVoid
  /\ Exists(request[h].x)
  /\ session' = [session EXCEPT ![request[h].x].state = "COMPLETED"]
  /\ UNCHANGED <<selfTech, project, profile, interrupted, request>>
PublishProject(h) ==
  /\ request[h].op = "synthesis"
  /\ LET x == request[h].x
         row == request[h].row IN
     /\ ~ row.openVoid
     /\ project[x] = NoProject /\ Exists(x)
     /\ project' = [project EXCEPT ![x] = [probes |-> row.probes, selfTechnical |-> selfTech[x]]]
     /\ Becomes(h, [op |-> "complete", x |-> x, submitter |-> request[h].submitter])
  /\ UNCHANGED <<session, selfTech, profile, interrupted>>

CompleteSession(h) ==
  /\ request[h].op = "complete"
  /\ Exists(request[h].x)
  /\ session' = [session EXCEPT ![request[h].x].state = "COMPLETED"]
  /\ IF request[h].submitter = None THEN Ends(h)
     ELSE Becomes(h, [request[h] EXCEPT !.op = "link"])
  /\ UNCHANGED <<selfTech, project, profile, interrupted>>

LinkTechTeam(h) ==
  /\ request[h].op = "link"
  /\ profile' = [profile EXCEPT ![request[h].submitter] = request[h].x]
  /\ Ends(h)
  /\ UNCHANGED <<session, selfTech, project, interrupted>>

(* handleGateFailed: back to the stage of the void, to stage 4 when only   *)
(* the score is too low, or to where it was when no expert matches.        *)
ReturnStages(row) == IF row.openVoid THEN {1, 3, 4} ELSE {1, 3, 4, row.stage}

ReturnSession(h) ==
  /\ request[h].op = "synthesis"
  /\ Exists(request[h].x)
  /\ \E stage \in ReturnStages(request[h].row) :
       session' = [session EXCEPT ![request[h].x] =
         With(@, [state |-> "RETURNED", stage |-> stage])]
  /\ Ends(h)
  /\ UNCHANGED <<selfTech, project, profile, interrupted>>

-----------------------------------------------------------------------------
(* inviteTechTeam: a new link supersedes the one before.                   *)
InviteTechTeam(x) ==
  /\ Exists(x) /\ session[x].link < MaxLinks
  /\ session' = [session EXCEPT ![x] =
       With(@, [link |-> session[x].link + 1, consumed |-> FALSE])]
  /\ UNCHANGED <<selfTech, project, profile, interrupted, request>>

(* AuthService.registerHandoff (a new account) and claimHandoff (one that  *)
(* exists, joined or not).  The link is checked before the transaction.    *)
LinkIsGood(x, n)         == session[x].link = n /\ ~ session[x].consumed

BeginHandoff(h, x, n, a) ==
  /\ Exists(x) /\ LinkIsGood(x, n)
  /\ Starts(h, [op |-> "join", x |-> x, link |-> n, account |-> a])
  /\ UNCHANGED <<session, selfTech, project, profile, interrupted>>

CommitHandoff(h) ==
  /\ request[h].op = "join"
  /\ LET x == request[h].x
         a == request[h].account IN
     /\ Exists(x)
     /\ profile' = [profile EXCEPT ![a] = IF project[x] = NoProject THEN "UNLINKED" ELSE x]
     /\ session' = [session EXCEPT ![x].consumed = TRUE]
  /\ Ends(h)
  /\ UNCHANGED <<selfTech, project, interrupted>>

-----------------------------------------------------------------------------
(* abandonSession, continueSession, revertSession, deleteSession.          *)
MayBeChanged(x) == Exists(x) /\ session[x].state # "COMPLETED"

AbandonSession(h, x)  == MayBeChanged(x) /\ Writes(h, x, [state |-> "ABANDONED"])
ContinueSession(h, x) == MayBeChanged(x) /\ Writes(h, x, [state |-> "IN_PROGRESS"])

MayRevertTo(x, target) == target <= session[x].stage

RevertSession(h, x, target) ==
  /\ MayBeChanged(x)
  /\ MayRevertTo(x, target)
  /\ Writes(h, x, [stage |-> target, state |-> "IN_PROGRESS"])

BeginDeleteSession(h, x) ==
  /\ MayBeChanged(x)
  /\ Starts(h, [op |-> "delete", x |-> x])
  /\ UNCHANGED <<session, selfTech, project, profile, interrupted>>

CommitDeleteSession(h) ==
  /\ request[h].op = "delete"
  /\ Exists(request[h].x)
  /\ session' = [session EXCEPT ![request[h].x] = Deleted]
  /\ Ends(h)
  /\ UNCHANGED <<selfTech, project, profile, interrupted>>

(* A statement or the AI service fails, or the process dies.               *)
Stop(h) ==
  /\ request[h] # Idle
  /\ interrupted' = (interrupted \/ request[h].op \in {"complete", "link"})
  /\ Ends(h)
  /\ UNCHANGED <<session, selfTech, project, profile>>

-----------------------------------------------------------------------------
Fill(h, x) ==
  \/ \E text \in Text : ProcessStage1(h, x, text)
  \/ \E archetype \in Archetype, acknowledge \in BOOLEAN :
       ProcessStage2(h, x, archetype, acknowledge)
  \/ ProcessStage3(h, x) \/ ProcessStage4(h, x)
  \/ \E a \in Account : ProcessStage4Handoff(h, x, a)
  \/ BeginSynthesis(h, x)
  \/ \E n \in 1..MaxLinks, a \in Account : BeginHandoff(h, x, n, a)
  \/ AbandonSession(h, x) \/ ContinueSession(h, x) \/ BeginDeleteSession(h, x)
  \/ \E target \in 1..4 : RevertSession(h, x, target)

Serve(h) ==
  \/ BeginCreateSession(h) \/ CommitCreateSession(h)
  \/ \E x \in Session : Fill(h, x)
  \/ Write(h) \/ PublishProject(h) \/ CompleteSession(h) \/ LinkTechTeam(h)
  \/ ReturnSession(h) \/ CommitHandoff(h) \/ CommitDeleteSession(h)
  \/ Stop(h)

Next ==
  \/ \E h \in Handler : Serve(h)
  \/ /\ \E h \in Handler : request[h] = Idle
     /\ \E x \in Session :
          InviteTechTeam(x) \/ \E value \in BOOLEAN : SetSelfTechnical(x, value)

Spec == Init /\ [][Next]_vars

-----------------------------------------------------------------------------
(* Every column holds a value of its type.                                 *)
TypeOK ==
  /\ session \in [Session -> Row \cup {NoSession, Deleted}]
  /\ selfTech \in [Session -> BOOLEAN]
  /\ project \in [Session -> {NoProject} \cup
       [probes : Archetype, selfTechnical : BOOLEAN]]
  /\ profile \in [Account -> {None, "UNLINKED"} \cup Session]
  /\ interrupted \in BOOLEAN
  /\ \A h \in Handler : request[h].op \in
       {"idle", "create", "write", "synthesis", "complete", "link", "join", "delete"}

(* However often the CEO goes back, what a stage holds was made from what  *)
(* the stages before it hold now: the archetype is one recommended for the *)
(* text, the probe answers are for the archetype.                          *)
Coherent(row) ==
  /\ row.stage >= 2 => row.text # None
  /\ row.stage >= 3 => row.archetype # None
       /\ (row.recommended = {} \/ row.archetype \in row.recommended)
  /\ row.stage >= 4 => row.probes = row.archetype
StagesBuildOnEachOther == \A x \in Session : Exists(x) => Coherent(session[x])

(* A session is COMPLETED only with its project published: whatever stops  *)
(* half-way can be retried or is already published.                        *)
CompletedHasProject == \A x \in Session :
  session[x].state = "COMPLETED" => project[x] # NoProject

(* Once a publication has gone through, the tech team that submitted its   *)
(* stage 4 is linked to the project, whichever other accounts have joined. *)
(* An account is linked to one project, so another session of the CEO's    *)
(* may have taken it over.                                                 *)
OnlySession(x) == \A y \in Session \ {x} : session[y] = NoSession
SubmitterFindsProject == \A x \in Session :
  /\ session[x].state = "COMPLETED" /\ session[x].tech \in Account /\ OnlySession(x)
  /\ ~ interrupted /\ \A h \in Handler : request[h] = Idle
  => profile[session[x].tech] = x
=============================================================================
