------------------------- MODULE ElicitationProofs -------------------------
(***************************************************************************)
(* What holds of Elicitation for any number of sessions, accounts, texts   *)
(* and archetypes: whatever overlaps, and when requests are served one at  *)
(* a time.                                                                 *)
(***************************************************************************)
EXTENDS Elicitation, FiniteSetTheorems, TLAPS

Maybe(S) == S \cup {None}

Project == [probes : Archetype, selfTechnical : BOOLEAN]

(* Columns that may be written into a session: each of its type, and who   *)
(* submitted stage 4 only together with the state.                         *)
Fits(columns) ==
  /\ "stage" \in DOMAIN columns => columns.stage \in 1..5
  /\ "state" \in DOMAIN columns => columns.state \in SessionState \ {"COMPLETED"}
  /\ "text" \in DOMAIN columns => columns.text \in Maybe(Text)
  /\ "recommended" \in DOMAIN columns => columns.recommended \in SUBSET Archetype
  /\ "openVoid" \in DOMAIN columns => columns.openVoid \in BOOLEAN
  /\ "archetype" \in DOMAIN columns => columns.archetype \in Maybe(Archetype)
  /\ "probes" \in DOMAIN columns => columns.probes \in Maybe(Archetype)
  /\ "scenario" \in DOMAIN columns => columns.scenario \in {None, "A", "B"}
  /\ "tech" \in DOMAIN columns =>
       columns.tech \in Account \cup {None, CEO} /\ "state" \in DOMAIN columns
  /\ "link" \in DOMAIN columns => columns.link \in 0..MaxLinks
  /\ "consumed" \in DOMAIN columns => columns.consumed \in BOOLEAN

-----------------------------------------------------------------------------
(* What a request holds, whatever overlaps: a request that completes a     *)
(* session has published its project.                                      *)
RequestOK(r) ==
  /\ r.op \in {"idle", "create", "write", "synthesis", "complete", "link", "join", "delete"}
  /\ r.op \notin {"idle", "create"} => r.x \in Session
  /\ r.op = "write" => Fits(r.columns)
  /\ r.op = "synthesis" => r.row \in Row /\ AllStagesComplete(r.row)
  /\ r.op \in {"synthesis", "complete"} => r.submitter \in Maybe(Account)
  /\ r.op = "complete" => r = [op |-> "complete", x |-> r.x, submitter |-> r.submitter]
  /\ r.op = "link" => r.submitter \in Account
  /\ r.op \in {"complete", "link"} => project[r.x] # NoProject
  /\ r.op = "join" => r.account \in Account

Requests == /\ request = [h \in Handler |-> request[h]]
            /\ \A h \in Handler : RequestOK(request[h])

Inv == TypeOK /\ Requests /\ CompletedHasProject

(* A row with columns written into it is a row, and has them.              *)
LEMMA WithRow ==
  ASSUME NEW row \in Row, NEW columns, Fits(columns)
  PROVE  /\ With(row, columns) \in Row
         /\ \A c \in DOMAIN row : With(row, columns)[c] =
              IF c \in DOMAIN columns THEN columns[c] ELSE row[c]
<1> DEFINE new == With(row, columns)
<1>1. DOMAIN row = {"state", "stage", "text", "recommended", "openVoid", "archetype", "probes",
                    "scenario", "tech", "link", "consumed"}
  BY DEF Row
<1>2. \A c \in DOMAIN row : new[c] = IF c \in DOMAIN columns THEN columns[c] ELSE row[c]
  BY DEF With
<1>3. new = [c \in DOMAIN row |-> new[c]]
  BY DEF With
<1>4. /\ new.state \in SessionState /\ new.stage \in 1..5 /\ new.text \in Text \cup {None}
      /\ new.recommended \in SUBSET Archetype
      /\ new.archetype \in Archetype \cup {None} /\ new.probes \in Archetype \cup {None}
      /\ new.scenario \in {None, "A", "B"} /\ new.tech \in Account \cup {None, CEO}
      /\ new.link \in 0..MaxLinks
  BY <1>1, <1>2 DEF Row, Fits, Maybe
<1>5. new.openVoid \in BOOLEAN /\ new.consumed \in BOOLEAN
  BY <1>1, <1>2 DEF Row, Fits
<1>6. new \in Row
  BY <1>1, <1>3, <1>4, <1>5 DEF Row
<1>7. QED
  BY <1>2, <1>6

-----------------------------------------------------------------------------
(* The columns of TypeOK but for the requests'.                            *)
RowsOK ==
  /\ session \in [Session -> Row \cup {NoSession, Deleted}]
  /\ selfTech \in [Session -> BOOLEAN]
  /\ project \in [Session -> {NoProject} \cup Project]
  /\ profile \in [Account -> {None, "UNLINKED"} \cup Session]
  /\ interrupted \in BOOLEAN

LEMMA Typed ==
  ASSUME Inv
  PROVE  /\ RowsOK /\ Requests /\ CompletedHasProject
         /\ \A x \in Session : Exists(x) => session[x] \in Row
  BY DEF Inv, TypeOK, RowsOK, Project, Exists

LEMMA InitInv == Init => Inv
<1> SUFFICES ASSUME Init PROVE Inv
  OBVIOUS
<1>1. TypeOK
  BY DEF Init, TypeOK, Idle
<1>2. Requests
  BY DEF Init, Requests, RequestOK, Idle
<1>3. CompletedHasProject
  BY DEF Init, CompletedHasProject, NoSession
<1>4. QED
  BY <1>1, <1>2, <1>3 DEF Inv

(* No project is taken back.                                               *)
Published == \A x \in Session : project[x] # NoProject => project'[x] # NoProject

LEMMA StepInv ==
  ASSUME Inv, RowsOK', CompletedHasProject', Published,
         \/ request' = request
         \/ \E h \in Handler : \E r : Becomes(h, r) /\ RequestOK(r)'
  PROVE  Inv'
<1>1. Requests'
  <2>1. request' = [g \in Handler |-> request'[g]]
    BY DEF Inv, Requests, Becomes
  <2>2. ASSUME NEW q, RequestOK(q) PROVE RequestOK(q)'
    BY <2>2 DEF RequestOK, Published
  <2>3. ASSUME NEW g \in Handler PROVE RequestOK(request[g])'
    <3>1. PICK q : q = request'[g] /\ RequestOK(q)'
      <4>1. CASE request' = request
        BY <2>2, <4>1 DEF Inv, Requests
      <4>2. ASSUME NEW h \in Handler, NEW r, Becomes(h, r), RequestOK(r)'
            PROVE  \E q : q = request'[g] /\ RequestOK(q)'
        BY <2>2, <4>2 DEF Inv, Requests, Becomes
      <4>3. QED
        BY <4>1, <4>2
    <3>2. QED
      BY <3>1
  <2>4. QED
    BY <2>1, <2>3 DEF Requests
<1>2. QED
  BY <1>1 DEF Inv, TypeOK, RowsOK, Project, Requests, RequestOK

(* A request that only reads.                                              *)
LEMMA Reads ==
  ASSUME Inv, NEW h \in Handler, NEW r, Becomes(h, r), RequestOK(r),
         UNCHANGED <<session, selfTech, project, profile, interrupted>>
  PROVE  Inv'
<1>1. RowsOK' /\ CompletedHasProject' /\ Published
  BY Typed DEF RowsOK, CompletedHasProject, Published
<1>2. RequestOK(r)'
  BY DEF RequestOK
<1>3. QED
  BY <1>1, <1>2, StepInv

(* A request that writes one session, and not that it is completed.        *)
LEMMA WritesSession ==
  ASSUME Inv, NEW x \in Session, NEW row \in Row \cup {NoSession, Deleted},
         session' = [session EXCEPT ![x] = row],
         row.state = "COMPLETED" => project[x] # NoProject,
         UNCHANGED <<selfTech, project, interrupted>>,
         profile' \in [Account -> {None, "UNLINKED"} \cup Session],
         \/ request' = request
         \/ \E h \in Handler : \E r : Becomes(h, r) /\ RequestOK(r)
  PROVE  Inv'
<1>1. RowsOK'
  BY Typed DEF RowsOK
<1>2. CompletedHasProject'
  BY Typed DEF RowsOK, CompletedHasProject
<1>3. \A r : RequestOK(r) => RequestOK(r)'
  BY DEF RequestOK
<1>4. QED
  BY <1>1, <1>2, <1>3, StepInv DEF Published

-----------------------------------------------------------------------------
LEMMA WriteInv ==
  ASSUME Inv, NEW h \in Handler, Write(h)
  PROVE  Inv'
<1>0. PICK columns : columns = request[h].columns
  OBVIOUS
<1>1. PICK x \in Session :
        /\ x = request[h].x /\ columns = request[h].columns /\ Fits(columns)
        /\ session[x] \in Row
  BY <1>0, Typed DEF Write, Requests, RequestOK
<1>2. PICK row \in Row : row = With(session[x], columns)
  BY <1>1, WithRow
<1>3. row.state = "COMPLETED" => session[x].state = "COMPLETED"
  BY <1>1, <1>2, WithRow DEF Row, Fits
<1>4. session' = [session EXCEPT ![x] = row]
  BY <1>1, <1>2 DEF Write
<1>5. row.state = "COMPLETED" => project[x] # NoProject
  BY <1>1, <1>3, Typed DEF CompletedHasProject
<1>6. profile' \in [Account -> {None, "UNLINKED"} \cup Session]
  BY Typed DEF Write, RowsOK
<1>7. RequestOK(Idle)
  BY DEF RequestOK, Idle
<1>8. QED
  BY <1>4, <1>5, <1>6, <1>7, WritesSession DEF Write, Ends

(* Everything a stage, a link or a change of state is going to write fits. *)
LEMMA WritesInv ==
  ASSUME Inv, NEW h \in Handler, NEW x \in Session, NEW columns, Fits(columns), Writes(h, x, columns)
  PROVE  Inv'
<1>1. PICK r : r = [op |-> "write", x |-> x, columns |-> columns]
  OBVIOUS
<1>2. RequestOK(r)
  BY <1>1 DEF RequestOK
<1>3. QED
  BY <1>1, <1>2, Reads DEF Writes, Starts, Becomes

(* What a stage, an abandonment, a continuation or a return to an earlier  *)
(* stage is going to write fits, and leaves a coherent session coherent.   *)
WillWrite(h, x) ==
  \E columns : /\ Writes(h, x, columns) /\ Fits(columns) /\ session[x] \in Row
               /\ Coherent(session[x]) => Coherent(With(session[x], columns))

LEMMA StagesWrite ==
  ASSUME Inv, NEW h \in Handler, NEW x \in Session,
         \/ \E text \in Text : ProcessStage1(h, x, text)
         \/ \E archetype \in Archetype, acknowledge \in BOOLEAN :
              ProcessStage2(h, x, archetype, acknowledge)
         \/ ProcessStage3(h, x) \/ ProcessStage4(h, x)
         \/ \E a \in Account : ProcessStage4Handoff(h, x, a)
         \/ AbandonSession(h, x) \/ ContinueSession(h, x)
         \/ \E target \in 1..4 : RevertSession(h, x, target)
  PROVE  WillWrite(h, x)
<1>0. Exists(x)
  BY DEF ProcessStage1, ProcessStage2, ProcessStage3, ProcessStage4, ProcessStage4Handoff,
     AbandonSession, ContinueSession, RevertSession, AtStage, MayBeChanged
<1>1. PICK row \in Row : row = session[x]
  BY <1>0, Typed
<1>2. DOMAIN row = {"state", "stage", "text", "recommended", "openVoid", "archetype", "probes",
                    "scenario", "tech", "link", "consumed"}
  BY DEF Row
<1>3. ASSUME NEW columns, Fits(columns)
      PROVE  /\ "stage" \notin DOMAIN columns => With(row, columns).stage = row.stage
             /\ "stage" \in DOMAIN columns => With(row, columns).stage = columns.stage
             /\ "text" \notin DOMAIN columns => With(row, columns).text = row.text
             /\ "text" \in DOMAIN columns => With(row, columns).text = columns.text
             /\ "recommended" \notin DOMAIN columns => With(row, columns).recommended = row.recommended
             /\ "archetype" \notin DOMAIN columns => With(row, columns).archetype = row.archetype
             /\ "archetype" \in DOMAIN columns => With(row, columns).archetype = columns.archetype
             /\ "probes" \notin DOMAIN columns => With(row, columns).probes = row.probes
             /\ "probes" \in DOMAIN columns => With(row, columns).probes = columns.probes
  BY <1>2, <1>3, WithRow
<1>4. ASSUME NEW text \in Text, ProcessStage1(h, x, text)
      PROVE  WillWrite(h, x)
  <2>1. row.stage = 1
    BY <1>1, <1>4 DEF ProcessStage1, AtStage
  <2>2. CASE row.text = text
    <3>1. PICK columns : columns = [stage |-> 2]
      OBVIOUS
    <3>2. Fits(columns) /\ Writes(h, x, columns)
      BY <1>1, <1>4, <2>2, <3>1 DEF ProcessStage1, Fits
    <3>3. Coherent(With(row, columns))
      BY <1>3, <2>2, <3>1, <3>2, ConstantsOK DEF Coherent, ConstantsOK, None
    <3>4. QED
      BY <1>1, <3>2, <3>3 DEF WillWrite
  <2>3. CASE row.text # text
    <3>1. PICK recommended \in SUBSET Archetype, void \in BOOLEAN :
            Writes(h, x, [stage |-> 2, state |-> "IN_PROGRESS", text |-> text,
                          recommended |-> recommended, openVoid |-> void])
      BY <1>1, <1>4, <2>3 DEF ProcessStage1
    <3>2. PICK columns :
            columns = [stage |-> 2, state |-> "IN_PROGRESS", text |-> text,
                       recommended |-> recommended, openVoid |-> void]
      OBVIOUS
    <3>3. Fits(columns) /\ Writes(h, x, columns)
      BY <3>1, <3>2 DEF Fits, SessionState, Maybe
    <3>4. Coherent(With(row, columns))
      BY <1>3, <3>2, <3>3, ConstantsOK DEF Coherent, ConstantsOK, None
    <3>5. QED
      BY <1>1, <3>3, <3>4 DEF WillWrite
  <2>4. QED
    BY <2>2, <2>3
<1>5. ASSUME NEW archetype \in Archetype, NEW acknowledge \in BOOLEAN,
             ProcessStage2(h, x, archetype, acknowledge)
      PROVE  WillWrite(h, x)
  <2>1. row.stage = 2 /\ (row.recommended = {} \/ archetype \in row.recommended)
    BY <1>1, <1>5 DEF ProcessStage2, AtStage, MayChoose
  <2>2. PICK void \in BOOLEAN : void = (row.openVoid /\ ~ acknowledge)
    OBVIOUS
  <2>3. PICK columns : columns = [stage |-> 3, state |-> "IN_PROGRESS", archetype |-> archetype,
                                  openVoid |-> void]
    OBVIOUS
  <2>4. Fits(columns)
    BY <2>3 DEF Fits, SessionState, Maybe
  <2>5. Writes(h, x, columns)
    BY <1>1, <1>5, <2>2, <2>3 DEF ProcessStage2
  <2>6. Coherent(row) => Coherent(With(row, columns))
    BY <1>3, <2>1, <2>3, <2>4, ConstantsOK DEF Coherent, ConstantsOK, None
  <2>7. QED
    BY <1>1, <2>4, <2>5, <2>6 DEF WillWrite
<1>6. CASE ProcessStage3(h, x)
  <2>1. row.stage = 3 /\ row.archetype # None
    BY <1>1, <1>6 DEF ProcessStage3, AtStage
  <2>2. PICK scenario : scenario = IF selfTech[x] THEN "B" ELSE "A"
    OBVIOUS
  <2>3. PICK columns : columns = [stage |-> 4, state |-> "IN_PROGRESS", probes |-> row.archetype,
                                  scenario |-> scenario]
    OBVIOUS
  <2>4. Fits(columns)
    BY <2>2, <2>3 DEF Fits, SessionState, Maybe, Row
  <2>5. Writes(h, x, columns)
    BY <1>1, <1>6, <2>2, <2>3 DEF ProcessStage3
  <2>6. Coherent(row) => Coherent(With(row, columns))
    BY <1>3, <2>1, <2>3, <2>4 DEF Coherent
  <2>7. QED
    BY <1>1, <2>4, <2>5, <2>6 DEF WillWrite
<1>7. ASSUME ProcessStage4(h, x) \/ \E a \in Account : ProcessStage4Handoff(h, x, a)
      PROVE  WillWrite(h, x)
  <2>1. row.stage \in {4, 5}
    BY <1>1, <1>7 DEF ProcessStage4, ProcessStage4Handoff, AtStage
  <2>2. PICK tech \in Account \cup {CEO} :
          Writes(h, x, [stage |-> 5, state |-> "IN_PROGRESS", tech |-> tech])
    BY <1>7 DEF ProcessStage4, ProcessStage4Handoff
  <2>3. PICK columns : columns = [stage |-> 5, state |-> "IN_PROGRESS", tech |-> tech]
    OBVIOUS
  <2>4. Fits(columns) /\ Writes(h, x, columns)
    BY <2>2, <2>3 DEF Fits, SessionState
  <2>5. Coherent(row) => Coherent(With(row, columns))
    BY <1>3, <2>1, <2>3, <2>4 DEF Coherent
  <2>6. QED
    BY <1>1, <2>4, <2>5 DEF WillWrite
<1>8. ASSUME AbandonSession(h, x) \/ ContinueSession(h, x)
      PROVE  WillWrite(h, x)
  <2>1. PICK state \in {"ABANDONED", "IN_PROGRESS"} : Writes(h, x, [state |-> state])
    BY <1>8 DEF AbandonSession, ContinueSession
  <2>2. PICK columns : columns = [state |-> state]
    OBVIOUS
  <2>3. Fits(columns) /\ Writes(h, x, columns)
    BY <2>1, <2>2 DEF Fits, SessionState
  <2>4. Coherent(row) => Coherent(With(row, columns))
    BY <1>3, <2>2, <2>3 DEF Coherent
  <2>5. QED
    BY <1>1, <2>3, <2>4 DEF WillWrite
<1>9. ASSUME NEW target \in 1..4, RevertSession(h, x, target)
      PROVE  WillWrite(h, x)
  <2>1. target <= row.stage /\ row.stage \in 1..5
    BY <1>1, <1>9 DEF RevertSession, MayRevertTo, Row
  <2>2. PICK columns : columns = [stage |-> target, state |-> "IN_PROGRESS"]
    OBVIOUS
  <2>3. Fits(columns) /\ Writes(h, x, columns)
    BY <1>9, <2>2 DEF RevertSession, Fits, SessionState
  <2>4. Coherent(row) => Coherent(With(row, columns))
    BY <1>3, <2>1, <2>2, <2>3 DEF Coherent
  <2>5. QED
    BY <1>1, <2>3, <2>4 DEF WillWrite
<1>10. QED
  BY <1>4, <1>5, <1>6, <1>7, <1>8, <1>9

LEMMA StagesInv ==
  ASSUME Inv, NEW h \in Handler, NEW x \in Session, WillWrite(h, x)
  PROVE  Inv'
  BY WritesInv DEF WillWrite

(* The submitter a synthesis looks up is an account, or nobody; the one    *)
(* who submitted stage 4, if it was an account.                            *)
LEMMA SubmitterFound ==
  ASSUME NEW x \in Session
  PROVE  /\ Submitter(x) \in Maybe(Account)
         /\ session[x].tech \in Account => Submitter(x) = session[x].tech
<1> DEFINE unlinked == {a \in Account : profile[a] = "UNLINKED"}
<1>1. Cardinality(unlinked) = 1 => (CHOOSE a \in unlinked : TRUE) \in Account
  <2>1. Cardinality(unlinked) = 1 => unlinked # {}
    BY FS_EmptySet
  <2>2. QED
    BY <2>1
<1>2. OnlyUnlinked(x) \in Maybe(Account)
  BY <1>1 DEF OnlyUnlinked, Maybe
<1>3. QED
  BY <1>2 DEF Submitter, Maybe

LEMMA BeginSynthesisInv ==
  ASSUME Inv, NEW h \in Handler, NEW x \in Session, BeginSynthesis(h, x)
  PROVE  Inv'
<1>0. session[x] \in Row
  BY Typed DEF BeginSynthesis, AtStage
<1>1. PICK row \in Row : row = [session[x] EXCEPT !.stage = 5] /\ session[x] \in Row
  <2>1. ASSUME NEW old \in Row PROVE [old EXCEPT !.stage = 5] \in Row
    <3>1. 5 \in 1..5
      OBVIOUS
    <3>2. QED
      BY <3>1 DEF Row
  <2>2. QED
    BY <1>0, <2>1
<1>2. session' = [session EXCEPT ![x] = row]
  BY <1>1 DEF BeginSynthesis
<1>3. row.state = "COMPLETED" => project[x] # NoProject
  BY <1>1, Typed DEF CompletedHasProject, Row
<1>4. profile' \in [Account -> {None, "UNLINKED"} \cup Session]
  BY Typed DEF BeginSynthesis, RowsOK
<1>5. request' = request \/ \E g \in Handler : \E r : Becomes(g, r) /\ RequestOK(r)
  <2>1. CASE UNCHANGED request
    BY <2>1
  <2>2. CASE /\ AllStagesComplete(session[x])
             /\ Starts(h, [op |-> "synthesis", x |-> x, row |-> session'[x], submitter |-> Submitter(x)])
    <3>1. session'[x] = row
      BY <1>2, Typed DEF RowsOK
    <3>2. AllStagesComplete(row)
      BY <1>1, <2>2 DEF AllStagesComplete, Row
    <3>3. PICK submitter \in Maybe(Account) : submitter = Submitter(x)
      BY SubmitterFound
    <3>4. PICK r : r = [op |-> "synthesis", x |-> x, row |-> row, submitter |-> submitter]
      OBVIOUS
    <3>5. RequestOK(r)
      BY <3>2, <3>4 DEF RequestOK
    <3>6. Becomes(h, r)
      BY <2>2, <3>1, <3>3, <3>4 DEF Starts, Becomes
    <3>7. QED
      BY <3>5, <3>6
  <2>3. QED
    BY <2>1, <2>2 DEF BeginSynthesis
<1>6. QED
  BY <1>2, <1>3, <1>4, <1>5, WritesSession DEF BeginSynthesis

(* Publishing, completing, linking.                                        *)
LEMMA PublishInv ==
  ASSUME Inv, NEW h \in Handler, PublishProject(h)
  PROVE  Inv'
<1>1. PICK x \in Session, row \in Row, submitter \in Maybe(Account) :
        /\ x = request[h].x /\ row = request[h].row /\ submitter = request[h].submitter
        /\ AllStagesComplete(row)
  BY Typed DEF PublishProject, Requests, RequestOK
<1>2. PICK made : made = [probes |-> row.probes, selfTechnical |-> selfTech[x]]
  OBVIOUS
<1>3. made \in Project /\ made # NoProject
  BY <1>1, <1>2, Typed, ConstantsOK
     DEF Project, Row, AllStagesComplete, RowsOK, NoProject, ConstantsOK, None
<1>4. project' = [project EXCEPT ![x] = made]
  BY <1>1, <1>2 DEF PublishProject
<1>5. /\ project' \in [Session -> {NoProject} \cup Project] /\ project'[x] # NoProject
      /\ Published
  BY <1>3, <1>4, Typed DEF RowsOK, Published
<1>6. RowsOK' /\ CompletedHasProject'
  BY <1>5, Typed DEF RowsOK, CompletedHasProject, Published, PublishProject
<1>7. PICK r : r = [op |-> "complete", x |-> x, submitter |-> submitter]
  OBVIOUS
<1>8. RequestOK(r)' /\ Becomes(h, r)
  BY <1>1, <1>5, <1>7 DEF RequestOK, PublishProject
<1>9. QED
  BY <1>5, <1>6, <1>8, StepInv

LEMMA CompleteInv ==
  ASSUME Inv, NEW h \in Handler, CompleteSession(h)
  PROVE  Inv'
<1>1. PICK x \in Session, submitter \in Maybe(Account) :
        /\ x = request[h].x /\ submitter = request[h].submitter
        /\ project[x] # NoProject /\ session[x] \in Row
  BY Typed DEF CompleteSession, Requests, RequestOK
<1>2. PICK row \in Row : row = [session[x] EXCEPT !.state = "COMPLETED"]
  BY <1>1 DEF Row, SessionState
<1>3. session' = [session EXCEPT ![x] = row]
  BY <1>1, <1>2 DEF CompleteSession
<1>4. profile' \in [Account -> {None, "UNLINKED"} \cup Session]
  BY Typed DEF CompleteSession, RowsOK
<1>5. \E g \in Handler : \E r : Becomes(g, r) /\ RequestOK(r)
  <2>1. CASE Ends(h)
    BY <2>1 DEF Ends, RequestOK, Idle
  <2>2. CASE submitter # None /\ Becomes(h, [request[h] EXCEPT !.op = "link"])
    <3>1. request[h] = [op |-> "complete", x |-> x, submitter |-> submitter]
      BY <1>1 DEF RequestOK, Requests, Inv, CompleteSession
    <3>2. PICK r : r = [op |-> "link", x |-> x, submitter |-> submitter]
      OBVIOUS
    <3>3. RequestOK(r)
      BY <1>1, <2>2, <3>2 DEF RequestOK, Maybe
    <3>4. Becomes(h, r)
      BY <2>2, <3>1, <3>2
    <3>5. QED
      BY <3>3, <3>4
  <2>3. QED
    BY <1>1, <2>1, <2>2 DEF CompleteSession
<1>6. QED
  BY <1>1, <1>3, <1>4, <1>5, WritesSession DEF CompleteSession

LEMMA ReturnInv ==
  ASSUME Inv, NEW h \in Handler, ReturnSession(h)
  PROVE  Inv'
<1>1. PICK x \in Session, was \in Row :
        x = request[h].x /\ was = request[h].row /\ session[x] \in Row
  BY Typed DEF ReturnSession, Requests, RequestOK
<1>2. ReturnStages(was) \subseteq 1..5
  BY <1>1 DEF ReturnStages, Row
<1>3. PICK stage \in 1..5 :
        session' = [session EXCEPT ![x] = With(@, [state |-> "RETURNED", stage |-> stage])]
  BY <1>1, <1>2 DEF ReturnSession
<1>4. PICK columns : columns = [state |-> "RETURNED", stage |-> stage]
  OBVIOUS
<1>5. Fits(columns)
  BY <1>4 DEF Fits, SessionState
<1>6. PICK row \in Row : row = With(session[x], columns)
  BY <1>1, <1>5, WithRow
<1>7. row.state = "RETURNED"
  BY <1>1, <1>4, <1>5, <1>6, WithRow DEF Row
<1>8. session' = [session EXCEPT ![x] = row]
  BY <1>3, <1>4, <1>6
<1>9. profile' \in [Account -> {None, "UNLINKED"} \cup Session] /\ RequestOK(Idle)
  BY Typed DEF ReturnSession, RowsOK, RequestOK, Idle
<1>10. QED
  BY <1>7, <1>8, <1>9, WritesSession DEF ReturnSession, Ends

-----------------------------------------------------------------------------
(* The links, and the life of a session.                                   *)
LEMMA InviteInv ==
  ASSUME Inv, NEW x \in Session, InviteTechTeam(x)
  PROVE  Inv'
<1>1. session[x] \in Row
  BY Typed DEF InviteTechTeam
<1>2. PICK columns : columns = [link |-> session[x].link + 1, consumed |-> FALSE]
  OBVIOUS
<1>3. Fits(columns)
  BY <1>1, <1>2, ConstantsOK DEF InviteTechTeam, Fits, Row, ConstantsOK
<1>4. PICK row \in Row : row = With(session[x], columns)
  BY <1>1, <1>3, WithRow
<1>5. row.state = session[x].state
  BY <1>1, <1>2, <1>3, <1>4, WithRow DEF Row
<1>6. session' = [session EXCEPT ![x] = row]
  BY <1>2, <1>4 DEF InviteTechTeam
<1>7. profile' \in [Account -> {None, "UNLINKED"} \cup Session]
  BY Typed DEF InviteTechTeam, RowsOK
<1>8. QED
  BY <1>5, <1>6, <1>7, Typed, WritesSession DEF InviteTechTeam, CompletedHasProject

LEMMA HandoffInv ==
  ASSUME Inv, NEW h \in Handler, CommitHandoff(h)
  PROVE  Inv'
<1>1. PICK x \in Session, a \in Account :
        x = request[h].x /\ a = request[h].account /\ session[x] \in Row
  BY Typed DEF CommitHandoff, Requests, RequestOK
<1>2. PICK row \in Row : row = [session[x] EXCEPT !.consumed = TRUE]
  BY <1>1 DEF Row
<1>3. session' = [session EXCEPT ![x] = row]
  BY <1>1, <1>2 DEF CommitHandoff
<1>4. row.state = session[x].state
  BY <1>1, <1>2 DEF Row
<1>5. profile' \in [Account -> {None, "UNLINKED"} \cup Session] /\ RequestOK(Idle)
  BY <1>1, Typed DEF CommitHandoff, RowsOK, RequestOK, Idle
<1>6. QED
  BY <1>3, <1>4, <1>5, Typed, WritesSession DEF CommitHandoff, CompletedHasProject, Ends

LEMMA CreateAndDeleteInv ==
  ASSUME Inv, NEW h \in Handler,
         BeginCreateSession(h) \/ CommitCreateSession(h) \/ CommitDeleteSession(h)
  PROVE  Inv'
<1>1. profile' \in [Account -> {None, "UNLINKED"} \cup Session] /\ RequestOK(Idle)
  BY Typed DEF RowsOK, RequestOK, Idle, BeginCreateSession, CommitCreateSession,
     CommitDeleteSession
<1>2. CASE BeginCreateSession(h)
  <2>1. PICK r : r = [op |-> "create"]
    OBVIOUS
  <2>2. RequestOK(r)
    BY <2>1 DEF RequestOK
  <2>3. QED
    BY <1>2, <2>1, <2>2, Reads DEF BeginCreateSession, Starts, Becomes
<1>3. CASE CommitCreateSession(h)
  <2>1. PICK row : row = Fresh
    OBVIOUS
  <2>2. row \in Row /\ row.state # "COMPLETED"
    BY <2>1, ConstantsOK DEF Fresh, Row, SessionState, ConstantsOK
  <2>3. QED
    BY <1>1, <1>3, <2>1, <2>2, WritesSession DEF CommitCreateSession, Ends
<1>4. CASE CommitDeleteSession(h)
  <2>1. PICK x \in Session : x = request[h].x
    BY <1>4, Typed DEF CommitDeleteSession, Requests, RequestOK
  <2>2. Deleted.state # "COMPLETED"
    BY DEF Deleted
  <2>3. QED
    BY <1>1, <1>4, <2>1, <2>2, WritesSession DEF CommitDeleteSession, Ends
<1>5. QED
  BY <1>2, <1>3, <1>4

LEMMA OtherInv ==
  ASSUME Inv,
         \/ \E h \in Handler : LinkTechTeam(h) \/ Stop(h)
         \/ \E h \in Handler, x \in Session : BeginDeleteSession(h, x)
         \/ \E h \in Handler, x \in Session, n \in 1..MaxLinks, a \in Account : BeginHandoff(h, x, n, a)
         \/ \E x \in Session, value \in BOOLEAN : SetSelfTechnical(x, value)
  PROVE  Inv'
<1>1. RequestOK(Idle) /\ RequestOK(Idle)'
  BY DEF RequestOK, Idle
<1>2. ASSUME NEW h \in Handler, LinkTechTeam(h) \/ Stop(h)
      PROVE  Inv'
  <2>1. RowsOK' /\ CompletedHasProject' /\ Published
    BY <1>2, Typed DEF RowsOK, CompletedHasProject, Published, LinkTechTeam, Stop, Requests, RequestOK
  <2>2. QED
    BY <1>1, <1>2, <2>1, StepInv DEF LinkTechTeam, Stop, Ends
<1>3. ASSUME NEW h \in Handler, NEW x \in Session, BeginDeleteSession(h, x)
      PROVE  Inv'
  <2>1. PICK r : r = [op |-> "delete", x |-> x]
    OBVIOUS
  <2>2. RequestOK(r)
    BY <2>1 DEF RequestOK
  <2>3. QED
    BY <1>3, <2>1, <2>2, Reads DEF BeginDeleteSession, Starts, Becomes
<1>4. ASSUME NEW h \in Handler, NEW x \in Session, NEW n \in 1..MaxLinks, NEW a \in Account,
             BeginHandoff(h, x, n, a)
      PROVE  Inv'
  <2>1. PICK r : r = [op |-> "join", x |-> x, link |-> n, account |-> a]
    OBVIOUS
  <2>2. RequestOK(r)
    BY <2>1 DEF RequestOK
  <2>3. QED
    BY <1>4, <2>1, <2>2, Reads DEF BeginHandoff, Starts, Becomes
<1>5. ASSUME NEW x \in Session, NEW value \in BOOLEAN, SetSelfTechnical(x, value)
      PROVE  Inv'
  <2>1. RowsOK' /\ CompletedHasProject' /\ Published
    BY <1>5, Typed DEF RowsOK, CompletedHasProject, Published, SetSelfTechnical
  <2>2. QED
    BY <1>5, <2>1, StepInv DEF SetSelfTechnical
<1>6. QED
  BY <1>2, <1>3, <1>4, <1>5

LEMMA InvInductive == Inv /\ [Next]_vars => Inv'
<1> SUFFICES ASSUME Inv, [Next]_vars PROVE Inv'
  OBVIOUS
<1>1. CASE UNCHANGED vars
  <2>1. RowsOK' /\ CompletedHasProject' /\ Published
    BY <1>1, Typed DEF vars, RowsOK, CompletedHasProject, Published
  <2>2. QED
    BY <1>1, <2>1, StepInv DEF vars
<1>2. ASSUME NEW h \in Handler, NEW x \in Session, Fill(h, x)
      PROVE  Inv'
  BY <1>2, StagesWrite, StagesInv, BeginSynthesisInv, OtherInv DEF Fill
<1>3. ASSUME NEW h \in Handler, Serve(h)
      PROVE  Inv'
  BY <1>2, <1>3, CreateAndDeleteInv, WriteInv, PublishInv, CompleteInv, ReturnInv, HandoffInv, OtherInv
     DEF Serve
<1>4. QED
  BY <1>1, <1>3, InviteInv, OtherInv DEF Next

LEMMA AlwaysInv == Spec => []Inv
  BY InitInv, InvInductive, PTL DEF Spec

(* ElicitationService, AuthService: whatever requests overlap, every       *)
(* column holds a value of its type.                                       *)
THEOREM TypeCorrect == Spec => []TypeOK
<1>1. Inv => TypeOK
  BY DEF Inv
<1>2. QED
  BY <1>1, AlwaysInv, PTL

(* ElicitationService.handleGatePassed: whatever requests overlap, and     *)
(* wherever one stops, a COMPLETED session has published its project.      *)
THEOREM CompletedIsPublished == Spec => []CompletedHasProject
<1>1. Inv => CompletedHasProject
  BY DEF Inv
<1>2. QED
  BY <1>1, AlwaysInv, PTL

-----------------------------------------------------------------------------
(* One request at a time: what a request read is what it finds when it     *)
(* writes.                                                                 *)
OneAtATime == \A g, h \in Handler : g = h

Agrees(r) ==
  /\ r.op \notin {"idle", "create"} => Exists(r.x)
  /\ r.op = "write" => Coherent(With(session[r.x], r.columns))
  /\ r.op = "synthesis" => r.row = session[r.x] /\ r.row.stage = 5
  /\ r.op \in {"synthesis", "complete", "link"} =>
       (session[r.x].tech \in Account => r.submitter = session[r.x].tech)

(* The tech team of a COMPLETED session is linked, or is about to be.      *)
Linked == \A x \in Session :
  session[x].state = "COMPLETED" /\ session[x].tech \in Account /\ OnlySession(x)
  /\ ~ interrupted
  => \/ profile[session[x].tech] = x
     \/ \E h \in Handler : request[h].op = "link" /\ request[h].x = x

SerialInv == /\ Inv /\ StagesBuildOnEachOther /\ Linked
             /\ \A h \in Handler : Agrees(request[h])

NobodyLinks == \A h \in Handler : request[h].op # "link"

LEMMA SerialStep ==
  ASSUME OneAtATime, Inv, Inv', StagesBuildOnEachOther', Linked',
         NEW h \in Handler, NEW r, Becomes(h, r), Agrees(r)'
  PROVE  SerialInv'
<1>1. request'[h] = r /\ \A g \in Handler : g = h
  BY DEF Inv, Requests, Becomes, OneAtATime
<1>2. Agrees(request[h])'
  BY <1>1
<1>3. QED
  BY <1>1, <1>2 DEF SerialInv

(* Nothing becomes COMPLETED, and no link is lost.                         *)
LEMMA StillLinked ==
  ASSUME Linked, NobodyLinks, RowsOK,
         NEW x \in Session, NEW row \in Row \cup {Deleted},
         session' = [session EXCEPT ![x] = row],
         row.state = "COMPLETED" => session[x].state = "COMPLETED" /\ row.tech = session[x].tech,
         UNCHANGED <<profile, interrupted>>
  PROVE  Linked'
<1>1. row # NoSession
  BY DEF Row, SessionState, NoSession, Deleted
<1>2. ASSUME NEW y \in Session, OnlySession(y)'
      PROVE  OnlySession(y)
  BY <1>1, <1>2 DEF OnlySession, RowsOK
<1>3. ASSUME NEW y \in Session, session'[y].state = "COMPLETED"
      PROVE  session[y].state = "COMPLETED" /\ session'[y].tech = session[y].tech
  BY <1>3 DEF RowsOK
<1>4. QED
  BY <1>2, <1>3 DEF Linked, NobodyLinks

LEMMA SameRows ==
  ASSUME Linked, StagesBuildOnEachOther, NobodyLinks, UNCHANGED <<session, profile, interrupted>>
  PROVE  Linked' /\ StagesBuildOnEachOther'
  BY DEF Linked, StagesBuildOnEachOther, NobodyLinks, OnlySession, Exists

LEMMA StillCoherent ==
  ASSUME StagesBuildOnEachOther, RowsOK, NEW x \in Session, NEW row,
         session' = [session EXCEPT ![x] = row], row # Deleted => Coherent(row)
  PROVE  StagesBuildOnEachOther'
<1>1. ASSUME NEW y \in Session, Exists(y)'
      PROVE  Coherent(session'[y])
  <2>1. CASE y = x
    BY <1>1, <2>1 DEF RowsOK, Exists
  <2>2. CASE y # x
    BY <1>1, <2>2 DEF RowsOK, Exists, StagesBuildOnEachOther
  <2>3. QED
    BY <2>1, <2>2
<1>2. QED
  BY <1>1 DEF StagesBuildOnEachOther

(* What is known of the session of a request that has started.             *)
LEMMA OfRequest ==
  ASSUME SerialInv, NEW h \in Handler, request[h].op \notin {"idle", "create"}
  PROVE  /\ request[h].x \in Session /\ session[request[h].x] \in Row
         /\ Coherent(session[request[h].x])
         /\ Agrees(request[h]) /\ RequestOK(request[h])
  BY Typed DEF SerialInv, StagesBuildOnEachOther, Agrees, Requests, RequestOK

LEMMA OnlyOne ==
  ASSUME OneAtATime, NEW h \in Handler, request[h].op # "link"
  PROVE  NobodyLinks
  BY DEF OneAtATime, NobodyLinks

-----------------------------------------------------------------------------
LEMMA WriteSerial ==
  ASSUME OneAtATime, SerialInv, Inv', NEW h \in Handler, Write(h)
  PROVE  SerialInv'
<1>0. PICK columns : columns = request[h].columns
  OBVIOUS
<1>1. PICK x \in Session :
        /\ x = request[h].x /\ columns = request[h].columns /\ Fits(columns)
        /\ session[x] \in Row /\ Coherent(With(session[x], columns))
  BY <1>0, OfRequest DEF Write, RequestOK, Agrees
<1>2. PICK row \in Row : row = With(session[x], columns)
  BY <1>1, WithRow
<1>3. row.state = "COMPLETED" => session[x].state = "COMPLETED" /\ row.tech = session[x].tech
  BY <1>1, <1>2, WithRow DEF Row, Fits
<1>4. session' = [session EXCEPT ![x] = row]
  BY <1>1, <1>2 DEF Write
<1>5. RowsOK /\ NobodyLinks
  BY Typed, OnlyOne DEF SerialInv, Write
<1>6. Linked'
  BY <1>3, <1>4, <1>5, StillLinked DEF SerialInv, Write
<1>7. StagesBuildOnEachOther'
  BY <1>1, <1>2, <1>4, <1>5, StillCoherent DEF SerialInv
<1>8. Agrees(Idle)'
  BY DEF Agrees, Idle
<1>9. QED
  BY <1>6, <1>7, <1>8, SerialStep DEF Write, Ends, SerialInv

(* A request that starts and only reads.                                   *)
LEMMA StartsSerial ==
  ASSUME OneAtATime, SerialInv, Inv', NEW h \in Handler, NEW r, Starts(h, r), Agrees(r),
         UNCHANGED <<session, profile, interrupted>>
  PROVE  SerialInv'
<1>1. NobodyLinks
  BY OnlyOne DEF Starts, Idle
<1>2. Linked' /\ StagesBuildOnEachOther'
  BY <1>1, SameRows DEF SerialInv
<1>3. Agrees(r)'
  BY DEF Agrees, Exists
<1>4. QED
  BY <1>2, <1>3, SerialStep DEF Starts, Becomes, SerialInv

LEMMA StagesSerial ==
  ASSUME OneAtATime, SerialInv, Inv', NEW h \in Handler, NEW x \in Session, WillWrite(h, x)
  PROVE  SerialInv'
<1>1. PICK columns : /\ Writes(h, x, columns) /\ session[x] \in Row
                     /\ Coherent(session[x]) => Coherent(With(session[x], columns))
  BY DEF WillWrite
<1>2. Exists(x)
  BY <1>1 DEF Exists, Row, SessionState, NoSession, Deleted
<1>3. PICK r : r = [op |-> "write", x |-> x, columns |-> columns]
  OBVIOUS
<1>4. Agrees(r)
  BY <1>1, <1>2, <1>3 DEF Agrees, SerialInv, StagesBuildOnEachOther
<1>5. QED
  BY <1>1, <1>3, <1>4, StartsSerial DEF Writes

LEMMA BeginSynthesisSerial ==
  ASSUME OneAtATime, SerialInv, Inv', NEW h \in Handler, NEW x \in Session, BeginSynthesis(h, x)
  PROVE  SerialInv'
<1>1. PICK old \in Row : old = session[x] /\ Coherent(old) /\ old.stage \in {4, 5}
  BY Typed DEF BeginSynthesis, AtStage, SerialInv, StagesBuildOnEachOther
<1>2. PICK row : row = [old EXCEPT !.stage = 5]
  OBVIOUS
<1>3. /\ row \in Row /\ Coherent(row) /\ row.stage = 5
      /\ row.state = old.state /\ row.tech = old.tech
  <2>1. 5 \in 1..5
    OBVIOUS
  <2>2. row \in Row /\ row.stage = 5 /\ row.state = old.state /\ row.tech = old.tech
    BY <1>2, <2>1 DEF Row
  <2>3. Coherent(row)
    BY <1>1, <1>2 DEF Coherent, Row
  <2>4. QED
    BY <2>2, <2>3
<1>4. session' = [session EXCEPT ![x] = row]
  BY <1>1, <1>2 DEF BeginSynthesis
<1>5. RowsOK /\ NobodyLinks
  BY Typed, OnlyOne DEF SerialInv, BeginSynthesis, Idle
<1>6. Linked'
  <2>1. row \in Row \cup {Deleted} /\ Linked /\ UNCHANGED <<profile, interrupted>>
    BY <1>3 DEF SerialInv, BeginSynthesis
  <2>2. row.state = "COMPLETED" => session[x].state = "COMPLETED" /\ row.tech = session[x].tech
    BY <1>1, <1>3
  <2>3. QED
    BY <1>4, <1>5, <2>1, <2>2, StillLinked
<1>7. StagesBuildOnEachOther'
  BY <1>3, <1>4, <1>5, StillCoherent DEF SerialInv
<1>8. session'[x] = row
  BY <1>4, <1>5 DEF RowsOK
<1>9. \E r : Becomes(h, r) /\ Agrees(r)'
  <2>1. CASE UNCHANGED request
    <3>1. Becomes(h, Idle)
      BY <2>1 DEF BeginSynthesis, Becomes, SerialInv, Inv, Requests
    <3>2. Agrees(Idle)'
      BY DEF Agrees, Idle
    <3>3. QED
      BY <3>1, <3>2
  <2>2. CASE Starts(h, [op |-> "synthesis", x |-> x, row |-> session'[x], submitter |-> Submitter(x)])
    <3>1. PICK submitter : submitter = Submitter(x)
      OBVIOUS
    <3>2. old.tech \in Account => submitter = old.tech
      BY <1>1, <3>1, SubmitterFound
    <3>3. PICK r : r = [op |-> "synthesis", x |-> x, row |-> row, submitter |-> submitter]
      OBVIOUS
    <3>4. row \notin {NoSession, Deleted}
      BY <1>3 DEF Row, SessionState, NoSession, Deleted
    <3>5. Agrees(r)'
      BY <1>3, <1>8, <3>2, <3>3, <3>4 DEF Agrees, Exists
    <3>6. Becomes(h, r)
      BY <1>8, <2>2, <3>1, <3>3 DEF Starts, Becomes
    <3>7. QED
      BY <3>5, <3>6
  <2>3. QED
    BY <2>1, <2>2 DEF BeginSynthesis
<1>10. QED
  BY <1>6, <1>7, <1>9, SerialStep DEF SerialInv

LEMMA PublishSerial ==
  ASSUME OneAtATime, SerialInv, Inv', NEW h \in Handler, PublishProject(h)
  PROVE  SerialInv'
<1>1. PICK x \in Session, submitter \in Maybe(Account) :
        /\ x = request[h].x /\ submitter = request[h].submitter /\ Exists(x)
        /\ session[x].tech \in Account => submitter = session[x].tech
  BY OfRequest DEF PublishProject, Agrees, RequestOK
<1>2. PICK r : r = [op |-> "complete", x |-> x, submitter |-> submitter]
  OBVIOUS
<1>3. Becomes(h, r) /\ UNCHANGED <<session, profile, interrupted>>
  BY <1>1, <1>2 DEF PublishProject
<1>4. Agrees(r)'
  BY <1>1, <1>2, <1>3 DEF Agrees, Exists
<1>5. Linked' /\ StagesBuildOnEachOther'
  BY <1>3, OnlyOne, SameRows DEF SerialInv, PublishProject
<1>6. QED
  BY <1>3, <1>4, <1>5, SerialStep DEF SerialInv

LEMMA CompleteSerial ==
  ASSUME OneAtATime, SerialInv, Inv', NEW h \in Handler, CompleteSession(h)
  PROVE  SerialInv'
<1>1. PICK x \in Session, old \in Row, submitter \in Maybe(Account) :
        /\ x = request[h].x /\ submitter = request[h].submitter
        /\ old = session[x] /\ Coherent(old)
        /\ old.tech \in Account => submitter = old.tech
  BY OfRequest DEF CompleteSession, Agrees, RequestOK
<1>2. PICK row : row = [old EXCEPT !.state = "COMPLETED"]
  OBVIOUS
<1>3. row \in Row /\ Coherent(row) /\ row.tech = old.tech
  BY <1>1, <1>2 DEF Row, SessionState, Coherent
<1>4. session' = [session EXCEPT ![x] = row]
  BY <1>1, <1>2 DEF CompleteSession
<1>5. RowsOK /\ NobodyLinks
  BY Typed, OnlyOne DEF SerialInv, CompleteSession
<1>6. StagesBuildOnEachOther'
  BY <1>3, <1>4, <1>5, StillCoherent DEF SerialInv
<1>7. session'[x] = row /\ \A y \in Session \ {x} : session'[y] = session[y]
  BY <1>4, <1>5 DEF RowsOK
<1>8. row \notin {NoSession, Deleted}
  BY <1>3 DEF Row, SessionState, NoSession, Deleted
<1>9. ASSUME NEW y \in Session \ {x}
      PROVE  ~ OnlySession(y)'
  BY <1>7, <1>8 DEF OnlySession
<1>10. CASE submitter = None
  <2>1. row.tech \notin Account
    BY <1>1, <1>3, <1>10, ConstantsOK DEF ConstantsOK, None
  <2>2. Linked'
    BY <1>7, <1>9, <2>1 DEF Linked
  <2>3. Agrees(Idle)' /\ Becomes(h, Idle)
    BY <1>1, <1>10 DEF Agrees, Idle, CompleteSession, Ends
  <2>4. QED
    BY <1>6, <2>2, <2>3, SerialStep DEF SerialInv
<1>11. CASE submitter # None
  <2>1. request[h] = [op |-> "complete", x |-> x, submitter |-> submitter]
    BY <1>1, OfRequest DEF RequestOK, CompleteSession
  <2>2. PICK r : r = [op |-> "link", x |-> x, submitter |-> submitter]
    OBVIOUS
  <2>3. Becomes(h, r)
    BY <1>1, <1>11, <2>1, <2>2 DEF CompleteSession
  <2>4. Agrees(r)'
    BY <1>1, <1>3, <1>7, <1>8, <2>2 DEF Agrees, Exists
  <2>5. request'[h] = r
    BY <2>3 DEF Becomes, SerialInv, Inv, Requests
  <2>6. request'[h].op = "link" /\ request'[h].x = x
    BY <2>2, <2>5
  <2>7. Linked'
    BY <1>9, <2>6 DEF Linked
  <2>8. QED
    BY <1>6, <2>3, <2>4, <2>7, SerialStep DEF SerialInv
<1>12. QED
  BY <1>10, <1>11

LEMMA LinkSerial ==
  ASSUME OneAtATime, SerialInv, Inv', NEW h \in Handler, LinkTechTeam(h)
  PROVE  SerialInv'
<1>1. PICK x \in Session, a \in Account :
        /\ x = request[h].x /\ a = request[h].submitter /\ Exists(x)
        /\ session[x].tech \in Account => a = session[x].tech
  BY OfRequest DEF LinkTechTeam, Agrees, RequestOK
<1>2. profile' = [profile EXCEPT ![a] = x] /\ UNCHANGED <<session, interrupted>>
  BY <1>1 DEF LinkTechTeam
<1>3. profile \in [Account -> {None, "UNLINKED"} \cup Session]
  BY Typed DEF SerialInv, RowsOK
<1>4. ASSUME NEW y \in Session, OnlySession(y), session[y].tech \in Account,
             session[y].state = "COMPLETED", ~ interrupted
      PROVE  profile'[session[y].tech] = y
  <2>1. y = x
    BY <1>1, <1>4 DEF OnlySession, Exists
  <2>2. QED
    BY <1>1, <1>2, <1>3, <1>4, <2>1
<1>5. Linked' /\ StagesBuildOnEachOther'
  BY <1>2, <1>4 DEF Linked, StagesBuildOnEachOther, SerialInv, OnlySession, Exists
<1>6. Agrees(Idle)' /\ Becomes(h, Idle)
  BY DEF Agrees, Idle, LinkTechTeam, Ends
<1>7. QED
  BY <1>5, <1>6, SerialStep DEF SerialInv

LEMMA ReturnSerial ==
  ASSUME OneAtATime, SerialInv, Inv', NEW h \in Handler, ReturnSession(h)
  PROVE  SerialInv'
<1>1. PICK x \in Session, old \in Row :
        /\ x = request[h].x /\ old = session[x] /\ Coherent(old)
        /\ request[h].row = old /\ old.stage = 5
  BY OfRequest DEF ReturnSession, Agrees
<1>2. PICK stage \in 1..5 :
        session' = [session EXCEPT ![x] = With(@, [state |-> "RETURNED", stage |-> stage])]
  <2>1. ReturnStages(old) \subseteq 1..5
    BY DEF ReturnStages, Row
  <2>2. QED
    BY <1>1, <2>1 DEF ReturnSession
<1>3. PICK columns : columns = [state |-> "RETURNED", stage |-> stage]
  OBVIOUS
<1>4. Fits(columns)
  BY <1>3 DEF Fits, SessionState
<1>5. PICK row \in Row : row = With(old, columns)
  BY <1>4, WithRow
<1>6. session' = [session EXCEPT ![x] = row]
  BY <1>1, <1>2, <1>3, <1>5
<1>7. /\ row.state = "RETURNED" /\ row.stage = stage /\ row.text = old.text
      /\ row.archetype = old.archetype /\ row.recommended = old.recommended
      /\ row.probes = old.probes
  BY <1>3, <1>4, <1>5, WithRow DEF Row
<1>8. Coherent(row)
  BY <1>1, <1>7 DEF Coherent
<1>9. RowsOK /\ NobodyLinks
  BY Typed, OnlyOne DEF SerialInv, ReturnSession
<1>10. Linked'
  <2>1. row \in Row \cup {Deleted} /\ Linked /\ UNCHANGED <<profile, interrupted>>
    BY DEF SerialInv, ReturnSession
  <2>2. row.state # "COMPLETED"
    BY <1>7
  <2>3. QED
    BY <1>6, <1>9, <2>1, <2>2, StillLinked
<1>11. StagesBuildOnEachOther'
  BY <1>6, <1>8, <1>9, StillCoherent DEF SerialInv
<1>12. Agrees(Idle)' /\ Becomes(h, Idle)
  BY DEF Agrees, Idle, ReturnSession, Ends
<1>13. QED
  BY <1>10, <1>11, <1>12, SerialStep DEF SerialInv

LEMMA HandoffSerial ==
  ASSUME OneAtATime, SerialInv, Inv', NEW h \in Handler, CommitHandoff(h)
  PROVE  SerialInv'
<1>1. PICK x \in Session, a \in Account, old \in Row :
        /\ x = request[h].x /\ a = request[h].account /\ old = session[x]
        /\ Coherent(old) /\ Exists(x)
  BY OfRequest DEF CommitHandoff, RequestOK, Agrees
<1>2. PICK row : row = [old EXCEPT !.consumed = TRUE]
  OBVIOUS
<1>3. /\ row \in Row /\ Coherent(row) /\ row.tech = old.tech /\ row.state = old.state
      /\ row \notin {NoSession, Deleted}
  <2>1. row \in Row /\ row.tech = old.tech /\ row.state = old.state
    BY <1>2 DEF Row
  <2>2. Coherent(row)
    BY <1>1, <1>2 DEF Row, Coherent
  <2>3. row \notin {NoSession, Deleted}
    BY <2>1 DEF Row, NoSession, Deleted, SessionState
  <2>4. QED
    BY <2>1, <2>2, <2>3
<1>4. session' = [session EXCEPT ![x] = row]
  BY <1>1, <1>2 DEF CommitHandoff
<1>5. RowsOK /\ NobodyLinks
  BY Typed, OnlyOne DEF SerialInv, CommitHandoff
<1>6. StagesBuildOnEachOther'
  BY <1>3, <1>4, <1>5, StillCoherent DEF SerialInv
<1>7. session'[x] = row /\ \A y \in Session \ {x} : session'[y] = session[y]
  BY <1>4, <1>5 DEF RowsOK
<1>8. PICK link : profile' = [profile EXCEPT ![a] = link] /\ (project[x] # NoProject => link = x)
  BY <1>1 DEF CommitHandoff
<1>9. ASSUME NEW y \in Session, OnlySession(y)', session'[y].tech \in Account,
             session'[y].state = "COMPLETED", ~ interrupted'
      PROVE  profile'[session'[y].tech] = y
  <2>1. y = x
    BY <1>3, <1>7, <1>9 DEF OnlySession
  <2>2. OnlySession(x) /\ old.state = "COMPLETED" /\ old.tech \in Account /\ ~ interrupted
    BY <1>3, <1>7, <1>9, <2>1 DEF OnlySession, CommitHandoff
  <2>3. profile[old.tech] = x
    BY <1>1, <1>5, <2>2 DEF SerialInv, Linked, NobodyLinks
  <2>4. link = x
    BY <1>1, <1>8, <2>2, Typed DEF SerialInv, CompletedHasProject
  <2>5. QED
    BY <1>3, <1>5, <1>7, <1>8, <2>1, <2>2, <2>3, <2>4 DEF RowsOK
<1>10. Linked'
  BY <1>9 DEF Linked
<1>11. Agrees(Idle)' /\ Becomes(h, Idle)
  BY DEF Agrees, Idle, CommitHandoff, Ends
<1>12. QED
  BY <1>6, <1>10, <1>11, SerialStep DEF SerialInv

LEMMA CreateAndDeleteSerial ==
  ASSUME OneAtATime, SerialInv, Inv', NEW h \in Handler,
         CommitCreateSession(h) \/ CommitDeleteSession(h)
  PROVE  SerialInv'
<1>1. PICK x \in Session, row \in Row \cup {Deleted} :
        /\ session' = [session EXCEPT ![x] = row]
        /\ row.state # "COMPLETED" /\ (row # Deleted => Coherent(row))
  <2>1. CASE CommitCreateSession(h)
    <3>1. PICK row : row = Fresh
      OBVIOUS
    <3>2. row \in Row /\ row.state # "COMPLETED" /\ Coherent(row)
      BY <3>1, ConstantsOK DEF Fresh, Row, SessionState, ConstantsOK, Coherent
    <3>3. QED
      BY <2>1, <3>1, <3>2 DEF CommitCreateSession
  <2>2. CASE CommitDeleteSession(h)
    <3>1. request[h].x \in Session
      BY <2>2, OfRequest DEF CommitDeleteSession
    <3>2. Deleted.state # "COMPLETED"
      BY DEF Deleted
    <3>3. QED
      BY <2>2, <3>1, <3>2 DEF CommitDeleteSession
  <2>3. QED
    BY <2>1, <2>2
<1>2. RowsOK /\ NobodyLinks
  BY Typed, OnlyOne DEF SerialInv, CommitCreateSession, CommitDeleteSession
<1>3. UNCHANGED <<profile, interrupted>>
  BY DEF CommitCreateSession, CommitDeleteSession
<1>4. Linked'
  BY <1>1, <1>2, <1>3, StillLinked DEF SerialInv
<1>5. StagesBuildOnEachOther'
  BY <1>1, <1>2, StillCoherent DEF SerialInv
<1>6. Agrees(Idle)' /\ Becomes(h, Idle)
  BY DEF Agrees, Idle, CommitCreateSession, CommitDeleteSession, Ends
<1>7. QED
  BY <1>4, <1>5, <1>6, SerialStep DEF SerialInv

LEMMA StopSerial ==
  ASSUME OneAtATime, SerialInv, Inv', NEW h \in Handler, Stop(h)
  PROVE  SerialInv'
<1>1. Agrees(Idle)' /\ Becomes(h, Idle)
  BY DEF Agrees, Idle, Stop, Ends
<1>2. UNCHANGED <<session, profile>>
  BY DEF Stop
<1>3. Linked'
  <2>1. CASE request[h].op = "link"
    BY <2>1 DEF Stop, Linked
  <2>2. CASE request[h].op # "link"
    <3>1. NobodyLinks
      BY <2>2, OnlyOne
    <3>2. ~ interrupted' => ~ interrupted
      BY DEF Stop
    <3>3. QED
      BY <1>2, <3>1, <3>2 DEF SerialInv, Linked, NobodyLinks, OnlySession
  <2>3. QED
    BY <2>1, <2>2
<1>4. StagesBuildOnEachOther'
  BY <1>2 DEF SerialInv, StagesBuildOnEachOther, Exists
<1>5. QED
  BY <1>1, <1>3, <1>4, SerialStep DEF SerialInv

LEMMA InviteSerial ==
  ASSUME OneAtATime, SerialInv, Inv', NEW h \in Handler, request[h] = Idle,
         NEW x \in Session, InviteTechTeam(x)
  PROVE  SerialInv'
<1>1. PICK old \in Row : old = session[x] /\ Coherent(old)
  BY Typed DEF InviteTechTeam, SerialInv, StagesBuildOnEachOther
<1>2. PICK columns : columns = [link |-> old.link + 1, consumed |-> FALSE]
  OBVIOUS
<1>3. Fits(columns)
  BY <1>1, <1>2, ConstantsOK DEF InviteTechTeam, Fits, Row, ConstantsOK
<1>4. PICK row \in Row : row = With(old, columns)
  BY <1>3, WithRow
<1>5. session' = [session EXCEPT ![x] = row]
  BY <1>1, <1>2, <1>4 DEF InviteTechTeam
<1>6. /\ row.state = old.state /\ row.tech = old.tech /\ row.stage = old.stage
      /\ row.text = old.text /\ row.archetype = old.archetype
      /\ row.recommended = old.recommended /\ row.probes = old.probes
  BY <1>2, <1>3, <1>4, WithRow DEF Row
<1>7. Coherent(row)
  BY <1>1, <1>6 DEF Coherent
<1>8. RowsOK /\ NobodyLinks
  BY Typed, OnlyOne DEF SerialInv, Idle
<1>9. Linked'
  <2>1. row \in Row \cup {Deleted} /\ Linked /\ UNCHANGED <<profile, interrupted>>
    BY DEF SerialInv, InviteTechTeam
  <2>2. row.state = "COMPLETED" => session[x].state = "COMPLETED" /\ row.tech = session[x].tech
    BY <1>1, <1>6
  <2>3. QED
    BY <1>5, <1>8, <2>1, <2>2, StillLinked
<1>10. StagesBuildOnEachOther'
  BY <1>5, <1>7, <1>8, StillCoherent DEF SerialInv
<1>11. Agrees(Idle)' /\ Becomes(h, Idle)
  BY DEF Agrees, Idle, InviteTechTeam, Becomes, SerialInv, Inv, Requests
<1>12. QED
  BY <1>9, <1>10, <1>11, SerialStep DEF SerialInv

LEMMA SameSerial ==
  ASSUME SerialInv, Inv', UNCHANGED <<session, profile, interrupted, request>>
  PROVE  SerialInv'
<1>1. Linked' /\ StagesBuildOnEachOther'
  BY DEF SerialInv, Linked, StagesBuildOnEachOther, OnlySession, Exists
<1>2. \A h \in Handler : Agrees(request[h])'
  BY DEF SerialInv, Agrees, Exists
<1>3. QED
  BY <1>1, <1>2 DEF SerialInv

LEMMA BeginSerial ==
  ASSUME OneAtATime, SerialInv, Inv', NEW h \in Handler, NEW x \in Session,
         \/ BeginDeleteSession(h, x)
         \/ \E n \in 1..MaxLinks, a \in Account : BeginHandoff(h, x, n, a)
  PROVE  SerialInv'
<1>1. PICK r : Starts(h, r) /\ r.op \in {"delete", "join"} /\ Exists(r.x)
  <2>1. CASE BeginDeleteSession(h, x)
    <3>1. PICK r : r = [op |-> "delete", x |-> x]
      OBVIOUS
    <3>2. r.op = "delete" /\ r.x = x
      BY <3>1
    <3>3. QED
      BY <2>1, <3>1, <3>2 DEF BeginDeleteSession, MayBeChanged
  <2>2. ASSUME NEW n \in 1..MaxLinks, NEW a \in Account, BeginHandoff(h, x, n, a)
        PROVE  \E r : Starts(h, r) /\ r.op \in {"delete", "join"} /\ Exists(r.x)
    <3>1. PICK r : r = [op |-> "join", x |-> x, link |-> n, account |-> a]
      OBVIOUS
    <3>2. r.op = "join" /\ r.x = x
      BY <3>1
    <3>3. QED
      BY <2>2, <3>1, <3>2 DEF BeginHandoff
  <2>3. QED
    BY <2>1, <2>2
<1>2. Agrees(r)
  BY <1>1 DEF Agrees
<1>3. UNCHANGED <<session, profile, interrupted>>
  BY DEF BeginDeleteSession, BeginHandoff
<1>4. QED
  BY <1>1, <1>2, <1>3, StartsSerial

LEMMA CreateSerial ==
  ASSUME OneAtATime, SerialInv, Inv', NEW h \in Handler, BeginCreateSession(h)
  PROVE  SerialInv'
<1>1. PICK r : r = [op |-> "create"]
  OBVIOUS
<1>2. Agrees(r)
  BY <1>1 DEF Agrees
<1>3. QED
  BY <1>1, <1>2, StartsSerial DEF BeginCreateSession

LEMMA SerialInductive ==
  ASSUME OneAtATime
  PROVE  SerialInv /\ [Next]_vars => SerialInv'
<1> SUFFICES ASSUME SerialInv, [Next]_vars PROVE SerialInv'
  OBVIOUS
<1>1. Inv'
  BY InvInductive DEF SerialInv
<1>2. CASE UNCHANGED vars
  BY <1>1, <1>2, SameSerial DEF vars
<1>3. ASSUME NEW h \in Handler, NEW x \in Session, Fill(h, x)
      PROVE  SerialInv'
  <2>1. Inv
    BY DEF SerialInv
  <2>2. QED
    BY <1>1, <1>3, <2>1, StagesWrite, StagesSerial, BeginSynthesisSerial, BeginSerial DEF Fill
<1>4. ASSUME NEW h \in Handler, Serve(h)
      PROVE  SerialInv'
  BY <1>1, <1>3, <1>4, CreateSerial, CreateAndDeleteSerial, WriteSerial, PublishSerial,
     CompleteSerial, LinkSerial, ReturnSerial, HandoffSerial, StopSerial
     DEF Serve
<1>5. ASSUME NEW h \in Handler, request[h] = Idle, NEW x \in Session,
             InviteTechTeam(x) \/ \E value \in BOOLEAN : SetSelfTechnical(x, value)
      PROVE  SerialInv'
  BY <1>1, <1>5, InviteSerial, SameSerial DEF SetSelfTechnical
<1>6. QED
  BY <1>2, <1>4, <1>5 DEF Next

LEMMA AlwaysSerial ==
  ASSUME OneAtATime
  PROVE  Spec => []SerialInv
<1>1. Init => SerialInv
  <2> SUFFICES ASSUME Init PROVE SerialInv
    OBVIOUS
  <2>1. StagesBuildOnEachOther /\ Linked
    BY DEF Init, StagesBuildOnEachOther, Linked, Exists, NoSession
  <2>2. \A h \in Handler : Agrees(request[h])
    BY DEF Init, Agrees, Idle
  <2>3. QED
    BY <2>1, <2>2, InitInv DEF SerialInv
<1>2. SerialInv /\ [Next]_vars => SerialInv'
  BY SerialInductive
<1>3. QED
  BY <1>1, <1>2, PTL DEF Spec

(* ElicitationService.processStage1 to processStage4, revertSession and    *)
(* handleGateFailed: when requests are served one at a time, going back to *)
(* an earlier stage never leaves a later one built on what has changed.    *)
THEOREM StagesFollow ==
  ASSUME OneAtATime
  PROVE  Spec => []StagesBuildOnEachOther
<1>1. SerialInv => StagesBuildOnEachOther
  BY DEF SerialInv
<1>2. QED
  BY <1>1, AlwaysSerial, PTL

(* ElicitationService.resolveTechTeamUserId and handleGatePassed: when     *)
(* requests are served one at a time and no publication stopped half-way,  *)
(* the tech team that submitted stage 4 of a CEO's only session finds the  *)
(* project it was published as.                                            *)
THEOREM SubmitterIsLinked ==
  ASSUME OneAtATime
  PROVE  Spec => []SubmitterFindsProject
<1>1. SerialInv => SubmitterFindsProject
  BY DEF SerialInv, Linked, SubmitterFindsProject, Idle
<1>2. QED
  BY <1>1, AlwaysSerial, PTL
=============================================================================
