------------------------------ MODULE RowLocks ------------------------------
(***************************************************************************)
(* MilestoneEscrow with the row locks of its transactions.  In PostgreSQL  *)
(* an UPDATE locks its row until the transaction ends, and waits for the   *)
(* transaction that has it.  So a step of MilestoneEscrow that writes      *)
(* several rows takes their locks one by one before it, in the order of    *)
(* the code's statements, and other transactions may lock between them.    *)
(*                                                                         *)
(* Rows that no two transactions lock in a different order are left out: a *)
(* submission is locked first by whoever deletes it, and the rows that are *)
(* inserted are new.  The key locks an INSERT takes on the rows it refers  *)
(* to do not conflict with these updates.                                  *)
(***************************************************************************)
EXTENDS MilestoneEscrow, Sequences, Functions

VARIABLE locked   \* the rows the transaction of each handler holds

CriterionRow(c) == <<"acceptance_criteria", c>>
MilestoneRow(m) == <<"milestones", m>>
EscrowRow(m)    == <<"escrow_accounts", m>>
DisputeRow(d)   == <<"disputes", d>>
EngagementRow   == <<"engagements">>
PlatformWallet  == <<"wallets", "platform">>
ClientWallet    == <<"wallets", "client">>
ExpertWallet    == <<"wallets", "expert">>

-----------------------------------------------------------------------------
(* The rows a transaction locks, in order; one it has already is skipped.  *)
ReleaseExpertFirst(m) ==
  <<PlatformWallet, ExpertWallet, ClientWallet, EscrowRow(m), MilestoneRow(m)>>
ReleaseOrder(m) ==
  <<PlatformWallet, ClientWallet, ExpertWallet, EscrowRow(m), MilestoneRow(m)>>
RefundOrder(m)  == <<ClientWallet, EscrowRow(m), MilestoneRow(m)>>
SplitOrder(m)   == <<ClientWallet, ExpertWallet, EscrowRow(m), MilestoneRow(m)>>

FileOrder(m)    == <<EscrowRow(m), MilestoneRow(m)>>

ReviseOrder(c)     == <<CriterionRow(c), MilestoneRow(MilestoneOf[c])>>

(* The last sign-off approves the milestone first, and then releases its   *)
(* escrow if it finds it HELD.                                             *)
SignOffOrder(h) ==
  LET m == MilestoneOf[request[h].c] IN
    IF ~ Approves(h) THEN <<>>
    ELSE <<MilestoneRow(m)>>
      \o (IF escrow[m] = "HELD" THEN ReleaseOrder(m) ELSE <<>>)
      \o (IF escrow[m] = "HELD" /\ request[h].last THEN <<EngagementRow>> ELSE <<>>)

AwardOrder(h) ==
  LET m == DisputedMilestone(request[h].d) IN
    <<MilestoneRow(m)>> \o (IF request[h].complete THEN ReleaseOrder(m) ELSE <<>>)

(* What h has to lock before its next step, by what it is doing.           *)
Order(h) ==
  LET r == request[h] IN
    CASE r.op \in {"submit", "retract"}       -> <<MilestoneRow(r.m)>>
      [] r.op \in {"techVerify", "ceoVerify"} -> <<CriterionRow(r.c)>>
      [] r.op = "ceoCounted" -> SignOffOrder(h)
      [] r.op = "revise"     -> ReviseOrder(r.c)
      [] r.op = "file"       -> FileOrder(MilestoneOf[r.c])
      [] r.op = "resolve" /\ r.decision = "EXPERT_WINS" ->
           <<CriterionRow(dispute[r.d].criterion), EscrowRow(DisputedMilestone(r.d))>>
      [] r.op = "award"  -> AwardOrder(h) \o <<DisputeRow(r.d)>>
      [] r.op = "refund" -> RefundOrder(DisputedMilestone(r.d)) \o <<DisputeRow(r.d)>>
      [] r.op = "split"  -> SplitOrder(DisputedMilestone(r.d)) \o <<DisputeRow(r.d)>>
      [] OTHER -> <<>>

Missing(h) == SelectSeq(Order(h), LAMBDA row : row \notin locked[h])

Has(g, row) == row \in locked[g]
Free(h, row) == \A g \in Handler \ {h} : ~ Has(g, row)

(* The milestone that h works on.                                          *)
Subject(h) == LET r == request[h] IN
  CASE r.op \in {"submit", "retract"} -> r.m
    [] r.op \in {"techVerify", "ceoVerify", "ceoCounted", "revise", "file"} -> MilestoneOf[r.c]
    [] OTHER -> DisputedMilestone(r.d)

(* h waits for a row that g has locked.                                    *)
WaitsFor(h, g) == Missing(h) # <<>> /\ Has(g, Head(Missing(h)))

-----------------------------------------------------------------------------
LockInit == Init /\ locked = [h \in Handler |-> {}]

Begin(h) == Start(h) /\ UNCHANGED locked

LockRow(h) ==
  /\ Len(Missing(h)) > 1 /\ Free(h, Head(Missing(h)))
  /\ locked' = [locked EXCEPT ![h] = @ \cup {Head(Missing(h))}]
  /\ UNCHANGED vars

(* The last row and the step itself; the locks go when the transaction     *)
(* ends.  The hand-over of a dispute to the admin is a single statement.   *)
Advance(h) ==
  /\ Len(Missing(h)) <= 1 /\ \A row \in Range(Missing(h)) : Free(h, row)
  /\ Continue(h)
  /\ request[h].op = "evaluate" =>
       UNCHANGED dispute \/ Free(h, DisputeRow(request[h].d))
  /\ locked' = [locked EXCEPT ![h] =
       IF request'[h].op \in {"ceoCounted", "award"} THEN @ \cup Range(Missing(h)) ELSE {}]

(* Among the reasons to fail: the database aborts a transaction to break a *)
(* circular wait, and Prisma one that takes too long.  A rejected request  *)
(* holds nothing any more either.                                          *)
Abort(h) == Fail(h) /\ locked' = [locked EXCEPT ![h] = {}]

LockNext == \E h \in Handler : Begin(h) \/ LockRow(h) \/ Advance(h) \/ Abort(h)

LockSpec == LockInit /\ [][LockNext]_<<vars, locked>>

-----------------------------------------------------------------------------
Circle(S) == S # {} /\ \A h \in S : \E g \in S \ {h} : WaitsFor(h, g)

Decides(h) == request[h].op \in {"award", "refund", "split"}

(* Requests about one engagement wait for each other in a circle only over *)
(* one milestone: a final sign-off and a dispute that is filed or decided, *)
(* or two decisions of it, one of them for the expert.  No two reviews do, *)
(* nor do settlements of two milestones, though they share all wallets.    *)
CirclesAreDisputes == \A S \in SUBSET Handler : Circle(S) =>
  /\ \E m \in Milestone : \A h \in S : Subject(h) = m
  /\ \E g, h \in S :
       \/ request[g].op = "ceoCounted" /\ (request[h].op = "file" \/ Decides(h))
       \/ request[g].op = "award" /\ request[h].op \in {"refund", "split"}
=============================================================================
