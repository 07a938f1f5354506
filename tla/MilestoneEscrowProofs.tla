----------------------- MODULE MilestoneEscrowProofs -----------------------
(***************************************************************************)
(* What holds of LedgerArithmetic for every amount and every fee between 0 *)
(* and 1; of MilestoneEscrow for any number of milestones, criteria,       *)
(* disputes and handlers, however requests overlap; and of it, and of its  *)
(* pages, as long as requests are served one at a time.                    *)
(***************************************************************************)
EXTENDS ReviewScreens, RowLocks, TLAPS

(* Integer division by a positive divisor: quotient and remainder.         *)
LEMMA Quotient ==
  ASSUME NEW a \in Int, NEW d \in Nat \ {0}
  PROVE  /\ a \div d \in Int
         /\ d * (a \div d) <= a
         /\ a < d * (a \div d) + d
  BY SMT

(* Rounding gives the integer within half a unit, an exact half going up.  *)
LEMMA RoundHalfUpIsNearest ==
  ASSUME NEW num \in Int, NEW den \in Nat \ {0}
  PROVE  /\ RoundHalfUp(num, den) \in Int
         /\ 2 * den * RoundHalfUp(num, den) <= 2 * num + den
         /\ 2 * num + den < 2 * den * RoundHalfUp(num, den) + 2 * den
  <1>1. 2 * num + den \in Int /\ 2 * den \in Nat \ {0}
    OBVIOUS
  <1>2. QED
    BY <1>1, Quotient DEF RoundHalfUp

(* releaseMilestoneWithTx: with a fee percentage between 0 and 1 neither   *)
(* party's share is negative, and the two shares make up the escrow.       *)
THEOREM FeeWithinTotal ==
  ASSUME NEW total \in Nat, NEW num \in Nat, NEW den \in Nat \ {0}, num <= den
  PROVE  /\ PlatformFee(total, num, den) \in 0 .. total
         /\ ExpertNet(total, num, den) \in 0 .. total
         /\ PlatformFee(total, num, den) + ExpertNet(total, num, den) = total
  <1> DEFINE fee == PlatformFee(total, num, den)
  <1>1. total * num \in Nat /\ total * num <= total * den
    BY SMT
  <1>2. /\ fee \in Int
        /\ 2 * den * fee <= 2 * (total * num) + den
        /\ 2 * (total * num) + den < 2 * den * fee + 2 * den
    BY <1>1, RoundHalfUpIsNearest DEF PlatformFee
  <1>3. fee >= 0
    <2>1. SUFFICES ASSUME fee <= -1 PROVE FALSE
      BY <1>2
    <2>2. den * fee <= - den
      BY <1>2, <2>1
    <2>3. QED
      BY <1>1, <1>2, <2>2
  <1>4. fee <= total
    <2>1. SUFFICES ASSUME fee >= total + 1 PROVE FALSE
      BY <1>2
    <2>2. den * fee >= den * (total + 1)
      BY <1>2, <2>1
    <2>3. den * (total + 1) = total * den + den
      OBVIOUS
    <2>4. QED
      BY <1>1, <1>2, <2>2, <2>3
  <1>5. QED
    BY <1>2, <1>3, <1>4 DEF ExpertNet

(* splitEscrowWithTx: the halves make up the escrow and differ by at most  *)
(* one dong, the odd one going to the expert.                              *)
THEOREM HalvesMakeTotal ==
  ASSUME NEW total \in Nat
  PROVE  /\ ClientHalf(total) \in Nat /\ ExpertHalf(total) \in Nat
         /\ ClientHalf(total) + ExpertHalf(total) = total
         /\ ExpertHalf(total) - ClientHalf(total) \in {0, 1}
  BY Quotient DEF ClientHalf, ExpertHalf

-----------------------------------------------------------------------------
(* However requests overlap.                                               *)

(* The parts an amount is divided into are integers and make it up.        *)
LEMMA Parts ==
  ASSUME NEW m \in Milestone
  PROVE  /\ Amount[m] \in Int /\ Fee(m) \in Int /\ Net(m) \in Int
         /\ Fee(m) + Net(m) = Amount[m]
         /\ ClientHalf(Amount[m]) \in Int /\ ExpertHalf(Amount[m]) \in Int
         /\ ClientHalf(Amount[m]) + ExpertHalf(Amount[m]) = Amount[m]
  <1>1. Amount[m] \in Nat /\ FeeNum \in Nat /\ FeeDen \in Nat \ {0} /\ FeeNum <= FeeDen
    BY ConstantsOK DEF ConstantsOK
  <1>2. /\ Fee(m) \in 0 .. Amount[m] /\ Net(m) \in 0 .. Amount[m]
        /\ Fee(m) + Net(m) = Amount[m]
    BY <1>1, FeeWithinTotal DEF Fee, Net
  <1>3. /\ ClientHalf(Amount[m]) \in Nat /\ ExpertHalf(Amount[m]) \in Nat
        /\ ClientHalf(Amount[m]) + ExpertHalf(Amount[m]) = Amount[m]
    BY <1>1, HalvesMakeTotal
  <1>4. QED
    BY <1>1, <1>2, <1>3

DisputeOps == {"evaluate", "resolve", "award", "refund", "split"}
FiledDispute == [state : OpenState \cup ClosedState, criterion : Criterion]

(* What a handler holds, by the step its request has reached.              *)
LEMMA RequestFields ==
  ASSUME NEW r \in Request
  PROVE  /\ r.op \in {"submit", "retract"} => r.m \in Milestone
         /\ r.op \in {"techVerify", "ceoVerify", "revise", "file", "ceoCounted"} => r.c \in Criterion
         /\ r.op = "ceoCounted" => r.complete \in BOOLEAN /\ r.last \in BOOLEAN
         /\ r.op \in DisputeOps => r.d \in Dispute
         /\ r.op \in {"resolve", "award", "refund", "split"} => r.source \in Source
         /\ r.op = "resolve" => r.decision \in Decision
         /\ r.op = "award" => r.complete \in BOOLEAN
  BY DEF Request, Idle, DisputeOps

-----------------------------------------------------------------------------
(* Every variable has its type, and a request about a dispute names a row  *)
(* that exists.                                                            *)
TypeInv ==
  /\ TypeOK
  /\ \A h \in Handler : request[h].op \in DisputeOps => dispute[request[h].d] \in FiledDispute

(* A request that only reads takes its next step.                          *)
LEMMA ReadStep ==
  ASSUME TypeInv, NEW h \in Handler, NEW r \in Request, Becomes(h, r),
         r.op \in DisputeOps => dispute[r.d] \in FiledDispute,
         UNCHANGED <<milestone, submissions, criterion, dispute, engagement, money>>
  PROVE  TypeInv'
  BY DEF TypeInv, TypeOK, Becomes, money

(* A request ends, having written its rows.                                *)
LEMMA LastStep ==
  ASSUME TypeInv, NEW h \in Handler, Ends(h),
         dispute' \in [Dispute -> {NoDispute} \cup FiledDispute],
         \A d \in Dispute : dispute[d] \in FiledDispute => dispute'[d] \in FiledDispute
  PROVE  /\ request' \in [Handler -> Request]
         /\ \A g \in Handler : request'[g].op \in DisputeOps => dispute'[request'[g].d] \in FiledDispute
  <1>1. Idle \in Request /\ Idle.op \notin DisputeOps
    BY DEF Request, Idle, DisputeOps
  <1>2. request \in [Handler -> Request]
    BY DEF TypeInv, TypeOK
  <1>3. request' = [request EXCEPT ![h] = Idle]
    BY DEF Ends, Becomes
  <1>4. ASSUME NEW g \in Handler, request'[g].op \in DisputeOps
        PROVE  dispute'[request'[g].d] \in FiledDispute
    <2>1. request'[g] = request[g]
      BY <1>1, <1>2, <1>3, <1>4
    <2>2. request[g].d \in Dispute
      BY <1>2, <1>4, <2>1, RequestFields
    <2>3. QED
      BY <1>4, <2>1, <2>2 DEF TypeInv
  <1>5. QED
    BY <1>1, <1>2, <1>3, <1>4

WalletRow == [locked : Int, client : Int, expert : Int, platform : Int, outbound : Int]
LedgerRow == [Kind -> Int]

MoneyTyped == /\ milestone \in [Milestone -> MilestoneState]
              /\ escrow \in [Milestone -> EscrowStatus]
              /\ wallet \in [Milestone -> WalletRow]
              /\ ledger \in [Milestone -> LedgerRow]

Conserved(m, w) == w.locked + w.client + w.expert + w.platform + w.outbound = Amount[m]

Booked(w, l) == /\ LockedByRows(l) - w.locked = l.splitExpert
                /\ w.client = l.refund + l.splitClient
                /\ w.expert = l.earned + l.splitExpert - l.withdrawal
                /\ w.platform = l.fee
                /\ w.outbound = l.withdrawal

(* Writing one milestone's rows, the new ones being conserved and booked   *)
(* if the old ones were, keeps the invariants of all.                      *)
LEMMA OneSettled ==
  ASSUME MoneyTyped, NEW m \in Milestone, NEW w \in WalletRow, NEW l \in LedgerRow,
         NEW status \in EscrowStatus,
         Settle(m, status),
         wallet' = [wallet EXCEPT ![m] = w], ledger' = [ledger EXCEPT ![m] = l],
         Conserved(m, wallet[m]) => Conserved(m, w),
         Booked(wallet[m], ledger[m]) => Booked(w, l)
  PROVE  MoneyTyped' /\ (MoneyConserved => MoneyConserved') /\ (BooksBalance => BooksBalance')
  <1>1. MoneyTyped'
    BY DEF MoneyTyped, Settle, MilestoneState
  <1>2. \A n \in Milestone :
          /\ n = m => wallet'[n] = w /\ ledger'[n] = l
          /\ n # m => wallet'[n] = wallet[n] /\ ledger'[n] = ledger[n]
    BY DEF MoneyTyped
  <1>3. MoneyConserved => MoneyConserved'
    BY <1>2 DEF MoneyConserved, Conserved
  <1>4. BooksBalance => BooksBalance'
    <2>1. BooksBalance <=> \A n \in Milestone : Booked(wallet[n], ledger[n])
      BY DEF BooksBalance, Booked, LockedByRows
    <2>2. BooksBalance' <=> \A n \in Milestone : Booked(wallet'[n], ledger'[n])
      BY DEF BooksBalance, Booked, LockedByRows
    <2>3. QED
      BY <1>2, <2>1, <2>2
  <1>5. QED
    BY <1>1, <1>3, <1>4

(* Each way of settling an escrow keeps the types, conserves the money and *)
(* books what it moves.                                                    *)
LEMMA ReleaseStep ==
  ASSUME MoneyTyped, NEW m \in Milestone, Release(m)
  PROVE  MoneyTyped' /\ (MoneyConserved => MoneyConserved') /\ (BooksBalance => BooksBalance')
  <1> DEFINE W(out) == [locked |-> wallet[m].locked - Amount[m], client |-> wallet[m].client + 0,
                        expert |-> wallet[m].expert + (Net(m) - out),
                        platform |-> wallet[m].platform + Fee(m),
                        outbound |-> wallet[m].outbound + out]
             rows(out) == [release |-> Amount[m], fee |-> Fee(m), earned |-> Net(m),
                           withdrawal |-> out]
             L(out) == [k \in Kind |-> IF k \in DOMAIN rows(out) THEN ledger[m][k] + rows(out)[k]
                                                                 ELSE ledger[m][k]]
  <1>1. /\ Amount[m] \in Int /\ Fee(m) \in Int /\ Net(m) \in Int
        /\ Fee(m) + Net(m) = Amount[m]
    BY Parts
  <1>2. PICK out \in {0, Net(m)} :
          /\ wallet' = [wallet EXCEPT ![m] = W(out)]
          /\ ledger' = [ledger EXCEPT ![m] = L(out)]
          /\ Settle(m, "RELEASED")
    BY Zenon DEF Release, Pay, Book
  <1>3. wallet[m] \in WalletRow /\ ledger[m] \in LedgerRow /\ out \in Int
    BY <1>1 DEF MoneyTyped
  <1>4. W(out) \in WalletRow /\ L(out) \in LedgerRow
    BY <1>1, <1>3 DEF WalletRow, LedgerRow, Kind
  <1>5. /\ Conserved(m, wallet[m]) => Conserved(m, W(out))
        /\ Booked(wallet[m], ledger[m]) => Booked(W(out), L(out))
    BY <1>1, <1>3 DEF Conserved, Booked, LockedByRows, WalletRow, LedgerRow, Kind
  <1>6. QED
    <2> HIDE DEF W, L
    <2>1. "RELEASED" \in EscrowStatus
      BY DEF EscrowStatus
    <2>2. QED
      BY <1>2, <1>4, <1>5, <2>1, OneSettled

LEMMA RefundStep ==
  ASSUME MoneyTyped, NEW m \in Milestone, Refund(m)
  PROVE  MoneyTyped' /\ (MoneyConserved => MoneyConserved') /\ (BooksBalance => BooksBalance')
  <1> DEFINE w == [locked |-> wallet[m].locked - Amount[m],
                   client |-> wallet[m].client + Amount[m], expert |-> wallet[m].expert + 0,
                   platform |-> wallet[m].platform + 0, outbound |-> wallet[m].outbound + 0]
             rows == [refund |-> Amount[m]]
             l == [k \in Kind |-> IF k \in DOMAIN rows THEN ledger[m][k] + rows[k]
                                                       ELSE ledger[m][k]]
  <1>1. Amount[m] \in Int
    BY Parts
  <1>2. wallet[m] \in WalletRow /\ ledger[m] \in LedgerRow
    BY DEF MoneyTyped
  <1>3. /\ wallet' = [wallet EXCEPT ![m] = w] /\ ledger' = [ledger EXCEPT ![m] = l]
        /\ Settle(m, "REFUNDED")
    BY DEF Refund, Pay, Book
  <1>4. w \in WalletRow /\ l \in LedgerRow
    BY <1>1, <1>2 DEF WalletRow, LedgerRow, Kind
  <1>5. /\ Conserved(m, wallet[m]) => Conserved(m, w)
        /\ Booked(wallet[m], ledger[m]) => Booked(w, l)
    BY <1>1, <1>2 DEF Conserved, Booked, LockedByRows, WalletRow, LedgerRow, Kind
  <1>6. QED
    <2> HIDE DEF w, l
    <2>1. "REFUNDED" \in EscrowStatus
      BY DEF EscrowStatus
    <2>2. QED
      BY <1>3, <1>4, <1>5, <2>1, OneSettled

LEMMA SplitStep ==
  ASSUME MoneyTyped, NEW m \in Milestone, Split(m)
  PROVE  MoneyTyped' /\ (MoneyConserved => MoneyConserved') /\ (BooksBalance => BooksBalance')
  <1> DEFINE half == ClientHalf(Amount[m])
             rest == ExpertHalf(Amount[m])
             w == [locked |-> wallet[m].locked - Amount[m],
                   client |-> wallet[m].client + half, expert |-> wallet[m].expert + rest,
                   platform |-> wallet[m].platform + 0, outbound |-> wallet[m].outbound + 0]
             rows == [splitClient |-> half, splitExpert |-> rest]
             l == [k \in Kind |-> IF k \in DOMAIN rows THEN ledger[m][k] + rows[k]
                                                       ELSE ledger[m][k]]
  <1>1. Amount[m] \in Int /\ half \in Int /\ rest \in Int /\ half + rest = Amount[m]
    BY Parts
  <1>2. wallet[m] \in WalletRow /\ ledger[m] \in LedgerRow
    BY DEF MoneyTyped
  <1>3. /\ wallet' = [wallet EXCEPT ![m] = w] /\ ledger' = [ledger EXCEPT ![m] = l]
        /\ Settle(m, "SPLIT")
    BY DEF Split, Pay, Book
  <1> HIDE DEF half, rest
  <1>4. w \in WalletRow /\ l \in LedgerRow
    BY <1>1, <1>2 DEF WalletRow, LedgerRow, Kind
  <1>5. /\ Conserved(m, wallet[m]) => Conserved(m, w)
        /\ Booked(wallet[m], ledger[m]) => Booked(w, l)
    BY <1>1, <1>2 DEF Conserved, Booked, LockedByRows, WalletRow, LedgerRow, Kind
  <1>6. QED
    <2> HIDE DEF w, l
    <2>1. "SPLIT" \in EscrowStatus
      BY DEF EscrowStatus
    <2>2. QED
      BY <1>3, <1>4, <1>5, <2>1, OneSettled

-----------------------------------------------------------------------------
(* The invariant that every step preserves, however requests overlap.      *)
Inv == TypeInv /\ MoneyConserved /\ BooksBalance

Kept == (MoneyConserved => MoneyConserved') /\ (BooksBalance => BooksBalance')

LEMMA MoneyUntouched ==
  ASSUME UNCHANGED <<wallet, ledger>>
  PROVE  Kept
  BY DEF Kept, MoneyConserved, BooksBalance

(* A request that has written its rows and ended, or become an evaluation. *)
LEMMA WriteStep ==
  ASSUME Inv, NEW h \in Handler, Ends(h),
         MoneyTyped', Kept,
         submissions' \in [Milestone -> Nat],
         criterion' \in [Criterion -> [tech : BOOLEAN, ceo : BOOLEAN, verified : BOOLEAN]],
         engagement' \in {"ACTIVE", "CLOSED"},
         dispute' \in [Dispute -> {NoDispute} \cup FiledDispute],
         \A d \in Dispute : dispute[d] \in FiledDispute => dispute'[d] \in FiledDispute
  PROVE  Inv'
  <1>1. TypeInv /\ MoneyConserved /\ BooksBalance
    BY DEF Inv
  <1>2. /\ request' \in [Handler -> Request]
        /\ \A g \in Handler : request'[g].op \in DisputeOps => dispute'[request'[g].d] \in FiledDispute
    BY <1>1, LastStep
  <1>3. TypeInv'
    BY <1>2 DEF TypeInv, TypeOK, MoneyTyped, WalletRow, LedgerRow, FiledDispute
  <1>4. QED
    BY <1>1, <1>3 DEF Inv, Kept

LEMMA Typed ==
  ASSUME Inv
  PROVE  /\ MoneyTyped
         /\ submissions \in [Milestone -> Nat]
         /\ criterion \in [Criterion -> [tech : BOOLEAN, ceo : BOOLEAN, verified : BOOLEAN]]
         /\ engagement \in {"ACTIVE", "CLOSED"}
         /\ dispute \in [Dispute -> {NoDispute} \cup FiledDispute]
         /\ request \in [Handler -> Request]
         /\ \A h \in Handler : request[h].op \in DisputeOps => dispute[request[h].d] \in FiledDispute
  BY DEF Inv, TypeInv, TypeOK, MoneyTyped, WalletRow, LedgerRow, FiledDispute

LEMMA InvReadStep ==
  ASSUME Inv, NEW h \in Handler, NEW r \in Request, Becomes(h, r),
         r.op \in DisputeOps => dispute[r.d] \in FiledDispute,
         UNCHANGED <<milestone, submissions, criterion, dispute, engagement, money>>
  PROVE  Inv'
  <1>1. TypeInv'
    BY ReadStep DEF Inv
  <1>2. Kept
    BY MoneyUntouched DEF money
  <1>3. QED
    BY <1>1, <1>2 DEF Inv, Kept

(* An open dispute, or one a request is about, has its row.                *)
LEMMA OpenIsFiled ==
  ASSUME Inv, NEW d \in Dispute, IsOpen(d)
  PROVE  dispute[d] \in FiledDispute
  BY Typed DEF IsOpen, OpenState, NoDispute

LEMMA DisputeFields ==
  ASSUME Inv, NEW h \in Handler, request[h].op \in DisputeOps
  PROVE  /\ request[h].d \in Dispute
         /\ dispute[request[h].d] \in FiledDispute
         /\ dispute[request[h].d].criterion \in Criterion
         /\ DisputedMilestone(request[h].d) \in Milestone
  <1>1. request[h].d \in Dispute /\ dispute[request[h].d] \in FiledDispute
    BY Typed, RequestFields
  <1>2. dispute[request[h].d].criterion \in Criterion
    BY <1>1 DEF FiledDispute
  <1>3. QED
    BY <1>1, <1>2, ConstantsOK DEF ConstantsOK, DisputedMilestone

LEMMA ResolvedDispute ==
  ASSUME Inv, NEW h \in Handler, request[h].op \in DisputeOps, Resolved(h)
  PROVE  /\ dispute' \in [Dispute -> {NoDispute} \cup FiledDispute]
         /\ \A d \in Dispute : dispute[d] \in FiledDispute => dispute'[d] \in FiledDispute
  <1> DEFINE s == IF request[h].source = "ADMIN" THEN "RESOLVED" ELSE "AUTO_RESOLVED"
  <1>1. s \in ClosedState
    BY DEF ClosedState
  <1>2. dispute' = [dispute EXCEPT ![request[h].d] = [dispute[request[h].d] EXCEPT !.state = s]]
    BY DEF Resolved
  <1>3. [dispute[request[h].d] EXCEPT !.state = s] \in FiledDispute
    BY <1>1, DisputeFields DEF FiledDispute
  <1>4. QED
    BY <1>2, <1>3, Typed, DisputeFields

-----------------------------------------------------------------------------
LEMMA InitInv == Init => Inv
  <1> SUFFICES ASSUME Init PROVE Inv
    OBVIOUS
  <1>1. \A m \in Milestone : Amount[m] \in Int
    BY Parts
  <1>2. TypeOK
    BY <1>1 DEF Init, TypeOK, MilestoneState, EscrowStatus, Unreviewed, Request, Kind
  <1>3. \A h \in Handler : request[h].op \notin DisputeOps
    BY DEF Init, Idle, DisputeOps
  <1>4. MoneyConserved
    BY <1>1 DEF Init, MoneyConserved
  <1>5. BooksBalance
    BY <1>1 DEF Init, BooksBalance, LockedByRows, Kind
  <1>6. QED
    BY <1>2, <1>3, <1>4, <1>5 DEF Inv, TypeInv

(* The first step of a request reads what its guards need.                 *)
LEMMA StartInv ==
  ASSUME Inv, NEW h \in Handler, Start(h)
  PROVE  Inv'
  <1> USE DEF Starts, Becomes, DisputeOps, Request
  <1>1. ASSUME NEW m \in Milestone, BeginSubmit(h, m) \/ BeginRetract(h, m)
        PROVE  Inv'
    <2> DEFINE r(op) == [op |-> op, m |-> m]
    <2>1. PICK op \in {"submit", "retract"} :
            Becomes(h, r(op)) /\ UNCHANGED <<milestone, submissions, criterion, dispute, engagement, money>>
      BY <1>1 DEF BeginSubmit, BeginRetract
    <2>2. r(op) \in Request /\ r(op).op \notin DisputeOps
      OBVIOUS
    <2>3. QED
      BY <2>1, <2>2, InvReadStep
  <1>2. ASSUME NEW c \in Criterion,
               BeginTechVerify(h, c) \/ BeginCeoVerify(h, c) \/ BeginRevise(h, c) \/ BeginFile(h, c)
        PROVE  Inv'
    <2> DEFINE r(op) == [op |-> op, c |-> c]
    <2>1. PICK op \in {"techVerify", "ceoVerify", "revise", "file"} :
            Becomes(h, r(op)) /\ UNCHANGED <<milestone, submissions, criterion, dispute, engagement, money>>
      BY <1>2 DEF BeginTechVerify, BeginCeoVerify, BeginRevise, BeginFile
    <2>2. r(op) \in Request /\ r(op).op \notin DisputeOps
      OBVIOUS
    <2>3. QED
      BY <2>1, <2>2, InvReadStep
  <1>3. ASSUME NEW d \in Dispute, NEW decision \in Decision, BeginResolve(h, d, decision)
        PROVE  Inv'
    <2> DEFINE r == [op |-> "resolve", d |-> d, source |-> "ADMIN", decision |-> decision]
    <2>1. r \in Request /\ r.d = d
      BY DEF Source
    <2>2. dispute[d] \in FiledDispute
      BY <1>3, OpenIsFiled DEF BeginResolve
    <2>3. Becomes(h, r) /\ UNCHANGED <<milestone, submissions, criterion, dispute, engagement, money>>
      BY <1>3 DEF BeginResolve
    <2>4. QED
      BY <2>1, <2>2, <2>3, InvReadStep
  <1>4. QED
    BY <1>1, <1>2, <1>3 DEF Start

(* The steps of a request that only read.                                  *)
LEMMA ReadOnlyInv ==
  ASSUME Inv, NEW h \in Handler,
         \/ CountSignOffs(h)
         \/ \E decision \in {"EXPERT_WINS", "CLIENT_WINS"} : EvaluationConfident(h, decision)
         \/ CountForExpert(h) \/ ReadFrozen(h) \/ Fail(h)
  PROVE  Inv'
  <1>1. CASE CountSignOffs(h)
    <2>1. PICK complete, last \in BOOLEAN :
            /\ Becomes(h, [op |-> "ceoCounted", c |-> request[h].c,
                           complete |-> complete, last |-> last])
            /\ UNCHANGED <<milestone, submissions, criterion, dispute, engagement, money>>
      BY <1>1 DEF CountSignOffs, OthersApproved
    <2> DEFINE r == [op |-> "ceoCounted", c |-> request[h].c, complete |-> complete, last |-> last]
    <2>2. request[h].c \in Criterion
      BY <1>1, Typed, RequestFields DEF CountSignOffs
    <2>3. r \in Request /\ r.op \notin DisputeOps
      BY <2>2 DEF Request, DisputeOps
    <2>4. QED
      BY <2>1, <2>3, InvReadStep
  <1>2. ASSUME NEW decision \in {"EXPERT_WINS", "CLIENT_WINS"}, EvaluationConfident(h, decision)
        PROVE  Inv'
    <2> DEFINE r == [op |-> "resolve", d |-> request[h].d, source |-> "AI", decision |-> decision]
    <2>1. request[h].d \in Dispute /\ dispute[request[h].d] \in FiledDispute
      BY <1>2, DisputeFields DEF EvaluationConfident, DisputeOps
    <2>2. r \in Request /\ dispute[r.d] \in FiledDispute
      BY <2>1 DEF Request, Source, Decision
    <2>3. QED
      BY <1>2, <2>2, InvReadStep DEF EvaluationConfident
  <1>3. CASE CountForExpert(h)
    <2>1. PICK complete \in BOOLEAN :
            /\ Becomes(h, [op |-> "award", d |-> request[h].d, source |-> request[h].source,
                           complete |-> complete])
            /\ UNCHANGED <<milestone, submissions, criterion, dispute, engagement, money>>
      BY <1>3 DEF CountForExpert
    <2> DEFINE r == [op |-> "award", d |-> request[h].d, source |-> request[h].source,
                     complete |-> complete]
    <2>2. /\ request[h].d \in Dispute /\ dispute[request[h].d] \in FiledDispute
          /\ request[h].source \in Source
      BY <1>3, DisputeFields, Typed, RequestFields DEF CountForExpert, DisputeOps
    <2>3. r \in Request /\ dispute[r.d] \in FiledDispute
      BY <2>2 DEF Request
    <2>4. QED
      BY <2>1, <2>3, InvReadStep
  <1>4. CASE ReadFrozen(h)
    <2>1. PICK op \in {"refund", "split"} :
            /\ Becomes(h, [op |-> op, d |-> request[h].d, source |-> request[h].source])
            /\ UNCHANGED <<milestone, submissions, criterion, dispute, engagement, money>>
      BY <1>4 DEF ReadFrozen
    <2> DEFINE r == [op |-> op, d |-> request[h].d, source |-> request[h].source]
    <2>2. /\ request[h].d \in Dispute /\ dispute[request[h].d] \in FiledDispute
          /\ request[h].source \in Source
      BY <1>4, DisputeFields, Typed, RequestFields DEF ReadFrozen, DisputeOps
    <2>3. r \in Request /\ dispute[r.d] \in FiledDispute
      BY <2>2 DEF Request
    <2>4. QED
      BY <2>1, <2>3, InvReadStep
  <1>5. CASE Fail(h)
    <2>1. Idle \in Request /\ Idle.op \notin DisputeOps
      BY DEF Request, Idle, DisputeOps
    <2>2. Becomes(h, Idle) /\ UNCHANGED <<milestone, submissions, criterion, dispute, engagement, money>>
      BY <1>5 DEF Fail, Ends
    <2>3. QED
      BY <2>1, <2>2, InvReadStep
  <1>6. QED
    BY <1>1, <1>2, <1>3, <1>4, <1>5

(* The steps that write milestones, submissions and criteria, no money.    *)
LEMMA ReviewInv ==
  ASSUME Inv, NEW h \in Handler,
         \/ CommitSubmit(h) \/ CommitRetract(h) \/ CommitTechVerify(h)
         \/ CommitPartialSignOff(h) \/ CommitRevise(h) \/ EvaluationUnsure(h) \/ CommitAward(h)
  PROVE  Inv'
  <1>1. Kept
    BY MoneyUntouched DEF CommitSubmit, CommitRetract, CommitTechVerify, CommitPartialSignOff,
       CommitRevise, EvaluationUnsure, CommitAward, money
  <1>2. CASE CommitSubmit(h)
    <2>1. request[h].m \in Milestone
      BY <1>2, Typed, RequestFields DEF CommitSubmit
    <2>2. MoneyTyped' /\ submissions' \in [Milestone -> Nat]
      BY <1>2, <2>1, Typed DEF CommitSubmit, MoneyTyped, MilestoneState, money
    <2>3. QED
      BY <1>1, <1>2, <2>2, Typed, WriteStep DEF CommitSubmit
  <1>3. CASE CommitRetract(h)
    <2>1. request[h].m \in Milestone
      BY <1>3, Typed, RequestFields DEF CommitRetract
    <2>2. MoneyTyped' /\ submissions' \in [Milestone -> Nat]
      BY <1>3, <2>1, Typed DEF CommitRetract, MoneyTyped, MilestoneState, money
    <2>3. QED
      BY <1>1, <1>3, <2>2, Typed, WriteStep DEF CommitRetract
  <1>4. CASE CommitTechVerify(h)
    <2>1. request[h].c \in Criterion
      BY <1>4, Typed, RequestFields DEF CommitTechVerify
    <2>2. /\ MoneyTyped'
          /\ criterion' \in [Criterion -> [tech : BOOLEAN, ceo : BOOLEAN, verified : BOOLEAN]]
      BY <1>4, <2>1, Typed DEF CommitTechVerify, MoneyTyped, money
    <2>3. QED
      BY <1>1, <1>4, <2>2, Typed, WriteStep DEF CommitTechVerify
  <1>5. CASE CommitPartialSignOff(h)
    <2>1. request[h].c \in Criterion
      BY <1>5, Typed, RequestFields DEF CommitPartialSignOff
    <2>2. /\ MoneyTyped'
          /\ criterion' \in [Criterion -> [tech : BOOLEAN, ceo : BOOLEAN, verified : BOOLEAN]]
      BY <1>5, <2>1, Typed DEF CommitPartialSignOff, SignOff, MoneyTyped, money
    <2>3. QED
      BY <1>1, <1>5, <2>2, Typed, WriteStep DEF CommitPartialSignOff
  <1>6. CASE CommitRevise(h)
    <2>1. request[h].c \in Criterion
      BY <1>6, Typed, RequestFields DEF CommitRevise
    <2>2. MilestoneOf[request[h].c] \in Milestone
      BY <2>1, ConstantsOK DEF ConstantsOK
    <2>3. /\ MoneyTyped'
          /\ criterion' \in [Criterion -> [tech : BOOLEAN, ceo : BOOLEAN, verified : BOOLEAN]]
      BY <1>6, <2>1, <2>2, Typed DEF CommitRevise, Unreviewed, MoneyTyped, MilestoneState, money
    <2>4. QED
      BY <1>1, <1>6, <2>3, Typed, WriteStep DEF CommitRevise
  <1>7. CASE EvaluationUnsure(h)
    <2> DEFINE row == [dispute[request[h].d] EXCEPT !.state = "MANUAL_REVIEW"]
    <2>1. request[h].d \in Dispute /\ dispute[request[h].d] \in FiledDispute
      BY <1>7, DisputeFields DEF EvaluationUnsure, DisputeOps
    <2>2. row \in FiledDispute
      BY <2>1 DEF FiledDispute, OpenState
    <2>3. dispute' = [dispute EXCEPT ![request[h].d] = row]
      BY <1>7 DEF EvaluationUnsure
    <2>4. /\ dispute' \in [Dispute -> {NoDispute} \cup FiledDispute]
          /\ \A d \in Dispute : dispute[d] \in FiledDispute => dispute'[d] \in FiledDispute
      BY <2>1, <2>2, <2>3, Typed
    <2>5. MoneyTyped'
      BY <1>7, Typed DEF EvaluationUnsure, MoneyTyped, money
    <2>6. QED
      BY <1>1, <1>7, <2>4, <2>5, Typed, WriteStep DEF EvaluationUnsure
  <1>8. CASE CommitAward(h)
    <2>1. request[h].op \in DisputeOps
      BY <1>8 DEF CommitAward, DisputeOps
    <2>2. dispute[request[h].d].criterion \in Criterion
      BY <2>1, DisputeFields
    <2>3. MilestoneOf[dispute[request[h].d].criterion] \in Milestone
      BY <2>2, ConstantsOK DEF ConstantsOK
    <2>4. MoneyTyped'
      BY <1>8, <2>3, Typed DEF CommitAward, MoneyTyped, MilestoneState, EscrowStatus
    <2>5. criterion' \in [Criterion -> [tech : BOOLEAN, ceo : BOOLEAN, verified : BOOLEAN]]
      BY <1>8, <2>2, Typed DEF CommitAward, AwardCriterion
    <2>6. QED
      BY <1>1, <1>8, <2>1, <2>4, <2>5, Typed, ResolvedDispute, WriteStep DEF CommitAward
  <1>9. QED
    BY <1>2, <1>3, <1>4, <1>5, <1>6, <1>7, <1>8

(* The steps that settle an escrow.                                        *)
LEMMA SettlementInv ==
  ASSUME Inv, NEW h \in Handler,
         \/ CommitFinalSignOff(h) \/ CommitAwardAndRelease(h) \/ CommitRefund(h) \/ CommitSplit(h)
  PROVE  Inv'
  <1>1. CASE CommitFinalSignOff(h)
    <2>1. request[h].c \in Criterion
      BY <1>1, Typed, RequestFields DEF CommitFinalSignOff
    <2>2. MilestoneOf[request[h].c] \in Milestone
      BY <2>1, ConstantsOK DEF ConstantsOK
    <2>3. MoneyTyped' /\ Kept
      BY <1>1, <2>2, Typed, ReleaseStep DEF CommitFinalSignOff, Kept
    <2>4. criterion' \in [Criterion -> [tech : BOOLEAN, ceo : BOOLEAN, verified : BOOLEAN]]
      BY <1>1, <2>1, Typed DEF CommitFinalSignOff, SignOff
    <2>5. engagement' \in {"ACTIVE", "CLOSED"}
      BY <1>1, Typed DEF CommitFinalSignOff
    <2>6. /\ Ends(h) /\ submissions' = submissions /\ dispute' = dispute
      BY <1>1 DEF CommitFinalSignOff
    <2>7. QED
      BY <2>3, <2>4, <2>5, <2>6, Typed, WriteStep
  <1>2. CASE CommitAwardAndRelease(h)
    <2>1. request[h].op \in DisputeOps
      BY <1>2 DEF CommitAwardAndRelease, DisputeOps
    <2>2. dispute[request[h].d].criterion \in Criterion
      BY <2>1, DisputeFields
    <2>3. MilestoneOf[dispute[request[h].d].criterion] \in Milestone
      BY <2>2, ConstantsOK DEF ConstantsOK
    <2>4. MoneyTyped' /\ Kept
      BY <1>2, <2>3, Typed, ReleaseStep DEF CommitAwardAndRelease, Kept
    <2>5. criterion' \in [Criterion -> [tech : BOOLEAN, ceo : BOOLEAN, verified : BOOLEAN]]
      BY <1>2, <2>2, Typed DEF CommitAwardAndRelease, AwardCriterion
    <2>6. QED
      BY <1>2, <2>1, <2>4, <2>5, Typed, ResolvedDispute, WriteStep DEF CommitAwardAndRelease
  <1>3. CASE CommitRefund(h) \/ CommitSplit(h)
    <2>1. request[h].op \in DisputeOps
      BY <1>3 DEF CommitRefund, CommitSplit, DisputeOps
    <2>2. MoneyTyped' /\ Kept
      BY <1>3, <2>1, DisputeFields, Typed, RefundStep, SplitStep DEF CommitRefund, CommitSplit, Kept
    <2>3. /\ Ends(h) /\ Resolved(h) /\ submissions' = submissions
          /\ criterion' = criterion /\ engagement' = engagement
      BY <1>3 DEF CommitRefund, CommitSplit
    <2>4. QED
      BY <2>1, <2>2, <2>3, Typed, ResolvedDispute, WriteStep
  <1>4. QED
    BY <1>1, <1>2, <1>3

(* The dispute is filed and its request goes on to evaluate it.            *)
LEMMA FileInv ==
  ASSUME Inv, NEW h \in Handler, CommitFile(h)
  PROVE  Inv'
  <1>1. request[h].c \in Criterion
    BY Typed, RequestFields DEF CommitFile
  <1>2. MilestoneOf[request[h].c] \in Milestone
    BY <1>1, ConstantsOK DEF ConstantsOK
  <1>3. PICK d \in Dispute :
          /\ dispute' = [dispute EXCEPT ![d] = [state |-> "LAYER_1_EVAL", criterion |-> request[h].c]]
          /\ request' = [request EXCEPT ![h] = [op |-> "evaluate", d |-> d]]
    BY DEF CommitFile, Becomes
  <1>4. [state |-> "LAYER_1_EVAL", criterion |-> request[h].c] \in FiledDispute
    BY <1>1 DEF FiledDispute, OpenState
  <1>5. /\ dispute' \in [Dispute -> {NoDispute} \cup FiledDispute] /\ dispute'[d] \in FiledDispute
        /\ \A e \in Dispute : dispute[e] \in FiledDispute => dispute'[e] \in FiledDispute
    BY <1>3, <1>4, Typed
  <1>6. [op |-> "evaluate", d |-> d] \in Request
    BY DEF Request
  <1>7. request' \in [Handler -> Request]
    BY <1>3, <1>6, Typed
  <1>8. ASSUME NEW g \in Handler, request'[g].op \in DisputeOps
        PROVE  dispute'[request'[g].d] \in FiledDispute
    <2>1. CASE g = h
      BY <1>3, <1>5, <2>1, Typed
    <2>2. CASE g # h
      <3>1. request'[g] = request[g]
        BY <1>3, <2>2, Typed
      <3>2. request[g].d \in Dispute /\ dispute[request[g].d] \in FiledDispute
        BY <1>8, <3>1, DisputeFields
      <3>3. QED
        BY <1>5, <3>1, <3>2
    <2>3. QED
      BY <2>1, <2>2
  <1>9. MoneyTyped'
    BY <1>2, Typed DEF CommitFile, MoneyTyped, MilestoneState, EscrowStatus
  <1>10. Kept
    BY MoneyUntouched DEF CommitFile
  <1>11. TypeInv'
    BY <1>5, <1>7, <1>8, <1>9, Typed
       DEF CommitFile, TypeInv, TypeOK, MoneyTyped, WalletRow, LedgerRow, FiledDispute
  <1>12. QED
    BY <1>10, <1>11 DEF Inv, Kept

-----------------------------------------------------------------------------
LEMMA InvInductive == Inv /\ [Next]_vars => Inv'
  <1> SUFFICES ASSUME Inv, [Next]_vars PROVE Inv'
    OBVIOUS
  <1>1. ASSUME NEW h \in Handler, Start(h) \/ Continue(h) \/ Fail(h)
        PROVE  Inv'
    <2>1. CASE Start(h)
      BY <2>1, StartInv
    <2>2. CASE Continue(h)
      BY <2>2, ReadOnlyInv, ReviewInv, SettlementInv, FileInv DEF Continue
    <2>3. CASE Fail(h)
      BY <2>3, ReadOnlyInv
    <2>4. QED
      BY <1>1, <2>1, <2>2, <2>3
  <1>2. CASE UNCHANGED vars
    BY <1>2 DEF vars, Inv, TypeInv, TypeOK, MoneyConserved, BooksBalance
  <1>3. QED
    BY <1>1, <1>2 DEF Next

LEMMA SpecInv == Spec => []Inv
  BY InitInv, InvInductive, PTL DEF Spec

(* Whatever the engagement and however its requests overlap, every column  *)
(* keeps its type and no request is about a dispute that does not exist.   *)
THEOREM TypeCorrect == Spec => []TypeOK
  <1>1. Inv => TypeOK
    BY DEF Inv, TypeInv
  <1>2. QED
    BY <1>1, SpecInv, PTL

(* No settlement creates or destroys money, even one that overlaps another *)
(* settlement of the same escrow.                                          *)
THEOREM MoneyIsConserved == Spec => []MoneyConserved
  <1>1. Inv => MoneyConserved
    BY DEF Inv
  <1>2. QED
    BY <1>1, SpecInv, PTL

(* Every balance stays what the rows of its own wallet say, the locked one *)
(* of the client up to the expert's half of a split.                       *)
THEOREM BooksAlwaysBalance == Spec => []BooksBalance
  <1>1. Inv => BooksBalance
    BY DEF Inv
  <1>2. QED
    BY <1>1, SpecInv, PTL

(* Row locks only delay: with them every step is one of MilestoneEscrow or *)
(* leaves its variables alone, so all that is proved of Spec holds.        *)
THEOREM LocksOnlyDelay == LockSpec => Spec
  <1>1. LockInit => Init
    BY DEF LockInit
  <1>2. [LockNext]_<<vars, locked>> => [Next]_vars
    <2>1. ASSUME NEW h \in Handler, Begin(h) \/ Advance(h) \/ Abort(h)
          PROVE  Next
      BY <2>1 DEF Begin, Advance, Abort, Next
    <2>2. ASSUME NEW h \in Handler, LockRow(h)
          PROVE  UNCHANGED vars
      BY <2>2 DEF LockRow
    <2>3. QED
      BY <2>1, <2>2 DEF LockNext
  <1>3. QED
    BY <1>1, <1>2, PTL DEF LockSpec, Spec

-----------------------------------------------------------------------------
(* One request at a time: the states of milestone, escrow, dispute and     *)
(* engagement agree, and each escrow is settled as AbstractEscrow promises *)

OneAtATime == \A g, h \in Handler : g = h

Settled == {"RELEASED", "REFUNDED", "SPLIT"}

-----------------------------------------------------------------------------
(* Milestone, escrow and open disputes tell the same story.                *)
Agrees(m) ==
  /\ escrow[m] = "FROZEN" <=> milestone[m] = "DISPUTED"
  /\ escrow[m] = "FROZEN" <=> OpenDisputes(m) # {}
  /\ \A d, e \in OpenDisputes(m) : d = e
  /\ milestone[m] = "APPROVED" <=> escrow[m] \in Settled

Accepted(m) == escrow[m] = "RELEASED" => \A c \in RequiredOf(m) : criterion[c].verified

(* Nobody has received anything from an escrow that is not settled.        *)
Unpaid(m) == escrow[m] \notin Settled =>
  /\ wallet[m].client = 0 /\ wallet[m].expert = 0
  /\ wallet[m].platform = 0 /\ wallet[m].outbound = 0

RowsAgree == \A m \in Milestone : Agrees(m) /\ Accepted(m) /\ Unpaid(m)

SignedIsVerified == \A c \in Criterion : criterion[c].ceo => criterion[c].verified

(* What a request has read still holds when it takes its next step.        *)
Holds(r) ==
  /\ r.op = "submit" => milestone[r.m] \in {"FUNDED", "IN_PROGRESS", "IN_REVISION"}
  /\ r.op = "retract" => milestone[r.m] = "SUBMITTED"
  /\ r.op \in {"techVerify", "ceoVerify", "ceoCounted", "revise"} =>
       milestone[MilestoneOf[r.c]] = "SUBMITTED"
  /\ r.op = "file" => milestone[MilestoneOf[r.c]] \in {"SUBMITTED", "IN_REVISION"}
  /\ r.op = "ceoCounted" /\ r.complete =>
       \A k \in RequiredOf(MilestoneOf[r.c]) \ {r.c} : criterion[k].ceo
  /\ r.op = "ceoCounted" /\ r.last => OthersApproved(MilestoneOf[r.c])
  /\ r.op \in DisputeOps => IsOpen(r.d)
  /\ r.op = "award" /\ r.complete =>
       \A k \in RequiredOf(DisputedMilestone(r.d)) \ {dispute[r.d].criterion} :
         criterion[k].verified

Rows == RowsAgree /\ SignedIsVerified /\ ClosedMeansSettled

Serial == Inv /\ Rows /\ \A h \in Handler : Holds(request[h])

-----------------------------------------------------------------------------
LEMMA SerialInit == Init => Serial
<1> SUFFICES ASSUME Init PROVE Serial
  OBVIOUS
<1>1. Inv
  BY InitInv
<1>2. \A m \in Milestone : OpenDisputes(m) = {}
  BY DEF Init, OpenDisputes, IsOpen, NoDispute, OpenState
<1>3. RowsAgree
  BY <1>2 DEF Init, RowsAgree, Agrees, Accepted, Unpaid, Settled
<1>4. SignedIsVerified /\ ClosedMeansSettled
  BY DEF Init, SignedIsVerified, Unreviewed, ClosedMeansSettled
<1>5. \A h \in Handler : Holds(request[h])
  BY DEF Init, Holds, Idle, DisputeOps
<1>6. QED
  BY <1>1, <1>3, <1>4, <1>5 DEF Serial, Rows

(* The shapes of the rows and of the one request in progress.              *)
LEMMA Shapes ==
  ASSUME Serial
  PROVE  /\ milestone \in [Milestone -> MilestoneState]
         /\ escrow \in [Milestone -> EscrowStatus]
         /\ criterion \in [Criterion -> [tech : BOOLEAN, ceo : BOOLEAN, verified : BOOLEAN]]
         /\ dispute \in [Dispute -> {NoDispute} \cup FiledDispute]
         /\ request \in [Handler -> Request]
         /\ wallet \in [Milestone -> WalletRow]
         /\ MilestoneOf \in [Criterion -> Milestone]
  BY Typed, ConstantsOK DEF Serial, MoneyTyped, ConstantsOK

(* A request that only reads: what it remembers next is what it has read.  *)
LEMMA SerialRead ==
  ASSUME OneAtATime, Serial, Inv', NEW h \in Handler, NEW r, Becomes(h, r), Holds(r),
         UNCHANGED <<milestone, submissions, criterion, dispute, engagement, money>>
  PROVE  Serial'
<1>1. \A g \in Handler : request'[g] = r
  BY Shapes DEF OneAtATime, Becomes
<1>2. \A g \in Handler : Holds(request[g])'
  BY <1>1 DEF Holds, OthersApproved, IsOpen, DisputedMilestone
<1>3. Rows'
  BY DEF Serial, Rows, RowsAgree, Agrees, Accepted, Unpaid, OpenDisputes, IsOpen,
     DisputedMilestone, SignedIsVerified, ClosedMeansSettled, money
<1>4. QED
  BY <1>2, <1>3 DEF Serial

(* A request that ends remembers nothing.                                  *)
LEMMA SerialEnds ==
  ASSUME OneAtATime, Serial, Inv', Rows', NEW h \in Handler, Ends(h)
  PROVE  Serial'
<1>1. \A g \in Handler : request'[g] = Idle
  BY Shapes DEF OneAtATime, Ends, Becomes
<1>2. \A g \in Handler : Holds(request[g])'
  BY <1>1 DEF Holds, Idle, DisputeOps
<1>3. QED
  BY <1>2 DEF Serial

(* A step that concerns one milestone leaves the agreement of the others.  *)
LEMMA OneRow ==
  ASSUME Serial, NEW m \in Milestone,
         \A n \in Milestone \ {m} :
           /\ milestone'[n] = milestone[n] /\ escrow'[n] = escrow[n] /\ wallet'[n] = wallet[n]
           /\ OpenDisputes(n)' = OpenDisputes(n)
           /\ \A c \in RequiredOf(n) : criterion[c].verified => criterion'[c].verified,
         Agrees(m)', Accepted(m)', Unpaid(m)'
  PROVE  RowsAgree'
<1>1. ASSUME NEW n \in Milestone, n # m
      PROVE  (Agrees(n) /\ Accepted(n) /\ Unpaid(n))'
  <2>1. Agrees(n) /\ Accepted(n) /\ Unpaid(n)
    BY DEF Serial, Rows, RowsAgree
  <2>2. Agrees(n)'
    BY <1>1, <2>1 DEF Agrees
  <2>3. Accepted(n)' /\ Unpaid(n)'
    BY <1>1, <2>1 DEF Accepted, Unpaid
  <2>4. QED
    BY <2>2, <2>3
<1>2. QED
  BY <1>1 DEF RowsAgree

(* An engagement stays as it is while an escrow that is open is written.   *)
LEMMA ClosedKept ==
  ASSUME Serial, engagement' = engagement, NEW m \in Milestone,
         escrow[m] \notin Settled \/ escrow'[m] \in Settled,
         \A n \in Milestone \ {m} : escrow'[n] = escrow[n]
  PROVE  ClosedMeansSettled'
<1>1. CASE engagement = "CLOSED"
  <2>1. \A n \in Milestone : escrow[n] \in Settled
    BY <1>1, Shapes DEF Serial, Rows, ClosedMeansSettled, EscrowStatus, Settled
  <2>2. \A n \in Milestone : escrow'[n] \in Settled
    BY <2>1
  <2>3. QED
    BY <2>2 DEF ClosedMeansSettled, Settled
<1>2. QED
  BY <1>1 DEF ClosedMeansSettled

-----------------------------------------------------------------------------
(* Delivery and review move an undisputed, unsettled milestone about and   *)
(* touch its own criteria only.                                            *)
LEMMA ReviewRows ==
  ASSUME Serial, NEW m \in Milestone, NEW s \in MilestoneState \ {"DISPUTED", "APPROVED"},
         milestone[m] \notin {"DISPUTED", "APPROVED"},
         milestone' = [milestone EXCEPT ![m] = s],
         UNCHANGED <<escrow, dispute, wallet, engagement>>,
         \A c \in Criterion : MilestoneOf[c] # m => criterion'[c] = criterion[c],
         \A c \in Criterion : criterion'[c].ceo => criterion'[c].verified
  PROVE  Rows'
<1>1. Agrees(m) /\ Unpaid(m)
  BY DEF Serial, Rows, RowsAgree
<1>2. \A n \in Milestone : OpenDisputes(n)' = OpenDisputes(n)
  BY DEF OpenDisputes, IsOpen, DisputedMilestone
<1>3. Agrees(m)'
  BY <1>1, <1>2, Shapes DEF Agrees
<1>4. Accepted(m)' /\ Unpaid(m)'
  BY <1>1 DEF Agrees, Accepted, Unpaid, Settled
<1>5. \A n \in Milestone \ {m} :
        /\ milestone'[n] = milestone[n]
        /\ \A c \in RequiredOf(n) : criterion'[c] = criterion[c]
  BY Shapes, ConstantsOK DEF RequiredOf, ConstantsOK
<1>6. RowsAgree'
  BY <1>2, <1>3, <1>4, <1>5, OneRow
<1>7. ClosedMeansSettled'
  BY DEF Serial, Rows, ClosedMeansSettled
<1>8. QED
  BY <1>6, <1>7 DEF Rows, SignedIsVerified

LEMMA SerialReview ==
  ASSUME OneAtATime, Serial, Inv', NEW h \in Handler,
         \/ CommitSubmit(h) \/ CommitRetract(h) \/ CommitTechVerify(h)
         \/ CommitPartialSignOff(h) \/ CommitRevise(h)
  PROVE  Serial'
<1> DEFINE r == request[h]
<1>0. Holds(r) /\ r \in Request
  BY Shapes DEF Serial
<1>1. CASE CommitSubmit(h) \/ CommitRetract(h)
  <2>1. PICK s \in {"SUBMITTED", "IN_PROGRESS"} :
          milestone' = [milestone EXCEPT ![r.m] = s]
    BY <1>1 DEF CommitSubmit, CommitRetract
  <2>2. r.m \in Milestone /\ milestone[r.m] \notin {"DISPUTED", "APPROVED"}
    BY <1>0, <1>1, RequestFields DEF CommitSubmit, CommitRetract, Holds
  <2>3. UNCHANGED <<criterion, escrow, dispute, wallet, engagement>> /\ Ends(h)
    BY <1>1 DEF CommitSubmit, CommitRetract, money
  <2>4. Rows'
    BY <2>1, <2>2, <2>3, ReviewRows DEF Serial, Rows, SignedIsVerified, MilestoneState
  <2>5. QED
    BY <2>3, <2>4, SerialEnds
<1>2. CASE CommitTechVerify(h) \/ CommitPartialSignOff(h) \/ CommitRevise(h)
  <2> DEFINE m == MilestoneOf[r.c]
  <2>1. r.c \in Criterion /\ m \in Milestone /\ milestone[m] = "SUBMITTED"
    BY <1>0, <1>2, RequestFields, Shapes
       DEF CommitTechVerify, CommitPartialSignOff, CommitRevise, Holds
  <2>2. /\ UNCHANGED <<escrow, dispute, wallet, engagement>> /\ Ends(h)
        /\ \/ milestone' = milestone
           \/ milestone' = [milestone EXCEPT ![m] = "IN_REVISION"]
    BY <1>2 DEF CommitTechVerify, CommitPartialSignOff, CommitRevise, money
  <2>3. PICK s \in {"SUBMITTED", "IN_REVISION"} : milestone' = [milestone EXCEPT ![m] = s]
    BY <2>1, <2>2, Shapes
  <2>4. /\ \A c \in Criterion : c # r.c => criterion'[c] = criterion[c]
        /\ criterion'[r.c].ceo => criterion'[r.c].verified
    <3>1. criterion[r.c].ceo => criterion[r.c].verified
      BY <2>1 DEF Serial, Rows, SignedIsVerified
    <3>2. CASE CommitTechVerify(h)
      BY <2>1, <3>1, <3>2, Shapes DEF CommitTechVerify
    <3>3. CASE CommitPartialSignOff(h)
      BY <2>1, <3>3, Shapes DEF CommitPartialSignOff, SignOff
    <3>4. CASE CommitRevise(h)
      BY <2>1, <3>4, Shapes DEF CommitRevise, Unreviewed
    <3>5. QED
      BY <1>2, <3>2, <3>3, <3>4
  <2>5. Rows'
    <3>1. \A c \in Criterion : MilestoneOf[c] # m => criterion'[c] = criterion[c]
      BY <2>4
    <3>2. \A c \in Criterion : criterion'[c].ceo => criterion'[c].verified
      BY <2>4 DEF Serial, Rows, SignedIsVerified
    <3> HIDE DEF m
    <3>3. QED
      BY <2>1, <2>2, <2>3, <3>1, <3>2, ReviewRows DEF MilestoneState
  <2>6. QED
    BY <2>2, <2>5, SerialEnds
<1>3. QED
  BY <1>1, <1>2

-----------------------------------------------------------------------------
(* The one open dispute of a milestone, and the request that decides it.   *)
LEMMA Deciding ==
  ASSUME Serial, NEW h \in Handler, request[h].op \in DisputeOps
  PROVE  LET d == request[h].d
             m == DisputedMilestone(d) IN
           /\ d \in Dispute /\ m \in Milestone /\ IsOpen(d)
           /\ dispute[d].criterion \in Criterion /\ m = MilestoneOf[dispute[d].criterion]
           /\ OpenDisputes(m) = {d}
           /\ escrow[m] = "FROZEN" /\ milestone[m] = "DISPUTED"
<1> DEFINE d == request[h].d
           m == DisputedMilestone(d)
<1>1. d \in Dispute /\ m \in Milestone /\ dispute[d].criterion \in Criterion
  BY DisputeFields DEF Serial
<1>2. IsOpen(d)
  BY DEF Serial, Holds
<1>3. d \in OpenDisputes(m)
  BY <1>1, <1>2 DEF OpenDisputes
<1>4. Agrees(m)
  BY <1>1 DEF Serial, Rows, RowsAgree
<1>5. OpenDisputes(m) = {d}
  BY <1>3, <1>4 DEF Agrees
<1>6. escrow[m] = "FROZEN" /\ milestone[m] = "DISPUTED"
  BY <1>3, <1>4 DEF Agrees
<1>7. QED
  BY <1>1, <1>2, <1>5, <1>6 DEF DisputedMilestone

(* Deciding it leaves its milestone without an open dispute and the others *)
(* with theirs.                                                            *)
LEMMA Decided ==
  ASSUME Serial, NEW h \in Handler, request[h].op \in DisputeOps, Resolved(h),
         NEW m \in Milestone, m = DisputedMilestone(request[h].d)
  PROVE  /\ OpenDisputes(m)' = {}
         /\ \A n \in Milestone \ {m} : OpenDisputes(n)' = OpenDisputes(n)
<1> DEFINE s == IF request[h].source = "ADMIN" THEN "RESOLVED" ELSE "AUTO_RESOLVED"
<1>1. PICK d \in Dispute : d = request[h].d /\ OpenDisputes(m) = {d} /\ IsOpen(d)
  BY Deciding
<1>2. dispute' = [dispute EXCEPT ![d] = [dispute[d] EXCEPT !.state = s]]
  BY <1>1 DEF Resolved
<1>3. dispute[d] \in FiledDispute
  BY <1>1, DisputeFields DEF Serial
<1>4. dispute'[d].state = s /\ dispute'[d].criterion = dispute[d].criterion
  BY <1>1, <1>2, <1>3, Shapes DEF FiledDispute
<1>5. \A e \in Dispute \ {d} : dispute'[e] = dispute[e]
  BY <1>2, Shapes
<1>6. s \notin OpenState
  BY DEF OpenState
<1>7. \A n \in Milestone : OpenDisputes(n)' = OpenDisputes(n) \ {d}
  BY <1>1, <1>4, <1>5, <1>6 DEF OpenDisputes, IsOpen, DisputedMilestone
<1>8. \A n \in Milestone \ {m} : d \notin OpenDisputes(n)
  BY <1>1 DEF OpenDisputes
<1>9. QED
  BY <1>1, <1>7, <1>8

-----------------------------------------------------------------------------
(* Steps that only read.                                                   *)
LEMMA SerialStart ==
  ASSUME OneAtATime, Serial, Inv', NEW h \in Handler, Start(h)
  PROVE  Serial'
<1>1. ASSUME NEW m \in Milestone, BeginSubmit(h, m) \/ BeginRetract(h, m)
      PROVE  Serial'
  <2>1. CASE BeginSubmit(h, m)
    <3>1. Holds([op |-> "submit", m |-> m])
      BY <2>1 DEF BeginSubmit, MaySubmit, Holds, DisputeOps
    <3>2. QED
      BY <2>1, <3>1, SerialRead DEF BeginSubmit, Starts, Becomes
  <2>2. CASE BeginRetract(h, m)
    <3>1. Holds([op |-> "retract", m |-> m])
      BY <2>2 DEF BeginRetract, MayRetract, Holds, DisputeOps
    <3>2. QED
      BY <2>2, <3>1, SerialRead DEF BeginRetract, Starts, Becomes
  <2>3. QED
    BY <1>1, <2>1, <2>2
<1>2. ASSUME NEW c \in Criterion,
             BeginTechVerify(h, c) \/ BeginCeoVerify(h, c) \/ BeginRevise(h, c) \/ BeginFile(h, c)
      PROVE  Serial'
  <2>1. PICK op \in {"techVerify", "ceoVerify", "revise", "file"} :
          /\ Becomes(h, [op |-> op, c |-> c])
          /\ milestone[MilestoneOf[c]] \in
               IF op = "file" THEN {"SUBMITTED", "IN_REVISION"} ELSE {"SUBMITTED"}
          /\ UNCHANGED <<milestone, submissions, criterion, dispute, engagement, money>>
    BY <1>2 DEF BeginTechVerify, BeginCeoVerify, BeginRevise, BeginFile, MayTechVerify,
       MayCeoVerify, MayRevise, MayFile, Starts, Becomes
  <2>2. Holds([op |-> op, c |-> c])
    BY <2>1 DEF Holds, DisputeOps
  <2>3. QED
    BY <2>1, <2>2, SerialRead
<1>3. ASSUME NEW d \in Dispute, NEW decision \in Decision, BeginResolve(h, d, decision)
      PROVE  Serial'
  <2>1. Holds([op |-> "resolve", d |-> d, source |-> "ADMIN", decision |-> decision])
    BY <1>3 DEF BeginResolve, Holds, DisputeOps
  <2>2. QED
    BY <1>3, <2>1, SerialRead DEF BeginResolve, Starts, Becomes
<1>4. QED
  BY <1>1, <1>2, <1>3 DEF Start

LEMMA SerialReadOnly ==
  ASSUME OneAtATime, Serial, Inv', NEW h \in Handler,
         \/ CountSignOffs(h)
         \/ \E decision \in {"EXPERT_WINS", "CLIENT_WINS"} : EvaluationConfident(h, decision)
         \/ CountForExpert(h) \/ ReadFrozen(h) \/ Fail(h)
  PROVE  Serial'
<1> DEFINE r == request[h]
<1>0. Holds(r)
  BY DEF Serial
<1>1. CASE CountSignOffs(h)
  <2>1. PICK complete, last \in BOOLEAN :
          /\ complete <=> \A k \in RequiredOf(MilestoneOf[r.c]) \ {r.c} : criterion[k].ceo
          /\ last <=> OthersApproved(MilestoneOf[r.c])
          /\ Becomes(h, [op |-> "ceoCounted", c |-> r.c, complete |-> complete, last |-> last])
    BY <1>1 DEF CountSignOffs, OthersApproved
  <2>2. Holds([op |-> "ceoCounted", c |-> r.c, complete |-> complete, last |-> last])
    BY <1>0, <1>1, <2>1 DEF CountSignOffs, Holds, DisputeOps
  <2>3. QED
    BY <1>1, <2>1, <2>2, SerialRead DEF CountSignOffs
<1>2. ASSUME NEW decision \in {"EXPERT_WINS", "CLIENT_WINS"}, EvaluationConfident(h, decision)
      PROVE  Serial'
  <2>1. Holds([op |-> "resolve", d |-> r.d, source |-> "AI", decision |-> decision])
    BY <1>2 DEF EvaluationConfident, Holds, DisputeOps
  <2>2. QED
    BY <1>2, <2>1, SerialRead DEF EvaluationConfident
<1>3. CASE CountForExpert(h)
  <2>1. PICK complete \in BOOLEAN :
          /\ complete => \A k \in RequiredOf(DisputedMilestone(r.d)) \ {dispute[r.d].criterion} :
               criterion[k].verified
          /\ Becomes(h, [op |-> "award", d |-> r.d, source |-> r.source, complete |-> complete])
    BY <1>3 DEF CountForExpert, DisputedMilestone
  <2>2. IsOpen(r.d)
    BY <1>0, <1>3 DEF CountForExpert, Holds, DisputeOps
  <2>3. Holds([op |-> "award", d |-> r.d, source |-> r.source, complete |-> complete])
    BY <2>1, <2>2 DEF Holds, DisputeOps
  <2>4. QED
    BY <1>3, <2>1, <2>3, SerialRead DEF CountForExpert
<1>4. CASE ReadFrozen(h)
  <2>1. PICK op \in {"refund", "split"} :
          Becomes(h, [op |-> op, d |-> r.d, source |-> r.source])
    BY <1>4 DEF ReadFrozen
  <2>2. IsOpen(r.d)
    BY <1>0, <1>4 DEF ReadFrozen, Holds, DisputeOps
  <2>3. Holds([op |-> op, d |-> r.d, source |-> r.source])
    BY <2>1, <2>2 DEF Holds, DisputeOps
  <2>4. QED
    BY <1>4, <2>1, <2>3, SerialRead DEF ReadFrozen
<1>5. CASE Fail(h)
  <2>1. Holds(Idle)
    BY DEF Holds, Idle, DisputeOps
  <2>2. QED
    BY <1>5, <2>1, SerialRead DEF Fail, Ends
<1>6. QED
  BY <1>1, <1>2, <1>3, <1>4, <1>5

-----------------------------------------------------------------------------
(* A dispute is filed, handed to the admin, or won by the expert while     *)
(* other criteria remain.                                                  *)
LEMMA SerialFile ==
  ASSUME OneAtATime, Serial, Inv', NEW h \in Handler, CommitFile(h)
  PROVE  Serial'
<1>1. PICK c \in Criterion : c = request[h].c /\ MilestoneOf[c] \in Milestone
  BY Shapes, RequestFields DEF CommitFile
<1> DEFINE m == MilestoneOf[c]
<1>2. PICK d \in Dispute :
        /\ dispute[d] = NoDispute
        /\ dispute' = [dispute EXCEPT ![d] = [state |-> "LAYER_1_EVAL", criterion |-> c]]
        /\ request' = [request EXCEPT ![h] = [op |-> "evaluate", d |-> d]]
  BY <1>1 DEF CommitFile, Becomes, IsFiled
<1>3. /\ escrow' = [escrow EXCEPT ![m] = "FROZEN"]
      /\ milestone' = [milestone EXCEPT ![m] = "DISPUTED"]
      /\ UNCHANGED <<criterion, wallet, engagement>>
  BY <1>1 DEF CommitFile
<1>4. /\ escrow[m] = "HELD" /\ OpenDisputes(m) = {}
      /\ Unpaid(m)
  <2>1. milestone[m] \in {"SUBMITTED", "IN_REVISION"}
    BY <1>1 DEF CommitFile, Serial, Holds
  <2>2. Agrees(m) /\ Unpaid(m)
    BY <1>1 DEF Serial, Rows, RowsAgree
  <2>3. QED
    BY <1>1, <2>1, <2>2, Shapes DEF Agrees, Settled, EscrowStatus
<1>5. dispute'[d] = [state |-> "LAYER_1_EVAL", criterion |-> c] /\ d \notin OpenDisputes(m)
  BY <1>2, <1>4, Shapes
<1>6. \A e \in Dispute \ {d} : dispute'[e] = dispute[e]
  BY <1>2, Shapes
<1> HIDE DEF m
<1>7. /\ OpenDisputes(m)' = {d}
      /\ \A n \in Milestone \ {m} : OpenDisputes(n)' = OpenDisputes(n)
  <2>1. dispute[d].state \notin OpenState
    BY <1>2 DEF NoDispute, OpenState
  <2>2. \A n \in Milestone : OpenDisputes(n)' = IF n = m THEN OpenDisputes(n) \cup {d}
                                                          ELSE OpenDisputes(n)
    BY <1>5, <1>6, <2>1 DEF OpenDisputes, IsOpen, DisputedMilestone, OpenState, m
  <2>3. m \in Milestone
    BY <1>1 DEF m
  <2>4. QED
    BY <1>4, <2>2, <2>3
<1>8. Agrees(m)' /\ Accepted(m)' /\ Unpaid(m)'
  <2>1. escrow'[m] = "FROZEN" /\ milestone'[m] = "DISPUTED" /\ wallet'[m] = wallet[m]
    BY <1>1, <1>3, Shapes DEF m
  <2>2. Agrees(m)'
    BY <1>7, <2>1 DEF Agrees, Settled
  <2>3. Accepted(m)' /\ Unpaid(m)'
    BY <1>4, <2>1 DEF Accepted, Unpaid, Settled
  <2>4. QED
    BY <2>2, <2>3
<1>9. RowsAgree'
  <2>1. \A n \in Milestone \ {m} : milestone'[n] = milestone[n] /\ escrow'[n] = escrow[n]
    BY <1>3, Shapes
  <2>2. m \in Milestone
    BY <1>1 DEF m
  <2>3. QED
    BY <1>3, <1>7, <1>8, <2>1, <2>2, OneRow
<1>10. ClosedMeansSettled'
  <2>1. m \in Milestone /\ \A n \in Milestone \ {m} : escrow'[n] = escrow[n]
    BY <1>1, <1>3, Shapes DEF m
  <2>2. QED
    BY <1>3, <1>4, <2>1, ClosedKept DEF Settled
<1>11. Rows'
  BY <1>3, <1>9, <1>10 DEF Rows, Serial, SignedIsVerified
<1>12. \A g \in Handler : request'[g] = [op |-> "evaluate", d |-> d]
  BY <1>2, Shapes DEF OneAtATime
<1>13. IsOpen(d)'
  BY <1>5 DEF IsOpen, OpenState
<1>14. \A g \in Handler : Holds(request[g])'
  BY <1>12, <1>13 DEF Holds, IsOpen
<1>15. QED
  BY <1>11, <1>14 DEF Serial

LEMMA SerialUnsure ==
  ASSUME OneAtATime, Serial, Inv', NEW h \in Handler, EvaluationUnsure(h)
  PROVE  Serial'
<1>1. PICK d \in Dispute : d = request[h].d /\ IsOpen(d) /\ dispute[d] \in FiledDispute
  BY Deciding, DisputeFields DEF EvaluationUnsure, DisputeOps, Serial
<1>2. /\ dispute' = [dispute EXCEPT ![d] = [dispute[d] EXCEPT !.state = "MANUAL_REVIEW"]]
      /\ UNCHANGED <<milestone, criterion, escrow, wallet, engagement>>
      /\ Ends(h)
  BY <1>1 DEF EvaluationUnsure, money
<1>3. /\ dispute'[d].state = "MANUAL_REVIEW" /\ dispute'[d].criterion = dispute[d].criterion
      /\ \A e \in Dispute \ {d} : dispute'[e] = dispute[e]
  BY <1>1, <1>2, Shapes DEF FiledDispute
<1>4. \A m \in Milestone : OpenDisputes(m)' = OpenDisputes(m)
  BY <1>1, <1>3 DEF OpenDisputes, IsOpen, DisputedMilestone, OpenState
<1>5. Rows'
  BY <1>2, <1>4 DEF Serial, Rows, RowsAgree, Agrees, Accepted, Unpaid, SignedIsVerified,
     ClosedMeansSettled
<1>6. QED
  BY <1>2, <1>5, SerialEnds

LEMMA SerialAward ==
  ASSUME OneAtATime, Serial, Inv', NEW h \in Handler, CommitAward(h)
  PROVE  Serial'
<1>1. request[h].op \in DisputeOps /\ Resolved(h) /\ Ends(h)
  BY DEF CommitAward, DisputeOps
<1>2. PICK m \in Milestone, c \in Criterion :
        /\ m = DisputedMilestone(request[h].d) /\ c = dispute[request[h].d].criterion
        /\ m = MilestoneOf[c] /\ escrow[m] = "FROZEN"
  BY <1>1, Deciding
<1>3. /\ escrow' = [escrow EXCEPT ![m] = "HELD"]
      /\ milestone' = [milestone EXCEPT ![m] = "SUBMITTED"]
      /\ AwardCriterion(c)
      /\ UNCHANGED <<wallet, engagement>>
  BY <1>2 DEF CommitAward
<1>4. /\ OpenDisputes(m)' = {}
      /\ \A n \in Milestone \ {m} : OpenDisputes(n)' = OpenDisputes(n)
  BY <1>1, <1>2, Decided
<1>5. /\ escrow'[m] = "HELD" /\ milestone'[m] = "SUBMITTED"
      /\ \A n \in Milestone \ {m} : milestone'[n] = milestone[n] /\ escrow'[n] = escrow[n]
  BY <1>3, Shapes
<1>6. \A k \in Criterion : /\ criterion[k].verified => criterion'[k].verified
                           /\ criterion'[k].ceo => criterion'[k].verified
  <2>1. criterion'[c].verified /\ \A k \in Criterion \ {c} : criterion'[k] = criterion[k]
    BY <1>3, Shapes DEF AwardCriterion
  <2>2. QED
    BY <2>1 DEF Serial, Rows, SignedIsVerified
<1>7. Agrees(m)'
  BY <1>4, <1>5 DEF Agrees, Settled
<1>8. Accepted(m)' /\ Unpaid(m)'
  BY <1>2, <1>3, <1>5 DEF Serial, Rows, RowsAgree, Accepted, Unpaid, Settled
<1>9. \A n \in Milestone : RequiredOf(n) \subseteq Criterion
  BY ConstantsOK DEF RequiredOf, ConstantsOK
<1>10. RowsAgree'
  BY <1>3, <1>4, <1>5, <1>6, <1>7, <1>8, <1>9, OneRow
<1>11. ClosedMeansSettled'
  BY <1>2, <1>3, <1>5, ClosedKept DEF Settled
<1>12. Rows'
  BY <1>6, <1>10, <1>11 DEF Rows, SignedIsVerified
<1>13. QED
  BY <1>1, <1>12, SerialEnds

-----------------------------------------------------------------------------
(* Settling an escrow writes the rows of its milestone only.               *)
LEMMA SettledRow ==
  ASSUME Serial, NEW m \in Milestone, NEW status \in Settled,
         Settle(m, status),
         \A n \in Milestone \ {m} : wallet'[n] = wallet[n],
         OpenDisputes(m)' = {},
         \A n \in Milestone \ {m} : OpenDisputes(n)' = OpenDisputes(n),
         \A c \in Criterion : criterion[c].verified => criterion'[c].verified,
         status = "RELEASED" => \A c \in RequiredOf(m) : criterion'[c].verified
  PROVE  /\ RowsAgree' /\ escrow'[m] \in Settled
         /\ \A n \in Milestone \ {m} : escrow'[n] = escrow[n]
<1>1. /\ escrow'[m] = status /\ milestone'[m] = "APPROVED"
      /\ \A n \in Milestone \ {m} : milestone'[n] = milestone[n] /\ escrow'[n] = escrow[n]
  BY Shapes DEF Settle
<1>2. Agrees(m)'
  BY <1>1 DEF Agrees, Settled
<1>3. Accepted(m)' /\ Unpaid(m)'
  BY <1>1 DEF Accepted, Unpaid, Settled
<1>4. \A n \in Milestone : RequiredOf(n) \subseteq Criterion
  BY ConstantsOK DEF RequiredOf, ConstantsOK
<1>5. RowsAgree'
  BY <1>1, <1>2, <1>3, <1>4, OneRow
<1>6. QED
  BY <1>1, <1>5 DEF Settled

(* Whichever of the three ways, only the balances of one milestone move.   *)
LEMMA PaidOnlyThere ==
  ASSUME Serial, NEW m \in Milestone, Release(m) \/ Refund(m) \/ Split(m)
  PROVE  /\ \A n \in Milestone \ {m} : wallet'[n] = wallet[n]
         /\ \E status \in Settled : Settle(m, status)
<1>1. PICK client, expert, platform, outbound : Pay(m, client, expert, platform, outbound)
  BY Zenon DEF Release, Refund, Split
<1>2. \A n \in Milestone \ {m} : wallet'[n] = wallet[n]
  BY <1>1, Shapes DEF Pay
<1>3. \E status \in Settled : Settle(m, status)
  BY Zenon DEF Release, Refund, Split, Settled
<1>4. QED
  BY <1>2, <1>3

(* The last sign-off: all required criteria are signed, hence verified.    *)
LEMMA SerialFinalSignOff ==
  ASSUME OneAtATime, Serial, Inv', NEW h \in Handler, CommitFinalSignOff(h)
  PROVE  Serial'
<1>1. PICK c \in Criterion, m \in Milestone :
        /\ c = request[h].c /\ m = MilestoneOf[c]
        /\ Release(m) /\ SignOff(c) /\ Ends(h) /\ dispute' = dispute
        /\ OpenDisputes(m) = {} /\ request[h].complete
        /\ engagement' = IF request[h].last THEN "CLOSED" ELSE engagement
  BY Shapes, RequestFields DEF CommitFinalSignOff, Approves
<1>2. /\ \A k \in RequiredOf(m) \ {c} : criterion[k].ceo
      /\ request[h].last => OthersApproved(m)
  BY <1>1 DEF Serial, Holds, CommitFinalSignOff
<1>3. /\ criterion'[c].verified
      /\ \A k \in Criterion \ {c} : criterion'[k] = criterion[k]
  BY <1>1, Shapes DEF SignOff
<1>4. /\ \A k \in Criterion : criterion[k].verified => criterion'[k].verified
      /\ \A k \in Criterion : criterion'[k].ceo => criterion'[k].verified
  BY <1>3 DEF Serial, Rows, SignedIsVerified
<1>5. \A k \in RequiredOf(m) : k \in Criterion /\ criterion'[k].verified
  BY <1>2, <1>3, ConstantsOK DEF Serial, Rows, SignedIsVerified, RequiredOf, ConstantsOK
<1>6. \A n \in Milestone : OpenDisputes(n)' = OpenDisputes(n)
  BY <1>1 DEF OpenDisputes, IsOpen, DisputedMilestone
<1>7. /\ \A n \in Milestone \ {m} : wallet'[n] = wallet[n]
      /\ Settle(m, "RELEASED")
  BY <1>1, PaidOnlyThere DEF Release
<1>8. /\ RowsAgree' /\ escrow'[m] \in Settled
      /\ \A n \in Milestone \ {m} : escrow'[n] = escrow[n]
  BY <1>1, <1>4, <1>5, <1>6, <1>7, SettledRow DEF Settled
<1>9. ClosedMeansSettled'
  <2>1. CASE request[h].last
    <3>1. \A n \in Milestone \ {m} : escrow[n] \in Settled
      BY <1>2, <2>1 DEF OthersApproved, Serial, Rows, RowsAgree, Agrees
    <3>2. QED
      BY <1>8, <3>1 DEF ClosedMeansSettled, Settled
  <2>2. CASE ~ request[h].last
    BY <1>1, <1>8, <2>2, ClosedKept
  <2>3. QED
    BY <2>1, <2>2
<1>10. Rows'
  BY <1>4, <1>8, <1>9 DEF Rows, SignedIsVerified
<1>11. QED
  BY <1>1, <1>10, SerialEnds

(* A decision that settles: the expert wins the last criterion, the client *)
(* wins, or the amount is split.                                           *)
LEMMA SerialDecision ==
  ASSUME OneAtATime, Serial, Inv', NEW h \in Handler,
         CommitAwardAndRelease(h) \/ CommitRefund(h) \/ CommitSplit(h)
  PROVE  Serial'
<1>1. request[h].op \in DisputeOps /\ Resolved(h) /\ Ends(h) /\ engagement' = engagement
  BY DEF CommitAwardAndRelease, CommitRefund, CommitSplit, DisputeOps
<1>2. PICK m \in Milestone, c \in Criterion :
        /\ m = DisputedMilestone(request[h].d) /\ c = dispute[request[h].d].criterion
        /\ m = MilestoneOf[c] /\ escrow[m] = "FROZEN"
  BY <1>1, Deciding
<1>3. /\ OpenDisputes(m)' = {}
      /\ \A n \in Milestone \ {m} : OpenDisputes(n)' = OpenDisputes(n)
  BY <1>1, <1>2, Decided
<1>4. \/ AwardCriterion(c) /\ Release(m) /\ CommitAwardAndRelease(h)
      \/ UNCHANGED criterion /\ (Refund(m) \/ Split(m))
  BY <1>2 DEF CommitAwardAndRelease, CommitRefund, CommitSplit, DisputedMilestone
<1>5. /\ \A k \in Criterion : criterion[k].verified => criterion'[k].verified
      /\ \A k \in Criterion : criterion'[k].ceo => criterion'[k].verified
  BY <1>4, Shapes DEF AwardCriterion, Serial, Rows, SignedIsVerified
<1>6. \A n \in Milestone \ {m} : wallet'[n] = wallet[n]
  BY <1>4, PaidOnlyThere
<1>7. PICK status \in Settled :
        /\ Settle(m, status)
        /\ status = "RELEASED" => AwardCriterion(c) /\ CommitAwardAndRelease(h)
  BY <1>4, Zenon DEF Release, Refund, Split, Settled
<1>8. status = "RELEASED" => \A k \in RequiredOf(m) : criterion'[k].verified
  <2>1. SUFFICES ASSUME AwardCriterion(c), CommitAwardAndRelease(h)
                 PROVE  \A k \in RequiredOf(m) : criterion'[k].verified
    BY <1>7
  <2>2. \A k \in RequiredOf(m) \ {c} : criterion[k].verified
    BY <1>2, <2>1 DEF CommitAwardAndRelease, Serial, Holds
  <2>3. criterion'[c].verified
    BY <2>1, Shapes DEF AwardCriterion
  <2>4. RequiredOf(m) \subseteq Criterion
    BY ConstantsOK DEF RequiredOf, ConstantsOK
  <2>5. QED
    BY <1>5, <2>2, <2>3, <2>4
<1>9. /\ RowsAgree' /\ escrow'[m] \in Settled
      /\ \A n \in Milestone \ {m} : escrow'[n] = escrow[n]
  BY <1>3, <1>5, <1>6, <1>7, <1>8, SettledRow
<1>10. ClosedMeansSettled'
  BY <1>1, <1>9, ClosedKept
<1>11. Rows'
  BY <1>5, <1>9, <1>10 DEF Rows, SignedIsVerified
<1>12. QED
  BY <1>1, <1>11, SerialEnds

LEMMA SerialInductive ==
  ASSUME OneAtATime
  PROVE  Serial /\ [Next]_vars => Serial'
<1> SUFFICES ASSUME Serial, [Next]_vars PROVE Serial'
  OBVIOUS
<1>1. Inv'
  BY InvInductive DEF Serial
<1>2. CASE UNCHANGED vars
  BY <1>1, <1>2 DEF vars, Serial, Rows, RowsAgree, Agrees, Accepted, Unpaid, OpenDisputes, IsOpen,
     DisputedMilestone, SignedIsVerified, ClosedMeansSettled, Holds, OthersApproved
<1>3. ASSUME NEW h \in Handler, Start(h) \/ Continue(h) \/ Fail(h)
      PROVE  Serial'
  BY <1>1, <1>3, SerialStart, SerialReadOnly, SerialReview, SerialFile, SerialUnsure,
     SerialAward, SerialFinalSignOff, SerialDecision DEF Continue
<1>4. QED
  BY <1>2, <1>3 DEF Next

LEMMA SpecSerial ==
  ASSUME OneAtATime
  PROVE  Spec => []Serial
  BY SerialInit, SerialInductive, PTL DEF Spec

-----------------------------------------------------------------------------
(* Requests that do not overlap keep an escrow frozen exactly while its    *)
(* milestone is DISPUTED and one open dispute, and no second, is about it. *)
THEOREM FrozenExactlyInDispute ==
  ASSUME OneAtATime
  PROVE  Spec => []FrozenWhileDisputed
<1>1. Serial => FrozenWhileDisputed
  BY DEF Serial, Rows, RowsAgree, Agrees, FrozenWhileDisputed
<1>2. QED
  BY <1>1, SpecSerial, PTL

(* Requests that do not overlap approve a milestone exactly when they      *)
(* settle its escrow.                                                      *)
THEOREM ApprovalSettles ==
  ASSUME OneAtATime
  PROVE  Spec => []ApprovedWhenSettled
<1>1. Serial => ApprovedWhenSettled
  BY DEF Serial, Rows, RowsAgree, Agrees, ApprovedWhenSettled, Settled
<1>2. QED
  BY <1>1, SpecSerial, PTL

(* Requests that do not overlap pay the expert in full only for a          *)
(* milestone whose required criteria are all accepted.                     *)
THEOREM PaidForAcceptedWork ==
  ASSUME OneAtATime
  PROVE  Spec => []ReleasedWhenAccepted
<1>1. Serial => ReleasedWhenAccepted
  BY DEF Serial, Rows, RowsAgree, Accepted, ReleasedWhenAccepted
<1>2. QED
  BY <1>1, SpecSerial, PTL

(* Requests that do not overlap close an engagement only when no escrow is *)
(* left to settle.                                                         *)
THEOREM ClosedWithNothingLeft ==
  ASSUME OneAtATime
  PROVE  Spec => []ClosedMeansSettled
<1>1. Serial => ClosedMeansSettled
  BY DEF Serial, Rows
<1>2. QED
  BY <1>1, SpecSerial, PTL

-----------------------------------------------------------------------------
(* The step simulation of AbstractEscrow.                                  *)
LEMMA PromiseInit == Init => Promise!Init
<1> SUFFICES ASSUME Init PROVE Promise!Init
  OBVIOUS
<1>1. \A m \in Milestone :
        /\ escrow[m] = "HELD"
        /\ wallet[m].client = 0 /\ wallet[m].expert = 0
        /\ wallet[m].platform = 0 /\ wallet[m].outbound = 0
  BY DEF Init
<1>2. QED
  BY <1>1 DEF Promise!Init, Outcome, Paid

(* The abstract parts are those of the code.                               *)
LEMMA SameParts ==
  ASSUME NEW m \in Milestone
  PROVE  /\ Promise!ExpertNet(Amount[m], FeeNum, FeeDen) = Net(m)
         /\ Promise!PlatformFee(Amount[m], FeeNum, FeeDen) = Fee(m)
         /\ Promise!ClientHalf(Amount[m]) = ClientHalf(Amount[m])
         /\ Promise!ExpertHalf(Amount[m]) = ExpertHalf(Amount[m])
  BY DEF Promise!ExpertNet, Promise!PlatformFee, Promise!ClientHalf, Promise!ExpertHalf,
     Promise!RoundHalfUp, Net, Fee, ExpertNet, PlatformFee, ClientHalf, ExpertHalf, RoundHalfUp

(* Settling an escrow that was not settled is the abstract settlement.     *)
LEMMA SettlesOnce ==
  ASSUME Serial, NEW m \in Milestone, NEW status \in Settled, escrow[m] \notin Settled,
         Settle(m, status),
         NEW client \in Int, NEW expert \in Int, NEW platform \in Int, NEW outbound \in Int,
         NEW earned, earned = expert + outbound,
         Pay(m, client, expert, platform, outbound)
  PROVE  Promise!Settle(m, status, client, earned, platform)
<1>1. /\ escrow'[m] = status
      /\ \A n \in Milestone \ {m} : escrow'[n] = escrow[n] /\ wallet'[n] = wallet[n]
  BY Shapes DEF Settle, Pay
<1>2. Unpaid(m)
  BY DEF Serial, Rows, RowsAgree
<1>3. /\ wallet'[m].client = client /\ wallet'[m].expert + wallet'[m].outbound = earned
      /\ wallet'[m].platform = platform
  BY <1>2, Shapes DEF Pay, Unpaid
<1>4. Outcome[m] = "held"
  BY Shapes DEF Outcome, EscrowStatus, Settled
<1>5. Outcome' = [Outcome EXCEPT ![m] = status]
  BY <1>1 DEF Outcome, Settled
<1>6. Paid' = [Paid EXCEPT ![m] =
        [client |-> client, expert |-> earned, platform |-> platform]]
  BY <1>1, <1>3 DEF Paid
<1>7. QED
  BY <1>4, <1>5, <1>6 DEF Promise!Settle

LEMMA SettlementPromised ==
  ASSUME Serial, NEW m \in Milestone, escrow[m] \notin Settled,
         Release(m) \/ Refund(m) \/ Split(m)
  PROVE  Promise!Next
<1>0. /\ Amount[m] \in Int /\ Fee(m) \in Int /\ Net(m) \in Int
      /\ ClientHalf(Amount[m]) \in Int /\ ExpertHalf(Amount[m]) \in Int
  BY Parts
<1>1. CASE Release(m)
  <2>1. PICK out \in {0, Net(m)} : Pay(m, 0, Net(m) - out, Fee(m), out) /\ Settle(m, "RELEASED")
    BY <1>1, Zenon DEF Release
  <2>2. /\ "RELEASED" \in Settled /\ 0 \in Int /\ out \in Int /\ Net(m) - out \in Int
        /\ Net(m) = (Net(m) - out) + out
    BY <1>0, <2>1 DEF Settled
  <2>3. Promise!Settle(m, "RELEASED", 0, Net(m), Fee(m))
    BY <1>0, <2>1, <2>2, SettlesOnce
  <2>4. Promise!PayExpert(m)
    BY <2>3, SameParts DEF Promise!PayExpert
  <2>5. QED
    BY <2>4 DEF Promise!Next
<1>2. CASE Refund(m)
  <2>1. Pay(m, Amount[m], 0, 0, 0) /\ Settle(m, "REFUNDED")
    BY <1>2, Zenon DEF Refund
  <2>2. "REFUNDED" \in Settled /\ 0 \in Int /\ 0 = 0 + 0
    BY DEF Settled
  <2>3. Promise!Settle(m, "REFUNDED", Amount[m], 0, 0)
    BY <1>0, <2>1, <2>2, SettlesOnce
  <2>4. Promise!RepayClient(m)
    BY <2>3 DEF Promise!RepayClient
  <2>5. QED
    BY <2>4 DEF Promise!Next
<1>3. CASE Split(m)
  <2>1. Pay(m, ClientHalf(Amount[m]), ExpertHalf(Amount[m]), 0, 0) /\ Settle(m, "SPLIT")
    BY <1>3, Zenon DEF Split
  <2>2. "SPLIT" \in Settled /\ 0 \in Int /\ ExpertHalf(Amount[m]) = ExpertHalf(Amount[m]) + 0
    BY <1>0 DEF Settled
  <2>3. Promise!Settle(m, "SPLIT", ClientHalf(Amount[m]), ExpertHalf(Amount[m]), 0)
    BY <1>0, <2>1, <2>2, SettlesOnce
  <2>4. Promise!Share(m)
    BY <2>3, SameParts DEF Promise!Share
  <2>5. QED
    BY <2>4 DEF Promise!Next
<1>4. QED
  BY <1>1, <1>2, <1>3

(* Freezing and unfreezing an escrow is no step of the abstract one.       *)
LEMMA StillHeld ==
  ASSUME Serial, wallet' = wallet,
         \A m \in Milestone :
           escrow'[m] = escrow[m] \/ {escrow[m], escrow'[m]} \subseteq {"HELD", "FROZEN"}
  PROVE  UNCHANGED <<Outcome, Paid>>
  BY DEF Outcome, Paid

LEMMA PromiseStep ==
  ASSUME Serial, [Next]_vars
  PROVE  [Promise!Next]_<<Outcome, Paid>>
<1>1. CASE UNCHANGED <<escrow, wallet>>
  BY <1>1, StillHeld
<1>2. ASSUME NEW h \in Handler, CommitFile(h)
      PROVE  UNCHANGED <<Outcome, Paid>>
  <2>1. PICK c \in Criterion : c = request[h].c /\ MilestoneOf[c] \in Milestone
    BY <1>2, Shapes, RequestFields DEF CommitFile
  <2>2. escrow[MilestoneOf[c]] = "HELD"
    BY <1>2, <2>1, Shapes DEF CommitFile, Serial, Holds, Rows, RowsAgree, Agrees, Settled, EscrowStatus
  <2>3. wallet' = wallet /\ escrow' = [escrow EXCEPT ![MilestoneOf[c]] = "FROZEN"]
    BY <1>2, <2>1 DEF CommitFile
  <2>4. QED
    BY <2>1, <2>2, <2>3, Shapes, StillHeld
<1>3. ASSUME NEW h \in Handler, request[h].op \in DisputeOps
      PROVE  \E m \in Milestone : m = DisputedMilestone(request[h].d) /\ escrow[m] = "FROZEN"
  BY <1>3, Deciding
<1>4. ASSUME NEW h \in Handler, CommitAward(h)
      PROVE  UNCHANGED <<Outcome, Paid>>
  <2>1. PICK m \in Milestone : m = DisputedMilestone(request[h].d) /\ escrow[m] = "FROZEN"
    BY <1>3, <1>4 DEF CommitAward, DisputeOps
  <2>2. wallet' = wallet /\ escrow' = [escrow EXCEPT ![m] = "HELD"]
    BY <1>4, <2>1 DEF CommitAward, DisputedMilestone
  <2>3. QED
    BY <2>1, <2>2, Shapes, StillHeld
<1>5. ASSUME NEW h \in Handler,
             CommitAwardAndRelease(h) \/ CommitRefund(h) \/ CommitSplit(h)
      PROVE  Promise!Next
  <2>1. PICK m \in Milestone : m = DisputedMilestone(request[h].d) /\ escrow[m] = "FROZEN"
    BY <1>3, <1>5 DEF CommitAwardAndRelease, CommitRefund, CommitSplit, DisputeOps
  <2>2. Release(m) \/ Refund(m) \/ Split(m)
    BY <1>5, <2>1 DEF CommitAwardAndRelease, CommitRefund, CommitSplit, DisputedMilestone
  <2>3. QED
    BY <2>1, <2>2, SettlementPromised DEF Settled
<1>6. ASSUME NEW h \in Handler, CommitFinalSignOff(h)
      PROVE  Promise!Next
  <2>1. PICK m \in Milestone : m = MilestoneOf[request[h].c] /\ escrow[m] = "HELD" /\ Release(m)
    BY <1>6, Shapes, RequestFields DEF CommitFinalSignOff
  <2>2. QED
    BY <2>1, SettlementPromised DEF Settled
<1>7. ASSUME NEW h \in Handler,
             \/ CommitSubmit(h) \/ CommitRetract(h) \/ CommitTechVerify(h) \/ CountSignOffs(h)
             \/ CommitPartialSignOff(h) \/ CommitRevise(h) \/ EvaluationUnsure(h)
             \/ \E decision \in {"EXPERT_WINS", "CLIENT_WINS"} : EvaluationConfident(h, decision)
             \/ CountForExpert(h) \/ ReadFrozen(h) \/ Fail(h)
      PROVE  UNCHANGED <<escrow, wallet>>
  BY <1>7 DEF CommitSubmit, CommitRetract, CommitTechVerify, CountSignOffs, CommitPartialSignOff,
     CommitRevise, EvaluationUnsure, EvaluationConfident, CountForExpert, ReadFrozen, Fail,
     money
<1>8. ASSUME NEW h \in Handler, Start(h)
      PROVE  UNCHANGED <<escrow, wallet>>
  BY <1>8 DEF Start, BeginSubmit, BeginRetract, BeginTechVerify, BeginCeoVerify, BeginRevise,
     BeginFile, BeginResolve, money
<1>9. CASE UNCHANGED vars
  BY <1>1, <1>9 DEF vars
<1>10. QED
  BY <1>1, <1>2, <1>4, <1>5, <1>6, <1>7, <1>8, <1>9 DEF Next, Continue

(* Requests that do not overlap keep the promise of AbstractEscrow: each   *)
(* escrow is settled once, and pays each party what the decision says.     *)
THEOREM KeepsThePromise ==
  ASSUME OneAtATime
  PROVE  Spec => PromiseKept
<1>1. Serial /\ [Next]_vars => [Promise!Next]_<<Outcome, Paid>>
  BY PromiseStep
<1>2. QED
  BY <1>1, PromiseInit, SpecSerial, PTL DEF Spec, PromiseKept, Promise!Spec

-----------------------------------------------------------------------------
(* The pages.  A milestone that is not approved waits for a signature of   *)
(* the CEO, if it has a required criterion; a sign-off that is not the     *)
(* last has counted another that is missing.                               *)
AwaitsSignature == \A m \in Milestone :
  milestone[m] # "APPROVED" /\ RequiredOf(m) # {} => \E c \in RequiredOf(m) : ~ criterion[c].ceo

OtherMissing(r) == r.op = "ceoCounted" /\ ~ r.complete =>
  \E k \in RequiredOf(MilestoneOf[r.c]) \ {r.c} : ~ criterion[k].ceo

Signatures == AwaitsSignature /\ \A h \in Handler : OtherMissing(request[h])

(* Taking signatures back, and moving a milestone that is not approved.    *)
LEMMA AwaitsKept ==
  ASSUME AwaitsSignature,
         \A m \in Milestone : milestone[m] = "APPROVED" => milestone'[m] = "APPROVED",
         \A c \in Criterion : criterion'[c].ceo => criterion[c].ceo
  PROVE  AwaitsSignature'
  BY ConstantsOK DEF AwaitsSignature, RequiredOf, ConstantsOK

(* A signature on one criterion, when another of its milestone is missing  *)
(* or its milestone is approved with it.                                   *)
LEMMA AwaitsOthers ==
  ASSUME Serial, AwaitsSignature, NEW c \in Criterion, SignOff(c),
         NEW m \in Milestone, m = MilestoneOf[c],
         \A n \in Milestone \ {m} : milestone'[n] = milestone[n],
         \/ milestone'[m] = "APPROVED"
         \/ \E k \in RequiredOf(m) \ {c} : ~ criterion[k].ceo
  PROVE  AwaitsSignature'
<1>1. \A k \in Criterion \ {c} : criterion'[k] = criterion[k]
  BY Shapes DEF SignOff
<1>2. \A n \in Milestone : RequiredOf(n) \subseteq Criterion /\ \A k \in RequiredOf(n) : MilestoneOf[k] = n
  BY ConstantsOK DEF RequiredOf, ConstantsOK
<1>3. SUFFICES ASSUME NEW n \in Milestone, milestone'[n] # "APPROVED", RequiredOf(n) # {}
               PROVE  \E k \in RequiredOf(n) : ~ criterion'[k].ceo
  BY DEF AwaitsSignature, RequiredOf
<1>4. CASE n = m
  BY <1>1, <1>2, <1>3, <1>4
<1>5. CASE n # m
  BY <1>1, <1>2, <1>3, <1>5 DEF AwaitsSignature
<1>6. QED
  BY <1>4, <1>5

LEMMA SignaturesInductive ==
  ASSUME OneAtATime, Serial, Signatures, [Next]_vars
  PROVE  Signatures'
<1>1. CASE UNCHANGED vars
  BY <1>1 DEF vars, Signatures, AwaitsSignature, OtherMissing
<1>2. ASSUME NEW h \in Handler, Start(h) \/ Continue(h) \/ Fail(h)
      PROVE  Signatures'
  <2> DEFINE r == request[h]
  <2>0. AwaitsSignature /\ OtherMissing(r) /\ Holds(r) /\ r \in Request
    BY Shapes DEF Signatures, Serial
  <2>1. ASSUME request'[h].op # "ceoCounted", AwaitsSignature' PROVE Signatures'
    BY <2>1 DEF OneAtATime, Signatures, OtherMissing
  <2>2. ASSUME AwaitsSignature', Ends(h) PROVE Signatures'
    BY <2>1, <2>2, Shapes DEF Ends, Becomes, Idle
  <2>3. ASSUME UNCHANGED <<milestone, criterion>> PROVE AwaitsSignature'
    BY <2>0, <2>3, AwaitsKept
  <2>4. CASE Start(h)
    <3>1. UNCHANGED <<milestone, criterion>>
      BY <2>4 DEF Start, BeginSubmit, BeginRetract, BeginTechVerify, BeginCeoVerify, BeginRevise,
         BeginFile, BeginResolve
    <3>2. ASSUME NEW q, Starts(h, q) PROVE request'[h] = q
      BY <3>2, Shapes DEF Starts
    <3>3. ASSUME NEW m \in Milestone, BeginSubmit(h, m) \/ BeginRetract(h, m)
          PROVE  request'[h].op # "ceoCounted"
      BY <3>2, <3>3 DEF BeginSubmit, BeginRetract
    <3>4. ASSUME NEW c \in Criterion,
                 \/ BeginTechVerify(h, c) \/ BeginCeoVerify(h, c)
                 \/ BeginRevise(h, c) \/ BeginFile(h, c)
          PROVE  request'[h].op # "ceoCounted"
      BY <3>2, <3>4 DEF BeginTechVerify, BeginCeoVerify, BeginRevise, BeginFile
    <3>5. ASSUME NEW d \in Dispute, NEW decision \in Decision, BeginResolve(h, d, decision)
          PROVE  request'[h].op # "ceoCounted"
      BY <3>2, <3>5 DEF BeginResolve
    <3>6. QED
      BY <2>1, <2>3, <2>4, <3>1, <3>3, <3>4, <3>5 DEF Start
  <2>5. CASE CountSignOffs(h)
    <3>1. PICK c : c = r.c
      OBVIOUS
    <3>2. PICK complete, last \in BOOLEAN :
            /\ complete <=> \A k \in RequiredOf(MilestoneOf[c]) \ {c} : criterion[k].ceo
            /\ Becomes(h, [op |-> "ceoCounted", c |-> c, complete |-> complete, last |-> last])
      BY <2>5, <3>1 DEF CountSignOffs, OthersApproved
    <3>3. UNCHANGED <<milestone, criterion>>
      BY <2>5 DEF CountSignOffs
    <3>4. \A g \in Handler :
            request'[g] = [op |-> "ceoCounted", c |-> c, complete |-> complete, last |-> last]
      BY <3>2, Shapes DEF OneAtATime, Becomes
    <3>5. QED
      BY <2>3, <3>2, <3>3, <3>4 DEF Signatures, OtherMissing
  <2>6. CASE CommitPartialSignOff(h)
    <3>1. PICK c \in Criterion, m \in Milestone :
            c = r.c /\ m = MilestoneOf[c] /\ milestone[m] = "SUBMITTED"
      BY <2>0, <2>6, RequestFields, Shapes DEF CommitPartialSignOff, Holds
    <3>2. OpenDisputes(m) = {}
      BY <3>1, Shapes DEF Serial, Rows, RowsAgree, Agrees
    <3>3. SignOff(c) /\ milestone' = milestone /\ Ends(h) /\ ~ r.complete
      BY <2>6, <3>1, <3>2 DEF CommitPartialSignOff, Approves
    <3>4. \E k \in RequiredOf(m) \ {c} : ~ criterion[k].ceo
      BY <2>0, <2>6, <3>1, <3>3 DEF OtherMissing, CommitPartialSignOff
    <3>5. QED
      BY <2>0, <2>2, <3>1, <3>3, <3>4, AwaitsOthers
  <2>7. CASE CommitFinalSignOff(h)
    <3>1. PICK c \in Criterion, m \in Milestone :
            c = r.c /\ m = MilestoneOf[c] /\ Release(m) /\ SignOff(c) /\ Ends(h)
      BY <2>7, Shapes, RequestFields DEF CommitFinalSignOff
    <3>2. milestone' = [milestone EXCEPT ![m] = "APPROVED"]
      BY <3>1, Zenon DEF Release, Settle
    <3>3. QED
      BY <2>0, <2>2, <3>1, <3>2, Shapes, AwaitsOthers
  <2>8. ASSUME CommitSubmit(h) \/ CommitRetract(h) \/ CommitTechVerify(h) \/ CommitRevise(h)
        PROVE  Signatures'
    <3>1. Ends(h)
      BY <2>8 DEF CommitSubmit, CommitRetract, CommitTechVerify, CommitRevise
    <3>2. \A m \in Milestone : milestone[m] = "APPROVED" => milestone'[m] = "APPROVED"
      BY <2>0, <2>8, Shapes, RequestFields
         DEF CommitSubmit, CommitRetract, CommitTechVerify, CommitRevise, Holds
    <3>3. \A c \in Criterion : criterion'[c].ceo => criterion[c].ceo
      BY <2>8, Shapes DEF CommitSubmit, CommitRetract, CommitTechVerify, CommitRevise, Unreviewed
    <3>4. QED
      BY <2>0, <2>2, <3>1, <3>2, <3>3, AwaitsKept
  <2>9. CASE CommitFile(h)
    <3>1. request'[h].op # "ceoCounted"
      BY <2>9, Shapes DEF CommitFile, Becomes
    <3>2. PICK m \in Milestone : /\ milestone[m] \in {"SUBMITTED", "IN_REVISION"}
                                 /\ milestone' = [milestone EXCEPT ![m] = "DISPUTED"]
                                 /\ criterion' = criterion
      BY <2>0, <2>9, Shapes, RequestFields DEF CommitFile, Holds
    <3>3. AwaitsSignature'
      BY <2>0, <3>2, Shapes, AwaitsKept
    <3>4. QED
      BY <2>1, <3>1, <3>3
  <2>10. ASSUME NEW decision \in {"EXPERT_WINS", "CLIENT_WINS"}, EvaluationConfident(h, decision)
         PROVE  Signatures'
    <3>1. UNCHANGED <<milestone, criterion>>
      BY <2>10 DEF EvaluationConfident
    <3>2. request'[h].op # "ceoCounted"
      BY <2>10, Shapes DEF EvaluationConfident, Becomes
    <3>3. QED
      BY <2>1, <2>3, <3>1, <3>2
  <2>11. CASE CountForExpert(h) \/ ReadFrozen(h)
    <3>1. UNCHANGED <<milestone, criterion>>
      BY <2>11 DEF CountForExpert, ReadFrozen
    <3>2. request'[h].op # "ceoCounted"
      BY <2>11, Shapes DEF CountForExpert, ReadFrozen, Becomes
    <3>3. QED
      BY <2>1, <2>3, <3>1, <3>2
  <2>12. CASE EvaluationUnsure(h) \/ Fail(h)
    BY <2>2, <2>3, <2>12 DEF EvaluationUnsure, Fail
  <2>13. CASE CommitAward(h)
    <3>1. PICK m \in Milestone, c \in Criterion :
            /\ milestone[m] = "DISPUTED"
            /\ milestone' = [milestone EXCEPT ![m] = "SUBMITTED"]
            /\ AwardCriterion(c) /\ Ends(h)
      BY <2>13, Deciding DEF CommitAward, DisputeOps
    <3>2. AwaitsSignature'
      BY <2>0, <3>1, Shapes, AwaitsKept DEF AwardCriterion
    <3>3. QED
      BY <2>2, <3>1, <3>2
  <2>14. CASE CommitAwardAndRelease(h) \/ CommitRefund(h) \/ CommitSplit(h)
    <3>1. PICK m \in Milestone, c \in Criterion :
            /\ Release(m) \/ Refund(m) \/ Split(m)
            /\ criterion' = criterion \/ AwardCriterion(c)
            /\ Ends(h)
      BY <2>14, Deciding DEF CommitAwardAndRelease, CommitRefund, CommitSplit, DisputeOps
    <3>2. milestone' = [milestone EXCEPT ![m] = "APPROVED"]
      BY <3>1, PaidOnlyThere DEF Settle
    <3>3. AwaitsSignature'
      BY <2>0, <3>1, <3>2, Shapes, AwaitsKept DEF AwardCriterion
    <3>4. QED
      BY <2>2, <3>1, <3>3
  <2>15. QED
    BY <1>2, <2>4, <2>5, <2>6, <2>7, <2>8, <2>9, <2>10, <2>11, <2>12, <2>13, <2>14 DEF Continue
<1>3. QED
  BY <1>1, <1>2 DEF Next

LEMMA SpecSignatures ==
  ASSUME OneAtATime
  PROVE  Spec => [](Serial /\ Signatures)
<1>1. Init => Signatures
  BY ConstantsOK DEF Init, Signatures, AwaitsSignature, OtherMissing, Unreviewed, Idle, RequiredOf,
     ConstantsOK
<1>2. Serial /\ Signatures /\ [Next]_vars => (Serial /\ Signatures)'
  BY SerialInductive, SignaturesInductive
<1>3. QED
  BY <1>1, <1>2, SerialInit, PTL DEF Spec

(* What the pages offer on a milestone of any number of criteria and       *)
(* disputes, on data that is up to date, no service refuses.               *)
THEOREM PagesOfferWhatIsAccepted ==
  ASSUME OneAtATime
  PROVE  Spec => []OfferedIsAccepted
<1>1. ASSUME Serial PROVE OfferedIsAccepted
  <2>1. ASSUME NEW c \in Criterion
        PROVE  /\ CeoReviews(c) => MayCeoVerify(c) /\ MayRevise(c)
               /\ TechReviews(c) => MayTechVerify(c) /\ MayRevise(c)
    BY DEF CeoReviews, CeoSigned, TechReviews, MayCeoVerify, MayTechVerify, MayRevise
  <2>2. ASSUME NEW c \in Criterion, Disputable(c) PROVE MayFile(c)
    <3>1. Agrees(MilestoneOf[c]) /\ MilestoneOf[c] \in Milestone
      BY <1>1, Shapes DEF Serial, Rows, RowsAgree
    <3>2. escrow[MilestoneOf[c]] = "HELD"
      BY <1>1, <2>2, <3>1, Shapes DEF Disputable, Agrees, Settled, EscrowStatus
    <3>3. QED
      BY <2>2, <3>2 DEF Disputable, MayFile
  <2>3. ASSUME NEW m \in Milestone
        PROVE  (Deliverable(m) => MaySubmit(m)) /\ (Retractable(m) => MayRetract(m))
    BY DEF Deliverable, Retractable, MaySubmit, MayRetract
  <2>4. ASSUME NEW d \in Dispute, Decidable(d) PROVE IsOpen(d)
    BY <2>4 DEF Decidable, IsOpen, OpenState
  <2>5. QED
    BY <2>1, <2>2, <2>3, <2>4 DEF OfferedIsAccepted
<1>2. QED
  BY <1>1, SpecSerial, PTL

(* Money that is not settled has, on some page, a step towards its end,    *)
(* but for a dispute left without an answer and a criterion won in one.    *)
THEOREM SomebodyIsOfferedAStep ==
  ASSUME OneAtATime
  PROVE  Spec => []SomebodyCanAct
<1>1. ASSUME Serial, Signatures PROVE SomebodyCanAct
  <2>1. SUFFICES ASSUME NEW m \in Milestone, escrow[m] \in {"HELD", "FROZEN"}, RequiredOf(m) # {},
                        ~ Deliverable(m), ~ Unanswered(m), ~ Awarded(m)
                 PROVE  \/ \E c \in RequiredOf(m) : CeoReviews(c) \/ TechReviews(c)
                        \/ \E d \in OpenDisputes(m) : Decidable(d)
    BY DEF SomebodyCanAct
  <2>2. Agrees(m) /\ milestone[m] \in MilestoneState
    BY <1>1, Shapes DEF Serial, Rows, RowsAgree
  <2>3. CASE escrow[m] = "FROZEN"
    <3>1. PICK d \in OpenDisputes(m) : dispute[d].state \in OpenState
      BY <2>2, <2>3 DEF Agrees, OpenDisputes, IsOpen
    <3>2. Decidable(d)
      BY <2>1, <3>1 DEF Unanswered, Decidable, OpenState
    <3>3. QED
      BY <3>2
  <2>4. CASE escrow[m] = "HELD"
    <3>1. milestone[m] = "SUBMITTED"
      BY <2>1, <2>2, <2>4 DEF Agrees, Settled, Deliverable, MilestoneState
    <3>2. PICK c \in RequiredOf(m) : ~ criterion[c].ceo
      BY <1>1, <2>1, <3>1 DEF Signatures, AwaitsSignature
    <3>3. MilestoneOf[c] = m /\ ~ criterion[c].verified
      BY <2>1, <3>1, <3>2 DEF Awarded, RequiredOf
    <3>4. CASE JointReview => TechComplete(m)
      BY <3>1, <3>2, <3>3, <3>4 DEF CeoReviews, CeoSigned
    <3>5. CASE JointReview /\ ~ TechComplete(m)
      <4>1. PICK k \in RequiredOf(m) : ~ criterion[k].tech
        BY <3>5 DEF TechComplete
      <4>2. TechReviews(k)
        BY <3>1, <3>5, <4>1 DEF TechReviews, RequiredOf
      <4>3. QED
        BY <4>2
    <3>6. QED
      BY <3>4, <3>5
  <2>5. QED
    BY <2>1, <2>3, <2>4
<1>2. QED
  BY <1>1, SpecSignatures, PTL
=============================================================================
