------------------------- MODULE WithdrawalsProofs -------------------------
(***************************************************************************)
(* Proofs about Withdrawals: every column keeps its type, and the balance  *)
(* is what the rows add up to, however requests overlap; as long as they   *)
(* do not, what was given back, spent, charged and released is right.  All *)
(* for any number of milestones, withdrawals, transfers and requests and   *)
(* any amounts.                                                            *)
(***************************************************************************)
EXTENDS Withdrawals, FiniteSetTheorems, WellFoundedInduction, TLAPS

(* At most one request is in progress.                                     *)
OneAtATime == \A g, h \in Handler : request[g] # Idle /\ request[h] # Idle => g = h

(* What a request has read still holds.                                    *)
Undecided(r) == r.op \in {"cancel", "fail", "complete", "released"} => Pending(r.w)
Counted(r) == r.op = "released" =>
  /\ withdrawal[r.w].m \in Milestone
  /\ r.last <=> OthersReleased(withdrawal[r.w].m)
Afforded(r) ==
  /\ r.op = "withdraw" => balance >= r.amount
  /\ r.op = "charge" => balance >= r.price
Unsubscribed(r) == r.op \in {"subscribe", "charge"} => ~ pro
ReadsHold == \A h \in Handler :
  Undecided(request[h]) /\ Counted(request[h]) /\ Afforded(request[h]) /\ Unsubscribed(request[h])

GivenBack == \A w \in Withdrawal :
  refunds[w] = IF withdrawal[w].status \in {"FAILED", "CANCELLED"} THEN 1 ELSE 0
Covered  == balance >= 0
ChargedFor == Len(charged) = lapsed + (IF pro THEN 1 ELSE 0)

(* Each approved milestone has one payment, if it has any, and is released *)
(* by its completion.                                                      *)
Pays(w, m) == Made(w) /\ withdrawal[w].m = m
OnePayment == \A m \in Milestone :
  /\ \A v, w \in Withdrawal : Pays(v, m) /\ Pays(w, m) => v = w
  /\ \A w \in Withdrawal : Pays(w, m) => milestone[m] # "SUBMITTED"
PaidOut == \A m \in Milestone : milestone[m] = "RELEASED" <=>
  \E w \in Withdrawal : withdrawal[w].status = "COMPLETED" /\ withdrawal[w].m = m
Closed == (\A m \in Milestone : milestone[m] = "RELEASED") => engagement = "CLOSED"

Serial ==
  OneAtATime /\ ReadsHold /\ GivenBack /\ Covered /\ ChargedFor /\ OnePayment /\ PaidOut /\ Closed
InOrder == overlapped \/ Serial

(* What a request decides about is there; rows are never removed.          *)
OnMadeRows == \A h \in Handler :
  request[h].op \in {"cancel", "fail", "complete", "released"} => Made(request[h].w)
RowsStay == \A w \in Withdrawal : Made(w) => Made(w)'

IInv == TypeOK /\ OnMadeRows /\ InOrder

Row == [status : Status, m : Milestone \cup {Manual}, amount : Amounts \cup {Net}]

-----------------------------------------------------------------------------
(* The fields of a request, and of a row, by what it is.                   *)
LEMMA Shapes ==
  ASSUME TypeOK, NEW h \in Handler
  PROVE  LET r == request[h] IN
         /\ r \in Request
         /\ r # Idle <=> r.op # "idle"
         /\ r.op = "topup" => r.p \in Payment /\ r.amount \in Amounts
         /\ r.op = "withdraw" => r.amount \in Amounts
         /\ r.op \in {"cancel", "fail", "complete", "released"} => r.w \in Withdrawal
         /\ r.op = "released" => r.last \in BOOLEAN
         /\ r.op \in {"subscribe", "charge"} => r.price \in Amounts
BY DEF TypeOK, Request, Idle

LEMMA Rows ==
  ASSUME TypeOK, NEW w \in Withdrawal
  PROVE  /\ Made(w) => withdrawal[w] \in Row
         /\ Pending(w) => Made(w)
         /\ withdrawal[w].status \in Status => Made(w)
         /\ ~ Made(w) => withdrawal[w].status = "NONE"
BY DEF TypeOK, Made, Pending, NotMade, Row, Status

LEMMA AmountsPositive == \A a \in Amounts : a \in Nat /\ a > 0
BY ConstantsOK

-----------------------------------------------------------------------------
LEMMA InitInv == Init => IInv
<1> SUFFICES ASSUME Init PROVE IInv
  OBVIOUS
<1>1. TypeOK
  <2>1. charged \in Seq(Amounts)
    BY DEF Init
  <2>2. request \in [Handler -> Request]
    BY DEF Init, Idle, Request
  <2>3. withdrawal \in [Withdrawal -> {NotMade} \cup Row]
    BY DEF Init
  <2>4. /\ balance \in Int /\ paidIn \in Nat /\ lapsed \in Nat
        /\ topup \in [Payment -> Nat] /\ refunds \in [Withdrawal -> Nat]
        /\ milestone \in [Milestone -> {"SUBMITTED", "APPROVED", "RELEASED"}]
    BY DEF Init
  <2>5. engagement \in {"ACTIVE", "CLOSED"} /\ pro \in BOOLEAN /\ overlapped \in BOOLEAN
    BY DEF Init
  <2>6. QED
    BY <2>1, <2>2, <2>3, <2>4, <2>5 DEF TypeOK, Row
<1>2. OneAtATime /\ ReadsHold
  BY DEF Init, OneAtATime, ReadsHold, Undecided, Counted, Afforded, Unsubscribed, Idle
<1>3. GivenBack /\ Covered /\ ChargedFor
  BY DEF Init, GivenBack, Covered, ChargedFor, NotMade
<1>4. OnePayment /\ PaidOut /\ Closed
  BY ConstantsOK DEF Init, OnePayment, PaidOut, Closed, Pays, Made, NotMade
<1>5. OnMadeRows
  BY DEF Init, OnMadeRows, Idle
<1>6. QED
  BY <1>1, <1>2, <1>3, <1>4, <1>5 DEF IInv, InOrder, Serial

-----------------------------------------------------------------------------
(* Type correctness, action by action.                                     *)
LEMMA StartsType ==
  ASSUME TypeOK, NEW h \in Handler, NEW r \in Request, Starts(h, r)
  PROVE  request' \in [Handler -> Request] /\ overlapped' \in BOOLEAN
BY DEF TypeOK, Starts

LEMMA EndsType ==
  ASSUME TypeOK, NEW h \in Handler, Ends(h)
  PROVE  request' \in [Handler -> Request] /\ overlapped' \in BOOLEAN
BY DEF TypeOK, Ends, Becomes, Request

LEMMA MakeType ==
  ASSUME TypeOK, NEW w \in Withdrawal, NEW m \in Milestone \cup {Manual},
         NEW a \in Amounts \cup {Net}, Make(w, m, a)
  PROVE  withdrawal' \in [Withdrawal -> {NotMade} \cup Row]
BY DEF TypeOK, Make, Row, Status

LEMMA MakeKeeps ==
  ASSUME TypeOK, NEW w \in Withdrawal, NEW m, NEW a, Make(w, m, a)
  PROVE  RowsStay
BY DEF TypeOK, Make, RowsStay, Made, NotMade

LEMMA EndsOnMade ==
  ASSUME IInv, NEW h \in Handler, Ends(h), RowsStay
  PROVE  OnMadeRows'
<1>1. \A g \in Handler : request'[g] = request[g] \/ request'[g] = Idle
  BY DEF Ends, Becomes, IInv, TypeOK
<1>2. \A g \in Handler :
        request[g].op \in {"cancel", "fail", "complete", "released"} => request[g].w \in Withdrawal
  BY Shapes DEF IInv
<1>3. QED
  BY <1>1, <1>2 DEF IInv, OnMadeRows, RowsStay, Idle

LEMMA MarkedType ==
  ASSUME TypeOK, NEW w \in Withdrawal, NEW s \in Status, Made(w), Marked(w, s)
  PROVE  withdrawal' \in [Withdrawal -> {NotMade} \cup Row]
BY Rows DEF TypeOK, Marked, Row, Status

LEMMA MarkedKeeps ==
  ASSUME TypeOK, NEW w \in Withdrawal, NEW s \in Status, Made(w), Marked(w, s)
  PROVE  RowsStay
<1>1. withdrawal'[w].status = s
  BY Rows DEF TypeOK, Marked, Row
<1>2. \A v \in Withdrawal \ {w} : withdrawal'[v] = withdrawal[v]
  BY DEF TypeOK, Marked
<1>3. QED
  BY <1>1, <1>2 DEF RowsStay, Made, NotMade, Status

-----------------------------------------------------------------------------
(* A request that begins: it was alone, and what it read holds.            *)
LEMMA BeginInv ==
  ASSUME IInv, NEW h \in Handler, NEW r \in Request, Starts(h, r),
         UNCHANGED <<wallet, withdrawal, milestone, engagement, subscription>>,
         r.op # "released", Undecided(r), Afforded(r), Unsubscribed(r)
  PROVE  IInv'
<1>1. TypeOK'
  BY StartsType DEF IInv, TypeOK, wallet, subscription
<1>2. ASSUME ~ overlapped' PROVE Serial'
  <2>1. ~ overlapped /\ \A g \in Handler : request[g] = Idle
    BY <1>2 DEF Starts, IInv, TypeOK
  <2>2. Serial
    BY <2>1 DEF IInv, InOrder
  <2>3. \A g \in Handler : request'[g] = IF g = h THEN r ELSE Idle
    BY <2>1 DEF Starts, IInv, TypeOK
  <2>4. OneAtATime'
    BY <2>3 DEF OneAtATime
  <2>5. ReadsHold'
    <3>1. Undecided(r)' /\ Counted(r)' /\ Afforded(r)' /\ Unsubscribed(r)'
      BY DEF Undecided, Pending, Counted, Afforded, Unsubscribed, wallet, subscription
    <3>2. Undecided(Idle)' /\ Counted(Idle)' /\ Afforded(Idle)' /\ Unsubscribed(Idle)'
      BY DEF Undecided, Counted, Afforded, Unsubscribed, Idle
    <3>3. QED
      BY <2>3, <3>1, <3>2 DEF ReadsHold
  <2>6. GivenBack' /\ Covered' /\ ChargedFor' /\ OnePayment' /\ PaidOut' /\ Closed'
    BY <2>2 DEF Serial, GivenBack, Covered, ChargedFor, OnePayment, PaidOut, Closed, Pays, Made,
                wallet, subscription
  <2>7. QED
    BY <2>4, <2>5, <2>6 DEF Serial
<1>3. OnMadeRows'
  <2>1. \A g \in Handler : request'[g] = IF g = h THEN r ELSE request[g]
    BY DEF Starts, IInv, TypeOK
  <2>2. r.op \in {"cancel", "fail", "complete", "released"} => Made(r.w)
    BY DEF Undecided, Pending, Made, NotMade
  <2>3. QED
    BY <2>1, <2>2 DEF IInv, OnMadeRows, Made
<1>4. QED
  BY <1>1, <1>2, <1>3 DEF IInv, InOrder

(* A request that ends: it was alone, nobody has read anything.            *)
LEMMA EndAlone ==
  ASSUME IInv, NEW h \in Handler, request[h] # Idle, Ends(h), ~ overlapped'
  PROVE  Serial /\ OneAtATime' /\ ReadsHold'
<1>1. Serial
  BY DEF Ends, Becomes, IInv, InOrder
<1>2. \A g \in Handler : request'[g] = Idle
  BY <1>1 DEF Serial, OneAtATime, Ends, Becomes, IInv, TypeOK
<1>3. OneAtATime'
  BY <1>2 DEF OneAtATime
<1>4. ReadsHold'
  <2>1. Undecided(Idle)' /\ Counted(Idle)' /\ Afforded(Idle)' /\ Unsubscribed(Idle)'
    BY DEF Undecided, Counted, Afforded, Unsubscribed, Idle
  <2>2. QED
    BY <1>2, <2>1 DEF ReadsHold
<1>5. QED
  BY <1>1, <1>3, <1>4

(* A request that goes on: it is still the only one.                       *)
LEMMA StepAlone ==
  ASSUME IInv, NEW h \in Handler, request[h] # Idle, NEW r \in Request, Becomes(h, r),
         ~ overlapped', Undecided(r)', Counted(r)', Afforded(r)', Unsubscribed(r)'
  PROVE  Serial /\ OneAtATime' /\ ReadsHold'
<1>1. Serial
  BY DEF Becomes, IInv, InOrder
<1>2. \A g \in Handler : request'[g] = IF g = h THEN r ELSE Idle
  BY <1>1 DEF Serial, OneAtATime, Becomes, IInv, TypeOK
<1>3. OneAtATime'
  BY <1>2 DEF OneAtATime
<1>4. ReadsHold'
  <2>1. Undecided(Idle)' /\ Counted(Idle)' /\ Afforded(Idle)' /\ Unsubscribed(Idle)'
    BY DEF Undecided, Counted, Afforded, Unsubscribed, Idle
  <2>2. QED
    BY <1>2, <2>1 DEF ReadsHold
<1>5. QED
  BY <1>1, <1>3, <1>4

-----------------------------------------------------------------------------
LEMMA TopupInv ==
  ASSUME IInv, NEW h \in Handler, CommitTopup(h)
  PROVE  IInv'
<1> DEFINE p == request[h].p
           a == request[h].amount
<1>1. p \in Payment /\ a \in Nat /\ request[h] # Idle
  BY Shapes, AmountsPositive DEF IInv, CommitTopup
<1>2. TypeOK'
  <2>1. balance' \in Int /\ paidIn' \in Nat /\ topup' \in [Payment -> Nat]
    <3>1. balance' = balance + a /\ paidIn' = paidIn + a /\ topup' = [topup EXCEPT ![p] = @ + 1]
      BY DEF CommitTopup
    <3> HIDE DEF p, a
    <3>2. QED
      BY <1>1, <3>1 DEF IInv, TypeOK
  <2>2. request' \in [Handler -> Request] /\ overlapped' \in BOOLEAN
    BY EndsType DEF IInv, CommitTopup
  <2>3. QED
    BY <2>1, <2>2 DEF IInv, TypeOK, CommitTopup, subscription
<1>3. ASSUME ~ overlapped' PROVE Serial'
  <2>1. Serial /\ OneAtATime' /\ ReadsHold'
    BY <1>1, <1>3, EndAlone DEF CommitTopup
  <2>2. Covered'
    BY <1>1, <2>1 DEF Serial, Covered, CommitTopup, IInv, TypeOK
  <2>3. GivenBack' /\ ChargedFor' /\ OnePayment' /\ PaidOut' /\ Closed'
    BY <2>1 DEF Serial, GivenBack, ChargedFor, OnePayment, PaidOut, Closed, Pays, Made,
                CommitTopup, subscription
  <2>4. QED
    BY <2>1, <2>2, <2>3 DEF Serial
<1>4. OnMadeRows'
  BY EndsOnMade DEF CommitTopup, RowsStay, Made
<1>5. QED
  BY <1>2, <1>3, <1>4 DEF IInv, InOrder

LEMMA WithdrawInv ==
  ASSUME IInv, NEW h \in Handler, CommitWithdraw(h)
  PROVE  IInv'
<1> DEFINE a == request[h].amount
<1>1. a \in Amounts /\ a \in Nat /\ request[h] # Idle
  BY Shapes, AmountsPositive DEF IInv, CommitWithdraw
<1>2. PICK w \in Withdrawal : Make(w, Manual, a)
  BY DEF CommitWithdraw
<1>3. TypeOK'
  <2>1. withdrawal' \in [Withdrawal -> {NotMade} \cup Row]
    BY <1>1, <1>2, MakeType DEF IInv
  <2>2. QED
    BY <1>1, <2>1, EndsType DEF IInv, TypeOK, CommitWithdraw, subscription, Row
<1>4. ASSUME ~ overlapped' PROVE Serial'
  <2>1. Serial /\ OneAtATime' /\ ReadsHold'
    BY <1>1, <1>4, EndAlone DEF CommitWithdraw
  <2>2. Covered'
    <3>1. balance >= a
      BY <2>1 DEF Serial, ReadsHold, Afforded, CommitWithdraw
    <3>2. QED
      BY <1>1, <3>1 DEF Covered, CommitWithdraw, IInv, TypeOK
  <2>3. /\ withdrawal'[w] = [status |-> "PENDING", m |-> Manual, amount |-> a]
        /\ withdrawal[w] = NotMade
        /\ \A v \in Withdrawal \ {w} : withdrawal'[v] = withdrawal[v]
    BY <1>2 DEF Make, IInv, TypeOK
  <2>4. GivenBack'
    BY <2>1, <2>3 DEF Serial, GivenBack, CommitWithdraw, NotMade
  <2>5. \A v \in Withdrawal, m \in Milestone : Pays(v, m)' <=> Pays(v, m)
    BY <2>3, ConstantsOK DEF Pays, Made, NotMade
  <2>6. OnePayment'
    BY <2>1, <2>5 DEF Serial, OnePayment, CommitWithdraw
  <2>7. PaidOut'
    BY <2>1, <2>3 DEF Serial, PaidOut, CommitWithdraw, NotMade
  <2>8. ChargedFor' /\ Closed'
    BY <2>1 DEF Serial, ChargedFor, Closed, CommitWithdraw, subscription
  <2>9. QED
    BY <2>1, <2>2, <2>4, <2>6, <2>7, <2>8 DEF Serial
<1>5. OnMadeRows'
  BY <1>1, <1>2, EndsOnMade, MakeKeeps DEF CommitWithdraw, IInv
<1>6. QED
  BY <1>3, <1>4, <1>5 DEF IInv, InOrder

(* A request is cancelled or failed: its amount goes back once.            *)
LEMMA CreditBackInv ==
  ASSUME IInv, NEW h \in Handler, NEW s \in {"CANCELLED", "FAILED"},
         request[h].op \in {"cancel", "fail"}, Marked(request[h].w, s), CreditBack(request[h].w),
         Ends(h), UNCHANGED <<paidIn, topup, milestone, engagement, subscription>>
  PROVE  IInv'
<1> DEFINE w == request[h].w
<1>1. w \in Withdrawal /\ Made(w) /\ request[h] # Idle /\ s \in Status
  BY Shapes DEF IInv, OnMadeRows, Status
<1>2. withdrawal[w].amount \in Nat
  BY <1>1, Rows, AmountsPositive, ConstantsOK DEF IInv, Row
<1> HIDE DEF w
<1>a. Marked(w, s) /\ CreditBack(w)
  BY DEF w
<1>3. TypeOK'
  <2>1. withdrawal' \in [Withdrawal -> {NotMade} \cup Row]
    BY <1>1, <1>a, MarkedType DEF IInv
  <2>2. balance' \in Int /\ refunds' \in [Withdrawal -> Nat]
    BY <1>1, <1>2, <1>a DEF CreditBack, IInv, TypeOK
  <2>3. QED
    BY <2>1, <2>2, EndsType DEF IInv, TypeOK, subscription, Row
<1>4. OnMadeRows'
  BY <1>1, <1>a, EndsOnMade, MarkedKeeps DEF IInv
<1>5. ASSUME ~ overlapped' PROVE Serial'
  <2>1. Serial /\ OneAtATime' /\ ReadsHold'
    BY <1>1, <1>5, EndAlone
  <2>2. Pending(w)
    BY <2>1 DEF Serial, ReadsHold, Undecided, w
  <2>3. /\ withdrawal'[w].status = s /\ withdrawal'[w].m = withdrawal[w].m
        /\ \A v \in Withdrawal \ {w} : withdrawal'[v] = withdrawal[v]
    BY <1>1, <1>a, Rows DEF Marked, IInv, TypeOK, Row
  <2>4. Covered'
    BY <1>2, <1>a, <2>1 DEF Serial, Covered, CreditBack, IInv, TypeOK
  <2>5. GivenBack'
    <3>1. refunds[w] = 0
      BY <1>1, <2>1, <2>2 DEF Serial, GivenBack, Pending
    <3>2. refunds'[w] = 1 /\ \A v \in Withdrawal \ {w} : refunds'[v] = refunds[v]
      BY <1>1, <1>a, <3>1 DEF CreditBack, IInv, TypeOK
    <3>3. QED
      BY <2>1, <2>3, <3>2 DEF Serial, GivenBack
  <2>6. \A v \in Withdrawal, m \in Milestone : Pays(v, m)' <=> Pays(v, m)
    BY <1>1, <2>3 DEF Pays, Made, NotMade
  <2>7. OnePayment'
    BY <2>1, <2>6 DEF Serial, OnePayment
  <2>8. PaidOut'
    BY <2>1, <2>2, <2>3 DEF Serial, PaidOut, Pending
  <2>9. ChargedFor' /\ Closed'
    BY <2>1 DEF Serial, ChargedFor, Closed, subscription
  <2>10. QED
    BY <2>1, <2>4, <2>5, <2>7, <2>8, <2>9 DEF Serial
<1>6. QED
  BY <1>3, <1>4, <1>5 DEF IInv, InOrder

LEMMA ManualInv ==
  ASSUME IInv, NEW h \in Handler, CommitManual(h)
  PROVE  IInv'
<1> DEFINE w == request[h].w
<1>1. w \in Withdrawal /\ Made(w) /\ request[h] # Idle
  BY Shapes DEF IInv, OnMadeRows, CommitManual
<1> HIDE DEF w
<1>a. Marked(w, "COMPLETED") /\ withdrawal[w].m = Manual /\ "COMPLETED" \in Status
  BY DEF w, CommitManual, Status
<1>2. TypeOK'
  <2>1. withdrawal' \in [Withdrawal -> {NotMade} \cup Row]
    BY <1>1, <1>a, MarkedType DEF IInv
  <2>2. QED
    BY <2>1, EndsType DEF IInv, TypeOK, CommitManual, subscription, wallet, Row
<1>3. OnMadeRows'
  BY <1>1, <1>a, EndsOnMade, MarkedKeeps DEF IInv, CommitManual
<1>4. ASSUME ~ overlapped' PROVE Serial'
  <2>1. Serial /\ OneAtATime' /\ ReadsHold'
    BY <1>1, <1>4, EndAlone DEF CommitManual
  <2>2. Pending(w)
    BY <2>1 DEF Serial, ReadsHold, Undecided, CommitManual, w
  <2>3. /\ withdrawal'[w].status = "COMPLETED" /\ withdrawal'[w].m = Manual
        /\ \A v \in Withdrawal \ {w} : withdrawal'[v] = withdrawal[v]
    BY <1>1, <1>a, Rows DEF Marked, IInv, TypeOK, Row
  <2>4. GivenBack' /\ Covered' /\ ChargedFor' /\ Closed'
    BY <2>1, <2>2, <2>3 DEF Serial, GivenBack, Covered, ChargedFor, Closed, Pending,
                            CommitManual, wallet, subscription
  <2>5. \A v \in Withdrawal, m \in Milestone : Pays(v, m)' <=> Pays(v, m)
    BY <1>1, <1>a, <2>3 DEF Pays, Made, NotMade
  <2>6. OnePayment'
    BY <2>1, <2>5 DEF Serial, OnePayment, CommitManual
  <2>7. PaidOut'
    BY <2>1, <1>a, <2>3, ConstantsOK DEF Serial, PaidOut, CommitManual
  <2>8. QED
    BY <2>1, <2>4, <2>6, <2>7 DEF Serial
<1>5. QED
  BY <1>2, <1>3, <1>4 DEF IInv, InOrder

(* The unreleased milestones are counted: only reads.                      *)
LEMMA CountInv ==
  ASSUME IInv, NEW h \in Handler, CountUnreleased(h)
  PROVE  IInv'
<1>1. /\ request[h].w \in Withdrawal /\ Made(request[h].w) /\ request[h] # Idle
  BY Shapes DEF IInv, OnMadeRows, CountUnreleased
<1>w. PICK w \in Withdrawal : w = request[h].w
  BY <1>1
<1>2. withdrawal[w].m \in Milestone
  BY <1>1, <1>w, Rows DEF CountUnreleased, IInv, Row
<1>m. PICK m \in Milestone : m = withdrawal[w].m
  BY <1>2
<1>r. PICK r \in Request : r = [op |-> "released", w |-> w, last |-> OthersReleased(m)]
  BY DEF Request, OthersReleased
<1>3. Becomes(h, r)
  BY <1>w, <1>m, <1>r DEF CountUnreleased
<1>4. UNCHANGED <<wallet, withdrawal, milestone, engagement, subscription>>
  BY DEF CountUnreleased
<1>5. TypeOK'
  BY <1>3, <1>4 DEF IInv, TypeOK, Becomes, wallet, subscription
<1>6. OnMadeRows'
  <2>1. \A g \in Handler : request'[g] = IF g = h THEN r ELSE request[g]
    BY <1>3 DEF Becomes, IInv, TypeOK
  <2>2. QED
    BY <1>1, <1>w, <1>r, <1>4, <2>1 DEF IInv, OnMadeRows, Made
<1>7. ASSUME ~ overlapped' PROVE Serial'
  <2>1. Undecided(r)'
    <3>1. Serial
      BY <1>3, <1>7 DEF Becomes, IInv, InOrder
    <3>2. Pending(w)
      BY <1>w, <3>1 DEF Serial, ReadsHold, Undecided, CountUnreleased
    <3>3. QED
      BY <1>4, <1>r, <3>2 DEF Undecided, Pending
  <2>2. Counted(r)'
    BY <1>m, <1>r, <1>4 DEF Counted, OthersReleased
  <2>3. Afforded(r)' /\ Unsubscribed(r)'
    BY <1>r DEF Afforded, Unsubscribed
  <2>4. Serial /\ OneAtATime' /\ ReadsHold'
    BY <1>1, <1>3, <1>7, <2>1, <2>2, <2>3, StepAlone
  <2>5. GivenBack' /\ Covered' /\ ChargedFor' /\ OnePayment' /\ PaidOut' /\ Closed'
    BY <1>4, <2>4 DEF Serial, GivenBack, Covered, ChargedFor, OnePayment, PaidOut, Closed, Pays,
                      Made, wallet, subscription
  <2>6. QED
    BY <2>4, <2>5 DEF Serial
<1>8. QED
  BY <1>5, <1>6, <1>7 DEF IInv, InOrder

(* The payment of a milestone is confirmed: what was counted still holds,  *)
(* and the milestone waits for this payment alone.                         *)
LEMMA ReleaseInv ==
  ASSUME IInv, NEW h \in Handler, CommitRelease(h)
  PROVE  IInv'
<1> DEFINE w == request[h].w
           m == withdrawal[w].m
<1>1. w \in Withdrawal /\ Made(w) /\ request[h] # Idle /\ "COMPLETED" \in Status
  BY Shapes DEF IInv, OnMadeRows, CommitRelease, Status
<1>2. Marked(w, "COMPLETED") /\ Ends(h) /\ UNCHANGED <<wallet, subscription>>
  BY DEF CommitRelease
<1>3. IF milestone[m] = "APPROVED"
        THEN /\ milestone' = [milestone EXCEPT ![m] = "RELEASED"]
             /\ engagement' = IF request[h].last THEN "CLOSED" ELSE engagement
        ELSE UNCHANGED <<milestone, engagement>>
  BY DEF CommitRelease, CloseIfLast
<1>4. TypeOK'
  <2>1. withdrawal' \in [Withdrawal -> {NotMade} \cup Row]
    BY <1>1, <1>2, MarkedType DEF IInv
  <2>2. request' \in [Handler -> Request] /\ overlapped' \in BOOLEAN
    BY <1>2, EndsType DEF IInv
  <2>3. milestone' \in [Milestone -> {"SUBMITTED", "APPROVED", "RELEASED"}]
    BY <1>3 DEF IInv, TypeOK
  <2>4. engagement' \in {"ACTIVE", "CLOSED"}
    BY <1>3 DEF IInv, TypeOK
  <2>5. QED
    BY <1>2, <2>1, <2>2, <2>3, <2>4 DEF IInv, TypeOK, wallet, subscription, Row
<1>5. OnMadeRows'
  BY <1>1, <1>2, EndsOnMade, MarkedKeeps DEF IInv
<1>6. ASSUME ~ overlapped' PROVE Serial'
  <2>1. Serial /\ OneAtATime' /\ ReadsHold'
    BY <1>1, <1>2, <1>6, EndAlone
  <2>2. Pending(w) /\ m \in Milestone /\ (request[h].last <=> OthersReleased(m))
    BY <2>1 DEF Serial, ReadsHold, Undecided, Counted, CommitRelease
  <2>3. /\ withdrawal'[w].status = "COMPLETED" /\ withdrawal'[w].m = m
        /\ \A v \in Withdrawal \ {w} : withdrawal'[v] = withdrawal[v]
    BY <1>1, <1>2, Rows DEF Marked, IInv, TypeOK, Row
  <2>4. milestone[m] = "APPROVED"
    <3>1. milestone[m] # "SUBMITTED"
      BY <1>1, <2>1, <2>2 DEF Serial, OnePayment, Pays
    <3>2. milestone[m] # "RELEASED"
      <4>1. SUFFICES ASSUME NEW v \in Withdrawal, withdrawal[v].status = "COMPLETED",
                            withdrawal[v].m = m
                     PROVE  FALSE
        BY <2>1, <2>2 DEF Serial, PaidOut
      <4>2. Pays(v, m) /\ Pays(w, m)
        BY <1>1, <4>1 DEF Pays, Made, NotMade
      <4>3. v = w
        BY <1>1, <2>1, <2>2, <4>2 DEF Serial, OnePayment
      <4>4. QED
        BY <2>2, <4>1, <4>3 DEF Pending
    <3>3. QED
      BY <2>2, <3>1, <3>2 DEF IInv, TypeOK
  <2>5. /\ milestone'[m] = "RELEASED"
        /\ \A n \in Milestone \ {m} : milestone'[n] = milestone[n]
        /\ engagement' = IF request[h].last THEN "CLOSED" ELSE engagement
    BY <1>3, <2>2, <2>4 DEF IInv, TypeOK
  <2> HIDE DEF w, m
  <2>6. \A v \in Withdrawal, n \in Milestone : Pays(v, n)' <=> Pays(v, n)
    BY <1>1, <2>3 DEF Pays, Made, NotMade, m
  <2>7. OnePayment'
    BY <2>1, <2>5, <2>6 DEF Serial, OnePayment
  <2>8. PaidOut'
    BY <1>1, <2>1, <2>2, <2>3, <2>5 DEF Serial, PaidOut, Pending
  <2>9. Closed'
    BY <2>2, <2>5 DEF Closed, OthersReleased
  <2>10. GivenBack' /\ Covered' /\ ChargedFor'
    BY <1>2, <2>1, <2>2, <2>3 DEF Serial, GivenBack, Covered, ChargedFor, Pending, wallet, subscription
  <2>11. QED
    BY <2>1, <2>7, <2>8, <2>9, <2>10 DEF Serial
<1>7. QED
  BY <1>4, <1>5, <1>6 DEF IInv, InOrder

-----------------------------------------------------------------------------
LEMMA CheckInv ==
  ASSUME IInv, NEW h \in Handler, CheckBalance(h)
  PROVE  IInv'
<1>1. /\ request[h] # Idle
      /\ request[h] \in [op : {"subscribe", "charge"}, price : Amounts]
  BY DEF CheckBalance, IInv, TypeOK, Request, Idle
<1>2. PICK r \in Request : r = [op |-> "charge", price |-> request[h].price]
  BY <1>1 DEF Request
<1>3. Becomes(h, r) /\ UNCHANGED <<wallet, withdrawal, milestone, engagement, subscription>>
  BY <1>1, <1>2 DEF CheckBalance
<1>4. TypeOK'
  BY <1>2, <1>3 DEF IInv, TypeOK, Becomes, wallet, subscription
<1>5. OnMadeRows'
  <2>1. \A g \in Handler : request'[g] = IF g = h THEN r ELSE request[g]
    BY <1>3 DEF Becomes, IInv, TypeOK
  <2>2. QED
    BY <1>2, <1>3, <2>1 DEF IInv, OnMadeRows, Made
<1>6. ASSUME ~ overlapped' PROVE Serial'
  <2>1. Serial
    BY <1>3, <1>6 DEF Becomes, IInv, InOrder
  <2>2. Unsubscribed(r)'
    BY <1>2, <1>3, <2>1 DEF Serial, ReadsHold, Unsubscribed, CheckBalance, subscription
  <2>3. Undecided(r)' /\ Counted(r)' /\ Afforded(r)'
    BY <1>2, <1>3 DEF Undecided, Counted, Afforded, CheckBalance, Sufficient, wallet
  <2>4. OneAtATime' /\ ReadsHold'
    BY <1>1, <1>2, <1>3, <1>6, <2>2, <2>3, StepAlone
  <2>5. GivenBack' /\ Covered' /\ ChargedFor' /\ OnePayment' /\ PaidOut' /\ Closed'
    BY <1>3, <2>1 DEF Serial, GivenBack, Covered, ChargedFor, OnePayment, PaidOut, Closed, Pays,
                      Made, wallet, subscription
  <2>6. QED
    BY <2>4, <2>5 DEF Serial
<1>7. QED
  BY <1>4, <1>5, <1>6 DEF IInv, InOrder

LEMMA SubscribeInv ==
  ASSUME IInv, NEW h \in Handler, CommitSubscribe(h)
  PROVE  IInv'
<1> DEFINE price == request[h].price
<1>1. price \in Amounts /\ price \in Nat /\ request[h] # Idle
  BY Shapes, AmountsPositive DEF IInv, CommitSubscribe
<1>2. charged' \in Seq(Amounts) /\ Len(charged') = Len(charged) + 1 /\ Len(charged) \in Nat
  BY <1>1 DEF CommitSubscribe, IInv, TypeOK
<1>3. TypeOK'
  <2>1. balance' \in Int /\ pro' \in BOOLEAN
    BY <1>1 DEF IInv, TypeOK, CommitSubscribe
  <2>2. request' \in [Handler -> Request] /\ overlapped' \in BOOLEAN
    BY EndsType DEF IInv, CommitSubscribe
  <2>3. QED
    BY <1>2, <2>1, <2>2 DEF IInv, TypeOK, CommitSubscribe
<1>4. OnMadeRows'
  BY EndsOnMade DEF CommitSubscribe, RowsStay, Made
<1>5. ASSUME ~ overlapped' PROVE Serial'
  <2>1. Serial /\ OneAtATime' /\ ReadsHold'
    BY <1>1, <1>5, EndAlone DEF CommitSubscribe
  <2>2. balance >= price /\ ~ pro
    BY <2>1 DEF Serial, ReadsHold, Afforded, Unsubscribed, CommitSubscribe
  <2>3. Covered'
    BY <1>1, <2>2 DEF Covered, CommitSubscribe, IInv, TypeOK
  <2>4. ChargedFor'
    BY <1>2, <2>1, <2>2 DEF Serial, ChargedFor, CommitSubscribe, IInv, TypeOK
  <2>5. GivenBack' /\ OnePayment' /\ PaidOut' /\ Closed'
    BY <2>1 DEF Serial, GivenBack, OnePayment, PaidOut, Closed, Pays, Made, CommitSubscribe
  <2>6. QED
    BY <2>1, <2>3, <2>4, <2>5 DEF Serial
<1>6. QED
  BY <1>3, <1>4, <1>5 DEF IInv, InOrder

LEMMA LapseInv ==
  ASSUME IInv, Lapse
  PROVE  IInv'
<1>1. TypeOK' /\ OnMadeRows'
  <2>1. TypeOK'
    <3>1. pro' \in BOOLEAN /\ lapsed' \in Nat
      <4>1. pro' = FALSE /\ lapsed' = lapsed + 1
        BY DEF Lapse
      <4>2. lapsed \in Nat
        BY DEF IInv, TypeOK
      <4>3. lapsed' \in Nat
        BY <4>1, <4>2
      <4>4. pro' \in BOOLEAN
        BY <4>1
      <4>5. QED
        BY <4>3, <4>4
    <3>2. UNCHANGED <<balance, paidIn, topup, refunds, withdrawal, milestone, engagement, charged,
                      overlapped, request>>
      BY DEF Lapse, wallet
    <3>3. QED
      BY <3>1, <3>2 DEF IInv, TypeOK
  <2>2. OnMadeRows'
    BY DEF IInv, OnMadeRows, Made, Lapse
  <2>3. QED
    BY <2>1, <2>2
<1>2. ASSUME ~ overlapped' PROVE Serial'
  <2>1. Serial
    BY <1>2 DEF IInv, InOrder, Lapse
  <2>2. OneAtATime' /\ GivenBack' /\ Covered' /\ OnePayment' /\ PaidOut' /\ Closed'
    BY <2>1 DEF Serial, OneAtATime, GivenBack, Covered, OnePayment, PaidOut, Closed, Pays, Made,
                Lapse, wallet
  <2>3. ChargedFor'
    BY <2>1 DEF Serial, ChargedFor, Lapse, IInv, TypeOK
  <2>4. ReadsHold'
    BY <2>1 DEF Serial, ReadsHold, Undecided, Pending, Counted, OthersReleased, Afforded,
                Unsubscribed, Lapse, wallet
  <2>5. QED
    BY <2>1, <2>2, <2>3, <2>4 DEF Serial
<1>3. QED
  BY <1>1, <1>2 DEF IInv, InOrder

LEMMA StopInv ==
  ASSUME IInv, NEW h \in Handler, Stop(h)
  PROVE  IInv'
<1>1. request' \in [Handler -> Request] /\ overlapped' \in BOOLEAN
  BY EndsType DEF IInv, Stop
<1>2. TypeOK' /\ OnMadeRows'
  BY <1>1, EndsOnMade DEF IInv, TypeOK, RowsStay, Made, Stop, wallet, subscription
<1>3. ASSUME ~ overlapped' PROVE Serial'
  <2>1. Serial /\ OneAtATime' /\ ReadsHold'
    BY <1>3, EndAlone DEF Stop
  <2>2. GivenBack' /\ Covered' /\ ChargedFor' /\ OnePayment' /\ PaidOut' /\ Closed'
    BY <2>1 DEF Serial, GivenBack, Covered, ChargedFor, OnePayment, PaidOut, Closed, Pays, Made,
                Stop, wallet, subscription
  <2>3. QED
    BY <2>1, <2>2 DEF Serial
<1>4. QED
  BY <1>2, <1>3 DEF IInv, InOrder

-----------------------------------------------------------------------------
(* A milestone is approved, whatever is in progress: its row is new, the   *)
(* balance does not fall, and it was not released and is not now.          *)
LEMMA ApproveKeeps ==
  ASSUME IInv, NEW m \in Milestone, Approve(m)
  PROVE  /\ milestone' \in [Milestone -> {"SUBMITTED", "APPROVED", "RELEASED"}]
         /\ engagement' \in {"ACTIVE", "CLOSED"}
         /\ milestone'[m] = "APPROVED" /\ milestone[m] = "SUBMITTED"
         /\ \A n \in Milestone \ {m} : milestone'[n] = milestone[n]
         /\ \A n \in Milestone : OthersReleased(n)' <=> OthersReleased(n)
         /\ Closed'
<1>1. /\ milestone' \in [Milestone -> {"SUBMITTED", "APPROVED", "RELEASED"}]
      /\ engagement' \in {"ACTIVE", "CLOSED"}
      /\ milestone'[m] = "APPROVED" /\ milestone[m] = "SUBMITTED"
      /\ \A n \in Milestone \ {m} : milestone'[n] = milestone[n]
  BY DEF Approve, IInv, TypeOK
<1>2. \A n \in Milestone : milestone'[n] = "RELEASED" <=> milestone[n] = "RELEASED"
  BY <1>1
<1>3. \A n \in Milestone : OthersReleased(n)' <=> OthersReleased(n)
  BY <1>2 DEF OthersReleased
<1>4. Closed'
  BY <1>1 DEF Closed
<1>5. QED
  BY <1>1, <1>3, <1>4

LEMMA LinkedInv ==
  ASSUME IInv, NEW m \in Milestone, ApproveLinked(m)
  PROVE  IInv'
<1>1. PICK w \in Withdrawal : Make(w, m, Net)
  BY DEF ApproveLinked
<1>2. /\ Approve(m) /\ balance' = balance
      /\ UNCHANGED <<topup, refunds, subscription, overlapped, request>>
  BY DEF ApproveLinked, Approve
<1>3. TypeOK'
  <2>1. withdrawal' \in [Withdrawal -> {NotMade} \cup Row]
    BY <1>1, MakeType DEF IInv
  <2>2. paidIn' \in Nat
    BY ConstantsOK DEF ApproveLinked, IInv, TypeOK
  <2>3. QED
    BY <1>2, <2>1, <2>2, ApproveKeeps DEF IInv, TypeOK, Row, subscription
<1>4. OnMadeRows'
  <2>1. \A h \in Handler :
          request[h].op \in {"cancel", "fail", "complete", "released"} => request[h].w \in Withdrawal
    BY Shapes DEF IInv
  <2>2. QED
    BY <1>1, <1>2, <2>1, MakeKeeps DEF IInv, OnMadeRows, RowsStay
<1>5. ASSUME ~ overlapped' PROVE Serial'
  <2>1. Serial
    BY <1>2, <1>5 DEF IInv, InOrder
  <2>2. /\ withdrawal'[w] = [status |-> "PENDING", m |-> m, amount |-> Net]
        /\ withdrawal[w] = NotMade
        /\ \A v \in Withdrawal \ {w} : withdrawal'[v] = withdrawal[v]
    BY <1>1 DEF Make, IInv, TypeOK
  <2>3. OneAtATime' /\ Covered' /\ ChargedFor' /\ Closed'
    BY <1>2, <2>1, ApproveKeeps DEF Serial, OneAtATime, Covered, ChargedFor, subscription
  <2>4. ReadsHold'
    <3>1. SUFFICES ASSUME NEW h \in Handler
                   PROVE  /\ Undecided(request[h])' /\ Counted(request[h])'
                          /\ Afforded(request[h])' /\ Unsubscribed(request[h])'
      BY DEF ReadsHold
    <3>2. /\ Undecided(request[h]) /\ Counted(request[h])
          /\ Afforded(request[h]) /\ Unsubscribed(request[h])
      BY <2>1 DEF Serial, ReadsHold
    <3>3. request'[h] = request[h]
      BY <1>2
    <3>4. request[h].op \in {"cancel", "fail", "complete", "released"} =>
            withdrawal'[request[h].w] = withdrawal[request[h].w]
      <4>1. request[h].op \in {"cancel", "fail", "complete", "released"} =>
              request[h].w \in Withdrawal /\ Made(request[h].w)
        BY Shapes DEF IInv, OnMadeRows
      <4>2. QED
        BY <2>2, <4>1 DEF Made
    <3>5. Undecided(request[h])'
      BY <3>2, <3>3, <3>4 DEF Undecided, Pending
    <3>6. Counted(request[h])'
      BY <1>2, <3>2, <3>3, <3>4, ApproveKeeps DEF Counted
    <3>7. Afforded(request[h])' /\ Unsubscribed(request[h])'
      BY <1>2, <3>2, <3>3 DEF Afforded, Unsubscribed, subscription
    <3>8. QED
      BY <3>5, <3>6, <3>7
  <2>5. GivenBack'
    BY <1>2, <2>1, <2>2 DEF Serial, GivenBack, NotMade
  <2>6. OnePayment'
    <3>1. \A v \in Withdrawal, n \in Milestone :
            Pays(v, n)' <=> Pays(v, n) \/ (v = w /\ n = m)
      BY <2>2 DEF Pays, Made, NotMade
    <3>2. \A v \in Withdrawal : ~ Pays(v, m)
      BY <1>2, <2>1, ApproveKeeps DEF Serial, OnePayment
    <3>3. \A n \in Milestone : milestone[n] # "SUBMITTED" => milestone'[n] # "SUBMITTED"
      BY <1>2, ApproveKeeps
    <3>4. milestone'[m] # "SUBMITTED"
      BY <1>2, ApproveKeeps
    <3>5. QED
      BY <2>1, <3>1, <3>2, <3>3, <3>4 DEF Serial, OnePayment
  <2>7. PaidOut'
    <3>1. \A n \in Milestone : milestone'[n] = "RELEASED" <=> milestone[n] = "RELEASED"
      BY <1>2, ApproveKeeps
    <3>2. \A v \in Withdrawal, n \in Milestone :
             (withdrawal'[v].status = "COMPLETED" /\ withdrawal'[v].m = n) <=>
             (withdrawal[v].status = "COMPLETED" /\ withdrawal[v].m = n)
      BY <2>2 DEF NotMade
    <3>3. QED
      BY <2>1, <3>1, <3>2 DEF Serial, PaidOut
  <2>8. QED
    BY <2>3, <2>4, <2>5, <2>6, <2>7 DEF Serial
<1>6. QED
  BY <1>3, <1>4, <1>5 DEF IInv, InOrder

LEMMA UnlinkedInv ==
  ASSUME IInv, NEW m \in Milestone, ApproveUnlinked(m)
  PROVE  IInv'
<1>1. PICK part \in {0, Net} : balance' = balance + part /\ paidIn' = paidIn + part
  BY DEF ApproveUnlinked
<1>2. /\ Approve(m) /\ withdrawal' = withdrawal
      /\ UNCHANGED <<topup, refunds, subscription, overlapped, request>>
  BY DEF ApproveUnlinked, Approve
<1>3. part \in Nat
  BY ConstantsOK
<1>4. TypeOK'
  <2>1. balance' \in Int /\ paidIn' \in Nat
    BY <1>1, <1>3 DEF IInv, TypeOK
  <2>2. QED
    BY <1>2, <2>1, ApproveKeeps DEF IInv, TypeOK, subscription
<1>5. OnMadeRows'
  BY <1>2 DEF IInv, OnMadeRows, Made
<1>6. ASSUME ~ overlapped' PROVE Serial'
  <2>1. Serial
    BY <1>2, <1>6 DEF IInv, InOrder
  <2>2. OneAtATime' /\ GivenBack' /\ ChargedFor' /\ Closed'
    BY <1>2, <2>1, ApproveKeeps DEF Serial, OneAtATime, GivenBack, ChargedFor, subscription
  <2>3. Covered'
    BY <1>1, <1>3, <2>1 DEF Serial, Covered, IInv, TypeOK
  <2>4. ReadsHold'
    <3>1. SUFFICES ASSUME NEW h \in Handler
                   PROVE  /\ Undecided(request[h])' /\ Counted(request[h])'
                          /\ Afforded(request[h])' /\ Unsubscribed(request[h])'
      BY DEF ReadsHold
    <3>2. /\ Undecided(request[h]) /\ Counted(request[h])
          /\ Afforded(request[h]) /\ Unsubscribed(request[h])
      BY <2>1 DEF Serial, ReadsHold
    <3>3. request'[h] = request[h] /\ withdrawal' = withdrawal
      BY <1>2
    <3>4. Undecided(request[h])' /\ Unsubscribed(request[h])'
      BY <1>2, <3>2, <3>3 DEF Undecided, Pending, Unsubscribed, subscription
    <3>5. Counted(request[h])'
      BY <1>2, <3>2, <3>3, ApproveKeeps DEF Counted
    <3>6. Afforded(request[h])'
      <4>1. request[h].op = "withdraw" => request[h].amount \in Nat
        BY Shapes, AmountsPositive DEF IInv
      <4>2. request[h].op = "charge" => request[h].price \in Nat
        BY Shapes, AmountsPositive DEF IInv
      <4>3. QED
        BY <1>1, <1>3, <3>2, <3>3, <4>1, <4>2 DEF Afforded, IInv, TypeOK
    <3>7. QED
      BY <3>4, <3>5, <3>6
  <2>5. OnePayment'
    <3>1. \A v \in Withdrawal, n \in Milestone : Pays(v, n)' <=> Pays(v, n)
      BY <1>2 DEF Pays, Made
    <3>2. \A n \in Milestone : milestone[n] # "SUBMITTED" => milestone'[n] # "SUBMITTED"
      BY <1>2, ApproveKeeps
    <3>3. QED
      BY <2>1, <3>1, <3>2 DEF Serial, OnePayment
  <2>6. PaidOut'
    <3>1. \A n \in Milestone : milestone'[n] = "RELEASED" <=> milestone[n] = "RELEASED"
      BY <1>2, ApproveKeeps
    <3>2. QED
      BY <1>2, <2>1, <3>1 DEF Serial, PaidOut
  <2>7. QED
    BY <2>2, <2>3, <2>4, <2>5, <2>6 DEF Serial
<1>7. QED
  BY <1>4, <1>5, <1>6 DEF IInv, InOrder

-----------------------------------------------------------------------------
LEMMA NextInv == IInv /\ [Next]_vars => IInv'
<1> SUFFICES ASSUME IInv, [Next]_vars PROVE IInv'
  OBVIOUS
<1>1. ASSUME NEW h \in Handler, NEW p \in Payment, NEW amount \in Amounts, BeginTopup(h, p, amount)
      PROVE  IInv'
  <2> DEFINE r == [op |-> "topup", p |-> p, amount |-> amount]
  <2>1. r \in Request /\ r.op # "released" /\ Undecided(r) /\ Afforded(r) /\ Unsubscribed(r)
    BY DEF Request, Undecided, Afforded, Unsubscribed
  <2>2. Starts(h, r) /\ UNCHANGED <<wallet, withdrawal, milestone, engagement, subscription>>
    BY <1>1 DEF BeginTopup
  <2> HIDE DEF r
  <2>3. QED
    BY <2>1, <2>2, BeginInv
<1>2. ASSUME NEW h \in Handler, NEW amount \in Amounts, BeginWithdraw(h, amount)
      PROVE  IInv'
  <2> DEFINE r == [op |-> "withdraw", amount |-> amount]
  <2>1. r \in Request /\ r.op # "released" /\ Undecided(r) /\ Afforded(r) /\ Unsubscribed(r)
    BY <1>2 DEF Request, Undecided, Afforded, Unsubscribed, BeginWithdraw, Sufficient
  <2>2. Starts(h, r) /\ UNCHANGED <<wallet, withdrawal, milestone, engagement, subscription>>
    BY <1>2 DEF BeginWithdraw
  <2> HIDE DEF r
  <2>3. QED
    BY <2>1, <2>2, BeginInv
<1>3. ASSUME NEW h \in Handler, NEW w \in Withdrawal, NEW op \in {"cancel", "fail", "complete"},
             Decide(h, op, w)
      PROVE  IInv'
  <2> DEFINE r == [op |-> op, w |-> w]
  <2>1. r \in Request /\ r.op # "released" /\ Undecided(r) /\ Afforded(r) /\ Unsubscribed(r)
    BY <1>3 DEF Request, Undecided, Afforded, Unsubscribed, Decide
  <2>2. Starts(h, r) /\ UNCHANGED <<wallet, withdrawal, milestone, engagement, subscription>>
    BY <1>3 DEF Decide
  <2> HIDE DEF r
  <2>3. QED
    BY <2>1, <2>2, BeginInv
<1>4. ASSUME NEW h \in Handler, NEW price \in Amounts, BeginSubscribe(h, price)
      PROVE  IInv'
  <2> DEFINE r == [op |-> "subscribe", price |-> price]
  <2>1. r \in Request /\ r.op # "released" /\ Undecided(r) /\ Afforded(r) /\ Unsubscribed(r)
    BY <1>4 DEF Request, Undecided, Afforded, Unsubscribed, BeginSubscribe
  <2>2. Starts(h, r) /\ UNCHANGED <<wallet, withdrawal, milestone, engagement, subscription>>
    BY <1>4 DEF BeginSubscribe
  <2> HIDE DEF r
  <2>3. QED
    BY <2>1, <2>2, BeginInv
<1>5. ASSUME NEW h \in Handler, CommitCancel(h) \/ CommitFail(h)
      PROVE  IInv'
  <2>1. CASE CommitCancel(h)
    <3>1. request[h].op \in {"cancel", "fail"} /\ Marked(request[h].w, "CANCELLED")
      BY <2>1 DEF CommitCancel
    <3>2. /\ CreditBack(request[h].w) /\ Ends(h)
          /\ UNCHANGED <<paidIn, topup, milestone, engagement, subscription>>
      BY <2>1 DEF CommitCancel
    <3>3. QED
      BY <3>1, <3>2, CreditBackInv
  <2>2. CASE CommitFail(h)
    <3>1. request[h].op \in {"cancel", "fail"} /\ Marked(request[h].w, "FAILED")
      BY <2>2 DEF CommitFail
    <3>2. /\ CreditBack(request[h].w) /\ Ends(h)
          /\ UNCHANGED <<paidIn, topup, milestone, engagement, subscription>>
      BY <2>2 DEF CommitFail
    <3>3. QED
      BY <3>1, <3>2, CreditBackInv
  <2>3. QED
    BY <1>5, <2>1, <2>2
<1>6. ASSUME NEW h \in Handler, Serve(h)
      PROVE  IInv'
  BY <1>1, <1>2, <1>3, <1>4, <1>5, <1>6, TopupInv, WithdrawInv, ManualInv, CountInv, ReleaseInv,
     CheckInv, SubscribeInv, StopInv DEF Serve, BeginCancel, BeginFail, BeginComplete
<1>7. CASE UNCHANGED vars
  <2>1. TypeOK' /\ OnMadeRows'
    BY <1>7 DEF IInv, TypeOK, OnMadeRows, Made, vars, subscription
  <2>2. Serial => Serial'
    BY <1>7 DEF Serial, OneAtATime, ReadsHold, Undecided, Pending, Counted, OthersReleased,
                Afforded, Unsubscribed, GivenBack, Covered, ChargedFor, OnePayment, Pays, Made,
                PaidOut, Closed, vars, subscription
  <2>3. QED
    BY <1>7, <2>1, <2>2 DEF IInv, InOrder, vars
<1>8. QED
  BY <1>6, <1>7, LinkedInv, UnlinkedInv, LapseInv DEF Next

THEOREM Invariant == Spec => []IInv
BY InitInv, NextInv, PTL DEF Spec

-----------------------------------------------------------------------------
(* Every column of the wallet, its requests and subscriptions keeps its    *)
(* type, however requests overlap.                                         *)
THEOREM TypeCorrect == Spec => []TypeOK
<1>1. IInv => TypeOK
  BY DEF IInv
<1>2. QED
  BY <1>1, Invariant, PTL

(* Requests served one after the other give the money of a failed or       *)
(* cancelled withdrawal back exactly once, and no other's.                 *)
THEOREM RefundedOnce == Spec => []GivenBackOnce
<1>1. IInv => GivenBackOnce
  BY DEF IInv, InOrder, Serial, GivenBack, GivenBackOnce
<1>2. QED
  BY <1>1, Invariant, PTL

(* Requests served one after the other never spend or withdraw more than   *)
(* the balance.                                                            *)
THEOREM SpendsWhatIsThere == Spec => []NeverOverdrawn
<1>1. IInv => NeverOverdrawn
  BY DEF IInv, InOrder, Serial, Covered, NeverOverdrawn
<1>2. QED
  BY <1>1, Invariant, PTL

(* Requests served one after the other charge a subscription once for each *)
(* period it runs or ran.                                                  *)
THEOREM ChargedPerPeriod == Spec => []OneChargePerPeriod
<1>1. IInv => OneChargePerPeriod
  BY DEF IInv, InOrder, Serial, ChargedFor, OneChargePerPeriod
<1>2. QED
  BY <1>1, Invariant, PTL

(* Requests served one after the other release a milestone exactly when    *)
(* its payment is confirmed, and close the engagement with the last.       *)
THEOREM PaidOutAndReleased == Spec => []ReleasedWhenPaidOut
<1>1. IInv => ReleasedWhenPaidOut
  BY DEF IInv, InOrder, Serial, PaidOut, Closed, ReleasedWhenPaidOut
<1>2. QED
  BY <1>1, Invariant, PTL

-----------------------------------------------------------------------------
(* Sums.  total gives the sum of f over every set of its indices; it is    *)
(* what SumFunction computes, in whichever order.                          *)
Adds(f, total) ==
  /\ total \in [SUBSET DOMAIN f -> Int]
  /\ total[{}] = 0
  /\ \A s \in SUBSET DOMAIN f : \A x \in s : total[s] = f[x] + total[s \ {x}]

Summable(f) ==
  /\ IsFiniteSet(DOMAIN f) /\ \A x \in DOMAIN f : f[x] \in Int
  /\ \E total : Adds(f, total)

LEMMA SumIsTotal ==
  ASSUME NEW f, IsFiniteSet(DOMAIN f), NEW total, Adds(f, total)
  PROVE  SumFunction(f) = total[DOMAIN f] /\ SumFunction(f) \in Int
<1> DEFINE S == SUBSET DOMAIN f
           Step(g) == [s \in S |-> IF s = {} THEN 0
                                   ELSE LET x == CHOOSE x \in s : TRUE IN f[x] + g[s \ {x}]]
           iter == CHOOSE g : g = Step(g)
<1>1. SumFunction(f) = iter[DOMAIN f]
  BY DEF SumFunction, SumFunctionOnSet, FoldFunctionOnSet, MapThenFoldSet
<1>2. total = Step(total)
  <2>1. total = [s \in S |-> total[s]]
    BY DEF Adds
  <2>2. ASSUME NEW s \in S
        PROVE  total[s] = Step(total)[s]
    BY DEF Adds
  <2>3. QED
    BY <2>1, <2>2
<1>3. iter = Step(iter)
  <2> HIDE DEF Step
  <2>1. QED
    BY <1>2
<1>4. ASSUME NEW s \in S, s # {}
      PROVE  \E x \in s : iter[s] = f[x] + iter[s \ {x}] /\ total[s] = f[x] + total[s \ {x}]
  <2> DEFINE x == CHOOSE x \in s : TRUE
  <2>1. x \in s
    BY <1>4
  <2>2. iter[s] = f[x] + iter[s \ {x}]
    <3> HIDE DEF iter
    <3>1. iter[s] = Step(iter)[s]
      BY <1>3
    <3>2. QED
      BY <1>4, <3>1
  <2>3. QED
    BY <2>1, <2>2 DEF Adds
<1>5. iter[{}] = 0 /\ total[{}] = 0
  <2> HIDE DEF iter
  <2>1. iter[{}] = Step(iter)[{}]
    BY <1>3
  <2>2. QED
    BY <2>1 DEF Adds
<1> HIDE DEF iter
<1>6. ASSUME NEW T, T = {s \in S : iter[s] # total[s]}, T # {}
      PROVE  FALSE
  <2>1. IsWellFoundedOn(StrictSubsetOrdering(DOMAIN f), S)
    BY FS_StrictSubsetOrderingWellFounded, FS_FiniteSubsetsOfFinite
  <2>2. PICK s \in T : \A t \in T : <<t, s>> \notin StrictSubsetOrdering(DOMAIN f)
    BY <1>6, <2>1, WFMin
  <2>3. s \in S /\ s # {}
    BY <1>5, <1>6
  <2>4. PICK x \in s : iter[s] = f[x] + iter[s \ {x}] /\ total[s] = f[x] + total[s \ {x}]
    BY <1>4, <2>3
  <2>5. s \ {x} \in S \ T
    BY <2>2, <2>3 DEF StrictSubsetOrdering
  <2>6. QED
    BY <1>6, <2>4, <2>5
<1>7. iter[DOMAIN f] = total[DOMAIN f]
  BY <1>6
<1>8. QED
  BY <1>1, <1>7 DEF Adds

LEMMA ZeroSum ==
  ASSUME NEW f, IsFiniteSet(DOMAIN f), \A x \in DOMAIN f : f[x] = 0
  PROVE  Summable(f) /\ SumFunction(f) = 0
<1> DEFINE total == [s \in SUBSET DOMAIN f |-> 0]
<1>1. Adds(f, total)
  BY DEF Adds
<1>2. total[DOMAIN f] = 0
  OBVIOUS
<1> HIDE DEF total
<1>3. QED
  BY <1>1, <1>2, SumIsTotal DEF Summable

(* One value changes.                                                      *)
LEMMA ChangedSum ==
  ASSUME NEW f, Summable(f), NEW g, DOMAIN g = DOMAIN f, NEW x \in DOMAIN f,
         g[x] \in Int, \A y \in DOMAIN f \ {x} : g[y] = f[y]
  PROVE  Summable(g) /\ SumFunction(g) = SumFunction(f) - f[x] + g[x]
<1>1. PICK old : Adds(f, old)
  BY DEF Summable
<1>2. PICK change \in Int : change = g[x] - f[x]
  BY DEF Summable
<1> DEFINE total == [s \in SUBSET DOMAIN f |-> old[s] + (IF x \in s THEN change ELSE 0)]
<1>3. total \in [SUBSET DOMAIN g -> Int] /\ total[{}] = 0
  <2>1. \A s \in SUBSET DOMAIN f : total[s] \in Int
    BY <1>1 DEF Adds
  <2>2. total[{}] = 0
    BY <1>1 DEF Adds
  <2>3. QED
    BY <2>1, <2>2
<1>4. ASSUME NEW s \in SUBSET DOMAIN g, NEW y \in s
      PROVE  total[s] = g[y] + total[s \ {y}]
  <2>1. /\ old[s] = f[y] + old[s \ {y}] /\ old[s \ {y}] \in Int
        /\ f[y] \in Int /\ g[y] \in Int
    BY <1>1 DEF Adds, Summable
  <2>2. CASE y = x
    <3>1. total[s] = old[s] + change /\ total[s \ {y}] = old[s \ {y}] + 0
      BY <2>2
    <3> HIDE DEF total
    <3>2. QED
      BY <1>2, <2>1, <2>2, <3>1
  <2>3. CASE y # x
    <3>1. PICK tail \in Int : tail = IF x \in s THEN change ELSE 0
      OBVIOUS
    <3>2. total[s] = old[s] + tail /\ total[s \ {y}] = old[s \ {y}] + tail /\ g[y] = f[y]
      BY <2>3, <3>1
    <3> HIDE DEF total
    <3>3. QED
      BY <2>1, <3>2
  <2>4. QED
    BY <2>2, <2>3
<1>5. Adds(g, total)
  BY <1>3, <1>4 DEF Adds
<1>6. total[DOMAIN f] = old[DOMAIN f] + change
  OBVIOUS
<1> HIDE DEF total
<1>7. old[DOMAIN f] \in Int /\ f[x] \in Int
  BY <1>1 DEF Adds, Summable
<1>8. Summable(g)
  BY <1>5 DEF Summable
<1>9. SumFunction(g) = old[DOMAIN f] + change /\ SumFunction(f) = old[DOMAIN f]
  BY <1>1, <1>5, <1>6, SumIsTotal DEF Summable
<1>10. QED
  BY <1>2, <1>7, <1>8, <1>9

(* One value is added.                                                     *)
LEMMA LongerSum ==
  ASSUME NEW f, Summable(f), NEW g, NEW x, x \notin DOMAIN f, DOMAIN g = DOMAIN f \cup {x},
         g[x] \in Int, \A y \in DOMAIN f : g[y] = f[y]
  PROVE  Summable(g) /\ SumFunction(g) = SumFunction(f) + g[x]
<1>1. PICK old : Adds(f, old)
  BY DEF Summable
<1> DEFINE total == [s \in SUBSET DOMAIN g |-> old[s \ {x}] + (IF x \in s THEN g[x] ELSE 0)]
<1>2. \A s \in SUBSET DOMAIN g : s \ {x} \in SUBSET DOMAIN f
  OBVIOUS
<1>3. total \in [SUBSET DOMAIN g -> Int] /\ total[{}] = 0
  <2>1. {} \ {x} = {}
    OBVIOUS
  <2>2. \A s \in SUBSET DOMAIN g : total[s] \in Int
    BY <1>1, <1>2 DEF Adds
  <2>3. total[{}] = 0
    BY <1>1, <2>1 DEF Adds
  <2>4. QED
    BY <2>2, <2>3
<1>4. ASSUME NEW s \in SUBSET DOMAIN g, NEW y \in s
      PROVE  total[s] = g[y] + total[s \ {y}]
  <2>1. CASE y = x
    <3>1. (s \ {y}) \ {x} = s \ {x} /\ old[s \ {x}] \in Int
      BY <1>1, <1>2, <2>1 DEF Adds
    <3>2. total[s] = old[s \ {x}] + g[x] /\ total[s \ {y}] = old[s \ {x}] + 0
      BY <2>1, <3>1
    <3> HIDE DEF total
    <3>3. QED
      BY <2>1, <3>1, <3>2
  <2>2. CASE y # x
    <3>1. (s \ {y}) \ {x} = (s \ {x}) \ {y} /\ y \in s \ {x} /\ s \ {x} \in SUBSET DOMAIN f
      BY <1>2, <2>2
    <3>2. /\ old[s \ {x}] = f[y] + old[(s \ {x}) \ {y}]
          /\ old[(s \ {x}) \ {y}] \in Int /\ f[y] \in Int /\ g[y] = f[y]
      BY <1>1, <3>1 DEF Adds, Summable
    <3>3. PICK tail \in Int : tail = IF x \in s THEN g[x] ELSE 0
      OBVIOUS
    <3>4. /\ total[s] = old[s \ {x}] + tail
          /\ total[s \ {y}] = old[(s \ {x}) \ {y}] + tail
      BY <2>2, <3>1, <3>3
    <3> HIDE DEF total
    <3>5. QED
      BY <3>2, <3>4
  <2>3. QED
    BY <2>1, <2>2
<1>5. Adds(g, total)
  BY <1>3, <1>4 DEF Adds
<1>6. total[DOMAIN g] = old[DOMAIN f] + g[x]
  <2>1. (DOMAIN g) \ {x} = DOMAIN f
    OBVIOUS
  <2>2. QED
    BY <2>1
<1> HIDE DEF total
<1>7. IsFiniteSet(DOMAIN g)
  BY FS_AddElement DEF Summable
<1>8. \A y \in DOMAIN g : g[y] \in Int
  BY DEF Summable
<1>9. QED
  BY <1>1, <1>5, <1>6, <1>7, <1>8, SumIsTotal DEF Summable

-----------------------------------------------------------------------------
(* The books, whatever overlaps: a row that was not made was not given     *)
(* back, and what was taken, and charged, adds up.                         *)
Books ==
  /\ \A w \in Withdrawal : ~ Made(w) => refunds[w] = 0
  /\ Summable(charged) /\ Summable(Taken)
  /\ BooksBalance

LEMMA InitBooks == Init => Books
<1> SUFFICES ASSUME Init PROVE Books
  OBVIOUS
<1>1. DOMAIN charged = {}
  BY DEF Init
<1>2. Summable(charged) /\ SumFunction(charged) = 0
  BY <1>1, ZeroSum, FS_EmptySet
<1>3. DOMAIN Taken = Withdrawal /\ \A w \in Withdrawal : Taken[w] = 0
  BY DEF Init, Taken, Made
<1>4. Summable(Taken) /\ SumFunction(Taken) = 0
  BY <1>3, ZeroSum, ConstantsOK
<1>5. balance = 0 /\ paidIn = 0 /\ \A w \in Withdrawal : refunds[w] = 0
  BY DEF Init
<1>6. QED
  BY <1>2, <1>4, <1>5 DEF Books, BooksBalance

(* The sums, and what is taken by one request, are numbers.                *)
LEMMA Numbers ==
  ASSUME IInv, Books
  PROVE  /\ SumFunction(charged) \in Int /\ SumFunction(Taken) \in Int
         /\ DOMAIN Taken = Withdrawal /\ \A w \in Withdrawal : Taken[w] \in Int
         /\ balance \in Int /\ paidIn \in Int
<1>1. SumFunction(charged) \in Int /\ SumFunction(Taken) \in Int
  BY SumIsTotal DEF Books, Summable
<1>2. QED
  BY <1>1 DEF Books, Summable, Taken, IInv, TypeOK

(* What is paid in is added to the balance; nothing is taken or charged.   *)
LEMMA PaidInBooks ==
  ASSUME IInv, Books, NEW amount \in Nat, balance' = balance + amount, paidIn' = paidIn + amount,
         UNCHANGED <<withdrawal, refunds, charged>>
  PROVE  Books'
<1>1. Taken' = Taken
  BY DEF Taken, Made
<1>2. balance' + SumFunction(charged) = paidIn' - SumFunction(Taken)
  <2>1. balance + SumFunction(charged) = paidIn - SumFunction(Taken)
    BY DEF Books, BooksBalance
  <2>2. PICK c \in Int, w \in Int : c = SumFunction(charged) /\ w = SumFunction(Taken)
    BY Numbers
  <2>3. balance \in Int /\ paidIn \in Int
    BY Numbers
  <2>4. QED
    BY <2>1, <2>2, <2>3
<1>3. BooksBalance'
  BY <1>1, <1>2 DEF BooksBalance
<1>4. QED
  BY <1>1, <1>3 DEF Books, Made

(* Nothing moves.                                                          *)
LEMMA SameBooks ==
  ASSUME Books, UNCHANGED <<balance, paidIn, charged, refunds, withdrawal>>
  PROVE  Books'
<1>1. Taken' = Taken
  BY DEF Taken, Made
<1>2. QED
  BY <1>1 DEF Books, BooksBalance, Made

(* One request is made, marked or given back.                              *)
LEMMA OneTaken ==
  ASSUME IInv, Books, NEW w \in Withdrawal, NEW more \in Int,
         Taken'[w] = Taken[w] + more, balance' = balance - more + (paidIn' - paidIn),
         paidIn' \in Int, \A v \in Withdrawal \ {w} : Taken'[v] = Taken[v],
         \A v \in Withdrawal : ~ Made(v)' => refunds'[v] = 0,
         UNCHANGED charged
  PROVE  Books'
<1>1. DOMAIN Taken' = DOMAIN Taken /\ w \in DOMAIN Taken
  BY DEF Taken
<1>2. Summable(Taken') /\ SumFunction(Taken') = SumFunction(Taken) - Taken[w] + Taken'[w]
  <2>1. Taken'[w] \in Int
    BY Numbers
  <2>2. QED
    BY <1>1, <2>1, Numbers, ChangedSum DEF Books
<1>3. BooksBalance'
  <2>1. balance' + SumFunction(charged) = paidIn' - SumFunction(Taken')
    BY <1>2, Numbers DEF Books, BooksBalance
  <2>2. QED
    BY <2>1 DEF BooksBalance
<1>4. QED
  BY <1>2, <1>3 DEF Books

LEMMA MadeBooks ==
  ASSUME IInv, Books, NEW w \in Withdrawal, NEW m, NEW a \in Int,
         Make(w, m, a), UNCHANGED <<refunds, charged>>,
         paidIn' \in Int, balance' = balance - a + (paidIn' - paidIn)
  PROVE  Books'
<1>1. /\ withdrawal[w] = NotMade /\ withdrawal'[w].amount = a /\ withdrawal'[w] # NotMade
      /\ \A v \in Withdrawal \ {w} : withdrawal'[v] = withdrawal[v]
  BY DEF Make, NotMade, IInv, TypeOK
<1>2. refunds[w] = 0
  BY <1>1 DEF Books, Made
<1>3. Taken[w] = 0 /\ Taken'[w] = (1 - 0) * a
  BY <1>1, <1>2 DEF Taken, Made
<1>4. \A v \in Withdrawal \ {w} : Taken'[v] = Taken[v]
  BY <1>1 DEF Taken, Made
<1>5. \A v \in Withdrawal : ~ Made(v)' => refunds'[v] = 0
  BY <1>1 DEF Books, Made
<1>6. QED
  BY <1>3, <1>4, <1>5, OneTaken

LEMMA GivenBackOf ==
  ASSUME NEW n \in Nat, NEW a \in Int
  PROVE  (1 - (n + 1)) * a = (1 - n) * a + (0 - a)
<1>1. (1 - (n + 1)) * a = 0 - n * a
  OBVIOUS
<1>2. (1 - n) * a = a - n * a
  OBVIOUS
<1>3. n * a \in Int
  OBVIOUS
<1>4. QED
  BY <1>1, <1>2, <1>3

(* The status of a request is marked; its amount stays.                    *)
LEMMA MarkedRow ==
  ASSUME IInv, NEW w \in Withdrawal, Made(w), NEW s \in Status, Marked(w, s)
  PROVE  /\ withdrawal'[w].amount = withdrawal[w].amount /\ withdrawal[w].amount \in Int
         /\ \A v \in Withdrawal \ {w} : withdrawal'[v] = withdrawal[v]
         /\ \A v \in Withdrawal : Made(v)' <=> Made(v)
<1>1. withdrawal[w] \in Row
  BY Rows DEF IInv
<1>2. withdrawal'[w] = [withdrawal[w] EXCEPT !.status = s]
  BY DEF Marked, IInv, TypeOK
<1>3. withdrawal'[w].amount = withdrawal[w].amount /\ withdrawal'[w].status = s
  BY <1>1, <1>2 DEF Row
<1>4. withdrawal[w].amount \in Int
  <2>1. withdrawal[w].amount \in Amounts \cup {Net}
    BY <1>1 DEF Row
  <2>2. \A a \in Amounts \cup {Net} : a \in Int
    BY ConstantsOK
  <2>3. QED
    BY <2>1, <2>2
<1>5. \A v \in Withdrawal \ {w} : withdrawal'[v] = withdrawal[v]
  BY DEF Marked, IInv, TypeOK
<1>6. withdrawal'[w] # NotMade
  BY <1>3 DEF NotMade, Status
<1>7. QED
  BY <1>3, <1>4, <1>5, <1>6 DEF Made

LEMMA CreditBackBooks ==
  ASSUME IInv, Books, NEW w \in Withdrawal, Made(w), NEW s \in Status, Marked(w, s),
         CreditBack(w), UNCHANGED <<paidIn, charged>>
  PROVE  Books'
<1>1. PICK a \in Int : a = withdrawal[w].amount
  BY MarkedRow
<1>2. PICK n \in Nat : n = refunds[w]
  BY DEF IInv, TypeOK
<1>3. refunds'[w] = n + 1 /\ \A v \in Withdrawal \ {w} : refunds'[v] = refunds[v]
  BY <1>2 DEF CreditBack, IInv, TypeOK
<1>4. Taken[w] = (1 - n) * a /\ Taken'[w] = (1 - (n + 1)) * a
  BY <1>1, <1>2, <1>3, MarkedRow DEF Taken
<1>5. Taken'[w] = Taken[w] + (0 - a)
  BY <1>4, GivenBackOf
<1>6. \A v \in Withdrawal \ {w} : Taken'[v] = Taken[v]
  BY <1>3, MarkedRow DEF Taken
<1>7. \A v \in Withdrawal : ~ Made(v)' => refunds'[v] = 0
  BY <1>3, MarkedRow DEF Books
<1>8. balance' = balance - (0 - a) + (paidIn' - paidIn) /\ paidIn' \in Int
  BY <1>1, Numbers DEF CreditBack
<1>9. QED
  BY <1>5, <1>6, <1>7, <1>8, OneTaken

LEMMA MarkedBooks ==
  ASSUME IInv, Books, NEW w \in Withdrawal, Made(w), NEW s \in Status, Marked(w, s),
         UNCHANGED <<balance, paidIn, refunds, charged>>
  PROVE  Books'
<1>1. \A v \in Withdrawal : Taken'[v] = Taken[v]
  BY MarkedRow DEF Taken
<1>2. \A v \in Withdrawal : ~ Made(v)' => refunds'[v] = 0
  BY MarkedRow DEF Books
<1>3. Taken'[w] = Taken[w] + 0 /\ balance' = balance - 0 + (paidIn' - paidIn) /\ paidIn' \in Int
  BY <1>1, Numbers
<1>4. QED
  BY <1>1, <1>2, <1>3, OneTaken

LEMMA ChargedBooks ==
  ASSUME IInv, Books, NEW price \in Int, charged' = Append(charged, price),
         balance' = balance - price, UNCHANGED <<paidIn, withdrawal, refunds>>
  PROVE  Books'
<1>1. charged \in Seq(Amounts) /\ Amounts \subseteq Int
  BY ConstantsOK DEF IInv, TypeOK
<1>2. PICK n \in Nat : n = Len(charged) /\ DOMAIN charged = 1..n
  BY <1>1
<1>3. /\ DOMAIN charged' = DOMAIN charged \cup {n + 1} /\ n + 1 \notin DOMAIN charged
      /\ charged'[n + 1] = price /\ \A i \in DOMAIN charged : charged'[i] = charged[i]
  <2>1. DOMAIN charged' = 1..(n + 1)
    BY <1>1, <1>2
  <2>2. 1..(n + 1) = 1..n \cup {n + 1} /\ n + 1 \notin 1..n
    BY <1>2
  <2>3. charged'[n + 1] = price /\ \A i \in 1..n : charged'[i] = charged[i]
    BY <1>1, <1>2
  <2>4. QED
    BY <1>2, <2>1, <2>2, <2>3
<1>4. Summable(charged') /\ SumFunction(charged') = SumFunction(charged) + price
  <2>1. PICK c, d : c = charged /\ d = charged'
    OBVIOUS
  <2>2. Summable(c) /\ DOMAIN d = DOMAIN c \cup {n + 1} /\ n + 1 \notin DOMAIN c
    BY <1>3, <2>1 DEF Books
  <2>3. d[n + 1] \in Int /\ \A i \in DOMAIN c : d[i] = c[i]
    BY <1>3, <2>1
  <2>4. Summable(d) /\ SumFunction(d) = SumFunction(c) + d[n + 1]
    BY <2>2, <2>3, LongerSum
  <2>5. QED
    BY <1>3, <2>1, <2>4
<1>5. Taken' = Taken
  BY DEF Taken, Made
<1>6. balance' + SumFunction(charged') = paidIn - SumFunction(Taken)
  BY <1>4, Numbers DEF Books, BooksBalance
<1>7. BooksBalance'
  BY <1>5, <1>6 DEF BooksBalance
<1>8. QED
  BY <1>4, <1>5, <1>7 DEF Books, Made

LEMMA NextBooks == IInv /\ Books /\ [Next]_vars => Books'
<1> SUFFICES ASSUME IInv, Books, [Next]_vars PROVE Books'
  OBVIOUS
<1>1. ASSUME UNCHANGED <<wallet, withdrawal, charged>>
      PROVE  Books'
  BY <1>1, SameBooks DEF wallet
<1>2. ASSUME NEW h \in Handler, Serve(h)
      PROVE  Books'
  <2>1. ASSUME request[h].op \in {"cancel", "fail", "complete", "released"}
        PROVE  request[h].w \in Withdrawal /\ Made(request[h].w)
    BY <2>1, Shapes DEF IInv, OnMadeRows
  <2>2. CASE CommitTopup(h)
    <3>1. request[h].amount \in Nat
      BY <2>2, Shapes, AmountsPositive DEF IInv, CommitTopup
    <3>2. QED
      BY <2>2, <3>1, PaidInBooks DEF CommitTopup, subscription
  <2>3. CASE CommitWithdraw(h)
    <3>1. PICK a \in Int : a = request[h].amount
      BY <2>3, Shapes, AmountsPositive DEF IInv, CommitWithdraw
    <3>2. PICK w \in Withdrawal : Make(w, Manual, a)
      BY <2>3, <3>1 DEF CommitWithdraw
    <3>3. paidIn' \in Int /\ balance' = balance - a + (paidIn' - paidIn)
      BY <2>3, <3>1, Numbers DEF CommitWithdraw
    <3>4. QED
      BY <2>3, <3>2, <3>3, MadeBooks DEF CommitWithdraw, subscription
  <2>4. CASE CommitCancel(h) \/ CommitFail(h)
    <3>1. PICK s \in Status : Marked(request[h].w, s)
      BY <2>4 DEF CommitCancel, CommitFail, Status
    <3>2. request[h].w \in Withdrawal /\ Made(request[h].w)
      BY <2>1, <2>4 DEF CommitCancel, CommitFail
    <3>3. CreditBack(request[h].w) /\ UNCHANGED <<paidIn, charged>>
      BY <2>4 DEF CommitCancel, CommitFail, subscription
    <3>4. QED
      BY <3>1, <3>2, <3>3, CreditBackBooks
  <2>5. CASE CommitManual(h) \/ CommitRelease(h)
    <3>1. Marked(request[h].w, "COMPLETED") /\ "COMPLETED" \in Status
      BY <2>5 DEF CommitManual, CommitRelease, Status
    <3>2. request[h].w \in Withdrawal /\ Made(request[h].w)
      BY <2>1, <2>5 DEF CommitManual, CommitRelease
    <3>3. UNCHANGED <<balance, paidIn, refunds, charged>>
      BY <2>5 DEF CommitManual, CommitRelease, wallet, subscription
    <3>4. QED
      BY <3>1, <3>2, <3>3, MarkedBooks
  <2>6. CASE CommitSubscribe(h)
    <3>1. request[h].price \in Int
      BY <2>6, Shapes, AmountsPositive DEF IInv, CommitSubscribe
    <3>2. QED
      BY <2>6, <3>1, ChargedBooks DEF CommitSubscribe
  <2>7. CASE \/ \E p \in Payment, amount \in Amounts : BeginTopup(h, p, amount)
             \/ \E amount \in Amounts : BeginWithdraw(h, amount)
             \/ \E w \in Withdrawal : BeginCancel(h, w) \/ BeginFail(h, w) \/ BeginComplete(h, w)
             \/ \E price \in Amounts : BeginSubscribe(h, price)
    BY <1>1, <2>7 DEF BeginTopup, BeginWithdraw, BeginCancel, BeginFail, BeginComplete, Decide,
       BeginSubscribe, subscription
  <2>8. CASE CountUnreleased(h) \/ CheckBalance(h) \/ Stop(h)
    BY <1>1, <2>8 DEF CountUnreleased, CheckBalance, Stop, subscription
  <2>9. QED
    BY <1>2, <2>2, <2>3, <2>4, <2>5, <2>6, <2>7, <2>8 DEF Serve
<1>3. ASSUME NEW m \in Milestone, ApproveLinked(m)
      PROVE  Books'
  <2>1. PICK w \in Withdrawal : Make(w, m, Net)
    BY <1>3 DEF ApproveLinked
  <2>2. Net \in Int /\ paidIn' \in Int /\ balance' = balance - Net + (paidIn' - paidIn)
    BY <1>3, Numbers, ConstantsOK DEF ApproveLinked
  <2>3. UNCHANGED <<refunds, charged>>
    BY <1>3 DEF ApproveLinked, Approve, subscription
  <2>4. QED
    BY <2>1, <2>2, <2>3, MadeBooks
<1>4. ASSUME NEW m \in Milestone, ApproveUnlinked(m)
      PROVE  Books'
  <2>1. PICK part \in Nat : balance' = balance + part /\ paidIn' = paidIn + part
    BY <1>4, ConstantsOK DEF ApproveUnlinked
  <2>2. QED
    BY <1>4, <2>1, PaidInBooks DEF ApproveUnlinked, Approve, subscription
<1>5. CASE Lapse
  BY <1>1, <1>5 DEF Lapse
<1>6. CASE UNCHANGED vars
  BY <1>6, SameBooks DEF vars, subscription
<1>7. QED
  BY <1>2, <1>3, <1>4, <1>5, <1>6 DEF Next

(* WithdrawalsService, AdminService, SubscriptionService: however requests *)
(* overlap, the balance is what the rows of the wallet add up to, for any  *)
(* number of top-ups, withdrawals, refunds and subscriptions.              *)
THEOREM RowsAddUp == Spec => []BooksBalance
<1>1. Spec => []Books
  BY InitBooks, NextBooks, Invariant, PTL DEF Spec
<1>2. Books => BooksBalance
  BY DEF Books
<1>3. QED
  BY <1>1, <1>2, PTL
=============================================================================
