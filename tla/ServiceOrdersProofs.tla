------------------------ MODULE ServiceOrdersProofs ------------------------
(***************************************************************************)
(* What holds of ServiceOrders for any number of orders, milestones,       *)
(* payment windows, transfers and amounts, however requests and            *)
(* notifications overlap.                                                  *)
(***************************************************************************)
EXTENDS ServiceOrders, TLAPS

Ordered == {"ACTIVE", "CLOSED"}
Worked  == {"IN_PROGRESS", "APPROVED"}
OrderRow == [state : OrderState, listed : BOOLEAN]
Blank   == [state : {None}]
ByHand  == [state : {"DEFINED", "AWAITING_PAYMENT", "IN_PROGRESS", "APPROVED", "DELETED"},
            order : Order, number : {1, 2}, account : Account \cup {None}]
Window  == [status : {"ACTIVE", "USED", "EXPIRED"}, order : Order,
            milestone : Milestone \cup {None}, amount : Money]
Made    == [account : Account, amount : Money]

Exists(o)  == order[o].state # None
Defined(m) == byHand[m].state # None
Issued(v)  == account[v].status # None
Paid(t)    == transfer[t].account # None

-----------------------------------------------------------------------------
(* The invariant.  Rows name rows that exist, and the account of a         *)
(* milestone is for the order of the milestone.                            *)
References ==
  /\ \A m \in Milestone : Defined(m) =>
       /\ Exists(byHand[m].order)
       /\ byHand[m].account # None => Issued(byHand[m].account)
       /\ byHand[m].state = "AWAITING_PAYMENT" => byHand[m].account # None
  /\ \A v \in Account : Issued(v) /\ account[v].milestone # None =>
       /\ Defined(account[v].milestone)
       /\ byHand[account[v].milestone].order = account[v].order

(* What a request has read and acts upon exists, and a notification about  *)
(* to be credited is of the right amount.                                  *)
Remembered(r) ==
  /\ r.op = "purchase" /\ r.order # None => Exists(r.order)
  /\ r.op = "end" => Exists(r.order)
  /\ r.op \in {"remove", "fund"} => Defined(r.milestone)
  /\ r.op = "fund" /\ r.stale # None => Issued(r.stale)
  /\ r.op = "expire" => Issued(r.account)
  /\ r.op \in {"ipn", "topUp"} => Paid(r.transfer) /\ RightAmount(r.transfer)

CreditedWerePaid == \A t \in Transfer : topUp[t] > 0 => Paid(t)

(* Nothing is credited as the payment of an order that has not made its    *)
(* milestone 1.                                                            *)
NothingBefore == \A o \in Order : first[o] = None => PaidBy(o) = {} /\ escrow[o] = 0

Payments == CreditedWerePaid /\ NothingBefore /\ PaidOnceInFull /\ WorkIsPaid

Inv == TypeOK /\ References /\ (\A h \in Handler : Remembered(request[h])) /\ Payments

-----------------------------------------------------------------------------
LEMMA InitInv == Init => Inv
<1> SUFFICES ASSUME Init PROVE Inv
  OBVIOUS
<1>1. TypeOK
  BY DEF Init, TypeOK, OrderState, Request, Idle, None
<1>2. \A h \in Handler : Remembered(request[h])
  BY DEF Init, Remembered, Idle
<1>3. \A o \in Order : Credited(o) = {} /\ PaidBy(o) = {}
  BY DEF Init, Credited, PaidBy
<1>4. Payments
  BY <1>3 DEF Init, Payments, CreditedWerePaid, NothingBefore, PaidOnceInFull, WorkIsPaid, None
<1>5. References
  BY DEF Init, References, Defined, Issued
<1>6. QED
  BY <1>1, <1>2, <1>4, <1>5 DEF Inv

(* The shapes of the rows.                                                 *)
LEMMA Shapes ==
  ASSUME TypeOK
  PROVE  /\ order \in [Order -> OrderRow]
         /\ first \in [Order -> {None, "FUNDED", "APPROVED"}]
         /\ byHand \in [Milestone -> Blank \cup ByHand]
         /\ escrow \in [Order -> Nat]
         /\ account \in [Account -> [status : {None}] \cup Window]
         /\ transfer \in [Transfer -> [account : {None}] \cup Made]
         /\ topUp \in [Transfer -> Nat]
         /\ request \in [Handler -> Request]
         /\ \A m \in Milestone : Defined(m) => byHand[m] \in ByHand /\ byHand[m].order \in Order
         /\ \A v \in Account : Issued(v) =>
              account[v] \in Window /\ account[v].order \in Order /\ Exists(account[v].order)
         /\ \A t \in Transfer : Paid(t) =>
              transfer[t] \in Made /\ transfer[t].account \in Account /\ Issued(transfer[t].account)
  BY DEF TypeOK, OrderRow, Blank, ByHand, Window, Made, Defined, Issued, Exists, Paid

LEMMA RequestFields ==
  ASSUME NEW r \in Request
  PROVE  /\ r.op = "purchase" => r.order \in Order \cup {None} /\ r.price \in Price
         /\ r.op = "end" => r.order \in Order /\ r.state \in {"DECLINED", "CANCELLED"}
         /\ r.op \in {"remove", "fund"} => r.milestone \in Milestone
         /\ r.op = "fund" => r.stale \in Account \cup {None}
         /\ r.op = "expire" => r.account \in Account
         /\ r.op \in {"ipn", "topUp"} => r.transfer \in Transfer
  BY DEF Request, Idle

-----------------------------------------------------------------------------
(* What is never taken back: orders, milestones, windows and transfers,    *)
(* once there, stay, and stay what they are for.                           *)
Kept ==
  /\ \A o \in Order : Exists(o) => order'[o].state # None
  /\ \A m \in Milestone : Defined(m) =>
       byHand'[m].state # None /\ byHand'[m].order = byHand[m].order
  /\ \A v \in Account : Issued(v) =>
       /\ account'[v].status # None /\ account'[v].order = account[v].order
       /\ account'[v].milestone = account[v].milestone /\ account'[v].amount = account[v].amount
  /\ \A t \in Transfer : Paid(t) => transfer'[t] = transfer[t]

(* So what a request remembers stays true.                                 *)
LEMMA RememberedKept ==
  ASSUME TypeOK, Kept, NEW r \in Request, Remembered(r)
  PROVE  Remembered(r)'
<1>1. r.op = "purchase" /\ r.order # None => order'[r.order].state # None
  BY RequestFields DEF Remembered, Kept
<1>2. r.op = "end" => order'[r.order].state # None
  BY RequestFields DEF Remembered, Kept
<1>3. r.op = "expire" => account'[r.account].status # None
  BY RequestFields DEF Remembered, Kept
<1>4. ASSUME r.op \in {"ipn", "topUp"}
      PROVE  /\ transfer'[r.transfer] = transfer[r.transfer]
             /\ transfer[r.transfer].account # None
             /\ account'[transfer[r.transfer].account].amount
                  = account[transfer[r.transfer].account].amount
  BY <1>4, RequestFields, Shapes DEF Remembered, Kept, Paid
<1>5. r.op \in {"remove", "fund"} => byHand'[r.milestone].state # None
  BY RequestFields DEF Remembered, Kept
<1>6. r.op = "fund" /\ r.stale # None => account'[r.stale].status # None
  BY RequestFields DEF Remembered, Kept
<1>7. QED
  BY <1>1, <1>2, <1>3, <1>4, <1>5, <1>6
     DEF Remembered, Exists, Defined, Issued, Paid, RightAmount

(* A step that writes no new milestone or window for one, and shows no new *)
(* window.                                                                 *)
LEMMA ReferencesKept ==
  ASSUME TypeOK, References, Kept,
         \A m \in Milestone : byHand'[m].state # None =>
           /\ Defined(m) /\ byHand'[m].account = byHand[m].account
           /\ byHand'[m].state = "AWAITING_PAYMENT" => byHand[m].state = "AWAITING_PAYMENT",
         \A v \in Account : account'[v].status # None => Issued(v) \/ account'[v].milestone = None
  PROVE  References'
<1>1. ASSUME NEW m \in Milestone, byHand'[m].state # None
      PROVE  /\ order'[byHand'[m].order].state # None
             /\ byHand'[m].account # None => account'[byHand'[m].account].status # None
             /\ byHand'[m].state = "AWAITING_PAYMENT" => byHand'[m].account # None
  <2>1. Defined(m) /\ byHand[m] \in ByHand /\ byHand'[m].order = byHand[m].order
    BY <1>1, Shapes DEF Kept
  <2>2. byHand[m].order \in Order /\ byHand[m].account \in Account \cup {None}
    BY <2>1 DEF ByHand
  <2>3. QED
    BY <1>1, <2>1, <2>2 DEF References, Kept
<1>2. ASSUME NEW v \in Account, account'[v].status # None, account'[v].milestone # None
      PROVE  /\ byHand'[account'[v].milestone].state # None
             /\ byHand'[account'[v].milestone].order = account'[v].order
  <2>1. /\ Issued(v) /\ account[v] \in Window
        /\ account'[v].order = account[v].order /\ account'[v].milestone = account[v].milestone
    BY <1>2, Shapes DEF Kept
  <2>2. account[v].milestone \in Milestone
    BY <1>2, <2>1 DEF Window
  <2>3. QED
    BY <1>2, <2>1, <2>2 DEF References, Kept
<1>3. QED
  BY <1>1, <1>2 DEF References, Defined, Exists, Issued

(* A step that credits nothing, makes no milestone 1 by payment, begins no *)
(* work, and activates or reopens no order on its own.                     *)
LEMMA CreditsKept ==
  ASSUME TypeOK, Payments, Kept, topUp' = topUp, escrow' = escrow,
         \A o \in Order : /\ first[o] = None <=> first'[o] = None
                          /\ order'[o].state \in Ordered =>
                               order[o].state \in Ordered \/ Credited(o) # {}
                          /\ order'[o].state = "PENDING" =>
                               order[o].state = "PENDING" \/ Credited(o) = {},
         \A m \in Milestone : byHand'[m].state \in Worked => byHand[m].state \in Worked
  PROVE  Payments'
<1>1. ASSUME NEW t \in Transfer, topUp[t] > 0
      PROVE  /\ transfer'[t] = transfer[t]
             /\ account'[transfer[t].account].order = account[transfer[t].account].order
             /\ account'[transfer[t].account].milestone = account[transfer[t].account].milestone
             /\ account'[transfer[t].account].amount = account[transfer[t].account].amount
             /\ Paid(t)
  BY <1>1, Shapes DEF Payments, CreditedWerePaid, Kept
<1>2. CreditedWerePaid'
  BY <1>1 DEF CreditedWerePaid, Paid
<1>3. \A o \in Order : Credited(o)' = Credited(o)
  BY <1>1 DEF Credited
<1>4. \A o \in Order : PaidBy(o)' = PaidBy(o)
  BY <1>1, <1>3 DEF PaidBy, Credited, For
<1>5. NothingBefore'
  BY <1>4 DEF Payments, NothingBefore
<1>6. PaidOnceInFull'
  BY <1>1, <1>4 DEF Payments, PaidOnceInFull, PaidBy, Credited
<1>7. WorkIsPaid'
  <2>1. \A t \in Transfer : topUp'[t] > 0 =>
          transfer'[t].amount = account'[transfer'[t].account].amount
    BY <1>1 DEF Payments, WorkIsPaid
  <2>2. \A o \in Order : first'[o] # None => PaidBy(o)' # {}
    BY <1>4 DEF Payments, WorkIsPaid
  <2>3. ASSUME NEW m \in Milestone, byHand'[m].state \in Worked
        PROVE  \E t \in Transfer : topUp'[t] > 0 /\ For(t)' = m
    <3>1. PICK t \in Transfer : topUp[t] > 0 /\ For(t) = m
      BY <2>3 DEF Payments, WorkIsPaid, Worked
    <3>2. QED
      BY <1>1, <3>1 DEF For
  <2>4. \A o \in Order : IF Credited(o)' = {} THEN order'[o].state \notin Ordered
                                            ELSE order'[o].state # "PENDING"
    BY <1>3 DEF Payments, WorkIsPaid, Ordered
  <2>5. QED
    BY <2>1, <2>2, <2>3, <2>4 DEF WorkIsPaid, Ordered, Worked
<1>8. QED
  BY <1>2, <1>5, <1>6, <1>7 DEF Payments

(* A step keeps the invariant if its rows do, and the request's next step  *)
(* if it is a request's.                                                   *)
LEMMA StepKeeps ==
  ASSUME Inv, TypeOK', References', Kept, Payments',
         \/ request' = request
         \/ \E h \in Handler, r \in Request : Becomes(h, r) /\ (Remembered(r) \/ r = Idle)
  PROVE  Inv' /\ Kept
<1>1. \A g \in Handler : Remembered(request[g])'
  <2>1. TAKE g \in Handler
  <2>2. PICK q \in Request : q = request'[g] /\ Remembered(q)
    BY Shapes DEF Inv, Becomes, Remembered, Idle
  <2>3. Remembered(q)'
    BY <2>2, RememberedKept DEF Inv
  <2>4. QED
    BY <2>2, <2>3
<1>2. QED
  BY <1>1 DEF Inv

(* A request that only reads, or ends without effect.                      *)
LEMMA Reads ==
  ASSUME Inv, NEW h \in Handler, UNCHANGED rows,
         NEW r \in Request, Becomes(h, r), Remembered(r) \/ r = Idle
  PROVE  Inv' /\ Kept
<1>1. Kept
  BY DEF Kept, rows, Exists, Issued, Defined
<1>2. TypeOK'
  BY DEF Inv, TypeOK, rows, Becomes
<1>3. Payments'
  BY DEF Inv, Payments, rows, CreditedWerePaid, Paid, NothingBefore, PaidOnceInFull, WorkIsPaid,
     PaidBy, Credited, For
<1>4. References'
  BY DEF Inv, References, rows, Defined, Exists, Issued
<1>5. QED
  BY <1>1, <1>2, <1>3, <1>4, StepKeeps


LEMMA BeginsKeeps ==
  ASSUME Inv, NEW h \in Handler,
         \/ BeginDelete(h) \/ BeginPurchase(h)
         \/ \E o \in Order : BeginDecline(h, o) \/ BeginCancel(h, o)
         \/ \E m \in Milestone : BeginDeleteMilestone(h, m) \/ BeginFund(h, m)
         \/ \E t \in Transfer : HandleIpn(h, t) \/ BeginServiceTopup(h, t) \/ BeginMilestoneTopup(h, t)
         \/ Stop(h)
  PROVE  Inv' /\ Kept
<1>0. TypeOK /\ request[h] \in Request /\ Remembered(request[h])
  BY Shapes DEF Inv
<1>1. CASE BeginDelete(h)
  <2> DEFINE r == [op |-> "delete"]
  <2>1. r \in Request /\ Remembered(r) /\ Becomes(h, r) /\ UNCHANGED rows
    BY <1>1 DEF BeginDelete, Begins, Starts, Becomes, Request, Remembered
  <2>2. QED
    BY <2>1, Reads
<1>2. CASE BeginPurchase(h)
  <2>1. PICK o \in Order \cup {None} :
          /\ o # None => Exists(o)
          /\ Begins(h, [op |-> "purchase", order |-> o, price |-> listing.price])
    BY <1>2 DEF BeginPurchase, OfListing, Exists, None
  <2> DEFINE r == [op |-> "purchase", order |-> o, price |-> listing.price]
  <2>2. listing.price \in Price
    BY <1>0 DEF TypeOK
  <2>3. r \in Request /\ Remembered(r) /\ Becomes(h, r) /\ UNCHANGED rows
    BY <2>1, <2>2 DEF Begins, Starts, Becomes, Request, Remembered
  <2>4. QED
    BY <2>3, Reads
<1>3. ASSUME NEW o \in Order, BeginDecline(h, o) \/ BeginCancel(h, o)
      PROVE  Inv' /\ Kept
  <2>1. PICK state \in {"DECLINED", "CANCELLED"} :
          Begins(h, [op |-> "end", order |-> o, state |-> state])
    BY <1>3 DEF BeginDecline, BeginCancel
  <2> DEFINE r == [op |-> "end", order |-> o, state |-> state]
  <2>2. Exists(o)
    BY <1>3 DEF BeginDecline, BeginCancel, Exists, None
  <2>3. r \in Request /\ Remembered(r) /\ Becomes(h, r) /\ UNCHANGED rows
    BY <2>1, <2>2 DEF Begins, Starts, Becomes, Request, Remembered
  <2>4. QED
    BY <2>3, Reads
<1>4. ASSUME NEW m \in Milestone, BeginDeleteMilestone(h, m)
      PROVE  Inv' /\ Kept
  <2> DEFINE r == [op |-> "remove", milestone |-> m]
  <2>1. r \in Request /\ Remembered(r) /\ Becomes(h, r) /\ UNCHANGED rows
    BY <1>4 DEF BeginDeleteMilestone, Begins, Starts, Becomes, Request, Remembered, Defined, None
  <2>2. QED
    BY <2>1, Reads
<1>5. ASSUME NEW m \in Milestone, BeginFund(h, m)
      PROVE  Inv' /\ Kept
  <2>1. Defined(m)
    BY <1>5 DEF BeginFund, Defined, None
  <2>2. PICK stale \in Account \cup {None}, status \in {None, "ACTIVE", "EXPIRED"} :
          /\ stale # None => Issued(stale)
          /\ Begins(h, [op |-> "fund", milestone |-> m, stale |-> stale, status |-> status])
    <3>1. CASE Begins(h, [op |-> "fund", milestone |-> m, stale |-> None, status |-> None])
      BY <3>1
    <3>2. CASE /\ byHand[m].state = "AWAITING_PAYMENT" /\ WindowClosed(Shown(m))
               /\ Begins(h, [op |-> "fund", milestone |-> m, stale |-> Shown(m),
                             status |-> account[Shown(m)].status])
      <4>1. byHand[m] \in ByHand /\ byHand[m].account # None
        BY <1>0, <2>1, <3>2, Shapes DEF Inv, References
      <4>2. Shown(m) \in Account /\ Issued(Shown(m))
        BY <2>1, <4>1 DEF Shown, ByHand, Inv, References
      <4>3. account[Shown(m)].status \in {"ACTIVE", "EXPIRED"}
        BY <3>2 DEF WindowClosed
      <4>4. QED
        BY <3>2, <4>2, <4>3
    <3>3. QED
      BY <1>5, <3>1, <3>2 DEF BeginFund
  <2> DEFINE r == [op |-> "fund", milestone |-> m, stale |-> stale, status |-> status]
  <2>3. r \in Request /\ Remembered(r) /\ Becomes(h, r) /\ UNCHANGED rows
    BY <2>1, <2>2 DEF Begins, Starts, Becomes, Request, Remembered
  <2>4. QED
    BY <2>3, Reads
<1>6. ASSUME NEW t \in Transfer, HandleIpn(h, t)
      PROVE  Inv' /\ Kept
  <2>1. PICK v \in Account : v = transfer[t].account /\ Paid(t) /\ Issued(v) /\ account[v] \in Window
    BY <1>0, <1>6, Shapes DEF HandleIpn, Paid
  <2>2. CASE Begins(h, [op |-> "expire", account |-> v])
    <3> DEFINE r == [op |-> "expire", account |-> v]
    <3>1. r \in Request /\ Remembered(r) /\ Becomes(h, r) /\ UNCHANGED rows
      BY <2>1, <2>2 DEF Begins, Starts, Becomes, Request, Remembered
    <3>2. QED
      BY <3>1, Reads
  <2>3. CASE RightAmount(t) /\ Begins(h, [op |-> "ipn", transfer |-> t])
    <3> DEFINE r == [op |-> "ipn", transfer |-> t]
    <3>1. r \in Request /\ Remembered(r) /\ Becomes(h, r) /\ UNCHANGED rows
      BY <2>1, <2>3 DEF Begins, Starts, Becomes, Request, Remembered
    <3>2. QED
      BY <3>1, Reads
  <2>4. QED
    BY <1>6, <2>1, <2>2, <2>3 DEF HandleIpn
<1>7. ASSUME NEW t \in Transfer, BeginServiceTopup(h, t) \/ BeginMilestoneTopup(h, t)
      PROVE  Inv' /\ Kept
  <2> DEFINE r == [op |-> "topUp", transfer |-> t]
  <2>1. Paid(t) /\ RightAmount(t)
    BY <1>0, <1>7 DEF Remembered, BeginServiceTopup, BeginMilestoneTopup, MayCredit
  <2>2. r \in Request /\ Remembered(r) /\ Becomes(h, r) /\ UNCHANGED rows
    BY <1>7, <2>1 DEF BeginServiceTopup, BeginMilestoneTopup, Request, Remembered
  <2>3. QED
    BY <2>2, Reads
<1>8. CASE Stop(h)
  BY <1>8, Reads DEF Stop, Ends, Request
<1>9. QED
  BY <1>1, <1>2, <1>3, <1>4, <1>5, <1>6, <1>7, <1>8

-----------------------------------------------------------------------------
(* Steps that write orders, windows and milestones, but no money.          *)
LEMMA ListingKeeps ==
  ASSUME Inv, NEW l \in [state : {"DRAFT", "PUBLISHED", "DELETED"}, price : Price], WriteListing(l),
         request' = request
  PROVE  Inv' /\ Kept
<1>1. TypeOK'
  BY DEF Inv, TypeOK, WriteListing
<1>2. Kept
  BY DEF WriteListing, Kept, Exists, Issued, Defined
<1>3. Payments'
  BY <1>2, CreditsKept DEF Inv, WriteListing
<1>4. References'
  BY DEF Inv, References, WriteListing, Defined, Exists, Issued
<1>5. QED
  BY <1>1, <1>2, <1>3, <1>4, StepKeeps

LEMMA CommitDeleteKeeps ==
  ASSUME Inv, NEW h \in Handler, CommitDelete(h)
  PROVE  Inv' /\ Kept
<1>1. /\ order' \in [Order -> OrderRow]
      /\ \A o \in Order : order'[o].state = order[o].state
  BY Shapes DEF Inv, CommitDelete, OrderRow
<1>2. TypeOK'
  <2>1. \A v \in Account : Issued(v) => order'[account[v].order].state # None
    BY <1>1, Shapes DEF Inv, Exists
  <2>2. listing' \in [state : {"DRAFT", "PUBLISHED", "DELETED"}, price : Price]
    BY DEF Inv, TypeOK, CommitDelete
  <2>3. request' \in [Handler -> Request]
    BY DEF Inv, TypeOK, CommitDelete, Ends, Becomes, Request
  <2>4. QED
    BY <1>1, <2>1, <2>2, <2>3 DEF Inv, TypeOK, CommitDelete, Issued, OrderRow
<1>3. Kept
  BY <1>1 DEF CommitDelete, Kept, Exists, Issued, Defined
<1>4. Payments'
  BY <1>1, <1>3, CreditsKept DEF Inv, CommitDelete
<1>5. References'
  BY <1>3, ReferencesKept DEF Inv, CommitDelete, Defined, Issued
<1>6. QED
  BY <1>2, <1>3, <1>4, <1>5, StepKeeps DEF CommitDelete, Ends, Request

LEMMA CommitPurchaseKeeps ==
  ASSUME Inv, NEW h \in Handler, CommitPurchase(h)
  PROVE  Inv' /\ Kept
<1>0. TypeOK /\ request[h] \in Request /\ Remembered(request[h])
  BY Shapes DEF Inv
<1>1. PICK o \in Order :
        /\ IF request[h].order = None
           THEN /\ order[o].state = None
                /\ order' = [order EXCEPT ![o] = [state |-> "PENDING", listed |-> TRUE]]
           ELSE Exists(o) /\ UNCHANGED order
        /\ \/ UNCHANGED account
           \/ \E v \in Account :
                /\ account[v].status = None
                /\ account' = [account EXCEPT ![v] =
                     [status |-> "ACTIVE", order |-> o, milestone |-> None,
                      amount |-> request[h].price]]
  BY <1>0 DEF CommitPurchase, Remembered
<1>2. /\ order' \in [Order -> OrderRow]
      /\ Exists(o)'
      /\ \A k \in Order : Exists(k) => order'[k] = order[k]
      /\ \A k \in Order : order'[k].state \in Ordered => order[k].state \in Ordered
  <2>1. CASE UNCHANGED order /\ Exists(o)
    BY <1>0, <2>1, Shapes DEF Exists
  <2>2. CASE /\ order[o].state = None
             /\ order' = [order EXCEPT ![o] = [state |-> "PENDING", listed |-> TRUE]]
    <3> DEFINE new == [state |-> "PENDING", listed |-> TRUE]
    <3>1. new \in OrderRow /\ new.state # None /\ new.state \notin Ordered
      BY DEF OrderRow, OrderState, None, Ordered
    <3>2. order' = [order EXCEPT ![o] = new]
      BY <2>2
    <3> HIDE DEF new
    <3>3. QED
      BY <1>0, <2>2, <3>1, <3>2, Shapes DEF Exists
  <2>3. QED
    BY <1>1, <2>1, <2>2
<1>3. /\ account' \in [Account -> [status : {None}] \cup Window]
      /\ \A v \in Account : Issued(v) => account'[v] = account[v]
      /\ \A v \in Account : account'[v].status # None =>
           \/ Issued(v)
           \/ account'[v].order = o /\ account'[v].milestone = None
  <2>1. CASE UNCHANGED account
    BY <1>0, <2>1, Shapes DEF Issued
  <2>2. ASSUME NEW v \in Account, account[v].status = None,
               account' = [account EXCEPT ![v] =
                 [status |-> "ACTIVE", order |-> o, milestone |-> None, amount |-> request[h].price]]
        PROVE  <1>3!1 /\ <1>3!2 /\ <1>3!3
    <3> DEFINE w == [status |-> "ACTIVE", order |-> o, milestone |-> None,
                     amount |-> request[h].price]
    <3>1. w \in Window
      BY <1>0, RequestFields DEF CommitPurchase, Window, Money
    <3>2. w.order = o /\ w.milestone = None /\ account' = [account EXCEPT ![v] = w]
      BY <2>2
    <3> HIDE DEF w
    <3>3. QED
      BY <1>0, <2>2, <3>1, <3>2, Shapes DEF Issued
  <2>3. QED
    BY <1>1, <2>1, <2>2
<1>4. Kept
  BY <1>2, <1>3 DEF CommitPurchase, Kept, Exists, Issued, Defined
<1>5. TypeOK'
  <2>1. \A v \in Account : account'[v].status # None => order'[account'[v].order].state # None
    BY <1>0, <1>2, <1>3, Shapes DEF Exists
  <2>2. request' \in [Handler -> Request]
    BY <1>0, Shapes DEF CommitPurchase, Ends, Becomes, Request
  <2>3. \A t \in Transfer : transfer[t].account # None => account'[transfer[t].account].status # None
    BY <1>0, <1>3, Shapes DEF Issued, Paid
  <2>4. QED
    BY <1>2, <1>3, <2>1, <2>2, <2>3 DEF Inv, TypeOK, Window, OrderRow, CommitPurchase
<1>6. Payments'
  (* An order that is new has no windows, so nothing is credited to it.    *)
  <2>1. \A k \in Order : ~ Exists(k) => Credited(k) = {}
    <3>1. ASSUME NEW k \in Order, NEW t \in Credited(k) PROVE Exists(k)
      BY <1>0, Shapes DEF Credited, Inv, Payments, CreditedWerePaid
    <3>2. QED
      BY <3>1
  <2>2. QED
    BY <1>2, <1>4, <2>1, CreditsKept DEF Inv, CommitPurchase
<1>7. References'
  BY <1>0, <1>3, <1>4, ReferencesKept DEF Inv, CommitPurchase, Defined
<1>8. QED
  BY <1>4, <1>5, <1>6, <1>7, StepKeeps DEF CommitPurchase, Ends, Request

LEMMA CommitEndKeeps ==
  ASSUME Inv, NEW h \in Handler, CommitEnd(h)
  PROVE  Inv' /\ Kept
<1>0. TypeOK /\ request[h] \in Request /\ Remembered(request[h])
  BY Shapes DEF Inv
<1>1. PICK o \in Order, state \in {"DECLINED", "CANCELLED"} :
        /\ Exists(o)
        /\ order' = [order EXCEPT ![o].state = state]
        /\ UNCHANGED <<listing, first, byHand, escrow, account, late, transfer, topUp>>
  BY <1>0, RequestFields DEF CommitEnd, SetState, Remembered
<1>2. /\ order' \in [Order -> OrderRow]
      /\ \A k \in Order : Exists(k) => order'[k].state # None
      /\ \A k \in Order : order'[k].state \in Ordered \cup {"PENDING"} => order'[k] = order[k]
  BY <1>0, <1>1, Shapes DEF Exists, OrderRow, OrderState, None, Ordered
<1>3. Kept
  BY <1>1, <1>2 DEF Kept, Issued, Defined
<1>4. TypeOK'
  <2>1. \A v \in Account : account[v].status # None => order'[account[v].order].state # None
    BY <1>0, <1>2, Shapes DEF Issued, Exists
  <2>2. request' \in [Handler -> Request]
    BY <1>0, Shapes DEF CommitEnd, Ends, Becomes, Request
  <2>3. QED
    BY <1>1, <1>2, <2>1, <2>2 DEF Inv, TypeOK, OrderRow
<1>5. Payments'
  BY <1>1, <1>2, <1>3, CreditsKept DEF Inv
<1>6. References'
  BY <1>0, <1>1, <1>3, ReferencesKept DEF Inv, Defined, Issued
<1>7. QED
  BY <1>3, <1>4, <1>5, <1>6, StepKeeps DEF CommitEnd, Ends, Request

LEMMA ExpireKeeps ==
  ASSUME Inv, NEW h \in Handler, Expire(h)
  PROVE  Inv' /\ Kept
<1>0. TypeOK /\ request[h] \in Request /\ Remembered(request[h])
  BY Shapes DEF Inv
<1>1. PICK v \in Account :
        /\ Issued(v) /\ account[v] \in Window
        /\ account' = [account EXCEPT ![v] = [account[v] EXCEPT !.status = "EXPIRED"]]
        /\ UNCHANGED <<listing, order, first, byHand, escrow, late, transfer, topUp>>
  BY <1>0, RequestFields, Shapes DEF Expire, Remembered
<1>2. /\ account' \in [Account -> [status : {None}] \cup Window]
      /\ \A w \in Account : Issued(w) =>
           /\ account'[w].status # None /\ account'[w].order = account[w].order
           /\ account'[w].milestone = account[w].milestone /\ account'[w].amount = account[w].amount
      /\ \A w \in Account : account'[w].status # None => Issued(w)
  BY <1>0, <1>1, Shapes DEF Issued, Window, None
<1>3. Kept
  BY <1>1, <1>2 DEF Kept, Exists, Defined
<1>4. TypeOK'
  <2>1. \A w \in Account : account'[w].status # None => order[account'[w].order].state # None
    BY <1>0, <1>2, Shapes DEF Exists
  <2>2. request' \in [Handler -> Request]
    BY <1>0, Shapes DEF Expire, Ends, Becomes, Request
  <2>3. \A t \in Transfer : transfer[t].account # None => account'[transfer[t].account].status # None
    BY <1>0, <1>2, Shapes DEF Paid
  <2>4. QED
    BY <1>1, <1>2, <2>1, <2>2, <2>3 DEF Inv, TypeOK, Window
<1>5. Payments'
  BY <1>1, <1>3, CreditsKept DEF Inv
<1>6. References'
  BY <1>0, <1>1, <1>2, <1>3, ReferencesKept DEF Inv, Defined
<1>7. QED
  BY <1>3, <1>4, <1>5, <1>6, StepKeeps DEF Expire, Ends, Request

-----------------------------------------------------------------------------
(* Milestones by hand.                                                     *)
LEMMA CreateMilestoneKeeps ==
  ASSUME Inv, NEW m \in Milestone, NEW o \in Order, NEW number \in {1, 2},
         CreateMilestone(m, o, number)
  PROVE  Inv' /\ Kept
<1>0. TypeOK
  BY DEF Inv
<1> DEFINE row == [state |-> "DEFINED", order |-> o, number |-> number, account |-> None]
<1>1. /\ row \in ByHand /\ row.order = o /\ row.account = None
      /\ row.state = "DEFINED"
  BY DEF ByHand
<1>2. /\ byHand' = [byHand EXCEPT ![m] = row]
      /\ ~ Defined(m) /\ Exists(o)
      /\ UNCHANGED <<listing, order, first, escrow, account, late, transfer, topUp, request>>
  BY DEF CreateMilestone, WriteMilestone, Defined, Exists
<1> HIDE DEF row
<1>3. /\ byHand' \in [Milestone -> Blank \cup ByHand]
      /\ byHand'[m] = row /\ \A n \in Milestone \ {m} : byHand'[n] = byHand[n]
  BY <1>0, <1>1, <1>2, Shapes
<1>4. Kept
  BY <1>2, <1>3 DEF Kept, Exists, Issued, Defined
<1>5. TypeOK'
  BY <1>2, <1>3 DEF Inv, TypeOK, Blank, ByHand
<1>6. Payments'
  BY <1>1, <1>2, <1>3, <1>4, CreditsKept DEF Inv, Worked
<1>7. References'
  <2>1. ASSUME NEW n \in Milestone, byHand'[n].state # None
        PROVE  /\ order[byHand'[n].order].state # None
               /\ byHand'[n].account # None => account[byHand'[n].account].status # None
               /\ byHand'[n].state = "AWAITING_PAYMENT" => byHand'[n].account # None
    <3>1. CASE n = m
      BY <1>1, <1>2, <1>3, <3>1 DEF Exists
    <3>2. CASE n # m
      BY <1>3, <2>1, <3>2 DEF Inv, References, Defined, Exists, Issued
    <3>3. QED
      BY <3>1, <3>2
  <2>2. ASSUME NEW v \in Account, Issued(v), account[v].milestone # None
        PROVE  /\ byHand'[account[v].milestone].state # None
               /\ byHand'[account[v].milestone].order = account[v].order
    <3>1. account[v].milestone \in Milestone \ {m}
      BY <1>0, <1>2, <2>2, Shapes DEF Window, Inv, References
    <3>2. QED
      BY <1>3, <2>2, <3>1 DEF Inv, References, Defined
  <2>3. QED
    BY <1>2, <2>1, <2>2 DEF References, Defined, Exists, Issued
<1>8. QED
  BY <1>2, <1>4, <1>5, <1>6, <1>7, StepKeeps

(* A milestone that exists takes another state, not that of one awaiting   *)
(* its payment.                                                            *)
LEMMA NewState ==
  ASSUME TypeOK, NEW m \in Milestone, NEW state \in {"IN_PROGRESS", "APPROVED", "DELETED"},
         Defined(m), byHand' = [byHand EXCEPT ![m] = InState(m, state)]
  PROVE  /\ byHand' \in [Milestone -> Blank \cup ByHand]
         /\ byHand'[m].state = state
         /\ \A n \in Milestone \ {m} : byHand'[n] = byHand[n]
         /\ \A n \in Milestone : byHand'[n].state # None =>
              /\ Defined(n) /\ byHand'[n].account = byHand[n].account
              /\ byHand'[n].state = "AWAITING_PAYMENT" => byHand[n].state = "AWAITING_PAYMENT"
         /\ \A n \in Milestone : Defined(n) =>
              byHand'[n].state # None /\ byHand'[n].order = byHand[n].order
<1> DEFINE row == InState(m, state)
<1>1. byHand[m] \in ByHand
  BY Shapes
<1>2. /\ row \in ByHand /\ row.state = state /\ state # None
      /\ row.order = byHand[m].order /\ row.account = byHand[m].account
      /\ row.state # "AWAITING_PAYMENT"
  BY <1>1 DEF InState, ByHand, None
<1>3. byHand' = [byHand EXCEPT ![m] = row]
  OBVIOUS
<1> HIDE DEF row
<1>4. QED
  BY <1>2, <1>3, Shapes DEF Defined

LEMMA CommitDeleteMilestoneKeeps ==
  ASSUME Inv, NEW h \in Handler, CommitDeleteMilestone(h)
  PROVE  Inv' /\ Kept
<1>0. TypeOK /\ request[h] \in Request
  BY Shapes DEF Inv
<1>1. PICK m \in Milestone :
        /\ Defined(m) /\ byHand' = [byHand EXCEPT ![m] = InState(m, "DELETED")]
        /\ UNCHANGED <<listing, order, first, escrow, account, late, transfer, topUp>>
  BY <1>0, RequestFields DEF CommitDeleteMilestone, WriteMilestone, Defined, None
<1>2. Kept
  BY <1>0, <1>1, NewState DEF Kept, Exists, Issued
<1>3. TypeOK'
  <2>1. request' \in [Handler -> Request]
    BY <1>0, Shapes DEF CommitDeleteMilestone, Ends, Becomes, Request
  <2>2. byHand' \in [Milestone -> Blank \cup ByHand]
    BY <1>0, <1>1, NewState
  <2>3. QED
    BY <1>1, <2>1, <2>2 DEF Inv, TypeOK, Blank, ByHand
<1>4. Payments'
  <2>1. \A n \in Milestone : byHand'[n].state \in Worked => byHand[n].state \in Worked
    BY <1>0, <1>1, NewState DEF Worked
  <2>2. QED
    BY <1>1, <1>2, <2>1, CreditsKept DEF Inv
<1>5. References'
  BY <1>0, <1>1, <1>2, NewState, ReferencesKept DEF Inv, Issued
<1>6. QED
  BY <1>2, <1>3, <1>4, <1>5, StepKeeps DEF CommitDeleteMilestone, Ends, Request

(* The new window is for the order of the milestone.                       *)
LEMMA CommitFundKeeps ==
  ASSUME Inv, NEW h \in Handler, NEW amount \in Amount, CommitFund(h, amount)
  PROVE  Inv' /\ Kept
<1>0. TypeOK /\ request[h] \in Request /\ Remembered(request[h])
  BY Shapes DEF Inv
<1> DEFINE m     == request[h].milestone
           stale == request[h].stale
<1>1. /\ m \in Milestone /\ stale \in Account \cup {None}
      /\ Defined(m) /\ (stale # None => Issued(stale))
  BY <1>0, RequestFields DEF CommitFund, Remembered
<1>2. Defined(m) /\ byHand[m] \in ByHand /\ byHand[m].order \in Order
  BY <1>0, <1>1, Shapes DEF CommitFund, Remembered
<1> DEFINE window == [status |-> "ACTIVE", order |-> byHand[m].order, milestone |-> m,
                      amount |-> amount]
           row(v) == [InState(m, "AWAITING_PAYMENT") EXCEPT !.account = v]
<1> HIDE DEF m, stale, window, row
<1>3. PICK v \in Account :
        /\ ~ Issued(v)
        /\ account' = [w \in Account |->
             IF w = v THEN window
             ELSE IF w = stale THEN [account[w] EXCEPT !.status = "EXPIRED"]
             ELSE account[w]]
        /\ byHand' = [byHand EXCEPT ![m] = row(v)]
        /\ UNCHANGED <<listing, order, first, escrow, late, transfer, topUp>>
  BY DEF CommitFund, WriteMilestone, Issued, m, stale, window, row
<1>4. /\ window \in Window /\ window.order = byHand[m].order /\ window.milestone = m
      /\ window.status # None
  BY <1>1, <1>2 DEF Window, Money, None, window
<1>5. /\ row(v) \in ByHand /\ row(v).order = byHand[m].order /\ row(v).account = v
      /\ row(v).state = "AWAITING_PAYMENT"
  BY <1>2 DEF ByHand, InState, row
<1>6. /\ byHand' \in [Milestone -> Blank \cup ByHand] /\ byHand'[m] = row(v)
      /\ \A n \in Milestone \ {m} : byHand'[n] = byHand[n]
  BY <1>0, <1>1, <1>3, <1>5, Shapes
<1>7. /\ account' \in [Account -> [status : {None}] \cup Window] /\ account'[v] = window
      /\ \A w \in Account : Issued(w) =>
           /\ account'[w].status # None /\ account'[w].order = account[w].order
           /\ account'[w].milestone = account[w].milestone /\ account'[w].amount = account[w].amount
      /\ \A w \in Account \ {v} : account'[w].status # None => Issued(w)
  <2>1. ASSUME NEW w \in Account \ {v}
        PROVE  /\ account'[w] \in [status : {None}] \cup Window
               /\ Issued(w) =>
                    /\ account'[w].status # None /\ account'[w].order = account[w].order
                    /\ account'[w].milestone = account[w].milestone
                    /\ account'[w].amount = account[w].amount
               /\ account'[w].status # None => Issued(w)
    <3>1. CASE w = stale
      <4>1. Issued(w) /\ account[w] \in Window /\ account'[w] = [account[w] EXCEPT !.status = "EXPIRED"]
        BY <1>0, <1>1, <1>3, <3>1, ConstantsOK, Shapes DEF ConstantsOK
      <4>2. QED
        BY <4>1 DEF Window, None
    <3>2. CASE w # stale
      <4>1. account'[w] = account[w]
        BY <1>3, <3>2
      <4>2. QED
        BY <1>0, <4>1, Shapes DEF Issued
    <3>3. QED
      BY <3>1, <3>2
  <2>2. account'[v] = window
    BY <1>3
  <2>3. QED
    BY <1>3, <1>4, <2>1, <2>2
<1>8. Kept
  BY <1>2, <1>3, <1>5, <1>6, <1>7 DEF Kept, Exists, Defined, None
<1>9. TypeOK'
  <2>1. \A w \in Account : account'[w].status # None => order[account'[w].order].state # None
    BY <1>0, <1>1, <1>2, <1>4, <1>7, Shapes DEF Exists, Inv, References
  <2>2. request' \in [Handler -> Request]
    BY <1>0, Shapes DEF CommitFund, Ends, Becomes, Request
  <2>3. \A t \in Transfer : transfer[t].account # None => account'[transfer[t].account].status # None
    BY <1>0, <1>7, Shapes DEF Paid
  <2>4. QED
    BY <1>3, <1>6, <1>7, <2>1, <2>2, <2>3 DEF Inv, TypeOK, Window, Blank, ByHand
<1>10. Payments'
  <2>1. \A n \in Milestone : byHand'[n].state \in Worked => byHand[n].state \in Worked
    BY <1>5, <1>6 DEF Worked
  <2>2. QED
    BY <1>3, <1>8, <2>1, CreditsKept DEF Inv
<1>11. References'
  <2>1. ASSUME NEW n \in Milestone, byHand'[n].state # None
        PROVE  /\ order[byHand'[n].order].state # None
               /\ byHand'[n].account # None => account'[byHand'[n].account].status # None
               /\ byHand'[n].state = "AWAITING_PAYMENT" => byHand'[n].account # None
    <3>1. CASE n = m
      BY <1>2, <1>4, <1>5, <1>6, <1>7, <3>1, ConstantsOK DEF ConstantsOK, Inv, References, Exists
    <3>2. CASE n # m
      <4>1. byHand'[n] = byHand[n] /\ Defined(n)
        BY <1>6, <2>1, <3>2 DEF Defined
      <4>2. byHand[n].account \in Account \cup {None}
        BY <1>0, <4>1, Shapes DEF ByHand
      <4>3. QED
        BY <1>7, <4>1, <4>2 DEF Inv, References, Exists
    <3>3. QED
      BY <3>1, <3>2
  <2>2. ASSUME NEW w \in Account, account'[w].status # None, account'[w].milestone # None
        PROVE  /\ byHand'[account'[w].milestone].state # None
               /\ byHand'[account'[w].milestone].order = account'[w].order
    <3>1. CASE w = v
      BY <1>4, <1>5, <1>6, <1>7, <3>1 DEF None
    <3>2. CASE w # v
      <4>1. Issued(w) /\ account[w].milestone \in Milestone
        BY <1>0, <1>7, <2>2, <3>2, Shapes DEF Window
      <4>2. /\ Defined(account[w].milestone)
            /\ byHand[account[w].milestone].order = account[w].order
        BY <4>1, ConstantsOK DEF ConstantsOK, Inv, References
      <4>3. QED
        BY <1>7, <1>8, <3>2, <4>1, <4>2 DEF Kept
    <3>3. QED
      BY <3>1, <3>2
  <2>3. QED
    BY <1>3, <2>1, <2>2 DEF References, Defined, Exists, Issued
<1>12. QED
  BY <1>8, <1>9, <1>10, <1>11, StepKeeps DEF CommitFund, Ends, Request

(* A milestone worked on has been paid for, so something was credited to   *)
(* its order; and so has the milestone 1 that a payment made.              *)
LEMMA WorkedWasCredited ==
  ASSUME Inv
  PROVE  /\ \A m \in Milestone : byHand[m].state \in Worked => Credited(byHand[m].order) # {}
         /\ \A o \in Order : first[o] # None => Credited(o) # {}
<1>1. ASSUME NEW m \in Milestone, byHand[m].state \in Worked
      PROVE  Credited(byHand[m].order) # {}
  <2>1. PICK t \in Transfer : topUp[t] > 0 /\ For(t) = m
    BY <1>1 DEF Inv, Payments, WorkIsPaid, Worked
  <2>2. Paid(t) /\ transfer[t].account \in Account /\ Issued(transfer[t].account)
    BY <2>1, Shapes DEF Inv, Payments, CreditedWerePaid
  <2>3. account[transfer[t].account].order = byHand[m].order
    BY <2>1, <2>2, ConstantsOK DEF ConstantsOK, Inv, References, For
  <2>4. QED
    BY <2>1, <2>3 DEF Credited
<1>2. \A o \in Order : first[o] # None => Credited(o) # {}
  BY DEF Inv, Payments, WorkIsPaid, PaidBy
<1>3. QED
  BY <1>1, <1>2

(* The sign-off that approves the last milestone closes an order that paid.*)
LEMMA ClosingKeeps ==
  ASSUME TypeOK, NEW o \in Order, NEW last \in BOOLEAN, Exists(o), Closing(o, last)
  PROVE  /\ order' \in [Order -> OrderRow]
         /\ \A k \in Order : Exists(k) => order'[k].state # None
         /\ \A k \in Order : order'[k].state # order[k].state => k = o /\ order'[k].state = "CLOSED"
<1>1. CASE order' = order
  BY <1>1, Shapes DEF Exists
<1>2. CASE order' = [order EXCEPT ![o] = [order[o] EXCEPT !.state = "CLOSED"]]
  BY <1>2, Shapes DEF OrderRow, OrderState, Exists, None
<1>3. QED
  BY <1>1, <1>2 DEF Closing

LEMMA ReleaseKeeps ==
  ASSUME Inv, NEW o \in Order, Release(o)
  PROVE  Inv' /\ Kept
<1>0. TypeOK
  BY DEF Inv
<1>1. Credited(o) # {}
  BY WorkedWasCredited DEF Release, None
<1>2. Exists(o)
  <2>1. PICK t \in Transfer : topUp[t] > 0 /\ account[transfer[t].account].order = o
    BY <1>1 DEF Credited
  <2>2. QED
    BY <1>0, <2>1, Shapes DEF Inv, Payments, CreditedWerePaid
<1>3. /\ order' \in [Order -> OrderRow]
      /\ \A k \in Order : Exists(k) => order'[k].state # None
      /\ \A k \in Order : order'[k].state # order[k].state => k = o /\ order'[k].state = "CLOSED"
  <2> DEFINE last == Approved(o, None)
  <2>1. last \in BOOLEAN /\ Closing(o, last)
    BY DEF Release, Approved
  <2> HIDE DEF last
  <2>2. QED
    BY <1>0, <1>2, <2>1, ClosingKeeps
<1>4. /\ first' \in [Order -> {None, "FUNDED", "APPROVED"}]
      /\ \A k \in Order : first[k] = None <=> first'[k] = None
      /\ UNCHANGED <<listing, byHand, escrow, account, late, transfer, topUp, request>>
  BY <1>0, Shapes DEF Release, None
<1>5. Kept
  BY <1>3, <1>4 DEF Kept, Issued, Defined
<1>6. TypeOK'
  <2>1. \A v \in Account : account[v].status # None => order'[account[v].order].state # None
    BY <1>0, <1>3, Shapes DEF Issued
  <2>2. QED
    BY <1>3, <1>4, <2>1 DEF Inv, TypeOK, OrderRow
<1>7. Payments'
  BY <1>1, <1>3, <1>4, <1>5, CreditsKept DEF Inv, Ordered
<1>8. References'
  BY <1>0, <1>4, <1>5, ReferencesKept DEF Inv, Defined, Issued
<1>9. QED
  BY <1>4, <1>5, <1>6, <1>7, <1>8, StepKeeps

LEMMA ReleaseByHandKeeps ==
  ASSUME Inv, NEW m \in Milestone, ReleaseByHand(m)
  PROVE  Inv' /\ Kept
<1>0. TypeOK
  BY DEF Inv
<1>1. PICK o \in Order : o = byHand[m].order /\ Defined(m) /\ Exists(o) /\ Credited(o) # {}
  <2>1. Defined(m) /\ byHand[m].state \in Worked
    BY DEF ReleaseByHand, Defined, Worked, None
  <2>2. QED
    BY <1>0, <2>1, WorkedWasCredited, Shapes DEF Inv, References
<1>2. /\ order' \in [Order -> OrderRow]
      /\ \A k \in Order : Exists(k) => order'[k].state # None
      /\ \A k \in Order : order'[k].state # order[k].state => k = o /\ order'[k].state = "CLOSED"
  <2> DEFINE last == first[o] \in {None, "APPROVED"} /\ Approved(o, m)
  <2>1. last \in BOOLEAN /\ Closing(o, last)
    BY <1>1 DEF ReleaseByHand
  <2> HIDE DEF last
  <2>2. QED
    BY <1>0, <1>1, <2>1, ClosingKeeps
<1>3. /\ byHand' = [byHand EXCEPT ![m] = InState(m, "APPROVED")]
      /\ UNCHANGED <<listing, first, escrow, account, late, transfer, topUp, request>>
      /\ byHand[m].state \in Worked
  BY DEF ReleaseByHand, Worked
<1>4. Kept
  BY <1>0, <1>1, <1>2, <1>3, NewState DEF Kept, Issued
<1>5. TypeOK'
  <2>1. \A v \in Account : account[v].status # None => order'[account[v].order].state # None
    BY <1>0, <1>2, Shapes DEF Issued
  <2>2. byHand' \in [Milestone -> Blank \cup ByHand]
    BY <1>0, <1>1, <1>3, NewState
  <2>3. QED
    BY <1>2, <1>3, <2>1, <2>2 DEF Inv, TypeOK, Blank, ByHand, OrderRow
<1>6. Payments'
  <2>1. \A n \in Milestone : byHand'[n].state \in Worked => byHand[n].state \in Worked
    BY <1>0, <1>1, <1>3, NewState
  <2>2. QED
    BY <1>1, <1>2, <1>3, <1>4, <2>1, CreditsKept DEF Inv, Ordered
<1>7. References'
  BY <1>0, <1>1, <1>3, <1>4, NewState, ReferencesKept DEF Inv, Issued
<1>8. QED
  BY <1>3, <1>4, <1>5, <1>6, <1>7, StepKeeps

(* The bank and the clock.                                                 *)
LEMMA OutsideKeeps ==
  ASSUME Inv, Outside
  PROVE  Inv' /\ Kept
<1>0. TypeOK
  BY DEF Inv
<1>1. UNCHANGED <<listing, order, first, byHand, escrow, account, topUp, request>>
  BY DEF Outside, Pay, Elapse
<1>2. /\ transfer' \in [Transfer -> [account : {None}] \cup Made]
      /\ \A t \in Transfer : Paid(t) => transfer'[t] = transfer[t]
      /\ \A t \in Transfer : transfer'[t].account # None => account[transfer'[t].account].status # None
  <2>1. CASE UNCHANGED transfer
    BY <1>0, <2>1, Shapes DEF Paid, Issued
  <2>2. ASSUME NEW t \in Transfer, NEW v \in Account, NEW amount \in Money, Pay(t, v, amount)
        PROVE  <1>2!1 /\ <1>2!2 /\ <1>2!3
    <3> DEFINE made == [account |-> v, amount |-> amount]
    <3>1. made \in Made /\ made.account = v
      BY DEF Made
    <3>2. /\ transfer' = [transfer EXCEPT ![t] = made]
          /\ transfer[t].account = None /\ account[v].status # None
      BY <2>2 DEF Pay
    <3> HIDE DEF made
    <3>3. QED
      BY <1>0, <3>1, <3>2, Shapes DEF Paid, Issued
  <2>3. QED
    BY <2>1, <2>2 DEF Outside, Elapse
<1>3. late' \subseteq Account
  BY <1>0 DEF Outside, Pay, Elapse, TypeOK
<1>4. Kept
  BY <1>1, <1>2 DEF Kept, Exists, Issued, Defined
<1>5. TypeOK'
  BY <1>1, <1>2, <1>3 DEF Inv, TypeOK, Made
<1>6. Payments'
  BY <1>1, <1>4, CreditsKept DEF Inv
<1>7. References'
  BY <1>0, <1>1, <1>4, ReferencesKept DEF Inv, Defined, Issued
<1>8. QED
  BY <1>1, <1>4, <1>5, <1>6, <1>7, StepKeeps


-----------------------------------------------------------------------------
(* What a notification about to be credited has found: a transfer made, of *)
(* the amount its window asks for, and the order of the window.            *)
LEMMA ToCredit ==
  ASSUME Inv, NEW h \in Handler, request[h].op = "topUp"
  PROVE  \E t \in Transfer, v \in Account, o \in Order, price \in Money :
           /\ t = request[h].transfer /\ Paid(t) /\ RightAmount(t)
           /\ v = transfer[t].account /\ Issued(v) /\ account[v] \in Window
           /\ o = account[v].order /\ Exists(o)
           /\ price = transfer[t].amount /\ price = account[v].amount
<1>1. TypeOK /\ request[h] \in Request /\ Remembered(request[h])
  BY Shapes DEF Inv
<1>2. PICK t \in Transfer :
        t = request[h].transfer /\ transfer[t] \in Made /\ Paid(t) /\ RightAmount(t)
  BY <1>1, RequestFields, Shapes DEF Remembered
<1>3. PICK v \in Account : v = transfer[t].account /\ Issued(v) /\ account[v] \in Window
  BY <1>1, <1>2, Shapes
<1>4. PICK o \in Order : o = account[v].order /\ Exists(o)
  BY <1>1, <1>3, Shapes
<1>5. PICK price \in Money : price = transfer[t].amount /\ price = account[v].amount
  BY <1>2, <1>3 DEF Made, RightAmount
<1>6. QED
  BY <1>2, <1>3, <1>4, <1>5

LEMMA MoneyCounts == Money \subseteq Nat \ {0}
  BY ConstantsOK DEF ConstantsOK, Money

(* Using up a window leaves what it is for.                                *)
LEMMA UsedUp ==
  ASSUME TypeOK, NEW v \in Account, Issued(v), account[v] \in Window,
         account' = [account EXCEPT ![v] = [account[v] EXCEPT !.status = "USED"]]
  PROVE  /\ account' \in [Account -> [status : {None}] \cup Window]
         /\ \A w \in Account : Issued(w) =>
              /\ account'[w].status # None /\ account'[w].order = account[w].order
              /\ account'[w].milestone = account[w].milestone /\ account'[w].amount = account[w].amount
         /\ \A w \in Account : account'[w].status # None => Issued(w)
<1> DEFINE row == [account[v] EXCEPT !.status = "USED"]
<1>1. /\ row \in Window /\ row.status # None /\ row.order = account[v].order
      /\ row.milestone = account[v].milestone /\ row.amount = account[v].amount
  BY DEF Window, None
<1>2. account' = [account EXCEPT ![v] = row]
  OBVIOUS
<1> HIDE DEF row
<1>3. QED
  BY <1>1, <1>2, Shapes DEF Issued

(* A credited transfer is credited to the same order, for the same thing.  *)
LEMMA CreditedStays ==
  ASSUME TypeOK, Payments, Kept, NEW s \in Transfer, topUp[s] > 0
  PROVE  /\ Paid(s) /\ transfer'[s] = transfer[s]
         /\ account'[transfer[s].account].order = account[transfer[s].account].order
         /\ account'[transfer[s].account].amount = account[transfer[s].account].amount
         /\ For(s)' = For(s)
  BY Shapes DEF Payments, CreditedWerePaid, Kept, For

(* An order that has no milestone 1 yet has nothing credited as its        *)
(* payment, by this transfer or by another.                                *)
LEMMA CommitServiceTopupKeeps ==
  ASSUME Inv, NEW h \in Handler, CommitServiceTopup(h)
  PROVE  Inv' /\ Kept
<1>0. TypeOK /\ Payments /\ References
  BY DEF Inv
<1>1. PICK t \in Transfer, v \in Account, o \in Order, price \in Money :
        /\ t = request[h].transfer /\ Paid(t) /\ RightAmount(t)
        /\ v = transfer[t].account /\ Issued(v) /\ account[v] \in Window
        /\ o = account[v].order /\ Exists(o)
        /\ price = transfer[t].amount /\ price = account[v].amount
  BY ToCredit DEF CommitServiceTopup
<1>2. /\ For(t) = None /\ first[o] = None
      /\ first' = [first EXCEPT ![o] = "FUNDED"]
      /\ escrow' = [escrow EXCEPT ![o] = escrow[o] + price]
      /\ topUp' = [topUp EXCEPT ![t] = topUp[t] + 1]
      /\ order' = [order EXCEPT ![o] = [order[o] EXCEPT !.state = "ACTIVE"]]
      /\ account' = [account EXCEPT ![v] = [account[v] EXCEPT !.status = "USED"]]
      /\ UNCHANGED <<listing, byHand, late, transfer>> /\ Ends(h)
  BY <1>1 DEF CommitServiceTopup, FirstMilestone
<1>3. PaidBy(o) = {} /\ escrow[o] = 0
  BY <1>0, <1>2 DEF Payments, NothingBefore
<1>4. topUp[t] = 0
  <2>1. t \notin PaidBy(o)
    BY <1>3
  <2>2. ~ (topUp[t] > 0)
    BY <1>1, <1>2, <2>1 DEF PaidBy, Credited
  <2>3. QED
    BY <1>0, <2>2, Shapes
<1>5. /\ order' \in [Order -> OrderRow]
      /\ \A k \in Order : Exists(k) => order'[k].state # None
      /\ order'[o].state = "ACTIVE" /\ \A k \in Order \ {o} : order'[k] = order[k]
  BY <1>0, <1>2, Shapes DEF Exists, OrderRow, OrderState, None
<1>6. /\ first' \in [Order -> {None, "FUNDED", "APPROVED"}]
      /\ escrow' \in [Order -> Nat] /\ topUp' \in [Transfer -> Nat]
  BY <1>0, <1>2, MoneyCounts, Shapes
<1>7. Kept
  BY <1>0, <1>1, <1>2, <1>5, UsedUp DEF Kept, Defined
<1>8. TypeOK'
  <2>1. \A w \in Account : account'[w].status # None => order'[account'[w].order].state # None
    BY <1>0, <1>1, <1>2, <1>5, UsedUp, Shapes DEF Exists
  <2>2. request' \in [Handler -> Request]
    BY <1>0, <1>2, Shapes DEF Ends, Becomes, Request
  <2>3. \A s \in Transfer : transfer[s].account # None => account'[transfer[s].account].status # None
    BY <1>0, <1>1, <1>2, UsedUp, Shapes DEF Paid
  <2>4. account' \in [Account -> [status : {None}] \cup Window]
    BY <1>0, <1>1, <1>2, UsedUp
  <2>5. QED
    BY <1>0, <1>2, <1>5, <1>6, <2>1, <2>2, <2>3, <2>4 DEF TypeOK, Window, OrderRow
<1>9. References'
  BY <1>0, <1>1, <1>2, <1>7, UsedUp, ReferencesKept DEF Defined
<1>10. Payments'
  <2>1. /\ topUp'[t] = 1 /\ \A s \in Transfer \ {t} : topUp'[s] = topUp[s]
        /\ escrow'[o] = price /\ \A k \in Order \ {o} : escrow'[k] = escrow[k]
        /\ first'[o] = "FUNDED" /\ \A k \in Order \ {o} : first'[k] = first[k]
    BY <1>0, <1>2, <1>3, <1>4, Shapes, MoneyCounts
  <2>2. CreditedWerePaid'
    BY <1>0, <1>1, <1>2, <2>1 DEF Payments, CreditedWerePaid, Paid
  <2>3. \A s \in Transfer : topUp[s] > 0 =>
          /\ s # t
          /\ account'[transfer[s].account].order = account[transfer[s].account].order
          /\ account'[transfer[s].account].amount = account[transfer[s].account].amount
          /\ For(s)' = For(s)
    BY <1>0, <1>4, <1>7, CreditedStays
  <2>4. /\ account'[transfer[t].account].order = o /\ account'[transfer[t].account].amount = price
        /\ For(t)' = None
    BY <1>0, <1>1, <1>2, UsedUp DEF For
  <2>5. Credited(o)' = Credited(o) \cup {t} /\ \A k \in Order \ {o} : Credited(k)' = Credited(k)
    BY <1>2, <2>1, <2>3, <2>4 DEF Credited
  <2>6. PaidBy(o)' = {t} /\ \A k \in Order \ {o} : PaidBy(k)' = PaidBy(k)
    <3>1. \A k \in Order : \A s \in Credited(k) : For(s)' = For(s)
      BY <2>3 DEF Credited
    <3>2. QED
      BY <1>3, <2>4, <2>5, <3>1 DEF PaidBy
  <2>7. NothingBefore'
    BY <1>0, <2>1, <2>6 DEF Payments, NothingBefore, None
  <2>8. PaidOnceInFull'
    <3>1. ASSUME NEW k \in Order \ {o}
          PROVE  /\ \A s, u \in PaidBy(k)' : s = u
                 /\ \A s \in PaidBy(k)' : /\ topUp'[s] = 1
                                          /\ escrow'[k] = account'[transfer'[s].account].amount
                 /\ PaidBy(k)' = {} => escrow'[k] = 0
      <4>1. \A s \in PaidBy(k) : s \in Transfer /\ s # t /\ topUp[s] > 0
        BY <2>3 DEF PaidBy, Credited
      <4>2. QED
        BY <1>0, <1>2, <2>1, <2>3, <2>6, <4>1 DEF Payments, PaidOnceInFull
    <3>2. /\ \A s, u \in PaidBy(o)' : s = u
          /\ \A s \in PaidBy(o)' : /\ topUp'[s] = 1
                                   /\ escrow'[o] = account'[transfer'[s].account].amount
          /\ PaidBy(o)' = {} => escrow'[o] = 0
      BY <1>2, <2>1, <2>4, <2>6
    <3>3. QED
      BY <3>1, <3>2 DEF PaidOnceInFull
  <2>9. WorkIsPaid'
    <3>1. \A s \in Transfer : topUp'[s] > 0 =>
            transfer'[s].amount = account'[transfer'[s].account].amount
      BY <1>0, <1>1, <1>2, <2>1, <2>3, <2>4 DEF Payments, WorkIsPaid
    <3>2. \A k \in Order : first'[k] # None => PaidBy(k)' # {}
      BY <1>0, <2>1, <2>6 DEF Payments, WorkIsPaid
    <3>3. ASSUME NEW m \in Milestone, byHand'[m].state \in Worked
          PROVE  \E s \in Transfer : topUp'[s] > 0 /\ For(s)' = m
      <4>1. PICK s \in Transfer : topUp[s] > 0 /\ For(s) = m
        BY <1>0, <1>2, <3>3 DEF Payments, WorkIsPaid, Worked
      <4>2. QED
        BY <2>1, <2>3, <4>1
    <3>4. \A k \in Order : IF Credited(k)' = {} THEN order'[k].state \notin Ordered
                                              ELSE order'[k].state # "PENDING"
      BY <1>0, <1>5, <2>5 DEF Payments, WorkIsPaid, Ordered
    <3>5. QED
      BY <3>1, <3>2, <3>3, <3>4 DEF WorkIsPaid, Worked, Ordered
  <2>10. QED
    BY <2>2, <2>7, <2>8, <2>9 DEF Payments
<1>11. QED
  BY <1>2, <1>7, <1>8, <1>9, <1>10, StepKeeps DEF Ends, Request

(* A milestone by hand is credited: an order not activated by it had       *)
(* another paid before, so it is not PENDING either.                       *)
LEMMA CommitMilestoneTopupKeeps ==
  ASSUME Inv, NEW h \in Handler, CommitMilestoneTopup(h)
  PROVE  Inv' /\ Kept
<1>0. TypeOK /\ Payments /\ References
  BY DEF Inv
<1>1. PICK t \in Transfer, v \in Account, o \in Order, price \in Money :
        /\ t = request[h].transfer /\ Paid(t) /\ RightAmount(t)
        /\ v = transfer[t].account /\ Issued(v) /\ account[v] \in Window
        /\ o = account[v].order /\ Exists(o)
        /\ price = transfer[t].amount /\ price = account[v].amount
  BY ToCredit DEF CommitMilestoneTopup
<1>2. PICK m \in Milestone : m = For(t) /\ Defined(m) /\ byHand[m].order = o
  BY <1>0, <1>1 DEF CommitMilestoneTopup, For, References, Window
<1>3. /\ byHand' = [byHand EXCEPT ![m] = InState(m, "IN_PROGRESS")]
      /\ topUp' = [topUp EXCEPT ![t] = topUp[t] + 1]
      /\ order' = IF OnlyPaid(o, m) THEN [order EXCEPT ![o] = [order[o] EXCEPT !.state = "ACTIVE"]]
                                    ELSE order
      /\ account' = [account EXCEPT ![v] = [account[v] EXCEPT !.status = "USED"]]
      /\ UNCHANGED <<listing, first, escrow, late, transfer>> /\ Ends(h)
  BY <1>1, <1>2 DEF CommitMilestoneTopup
<1>4. /\ order' \in [Order -> OrderRow]
      /\ \A k \in Order : Exists(k) => order'[k].state # None
      /\ order'[o].state \in {order[o].state, "ACTIVE"}
      /\ OnlyPaid(o, m) => order'[o].state = "ACTIVE"
      /\ \A k \in Order \ {o} : order'[k] = order[k]
  <2>1. CASE OnlyPaid(o, m)
    BY <1>0, <1>3, <2>1, Shapes DEF Exists, OrderRow, OrderState, None
  <2>2. CASE ~ OnlyPaid(o, m)
    BY <1>0, <1>3, <2>2, Shapes DEF Exists
  <2>3. QED
    BY <2>1, <2>2
<1>5. m # None
  BY ConstantsOK DEF ConstantsOK
<1>6. topUp' \in [Transfer -> Nat] /\ topUp'[t] > 0
      /\ \A s \in Transfer \ {t} : topUp'[s] = topUp[s]
  BY <1>0, <1>3, Shapes
<1>7. Kept
  <2>1. \A n \in Milestone : Defined(n) => byHand'[n].state # None /\ byHand'[n].order = byHand[n].order
    BY <1>0, <1>2, <1>3, NewState
  <2>2. QED
    BY <1>0, <1>1, <1>3, <1>4, <2>1, UsedUp DEF Kept
<1>8. TypeOK'
  <2>1. \A w \in Account : account'[w].status # None => order'[account'[w].order].state # None
    BY <1>0, <1>1, <1>3, <1>4, UsedUp, Shapes DEF Exists
  <2>2. request' \in [Handler -> Request]
    BY <1>0, <1>3, Shapes DEF Ends, Becomes, Request
  <2>3. \A s \in Transfer : transfer[s].account # None => account'[transfer[s].account].status # None
    BY <1>0, <1>1, <1>3, UsedUp, Shapes DEF Paid
  <2>4. account' \in [Account -> [status : {None}] \cup Window]
    BY <1>0, <1>1, <1>3, UsedUp
  <2>5. byHand' \in [Milestone -> Blank \cup ByHand]
    BY <1>0, <1>2, <1>3, NewState
  <2>6. QED
    BY <1>0, <1>3, <1>4, <1>6, <2>1, <2>2, <2>3, <2>4, <2>5
       DEF TypeOK, Window, OrderRow, Blank, ByHand
<1>9. References'
  <2>1. \A n \in Milestone : byHand'[n].state # None =>
          /\ Defined(n) /\ byHand'[n].account = byHand[n].account
          /\ byHand'[n].state = "AWAITING_PAYMENT" => byHand[n].state = "AWAITING_PAYMENT"
    BY <1>0, <1>2, <1>3, NewState
  <2>2. \A w \in Account : account'[w].status # None => Issued(w)
    BY <1>0, <1>1, <1>3, UsedUp
  <2>3. QED
    BY <1>0, <1>7, <2>1, <2>2, ReferencesKept
<1>10. Payments'
  <2>1. \A s \in Transfer : topUp[s] > 0 =>
          /\ account'[transfer[s].account].order = account[transfer[s].account].order
          /\ account'[transfer[s].account].amount = account[transfer[s].account].amount
          /\ For(s)' = For(s)
    BY <1>0, <1>7, CreditedStays
  <2>2. /\ account'[transfer[t].account].order = o /\ account'[transfer[t].account].amount = price
        /\ For(t)' = m
    BY <1>0, <1>1, <1>2, <1>3, UsedUp DEF For
  <2>3. CreditedWerePaid'
    BY <1>0, <1>1, <1>3, <1>6 DEF Payments, CreditedWerePaid, Paid
  <2>4. Credited(o)' = Credited(o) \cup {t} /\ \A k \in Order \ {o} : Credited(k)' = Credited(k)
    <3>1. ASSUME NEW s \in Transfer \ {t}, NEW k \in Order
          PROVE  s \in Credited(k)' <=> s \in Credited(k)
      BY <1>3, <1>6, <2>1, <3>1 DEF Credited
    <3>2. t \in Credited(o)' /\ \A k \in Order \ {o} : t \notin Credited(k)'
      BY <1>3, <1>6, <2>2 DEF Credited
    <3>3. \A k \in Order \ {o} : t \notin Credited(k)
      BY <1>1 DEF Credited
    <3>4. \A k \in Order : Credited(k) \subseteq Transfer /\ Credited(k)' \subseteq Transfer
      BY DEF Credited
    <3>5. QED
      BY <3>1, <3>2, <3>3, <3>4
  <2>5. \A k \in Order : PaidBy(k)' = PaidBy(k)
    <3>1. \A k \in Order : \A s \in Credited(k) : For(s)' = For(s)
      BY <2>1 DEF Credited
    <3>2. For(t) # None /\ For(t)' # None
      BY <1>2, <1>5, <2>2
    <3>3. QED
      BY <2>4, <3>1, <3>2 DEF PaidBy
  <2>6. NothingBefore'
    BY <1>0, <1>3, <2>5 DEF Payments, NothingBefore
  <2>7. PaidOnceInFull'
    <3>1. \A k \in Order : \A s \in PaidBy(k) :
            /\ topUp'[s] = topUp[s]
            /\ account'[transfer'[s].account].amount = account[transfer[s].account].amount
      BY <1>2, <1>3, <1>5, <1>6, <2>1 DEF PaidBy, Credited
    <3>2. QED
      BY <1>0, <1>3, <2>5, <3>1 DEF Payments, PaidOnceInFull
  <2>8. WorkIsPaid'
    <3>1. \A s \in Transfer : topUp'[s] > 0 =>
            transfer'[s].amount = account'[transfer'[s].account].amount
      BY <1>0, <1>1, <1>3, <1>6, <2>1, <2>2 DEF Payments, WorkIsPaid
    <3>2. \A k \in Order : first'[k] # None => PaidBy(k)' # {}
      BY <1>0, <1>3, <2>5 DEF Payments, WorkIsPaid
    <3>3. ASSUME NEW n \in Milestone, byHand'[n].state \in Worked
          PROVE  \E s \in Transfer : topUp'[s] > 0 /\ For(s)' = n
      <4>1. CASE n = m
        BY <1>6, <2>2, <4>1
      <4>2. CASE n # m
        <5>1. byHand[n].state \in Worked
          BY <1>0, <1>2, <1>3, <3>3, <4>2, NewState
        <5>2. PICK s \in Transfer : topUp[s] > 0 /\ For(s) = n
          BY <1>0, <5>1 DEF Payments, WorkIsPaid, Worked
        <5>3. s # t
          BY <1>2, <4>2, <5>2
        <5>4. QED
          BY <1>6, <2>1, <5>2, <5>3
      <4>3. QED
        BY <4>1, <4>2
    <3>4. order'[o].state # "PENDING"
      <4>1. CASE OnlyPaid(o, m)
        BY <1>4, <4>1
      <4>2. CASE ~ OnlyPaid(o, m)
        <5>1. Credited(o) # {}
          <6>1. CASE first[o] # None
            BY <6>1, WorkedWasCredited
          <6>2. CASE first[o] = None
            <7>1. PICK n \in Of(o) : byHand[n].state \notin {"DEFINED", "AWAITING_PAYMENT"}
              BY <4>2, <6>2 DEF OnlyPaid
            <7>2. n \in Milestone /\ Defined(n) /\ byHand[n].order = o /\ byHand[n].state # "DELETED"
              BY <7>1 DEF Of, Written, Defined
            <7>3. byHand[n].state \in Worked
              BY <1>0, <7>1, <7>2, Shapes DEF ByHand, Worked
            <7>4. QED
              BY <7>2, <7>3, WorkedWasCredited
          <6>3. QED
            BY <6>1, <6>2
        <5>2. QED
          BY <1>0, <1>4, <5>1 DEF Payments, WorkIsPaid
      <4>3. QED
        BY <4>1, <4>2
    <3>5. \A k \in Order : IF Credited(k)' = {} THEN order'[k].state \notin Ordered
                                              ELSE order'[k].state # "PENDING"
      BY <1>0, <1>4, <2>4, <3>4 DEF Payments, WorkIsPaid, Ordered
    <3>6. QED
      BY <3>1, <3>2, <3>3, <3>5 DEF WorkIsPaid, Worked, Ordered
  <2>9. QED
    BY <2>3, <2>6, <2>7, <2>8 DEF Payments
<1>11. QED
  BY <1>3, <1>7, <1>8, <1>9, <1>10, StepKeeps DEF Ends, Request

-----------------------------------------------------------------------------
LEMMA AtOnceKeeps ==
  ASSUME Inv, AtOnce
  PROVE  Inv' /\ Kept
<1>1. ASSUME NEW price \in Price, Update(price)
      PROVE  Inv' /\ Kept
  <2> DEFINE l == [listing EXCEPT !.price = price]
  <2>1. l \in [state : {"DRAFT", "PUBLISHED", "DELETED"}, price : Price]
    BY DEF Inv, TypeOK
  <2>2. WriteListing(l) /\ request' = request
    BY <1>1 DEF Update
  <2>3. QED
    BY <2>1, <2>2, ListingKeeps
<1>2. ASSUME NEW state \in {"PUBLISHED", "DRAFT"}, SetPublishState(state)
      PROVE  Inv' /\ Kept
  <2> DEFINE l == [listing EXCEPT !.state = state]
  <2>1. l \in [state : {"DRAFT", "PUBLISHED", "DELETED"}, price : Price]
    BY DEF Inv, TypeOK
  <2>2. WriteListing(l) /\ request' = request
    BY <1>2 DEF SetPublishState
  <2>3. QED
    BY <2>1, <2>2, ListingKeeps
<1>3. QED
  BY <1>1, <1>2, CreateMilestoneKeeps, ReleaseKeeps, ReleaseByHandKeeps DEF AtOnce

LEMMA InvInductive == Inv /\ [Next]_vars => Inv' /\ Kept
<1> SUFFICES ASSUME Inv, [Next]_vars PROVE Inv' /\ Kept
  OBVIOUS
<1>1. CASE UNCHANGED vars
  BY <1>1 DEF vars, rows, Inv, TypeOK, References, Remembered, Exists, Defined, Issued, Paid,
     RightAmount, Payments, CreditedWerePaid, NothingBefore, PaidOnceInFull, WorkIsPaid, PaidBy,
     Credited, For, Kept
<1>2. ASSUME NEW h \in Handler, OrderStep(h) \/ Stop(h)
      PROVE  Inv' /\ Kept
  BY <1>2, BeginsKeeps, CommitDeleteKeeps, CommitPurchaseKeeps, CommitEndKeeps DEF OrderStep
<1>3. ASSUME NEW h \in Handler, MilestoneStep(h)
      PROVE  Inv' /\ Kept
  BY <1>3, BeginsKeeps, CommitDeleteMilestoneKeeps, CommitFundKeeps DEF MilestoneStep
<1>4. ASSUME NEW h \in Handler, PaymentStep(h)
      PROVE  Inv' /\ Kept
  BY <1>4, BeginsKeeps, ExpireKeeps, CommitServiceTopupKeeps, CommitMilestoneTopupKeeps
     DEF PaymentStep
<1>5. QED
  BY <1>1, <1>2, <1>3, <1>4, AtOnceKeeps, OutsideKeeps DEF Next

LEMMA SpecInv == Spec => []Inv
  BY InitInv, InvInductive, PTL DEF Spec

(* Every column keeps its type, and every window and transfer refers to    *)
(* rows that exist.                                                        *)
THEOREM TypeCorrect == Spec => []TypeOK
<1>1. Inv => TypeOK
  BY DEF Inv
<1>2. QED
  BY <1>1, SpecInv, PTL

(* However often the bank repeats its notices, however many windows were   *)
(* opened for an order and whatever requests overlap, milestones by hand   *)
(* being paid meanwhile too, an order's own payment is one transfer,       *)
(* credited once, of the amount its window asked for, which is in escrow.  *)
THEOREM OneTransferPays == Spec => []PaidOnceInFull
<1>1. Inv => PaidOnceInFull
  BY DEF Inv, Payments
<1>2. QED
  BY <1>1, SpecInv, PTL

(* A milestone is worked on only after a transfer of the amount asked for  *)
(* it was credited for it, and an order is ACTIVE or CLOSED only after one *)
(* was credited to it: for its price, or for a milestone written by hand.  *)
THEOREM NoWorkUnpaid == Spec => []WorkIsPaid
<1>1. Inv => WorkIsPaid
  BY DEF Inv, Payments
<1>2. QED
  BY <1>1, SpecInv, PTL

-----------------------------------------------------------------------------
(* The refinement of AbstractPayment.  What a transfer is for does not     *)
(* change, for the windows are kept.                                       *)
LEMMA SentKept ==
  ASSUME TypeOK, Kept, NEW t \in Transfer, transfer'[t] = transfer[t]
  PROVE  /\ Foreign(t)' = Foreign(t)
         /\ Sent'[t] = Sent[t]
<1>1. CASE transfer[t].account = None
  BY <1>1 DEF Sent, Foreign
<1>2. CASE Paid(t)
  <2>1. PICK v \in Account : v = transfer[t].account /\ Issued(v)
    BY <1>2, Shapes
  <2>2. /\ account'[v].order = account[v].order /\ account'[v].amount = account[v].amount
        /\ account'[v].milestone = account[v].milestone
    BY <2>1 DEF Kept
  <2>3. QED
    BY <1>2, <2>1, <2>2 DEF Sent, RightAmount, Foreign, For
<1>3. QED
  BY <1>1, <1>2 DEF Paid

LEMMA PromiseInit == Init => Promise!Init
<1> SUFFICES ASSUME Init PROVE Promise!Init
  OBVIOUS
<1>1. \A t \in Transfer : Foreign(t)
  BY DEF Init, Foreign
<1>2. Sent = [t \in Transfer |-> Promise!Unsent] /\ Credits = [t \in Transfer |-> 0]
  BY <1>1 DEF Sent, Credits, Promise!Unsent
<1>3. QED
  BY <1>2 DEF Init, Promise!Init

(* A step of no transfer and no credit.                                    *)
LEMMA NothingMoves ==
  ASSUME TypeOK, Kept, UNCHANGED <<transfer, topUp, escrow>>
  PROVE  UNCHANGED <<Sent, Credits, escrow>>
<1>1. \A t \in Transfer : Foreign(t)' = Foreign(t) /\ Sent'[t] = Sent[t]
  BY SentKept
<1>2. QED
  BY <1>1 DEF Sent, Credits

(* The bank's transfer names a window that was issued, so an order; one    *)
(* into the window of a milestone by hand goes unnoticed.                  *)
LEMMA PayIsPromised ==
  ASSUME Inv, Kept, NEW t \in Transfer, NEW v \in Account, NEW amount \in Money,
         Pay(t, v, amount)
  PROVE  [Promise!Next]_<<Sent, Credits, escrow>>
<1>1. /\ transfer[t].account = None /\ Issued(v)
      /\ transfer' = [transfer EXCEPT ![t] = [account |-> v, amount |-> amount]]
      /\ UNCHANGED <<account, topUp, escrow>>
  BY DEF Pay, Issued
<1>2. /\ TypeOK /\ CreditedWerePaid /\ account[v].order \in Order /\ v # None
      /\ topUp \in [Transfer -> Nat]
  BY <1>1, Shapes, ConstantsOK DEF Inv, Payments, ConstantsOK
<1> DEFINE row == [item |-> account[v].order, amount |-> amount, exact |-> amount = account[v].amount]
<1>3. Sent[t] = Promise!Unsent /\ Foreign(t) /\ topUp[t] = 0
  <2>1. ~ (topUp[t] > 0)
    BY <1>1, <1>2 DEF CreditedWerePaid, Paid
  <2>2. QED
    BY <1>1, <1>2, <2>1 DEF Sent, Foreign, Promise!Unsent
<1>4. transfer'[t] = [account |-> v, amount |-> amount]
  BY <1>1, <1>2, Shapes
<1>5. \A s \in Transfer \ {t} : Foreign(s)' = Foreign(s) /\ Sent'[s] = Sent[s]
  BY <1>1, <1>2, SentKept, Shapes
<1>6. Credits' = Credits
  BY <1>1, <1>3, <1>5 DEF Credits
<1>7. CASE account[v].milestone # None
  <2>1. Foreign(t)'
    BY <1>1, <1>4, <1>7 DEF Foreign, For
  <2>2. Sent'[t] = Sent[t]
    BY <1>3, <2>1 DEF Sent
  <2>3. Sent' = Sent
    BY <1>5, <2>2 DEF Sent
  <2>4. QED
    BY <1>1, <1>6, <2>3
<1>8. CASE account[v].milestone = None
  <2>1. ~ Foreign(t)'
    BY <1>1, <1>2, <1>4, <1>8 DEF Foreign, For
  <2>2. Sent'[t] = row
    BY <1>1, <1>4, <2>1 DEF Sent, RightAmount
  <2>3. row \in [item : Order, amount : Money, exact : BOOLEAN]
    BY <1>2
  <2> HIDE DEF row
  <2>4. Sent' = [Sent EXCEPT ![t] = row]
    BY <1>5, <2>2 DEF Sent
  <2>5. Promise!Send(t)
    BY <1>1, <1>3, <1>6, <2>2, <2>3, <2>4 DEF Promise!Send
  <2>6. QED
    BY <2>5 DEF Promise!Next
<1>9. QED
  BY <1>7, <1>8

(* A credit finds its transfer made, of the right amount, and neither it   *)
(* nor another credited as the order's payment before.                     *)
LEMMA CreditIsPromised ==
  ASSUME Inv, Kept, NEW h \in Handler, CommitServiceTopup(h)
  PROVE  Promise!Next
<1>0. TypeOK /\ Payments
  BY DEF Inv
<1>1. PICK t \in Transfer, v \in Account, o \in Order, price \in Money :
        /\ t = request[h].transfer /\ Paid(t) /\ RightAmount(t)
        /\ v = transfer[t].account /\ Issued(v) /\ account[v] \in Window
        /\ o = account[v].order /\ Exists(o)
        /\ price = transfer[t].amount /\ price = account[v].amount
  BY ToCredit DEF CommitServiceTopup
<1>2. /\ For(t) = None /\ first[o] = None
      /\ escrow' = [escrow EXCEPT ![o] = escrow[o] + price]
      /\ topUp' = [topUp EXCEPT ![t] = topUp[t] + 1]
      /\ UNCHANGED transfer
  BY <1>1 DEF CommitServiceTopup, FirstMilestone
<1>3. PaidBy(o) = {} /\ escrow[o] = 0
  BY <1>0, <1>2 DEF Payments, NothingBefore
<1>4. topUp[t] = 0
  <2>1. t \notin PaidBy(o)
    BY <1>3
  <2>2. ~ (topUp[t] > 0)
    BY <1>1, <1>2, <2>1 DEF PaidBy, Credited
  <2>3. QED
    BY <1>0, <2>2, Shapes
<1>5. ~ Foreign(t)
  BY <1>1, <1>2 DEF Foreign, Paid
<1>6. Sent[t] = [item |-> o, amount |-> price, exact |-> TRUE]
  BY <1>1, <1>5 DEF Sent, RightAmount
<1>7. \A s \in Transfer : Foreign(s)' = Foreign(s) /\ Sent'[s] = Sent[s]
  BY <1>0, <1>2, SentKept
<1>8. Sent' = Sent
  BY <1>7 DEF Sent
<1>9. escrow' = [escrow EXCEPT ![o] = price]
  <2>1. escrow[o] + price = price
    BY <1>3, MoneyCounts
  <2>2. QED
    BY <1>2, <2>1
<1>10. Credits' = [Credits EXCEPT ![t] = 1] /\ Credits[t] = 0
  <2>1. topUp'[t] = 1 /\ \A s \in Transfer \ {t} : topUp'[s] = topUp[s]
    BY <1>0, <1>2, <1>4, Shapes
  <2>2. Credits[t] = 0
    BY <1>4 DEF Credits
  <2>3. \A s \in Transfer : Credits'[s] = IF s = t THEN 1 ELSE Credits[s]
    BY <1>5, <1>7, <2>1 DEF Credits
  <2>4. QED
    BY <2>2, <2>3 DEF Credits
<1>11. Sent[t] # Promise!Unsent
  BY <1>6 DEF Promise!Unsent
<1>12. Promise!Credit(t)
  BY <1>3, <1>6, <1>8, <1>9, <1>10, <1>11 DEF Promise!Credit
<1>13. QED
  BY <1>12 DEF Promise!Next

(* The credit of a milestone by hand leaves what was promised of orders.   *)
LEMMA ForeignCredit ==
  ASSUME Inv, Kept, NEW h \in Handler, CommitMilestoneTopup(h)
  PROVE  UNCHANGED <<Sent, Credits, escrow>>
<1>1. PICK t \in Transfer :
        /\ For(t) # None /\ topUp' = [topUp EXCEPT ![t] = topUp[t] + 1]
        /\ UNCHANGED <<transfer, escrow>>
  BY ToCredit DEF CommitMilestoneTopup
<1>2. \A s \in Transfer : Foreign(s)' = Foreign(s) /\ Sent'[s] = Sent[s]
  BY <1>1, SentKept DEF Inv
<1>3. Foreign(t)
  BY <1>1 DEF Foreign
<1>4. \A s \in Transfer \ {t} : topUp'[s] = topUp[s]
  BY <1>1, Shapes DEF Inv
<1>5. QED
  BY <1>1, <1>2, <1>3, <1>4 DEF Sent, Credits

LEMMA PromiseStep ==
  ASSUME Inv, [Next]_vars
  PROVE  [Promise!Next]_<<Sent, Credits, escrow>>
<1>1. TypeOK /\ Kept
  BY InvInductive DEF Inv
<1>2. CASE UNCHANGED <<transfer, topUp, escrow>>
  BY <1>1, <1>2, NothingMoves
<1>3. ASSUME NEW h \in Handler, OrderStep(h) \/ MilestoneStep(h) \/ Stop(h)
      PROVE  UNCHANGED <<transfer, topUp, escrow>>
  BY <1>3 DEF OrderStep, MilestoneStep, Stop, BeginDelete, CommitDelete, BeginPurchase,
     CommitPurchase, BeginDecline, BeginCancel, CommitEnd, SetState, BeginDeleteMilestone,
     CommitDeleteMilestone, WriteMilestone, BeginFund, CommitFund, Begins, rows
<1>4. ASSUME NEW h \in Handler, PaymentStep(h)
      PROVE  [Promise!Next]_<<Sent, Credits, escrow>>
  <2>1. CASE CommitServiceTopup(h)
    BY <1>1, <2>1, CreditIsPromised
  <2>2. CASE CommitMilestoneTopup(h)
    BY <1>1, <2>2, ForeignCredit
  <2>3. CASE Expire(h) \/ \E t \in Transfer : HandleIpn(h, t) \/ BeginServiceTopup(h, t)
                                              \/ BeginMilestoneTopup(h, t)
    BY <1>2, <2>3 DEF Expire, HandleIpn, BeginServiceTopup, BeginMilestoneTopup, Begins, rows
  <2>4. QED
    BY <1>4, <2>1, <2>2, <2>3 DEF PaymentStep
<1>5. CASE AtOnce
  BY <1>2, <1>5 DEF AtOnce, Update, SetPublishState, WriteListing, CreateMilestone,
     WriteMilestone, Release, ReleaseByHand
<1>6. CASE Outside
  <2>1. ASSUME NEW t \in Transfer, NEW v \in Account, NEW amount \in Money, Pay(t, v, amount)
        PROVE  [Promise!Next]_<<Sent, Credits, escrow>>
    BY <1>1, <2>1, PayIsPromised
  <2>2. QED
    BY <1>2, <1>6, <2>1 DEF Outside, Elapse
<1>7. CASE UNCHANGED vars
  BY <1>2, <1>7 DEF vars, rows
<1>8. QED
  BY <1>2, <1>3, <1>4, <1>5, <1>6, <1>7 DEF Next

(* Whatever overlaps, orders are paid as AbstractPayment promises: each    *)
(* transfer into an account for an order is credited once at most, to the  *)
(* order it was made for, and each order is paid by one.                   *)
THEOREM PaysAsPromised == Spec => PaidAsPromised
<1>1. Inv /\ [Next]_vars => [Promise!Next]_<<Sent, Credits, escrow>>
  BY PromiseStep
<1>2. QED
  BY <1>1, PromiseInit, SpecInv, PTL DEF Spec, PaidAsPromised, Promise!Spec
=============================================================================
