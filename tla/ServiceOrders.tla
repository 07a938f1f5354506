--------------------------- MODULE ServiceOrders ---------------------------
(***************************************************************************)
(* A service listing of an expert and the orders one client places for it. *)
(* An order is an engagement without bid or NDA: buying issues a virtual   *)
(* account of 24 hours, and the notification of the bank transfer creates  *)
(* milestone 1 of the order, locks the money in escrow, and activates it.  *)
(* The client may also write milestones of the order by hand and pay those *)
(* like the milestones of a project, for nothing asks for a contract here. *)
(*                                                                         *)
(* Most requests read outside the transaction (if any) that writes; what   *)
(* they read is kept in request[h].  A notification reads the virtual      *)
(* account, opens a transaction, looks for its own TOP_UP, and writes; the *)
(* writes are one step.                                                    *)
(***************************************************************************)
EXTENDS Integers, FiniteSets

CONSTANTS
  Order,     \* ids of engagements of type SERVICE_PURCHASE or TECH_DISCOVERY
  Milestone, \* ids of milestones the client writes by hand
  Account,   \* ids of virtual accounts of type SERVICE or MILESTONE
  Transfer,  \* bank transfers, by reference code
  Price,     \* what a listing may ask
  Amount,    \* what a milestone by hand may ask
  Handler    \* requests that can be in progress at a time

None == "NONE"   \* the null of a column

ASSUME ConstantsOK ==
  /\ IsFiniteSet(Order) /\ Price \subseteq Nat \ {0} /\ Amount \subseteq Nat \ {0}
  /\ None \notin Account /\ None \notin Milestone

VARIABLES
  listing,   \* the row of services
  order,     \* engagements: state, and whether service_id still names the listing
  first,     \* the state of the milestone 1 that the payment of an order makes
  byHand,    \* milestones: those written by hand
  escrow,    \* what the escrow accounts of the milestones 1 made so hold, by order
  account,   \* virtual_accounts
  late,      \* virtual accounts whose expires_at has passed
  transfer,  \* transfers the bank has made
  topUp,     \* how many TOP_UP rows carry the reference of a transfer
  request    \* what each handler is doing and what it has read

Money == Price \cup Amount

rows == <<listing, order, first, byHand, escrow, account, late, transfer, topUp>>
vars == <<rows, request>>

-----------------------------------------------------------------------------
Idle == [op |-> "idle"]

Starts(h, r)  == request[h] = Idle /\ request' = [request EXCEPT ![h] = r]
Becomes(h, r) == request' = [request EXCEPT ![h] = r]
Ends(h)       == Becomes(h, Idle)

(* The request is going to write on the strength of what it reads now.     *)
Begins(h, r) == Starts(h, r) /\ UNCHANGED rows

Deleted == listing.state = "DELETED"

SetState(o, state) ==
  /\ order' = [order EXCEPT ![o].state = state]
  /\ UNCHANGED <<listing, first, byHand, escrow, account, late, transfer, topUp>>

Init ==
  /\ listing \in [state : {"DRAFT"}, price : Price]
  /\ order = [o \in Order |-> [state |-> None, listed |-> FALSE]]
  /\ first = [o \in Order |-> None]
  /\ byHand = [m \in Milestone |-> [state |-> None]]
  /\ escrow = [o \in Order |-> 0]
  /\ account = [v \in Account |-> [status |-> None]]
  /\ late = {}
  /\ transfer = [t \in Transfer |-> [account |-> None]]
  /\ topUp = [t \in Transfer |-> 0]
  /\ request = [h \in Handler |-> Idle]

-----------------------------------------------------------------------------
(* The expert's side of the listing.                                       *)
WriteListing(l) ==
  /\ listing' = l
  /\ UNCHANGED <<order, first, byHand, escrow, account, late, transfer, topUp>>

(* update, when only the terms are sent: nothing of the row is read that   *)
(* another request changes.                                                *)
Update(price) ==
  /\ ~ Deleted
  /\ WriteListing([listing EXCEPT !.price = price])
  /\ UNCHANGED request

(* setPublishState, and update when the new state is sent.  What it reads  *)
(* decides if it is refused, not what it writes: it acts where it writes.  *)
SetPublishState(state) ==
  /\ listing.state \in {"DRAFT", "PUBLISHED"} \ {state}
  /\ WriteListing([listing EXCEPT !.state = state])
  /\ UNCHANGED request

BeginDelete(h) ==
  /\ listing.state = "DRAFT"
  /\ \A o \in Order : ~ order[o].listed
  /\ Begins(h, [op |-> "delete"])

(* The foreign key of an order placed meanwhile is set to null.            *)
CommitDelete(h) ==
  /\ request[h].op = "delete"
  /\ ~ Deleted
  /\ listing' = [listing EXCEPT !.state = "DELETED"]
  /\ order' = [o \in Order |-> [order[o] EXCEPT !.listed = FALSE]]
  /\ Ends(h)
  /\ UNCHANGED <<first, byHand, escrow, account, late, transfer, topUp>>

-----------------------------------------------------------------------------
(* purchase: an ACTIVE order of the listing is returned as it is, and a    *)
(* PENDING one is taken up again.                                          *)
OfListing(state) == {o \in Order : order[o].state = state /\ order[o].listed}

BeginPurchase(h) ==
  /\ listing.state = "PUBLISHED"
  /\ OfListing("ACTIVE") = {}
  /\ \E o \in IF OfListing("PENDING") = {} THEN {None} ELSE OfListing("PENDING") :
       Begins(h, [op |-> "purchase", order |-> o, price |-> listing.price])

(* A virtual account of type SERVICE, for this order.                      *)
Pays(v, o) == account[v].milestone = None /\ account[v].order = o

Open(o) == {v \in Account : account[v].status = "ACTIVE" /\ Pays(v, o) /\ v \notin late}

(* The order found before, or a new one unless the listing is gone; and    *)
(* the virtual account that is still open for it, or a new one.            *)
CommitPurchase(h) ==
  /\ request[h].op = "purchase"
  /\ \E o \in Order :
       /\ IF request[h].order = None
          THEN /\ order[o].state = None
               /\ ~ Deleted
               /\ order' = [order EXCEPT ![o] = [state |-> "PENDING", listed |-> TRUE]]
          ELSE o = request[h].order /\ UNCHANGED order
       /\ IF Open(o) # {}
          THEN UNCHANGED account
          ELSE \E v \in Account :
                 /\ account[v].status = None
                 /\ account' = [account EXCEPT ![v] =
                      [status |-> "ACTIVE", order |-> o, milestone |-> None,
                       amount |-> request[h].price]]
  /\ Ends(h)
  /\ UNCHANGED <<listing, first, byHand, escrow, late, transfer, topUp>>

(* EngagementsService.decline: writes by id what it found PENDING.         *)
BeginDecline(h, o) ==
  /\ order[o].state = "PENDING"
  /\ Begins(h, [op |-> "end", order |-> o, state |-> "DECLINED"])

Written(m) == byHand[m].state \notin {None, "DELETED"}
Of(o)      == {m \in Milestone : Written(m) /\ byHand[m].order = o}

(* EngagementsService.cancelEngagement: of any state.  A milestone FUNDED   *)
(* or waiting for its review stops it, but only until the expert submits   *)
(* and retracts, which makes it IN_PROGRESS; so nothing is asked here.     *)
BeginCancel(h, o) ==
  /\ order[o].state # None
  /\ Begins(h, [op |-> "end", order |-> o, state |-> "CANCELLED"])

CommitEnd(h) ==
  /\ request[h].op = "end"
  /\ SetState(request[h].order, request[h].state)
  /\ Ends(h)

-----------------------------------------------------------------------------
(* Milestones by hand.  Their criteria are left out: whoever opens one     *)
(* that has none gives it one.                                             *)
WriteMilestone(m, row) ==
  /\ byHand' = [byHand EXCEPT ![m] = row]
  /\ UNCHANGED <<listing, order, first, escrow, late, transfer, topUp>>

InState(m, state) == [byHand[m] EXCEPT !.state = state]

(* createMilestone, for an order in any state.  The number is unique in    *)
(* the engagement; of the others than 1 it does not matter which they are. *)
CreateMilestone(m, o, number) ==
  /\ byHand[m].state = None
  /\ order[o].state # None
  /\ number = 1 => first[o] = None /\ \A n \in Of(o) : byHand[n].number # 1
  /\ WriteMilestone(m, [state |-> "DEFINED", order |-> o, number |-> number, account |-> None])
  /\ UNCHANGED <<account, request>>

BeginDeleteMilestone(h, m) ==
  /\ byHand[m].state = "DEFINED"
  /\ Begins(h, [op |-> "remove", milestone |-> m])

(* Its criteria go with it; a submission of it stops the deletion.         *)
CommitDeleteMilestone(h) ==
  /\ request[h].op = "remove"
  /\ LET m == request[h].milestone IN
     /\ byHand[m].state \in {"DEFINED", "AWAITING_PAYMENT", "IN_PROGRESS"}
     /\ WriteMilestone(m, InState(m, "DELETED"))
  /\ Ends(h)
  /\ UNCHANGED account

(* initiateFunding, for a new window and for one that closed unpaid.  The  *)
(* amount is whatever the client wrote into the milestone before.          *)
Shown(m) == byHand[m].account

WindowClosed(v) ==
  account[v].status = "EXPIRED" \/ (account[v].status = "ACTIVE" /\ v \in late)

BeginFund(h, m) ==
  \/ /\ byHand[m].state = "DEFINED"
     /\ Begins(h, [op |-> "fund", milestone |-> m, stale |-> None, status |-> None])
  \/ /\ byHand[m].state = "AWAITING_PAYMENT" /\ WindowClosed(Shown(m))
     /\ LET v == Shown(m) IN
        Begins(h, [op |-> "fund", milestone |-> m, stale |-> v, status |-> account[v].status])

(* A stale account is closed if its status is still the one read; the      *)
(* milestone is written by id, whatever has become of it.                  *)
CommitFund(h, amount) ==
  /\ request[h].op = "fund"
  /\ LET r == request[h] IN
     /\ r.stale # None => account[r.stale].status = r.status
     /\ Written(r.milestone)
     /\ \E v \in Account :
          /\ account[v].status = None
          /\ account' = [w \in Account |->
               IF w = v THEN [status |-> "ACTIVE", order |-> byHand[r.milestone].order,
                              milestone |-> r.milestone, amount |-> amount]
               ELSE IF w = r.stale THEN [account[w] EXCEPT !.status = "EXPIRED"]
               ELSE account[w]]
          /\ WriteMilestone(r.milestone,
               [InState(r.milestone, "AWAITING_PAYMENT") EXCEPT !.account = v])
  /\ Ends(h)

-----------------------------------------------------------------------------
(* The client's bank pays into an account whose number the client has, and *)
(* notifies the platform, again and again until the answer is good.        *)
Pay(t, v, amount) ==
  /\ transfer[t].account = None
  /\ account[v].status # None
  /\ transfer' = [transfer EXCEPT ![t] = [account |-> v, amount |-> amount]]
  /\ UNCHANGED <<listing, order, first, byHand, escrow, account, late, topUp, request>>

Elapse(v) ==
  /\ account[v].status = "ACTIVE" /\ v \notin late   \* of a closed one the time is no matter
  /\ late' = late \cup {v}
  /\ UNCHANGED <<listing, order, first, byHand, escrow, account, transfer, topUp, request>>

RightAmountOrMore(t) == transfer[t].amount >= account[transfer[t].account].amount
RightAmount(t) == transfer[t].amount = account[transfer[t].account].amount

(* handleIpn: the virtual account is read before the transaction, which is *)
(* sure to be aborted for one that is not ACTIVE or of another amount.     *)
HandleIpn(h, t) ==
  /\ transfer[t].account # None
  /\ LET v == transfer[t].account IN
     /\ account[v].status = "ACTIVE"
     /\ \/ v \in late /\ Begins(h, [op |-> "expire", account |-> v])
        \/ v \notin late /\ RightAmount(t) /\ Begins(h, [op |-> "ipn", transfer |-> t])

Expire(h) ==
  /\ request[h].op = "expire"
  /\ account' = [account EXCEPT ![request[h].account].status = "EXPIRED"]
  /\ Ends(h)
  /\ UNCHANGED <<listing, order, first, byHand, escrow, late, transfer, topUp>>

(* What handleServiceTopup and handleMilestoneTopup ask of a notification. *)
MayCredit(h, t) ==
  /\ request[h].op = "ipn" /\ request[h].transfer = t
  /\ transfer[t].account \notin late
  /\ topUp[t] = 0

For(t) == account[transfer[t].account].milestone

BeginServiceTopup(h, t) ==
  /\ MayCredit(h, t) /\ For(t) = None
  /\ Becomes(h, [op |-> "topUp", transfer |-> t])
  /\ UNCHANGED rows

BeginMilestoneTopup(h, t) ==
  /\ MayCredit(h, t) /\ For(t) # None
  /\ byHand[For(t)].state = "AWAITING_PAYMENT"
  /\ Becomes(h, [op |-> "topUp", transfer |-> t])
  /\ UNCHANGED rows

(* milestones (engagement_id, milestone_number) is unique.                 *)
FirstMilestoneIfUnpaid(o) == TRUE
FirstMilestone(o) == first[o] = None /\ \A m \in Of(o) : byHand[m].number # 1

CommitServiceTopup(h) ==
  /\ request[h].op = "topUp" /\ For(request[h].transfer) = None
  /\ LET t == request[h].transfer
         v == transfer[t].account
         o == account[v].order IN
     /\ FirstMilestone(o)
     /\ first' = [first EXCEPT ![o] = "FUNDED"]
     /\ escrow' = [escrow EXCEPT ![o] = @ + transfer[t].amount]
     /\ topUp' = [topUp EXCEPT ![t] = @ + 1]
     /\ order' = [order EXCEPT ![o].state = "ACTIVE"]
     /\ account' = [account EXCEPT ![v].status = "USED"]
  /\ Ends(h)
  /\ UNCHANGED <<listing, byHand, late, transfer>>

(* The order becomes ACTIVE if no other milestone of it has been paid.     *)
OnlyPaid(o, m) ==
  first[o] = None /\ \A n \in Of(o) \ {m} : byHand[n].state \in {"DEFINED", "AWAITING_PAYMENT"}

CommitMilestoneTopup(h) ==
  /\ request[h].op = "topUp" /\ For(request[h].transfer) # None
  /\ LET t == request[h].transfer
         v == transfer[t].account
         m == For(t)
         o == byHand[m].order IN
     /\ Written(m)
     /\ byHand' = [byHand EXCEPT ![m] = InState(m, "IN_PROGRESS")]
     /\ topUp' = [topUp EXCEPT ![t] = @ + 1]
     /\ account' = [account EXCEPT ![v].status = "USED"]
     /\ order' = IF OnlyPaid(o, m) THEN [order EXCEPT ![o].state = "ACTIVE"] ELSE order
  /\ Ends(h)
  /\ UNCHANGED <<listing, first, escrow, late, transfer>>

-----------------------------------------------------------------------------
(* CriteriaService.verify: the last sign-off of a milestone approves it,   *)
(* and closes the engagement if none is left to approve.  What leads to it *)
(* is in MilestoneEscrow; FUNDED and IN_PROGRESS stand for all of it here. *)
Approved(o, m) == \A n \in Of(o) \ {m} : byHand[n].state = "APPROVED"   \* all but m

Closing(o, last) == order' = IF last THEN [order EXCEPT ![o].state = "CLOSED"] ELSE order

Release(o) ==
  /\ first[o] = "FUNDED"
  /\ first' = [first EXCEPT ![o] = "APPROVED"]
  /\ Closing(o, Approved(o, None))
  /\ UNCHANGED <<listing, byHand, escrow, account, late, transfer, topUp, request>>

ReleaseByHand(m) ==
  /\ byHand[m].state = "IN_PROGRESS"
  /\ byHand' = [byHand EXCEPT ![m] = InState(m, "APPROVED")]
  /\ LET o == byHand[m].order IN
     Closing(o, first[o] \in {None, "APPROVED"} /\ Approved(o, m))
  /\ UNCHANGED <<listing, first, escrow, account, late, transfer, topUp, request>>

(* A request is refused, its transaction aborts, or its process dies.      *)
Stop(h) ==
  /\ request[h] # Idle
  /\ Ends(h)
  /\ UNCHANGED rows

-----------------------------------------------------------------------------
(* What one statement or one transaction does needs a handler that is free *)
OrderStep(h) ==
  \/ BeginDelete(h) \/ CommitDelete(h)
  \/ BeginPurchase(h) \/ CommitPurchase(h) \/ CommitEnd(h)
  \/ \E o \in Order : BeginDecline(h, o) \/ BeginCancel(h, o)

MilestoneStep(h) ==
  \/ \E m \in Milestone : BeginDeleteMilestone(h, m) \/ BeginFund(h, m)
  \/ CommitDeleteMilestone(h) \/ \E amount \in Amount : CommitFund(h, amount)

PaymentStep(h) ==
  \/ \E t \in Transfer : HandleIpn(h, t) \/ BeginServiceTopup(h, t) \/ BeginMilestoneTopup(h, t)
  \/ Expire(h) \/ CommitServiceTopup(h) \/ CommitMilestoneTopup(h)

AtOnce ==
  \/ \E price \in Price \ {listing.price} : Update(price)
  \/ \E state \in {"PUBLISHED", "DRAFT"} : SetPublishState(state)
  \/ \E m \in Milestone, o \in Order, number \in {1, 2} : CreateMilestone(m, o, number)
  \/ \E o \in Order : Release(o)
  \/ \E m \in Milestone : ReleaseByHand(m)

Outside ==
  \/ \E t \in Transfer, v \in Account, amount \in Money : Pay(t, v, amount)
  \/ \E v \in Account : Elapse(v)

Next ==
  \/ \E h \in Handler : OrderStep(h) \/ MilestoneStep(h) \/ PaymentStep(h) \/ Stop(h)
  \/ (\E h \in Handler : request[h] = Idle) /\ AtOnce
  \/ Outside

Spec == Init /\ [][Next]_vars

-----------------------------------------------------------------------------
OrderState == {None, "PENDING", "ACTIVE", "DECLINED", "CANCELLED", "CLOSED"}

Request ==
  {Idle}
  \cup [op : {"delete"}]
  \cup [op : {"purchase"}, order : Order \cup {None}, price : Price]
  \cup [op : {"end"}, order : Order, state : {"DECLINED", "CANCELLED"}]
  \cup [op : {"remove"}, milestone : Milestone]
  \cup [op : {"fund"}, milestone : Milestone,
        stale : Account \cup {None}, status : {None, "ACTIVE", "EXPIRED"}]
  \cup [op : {"expire"}, account : Account]
  \cup [op : {"ipn", "topUp"}, transfer : Transfer]

(* Every column keeps its type; an account or a transfer that exists names *)
(* an order or an account that exists.                                     *)
TypeOK ==
  /\ listing \in [state : {"DRAFT", "PUBLISHED", "DELETED"}, price : Price]
  /\ order \in [Order -> [state : OrderState, listed : BOOLEAN]]
  /\ first \in [Order -> {None, "FUNDED", "APPROVED"}]
  /\ byHand \in [Milestone -> [state : {None}] \cup
       [state : {"DEFINED", "AWAITING_PAYMENT", "IN_PROGRESS", "APPROVED", "DELETED"},
        order : Order, number : {1, 2}, account : Account \cup {None}]]
  /\ escrow \in [Order -> Nat]
  /\ account \in [Account -> [status : {None}]
                     \cup [status : {"ACTIVE", "USED", "EXPIRED"}, order : Order,
                         milestone : Milestone \cup {None}, amount : Money]]
  /\ late \subseteq Account
  /\ transfer \in [Transfer -> [account : {None}] \cup [account : Account, amount : Money]]
  /\ topUp \in [Transfer -> Nat]
  /\ request \in [Handler -> Request]
  /\ \A v \in Account : account[v].status # None => order[account[v].order].state # None
  /\ \A t \in Transfer : transfer[t].account # None => account[transfer[t].account].status # None

(* The transfers credited to an order as its payment, and those credited   *)
(* to it or to a milestone of it.                                          *)
Credited(o) == {t \in Transfer : topUp[t] > 0 /\ account[transfer[t].account].order = o}
PaidBy(o)   == {t \in Credited(o) : For(t) = None}

(* However often the bank repeats its notices and however many accounts    *)
(* were issued for an order, one transfer pays it, once, and what is in    *)
(* escrow is the price of the account it was paid into.                    *)
PaidOnceInFull ==
  \A o \in Order :
    /\ \A s, t \in PaidBy(o) : s = t
    /\ \A t \in PaidBy(o) : /\ topUp[t] = 1
                            /\ escrow[o] = account[transfer[t].account].amount
    /\ PaidBy(o) = {} => escrow[o] = 0

(* Bids and NDA are bypassed, a payment never.  What is credited is what   *)
(* the account asked for; a milestone is worked on only after a transfer   *)
(* was credited for it, and an order is ACTIVE or CLOSED only after one was *)
(* credited to it, upon which it is PENDING no more.  (The first may be    *)
(* for a milestone by hand, of the client's own amount: an order can be    *)
(* ACTIVE without its price.)                                              *)
WorkIsPaid ==
  /\ \A t \in Transfer : topUp[t] > 0 => transfer[t].amount = account[transfer[t].account].amount
  /\ \A o \in Order : first[o] # None => PaidBy(o) # {}
  /\ \A m \in Milestone :
       byHand[m].state \in {"IN_PROGRESS", "APPROVED"} => \E t \in Transfer : topUp[t] > 0 /\ For(t) = m
  /\ \A o \in Order : IF Credited(o) = {} THEN order[o].state \notin {"ACTIVE", "CLOSED"}
                                          ELSE order[o].state # "PENDING"

(* So orders are paid as AbstractPayment promises: what a transfer is for  *)
(* was settled when it was made, and never changes.  Transfers into the    *)
(* account of a milestone by hand are none of its concern.                 *)
Foreign(t) == transfer[t].account = None \/ For(t) # None

Sent == [t \in Transfer |->
  IF Foreign(t) THEN [item |-> "none"]
  ELSE [item |-> account[transfer[t].account].order, amount |-> transfer[t].amount,
        exact |-> RightAmount(t)]]

Credits == [t \in Transfer |-> IF Foreign(t) THEN 0 ELSE topUp[t]]

Promise == INSTANCE AbstractPayment
  WITH Item <- Order, Reference <- Transfer, Amount <- Money, sent <- Sent, credits <- Credits
PaidAsPromised == Promise!Spec

=============================================================================
