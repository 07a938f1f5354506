----------------------- MODULE ContractFundingProofs -----------------------
(***************************************************************************)
(* Proofs about ContractFunding, for every set of milestones, virtual      *)
(* accounts, transfers and overlapping requests.                           *)
(***************************************************************************)
EXTENDS ContractFunding, TLAPS

(* Payment cannot begin before the NDA: nothing is issued or being issued. *)
Signing(h) == request[h].op \in {"fund", "renew"} => signed = Party
Issued(v)  == va[v] # Unissued

NdaFirst ==
  /\ NoWorkWithoutNda
  /\ \A v \in VA : Issued(v) => signed = Party
  /\ \A h \in Handler : Signing(h)

(* What a request remembers of a transfer is about one that was made.      *)
Remembered ==
  /\ \A h \in Handler : request[h].op \in {"notify", "credit"} =>
       transfer[request[h].p] # NoTransfer
  /\ \A p \in Payment : transfer[p] # NoTransfer => Issued(PaidInto(p))
  /\ \A h \in Handler : request[h].op = "expire" => Issued(request[h].v)
  /\ \A h \in Handler : request[h].op = "renew" => Issued(request[h].stale)
  /\ \A m \in Milestone : milestone[m] # "DEFINED" =>
       current[m] \in VA /\ Issued(current[m])
  /\ \A v \in VA : Issued(v) => milestone[va[v].m] # "DEFINED"

IInv == TypeOK /\ NdaFirst /\ Remembered

-----------------------------------------------------------------------------
(* The shapes of the records: what has which fields.                       *)
LEMMA Shapes ==
  ASSUME TypeOK
  PROVE  /\ \A v \in VA : Issued(v) =>
              /\ va[v] \in [status : VAStatus, m : Milestone, elapsed : BOOLEAN]
              /\ va[v].m \in Milestone /\ va[v].status \in VAStatus /\ va[v].elapsed \in BOOLEAN
         /\ \A p \in Payment : transfer[p] # NoTransfer =>
              PaidInto(p) \in VA /\ transfer[p].exact \in BOOLEAN
         /\ \A v \in VA : va[v].status # "NONE" => Issued(v)
  BY DEF TypeOK, Issued, Unissued, PaidInto, NoTransfer, VAStatus

(* What a busy request remembers, by the kind of request.                  *)
LEMMA RequestFields ==
  ASSUME TypeOK, NEW h \in Handler
  PROVE  /\ request[h].op = "sign" => request[h].party \in Party
         /\ request[h].op = "fund" => request[h].m \in Milestone
         /\ request[h].op = "renew" =>
              /\ request[h].m \in Milestone
              /\ request[h].stale \in VA /\ request[h].status \in VAStatus
         /\ request[h].op = "expire" => request[h].v \in VA
         /\ request[h].op \in {"notify", "credit"} => request[h].p \in Payment
         /\ request[h].op = "stage" =>
              request[h].m \in Milestone /\ request[h].as \in ReleaseState
  BY DEF TypeOK, Request, Idle

(* The steps of requests that write nothing but request.                   *)
LEMMA ReadOnlyType ==
  ASSUME TypeOK, NEW h \in Handler, NEW r \in Request, Becomes(h, r),
         UNCHANGED <<contract, milestone, current, va, transfer, funds, document>>
  PROVE  TypeOK'
  BY DEF TypeOK, Becomes, contract, funds

LEMMA InitInv == Init => IInv
  BY DEF Init, IInv, TypeOK, NdaFirst, Remembered, NoWorkWithoutNda, Signing, Issued,
         EngagementState, MilestoneState, Request, Idle, Unissued, NoTransfer

LEMMA ReadOnlyInv ==
  ASSUME IInv, NEW h \in Handler, NEW r \in Request, Becomes(h, r),
         UNCHANGED <<contract, milestone, current, va, transfer, funds, document>>,
         r.op \in {"fund", "renew"} => signed = Party,
         r.op \in {"notify", "credit"} => transfer[r.p] # NoTransfer,
         r.op = "expire" => Issued(r.v),
         r.op = "renew" => Issued(r.stale)
  PROVE  IInv'
<1>1. TypeOK'
  BY ReadOnlyType DEF IInv
<1>2. \A g \in Handler : request'[g] = IF g = h THEN r ELSE request[g]
  BY DEF IInv, TypeOK, Becomes
<1>3. NdaFirst'
  BY <1>2 DEF IInv, NdaFirst, NoWorkWithoutNda, Signing, Issued, contract
<1>4. Remembered'
  BY <1>2 DEF IInv, Remembered, Issued, PaidInto
<1>5. QED
  BY <1>1, <1>3, <1>4 DEF IInv

(* A request that ends leaves the other requests as they were.             *)
LEMMA EndsOthers ==
  ASSUME TypeOK, NEW h \in Handler, Ends(h)
  PROVE  /\ request' \in [Handler -> Request]
         /\ request'[h] = Idle
         /\ \A g \in Handler \ {h} : request'[g] = request[g]
  BY DEF TypeOK, Ends, Becomes, Request

LEMMA StartInv ==
  ASSUME IInv, NEW h \in Handler,
         \/ \E party \in Party : BeginSign(h, party)
         \/ BeginDecline(h) \/ BeginCancel(h)
         \/ \E m \in Milestone : BeginFund(h, m) \/ BeginRenew(h, m) \/ BeginStage(h, m)
         \/ \E p \in Payment : BeginIpn(h, p)
         \/ CheckIpn(h) \/ Stop(h)
  PROVE  IInv'
<1>1. CASE \E party \in Party : BeginSign(h, party)
  BY <1>1, ReadOnlyInv DEF BeginSign, Starts, Becomes, Request
<1>2. CASE BeginDecline(h)
  BY <1>2, ReadOnlyInv DEF BeginDecline, Starts, Becomes, Request
<1>3. CASE BeginCancel(h)
  BY <1>3, ReadOnlyInv DEF BeginCancel, Starts, Becomes, Request
<1>4. CASE \E m \in Milestone : BeginFund(h, m)
  BY <1>4, ReadOnlyInv DEF BeginFund, Starts, Becomes, Request, Contracted
<1>5. ASSUME NEW m \in Milestone, BeginRenew(h, m)
      PROVE  IInv'
  <2> DEFINE r == [op |-> "renew", m |-> m, stale |-> current[m],
                   status |-> va[current[m]].status]
  <2>1. current[m] \in VA /\ Issued(current[m])
    BY <1>5 DEF BeginRenew, IInv, Remembered
  <2>2. r \in Request
    BY <2>1, Shapes DEF IInv, Request
  <2>3. Becomes(h, r) /\ signed = Party
    BY <1>5 DEF BeginRenew, Starts, Becomes, Contracted
  <2>4. UNCHANGED <<contract, milestone, current, va, transfer, funds, document>>
    BY <1>5 DEF BeginRenew
  <2>5. QED
    BY <2>1, <2>2, <2>3, <2>4, ReadOnlyInv
<1>6. CASE \E m \in Milestone : BeginStage(h, m)
  BY <1>6, ReadOnlyInv DEF BeginStage, Starts, Becomes, Request, ReleaseState
<1>7. ASSUME NEW p \in Payment, BeginIpn(h, p)
      PROVE  IInv'
  <2>1. PaidInto(p) \in VA /\ Issued(PaidInto(p)) /\ transfer[p] # NoTransfer
    BY <1>7, Shapes DEF BeginIpn, IInv, Remembered
  <2>2. CASE Starts(h, [op |-> "expire", v |-> PaidInto(p)])
    BY <1>7, <2>1, <2>2, ReadOnlyInv DEF BeginIpn, Starts, Becomes, Request
  <2>3. CASE Starts(h, [op |-> "notify", p |-> p])
    BY <1>7, <2>1, <2>3, ReadOnlyInv DEF BeginIpn, Starts, Becomes, Request
  <2>4. QED
    BY <1>7, <2>2, <2>3 DEF BeginIpn
<1>8. CASE CheckIpn(h)
  <2> DEFINE r == [op |-> "credit", p |-> request[h].p]
  <2>1. request[h].p \in Payment /\ transfer[request[h].p] # NoTransfer
    BY <1>8, RequestFields DEF CheckIpn, IInv, Remembered
  <2>2. r \in Request /\ Becomes(h, r)
    BY <1>8, <2>1 DEF CheckIpn, Request
  <2>3. UNCHANGED <<contract, milestone, current, va, transfer, funds, document>>
    BY <1>8 DEF CheckIpn
  <2>4. QED
    BY <2>1, <2>2, <2>3, ReadOnlyInv
<1>9. CASE Stop(h)
  BY <1>9, ReadOnlyInv DEF Stop, Ends, Request, Idle
<1>10. QED
  BY <1>1, <1>2, <1>3, <1>4, <1>5, <1>6, <1>7, <1>8, <1>9

-----------------------------------------------------------------------------
(* Signatures, refusals, documents: nothing is issued or paid.             *)
LEMMA ContractInv ==
  ASSUME IInv, NEW h \in Handler,
         CommitSign(h) \/ CommitDecline(h) \/ CommitCancel(h) \/ CommitStage(h)
  PROVE  IInv'
<1>1. TypeOK'
  BY RequestFields, EndsOthers
  DEF IInv, TypeOK, CommitSign, CommitDecline, CommitCancel, CommitStage,
      EngagementState, ReleaseState, contract, funds
<1>2. Ends(h) /\ UNCHANGED <<milestone, current, va, transfer>> /\ signed \subseteq signed'
  BY DEF CommitSign, CommitDecline, CommitCancel, CommitStage, contract
<1>3. signed' \subseteq Party
  BY <1>1 DEF TypeOK
<1>4. NdaFirst'
  <2>1. engagement' \in {"CONNECTED", "ACTIVE"} => signed' = Party
    BY <1>2, <1>3 DEF IInv, NdaFirst, NoWorkWithoutNda, CommitSign, CommitDecline,
                      CommitCancel, CommitStage, contract
  <2>2. QED
    BY <1>2, <1>3, <2>1, EndsOthers
    DEF IInv, NdaFirst, NoWorkWithoutNda, Signing, Issued, Idle
<1>5. Remembered'
  BY <1>2, EndsOthers DEF IInv, Remembered, Issued, PaidInto, Idle
<1>6. QED
  BY <1>1, <1>4, <1>5 DEF IInv

(* What issuing a virtual account for a milestone changes.                 *)
LEMMA IssueStep ==
  ASSUME IInv, NEW v \in VA, NEW m \in Milestone, NEW expired \in SUBSET VA,
         \A w \in expired : Issued(w), Issue(v, m, expired)
  PROVE  /\ va' \in [VA -> {Unissued} \cup
                           [status : VAStatus, m : Milestone, elapsed : BOOLEAN]]
         /\ milestone' \in [Milestone -> MilestoneState]
         /\ current' \in [Milestone -> VA \cup {NoVA}]
         /\ Issued(v)'
         /\ \A w \in VA : Issued(w) => Issued(w)'
         /\ \A n \in Milestone : milestone'[n] # "DEFINED" =>
              n = m \/ milestone[n] # "DEFINED"
         /\ \A w \in VA : Issued(w)' => milestone'[va'[w].m] # "DEFINED"
         /\ \A n \in Milestone : current'[n] = IF n = m THEN v ELSE current[n]
<1>1. \A w \in expired : WithStatus(w, "EXPIRED") \in
        [status : VAStatus, m : Milestone, elapsed : BOOLEAN]
  BY Shapes DEF IInv, WithStatus, VAStatus
<1>2. \A w \in VA : Issued(w)' =>
        /\ w = v => va'[w].m = m
        /\ w # v => Issued(w) /\ va'[w].m = va[w].m
  BY DEF Issue, Issued, Unissued, IInv, TypeOK, WithStatus
<1>3. \A w \in VA : Issued(w)' => milestone'[va'[w].m] # "DEFINED"
  BY <1>2, Shapes DEF Issue, IInv, TypeOK, Remembered
<1>4. QED
  BY <1>1, <1>3 DEF Issue, Issued, Unissued, IInv, TypeOK, MilestoneState, VAStatus, WithStatus

LEMMA FundInv ==
  ASSUME IInv, NEW h \in Handler, CommitFund(h) \/ CommitRenew(h)
  PROVE  IInv'
<1>1. PICK v \in VA, m \in Milestone, expired \in SUBSET VA :
        /\ m = request[h].m
        /\ \A w \in expired : Issued(w)
        /\ Issue(v, m, expired)
  <2>1. CASE CommitFund(h)
    BY <2>1, RequestFields DEF CommitFund, IInv
  <2>2. CASE CommitRenew(h)
    BY <2>2, RequestFields DEF CommitRenew, IInv, Remembered
  <2>3. QED
    BY <2>1, <2>2
<1>2. /\ Ends(h) /\ signed = Party
      /\ UNCHANGED <<contract, transfer, funds, document>>
  BY DEF CommitFund, CommitRenew, IInv, NdaFirst, Signing
<1>3. TypeOK'
  BY <1>1, <1>2, IssueStep, EndsOthers DEF IInv, TypeOK, contract, funds
<1>4. NdaFirst'
  BY <1>2, EndsOthers DEF IInv, NdaFirst, NoWorkWithoutNda, Signing, Idle, contract
<1>5. Remembered'
  <2>1. /\ \A p \in Payment : transfer[p] # NoTransfer => Issued(PaidInto(p))'
        /\ \A n \in Milestone : milestone'[n] # "DEFINED" =>
             current'[n] \in VA /\ Issued(current[n])'
        /\ \A w \in VA : Issued(w)' => milestone'[va'[w].m] # "DEFINED"
    BY <1>1, <1>2, IssueStep, Shapes DEF IInv, Remembered, PaidInto, Issued
  <2>2. \A g \in Handler :
          /\ request'[g].op \in {"notify", "credit"} => transfer'[request'[g].p] # NoTransfer
          /\ request'[g].op = "expire" => Issued(request[g].v)'
          /\ request'[g].op = "renew" => Issued(request[g].stale)'
    BY <1>1, <1>2, IssueStep, EndsOthers, RequestFields DEF IInv, Remembered, Issued, Idle
  <2>3. QED
    BY <1>2, <2>1, <2>2 DEF Remembered
<1>6. QED
  BY <1>3, <1>4, <1>5 DEF IInv

-----------------------------------------------------------------------------
(* Steps that rewrite one issued account and leave what it was issued for. *)
LEMMA AccountStep ==
  ASSUME IInv, NEW v \in VA, Issued(v), NEW status \in VAStatus, NEW elapsed \in BOOLEAN,
         va' = [va EXCEPT ![v] = [status |-> status, m |-> va[v].m, elapsed |-> elapsed]]
  PROVE  /\ va' \in [VA -> {Unissued} \cup
                           [status : VAStatus, m : Milestone, elapsed : BOOLEAN]]
         /\ \A w \in VA : Issued(w)' <=> Issued(w)
         /\ \A w \in VA : Issued(w) => va'[w].m = va[w].m
  BY Shapes DEF IInv, TypeOK, Issued, Unissued

LEMMA ExpireInv ==
  ASSUME IInv, NEW h \in Handler, CommitExpire(h)
  PROVE  IInv'
<1>1. PICK v \in VA : v = request[h].v /\ Issued(v)
  BY RequestFields DEF CommitExpire, IInv, Remembered
<1>2. /\ va' \in [VA -> {Unissued} \cup
                        [status : VAStatus, m : Milestone, elapsed : BOOLEAN]]
      /\ \A w \in VA : Issued(w)' <=> Issued(w)
      /\ \A w \in VA : Issued(w) => va'[w].m = va[w].m
  BY <1>1, AccountStep, Shapes DEF CommitExpire, WithStatus, VAStatus, IInv
<1>3. /\ Ends(h)
      /\ UNCHANGED <<contract, milestone, current, transfer, funds, document>>
  BY DEF CommitExpire
<1>4. TypeOK'
  BY <1>2, <1>3, EndsOthers DEF IInv, TypeOK, contract, funds
<1>5. NdaFirst'
  BY <1>2, <1>3, EndsOthers DEF IInv, NdaFirst, NoWorkWithoutNda, Signing, Idle, contract
<1>6. Remembered'
  <2>1. /\ \A p \in Payment : transfer'[p] # NoTransfer => Issued(PaidInto(p))'
        /\ \A m \in Milestone : milestone'[m] # "DEFINED" =>
             current'[m] \in VA /\ Issued(current[m])'
        /\ \A w \in VA : Issued(w)' => milestone'[va'[w].m] # "DEFINED"
    BY <1>2, <1>3, Shapes DEF IInv, Remembered, PaidInto, Issued
  <2>2. \A g \in Handler :
          /\ request'[g].op \in {"notify", "credit"} => transfer'[request'[g].p] # NoTransfer
          /\ request'[g].op = "expire" => Issued(request[g].v)'
          /\ request'[g].op = "renew" => Issued(request[g].stale)'
    BY <1>2, <1>3, EndsOthers, RequestFields DEF IInv, Remembered, Issued, Idle
  <2>3. QED
    BY <2>1, <2>2 DEF Remembered
<1>7. QED
  BY <1>4, <1>5, <1>6 DEF IInv

LEMMA CreditInv ==
  ASSUME IInv, NEW h \in Handler, CommitCredit(h)
  PROVE  IInv'
<1>1. PICK p \in Payment :
        p = request[h].p /\ transfer[p] # NoTransfer /\ PaidInto(p) \in VA /\ Issued(PaidInto(p))
  BY RequestFields, Shapes DEF CommitCredit, IInv, Remembered
<1>2. PICK v \in VA, m \in Milestone : v = PaidInto(p) /\ m = PaidFor(p)
  BY <1>1, Shapes DEF PaidFor, IInv
<1>3. /\ va' \in [VA -> {Unissued} \cup
                        [status : VAStatus, m : Milestone, elapsed : BOOLEAN]]
      /\ \A w \in VA : Issued(w)' <=> Issued(w)
      /\ \A w \in VA : Issued(w) => va'[w].m = va[w].m
  BY <1>1, <1>2, AccountStep, Shapes DEF CommitCredit, WithStatus, VAStatus, IInv
<1>4. /\ Ends(h) /\ UNCHANGED <<signed, current, transfer>> /\ signed = Party
      /\ milestone' = [milestone EXCEPT ![m] = "IN_PROGRESS"]
  BY <1>1, <1>2 DEF CommitCredit, WorkStarts, IInv, NdaFirst
<1>5. TypeOK'
  <2>1. engagement' \in EngagementState /\ milestone' \in [Milestone -> MilestoneState]
    BY <1>1, <1>4 DEF CommitCredit, IInv, TypeOK, EngagementState, MilestoneState
  <2>2. credits' \in [Payment -> Nat] /\ escrows' \in [Milestone -> Nat]
    BY <1>1, <1>2 DEF CommitCredit, Lock, IInv, TypeOK
  <2>3. document' \in [Milestone -> SUBSET ReleaseState]
    BY <1>1, <1>2 DEF CommitCredit, IInv, TypeOK, ReleaseState
  <2>4. QED
    BY <1>3, <1>4, <2>1, <2>2, <2>3, EndsOthers DEF IInv, TypeOK
<1>6. NdaFirst'
  BY <1>4, EndsOthers DEF IInv, NdaFirst, NoWorkWithoutNda, Signing, Idle
<1>7. Remembered'
  <2>1. \A n \in Milestone : milestone'[n] # "DEFINED" => milestone[n] # "DEFINED"
    BY <1>1, <1>2, <1>4 DEF IInv, TypeOK, Remembered, PaidFor
  <2>2. /\ \A q \in Payment : transfer'[q] # NoTransfer => Issued(PaidInto(q))'
        /\ \A n \in Milestone : milestone'[n] # "DEFINED" =>
             current'[n] \in VA /\ Issued(current[n])'
        /\ \A w \in VA : Issued(w)' => milestone'[va'[w].m] # "DEFINED"
    BY <1>3, <1>4, <2>1, Shapes DEF IInv, TypeOK, Remembered, PaidInto, Issued
  <2>3. \A g \in Handler :
          /\ request'[g].op \in {"notify", "credit"} => transfer'[request'[g].p] # NoTransfer
          /\ request'[g].op = "expire" => Issued(request[g].v)'
          /\ request'[g].op = "renew" => Issued(request[g].stale)'
    BY <1>3, <1>4, EndsOthers, RequestFields DEF IInv, Remembered, Issued, Idle
  <2>4. QED
    BY <2>2, <2>3 DEF Remembered
<1>8. QED
  BY <1>5, <1>6, <1>7 DEF IInv

LEMMA OutsideInv ==
  ASSUME IInv,
         \/ \E v \in VA : Elapse(v)
         \/ \E p \in Payment, v \in VA, exact \in BOOLEAN : Transfer(p, v, exact)
  PROVE  IInv'
<1>1. ASSUME NEW v \in VA, Elapse(v)
      PROVE  IInv'
  <2>1. /\ va' \in [VA -> {Unissued} \cup
                          [status : VAStatus, m : Milestone, elapsed : BOOLEAN]]
        /\ \A w \in VA : Issued(w)' <=> Issued(w)
        /\ \A w \in VA : Issued(w) => va'[w].m = va[w].m
    BY <1>1, AccountStep, Shapes DEF Elapse, Issued, IInv
  <2>2. UNCHANGED <<contract, milestone, current, transfer, funds, document, request>>
    BY <1>1 DEF Elapse
  <2>3. TypeOK'
    BY <2>1, <2>2 DEF IInv, TypeOK, contract, funds
  <2>4. NdaFirst'
    BY <2>1, <2>2 DEF IInv, NdaFirst, NoWorkWithoutNda, Signing, contract
  <2>5. Remembered'
    BY <2>1, <2>2, Shapes, RequestFields DEF IInv, Remembered, PaidInto, Issued
  <2>6. QED
    BY <2>3, <2>4, <2>5 DEF IInv
<1>2. ASSUME NEW p \in Payment, NEW v \in VA, NEW exact \in BOOLEAN, Transfer(p, v, exact)
      PROVE  IInv'
  <2>1. /\ Issued(v)
        /\ UNCHANGED <<contract, milestone, current, va, funds, document, request>>
        /\ transfer' = [transfer EXCEPT ![p] = [va |-> v, exact |-> exact]]
    BY <1>2 DEF Transfer, Issued
  <2>2. TypeOK'
    BY <2>1 DEF IInv, TypeOK, contract, funds
  <2>3. NdaFirst'
    BY <2>1 DEF IInv, NdaFirst, NoWorkWithoutNda, Signing, Issued, contract
  <2>4. Remembered'
    <3>1. \A q \in Payment : q # p => transfer'[q] = transfer[q]
      BY <2>1 DEF IInv, TypeOK
    <3>2. transfer'[p].va = v /\ transfer'[p] # NoTransfer
      BY <2>1 DEF IInv, TypeOK, NoTransfer
    <3>3. QED
      BY <2>1, <3>1, <3>2, RequestFields DEF IInv, Remembered, PaidInto, Issued
  <2>5. QED
    BY <2>2, <2>3, <2>4 DEF IInv
<1>3. QED
  BY <1>1, <1>2

LEMMA InvInductive == IInv /\ [Next]_vars => IInv'
<1> SUFFICES ASSUME IInv, [Next]_vars PROVE IInv'
  OBVIOUS
<1>1. CASE UNCHANGED vars
  BY <1>1 DEF vars, IInv, TypeOK, NdaFirst, NoWorkWithoutNda, Signing, Remembered,
              Issued, PaidInto
<1>2. ASSUME NEW h \in Handler, Serve(h)
      PROVE  IInv'
  BY <1>2, StartInv, ContractInv, FundInv, ExpireInv, CreditInv DEF Serve
<1>3. QED
  BY <1>1, <1>2, OutsideInv DEF Next

LEMMA SpecInv == Spec => []IInv
  BY InitInv, InvInductive, PTL DEF Spec

(* Every column keeps its type, however many requests overlap.             *)
THEOREM TypeCorrect == Spec => []TypeOK
<1>1. IInv => TypeOK
  BY DEF IInv
<1>2. QED
  BY <1>1, SpecInv, PTL

(* Nothing is payable, and no work starts, before both parties signed.     *)
THEOREM NdaBeforeWork == Spec => []NoWorkWithoutNda
<1>1. IInv => NoWorkWithoutNda
  BY DEF IInv, NdaFirst
<1>2. QED
  BY <1>1, SpecInv, PTL

-----------------------------------------------------------------------------
(* One request at a time.  What a request has read is still so when it     *)
(* writes, which is what makes a payment count exactly once.               *)
OneAtATime == \A g, h \in Handler : g = h

Window ==
  /\ \A v \in VA : va[v].status = "ACTIVE" =>
       milestone[va[v].m] = "AWAITING_PAYMENT" /\ current[va[v].m] = v
  /\ \A m \in Milestone : milestone[m] = "AWAITING_PAYMENT" =>
       va[current[m]].status # "USED" /\ va[current[m]].m = m

StillTrue(h) ==
  /\ request[h].op = "fund" => milestone[request[h].m] = "DEFINED"
  /\ request[h].op = "renew" =>
       /\ milestone[request[h].m] = "AWAITING_PAYMENT"
       /\ current[request[h].m] = request[h].stale
  /\ request[h].op \in {"notify", "credit"} => va[PaidInto(request[h].p)].status = "ACTIVE"

SerialInv ==
  /\ IInv /\ Window /\ PaidExactlyOnce
  /\ \A h \in Handler : StillTrue(h)

LEMMA SerialInit == Init => SerialInv
  BY InitInv DEF Init, SerialInv, Window, PaidExactlyOnce, StillTrue, Idle, Unissued

(* A request that only reads changes what it remembers and nothing else.   *)
LEMMA SerialRead ==
  ASSUME OneAtATime, SerialInv, IInv', NEW h \in Handler, NEW r \in Request, Becomes(h, r),
         UNCHANGED <<contract, milestone, current, va, transfer, funds, document>>,
         r.op = "fund" => milestone[r.m] = "DEFINED",
         r.op = "renew" => milestone[r.m] = "AWAITING_PAYMENT" /\ current[r.m] = r.stale,
         r.op \in {"notify", "credit"} => va[PaidInto(r.p)].status = "ACTIVE"
  PROVE  SerialInv'
<1>1. request'[h] = r
  BY DEF SerialInv, IInv, TypeOK, Becomes
<1>2. StillTrue(h)'
  BY <1>1 DEF StillTrue, PaidInto
<1>3. QED
  BY <1>2 DEF SerialInv, Window, PaidExactlyOnce, OneAtATime, funds

LEMMA SerialStart ==
  ASSUME OneAtATime, SerialInv, IInv', NEW h \in Handler,
         \/ \E party \in Party : BeginSign(h, party)
         \/ BeginDecline(h) \/ BeginCancel(h)
         \/ \E m \in Milestone : BeginFund(h, m) \/ BeginRenew(h, m) \/ BeginStage(h, m)
         \/ \E p \in Payment : BeginIpn(h, p)
         \/ CheckIpn(h) \/ Stop(h)
  PROVE  SerialInv'
<1>0. request' \in [Handler -> Request] /\ request'[h] \in Request
  BY DEF IInv, TypeOK
<1>1. CASE \E party \in Party : BeginSign(h, party)
  BY <1>1, SerialRead DEF BeginSign, Starts, Becomes, Request
<1>2. CASE BeginDecline(h) \/ BeginCancel(h)
  BY <1>2, SerialRead DEF BeginDecline, BeginCancel, Starts, Becomes, Request
<1>3. CASE \E m \in Milestone : BeginFund(h, m)
  BY <1>3, SerialRead DEF BeginFund, Fresh, Starts, Becomes, Request
<1>4. ASSUME NEW m \in Milestone, BeginRenew(h, m)
      PROVE  SerialInv'
  <2> DEFINE r == [op |-> "renew", m |-> m, stale |-> current[m],
                   status |-> va[current[m]].status]
  <2>1. Becomes(h, r) /\ request'[h] = r /\ milestone[m] = "AWAITING_PAYMENT"
    BY <1>4 DEF BeginRenew, Starts, Becomes, SerialInv, IInv, TypeOK
  <2>2. UNCHANGED <<contract, milestone, current, va, transfer, funds, document>>
    BY <1>4 DEF BeginRenew
  <2>3. r \in Request
    BY <1>0, <2>1
  <2>4. QED
    BY <2>1, <2>2, <2>3, SerialRead
<1>5. CASE \E m \in Milestone : BeginStage(h, m)
  BY <1>5, SerialRead DEF BeginStage, Starts, Becomes, Request, ReleaseState
<1>6. ASSUME NEW p \in Payment, BeginIpn(h, p)
      PROVE  SerialInv'
  <2>1. CASE Starts(h, [op |-> "expire", v |-> PaidInto(p)])
    <3>1. request'[h] = [op |-> "expire", v |-> PaidInto(p)]
      BY <2>1 DEF Starts, SerialInv, IInv, TypeOK
    <3>2. QED
      BY <1>0, <1>6, <2>1, <3>1, SerialRead DEF BeginIpn, Starts, Becomes
  <2>2. CASE Starts(h, [op |-> "notify", p |-> p])
    BY <1>6, <2>2, SerialRead DEF BeginIpn, Starts, Becomes, Request
  <2>3. QED
    BY <1>6, <2>1, <2>2 DEF BeginIpn
<1>7. CASE CheckIpn(h)
  <2> DEFINE r == [op |-> "credit", p |-> request[h].p]
  <2>1. Becomes(h, r) /\ request'[h] = r /\ va[PaidInto(r.p)].status = "ACTIVE"
    BY <1>7 DEF CheckIpn, Becomes, SerialInv, StillTrue, IInv, TypeOK
  <2>2. UNCHANGED <<contract, milestone, current, va, transfer, funds, document>>
    BY <1>7 DEF CheckIpn
  <2>3. QED
    BY <1>0, <2>1, <2>2, SerialRead
<1>8. CASE Stop(h)
  BY <1>8, SerialRead DEF Stop, Ends, Request, Idle
<1>9. QED
  BY <1>1, <1>2, <1>3, <1>4, <1>5, <1>6, <1>7, <1>8

(* When the only request ends, none remembers anything.                    *)
LEMMA NothingRemembered ==
  ASSUME OneAtATime, IInv, NEW h \in Handler, Ends(h)
  PROVE  \A g \in Handler : StillTrue(g)'
  BY EndsOthers DEF OneAtATime, IInv, StillTrue, Idle

LEMMA SerialContract ==
  ASSUME OneAtATime, SerialInv, IInv', NEW h \in Handler,
         CommitSign(h) \/ CommitDecline(h) \/ CommitCancel(h) \/ CommitStage(h)
  PROVE  SerialInv'
<1>1. Ends(h) /\ UNCHANGED <<milestone, current, va, escrows>>
  BY DEF CommitSign, CommitDecline, CommitCancel, CommitStage, funds
<1>2. QED
  BY <1>1, NothingRemembered DEF SerialInv, Window, PaidExactlyOnce

LEMMA SerialFund ==
  ASSUME OneAtATime, SerialInv, IInv', NEW h \in Handler, CommitFund(h) \/ CommitRenew(h)
  PROVE  SerialInv'
<1>1. PICK v \in VA, m \in Milestone, expired \in SUBSET VA :
        /\ m = request[h].m
        /\ Issue(v, m, expired)
        /\ \/ milestone[m] = "DEFINED"
           \/ milestone[m] = "AWAITING_PAYMENT" /\ expired = {current[m]}
        /\ \A w \in expired : Issued(w)
  <2>1. CASE CommitFund(h)
    <3>1. PICK v \in VA : Issue(v, request[h].m, {})
      BY <2>1 DEF CommitFund
    <3>2. request[h].m \in Milestone /\ milestone[request[h].m] = "DEFINED"
      BY <2>1, RequestFields DEF CommitFund, SerialInv, IInv, StillTrue
    <3>3. QED
      BY <3>1, <3>2
  <2>2. CASE CommitRenew(h)
    <3>1. PICK v \in VA : Issue(v, request[h].m, {request[h].stale})
      BY <2>2 DEF CommitRenew
    <3>2. /\ request[h].m \in Milestone /\ milestone[request[h].m] = "AWAITING_PAYMENT"
          /\ request[h].stale = current[request[h].m]
          /\ request[h].stale \in VA /\ Issued(request[h].stale)
      BY <2>2, RequestFields DEF CommitRenew, SerialInv, IInv, StillTrue, Remembered
    <3>3. QED
      BY <3>1, <3>2
  <2>3. QED
    BY <2>1, <2>2
<1>2. Ends(h) /\ UNCHANGED escrows
  BY DEF CommitFund, CommitRenew, funds
<1>3. /\ milestone' = [milestone EXCEPT ![m] = "AWAITING_PAYMENT"]
      /\ current' = [current EXCEPT ![m] = v]
      /\ va[v] = Unissued /\ va'[v].status = "ACTIVE" /\ va'[v].m = m
      /\ \A w \in VA \ {v} : w \notin expired => va'[w] = va[w]
      /\ \A w \in VA \ {v} : w \in expired =>
           va'[w].status = "EXPIRED" /\ va'[w].m = va[w].m
  BY <1>1 DEF Issue, WithStatus
<1>4. PaidExactlyOnce'
  BY <1>1, <1>2, <1>3 DEF SerialInv, IInv, TypeOK, PaidExactlyOnce
<1>5. ASSUME NEW w \in VA, va'[w].status = "ACTIVE"
      PROVE  milestone'[va'[w].m] = "AWAITING_PAYMENT" /\ current'[va'[w].m] = w
  <2>1. CASE w = v
    BY <1>3, <2>1 DEF SerialInv, IInv, TypeOK
  <2>2. CASE w # v
    <3>0. w \in expired => va'[w].status = "EXPIRED"
      BY <1>3, <2>2
    <3>1. w \notin expired /\ va'[w] = va[w] /\ Issued(w)
      BY <1>3, <1>5, <2>2, <3>0, Shapes DEF SerialInv, IInv
    <3>2. va[w].m \in Milestone /\ milestone[va[w].m] = "AWAITING_PAYMENT" /\ current[va[w].m] = w
      BY <1>5, <3>1, Shapes DEF SerialInv, IInv, Window
    <3>3. va[w].m # m
      BY <1>1, <3>1, <3>2
    <3>4. QED
      BY <1>3, <3>1, <3>2, <3>3 DEF SerialInv, IInv, TypeOK
  <2>3. QED
    BY <2>1, <2>2
<1>6. ASSUME NEW n \in Milestone, milestone'[n] = "AWAITING_PAYMENT"
      PROVE  va'[current'[n]].status # "USED" /\ va'[current'[n]].m = n
  <2>1. CASE n = m
    BY <1>3, <2>1 DEF SerialInv, IInv, TypeOK
  <2>2. CASE n # m
    <3>1. milestone[n] = "AWAITING_PAYMENT" /\ current'[n] = current[n]
      BY <1>3, <1>6, <2>2 DEF SerialInv, IInv, TypeOK
    <3>2. current[n] \in VA /\ Issued(current[n]) /\ current[n] # v
      BY <1>3, <3>1 DEF SerialInv, IInv, Remembered, Issued
    <3>3. va[current[n]].status # "USED" /\ va[current[n]].m = n
      BY <3>1 DEF SerialInv, Window
    <3>4. CASE current[n] \in expired
      BY <1>3, <3>1, <3>2, <3>3, <3>4
    <3>5. CASE current[n] \notin expired
      BY <1>3, <3>1, <3>2, <3>3, <3>5
    <3>6. QED
      BY <3>4, <3>5
  <2>3. QED
    BY <2>1, <2>2
<1>7. Window'
  BY <1>5, <1>6 DEF Window
<1>8. QED
  BY <1>2, <1>4, <1>7, NothingRemembered DEF SerialInv

LEMMA SerialExpire ==
  ASSUME OneAtATime, SerialInv, IInv', NEW h \in Handler, CommitExpire(h)
  PROVE  SerialInv'
<1>1. PICK v \in VA : v = request[h].v /\ Issued(v)
  BY RequestFields DEF CommitExpire, SerialInv, IInv, Remembered
<1>2. /\ Ends(h) /\ UNCHANGED <<milestone, current, escrows>>
      /\ va' = [va EXCEPT ![v] = WithStatus(v, "EXPIRED")]
  BY <1>1 DEF CommitExpire, funds
<1>3. \A w \in VA : va'[w].m = va[w].m /\ va'[w].status \in {va[w].status, "EXPIRED"}
  BY <1>1, <1>2, Shapes DEF SerialInv, IInv, TypeOK, WithStatus
<1>4. Window'
  BY <1>2, <1>3 DEF SerialInv, IInv, Remembered, Window
<1>5. QED
  BY <1>2, <1>4, NothingRemembered DEF SerialInv, PaidExactlyOnce

LEMMA SerialCredit ==
  ASSUME OneAtATime, SerialInv, IInv', NEW h \in Handler, CommitCredit(h)
  PROVE  SerialInv'
<1>1. PICK p \in Payment, v \in VA, m \in Milestone :
        /\ p = request[h].p /\ v = PaidInto(p) /\ m = va[v].m
        /\ Issued(v) /\ va[v].status = "ACTIVE"
  BY RequestFields, Shapes DEF CommitCredit, SerialInv, IInv, Remembered, StillTrue
<1>2. /\ Ends(h) /\ UNCHANGED current
      /\ milestone' = [milestone EXCEPT ![m] = "IN_PROGRESS"]
      /\ escrows' = [escrows EXCEPT ![m] = @ + 1]
      /\ va' = [va EXCEPT ![v] = WithStatus(v, "USED")]
  BY <1>1 DEF CommitCredit, Lock, WorkStarts, PaidFor
<1>3. milestone[m] = "AWAITING_PAYMENT" /\ current[m] = v /\ escrows[m] = 0
  BY <1>1 DEF SerialInv, Window, PaidExactlyOnce
<1>4. PaidExactlyOnce'
  BY <1>2, <1>3 DEF SerialInv, IInv, TypeOK, PaidExactlyOnce
<1>5. ASSUME NEW w \in VA, va'[w].status = "ACTIVE"
      PROVE  milestone'[va'[w].m] = "AWAITING_PAYMENT" /\ current'[va'[w].m] = w
  <2>1. w # v /\ va'[w] = va[w]
    BY <1>2, <1>5 DEF SerialInv, IInv, TypeOK, WithStatus
  <2>2. va[w].m # m /\ va[w].m \in Milestone
    BY <1>3, <1>5, <2>1, Shapes DEF SerialInv, IInv, Window
  <2>3. QED
    BY <1>2, <1>5, <2>1, <2>2 DEF SerialInv, IInv, TypeOK, Window
<1>6. ASSUME NEW n \in Milestone, milestone'[n] = "AWAITING_PAYMENT"
      PROVE  va'[current'[n]].status # "USED" /\ va'[current'[n]].m = n
  <2>1. n # m /\ milestone[n] = "AWAITING_PAYMENT"
    BY <1>2, <1>6 DEF SerialInv, IInv, TypeOK
  <2>2. current[n] \in VA /\ current[n] # v
    BY <1>1, <2>1 DEF SerialInv, IInv, Remembered, Window
  <2>3. QED
    BY <1>2, <2>1, <2>2 DEF SerialInv, IInv, TypeOK, Window
<1>7. Window'
  BY <1>5, <1>6 DEF Window
<1>8. QED
  BY <1>2, <1>4, <1>7, NothingRemembered DEF SerialInv

LEMMA SerialOutside ==
  ASSUME SerialInv, IInv',
         \/ \E v \in VA : Elapse(v)
         \/ \E p \in Payment, v \in VA, exact \in BOOLEAN : Transfer(p, v, exact)
  PROVE  SerialInv'
<1>1. ASSUME NEW v \in VA, Elapse(v)
      PROVE  SerialInv'
  <2>1. \A w \in VA : va'[w].m = va[w].m /\ va'[w].status = va[w].status
    BY <1>1 DEF Elapse, SerialInv, IInv, TypeOK
  <2>2. UNCHANGED <<milestone, current, transfer, escrows, request>>
    BY <1>1 DEF Elapse, funds
  <2>3. Window'
    BY <2>1, <2>2 DEF SerialInv, IInv, Remembered, Window
  <2>4. \A h \in Handler : StillTrue(h)'
    BY <2>1, <2>2, RequestFields, Shapes
    DEF SerialInv, IInv, Remembered, StillTrue, PaidInto
  <2>5. QED
    BY <2>2, <2>3, <2>4 DEF SerialInv, PaidExactlyOnce
<1>2. ASSUME NEW p \in Payment, NEW v \in VA, NEW exact \in BOOLEAN, Transfer(p, v, exact)
      PROVE  SerialInv'
  <2>1. /\ UNCHANGED <<milestone, current, va, escrows, request>>
        /\ \A q \in Payment : transfer[q] # NoTransfer => transfer'[q] = transfer[q]
    BY <1>2 DEF Transfer, funds, SerialInv, IInv, TypeOK
  <2>2. \A h \in Handler : StillTrue(h)'
    BY <2>1, RequestFields DEF SerialInv, IInv, Remembered, StillTrue, PaidInto
  <2>3. QED
    BY <2>1, <2>2 DEF SerialInv, Window, PaidExactlyOnce
<1>3. QED
  BY <1>1, <1>2

LEMMA SerialInductive ==
  ASSUME OneAtATime
  PROVE  SerialInv /\ [Next]_vars => SerialInv'
<1> SUFFICES ASSUME SerialInv, [Next]_vars PROVE SerialInv'
  OBVIOUS
<1>1. IInv'
  BY InvInductive DEF SerialInv
<1>2. CASE UNCHANGED vars
  BY <1>1, <1>2 DEF vars, SerialInv, Window, PaidExactlyOnce, StillTrue, PaidInto
<1>3. ASSUME NEW h \in Handler, Serve(h)
      PROVE  SerialInv'
  BY <1>1, <1>3, SerialStart, SerialContract, SerialFund, SerialExpire, SerialCredit DEF Serve
<1>4. QED
  BY <1>1, <1>2, <1>3, SerialOutside DEF Next

(* Served one at a time, requests and notifications, however often they    *)
(* are repeated, have each milestone paid exactly once.                    *)
THEOREM PaymentCountsOnce ==
  ASSUME OneAtATime
  PROVE  Spec => []PaidExactlyOnce
<1>1. SerialInv => PaidExactlyOnce
  BY DEF SerialInv
<1>2. QED
  BY <1>1, SerialInit, SerialInductive, PTL DEF Spec

(* Served one at a time, a milestone has one account to pay into, and one  *)
(* that waits for its payment can still be paid or renewed.                *)
THEOREM OneWindowAtATime ==
  ASSUME OneAtATime
  PROVE  Spec => []OneWindow
<1>1. SerialInv => OneWindow
  BY DEF SerialInv, Window, OneWindow
<1>2. QED
  BY <1>1, SerialInit, SerialInductive, PTL DEF Spec

-----------------------------------------------------------------------------
(* A document being uploaded is released if its milestone is paid.         *)
StageAgrees(r) ==
  r.op = "stage" => (r.as = "RELEASED" <=> milestone[r.m] = "IN_PROGRESS")

DocumentInv ==
  /\ DocumentsFollowPayment
  /\ \A h \in Handler : StageAgrees(request[h])

(* One milestone's documents or state change, and the request ends.        *)
LEMMA OneMilestone ==
  ASSUME OneAtATime, IInv, IInv', DocumentsFollowPayment, NEW h \in Handler, Ends(h),
         NEW m \in Milestone,
         \A n \in Milestone \ {m} : milestone'[n] = milestone[n] /\ document'[n] = document[n],
         \A s \in document'[m] : s = "RELEASED" <=> milestone'[m] = "IN_PROGRESS"
  PROVE  DocumentInv'
<1>1. \A g \in Handler : request'[g] = Idle
  BY EndsOthers DEF OneAtATime, IInv
<1>2. \A g \in Handler : StageAgrees(request[g])'
  BY <1>1 DEF StageAgrees, Idle
<1>3. DocumentsFollowPayment'
  BY DEF DocumentsFollowPayment
<1>4. QED
  BY <1>2, <1>3 DEF DocumentInv

(* Nothing changes but what the one request does.                          *)
LEMMA SameDocuments ==
  ASSUME OneAtATime, IInv, DocumentsFollowPayment, NEW h \in Handler, NEW r, Becomes(h, r),
         StageAgrees(r), UNCHANGED <<milestone, document>>
  PROVE  DocumentInv'
<1>1. request'[h] = r /\ \A g \in Handler : g = h
  BY DEF IInv, TypeOK, Becomes, OneAtATime
<1>2. StageAgrees(request[h])'
  BY <1>1 DEF StageAgrees
<1>3. QED
  BY <1>1, <1>2 DEF DocumentInv, DocumentsFollowPayment

LEMMA StageDocuments ==
  ASSUME OneAtATime, IInv, DocumentsFollowPayment, NEW h \in Handler, NEW m \in Milestone,
         BeginStage(h, m)
  PROVE  DocumentInv'
<1>1. PICK r : r = [op |-> "stage", m |-> m,
                    as |-> IF StagedUntilPaid(m) THEN "STAGED" ELSE "RELEASED"]
  OBVIOUS
<1>2. milestone[m] \in MilestoneState
  BY DEF IInv, TypeOK
<1>3. StageAgrees(r)
  BY <1>1, <1>2 DEF StageAgrees, StagedUntilPaid, MilestoneState
<1>4. QED
  BY <1>1, <1>3, SameDocuments DEF BeginStage, Starts, Becomes

LEMMA PaidDocuments ==
  ASSUME OneAtATime, SerialInv, IInv', DocumentInv, NEW h \in Handler,
         CommitFund(h) \/ CommitRenew(h) \/ CommitCredit(h) \/ CommitStage(h)
  PROVE  DocumentInv'
<1>1. IInv /\ DocumentsFollowPayment /\ Ends(h)
  BY DEF SerialInv, DocumentInv, CommitFund, CommitRenew, CommitCredit, CommitStage
<1>2. CASE CommitFund(h) \/ CommitRenew(h)
  <2>1. PICK m \in Milestone :
          /\ m = request[h].m /\ milestone[m] # "IN_PROGRESS"
    BY <1>1, <1>2, RequestFields DEF CommitFund, CommitRenew, IInv, SerialInv, StillTrue
  <2>2. milestone' = [milestone EXCEPT ![m] = "AWAITING_PAYMENT"] /\ document' = document
    BY <1>2, <2>1 DEF CommitFund, CommitRenew, Issue
  <2>3. \A s \in document'[m] : s = "RELEASED" <=> milestone'[m] = "IN_PROGRESS"
    BY <1>1, <2>1, <2>2 DEF DocumentsFollowPayment, IInv, TypeOK
  <2>4. QED
    BY <1>1, <2>2, <2>3, OneMilestone DEF IInv, TypeOK
<1>3. CASE CommitCredit(h)
  <2>1. PICK m \in Milestone : m = PaidFor(request[h].p)
    BY <1>1, <1>3, RequestFields, Shapes DEF CommitCredit, IInv, Remembered, PaidFor
  <2>2. PICK released : released = {"RELEASED" : s \in document[m]}
    OBVIOUS
  <2>3. /\ milestone' = [milestone EXCEPT ![m] = "IN_PROGRESS"]
        /\ document' = [document EXCEPT ![m] = released]
    BY <1>3, <2>1, <2>2 DEF CommitCredit, WorkStarts
  <2>4. \A s \in document'[m] : s = "RELEASED" <=> milestone'[m] = "IN_PROGRESS"
    BY <1>1, <2>2, <2>3 DEF IInv, TypeOK
  <2>5. QED
    BY <1>1, <2>3, <2>4, OneMilestone DEF IInv, TypeOK
<1>4. CASE CommitStage(h)
  <2>1. PICK m \in Milestone, as \in ReleaseState : m = request[h].m /\ as = request[h].as
    BY <1>1, <1>4, RequestFields DEF CommitStage, IInv
  <2>2. as = "RELEASED" <=> milestone[m] = "IN_PROGRESS"
    BY <1>4, <2>1 DEF CommitStage, DocumentInv, StageAgrees
  <2>3. document' = [document EXCEPT ![m] = @ \cup {as}] /\ milestone' = milestone
    BY <1>4, <2>1 DEF CommitStage
  <2>4. \A s \in document'[m] : s = "RELEASED" <=> milestone'[m] = "IN_PROGRESS"
    BY <1>1, <2>2, <2>3 DEF DocumentsFollowPayment, IInv, TypeOK
  <2>5. QED
    BY <1>1, <2>3, <2>4, OneMilestone DEF IInv, TypeOK
<1>5. QED
  BY <1>2, <1>3, <1>4

(* The requests that touch neither the milestones nor their documents.     *)
LEMMA OtherDocuments ==
  ASSUME OneAtATime, IInv, DocumentsFollowPayment, NEW h \in Handler,
         \/ \E party \in Party : BeginSign(h, party)
         \/ CommitSign(h)
         \/ BeginDecline(h) \/ CommitDecline(h) \/ BeginCancel(h) \/ CommitCancel(h)
         \/ \E m \in Milestone : BeginFund(h, m) \/ BeginRenew(h, m)
         \/ \E p \in Payment : BeginIpn(h, p)
         \/ CommitExpire(h) \/ CheckIpn(h) \/ Stop(h)
  PROVE  DocumentInv'
<1>1. UNCHANGED <<milestone, document>>
  BY DEF BeginSign, CommitSign, BeginDecline, CommitDecline, BeginCancel, CommitCancel,
         BeginFund, BeginRenew, BeginIpn, CommitExpire, CheckIpn, Stop
<1>2. ASSUME NEW r, Starts(h, r) \/ Becomes(h, r)
      PROVE  request'[h] = r /\ Becomes(h, request'[h])
  BY <1>2 DEF Starts, Becomes, IInv, TypeOK
<1>3. request'[h].op # "stage" /\ Becomes(h, request'[h])
  <2>1. CASE \/ CommitSign(h) \/ CommitDecline(h) \/ CommitCancel(h)
             \/ CommitExpire(h) \/ Stop(h)
    BY <1>2, <2>1 DEF CommitSign, CommitDecline, CommitCancel, CommitExpire, Stop, Ends, Idle
  <2>2. ASSUME NEW party \in Party, BeginSign(h, party)
        PROVE  request'[h].op # "stage" /\ Becomes(h, request'[h])
    BY <1>2, <2>2 DEF BeginSign
  <2>3. CASE BeginDecline(h) \/ BeginCancel(h)
    BY <1>2, <2>3 DEF BeginDecline, BeginCancel
  <2>4. ASSUME NEW m \in Milestone, BeginFund(h, m) \/ BeginRenew(h, m)
        PROVE  request'[h].op # "stage" /\ Becomes(h, request'[h])
    BY <1>2, <2>4 DEF BeginFund, BeginRenew
  <2>5. ASSUME NEW p \in Payment, BeginIpn(h, p)
        PROVE  request'[h].op # "stage" /\ Becomes(h, request'[h])
    BY <1>2, <2>5 DEF BeginIpn
  <2>6. CASE CheckIpn(h)
    BY <1>2, <2>6 DEF CheckIpn
  <2>7. QED
    BY <2>1, <2>2, <2>3, <2>4, <2>5, <2>6
<1>4. PICK r : r = request'[h]
  OBVIOUS
<1>5. Becomes(h, r) /\ r.op # "stage"
  BY <1>3, <1>4
<1>6. QED
  BY <1>1, <1>5, SameDocuments DEF StageAgrees

LEMMA DocumentsInductive ==
  ASSUME OneAtATime
  PROVE  (SerialInv /\ DocumentInv) /\ [Next]_vars => (SerialInv /\ DocumentInv)'
<1> SUFFICES ASSUME SerialInv, DocumentInv, [Next]_vars PROVE SerialInv' /\ DocumentInv'
  OBVIOUS
<1>1. SerialInv' /\ IInv /\ IInv' /\ DocumentsFollowPayment
  BY SerialInductive DEF SerialInv, DocumentInv
<1>2. CASE UNCHANGED <<milestone, document, request>>
  BY <1>1, <1>2 DEF DocumentInv, DocumentsFollowPayment, StageAgrees
<1>3. ASSUME NEW h \in Handler, Serve(h)
      PROVE  DocumentInv'
  BY <1>1, <1>3, StageDocuments, PaidDocuments, OtherDocuments DEF Serve
<1>4. QED
  BY <1>1, <1>2, <1>3 DEF Next, vars, Elapse, Transfer

(* SubmissionsService.uploadDocument and fundAndLockEscrowWithTx: when     *)
(* requests are served one at a time, no document of an unpaid milestone   *)
(* is released, and none of a paid one is held back.                       *)
THEOREM DocumentsAreGated ==
  ASSUME OneAtATime
  PROVE  Spec => []DocumentsFollowPayment
<1>1. Init => SerialInv /\ DocumentInv
  BY SerialInit DEF Init, DocumentInv, DocumentsFollowPayment, StageAgrees, Idle
<1>2. SerialInv /\ DocumentInv => DocumentsFollowPayment
  BY DEF DocumentInv
<1>3. (SerialInv /\ DocumentInv) /\ [Next]_vars => (SerialInv /\ DocumentInv)'
  BY DocumentsInductive
<1>4. QED
  BY <1>1, <1>2, <1>3, PTL DEF Spec

-----------------------------------------------------------------------------
(* The refinement of AbstractPayment.  What an account was issued for and  *)
(* what a transfer says is never rewritten, whatever overlaps.             *)
LEMMA RowsStay ==
  ASSUME IInv, [Next]_vars
  PROVE  /\ \A v \in VA : Issued(v) => va'[v].m = va[v].m
         /\ \A p \in Payment : transfer[p] # NoTransfer => transfer'[p] = transfer[p]
<1>1. CASE UNCHANGED <<va, transfer>>
  BY <1>1
<1>2. ASSUME NEW h \in Handler, CommitFund(h) \/ CommitRenew(h)
      PROVE  UNCHANGED transfer /\ \A w \in VA : Issued(w) => va'[w].m = va[w].m
  <2>1. PICK v \in VA, m \in {request[h].m}, expired \in {{}, {request[h].stale}} :
          Issue(v, m, expired) /\ UNCHANGED transfer
    BY <1>2 DEF CommitFund, CommitRenew
  <2>2. QED
    BY <2>1 DEF Issue, Issued, WithStatus
<1>3. ASSUME NEW h \in Handler, CommitExpire(h)
      PROVE  UNCHANGED transfer /\ \A w \in VA : Issued(w) => va'[w].m = va[w].m
  BY <1>3, RequestFields DEF CommitExpire, WithStatus, IInv, TypeOK, Issued
<1>4. ASSUME NEW h \in Handler, CommitCredit(h)
      PROVE  UNCHANGED transfer /\ \A w \in VA : Issued(w) => va'[w].m = va[w].m
  BY <1>4 DEF CommitCredit, WithStatus, IInv, TypeOK, Issued
<1>5. ASSUME NEW h \in Handler, Serve(h)
      PROVE  \/ UNCHANGED <<va, transfer>>
             \/ CommitFund(h) \/ CommitRenew(h) \/ CommitExpire(h) \/ CommitCredit(h)
  BY <1>5 DEF Serve, BeginSign, CommitSign, BeginDecline, CommitDecline, BeginCancel, CommitCancel,
     BeginFund, BeginRenew, BeginStage, CommitStage, BeginIpn, CheckIpn, Stop
<1>6. ASSUME NEW v \in VA, Elapse(v)
      PROVE  UNCHANGED transfer /\ \A w \in VA : Issued(w) => va'[w].m = va[w].m
  BY <1>6 DEF Elapse, IInv, TypeOK, Issued
<1>7. ASSUME NEW p \in Payment, NEW v \in VA, NEW exact \in BOOLEAN, Transfer(p, v, exact)
      PROVE  /\ UNCHANGED va
             /\ \A q \in Payment : transfer[q] # NoTransfer => transfer'[q] = transfer[q]
  BY <1>7 DEF Transfer, IInv, TypeOK
<1>8. QED
  BY <1>1, <1>2, <1>3, <1>4, <1>5, <1>6, <1>7 DEF Next, vars

(* So a transfer stays for the milestone it was made for.                  *)
LEMMA SentStays ==
  ASSUME IInv, [Next]_vars, NEW p \in Payment, transfer[p] # NoTransfer
  PROVE  /\ transfer'[p] = transfer[p] /\ PaidFor(p)' = PaidFor(p)
         /\ PaidFor(p) \in Milestone /\ Sent'[p] = Sent[p]
<1>1. PaidInto(p) \in VA /\ Issued(PaidInto(p)) /\ PaidFor(p) \in Milestone
  BY Shapes DEF IInv, Remembered, PaidFor
<1>2. transfer'[p] = transfer[p] /\ va'[PaidInto(p)].m = va[PaidInto(p)].m
  BY <1>1, RowsStay
<1>3. PaidFor(p)' = PaidFor(p)
  BY <1>2 DEF PaidFor, PaidInto
<1>4. QED
  BY <1>1, <1>2, <1>3 DEF Sent

(* A milestone whose work has started does not go back.                    *)
LEMMA WorkGoesOn ==
  ASSUME SerialInv, [Next]_vars, NEW m \in Milestone, milestone[m] = "IN_PROGRESS"
  PROVE  milestone'[m] = "IN_PROGRESS"
<1>1. CASE UNCHANGED milestone
  BY <1>1
<1>2. ASSUME NEW h \in Handler, CommitFund(h) \/ CommitRenew(h)
      PROVE  milestone'[m] = "IN_PROGRESS"
  <2>1. request[h].m # m
    BY <1>2 DEF CommitFund, CommitRenew, SerialInv, StillTrue
  <2>2. milestone' = [milestone EXCEPT ![request[h].m] = "AWAITING_PAYMENT"]
    BY <1>2 DEF CommitFund, CommitRenew, Issue
  <2>3. QED
    BY <2>1, <2>2 DEF SerialInv, IInv, TypeOK
<1>3. ASSUME NEW h \in Handler, CommitCredit(h)
      PROVE  milestone'[m] = "IN_PROGRESS"
  BY <1>3 DEF CommitCredit, WorkStarts, SerialInv, IInv, TypeOK
<1>4. ASSUME NEW h \in Handler, Serve(h)
      PROVE  UNCHANGED milestone \/ CommitFund(h) \/ CommitRenew(h) \/ CommitCredit(h)
  BY <1>4 DEF Serve, BeginSign, CommitSign, BeginDecline, CommitDecline, BeginCancel, CommitCancel,
     BeginFund, BeginRenew, BeginStage, CommitStage, BeginIpn, CommitExpire, CheckIpn, Stop
<1>5. QED
  BY <1>1, <1>2, <1>3, <1>4 DEF Next, vars, Elapse, Transfer

(* A notification that goes on is of the amount asked for; what was        *)
(* credited was sent, and has its milestone worked on.                     *)
ExactOnly(r) == r.op \in {"notify", "credit"} => transfer[r.p].exact

CreditedIsAtWork == \A p \in Payment : credits[p] > 0 =>
  transfer[p] # NoTransfer /\ milestone[PaidFor(p)] = "IN_PROGRESS"

PaymentInv == CreditedIsAtWork /\ \A h \in Handler : ExactOnly(request[h])

LEMMA PaymentInductive ==
  ASSUME SerialInv, PaymentInv, [Next]_vars
  PROVE  PaymentInv'
<1>0. IInv /\ TypeOK
  BY DEF SerialInv, IInv
<1>1. ASSUME NEW p \in Payment, credits[p] > 0
      PROVE  transfer'[p] # NoTransfer /\ milestone'[PaidFor(p)'] = "IN_PROGRESS"
  BY <1>0, <1>1, SentStays, WorkGoesOn DEF PaymentInv, CreditedIsAtWork
<1>2. ASSUME NEW h \in Handler, CommitCredit(h), NEW p \in Payment, credits'[p] # credits[p]
      PROVE  transfer'[p] # NoTransfer /\ milestone'[PaidFor(p)'] = "IN_PROGRESS"
  <2>1. p = request[h].p /\ transfer[p] # NoTransfer
    BY <1>0, <1>2, RequestFields DEF CommitCredit, Lock, TypeOK, IInv, Remembered
  <2>2. milestone' = [milestone EXCEPT ![PaidFor(p)] = "IN_PROGRESS"]
    BY <1>2, <2>1 DEF CommitCredit, WorkStarts
  <2>3. QED
    BY <1>0, <2>1, <2>2, SentStays DEF TypeOK
<1>3. ASSUME \A h \in Handler : ~ CommitCredit(h)
      PROVE  UNCHANGED credits
  BY <1>3 DEF Next, vars, funds, Serve, BeginSign, CommitSign, BeginDecline, CommitDecline,
     BeginCancel, CommitCancel, BeginFund, BeginRenew, CommitFund, CommitRenew, BeginStage,
     CommitStage, BeginIpn, CommitExpire, CheckIpn, Stop, Elapse, Transfer
<1>4. CreditedIsAtWork'
  BY <1>1, <1>2, <1>3 DEF CreditedIsAtWork
<1>5. ASSUME NEW g \in Handler, request'[g].op \in {"notify", "credit"}
      PROVE  transfer[request'[g].p] # NoTransfer /\ transfer[request'[g].p].exact
  <2>1. CASE request'[g] = request[g]
    BY <1>0, <1>5, <2>1 DEF PaymentInv, ExactOnly, IInv, Remembered
  <2>2. CASE request'[g] # request[g]
    <3>1. PICK h \in Handler : Serve(h)
      BY <2>2 DEF Next, vars, Elapse, Transfer
    <3>2. \A r : Becomes(h, r) => request'[g] = r
      BY <1>0, <2>2 DEF Becomes, TypeOK
    <3>3. \/ \E p \in Payment : BeginIpn(h, p)
          \/ CheckIpn(h)
      BY <1>5, <3>1, <3>2 DEF Serve, BeginSign, CommitSign, BeginDecline, CommitDecline,
         BeginCancel, CommitCancel, BeginFund, BeginRenew, CommitFund, CommitRenew, BeginStage,
         CommitStage, CommitExpire, CommitCredit, Stop, Starts, Ends, Becomes, Idle
    <3>4. ASSUME NEW p \in Payment, BeginIpn(h, p)
          PROVE  request'[g].p = p /\ transfer[p].exact /\ transfer[p] # NoTransfer
      BY <1>5, <3>2, <3>4 DEF BeginIpn, Starts, Becomes
    <3>5. ASSUME CheckIpn(h)
          PROVE  request'[g].p = request[h].p /\ request[h].op = "notify"
      BY <3>2, <3>5 DEF CheckIpn
    <3>6. request[h].op = "notify" =>
            transfer[request[h].p] # NoTransfer /\ transfer[request[h].p].exact
      BY <1>0 DEF PaymentInv, ExactOnly, IInv, Remembered
    <3>7. QED
      BY <3>3, <3>4, <3>5, <3>6
  <2>3. QED
    BY <2>1, <2>2
<1>6. \A g \in Handler : ExactOnly(request[g])'
  <2>1. TAKE g \in Handler
  <2>2. SUFFICES ASSUME request'[g].op \in {"notify", "credit"}
                 PROVE  transfer'[request'[g].p].exact
    BY DEF ExactOnly
  <2>3. PICK p \in Payment : p = request'[g].p
    BY <1>0, <2>2, InvInductive, RequestFields DEF IInv, TypeOK, Request, Idle
  <2>4. QED
    BY <1>0, <1>5, <2>2, <2>3, RowsStay
<1>7. QED
  BY <1>4, <1>6 DEF PaymentInv

LEMMA PromiseInit == Init => Promise!Init
<1> SUFFICES ASSUME Init PROVE Promise!Init
  OBVIOUS
<1>1. Sent = [p \in Payment |-> Promise!Unsent]
  BY DEF Init, Sent, Promise!Unsent
<1>2. QED
  BY <1>1 DEF Init, Promise!Init

(* The bank's transfer is for the milestone its account was issued for.    *)
LEMMA TransferIsPromised ==
  ASSUME IInv, NEW p \in Payment, NEW v \in VA, NEW exact \in BOOLEAN, Transfer(p, v, exact)
  PROVE  Promise!Next
<1>1. /\ transfer[p] = NoTransfer /\ Issued(v)
      /\ transfer' = [transfer EXCEPT ![p] = [va |-> v, exact |-> exact]]
      /\ UNCHANGED <<va, credits, escrows>>
  BY DEF Transfer, Issued, funds
<1>2. va[v].m \in Milestone /\ v # NoVA
  BY <1>1, Shapes, ConstantsOK DEF IInv, ConstantsOK
<1> DEFINE m   == va[v].m
           row == [item |-> m, amount |-> 1, exact |-> exact]
<1>3. transfer'[p] = [va |-> v, exact |-> exact] /\ transfer'[p] # NoTransfer
  BY <1>1, <1>2 DEF IInv, TypeOK, NoTransfer
<1>4. Sent[p] = Promise!Unsent
  BY <1>1 DEF Sent, Promise!Unsent
<1>5. Sent'[p] = row
  BY <1>1, <1>3 DEF Sent, PaidFor, PaidInto
<1>6. \A q \in Payment \ {p} : Sent'[q] = Sent[q]
  BY <1>1 DEF Sent, PaidFor, PaidInto, IInv, TypeOK
<1>7. Sent' = [Sent EXCEPT ![p] = row]
  BY <1>5, <1>6 DEF Sent
<1>8. Promise!Send(p)
  <2>1. row \in [item : Milestone, amount : {1}, exact : BOOLEAN]
    BY <1>2
  <2> HIDE DEF row
  <2>2. QED
    BY <1>1, <1>4, <1>5, <1>7, <2>1 DEF Promise!Send
<1>9. QED
  BY <1>2, <1>8 DEF Promise!Next

(* A credit finds its milestone unpaid and its transfer not credited.      *)
LEMMA CreditIsPromised ==
  ASSUME SerialInv, PaymentInv, [Next]_vars, NEW h \in Handler, CommitCredit(h)
  PROVE  Promise!Next
<1>0. IInv /\ TypeOK
  BY DEF SerialInv, IInv
<1>1. PICK p \in Payment : p = request[h].p /\ transfer[p] # NoTransfer /\ transfer[p].exact
  BY <1>0, RequestFields DEF CommitCredit, IInv, Remembered, PaymentInv, ExactOnly
<1>2. PICK m \in Milestone : m = PaidFor(p)
  BY <1>0, <1>1, SentStays
<1>3. milestone[m] = "AWAITING_PAYMENT"
  BY <1>0, <1>1, <1>2, Shapes DEF CommitCredit, SerialInv, StillTrue, Window, PaidFor
<1>4. escrows[m] = 0 /\ credits[p] = 0
  BY <1>0, <1>1, <1>2, <1>3 DEF SerialInv, PaidExactlyOnce, PaymentInv, CreditedIsAtWork, TypeOK
<1>5. /\ credits' = [credits EXCEPT ![p] = 1] /\ escrows' = [escrows EXCEPT ![m] = 1]
      /\ UNCHANGED transfer
  <2>1. /\ credits' = [credits EXCEPT ![p] = credits[p] + 1]
        /\ escrows' = [escrows EXCEPT ![m] = escrows[m] + 1]
        /\ UNCHANGED transfer
    BY <1>1, <1>2 DEF CommitCredit, Lock
  <2>2. QED
    BY <1>4, <2>1
<1>6. Sent[p] = [item |-> m, amount |-> 1, exact |-> TRUE]
  BY <1>0, <1>1, <1>2, Shapes DEF Sent
<1>7. Sent' = Sent
  <2>1. \A q \in Payment : Sent'[q] = Sent[q]
    BY <1>0, <1>5, SentStays DEF Sent
  <2>2. QED
    BY <2>1 DEF Sent
<1>8. Sent[p] # Promise!Unsent
  BY <1>6 DEF Promise!Unsent
<1>9. Promise!Credit(p)
  BY <1>4, <1>5, <1>6, <1>7, <1>8 DEF Promise!Credit
<1>10. QED
  BY <1>9 DEF Promise!Next

LEMMA PromiseStep ==
  ASSUME SerialInv, PaymentInv, [Next]_vars
  PROVE  [Promise!Next]_<<Sent, credits, escrows>>
<1>0. IInv
  BY DEF SerialInv
<1>1. CASE UNCHANGED <<transfer, credits, escrows>>
  <2>1. \A p \in Payment : Sent'[p] = Sent[p]
    BY <1>0, <1>1, SentStays DEF Sent
  <2>2. QED
    BY <1>1, <2>1 DEF Sent
<1>2. ASSUME NEW h \in Handler, Serve(h)
      PROVE  CommitCredit(h) \/ UNCHANGED <<transfer, credits, escrows>>
  BY <1>2 DEF funds, Serve, BeginSign, CommitSign, BeginDecline, CommitDecline,
     BeginCancel, CommitCancel, BeginFund, BeginRenew, CommitFund, CommitRenew, BeginStage,
     CommitStage, BeginIpn, CommitExpire, CheckIpn, Stop
<1>3. ASSUME NEW h \in Handler, CommitCredit(h)
      PROVE  Promise!Next
  BY <1>3, CreditIsPromised
<1>4. ASSUME NEW p \in Payment, NEW v \in VA, NEW exact \in BOOLEAN, Transfer(p, v, exact)
      PROVE  Promise!Next
  BY <1>0, <1>4, TransferIsPromised
<1>5. ASSUME NEW v \in VA, Elapse(v)
      PROVE  UNCHANGED <<transfer, credits, escrows>>
  BY <1>5 DEF Elapse, funds
<1>6. QED
  BY <1>1, <1>2, <1>3, <1>4, <1>5 DEF Next, vars

(* handleIpn and handleMilestoneTopup: when requests are served one at a   *)
(* time, milestones are paid as AbstractPayment promises, however often    *)
(* windows are renewed and notices repeated.                               *)
THEOREM PaysAsPromised ==
  ASSUME OneAtATime
  PROVE  Spec => PaidAsPromised
<1>1. Init => SerialInv /\ PaymentInv
  BY SerialInit DEF Init, PaymentInv, CreditedIsAtWork, ExactOnly, Idle
<1>2. (SerialInv /\ PaymentInv) /\ [Next]_vars => (SerialInv /\ PaymentInv)'
  BY SerialInductive, PaymentInductive
<1>3. (SerialInv /\ PaymentInv) /\ [Next]_vars => [Promise!Next]_<<Sent, credits, escrows>>
  BY PromiseStep
<1>4. QED
  BY <1>1, <1>2, <1>3, PromiseInit, PTL DEF Spec, PaidAsPromised, Promise!Spec
=============================================================================
