-------------------------- MODULE SeamVerification --------------------------
(***************************************************************************)
(* The seams one expert claims: claiming and dropping them, the portfolio  *)
(* entries an AI evaluates to verify a claim, the limit on failed attempts *)
(* with its lockout, and the gate by which the matching engine leaves out  *)
(* an expert whose claims outnumber what he has verified.                  *)
(*                                                                         *)
(* An attempt reads the claim, waits for the AI and writes what it read    *)
(* plus one, so attempts that overlap miscount.                            *)
(***************************************************************************)
EXTENDS Integers, FiniteSets

CONSTANTS
  Seam,         \* the seams a project requires
  Entry,        \* ids of portfolio_submissions rows; bounds how many exist
  Attempt,      \* attempts that can be under evaluation at a time
  MaxAttempts,  \* PortfolioService.MAX_ATTEMPTS, 5 in the code
  Ratio         \* claimed-to-verified ratio of the gate, 4 in the code

ASSUME SeamConstantsOK ==
  IsFiniteSet(Seam) /\ MaxAttempts \in Nat \ {0} /\ Ratio \in Nat \ {0}

VARIABLES
  claim,       \* expert_seam_claims: tier, submission_count, locked_until
  entry,       \* portfolio_submissions: the claim and the status
  attempt,     \* what each attempt under evaluation has read
  failed,      \* history: evaluations failed since the claim or its last lock
  overlapped   \* history: seams for which two attempts were evaluated at once

seamVars == <<claim, entry, attempt, failed, overlapped>>

-----------------------------------------------------------------------------
Tier   == {"CLAIMED", "EVIDENCE_BACKED"}
Lock   == {"none", "running", "over"}
Status == {"PENDING", "APPROVED", "REJECTED"}

NoClaim == [tier |-> "NONE"]
Fresh   == [tier |-> "CLAIMED", count |-> 0, lock |-> "none"]
NoEntry == [status |-> "NONE"]
NoAttempt == [op |-> "idle"]
Orphan  == [op |-> "orphan"]
AttemptState ==
  {NoAttempt, Orphan} \cup [op : {"evaluate"}, s : Seam, count : 0 .. MaxAttempts - 1, e : Entry]

Claims      == {s \in Seam : claim[s] # NoClaim}
Holds(s, t) == s \in Claims /\ claim[s].tier = t
EntriesOf(s) == {e \in Entry : entry[e] # NoEntry /\ entry[e].s = s}
Evaluating(s) == {h \in Attempt : attempt[h].op = "evaluate" /\ attempt[h].s = s}

EndsAttempt(h) == attempt' = [attempt EXCEPT ![h] = NoAttempt]

-----------------------------------------------------------------------------
SeamInit ==
  /\ claim = [s \in Seam |-> NoClaim]
  /\ entry = [e \in Entry |-> NoEntry]
  /\ attempt = [h \in Attempt |-> NoAttempt]
  /\ failed = [s \in Seam |-> 0]
  /\ overlapped = {}

-----------------------------------------------------------------------------
(* ExpertProfilesService.createSeamClaim, an upsert that updates nothing.  *)
CreateClaim(s) ==
  /\ s \notin Claims
  /\ claim' = [claim EXCEPT ![s] = Fresh]
  /\ UNCHANGED <<entry, attempt, failed, overlapped>>

(* syncSeamClaims, refused if a claim to drop has entries.                 *)
Removable(s)            == EntriesOf(s) = {}

SyncClaims(kept) ==
  /\ \A s \in Claims \ kept : Removable(s)
  /\ claim' = [s \in Seam |-> IF s \notin kept THEN NoClaim
                              ELSE IF s \in Claims THEN claim[s] ELSE Fresh]
  /\ failed' = [s \in Seam |-> IF s \in kept THEN failed[s] ELSE 0]
  /\ UNCHANGED <<entry, attempt, overlapped>>

-----------------------------------------------------------------------------
(* PortfolioService.submit: the guards, the entry at PENDING, then the AI. *)
EffectiveCount(s) == IF claim[s].lock = "over" THEN 0 ELSE claim[s].count

BeginSubmit(h, s, e) ==
  /\ attempt[h] = NoAttempt
  /\ Holds(s, "CLAIMED")
  /\ claim[s].lock # "running" /\ EffectiveCount(s) < MaxAttempts
  /\ entry[e] = NoEntry
  /\ entry' = [entry EXCEPT ![e] = [status |-> "PENDING", s |-> s]]
  /\ attempt' = [attempt EXCEPT ![h] =
       [op |-> "evaluate", s |-> s, count |-> EffectiveCount(s), e |-> e]]
  /\ overlapped' = overlapped \cup {x \in {s} : Evaluating(x) # {}}
  /\ UNCHANGED <<claim, failed>>

CommitPass(h) ==
  /\ attempt[h].op = "evaluate"
  /\ LET s == attempt[h].s IN
       claim' = [claim EXCEPT ![s] =
         [tier |-> "EVIDENCE_BACKED", count |-> claim[s].count, lock |-> claim[s].lock]]
  /\ entry' = [entry EXCEPT ![attempt[h].e] = [status |-> "APPROVED", s |-> attempt[h].s]]
  /\ EndsAttempt(h)
  /\ UNCHANGED <<failed, overlapped>>

LocksBeyond(count) == count > MaxAttempts
Locks(count)       == count >= MaxAttempts

AfterFailureAsNew(s, count) ==
  [tier |-> "CLAIMED", count |-> count, lock |-> IF Locks(count) THEN "running" ELSE "none"]
AfterFailure(s, count) ==
  [tier |-> claim[s].tier, count |-> count, lock |-> IF Locks(count) THEN "running" ELSE "none"]

CommitFail(h) ==
  /\ attempt[h].op = "evaluate"
  /\ LET s == attempt[h].s IN
       /\ claim' = [claim EXCEPT ![s] = AfterFailure(s, attempt[h].count + 1)]
       /\ failed' = [failed EXCEPT ![s] = @ + 1]
  /\ entry' = [entry EXCEPT ![attempt[h].e] = [status |-> "REJECTED", s |-> attempt[h].s]]
  /\ EndsAttempt(h)
  /\ UNCHANGED overlapped

(* The AI cannot be reached, or the process dies: the entry stays PENDING. *)
Stop(h) ==
  /\ attempt[h] # NoAttempt
  /\ EndsAttempt(h)
  /\ UNCHANGED <<claim, entry, failed, overlapped>>

(* PortfolioService.delete, in any status.  An evaluation still running    *)
(* will find no entry to update, and its transaction will be undone.       *)
Delete(e) ==
  /\ entry[e] # NoEntry
  /\ entry' = [entry EXCEPT ![e] = NoEntry]
  /\ attempt' = [h \in Attempt |->
       IF attempt[h].op = "evaluate" /\ attempt[h].e = e THEN Orphan ELSE attempt[h]]
  /\ UNCHANGED <<claim, failed, overlapped>>

(* The clock: 30 days after the lock.                                      *)
Elapse(s) ==
  /\ s \in Claims /\ claim[s].lock = "running"
  /\ claim' = [claim EXCEPT ![s] =
       [tier |-> claim[s].tier, count |-> claim[s].count, lock |-> "over"]]
  /\ failed' = [failed EXCEPT ![s] = 0]
  /\ UNCHANGED <<entry, attempt, overlapped>>

-----------------------------------------------------------------------------
(* matching_engine._fails_claimed_to_verified_gate.                        *)
ClaimedCount  == Cardinality({s \in Seam : Holds(s, "CLAIMED")})
VerifiedCount == Cardinality({s \in Seam : Holds(s, "EVIDENCE_BACKED")})

ExceedsRatio(claimed, verified)          == claimed > Ratio * verified

FailsGate ==
  ClaimedCount # 0 /\ VerifiedCount # 0 /\ ExceedsRatio(ClaimedCount, VerifiedCount)

-----------------------------------------------------------------------------
Serve(h) ==
  \/ \E s \in Seam, e \in Entry : BeginSubmit(h, s, e)
  \/ CommitPass(h) \/ CommitFail(h) \/ Stop(h)

SeamNext ==
  \/ \E h \in Attempt : Serve(h)
  \/ \E s \in Seam : CreateClaim(s) \/ Elapse(s)
  \/ \E kept \in SUBSET Seam : SyncClaims(kept)
  \/ \E e \in Entry : Delete(e)

SeamSpec == SeamInit /\ [][SeamNext]_seamVars

-----------------------------------------------------------------------------
(* Every variable holds a value of its column's type.                      *)
SeamTypeOK ==
  /\ claim \in [Seam -> {NoClaim} \cup [tier : Tier, count : 0 .. MaxAttempts, lock : Lock]]
  /\ entry \in [Entry -> {NoEntry} \cup [status : Status, s : Seam]]
  /\ attempt \in [Attempt -> AttemptState]
  /\ failed \in [Seam -> Nat]
  /\ overlapped \subseteq Seam

(* No portfolio entry and no evaluation under way is of a claim that was   *)
(* dropped: what its answer will update is there.                          *)
EntriesHaveClaims ==
  /\ \A s \in Seam : EntriesOf(s) # {} => s \in Claims
  /\ \A s \in Seam : \A h \in Evaluating(s) : attempt[h].e \in EntriesOf(s)

(* Unless attempts on a claim overlapped, each failed one is counted, and  *)
(* the last one allowed locks the claim: while it is locked, and only then *)
(* MaxAttempts have failed.                                                *)
FailuresLock == \A s \in Claims \ overlapped :
  /\ failed[s] <= MaxAttempts
  /\ failed[s] = MaxAttempts <=> claim[s].lock = "running"

(* However attempts overlap, an unverified claim that is not locked can be *)
(* tried again: nobody is locked out for good.                             *)
NeverStuck == \A s \in Claims :
  Holds(s, "CLAIMED") /\ claim[s].lock # "running" => EffectiveCount(s) < MaxAttempts

(* A verified seam stays verified as long as an entry for it is kept,      *)
(* whatever attempts end later.                                            *)
EvidenceStays ==
  [][\A s \in Seam : Holds(s, "EVIDENCE_BACKED") /\ EntriesOf(s) # {}
       => Holds(s, "EVIDENCE_BACKED")']_seamVars

(* If a project requires at most one seam more than the ratio, nobody who  *)
(* has verified one of them is left out; with one seam more, an expert who *)
(* claims them all loses his place by verifying the first.                 *)
GateSparesFewSeams == Cardinality(Seam) <= Ratio + 1 => ~ FailsGate
=============================================================================
