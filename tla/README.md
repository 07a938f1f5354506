# AITasker in TLA+

AITasker is a marketplace for AI work: a client describes a problem in a
five-stage elicitation, experts bid on the resulting project or sell ready
services, the parties sign an NDA, the client funds milestones by bank transfer
into escrow, and the money is released to the expert when the acceptance
criteria are signed off, or refunded or split when a dispute says so. This
directory holds a TLA+ development of its backend, of the two places where the
web client keeps state that races with the server, and of the buttons its pages
offer in a negotiation and in a review. Paths below are relative to `src/`; file
names without a directory are in `backend/src/`.

* [The system](#the-system): inventory of its parts
* [How the code becomes a model](#how-the-code-becomes-a-model)
* [Modules](#modules)
* [Runs](#runs), with bounds and fairness
* [Where code and documents disagree](#where-code-and-documents-disagree)
* [Proofs](#proofs)
* [What is not covered](#what-is-not-covered)
* [Plan](#plan)

## The system

The backend is one NestJS process (`backend/src`, about 16,000 lines) over
PostgreSQL through Prisma, a stateless FastAPI service (`ai-service`) that wraps
the language model, and a React client (`frontend`). All durable state is in the
database; components interact by reading and writing each other's tables,
usually through a shared service (`LedgerService`), and by in-process events
that only notify sockets or seed a cache. Transactions run at READ COMMITTED,
except those of the bids, which are serializable with three attempts.

| Component | State it keeps | Operations | Hard behaviour | What makes it correct | Modelled in |
|---|---|---|---|---|---|
| Escrow ledger (`shared/ledger`) | `escrow_accounts`, `wallets`, `wallet_transactions` | fund and lock, release, refund, split | called inside other services' transactions; reads the escrow unlocked; locks rows in different orders | each escrow is settled once, money is conserved, books agree with balances | `MilestoneEscrow`, `RowLocks`, `AbstractEscrow`, `LedgerArithmetic` |
| Review (`submissions`, `milestones/criteria`) | `milestones.state`, submissions, sign-off columns | submit, retract, tech sign-off, CEO sign-off, revise | guards read before the transaction; the last sign-off settles money and may close the engagement | full payment only for accepted work, in the order tech then CEO | `MilestoneEscrow`, `ReviewScreens` |
| Disputes (`disputes`, `admin`) | `disputes` | file, AI evaluation, AI or admin resolution | an AI call between two writes; admin and AI may decide the same dispute | escrow frozen exactly while a dispute is open, one decision | `MilestoneEscrow`, `ReviewScreens` |
| Funding (`milestones`, `payments`) | `milestones.va_*`, `virtual_accounts` | initiate, renew, IPN, expiry | notifications late, repeated, concurrent; 24-hour windows | a milestone is paid exactly once | `ContractFunding` |
| Engagement (`engagements`) | `engagements.state`, NDA timestamps | sign, connect, decline, cancel | two parties at once; cancellation against payment | no work or payment before both signatures | `ContractFunding` |
| Wallet, withdrawals, subscriptions (`wallet`, `admin`, `subscriptions`) | balances, `withdrawal_requests`, user tiers | top-up, request, cancel, complete, fail, subscribe | unlocked balance and status reads; admin against expert | money is paid out or given back, never both; never overdrawn; one charge for a period | `Withdrawals` |
| Bids (`bids`) | `capability_bids` with an envelope of offers, terms lock | create, update, review, offer, accept, decline, withdraw, reconcile | serializable retries; acceptance declines the rivals, withdrawal is outside a transaction | one contract, reviewed terms, locked after it | `Bidding`, `BidScreens` |
| Elicitation (`elicitation`, hand-off in `auth`) | `elicitation_sessions`, `projects` | stages 1 to 5, hand-off, revert, abandon, continue | AI calls between read and write; no transaction around synthesis | stages build on each other, one project for a completed session | `Elicitation` |
| Service orders (`listings`, `handleServiceTopup`) | `services`, service engagements | publish, order, renew, pay; write, fund and delete milestones of the order by hand | repeated order or notification; two ways of paying into one order | an order's own payment is one transfer, credited once; nothing is worked on before a transfer is credited for it | `ServiceOrders` |
| Portfolio verification (`expert-profiles`) | seam claims, submissions | claim, submit, evaluate, delete | attempts counted around an AI call | lockout after the allowed failures; evidence stays | `SeamVerification` |
| Matching, invitations (`projects/matching`, `bids/shortlist`, `invitations`) | `project_shortlist_cache`, a second list in memory, invitations | read, refresh, admit, invite, answer | an AI call before the write; two caches of different age | whoever is shown or admitted was fit not long ago | `Recruiting` |
| Sessions (`auth`, `frontend/src/lib/api-client.ts`) | token hash, token store, queue of failed calls | login, refresh, logout, 401 handling | many calls fail at once; each refresh invalidates the token before | one refresh at a time, every call settles | `ClientSession` |
| Messages (`messages`, `MessageThread.tsx`, `socket-provider.tsx`) | messages, read marks, query cache, open thread | send, deliver, fetch, mark read | fetches and socket events cross; reconnects lose events; a page loaded anew knows nothing | what is open is complete; a count of the page's own hides no unread message | `Messaging` |
| DoD checklist, reviews, configuration, profiles | their own rows | edits and reads | none, or a unique index decides | | – |

`PROJECT.json` lists all of them with their status, and under `hazards` each
place where the order of steps, a failure or a repetition matters, with the
properties that watch it.

## How the code becomes a model

**Requests.** A handler (constant `Handler`) is one HTTP request being served.
Nearly every service method reads what its guards need with plain queries and
then writes, in a transaction or not, without reading it again. So an operation
is a `Begin...` action (the guards and early returns; what was read is kept in
`request[h]`) and a `Commit...` action (all the writes of the method). Between
the two, other requests may run. With one handler requests are served one after
the other; with two, any two overlap anywhere. A request that loses a guard
simply does not begin; one whose later guard fails, or that
is aborted, killed or times out, is `Fail` or `Stop`. Nothing of a request is in
memory, so a crash of the process is the end of its requests. Methods that write
statement by statement without a transaction (withdrawing a bid, publishing a
project) are one action per statement, and may stop between any two.

**`overlapped`.** `Withdrawals` and `SeamVerification` record whether requests
have overlapped. A property that holds only for requests served one at a time
says so itself (`overlapped \/ ...`), and the same run, with two handlers, checks
those properties together with the ones that hold regardless.

**Transactions.** At READ COMMITTED a transaction whose reads come before its
writes or are protected by them is one step. Where it writes, then reads rows it
does not lock (the counts of remaining sign-offs, of other disputes, of
unreleased milestones), it is two steps; `CriterionLocked`, `EscrowLocked` and
`Locked` are the row locks it holds in between, and writers of those rows wait.
A step that writes several rows takes their locks one after the other, in the order
of the statements. That order changes no value another transaction can see, but
decides who waits for whom: `RowLocks` adds it to `MilestoneEscrow`, lock by lock.
The serializable transactions of the bids are one step each.

**Schema.** `prisma/schema.prisma` is what is deployed (`backend/package.json:26`
and the top-level README use `prisma db push`). The CHECK constraints and unique
indexes of `prisma/migrations/*.sql` (no negative balance, one `wallet_transactions`
row per reference, one escrow per milestone) are not in it and are not assumed.

**Time.** What only compares with the clock is a flag an environment action
flips (`Elapse`, `Lapse`). `Recruiting`, whose claim is about ages, counts ticks
up to the age nothing distinguishes any more.

**Data.** Amounts are whole dong. Names, texts, URLs, notifications and e-mails
are left out. An AI answer is a nondeterministic choice; an AI call that fails
is `Fail`.

## Modules

`LedgerArithmetic` – how an amount is divided: rounding of the fee
(`Math.round`) and the two halves of a split, as operators shared by all modules.

`AbstractEscrow` – what the escrow of a milestone promises: it is held until one
decision, and the decision pays client, expert and platform exactly the stated
parts. It knows nothing of reviews, disputes, freezing, wallets or requests.

`AbstractPayment` – what paying by bank transfer promises: a transfer is for one item, is credited at most
once and only if it is of the amount asked for, and an item is paid by one transfer. It knows nothing
of accounts, windows, notifications or orders. `ServiceOrders` implements it whatever overlaps,
`ContractFunding` when requests are served one at a time (`Sent` and `Promise` in both modules).

`MilestoneEscrow` – the life of funded milestones of one engagement:
`submissions.service.ts`, `criteria.service.ts`, `disputes.service.ts`,
`AdminService.resolveDispute` and the settlements of `ledger.service.ts`.

| Variable | Columns |
|---|---|
| `milestone`, `submissions` | `milestones.state`, number of `milestone_submissions` |
| `criterion` | whether `tech_verified_at`, `ceo_verified_at`, `verified_at` are set |
| `escrow` | `escrow_accounts.status` |
| `dispute` | `disputes.state`, `criterion_id` |
| `wallet` | what the milestone's payment has put into the client's locked and available balance, the expert's, the platform's, and an outbound withdrawal |
| `ledger` | the milestone's `wallet_transactions`, summed by kind |
| `engagement` | `engagements.state` |

The system starts with the milestones funded (`FUNDED` for a service order,
`IN_PROGRESS` for a project), that is, after `ContractFunding`'s `CommitCredit`.
A refinement mapping in the module (`Outcome`, `Paid`, `Promise`) states that
it implements `AbstractEscrow`.

`RowLocks` extends it with the rows each transaction locks: criterion, milestone, escrow, dispute,
engagement and the three wallets, in the order of the code's statements. A transaction waits for the
next row of its list (`Order`, `Missing`) while another holds it (`LockRow`, `Advance`), and a step of
`MilestoneEscrow` is taken together with its last lock. Circular waits are therefore states of this
module. `CirclesAreDisputes` says which ones there are: PostgreSQL breaks each by aborting a
transaction (`Abort`).

`ReviewScreens` extends `MilestoneEscrow` with what the pages of expert, tech team, CEO and
admin offer in each state: the conditions under which a page renders a button,
and the guard of the service the button calls (`MaySubmit`, `MayCeoVerify`, ...: the guard of the
action of that name). A page reads columns the service does not, and the other way
round. `SomebodyCanAct` is about milestones with a required criterion: those of a
contract have one (`bids/bid-negotiation.ts:206`), one that a client wrote by hand need not.

`ContractFunding` – from accepted terms to work: NDA signatures, decline and
cancel (`engagements.service.ts`), `initiateFunding` for a fresh milestone and
for an expired window, `handleIpn` with `handleMilestoneTopup`, and the staging
of pay-gated documents. The client's bank (`Transfer`) and the clock (`Elapse`)
are the environment: a transfer names a virtual account, is or is not for the
exact amount, and its notification may come at any later time, any number of
times.

`Withdrawals` – the expert's wallet: top-ups, approved milestones flowing in
(linked bank account or not), manual and milestone withdrawals and the decisions
on them, and subscriptions bought from the same balance. Completing the
withdrawals of all milestones closes the engagement. `ApproveLinked` and
`ApproveUnlinked` stand for all of `MilestoneEscrow`'s settlements, as this
wallet sees them.

`Bidding` – bids of several experts on one project: the envelope of offers and
counter-offers, the technical review of an offer's scope, acceptance with the
milestones it creates and the rivals it declines, decline, withdrawal statement
by statement, bids older than the envelope (`Legacy`) and their reconciliation,
and the terms lock with the milestone edits it guards. `BidScreens` extends it
with the pages of CEO, expert and tech team, as `ReviewScreens` does for the review.

`Elicitation` – one session: the stages with their AI calls, the hand-off link
and the accounts that join by it, revert, abandon, continue and delete, and the
synthesis that publishes the project in four statements. An account keeps one
`linked_project_id`, which the hand-off of another session of the same client may
take over (`auth/auth.service.ts:371`); so `SubmitterFindsProject` speaks of a
client's only session.

`ServiceOrders` – one listing and the orders of it, from purchase to closing, with payment windows,
transfers of any amount, decline and cancel. Besides the milestone 1 that the payment of an order makes
(`first`, `escrow`), a client may write milestones of an order by hand and fund them like those of a project (`byHand`,
`BeginFund` to `CommitMilestoneTopup`): `initiateFunding` asks for a contract only of PROJECT_BASED
engagements (`milestones.service.ts:232`), and the credit of such a milestone makes the order ACTIVE
(`ipn-handler.service.ts:291`). So what `WorkIsPaid` says of an ACTIVE order is that some transfer
was credited to it, of the amount its window asked for, and not that its price was paid. Work on
an item does need a transfer for that very item: for the order, or for the milestone by hand.

`ClientSession` – one page of the browser: the request and response interceptors
with `isRefreshing` and `failedQueue`, the token store and its copy in
localStorage, and `AuthService`'s login, refresh and logout. Other tabs and
devices are one action (`Elsewhere`).

`SeamVerification` – the claims of one expert: attempts whose failures are read
before the AI call and written after it, the lock and its end, portfolio
entries; and the hard gate of `matching_engine.py` that reads the result.

`Messaging` – one user in two or more threads: the gateway (rooms and parties),
the store of messages and read marks, the query cache, the open thread and the
unread counters. `entered` is the set of threads `unreadCounts` has an entry for, be it zero. As long as
there is none the pages show the count of the server (`MessageThread.tsx:528,553`), and as soon as there
is one that page shows its own instead. `LoadPage` empties stores and cache, over whatever
is unread on the server, as a reload does, and a logout (`socket-provider.tsx:52`). So messages that were
unread before are in no entry; `ZeroMeansRead` is about the entries the page does have.

`Recruiting` – one project: the row of `project_shortlist_cache` the CEO sees, the
list in memory that admits bids, their refreshes (through the same AI call, with
its timeout), and invitations.

The modules meet where one writes what another starts from:

* `Elicitation` publishes the project on which `Recruiting` and `Bidding` work;
* `Recruiting`'s `CommitBid` is the first step of a bid of `Bidding`, where the
  admission is taken as given;
* `Bidding`'s acceptance leaves the engagement and the DEFINED milestones with
  which `ContractFunding` starts;
* `CommitCredit` of `ContractFunding`, and the payment of `ServiceOrders`, write
  the escrow with which `MilestoneEscrow` starts;
* `Release` of `MilestoneEscrow` is the approval `Withdrawals` takes in.

They are checked apart. Two more columns are shared, and each module keeps the
part that matters to it: `cancelEngagement` refuses while another milestone is
FUNDED, SUBMITTED or IN_REVISION, which only happens after `ContractFunding`
ends (IN_PROGRESS and DISPUTED, though paid, do not stop it), and no request of
`MilestoneEscrow` looks at the engagement's state, so a cancelled engagement
goes on being reviewed as an active one does; and a completed withdrawal turns
APPROVED into RELEASED, which the code of the review counts together with
APPROVED, as `MilestoneEscrow` does.

`MC*` modules hold the small instances; `*Proofs` modules hold the theorems. Where one proof module
extends two specifications, the definitions of one have a prefix (`SeamSpec`, `SeamNext`,
`ChatSpec`, `ChatNext`, ...), and the requests of `SeamVerification` are its set `Attempt`.

Inside a module, a definition directly above a mapped one and named after it
(`SettleOnly` above `Settle`, `FreshIfUnpaid` above `Fresh`) is a deliberately
wrong variant: putting it in place of the right one must break the property it
is paired with under `mutants` in `PROJECT.json`. They are not part of any
specification.

## Runs

| Run | Instance | Shows |
|---|---|---|
| `serial_review` | 2 milestones, 3 required criteria (2 + 1), joint review, 2 disputes, 1 handler; 396,583 states | every history of requests served one at a time: escrow, milestone, dispute, review and engagement agree (`FrozenWhileDisputed`, `ApprovedWhenSettled`, `ReleasedWhenAccepted`, `ClosedMeansSettled`); implements `AbstractEscrow` (`PromiseKept`); no page offers a step the service refuses, and somebody can always go on (`OfferedIsAccepted`, `SomebodyCanAct`) |
| `overlap_review` | 2 milestones that share the wallets, 1 criterion each, 1 dispute, 2 handlers with their row locks; 1,761,608 states | any two requests overlapping: money conserved, each balance is what the rows of its own wallet say (a split apart, see below), and transactions wait for each other in a circle only over a dispute |
| `serial_funding` | 2 milestones, 4 accounts, 3 transfers, 1 handler; 146,963 states | no work without both signatures, each milestone paid exactly once, one open window, documents follow the payment |
| `duplicate_ipn` | 1 milestone, 1 account, 2 handlers | a violation: a notification delivered twice at once is credited twice |
| `wallet` | 2 milestones, 3 withdrawals, 1 transfer, 2 subscriptions, 2 handlers; 1,059,842 states | the books balance however requests overlap; until they do, money is paid out or given back once, nothing is overdrawn, a period is charged once, release and closure follow the payments |
| `negotiation` | 2 experts, one with a legacy bid, 1 handler whose requests may die half-way; 1,275,582 states | one contract, which the project shows unchanged (`OneContract`, `FrameworkMirrorsContract`), only reviewed scope is accepted, and the pages offer no step that is refused and always one that leads on (`ShownStepsAccepted`, `NegotiationMovesOn`) |
| `discovery` | 1 session, 2 accounts that may join, requests that die between statements; 1,260,308 states | no stage rests on one that was taken back, a completed session has its project, the account that submitted the specification is the one that finds the project |
| `orders` | 1 order, 1 milestone by hand, 2 windows, 2 transfers, 2 handlers; 2,097,846 states | the order itself is paid as `AbstractPayment` promises (`PaidAsPromised`), and nothing is worked on that no transfer was credited for (`WorkIsPaid`) |
| `session` | 3 calls, logins and logouts among them, fairness; 163,946 states | the token that is kept is the one the server accepts; every call comes to an end |
| `verification` | 3 seams, 2 entries, 2 handlers; 242,112 states | failures lock, evidence stays |
| `messages` | 2 messages, 2 threads, 1 fault, pages loaded anew; 3,926,698 states | an open thread is complete once all is quiet and never shows another's messages, a count of zero hides nothing unread, nothing vanishes from the screen |
| `shortlist` | 2 experts, 2 handlers, timeout 1; 4,343,153 states | whoever is shown was fit a timeout ago, whoever is admitted a time-to-live and a timeout ago, and a bid answers its invitation |

**Deadlock** is checked in `shortlist`, where time always goes on. Everywhere else
`CHECK_DEADLOCK FALSE` is set because the system may come to rest with everything
settled and nobody asking for anything. That calls do not wait for each other for
ever is `EveryCallSettles` for the page. Requests of the backend can: two transactions
that lock the same rows in opposite orders do, until PostgreSQL aborts one of them, and
`CirclesAreDisputes` says between which requests that happens and between which it does not.

**What the serial runs say and what they do not.** Many properties hold when
requests are served one at a time and fail when two overlap; the counterexamples
are listed below. The serial runs are not trivial: they cover every sequence of
legal calls, repeated notifications, expiries, renewals, failures between steps
and late AI answers (the AI call of a filed dispute spans two steps of its
request).

**Bounds.** Two milestones are needed for anything about "the other milestones"
(engagement activation and closure, money of one escrow paying another); two
criteria on one of them for a review that is partly done; one more criterion
gives the second milestone something to decide. Two disputes allow one milestone
to be disputed again after a criterion was awarded, and both milestones to be
disputed at once. Four accounts and three transfers allow a window to expire, be
renewed and be paid late, on both milestones. Three withdrawals are one for each
milestone and a manual one. Two experts are a winner and a rival, one of them
with a bid older than the envelope. Two accounts are the one that joins and one
that comes too late. Three calls are one that refreshes, one that waits for it
and one that comes after; three seams are one verified, one locked and one
dropped. Two handlers are enough for each race found: every guard that can go
stale is read by one request and invalidated by one other. The amount 33 is odd
and 5% of it (1.65) rounds, so all three roundings show. Bounds on rows that are
ever created are the sets `Dispute`, `VA`, `Payment`, `Withdrawal`, `Entry` and the numbers
`MaxSubmissions`, `MaxPeriods`, `MaxMessages`, `MaxFaults` and those of `Bidding` and `Elicitation`;
each is in the guard of the action that creates the row. Symmetry is used where all properties are
invariants or step properties and the definitions treat the members of a set alike.

**Fairness.** Only `ClientSession` has fairness, `WF_vars(Progress(r))`: the server
answers or the connection breaks, and the browser runs its callbacks. Nothing is
assumed of users: none is obliged to sign off, to resolve, or to call again. So
no property says that an escrow is eventually settled; a dispute whose AI call
failed waits for an admin, perhaps for ever, and that is what the code does. In
place of it `SomebodyCanAct` and `NegotiationMovesOn` say that some party is
offered a step that is accepted.

**Types.** `TypeOK` of every module is checked with the run's own constants; it is
listed under the properties only in `overlap_review`, since it is a theorem for
every module (`ChatTypeOK` and `SeamTypeOK` in `Messaging` and `SeamVerification`).

## Where code and documents disagree

One disagreement has a run and is under `findings`: `duplicate_ipn`, a notification
delivered twice at once is credited twice (BR-PAY-02). The others were met while
modelling and reproduced with TLC at the time or found by reading. *Documents* are
those of `docs/27_7`.

Money and review:

* A milestone whose last required criterion was awarded by a dispute is not
  approved (BR-ACC-04, `03-business-rules.md:464-465`): the award sets `verified_at`
  (`disputes.service.ts:232`), the last sign-off counts `ceo_verified_at`
  (`criteria.service.ts:96-110`). The CEO's page shows "Your sign-off is complete"
  while the service waits for the CEO.
* Two overlapping resolutions refund twice, or a settled escrow (BR-WAL-04,
  `03-business-rules.md:125-126`): `ledger.service.ts:248` reads without a lock.
* A decided dispute is decided again or reopened by a late AI answer
  (`03-business-rules.md:522-523`, `disputes.service.ts:173,253`).
* `disputes.service.ts:144-149` says a dispute whose evaluation failed "will
  retry"; nothing retries it, it stays in LAYER_1_EVAL, and the admin's pages
  (`ResolutionConfirm.tsx:51`) offer a decision only for MANUAL_REVIEW.
* A dispute filed while a sign-off is releasing the escrow freezes a settled one
  (BR-DIS-04/05).
* A retraction that overlaps a sign-off or a dispute resets the milestone
  (BR-DEL-04), and a retraction after the first sign-off is allowed although
  `02-state-machines.md:533-535` says "before review".
* The last milestone settled by a dispute does not close the engagement
  (`02-state-machines.md:412-414`); only a sign-off or a completed withdrawal does.
  An engagement never becomes DISPUTED (`:407-409`).
* A withdrawal is completed and given back, or given back twice, when expert and
  admin decide at once (`withdrawals.service.ts:95`, `admin.service.ts:211`).
* A split takes the whole escrow out of the client's locked balance, but the client's
  own `wallet_transactions` get a row of the client's half only, and that row says
  the money came from that half (`ledger.service.ts:299-313`): by its rows the wallet
  still has the expert's half locked. `BooksBalance` states exactly this difference.
* Transactions that lock rows in opposite orders wait for each other until PostgreSQL
  aborts one: the last sign-off has the milestone and wants the escrow
  (`criteria.service.ts:128`, `ledger.service.ts:123`), filing and the award to the expert have the
  escrow and want the milestone (`disputes.service.ts:97-105`, `:215-241`); a refund or a
  split has the client's wallet and wants the escrow, an award the reverse. A person gets
  an error and may repeat the request; an AI decision that is aborted leaves the dispute in LAYER_1_EVAL.
* With overlapping settlements the locked balance can go below zero; the CHECK that
  forbids it (`migrations/002_finance.sql`) is not deployed.
* The page of a service order approves `acceptanceCriteria[0]` whatever else is required.

Funding and orders:

* A payment into an account issued before a cancellation makes the cancelled
  engagement ACTIVE (`02-state-machines.md:495`, `ipn-handler.service.ts:291`); a
  payment of a declined or cancelled service order revives it the same way.
* Two funding requests for one DEFINED milestone both issue an account, and the
  later one can send a paid milestone back to AWAITING_PAYMENT (BR-WAL-07).
* A service order is made ACTIVE by a milestone the client wrote and paid by hand, of any
  amount, without its price (`milestones.service.ts:232`, `ipn-handler.service.ts:263-295`). If that
  milestone has number 1, the order's own payment can never be credited. Deleting one
  checks that it is DEFINED and deletes it later whatever it is by then, so that a paid one can go.
* A paid service order may be cancelled once its milestone is IN_PROGRESS, as it is after a retraction.
* A document uploaded while its milestone is being credited stays STAGED
  (BR-WAL-10).
* A notification repeated after it was processed is answered 409, not 200: the
  guards at `ipn-handler.service.ts:204-214` come before the idempotency check.
* A listing is bought while it is deleted; the state SUSPENDED of a listing is never set.
* `dod.service.ts:47` asks for a completion note when a required item is *not*
  completed, BR-DOD-02 when it is.

Bids, elicitation and recruiting:

* A project stays PUBLISHED after an acceptance: another expert may bid and be
  accepted, which declines the connected contract of the first
  (`02-state-machines.md:373-381`, BR-BID-08, `bids.service.ts:648`).
* A bid older than the envelope is a dead end on the pages: the CEO is shown
  accept, decline and counter-offer but has no offer to apply them to; the tech team's
  review is refused with `BID_NEGOTIATION_RECONCILIATION_REQUIRED`; the expert's
  "Reconcile Contract Terms" appears only after an error of accept, decline or
  withdraw, which no such bid raises (`CounterOfferReceived.tsx:50-54,73`).
* `BidForm.tsx` is editable when a revision was requested but submits a new bid,
  which `create` refuses with 409; `useUpdateBid` is unused.
* The pages offer to accept a bid whose engagement was declined or cancelled, or
  whose project got its milestones already; acceptance refuses.
* A withdrawal that stops half-way leaves the engagement PENDING, so that the expert
  cannot bid again.
* A completed session takes stage 4 once more and is IN_PROGRESS again
  (`02-state-machines.md:45-55`, `elicitation.service.ts:294`).
* Two accounts can use one single-use hand-off link when they do so at once
  (BR-ELI-01, `auth.service.ts:397`).
* The session's scenario is stored as `SCENARIO_B` where the documents say
  `SCENARIO_A`, for a client who answers for the tech team.
* BR-PRJ-02 (`03-business-rules.md:267-268`, `:644`) says `project_shortlist_cache`
  decides who may bid; the code asks a separate list in memory that is up to five
  minutes and a call old, and only that one leaves out inactive users.
* `getShortlist` may return nothing after scoring, when another refresh evicts the row.
* The invitation of an expert who had already bid stays PENDING; the expiry of an
  invitation is never applied; a late decline overwrites ACCEPTED.
* BR-VER-04 (`03-business-rules.md:254-255`): dropping a seam and claiming it again
  resets the count of failures.

Browser:

* `auth.service.ts:560`: after a logout the hash is null and `refreshToken` skips the
  comparison, so the tokens handed out before are valid again until they expire. It
  does not look at `is_active` either. The refresh call has no timeout.
* `engagement.store.ts` is described as the counts of unread messages; after a page load it has
  none for what was unread before, and pages read it differently: `MessageThread` prefers its own count to the
  server's, `TopNav` the server's to its own.
* A thread loads its oldest 50 messages only. After an automatic reconnection the
  client joins no room and fetches nothing. A message delivered to both rooms counts twice;
  nobody ever leaves a room. The user's own message is missing when the thread is
  opened again within 30 seconds. A first fetch under way is not restarted by an
  event. Read calls mark messages that were never shown. Notifications are
  emitted before they are stored. `engagement.store.ts:12` names the event
  `message:new`, the gateway sends `newMessage`.

## Proofs

`tlapm` checks every theorem for all values of the constants that satisfy the
modules' named assumptions (`ConstantsOK`: numbers are naturals, sets that a proof
counts are finite, the markers "NONE", "CEO" and "none" of an empty column or of no open
thread are not values of it);
TLC evaluates those assumptions in every run. Some theorems say in their statement
that requests are served one at a time (`OneAtATime`: there is one handler) or, like the
properties themselves, that none has overlapped; all the others hold whatever overlaps.

**`MilestoneEscrowProofs`.** The arithmetic comes first. `FeeWithinTotal`: for every amount and every fee in
[0, 1] the fee and the expert's net lie between 0 and the amount and add up to
it; so the branch of the code that caps a negative expert amount is dead.
`HalvesMakeTotal`: the two halves of a split add up and differ by at most one.
Both rest on `RoundHalfUpIsNearest`, which characterises `\div` by its quotient.

For any number of milestones, criteria, disputes and
overlapping requests: `TypeCorrect`, `MoneyIsConserved`, `BooksAlwaysBalance`. The last says of each
wallet that its balance is what its own rows say; only for the client's locked part is there a
difference, and the theorem says it is the expert's half of the splits, to the dong, and nothing else.
The inductive invariant is the conjunction of the three. Types are needed to know
what a request remembers (`RequestFields`); conservation and books are each
preserved by a settlement because `Pay` and `Book` are given parts that add up,
which is one lemma per settlement (`ReleaseStep`, `RefundStep`, `SplitStep`) over
`OneSettled`, the effect of a settlement on the one milestone and on the others.
No serialisation is assumed: even the races above neither create nor lose
money within a milestone; they pay a settled escrow out of the client's other
locked money, with a negative locked part.

For requests served one at a time (`OneAtATime`), any
number of milestones, criteria and disputes: `FrozenExactlyInDispute`,
`ApprovalSettles`, `PaidForAcceptedWork`, `ClosedWithNothingLeft`. None of them is
inductive alone. `Serial` adds to the invariant above `Rows`, what the columns of
a milestone say about each other (a CEO signature implies the tech team's, nothing is
paid before the settlement, an open dispute is about a disputed milestone), and
`Holds`, that what the one request in progress has read is still so, at each
step of it. From `Serial`, `KeepsThePromise` shows the refinement of
`AbstractEscrow`: the initial state maps to one where everything is held
(`PromiseInit`); a release, refund or split of a milestone that is still held maps to
the decision of the same name (`SettlesOnce`, `SettlementPromised`); every other step
is a stutter (`StillHeld`). `Holds` is what overlapping requests destroy, hence the
double refund among the disagreements above.

`LocksOnlyDelay`: whatever `RowLocks` does to the rows, `MilestoneEscrow` does too, so all these theorems
hold with the locks. That circular waits are about disputes is only model-checked.

From `Serial` follows also what `ReviewScreens` claims. `PagesOfferWhatIsAccepted`: the
condition under which a page shows a button implies the guard of the service it calls; for most
buttons that is reading one next to the other, for a dispute it is not, since the page looks
at the milestone and the service at the escrow. `SomebodyIsOfferedAStep` needs more:
`Signatures`: until a milestone is approved some required criterion of it lacks the CEO's
signature, and a sign-off that has counted others missing is right about it. So somebody has a
criterion to sign, unless a dispute awarded it meanwhile: the two exceptions of the property are
what has to be excluded for the proof to go through.

**`BiddingProofs`.** Whatever overlaps: `TypeCorrect` and `ReviewComesFirst`. The latter needs
that an envelope's approval is of a scope the tech team approved (`RowOK`), and that
the copy of an envelope a withdrawal holds and writes back is such a one (`RequestOK`). For
requests served one at a time and at most one bid from before the envelopes
(`OneLegacy`; two of them could both have been selected by the older code):
`OneContractAtMost` and `FrameworkIsContract`. An accepted bid is SELECTED or
DECLINED, a declined bid has no contract alive, at most one bid is SELECTED (so
at most one contract is alive), and a selected bid's terms are its milestones' and the
framework's (`ContractRow`, `OneSelected`); and the lock an edit has read still holds
(`StillTrue`). So `acceptOffer`, which asks neither for the state of the bid nor for an earlier
acceptance, still leaves one contract: it declines every rival, accepted ones too.

`NoOfferedStepIsRefused` and `SomebodyIsToldToAct` (`BidScreens`) are proved for requests served one
at a time and any number of bids, old ones too. A page decides by the bid's columns (`state`,
`tech_status`), the service by the envelope in its JSON; `Pairs` says that the two agree for
each bid (same version and review; the review is of the scope offered; SELECTED only with an accepted
offer, which has its milestones), `Unsigned` that a pending engagement still lacks a signature, `Recalls` that a
withdrawal and an edit under way have read what still holds. The step that could break it
is the withdrawal, which writes back the envelope it read before, and may stop between two of its
statements.

**`ContractFundingProofs`.** For any sets and any overlap: `TypeCorrect` and
`NdaBeforeWork`. `NoWorkWithoutNda` is not inductive: a funding request that has
passed its guard commits later. `NdaFirst` adds that an issued account, and a
request about to issue one, imply both signatures (which are never withdrawn);
`Remembered` adds that what a request or a transfer refers to exists, and that a
milestone of an issued account is not DEFINED any more. For requests served one
at a time (`OneAtATime`): `PaymentCountsOnce` and `OneWindowAtATime`. The
invariant `SerialInv` adds `Window` (only the account a milestone shows can be
paid into, and it names that milestone) and `StillTrue` (what the one request in
progress has read still holds). `StillTrue` is exactly what overlapping requests
destroy, which is what `duplicate_ipn` shows. `DocumentsAreGated` adds to `SerialInv` that
documents, and the release state an upload in progress has settled on, are those of their
milestone's state (`DocumentInv`); a credit between the two steps of an upload would destroy that.
`PaysAsPromised` is the refinement of `AbstractPayment`: an account is never reissued for something else and a transfer never
rewritten (`RowsStay`), so what a transfer was made for stays what it is for; work that has started does not go back
(`WorkGoesOn`); what was credited has its milestone at work (`CreditedIsAtWork`), so that a credit, which finds its milestone
waiting for the payment, finds transfer and milestone uncredited; everything else is a stutter.

**`WithdrawalsProofs`.** For any milestones, withdrawals, transfers, amounts and
requests: `TypeCorrect` and `RowsAddUp` whatever overlaps, and `RefundedOnce`, `SpendsWhatIsThere`,
`ChargedPerPeriod` and `PaidOutAndReleased` as long as nothing has. The inductive
invariant is `TypeOK`, `OnMadeRows` (a decision concerns a row that exists, which
keeps types even when requests overlap) and `overlapped \/ Serial`. `Serial` adds
to the four claims that one request is in progress, that what it has read still
holds (`ReadsHold`, which approvals by other parties do not disturb), and that each milestone has at most one
payment, made when it was approved (`OnePayment`): without it a confirmed payment might not find
its milestone APPROVED.

`RowsAddUp` is `BooksBalance` whatever overlaps: balance and prices charged are what was paid in less what
withdrawals took, two sums over rows of any number. A sum is a fold, a function defined by recursion
over the sets of indices. That it exists and does not depend on the order is not assumed: `Adds(f, total)` says
that `total` gives the sum of `f` over every set of its indices, in any order, and `SumIsTotal` that `SumFunction`
is then `total`, since a smallest set on which the two differ would have a smaller one (`WFMin` on
the finite sets). Every step changes or adds one value (`ChangedSum`, `LongerSum`), for
which the new `total` is written down. The invariant `Books` adds that a request that was not
made was not given back.

**`ExpertProofs`.** Two specifications about an expert that share a module of proofs; each theorem is
about one of them (`SeamSpec`, or `Spec` of `Recruiting`).
`TooManyFailuresLock` and `EvidenceIsKept` follow from `SeamTypeOK`,
`EntriesHaveClaims`, `CountBelowLock` and `AttemptsCounted`: unless two attempts on a seam
overlapped, the count of the claim is the number of failures since the claim or the last
lock. `NobodyIsStuck`, `EveryEntryHasItsClaim` and, from arithmetic on cardinalities,
`FewSeamsSpareAll`: a project that requires at most one seam more than the ratio
excludes nobody by the gate.
`AdmissionIsRecent`, `CeoSeesRecent`, `BidAnswersInvitation` hold
for any number of experts and overlapping refreshes and any time to live and timeout.
Their invariant says how old what is under way may be: `PoolsAge` (the pool a call was
given was fit when the call began), `MemoAges` (what is in memory, by its age and
one timeout), `FitIsNow`. Types are `SeamsTypeCorrect` and `ListsTypeCorrect`.

**`PageProofs`.** What one page of the browser keeps, again two specifications.

`HeldTokenIsCurrent`, for any number of calls. `HeldIsCurrent` says nothing of who may bring the
page a token, so it is not inductive: a late answer could replace a current token by an old one.
`SessionInv` adds `OneRefresh` (a theorem of its own, `OneRefreshAtATime`: of the calls that got a 401, one
refreshes, and `isRefreshing` is set as long as it does), `OneBringer` (at most one call, a login
or the refresh, may still bring a token), `BroughtIsCurrent` (what such a call was given, the server accepts),
and that localStorage holds the same refresh token as the store, from which the next refresh takes it.
The last three are claimed until `strayed` is set, that is until another page, a lost answer or a
login during a refresh interferes; the rest holds always.

`ZeroHidesNothing`, `OpenThreadsAreComplete` and `ShownMessagesStay`, for any number of threads, messages and
faults and any page size. The first two speak of a page on which nothing is under way;
`ChatInv` says for one that is not, and message by message, where the message is.
`CountedOrComing`: it is read, or its thread is counted or being marked, or its event waits in the inbox, or it
was not announced yet, or the page has no entry of the thread; opening a thread makes an entry of zero, and
marks the thread in the same step, with all that was unread before the page was loaded. `CachedOrComing`: the cache of its thread has it, or an answer
under way brings it, or a fetch that was not served yet or that opening the thread will start; or its event
waits; or it is beyond the first page, or crossed the fetch. Both are about pages without a fault; `CacheIsShown` (an
open thread shows at least its cache), `CacheIsLogged` and `ShownIsOfView` (what is cached of a thread, or shown of
the open one, is of that thread) hold with faults too. The lemma that makes a fetch safe is
`PageStays`: the server orders by time of creation, oldest first, so a message that is not on the first page
never comes to it, and the cache need not be told of it. `ServerStep` and `FaultInv` treat all steps of the server, and all faults, alike.

**`ElicitationProofs`.** For any number of sessions, accounts, texts and archetypes. Whatever overlaps:
`TypeCorrect` and `CompletedIsPublished`. The second needs of a request that is about to complete a
session that its project is there (`RequestOK`), and of the columns a stage writes that COMPLETED is
never among them (`Fits`); then a session rewritten by an overlapping stage is
IN_PROGRESS again, not completed without a project. For requests served one at a time:
`StagesFollow` and `SubmitterIsLinked`. `Agrees` says what a request in progress has read: a
stage will write columns that leave the row coherent with the stages before it
(`Coherent(With(row, columns))`: so going back has to clear what follows), and the submitter chosen
before the AI call is still the one of the session when the link is written.
`Linked` says that a completed session's submitter is linked, or about to be.

**`ServiceOrdersProofs`.** For any number of orders, milestones by hand, windows and transfers, whatever overlaps:
`TypeCorrect`, `OneTransferPays` and `NoWorkUnpaid`. The credit of an order creates milestone 1 of it, and
`(engagement_id, milestone_number)` is unique in `schema.prisma` (`FirstMilestone`), so the transaction
of a late, repeated or second payment fails, whatever its guards have read before: `NothingBefore` says that as long as
the payment has made no milestone 1 no transfer into an account of the order itself was credited, `Remembered` that what a
request refers to exists and a credit under way is of the right amount, `Kept` that orders, accounts and transfers are never taken
back nor changed in what they name. Transfers for milestones by hand go past all this: they touch neither
`first` nor `escrow` (`ForeignCredit`), and `NoWorkUnpaid` asks a credited transfer for each of them. No such key protects the milestones of
`ContractFunding`, which is why its theorems need one request at a time. From the same invariant, and from `Kept` for the
stuttering steps, `PaysAsPromised`: orders implement `AbstractPayment`, with no assumption on what overlaps.

## What is not covered

*Only model-checked*: liveness (`EveryCallSettles`, under the fairness stated above), which is
out of the prover's reach, `CirclesAreDisputes`, and that the overlapping requests of `duplicate_ipn` do violate its claim. Every
other property of a run is a theorem; some theorems are about definitions no run lists, among them `PaidOnceInFull`,
which `PaidAsPromised` says more than, and `PaidAsPromised` of `ContractFunding`.

*Not modelled*: the definition-of-done checklist (its only effect on other
parts is to refuse a submission, and no submission is ever forced), reviews of a
party, the tables of platform configuration, profiles and passwords, prompt
assembly in `ai-service` (its answers are nondeterministic choices), and the
pages of the web client other than those named above: they render what the
backend answers. Within the modelled parts: wording of criteria and milestones
before funding, criteria of milestones written by hand in a service order, deletion of documents, notifications, the weights of the
matching score, and everything whose only effect is on what is displayed. The
loss of precision when amounts above 2^53 pass through `Number` is out of range
for dong amounts. Row locks are modelled within one engagement under review
(`RowLocks`); settlements of opposite engagements, where two wallets are client's and expert's the other way round,
and deadlocks elsewhere (a renewal and a notification lock account and milestone in opposite orders) are one of the
outcomes of `Fail` and `Stop`. `ServiceOrders` promises nothing of how often a transfer for a milestone by hand is credited:
as in `duplicate_ipn`, two overlapping notifications credit it twice.

*Abstracted on the page*: opening a thread and joining its room are one step (the gateway checks the party first,
`messages.gateway.ts:160-163`; meanwhile the user is told all the same); the list of conversations, with the counts of the
server, is not fetched, so nothing is said of how current it is; `switchRole` writes back the refresh token of
the last render (`use-auth.ts:103`), which is taken as the one in the store. What a reconnected page
has missed it goes on missing, and its own counts then hide it: no property covers that, only `NothingVanishes`
holds with faults. Much of the implementation is markup and styling of pages, seed data,
simulations of the AI service and data types, which carry no state machine.

## Plan

In the order of what it would add:

1. One specification of an order or a project from its first payment to its settlement: `AbstractPayment`
   composed with `AbstractEscrow`, whose `escrow` and `outcome` are about the same row.
2. The pages of the remaining components (elicitation, funding, orders, wallet), in the way of
   `ReviewScreens` and `BidScreens`.
3. `DodChecklist` as a gate of `BeginSubmit`.
