# RESCUE: specification and proofs

RESCUE is a brokerage for vehicle recovery: a customer raises a job, a dispatcher
triages and prices it, the customer approves the price, the job is offered to
several providers, one of them accepts, does the work, proves it, and is paid.
The program is a Fastify API over PostgreSQL (`src/apps/api`), a worker process
(`src/apps/api/src/worker`), shared contracts (`src/packages/contracts`), the
database schema (`src/packages/database`) and a web console (`src/apps/web`).

This directory holds TLA+ modules translated from that source, the TLC
configurations that check them on small instances, and theorems about them that
TLAPS checks for every size of the system. Paths below are relative to
`src/apps/api/src` unless they start with `packages/` or `docs/`.

To repeat the checks: `tlc -config <run>.cfg <module>.tla` for each run below,
and `tlapm <module>Proofs.tla`.

## 1. Inventory

| Component | State it keeps | Operations that change it | Modelled |
|---|---|---|---|
| Job lifecycle (`packages/contracts/src/job.ts`, `routes/jobs.ts`, `store/prisma.ts`) | `Job.status` | create, triage, start, complete, cancel; `transitionJob` | `JobStatus`, `Dispatch` |
| Quotes (`routes/quotes.ts`, `packages/contracts/src/commerce.ts`) | `Quote.status`, `validUntil` | `createQuote`, `decideQuote` | `Dispatch` (prices left out) |
| Offers and assignments (`routes/offers.ts`) | `AssignmentOffer.status`, `expiresAt`; `Assignment.status` | `createOffers`, `acceptOffer`, `declineOffer`, `expireOffers`, `fallbackAssignment` | `Dispatch` |
| Dispatch sweep (`lib/dispatch.ts`, `worker/main.ts`) | none but what a run has read | `DispatchSweep.run`, `cover`, `escalate` | `Dispatch` |
| Event writer (`lib/outbox.ts`, `writeEvent` in `store/prisma.ts`) | `JobEvent`, `Outbox` rows | one event, and at most one row per dedupe key, in the caller's transaction | `Outbox`, `Payments` (the topics that move money) |
| Outbox worker (`worker/worker.ts`, `packages/contracts/src/ops.ts`) | `Outbox.status`, `attempts`, `availableAt` | claim with a lease, deliver, retry with back-off, dead-letter | `Outbox`, `Payments` |
| Payments (`worker/payments.ts`, `lib/payments.ts`) | append-only ledger; the gateway's holds and payouts | authorise, capture and pay out, release | `Payments` |
| Idempotency keys (`plugins/idempotency.ts`) | `IdempotencyRecord` | find, do the work, save | `Idempotency`, `Retention` |
| Evidence rows and objects (`routes/evidence.ts`, `store/prisma.ts`) | `Evidence.status`, `uploadedByUserId`; objects in storage | create a ticket, PUT, confirm, delete | `Retention` |
| Retention and erasure (`lib/retention.ts`, `routes/privacy.ts`) | rows and stored objects | delete rows, then objects; anonymise a person | `Retention` |
| In-memory store (`store/memory.ts`) | the same data in process memory, two indexes of the outbox | the same interface, under per-job locks | `MemoryStore` |
| Providers, vehicles, documents (`routes/providers.ts`) | review status, availability, vehicles, documents | create, review, change availability | `Providers` |
| Eligibility and ranking (`lib/eligibility.ts`, `rankForJob` in `lib/dispatch.ts`) | none between calls; what a ranking has read so far | read providers, distances, fleets, documents; sort | `Eligibility`, `Providers` |
| Maps cache (`lib/maps.ts`) | cached routes with an age | look up, fill, fall back to an estimate | `Providers` |
| Web console (`src/apps/web`) | the pages that are open | render, send a form, show the answer | `Console` |
| Money (`packages/contracts/src/money.ts`, `lib/payments.ts`) | none: pure functions | - | `Money` |
| Triage and AI suggestions (`lib/triage.ts`, `lib/ai.ts`) | none that moves a job | - | `Triage` |
| Authentication and tenancy scope (`plugins/auth.ts`, `lib/auth/*`, `packages/contracts/src/auth.ts`) | none between requests | - | `Tenancy`, but for the verification of tokens |
| Notifications (`lib/notifications.ts`, `worker/handlers.ts`) | none | - | no: templates and senders |
| Metrics, health, OpenAPI, configuration, wiring | counters | - | no: reporting |
| Migrations (`packages/database/prisma`) | constraints and triggers | - | as guards of the actions that meet them |

How the parts interact. A route handler checks the caller, reads through the
store, and calls one or more store operations; each of those is a database
transaction, but a handler that awaits several of them is not. Every store
operation that changes a job writes an event in the same transaction, and the
event writer adds an outbox row for the events somebody has to hear about. The
worker process claims outbox rows and hands them to the notification and payment
handlers; a second timer in the same process runs the dispatch sweep, which can
also be started by an admin endpoint (`POST /admin/offers/expire`). Workers may
be started several times over; the only thing they share is the database. A third
timer runs retention over the same tables and over object storage. Without a
database the API runs on the in-memory store instead, in one process. The web
console is a client of the API like any other: it renders pages from reads and
turns forms into requests.

What is hard in each part, and what makes it correct:

- **Jobs, quotes, offers, assignments.** Requests interleave at every `await`.
  `transitionJob`, `decideQuote`, `acceptOffer` and `fallbackAssignment` run at
  SERIALIZABLE; `createOffers`, `declineOffer` and `expireOffers` do not. The
  handlers read (the job's status, who holds it, whether there is a price) before
  they call the store. Correct: one claimant per job, nobody holds or is offered
  an unpriced job, a held job has a holder, closed jobs stay closed, closed
  offers stay closed, completion has proof.
- **Sweep.** Several runs may be under way at once; a run keeps the list of jobs
  to look at in memory and reads four tables one after the other. Correct: every
  lapsed offer expires, every job it left uncovered gets a new round or a person,
  and the number of automatic rounds is bounded.
- **Outbox.** At-least-once delivery, leases that may be outlived, messages of
  one job handled out of order, rows dropped by their dedupe key. Correct: every
  message ends delivered or dead after the attempts it is allowed, and what was
  delivered stays delivered.
- **Payments.** Read the ledger, call the gateway, append to the ledger: three
  steps, under a delivery that may repeat and reorder. Correct: money is taken
  only for completed work and against a hold, goes to the one provider that holds
  the job, is never both captured and released, and the ledger says no more than
  the gateway did; money held for a cancelled job is released.
- **Idempotency.** Find, work and save are separate. Correct: nobody is given the
  answer to another request, and a request that was answered is not worked again
  while its answer is to be remembered.
- **Evidence, retention, erasure.** Rows first, objects afterwards, in several
  steps that several runs take at once while clients upload and confirm. Correct:
  no object is left behind without anybody knowing, old evidence goes, an erased
  person is not linked to anything new.
- **In-memory store.** A write before a throw stays, an index beside the rows has
  to agree with them. Correct: the same promise as the database keeps, without
  its index; no message lost between index, rows and retention.
- **Providers and ranking.** A ranking reads dozens of rows and asks a slow service
  between them, while compliance suspends, providers pause and documents expire.
  Correct: nobody is ranked on facts older than the ranking, and a distance called
  measured was measured, not long ago.
- **Console.** Pages grow old while others act; answers are lost and forms sent
  again. Correct: an old form does nothing that a fresh page would not offer, and
  a job never gets out of everybody's hands.
- **Money, triage, tenancy.** Pure rules with boundaries: rounding, columns, sizes,
  whose role counts where.

## 2. Modules

| Module | What it is |
|---|---|
| `JobStatus` | the status table of `job.ts`, the set of legal transitions |
| `Dispatch` | jobs, quotes, offers, assignments, and the sweep over PostgreSQL: every handler, and every interleaving of them |
| `Brokerage` | the abstract specification: what dispatch promises to customers and providers, with the two theorems every implementation inherits |
| `Outbox` | the outbox table: rows per dedupe key, claims, leases, marks |
| `Payments` | extends `Outbox` with the jobs of `Brokerage`, the drain, the payment handlers, the ledger and the gateway |
| `Escrow` | the abstract specification: what becomes of the money of a job |
| `MemoryStore` | the in-memory store: jobs, quotes, offers, assignments, timeline, outbox with its index, retention |
| `Idempotency` | idempotency keys: look-up, work, save, as three steps |
| `Retention` | extends `Idempotency` with evidence rows, stored objects, the steps of a retention run, and erasure |
| `Eligibility` | the pure rules of who may be offered a job and in which order |
| `Providers` | extends `Eligibility` with the registry, the route cache, and rankings that read them step by step |
| `Console` | the pages of one job, their forms, and what becomes of forms sent from old pages |
| `Money`, `Triage`, `Tenancy` | pure rules, as operators |
| `Totals` | the sum of a list, as a recursive function |
| `MCDispatch`, `MCPayments`, `MCProviders`, `MCMemoryStore`, `MCConsole` | the model values TLC may permute, the sample provider, and the pure rules evaluated on small inputs |
| `DispatchProofs`, `PaymentsProofs` | theorems about `Dispatch`, and about `Payments` with `Outbox` and `Escrow` |
| `MemoryStoreProofs`, `RecordsProofs`, `ProvidersProofs`, `ConsoleProofs` | theorems about `MemoryStore`, about `Retention` with `Idempotency`, about `Providers`, about `Console` |
| `RulesProofs` | theorems about `Money`, `Eligibility`, `Triage` and `Tenancy` |

How they compose. `Dispatch` implements `Brokerage`, which is proved. `Payments`
takes `Brokerage` as its jobs: every step of a job in it is a step of
`Brokerage`, together with the outbox row that the event of that step leaves. So
what is shown of `Payments` is shown for every interleaving of requests and
sweeps, the late quote request that reopens an assigned job included, without
carrying their state. `Payments` in turn implements `Escrow`. `MemoryStore`
implements the same `Brokerage`, so the two stores, which share no line of code,
are shown to keep one promise; so does `Console`, whose forms are the only way its
users have to move a job. What `Dispatch` takes from a ranking - any set of
providers - is more than `Providers` lets it choose, and what `Dispatch` calls a
confirmed upload is what `Retention` follows to its object.

### Dispatch

State. `job`, `quote`, `offer`, `expiresAt`, `assignment` are the columns of the
tables that some condition in the code reads. An offer is a function of (job,
provider) because the unique index on that pair allows one row. So is an
assignment: nothing in the schema forbids a second assignment of the same pair,
but one can only come from a second accepted offer, and the theorem
`ProviderIsAwardedOnce` shows that a provider that ever held the job has no live
offer on it. `proof` says that an upload was confirmed for the job. `escalated`
records which `DISPATCH_ESCALATED` events were written, `autoRounds` counts the
rounds of offers the sweep made, `now` is the clock. `call[t]` is what the
request `t` has read and not yet acted on, `sweep[s]` the same for a run of the
sweep.

Actions and the code they model:

| Action | Code |
|---|---|
| `CreateJob`, `TriageJob`, `CancelJob`, `StaffWork` | `POST /jobs`, triage and cancel, start and complete by staff |
| `DecideQuote` | `decideQuote`. Past `validUntil` the store writes EXPIRED and then throws inside the same transaction, so PostgreSQL rolls it back: the quote stays SENT for ever |
| `UploadEvidence` | `markEvidenceUploaded` |
| `StaffFallback`, `FallbackAssignment` | `POST /jobs/:id/fallback`, `fallbackAssignment` |
| `BeginQuote`, `CreateQuote`, `MarkQuoted` | `POST /jobs/:id/quotes`: the status is checked, the quote is created, the job is moved - a read and two transactions |
| `BeginOffers`, `FanOut` | `POST /jobs/:id/offers`: the job is read, later the offers are created |
| `BeginAccept`, `AcceptOffer` | `POST /offers/:id/response` with ACCEPT: the clock is read before the transaction |
| `BeginDecline`, `DeclineOffer` | the same with DECLINE: the offer is read, then updated by its id alone |
| `BeginProviderWork`, `ProviderWork`, `ProviderFallback` | start, complete, fallback by the provider: who holds the job is read first and not looked at again |
| `CallEnds` | the request is refused, aborted by a constraint or a serialization failure, or dies with its process |
| `BeginSweep`, `ExpireOffers` | `expireOffers`: lapsed offers are selected, then marked by id |
| `CoverJob`, `CoverAssignment`, `CoverOffers`, `Reoffer` | `cover`, one step per query |
| `SweepCrash` | a query of the run fails, or its process dies |
| `Tick` | time passes |

Granularity. A SERIALIZABLE transaction is one step: PostgreSQL aborts it when it
could not have been one. At READ COMMITTED each statement sees what was committed
before it; `declineOffer` and `expireOffers` select rows and then update them by
id, so each is two steps and what happens in between is overwritten.
`createOffers` also runs at that level, but two of its runs that insert the same
pair collide on the unique index and the later one aborts, so it is one step and
the abort is `CallEnds` or `SweepCrash`. Reads that cannot change their answer
between the read and the next step are merged with it: an APPROVED quote stays
approved, a confirmed upload stays confirmed.

What is abstracted, always to allow more than the code does:

- the ranking (`rankForJob`) returns any set of providers, so nothing here
  depends on who is eligible;
- `proof` is never taken back: `Retention` deletes rows of evidence by age, days later;
- requests are the ones that passed authentication and scope. A provider sees a
  job through any of its assignments, past or present, so a former holder's
  request for it gets as far as the handler's own check;
- events, messages and amounts are not in this module.

### Brokerage

Status, the set of jobs with an agreed price, and the set of claims on each job.
A job moves along the status table; it is awarded from QUOTED, at an agreed
price, and only while nobody claims it; a claim ends only by the fallback that
reopens the job. `KeepsPromise` is the refinement
`INSTANCE Brokerage WITH status <- job, agreed <- {j : Approved(j)}, claims <- [j |-> Active(j)]`.
Quotes, offers, sweeps and half-done requests are all hidden by it, so it says
that none of their interleavings can award a job twice or unpriced.

### Outbox and Payments

State. `outbox` is the row of each dedupe key: its status, its attempts, and
whether `availableAt` has passed (`due`). `worker[w]` is where the drain of a
worker is: the rest of its batch with the attempts each row had when it was
claimed, the message in hand, the ledger entries its handler has read, the payee
it has read. `ledger` counts the entries of each kind a job has, `held`,
`captured` and `paid` are what the gateway did. `won` are the providers with an
ACCEPTED offer, `triaged` the jobs a quote may have been requested for, and
`status`, `agreed`, `claims` the variables of `Brokerage`.

| Action | Code |
|---|---|
| `CreateJob`, `MoveJob`, `AwardJob`, `ReopenJob` | the steps of `Brokerage`, with the row `writeEvent` adds in the same transaction |
| `ApproveQuote` | `decideQuote` with APPROVE: it looks at the quote alone, so the job may be in any status |
| `ExpireAcceptedOffer` | the late update of `expireOffers` (section 4) |
| `Claim` | `claimOutbox`: any due rows up to the batch size; SKIP LOCKED may leave some to another claim |
| `ReadLedger` | a message of the batch is taken up and its handler reads the ledger |
| `Authorise`, `RecordAuthorisation` | `authorise`: gateway call, append |
| `Capture`, `RecordCapture`, `ReadAssignment`, `PayOut`, `RecordPayout` | `captureAndPay`; whether a payout is due was read before the capture |
| `RecordRelease` | `release`; the gateway has no call for it, so the hold on the card stays until it lapses there |
| `MarkDelivered`, `MarkFailed` | `markOutboxDelivered`, `markOutboxFailed`. Whether to give up comes from the attempts at the claim. A failure marked on a row that another worker delivered violates `OutboxMessage_delivered_iff_sent`; the drain throws and its batch waits for the leases |
| `HandlerFails` | anything the handlers await throws, before it took effect or after; a notification handler composed in front included |
| `WorkerDies` | the process dies, or `markOutboxFailed` itself fails |
| `TimePasses` | a lease or a back-off runs out, possibly while the claimed row is being delivered |

What is abstracted: the order of a batch (any order is allowed); the topics that
only notify; rejected quotes, whose message does nothing; amounts, but for
`offerOf`, the provider whose offer the amount of a payout was taken from; the
deletion of delivered rows after weeks. The gateway is external and modelled from
the calls: authorising and paying out are idempotent on their keys, capturing
refuses what is not held. `MockPaymentGateway` keeps its holds in memory only; its
forgetting them is a capture that fails. `None` as `offerOf` is the fallback to a
share of the hold. Leases and back-offs are shorter or longer than a delivery as
it happens, so nothing depends on the 60 seconds.

### Escrow

What became of the customer's money (`NONE`, `HELD`, `RELEASED`, `TAKEN`, `PAID`),
to whom it was paid, and how the job ended. A hold comes first; it is captured only
for a completed job, and then paid to one provider, or released, only for a
cancelled one; nothing is undone. `KeepsEscrow` is the refinement in which the
kinds of entries in the ledger say what became of the money. Second entries, of
which redelivery by several workers may leave some, map to stuttering.

### MemoryStore

State. `job`, `quote`, `offer`, `expiresAt`, `assignment` are the records of the
maps; `history` is the from and to of the status events of a job, `outbox` the
status of the row of a dedupe key and `outboxKeys` the index by key that stands
beside the rows. Two variables are history only: `owed`, the messages that were
recorded and not yet delivered, and `unsaid`, the keys under which an event was
recorded that got no message of its own, as the index held its key already.

| Action | Code (`store/memory.ts`) |
|---|---|
| `CreateJob`, `TransitionJob`, `CreateQuote`, `CreateOffers`, `DeclineOffer`, `ExpireOffers` | the methods of those names |
| `DecideQuote` | `decideQuote`: EXPIRED is written before the throw, and stays |
| `AcceptOffer`, `RefuseAccept` | `acceptOffer`, with the clock its caller read; a refusal leaves EXPIRED or WITHDRAWN behind |
| `FallbackAssignment` | `fallbackAssignment` |
| `RecordJobEvent` | `recordJobEvent`, which the sweep calls to escalate a job |
| `MarkDelivered`, `MarkFailed` | the drain of one worker in the same process |
| `RunRetention` | the outbox part of `runRetention`: rows and their index entries |
| `Record`, `Key`, `Discriminator`, `TopicByEvent` | `recordEvent` and `discriminatorFor` of `lib/outbox.ts` |

What is abstracted: only status events have an order; which topics a run follows
is the bound `Followed`; attempts and back-offs (a failed row is retried or given
up); the ages retention goes by. The registry, the evidence, the lists and the
pages of the same store hold data that no rule here reads, and are left out.

### Idempotency

State. `record[k]` is the record of an organisation's key: the body it was made
for, the answer, when it expires. `request[r]` is where a request is between
looking up, working and saving, and what it was answered.

| Action | Code |
|---|---|
| `LookUp` | `findIdempotencyRecord`, and the replay or the refusal in `run` |
| `Work` | the handler; what throws is not stored |
| `Save` | `saveIdempotencyRecord`, an upsert |
| `CutOff` | the process dies, or the save fails |

A body stands for what `requestHash` digests, an answer for the request whose work
it reports.

### Retention

State. `row`, `createdAt`, `uploader` are columns of an evidence row, `objects` what
storage holds, `confirming` the confirmations that have looked their caller up and
not yet written, `erased` the persons whose subject was redacted, `run` where each
retention run is and which keys it has still to delete. `reported` and `lost` are
history: keys named in a result, and keys that went with a process.

| Action | Code |
|---|---|
| `CreateEvidence`, `BeginConfirm`, `Confirm` | `routes/evidence.ts` with `markEvidenceUploaded` |
| `Put` | the client and the storage service (external): a PUT is good until its ticket expires |
| `ErasePerson` | `routes/privacy.ts`, `erasePerson` |
| `BeginRun`, `DeleteRows`, `DeleteObject`, `EndRun` | `RetentionJob.run`: rows read, rows deleted with the expired records, objects one by one |
| `RunDies` | the process stops |

What is abstracted: the outbox rows and the locations that the same transaction
deletes touch nothing here; who may upload is `Dispatch`; a second confirmation of
the same row by the same person is the first again.

### Eligibility and Providers

`Eligibility` is the rules: the estimate by shared digits of the postal code, the
suitable vehicles and the smallest of them, documents in order, the reasons
against a provider, the order of the eligible, the load of the items. Volumes are
integers of hundredths of a cubic metre; the rounding of floats is left out.

State of `Providers`. `status`, `accepting`, `fleet`, `papers` are the registry;
`cache` is the route cache of `lib/maps.ts` by base, `measured` (history) what the
map service answered and when; `ranking[q]` is what a ranking under way has read,
`seen` (history) which gates a provider met at some moment of it.

| Action | Code |
|---|---|
| `CreateProvider`, `ReviewProvider`, `SetAvailability`, `CreateVehicle`, `CreateDocument`, `ReviewDocument` | `routes/providers.ts` and the store's methods |
| `BeginRanking` | `rankForJob` reads the clock and `listProviders` |
| `RouteFromCache`, `AskRoute`, `RouteAnswered` | `CachingMaps.route`, one provider after the other; the service is external and may fail |
| `ReadFleet`, `ReadDocuments` | `listVehicles`, `listDocuments` |
| `EndRanking` | `rankProviders`, and back to the caller |

What is abstracted: what is fixed once created is a constant (`Facts`, `Fleet`,
`Papers`); the cache is kept for one pickup, the key being base and pickup; the
geocoding cache and the pacing of its calls.

### Console

State. The rows of one job as in `Dispatch`, but with `LAPSED` for a quote or an
offer past its time; `quoting` are the dispatchers whose price is between its
check and its rows; `page[u]` is the set of forms on the page a user has open;
`rank[p]` is the place of a provider among the eligible ones, 0 if it is not one
of them, as the API works it out anew for every call.

| Action | Code (`apps/web`) |
|---|---|
| `Render`, with `CustomerPage`, `DispatchPage`, `ProviderInboxPage`, `ProviderJobPage` | the pages under `app/[locale]` and the forms of `components/forms` |
| `Send` with an action of `lib/actions/*.ts` | a form is sent and the API accepts it |
| `Answer` | `revalidatePath`, or the answer is lost |
| `FinishQuote` | the second half of `POST /jobs/:id/quotes` |
| `CancelJob`, `Lapse`, `Sweep` | another client, time, the worker |
| `Rerank` | the fleet changes: what the next `rankForJob` will say (`Providers` has why) |

What is abstracted: a refused form changes nothing but the error it shows and is no
step; the reads of one page are taken together (a list that fails to load only
hides forms, and the properties are about forms that are shown); the sweep is one
step and may offer to any of the eligible that were not asked; sign-in, onboarding,
profile and messages. A form offers the job to the `MaxProviders` best-ranked, which the
console leaves at the default of the schema (five), and those asked before are skipped.

### Money, Triage, Tenancy

Operators without state. `Money`: VAT in integer cents, the breakdown of a quote,
the summary of a ledger. `Triage`: the suggestion computed for a job, and what is
made of a model's reply. `Tenancy`: the tenant that the headers select, the roles
that count there, the scope of reads, what a scope lets through; `MemoryStore`
takes its visibility from it. Who the caller is - the verification of tokens - is
not modelled, only what follows from the memberships found.

## 3. Runs

| Run | Instance | Shows |
|---|---|---|
| `DispatchSafety` | 1 job, 2 providers, 2 quotes, 2 requests, 1 sweep that may die, clock 0..1; symmetric in providers, quotes and requests; 609,000 states | type correctness, `OneClaimant`, `HeldHasHolder`, `DispatchedAtAPrice`, `AwardedOnce`, `CompletedWithProof`, `ClosedJobsStayClosed`, `AnsweredStaysAnswered`, `KeepsPromise` |
| `DispatchSweep` | 1 job, 4 providers, rounds of one or two providers, offers that lapse when they are made, one fair sweep; 183,000 states | `AutomaticRoundsBounded`, `NobodyIsForgotten`, and `ExpiredJobsAreAttended` over several rounds |
| `DispatchLoop` | 2 jobs, 1 provider, offers that live for one tick, one fair sweep; 540,000 states | `LapsedOffersExpire`, and `ExpiredJobsAreAttended` when a run has a second job to do and offers are accepted |
| `StaleQuoteRequest` | 1 job, 1 provider, 2 quotes, 2 requests | refutes `ReopenedIsReleased` |
| `PaymentsSafety` | 1 job, 2 providers, 1 quote, 2 workers that may die, batches of one, dead after the first failure; symmetric in providers and workers; 509,000 states | type correctness, `NeverCapturedAndReleased`, `CapturedForCompletedWork`, `PaidToTheHolder`, `LedgerFollowsGateway`, `EntriesBoundedByWorkers`, `DeliveredStaysDelivered`, `KeepsEscrow`; and the sums of `Money` on small ledgers |
| `PaymentsRetry` | 1 job, 1 provider, 1 quote, 1 fair worker that does not die, batches of two, 3 attempts; 24,000 states | `GivenUpAfterMaxAttempts`, `MessagesSettle` |
| `LateAuthorisation` | 1 job, 1 provider, 1 worker | refutes `CancelledJobsHoldNothing` |
| `MemoryStoreSafety` | 1 job, 2 providers, 1 quote, the topics `offer.declined` and `dispatch.escalated`, clock 0..1; symmetric in providers; 245,000 states | type correctness with the agreement of index and rows, `HistoryExplainsStatus`, `NothingGoesUnsaid`, `SightIsKept`, `KeepsPromise` |
| `RecordsSafety` | 1 key, 2 bodies, 2 requests, 1 piece of evidence, 1 person, 2 retention runs that may die, clock 0..3; 574,000 states | type correctness, `AnswersMatchTheirRequest`, `RetriesDoNoWork`, `NothingLeaksUnnamed`, `ErasedStayErased`, `OldEvidenceGoes` |
| `ProofNeverStored` | the same with one request and one run | refutes `UploadedIsThere` |
| `ProvidersSafety` | 1 provider in range by road only, with 1 van and 2 documents of which 1 expires, 1 ranking, routes kept for one tick, clock 0..1; 745,000 states | type correctness, `EligibleOnRecentFacts`, `RoadDistancesAreMeasured`; and the rules of `Eligibility` and `Triage` on sample inputs |
| `ConsoleSafety` | 1 customer, 2 dispatchers, 2 providers of whom a form asks the best one, 2 quotes; symmetric in dispatchers and providers; 390,000 states | `StaleFormsDoNothingNew`, `SomebodyCanAct` |

Why the bounds are enough. Jobs do not share rows: no action reads one job to
write another, except a sweep, whose list of jobs to do is what `DispatchLoop`
has two jobs for. So safety is checked with one job and as much concurrency on it
as fits: two requests are every pair of racing handlers, against a sweep. Two
providers give every race for an award and every former holder; two quotes give a
quote request that comes late. One tick is enough for an offer and for a quote
to lapse while a request or a run still carries it (`OfferTtl = QuoteTtl = 1`);
In `DispatchSweep` offers lapse when they are made, so that rounds follow each other without
a clock, and no accept succeeds there; accepts, and jobs held while a run has
them on its list, are what `DispatchLoop` is for. `DispatchSweep` has rounds of one or
two, so that a round smaller than `PerRound` is undercounted: after a first offer and
two automatic rounds of one each, three are asked, the limit is spent, and it takes the fourth
provider for a round too many to have somebody to ask.

Payments of different jobs meet only in the order of a batch, which is free, so
one job is enough; it has at most one approved quote's message and one of its
outcome. Two workers are every pair of deliveries that overlap, and as each may
die, or outlive its lease, and start over, a message is delivered any number of
times. Two providers are needed for the one that fell through. In
`PaymentsSafety` the first failure is the last: a death or an outlived lease
already redelivers, and retries after a failure, in a batch, are what
`PaymentsRetry` has three attempts for. The attempts need no bound of their own:
`GivenUpAfterMaxAttempts` is one of the results, and with two workers an attempt
is counted only for a claim.

The memory store needs no second request, as its operations do not overlap; two
providers give a fallback and a successor, and a second fallback comes round the
cycle of the status table. Of the topics, `offer.declined` is one whose keys name the
occurrence, beside others of the same job, and `dispatch.escalated` one whose keys name
only the reason, and which is delivered, swept and used again; the rows of different
keys are independent, and the theorem `EventsAreHeard` is about all topics together.

Two requests under one key, with two bodies, are every overlap and every mix-up.
Records live two ticks, so that one can expire and be replaced while a second run
of retention, begun before, has still to delete. One piece of evidence is enough,
since the objects of a run are deleted independently; two runs may hold the same
one. Ticket and age of one tick, within a clock of three, let a PUT come at the
end of its ticket, a row grow old, and a run begin before another ends.

A ranking reads each provider by itself, so one provider and one ranking show every
interleaving of reads with changes; that several are ordered is the matter of
`RankIsTheSortedPlace` and of the theorems `RanksAreDistinct` and `RanksAreThePlaces`. Distances are 20 km
or an estimate, either side of what puts the provider in range.

Two dispatchers can price or offer at once, two providers race or succeed each
other, and two quotes are what a late price adds. With one place in a form for two
providers, the best may have been asked already while another is eligible.

The theorems of section 5 lift the bounds for all of the safety properties.

Deadlock is not checked in these runs (`CHECK_DEADLOCK FALSE`): the bounded clock
and a closed job leave states where nobody has anything to do.

Fairness. `FairSpec` of `Dispatch` assumes weak fairness of each sweeper's steps and nothing
else: `worker/main.ts` starts the sweep from `setInterval` for as long as the
worker lives, and the queries of a run return or fail. Nothing obliges a customer,
dispatcher or provider to send a request, and a request in flight may stop
anywhere. `SweepCrash` is not excluded by fairness; runs that assume sweeps do not die
say so with `SweepMayCrash = FALSE`, and section 4 says what happens when one does.
`FairSpec` of `Payments` assumes weak fairness of each worker's drain
(`OutboxWorker.start` polls for as long as the process lives, and catches what a
drain throws) and of the clock. A handler may fail every time and nobody has to
move a job. `MessagesSettle` needs that the worker does not die
(`WorkersMayDie = FALSE`): a death is not counted as an attempt, so a message that
kills its worker is tried for ever. `ExpiredJobsAreAttended` says that a job a run still has on its list,
without a live offer and with a lapsed one, stops being in that situation or has
been escalated. `FairSpec` of `Retention` assumes that a run that is due is begun, goes
on and ends: `worker/main.ts` runs retention when it starts and once a day. Runs may
die; strong fairness of `DeleteRows` says that they do not die for ever between
reading and deleting, a process that died being started again. Clients and the
clock are under no obligation.

## 4. Where the code and its documentation disagree

Each of the first three is refuted by a run, whose trace is the shortest way there.

1. **A late quote request reopens an assigned job** (`StaleQuoteRequest`,
   `routes/quotes.ts:46`). `POST /jobs/:id/quotes` checks TRIAGED and later calls
   `transitionJob(QUOTED)`, which the status table also allows from ASSIGNED and
   IN_PROGRESS. Two requests pass the check; one is quoted, approved, offered and
   accepted; the other then moves the job back to QUOTED. The assignment stays
   ACTIVE, so no offer can be accepted (the index refuses) and no fallback can
   release it (QUOTED to QUOTED is not an edge): only cancelling is left.
   `OneClaimant` still holds, thanks to the index.
2. **A hold after the release** (`LateAuthorisation`, `worker/payments.ts:151`).
   `release` returns when the ledger has no AUTHORISATION yet, and its message is
   delivered. If the approval is handled afterwards - its message was retried, or
   the quote was approved after the cancellation, which `decideQuote` does not look
   at - the hold is placed and nothing ever releases it.
3. **A proof that was never stored** (`ProofNeverStored`,
   `apps/web/lib/actions/provider.ts:108-117`). The confirmation is said to mean that the
   PUT succeeded; the console confirms also when the PUT failed by the network or
   with a 4xx. The row is UPLOADED, the job may be completed, and there is no object.

Met while modelling, and true of the models, but without a run of their own.

In dispatch:

- the sweep overwrites answers: an offer accepted or declined between the select and
  the update of `expireOffers` becomes EXPIRED (`store/prisma.ts:836`), while the
  interface says only PENDING offers do; a late decline overwrites in the same way.
  The assignment survives; the answer does not, and the payout reads it.
  `AnsweredStaysAnswered` forbids this to everybody but those who read the offer while
  it was open, and forbids anything to reopen it;
- a former holder starts, or completes, its successor's job (`routes/jobs.ts:168`): the
  comment asks for the current assignment and not a past one, but the holder is read
  before the transaction. No property here forbids it: `HeldHasHolder` says that
  somebody holds a running job, not that the caller does;
- two sweeps exceed the allowance of rounds (`lib/dispatch.ts:134`): `worker/main.ts`
  says several workers are safe because re-covering a covered job is skipped, but
  the check and the new offers are separate steps. `AutomaticRoundsBounded` gives
  each sweeper the allowance to itself;
- a sweep that dies strands its jobs (`lib/dispatch.ts:136`): the offers are expired first
  and the jobs to cover remembered only in memory; no later run finds a job that
  has no PENDING offer. Among the jobs whose offers all lapsed these are the only ones
  lost: `NobodyIsForgotten` says that without such a death none is;
- a job whose last live offer is *declined* is not on any sweep's list either
  (`lib/dispatch.ts:136`), although the comment says the sweep covers the jobs
  left uncovered;
- `automaticRoundsSoFar` divides offers by the size of a round: rounds that find
  fewer providers are under-counted (the comment at `lib/dispatch.ts:99` says
  rounds are counted, not providers), and a dispatcher's first round larger than
  one sweep round uses up the allowance it is said not to count against
  (`lib/dispatch.ts:101`). `AutomaticRoundsBounded` therefore states the bound
  the code keeps, `PerRound * MaxRounds` for each sweeper, which for one sweeper and
  rounds of one is `MaxRounds`. The undercount happens in `DispatchSweep`;
- `cover` and `POST /jobs/:id/offers` may create offers for a job assigned or
  cancelled since they looked. They are harmless: `acceptOffer` refuses them;
- `store/types.ts:373` and `routes/offers.ts:172` say that a fallback returns the
  job to TRIAGED; it returns it to QUOTED, as docs/adr/0001 decides.

In payments and the outbox:

- a provider is paid at another's price (`worker/payments.ts:123`): the amount is that of
  the first ACCEPTED offer of a list without an order, and the offer of a provider
  that fell through stays ACCEPTED. The payee is right (`PaidToTheHolder`), the
  amount need not be;
- a completion handled before the authorisation is delivered without a capture
  (`worker/payments.ts:94`), the twin of number 2: the work is never charged;
- with two workers a provider may stay unpaid although the customer was charged
  (`worker/payments.ts:94`): the first takes up the completion before there is a
  hold, finds nothing to do and outlives its lease; the second records the hold,
  takes up the completion again, captures, and dies before the payout; the first
  then marks the completion delivered, and nobody handles it again. TLC finds
  this in the instance of `PaymentsSafety` when asked for `CapturedIsPaidOut`; with one
  worker it cannot happen (`NobodyIsLeftUnpaid`);
- two workers, one of which outlived its lease, may append the same kind of entry
  twice, so a fold over the ledger counts the hold, capture or payout twice while
  the gateway did it once. `EntriesBoundedByWorkers` is the bound that is kept;
- a failure marked late on a row that another claim had given up puts it from DEAD
  back to FAILED (`store/prisma.ts:1017`);
- events are dropped by the key of an earlier one. `lib/outbox.ts:70-77` calls a
  missing message the wrong direction and puts the identifier in where there is
  doubt, but looks for a `round` and an `assignmentId` that the payloads do not have.
  While the row of the first is in the table, a later one of these gets no message: a
  round of offers, a fallback, the quoting of a job quoted before, the start by a
  successor, an escalation for the same reason. `MayBeUnsaid` names the five topics;
  `NothingGoesUnsaid` says that no event of another topic is dropped, and that no
  message is lost between its recording and its delivery.

In the in-memory store:

- an ACCEPT repeated after the deadline turns ACCEPTED into EXPIRED
  (`store/memory.ts:646-647`), which PostgreSQL rolls back; `store/memory.ts:36-37` says
  both stores follow the same state machine. What a late accept expires leaves
  no event, so no sweep covers the job again;
- `listJobs` starts over at the first page when the job of its cursor has left the
  filter; `markOutboxFailed` lacks the CHECK of the table.

In idempotency, evidence and retention:

- requests are not worked "at most once" (`plugins/idempotency.ts:29`): overlapping ones
  are both worked, and one cut off before its save is worked again.
  `RetriesDoNoWork` is about requests that were answered;
- the routes of quotes and offers check the job's status before they look the key up, so
  a retry of a request that moved the job is refused with 409 instead of replayed;
- the console's comment says a double submit replays (`apps/web/lib/api.ts:8-11`), but the
  key is a new UUID per call (line 56);
- the old rows are read outside the transaction that deletes them, not inside as
  `store/prisma.ts:1078-1081` says, so overlapping runs count the same evidence twice;
- a confirmation that was under way links an erased person again, and a second erasure
  finds the subject severed and unlinks nothing. `ErasedStayErased` bounds it to
  those confirmations. Nothing checks at a confirmation that the object exists.

In providers and ranking:

- the facts a provider was found eligible on need not have held at one moment, and a
  provider suspended while the ranking goes on is still offered work, which the
  comment at `routes/offers.ts:53-54` excludes. `EligibleOnRecentFacts` is what is kept;
- the review of a document does not look at its expiry and no job sets EXPIRED; what is
  past its date is refused by the ranking alone;
- `rankForJob` always asks for a SMALL_VAN (`lib/dispatch.ts:84`), whatever triage suggested.

In the console:

- a job whose only quote was rejected or lapsed is a dead end: no form prices it again
  and none cancels it, although `docs/audits/PHASE_3_FRONTEND.md:41` lists cancelling
  on the customer's page and `cancelJobAction` exists. `SomebodyCanAct` leaves
  these jobs out by `Unpriced`;
- a priced job may be a dead end too (`routes/offers.ts:81-89`): the form for offers is on the
  page, but if no provider is eligible the API refuses it (409 `NO_ELIGIBLE_PROVIDER`), and
  if the best-ranked five were all asked before it is accepted, shows its success, and
  creates no offer, although a sixth may be eligible: those asked are skipped
  after the list is cut, not before as in the sweep. `SomebodyCanAct` leaves such a
  job out by `NobodyLeft`, until the fleet changes;
- with two quotes, the page shows the price of the approved or else the last one,
  while its form decides the first that is SENT; a lapsed first quote hides the second;
- a member who may not decide quotes, and a former holder, are shown forms that the API
  refuses; the fallback form does not say which assignment it is about; a form
  sent again after a lost answer creates a second job.

## 5. Theorems

`DispatchProofs` proves, for any sets of jobs, providers, quotes, requests and
sweepers and any values of the other constants that satisfy
`DispatchAssumption` (`None` is neither a job nor a provider; the times and limits are
natural numbers; a round is not empty; `SweepMayCrash` is a Boolean):

| Theorem | Property |
|---|---|
| `TypeCorrect` | `TypeOK` |
| `JobHasOneClaimant` | `OneClaimant` |
| `HeldJobHasHolder` | `HeldHasHolder` |
| `DispatchNeedsAPrice` | `DispatchedAtAPrice` |
| `ProviderIsAwardedOnce` | `AwardedOnce` |
| `CompletionHasProof` | `CompletedWithProof` |
| `ClosedJobsAreFinal` | `ClosedJobsStayClosed` |
| `AnsweredOffersStayAnswered` | `AnsweredStaysAnswered` |
| `DispatchImplementsBrokerage` | `KeepsPromise` |
| `SweepAsksForAPerson` (finitely many providers and sweepers) | `AutomaticRoundsBounded` |
| `LapsedJobsAreRemembered` (no sweep dies: `~SweepMayCrash`) | `NobodyIsForgotten` |

The argument. `TypeOK` is inductive by itself; the proof has one step per action.
For the rest, some twenty actions change the rows of a job in only eight ways, and
`RowStep` lists them: nothing changes, a legal move of the status that does not
award, a quote changes without losing an approval, offers are closed or opened
for pairs without one on a priced job, an award, a fallback, an upload. The lemmas
`RowsOfRequests`, `RowsOfCalls` and `RowsOfSweeps` show, action by action, that
every step is one of these; the invariants are then proved over the eight kinds.

`IInv` is the inductive invariant:
`TypeOK /\ WritesAreGrounded /\ OneClaimant /\ HeldHasHolder /\ DispatchedAtAPrice /\ AwardedOnce /\ CompletedWithProof`.
The conjunct that is not a promise to anybody, and without which the others do not
go through, is `WritesAreGrounded`, stated in `DispatchProofs`: a decline or an expiry writes by id what it
read earlier, and only because the row it names is known to exist does that write
never create an offer on an unpriced job. `OneClaimant` alone is inductive because
of the index; `HeldHasHolder` needs it, as a fallback releases one claimant and
must thereby have released all. `AwardedOnce` is what makes an award start a new
assignment instead of reviving an old one, and the refinement proof uses it
together with `OneClaimant` and `DispatchedAtAPrice`.

`AnsweredStaysAnswered` needs a look at who may write an offer that is closed already
(`WhoOverwrites`): a decline in flight or a run whose list has it. Neither a new decline
nor a new list takes up an offer that is not `PENDING`, so once those that read
it open are through, nobody is left to write it.

The bound on the automatic rounds is a matter of counting. Each round of a job is
tagged with the sweeper that makes it and the number of providers that its run
counted as asked (`Made`). A round asks somebody who had not been asked when its
run looked, so the same sweeper counts more the next time: no tag occurs twice. A run offers again
only while it counts less than `PerRound * MaxRounds`, so there are at most that many
tags for each sweeper. What other sweepers and dispatchers offer in between
only adds to what is counted; that a run dies loses nothing but its own list.

`NobodyIsForgotten` says that a `QUOTED` job whose offers have all lapsed, which nobody ever
took and no person was told of, is on the list of some run that will ask for somebody
new: the job is still to cover, or the run is about to make a round and has seen everybody
who was asked. It is the safety half of `ExpiredJobsAreAttended`. Two sweeps may hold the
job at once, and one that looked before the other's round drops it without asking
anybody; the invariant survives because the offers of that round, when they lapse,
are marked by a run that has the job on its list from that step on. It is inductive together
with `IInv` and `NobodyAskedYet` (before its first quote nobody was asked about a job,
and nothing in flight is about to ask): without the latter a job could become `QUOTED`
with lapsed offers that no run marked. A job with a declined offer, or one that fell
through, is outside it, as section 4 says. With `SweepMayCrash` TRUE it is false: one
death after the marks, with the list, is enough.

`Brokerage` itself has two theorems, proved in its own module from its invariant (a
job has at most one claim, a claim only at an agreed price, and a job that is held
has one):

| Theorem | Establishes |
|---|---|
| `WorkIsHeldByOne` | an assigned, running or completed job has exactly one provider behind it, at an agreed price |
| `OnlyFallbackEndsClaims` | a provider loses its claim only by the fallback that reopens the job |

Every module that implements `Brokerage` has them without another induction: `DispatchProofs`,
`MemoryStoreProofs`, `ConsoleProofs` and, through `JobsKeepThePromise`, `PaymentsProofs` state
them of the code's own rows. So a job never passes from one provider to another
behind the dispatcher's back, in either store.

`PaymentsProofs` proves, for any sets of jobs, quotes and
providers, any finite set of workers, any
batch size and number of attempts (positive, by `OutboxAssumption`), workers that
may die or not, and `None` that is neither a job nor a provider
(`PaymentsAssumption`):

| Theorem | Property |
|---|---|
| `TypeCorrect` | `TypeOK` |
| `CaptureExcludesRelease` | `NeverCapturedAndReleased` |
| `CaptureNeedsCompletion` | `CapturedForCompletedWork` |
| `HolderIsPaid` | `PaidToTheHolder` |
| `GatewayFirst` | `LedgerFollowsGateway` |
| `DeliveryIsFinal` | `DeliveredStaysDelivered` |
| `EscrowIsKept` | `KeepsEscrow` |
| `EntriesAreBounded` | `EntriesBoundedByWorkers` |
| `GivenUpInTime` (one worker) | `GivenUpAfterMaxAttempts` |
| `OneIsPaidForWork` | of `Escrow`: money leaves for one provider, for completed work, and never after a release |
| `MoneyIsNeverUndone` | of `Escrow`: what was held, taken, paid or released is not undone |
| `DeliveredDecisionsAreHeld` | a decision that was delivered has its hold in the ledger |
| `NoPaymentIsLost` | a message is marked delivered only when the entry it is for is in the ledger, or by a worker that saw no hold |
| `NobodyIsLeftUnpaid` (one worker) | no completion is delivered between the capture and the payout |

The argument. Its centre is `NothingIsUndone`, proved of every step: a row of the
outbox, a hold, a capture, a kind of entry, a payout are never taken back, and a
completed or cancelled job keeps its status and its claims. So whatever a delivery
has read stays true while it, or a second delivery of the same message, acts on
it, and that is why no interleaving of workers has to be looked at: the step of
one worker keeps what stands behind the others (`BackingStays`). The inductive
invariant is `TypeOK /\ MessagesAreTrue /\ OneClaim /\ BooksAgree /\ WorkersAreBacked`:
a message in the outbox announces what is true for ever; a job has one claim, so
the payee read is the only one; ledger, gateway and job agree (`Books`); and each
stage of a handler has behind it what the next stage relies on. Type correctness
is not inductive alone: that a payout has a payee is a matter of the stage. For
the refinement, `FundsOfBooks` reads the state of the escrow off the books; an
append either advances it or repeats an entry.

How often an entry can be repeated is a matter of counting: `EntriesAreOwed` says
that the entries of a kind and the workers on their way to append one are
together no more than the workers. A worker sets out only while it sees no entry
of the kind, and as entries are never taken back there is none then; afterwards
each append turns a worker into an entry and nobody else sets out.

`GivenUpInTime` rests on `AttemptsCount`: an open row has been tried fewer times than
allowed and a dead one exactly as often, the attempts a worker goes by are those of
the row, and the message in hand is not also in the rest of its batch. With
several workers the second part fails, as an outlived lease makes a claim stale.

The theorems about delivery are about what at-least-once is worth: a message that
is ticked off is not handled again, so what its handler left undone stays undone.
`HandledRight` says of a handler in progress that what it saw is still in the ledger
and that, once it is done, so is the entry its message is for. The one way out
that the code has and the rule has not is `claims[j] = {}` in `ReadAssignment`, which
returns without a payout; `JobsKeepThePromise` closes it, for completed work has
a holder. `NobodyIsLeftUnpaid` adds what only a single worker can rely on
(`SeesTheHold`): a hold it did not see is not there, and a message in its hands is
not delivered by anybody else.

`MemoryStoreProofs` proves, for any sets of jobs, providers, quotes and any of the topics
(`MemoryStoreAssumption`, `FollowedAssumption`):

| Theorem | Property |
|---|---|
| `TypeCorrect` | `TypeOK` |
| `TimelinesExplain` | `HistoryExplainsStatus` |
| `EventsAreHeard` | `NothingGoesUnsaid` |
| `SightIsNeverLost` | `SightIsKept` |
| `MemoryStoreImplementsBrokerage` | `KeepsPromise` |
| `WorkIsHeldByOne` | of `Brokerage` |

Its invariant is `JobsAreExplained /\ OutboxIsSound /\ DispatchIsAgreed`, three parts
that each action is taken through separately: that the
timeline leads to the status; that index and rows agree and what is owed is in them; that a quote that can be decided is for a job, and offers exist only on jobs
with an agreed price. The last is what the refinement needs; that an award finds no
other claimant is the check `acceptOffer` makes in the same step.

`EventsAreHeard` rests on `Told`: what the key of a row says happened has happened, and
cannot happen again - a job leaves `DRAFT` once and ends once, a quote is decided once, an
offer is closed once (`StatusMoves`, `DecisionsAreFinal`, `ClosedOffersStayClosed`). So an event
of these topics never meets its own key in the index, and whatever does is one of the five
in `MayBeUnsaid`.

`RecordsProofs` proves, for any sets of keys, bodies, requests, evidence, persons and runs
(`IdempotencyAssumption`, `RetentionAssumption`):

| Theorem | Property |
|---|---|
| `TypeCorrect` | `TypeOK` |
| `NobodyGetsAnothersAnswer` | `AnswersMatchTheirRequest` |
| `AnsweredWorkIsNotRepeated` | `RetriesDoNoWork` |
| `NothingIsLeftUnnamed` | `NothingLeaksUnnamed` |
| `ErasureIsFinal` | `ErasedStayErased` |
| `RetentionTakesOnlyTheOld` | retention deletes no row before its age, and no object whose row is there |

The invariant of the keys adds that a record outlives every answer given from it: a
save only ever moves the expiry on, and retention goes by a time of its run that
has passed. That no object is left unnamed needs that no PUT comes after the row
has gone, which is the assumption `TicketTtl <= EvidenceAge`, a bound of the
configuration, and that what a run is about to delete are rows already old. That
an object goes only after its row is `RowsGoFirst`: a run that deletes objects deletes
those of rows it, or an overlapping run, has deleted before, and a deleted row does not
come back.

`ProvidersProofs` proves, for any providers, fleets, documents, rankings and distances
(`ProvidersAssumption`):

| Theorem | Property |
|---|---|
| `TypeCorrect` | `TypeOK` |
| `EligibilityIsRecent` | `EligibleOnRecentFacts` |
| `RoadsWereMeasured` | `RoadDistancesAreMeasured` |

Its invariant is `TypeOK /\ RankingShape /\ KnowledgeIsRecent /\ CacheIsMeasured /\ RoadDistancesAreMeasured`.
Every step leaves a ranking alone, begins it, ends it, or lets it learn one thing
that is true at that step and so was seen.

`ConsoleProofs` proves, for any customers, dispatchers and providers and any number of quotes
(`ConsoleAssumption`):

| Theorem | Property |
|---|---|
| `OldPagesDoNothingNew` | `StaleFormsDoNothingNew` |
| `SomebodyAlwaysCanAct` | `SomebodyCanAct` |
| `ConsoleImplementsBrokerage` | the forms of the console, old ones included, keep the promise of `Brokerage` |

Its invariant is `TypeOK /\ RowsFitTheJob /\ PagesAreInOrder`. A form names either a
status, which the API checks again, or a quote: what makes the old form about a
quote harmless is that a decided quote never reopens and a new one comes last, so
the first open quote of an old page, while still open, is the first open one now.
The refinement needs `DealsAreSound` besides: offers exist only on an approved price,
and one provider is active at most.

`RulesProofs` is about the operators, for all inputs of the ranges the schemas admit:

| Theorem | Establishes |
|---|---|
| `VatIsRoundedHalfUp` | VAT is the exact product rounded to the nearest cent, half a cent up |
| `QuoteFitsItsColumn` | the products of a quote are exact and its amounts fit their columns |
| `VatGrowsWithThePrice` | a dearer price does not carry less VAT |
| `LedgerBalances` | for a ledger of any length, what is held is what was captured less refunds and payouts |
| `OperationMovesItsAmounts` | each operation of the gateway changes its own amounts of the summary and no other |
| `SmallestVehicleIsSelected` | of any finite fleet with a suitable vehicle, the one selected is suitable and smaller than all other suitable ones |
| `RanksAreDistinct` | no two of the eligible have one rank, and the one that comes before has the smaller |
| `RanksAreThePlaces` | the ranks of the eligible are 1 up to their number |
| `MoreItemsNeedNoLess` | one more item never makes the suggested vehicle or crew smaller |
| `HeavierLoadNeverGetsSmallerVehicle` | the suggested vehicle grows with the load |
| `AnswersAreValid` | whatever a model replies, the answer fits the schema and asks for a person |
| `OnlyOwnJobsAreInScope` | who is not staff sees jobs of an organisation or provider it belongs to, and no other |
| `RolesStayAtHome` | a role counts only in the tenant it was given for |

Sums, places and smallest elements are inductions, and an induction theorem that
takes a predicate cannot be instantiated here. `RulesProofs` does without: a set of
numbers that is not empty has a least element (`LeastNatural`, from the
well-foundedness of `<`), so a set that has 0 and the successor of each of its numbers has
them all (`InductionOverNat`), and each induction is over such a set. `Totals` writes the
sum of a list as a recursive function for that purpose.

The theorems without a property of a run state what the runs do not:
`WorkHasOneHolder`, `ClaimsEndByFallback`, `PaidForWork`, `NothingIsUndone` follow from the refinements the runs
check; `DecisionsAreHeld`, `DeliveredMeansRecorded`, `CapturedIsPaidOut` and `YoungEvidenceIsKept`
are defined beside their proofs and hold on the instances of `PaymentsSafety`
(`CapturedIsPaidOut` with one worker) and `RecordsSafety`.

Only model-checked: `LapsedOffersExpire`, `ExpiredJobsAreAttended`,
`MessagesSettle`, `OldEvidenceGoes`, which are liveness under fairness and out of the
prover's reach. Only evaluated on small inputs: `BreakdownAddsUp`, `FinishedJobAddsUp`
and the equality of a rank with the place in the list that the code sorts
(`RankIsTheSortedPlace`), since sorting is recursive; that the ranks are distinct and leave no place
empty is proved.

## 6. Not modelled

- Notifications: templates, languages and senders. That a notification handler may
  throw is in `Payments` as `HandlerFails`.
- Metrics, health, OpenAPI, configuration, request logging and the wiring of the
  server: they report or assemble, and decide nothing about the rows.
- The verification of tokens, rate limits and CORS: libraries with configuration.
- The registry, evidence, lists and pages of the in-memory store, and the lists and
  cursors of the PostgreSQL store: reads and plain inserts.
- The prices of quotes within `Dispatch`: no condition of dispatch reads them; their
  arithmetic is `Money`.
- The geocoding cache: one entry per postal code, kept by the rule of the route cache.
- Sign-in, onboarding, profile and the messages of the console, its styling and its
  translations.
- Migrations as such: the constraints and triggers they create are guards of the
  actions that meet them.

What could still be added: `Dispatch` with two tenants, to compose `Tenancy` with the
handlers; the notifying topics over PostgreSQL, as `MemoryStore` has them; the
gateway's refunds once a handler calls them.
