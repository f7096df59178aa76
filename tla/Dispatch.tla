------------------------------- MODULE Dispatch -------------------------------
(***************************************************************************)
(* The dispatch core of the RESCUE API over PostgreSQL: jobs, quotes,      *)
(* offers, assignments and the periodic sweep (store/prisma.ts, routes/    *)
(* {jobs,quotes,offers}.ts, lib/dispatch.ts).                              *)
(*                                                                         *)
(* Granularity.  A Serializable transaction (transitionJob, decideQuote,   *)
(* acceptOffer, fallbackAssignment) is one step.  declineOffer and         *)
(* expireOffers run at the default READ COMMITTED level and write rows     *)
(* they selected earlier by id alone, so each is a read step and a write   *)
(* step.  A handler that awaits several store calls is one step per call;  *)
(* what it carries from one to the next is in call or in sweep.            *)
(***************************************************************************)
EXTENDS JobStatus, Naturals, FiniteSets

CONSTANTS
  Jobs, Providers, Quotes,
  Threads,       \* API requests that may be in flight at once
  Sweepers,      \* sweep runs in progress at once: one per worker, one more when a
                 \* run outlasts the timer's interval, and the admin endpoint's
  None,          \* no job, no provider
  OfferTtl,      \* the life of an offer, in clock ticks
  QuoteTtl,      \* the life of a quote, in clock ticks
  PerRound,      \* SweepConfig.providersPerRound
  MaxRounds,     \* SweepConfig.maxRounds
  MaxTime,       \* bound: the last tick of the clock
  SweepMayCrash  \* may a sweep run end half-way (process death, failed query)?

ASSUME DispatchAssumption ==
  /\ None \notin Jobs \cup Providers
  /\ {OfferTtl, QuoteTtl, MaxRounds, MaxTime} \subseteq Nat
  /\ PerRound \in Nat \ {0}
  /\ SweepMayCrash \in BOOLEAN

VARIABLES
  job,         \* status of each job row, "ABSENT" before createJob
  quote,       \* the quote rows
  offer,       \* status of the offer row of (job, provider): unique per pair
  expiresAt,   \* deadline of that offer
  assignment,  \* status of the assignment of (job, provider)
  proof,       \* has an upload of evidence been confirmed for the job?
  escalated,   \* reasons of the DISPATCH_ESCALATED events of the job
  autoRounds,  \* how many rounds of offers the sweep has created for the job
  now,         \* the clock
  call,        \* what each API request in flight has read so far
  sweep        \* what each sweep run in progress has read so far

vars == <<job, quote, offer, expiresAt, assignment, proof, escalated,
          autoRounds, now, call, sweep>>

-------------------------------------------------------------------------------
(* Types *)

QuoteStatuses  == {"NONE", "SENT", "APPROVED", "REJECTED"}
OfferStatuses  == {"NONE", "PENDING", "ACCEPTED", "DECLINED", "EXPIRED", "WITHDRAWN"}
AssignStatuses == {"NONE", "ACTIVE", "FELL_THROUGH"}
Reasons        == {"MAX_ROUNDS_REACHED", "NO_ELIGIBLE_PROVIDER_LEFT"}

QuoteRow == [job : Jobs \cup {None}, status : QuoteStatuses, validUntil : Nat]

CallStages ==
  {"idle", "quote", "quoted", "offers", "accept", "decline",
   "start", "complete", "fallback"}
Call == [at : CallStages, job : Jobs \cup {None}, prov : Providers \cup {None}, now : Nat]

SweepStages == {"idle", "expire", "cover", "assignment", "offers", "reoffer"}
Sweep == [at : SweepStages, due : SUBSET (Jobs \X Providers), todo : SUBSET Jobs,
          job : Jobs \cup {None}, asked : SUBSET Providers]

Idle     == [at |-> "idle", job |-> None, prov |-> None, now |-> 0]
Resting  == [at |-> "idle", due |-> {}, todo |-> {}, job |-> None, asked |-> {}]
NoQuote  == [job |-> None, status |-> "NONE", validUntil |-> 0]

TypeOK ==
  /\ job \in [Jobs -> Statuses \cup {"ABSENT"}]
  /\ quote \in [Quotes -> QuoteRow]
  /\ offer \in [Jobs -> [Providers -> OfferStatuses]]
  /\ expiresAt \in [Jobs -> [Providers -> Nat]]
  /\ assignment \in [Jobs -> [Providers -> AssignStatuses]]
  /\ proof \in [Jobs -> BOOLEAN]
  /\ escalated \in [Jobs -> SUBSET Reasons]
  /\ autoRounds \in [Jobs -> Nat]
  /\ now \in Nat
  /\ call \in [Threads -> Call]
  /\ sweep \in [Sweepers -> Sweep]

-------------------------------------------------------------------------------
(* Reads *)

Active(j) == {p \in Providers : assignment[j][p] = "ACTIVE"}
Asked(j) == {p \in Providers : offer[j][p] # "NONE"}
Open(j) == {p \in Providers : offer[j][p] = "PENDING"}
Approved(j) == \E q \in Quotes : quote[q].job = j /\ quote[q].status = "APPROVED"
Lapsed == {jp \in Jobs \X Providers :
             /\ offer[jp[1]][jp[2]] = "PENDING"
             /\ expiresAt[jp[1]][jp[2]] <= now}

\* quotes.some(status = APPROVED), as the fan-out and the sweep check it.
PriceCheckAnyQuote(j) == \E q \in Quotes : quote[q].job = j
PriceCheck(j) == Approved(j)

\* A live offer is still outstanding, as the sweep checks it.
StillOutUnlessDeclined(j) == \E p \in Providers : offer[j][p] \notin {"NONE", "DECLINED"}
StillOut(j) == Open(j) # {}

\* The offers expireOffers selects.
DueOnQuotedJobs == {jp \in Lapsed : job[jp[1]] = "QUOTED"}
Due == Lapsed

\* automaticRoundsSoFar: a count of offers, divided by the size of a round.
AutomaticRounds(offerCount) ==
  LET rounds == (offerCount + PerRound - 1) \div PerRound
  IN  IF rounds = 0 THEN 0 ELSE rounds - 1

SpentOneLate(offerCount) == AutomaticRounds(offerCount) > MaxRounds
Spent(offerCount) == AutomaticRounds(offerCount) >= MaxRounds

(* Parts of actions *)

SetJob(j, to) == job' = [job EXCEPT ![j] = to]
Answer(t) == call' = [call EXCEPT ![t] = Idle]
Proceed(t, stage, j, p) ==
  call' = [call EXCEPT ![t] = [at |-> stage, job |-> j, prov |-> p, now |-> now]]

PutOffers(j, fresh) ==
  /\ offer' = [offer EXCEPT ![j] =
                 [p \in Providers |-> IF p \in fresh THEN "PENDING" ELSE offer[j][p]]]
  /\ expiresAt' = [expiresAt EXCEPT ![j] =
                 [p \in Providers |-> IF p \in fresh THEN now + OfferTtl
                                                     ELSE expiresAt[j][p]]]

\* createOffers: a pair that already has an offer, alive or dead, is skipped.
CreateOffersAgain(j, ps) == PutOffers(j, ps)
CreateOffers(j, ps) == PutOffers(j, {p \in ps : offer[j][p] = "NONE"})

\* transitionJob: the only check is the status table.
TransitionJob(j, to) ==
  /\ CanTransition(job[j], to)
  /\ SetJob(j, to)

dispatchRows == <<quote, offer, expiresAt, assignment, proof, escalated, autoRounds>>

-------------------------------------------------------------------------------
Init ==
  /\ job = [j \in Jobs |-> "ABSENT"]
  /\ quote = [q \in Quotes |-> NoQuote]
  /\ offer = [j \in Jobs |-> [p \in Providers |-> "NONE"]]
  /\ expiresAt = [j \in Jobs |-> [p \in Providers |-> 0]]
  /\ assignment = [j \in Jobs |-> [p \in Providers |-> "NONE"]]
  /\ proof = [j \in Jobs |-> FALSE]
  /\ escalated = [j \in Jobs |-> {}]
  /\ autoRounds = [j \in Jobs |-> 0]
  /\ now = 0
  /\ call = [t \in Threads |-> Idle]
  /\ sweep = [s \in Sweepers |-> Resting]

-------------------------------------------------------------------------------
(* Requests that are one transaction *)

CreateJob(j) ==
  /\ job[j] = "ABSENT"
  /\ SetJob(j, "DRAFT")
  /\ UNCHANGED <<dispatchRows, now, call, sweep>>

\* A dispatcher approves the triage assessment.
TriageJob(j) ==
  /\ TransitionJob(j, "TRIAGED")
  /\ UNCHANGED <<dispatchRows, now, call, sweep>>

\* Cancellation by the customer or a dispatcher.  The assignment of a cancelled
\* job stays ACTIVE, its offers and quotes stay open.
CancelJob(j) ==
  /\ TransitionJob(j, "CANCELLED")
  /\ UNCHANGED <<dispatchRows, now, call, sweep>>

DecideOrExpireQuote(q, status) ==
  /\ quote[q].status = "SENT"
  /\ quote' = [quote EXCEPT ![q].status =
                 IF quote[q].validUntil > now THEN status ELSE "EXPIRED"]
  /\ UNCHANGED <<job, offer, expiresAt, assignment, proof, escalated, autoRounds,
                 now, call, sweep>>

\* The customer's decision.  The job's status is not consulted and does not
\* move.  A quote past validUntil is refused, and the EXPIRED status written
\* first is rolled back with the transaction.
DecideQuote(q, status) ==
  /\ status \in {"APPROVED", "REJECTED"}
  /\ quote[q].status = "SENT"
  /\ quote[q].validUntil > now
  /\ quote' = [quote EXCEPT ![q].status = status]
  /\ UNCHANGED <<job, offer, expiresAt, assignment, proof, escalated, autoRounds,
                 now, call, sweep>>

\* An upload is confirmed: by staff for any job, so in any status.
UploadEvidence(j) ==
  /\ job[j] # "ABSENT"
  /\ ~proof[j]
  /\ proof' = [proof EXCEPT ![j] = TRUE]
  /\ UNCHANGED <<job, quote, offer, expiresAt, assignment, escalated, autoRounds,
                 now, call, sweep>>

WorkRecordedUnproved(j, to) == to \in {"IN_PROGRESS", "COMPLETED"} /\ TransitionJob(j, to)

\* Completion additionally needs an uploaded piece of evidence.  An upload is
\* never taken back (only retention removes its row, much later), so its read
\* and the transition are one step here.
WorkRecorded(j, to) ==
  /\ to \in {"IN_PROGRESS", "COMPLETED"}
  /\ to = "COMPLETED" => proof[j]
  /\ TransitionJob(j, to)

ReleaseOnly(j) ==
  \E p \in Active(j) :
    /\ CanTransition(job[j], "QUOTED")
    /\ assignment' = [assignment EXCEPT ![j][p] = "FELL_THROUGH"]
    /\ UNCHANGED job

FallbackUnchecked(j) ==
  \E p \in Active(j) :
    /\ SetJob(j, "QUOTED")
    /\ assignment' = [assignment EXCEPT ![j][p] = "FELL_THROUGH"]

\* fallbackAssignment: releases whichever assignment is active and reopens the job.
FallbackAssignment(j) ==
  \E p \in Active(j) :
    /\ TransitionJob(j, "QUOTED")
    /\ assignment' = [assignment EXCEPT ![j][p] = "FELL_THROUGH"]

StaffWork(j, to) ==
  /\ WorkRecorded(j, to)
  /\ UNCHANGED <<dispatchRows, now, call, sweep>>

StaffFallback(j) ==
  /\ FallbackAssignment(j)
  /\ UNCHANGED <<quote, offer, expiresAt, proof, escalated, autoRounds, now, call, sweep>>

-------------------------------------------------------------------------------
(* Requests of several steps *)

\* POST /jobs/:id/quotes: the status check, createQuote, and transitionJob are
\* a read and two transactions.
BeginQuote(t, j) ==
  /\ call[t] = Idle
  /\ job[j] = "TRIAGED"
  /\ Proceed(t, "quote", j, None)
  /\ UNCHANGED <<job, dispatchRows, now, sweep>>

CreateQuote(t, q) ==
  /\ call[t].at = "quote"
  /\ quote[q] = NoQuote
  /\ quote' = [quote EXCEPT ![q] =
                 [job |-> call[t].job, status |-> "SENT", validUntil |-> now + QuoteTtl]]
  /\ call' = [call EXCEPT ![t].at = "quoted"]
  /\ UNCHANGED <<job, offer, expiresAt, assignment, proof, escalated, autoRounds, now, sweep>>

MarkQuoted(t) ==
  /\ call[t].at = "quoted"
  /\ TransitionJob(call[t].job, "QUOTED")
  /\ Answer(t)
  /\ UNCHANGED <<dispatchRows, now, sweep>>

\* POST /jobs/:id/offers: the job is read QUOTED first.  The approved quote is
\* read later, the ranking after it; an approval is final, so that read, the
\* ranking (any non-empty set of providers) and createOffers are one step.
BeginOffers(t, j) ==
  /\ call[t] = Idle
  /\ job[j] = "QUOTED"
  /\ Proceed(t, "offers", j, None)
  /\ UNCHANGED <<job, dispatchRows, now, sweep>>

FanOut(t) ==
  /\ call[t].at = "offers"
  /\ PriceCheck(call[t].job)
  /\ \E eligible \in SUBSET Providers :
       /\ eligible # {}
       /\ CreateOffers(call[t].job, eligible)
  /\ Answer(t)
  /\ UNCHANGED <<job, quote, assignment, proof, escalated, autoRounds, now, sweep>>

\* POST /offers/:offerId/response, ACCEPT: the clock is read before the
\* transaction starts.  Eligibility is not looked at again.  An offer that is
\* not PENDING now will never be, so its request would only be refused.
BeginAccept(t, j, p) ==
  /\ call[t] = Idle
  /\ offer[j][p] = "PENDING"
  /\ Proceed(t, "accept", j, p)
  /\ UNCHANGED <<job, dispatchRows, now, sweep>>

JobOpenByStatus(j) == CanTransition(job[j], "ASSIGNED")
JobOpenByIndex(j) == Active(j) = {}

\* The guards of acceptOffer on the job: the table's edge, and the partial
\* unique index on active assignments.
JobOpen(j) == JobOpenByStatus(j) /\ JobOpenByIndex(j)

AcceptOffer(t) ==
  LET j == call[t].job
      p == call[t].prov
  IN  /\ call[t].at = "accept"
      /\ offer[j][p] = "PENDING"
      /\ expiresAt[j][p] > call[t].now
      /\ JobOpen(j)
      /\ SetJob(j, "ASSIGNED")
      /\ assignment' = [assignment EXCEPT ![j][p] = "ACTIVE"]
      /\ offer' = [offer EXCEPT ![j] =
                     [r \in Providers |-> IF r = p THEN "ACCEPTED"
                                          ELSE IF offer[j][r] = "PENDING" THEN "WITHDRAWN"
                                          ELSE offer[j][r]]]
      /\ Answer(t)
      /\ UNCHANGED <<quote, expiresAt, proof, escalated, autoRounds, now, sweep>>

BeginDeclineAtAnyTime(t, j, p) ==
  /\ call[t] = Idle
  /\ offer[j][p] # "NONE"
  /\ Proceed(t, "decline", j, p)
  /\ UNCHANGED <<job, dispatchRows, now, sweep>>

\* DECLINE: the offer is read PENDING, then updated by id alone.
BeginDecline(t, j, p) ==
  /\ call[t] = Idle
  /\ offer[j][p] = "PENDING"
  /\ Proceed(t, "decline", j, p)
  /\ UNCHANGED <<job, dispatchRows, now, sweep>>

DeclineOffer(t) ==
  /\ call[t].at = "decline"
  /\ offer' = [offer EXCEPT ![call[t].job][call[t].prov] = "DECLINED"]
  /\ Answer(t)
  /\ UNCHANGED <<job, quote, expiresAt, assignment, proof, escalated, autoRounds, now, sweep>>

\* A provider's start, complete or fallback: first its active assignment is
\* read, then the transaction runs, which does not look at the caller again.
BeginProviderWork(t, stage, j, p) ==
  /\ stage \in {"start", "complete", "fallback"}
  /\ call[t] = Idle
  /\ assignment[j][p] = "ACTIVE"
  /\ Proceed(t, stage, j, p)
  /\ UNCHANGED <<job, dispatchRows, now, sweep>>

ProviderWork(t) ==
  /\ \/ call[t].at = "start" /\ WorkRecorded(call[t].job, "IN_PROGRESS")
     \/ call[t].at = "complete" /\ WorkRecorded(call[t].job, "COMPLETED")
  /\ Answer(t)
  /\ UNCHANGED <<dispatchRows, now, sweep>>

ProviderFallback(t) ==
  /\ call[t].at = "fallback"
  /\ FallbackAssignment(call[t].job)
  /\ Answer(t)
  /\ UNCHANGED <<quote, offer, expiresAt, proof, escalated, autoRounds, now, sweep>>

\* The request ends with no further effect: a guard of its transaction refuses
\* (404, 409), a constraint or a serialization failure aborts it (409, 500), or
\* its process dies.
CallEnds(t) ==
  /\ call[t] # Idle
  /\ Answer(t)
  /\ UNCHANGED <<job, dispatchRows, now, sweep>>

-------------------------------------------------------------------------------
(* DispatchSweep.run *)

Covering(todo) ==
  [at |-> "cover", due |-> {}, todo |-> todo, job |-> None, asked |-> {}]

\* The rest of the run after one job was covered or skipped.
SweepOnlyFirst(s, todo) == sweep' = [sweep EXCEPT ![s] = Resting]
SweepOn(s, todo) ==
  sweep' = [sweep EXCEPT ![s] = IF todo = {} THEN Resting ELSE Covering(todo)]

\* The clock is read and expireOffers selects the lapsed offers.  A run that
\* finds none changes nothing.
BeginSweep(s) ==
  /\ sweep[s] = Resting
  /\ Due # {}
  /\ sweep' = [sweep EXCEPT ![s] = [Resting EXCEPT !.at = "expire", !.due = Due]]
  /\ UNCHANGED <<job, dispatchRows, now, call>>

\* ... and marks them, by id alone: a row answered since is overwritten.
ExpireOffers(s) ==
  LET due == sweep[s].due
  IN  /\ sweep[s].at = "expire"
      /\ offer' = [j \in Jobs |-> [p \in Providers |->
                     IF <<j, p>> \in due THEN "EXPIRED" ELSE offer[j][p]]]
      /\ sweep' = [sweep EXCEPT ![s] =
                     Covering({j \in Jobs : \E p \in Providers : <<j, p>> \in due})]
      /\ UNCHANGED <<job, quote, expiresAt, assignment, proof, escalated, autoRounds, now, call>>

\* cover(jobId), read by read: the job ...
CoverJob(s, j) ==
  /\ sweep[s].at = "cover"
  /\ j \in sweep[s].todo
  /\ IF job[j] = "QUOTED"
     THEN sweep' = [sweep EXCEPT ![s].at = "assignment", ![s].job = j, ![s].todo = @ \ {j}]
     ELSE SweepOn(s, sweep[s].todo \ {j})
  /\ UNCHANGED <<job, dispatchRows, now, call>>

\* ... its active assignment ...
CoverAssignment(s) ==
  /\ sweep[s].at = "assignment"
  /\ IF Active(sweep[s].job) = {}
     THEN sweep' = [sweep EXCEPT ![s].at = "offers"]
     ELSE SweepOn(s, sweep[s].todo)
  /\ UNCHANGED <<job, dispatchRows, now, call>>

\* ... and its offers.
CoverOffers(s) ==
  LET j == sweep[s].job
  IN  /\ sweep[s].at = "offers"
      /\ IF StillOut(j)
         THEN SweepOn(s, sweep[s].todo)
         ELSE sweep' = [sweep EXCEPT ![s].at = "reoffer", ![s].asked = Asked(j)]
      /\ UNCHANGED <<job, dispatchRows, now, call>>

EscalateUnlessSpent(j, reason) ==
  /\ escalated' = [escalated EXCEPT ![j] = @ \cup ({reason} \ {"MAX_ROUNDS_REACHED"})]
  /\ UNCHANGED <<offer, expiresAt, autoRounds>>

\* The approved quote is read; an approval is final, so the read is one step
\* with what follows: a new round for providers not asked before, or an
\* escalation to a person.  The ranking is any set of providers.
Escalate(j, reason) ==
  /\ escalated' = [escalated EXCEPT ![j] = @ \cup {reason}]
  /\ UNCHANGED <<offer, expiresAt, autoRounds>>

Reoffer(s) ==
  LET j == sweep[s].job
      spent == Spent(Cardinality(sweep[s].asked))
  IN  /\ sweep[s].at = "reoffer"
      /\ \/ /\ ~PriceCheck(j)
            /\ UNCHANGED <<offer, expiresAt, escalated, autoRounds>>
         \/ PriceCheck(j) /\ spent /\ Escalate(j, "MAX_ROUNDS_REACHED")
         \/ PriceCheck(j) /\ ~spent /\ Escalate(j, "NO_ELIGIBLE_PROVIDER_LEFT")
         \/ /\ PriceCheck(j) /\ ~spent
            /\ \E next \in SUBSET (Providers \ sweep[s].asked) :
                 /\ next # {}
                 /\ Cardinality(next) <= PerRound
                 /\ CreateOffers(j, next)
            /\ autoRounds' = [autoRounds EXCEPT ![j] = @ + 1]
            /\ UNCHANGED escalated
      /\ SweepOn(s, sweep[s].todo)
      /\ UNCHANGED <<job, quote, assignment, proof, now, call>>

SweepCrash(s) ==
  /\ SweepMayCrash
  /\ sweep[s] # Resting
  /\ sweep' = [sweep EXCEPT ![s] = Resting]
  /\ UNCHANGED <<job, dispatchRows, now, call>>

Tick ==
  /\ now < MaxTime
  /\ now' = now + 1
  /\ UNCHANGED <<job, dispatchRows, call, sweep>>

-------------------------------------------------------------------------------
RequestStep ==
  \/ \E j \in Jobs :
       \/ CreateJob(j) \/ TriageJob(j) \/ CancelJob(j)
       \/ UploadEvidence(j) \/ StaffFallback(j)
       \/ \E to \in Statuses : StaffWork(j, to)
  \/ \E q \in Quotes, status \in QuoteStatuses : DecideQuote(q, status)

CallStep(t) ==
  \/ \E j \in Jobs : BeginQuote(t, j) \/ BeginOffers(t, j)
  \/ \E q \in Quotes : CreateQuote(t, q)
  \/ MarkQuoted(t) \/ FanOut(t)
  \/ \E j \in Jobs, p \in Providers :
       \/ BeginAccept(t, j, p) \/ BeginDecline(t, j, p)
       \/ \E stage \in CallStages : BeginProviderWork(t, stage, j, p)
  \/ AcceptOffer(t) \/ DeclineOffer(t)
  \/ ProviderWork(t) \/ ProviderFallback(t)
  \/ CallEnds(t)

SweepStep(s) ==
  \/ BeginSweep(s) \/ ExpireOffers(s)
  \/ \E j \in Jobs : CoverJob(s, j)
  \/ CoverAssignment(s) \/ CoverOffers(s) \/ Reoffer(s)

Next ==
  \/ RequestStep
  \/ \E t \in Threads : CallStep(t)
  \/ \E s \in Sweepers : SweepStep(s) \/ SweepCrash(s)
  \/ Tick

Spec == Init /\ [][Next]_vars

\* The worker's timer runs the sweep for ever, and the awaited queries of a run
\* return; nobody is obliged to send a request.
FairSpec == Spec /\ \A s \in Sweepers : WF_vars(SweepStep(s))

-------------------------------------------------------------------------------
(* Safety *)

\* Two providers accepting at the same instant, a fallback racing an accept, a
\* stale quote request reopening the job: never two active assignments.
OneClaimant == \A j \in Jobs : \A p, r \in Active(j) : p = r

\* A job shown as assigned, in progress or completed has somebody behind it:
\* no interleaving of handlers releases the provider and keeps the status.
HeldHasHolder == \A j \in Jobs : job[j] \in Held => Active(j) # {}

\* ADR 0001: nobody is offered or given a job without a price the customer
\* approved, whichever of the dispatcher and the sweep made the offers.
DispatchedAtAPrice ==
  \A j \in Jobs :
    (\E p \in Providers : offer[j][p] # "NONE" \/ assignment[j][p] # "NONE") => Approved(j)

\* A provider that holds or held a job has no live offer on it, so it cannot
\* be awarded the job a second time and overwrite the record of the first.
AwardedOnce ==
  \A j \in Jobs, p \in Providers :
    assignment[j][p] # "NONE" => offer[j][p] \notin {"NONE", "PENDING"}

\* The sweep asks for a person after a bounded number of rounds.  The bound of
\* one sweeping process is PerRound * MaxRounds, not MaxRounds, since rounds are
\* derived from offers; and each process has it to itself, since what a run has
\* read is old when it makes its offers.
AllowedRounds == Cardinality(Sweepers) * (PerRound * MaxRounds)

AutomaticRoundsBounded == \A j \in Jobs : autoRounds[j] <= AllowedRounds

\* Completion is never recorded without uploaded proof.
CompletedWithProof == \A j \in Jobs : job[j] = "COMPLETED" => proof[j]

\* A finished or cancelled job keeps its status and its assignments, although
\* its last assignment stays ACTIVE and its offers may stay open.
ClosedJobsStayClosed ==
  [][\A j \in Jobs : job[j] \in Terminal =>
       job'[j] = job[j] /\ assignment'[j] = assignment[j]]_vars

\* Everybody asked let the offer lapse, nobody ever took the job, and no person
\* was told.
RunOut(j) ==
  /\ job[j] = "QUOTED"
  /\ escalated[j] = {}
  /\ Asked(j) # {}
  /\ \A p \in Providers : offer[j][p] \in {"NONE", "EXPIRED"} /\ assignment[j][p] = "NONE"

\* A run that has the job still to cover, and will ask for somebody new.
Remembers(w, j) ==
  \/ w.at # "expire" /\ j \in w.todo
  \/ w.at \in {"assignment", "offers"} /\ w.job = j
  \/ w.at = "reoffer" /\ w.job = j /\ w.asked = Asked(j)

\* As long as no run dies half-way, a job whose offers all lapsed is on the list
\* of a run that will ask somebody new or call a person.  No later run would find
\* it, as it has no open offer; and of two runs that cover it at once, the one
\* that looked before the other's round drops it.
NobodyIsForgotten ==
  \A j \in Jobs : RunOut(j) => \E s \in Sweepers : Remembers(sweep[s], j)

\* The requests and the runs that read an offer PENDING and write it by its id.
BeingDeclined(j, p) ==
  \E t \in Threads : call[t].at = "decline" /\ call[t].job = j /\ call[t].prov = p
BeingExpired(j, p) == \E s \in Sweepers : <<j, p>> \in sweep[s].due

Closed(j, p) == offer[j][p] \notin {"NONE", "PENDING"}

\* An offer that was answered, expired or withdrawn is never open again: a later
\* round of the dispatcher or the sweep skips its provider.  The answer itself can
\* be overwritten, but only with DECLINED or EXPIRED, and only by whoever read the
\* offer before it was closed: once they are through, it is final.
AnsweredStaysAnswered ==
  [][\A j \in Jobs, p \in Providers : Closed(j, p) =>
       /\ \/ offer'[j][p] = offer[j][p]
          \/ offer'[j][p] = "DECLINED" /\ BeingDeclined(j, p)
          \/ offer'[j][p] = "EXPIRED" /\ BeingExpired(j, p)
       /\ BeingDeclined(j, p)' => BeingDeclined(j, p)
       /\ BeingExpired(j, p)' => BeingExpired(j, p)]_vars

-------------------------------------------------------------------------------
(* Liveness, under FairSpec *)

Uncovered(j) ==
  /\ job[j] = "QUOTED"
  /\ Approved(j)
  /\ Active(j) = {}
  /\ Open(j) = {}
  /\ \E p \in Providers : offer[j][p] = "EXPIRED"

Attended(j) == ~Uncovered(j) \/ escalated[j] # {}

\* An offer past its deadline does not stay open.
LapsedOffersExpire ==
  \A j \in Jobs, p \in Providers : (<<j, p>> \in Lapsed) ~> (<<j, p>> \notin Lapsed)

\* A job whose last open offers a run expired is offered again or escalated.
ExpiredJobsAreAttended ==
  \A j \in Jobs :
    (Uncovered(j) /\ \E s \in Sweepers : j \in sweep[s].todo) ~> Attended(j)

-------------------------------------------------------------------------------
(* What the documentation says and the interleavings do not keep, refuted by *)
(* a run of its own.                                                         *)

\* docs/ARCHITECTURE.md: an assigned job goes back to QUOTED by provider
\* fallback, which releases the provider.
ReopenedIsReleased == \A j \in Jobs : job[j] = "QUOTED" => Active(j) = {}

-------------------------------------------------------------------------------
(* Dispatch keeps the promise of Brokerage *)

AgreedMap == {j \in Jobs : Approved(j)}
ClaimsMap == [j \in Jobs |-> Active(j)]

Promise == INSTANCE Brokerage WITH status <- job, agreed <- AgreedMap, claims <- ClaimsMap

KeepsPromise == Promise!Spec
=============================================================================
