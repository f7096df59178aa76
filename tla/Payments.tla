------------------------------ MODULE Payments ------------------------------
(***************************************************************************)
(* Money, driven from the outbox (worker/payments.ts, lib/payments.ts):    *)
(* the three payment handlers over the deliveries of Outbox, an append-    *)
(* only ledger, and a gateway that is idempotent on its keys.              *)
(*                                                                         *)
(* The jobs are those of Brokerage, which Dispatch implements: whatever    *)
(* interleaving of requests moves a job is one of its steps, here with the *)
(* message its event puts in the outbox.  A handler reads the ledger,      *)
(* calls the gateway and appends to the ledger in separate steps, may fail *)
(* at each, and runs again.  Topics that only notify somebody are left out.*)
(***************************************************************************)
EXTENDS Outbox

CONSTANTS Providers

ASSUME PaymentsAssumption ==
  /\ None \notin Providers \cup Jobs
  /\ IsFiniteSet(Workers)

VARIABLES
  status, agreed, claims,  \* the jobs, as in Brokerage
  triaged,   \* the jobs that were TRIAGED at some time, so may have quotes
  won,       \* the providers whose offer on the job is ACCEPTED
  ledger,    \* how many entries of each kind the job has
  held,      \* gateway: jobs with a hold on the customer's card
  captured,  \* gateway: jobs whose hold was taken
  paid       \* gateway: payouts of the job: to whom, and at whose offer's amount

jobVars     == <<status, agreed, claims, triaged, won>>
gatewayVars == <<held, captured, paid>>
vars == <<outbox, worker, jobVars, ledger, gatewayVars>>

Broker == INSTANCE Brokerage

-------------------------------------------------------------------------------
(* Types *)

Kinds == {"AUTHORISATION", "AUTHORISATION_VOID", "CAPTURE", "PAYOUT"}

AuthoriseStages == {"authorise", "authorised"}
CaptureStages   == {"capture", "captured", "assignment", "payout", "paid"}
ReleaseStages   == {"release"}
Handling == AuthoriseStages \cup CaptureStages \cup ReleaseStages \cup {"done"}
Stages == Handling \cup {"idle", "next", "failed"}

Worker == [at : Stages, batch : SUBSET (Keys \X Nat), msg : Keys \cup {None}, tries : Nat,
           seen : SUBSET Kinds, payee : Providers \cup {None}]

Resting == [at |-> "idle", batch |-> {}, msg |-> None, tries |-> 0, seen |-> {},
            payee |-> None]

Payout == [to : Providers, offerOf : Providers \cup {None}]

TypeOK ==
  /\ outbox \in [Keys -> Row]
  /\ worker \in [Workers -> Worker]
  /\ status \in [Jobs -> Broker!Statuses \cup {"ABSENT"}]
  /\ agreed \in SUBSET Jobs
  /\ claims \in [Jobs -> SUBSET Providers]
  /\ triaged \in SUBSET Jobs
  /\ won \in [Jobs -> SUBSET Providers]
  /\ ledger \in [Jobs -> [Kinds -> Nat]]
  /\ held \in SUBSET Jobs
  /\ captured \in SUBSET Jobs
  /\ paid \in [Jobs -> SUBSET Payout]

-------------------------------------------------------------------------------
(* Reads and parts of actions *)

Recorded(j) == {kind \in Kinds : ledger[j][kind] > 0}
Record(j, kind) == ledger' = [ledger EXCEPT ![j][kind] = @ + 1]

JobOf(w) == worker[w].msg.job
GoTo(w, stage) == worker' = [worker EXCEPT ![w].at = stage]

\* What the next message of the batch, if there is one, finds.
MoveOn(w) ==
  worker' = [worker EXCEPT ![w] =
    IF worker[w].batch = {} THEN Resting
    ELSE [Resting EXCEPT !.at = "next", !.batch = worker[w].batch]]

\* The message the event of a status change puts in the outbox.
AnnouncedEarly(j, to) ==
  {k \in Keys : /\ k.job = j
                /\ \/ to = "IN_PROGRESS" /\ k.topic = "job.completed"
                   \/ to = "CANCELLED" /\ k.topic = "job.cancelled"}
Announced(j, to) ==
  {k \in Keys : /\ k.job = j
                /\ \/ to = "COMPLETED" /\ k.topic = "job.completed"
                   \/ to = "CANCELLED" /\ k.topic = "job.cancelled"}

-------------------------------------------------------------------------------
Init ==
  /\ Broker!Init
  /\ outbox = [k \in Keys |-> NoRow]
  /\ worker = [w \in Workers |-> Resting]
  /\ triaged = {}
  /\ won = [j \in Jobs |-> {}]
  /\ ledger = [j \in Jobs |-> [kind \in Kinds |-> 0]]
  /\ held = {}
  /\ captured = {}
  /\ paid = [j \in Jobs |-> {}]

-------------------------------------------------------------------------------
(* The jobs.  Each step commits together with its message. *)

CreateJob(j) ==
  /\ Broker!Create(j)
  /\ UNCHANGED <<outbox, worker, triaged, won, ledger, gatewayVars>>

MoveJob(j, to) ==
  /\ Broker!Move(j, to)
  /\ Enqueue(Announced(j, to))
  /\ triaged' = IF to = "TRIAGED" THEN triaged \cup {j} ELSE triaged
  /\ UNCHANGED <<worker, won, ledger, gatewayVars>>

\* decideQuote, APPROVE: once per quote, and only the quote is looked at: its job
\* was TRIAGED when the quote was requested, and may be in any status now.
ApproveQuote(j, q) ==
  LET k == [topic |-> "quote.decided", job |-> j, quote |-> q]
  IN  /\ j \in triaged
      /\ outbox[k] = NoRow
      /\ Broker!Agree(j)
      /\ Enqueue({k})
      /\ UNCHANGED <<worker, triaged, won, ledger, gatewayVars>>

\* An accepted offer stays ACCEPTED when its provider falls through.
AwardJob(j, p) ==
  /\ Broker!Award(j, p)
  /\ won' = [won EXCEPT ![j] = @ \cup {p}]
  /\ UNCHANGED <<outbox, worker, triaged, ledger, gatewayVars>>

ReopenJob(j, p) ==
  /\ Broker!FallThrough(j, p)
  /\ UNCHANGED <<outbox, worker, triaged, won, ledger, gatewayVars>>

\* A sweep that selected the offer before it was accepted marks it EXPIRED.
ExpireAcceptedOffer(j, p) ==
  /\ p \in won[j]
  /\ won' = [won EXCEPT ![j] = @ \ {p}]
  /\ UNCHANGED <<outbox, worker, status, agreed, claims, triaged, ledger, gatewayVars>>

-------------------------------------------------------------------------------
(* The drain *)

Claim(w) ==
  /\ worker[w] = Resting
  /\ \E keys \in Batches :
       /\ outbox' = Claimed(keys)
       /\ worker' = [worker EXCEPT ![w] = [Resting EXCEPT !.at = "next", !.batch = Batch(keys)]]
  /\ UNCHANGED <<jobVars, ledger, gatewayVars>>

\* What each handler does next, given the entries it read.
AfterDecisionUnguarded(seen) == "authorise"
AfterDecisionRecordsFirst(seen) == IF "AUTHORISATION" \in seen THEN "done" ELSE "authorised"
AfterDecision(seen) == IF "AUTHORISATION" \in seen THEN "done" ELSE "authorise"

AfterCapture(seen) == IF "PAYOUT" \in seen THEN "done" ELSE "assignment"

AfterCompletion(seen) ==
  IF "AUTHORISATION" \notin seen THEN "done"
  ELSE IF "CAPTURE" \in seen THEN AfterCapture(seen)
  ELSE "capture"

AfterCancellationUnheld(seen) ==
  IF seen \cap {"CAPTURE", "AUTHORISATION_VOID"} # {} THEN "done" ELSE "release"
AfterCancellation(seen) ==
  IF "AUTHORISATION" \notin seen \/ seen \cap {"CAPTURE", "AUTHORISATION_VOID"} # {}
  THEN "done" ELSE "release"

FirstStage(topic, seen) ==
  CASE topic = "quote.decided" -> AfterDecision(seen)
    [] topic = "job.completed" -> AfterCompletion(seen)
    [] topic = "job.cancelled" -> AfterCancellation(seen)

\* A message of the batch is taken up and the ledger of its job is read.
ReadLedger(w) ==
  /\ worker[w].at = "next"
  /\ \E claim \in worker[w].batch :
       LET seen == Recorded(claim[1].job)
       IN  worker' = [worker EXCEPT ![w] =
             [at |-> FirstStage(claim[1].topic, seen), batch |-> @.batch \ {claim},
              msg |-> claim[1], tries |-> claim[2], seen |-> seen, payee |-> None]]
  /\ UNCHANGED <<outbox, jobVars, ledger, gatewayVars>>

MarkDelivered(w) ==
  /\ worker[w].at = "done"
  /\ Delivered(worker[w].msg)
  /\ MoveOn(w)
  /\ UNCHANGED <<jobVars, ledger, gatewayVars>>

\* Anything a handler awaits may throw, the delivery mark included.
HandlerFails(w) ==
  /\ worker[w].at \in Handling
  /\ GoTo(w, "failed")
  /\ UNCHANGED <<outbox, jobVars, ledger, gatewayVars>>

MarkFailedUnchecked(w) ==
  /\ worker[w].at = "failed"
  /\ Failed(worker[w].msg, worker[w].tries)
  /\ MoveOn(w)
  /\ UNCHANGED <<jobVars, ledger, gatewayVars>>

\* Where the database refuses the update, the drain throws and its batch is
\* left to the leases.
MarkFailed(w) ==
  /\ worker[w].at = "failed"
  /\ \/ /\ ~FailureRefused(worker[w].msg)
        /\ Failed(worker[w].msg, worker[w].tries)
        /\ MoveOn(w)
     \/ /\ FailureRefused(worker[w].msg)
        /\ worker' = [worker EXCEPT ![w] = Resting]
        /\ UNCHANGED outbox
  /\ UNCHANGED <<jobVars, ledger, gatewayVars>>

\* The process dies, or its mark fails: the claimed rows wait for their leases.
WorkerDies(w) ==
  /\ WorkersMayDie
  /\ worker[w] # Resting
  /\ worker' = [worker EXCEPT ![w] = Resting]
  /\ UNCHANGED <<outbox, jobVars, ledger, gatewayVars>>

-------------------------------------------------------------------------------
(* The handlers *)

\* authorise.  The approved quote it reads is there since the message is.
Authorise(w) ==
  /\ worker[w].at = "authorise"
  /\ held' = held \cup {JobOf(w)}
  /\ GoTo(w, "authorised")
  /\ UNCHANGED <<outbox, jobVars, ledger, captured, paid>>

RecordAuthorisation(w) ==
  /\ worker[w].at = "authorised"
  /\ Record(JobOf(w), "AUTHORISATION")
  /\ GoTo(w, "done")
  /\ UNCHANGED <<outbox, jobVars, gatewayVars>>

\* captureAndPay.  The gateway refuses to capture what it does not hold.
Capture(w) ==
  /\ worker[w].at = "capture"
  /\ JobOf(w) \in held
  /\ captured' = captured \cup {JobOf(w)}
  /\ GoTo(w, "captured")
  /\ UNCHANGED <<outbox, jobVars, ledger, held, paid>>

RecordCapture(w) ==
  /\ worker[w].at = "captured"
  /\ Record(JobOf(w), "CAPTURE")
  /\ GoTo(w, AfterCapture(worker[w].seen))
  /\ UNCHANGED <<outbox, jobVars, gatewayVars>>

ReadAssignmentFromOffers(w) ==
  /\ worker[w].at = "assignment"
  /\ \/ won[JobOf(w)] = {} /\ GoTo(w, "done")
     \/ \E p \in won[JobOf(w)] :
          worker' = [worker EXCEPT ![w].at = "payout", ![w].payee = p]
  /\ UNCHANGED <<outbox, jobVars, ledger, gatewayVars>>

\* findActiveAssignment
ReadAssignment(w) ==
  /\ worker[w].at = "assignment"
  /\ \/ claims[JobOf(w)] = {} /\ GoTo(w, "done")
     \/ \E p \in claims[JobOf(w)] :
          worker' = [worker EXCEPT ![w].at = "payout", ![w].payee = p]
  /\ UNCHANGED <<outbox, jobVars, ledger, gatewayVars>>

\* The amount is that of the first ACCEPTED offer of an unordered list.  A key
\* that was paid before is not paid again.
PayOut(w) ==
  LET j == JobOf(w)
      p == worker[w].payee
  IN  /\ worker[w].at = "payout"
      /\ \/ (\E past \in paid[j] : past.to = p) /\ UNCHANGED paid
         \/ /\ \A past \in paid[j] : past.to # p
            /\ \E r \in IF won[j] = {} THEN {None} ELSE won[j] :
                 paid' = [paid EXCEPT ![j] = @ \cup {[to |-> p, offerOf |-> r]}]
      /\ GoTo(w, "paid")
      /\ UNCHANGED <<outbox, jobVars, ledger, held, captured>>

RecordPayout(w) ==
  /\ worker[w].at = "paid"
  /\ Record(JobOf(w), "PAYOUT")
  /\ GoTo(w, "done")
  /\ UNCHANGED <<outbox, jobVars, gatewayVars>>

\* release.  The ledger says so; the gateway has no call for it.
RecordRelease(w) ==
  /\ worker[w].at = "release"
  /\ Record(JobOf(w), "AUTHORISATION_VOID")
  /\ GoTo(w, "done")
  /\ UNCHANGED <<outbox, jobVars, gatewayVars>>

-------------------------------------------------------------------------------
JobStep ==
  \E j \in Jobs :
    \/ CreateJob(j)
    \/ \E to \in Broker!Statuses : MoveJob(j, to)
    \/ \E q \in Quotes : ApproveQuote(j, q)
    \/ \E p \in Providers : AwardJob(j, p) \/ ReopenJob(j, p) \/ ExpireAcceptedOffer(j, p)

HandlerStep(w) ==
  \/ Authorise(w) \/ RecordAuthorisation(w)
  \/ Capture(w) \/ RecordCapture(w)
  \/ ReadAssignment(w) \/ PayOut(w) \/ RecordPayout(w)
  \/ RecordRelease(w)

DrainStep(w) ==
  Claim(w) \/ ReadLedger(w) \/ HandlerStep(w) \/ MarkDelivered(w) \/ MarkFailed(w)

ClockStep ==
  /\ \E k \in Keys : TimePasses(k)
  /\ UNCHANGED <<worker, jobVars, ledger, gatewayVars>>

Next ==
  \/ JobStep
  \/ \E w \in Workers : DrainStep(w) \/ HandlerFails(w) \/ WorkerDies(w)
  \/ ClockStep

Spec == Init /\ [][Next]_vars

\* Workers drain for as long as their process lives, and leases and back-offs run
\* out.  Nobody is obliged to move a job, and a handler is free to fail.
FairSpec ==
  /\ Spec
  /\ \A w \in Workers : WF_vars(DrainStep(w))
  /\ \A k \in Keys : WF_vars(TimePasses(k) /\ UNCHANGED <<worker, jobVars, ledger, gatewayVars>>)

-------------------------------------------------------------------------------
(* Safety *)

\* Cancelling and completing exclude each other, so however late and however
\* often their messages are handled, a hold is not both captured and released.
NeverCapturedAndReleased ==
  \A j \in Jobs : ~ {"CAPTURE", "AUTHORISATION_VOID"} \subseteq Recorded(j)

\* The customer's money is taken only for work recorded as completed, and only
\* against a hold that is in the ledger.
CapturedForCompletedWork ==
  \A j \in captured : status[j] = "COMPLETED" /\ "AUTHORISATION" \in Recorded(j)

\* Money leaves for one provider, the one that holds the completed job, also
\* when others held it before.
PaidToTheHolder ==
  \A j \in Jobs : \A payout \in paid[j] : claims[j] = {payout.to}

\* The ledger never runs ahead of the gateway.
LedgerFollowsGateway ==
  \A j \in Jobs :
    /\ "AUTHORISATION" \in Recorded(j) => j \in held
    /\ "CAPTURE" \in Recorded(j) => j \in captured
    /\ "PAYOUT" \in Recorded(j) => paid[j] # {}

\* Redelivery adds no second entry, but workers that read the ledger before any
\* of them wrote it may each add one: as many as there are workers, no more.
EntriesBoundedByWorkers ==
  \A j \in Jobs, kind \in Kinds : ledger[j][kind] <= Cardinality(Workers)

\* One worker, dying or not, gives a message up after exactly MaxAttempts failures.
GivenUpAfterMaxAttempts ==
  \A k \in Keys :
    /\ outbox[k].attempts <= MaxAttempts
    /\ outbox[k].status = "DEAD" => outbox[k].attempts = MaxAttempts

\* A delivered message stays delivered, although a late failure of an outlived
\* claim tries to put it back.
DeliveredStaysDelivered ==
  [][\A k \in Keys : outbox[k].status = "SENT" => outbox'[k].status = "SENT"]_vars

-------------------------------------------------------------------------------
(* Liveness, under FairSpec *)

Settled(k) == outbox[k].status \in {"SENT", "DEAD"}

\* Every message ends delivered or dead, if no worker dies: deaths are not counted
\* as attempts, so a message that kills its worker is tried for ever.
MessagesSettle == \A k \in Keys : (outbox[k] # NoRow) ~> Settled(k)

-------------------------------------------------------------------------------
(* What the documentation says and the deliveries do not keep, refuted by a   *)
(* run of its own.                                                            *)

\* worker/payments.ts: job cancelled -> release the hold.
Quiet(j) == \A k \in Keys : k.job = j => Settled(k) \/ outbox[k] = NoRow
CancelledJobsHoldNothing ==
  \A j \in Jobs :
    /\ status[j] = "CANCELLED" /\ Quiet(j)
    /\ \A k \in Keys : k.job = j => outbox[k].status # "DEAD"
    /\ "AUTHORISATION" \in Recorded(j)
    => "AUTHORISATION_VOID" \in Recorded(j)

-------------------------------------------------------------------------------
(* Payments keep the promise of Escrow *)

Funds(j) ==
  IF "AUTHORISATION_VOID" \in Recorded(j) THEN "RELEASED"
  ELSE IF "PAYOUT" \in Recorded(j) THEN "PAID"
  ELSE IF "CAPTURE" \in Recorded(j) THEN "TAKEN"
  ELSE IF "AUTHORISATION" \in Recorded(j) THEN "HELD"
  ELSE "NONE"

FundsMap == [j \in Jobs |-> Funds(j)]
PayeesMap == [j \in Jobs |-> {payout.to : payout \in paid[j]}]
OverMap == [j \in Jobs |-> IF status[j] \in {"COMPLETED", "CANCELLED"} THEN status[j] ELSE "OPEN"]

Promise == INSTANCE Escrow WITH funds <- FundsMap, payees <- PayeesMap, over <- OverMap

KeepsEscrow == Promise!Spec
=============================================================================
