--------------------------- MODULE PaymentsProofs ---------------------------
(***************************************************************************)
(* Theorems about Payments for every set of jobs, providers, quotes and    *)
(* workers, every batch size and every number of attempts.                 *)
(***************************************************************************)
EXTENDS Payments, FiniteSetTheorems, TLAPS

-----------------------------------------------------------------------------
(* The inductive invariant *)

\* A message that is in the outbox tells the truth, and will for ever: what it
\* announces is final.
MessageIsTrue(k) ==
  /\ k.topic = "job.completed" => status[k.job] = "COMPLETED"
  /\ k.topic = "job.cancelled" => status[k.job] = "CANCELLED"

MessagesAreTrue == \A k \in Keys : outbox[k] # NoRow => MessageIsTrue(k)

OneClaim == \A j \in Jobs : \A p, r \in claims[j] : p = r

\* What the ledger, the gateway and the job say of each other.
Books(j) ==
  /\ ledger[j]["AUTHORISATION"] > 0 => j \in held
  /\ ledger[j]["CAPTURE"] > 0 => j \in captured
  /\ j \in captured => status[j] = "COMPLETED" /\ ledger[j]["AUTHORISATION"] > 0
  /\ ledger[j]["AUTHORISATION_VOID"] > 0 =>
       status[j] = "CANCELLED" /\ ledger[j]["AUTHORISATION"] > 0
  /\ ledger[j]["PAYOUT"] > 0 => paid[j] # {}
  /\ paid[j] # {} => ledger[j]["CAPTURE"] > 0
  /\ \A payout \in paid[j] : claims[j] = {payout.to}

BooksAgree == \A j \in Jobs : Books(j)

\* What the stage of a handler says of what it has read and done.
StageIsBacked(at, k, payee) ==
  LET j == k.job
  IN  /\ at = "authorised" => j \in held
      /\ at \in CaptureStages => k.topic = "job.completed" /\ ledger[j]["AUTHORISATION"] > 0
      /\ at = "captured" => j \in captured
      /\ at \in {"assignment", "payout", "paid"} => ledger[j]["CAPTURE"] > 0
      /\ at \in {"payout", "paid"} => claims[j] = {payee}
      /\ at = "paid" => paid[j] # {}
      /\ at = "release" => k.topic = "job.cancelled" /\ ledger[j]["AUTHORISATION"] > 0

WorkerIsBacked(record) ==
  /\ \A claim \in record.batch : outbox[claim[1]] # NoRow
  /\ record.at \in Handling \cup {"failed"} =>
       /\ record.msg \in Keys
       /\ outbox[record.msg] # NoRow
       /\ StageIsBacked(record.at, record.msg, record.payee)

WorkersAreBacked == \A w \in Workers : WorkerIsBacked(worker[w])

IInv ==
  /\ TypeOK
  /\ MessagesAreTrue
  /\ OneClaim
  /\ BooksAgree
  /\ WorkersAreBacked

-----------------------------------------------------------------------------
(* Type correctness *)

LEMMA Constants ==
  /\ NoRow \in Row /\ NewRow \in Row
  /\ Resting \in Worker
  /\ None \notin Jobs /\ None \notin Providers
  /\ MaxAttempts \in Nat
  /\ \A from, to : Broker!CanTransition(from, to) => to \in Broker!Statuses
BY OutboxAssumption, PaymentsAssumption
   DEF NoRow, NewRow, Row, RowStatuses, Resting, Worker, Stages, Handling,
       Broker!CanTransition, Broker!Transitions, Broker!Statuses

LEMMA KeyFields ==
  \A k \in Keys : /\ k.job \in Jobs
                  /\ k.topic \in {"quote.decided", "job.completed", "job.cancelled"}
BY DEF Keys

\* Rows stay typed, whichever operation of the outbox writes them.
LEMMA OutboxType ==
  ASSUME outbox \in [Keys -> Row]
  PROVE  /\ \A keys : Enqueue(keys) => outbox' \in [Keys -> Row]
         /\ \A keys : Claimed(keys) \in [Keys -> Row]
         /\ \A k \in Keys, tries \in Nat :
              \/ Delivered(k) \/ Failed(k, tries) \/ TimePasses(k)
              => outbox' \in [Keys -> Row]
<1>1. \A keys : Enqueue(keys) => outbox' \in [Keys -> Row]
  BY Constants DEF Enqueue
<1>2. \A keys : Claimed(keys) \in [Keys -> Row]
  BY DEF Claimed, Row
<1>3. ASSUME NEW k \in Keys, Delivered(k) PROVE outbox' \in [Keys -> Row]
  BY <1>3 DEF Delivered, Row, RowStatuses
<1>4. ASSUME NEW k \in Keys, NEW tries \in Nat, Failed(k, tries)
      PROVE  outbox' \in [Keys -> Row]
  <2> DEFINE n == outbox[k].attempts + 1
  <2>1. /\ [status |-> "DEAD", attempts |-> n, due |-> outbox[k].due] \in Row
        /\ [status |-> "FAILED", attempts |-> n, due |-> FALSE] \in Row
    BY DEF Row, RowStatuses
  <2> QED
    BY <1>4, <2>1 DEF Failed
<1>5. ASSUME NEW k \in Keys, TimePasses(k) PROVE outbox' \in [Keys -> Row]
  BY <1>5 DEF TimePasses, Row
<1> QED
  BY <1>1, <1>2, <1>3, <1>4, <1>5

\* A worker's record stays typed when it changes stage and when it moves on.
LEMMA WorkerType ==
  ASSUME worker \in [Workers -> Worker], NEW w \in Workers
  PROVE  /\ \A stage \in Stages : GoTo(w, stage) => worker' \in [Workers -> Worker]
         /\ MoveOn(w) => worker' \in [Workers -> Worker]
<1>1. ASSUME NEW stage \in Stages, GoTo(w, stage) PROVE worker' \in [Workers -> Worker]
  BY <1>1 DEF GoTo, Worker
<1>2. ASSUME MoveOn(w) PROVE worker' \in [Workers -> Worker]
  <2>1. [Resting EXCEPT !.at = "next", !.batch = worker[w].batch] \in Worker
    BY DEF Resting, Worker, Stages
  <2> QED
    BY <1>2, <2>1, Constants DEF MoveOn
<1> QED
  BY <1>1, <1>2

LEMMA StagesOfHandlers ==
  \A seen : /\ AfterDecision(seen) \in Stages
            /\ AfterCompletion(seen) \in Stages
            /\ AfterCancellation(seen) \in Stages
            /\ AfterCapture(seen) \in Stages
BY DEF AfterDecision, AfterCompletion, AfterCancellation, AfterCapture, Stages, Handling,
       AuthoriseStages, CaptureStages, ReleaseStages

LEMMA FirstStages ==
  \A k \in Keys : \A seen : FirstStage(k.topic, seen) \in Stages
BY KeyFields, StagesOfHandlers DEF FirstStage

LEMMA RecordType ==
  ASSUME ledger \in [Jobs -> [Kinds -> Nat]], NEW j, NEW kind \in Kinds, Record(j, kind)
  PROVE  ledger' \in [Jobs -> [Kinds -> Nat]]
<1>1. CASE j \in Jobs
  <2>1. ledger[j] \in [Kinds -> Nat]
    BY <1>1
  <2>2. [ledger[j] EXCEPT ![kind] = ledger[j][kind] + 1] \in [Kinds -> Nat]
    BY <2>1
  <2> QED
    BY <1>1, <2>2 DEF Record
<1>2. CASE j \notin Jobs
  BY <1>2 DEF Record
<1> QED
  BY <1>1, <1>2

LEMMA TypeInit == Init => TypeOK
<1> SUFFICES ASSUME Init PROVE TypeOK
  OBVIOUS
<1> QED
  BY Constants DEF Init, Broker!Init, TypeOK, Kinds

LEMMA TypeOfJobs == TypeOK /\ JobStep => TypeOK'
<1> SUFFICES ASSUME TypeOK, NEW j \in Jobs,
                    \/ CreateJob(j)
                    \/ \E to \in Broker!Statuses : MoveJob(j, to)
                    \/ \E q \in Quotes : ApproveQuote(j, q)
                    \/ \E p \in Providers :
                         AwardJob(j, p) \/ ReopenJob(j, p) \/ ExpireAcceptedOffer(j, p)
             PROVE  TypeOK'
  BY DEF JobStep
<1> USE DEF TypeOK, gatewayVars
<1>1. CASE CreateJob(j)
  BY <1>1 DEF CreateJob, Broker!Create, Broker!Statuses
<1>2. ASSUME NEW to \in Broker!Statuses, MoveJob(j, to) PROVE TypeOK'
  <2>1. outbox' \in [Keys -> Row]
    BY <1>2, OutboxType DEF MoveJob
  <2> QED
    BY <1>2, <2>1 DEF MoveJob, Broker!Move
<1>3. ASSUME NEW q \in Quotes, ApproveQuote(j, q) PROVE TypeOK'
  <2>1. outbox' \in [Keys -> Row]
    BY <1>3, OutboxType DEF ApproveQuote
  <2> QED
    BY <1>3, <2>1 DEF ApproveQuote, Broker!Agree
<1>4. ASSUME NEW p \in Providers, AwardJob(j, p) PROVE TypeOK'
  BY <1>4 DEF AwardJob, Broker!Award, Broker!Statuses
<1>5. ASSUME NEW p \in Providers, ReopenJob(j, p) PROVE TypeOK'
  BY <1>5 DEF ReopenJob, Broker!FallThrough, Broker!Statuses
<1>6. ASSUME NEW p \in Providers, ExpireAcceptedOffer(j, p) PROVE TypeOK'
  BY <1>6 DEF ExpireAcceptedOffer
<1> QED
  BY <1>1, <1>2, <1>3, <1>4, <1>5, <1>6

\* A worker that handles a message, or failed to, has a message of the outbox.
LEMMA AtWork ==
  ASSUME WorkersAreBacked, NEW w \in Workers,
         worker[w].at \in Handling \/ worker[w].at = "failed"
  PROVE  /\ worker[w].msg \in Keys /\ JobOf(w) \in Jobs
         /\ outbox[worker[w].msg] # NoRow
         /\ StageIsBacked(worker[w].at, worker[w].msg, worker[w].payee)
BY KeyFields DEF WorkersAreBacked, WorkerIsBacked, JobOf

LEMMA TypeOfDrains ==
  ASSUME TypeOK, WorkersAreBacked, NEW w \in Workers,
         Claim(w) \/ ReadLedger(w) \/ MarkDelivered(w) \/ MarkFailed(w)
           \/ HandlerFails(w) \/ WorkerDies(w)
  PROVE  TypeOK'
<1> USE DEF TypeOK, jobVars, gatewayVars
<1>1. CASE Claim(w)
  <2> PICK keys \in Batches :
         /\ outbox' = Claimed(keys)
         /\ worker' = [worker EXCEPT ![w] = [Resting EXCEPT !.at = "next", !.batch = Batch(keys)]]
    BY <1>1 DEF Claim
  <2>1. Batch(keys) \in SUBSET (Keys \X Nat)
    BY DEF Batch, Batches, Claimable, Row
  <2>2. [Resting EXCEPT !.at = "next", !.batch = Batch(keys)] \in Worker
    BY <2>1 DEF Resting, Worker, Stages
  <2> QED
    BY <1>1, <2>2, OutboxType DEF Claim
<1>2. CASE ReadLedger(w)
  <2> DEFINE Reading(claim, seen) ==
        [at |-> FirstStage(claim[1].topic, seen), batch |-> worker[w].batch \ {claim},
         msg |-> claim[1], tries |-> claim[2], seen |-> seen, payee |-> None]
  <2> PICK claim \in worker[w].batch :
         worker' = [worker EXCEPT ![w] = Reading(claim, Recorded(claim[1].job))]
    BY <1>2 DEF ReadLedger
  <2>1. claim \in Keys \X Nat
    BY DEF Worker
  <2>2. Reading(claim, Recorded(claim[1].job)) \in Worker
    BY <2>1, FirstStages DEF Worker, Recorded
  <2> QED
    BY <1>2, <2>2 DEF ReadLedger
<1>3. CASE MarkDelivered(w) \/ MarkFailed(w)
  <2>1. worker[w].msg \in Keys /\ worker[w].tries \in Nat
    BY <1>3, AtWork DEF MarkDelivered, MarkFailed, Handling, Worker
  <2>2. outbox' \in [Keys -> Row]
    BY <1>3, <2>1, OutboxType DEF MarkDelivered, MarkFailed
  <2>3. worker' \in [Workers -> Worker]
    BY <1>3, Constants, WorkerType DEF MarkDelivered, MarkFailed
  <2> QED
    BY <1>3, <2>2, <2>3 DEF MarkDelivered, MarkFailed
<1>4. CASE HandlerFails(w)
  BY <1>4, WorkerType DEF HandlerFails, Stages
<1>5. CASE WorkerDies(w)
  BY <1>5, Constants DEF WorkerDies
<1> QED
  BY <1>1, <1>2, <1>3, <1>4, <1>5

LEMMA TypeOfHandlers ==
  ASSUME TypeOK, WorkersAreBacked, NEW w \in Workers, HandlerStep(w)
  PROVE  TypeOK'
<1> USE DEF TypeOK, jobVars, gatewayVars
<1>0. \A stage \in Handling : stage \in Stages
  BY DEF Stages
<1>1. CASE Authorise(w)
  BY <1>1, <1>0, AtWork, WorkerType DEF Authorise, Handling, AuthoriseStages
<1>2. CASE RecordAuthorisation(w)
  BY <1>2, <1>0, WorkerType, RecordType DEF RecordAuthorisation, Handling, Kinds
<1>3. CASE Capture(w)
  BY <1>3, <1>0, AtWork, WorkerType DEF Capture, Handling, CaptureStages
<1>4. CASE RecordCapture(w)
  BY <1>4, StagesOfHandlers, WorkerType, RecordType DEF RecordCapture, Kinds
<1>5. CASE ReadAssignment(w)
  <2>1. CASE GoTo(w, "done")
    BY <1>5, <2>1, <1>0, WorkerType DEF ReadAssignment, Handling
  <2>2. ASSUME NEW p \in claims[JobOf(w)],
               worker' = [worker EXCEPT ![w].at = "payout", ![w].payee = p]
        PROVE  TypeOK'
    <3>1. p \in Providers
      BY <1>5, AtWork DEF ReadAssignment, Handling, CaptureStages
    <3> DEFINE after == [worker[w] EXCEPT !.at = "payout", !.payee = p]
    <3>2. after \in Worker
      <4>1. worker[w] \in Worker /\ "payout" \in Stages
        BY DEF Stages, Handling, CaptureStages
      <4>2. [worker[w] EXCEPT !.at = "payout"] \in Worker
        BY <4>1 DEF Worker
      <4> QED
        BY <3>1, <4>2 DEF Worker
    <3>3. worker' = [worker EXCEPT ![w] = after]
      BY <2>2
    <3>4. worker' \in [Workers -> Worker]
      BY <3>2, <3>3
    <3> QED
      BY <1>5, <3>4 DEF ReadAssignment
  <2> QED
    BY <1>5, <2>1, <2>2 DEF ReadAssignment
<1>6. CASE PayOut(w)
  <2>1. worker' \in [Workers -> Worker]
    BY <1>6, <1>0, WorkerType DEF PayOut, Handling, CaptureStages
  <2>2. JobOf(w) \in Jobs /\ claims[JobOf(w)] = {worker[w].payee}
    BY <1>6, AtWork DEF PayOut, JobOf, StageIsBacked, Handling, CaptureStages
  <2>3. worker[w].payee \in Providers
    BY <2>2
  <2>4. paid' \in [Jobs -> SUBSET Payout]
    BY <1>6, <2>2, <2>3, SMTT(30) DEF PayOut, Payout
  <2> QED
    BY <1>6, <2>1, <2>4 DEF PayOut
<1>7. CASE RecordPayout(w)
  BY <1>7, <1>0, WorkerType, RecordType DEF RecordPayout, Handling, Kinds
<1>8. CASE RecordRelease(w)
  BY <1>8, <1>0, WorkerType, RecordType DEF RecordRelease, Handling, Kinds
<1> QED
  BY <1>1, <1>2, <1>3, <1>4, <1>5, <1>6, <1>7, <1>8 DEF HandlerStep

LEMMA TypeStep == TypeOK /\ WorkersAreBacked /\ [Next]_vars => TypeOK'
<1> SUFFICES ASSUME TypeOK, WorkersAreBacked, [Next]_vars PROVE TypeOK'
  OBVIOUS
<1>1. CASE JobStep
  BY <1>1, TypeOfJobs
<1>2. ASSUME NEW w \in Workers, DrainStep(w) \/ HandlerFails(w) \/ WorkerDies(w)
      PROVE  TypeOK'
  BY <1>2, TypeOfDrains, TypeOfHandlers DEF DrainStep
<1>3. CASE ClockStep
  BY <1>3, OutboxType DEF ClockStep, TypeOK, jobVars, gatewayVars
<1>4. CASE UNCHANGED vars
  BY <1>4 DEF vars, TypeOK, jobVars, gatewayVars
<1> QED
  BY <1>1, <1>2, <1>3, <1>4 DEF Next

-----------------------------------------------------------------------------
(* Nothing is undone *)

\* What a step of the system may never take back.
NothingIsUndone ==
  /\ \A k \in Keys : outbox[k] # NoRow => outbox'[k] # NoRow
  /\ held \subseteq held' /\ captured \subseteq captured'
  /\ \A j \in Jobs :
       /\ \A kind \in Kinds : ledger[j][kind] > 0 => ledger'[j][kind] > 0
       /\ paid[j] # {} => paid'[j] # {}
       /\ status[j] \in Broker!Terminal => status'[j] = status[j] /\ claims'[j] = claims[j]

\* A row never goes back to being absent, whichever operation writes it.
LEMMA RowsStay ==
  ASSUME outbox \in [Keys -> Row]
  PROVE  /\ \A keys : Enqueue(keys) =>
              \A k \in Keys : outbox[k] # NoRow => outbox'[k] # NoRow
         /\ \A keys \in Batches : \A k \in Keys : outbox[k] # NoRow => Claimed(keys)[k] # NoRow
         /\ \A k \in Keys, tries \in Nat :
              Delivered(k) \/ Failed(k, tries) \/ TimePasses(k)
              => \A l \in Keys : outbox[l] # NoRow => outbox'[l] # NoRow
<1>1. \A keys : Enqueue(keys) => \A k \in Keys : outbox[k] # NoRow => outbox'[k] # NoRow
  BY DEF Enqueue
<1>2. \A keys \in Batches : \A k \in Keys : outbox[k] # NoRow => Claimed(keys)[k] # NoRow
  BY DEF Claimed, Batches, Claimable, NoRow, Row
<1>3. ASSUME NEW k \in Keys, NEW tries \in Nat,
             Delivered(k) \/ Failed(k, tries) \/ TimePasses(k), NEW l \in Keys, outbox[l] # NoRow
      PROVE  outbox'[l] # NoRow
  <2>1. CASE l # k
    BY <1>3, <2>1 DEF Delivered, Failed, TimePasses
  <2>2. CASE l = k
    <3>1. CASE Delivered(k)
      BY <2>2, <3>1 DEF Delivered, NoRow, Row
    <3>2. CASE Failed(k, tries)
      BY <2>2, <3>2 DEF Failed, NoRow, Row
    <3>3. CASE TimePasses(k)
      BY <2>2, <3>3 DEF TimePasses, NoRow, Row
    <3> QED
      BY <1>3, <3>1, <3>2, <3>3
  <2> QED
    BY <2>1, <2>2
<1> QED
  BY <1>1, <1>2, <1>3

\* Completed and cancelled jobs have no legal transition left.
LEMMA TerminalIsFinal ==
  \A from, to : from \in Broker!Terminal => ~Broker!CanTransition(from, to)
BY DEF Broker!Terminal, Broker!CanTransition, Broker!Transitions

LEMMA RecordGrows ==
  ASSUME ledger \in [Jobs -> [Kinds -> Nat]], NEW j \in Jobs, NEW kind \in Kinds, Record(j, kind)
  PROVE  /\ ledger'[j][kind] > 0
         /\ \A i \in Jobs, other \in Kinds :
              /\ ledger[i][other] > 0 => ledger'[i][other] > 0
              /\ i # j \/ other # kind => ledger'[i][other] = ledger[i][other]
<1>1. ledger' = [ledger EXCEPT ![j] = [ledger[j] EXCEPT ![kind] = ledger[j][kind] + 1]]
  BY DEF Record
<1>2. ledger[j] \in [Kinds -> Nat]
  OBVIOUS
<1> QED
  BY <1>1, <1>2

LEMMA NothingUndoneByJobs == TypeOK /\ JobStep => NothingIsUndone
<1> SUFFICES ASSUME TypeOK, NEW j \in Jobs,
                    \/ CreateJob(j)
                    \/ \E to \in Broker!Statuses : MoveJob(j, to)
                    \/ \E q \in Quotes : ApproveQuote(j, q)
                    \/ \E p \in Providers :
                         AwardJob(j, p) \/ ReopenJob(j, p) \/ ExpireAcceptedOffer(j, p)
             PROVE  NothingIsUndone
  BY DEF JobStep
<1> USE DEF TypeOK, NothingIsUndone, gatewayVars
<1>1. CASE CreateJob(j)
  BY <1>1 DEF CreateJob, Broker!Create, Broker!Terminal
<1>2. ASSUME NEW to \in Broker!Statuses, MoveJob(j, to) PROVE NothingIsUndone
  BY <1>2, RowsStay, TerminalIsFinal DEF MoveJob, Broker!Move
<1>3. ASSUME NEW q \in Quotes, ApproveQuote(j, q) PROVE NothingIsUndone
  BY <1>3, RowsStay DEF ApproveQuote, Broker!Agree
<1>4. ASSUME NEW p \in Providers, AwardJob(j, p) PROVE NothingIsUndone
  BY <1>4, TerminalIsFinal DEF AwardJob, Broker!Award
<1>5. ASSUME NEW p \in Providers, ReopenJob(j, p) PROVE NothingIsUndone
  BY <1>5, TerminalIsFinal DEF ReopenJob, Broker!FallThrough
<1>6. ASSUME NEW p \in Providers, ExpireAcceptedOffer(j, p) PROVE NothingIsUndone
  BY <1>6 DEF ExpireAcceptedOffer
<1> QED
  BY <1>1, <1>2, <1>3, <1>4, <1>5, <1>6

LEMMA NothingUndoneByDrains ==
  ASSUME TypeOK, WorkersAreBacked, NEW w \in Workers,
         DrainStep(w) \/ HandlerFails(w) \/ WorkerDies(w)
  PROVE  NothingIsUndone
<1> USE DEF TypeOK, NothingIsUndone, jobVars, gatewayVars
<1>1. CASE Claim(w)
  BY <1>1, RowsStay DEF Claim
<1>2. CASE ReadLedger(w) \/ HandlerFails(w) \/ WorkerDies(w) \/ ReadAssignment(w)
  BY <1>2 DEF ReadLedger, HandlerFails, WorkerDies, ReadAssignment
<1>3. CASE MarkDelivered(w) \/ MarkFailed(w)
  <2>1. worker[w].msg \in Keys /\ worker[w].tries \in Nat
    BY <1>3, AtWork DEF MarkDelivered, MarkFailed, Handling, Worker
  <2> QED
    BY <1>3, <2>1, RowsStay DEF MarkDelivered, MarkFailed
<1>4. CASE Authorise(w) \/ Capture(w)
  BY <1>4 DEF Authorise, Capture
<1>5. CASE \/ RecordAuthorisation(w) \/ RecordCapture(w)
           \/ RecordPayout(w) \/ RecordRelease(w)
  <2>1. JobOf(w) \in Jobs
    BY <1>5, AtWork
       DEF RecordAuthorisation, RecordCapture, RecordPayout, RecordRelease,
           Handling, AuthoriseStages, CaptureStages, ReleaseStages
  <2>2. PICK kind \in Kinds : Record(JobOf(w), kind)
    BY <1>5 DEF RecordAuthorisation, RecordCapture, RecordPayout, RecordRelease, Kinds
  <2> QED
    BY <1>5, <2>1, <2>2, RecordGrows
       DEF RecordAuthorisation, RecordCapture, RecordPayout, RecordRelease
<1>6. CASE PayOut(w)
  BY <1>6 DEF PayOut
<1> QED
  BY <1>1, <1>2, <1>3, <1>4, <1>5, <1>6 DEF DrainStep, HandlerStep

LEMMA NothingUndone == TypeOK /\ WorkersAreBacked /\ [Next]_vars => NothingIsUndone
<1> SUFFICES ASSUME TypeOK, WorkersAreBacked, [Next]_vars PROVE NothingIsUndone
  OBVIOUS
<1>1. CASE JobStep
  BY <1>1, NothingUndoneByJobs
<1>2. ASSUME NEW w \in Workers, DrainStep(w) \/ HandlerFails(w) \/ WorkerDies(w)
      PROVE  NothingIsUndone
  BY <1>2, NothingUndoneByDrains
<1>3. CASE ClockStep
  <2>1. PICK k \in Keys : TimePasses(k)
    BY <1>3 DEF ClockStep
  <2>2. \A l \in Keys : outbox[l] # NoRow => outbox'[l] # NoRow
    BY <2>1, RowsStay, 0 \in Nat DEF TypeOK
  <2> QED
    BY <1>3, <2>2 DEF ClockStep, NothingIsUndone, jobVars, gatewayVars
<1>4. CASE UNCHANGED vars
  BY <1>4 DEF vars, NothingIsUndone, jobVars, gatewayVars
<1> QED
  BY <1>1, <1>2, <1>3, <1>4 DEF Next

-----------------------------------------------------------------------------
(* Messages *)

\* Rows appear only where a job moves or a quote is approved.
LEMMA NoNewRows ==
  ASSUME outbox \in [Keys -> Row]
  PROVE  /\ \A keys \in Batches : \A k \in Keys : outbox[k] = NoRow => Claimed(keys)[k] = NoRow
         /\ \A k \in Keys, tries \in Nat :
              /\ outbox[k] # NoRow
              /\ Delivered(k) \/ Failed(k, tries)
              => \A l \in Keys : outbox[l] = NoRow => outbox'[l] = NoRow
         /\ \A k \in Keys : TimePasses(k) =>
              \A l \in Keys : outbox[l] = NoRow => outbox'[l] = NoRow
<1>0. NoRow.status = "NONE"
  BY DEF NoRow
<1>1. \A keys \in Batches : \A k \in Keys : outbox[k] = NoRow => Claimed(keys)[k] = NoRow
  <2> SUFFICES ASSUME NEW keys \in Batches, NEW k \in Keys, outbox[k] = NoRow
               PROVE  Claimed(keys)[k] = NoRow
    OBVIOUS
  <2>1. k \notin keys
    BY <1>0 DEF Batches, Claimable
  <2> QED
    BY <2>1 DEF Claimed
<1>2. ASSUME NEW k \in Keys, NEW tries \in Nat, outbox[k] # NoRow,
             Delivered(k) \/ Failed(k, tries), NEW l \in Keys, outbox[l] = NoRow
      PROVE  outbox'[l] = NoRow
  BY <1>2 DEF Delivered, Failed
<1>3. ASSUME NEW k \in Keys, TimePasses(k), NEW l \in Keys, outbox[l] = NoRow
      PROVE  outbox'[l] = NoRow
  <2>1. l # k
    BY <1>0, <1>3 DEF TimePasses
  <2> QED
    BY <1>3, <2>1 DEF TimePasses
<1> QED
  BY <1>1, <1>2, <1>3

LEMMA NewMessagesOfJobs ==
  ASSUME TypeOK, JobStep, NEW k \in Keys, outbox[k] = NoRow, outbox'[k] # NoRow
  PROVE  MessageIsTrue(k)'
<1> USE DEF TypeOK, MessageIsTrue
<1>1. ASSUME NEW j \in Jobs, NEW to \in Broker!Statuses, MoveJob(j, to)
      PROVE  MessageIsTrue(k)'
  BY <1>1 DEF MoveJob, Enqueue, Announced, Broker!Move
<1>2. ASSUME NEW j \in Jobs, NEW q \in Quotes, ApproveQuote(j, q) PROVE MessageIsTrue(k)'
  BY <1>2 DEF ApproveQuote, Enqueue
<1>3. ASSUME NEW j \in Jobs, NEW p \in Providers,
             \/ CreateJob(j)
             \/ AwardJob(j, p) \/ ReopenJob(j, p) \/ ExpireAcceptedOffer(j, p)
      PROVE  FALSE
  BY <1>3 DEF CreateJob, AwardJob, ReopenJob, ExpireAcceptedOffer
<1>4. ASSUME NEW j \in Jobs, CreateJob(j) PROVE FALSE
  BY <1>4 DEF CreateJob
<1> QED
  BY <1>1, <1>2, <1>3, <1>4 DEF JobStep

LEMMA NoMessagesOfDrains ==
  ASSUME TypeOK, WorkersAreBacked,
         \/ \E w \in Workers : DrainStep(w) \/ HandlerFails(w) \/ WorkerDies(w)
         \/ ClockStep
         \/ UNCHANGED vars,
         NEW k \in Keys, outbox[k] = NoRow
  PROVE  outbox'[k] = NoRow
<1> USE DEF TypeOK
<1>1. ASSUME NEW w \in Workers, Claim(w) PROVE outbox'[k] = NoRow
  BY <1>1, NoNewRows DEF Claim
<1>2. ASSUME NEW w \in Workers, MarkDelivered(w) \/ MarkFailed(w) PROVE outbox'[k] = NoRow
  <2>1. worker[w].msg \in Keys /\ worker[w].tries \in Nat /\ outbox[worker[w].msg] # NoRow
    BY <1>2, AtWork DEF MarkDelivered, MarkFailed, Handling, Worker
  <2> QED
    BY <1>2, <2>1, NoNewRows DEF MarkDelivered, MarkFailed
<1>3. ASSUME NEW w \in Workers,
             ReadLedger(w) \/ HandlerStep(w) \/ HandlerFails(w) \/ WorkerDies(w)
      PROVE  outbox'[k] = NoRow
  BY <1>3
     DEF ReadLedger, HandlerFails, WorkerDies, HandlerStep, Authorise, RecordAuthorisation,
         Capture, RecordCapture, ReadAssignment, PayOut, RecordPayout, RecordRelease
<1>4. CASE ClockStep
  BY <1>4, NoNewRows DEF ClockStep
<1>5. CASE UNCHANGED vars
  BY <1>5 DEF vars
<1> QED
  BY <1>1, <1>2, <1>3, <1>4, <1>5 DEF DrainStep

LEMMA MessagesStayTrue ==
  TypeOK /\ MessagesAreTrue /\ WorkersAreBacked /\ [Next]_vars => MessagesAreTrue'
<1> SUFFICES ASSUME TypeOK, MessagesAreTrue, WorkersAreBacked, [Next]_vars,
                    NEW k \in Keys, outbox'[k] # NoRow
             PROVE  MessageIsTrue(k)'
  BY DEF MessagesAreTrue
<1>1. CASE outbox[k] = NoRow
  BY <1>1, NewMessagesOfJobs, NoMessagesOfDrains DEF Next
<1>2. CASE outbox[k] # NoRow
  BY <1>2, NothingUndone, KeyFields
     DEF MessagesAreTrue, MessageIsTrue, NothingIsUndone, Broker!Terminal
<1> QED
  BY <1>1, <1>2

-----------------------------------------------------------------------------
(* Claims on the job *)

\* A job is awarded only while nobody claims it.
LEMMA OneClaimStep == TypeOK /\ OneClaim /\ [Next]_vars => OneClaim'
<1> SUFFICES ASSUME TypeOK, OneClaim, [Next]_vars PROVE OneClaim'
  OBVIOUS
<1>1. CASE JobStep
  <2>1. ASSUME NEW j \in Jobs, NEW p \in Providers, AwardJob(j, p) \/ ReopenJob(j, p)
        PROVE  OneClaim'
    BY <2>1 DEF TypeOK, OneClaim, AwardJob, ReopenJob, Broker!Award, Broker!FallThrough
  <2>2. ASSUME NEW j \in Jobs, NEW p \in Providers, ExpireAcceptedOffer(j, p)
        PROVE  OneClaim'
    BY <2>2 DEF OneClaim, ExpireAcceptedOffer
  <2>3. ASSUME NEW j \in Jobs,
               \/ CreateJob(j)
               \/ \E to \in Broker!Statuses : MoveJob(j, to)
               \/ \E q \in Quotes : ApproveQuote(j, q)
        PROVE  OneClaim'
    BY <2>3 DEF OneClaim, CreateJob, MoveJob, ApproveQuote, Broker!Create, Broker!Move,
                Broker!Agree
  <2> QED
    BY <1>1, <2>1, <2>2, <2>3 DEF JobStep
<1>2. ASSUME UNCHANGED claims PROVE OneClaim'
  BY <1>2 DEF OneClaim
<1>3. ASSUME NEW w \in Workers, DrainStep(w) \/ HandlerFails(w) \/ WorkerDies(w)
      PROVE  UNCHANGED claims
  BY <1>3
     DEF DrainStep, Claim, ReadLedger, MarkDelivered, MarkFailed, HandlerFails, WorkerDies,
         HandlerStep, Authorise, RecordAuthorisation, Capture, RecordCapture, ReadAssignment,
         PayOut, RecordPayout, RecordRelease, jobVars
<1>4. CASE ClockStep \/ UNCHANGED vars
  BY <1>2, <1>4 DEF ClockStep, vars, jobVars
<1> QED
  BY <1>1, <1>2, <1>3, <1>4 DEF Next

-----------------------------------------------------------------------------
(* Ledger, gateway and job agree *)

\* A step that touches neither ledger nor gateway keeps the books in order:
\* what they say of a job is said of its final state.
LEMMA BooksOfQuietSteps ==
  ASSUME BooksAgree, NothingIsUndone, UNCHANGED <<ledger, gatewayVars>>
  PROVE  BooksAgree'
BY DEF BooksAgree, Books, NothingIsUndone, gatewayVars, Broker!Terminal

\* What a handler may rely on.
LEMMA BackingOfHandlers ==
  ASSUME MessagesAreTrue, WorkersAreBacked, NEW w \in Workers, worker[w].at \in Handling
  PROVE  /\ JobOf(w) \in Jobs
         /\ StageIsBacked(worker[w].at, worker[w].msg, worker[w].payee)
         /\ MessageIsTrue(worker[w].msg)
BY AtWork DEF MessagesAreTrue

LEMMA BooksOfAuthorise ==
  ASSUME TypeOK, BooksAgree, MessagesAreTrue, WorkersAreBacked, NEW w \in Workers,
         Authorise(w) \/ RecordAuthorisation(w)
  PROVE  BooksAgree'
<1>1. CASE Authorise(w)
  BY <1>1 DEF Authorise, BooksAgree, Books, jobVars
<1>2. CASE RecordAuthorisation(w)
  <2>1. JobOf(w) \in Jobs /\ JobOf(w) \in held
    BY <1>2, BackingOfHandlers
       DEF RecordAuthorisation, Handling, AuthoriseStages, StageIsBacked, JobOf
  <2>2. Record(JobOf(w), "AUTHORISATION") /\ UNCHANGED <<jobVars, gatewayVars>>
    BY <1>2 DEF RecordAuthorisation
  <2> QED
    BY <2>1, <2>2, RecordGrows DEF BooksAgree, Books, TypeOK, Kinds, jobVars, gatewayVars
<1> QED
  BY <1>1, <1>2

LEMMA BooksOfCapture ==
  ASSUME TypeOK, BooksAgree, MessagesAreTrue, WorkersAreBacked, NEW w \in Workers,
         Capture(w) \/ RecordCapture(w)
  PROVE  BooksAgree'
<1>1. CASE Capture(w)
  <2>1. /\ JobOf(w) \in Jobs /\ ledger[JobOf(w)]["AUTHORISATION"] > 0
        /\ status[JobOf(w)] = "COMPLETED"
    BY <1>1, BackingOfHandlers
       DEF Capture, Handling, CaptureStages, StageIsBacked, MessageIsTrue, JobOf
  <2> QED
    BY <1>1, <2>1 DEF Capture, BooksAgree, Books, jobVars
<1>2. CASE RecordCapture(w)
  <2>1. JobOf(w) \in Jobs /\ JobOf(w) \in captured
    BY <1>2, BackingOfHandlers DEF RecordCapture, Handling, CaptureStages, StageIsBacked, JobOf
  <2>2. Record(JobOf(w), "CAPTURE") /\ UNCHANGED <<jobVars, gatewayVars>>
    BY <1>2 DEF RecordCapture
  <2> QED
    BY <2>1, <2>2, RecordGrows DEF BooksAgree, Books, TypeOK, Kinds, jobVars, gatewayVars
<1> QED
  BY <1>1, <1>2

LEMMA BooksOfPayout ==
  ASSUME TypeOK, BooksAgree, MessagesAreTrue, WorkersAreBacked, NEW w \in Workers,
         PayOut(w) \/ RecordPayout(w)
  PROVE  BooksAgree'
<1>1. CASE PayOut(w)
  <2>0. /\ JobOf(w) \in Jobs /\ ledger[JobOf(w)]["CAPTURE"] > 0
        /\ claims[JobOf(w)] = {worker[w].payee}
    BY <1>1, BackingOfHandlers DEF PayOut, Handling, CaptureStages, StageIsBacked, JobOf
  <2>1. PICK j \in Jobs, p \in {worker[w].payee} :
          /\ j = JobOf(w)
          /\ claims[j] = {p} /\ ledger[j]["CAPTURE"] > 0
    BY <2>0
  <2>2. /\ \A payout \in paid'[j] : payout \in paid[j] \/ payout.to = p
        /\ \A i \in Jobs \ {j} : paid'[i] = paid[i]
    BY <1>1, <2>1 DEF PayOut, TypeOK
  <2>3. UNCHANGED <<jobVars, ledger, held, captured>>
    BY <1>1 DEF PayOut
  <2>4. \A payout \in paid'[j] : claims[j] = {payout.to}
    BY <2>1, <2>2 DEF BooksAgree, Books
  <2>5. paid[j] # {} => paid'[j] # {}
    BY <1>1, NothingUndoneByDrains, <2>1 DEF DrainStep, HandlerStep, NothingIsUndone
  <2>6. Books(j)'
    BY <2>1, <2>3, <2>4, <2>5 DEF BooksAgree, Books, jobVars
  <2>7. ASSUME NEW i \in Jobs \ {j} PROVE Books(i)'
    BY <2>2, <2>3 DEF BooksAgree, Books, jobVars
  <2> QED
    BY <2>6, <2>7 DEF BooksAgree
<1>2. CASE RecordPayout(w)
  <2>1. JobOf(w) \in Jobs /\ paid[JobOf(w)] # {}
    BY <1>2, BackingOfHandlers DEF RecordPayout, Handling, CaptureStages, StageIsBacked, JobOf
  <2>2. Record(JobOf(w), "PAYOUT") /\ UNCHANGED <<jobVars, gatewayVars>>
    BY <1>2 DEF RecordPayout
  <2> QED
    BY <2>1, <2>2, RecordGrows DEF BooksAgree, Books, TypeOK, Kinds, jobVars, gatewayVars
<1> QED
  BY <1>1, <1>2

LEMMA BooksOfRelease ==
  ASSUME TypeOK, BooksAgree, MessagesAreTrue, WorkersAreBacked, NEW w \in Workers,
         RecordRelease(w)
  PROVE  BooksAgree'
<1>1. /\ JobOf(w) \in Jobs /\ ledger[JobOf(w)]["AUTHORISATION"] > 0
      /\ status[JobOf(w)] = "CANCELLED"
  BY BackingOfHandlers
     DEF RecordRelease, Handling, ReleaseStages, StageIsBacked, MessageIsTrue, JobOf
<1>2. Record(JobOf(w), "AUTHORISATION_VOID") /\ UNCHANGED <<jobVars, gatewayVars>>
  BY DEF RecordRelease
<1> QED
  BY <1>1, <1>2, RecordGrows DEF BooksAgree, Books, TypeOK, Kinds, jobVars, gatewayVars

LEMMA BooksStep == IInv /\ [Next]_vars => BooksAgree'
<1> SUFFICES ASSUME IInv, [Next]_vars PROVE BooksAgree'
  OBVIOUS
<1> USE DEF IInv
<1>1. ASSUME UNCHANGED <<ledger, gatewayVars>> PROVE BooksAgree'
  BY <1>1, NothingUndone, BooksOfQuietSteps
<1>2. CASE JobStep
  BY <1>1, <1>2 DEF JobStep, CreateJob, MoveJob, ApproveQuote, AwardJob, ReopenJob,
                    ExpireAcceptedOffer
<1>3. ASSUME NEW w \in Workers, HandlerStep(w) PROVE BooksAgree'
  <2>1. CASE ReadAssignment(w)
    BY <1>1, <2>1 DEF ReadAssignment
  <2> QED
    BY <1>3, <2>1, BooksOfAuthorise, BooksOfCapture, BooksOfPayout, BooksOfRelease
       DEF HandlerStep
<1>4. ASSUME NEW w \in Workers,
             \/ Claim(w) \/ ReadLedger(w) \/ MarkDelivered(w) \/ MarkFailed(w)
             \/ HandlerFails(w) \/ WorkerDies(w)
      PROVE  BooksAgree'
  BY <1>1, <1>4
     DEF Claim, ReadLedger, MarkDelivered, MarkFailed, HandlerFails, WorkerDies
<1>5. CASE ClockStep \/ UNCHANGED vars
  BY <1>1, <1>5 DEF ClockStep, vars
<1> QED
  BY <1>2, <1>3, <1>4, <1>5 DEF Next, DrainStep

-----------------------------------------------------------------------------
(* Workers *)

\* What stands behind a worker is not taken away by anybody's step.
LEMMA BackingStays ==
  ASSUME MessagesAreTrue, NothingIsUndone
  PROVE  \A record \in Worker : WorkerIsBacked(record) => WorkerIsBacked(record)'
<1> SUFFICES ASSUME NEW record \in Worker, WorkerIsBacked(record)
             PROVE  WorkerIsBacked(record)'
  OBVIOUS
<1>1. \A claim \in record.batch : outbox'[claim[1]] # NoRow
  BY DEF Worker, WorkerIsBacked, NothingIsUndone
<1>2. ASSUME record.at \in Handling \cup {"failed"}
      PROVE  /\ record.msg \in Keys
             /\ outbox'[record.msg] # NoRow
             /\ StageIsBacked(record.at, record.msg, record.payee)'
  <2>1. /\ record.msg \in Keys /\ outbox[record.msg] # NoRow
        /\ StageIsBacked(record.at, record.msg, record.payee)
    BY <1>2 DEF WorkerIsBacked
  <2>2. record.msg.job \in Jobs /\ MessageIsTrue(record.msg)
    BY <2>1, KeyFields DEF MessagesAreTrue
  <2>3. record.at \in CaptureStages =>
          /\ claims'[record.msg.job] = claims[record.msg.job]
          /\ record.msg.topic = "job.completed"
    BY <2>1, <2>2 DEF StageIsBacked, MessageIsTrue, NothingIsUndone, Broker!Terminal
  <2> QED
    BY <2>1, <2>2, <2>3 DEF StageIsBacked, NothingIsUndone, CaptureStages, Kinds
<1> QED
  BY <1>1, <1>2 DEF WorkerIsBacked

\* So only the worker that took the step has to be looked at.
LEMMA BackingOfOthers ==
  ASSUME TypeOK, MessagesAreTrue, WorkersAreBacked, NothingIsUndone, NEW w \in Workers,
         \A v \in Workers \ {w} : worker'[v] = worker[v],
         WorkerIsBacked(worker[w])'
  PROVE  WorkersAreBacked'
<1> SUFFICES ASSUME NEW v \in Workers \ {w} PROVE WorkerIsBacked(worker[v])'
  BY DEF WorkersAreBacked
<1>1. PICK record \in Worker : record = worker[v] /\ record = worker'[v]
  BY DEF TypeOK
<1>2. WorkerIsBacked(record)'
  BY <1>1, BackingStays DEF WorkersAreBacked
<1> QED
  BY <1>1, <1>2 DEF WorkerIsBacked, StageIsBacked

LEMMA BackingOfUnmoved ==
  ASSUME TypeOK, MessagesAreTrue, WorkersAreBacked, NothingIsUndone, UNCHANGED worker
  PROVE  WorkersAreBacked'
<1> SUFFICES ASSUME NEW w \in Workers PROVE WorkersAreBacked'
  BY DEF WorkersAreBacked
<1>1. PICK record \in Worker : record = worker[w] /\ record = worker'[w]
  BY DEF TypeOK
<1>2. WorkerIsBacked(record)'
  BY <1>1, BackingStays DEF WorkersAreBacked
<1>3. WorkerIsBacked(worker[w])'
  BY <1>1, <1>2 DEF WorkerIsBacked, StageIsBacked
<1> QED
  BY <1>3, BackingOfOthers

LEMMA BackingOfMoves ==
  ASSUME TypeOK, MessagesAreTrue, WorkersAreBacked, NothingIsUndone, NEW w \in Workers,
         \/ Claim(w) \/ MarkDelivered(w) \/ MarkFailed(w) \/ HandlerFails(w) \/ WorkerDies(w)
  PROVE  WorkersAreBacked'
<1>1. \A v \in Workers \ {w} : worker'[v] = worker[v]
  BY DEF TypeOK, Claim, MarkDelivered, MarkFailed, HandlerFails, WorkerDies, MoveOn, GoTo
<1>2. PICK before \in Worker : before = worker[w]
  BY DEF TypeOK
<1>3. WorkerIsBacked(before)'
  BY <1>2, BackingStays DEF WorkersAreBacked
<1>4. CASE Claim(w)
  <2>1. PICK keys \in Batches :
          /\ outbox' = Claimed(keys)
          /\ worker'[w] = [Resting EXCEPT !.at = "next", !.batch = Batch(keys)]
    BY <1>4 DEF Claim, TypeOK
  <2>2. worker'[w].at = "next" /\ worker'[w].batch = Batch(keys)
    BY <2>1 DEF Resting
  <2>3. \A claim \in Batch(keys) : claim[1] \in Keys /\ outbox[claim[1]] # NoRow
    BY DEF Batch, Batches, Claimable, NoRow
  <2> QED
    BY <1>1, <2>2, <2>3, BackingOfOthers
       DEF WorkerIsBacked, NothingIsUndone, Handling, AuthoriseStages, CaptureStages,
           ReleaseStages
<1>5. CASE MarkDelivered(w) \/ MarkFailed(w) \/ WorkerDies(w)
  <2>0. \/ worker'[w] = Resting
        \/ worker'[w] = [Resting EXCEPT !.at = "next", !.batch = before.batch]
    BY <1>2, <1>5 DEF MarkDelivered, MarkFailed, WorkerDies, MoveOn, TypeOK
  <2>1. CASE worker'[w] = Resting
    <3>1. worker'[w].at = "idle" /\ worker'[w].batch = {}
      BY <2>1 DEF Resting
    <3> QED
      BY <1>1, <3>1, BackingOfOthers
         DEF WorkerIsBacked, Handling, AuthoriseStages, CaptureStages, ReleaseStages
  <2>2. CASE worker'[w] = [Resting EXCEPT !.at = "next", !.batch = before.batch]
    <3>1. worker'[w].at = "next" /\ worker'[w].batch = before.batch
      BY <2>2 DEF Resting
    <3> QED
      BY <1>1, <1>3, <3>1, BackingOfOthers
         DEF WorkerIsBacked, Handling, AuthoriseStages, CaptureStages, ReleaseStages
  <2> QED
    BY <2>0, <2>1, <2>2
<1>6. CASE HandlerFails(w)
  <2>1. /\ worker'[w].at = "failed" /\ worker'[w].batch = before.batch
        /\ worker'[w].msg = before.msg
        /\ before.at \in Handling
    BY <1>2, <1>6 DEF HandlerFails, GoTo, TypeOK, Worker
  <2>2. ~ "failed" \in Handling
    BY DEF Handling, AuthoriseStages, CaptureStages, ReleaseStages
  <2> QED
    BY <1>1, <1>3, <2>1, <2>2, BackingOfOthers
       DEF WorkerIsBacked, StageIsBacked, Handling, AuthoriseStages, CaptureStages,
           ReleaseStages
<1> QED
  BY <1>4, <1>5, <1>6

\* The stage a handler starts in is backed by the entries it has read.
LEMMA BackingOfReads ==
  ASSUME TypeOK, MessagesAreTrue, WorkersAreBacked, NothingIsUndone, NEW w \in Workers,
         ReadLedger(w)
  PROVE  WorkersAreBacked'
<1>1. \A v \in Workers \ {w} : worker'[v] = worker[v]
  BY DEF TypeOK, ReadLedger
<1>2. PICK before \in Worker : before = worker[w] /\ WorkerIsBacked(before)'
  BY BackingStays DEF TypeOK, WorkersAreBacked
<1>3. PICK claim \in before.batch, seen \in SUBSET Kinds :
        /\ seen = Recorded(claim[1].job)
        /\ worker'[w] = [at |-> FirstStage(claim[1].topic, seen),
                         batch |-> before.batch \ {claim}, msg |-> claim[1],
                         tries |-> claim[2], seen |-> seen, payee |-> None]
  BY <1>2 DEF ReadLedger, TypeOK, Recorded
<1>4. /\ claim[1] \in Keys /\ claim[1].job \in Jobs
      /\ outbox'[claim[1]] # NoRow
      /\ \A other \in before.batch : outbox'[other[1]] # NoRow
  BY <1>2, KeyFields DEF Worker, WorkerIsBacked
<1>5. \A kind \in seen : kind \in Kinds /\ ledger'[claim[1].job][kind] > 0
  BY <1>3, <1>4 DEF Recorded, NothingIsUndone
<1>6. StageIsBacked(FirstStage(claim[1].topic, seen), claim[1], None)'
  <2>1. CASE claim[1].topic = "quote.decided"
    BY <2>1 DEF FirstStage, AfterDecision, StageIsBacked, CaptureStages
  <2>2. CASE claim[1].topic = "job.completed"
    BY <1>5, <2>2 DEF FirstStage, AfterCompletion, AfterCapture, StageIsBacked, CaptureStages
  <2>3. CASE claim[1].topic = "job.cancelled"
    BY <1>5, <2>3 DEF FirstStage, AfterCancellation, StageIsBacked, CaptureStages
  <2> QED
    BY <1>4, <2>1, <2>2, <2>3, KeyFields
<1>7. WorkerIsBacked(worker[w])'
  BY <1>3, <1>4, <1>6 DEF WorkerIsBacked, StageIsBacked
<1> QED
  BY <1>1, <1>7, BackingOfOthers

\* Each stage of a handler leaves behind what the next one relies on.
LEMMA BackingOfHandlerSteps ==
  ASSUME TypeOK, MessagesAreTrue, OneClaim, WorkersAreBacked, NothingIsUndone,
         NEW w \in Workers, HandlerStep(w)
  PROVE  WorkersAreBacked'
<1>1. \A v \in Workers \ {w} : worker'[v] = worker[v]
  BY DEF TypeOK, HandlerStep, GoTo, Authorise, RecordAuthorisation, Capture, RecordCapture,
         ReadAssignment, PayOut, RecordPayout, RecordRelease
<1>2. PICK before \in Worker : before = worker[w] /\ WorkerIsBacked(before)'
  BY BackingStays DEF TypeOK, WorkersAreBacked
<1>3. before.at \in Handling
  BY <1>2 DEF HandlerStep, Authorise, RecordAuthorisation, Capture, RecordCapture,
              ReadAssignment, PayOut, RecordPayout, RecordRelease, Handling,
              AuthoriseStages, CaptureStages, ReleaseStages
<1>4. PICK j \in Jobs :
        /\ j = before.msg.job /\ j = JobOf(w)
        /\ StageIsBacked(before.at, before.msg, before.payee)
        /\ StageIsBacked(before.at, before.msg, before.payee)'
  BY <1>2, <1>3, BackingOfHandlers DEF WorkerIsBacked, JobOf
<1>5. ASSUME NEW stage, NEW payee,
             worker'[w] = [before EXCEPT !.at = stage, !.payee = payee],
             StageIsBacked(stage, before.msg, payee)'
      PROVE  WorkersAreBacked'
  <2>1. /\ worker'[w].at = stage /\ worker'[w].payee = payee
        /\ worker'[w].msg = before.msg /\ worker'[w].batch = before.batch
    BY <1>5 DEF Worker
  <2>2. WorkerIsBacked(worker[w])'
    BY <1>2, <1>3, <1>5, <2>1 DEF WorkerIsBacked, StageIsBacked
  <2> QED
    BY <1>1, <2>2, BackingOfOthers
<1>6. ASSUME NEW stage, GoTo(w, stage), StageIsBacked(stage, before.msg, before.payee)'
      PROVE  WorkersAreBacked'
  <2>1. worker'[w] = [before EXCEPT !.at = stage, !.payee = before.payee]
    BY <1>2, <1>6 DEF GoTo, TypeOK, Worker
  <2> QED
    BY <1>5, <1>6, <2>1
<1> DEFINE Backed(stage) == StageIsBacked(stage, before.msg, before.payee)'
<1>7. Backed("done") /\ Backed("authorise")
  BY DEF StageIsBacked, CaptureStages
<1>8. CASE Authorise(w)
  <2>1. j \in held'
    BY <1>4, <1>8 DEF Authorise
  <2>2. Backed("authorised")
    BY <1>4, <2>1 DEF StageIsBacked, CaptureStages
  <2> QED
    BY <1>6, <1>8, <2>2 DEF Authorise
<1>9. CASE RecordAuthorisation(w) \/ RecordPayout(w) \/ RecordRelease(w)
  BY <1>6, <1>7, <1>9 DEF RecordAuthorisation, RecordPayout, RecordRelease
<1>10. CASE Capture(w)
  <2>1. j \in captured' /\ before.at = "capture"
    BY <1>2, <1>4, <1>10 DEF Capture
  <2>2. Backed("captured")
    BY <1>4, <2>1 DEF StageIsBacked, CaptureStages
  <2> QED
    BY <1>6, <1>10, <2>2 DEF Capture
<1>11. CASE RecordCapture(w)
  <2>1. ledger'[j]["CAPTURE"] > 0 /\ before.at = "captured"
    BY <1>2, <1>4, <1>11, RecordGrows DEF RecordCapture, TypeOK, Kinds
  <2>2. Backed("assignment")
    BY <1>4, <2>1 DEF StageIsBacked, CaptureStages
  <2> QED
    BY <1>6, <1>7, <1>11, <2>2 DEF RecordCapture, AfterCapture
<1>12. CASE ReadAssignment(w)
  <2>1. before.at = "assignment" /\ claims'[j] = claims[j]
    BY <1>2, <1>12 DEF ReadAssignment, jobVars
  <2>2. CASE GoTo(w, "done")
    BY <1>6, <1>7, <2>2
  <2>3. ASSUME NEW p \in claims[j],
               worker' = [worker EXCEPT ![w].at = "payout", ![w].payee = p]
        PROVE  WorkersAreBacked'
    <3>1. claims'[j] = {p}
      BY <2>1 DEF OneClaim
    <3>2. StageIsBacked("payout", before.msg, p)'
      BY <1>4, <2>1, <3>1 DEF StageIsBacked, CaptureStages
    <3>3. worker'[w] = [before EXCEPT !.at = "payout", !.payee = p]
      BY <1>2, <2>3 DEF TypeOK
    <3> QED
      BY <1>5, <3>2, <3>3
  <2> QED
    BY <1>4, <1>12, <2>2, <2>3 DEF ReadAssignment
<1>13. CASE PayOut(w)
  <2>1. before.at = "payout" /\ paid'[j] # {}
    BY <1>2, <1>4, <1>13, ZenonT(60) DEF PayOut, TypeOK
  <2>2. Backed("paid")
    BY <1>4, <2>1 DEF StageIsBacked, CaptureStages
  <2> QED
    BY <1>6, <1>13, <2>2 DEF PayOut
<1> QED
  BY <1>8, <1>9, <1>10, <1>11, <1>12, <1>13 DEF HandlerStep

LEMMA BackingStep == IInv /\ [Next]_vars => WorkersAreBacked'
<1> SUFFICES ASSUME IInv, [Next]_vars PROVE WorkersAreBacked'
  OBVIOUS
<1> USE DEF IInv
<1>0. NothingIsUndone
  BY NothingUndone
<1>1. CASE JobStep \/ ClockStep \/ UNCHANGED vars
  <2>1. UNCHANGED worker
    BY <1>1 DEF JobStep, CreateJob, MoveJob, ApproveQuote, AwardJob, ReopenJob,
                ExpireAcceptedOffer, ClockStep, vars
  <2> QED
    BY <1>0, <2>1, BackingOfUnmoved
<1>2. ASSUME NEW w \in Workers, DrainStep(w) \/ HandlerFails(w) \/ WorkerDies(w)
      PROVE  WorkersAreBacked'
  BY <1>0, <1>2, BackingOfMoves, BackingOfReads, BackingOfHandlerSteps DEF DrainStep
<1> QED
  BY <1>1, <1>2 DEF Next

-----------------------------------------------------------------------------
(* The inductive invariant and the theorems *)

LEMMA InvInit == Init => IInv
<1> SUFFICES ASSUME Init PROVE IInv
  OBVIOUS
<1>1. TypeOK
  BY TypeInit
<1>2. MessagesAreTrue /\ OneClaim
  BY DEF Init, Broker!Init, MessagesAreTrue, OneClaim
<1>3. BooksAgree
  BY DEF Init, BooksAgree, Books, Kinds
<1>4. WorkersAreBacked
  BY DEF Init, WorkersAreBacked, WorkerIsBacked, Resting, Handling, AuthoriseStages,
         CaptureStages, ReleaseStages
<1> QED
  BY <1>1, <1>2, <1>3, <1>4 DEF IInv

LEMMA InvStep == IInv /\ [Next]_vars => IInv'
<1>1. IInv /\ [Next]_vars => TypeOK' /\ MessagesAreTrue' /\ OneClaim'
  BY TypeStep, MessagesStayTrue, OneClaimStep DEF IInv
<1> QED
  BY <1>1, BooksStep, BackingStep DEF IInv

THEOREM Invariance == Spec => []IInv
BY InvInit, InvStep, PTL DEF Spec

\* Every variable keeps its type: in particular a payout always has a payee.
THEOREM TypeCorrect == Spec => []TypeOK
BY Invariance, PTL DEF IInv

\* However late, often and concurrently the completion and the cancellation of
\* jobs are handled, no hold is both captured and released.
THEOREM CaptureExcludesRelease == Spec => []NeverCapturedAndReleased
<1>1. IInv => NeverCapturedAndReleased
  BY DEF IInv, BooksAgree, Books, NeverCapturedAndReleased, Recorded
<1> QED
  BY <1>1, Invariance, PTL

\* The gateway takes money only for completed work with a recorded hold.
THEOREM CaptureNeedsCompletion == Spec => []CapturedForCompletedWork
<1>1. IInv => CapturedForCompletedWork
  BY DEF IInv, TypeOK, BooksAgree, Books, CapturedForCompletedWork, Recorded, Kinds
<1> QED
  BY <1>1, Invariance, PTL

\* Every payout of a job goes to the one provider that holds it, however many
\* held it before and however many workers handle its completion.
THEOREM HolderIsPaid == Spec => []PaidToTheHolder
<1>1. IInv => PaidToTheHolder
  BY DEF IInv, BooksAgree, Books, PaidToTheHolder
<1> QED
  BY <1>1, Invariance, PTL

\* The ledger never says more than the gateway has done.
THEOREM GatewayFirst == Spec => []LedgerFollowsGateway
<1>1. IInv => LedgerFollowsGateway
  BY DEF IInv, BooksAgree, Books, LedgerFollowsGateway, Recorded
<1> QED
  BY <1>1, Invariance, PTL

-----------------------------------------------------------------------------
(* A delivered message stays delivered *)

LEMMA SentStays ==
  ASSUME TypeOK, WorkersAreBacked, [Next]_vars, NEW k \in Keys, outbox[k].status = "SENT"
  PROVE  outbox'[k].status = "SENT"
<1> USE DEF TypeOK
<1>1. ASSUME NEW keys, Enqueue(keys) PROVE outbox'[k].status = "SENT"
  BY <1>1 DEF Enqueue, NoRow
<1>2. CASE JobStep
  BY <1>1, <1>2 DEF JobStep, CreateJob, MoveJob, ApproveQuote, AwardJob, ReopenJob,
                    ExpireAcceptedOffer
<1>3. ASSUME NEW w \in Workers, Claim(w) PROVE outbox'[k].status = "SENT"
  <2>1. PICK keys \in Batches : outbox' = Claimed(keys)
    BY <1>3 DEF Claim
  <2>2. k \notin keys
    BY DEF Batches, Claimable
  <2> QED
    BY <2>1, <2>2 DEF Claimed
<1>4. ASSUME NEW w \in Workers, MarkDelivered(w) PROVE outbox'[k].status = "SENT"
  BY <1>4 DEF MarkDelivered, Delivered, Row
<1>5. ASSUME NEW w \in Workers, MarkFailed(w) PROVE outbox'[k].status = "SENT"
  <2>1. CASE FailureRefused(worker[w].msg)
    BY <1>5, <2>1 DEF MarkFailed
  <2>2. CASE ~FailureRefused(worker[w].msg)
    <3>1. worker[w].msg # k
      BY <2>2 DEF FailureRefused
    <3> QED
      BY <1>5, <2>2, <3>1 DEF MarkFailed, Failed
  <2> QED
    BY <2>1, <2>2
<1>6. ASSUME NEW w \in Workers,
             ReadLedger(w) \/ HandlerStep(w) \/ HandlerFails(w) \/ WorkerDies(w)
      PROVE  outbox'[k].status = "SENT"
  BY <1>6
     DEF ReadLedger, HandlerFails, WorkerDies, HandlerStep, Authorise, RecordAuthorisation,
         Capture, RecordCapture, ReadAssignment, PayOut, RecordPayout, RecordRelease
<1>7. CASE ClockStep \/ UNCHANGED vars
  <2>1. ASSUME NEW l \in Keys, TimePasses(l) PROVE outbox'[k].status = "SENT"
    <3>1. l # k
      BY <2>1 DEF TimePasses
    <3> QED
      BY <2>1, <3>1 DEF TimePasses
  <2> QED
    BY <1>7, <2>1 DEF ClockStep, vars
<1> QED
  BY <1>2, <1>3, <1>4, <1>5, <1>6, <1>7 DEF Next, DrainStep

\* A failure of an outlived claim never puts a delivered message back.
THEOREM DeliveryIsFinal == Spec => DeliveredStaysDelivered
<1>1. IInv /\ [Next]_vars
        => [\A k \in Keys : outbox[k].status = "SENT" => outbox'[k].status = "SENT"]_vars
  BY SentStays DEF IInv
<1> QED
  BY <1>1, Invariance, PTL DEF Spec, DeliveredStaysDelivered

-----------------------------------------------------------------------------
(* Payments implement Escrow *)

\* What became of the money, read off the books.
FundsOfBooks(j) ==
  /\ ledger[j]["AUTHORISATION"] = 0 => Funds(j) = "NONE"
  /\ /\ ledger[j]["AUTHORISATION"] > 0 /\ ledger[j]["CAPTURE"] = 0
     /\ ledger[j]["AUTHORISATION_VOID"] = 0
     => Funds(j) = "HELD"
  /\ ledger[j]["CAPTURE"] > 0 /\ ledger[j]["PAYOUT"] = 0 => Funds(j) = "TAKEN"
  /\ ledger[j]["PAYOUT"] > 0 => Funds(j) = "PAID"
  /\ ledger[j]["AUTHORISATION_VOID"] > 0 => Funds(j) = "RELEASED"

FundsFollowBooks == \A j \in Jobs : FundsOfBooks(j)

LEMMA FundsNow == IInv => FundsFollowBooks
<1> SUFFICES ASSUME IInv, NEW j \in Jobs PROVE FundsOfBooks(j)
  BY DEF FundsFollowBooks
<1>1. \A kind \in Kinds : ledger[j][kind] \in Nat
  BY DEF IInv, TypeOK
<1>2. \A kind \in Kinds : kind \in Recorded(j) <=> ledger[j][kind] > 0
  BY DEF Recorded
<1> QED
  BY <1>1, <1>2 DEF IInv, BooksAgree, Books, Funds, FundsOfBooks, Kinds

LEMMA FundsNext == IInv' => FundsFollowBooks'
BY FundsNow, PTL

LEMMA PromiseInit == Init => Promise!Init
<1> SUFFICES ASSUME Init PROVE Promise!Init
  OBVIOUS
<1>1. \A j \in Jobs : Recorded(j) = {}
  BY DEF Init, Recorded
<1>2. FundsMap = [j \in Jobs |-> "NONE"]
  BY <1>1 DEF FundsMap, Funds
<1>3. PayeesMap = [j \in Jobs |-> {}]
  BY DEF Init, PayeesMap
<1>4. OverMap = [j \in Jobs |-> "OPEN"]
  BY DEF Init, Broker!Init, OverMap
<1> QED
  BY <1>2, <1>3, <1>4 DEF Promise!Init

\* A step that leaves ledger, payouts and terminal statuses alone is a stutter.
LEMMA PromiseStutters ==
  ASSUME UNCHANGED <<ledger, paid, status>>
  PROVE  UNCHANGED Promise!vars
BY DEF Promise!vars, FundsMap, Funds, Recorded, PayeesMap, OverMap

\* A move that ends the job closes it; no other move is visible.
LEMMA PromiseOfJobs == TypeOK /\ JobStep => [Promise!Next]_Promise!vars
<1> SUFFICES ASSUME TypeOK, NEW j \in Jobs,
                    \/ CreateJob(j)
                    \/ \E to \in Broker!Statuses : MoveJob(j, to)
                    \/ \E q \in Quotes : ApproveQuote(j, q)
                    \/ \E p \in Providers :
                         AwardJob(j, p) \/ ReopenJob(j, p) \/ ExpireAcceptedOffer(j, p)
             PROVE  [Promise!Next]_Promise!vars
  BY DEF JobStep
<1> DEFINE Ended(s) == IF s \in {"COMPLETED", "CANCELLED"} THEN s ELSE "OPEN"
<1>1. UNCHANGED <<FundsMap, PayeesMap>>
  <2>1. UNCHANGED <<ledger, paid>>
    BY DEF CreateJob, MoveJob, ApproveQuote, AwardJob, ReopenJob, ExpireAcceptedOffer,
           gatewayVars
  <2> QED
    BY <2>1 DEF FundsMap, Funds, Recorded, PayeesMap
<1>2. ASSUME NEW to, status' = [status EXCEPT ![j] = to], Ended(status[j]) = "OPEN"
      PROVE  [Promise!Next]_Promise!vars
  <2>1. OverMap' = [OverMap EXCEPT ![j] = Ended(to)] /\ OverMap[j] = "OPEN"
    BY <1>2 DEF OverMap, TypeOK
  <2>2. CASE Ended(to) = "OPEN"
    <3>1. OverMap' = OverMap
      BY <2>1, <2>2 DEF OverMap
    <3> QED
      BY <1>1, <3>1 DEF Promise!vars
  <2>3. CASE Ended(to) # "OPEN"
    <3>1. Ended(to) \in {"COMPLETED", "CANCELLED"}
      BY <2>3
    <3>2. Promise!Close(j)
      BY <1>1, <2>1, <3>1 DEF Promise!Close
    <3> QED
      BY <3>2 DEF Promise!Next
  <2> QED
    BY <2>2, <2>3
<1>3. ASSUME NEW from, NEW to, from = status[j], Broker!CanTransition(from, to)
      PROVE  Ended(status[j]) = "OPEN"
  BY <1>3, TerminalIsFinal DEF Broker!Terminal
<1>4. CASE CreateJob(j)
  BY <1>2, <1>4 DEF CreateJob, Broker!Create
<1>5. ASSUME NEW to \in Broker!Statuses, MoveJob(j, to) PROVE [Promise!Next]_Promise!vars
  BY <1>2, <1>3, <1>5 DEF MoveJob, Broker!Move
<1>6. ASSUME NEW p \in Providers, AwardJob(j, p) \/ ReopenJob(j, p)
      PROVE  [Promise!Next]_Promise!vars
  BY <1>2, <1>3, <1>6 DEF AwardJob, Broker!Award, ReopenJob, Broker!FallThrough
<1>7. ASSUME UNCHANGED <<ledger, paid, status>> PROVE [Promise!Next]_Promise!vars
  BY <1>7, PromiseStutters
<1>8. ASSUME NEW q \in Quotes, ApproveQuote(j, q) PROVE [Promise!Next]_Promise!vars
  BY <1>7, <1>8 DEF ApproveQuote, Broker!Agree, gatewayVars
<1>9. ASSUME NEW p \in Providers, ExpireAcceptedOffer(j, p) PROVE [Promise!Next]_Promise!vars
  BY <1>7, <1>9 DEF ExpireAcceptedOffer, gatewayVars
<1> QED
  BY <1>4, <1>5, <1>6, <1>8, <1>9

\* An append to the ledger advances the money of its job, or repeats an entry.
LEMMA PromiseOfAppends ==
  ASSUME TypeOK, NEW j \in Jobs, NEW kind \in Kinds,
         Record(j, kind), UNCHANGED <<paid, status>>
  PROVE  /\ UNCHANGED <<PayeesMap, OverMap>>
         /\ FundsMap' = [FundsMap EXCEPT ![j] = Funds(j)']
         /\ ledger[j][kind] > 0 => UNCHANGED Promise!vars
<1>1. UNCHANGED <<PayeesMap, OverMap>>
  BY DEF PayeesMap, OverMap
<1>2. \A i \in Jobs, other \in Kinds :
        i # j \/ other # kind => ledger'[i][other] = ledger[i][other]
  BY RecordGrows DEF TypeOK
<1>3. ASSUME NEW i \in Jobs \ {j} PROVE Funds(i)' = Funds(i)
  BY <1>2 DEF Funds, Recorded
<1>4. FundsMap' = [FundsMap EXCEPT ![j] = Funds(j)']
  BY <1>3 DEF FundsMap
<1>5. ASSUME ledger[j][kind] > 0 PROVE UNCHANGED Promise!vars
  <2>1. Recorded(j)' = Recorded(j)
    BY <1>2, <1>5, RecordGrows DEF Recorded, TypeOK
  <2>2. Funds(j)' = Funds(j)
    BY <2>1 DEF Funds
  <2>3. FundsMap' = FundsMap
    BY <1>4, <2>2 DEF FundsMap
  <2> QED
    BY <1>1, <2>3 DEF Promise!vars
<1> QED
  BY <1>1, <1>4, <1>5

LEMMA PromiseOfHandlers ==
  ASSUME IInv, IInv', NEW w \in Workers, HandlerStep(w)
  PROVE  [Promise!Next]_Promise!vars
<1> USE DEF IInv
<1>1. worker[w].at \in Handling
  BY DEF HandlerStep, Authorise, RecordAuthorisation, Capture, RecordCapture,
         ReadAssignment, PayOut, RecordPayout, RecordRelease, Handling,
         AuthoriseStages, CaptureStages, ReleaseStages
<1>2. PICK j \in Jobs :
        /\ j = JobOf(w) /\ j = worker[w].msg.job
        /\ StageIsBacked(worker[w].at, worker[w].msg, worker[w].payee)
        /\ MessageIsTrue(worker[w].msg)
  BY <1>1, BackingOfHandlers DEF JobOf
<1>3. Books(j) /\ Books(j)' /\ FundsOfBooks(j) /\ FundsOfBooks(j)'
  BY FundsNow, FundsNext DEF BooksAgree, FundsFollowBooks
<1>4. \A kind \in Kinds : ledger[j][kind] \in Nat /\ ledger'[j][kind] \in Nat
  BY DEF TypeOK
<1>5. /\ FundsMap[j] = Funds(j)
      /\ PayeesMap[j] = {payout.to : payout \in paid[j]}
      /\ status[j] \in {"COMPLETED", "CANCELLED"} => OverMap[j] = status[j]
  BY DEF FundsMap, PayeesMap, OverMap
<1>6. CASE Authorise(w) \/ Capture(w) \/ ReadAssignment(w)
  BY <1>6, PromiseStutters DEF Authorise, Capture, ReadAssignment, jobVars, gatewayVars
<1>7. CASE RecordAuthorisation(w)
  <2>1. Record(j, "AUTHORISATION") /\ UNCHANGED <<paid, status>>
    BY <1>2, <1>7 DEF RecordAuthorisation, jobVars, gatewayVars
  <2>2. CASE ledger[j]["AUTHORISATION"] > 0
    BY <2>1, <2>2, PromiseOfAppends DEF Kinds
  <2>3. CASE ledger[j]["AUTHORISATION"] = 0
    <3>1. ledger'[j]["AUTHORISATION"] > 0 /\ ledger'[j]["CAPTURE"] = ledger[j]["CAPTURE"]
          /\ ledger'[j]["AUTHORISATION_VOID"] = ledger[j]["AUTHORISATION_VOID"]
      BY <2>1, RecordGrows DEF TypeOK, Kinds
    <3>2. ledger[j]["CAPTURE"] = 0 /\ ledger[j]["AUTHORISATION_VOID"] = 0
      BY <1>3, <1>4, <2>3 DEF Books, Kinds
    <3>3. Funds(j) = "NONE" /\ Funds(j)' = "HELD"
      BY <1>3, <2>3, <3>1, <3>2 DEF FundsOfBooks
    <3>4. Promise!Hold(j)
      BY <1>5, <2>1, <3>3, PromiseOfAppends DEF Promise!Hold, Promise!Advance, Kinds
    <3> QED
      BY <3>4 DEF Promise!Next
  <2> QED
    BY <1>4, <2>2, <2>3 DEF Kinds
<1>8. CASE RecordCapture(w)
  <2>1. Record(j, "CAPTURE") /\ UNCHANGED <<paid, status>> /\ j \in captured
    BY <1>2, <1>8
       DEF RecordCapture, StageIsBacked, CaptureStages, jobVars, gatewayVars
  <2>2. CASE ledger[j]["CAPTURE"] > 0
    BY <2>1, <2>2, PromiseOfAppends DEF Kinds
  <2>3. CASE ledger[j]["CAPTURE"] = 0
    <3>1. ledger'[j]["CAPTURE"] > 0 /\ ledger'[j]["PAYOUT"] = ledger[j]["PAYOUT"]
      BY <2>1, RecordGrows DEF TypeOK, Kinds
    <3>2. /\ status[j] = "COMPLETED" /\ ledger[j]["AUTHORISATION"] > 0
          /\ ledger[j]["AUTHORISATION_VOID"] = 0 /\ ledger[j]["PAYOUT"] = 0
      BY <1>3, <1>4, <2>1, <2>3 DEF Books, Kinds
    <3>3. Funds(j) = "HELD" /\ Funds(j)' = "TAKEN"
      BY <1>3, <2>3, <3>1, <3>2 DEF FundsOfBooks
    <3>4. Promise!Capture(j)
      BY <1>5, <2>1, <3>2, <3>3, PromiseOfAppends DEF Promise!Capture, Promise!Advance, Kinds
    <3> QED
      BY <3>4 DEF Promise!Next
  <2> QED
    BY <1>4, <2>2, <2>3 DEF Kinds
<1>9. CASE PayOut(w)
  <2> DEFINE p == worker[w].payee
  <2>1. claims[j] = {p} /\ ledger[j]["CAPTURE"] > 0
    BY <1>2, <1>9 DEF PayOut, StageIsBacked, CaptureStages
  <2>2. UNCHANGED <<FundsMap, OverMap>>
    BY <1>9 DEF PayOut, jobVars, FundsMap, Funds, Recorded, OverMap
  <2>3. CASE paid[j] # {}
    <3>1. UNCHANGED paid
      BY <1>2, <1>3, <1>9, <2>1, <2>3 DEF PayOut, Books
    <3> QED
      BY <2>2, <3>1 DEF PayeesMap, Promise!vars
  <2>4. CASE paid[j] = {}
    <3>1. p \in Providers
      BY <2>1 DEF TypeOK
    <3>2. PICK payout : /\ paid' = [paid EXCEPT ![j] = paid[j] \cup {payout}]
                        /\ payout.to = p
      <4>1. PICK r : paid' = [paid EXCEPT ![j] = paid[j] \cup {[to |-> p, offerOf |-> r]}]
        BY <1>2, <1>9, <2>4 DEF PayOut
      <4>2. [to |-> p, offerOf |-> r].to = p
        OBVIOUS
      <4> HIDE DEF p
      <4> WITNESS [to |-> p, offerOf |-> r]
      <4> QED
        BY <4>1, <4>2
    <3>3. PayeesMap' = [PayeesMap EXCEPT ![j] = {p}] /\ PayeesMap[j] = {}
      <4> DEFINE Payees(payouts) == {payment.to : payment \in payouts}
      <4>1. paid'[j] = {payout} /\ \A i \in Jobs \ {j} : paid'[i] = paid[i]
        BY <2>4, <3>2 DEF TypeOK
      <4>2. Payees(paid'[j]) = {p} /\ Payees(paid[j]) = {}
        BY <2>4, <3>2, <4>1
      <4>3. \A i \in Jobs \ {j} : Payees(paid'[i]) = Payees(paid[i])
        BY <4>1
      <4> HIDE DEF Payees
      <4>4. PayeesMap = [i \in Jobs |-> Payees(paid[i])]
        BY DEF PayeesMap, Payees
      <4>5. PayeesMap' = [i \in Jobs |-> Payees(paid'[i])]
        BY DEF PayeesMap, Payees
      <4> QED
        BY <4>2, <4>3, <4>4, <4>5
    <3>4. FundsMap[j] = "TAKEN"
      BY <1>3, <1>4, <1>5, <2>1, <2>4 DEF FundsOfBooks, Books, Kinds
    <3>5. Promise!Pay(j, p)
      BY <2>2, <3>3, <3>4 DEF Promise!Pay
    <3> QED
      BY <3>1, <3>5 DEF Promise!Next
  <2> QED
    BY <2>3, <2>4
<1>10. CASE RecordPayout(w)
  <2>1. Record(j, "PAYOUT") /\ UNCHANGED <<paid, status>> /\ paid[j] # {}
    BY <1>2, <1>10
       DEF RecordPayout, StageIsBacked, CaptureStages, jobVars, gatewayVars
  <2>2. CASE ledger[j]["PAYOUT"] > 0
    BY <2>1, <2>2, PromiseOfAppends DEF Kinds
  <2>3. CASE ledger[j]["PAYOUT"] = 0
    <3>1. ledger'[j]["PAYOUT"] > 0
      BY <2>1, RecordGrows DEF TypeOK, Kinds
    <3>2. Funds(j) = "TAKEN" /\ Funds(j)' = "PAID"
      BY <1>3, <2>1, <2>3, <3>1 DEF FundsOfBooks, Books
    <3>3. PayeesMap[j] # {}
      BY <1>5, <2>1
    <3>4. Promise!Settle(j)
      BY <1>5, <2>1, <3>2, <3>3, PromiseOfAppends DEF Promise!Settle, Promise!Advance, Kinds
    <3> QED
      BY <3>4 DEF Promise!Next
  <2> QED
    BY <1>4, <2>2, <2>3 DEF Kinds
<1>11. CASE RecordRelease(w)
  <2>1. /\ Record(j, "AUTHORISATION_VOID") /\ UNCHANGED <<paid, status>>
        /\ status[j] = "CANCELLED" /\ ledger[j]["AUTHORISATION"] > 0
    BY <1>2, <1>11
       DEF RecordRelease, StageIsBacked, MessageIsTrue, jobVars, gatewayVars
  <2>2. CASE ledger[j]["AUTHORISATION_VOID"] > 0
    BY <2>1, <2>2, PromiseOfAppends DEF Kinds
  <2>3. CASE ledger[j]["AUTHORISATION_VOID"] = 0
    <3>1. ledger'[j]["AUTHORISATION_VOID"] > 0
      BY <2>1, RecordGrows DEF TypeOK, Kinds
    <3>2. ledger[j]["CAPTURE"] = 0
      BY <1>3, <1>4, <2>1 DEF Books, Kinds
    <3>3. Funds(j) = "HELD" /\ Funds(j)' = "RELEASED"
      BY <1>3, <2>1, <2>3, <3>1, <3>2 DEF FundsOfBooks
    <3>4. Promise!Release(j)
      BY <1>5, <2>1, <3>3, PromiseOfAppends DEF Promise!Release, Promise!Advance, Kinds
    <3> QED
      BY <3>4 DEF Promise!Next
  <2> QED
    BY <1>4, <2>2, <2>3 DEF Kinds
<1> QED
  BY <1>6, <1>7, <1>8, <1>9, <1>10, <1>11 DEF HandlerStep

LEMMA PromiseStep == IInv /\ IInv' /\ [Next]_vars => [Promise!Next]_Promise!vars
<1> SUFFICES ASSUME IInv, IInv', [Next]_vars PROVE [Promise!Next]_Promise!vars
  OBVIOUS
<1>1. CASE JobStep
  BY <1>1, PromiseOfJobs DEF IInv
<1>2. ASSUME NEW w \in Workers, HandlerStep(w) PROVE [Promise!Next]_Promise!vars
  BY <1>2, PromiseOfHandlers
<1>3. ASSUME NEW w \in Workers,
             \/ Claim(w) \/ ReadLedger(w) \/ MarkDelivered(w) \/ MarkFailed(w)
             \/ HandlerFails(w) \/ WorkerDies(w)
      PROVE  [Promise!Next]_Promise!vars
  BY <1>3, PromiseStutters
     DEF Claim, ReadLedger, MarkDelivered, MarkFailed, HandlerFails, WorkerDies, jobVars,
         gatewayVars
<1>4. CASE ClockStep \/ UNCHANGED vars
  BY <1>4, PromiseStutters DEF ClockStep, vars, jobVars, gatewayVars
<1> QED
  BY <1>1, <1>2, <1>3, <1>4 DEF Next, DrainStep

\* The deliveries, late, repeated and concurrent as they are, keep the promise of
\* Escrow: the holds, captures, payouts and releases a reader of the ledger sees
\* are steps of the abstract machine, and everything else is invisible.
THEOREM EscrowIsKept == Spec => KeepsEscrow
<1>1. Init => Promise!Init
  BY PromiseInit
<1>2. IInv /\ IInv' /\ [Next]_vars => [Promise!Next]_Promise!vars
  BY PromiseStep
<1> QED
  BY <1>1, <1>2, Invariance, PTL DEF Spec, KeepsEscrow, Promise!Spec

-----------------------------------------------------------------------------
(* What the promise of Escrow is worth, and so what payments are worth *)

EscrowTypes ==
  /\ FundsMap \in [Jobs -> {"NONE", "HELD", "TAKEN", "PAID", "RELEASED"}]
  /\ PayeesMap \in [Jobs -> SUBSET Providers]
  /\ OverMap \in [Jobs -> {"OPEN", "COMPLETED", "CANCELLED"}]

\* Besides what is promised: money that was taken was taken for completed work.
EscrowInv ==
  /\ EscrowTypes
  /\ \A j \in Jobs : FundsMap[j] \in {"TAKEN", "PAID"} => OverMap[j] = "COMPLETED"
  /\ Promise!PaidForWork

LEMMA EscrowInit == Promise!Init => EscrowInv
BY DEF Promise!Init, EscrowInv, EscrowTypes, Promise!PaidForWork

\* Only what Escrow allows is used: no step of Payments is looked at.
LEMMA EscrowStep == EscrowInv /\ [Promise!Next]_Promise!vars => EscrowInv'
<1> SUFFICES ASSUME EscrowInv, [Promise!Next]_Promise!vars PROVE EscrowInv'
  OBVIOUS
<1> USE DEF EscrowInv, EscrowTypes, Promise!PaidForWork, Promise!Advance
<1>1. ASSUME NEW j \in Jobs, Promise!Close(j) PROVE EscrowInv'
  BY <1>1 DEF Promise!Close
<1>2. ASSUME NEW j \in Jobs, Promise!Hold(j) PROVE EscrowInv'
  BY <1>2 DEF Promise!Hold
<1>3. ASSUME NEW j \in Jobs, Promise!Release(j) PROVE EscrowInv'
  BY <1>3 DEF Promise!Release
<1>4. ASSUME NEW j \in Jobs, Promise!Capture(j) PROVE EscrowInv'
  BY <1>4 DEF Promise!Capture
<1>5. ASSUME NEW j \in Jobs, NEW p \in Providers, Promise!Pay(j, p) PROVE EscrowInv'
  BY <1>5 DEF Promise!Pay
<1>6. ASSUME NEW j \in Jobs, Promise!Settle(j) PROVE EscrowInv'
  BY <1>6 DEF Promise!Settle
<1>7. CASE UNCHANGED Promise!vars
  BY <1>7 DEF Promise!vars
<1> QED
  BY <1>1, <1>2, <1>3, <1>4, <1>5, <1>6, <1>7 DEF Promise!Next

\* As the ledger shows it, one provider is paid, for completed work the customer
\* was charged for, and nothing is paid for a job whose hold was released.
THEOREM OneIsPaidForWork == Spec => []Promise!PaidForWork
<1>1. Promise!Spec => []EscrowInv
  BY EscrowInit, EscrowStep, PTL DEF Promise!Spec
<1>2. EscrowInv => Promise!PaidForWork
  BY DEF EscrowInv
<1> QED
  BY <1>1, <1>2, EscrowIsKept, PTL DEF KeepsEscrow

\* No delivery, however late or repeated, undoes what the ledger shows: a payout
\* has its payee for good, and a hold that was released or captured stays so.
THEOREM MoneyIsNeverUndone == Spec => Promise!NothingIsUndone
<1>1. ASSUME EscrowInv, [Promise!Next]_Promise!vars, NEW j \in Jobs
      PROVE  /\ PayeesMap[j] # {} => PayeesMap'[j] = PayeesMap[j]
             /\ FundsMap[j] \in {"PAID", "RELEASED"} => FundsMap'[j] = FundsMap[j]
             /\ FundsMap[j] = "TAKEN" => FundsMap'[j] \in {"TAKEN", "PAID"}
             /\ FundsMap[j] = "HELD" => FundsMap'[j] # "NONE"
  BY <1>1 DEF EscrowInv, EscrowTypes, Promise!Next, Promise!vars, Promise!Advance,
              Promise!Close, Promise!Hold, Promise!Release, Promise!Capture, Promise!Pay,
              Promise!Settle
<1>2. EscrowInv /\ [Promise!Next]_Promise!vars =>
        \A j \in Jobs :
          /\ PayeesMap[j] # {} => PayeesMap'[j] = PayeesMap[j]
          /\ FundsMap[j] \in {"PAID", "RELEASED"} => FundsMap'[j] = FundsMap[j]
          /\ FundsMap[j] = "TAKEN" => FundsMap'[j] \in {"TAKEN", "PAID"}
          /\ FundsMap[j] = "HELD" => FundsMap'[j] # "NONE"
  BY <1>1
<1>3. Promise!Spec => Promise!NothingIsUndone
  BY <1>2, EscrowInit, EscrowStep, PTL DEF Promise!Spec, Promise!NothingIsUndone
<1> QED
  BY <1>3, EscrowIsKept DEF KeepsEscrow

-----------------------------------------------------------------------------
(* What a delivered message has done *)

LEMMA JobsAreBrokered == [Next]_vars => [Broker!Next]_(Broker!vars)
<1> SUFFICES ASSUME [Next]_vars PROVE [Broker!Next]_(Broker!vars)
  OBVIOUS
<1>1. CASE JobStep
  BY <1>1, Zenon DEF JobStep, CreateJob, MoveJob, ApproveQuote, AwardJob, ReopenJob,
     ExpireAcceptedOffer, Broker!Next, Broker!vars
<1>2. ASSUME NEW w \in Workers, DrainStep(w) \/ HandlerFails(w) \/ WorkerDies(w)
      PROVE  UNCHANGED jobVars
  BY <1>2, Zenon DEF DrainStep, Claim, ReadLedger, MarkDelivered, MarkFailed, HandlerFails, WorkerDies,
     HandlerStep, Authorise, RecordAuthorisation, Capture, RecordCapture, ReadAssignment,
     PayOut, RecordPayout, RecordRelease
<1>3. CASE ClockStep \/ UNCHANGED vars
  BY <1>3 DEF ClockStep, vars, jobVars, Broker!vars
<1> QED
  BY <1>1, <1>2, <1>3 DEF Next, jobVars, Broker!vars

\* The jobs whose money is moved are those of Brokerage, and no worker touches
\* them: so completed work has the one provider behind it who is to be paid.
THEOREM JobsKeepThePromise == Spec => Broker!Spec /\ []Broker!WorkHasOneHolder
<1>1. Init => Broker!Init
  BY DEF Init
<1>2. Spec => Broker!Spec
  BY <1>1, JobsAreBrokered, PTL DEF Spec, Broker!Spec
<1> QED
  BY <1>2, Broker!WorkIsHeldByOne, PTL

\* The entry that a message is delivered for.
Outcome(topic) ==
  CASE topic = "quote.decided" -> "AUTHORISATION"
    [] topic = "job.completed" -> "PAYOUT"
    [] topic = "job.cancelled" -> "AUTHORISATION_VOID"

\* A handler that is done has recorded what its message is for, or found it
\* recorded, unless it saw no hold that could be taken or released.
HandledRight(record) ==
  LET j == record.msg.job
      topic == record.msg.topic
  IN  record.at \in Handling =>
        /\ \A kind \in record.seen : ledger[j][kind] > 0
        /\ record.at \in AuthoriseStages => topic = "quote.decided"
        /\ record.at = "done" /\ (topic = "quote.decided" \/ "AUTHORISATION" \in record.seen) =>
             ledger[j][Outcome(topic)] > 0

\* A decision that was delivered has its hold in the ledger.
DecisionsAreHeld ==
  \A k \in Keys :
    k.topic = "quote.decided" /\ outbox[k].status = "SENT" => "AUTHORISATION" \in Recorded(k.job)

HandledInv == DecisionsAreHeld /\ \A w \in Workers : HandledRight(worker[w])

\* What is recorded stays so, so a worker that does nothing stays right.
LEMMA RightStays ==
  ASSUME IInv, NothingIsUndone, NEW record \in Worker, WorkerIsBacked(record), HandledRight(record)
  PROVE  HandledRight(record)'
<1> SUFFICES ASSUME record.at \in Handling PROVE HandledRight(record)'
  BY DEF HandledRight
<1>1. record.msg \in Keys /\ record.msg.job \in Jobs /\ record.seen \subseteq Kinds
  BY KeyFields DEF WorkerIsBacked, Worker
<1>2. Outcome(record.msg.topic) \in Kinds
  BY <1>1, KeyFields DEF Outcome, Kinds
<1>3. \A kind \in Kinds : ledger[record.msg.job][kind] > 0 => ledger'[record.msg.job][kind] > 0
  BY <1>1 DEF NothingIsUndone
<1> QED
  BY <1>1, <1>2, <1>3 DEF HandledRight

\* What the ledger says when it is read.
LEMMA RightOfReads ==
  ASSUME TypeOK, MessagesAreTrue, BooksAgree, WorkersAreBacked, NEW w \in Workers,
         ReadLedger(w)
  PROVE  HandledRight(worker[w])'
<1>1. PICK before \in Worker : before = worker[w] /\ WorkerIsBacked(before)
  BY DEF TypeOK, WorkersAreBacked
<1>2. PICK claim \in before.batch, seen \in SUBSET Kinds :
        /\ seen = Recorded(claim[1].job)
        /\ worker'[w] = [at |-> FirstStage(claim[1].topic, seen),
                         batch |-> before.batch \ {claim}, msg |-> claim[1],
                         tries |-> claim[2], seen |-> seen, payee |-> None]
  BY <1>1 DEF ReadLedger, TypeOK, Recorded
<1>3. PICK k \in Keys : k = claim[1] /\ k.job \in Jobs /\ outbox[k] # NoRow
  BY <1>1, <1>2, KeyFields DEF Worker, WorkerIsBacked
<1>4. \A kind \in Kinds : kind \in seen <=> ledger'[k.job][kind] > 0
  BY <1>2, <1>3 DEF Recorded, ReadLedger
<1> DEFINE at == FirstStage(k.topic, seen)
<1>5. /\ at \in AuthoriseStages => k.topic = "quote.decided"
      /\ at = "done" /\ (k.topic = "quote.decided" \/ "AUTHORISATION" \in seen) =>
           Outcome(k.topic) \in seen
  <2>1. CASE k.topic = "quote.decided"
    BY <2>1 DEF FirstStage, AfterDecision, Outcome, AuthoriseStages
  <2>2. CASE k.topic = "job.completed"
    BY <2>2 DEF FirstStage, AfterCompletion, AfterCapture, Outcome, AuthoriseStages
  <2>3. CASE k.topic = "job.cancelled"
    <3>1. "CAPTURE" \notin seen
      BY <1>2, <1>3, <2>3 DEF Recorded, MessagesAreTrue, MessageIsTrue, BooksAgree, Books
    <3> QED
      BY <2>3, <3>1 DEF FirstStage, AfterCancellation, Outcome, AuthoriseStages
  <2> QED
    BY <2>1, <2>2, <2>3, KeyFields
<1>6. Outcome(k.topic) \in Kinds
  BY KeyFields DEF Outcome, Kinds
<1>7. /\ worker'[w].at = at /\ worker'[w].msg = k /\ worker'[w].seen = seen
  BY <1>2, <1>3
<1> HIDE DEF at
<1> QED
  BY <1>4, <1>5, <1>6, <1>7 DEF HandledRight

\* What is recorded before a handler is done.
LEMMA RightOfHandlerSteps ==
  ASSUME IInv, NothingIsUndone, Broker!WorkHasOneHolder, NEW w \in Workers,
         HandledRight(worker[w]), HandlerStep(w)
  PROVE  HandledRight(worker[w])'
<1> USE DEF IInv
<1>1. PICK before \in Worker : before = worker[w] /\ WorkerIsBacked(before)
  BY DEF TypeOK, WorkersAreBacked
<1>2. before.at \in Handling \ {"done"}
  BY <1>1 DEF HandlerStep, Authorise, RecordAuthorisation, Capture, RecordCapture,
              ReadAssignment, PayOut, RecordPayout, RecordRelease, Handling,
              AuthoriseStages, CaptureStages, ReleaseStages
<1>3. PICK k \in Keys, j \in Jobs :
        /\ k = before.msg /\ j = k.job /\ j = JobOf(w)
        /\ StageIsBacked(before.at, k, before.payee)
        /\ MessageIsTrue(k)
  BY <1>1, <1>2, BackingOfHandlers, AtWork DEF JobOf
<1>4. \A kind \in before.seen : kind \in Kinds /\ ledger'[j][kind] > 0
  BY <1>1, <1>2, <1>3 DEF HandledRight, NothingIsUndone, Worker
<1>5. ASSUME NEW stage, NEW payee,
             worker'[w] = [before EXCEPT !.at = stage, !.payee = payee],
             stage \in AuthoriseStages => k.topic = "quote.decided",
             stage = "done" => ledger'[j][Outcome(k.topic)] > 0
      PROVE  HandledRight(worker[w])'
  <2>1. worker'[w].at = stage /\ worker'[w].msg = k /\ worker'[w].seen = before.seen
    BY <1>3, <1>5 DEF Worker
  <2> QED
    BY <1>3, <1>4, <1>5, <2>1 DEF HandledRight
<1>6. ASSUME NEW stage, GoTo(w, stage),
             stage \in AuthoriseStages => k.topic = "quote.decided",
             stage = "done" => ledger'[j][Outcome(k.topic)] > 0
      PROVE  HandledRight(worker[w])'
  <2>1. worker'[w] = [before EXCEPT !.at = stage, !.payee = before.payee]
    BY <1>1, <1>6 DEF GoTo, TypeOK, Worker
  <2> QED
    BY <1>5, <1>6, <2>1
<1>7. CASE Authorise(w) \/ RecordAuthorisation(w)
  <2>1. k.topic = "quote.decided"
    BY <1>1, <1>2, <1>3, <1>7 DEF Authorise, RecordAuthorisation, HandledRight, AuthoriseStages
  <2>2. RecordAuthorisation(w) => ledger'[j]["AUTHORISATION"] > 0
    BY <1>3, RecordGrows DEF RecordAuthorisation, TypeOK, Kinds
  <2> QED
    BY <1>6, <1>7, <2>1, <2>2 DEF Authorise, RecordAuthorisation, Outcome
<1>8. CASE Capture(w) \/ PayOut(w)
  BY <1>6, <1>8 DEF Capture, PayOut, AuthoriseStages
<1>9. ASSUME RecordCapture(w) \/ ReadAssignment(w) \/ RecordPayout(w)
      PROVE  Outcome(k.topic) = "PAYOUT" /\ status[j] = "COMPLETED"
  BY <1>1, <1>3, <1>9 DEF RecordCapture, ReadAssignment, RecordPayout, StageIsBacked,
     CaptureStages, MessageIsTrue, Outcome
<1>10. CASE RecordCapture(w)
  BY <1>1, <1>4, <1>6, <1>9, <1>10 DEF RecordCapture, AfterCapture, AuthoriseStages
<1>11. CASE ReadAssignment(w)
  <2>1. claims[j] # {}
    BY <1>3, <1>9, <1>11 DEF Broker!WorkHasOneHolder, Broker!Held
  <2>2. PICK p \in claims[j] : worker' = [worker EXCEPT ![w].at = "payout", ![w].payee = p]
    BY <1>3, <1>11, <2>1 DEF ReadAssignment
  <2>3. worker'[w] = [before EXCEPT !.at = "payout", !.payee = p]
    BY <1>1, <2>2 DEF TypeOK
  <2> QED
    BY <1>5, <2>3 DEF AuthoriseStages
<1>12. CASE RecordPayout(w)
  <2>1. ledger'[j]["PAYOUT"] > 0
    BY <1>3, <1>12, RecordGrows DEF RecordPayout, TypeOK, Kinds
  <2> QED
    BY <1>6, <1>9, <1>12, <2>1 DEF RecordPayout, AuthoriseStages
<1>13. CASE RecordRelease(w)
  <2>1. ledger'[j]["AUTHORISATION_VOID"] > 0
    BY <1>3, <1>13, RecordGrows DEF RecordRelease, TypeOK, Kinds
  <2>2. Outcome(k.topic) = "AUTHORISATION_VOID"
    BY <1>1, <1>3, <1>13 DEF RecordRelease, StageIsBacked, Outcome
  <2> QED
    BY <1>6, <1>13, <2>1, <2>2 DEF RecordRelease, AuthoriseStages
<1> QED
  BY <1>7, <1>8, <1>10, <1>11, <1>12, <1>13 DEF HandlerStep

\* Only a worker that is done marks its message delivered.
LEMMA DeliveredWhenDone ==
  ASSUME TypeOK, [Next]_vars, NEW k \in Keys,
         outbox[k].status # "SENT", outbox'[k].status = "SENT"
  PROVE  \E w \in Workers : worker[w].at = "done" /\ worker[w].msg = k /\ UNCHANGED ledger
<1> SUFFICES ASSUME \A w \in Workers : MarkDelivered(w) => worker[w].msg # k
             PROVE  FALSE
  BY DEF MarkDelivered
<1>1. outbox \in [Keys -> Row]
  BY DEF TypeOK
<1>2. ASSUME NEW keys, Enqueue(keys) PROVE FALSE
  BY <1>2 DEF Enqueue, NewRow
<1>3. ASSUME NEW keys, outbox' = Claimed(keys) PROVE FALSE
  BY <1>1, <1>3 DEF Claimed, Row
<1>4. ASSUME NEW l, NEW tries, Failed(l, tries) PROVE FALSE
  BY <1>1, <1>4 DEF Failed
<1>5. ASSUME NEW l \in Keys, TimePasses(l) PROVE FALSE
  BY <1>1, <1>5 DEF TimePasses, Row
<1>6. ASSUME NEW w \in Workers, MarkDelivered(w) PROVE FALSE
  <2>1. worker[w].msg # k /\ Delivered(worker[w].msg)
    BY <1>6 DEF MarkDelivered
  <2> QED
    BY <1>1, <2>1 DEF Delivered
<1>7. outbox' # outbox
  OBVIOUS
<1>8. CASE JobStep \/ ClockStep \/ UNCHANGED vars
  BY <1>2, <1>5, <1>7, <1>8, Zenon
     DEF JobStep, CreateJob, MoveJob, ApproveQuote, AwardJob, ReopenJob,
         ExpireAcceptedOffer, ClockStep, vars
<1>9. ASSUME NEW w \in Workers, DrainStep(w) \/ HandlerFails(w) \/ WorkerDies(w) PROVE FALSE
  BY <1>3, <1>4, <1>6, <1>7, <1>9, Zenon
     DEF DrainStep, Claim, ReadLedger, MarkFailed, HandlerFails, WorkerDies,
         HandlerStep, Authorise, RecordAuthorisation, Capture, RecordCapture,
         ReadAssignment, PayOut, RecordPayout, RecordRelease
<1> QED
  BY <1>8, <1>9 DEF Next

LEMMA RestsAfterwards ==
  ASSUME TypeOK, NEW w \in Workers,
         Claim(w) \/ MarkDelivered(w) \/ MarkFailed(w) \/ HandlerFails(w) \/ WorkerDies(w)
  PROVE  worker'[w].at \in {"idle", "next", "failed"}
<1>1. worker \in [Workers -> Worker] /\ Resting.at = "idle"
  BY DEF TypeOK, Resting
<1>2. CASE MoveOn(w)
  BY <1>1, <1>2 DEF MoveOn, Resting
<1>3. CASE Claim(w)
  BY <1>1, <1>3 DEF Claim, Resting
<1>4. CASE worker' = [worker EXCEPT ![w] = Resting]
  BY <1>1, <1>4
<1>5. CASE HandlerFails(w)
  BY <1>1, <1>5 DEF HandlerFails, GoTo, Worker
<1> QED
  BY <1>2, <1>3, <1>4, <1>5 DEF MarkDelivered, MarkFailed, WorkerDies

\* A worker at rest, between two messages or failed has nothing to be right about.
LEMMA RightOfOtherSteps ==
  ASSUME TypeOK, NEW w \in Workers,
         Claim(w) \/ MarkDelivered(w) \/ MarkFailed(w) \/ HandlerFails(w) \/ WorkerDies(w)
  PROVE  HandledRight(worker[w])'
<1>1. worker'[w].at \in {"idle", "next", "failed"}
  BY RestsAfterwards
<1> QED
  BY <1>1 DEF HandledRight, Handling, AuthoriseStages, CaptureStages, ReleaseStages

\* A step is that of one worker, or of none.
LEMMA OthersWait ==
  ASSUME TypeOK, [Next]_vars
  PROVE  \/ UNCHANGED worker
         \/ \E w \in Workers :
              /\ DrainStep(w) \/ HandlerFails(w) \/ WorkerDies(w)
              /\ \A v \in Workers \ {w} : worker'[v] = worker[v]
<1>1. worker \in [Workers -> Worker]
  BY DEF TypeOK
<1>2. CASE JobStep \/ ClockStep \/ UNCHANGED vars
  BY <1>2 DEF JobStep, CreateJob, MoveJob, ApproveQuote, AwardJob, ReopenJob,
              ExpireAcceptedOffer, ClockStep, vars
<1>3. ASSUME NEW w \in Workers, DrainStep(w) \/ HandlerFails(w) \/ WorkerDies(w)
      PROVE  \A v \in Workers \ {w} : worker'[v] = worker[v]
  BY <1>1, <1>3
     DEF DrainStep, Claim, ReadLedger, MarkDelivered, MarkFailed, HandlerFails, WorkerDies,
         MoveOn, GoTo, HandlerStep, Authorise, RecordAuthorisation, Capture, RecordCapture,
         ReadAssignment, PayOut, RecordPayout, RecordRelease
<1> QED
  BY <1>2, <1>3 DEF Next

LEMMA HandledStep ==
  ASSUME HandledInv, IInv, Broker!WorkHasOneHolder, [Next]_vars
  PROVE  HandledInv'
<1>1. TypeOK /\ NothingIsUndone
  BY NothingUndone DEF IInv
<1>2. ASSUME NEW w \in Workers, worker'[w] = worker[w] PROVE HandledRight(worker[w])'
  <2>1. PICK record \in Worker :
          record = worker[w] /\ WorkerIsBacked(record) /\ HandledRight(record)
    BY DEF IInv, TypeOK, WorkersAreBacked, HandledInv
  <2>2. HandledRight(record)'
    BY <1>1, <2>1, RightStays
  <2> QED
    BY <1>2, <2>1, <2>2 DEF HandledRight
<1>3. ASSUME NEW w \in Workers, DrainStep(w) \/ HandlerFails(w) \/ WorkerDies(w)
      PROVE  HandledRight(worker[w])'
  BY <1>1, <1>3, RightOfReads, RightOfHandlerSteps, RightOfOtherSteps
     DEF DrainStep, IInv, HandledInv
<1>4. \A w \in Workers : HandledRight(worker[w])'
  BY <1>1, <1>2, <1>3, OthersWait
<1>5. ASSUME NEW k \in Keys, k.topic = "quote.decided", outbox'[k].status = "SENT"
      PROVE  ledger[k.job]["AUTHORISATION"] > 0
  <2>1. CASE outbox[k].status = "SENT"
    BY <1>5, <2>1 DEF HandledInv, DecisionsAreHeld, Recorded
  <2>2. CASE outbox[k].status # "SENT"
    <3>1. PICK w \in Workers : worker[w].at = "done" /\ worker[w].msg = k
      BY <1>1, <1>5, <2>2, DeliveredWhenDone
    <3> QED
      BY <1>5, <3>1 DEF HandledInv, HandledRight, Handling, Outcome
  <2> QED
    BY <2>1, <2>2
<1>6. DecisionsAreHeld'
  BY <1>1, <1>5, KeyFields DEF DecisionsAreHeld, NothingIsUndone, Recorded, Kinds
<1> QED
  BY <1>4, <1>6 DEF HandledInv

LEMMA HandledAlways == Spec => []HandledInv
<1>1. Init => HandledInv
  BY DEF Init, HandledInv, DecisionsAreHeld, HandledRight, NoRow, Resting, Handling,
         AuthoriseStages, CaptureStages, ReleaseStages
<1>2. HandledInv /\ IInv /\ Broker!WorkHasOneHolder /\ [Next]_vars => HandledInv'
  BY HandledStep
<1> QED
  BY <1>1, <1>2, Invariance, JobsKeepThePromise, PTL DEF Spec

\* However many workers read the same decision, however often it is redelivered:
\* once it is marked delivered its hold is in the ledger, for good.
THEOREM DeliveredDecisionsAreHeld == Spec => []DecisionsAreHeld
<1>1. HandledInv => DecisionsAreHeld
  BY DEF HandledInv
<1> QED
  BY <1>1, HandledAlways, PTL

\* A message is marked delivered only by a worker for which its entry is in the
\* ledger, or which saw no hold that it could take or release.
DeliveredMeansRecorded ==
  [][\A k \in Keys :
       outbox[k].status # "SENT" /\ outbox'[k].status = "SENT" =>
         \/ Outcome(k.topic) \in Recorded(k.job)
         \/ /\ k.topic # "quote.decided"
            /\ \E w \in Workers : worker[w].msg = k /\ "AUTHORISATION" \notin worker[w].seen]_vars

\* No payment is lost between a handler and its delivery mark: a completed job is
\* not ticked off before its payout, nor a cancelled one before its release,
\* except by a worker that came before the hold.
THEOREM NoPaymentIsLost == Spec => DeliveredMeansRecorded
<1>1. ASSUME HandledInv, IInv, [Next]_vars, NEW k \in Keys,
             outbox[k].status # "SENT", outbox'[k].status = "SENT"
      PROVE  \/ Outcome(k.topic) \in Recorded(k.job)
             \/ /\ k.topic # "quote.decided"
                /\ \E w \in Workers : worker[w].msg = k /\ "AUTHORISATION" \notin worker[w].seen
  <2>1. PICK w \in Workers : worker[w].at = "done" /\ worker[w].msg = k
    BY <1>1, DeliveredWhenDone DEF IInv
  <2>2. \/ ledger[k.job][Outcome(k.topic)] > 0
        \/ k.topic # "quote.decided" /\ "AUTHORISATION" \notin worker[w].seen
    BY <1>1, <2>1 DEF HandledInv, HandledRight, Handling
  <2>3. Outcome(k.topic) \in Kinds
    BY KeyFields DEF Outcome, Kinds
  <2> QED
    BY <2>1, <2>2, <2>3 DEF Recorded
<1>2. HandledInv /\ IInv /\ [Next]_vars =>
        [\A k \in Keys :
           outbox[k].status # "SENT" /\ outbox'[k].status = "SENT" =>
             \/ Outcome(k.topic) \in Recorded(k.job)
             \/ /\ k.topic # "quote.decided"
                /\ \E w \in Workers :
                     worker[w].msg = k /\ "AUTHORISATION" \notin worker[w].seen]_vars
  BY <1>1
<1> QED
  BY <1>2, Invariance, HandledAlways, PTL DEF Spec, DeliveredMeansRecorded

-----------------------------------------------------------------------------
(* Entries are counted: redelivery leaves no more entries of a kind in the   *)
(* ledger of a job than there are workers, for every number of them.         *)

\* The kinds of entries a handler is on its way to append.
Intents(record) ==
  {kind \in Kinds :
    \/ kind = "AUTHORISATION" /\ record.at \in AuthoriseStages
    \/ kind = "AUTHORISATION_VOID" /\ record.at = "release"
    \/ kind = "CAPTURE" /\ record.at \in {"capture", "captured"}
    \/ /\ kind = "PAYOUT"
       /\ \/ record.at \in {"assignment", "payout", "paid"}
          \/ record.at \in {"capture", "captured"} /\ "PAYOUT" \notin record.seen}

\* The workers about to append an entry of that kind to the ledger of the job.
Appending(j, kind) ==
  {w \in Workers : kind \in Intents(worker[w]) /\ worker[w].msg.job = j}

\* Every entry, and every entry about to be, is owed to a worker of its own: a
\* worker that comes later finds the entry and appends nothing.
EntriesAreOwed ==
  \A j \in Jobs, kind \in Kinds :
    ledger[j][kind] + Cardinality(Appending(j, kind)) <= Cardinality(Workers)

CountInv == IInv /\ EntriesAreOwed

LEMMA AppendingIsFinite ==
  \A j, kind : /\ IsFiniteSet(Appending(j, kind))
               /\ Cardinality(Appending(j, kind)) \in Nat
               /\ Cardinality(Workers) \in Nat
               /\ Cardinality(Appending(j, kind)) <= Cardinality(Workers)
BY PaymentsAssumption, FS_Subset, FS_CardinalityType DEF Appending

LEMMA AppendingIsFiniteNext ==
  \A j, kind : /\ IsFiniteSet(Appending(j, kind)')
               /\ Cardinality(Appending(j, kind)') \in Nat
               /\ Cardinality(Appending(j, kind)') <= Cardinality(Workers)
BY PaymentsAssumption, FS_Subset, FS_CardinalityType DEF Appending

\* What a step does to the entries and the intents of one kind of one job.
CountStep(j, kind) ==
  \/ ledger'[j][kind] = 0
  \/ /\ ledger'[j][kind] = ledger[j][kind]
     /\ Appending(j, kind)' \subseteq Appending(j, kind)
  \/ /\ ledger'[j][kind] = ledger[j][kind] + 1
     /\ \E w \in Appending(j, kind) : Appending(j, kind)' \subseteq Appending(j, kind) \ {w}

LEMMA CountStepKeepsBound ==
  ASSUME TypeOK, TypeOK', NEW j \in Jobs, NEW kind \in Kinds, CountStep(j, kind),
         ledger[j][kind] + Cardinality(Appending(j, kind)) <= Cardinality(Workers)
  PROVE  ledger'[j][kind] + Cardinality(Appending(j, kind)') <= Cardinality(Workers)
<1> DEFINE before == Appending(j, kind)
           after == Appending(j, kind)'
<1>1. ledger[j][kind] \in Nat /\ ledger'[j][kind] \in Nat
  BY DEF TypeOK
<1>2. /\ IsFiniteSet(before) /\ Cardinality(before) \in Nat /\ Cardinality(Workers) \in Nat
      /\ IsFiniteSet(after) /\ Cardinality(after) \in Nat
      /\ Cardinality(after) <= Cardinality(Workers)
  BY AppendingIsFinite, AppendingIsFiniteNext
<1> HIDE DEF before, after
<1>3. CASE ledger'[j][kind] = 0
  BY <1>1, <1>2, <1>3 DEF before, after
<1>4. CASE ledger'[j][kind] = ledger[j][kind] /\ after \subseteq before
  <2>1. Cardinality(after) <= Cardinality(before)
    BY <1>2, <1>4, FS_Subset
  <2> QED
    BY <1>1, <1>2, <1>4, <2>1 DEF before, after
<1>5. ASSUME NEW w \in before, after \subseteq before \ {w},
             ledger'[j][kind] = ledger[j][kind] + 1
      PROVE  ledger'[j][kind] + Cardinality(after) <= Cardinality(Workers)
  <2>1. /\ IsFiniteSet(before \ {w})
        /\ Cardinality(before \ {w}) = Cardinality(before) - 1
    BY <1>2, <1>5, FS_RemoveElement
  <2>2. Cardinality(after) <= Cardinality(before \ {w})
    BY <1>5, <2>1, FS_Subset
  <2> QED
    BY <1>1, <1>2, <1>5, <2>1, <2>2 DEF before, after
<1> QED
  BY <1>3, <1>4, <1>5 DEF CountStep, before, after

\* A step that makes nobody want to append more, and appends nothing.
LEMMA CountOfQuietSteps ==
  ASSUME UNCHANGED ledger, NEW w \in Workers,
         \A v \in Workers \ {w} : worker'[v] = worker[v],
         \/ Intents(worker'[w]) = {}
         \/ Intents(worker'[w]) \subseteq Intents(worker[w]) /\ worker'[w].msg = worker[w].msg
  PROVE  \A j \in Jobs, kind \in Kinds : CountStep(j, kind)
<1> SUFFICES ASSUME NEW j \in Jobs, NEW kind \in Kinds PROVE CountStep(j, kind)
  OBVIOUS
<1>1. ASSUME NEW v \in Appending(j, kind)' PROVE v \in Appending(j, kind)
  <2>1. v \in Workers /\ kind \in Intents(worker'[v]) /\ worker'[v].msg.job = j
    BY <1>1 DEF Appending, Intents
  <2> QED
    BY <2>1 DEF Appending
<1> QED
  BY <1>1 DEF CountStep

LEMMA CountOfUnmoved ==
  ASSUME UNCHANGED <<ledger, worker>>
  PROVE  \A j \in Jobs, kind \in Kinds : CountStep(j, kind)
<1>1. \A j, kind : Appending(j, kind)' = Appending(j, kind)
  BY DEF Appending, Intents
<1> QED
  BY <1>1 DEF CountStep

LEMMA CountOfMoves ==
  ASSUME TypeOK, NEW w \in Workers,
         \/ Claim(w) \/ MarkDelivered(w) \/ MarkFailed(w) \/ HandlerFails(w) \/ WorkerDies(w)
  PROVE  \A j \in Jobs, kind \in Kinds : CountStep(j, kind)
<1>1. UNCHANGED ledger /\ \A v \in Workers \ {w} : worker'[v] = worker[v]
  BY DEF TypeOK, Claim, MarkDelivered, MarkFailed, HandlerFails, WorkerDies, MoveOn, GoTo
<1>2. worker'[w].at \in {"idle", "next", "failed"}
  <2>1. CASE HandlerFails(w)
    BY <2>1 DEF HandlerFails, GoTo, TypeOK, Worker
  <2>2. CASE Claim(w)
    <3>1. PICK keys : worker'[w] = [Resting EXCEPT !.at = "next", !.batch = Batch(keys)]
      BY <2>2 DEF Claim, TypeOK
    <3> QED
      BY <3>1 DEF Resting
  <2>3. CASE MarkDelivered(w) \/ MarkFailed(w) \/ WorkerDies(w)
    <3>1. \/ worker'[w] = Resting
          \/ worker'[w] = [Resting EXCEPT !.at = "next", !.batch = worker[w].batch]
      BY <2>3 DEF MarkDelivered, MarkFailed, WorkerDies, MoveOn, TypeOK
    <3>2. CASE worker'[w] = Resting
      BY <3>2 DEF Resting
    <3>3. CASE worker'[w] = [Resting EXCEPT !.at = "next", !.batch = worker[w].batch]
      BY <3>3 DEF Resting
    <3> QED
      BY <3>1, <3>2, <3>3
  <2> QED
    BY <2>1, <2>2, <2>3
<1>3. Intents(worker'[w]) = {}
  BY <1>2 DEF Intents, AuthoriseStages
<1> QED
  BY <1>1, <1>3, CountOfQuietSteps

\* A handler sets out to append only what it does not find.
LEMMA CountOfReads ==
  ASSUME TypeOK, NEW w \in Workers, ReadLedger(w)
  PROVE  \A j \in Jobs, kind \in Kinds : CountStep(j, kind)
<1>1. UNCHANGED ledger /\ \A v \in Workers \ {w} : worker'[v] = worker[v]
  BY DEF TypeOK, ReadLedger
<1>2. PICK claim \in worker[w].batch :
        worker'[w] = [at |-> FirstStage(claim[1].topic, Recorded(claim[1].job)),
                      batch |-> worker[w].batch \ {claim}, msg |-> claim[1],
                      tries |-> claim[2], seen |-> Recorded(claim[1].job), payee |-> None]
  BY DEF ReadLedger, TypeOK
<1>3. claim[1] \in Keys
  BY DEF TypeOK, Worker
<1>4. \A kind \in Intents(worker'[w]) : kind \notin Recorded(claim[1].job)
  <2> DEFINE seen == Recorded(claim[1].job)
             at == FirstStage(claim[1].topic, seen)
  <2>1. worker'[w].at = at /\ worker'[w].seen = seen
    BY <1>2
  <2> HIDE DEF seen
  <2>2. CASE claim[1].topic = "quote.decided"
    BY <2>1, <2>2 DEF FirstStage, AfterDecision, Intents, AuthoriseStages, seen
  <2>3. CASE claim[1].topic = "job.completed"
    BY <2>1, <2>3 DEF FirstStage, AfterCompletion, AfterCapture, Intents, AuthoriseStages, seen
  <2>4. CASE claim[1].topic = "job.cancelled"
    BY <2>1, <2>4 DEF FirstStage, AfterCancellation, Intents, AuthoriseStages, seen
  <2> QED
    BY <1>3, <2>2, <2>3, <2>4, KeyFields
<1>5. ASSUME NEW j \in Jobs, NEW kind \in Kinds PROVE CountStep(j, kind)
  <2>1. CASE ledger[j][kind] > 0
    <3>1. ASSUME NEW v \in Appending(j, kind)' PROVE v \in Appending(j, kind)
      <4>1. v \in Workers /\ kind \in Intents(worker'[v]) /\ worker'[v].msg.job = j
        BY <3>1 DEF Appending, Intents
      <4>2. v # w
        BY <1>2, <1>4, <2>1, <4>1 DEF Recorded
      <4> QED
        BY <1>1, <4>1, <4>2 DEF Appending
    <3> QED
      BY <1>1, <3>1 DEF CountStep
  <2>2. CASE ledger[j][kind] = 0
    BY <1>1, <2>2 DEF CountStep
  <2> QED
    BY <2>1, <2>2 DEF TypeOK
<1> QED
  BY <1>5

\* The stages that append nothing keep what the handler is on its way to.
LEMMA CountOfHandlers ==
  ASSUME TypeOK, NEW w \in Workers,
         Authorise(w) \/ Capture(w) \/ ReadAssignment(w) \/ PayOut(w)
  PROVE  \A j \in Jobs, kind \in Kinds : CountStep(j, kind)
<1>1. UNCHANGED ledger /\ \A v \in Workers \ {w} : worker'[v] = worker[v]
  BY DEF TypeOK, Authorise, Capture, ReadAssignment, PayOut, GoTo
<1>2. worker'[w].msg = worker[w].msg /\ worker'[w].seen = worker[w].seen
  BY DEF Authorise, Capture, ReadAssignment, PayOut, GoTo, TypeOK, Worker
<1>3. \/ worker[w].at = "authorise" /\ worker'[w].at = "authorised"
      \/ worker[w].at = "capture" /\ worker'[w].at = "captured"
      \/ worker[w].at = "assignment" /\ worker'[w].at \in {"done", "payout"}
      \/ worker[w].at = "payout" /\ worker'[w].at = "paid"
  BY DEF Authorise, Capture, ReadAssignment, PayOut, GoTo, TypeOK, Worker
<1>4. Intents(worker'[w]) \subseteq Intents(worker[w])
  BY <1>2, <1>3 DEF Intents, AuthoriseStages
<1> QED
  BY <1>1, <1>2, <1>4, CountOfQuietSteps

\* The stages that append do what their worker was counted for.
LEMMA CountOfAppends ==
  ASSUME TypeOK, NEW w \in Workers, NEW added \in Kinds, JobOf(w) \in Jobs,
         Record(JobOf(w), added),
         \A v \in Workers \ {w} : worker'[v] = worker[v],
         worker'[w].msg = worker[w].msg,
         added \in Intents(worker[w]),
         Intents(worker'[w]) \subseteq Intents(worker[w]) \ {added}
  PROVE  \A j \in Jobs, kind \in Kinds : CountStep(j, kind)
<1> SUFFICES ASSUME NEW j \in Jobs, NEW kind \in Kinds PROVE CountStep(j, kind)
  OBVIOUS
<1>1. ASSUME NEW v \in Appending(j, kind)'
      PROVE  v \in Appending(j, kind) /\ (v = w => kind # added)
  <2>1. v \in Workers /\ kind \in Intents(worker'[v]) /\ worker'[v].msg.job = j
    BY <1>1 DEF Appending, Intents
  <2> QED
    BY <2>1 DEF Appending
<1>2. CASE j = JobOf(w) /\ kind = added
  <2>1. ledger'[j][kind] = ledger[j][kind] + 1
    BY <1>2 DEF TypeOK, Record
  <2>2. w \in Appending(j, kind)
    BY <1>2 DEF Appending, JobOf
  <2> QED
    BY <1>1, <1>2, <2>1, <2>2 DEF CountStep
<1>3. CASE ~(j = JobOf(w) /\ kind = added)
  <2>1. ledger'[j][kind] = ledger[j][kind]
    BY <1>3, RecordGrows DEF TypeOK
  <2> QED
    BY <1>1, <2>1 DEF CountStep
<1> QED
  BY <1>2, <1>3

LEMMA CountOfRecords ==
  ASSUME TypeOK, WorkersAreBacked, NEW w \in Workers,
         RecordAuthorisation(w) \/ RecordCapture(w) \/ RecordPayout(w) \/ RecordRelease(w)
  PROVE  \A j \in Jobs, kind \in Kinds : CountStep(j, kind)
<1>1. JobOf(w) \in Jobs
  BY AtWork DEF RecordAuthorisation, RecordCapture, RecordPayout, RecordRelease,
                Handling, AuthoriseStages, CaptureStages, ReleaseStages
<1>2. /\ \A v \in Workers \ {w} : worker'[v] = worker[v]
      /\ worker'[w].msg = worker[w].msg /\ worker'[w].seen = worker[w].seen
  BY DEF RecordAuthorisation, RecordCapture, RecordPayout, RecordRelease, GoTo, TypeOK, Worker
<1>3. CASE RecordAuthorisation(w)
  <2>1. worker[w].at = "authorised" /\ worker'[w].at = "done"
        /\ Record(JobOf(w), "AUTHORISATION")
    BY <1>3 DEF RecordAuthorisation, GoTo, TypeOK, Worker
  <2>2. "AUTHORISATION" \in Intents(worker[w]) /\ Intents(worker'[w]) = {}
    BY <2>1 DEF Intents, AuthoriseStages, Kinds
  <2> QED
    BY <1>1, <1>2, <2>1, <2>2, CountOfAppends DEF Kinds
<1>4. CASE RecordCapture(w)
  <2>1. worker[w].at = "captured" /\ worker'[w].at = AfterCapture(worker[w].seen)
        /\ Record(JobOf(w), "CAPTURE")
    BY <1>4 DEF RecordCapture, GoTo, TypeOK, Worker
  <2>2. "CAPTURE" \in Intents(worker[w])
    BY <2>1 DEF Intents, Kinds
  <2>3. Intents(worker'[w]) \subseteq Intents(worker[w]) \ {"CAPTURE"}
    <3>1. CASE "PAYOUT" \in worker[w].seen
      BY <2>1, <3>1 DEF Intents, AfterCapture, AuthoriseStages
    <3>2. CASE "PAYOUT" \notin worker[w].seen
      BY <2>1, <3>2 DEF Intents, AfterCapture, AuthoriseStages
    <3> QED
      BY <3>1, <3>2
  <2> QED
    BY <1>1, <1>2, <2>1, <2>2, <2>3, CountOfAppends DEF Kinds
<1>5. CASE RecordPayout(w)
  <2>1. worker[w].at = "paid" /\ worker'[w].at = "done" /\ Record(JobOf(w), "PAYOUT")
    BY <1>5 DEF RecordPayout, GoTo, TypeOK, Worker
  <2>2. "PAYOUT" \in Intents(worker[w]) /\ Intents(worker'[w]) = {}
    BY <2>1 DEF Intents, AuthoriseStages, Kinds
  <2> QED
    BY <1>1, <1>2, <2>1, <2>2, CountOfAppends DEF Kinds
<1>6. CASE RecordRelease(w)
  <2>1. worker[w].at = "release" /\ worker'[w].at = "done"
        /\ Record(JobOf(w), "AUTHORISATION_VOID")
    BY <1>6 DEF RecordRelease, GoTo, TypeOK, Worker
  <2>2. "AUTHORISATION_VOID" \in Intents(worker[w]) /\ Intents(worker'[w]) = {}
    BY <2>1 DEF Intents, AuthoriseStages, Kinds
  <2> QED
    BY <1>1, <1>2, <2>1, <2>2, CountOfAppends DEF Kinds
<1> QED
  BY <1>3, <1>4, <1>5, <1>6

LEMMA EveryStepCounts ==
  TypeOK /\ WorkersAreBacked /\ [Next]_vars => \A j \in Jobs, kind \in Kinds : CountStep(j, kind)
<1> SUFFICES ASSUME TypeOK, WorkersAreBacked, [Next]_vars
             PROVE  \A j \in Jobs, kind \in Kinds : CountStep(j, kind)
  OBVIOUS
<1>1. CASE JobStep \/ ClockStep \/ UNCHANGED vars
  <2>1. UNCHANGED <<ledger, worker>>
    BY <1>1 DEF JobStep, CreateJob, MoveJob, ApproveQuote, AwardJob, ReopenJob,
                ExpireAcceptedOffer, ClockStep, vars
  <2> QED
    BY <2>1, CountOfUnmoved
<1>2. ASSUME NEW w \in Workers, DrainStep(w) \/ HandlerFails(w) \/ WorkerDies(w)
      PROVE  \A j \in Jobs, kind \in Kinds : CountStep(j, kind)
  BY <1>2, CountOfMoves, CountOfReads, CountOfHandlers, CountOfRecords
     DEF DrainStep, HandlerStep
<1> QED
  BY <1>1, <1>2 DEF Next

LEMMA CountInit == Init => CountInv
<1> SUFFICES ASSUME Init PROVE CountInv
  OBVIOUS
<1>1. \A j \in Jobs, kind \in Kinds : ledger[j][kind] = 0
  BY DEF Init
<1>2. EntriesAreOwed
  BY <1>1, AppendingIsFinite DEF EntriesAreOwed
<1> QED
  BY <1>2, InvInit DEF CountInv

LEMMA CountStays == CountInv /\ [Next]_vars => CountInv'
<1> SUFFICES ASSUME CountInv, [Next]_vars PROVE CountInv'
  OBVIOUS
<1>1. IInv'
  BY InvStep DEF CountInv
<1>2. ASSUME NEW j \in Jobs, NEW kind \in Kinds
      PROVE  ledger'[j][kind] + Cardinality(Appending(j, kind)') <= Cardinality(Workers)
  BY <1>1, EveryStepCounts, CountStepKeepsBound DEF CountInv, EntriesAreOwed, IInv
<1>3. EntriesAreOwed'
  BY <1>2 DEF EntriesAreOwed
<1> QED
  BY <1>1, <1>3 DEF CountInv

\* However often messages are redelivered, die with their workers or outlive their
\* leases, no job has more entries of a kind than there are workers; a single
\* worker therefore never writes one twice.
THEOREM EntriesAreBounded == Spec => []EntriesBoundedByWorkers
<1>1. CountInv => EntriesBoundedByWorkers
  <2> SUFFICES ASSUME CountInv, NEW j \in Jobs, NEW kind \in Kinds
               PROVE  ledger[j][kind] <= Cardinality(Workers)
    BY DEF EntriesBoundedByWorkers
  <2>1. ledger[j][kind] + Cardinality(Appending(j, kind)) <= Cardinality(Workers)
    BY DEF CountInv, EntriesAreOwed
  <2>2. ledger[j][kind] \in Nat
    BY DEF CountInv, IInv, TypeOK
  <2> QED
    BY <2>1, <2>2, AppendingIsFinite
<1> QED
  BY <1>1, CountInit, CountStays, PTL DEF Spec

-----------------------------------------------------------------------------
(* Attempts, for a single worker *)

OneWorker == \A v, w \in Workers : v = w

Open(k) == outbox[k].status \in {"PENDING", "FAILED"}

\* A claim that tells the attempts of a message still to be delivered.
IsCurrent(k, tries) == Open(k) /\ outbox[k].attempts = tries

RowCounts(row) ==
  /\ row.attempts <= MaxAttempts
  /\ row.status = "DEAD" => row.attempts = MaxAttempts
  /\ row.status \in {"PENDING", "FAILED"} => row.attempts < MaxAttempts

\* What a worker holds is current, and the message in hand is not in its batch.
WorkerCounts(record) ==
  /\ \A claim \in record.batch : IsCurrent(claim[1], claim[2])
  /\ record.at \in Handling \cup {"failed"} =>
       /\ IsCurrent(record.msg, record.tries)
       /\ \A claim \in record.batch : claim[1] # record.msg

AttemptsCount ==
  /\ \A k \in Keys : RowCounts(outbox[k])
  /\ \A w \in Workers : WorkerCounts(worker[w])

AttemptsInv == IInv /\ AttemptsCount

\* Open rows that keep their status and attempts keep what workers hold current.
RowsKeep ==
  \A k \in Keys : Open(k) => /\ outbox'[k].status = outbox[k].status
                             /\ outbox'[k].attempts = outbox[k].attempts

LEMMA CurrentStays ==
  ASSUME TypeOK, WorkersAreBacked, RowsKeep, NEW w \in Workers, WorkerCounts(worker[w]),
         worker'[w] = worker[w]
  PROVE  WorkerCounts(worker[w])'
<1>1. \A claim \in worker[w].batch : claim[1] \in Keys
  BY DEF TypeOK, Worker
<1>2. worker[w].at \in Handling \cup {"failed"} => worker[w].msg \in Keys
  BY DEF WorkersAreBacked, WorkerIsBacked
<1> QED
  BY <1>1, <1>2 DEF WorkerCounts, IsCurrent, RowsKeep, Open

\* Rows that are added, leased or due again count as before.
LEMMA RowsOfQuietSteps ==
  ASSUME TypeOK, \A k \in Keys : RowCounts(outbox[k]),
         \/ \E keys : Enqueue(keys)
         \/ \E keys : outbox' = Claimed(keys)
         \/ \E k \in Keys : TimePasses(k)
         \/ UNCHANGED outbox
  PROVE  RowsKeep /\ \A k \in Keys : RowCounts(outbox'[k])
<1>1. /\ outbox \in [Keys -> Row]
      /\ MaxAttempts \in Nat /\ MaxAttempts > 0
  BY OutboxAssumption DEF TypeOK
<1>2. ASSUME NEW keys, Enqueue(keys)
      PROVE  RowsKeep /\ \A k \in Keys : RowCounts(outbox'[k])
  <2>1. \A k \in Keys : outbox'[k] = outbox[k] \/ (outbox[k] = NoRow /\ outbox'[k] = NewRow)
    BY <1>2 DEF Enqueue
  <2>2. RowCounts(NewRow) /\ NoRow.status = "NONE"
    BY <1>1 DEF RowCounts, NewRow, NoRow
  <2> QED
    BY <2>1, <2>2 DEF RowsKeep, Open
<1>3. ASSUME NEW keys, outbox' = Claimed(keys)
      PROVE  RowsKeep /\ \A k \in Keys : RowCounts(outbox'[k])
  <2>1. \A k \in Keys : /\ outbox'[k].status = outbox[k].status
                        /\ outbox'[k].attempts = outbox[k].attempts
    BY <1>1, <1>3 DEF Claimed, Row
  <2> QED
    BY <2>1 DEF RowsKeep, RowCounts
<1>4. ASSUME NEW l \in Keys, TimePasses(l)
      PROVE  RowsKeep /\ \A k \in Keys : RowCounts(outbox'[k])
  <2>1. \A k \in Keys : /\ outbox'[k].status = outbox[k].status
                        /\ outbox'[k].attempts = outbox[k].attempts
    BY <1>1, <1>4 DEF TimePasses, Row
  <2> QED
    BY <2>1 DEF RowsKeep, RowCounts
<1>5. ASSUME UNCHANGED outbox
      PROVE  RowsKeep /\ \A k \in Keys : RowCounts(outbox'[k])
  BY <1>5 DEF RowsKeep
<1> QED
  BY <1>2, <1>3, <1>4, <1>5

\* A message that is settled, or failed once more, still counts, and no other
\* message is touched.
LEMMA RowsOfMarks ==
  ASSUME TypeOK, \A l \in Keys : RowCounts(outbox[l]), NEW k \in Keys, NEW tries \in Nat,
         IsCurrent(k, tries), Delivered(k) \/ Failed(k, tries)
  PROVE  /\ \A l \in Keys : RowCounts(outbox'[l])
         /\ \A l \in Keys \ {k} : outbox'[l] = outbox[l]
<1> DEFINE n == outbox[k].attempts + 1
<1>1. /\ outbox \in [Keys -> Row] /\ outbox[k] \in Row
      /\ MaxAttempts \in Nat /\ MaxAttempts > 0
  BY OutboxAssumption DEF TypeOK
<1>2. \A l \in Keys \ {k} : outbox'[l] = outbox[l]
  BY <1>1 DEF Delivered, Failed
<1>3. RowCounts(outbox'[k])
  <2>1. outbox[k].attempts = tries /\ tries < MaxAttempts
    BY DEF IsCurrent, Open, RowCounts
  <2>2. CASE Delivered(k)
    <3>1. outbox'[k].status = "SENT" /\ outbox'[k].attempts = tries
      BY <1>1, <2>1, <2>2 DEF Delivered, Row
    <3> QED
      BY <3>1, <2>1, <1>1 DEF RowCounts
  <2>3. CASE Failed(k, tries) /\ tries + 1 >= MaxAttempts
    <3>1. outbox'[k].status = "DEAD" /\ outbox'[k].attempts = tries + 1
      BY <1>1, <2>1, <2>3 DEF Failed
    <3> QED
      BY <3>1, <2>1, <2>3, <1>1 DEF RowCounts
  <2>4. CASE Failed(k, tries) /\ ~(tries + 1 >= MaxAttempts)
    <3>1. outbox'[k].status = "FAILED" /\ outbox'[k].attempts = tries + 1
      BY <1>1, <2>1, <2>4 DEF Failed
    <3> QED
      BY <3>1, <2>1, <2>4, <1>1 DEF RowCounts
  <2> QED
    BY <2>2, <2>3, <2>4
<1> QED
  BY <1>2, <1>3

LEMMA RestingCounts == WorkerCounts(Resting)
BY DEF WorkerCounts, Resting, Handling, AuthoriseStages, CaptureStages, ReleaseStages

\* Handling a message, or failing at it, changes neither what a worker holds nor
\* any row.
LEMMA AttemptsOfHandlers ==
  ASSUME AttemptsInv, NEW w \in Workers, HandlerStep(w) \/ HandlerFails(w)
  PROVE  UNCHANGED outbox /\ WorkerCounts(worker[w])'
<1>1. worker \in [Workers -> Worker] /\ WorkerCounts(worker[w])
  BY DEF AttemptsInv, AttemptsCount, IInv, TypeOK
<1>2. UNCHANGED outbox
  BY DEF HandlerStep, HandlerFails, Authorise, RecordAuthorisation, Capture, RecordCapture,
         ReadAssignment, PayOut, RecordPayout, RecordRelease
<1>3. /\ worker[w].at \in Handling
      /\ worker'[w].batch = worker[w].batch
      /\ worker'[w].msg = worker[w].msg
      /\ worker'[w].tries = worker[w].tries
  BY <1>1 DEF HandlerStep, HandlerFails, Authorise, RecordAuthorisation, Capture,
     RecordCapture, ReadAssignment, PayOut, RecordPayout, RecordRelease, GoTo, Worker,
     Handling, AuthoriseStages, CaptureStages, ReleaseStages
<1> QED
  BY <1>1, <1>2, <1>3 DEF WorkerCounts, IsCurrent, Open

LEMMA AttemptsOfClaims ==
  ASSUME AttemptsInv, NEW w \in Workers, Claim(w)
  PROVE  WorkerCounts(worker[w])' /\ \E keys : outbox' = Claimed(keys)
<1> PICK keys \in Batches :
       /\ outbox' = Claimed(keys)
       /\ worker' = [worker EXCEPT ![w] = [Resting EXCEPT !.at = "next", !.batch = Batch(keys)]]
  BY DEF Claim
<1>1. worker \in [Workers -> Worker] /\ outbox \in [Keys -> Row]
  BY DEF AttemptsInv, IInv, TypeOK
<1>2. worker'[w].at = "next" /\ worker'[w].batch = Batch(keys)
  BY <1>1 DEF Resting
<1>3. ASSUME NEW k \in keys PROVE Open(k)' /\ outbox'[k].attempts = outbox[k].attempts
  <2>1. k \in Keys /\ Open(k)
    BY DEF Batches, Claimable, Open
  <2>2. /\ outbox'[k].status = outbox[k].status
        /\ outbox'[k].attempts = outbox[k].attempts
    BY <1>1, <2>1 DEF Claimed, Row
  <2> QED
    BY <2>1, <2>2 DEF Open
<1>4. ASSUME NEW claim \in worker'[w].batch PROVE IsCurrent(claim[1], claim[2])'
  <2>1. PICK k \in keys : claim = <<k, outbox[k].attempts>>
    BY <1>2 DEF Batch
  <2>2. Open(k)' /\ outbox'[k].attempts = outbox[k].attempts
    BY <1>3
  <2> QED
    BY <2>1, <2>2 DEF IsCurrent, Open
<1>5. worker'[w].at \notin Handling \cup {"failed"}
  BY <1>2 DEF Handling, AuthoriseStages, CaptureStages, ReleaseStages
<1> QED
  BY <1>4, <1>5 DEF WorkerCounts

LEMMA AttemptsOfReads ==
  ASSUME AttemptsInv, NEW w \in Workers, ReadLedger(w)
  PROVE  UNCHANGED outbox /\ WorkerCounts(worker[w])'
<1> PICK claim \in worker[w].batch :
       worker' = [worker EXCEPT ![w] =
         [at |-> FirstStage(claim[1].topic, Recorded(claim[1].job)),
          batch |-> worker[w].batch \ {claim}, msg |-> claim[1], tries |-> claim[2],
          seen |-> Recorded(claim[1].job), payee |-> None]]
  BY DEF ReadLedger
<1>1. /\ worker \in [Workers -> Worker] /\ WorkerCounts(worker[w])
      /\ worker[w].batch \subseteq Keys \X Nat
  BY DEF AttemptsInv, AttemptsCount, IInv, TypeOK, Worker
<1>2. UNCHANGED outbox
  BY DEF ReadLedger
<1>3. /\ worker'[w].batch = worker[w].batch \ {claim}
      /\ worker'[w].msg = claim[1] /\ worker'[w].tries = claim[2]
  BY <1>1
<1>4. IsCurrent(claim[1], claim[2])
  BY <1>1 DEF WorkerCounts
<1>5. ASSUME NEW other \in worker[w].batch, other[1] = claim[1] PROVE other = claim
  <2>1. IsCurrent(other[1], other[2])
    BY <1>1 DEF WorkerCounts
  <2>2. other[2] = claim[2]
    BY <1>4, <1>5, <2>1 DEF IsCurrent
  <2>3. other \in Keys \X Nat /\ claim \in Keys \X Nat
    BY <1>1
  <2> QED
    BY <1>5, <2>2, <2>3
<1> QED
  BY <1>1, <1>2, <1>3, <1>4, <1>5 DEF WorkerCounts, IsCurrent, Open

LEMMA AttemptsOfMarks ==
  ASSUME AttemptsInv, NEW w \in Workers, MarkDelivered(w) \/ MarkFailed(w)
  PROVE  /\ WorkerCounts(worker[w])'
         /\ \A k \in Keys : RowCounts(outbox[k])'
<1> DEFINE k == worker[w].msg
           tries == worker[w].tries
<1>1. /\ TypeOK /\ worker \in [Workers -> Worker] /\ WorkerCounts(worker[w])
      /\ worker[w].batch \subseteq Keys \X Nat /\ tries \in Nat
      /\ \A l \in Keys : RowCounts(outbox[l])
  BY DEF AttemptsInv, AttemptsCount, IInv, TypeOK, Worker
<1>2. worker[w].at \in Handling \cup {"failed"}
  BY DEF MarkDelivered, MarkFailed, Handling
<1>3. /\ k \in Keys /\ IsCurrent(k, tries)
      /\ \A claim \in worker[w].batch : claim[1] # k
  BY <1>1, <1>2 DEF WorkerCounts, AttemptsInv, IInv, WorkersAreBacked, WorkerIsBacked
<1>4. ~FailureRefused(k)
  BY <1>3 DEF FailureRefused, IsCurrent, Open
<1>5. (Delivered(k) \/ Failed(k, tries)) /\ MoveOn(w)
  BY <1>4 DEF MarkDelivered, MarkFailed
<1>6. /\ \A l \in Keys : RowCounts(outbox'[l])
      /\ \A l \in Keys \ {k} : outbox'[l] = outbox[l]
  BY <1>1, <1>3, <1>5, RowsOfMarks
<1>7. worker'[w] = Resting
        \/ (worker'[w].at = "next" /\ worker'[w].batch = worker[w].batch)
  BY <1>1, <1>5 DEF MoveOn, Resting
<1>8. \A claim \in worker[w].batch : IsCurrent(claim[1], claim[2])'
  BY <1>1, <1>3, <1>6 DEF WorkerCounts, IsCurrent, Open
<1>9. WorkerCounts(worker[w])'
  BY <1>7, <1>8 DEF WorkerCounts, Resting, Handling, AuthoriseStages, CaptureStages,
                    ReleaseStages
<1> QED
  BY <1>6, <1>9

LEMMA AttemptsStay ==
  ASSUME OneWorker, AttemptsInv, [Next]_vars
  PROVE  AttemptsCount'
<1>1. /\ TypeOK /\ WorkersAreBacked /\ worker \in [Workers -> Worker]
      /\ \A k \in Keys : RowCounts(outbox[k])
      /\ \A w \in Workers : WorkerCounts(worker[w])
  BY DEF AttemptsInv, AttemptsCount, IInv, TypeOK
<1>2. CASE JobStep \/ ClockStep \/ UNCHANGED vars
  <2>1. UNCHANGED worker
    BY <1>2 DEF JobStep, CreateJob, MoveJob, ApproveQuote, AwardJob, ReopenJob,
                ExpireAcceptedOffer, ClockStep, vars
  <2>2. \/ \E keys : Enqueue(keys)
        \/ \E k \in Keys : TimePasses(k)
        \/ UNCHANGED outbox
    BY <1>2 DEF JobStep, CreateJob, MoveJob, ApproveQuote, AwardJob, ReopenJob,
                ExpireAcceptedOffer, ClockStep, vars
  <2>3. RowsKeep /\ \A k \in Keys : RowCounts(outbox'[k])
    BY <1>1, <2>2, RowsOfQuietSteps
  <2>4. \A w \in Workers : WorkerCounts(worker[w])'
    BY <1>1, <2>1, <2>3, CurrentStays
  <2> QED
    BY <2>3, <2>4 DEF AttemptsCount
<1>3. ASSUME NEW w \in Workers, DrainStep(w) \/ HandlerFails(w) \/ WorkerDies(w)
      PROVE  AttemptsCount'
  <2>1. WorkerCounts(worker[w])' /\ \A k \in Keys : RowCounts(outbox[k])'
    <3>1. CASE Claim(w)
      BY <1>1, <3>1, AttemptsOfClaims, RowsOfQuietSteps
    <3>2. CASE ReadLedger(w)
      BY <1>1, <3>2, AttemptsOfReads
    <3>3. CASE HandlerStep(w) \/ HandlerFails(w)
      BY <1>1, <3>3, AttemptsOfHandlers
    <3>4. CASE MarkDelivered(w) \/ MarkFailed(w)
      BY <3>4, AttemptsOfMarks
    <3>5. CASE WorkerDies(w)
      <4>1. worker'[w] = Resting /\ UNCHANGED outbox
        BY <1>1, <3>5 DEF WorkerDies
      <4> QED
        BY <1>1, <4>1 DEF WorkerCounts, Resting, Handling, AuthoriseStages, CaptureStages,
                          ReleaseStages
    <3> QED
      BY <1>3, <3>1, <3>2, <3>3, <3>4, <3>5 DEF DrainStep
  <2>2. \A v \in Workers : v = w
    BY DEF OneWorker
  <2> QED
    BY <2>1, <2>2 DEF AttemptsCount
<1> QED
  BY <1>2, <1>3 DEF Next

LEMMA AttemptsAlways == OneWorker => (Spec => []AttemptsInv)
<1> SUFFICES ASSUME OneWorker PROVE Spec => []AttemptsInv
  OBVIOUS
<1>1. Init => AttemptsInv
  <2> SUFFICES ASSUME Init PROVE AttemptsCount
    BY InvInit DEF AttemptsInv
  <2>1. \A k \in Keys : RowCounts(outbox[k])
    BY OutboxAssumption DEF Init, NoRow, RowCounts
  <2>2. \A w \in Workers : worker[w] = Resting
    BY DEF Init
  <2> QED
    BY <2>1, <2>2, RestingCounts DEF AttemptsCount
<1>2. AttemptsInv /\ [Next]_vars => AttemptsInv'
  BY AttemptsStay, InvStep DEF AttemptsInv
<1> QED
  BY <1>1, <1>2, PTL DEF Spec

\* A single worker, which may die at any moment and start over, gives a message up
\* after exactly as many failures as it is allowed: what it decides from is the
\* count at its claim, and nobody else has counted since.
THEOREM GivenUpInTime == OneWorker => (Spec => []GivenUpAfterMaxAttempts)
<1>1. AttemptsInv => GivenUpAfterMaxAttempts
  BY DEF AttemptsInv, AttemptsCount, RowCounts, GivenUpAfterMaxAttempts
<1> QED
  BY <1>1, AttemptsAlways, PTL

-----------------------------------------------------------------------------
(* Captured and never paid out: not with a single worker.  Two can do it:    *)
(* one takes up the completion before there is a hold and outlives its       *)
(* lease, the other records the hold, captures, and dies before it pays; the *)
(* first then marks the completion delivered.                                *)

\* A completion is not ticked off between the capture and the payout.
CapturedIsPaidOut ==
  \A k \in Keys :
    k.topic = "job.completed" /\ outbox[k].status = "SENT" /\ "CAPTURE" \in Recorded(k.job)
      => "PAYOUT" \in Recorded(k.job)

\* What a worker on a completed job has not seen is not there: nobody else
\* writes to the ledger.
SeesTheHold(record) ==
  /\ record.at \in CaptureStages => "AUTHORISATION" \in record.seen
  /\ record.at = "done" /\ record.msg.topic = "job.completed"
       /\ "AUTHORISATION" \notin record.seen => ledger[record.msg.job]["AUTHORISATION"] = 0

PaidOutInv ==
  /\ AttemptsInv
  /\ HandledInv
  /\ CapturedIsPaidOut
  /\ \A w \in Workers : SeesTheHold(worker[w])

\* The ledger changes only with the worker that writes to it.
LEMMA LedgerWaits == [Next]_vars /\ UNCHANGED worker /\ TypeOK => UNCHANGED ledger
<1> SUFFICES ASSUME [Next]_vars, UNCHANGED worker, TypeOK PROVE UNCHANGED ledger
  OBVIOUS
<1>1. CASE JobStep \/ ClockStep \/ UNCHANGED vars
  BY <1>1 DEF JobStep, CreateJob, MoveJob, ApproveQuote, AwardJob, ReopenJob,
              ExpireAcceptedOffer, ClockStep, vars
<1>2. ASSUME NEW w \in Workers, RecordAuthorisation(w) \/ RecordCapture(w)
               \/ RecordPayout(w) \/ RecordRelease(w)
      PROVE  FALSE
  <2>1. worker[w] \in Worker
    BY DEF TypeOK
  <2>2. \A stage : GoTo(w, stage) => worker[w].at = stage
    BY <2>1 DEF GoTo, TypeOK, Worker
  <2> QED
    BY <1>2, <2>2 DEF RecordAuthorisation, RecordCapture, RecordPayout, RecordRelease,
                      AfterCapture
<1>3. ASSUME NEW w \in Workers, DrainStep(w) \/ HandlerFails(w) \/ WorkerDies(w)
      PROVE  UNCHANGED ledger
  BY <1>2, <1>3, Zenon
     DEF DrainStep, Claim, ReadLedger, MarkDelivered, MarkFailed, HandlerFails, WorkerDies,
         HandlerStep, Authorise, Capture, ReadAssignment, PayOut
<1> QED
  BY <1>1, <1>3 DEF Next

LEMMA SeesWhatItReads ==
  ASSUME TypeOK, WorkersAreBacked, NEW w \in Workers, ReadLedger(w)
  PROVE  SeesTheHold(worker[w])'
<1>1. PICK claim \in worker[w].batch :
        worker'[w] = [at |-> FirstStage(claim[1].topic, Recorded(claim[1].job)),
                      batch |-> worker[w].batch \ {claim}, msg |-> claim[1],
                      tries |-> claim[2], seen |-> Recorded(claim[1].job), payee |-> None]
  BY DEF ReadLedger, TypeOK
<1>2. PICK k \in Keys : k = claim[1] /\ k.job \in Jobs
  BY KeyFields DEF TypeOK, Worker
<1> DEFINE seen == Recorded(k.job)
           at == FirstStage(k.topic, seen)
<1>3. worker'[w].at = at /\ worker'[w].msg = k /\ worker'[w].seen = seen
  BY <1>1, <1>2
<1>4. at \in CaptureStages => "AUTHORISATION" \in seen
  BY KeyFields DEF FirstStage, AfterDecision, AfterCompletion, AfterCapture,
                   AfterCancellation, CaptureStages
<1>5. "AUTHORISATION" \notin seen => ledger'[k.job]["AUTHORISATION"] = 0
  BY <1>2 DEF Recorded, ReadLedger, TypeOK, Kinds
<1> HIDE DEF seen, at
<1> QED
  BY <1>3, <1>4, <1>5 DEF SeesTheHold

LEMMA SeesWhatItHandles ==
  ASSUME IInv, NEW w \in Workers, HandledRight(worker[w]), SeesTheHold(worker[w]),
         HandlerStep(w)
  PROVE  SeesTheHold(worker[w])'
<1> USE DEF IInv
<1>1. worker \in [Workers -> Worker] /\ worker[w] \in Worker
  BY DEF TypeOK
<1>2. worker'[w].msg = worker[w].msg /\ worker'[w].seen = worker[w].seen
  BY <1>1 DEF HandlerStep, Authorise, RecordAuthorisation, Capture, RecordCapture,
     ReadAssignment, PayOut, RecordPayout, RecordRelease, GoTo, Worker
<1>3. CASE worker[w].at \in CaptureStages
  BY <1>2, <1>3 DEF SeesTheHold
<1>4. CASE worker[w].at \notin CaptureStages
  <2>1. Authorise(w) \/ RecordAuthorisation(w) \/ RecordRelease(w)
    BY <1>4 DEF HandlerStep, Capture, RecordCapture, ReadAssignment, PayOut, RecordPayout,
                CaptureStages
  <2>2. worker[w].at \in {"authorise", "authorised", "release"}
          /\ worker'[w].at \in {"authorised", "done"}
    BY <1>1, <2>1 DEF Authorise, RecordAuthorisation, RecordRelease, GoTo, Worker
  <2>3. worker[w].msg.topic # "job.completed"
    BY <2>2 DEF HandledRight, WorkersAreBacked, WorkerIsBacked, StageIsBacked, Handling,
                AuthoriseStages, ReleaseStages
  <2> QED
    BY <1>2, <2>2, <2>3 DEF SeesTheHold, CaptureStages
<1> QED
  BY <1>3, <1>4

LEMMA SeesStep ==
  ASSUME OneWorker, PaidOutInv, [Next]_vars, NEW w \in Workers
  PROVE  SeesTheHold(worker[w])'
<1>1. TypeOK /\ IInv /\ HandledRight(worker[w]) /\ SeesTheHold(worker[w])
  BY DEF PaidOutInv, AttemptsInv, HandledInv, IInv
<1>2. CASE UNCHANGED worker
  BY <1>1, <1>2, LedgerWaits DEF SeesTheHold
<1>3. ASSUME NEW v \in Workers, DrainStep(v) \/ HandlerFails(v) \/ WorkerDies(v)
      PROVE  SeesTheHold(worker[w])'
  <2>1. v = w
    BY DEF OneWorker
  <2>2. CASE ReadLedger(w)
    BY <1>1, <2>2, SeesWhatItReads DEF IInv
  <2>3. CASE HandlerStep(w)
    BY <1>1, <2>3, SeesWhatItHandles
  <2>4. CASE Claim(w) \/ MarkDelivered(w) \/ MarkFailed(w) \/ HandlerFails(w) \/ WorkerDies(w)
    <3>1. worker'[w].at \in {"idle", "next", "failed"}
      BY <1>1, <2>4, RestsAfterwards
    <3> QED
      BY <3>1 DEF SeesTheHold, CaptureStages
  <2> QED
    BY <1>3, <2>1, <2>2, <2>3, <2>4 DEF DrainStep
<1> QED
  BY <1>1, <1>2, <1>3, OthersWait

\* A capture is recorded while its message is still to be delivered.
LEMMA CapturesAreOpen ==
  ASSUME AttemptsInv, [Next]_vars, NEW k \in Keys, k.topic = "job.completed",
         ledger[k.job]["CAPTURE"] = 0, ledger'[k.job]["CAPTURE"] # 0
  PROVE  Open(k)
<1>1. /\ TypeOK /\ ledger \in [Jobs -> [Kinds -> Nat]] /\ k.job \in Jobs
      /\ "CAPTURE" \in Kinds
  BY KeyFields DEF AttemptsInv, IInv, TypeOK, Kinds
<1>2. ASSUME NEW j, NEW kind, Record(j, kind), kind # "CAPTURE" \/ j # k.job PROVE FALSE
  <2>1. CASE j # k.job
    BY <1>1, <1>2, <2>1 DEF Record
  <2>2. CASE j = k.job /\ kind # "CAPTURE"
    <3>1. ledger'[j] = [ledger[j] EXCEPT ![kind] = ledger[j][kind] + 1]
      BY <1>1, <1>2, <2>2 DEF Record
    <3> QED
      BY <1>1, <2>2, <3>1
  <2> QED
    BY <1>2, <2>1, <2>2
<1>3. UNCHANGED ledger => FALSE
  OBVIOUS
<1>4. PICK w \in Workers : RecordCapture(w) /\ JobOf(w) = k.job
  <2>1. ~UNCHANGED worker
    BY <1>1, <1>3, LedgerWaits
  <2>2. PICK w \in Workers : DrainStep(w) \/ HandlerFails(w) \/ WorkerDies(w)
    BY <1>1, <2>1, OthersWait
  <2>3. RecordCapture(w)
    BY <1>2, <1>3, <2>2, Zenon
       DEF DrainStep, Claim, ReadLedger, MarkDelivered, MarkFailed, HandlerFails, WorkerDies,
           HandlerStep, Authorise, RecordAuthorisation, Capture, ReadAssignment, PayOut,
           RecordPayout, RecordRelease
  <2> QED
    BY <1>2, <2>3 DEF RecordCapture
<1>5. /\ worker[w].msg \in Keys /\ worker[w].msg.topic = "job.completed"
      /\ worker[w].msg.job = k.job
      /\ IsCurrent(worker[w].msg, worker[w].tries)
  BY <1>4 DEF RecordCapture, JobOf, AttemptsInv, AttemptsCount, IInv, WorkersAreBacked,
     WorkerIsBacked, StageIsBacked, WorkerCounts, CaptureStages, Handling
<1>6. worker[w].msg = k
  BY <1>5 DEF Keys
<1> QED
  BY <1>5, <1>6 DEF IsCurrent

LEMMA PaidOutStep ==
  ASSUME OneWorker, PaidOutInv, IInv', [Next]_vars
  PROVE  CapturedIsPaidOut'
<1>1. TypeOK /\ IInv /\ AttemptsInv /\ NothingIsUndone
  BY NothingUndone DEF PaidOutInv, AttemptsInv, IInv
<1> SUFFICES ASSUME NEW k \in Keys, k.topic = "job.completed", outbox'[k].status = "SENT",
                    ledger'[k.job]["CAPTURE"] > 0
             PROVE  ledger'[k.job]["PAYOUT"] > 0
  BY KeyFields DEF CapturedIsPaidOut, Recorded, Kinds
<1>2. /\ k.job \in Jobs /\ ledger[k.job] \in [Kinds -> Nat]
      /\ {"CAPTURE", "PAYOUT", "AUTHORISATION"} \subseteq Kinds
  BY <1>1, KeyFields DEF TypeOK, Kinds
<1>3. ledger[k.job]["PAYOUT"] > 0 => ledger'[k.job]["PAYOUT"] > 0
  BY <1>1, <1>2 DEF NothingIsUndone
<1>4. CASE outbox[k].status = "SENT"
  <2>1. ~Open(k)
    BY <1>4 DEF Open
  <2>2. ledger[k.job]["CAPTURE"] > 0
    BY <1>1, <1>2, <2>1, CapturesAreOpen
  <2> QED
    BY <1>2, <1>3, <1>4, <2>2 DEF PaidOutInv, CapturedIsPaidOut, Recorded
<1>5. CASE outbox[k].status # "SENT"
  <2>1. PICK w \in Workers :
          worker[w].at = "done" /\ worker[w].msg = k /\ UNCHANGED ledger
    BY <1>1, <1>5, DeliveredWhenDone
  <2>2. ledger[k.job]["AUTHORISATION"] # 0
    BY <1>1, <1>2, <2>1 DEF IInv, BooksAgree, Books
  <2>3. "AUTHORISATION" \in worker[w].seen
    BY <2>1, <2>2 DEF PaidOutInv, SeesTheHold
  <2>4. ledger[k.job]["PAYOUT"] > 0
    BY <2>1, <2>3 DEF PaidOutInv, HandledInv, HandledRight, Handling, Outcome
  <2> QED
    BY <1>3, <2>4
<1> QED
  BY <1>4, <1>5

\* A single worker, however often it dies and starts over, never ends with the
\* customer's money taken, the completion delivered and the provider unpaid.
THEOREM NobodyIsLeftUnpaid == OneWorker => (Spec => []CapturedIsPaidOut)
<1> SUFFICES ASSUME OneWorker PROVE Spec => []CapturedIsPaidOut
  OBVIOUS
<1>1. Init => CapturedIsPaidOut /\ \A w \in Workers : SeesTheHold(worker[w])
  BY DEF Init, CapturedIsPaidOut, SeesTheHold, NoRow, Resting, CaptureStages
<1>2. AttemptsInv /\ HandledInv /\ PaidOutInv /\ IInv' /\ [Next]_vars
        => CapturedIsPaidOut' /\ \A w \in Workers : SeesTheHold(worker[w])'
  BY SeesStep, PaidOutStep
<1> DEFINE Rest == CapturedIsPaidOut /\ \A w \in Workers : SeesTheHold(worker[w])
<1>3. AttemptsInv /\ HandledInv /\ Rest /\ IInv' /\ [Next]_vars => Rest'
  BY <1>2 DEF PaidOutInv
<1>4. Init => Rest
  BY <1>1
<1>5. Rest => CapturedIsPaidOut
  OBVIOUS
<1> HIDE DEF Rest
<1> QED
  BY <1>3, <1>4, <1>5, Invariance, AttemptsAlways, HandledAlways, PTL DEF Spec
=============================================================================
