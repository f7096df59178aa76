--------------------------- MODULE DispatchProofs ---------------------------
(***************************************************************************)
(* Theorems about Dispatch for every set of jobs, providers, quotes,       *)
(* requests and sweepers.                                                  *)
(***************************************************************************)
EXTENDS Dispatch, FiniteSetTheorems, TLAPS

-----------------------------------------------------------------------------
(* Type correctness *)

LEMMA Constants ==
  /\ Idle \in Call
  /\ Resting \in Sweep
  /\ NoQuote \in QuoteRow
  /\ \A s, to : CanTransition(s, to) => s \in Statuses /\ to \in Statuses
  /\ \A todo \in SUBSET Jobs : Covering(todo) \in Sweep
BY DEF Idle, Call, CallStages, Resting, Sweep, SweepStages, NoQuote, QuoteRow,
       QuoteStatuses, CanTransition, Transitions, Statuses, Covering

\* createOffers writes well-typed offers and deadlines.
LEMMA CreateOffersType ==
  ASSUME TypeOK, NEW j, NEW ps \in SUBSET Providers, CreateOffers(j, ps)
  PROVE  /\ offer' \in [Jobs -> [Providers -> OfferStatuses]]
         /\ expiresAt' \in [Jobs -> [Providers -> Nat]]
<1>1. now + OfferTtl \in Nat
  BY DispatchAssumption DEF TypeOK
<1> DEFINE fresh == {p \in ps : offer[j][p] = "NONE"}
<1>2. CASE j \in Jobs
  <2>1. [p \in Providers |-> IF p \in fresh THEN "PENDING" ELSE offer[j][p]]
          \in [Providers -> OfferStatuses]
    BY <1>2 DEF TypeOK, OfferStatuses
  <2>2. [p \in Providers |-> IF p \in fresh THEN now + OfferTtl ELSE expiresAt[j][p]]
          \in [Providers -> Nat]
    BY <1>1, <1>2 DEF TypeOK
  <2> QED
    BY <2>1, <2>2 DEF CreateOffers, PutOffers, TypeOK
<1>3. CASE j \notin Jobs
  BY <1>3 DEF CreateOffers, PutOffers, TypeOK
<1> QED
  BY <1>2, <1>3

\* A request's record stays typed when it proceeds and when it is answered.
LEMMA CallType ==
  ASSUME TypeOK, NEW t \in Threads
  PROVE  /\ Answer(t) => call' \in [Threads -> Call]
         /\ \A stage \in CallStages, j \in Jobs, p \in Providers \cup {None} :
              Proceed(t, stage, j, p) => call' \in [Threads -> Call]
<1>1. ASSUME Answer(t) PROVE call' \in [Threads -> Call]
  BY <1>1, Constants DEF Answer, TypeOK
<1>2. ASSUME NEW stage \in CallStages, NEW j \in Jobs, NEW p \in Providers \cup {None},
             Proceed(t, stage, j, p)
      PROVE  call' \in [Threads -> Call]
  <2>1. [at |-> stage, job |-> j, prov |-> p, now |-> now] \in Call
    BY DEF Call, TypeOK
  <2> QED
    BY <1>2, <2>1 DEF Proceed, TypeOK
<1> QED
  BY <1>1, <1>2

\* A sweep's record stays typed when it turns to the next job.
LEMMA SweepOnType ==
  ASSUME TypeOK, NEW s \in Sweepers, NEW todo \in SUBSET Jobs, SweepOn(s, todo)
  PROVE  sweep' \in [Sweepers -> Sweep]
BY Constants DEF SweepOn, TypeOK

\* A legal transition leads to a status of the table.
LEMMA TransitionType ==
  ASSUME TypeOK, NEW j, NEW to, TransitionJob(j, to)
  PROVE  job' \in [Jobs -> Statuses \cup {"ABSENT"}]
BY Constants DEF TransitionJob, SetJob, TypeOK

LEMMA TypeInit == Init => TypeOK
<1> SUFFICES ASSUME Init PROVE TypeOK
  OBVIOUS
<1> QED
  BY Constants DEF Init, TypeOK, OfferStatuses, AssignStatuses, Reasons

LEMMA FallbackType ==
  ASSUME TypeOK, NEW j, FallbackAssignment(j)
  PROVE  /\ job' \in [Jobs -> Statuses \cup {"ABSENT"}]
         /\ assignment' \in [Jobs -> [Providers -> AssignStatuses]]
<1>1. job' \in [Jobs -> Statuses \cup {"ABSENT"}]
  BY TransitionType DEF FallbackAssignment
<1>2. PICK p : assignment' = [assignment EXCEPT ![j][p] = "FELL_THROUGH"]
  BY DEF FallbackAssignment
<1>3. assignment' \in [Jobs -> [Providers -> AssignStatuses]]
  BY <1>2 DEF TypeOK, AssignStatuses
<1> QED
  BY <1>1, <1>3

LEMMA TypeOfRequests == TypeOK /\ RequestStep => TypeOK'
<1> SUFFICES ASSUME TypeOK, RequestStep PROVE TypeOK'
  OBVIOUS
<1>1. ASSUME NEW j \in Jobs, CreateJob(j) PROVE TypeOK'
  BY <1>1 DEF CreateJob, SetJob, dispatchRows, TypeOK, Statuses
<1>2. ASSUME NEW j \in Jobs, UploadEvidence(j) PROVE TypeOK'
  BY <1>2 DEF UploadEvidence, TypeOK
<1>3. ASSUME NEW j \in Jobs, StaffFallback(j) PROVE TypeOK'
  BY <1>3, FallbackType DEF StaffFallback, TypeOK
<1>4. ASSUME NEW j \in Jobs, TriageJob(j) \/ CancelJob(j) PROVE TypeOK'
  BY <1>4, TransitionType DEF TriageJob, CancelJob, dispatchRows, TypeOK
<1>5. ASSUME NEW j \in Jobs, NEW to \in Statuses, StaffWork(j, to) PROVE TypeOK'
  BY <1>5, TransitionType DEF StaffWork, WorkRecorded, dispatchRows, TypeOK
<1>6. ASSUME NEW q \in Quotes, NEW status \in QuoteStatuses, DecideQuote(q, status)
      PROVE TypeOK'
  <2>1. quote' \in [Quotes -> QuoteRow]
    BY <1>6, ZenonT(60) DEF DecideQuote, TypeOK, QuoteRow
  <2> QED
    BY <1>6, <2>1 DEF DecideQuote, TypeOK
<1> QED
  BY <1>1, <1>2, <1>3, <1>4, <1>5, <1>6 DEF RequestStep

LEMMA TypeOfCalls ==
  ASSUME TypeOK, NEW t \in Threads, CallStep(t)
  PROVE  TypeOK'
<1>1. ASSUME NEW j \in Jobs, BeginQuote(t, j) \/ BeginOffers(t, j) PROVE TypeOK'
  BY <1>1, CallType DEF BeginQuote, BeginOffers, dispatchRows, TypeOK, CallStages
<1>2. ASSUME NEW q \in Quotes, CreateQuote(t, q) PROVE TypeOK'
  <2>1. now + QuoteTtl \in Nat
    BY DispatchAssumption DEF TypeOK
  <2>2. [job |-> call[t].job, status |-> "SENT", validUntil |-> now + QuoteTtl] \in QuoteRow
    BY <2>1 DEF QuoteRow, QuoteStatuses, TypeOK, Call
  <2>3. quote' \in [Quotes -> QuoteRow]
    BY <1>2, <2>2 DEF CreateQuote, TypeOK
  <2>4. call' \in [Threads -> Call]
    BY <1>2, ZenonT(60) DEF CreateQuote, TypeOK, Call, CallStages
  <2> QED
    BY <1>2, <2>3, <2>4 DEF CreateQuote, TypeOK
<1>3. ASSUME MarkQuoted(t) PROVE TypeOK'
  BY <1>3, CallType, TransitionType DEF MarkQuoted, dispatchRows, TypeOK
<1>4. ASSUME FanOut(t) PROVE TypeOK'
  BY <1>4, CallType, CreateOffersType DEF FanOut, TypeOK
<1>5. ASSUME NEW j \in Jobs, NEW p \in Providers, BeginAccept(t, j, p) PROVE TypeOK'
  BY <1>5, CallType DEF BeginAccept, dispatchRows, TypeOK, CallStages
<1>6. ASSUME NEW j \in Jobs, NEW p \in Providers, BeginDecline(t, j, p) PROVE TypeOK'
  BY <1>6, CallType DEF BeginDecline, dispatchRows, TypeOK, CallStages
<1>7. ASSUME NEW j \in Jobs, NEW p \in Providers, NEW stage \in CallStages,
             BeginProviderWork(t, stage, j, p)
      PROVE TypeOK'
  BY <1>7, CallType DEF BeginProviderWork, dispatchRows, TypeOK
<1>8. ASSUME AcceptOffer(t) PROVE TypeOK'
  <2> DEFINE j == call[t].job
  <2>1. job' \in [Jobs -> Statuses \cup {"ABSENT"}]
    BY <1>8 DEF AcceptOffer, SetJob, TypeOK, Statuses
  <2>2. offer' \in [Jobs -> [Providers -> OfferStatuses]]
    BY <1>8, ZenonT(60) DEF AcceptOffer, TypeOK, OfferStatuses
  <2>3. assignment' \in [Jobs -> [Providers -> AssignStatuses]]
    BY <1>8 DEF AcceptOffer, TypeOK, AssignStatuses
  <2> QED
    BY <1>8, <2>1, <2>2, <2>3, CallType DEF AcceptOffer, TypeOK
<1>9. ASSUME DeclineOffer(t) PROVE TypeOK'
  <2>1. offer' \in [Jobs -> [Providers -> OfferStatuses]]
    BY <1>9 DEF DeclineOffer, TypeOK, OfferStatuses
  <2> QED
    BY <1>9, <2>1, CallType DEF DeclineOffer, TypeOK
<1>10. ASSUME ProviderWork(t) PROVE TypeOK'
  BY <1>10, CallType, TransitionType DEF ProviderWork, WorkRecorded, dispatchRows, TypeOK
<1>11. ASSUME ProviderFallback(t) PROVE TypeOK'
  BY <1>11, CallType, FallbackType DEF ProviderFallback, TypeOK
<1>12. ASSUME CallEnds(t) PROVE TypeOK'
  BY <1>12, CallType DEF CallEnds, dispatchRows, TypeOK
<1> QED
  BY <1>1, <1>2, <1>3, <1>4, <1>5, <1>6, <1>7, <1>8, <1>9, <1>10, <1>11, <1>12
  DEF CallStep

LEMMA TypeOfSweeps ==
  ASSUME TypeOK, NEW s \in Sweepers, SweepStep(s) \/ SweepCrash(s)
  PROVE  TypeOK'
<1>1. ASSUME BeginSweep(s) PROVE TypeOK'
  <2>1. [Resting EXCEPT !.at = "expire", !.due = Due] \in Sweep
    BY DEF Resting, Due, Lapsed, Sweep, SweepStages
  <2> QED
    BY <1>1, <2>1 DEF BeginSweep, dispatchRows, TypeOK
<1>2. ASSUME ExpireOffers(s) PROVE TypeOK'
  <2>1. offer' \in [Jobs -> [Providers -> OfferStatuses]]
    BY <1>2 DEF ExpireOffers, TypeOK, OfferStatuses
  <2>2. sweep' \in [Sweepers -> Sweep]
    BY <1>2, Constants DEF ExpireOffers, TypeOK
  <2> QED
    BY <1>2, <2>1, <2>2 DEF ExpireOffers, TypeOK
<1>3. ASSUME NEW j \in Jobs, CoverJob(s, j) PROVE TypeOK'
  <2>1. sweep' \in [Sweepers -> Sweep]
    <3>1. sweep[s].todo \ {j} \in SUBSET Jobs
      BY DEF TypeOK, Sweep
    <3>2. CASE job[j] # "QUOTED"
      BY <1>3, <3>1, <3>2, SweepOnType DEF CoverJob
    <3>3. CASE job[j] = "QUOTED"
      BY <1>3, <3>1, <3>3 DEF CoverJob, TypeOK, Sweep, SweepStages
    <3> QED
      BY <3>2, <3>3
  <2> QED
    BY <1>3, <2>1 DEF CoverJob, dispatchRows, TypeOK
<1>4. ASSUME CoverAssignment(s) PROVE TypeOK'
  <2>1. sweep' \in [Sweepers -> Sweep]
    <3>1. sweep[s].todo \in SUBSET Jobs
      BY DEF TypeOK, Sweep
    <3>2. CASE Active(sweep[s].job) = {}
      <4>1. [sweep[s] EXCEPT !.at = "offers"] \in Sweep
        BY ZenonT(60) DEF TypeOK, Sweep, SweepStages
      <4>2. sweep' = [sweep EXCEPT ![s] = [sweep[s] EXCEPT !.at = "offers"]]
        BY <1>4, <3>2 DEF CoverAssignment
      <4> QED
        BY <4>1, <4>2 DEF TypeOK
    <3>3. CASE Active(sweep[s].job) # {}
      BY <1>4, <3>1, <3>3, SweepOnType DEF CoverAssignment
    <3> QED
      BY <3>2, <3>3
  <2> QED
    BY <1>4, <2>1 DEF CoverAssignment, dispatchRows, TypeOK
<1>5. ASSUME CoverOffers(s) PROVE TypeOK'
  <2>1. sweep' \in [Sweepers -> Sweep]
    <3>1. sweep[s].todo \in SUBSET Jobs
      BY DEF TypeOK, Sweep
    <3>2. CASE StillOut(sweep[s].job)
      BY <1>5, <3>1, <3>2, SweepOnType DEF CoverOffers
    <3>3. CASE ~StillOut(sweep[s].job)
      <4>1. Asked(sweep[s].job) \in SUBSET Providers
        BY DEF Asked
      <4> DEFINE next == [sweep[s] EXCEPT !.at = "reoffer", !.asked = Asked(sweep[s].job)]
      <4>2. next \in Sweep
        BY <4>1, ZenonT(60) DEF TypeOK, Sweep, SweepStages
      <4>3. sweep' = [sweep EXCEPT ![s] = next]
        BY <1>5, <3>3 DEF CoverOffers
      <4> HIDE DEF next
      <4> QED
        BY <4>2, <4>3 DEF TypeOK
    <3> QED
      BY <3>2, <3>3
  <2> QED
    BY <1>5, <2>1 DEF CoverOffers, dispatchRows, TypeOK
<1>6. ASSUME Reoffer(s) PROVE TypeOK'
  <2> DEFINE j == sweep[s].job
  <2>1. sweep' \in [Sweepers -> Sweep]
    BY <1>6, SweepOnType DEF Reoffer, TypeOK, Sweep
  <2>2. /\ offer' \in [Jobs -> [Providers -> OfferStatuses]]
        /\ expiresAt' \in [Jobs -> [Providers -> Nat]]
    BY <1>6, CreateOffersType DEF Reoffer, Escalate, TypeOK
  <2>3. autoRounds' \in [Jobs -> Nat]
    <3>1. \/ UNCHANGED autoRounds
          \/ autoRounds' = [autoRounds EXCEPT ![j] = @ + 1]
      BY <1>6 DEF Reoffer, Escalate
    <3> HIDE DEF j
    <3>2. autoRounds \in [Jobs -> Nat]
      BY DEF TypeOK
    <3> QED
      BY <3>1, <3>2
  <2>4. escalated' \in [Jobs -> SUBSET Reasons]
    BY <1>6 DEF Reoffer, Escalate, TypeOK, Reasons
  <2> QED
    BY <1>6, <2>1, <2>2, <2>3, <2>4 DEF Reoffer, TypeOK
<1>7. ASSUME SweepCrash(s) PROVE TypeOK'
  BY <1>7, Constants DEF SweepCrash, dispatchRows, TypeOK
<1> QED
  BY <1>1, <1>2, <1>3, <1>4, <1>5, <1>6, <1>7 DEF SweepStep

LEMMA TypeStep == TypeOK /\ [Next]_vars => TypeOK'
<1> SUFFICES ASSUME TypeOK, [Next]_vars PROVE TypeOK'
  OBVIOUS
<1>1. CASE RequestStep
  BY <1>1, TypeOfRequests
<1>2. CASE \E t \in Threads : CallStep(t)
  BY <1>2, TypeOfCalls
<1>3. CASE \E s \in Sweepers : SweepStep(s) \/ SweepCrash(s)
  BY <1>3, TypeOfSweeps
<1>4. CASE Tick
  BY <1>4 DEF Tick, dispatchRows, TypeOK
<1>5. CASE UNCHANGED vars
  BY <1>5 DEF vars, TypeOK
<1> QED
  BY <1>1, <1>2, <1>3, <1>4, <1>5 DEF Next

\* Every row and every in-flight request or sweep keeps its type: in particular
\* no quote is ever stored EXPIRED, since that write is always rolled back.
THEOREM TypeCorrect == Spec => []TypeOK
BY TypeInit, TypeStep, PTL DEF Spec

-----------------------------------------------------------------------------
(* What a step does to the rows.  The sixteen ways of changing a row fall into *)
(* eight kinds; every invariant below is proved over these.                    *)

Quiet == UNCHANGED <<job, quote, offer, assignment, proof>>

Moves(j, to) ==
  /\ \/ job[j] = "ABSENT" /\ to = "DRAFT"
     \/ CanTransition(job[j], to) /\ to # "ASSIGNED" /\ (to = "COMPLETED" => proof[j])
  /\ SetJob(j, to)
  /\ UNCHANGED <<quote, offer, assignment, proof>>

Sends(q) ==
  /\ quote[q] = NoQuote
  /\ quote'[q].status = "SENT"
  /\ \A r \in Quotes \ {q} : quote'[r] = quote[r]
  /\ UNCHANGED <<job, offer, assignment, proof>>

Decides(q, status) ==
  /\ quote[q].status = "SENT"
  /\ quote' = [quote EXCEPT ![q].status = status]
  /\ UNCHANGED <<job, offer, assignment, proof>>

Proves(j) ==
  /\ proof' = [proof EXCEPT ![j] = TRUE]
  /\ UNCHANGED <<job, quote, offer, assignment>>

Asks(j, fresh) ==
  /\ Approved(j)
  /\ \A p \in fresh : offer[j][p] = "NONE"
  /\ offer' = [offer EXCEPT ![j] =
                 [p \in Providers |-> IF p \in fresh THEN "PENDING" ELSE offer[j][p]]]
  /\ UNCHANGED <<job, quote, assignment, proof>>

Settles ==
  /\ \A j \in Jobs, p \in Providers :
       \/ offer'[j][p] = offer[j][p]
       \/ offer[j][p] # "NONE" /\ offer'[j][p] \in {"DECLINED", "EXPIRED"}
  /\ UNCHANGED <<job, quote, assignment, proof>>

Awards(j, p) ==
  /\ JobOpen(j)
  /\ offer[j][p] = "PENDING"
  /\ SetJob(j, "ASSIGNED")
  /\ assignment' = [assignment EXCEPT ![j][p] = "ACTIVE"]
  /\ offer' = [offer EXCEPT ![j] =
                 [r \in Providers |-> IF r = p THEN "ACCEPTED"
                                      ELSE IF offer[j][r] = "PENDING" THEN "WITHDRAWN"
                                      ELSE offer[j][r]]]
  /\ UNCHANGED <<quote, proof>>

Releases(j, p) ==
  /\ p \in Active(j)
  /\ CanTransition(job[j], "QUOTED")
  /\ SetJob(j, "QUOTED")
  /\ assignment' = [assignment EXCEPT ![j][p] = "FELL_THROUGH"]
  /\ UNCHANGED <<quote, offer, proof>>

RowStep ==
  \/ Quiet
  \/ Settles
  \/ \E q \in Quotes : Sends(q) \/ \E status \in {"APPROVED", "REJECTED"} : Decides(q, status)
  \/ \E j \in Jobs :
       \/ Proves(j)
       \/ \E to \in Statuses : Moves(j, to)
       \/ \E fresh \in SUBSET Providers : Asks(j, fresh)
       \/ \E p \in Providers : Awards(j, p) \/ Releases(j, p)

\* The writes by id of a decline and of an expiry are to offers that exist, so
\* that they never create one.  Needed of every state by the lemmas on rows.
WritesAreGrounded ==
  /\ \A t \in Threads :
       /\ call[t].at # "idle" => call[t].job \in Jobs
       /\ call[t].at \in {"accept", "decline"} =>
            /\ call[t].prov \in Providers
            /\ offer[call[t].job][call[t].prov] # "NONE"
  /\ \A s \in Sweepers :
       /\ sweep[s].at \in {"assignment", "offers", "reoffer"} => sweep[s].job \in Jobs
       /\ \A jp \in sweep[s].due : offer[jp[1]][jp[2]] # "NONE"

LEMMA RowsOfRequests ==
  ASSUME TypeOK, RequestStep
  PROVE  RowStep
<1>1. ASSUME NEW j \in Jobs, CreateJob(j) PROVE RowStep
  BY <1>1 DEF CreateJob, dispatchRows, Moves, RowStep, Statuses
<1>2. ASSUME NEW j \in Jobs, UploadEvidence(j) PROVE RowStep
  BY <1>2 DEF UploadEvidence, Proves, RowStep
<1>3. ASSUME NEW j \in Jobs, StaffFallback(j) PROVE RowStep
  BY <1>3 DEF StaffFallback, FallbackAssignment, TransitionJob, Active, Releases, RowStep
<1>4. ASSUME NEW j \in Jobs, TriageJob(j) \/ CancelJob(j) PROVE RowStep
  <2>1. PICK to \in {"TRIAGED", "CANCELLED"} : Moves(j, to) /\ to \in Statuses
    BY <1>4 DEF TriageJob, CancelJob, TransitionJob, dispatchRows, Moves, Statuses
  <2> QED
    BY <2>1 DEF RowStep
<1>5. ASSUME NEW j \in Jobs, NEW to \in Statuses, StaffWork(j, to) PROVE RowStep
  <2>1. Moves(j, to)
    BY <1>5 DEF StaffWork, WorkRecorded, TransitionJob, dispatchRows, Moves
  <2> QED
    BY <2>1 DEF RowStep
<1>6. ASSUME NEW q \in Quotes, NEW status \in QuoteStatuses, DecideQuote(q, status)
      PROVE RowStep
  <2>1. status \in {"APPROVED", "REJECTED"} /\ Decides(q, status)
    BY <1>6 DEF DecideQuote, Decides
  <2> QED
    BY <2>1 DEF RowStep
<1> QED
  BY <1>1, <1>2, <1>3, <1>4, <1>5, <1>6 DEF RequestStep

LEMMA RowsOfCalls ==
  ASSUME TypeOK, WritesAreGrounded, NEW t \in Threads, CallStep(t)
  PROVE  RowStep
<1> DEFINE j == call[t].job
<1>1. ASSUME \/ \E i \in Jobs : BeginQuote(t, i) \/ BeginOffers(t, i)
             \/ \E i \in Jobs, p \in Providers :
                  \/ BeginAccept(t, i, p) \/ BeginDecline(t, i, p)
                  \/ \E stage \in CallStages : BeginProviderWork(t, stage, i, p)
             \/ CallEnds(t)
      PROVE  RowStep
  BY <1>1 DEF BeginQuote, BeginOffers, BeginAccept, BeginDecline, BeginProviderWork,
              CallEnds, dispatchRows, Quiet, RowStep
<1>2. ASSUME NEW q \in Quotes, CreateQuote(t, q) PROVE RowStep
  <2>1. Sends(q)
    BY <1>2 DEF CreateQuote, Sends, TypeOK
  <2> QED
    BY <2>1 DEF RowStep
<1>3. ASSUME MarkQuoted(t) PROVE RowStep
  <2>1. j \in Jobs
    BY <1>3 DEF MarkQuoted, WritesAreGrounded
  <2>2. Moves(j, "QUOTED")
    BY <1>3 DEF MarkQuoted, TransitionJob, dispatchRows, Moves
  <2> QED
    BY <2>1, <2>2 DEF RowStep, Statuses
<1>4. ASSUME FanOut(t) PROVE RowStep
  <2>1. j \in Jobs
    BY <1>4 DEF FanOut, WritesAreGrounded
  <2>2. PICK eligible \in SUBSET Providers : CreateOffers(j, eligible)
    BY <1>4 DEF FanOut
  <2> DEFINE fresh == {p \in eligible : offer[j][p] = "NONE"}
  <2>3. Asks(j, fresh)
    BY <1>4, <2>2 DEF FanOut, CreateOffers, PutOffers, PriceCheck, Asks
  <2> QED
    BY <2>1, <2>3 DEF RowStep
<1>5. ASSUME AcceptOffer(t) PROVE RowStep
  <2>1. j \in Jobs /\ call[t].prov \in Providers
    BY <1>5 DEF AcceptOffer, WritesAreGrounded
  <2>2. Awards(j, call[t].prov)
    BY <1>5 DEF AcceptOffer, Awards
  <2> QED
    BY <2>1, <2>2 DEF RowStep
<1>6. ASSUME DeclineOffer(t) PROVE RowStep
  <2>1. offer[j][call[t].prov] # "NONE"
    BY <1>6 DEF DeclineOffer, WritesAreGrounded
  <2>2. Settles
    BY <1>6, <2>1 DEF DeclineOffer, TypeOK, Settles
  <2> QED
    BY <2>2 DEF RowStep
<1>7. ASSUME ProviderWork(t) PROVE RowStep
  <2>1. j \in Jobs
    BY <1>7 DEF ProviderWork, WritesAreGrounded
  <2>2. Moves(j, "IN_PROGRESS") \/ Moves(j, "COMPLETED")
    BY <1>7 DEF ProviderWork, WorkRecorded, TransitionJob, dispatchRows, Moves
  <2> QED
    BY <2>1, <2>2 DEF RowStep, Statuses
<1>8. ASSUME ProviderFallback(t) PROVE RowStep
  <2>1. j \in Jobs
    BY <1>8 DEF ProviderFallback, WritesAreGrounded
  <2>2. \E p \in Providers : Releases(j, p)
    BY <1>8 DEF ProviderFallback, FallbackAssignment, TransitionJob, Active, Releases
  <2> QED
    BY <2>1, <2>2 DEF RowStep
<1> QED
  BY <1>1, <1>2, <1>3, <1>4, <1>5, <1>6, <1>7, <1>8 DEF CallStep

LEMMA RowsOfSweeps ==
  ASSUME TypeOK, WritesAreGrounded, NEW s \in Sweepers, SweepStep(s) \/ SweepCrash(s)
  PROVE  RowStep
<1>1. ASSUME \/ BeginSweep(s) \/ CoverAssignment(s) \/ CoverOffers(s) \/ SweepCrash(s)
             \/ \E j \in Jobs : CoverJob(s, j)
      PROVE  RowStep
  BY <1>1 DEF BeginSweep, CoverJob, CoverAssignment, CoverOffers, SweepCrash, dispatchRows,
              Quiet, RowStep
<1>2. ASSUME ExpireOffers(s) PROVE RowStep
  <2>1. \A j \in Jobs, p \in Providers :
          <<j, p>> \in sweep[s].due => offer[j][p] # "NONE"
    BY DEF WritesAreGrounded
  <2>2. Settles
    BY <1>2, <2>1 DEF ExpireOffers, Settles
  <2> QED
    BY <2>2 DEF RowStep
<1>3. ASSUME Reoffer(s) PROVE RowStep
  <2> DEFINE j == sweep[s].job
  <2>1. j \in Jobs
    BY <1>3 DEF Reoffer, WritesAreGrounded
  <2>2. UNCHANGED <<job, quote, assignment, proof>>
    BY <1>3 DEF Reoffer
  <2>3. CASE UNCHANGED offer
    BY <2>2, <2>3 DEF Quiet, RowStep
  <2>4. ASSUME PriceCheck(j), NEW next \in SUBSET Providers, CreateOffers(j, next)
        PROVE  RowStep
    <3> DEFINE fresh == {p \in next : offer[j][p] = "NONE"}
    <3>1. Asks(j, fresh)
      BY <2>2, <2>4 DEF CreateOffers, PutOffers, PriceCheck, Asks
    <3> QED
      BY <2>1, <3>1 DEF RowStep
  <2> QED
    BY <1>3, <2>3, <2>4 DEF Reoffer, Escalate
<1> QED
  BY <1>1, <1>2, <1>3 DEF SweepStep

LEMMA RowsOfStep == TypeOK /\ WritesAreGrounded /\ [Next]_vars => RowStep
<1> SUFFICES ASSUME TypeOK, WritesAreGrounded, [Next]_vars PROVE RowStep
  OBVIOUS
<1>1. CASE Tick \/ UNCHANGED vars
  BY <1>1 DEF Tick, vars, dispatchRows, Quiet, RowStep
<1> QED
  BY <1>1, RowsOfRequests, RowsOfCalls, RowsOfSweeps DEF Next

-----------------------------------------------------------------------------
(* Writes are grounded: what was read of an offer stays true enough to write *)

\* No step makes an offer row disappear.
LEMMA OfferRowsStay ==
  ASSUME TypeOK, RowStep, NEW j \in Jobs, NEW p \in Providers, offer[j][p] # "NONE"
  PROVE  offer'[j][p] # "NONE"
<1>1. CASE Settles
  BY <1>1 DEF Settles
<1>2. ASSUME NEW i \in Jobs, NEW fresh \in SUBSET Providers, Asks(i, fresh)
      PROVE  offer'[j][p] # "NONE"
  BY <1>2 DEF Asks, TypeOK
<1>3. ASSUME NEW i \in Jobs, NEW r \in Providers, Awards(i, r)
      PROVE  offer'[j][p] # "NONE"
  BY <1>3 DEF Awards, TypeOK
<1>4. CASE UNCHANGED offer
  BY <1>4
<1> QED
  BY <1>1, <1>2, <1>3, <1>4 DEF RowStep, Quiet, Sends, Decides, Proves, Moves, Releases

\* The part of WritesAreGrounded about one request, and about one sweep run.
GroundedCall(c) ==
  /\ c.at # "idle" => c.job \in Jobs
  /\ c.at \in {"accept", "decline"} =>
       c.prov \in Providers /\ offer[c.job][c.prov] # "NONE"

GroundedSweep(w) ==
  /\ w.at \in {"assignment", "offers", "reoffer"} => w.job \in Jobs
  /\ w.due \subseteq Jobs \X Providers
  /\ \A jp \in w.due : offer[jp[1]][jp[2]] # "NONE"

LEMMA GroundedParts ==
  TypeOK => /\ WritesAreGrounded <=> /\ \A t \in Threads : GroundedCall(call[t])
                                     /\ \A s \in Sweepers : GroundedSweep(sweep[s])
BY DEF TypeOK, Sweep, WritesAreGrounded, GroundedCall, GroundedSweep

LEMMA GroundedInit == Init => WritesAreGrounded
BY DEF Init, Idle, Resting, WritesAreGrounded

\* Each step of a request leaves it idle, or with a record that is grounded now.
LEMMA CallStaysGrounded ==
  ASSUME TypeOK, WritesAreGrounded, NEW t \in Threads, CallStep(t)
  PROVE  \E c : call' = [call EXCEPT ![t] = c] /\ GroundedCall(c)
<1>1. GroundedCall(Idle)
  BY DEF GroundedCall, Idle
<1>2. CASE Answer(t)
  BY <1>1, <1>2 DEF Answer
<1>3. ASSUME NEW j \in Jobs, NEW p, NEW stage, Proceed(t, stage, j, p),
             stage \in {"accept", "decline"} => p \in Providers /\ offer[j][p] # "NONE"
      PROVE  \E c : call' = [call EXCEPT ![t] = c] /\ GroundedCall(c)
  <2> DEFINE c == [at |-> stage, job |-> j, prov |-> p, now |-> now]
  <2>1. GroundedCall(c)
    BY <1>3 DEF GroundedCall
  <2>2. call' = [call EXCEPT ![t] = c]
    BY <1>3 DEF Proceed
  <2> QED
    BY <2>1, <2>2
<1>4. ASSUME NEW q \in Quotes, CreateQuote(t, q)
      PROVE  \E c : call' = [call EXCEPT ![t] = c] /\ GroundedCall(c)
  <2> DEFINE c == [call[t] EXCEPT !.at = "quoted"]
  <2>1. call[t].job \in Jobs
    BY <1>4 DEF CreateQuote, WritesAreGrounded
  <2>2. GroundedCall(c)
    BY <2>1 DEF GroundedCall, TypeOK, Call
  <2>3. call' = [call EXCEPT ![t] = c]
    BY <1>4 DEF CreateQuote
  <2> QED
    BY <2>2, <2>3
<1>5. CASE \E j \in Jobs : BeginQuote(t, j) \/ BeginOffers(t, j)
  BY <1>3, <1>5 DEF BeginQuote, BeginOffers
<1>6. CASE \E j \in Jobs, p \in Providers : BeginAccept(t, j, p) \/ BeginDecline(t, j, p)
  BY <1>3, <1>6 DEF BeginAccept, BeginDecline
<1>7. ASSUME NEW j \in Jobs, NEW p \in Providers, NEW stage \in CallStages,
             BeginProviderWork(t, stage, j, p)
      PROVE  \E c : call' = [call EXCEPT ![t] = c] /\ GroundedCall(c)
  BY <1>3, <1>7 DEF BeginProviderWork
<1>8. CASE \/ MarkQuoted(t) \/ FanOut(t) \/ AcceptOffer(t) \/ DeclineOffer(t)
           \/ ProviderWork(t) \/ ProviderFallback(t) \/ CallEnds(t)
  BY <1>2, <1>8 DEF MarkQuoted, FanOut, AcceptOffer, DeclineOffer, ProviderWork,
                    ProviderFallback, CallEnds
<1> QED
  BY <1>4, <1>5, <1>6, <1>7, <1>8 DEF CallStep

\* Each step of a sweep run leaves a record that is grounded now.
LEMMA SweepStaysGrounded ==
  ASSUME TypeOK, WritesAreGrounded, NEW s \in Sweepers, SweepStep(s) \/ SweepCrash(s)
  PROVE  \E w : sweep' = [sweep EXCEPT ![s] = w] /\ GroundedSweep(w)
<1> DEFINE Good == \E w : sweep' = [sweep EXCEPT ![s] = w] /\ GroundedSweep(w)
<1>1. GroundedSweep(Resting) /\ \A todo : GroundedSweep(Covering(todo))
  BY DEF GroundedSweep, Resting, Covering
<1>2. ASSUME NEW todo, SweepOn(s, todo) PROVE Good
  BY <1>1, <1>2 DEF SweepOn
<1>3. ASSUME BeginSweep(s) PROVE Good
  <2> DEFINE w == [Resting EXCEPT !.at = "expire", !.due = Due]
  <2>1. GroundedSweep(w)
    BY DEF GroundedSweep, Resting, Due, Lapsed
  <2> QED
    BY <1>3, <2>1 DEF BeginSweep
<1>4. ASSUME ExpireOffers(s) PROVE Good
  BY <1>1, <1>4 DEF ExpireOffers
<1>5. GroundedSweep(sweep[s])
  BY GroundedParts
<1>6. ASSUME NEW j \in Jobs, CoverJob(s, j) PROVE Good
  <2>1. CASE job[j] # "QUOTED"
    BY <1>2, <1>6, <2>1 DEF CoverJob
  <2>2. CASE job[j] = "QUOTED"
    <3> DEFINE w == [sweep[s] EXCEPT !.at = "assignment", !.job = j,
                                     !.todo = sweep[s].todo \ {j}]
    <3>1. GroundedSweep(w)
      BY <1>5 DEF GroundedSweep, TypeOK, Sweep
    <3>2. sweep' = [sweep EXCEPT ![s] = w]
      BY <1>6, <2>2 DEF CoverJob
    <3> HIDE DEF w
    <3> QED
      BY <3>1, <3>2
  <2> QED
    BY <2>1, <2>2
<1>7. ASSUME CoverAssignment(s) PROVE Good
  <2>1. CASE Active(sweep[s].job) # {}
    BY <1>2, <1>7, <2>1 DEF CoverAssignment
  <2>2. CASE Active(sweep[s].job) = {}
    <3> DEFINE w == [sweep[s] EXCEPT !.at = "offers"]
    <3>1. GroundedSweep(w)
      BY <1>5, <1>7 DEF GroundedSweep, CoverAssignment, TypeOK, Sweep
    <3>2. sweep' = [sweep EXCEPT ![s] = w]
      BY <1>7, <2>2 DEF CoverAssignment
    <3> HIDE DEF w
    <3> QED
      BY <3>1, <3>2
  <2> QED
    BY <2>1, <2>2
<1>8. ASSUME CoverOffers(s) PROVE Good
  <2>1. CASE StillOut(sweep[s].job)
    BY <1>2, <1>8, <2>1 DEF CoverOffers
  <2>2. CASE ~StillOut(sweep[s].job)
    <3> DEFINE w == [sweep[s] EXCEPT !.at = "reoffer", !.asked = Asked(sweep[s].job)]
    <3>1. GroundedSweep(w)
      BY <1>5, <1>8 DEF GroundedSweep, CoverOffers, TypeOK, Sweep
    <3>2. sweep' = [sweep EXCEPT ![s] = w]
      BY <1>8, <2>2 DEF CoverOffers
    <3> HIDE DEF w
    <3> QED
      BY <3>1, <3>2
  <2> QED
    BY <2>1, <2>2
<1>9. ASSUME Reoffer(s) PROVE Good
  BY <1>2, <1>9 DEF Reoffer
<1>10. ASSUME SweepCrash(s) PROVE Good
  BY <1>1, <1>10 DEF SweepCrash
<1> QED
  BY <1>3, <1>4, <1>6, <1>7, <1>8, <1>9, <1>10 DEF SweepStep

LEMMA GroundedStep == TypeOK /\ WritesAreGrounded /\ [Next]_vars => WritesAreGrounded'
<1> SUFFICES ASSUME TypeOK, WritesAreGrounded, [Next]_vars PROVE WritesAreGrounded'
  OBVIOUS
<1>1. TypeOK' /\ RowStep
  BY TypeStep, RowsOfStep
<1>2. \/ UNCHANGED call
      \/ \E t \in Threads : \E c : call' = [call EXCEPT ![t] = c] /\ GroundedCall(c)
  <2>1. CASE \E t \in Threads : CallStep(t)
    BY <2>1, CallStaysGrounded
  <2>2. CASE RequestStep \/ Tick \/ UNCHANGED vars
    BY <2>2 DEF RequestStep, CreateJob, UploadEvidence, StaffFallback, TriageJob, CancelJob,
                StaffWork, DecideQuote, Tick, vars
  <2>3. CASE \E s \in Sweepers : SweepStep(s) \/ SweepCrash(s)
    BY <2>3 DEF SweepStep, BeginSweep, ExpireOffers, CoverJob, CoverAssignment, CoverOffers,
                Reoffer, SweepCrash
  <2> QED
    BY <2>1, <2>2, <2>3 DEF Next
<1>3. \/ UNCHANGED sweep
      \/ \E s \in Sweepers : \E w : sweep' = [sweep EXCEPT ![s] = w] /\ GroundedSweep(w)
  <2>1. CASE \E s \in Sweepers : SweepStep(s) \/ SweepCrash(s)
    BY <2>1, SweepStaysGrounded
  <2>2. CASE RequestStep \/ Tick \/ UNCHANGED vars
    BY <2>2 DEF RequestStep, CreateJob, UploadEvidence, StaffFallback, TriageJob, CancelJob,
                StaffWork, DecideQuote, Tick, vars
  <2>3. CASE \E t \in Threads : CallStep(t)
    BY <2>3 DEF CallStep, BeginQuote, BeginOffers, CreateQuote, MarkQuoted, FanOut,
                BeginAccept, BeginDecline, BeginProviderWork, AcceptOffer, DeclineOffer,
                ProviderWork, ProviderFallback, CallEnds
  <2> QED
    BY <2>1, <2>2, <2>3 DEF Next
<1>4. \A t \in Threads : GroundedCall(call'[t])
  BY <1>2, GroundedParts DEF TypeOK
<1>5. \A s \in Sweepers : GroundedSweep(sweep'[s])
  BY <1>3, GroundedParts DEF TypeOK
<1>6. /\ \A t \in Threads : GroundedCall(call[t])'
      /\ \A s \in Sweepers : GroundedSweep(sweep[s])'
  BY <1>1, <1>4, <1>5, OfferRowsStay DEF GroundedCall, GroundedSweep
<1>7. (TypeOK => /\ WritesAreGrounded <=> /\ \A t \in Threads : GroundedCall(call[t])
                                         /\ \A s \in Sweepers : GroundedSweep(sweep[s]))'
  BY GroundedParts, PTL
<1> QED
  BY <1>1, <1>6, <1>7

-----------------------------------------------------------------------------
(* The safety invariants.  Each is preserved by every kind of row step.        *)

\* An approval is final: no step takes it back.
LEMMA ApprovalIsFinal ==
  ASSUME TypeOK, RowStep, NEW j, Approved(j)
  PROVE  Approved(j)'
<1>1. PICK q \in Quotes : quote[q].job = j /\ quote[q].status = "APPROVED"
  BY DEF Approved
<1>2. quote'[q] = quote[q]
  <2>1. CASE UNCHANGED quote
    BY <2>1
  <2>2. ASSUME NEW r \in Quotes, Sends(r) PROVE quote'[q] = quote[q]
    <3>1. q # r
      BY <1>1, <2>2 DEF Sends, NoQuote
    <3> QED
      BY <2>2, <3>1 DEF Sends
  <2>3. ASSUME NEW r \in Quotes, NEW status, Decides(r, status) PROVE quote'[q] = quote[q]
    <3>1. q # r
      BY <1>1, <2>3 DEF Decides
    <3> QED
      BY <2>3, <3>1 DEF Decides, TypeOK
  <2> QED
    BY <2>1, <2>2, <2>3
    DEF RowStep, Quiet, Settles, Proves, Moves, Asks, Awards, Releases
<1> QED
  BY <1>1, <1>2 DEF Approved

\* Only an award and a fallback touch the assignments.
LEMMA WritersOfAssignment ==
  ASSUME RowStep
  PROVE  \/ UNCHANGED assignment
         \/ \E j \in Jobs, p \in Providers : Awards(j, p) \/ Releases(j, p)
BY DEF RowStep, Quiet, Settles, Sends, Decides, Proves, Moves, Asks

LEMMA OneClaimantStep ==
  ASSUME TypeOK, RowStep, OneClaimant
  PROVE  OneClaimant'
<1>1. CASE UNCHANGED assignment
  BY <1>1 DEF OneClaimant, Active
<1>2. ASSUME NEW i \in Jobs, NEW a \in Providers, Awards(i, a) PROVE OneClaimant'
  <2> SUFFICES ASSUME NEW j \in Jobs, NEW p \in Active(j)', NEW r \in Active(j)'
               PROVE  p = r
    BY DEF OneClaimant
  <2>1. CASE j = i
    BY <1>2, <2>1 DEF Awards, JobOpen, JobOpenByIndex, Active, TypeOK
  <2>2. CASE j # i
    BY <1>2, <2>2 DEF Awards, OneClaimant, Active, TypeOK
  <2> QED
    BY <2>1, <2>2
<1>3. ASSUME NEW i \in Jobs, NEW a \in Providers, Releases(i, a) PROVE OneClaimant'
  BY <1>3 DEF Releases, OneClaimant, Active, TypeOK
<1> QED
  BY <1>1, <1>2, <1>3, WritersOfAssignment

LEMMA HeldHasHolderStep ==
  ASSUME TypeOK, RowStep, HeldHasHolder
  PROVE  HeldHasHolder'
<1> SUFFICES ASSUME NEW j \in Jobs, job'[j] \in Held PROVE \E p \in Providers : assignment'[j][p] = "ACTIVE"
  BY DEF HeldHasHolder, Active
<1>1. job[j] \in Held => \E p \in Providers : assignment[j][p] = "ACTIVE"
  BY DEF HeldHasHolder, Active
<1>2. CASE UNCHANGED <<job, assignment>>
  BY <1>1, <1>2
<1>3. ASSUME NEW i \in Jobs, NEW to \in Statuses, Moves(i, to)
      PROVE  \E p \in Providers : assignment'[j][p] = "ACTIVE"
  <2>1. job[j] \in Held
    <3>1. CASE j = i
      BY <1>3, <3>1 DEF Moves, SetJob, TypeOK, Held, CanTransition, Transitions
    <3>2. CASE j # i
      BY <1>3, <3>2 DEF Moves, SetJob, TypeOK
    <3> QED
      BY <3>1, <3>2
  <2> QED
    BY <1>1, <1>3, <2>1 DEF Moves
<1>4. ASSUME NEW i \in Jobs, NEW a \in Providers, Awards(i, a)
      PROVE  \E p \in Providers : assignment'[j][p] = "ACTIVE"
  <2>1. CASE j = i
    BY <1>4, <2>1 DEF Awards, TypeOK
  <2>2. CASE j # i
    BY <1>1, <1>4, <2>2 DEF Awards, SetJob, TypeOK
  <2> QED
    BY <2>1, <2>2
<1>5. ASSUME NEW i \in Jobs, NEW a \in Providers, Releases(i, a)
      PROVE  \E p \in Providers : assignment'[j][p] = "ACTIVE"
  <2>1. j # i
    BY <1>5 DEF Releases, SetJob, TypeOK, Held
  <2> QED
    BY <1>1, <1>5, <2>1 DEF Releases, SetJob, TypeOK
<1> QED
  BY <1>2, <1>3, <1>4, <1>5 DEF RowStep, Quiet, Settles, Sends, Decides, Proves, Asks

LEMMA DispatchedAtAPriceStep ==
  ASSUME TypeOK, RowStep, DispatchedAtAPrice
  PROVE  DispatchedAtAPrice'
<1> SUFFICES ASSUME NEW j \in Jobs, NEW p \in Providers,
                    offer'[j][p] # "NONE" \/ assignment'[j][p] # "NONE"
             PROVE  Approved(j)'
  BY DEF DispatchedAtAPrice
<1> SUFFICES Approved(j)
  BY ApprovalIsFinal
<1>1. CASE offer[j][p] # "NONE" \/ assignment[j][p] # "NONE"
  BY <1>1 DEF DispatchedAtAPrice
<1>2. CASE offer[j][p] = "NONE" /\ assignment[j][p] = "NONE"
  <2>1. CASE UNCHANGED <<offer, assignment>>
    BY <1>2, <2>1
  <2>2. CASE Settles
    BY <1>2, <2>2 DEF Settles
  <2>3. ASSUME NEW i \in Jobs, NEW fresh \in SUBSET Providers, Asks(i, fresh)
        PROVE  Approved(j)
    <3>1. CASE j = i
      BY <2>3, <3>1 DEF Asks
    <3>2. CASE j # i
      BY <1>2, <2>3, <3>2 DEF Asks, TypeOK
    <3> QED
      BY <3>1, <3>2
  <2>4. ASSUME NEW i \in Jobs, NEW a \in Providers, Awards(i, a)
        PROVE  Approved(j)
    <3>1. CASE j = i
      BY <2>4, <3>1 DEF Awards, DispatchedAtAPrice
    <3>2. CASE j # i
      BY <1>2, <2>4, <3>2 DEF Awards, TypeOK
    <3> QED
      BY <3>1, <3>2
  <2>5. ASSUME NEW i \in Jobs, NEW a \in Providers, Releases(i, a)
        PROVE  Approved(j)
    <3>1. i # j \/ a # p
      BY <1>2, <2>5 DEF Releases, Active
    <3> QED
      BY <1>2, <2>5, <3>1 DEF Releases, TypeOK
  <2> QED
    BY <2>1, <2>2, <2>3, <2>4, <2>5 DEF RowStep, Quiet, Sends, Decides, Proves, Moves
<1> QED
  BY <1>1, <1>2

LEMMA AwardedOnceStep ==
  ASSUME TypeOK, RowStep, AwardedOnce
  PROVE  AwardedOnce'
<1> SUFFICES ASSUME NEW j \in Jobs, NEW p \in Providers, assignment'[j][p] # "NONE"
             PROVE  offer'[j][p] \notin {"NONE", "PENDING"}
  BY DEF AwardedOnce
<1>1. assignment[j][p] # "NONE" => offer[j][p] \notin {"NONE", "PENDING"}
  BY DEF AwardedOnce
<1>2. CASE UNCHANGED <<offer, assignment>>
  BY <1>1, <1>2
<1>3. CASE Settles
  BY <1>1, <1>3 DEF Settles
<1>4. ASSUME NEW i \in Jobs, NEW fresh \in SUBSET Providers, Asks(i, fresh)
      PROVE  offer'[j][p] \notin {"NONE", "PENDING"}
  BY <1>1, <1>4 DEF Asks, TypeOK
<1>5. ASSUME NEW i \in Jobs, NEW a \in Providers, Awards(i, a)
      PROVE  offer'[j][p] \notin {"NONE", "PENDING"}
  <2>1. CASE j = i
    BY <1>1, <1>5, <2>1 DEF Awards, TypeOK
  <2>2. CASE j # i
    BY <1>1, <1>5, <2>2 DEF Awards, TypeOK
  <2> QED
    BY <2>1, <2>2
<1>6. ASSUME NEW i \in Jobs, NEW a \in Providers, Releases(i, a)
      PROVE  offer'[j][p] \notin {"NONE", "PENDING"}
  <2>1. assignment[j][p] # "NONE"
    BY <1>6 DEF Releases, Active, TypeOK
  <2> QED
    BY <1>1, <1>6, <2>1 DEF Releases
<1> QED
  BY <1>2, <1>3, <1>4, <1>5, <1>6 DEF RowStep, Quiet, Sends, Decides, Proves, Moves

LEMMA CompletedWithProofStep ==
  ASSUME TypeOK, RowStep, CompletedWithProof
  PROVE  CompletedWithProof'
<1> SUFFICES ASSUME NEW j \in Jobs, job'[j] = "COMPLETED" PROVE proof'[j]
  BY DEF CompletedWithProof
<1>1. job[j] = "COMPLETED" => proof[j]
  BY DEF CompletedWithProof
<1>2. CASE UNCHANGED <<job, proof>>
  BY <1>1, <1>2
<1>3. ASSUME NEW i \in Jobs, Proves(i) PROVE proof'[j]
  BY <1>1, <1>3 DEF Proves, TypeOK
<1>4. ASSUME NEW i \in Jobs, NEW to \in Statuses, Moves(i, to) PROVE proof'[j]
  BY <1>1, <1>4 DEF Moves, SetJob, TypeOK
<1>5. ASSUME NEW i \in Jobs, NEW to \in {"ASSIGNED", "QUOTED"}, SetJob(i, to), UNCHANGED proof
      PROVE  proof'[j]
  BY <1>1, <1>5 DEF SetJob, TypeOK
<1> QED
  BY <1>2, <1>3, <1>4, <1>5
  DEF RowStep, Quiet, Settles, Sends, Decides, Asks, Awards, Releases

\* The inductive invariant: the types, what requests and sweeps in flight may
\* rely on, and the five safety invariants.
IInv ==
  /\ TypeOK
  /\ WritesAreGrounded
  /\ OneClaimant
  /\ HeldHasHolder
  /\ DispatchedAtAPrice
  /\ AwardedOnce
  /\ CompletedWithProof

LEMMA IInvInit == Init => IInv
<1> SUFFICES ASSUME Init PROVE IInv
  OBVIOUS
<1>1. OneClaimant /\ HeldHasHolder /\ DispatchedAtAPrice /\ AwardedOnce /\ CompletedWithProof
  BY DEF Init, OneClaimant, HeldHasHolder, DispatchedAtAPrice, AwardedOnce,
         CompletedWithProof, Active, Held
<1> QED
  BY <1>1, TypeInit, GroundedInit DEF IInv

LEMMA IInvStep == IInv /\ [Next]_vars => IInv'
<1> SUFFICES ASSUME IInv, [Next]_vars PROVE IInv'
  OBVIOUS
<1>1. RowStep
  BY RowsOfStep DEF IInv
<1>2. TypeOK' /\ WritesAreGrounded'
  BY TypeStep, GroundedStep DEF IInv
<1>3. OneClaimant'
  BY <1>1, OneClaimantStep DEF IInv
<1>4. HeldHasHolder'
  BY <1>1, HeldHasHolderStep DEF IInv
<1>5. DispatchedAtAPrice'
  BY <1>1, DispatchedAtAPriceStep DEF IInv
<1>6. AwardedOnce'
  BY <1>1, AwardedOnceStep DEF IInv
<1>7. CompletedWithProof'
  BY <1>1, CompletedWithProofStep DEF IInv
<1> QED
  BY <1>2, <1>3, <1>4, <1>5, <1>6, <1>7 DEF IInv

THEOREM InductiveInvariant == Spec => []IInv
BY IInvInit, IInvStep, PTL DEF Spec

\* However requests, fallbacks and sweeps interleave, a job never has two
\* providers with an active assignment.
THEOREM JobHasOneClaimant == Spec => []OneClaimant
<1>1. IInv => OneClaimant
  BY DEF IInv
<1> QED
  BY <1>1, InductiveInvariant, PTL

\* An assigned, running or completed job always has a provider behind it.
THEOREM HeldJobHasHolder == Spec => []HeldHasHolder
<1>1. IInv => HeldHasHolder
  BY DEF IInv
<1> QED
  BY <1>1, InductiveInvariant, PTL

\* ADR 0001's guarantee: no offer and no assignment without an approved price.
THEOREM DispatchNeedsAPrice == Spec => []DispatchedAtAPrice
<1>1. IInv => DispatchedAtAPrice
  BY DEF IInv
<1> QED
  BY <1>1, InductiveInvariant, PTL

\* A provider that holds or held a job has no live offer on it any more.
THEOREM ProviderIsAwardedOnce == Spec => []AwardedOnce
<1>1. IInv => AwardedOnce
  BY DEF IInv
<1> QED
  BY <1>1, InductiveInvariant, PTL

\* A completed job has uploaded proof.
THEOREM CompletionHasProof == Spec => []CompletedWithProof
<1>1. IInv => CompletedWithProof
  BY DEF IInv
<1> QED
  BY <1>1, InductiveInvariant, PTL

-----------------------------------------------------------------------------
(* The action properties *)

LEMMA ClosedStep ==
  ASSUME TypeOK, RowStep, NEW j \in Jobs, job[j] \in Terminal
  PROVE  job'[j] = job[j] /\ assignment'[j] = assignment[j]
<1>1. \A to : ~CanTransition(job[j], to)
  BY DEF CanTransition, Transitions, Terminal
<1>2. CASE UNCHANGED <<job, assignment>>
  BY <1>2
<1>3. ASSUME NEW i \in Jobs, NEW to \in Statuses, Moves(i, to)
      PROVE  job'[j] = job[j] /\ assignment'[j] = assignment[j]
  <2>1. i # j
    BY <1>1, <1>3 DEF Moves, Terminal
  <2> QED
    BY <1>3, <2>1 DEF Moves, SetJob, TypeOK
<1>4. ASSUME NEW i \in Jobs, NEW p \in Providers, Awards(i, p) \/ Releases(i, p)
      PROVE  job'[j] = job[j] /\ assignment'[j] = assignment[j]
  <2>1. i # j
    BY <1>1, <1>4 DEF Awards, JobOpen, JobOpenByStatus, Releases
  <2> QED
    BY <1>4, <2>1 DEF Awards, Releases, SetJob, TypeOK
<1> QED
  BY <1>2, <1>3, <1>4 DEF RowStep, Quiet, Settles, Sends, Decides, Proves, Asks

\* Nothing that is in flight when a job is completed or cancelled, and no stale
\* claim or offer it leaves behind, can move the job or its assignments again.
THEOREM ClosedJobsAreFinal == Spec => ClosedJobsStayClosed
<1>1. IInv /\ [Next]_vars =>
        [\A j \in Jobs : job[j] \in Terminal =>
           job'[j] = job[j] /\ assignment'[j] = assignment[j]]_vars
  BY RowsOfStep, ClosedStep DEF IInv
<1> QED
  BY <1>1, InductiveInvariant, PTL DEF Spec, ClosedJobsStayClosed

\* A step of a sweep changes that sweep's record only.
LEMMA OwnRecord ==
  ASSUME TypeOK, NEW s \in Sweepers, SweepStep(s) \/ SweepCrash(s)
  PROVE  UNCHANGED call /\ \A r \in Sweepers \ {s} : sweep'[r] = sweep[r]
BY DEF TypeOK, SweepStep, SweepCrash, BeginSweep, ExpireOffers, CoverJob, CoverAssignment,
       CoverOffers, Reoffer, SweepOn

\* Every other step leaves the sweeps, and what they told people, alone.
LEMMA OthersLeaveSweeps ==
  ASSUME [Next]_vars
  PROVE  \/ UNCHANGED <<sweep, escalated>>
         \/ \E s \in Sweepers : SweepStep(s) \/ SweepCrash(s)
<1>1. CASE RequestStep \/ Tick \/ UNCHANGED vars
  BY <1>1 DEF RequestStep, Tick, vars, CreateJob, TriageJob, CancelJob, UploadEvidence,
              StaffFallback, StaffWork, DecideQuote, dispatchRows
<1>2. ASSUME NEW t \in Threads, CallStep(t) PROVE UNCHANGED <<sweep, escalated>>
  BY <1>2 DEF CallStep, BeginQuote, BeginOffers, CreateQuote, MarkQuoted, FanOut, BeginAccept,
              BeginDecline, BeginProviderWork, AcceptOffer, DeclineOffer, ProviderWork,
              ProviderFallback, CallEnds, dispatchRows
<1> QED
  BY <1>1, <1>2 DEF Next

\* A closed offer is only written over by whoever read it before it was closed.
LEMMA WhoOverwrites ==
  ASSUME TypeOK, [Next]_vars, NEW j \in Jobs, NEW p \in Providers, Closed(j, p)
  PROVE  \/ offer'[j][p] = offer[j][p]
         \/ offer'[j][p] = "DECLINED" /\ BeingDeclined(j, p)
         \/ offer'[j][p] = "EXPIRED" /\ BeingExpired(j, p)
<1> DEFINE Kept == offer'[j][p] = offer[j][p]
<1>1. CASE UNCHANGED offer
  BY <1>1
<1>2. ASSUME NEW i, NEW ps, CreateOffers(i, ps) PROVE Kept
  BY <1>2 DEF CreateOffers, PutOffers, Closed, TypeOK
<1>3. ASSUME NEW t \in Threads, AcceptOffer(t) PROVE Kept
  BY <1>3 DEF AcceptOffer, Closed, TypeOK
<1>4. ASSUME NEW t \in Threads, DeclineOffer(t)
      PROVE  Kept \/ (offer'[j][p] = "DECLINED" /\ BeingDeclined(j, p))
  BY <1>4 DEF DeclineOffer, BeingDeclined, TypeOK
<1>5. ASSUME NEW s \in Sweepers, ExpireOffers(s)
      PROVE  Kept \/ (offer'[j][p] = "EXPIRED" /\ BeingExpired(j, p))
  BY <1>5 DEF ExpireOffers, BeingExpired
<1>6. CASE RequestStep \/ Tick \/ UNCHANGED vars
  BY <1>1, <1>6 DEF RequestStep, Tick, vars, CreateJob, TriageJob, CancelJob, UploadEvidence,
                    StaffFallback, StaffWork, DecideQuote, dispatchRows
<1>7. ASSUME NEW t \in Threads, CallStep(t), ~AcceptOffer(t), ~DeclineOffer(t) PROVE Kept
  <2>1. CASE FanOut(t)
    BY <1>2, <2>1 DEF FanOut
  <2>2. CASE ~FanOut(t)
    BY <1>1, <1>7, <2>2 DEF CallStep, BeginQuote, BeginOffers, CreateQuote, MarkQuoted,
                            BeginAccept, BeginDecline, BeginProviderWork, ProviderWork,
                            ProviderFallback, CallEnds, dispatchRows
  <2> QED
    BY <2>1, <2>2
<1>8. ASSUME NEW s \in Sweepers, SweepStep(s) \/ SweepCrash(s), ~ExpireOffers(s) PROVE Kept
  <2>1. CASE Reoffer(s)
    BY <1>1, <1>2, <2>1 DEF Reoffer, Escalate
  <2>2. CASE ~Reoffer(s)
    BY <1>1, <1>8, <2>2 DEF SweepStep, SweepCrash, BeginSweep, CoverJob, CoverAssignment,
                            CoverOffers, dispatchRows
  <2> QED
    BY <2>1, <2>2
<1> QED
  BY <1>3, <1>4, <1>5, <1>6, <1>7, <1>8 DEF Next

\* Nobody sets out to decline an offer that is closed ...
LEMMA ClosedIsNotDeclined ==
  ASSUME TypeOK, [Next]_vars, NEW j \in Jobs, NEW p \in Providers, Closed(j, p),
         NEW t \in Threads, call'[t].at = "decline", call'[t].job = j, call'[t].prov = p
  PROVE  call'[t] = call[t]
<1> SUFFICES ASSUME call'[t] # call[t] PROVE FALSE
  OBVIOUS
<1>1. CASE RequestStep \/ Tick \/ UNCHANGED vars
  BY <1>1 DEF RequestStep, Tick, vars, CreateJob, TriageJob, CancelJob, UploadEvidence,
              StaffFallback, StaffWork, DecideQuote, dispatchRows
<1>2. CASE \E s \in Sweepers : SweepStep(s) \/ SweepCrash(s)
  BY <1>2, OwnRecord
<1>3. ASSUME NEW u \in Threads, CallStep(u) PROVE FALSE
  <2>1. CASE Answer(u)
    BY <2>1 DEF Answer, Idle, TypeOK
  <2>2. ASSUME NEW stage, NEW i, NEW r, Proceed(u, stage, i, r)
        PROVE  stage = "decline" /\ i = j /\ r = p
    BY <2>2 DEF Proceed, TypeOK
  <2>3. ASSUME NEW q \in Quotes, CreateQuote(u, q) PROVE FALSE
    <3>1. call'[u].at = "quoted"
      BY <2>3 DEF CreateQuote, TypeOK, Call
    <3>2. u # t => call'[t] = call[t]
      BY <2>3 DEF CreateQuote, TypeOK
    <3> QED
      BY <3>1, <3>2
  <2>4. ASSUME NEW i \in Jobs, NEW r \in Providers, BeginDecline(u, i, r) PROVE FALSE
    BY <2>2, <2>4 DEF BeginDecline, Closed
  <2>5. ASSUME NEW i \in Jobs, NEW r \in Providers,
               \/ BeginQuote(u, i) \/ BeginOffers(u, i) \/ BeginAccept(u, i, r)
               \/ \E stage \in CallStages : BeginProviderWork(u, stage, i, r)
        PROVE  FALSE
    BY <2>2, <2>5 DEF BeginQuote, BeginOffers, BeginAccept, BeginProviderWork
  <2>6. CASE \/ MarkQuoted(u) \/ FanOut(u) \/ AcceptOffer(u) \/ DeclineOffer(u)
             \/ ProviderWork(u) \/ ProviderFallback(u) \/ CallEnds(u)
    BY <2>1, <2>6 DEF MarkQuoted, FanOut, AcceptOffer, DeclineOffer, ProviderWork,
                      ProviderFallback, CallEnds
  <2> QED
    BY <1>3, <2>3, <2>4, <2>5, <2>6 DEF CallStep
<1> QED
  BY <1>1, <1>2, <1>3 DEF Next

\* ... and no run selects it to expire.
LEMMA ClosedIsNotDue ==
  ASSUME TypeOK, [Next]_vars, NEW j \in Jobs, NEW p \in Providers, Closed(j, p),
         NEW s \in Sweepers, <<j, p>> \in sweep'[s].due
  PROVE  <<j, p>> \in sweep[s].due
<1>1. sweep \in [Sweepers -> Sweep] /\ sweep[s] \in Sweep
  BY DEF TypeOK
<1>2. CASE sweep'[s] = sweep[s]
  BY <1>2
<1>3. ASSUME sweep'[s] # sweep[s] PROVE SweepStep(s) \/ SweepCrash(s)
  BY <1>3, OthersLeaveSweeps, OwnRecord
<1>4. CASE SweepCrash(s)
  BY <1>1, <1>4 DEF SweepCrash, Resting
<1>5. ASSUME NEW todo, SweepOn(s, todo) PROVE sweep'[s].due = {}
  BY <1>1, <1>5 DEF SweepOn, Resting, Covering
<1>6. CASE BeginSweep(s)
  <2>1. sweep'[s].due = Due
    BY <1>1, <1>6 DEF BeginSweep, Resting
  <2> QED
    BY <2>1 DEF Due, Lapsed, Closed
<1>7. CASE ExpireOffers(s)
  BY <1>1, <1>7 DEF ExpireOffers, Covering
<1>8. ASSUME NEW i \in Jobs, CoverJob(s, i) PROVE sweep'[s].due \in {{}, sweep[s].due}
  BY <1>1, <1>5, <1>8 DEF CoverJob, Sweep
<1>9. CASE CoverAssignment(s) \/ CoverOffers(s)
  BY <1>1, <1>5, <1>9 DEF CoverAssignment, CoverOffers, Sweep
<1>10. CASE Reoffer(s)
  BY <1>5, <1>10 DEF Reoffer
<1> QED
  BY <1>2, <1>3, <1>4, <1>6, <1>7, <1>8, <1>9, <1>10 DEF SweepStep

\* No later round, sweep or answer reopens an offer that was closed, and when
\* those that read it open are through, nothing changes it.
THEOREM AnsweredOffersStayAnswered == Spec => AnsweredStaysAnswered
<1> DEFINE Stays(j, p) ==
      /\ \/ offer'[j][p] = offer[j][p]
         \/ offer'[j][p] = "DECLINED" /\ BeingDeclined(j, p)
         \/ offer'[j][p] = "EXPIRED" /\ BeingExpired(j, p)
      /\ BeingDeclined(j, p)' => BeingDeclined(j, p)
      /\ BeingExpired(j, p)' => BeingExpired(j, p)
<1>1. ASSUME TypeOK, [Next]_vars, NEW j \in Jobs, NEW p \in Providers, Closed(j, p)
      PROVE  Stays(j, p)
  <2>1. BeingDeclined(j, p)' => BeingDeclined(j, p)
    BY <1>1, ClosedIsNotDeclined DEF BeingDeclined
  <2>2. BeingExpired(j, p)' => BeingExpired(j, p)
    BY <1>1, ClosedIsNotDue DEF BeingExpired
  <2> QED
    BY <1>1, <2>1, <2>2, WhoOverwrites
<1>2. TypeOK /\ [Next]_vars =>
        [\A j \in Jobs, p \in Providers : Closed(j, p) => Stays(j, p)]_vars
  BY <1>1
<1> QED
  BY <1>2, TypeCorrect, PTL DEF Spec, AnsweredStaysAnswered

-----------------------------------------------------------------------------
(* Dispatch implements Brokerage *)

LEMMA PromiseInit == Init => Promise!Init
BY DEF Init, Promise!Init, AgreedMap, ClaimsMap, Approved, Active, NoQuote

\* Every kind of row step is a step of the promise, or leaves its state alone.
LEMMA PromiseStep ==
  ASSUME TypeOK, DispatchedAtAPrice, RowStep
  PROVE  [Promise!Next]_(Promise!vars)
<1> USE DEF Promise!CanTransition, Promise!Transitions, CanTransition, Transitions
<1>1. CASE UNCHANGED <<job, quote, assignment>>
  BY <1>1 DEF Promise!vars, AgreedMap, ClaimsMap, Approved, Active
<1>2. ASSUME NEW q \in Quotes, Sends(q) PROVE UNCHANGED Promise!vars
  <2>1. \A j \in Jobs : Approved(j) <=> Approved(j)'
    BY <1>2 DEF Sends, Approved, NoQuote
  <2>2. ClaimsMap' = ClaimsMap
    BY <1>2 DEF Sends, ClaimsMap, Active
  <2> QED
    BY <1>2, <2>1, <2>2 DEF Sends, Promise!vars, AgreedMap
<1>3. ASSUME NEW j \in Jobs, NEW to \in Statuses, Moves(j, to) PROVE Promise!Next
  <2>1. AgreedMap' = AgreedMap /\ ClaimsMap' = ClaimsMap
    BY <1>3 DEF Moves, AgreedMap, ClaimsMap, Approved, Active
  <2>2. Promise!Create(j) \/ Promise!Move(j, to)
    BY <1>3, <2>1 DEF Moves, SetJob, Promise!Create, Promise!Move
  <2> QED
    BY <2>2 DEF Promise!Next, Promise!Statuses, Statuses
<1>4. ASSUME NEW q \in Quotes, NEW status \in {"APPROVED", "REJECTED"}, Decides(q, status)
      PROVE  [Promise!Next]_(Promise!vars)
  <2>1. ClaimsMap' = ClaimsMap /\ job' = job
    BY <1>4 DEF Decides, ClaimsMap, Active
  <2>2. \A j \in Jobs : Approved(j)' <=>
          Approved(j) \/ (status = "APPROVED" /\ j = quote[q].job)
    BY <1>4 DEF Decides, Approved, TypeOK, QuoteRow
  <2>3. CASE status = "REJECTED" \/ quote[q].job \notin Jobs
    BY <2>1, <2>2, <2>3 DEF Promise!vars, AgreedMap
  <2>4. CASE status = "APPROVED" /\ quote[q].job \in Jobs
    <3>1. AgreedMap' = AgreedMap \cup {quote[q].job}
      BY <2>2, <2>4 DEF AgreedMap
    <3> QED
      BY <2>1, <2>4, <3>1 DEF Promise!Next, Promise!Agree
  <2> QED
    BY <2>3, <2>4
<1>5. ASSUME NEW j \in Jobs, NEW p \in Providers, Awards(j, p) PROVE Promise!Next
  <2>1. AgreedMap' = AgreedMap /\ j \in AgreedMap
    BY <1>5 DEF Awards, AgreedMap, Approved, DispatchedAtAPrice
  <2>2. ClaimsMap[j] = {} /\ ClaimsMap' = [ClaimsMap EXCEPT ![j] = {p}]
    BY <1>5, ZenonT(60) DEF Awards, JobOpen, JobOpenByIndex, ClaimsMap, Active, TypeOK
  <2>3. Promise!Award(j, p)
    BY <1>5, <2>1, <2>2 DEF Awards, JobOpen, JobOpenByStatus, SetJob, Promise!Award
  <2> QED
    BY <2>3 DEF Promise!Next
<1>6. ASSUME NEW j \in Jobs, NEW p \in Providers, Releases(j, p) PROVE Promise!Next
  <2>1. AgreedMap' = AgreedMap
    BY <1>6 DEF Releases, AgreedMap, Approved
  <2>2. p \in ClaimsMap[j] /\ ClaimsMap' = [ClaimsMap EXCEPT ![j] = @ \ {p}]
    BY <1>6 DEF Releases, ClaimsMap, Active, TypeOK
  <2>3. Promise!FallThrough(j, p)
    BY <1>6, <2>1, <2>2 DEF Releases, SetJob, Promise!FallThrough
  <2> QED
    BY <2>3 DEF Promise!Next
<1> QED
  BY <1>1, <1>2, <1>3, <1>4, <1>5, <1>6 DEF RowStep, Quiet, Settles, Proves, Asks

\* Two-phase requests, racing sweeps and writes by id included, dispatch does
\* nothing but what Brokerage promises.
THEOREM DispatchImplementsBrokerage == Spec => KeepsPromise
<1>1. IInv /\ [Next]_vars => [Promise!Next]_(Promise!vars)
  BY RowsOfStep, PromiseStep DEF IInv
<1> QED
  BY <1>1, PromiseInit, InductiveInvariant, PTL DEF Spec, KeepsPromise, Promise!Spec

\* However requests and sweeps interleave, a provider loses a job only by the
\* fallback that reopens it, nobody takes over in the same step, and a job that
\* is over stays with whoever had it: it follows from the promise.
THEOREM OnlyFallbackEndsClaims == Spec => Promise!ClaimsEndByFallback
BY DispatchImplementsBrokerage, Promise!OnlyFallbackEndsClaims, PTL DEF KeepsPromise

-----------------------------------------------------------------------------
(* Automatic rounds *)

\* A run that is about to make a round of offers of job j.
Armed(w, j) == w.at = "reoffer" /\ w.job = j

\* The rounds that may have been made: one by each sweeper for each number of
\* providers it can have seen asked, below the number that were.  A sweeper that
\* made a round at n sees more than n asked the next time, since the round asked
\* somebody the run had not seen; an armed one has still to make its round.
Made(j) ==
  {x \in Sweepers \X (1..(PerRound * MaxRounds)) :
     /\ x[2] < Cardinality(Asked(j))
     /\ Armed(sweep[x[1]], j) => x[2] < Cardinality(sweep[x[1]].asked)}

RoundsAreMade == \A j \in Jobs : autoRounds[j] <= Cardinality(Made(j))

\* Whatever job a run is about was offered, and whom it has seen asked was.
SweepAsks(w) ==
  /\ \A j \in w.todo : Asked(j) # {}
  /\ w.at \in {"assignment", "offers", "reoffer"} => Asked(w.job) # {}
  /\ w.at = "reoffer" => w.asked # {} /\ w.asked \subseteq Asked(w.job)

RoundsInv ==
  /\ IInv
  /\ RoundsAreMade
  /\ \A s \in Sweepers : SweepAsks(sweep[s])

\* The count of offers that is not spent is within the bound.
LEMMA UnspentIsWithinBound ==
  ASSUME NEW n \in Nat, n > 0, ~Spent(n)
  PROVE  n <= PerRound * MaxRounds
<1> DEFINE y == n + PerRound - 1
           x == y \div PerRound
<1>1. PerRound \in Nat /\ PerRound > 0 /\ MaxRounds \in Nat
  BY DispatchAssumption
<1>2. y \in Nat
  BY <1>1
<1>3. x \in Int /\ y < PerRound * x + PerRound
  <2> HIDE DEF y
  <2> QED
    BY <1>1, <1>2, SMT
<1>4. x <= MaxRounds
  <2>1. ~(AutomaticRounds(n) >= MaxRounds)
    BY DEF Spent
  <2>2. AutomaticRounds(n) = IF x = 0 THEN 0 ELSE x - 1
    BY DEF AutomaticRounds
  <2> HIDE DEF x
  <2> QED
    BY <1>1, <1>3, <2>1, <2>2
<1> HIDE DEF x
<1>5. PerRound * x <= PerRound * MaxRounds
  BY <1>1, <1>3, <1>4, Z3
<1>6. PerRound * x \in Int /\ PerRound * MaxRounds \in Int
  BY <1>1, <1>3
<1> QED
  BY <1>1, <1>3, <1>5, <1>6

LEMMA AskedIsFinite ==
  ASSUME IsFiniteSet(Providers), NEW asked \in SUBSET Providers
  PROVE  IsFiniteSet(asked) /\ Cardinality(asked) \in Nat
BY FS_Subset, FS_CardinalityType

\* Nobody who was asked is forgotten, so the count of those asked never falls.
LEMMA AskedGrows ==
  ASSUME IsFiniteSet(Providers), TypeOK, WritesAreGrounded, [Next]_vars, NEW j \in Jobs
  PROVE  /\ Asked(j) \subseteq Asked(j)'
         /\ Asked(j)' \subseteq Providers
         /\ Cardinality(Asked(j)) \in Nat /\ Cardinality(Asked(j)') \in Nat
         /\ Cardinality(Asked(j)) <= Cardinality(Asked(j)')
<1>1. Asked(j) \subseteq Asked(j)'
  BY RowsOfStep, OfferRowsStay DEF Asked
<1>2. Asked(j) \subseteq Providers /\ Asked(j)' \subseteq Providers
  BY DEF Asked
<1>3. IsFiniteSet(Asked(j)')
  BY <1>2, AskedIsFinite
<1> QED
  BY <1>1, <1>2, <1>3, AskedIsFinite, FS_Subset

\* Between its jobs a run remembers only which are left.
LEMMA RestOfRunAsks ==
  ASSUME TypeOK, NEW s \in Sweepers, NEW todo, SweepOn(s, todo),
         \A j \in todo : Asked(j)' # {}
  PROVE  SweepAsks(sweep[s])' /\ sweep'[s].at # "reoffer"
<1>1. sweep'[s] = Resting \/ sweep'[s] = Covering(todo)
  BY DEF SweepOn, TypeOK
<1> QED
  BY <1>1 DEF Resting, Covering, SweepAsks

\* A step of a run that makes no offers carries on what the run relies on.
LEMMA ReadsKeepAsking ==
  ASSUME IsFiniteSet(Providers), RoundsInv, [Next]_vars, NEW s \in Sweepers,
         \/ BeginSweep(s) \/ ExpireOffers(s) \/ CoverAssignment(s) \/ CoverOffers(s)
         \/ \E j \in Jobs : CoverJob(s, j)
         \/ SweepCrash(s)
  PROVE  /\ UNCHANGED autoRounds
         /\ SweepAsks(sweep[s])'
         /\ sweep'[s].at = "reoffer" => sweep'[s].asked = Asked(sweep'[s].job)
<1>1. /\ TypeOK /\ WritesAreGrounded /\ sweep \in [Sweepers -> Sweep] /\ sweep[s] \in Sweep
      /\ SweepAsks(sweep[s]) /\ offer \in [Jobs -> [Providers -> OfferStatuses]]
  BY DEF RoundsInv, IInv, TypeOK
<1>2. UNCHANGED autoRounds
  BY DEF BeginSweep, ExpireOffers, CoverAssignment, CoverOffers, CoverJob, SweepCrash,
         dispatchRows
<1>3. \A j \in Jobs : Asked(j) \subseteq Asked(j)'
  BY <1>1, AskedGrows
<1> DEFINE Carries == /\ SweepAsks(sweep[s])'
                      /\ sweep'[s].at = "reoffer" => sweep'[s].asked = Asked(sweep'[s].job)
<1>4. sweep[s].todo \subseteq Jobs /\ \A j \in sweep[s].todo : Asked(j)' # {}
  BY <1>1, <1>3 DEF SweepAsks, Sweep
<1>5. CASE BeginSweep(s)
  <2>1. sweep'[s].at = "expire" /\ sweep'[s].todo = {}
    BY <1>1, <1>5 DEF BeginSweep, Resting
  <2> QED
    BY <1>2, <2>1 DEF SweepAsks
<1>6. CASE ExpireOffers(s)
  <2> DEFINE todo == {j \in Jobs : \E p \in Providers : <<j, p>> \in sweep[s].due}
  <2>1. sweep'[s].at = "cover" /\ sweep'[s].todo = todo
    BY <1>1, <1>6 DEF ExpireOffers, Covering
  <2>2. ASSUME NEW j \in todo PROVE Asked(j)' # {}
    <3>1. PICK p \in Providers : <<j, p>> \in sweep[s].due
      OBVIOUS
    <3>2. offer[j][p] # "NONE"
      BY <1>1, <3>1 DEF WritesAreGrounded
    <3> QED
      BY <1>3, <3>2 DEF Asked
  <2> QED
    BY <1>2, <2>1, <2>2 DEF SweepAsks
<1>7. ASSUME NEW j \in Jobs, CoverJob(s, j) PROVE Carries
  <2>1. CASE job[j] # "QUOTED"
    <3>1. SweepOn(s, sweep[s].todo \ {j})
      BY <1>7, <2>1 DEF CoverJob
    <3> QED
      BY <1>1, <1>4, <3>1, RestOfRunAsks
  <2>2. CASE job[j] = "QUOTED"
    <3>1. /\ j \in sweep[s].todo
          /\ sweep' = [sweep EXCEPT ![s].at = "assignment", ![s].job = j,
                                    ![s].todo = sweep[s].todo \ {j}]
      BY <1>7, <2>2 DEF CoverJob
    <3>2. /\ sweep'[s].at = "assignment" /\ sweep'[s].job = j
          /\ sweep'[s].todo = sweep[s].todo \ {j}
      <4> DEFINE w == [sweep[s] EXCEPT !.at = "assignment", !.job = j,
                                       !.todo = sweep[s].todo \ {j}]
      <4>1. sweep'[s] = w
        BY <1>1, <3>1
      <4>2. w.at = "assignment" /\ w.job = j /\ w.todo = sweep[s].todo \ {j}
        BY <1>1 DEF Sweep
      <4> HIDE DEF w
      <4> QED
        BY <4>1, <4>2
    <3> QED
      BY <1>4, <3>1, <3>2 DEF SweepAsks
  <2> QED
    BY <2>1, <2>2
<1>8. CASE CoverAssignment(s)
  <2>1. CASE Active(sweep[s].job) # {}
    <3>1. SweepOn(s, sweep[s].todo)
      BY <1>8, <2>1 DEF CoverAssignment
    <3> QED
      BY <1>1, <1>2, <1>4, <3>1, RestOfRunAsks
  <2>2. CASE Active(sweep[s].job) = {}
    <3>1. /\ sweep'[s].at = "offers" /\ sweep'[s].job = sweep[s].job
          /\ sweep'[s].todo = sweep[s].todo
      BY <1>1, <1>8, <2>2 DEF CoverAssignment, Sweep
    <3>2. sweep[s].job \in Jobs /\ Asked(sweep[s].job) # {}
      BY <1>1, <1>8 DEF CoverAssignment, WritesAreGrounded, SweepAsks
    <3> QED
      BY <1>2, <1>3, <1>4, <3>1, <3>2 DEF SweepAsks
  <2> QED
    BY <2>1, <2>2
<1>9. CASE CoverOffers(s)
  <2> DEFINE j == sweep[s].job
  <2>1. CASE StillOut(j)
    <3>1. SweepOn(s, sweep[s].todo)
      BY <1>9, <2>1 DEF CoverOffers
    <3> QED
      BY <1>1, <1>2, <1>4, <3>1, RestOfRunAsks
  <2>2. CASE ~StillOut(j)
    <3>1. /\ sweep'[s].at = "reoffer" /\ sweep'[s].job = j
          /\ sweep'[s].todo = sweep[s].todo /\ sweep'[s].asked = Asked(j)
      BY <1>1, <1>9, <2>2 DEF CoverOffers, Sweep
    <3>2. j \in Jobs /\ Asked(j) # {}
      BY <1>1, <1>9 DEF CoverOffers, WritesAreGrounded, SweepAsks
    <3> QED
      BY <1>2, <1>3, <1>4, <3>1, <3>2 DEF SweepAsks
  <2> QED
    BY <2>1, <2>2
<1>10. CASE SweepCrash(s)
  BY <1>1, <1>2, <1>10 DEF SweepCrash, Resting, SweepAsks
<1> QED
  BY <1>2, <1>5, <1>6, <1>7, <1>8, <1>9, <1>10

\* The count of rounds that may have been made never falls, unless a run reads
\* whom it has seen asked otherwise than as it is.
LEMMA MadeGrows ==
  ASSUME IsFiniteSet(Providers), TypeOK, WritesAreGrounded, [Next]_vars,
         NEW s \in Sweepers, \A r \in Sweepers \ {s} : sweep'[r] = sweep[r],
         \/ sweep'[s] = sweep[s]
         \/ sweep'[s].at = "reoffer" => sweep'[s].asked = Asked(sweep'[s].job),
         NEW j \in Jobs
  PROVE  Made(j) \subseteq Made(j)'
<1>1. /\ Cardinality(Asked(j)) \in Nat /\ Cardinality(Asked(j)') \in Nat
      /\ Cardinality(Asked(j)) <= Cardinality(Asked(j)')
  BY AskedGrows
<1>2. PerRound * MaxRounds \in Nat
  BY DispatchAssumption
<1> SUFFICES ASSUME NEW x \in Made(j) PROVE x \in Made(j)'
  OBVIOUS
<1> PICK r \in Sweepers, n \in 1..(PerRound * MaxRounds) : x = <<r, n>>
  BY DEF Made
<1>3. n < Cardinality(Asked(j)) /\ (Armed(sweep[r], j) => n < Cardinality(sweep[r].asked))
  BY DEF Made
<1>4. n < Cardinality(Asked(j)')
  BY <1>1, <1>2, <1>3
<1> SUFFICES ASSUME Armed(sweep'[r], j) PROVE n < Cardinality(sweep'[r].asked)
  BY <1>4 DEF Made, Armed
<1>5. CASE sweep'[r] = sweep[r]
  BY <1>3, <1>5
<1>6. CASE sweep'[r] # sweep[r]
  <2>1. r = s /\ sweep'[s].asked = Asked(j) /\ sweep'[s].at = "reoffer"
    BY <1>6 DEF Armed
  <2> QED
    BY <1>3, <2>1
<1> QED
  BY <1>5, <1>6

LEMMA MadeIsFinite ==
  ASSUME IsFiniteSet(Sweepers), NEW j
  PROVE  /\ IsFiniteSet(Made(j)) /\ Cardinality(Made(j)) \in Nat
         /\ IsFiniteSet(Made(j)') /\ Cardinality(Made(j)') \in Nat
         /\ Cardinality(Made(j)) <= AllowedRounds
<1> DEFINE bound == PerRound * MaxRounds
           all   == Sweepers \X (1..bound)
<1>1. bound \in Nat
  BY DispatchAssumption
<1> HIDE DEF bound
<1>2. IsFiniteSet(1..bound) /\ Cardinality(1..bound) = bound
  BY <1>1, FS_Interval
<1>3. IsFiniteSet(all) /\ Cardinality(all) = Cardinality(Sweepers) * bound
  BY <1>2, FS_Product
<1>4. Made(j) \subseteq all /\ Made(j)' \subseteq all
  BY DEF Made, bound
<1> HIDE DEF all
<1>5. Cardinality(Made(j)) <= Cardinality(all)
  BY <1>3, <1>4, FS_Subset
<1> QED
  BY <1>3, <1>4, <1>5, FS_Subset, FS_CardinalityType DEF AllowedRounds, bound

\* A step that counts no round keeps to the rounds that may have been made.
LEMMA QuietRounds ==
  ASSUME IsFiniteSet(Sweepers), RoundsInv, UNCHANGED autoRounds,
         \A j \in Jobs : Made(j) \subseteq Made(j)'
  PROVE  RoundsAreMade'
<1> SUFFICES ASSUME NEW j \in Jobs PROVE autoRounds[j] <= Cardinality(Made(j)')
  BY DEF RoundsAreMade
<1>1. Cardinality(Made(j)) <= Cardinality(Made(j)')
  BY MadeIsFinite, FS_Subset
<1>2. autoRounds[j] \in Nat /\ autoRounds[j] <= Cardinality(Made(j))
  BY DEF RoundsInv, IInv, TypeOK, RoundsAreMade
<1> QED
  BY <1>1, <1>2, MadeIsFinite

\* A round is made only while the count the run read is not spent, and the next
\* count it reads will be a larger one.
LEMMA ReofferCounts ==
  ASSUME IsFiniteSet(Providers), IsFiniteSet(Sweepers), RoundsInv, [Next]_vars,
         NEW s \in Sweepers, Reoffer(s)
  PROVE  RoundsAreMade' /\ SweepAsks(sweep[s])'
<1> DEFINE asked == sweep[s].asked
<1>1. /\ TypeOK /\ WritesAreGrounded /\ sweep[s] \in Sweep /\ sweep \in [Sweepers -> Sweep]
      /\ SweepAsks(sweep[s]) /\ autoRounds \in [Jobs -> Nat]
      /\ offer \in [Jobs -> [Providers -> OfferStatuses]]
      /\ sweep[s].at = "reoffer" /\ SweepOn(s, sweep[s].todo)
  BY DEF RoundsInv, IInv, TypeOK, Reoffer
<1> PICK j \in Jobs : j = sweep[s].job
  BY <1>1 DEF WritesAreGrounded
<1>2. asked # {} /\ asked \subseteq Asked(j) /\ asked \subseteq Providers
  BY <1>1 DEF SweepAsks, Sweep
<1>3. IsFiniteSet(asked) /\ Cardinality(asked) \in Nat /\ Cardinality(asked) > 0
  BY <1>2, AskedIsFinite, FS_EmptySet
<1>4. SweepAsks(sweep[s])' /\ sweep'[s].at # "reoffer"
  <2>1. \A i \in sweep[s].todo : Asked(i)' # {}
    BY <1>1, AskedGrows DEF SweepAsks, Sweep
  <2> QED
    BY <1>1, <2>1, RestOfRunAsks
<1>5. \A r \in Sweepers \ {s} : sweep'[r] = sweep[r]
  BY <1>1 DEF SweepOn
<1>6. \A i \in Jobs : Made(i) \subseteq Made(i)'
  BY <1>1, <1>4, <1>5, MadeGrows
<1>7. CASE UNCHANGED autoRounds
  BY <1>4, <1>6, <1>7, QuietRounds
<1>8. ASSUME ~Spent(Cardinality(asked)), NEW next \in SUBSET (Providers \ asked),
             next # {}, CreateOffers(j, next),
             autoRounds' = [autoRounds EXCEPT ![j] = autoRounds[j] + 1]
      PROVE  RoundsAreMade'
  <2> DEFINE n   == Cardinality(asked)
             new == <<s, n>>
  <2>1. PICK x : x \in next
    BY <1>8
  <2>2. asked \cup {x} \subseteq Asked(j)'
    <3>1. offer'[j][x] # "NONE"
      BY <1>1, <1>2, <1>8, <2>1 DEF CreateOffers, PutOffers
    <3>2. x \in Asked(j)'
      BY <2>1, <3>1 DEF Asked
    <3>3. Asked(j) \subseteq Asked(j)'
      BY <1>1, AskedGrows
    <3> QED
      BY <1>2, <3>2, <3>3
  <2>3. Cardinality(asked \cup {x}) = n + 1
    BY <1>3, <2>1, FS_AddElement
  <2>4. n + 1 <= Cardinality(Asked(j)') /\ Cardinality(Asked(j)') \in Nat
    <3>1. Asked(j)' \subseteq Providers
      BY DEF Asked
    <3> QED
      BY <2>2, <2>3, <3>1, AskedIsFinite, FS_Subset
  <2>5. n <= PerRound * MaxRounds
    BY <1>3, <1>8, UnspentIsWithinBound
  <2>6. PerRound * MaxRounds \in Nat
    BY DispatchAssumption
  <2>7. new \in Made(j)'
    <3>1. n < Cardinality(Asked(j)') /\ n \in 1..(PerRound * MaxRounds)
      BY <1>3, <2>4, <2>5, <2>6
    <3> QED
      BY <1>4, <3>1 DEF Made, Armed
  <2>8. new \notin Made(j)
    <3>1. Armed(sweep[s], j) /\ ~(n < n)
      BY <1>1, <1>3 DEF Armed
    <3> QED
      BY <3>1 DEF Made
  <2>9. Cardinality(Made(j)) + 1 <= Cardinality(Made(j)')
    <3>1. Cardinality(Made(j) \cup {new}) = Cardinality(Made(j)) + 1
      BY <2>8, MadeIsFinite, FS_AddElement
    <3>2. Made(j) \cup {new} \subseteq Made(j)'
      BY <1>6, <2>7
    <3> QED
      BY <3>1, <3>2, MadeIsFinite, FS_Subset
  <2> HIDE DEF n, new
  <2> SUFFICES ASSUME NEW i \in Jobs PROVE autoRounds'[i] <= Cardinality(Made(i)')
    BY DEF RoundsAreMade
  <2>10. autoRounds[i] \in Nat /\ autoRounds[i] <= Cardinality(Made(i))
    BY <1>1 DEF RoundsInv, RoundsAreMade
  <2>11. CASE i = j
    BY <1>1, <1>8, <2>9, <2>10, <2>11, MadeIsFinite
  <2>12. CASE i # j
    <3>1. Cardinality(Made(i)) <= Cardinality(Made(i)')
      BY <1>6, MadeIsFinite, FS_Subset
    <3> QED
      BY <1>1, <1>8, <2>10, <2>12, <3>1, MadeIsFinite
  <2> QED
    BY <2>11, <2>12
<1> QED
  BY <1>4, <1>7, <1>8 DEF Reoffer, Escalate

LEMMA RoundsStep ==
  ASSUME IsFiniteSet(Providers), IsFiniteSet(Sweepers), RoundsInv, [Next]_vars
  PROVE  RoundsAreMade' /\ \A s \in Sweepers : SweepAsks(sweep[s])'
<1>1. /\ TypeOK /\ WritesAreGrounded /\ sweep \in [Sweepers -> Sweep]
  BY DEF RoundsInv, IInv, TypeOK
<1>2. ASSUME NEW r \in Sweepers, sweep'[r] = sweep[r] PROVE SweepAsks(sweep[r])'
  <2>1. /\ SweepAsks(sweep[r]) /\ sweep[r].todo \subseteq Jobs
        /\ sweep[r].at \in {"assignment", "offers", "reoffer"} => sweep[r].job \in Jobs
    BY <1>1 DEF RoundsInv, WritesAreGrounded, Sweep
  <2>2. \A j \in Jobs : Asked(j) \subseteq Asked(j)'
    BY <1>1, AskedGrows
  <2> QED
    BY <1>2, <2>1, <2>2 DEF SweepAsks
<1>3. ASSUME UNCHANGED <<autoRounds, sweep>> PROVE RoundsAreMade'
  <2>1. CASE Sweepers = {}
    <3>1. \A j \in Jobs : Made(j) \subseteq Made(j)'
      BY <2>1 DEF Made
    <3> QED
      BY <1>3, <3>1, QuietRounds
  <2>2. ASSUME NEW s \in Sweepers PROVE RoundsAreMade'
    <3>1. \A j \in Jobs : Made(j) \subseteq Made(j)'
      BY <1>1, <1>3, MadeGrows
    <3> QED
      BY <1>3, <3>1, QuietRounds
  <2> QED
    BY <2>1, <2>2
<1>4. CASE RequestStep \/ Tick \/ UNCHANGED vars
  <2>1. UNCHANGED <<autoRounds, sweep>>
    BY <1>4 DEF RequestStep, Tick, vars, CreateJob, TriageJob, CancelJob, UploadEvidence,
                StaffFallback, StaffWork, DecideQuote, dispatchRows
  <2> QED
    BY <1>2, <1>3, <2>1
<1>5. ASSUME NEW t \in Threads, CallStep(t)
      PROVE  RoundsAreMade' /\ \A s \in Sweepers : SweepAsks(sweep[s])'
  <2>1. UNCHANGED <<autoRounds, sweep>>
    BY <1>5 DEF CallStep, BeginQuote, BeginOffers, CreateQuote, MarkQuoted, FanOut, BeginAccept,
                BeginDecline, BeginProviderWork, AcceptOffer, DeclineOffer, ProviderWork,
                ProviderFallback, CallEnds, dispatchRows
  <2> QED
    BY <1>2, <1>3, <2>1
<1>6. ASSUME NEW s \in Sweepers, SweepStep(s) \/ SweepCrash(s)
      PROVE  RoundsAreMade' /\ \A r \in Sweepers : SweepAsks(sweep[r])'
  <2>1. \A r \in Sweepers \ {s} : sweep'[r] = sweep[r]
    BY <1>1, <1>6 DEF SweepStep, SweepCrash, BeginSweep, ExpireOffers, CoverJob, CoverAssignment,
                      CoverOffers, Reoffer, SweepOn
  <2>2. CASE Reoffer(s)
    BY <1>2, <2>1, <2>2, ReofferCounts
  <2>3. CASE ~Reoffer(s)
    <3>1. /\ UNCHANGED autoRounds /\ SweepAsks(sweep[s])'
          /\ sweep'[s].at = "reoffer" => sweep'[s].asked = Asked(sweep'[s].job)
      BY <1>6, <2>3, ReadsKeepAsking DEF SweepStep
    <3>2. \A j \in Jobs : Made(j) \subseteq Made(j)'
      BY <1>1, <2>1, <3>1, MadeGrows
    <3> QED
      BY <1>2, <2>1, <3>1, <3>2, QuietRounds
  <2> QED
    BY <2>2, <2>3
<1> QED
  BY <1>4, <1>5, <1>6 DEF Next

\* However many processes sweep at once, and die half-way, each adds no more
\* automatic rounds of a job than the limit allows, whatever rounds the
\* dispatcher makes meanwhile; with a single one that is the limit itself.
THEOREM SweepAsksForAPerson ==
  IsFiniteSet(Providers) /\ IsFiniteSet(Sweepers) => (Spec => []AutomaticRoundsBounded)
<1> SUFFICES ASSUME IsFiniteSet(Providers), IsFiniteSet(Sweepers)
             PROVE  Spec => []AutomaticRoundsBounded
  OBVIOUS
<1>1. Init => RoundsInv
  <2> SUFFICES ASSUME Init PROVE RoundsInv
    OBVIOUS
  <2>1. RoundsAreMade
    BY MadeIsFinite DEF Init, RoundsAreMade
  <2>2. \A s \in Sweepers : SweepAsks(sweep[s])
    BY DEF Init, Resting, SweepAsks
  <2> QED
    BY <2>1, <2>2, IInvInit DEF RoundsInv
<1>2. RoundsInv /\ [Next]_vars => RoundsInv'
  BY RoundsStep, IInvStep DEF RoundsInv
<1>3. RoundsInv => AutomaticRoundsBounded
  <2> SUFFICES ASSUME RoundsInv, NEW j \in Jobs PROVE autoRounds[j] <= AllowedRounds
    BY DEF AutomaticRoundsBounded
  <2>1. autoRounds[j] \in Nat /\ autoRounds[j] <= Cardinality(Made(j))
    BY DEF RoundsInv, IInv, TypeOK, RoundsAreMade
  <2>2. AllowedRounds \in Nat
    <3>1. Cardinality(Sweepers) \in Nat /\ PerRound * MaxRounds \in Nat
      BY FS_CardinalityType, DispatchAssumption
    <3> QED
      BY <3>1 DEF AllowedRounds
  <2> QED
    BY <2>1, <2>2, MadeIsFinite
<1> QED
  BY <1>1, <1>2, <1>3, PTL DEF Spec

-----------------------------------------------------------------------------
(* A job whose offers all lapsed is remembered, as long as no sweep dies *)

Unquoted == {"ABSENT", "DRAFT", "TRIAGED"}

OffersTo(c, j) == c.at = "offers" /\ c.job = j
Covers(w, j) == w.at \in {"assignment", "offers", "reoffer"} /\ w.job = j

\* Before its first quote nobody was asked about a job, and no request and no
\* sweep in flight is about to ask anybody.
NobodyAskedYet ==
  \A j \in Jobs : job[j] \in Unquoted =>
    /\ Asked(j) = {}
    /\ \A t \in Threads : ~OffersTo(call[t], j)
    /\ \A s \in Sweepers : ~Covers(sweep[s], j)

\* What a row step can make of an offer that was not there, and of an
\* assignment that was.
LEMMA NewRows ==
  ASSUME TypeOK, RowStep, NEW j \in Jobs, NEW p \in Providers
  PROVE  /\ offer[j][p] = "NONE" => offer'[j][p] \in {"NONE", "PENDING"}
         /\ assignment[j][p] # "NONE" => assignment'[j][p] # "NONE"
<1>1. CASE UNCHANGED <<offer, assignment>>
  BY <1>1
<1>2. CASE Settles
  BY <1>2 DEF Settles
<1>3. ASSUME NEW i \in Jobs, NEW fresh \in SUBSET Providers, Asks(i, fresh)
      PROVE  /\ offer[j][p] = "NONE" => offer'[j][p] \in {"NONE", "PENDING"}
             /\ assignment'[j][p] = assignment[j][p]
  BY <1>3 DEF Asks, TypeOK
<1>4. ASSUME NEW i \in Jobs, NEW r \in Providers, Awards(i, r)
      PROVE  /\ offer[j][p] = "NONE" => offer'[j][p] = "NONE"
             /\ assignment[j][p] # "NONE" => assignment'[j][p] # "NONE"
  BY <1>4 DEF Awards, TypeOK
<1>5. ASSUME NEW i \in Jobs, NEW r \in Providers, Releases(i, r)
      PROVE  /\ offer'[j][p] = offer[j][p]
             /\ assignment[j][p] # "NONE" => assignment'[j][p] # "NONE"
  BY <1>5 DEF Releases, TypeOK
<1> QED
  BY <1>1, <1>2, <1>3, <1>4, <1>5 DEF RowStep, Quiet, Sends, Decides, Proves, Moves

\* Only the dispatcher's fan-out and the sweep's ask somebody new, and only
\* expireOffers lets an offer lapse.
LEMMA WhoWritesOffers ==
  ASSUME TypeOK, WritesAreGrounded, [Next]_vars, NEW j \in Jobs, NEW p \in Providers
  PROVE  /\ offer[j][p] = "NONE" /\ offer'[j][p] # "NONE" =>
              \/ \E t \in Threads : FanOut(t) /\ call[t].job = j
              \/ \E s \in Sweepers : Reoffer(s) /\ sweep[s].job = j
         /\ offer[j][p] # "EXPIRED" /\ offer'[j][p] = "EXPIRED" =>
              \E s \in Sweepers : ExpireOffers(s) /\ <<j, p>> \in sweep[s].due
<1> DEFINE Asking == \/ \E t \in Threads : FanOut(t) /\ call[t].job = j
                     \/ \E s \in Sweepers : Reoffer(s) /\ sweep[s].job = j
           Lapsing == \E s \in Sweepers : ExpireOffers(s) /\ <<j, p>> \in sweep[s].due
           Goal == /\ offer[j][p] = "NONE" /\ offer'[j][p] # "NONE" => Asking
                   /\ offer[j][p] # "EXPIRED" /\ offer'[j][p] = "EXPIRED" => Lapsing
<1>1. CASE UNCHANGED offer
  BY <1>1
<1>2. ASSUME NEW i, NEW ps, CreateOffers(i, ps), i = j => Asking
      PROVE  Goal
  <2>1. CASE i = j
    <3>1. offer'[j][p] \in {"PENDING", offer[j][p]}
      BY <1>2, <2>1 DEF CreateOffers, PutOffers, TypeOK
    <3> QED
      BY <1>2, <2>1, <3>1
  <2>2. CASE i # j
    BY <1>2, <2>2 DEF CreateOffers, PutOffers, TypeOK
  <2> QED
    BY <2>1, <2>2
<1>3. ASSUME NEW t \in Threads, FanOut(t) PROVE Goal
  BY <1>2, <1>3 DEF FanOut
<1>4. ASSUME NEW s \in Sweepers, Reoffer(s) PROVE Goal
  BY <1>1, <1>2, <1>4 DEF Reoffer, Escalate
<1>5. ASSUME NEW t \in Threads, AcceptOffer(t) PROVE Goal
  <2>1. offer[call[t].job][call[t].prov] = "PENDING"
    BY <1>5 DEF AcceptOffer
  <2>2. offer'[j][p] \in {offer[j][p], "ACCEPTED", "WITHDRAWN"}
    BY <1>5 DEF AcceptOffer, TypeOK
  <2>3. offer[j][p] = "NONE" => offer'[j][p] = "NONE"
    BY <1>5, <2>1 DEF AcceptOffer, TypeOK
  <2> QED
    BY <2>2, <2>3
<1>6. ASSUME NEW t \in Threads, DeclineOffer(t) PROVE Goal
  <2>1. offer[call[t].job][call[t].prov] # "NONE"
    BY <1>6 DEF DeclineOffer, WritesAreGrounded
  <2>2. \/ offer'[j][p] = offer[j][p]
        \/ offer[j][p] # "NONE" /\ offer'[j][p] = "DECLINED"
    BY <1>6, <2>1 DEF DeclineOffer, TypeOK
  <2> QED
    BY <2>2
<1>7. ASSUME NEW s \in Sweepers, ExpireOffers(s) PROVE Goal
  <2>1. offer'[j][p] = IF <<j, p>> \in sweep[s].due THEN "EXPIRED" ELSE offer[j][p]
    BY <1>7 DEF ExpireOffers
  <2>2. <<j, p>> \in sweep[s].due => offer[j][p] # "NONE"
    BY DEF WritesAreGrounded
  <2> QED
    BY <1>7, <2>1, <2>2
<1>8. CASE RequestStep \/ Tick \/ UNCHANGED vars
  BY <1>1, <1>8 DEF RequestStep, Tick, vars, CreateJob, TriageJob, CancelJob, UploadEvidence,
                    StaffFallback, StaffWork, DecideQuote, dispatchRows
<1>9. ASSUME NEW t \in Threads, CallStep(t) PROVE Goal
  <2>1. CASE FanOut(t) \/ AcceptOffer(t) \/ DeclineOffer(t)
    BY <1>3, <1>5, <1>6, <2>1
  <2>2. CASE ~(FanOut(t) \/ AcceptOffer(t) \/ DeclineOffer(t))
    <3>1. UNCHANGED offer
      BY <1>9, <2>2 DEF CallStep, BeginQuote, BeginOffers, CreateQuote, MarkQuoted, BeginAccept,
                        BeginDecline, BeginProviderWork, ProviderWork, ProviderFallback,
                        CallEnds, dispatchRows
    <3> QED
      BY <1>1, <3>1
  <2> QED
    BY <2>1, <2>2
<1>10. ASSUME NEW s \in Sweepers, SweepStep(s) \/ SweepCrash(s) PROVE Goal
  <2>1. CASE Reoffer(s) \/ ExpireOffers(s)
    BY <1>4, <1>7, <2>1
  <2>2. CASE ~(Reoffer(s) \/ ExpireOffers(s))
    <3>1. UNCHANGED offer
      BY <1>10, <2>2 DEF SweepStep, SweepCrash, BeginSweep, CoverJob, CoverAssignment,
                         CoverOffers, dispatchRows
    <3> QED
      BY <1>1, <3>1
  <2> QED
    BY <2>1, <2>2
<1> QED
  BY <1>8, <1>9, <1>10 DEF Next

\* A request sets out to make offers, and a sweep turns to a job, when it is QUOTED.
LEMMA OffersToQuoted ==
  ASSUME TypeOK, [Next]_vars, NEW j \in Jobs, NEW t \in Threads,
         OffersTo(call'[t], j), ~OffersTo(call[t], j)
  PROVE  job'[j] = "QUOTED"
<1>1. call'[t] # call[t] /\ call'[t].at = "offers" /\ call'[t].job = j
  BY DEF OffersTo
<1>2. CASE RequestStep \/ Tick \/ UNCHANGED vars
  BY <1>1, <1>2 DEF RequestStep, Tick, vars, CreateJob, TriageJob, CancelJob, UploadEvidence,
                    StaffFallback, StaffWork, DecideQuote, dispatchRows
<1>3. CASE \E s \in Sweepers : SweepStep(s) \/ SweepCrash(s)
  BY <1>1, <1>3, OwnRecord
<1>4. ASSUME NEW u \in Threads, CallStep(u) PROVE job'[j] = "QUOTED"
  <2>1. CASE Answer(u)
    BY <1>1, <2>1 DEF Answer, Idle, TypeOK
  <2>2. ASSUME NEW stage, NEW i, NEW p, Proceed(u, stage, i, p)
        PROVE  stage = "offers" /\ i = j
    BY <1>1, <2>2 DEF Proceed, TypeOK
  <2>3. ASSUME NEW q \in Quotes, CreateQuote(u, q) PROVE FALSE
    <3>1. call'[u].at = "quoted"
      BY <2>3 DEF CreateQuote, TypeOK, Call
    <3>2. u # t => call'[t] = call[t]
      BY <2>3 DEF CreateQuote, TypeOK
    <3> QED
      BY <1>1, <3>1, <3>2
  <2>4. ASSUME NEW i \in Jobs, BeginOffers(u, i) PROVE job'[j] = "QUOTED"
    BY <2>2, <2>4 DEF BeginOffers
  <2>5. ASSUME NEW i \in Jobs, BeginQuote(u, i) PROVE FALSE
    BY <2>2, <2>5 DEF BeginQuote
  <2>6. ASSUME NEW i \in Jobs, NEW p \in Providers,
               \/ BeginAccept(u, i, p) \/ BeginDecline(u, i, p)
               \/ \E stage \in CallStages : BeginProviderWork(u, stage, i, p)
        PROVE  FALSE
    BY <2>2, <2>6 DEF BeginAccept, BeginDecline, BeginProviderWork
  <2>7. CASE \/ MarkQuoted(u) \/ FanOut(u) \/ AcceptOffer(u) \/ DeclineOffer(u)
             \/ ProviderWork(u) \/ ProviderFallback(u) \/ CallEnds(u)
    BY <2>1, <2>7 DEF MarkQuoted, FanOut, AcceptOffer, DeclineOffer, ProviderWork,
                      ProviderFallback, CallEnds
  <2>8. CASE \/ \E i \in Jobs : BeginQuote(u, i) \/ BeginOffers(u, i)
             \/ \E q \in Quotes : CreateQuote(u, q)
             \/ \E i \in Jobs, p \in Providers :
                  \/ BeginAccept(u, i, p) \/ BeginDecline(u, i, p)
                  \/ \E stage \in CallStages : BeginProviderWork(u, stage, i, p)
    BY <2>3, <2>4, <2>5, <2>6, <2>8
  <2> QED
    BY <1>4, <2>7, <2>8 DEF CallStep
<1> QED
  BY <1>2, <1>3, <1>4 DEF Next

\* How a run goes on: with a list of jobs, or with one job.
LEMMA SweepMoves ==
  ASSUME TypeOK, NEW s \in Sweepers, SweepStep(s)
  PROVE  \/ sweep'[s] = Resting
         \/ sweep'[s].at = "expire"
         \/ \E todo : sweep'[s] = Covering(todo)
         \/ \E j \in Jobs :
              /\ CoverJob(s, j) /\ job[j] = "QUOTED"
              /\ sweep'[s].at = "assignment" /\ sweep'[s].job = j
              /\ sweep'[s].todo = sweep[s].todo \ {j}
         \/ /\ CoverAssignment(s)
            /\ sweep'[s].at = "offers" /\ sweep'[s].job = sweep[s].job
            /\ sweep'[s].todo = sweep[s].todo
         \/ /\ CoverOffers(s)
            /\ sweep'[s].at = "reoffer" /\ sweep'[s].job = sweep[s].job
            /\ sweep'[s].todo = sweep[s].todo /\ sweep'[s].asked = Asked(sweep[s].job)
<1> DEFINE Lists == sweep'[s] = Resting \/ \E todo : sweep'[s] = Covering(todo)
<1>1. sweep \in [Sweepers -> Sweep] /\ sweep[s] \in Sweep
  BY DEF TypeOK
<1>2. ASSUME NEW todo, SweepOn(s, todo) PROVE Lists
  BY <1>1, <1>2 DEF SweepOn
<1>3. ASSUME BeginSweep(s) PROVE sweep'[s].at = "expire"
  BY <1>1, <1>3 DEF BeginSweep, Resting
<1>4. ASSUME ExpireOffers(s) PROVE Lists
  BY <1>1, <1>4 DEF ExpireOffers
<1>5. ASSUME NEW j \in Jobs, CoverJob(s, j)
      PROVE  \/ Lists
             \/ /\ job[j] = "QUOTED" /\ sweep'[s].at = "assignment" /\ sweep'[s].job = j
                /\ sweep'[s].todo = sweep[s].todo \ {j}
  <2>1. CASE job[j] # "QUOTED"
    BY <1>2, <1>5, <2>1 DEF CoverJob
  <2>2. CASE job[j] = "QUOTED"
    <3> DEFINE w == [sweep[s] EXCEPT !.at = "assignment", !.job = j,
                                     !.todo = sweep[s].todo \ {j}]
    <3>1. sweep'[s] = w
      BY <1>1, <1>5, <2>2 DEF CoverJob
    <3>2. w.at = "assignment" /\ w.job = j /\ w.todo = sweep[s].todo \ {j}
      BY <1>1 DEF Sweep
    <3> HIDE DEF w
    <3> QED
      BY <2>2, <3>1, <3>2
  <2> QED
    BY <2>1, <2>2
<1>6. ASSUME CoverAssignment(s)
      PROVE  \/ Lists
             \/ /\ sweep'[s].at = "offers" /\ sweep'[s].job = sweep[s].job
                /\ sweep'[s].todo = sweep[s].todo
  <2>1. CASE Active(sweep[s].job) # {}
    BY <1>2, <1>6, <2>1 DEF CoverAssignment
  <2>2. CASE Active(sweep[s].job) = {}
    BY <1>1, <1>6, <2>2 DEF CoverAssignment, Sweep
  <2> QED
    BY <2>1, <2>2
<1>7. ASSUME CoverOffers(s)
      PROVE  \/ Lists
             \/ /\ sweep'[s].at = "reoffer" /\ sweep'[s].job = sweep[s].job
                /\ sweep'[s].todo = sweep[s].todo /\ sweep'[s].asked = Asked(sweep[s].job)
  <2>1. CASE StillOut(sweep[s].job)
    BY <1>2, <1>7, <2>1 DEF CoverOffers
  <2>2. CASE ~StillOut(sweep[s].job)
    BY <1>1, <1>7, <2>2 DEF CoverOffers, Sweep
  <2> QED
    BY <2>1, <2>2
<1>8. ASSUME Reoffer(s) PROVE Lists
  BY <1>2, <1>8 DEF Reoffer
<1> QED
  BY <1>3, <1>4, <1>5, <1>6, <1>7, <1>8 DEF SweepStep

LEMMA CoversQuoted ==
  ASSUME TypeOK, [Next]_vars, NEW j \in Jobs, NEW s \in Sweepers,
         Covers(sweep'[s], j), ~Covers(sweep[s], j)
  PROVE  job'[j] = "QUOTED"
<1>1. sweep'[s] # sweep[s]
  OBVIOUS
<1>2. SweepStep(s) \/ SweepCrash(s)
  BY <1>1, OthersLeaveSweeps, OwnRecord
<1>3. CASE SweepCrash(s)
  BY <1>3 DEF SweepCrash, Resting, Covers, TypeOK
<1>4. CASE SweepStep(s)
  <2>1. sweep'[s] # Resting /\ sweep'[s].at # "expire" /\ \A todo : sweep'[s] # Covering(todo)
    BY DEF Covers, Resting, Covering
  <2>2. CASE \E i \in Jobs : CoverJob(s, i) /\ job[i] = "QUOTED" /\ sweep'[s].job = i
    BY <2>2 DEF CoverJob, Covers
  <2>3. sweep[s].at \in {"assignment", "offers"} => sweep'[s].job # sweep[s].job
    BY DEF Covers
  <2>4. (CoverAssignment(s) => sweep[s].at = "assignment")
        /\ (CoverOffers(s) => sweep[s].at = "offers")
    BY DEF CoverAssignment, CoverOffers
  <2> QED
    BY <1>4, <2>1, <2>2, <2>3, <2>4, SweepMoves
<1> QED
  BY <1>2, <1>3, <1>4

LEMMA NobodyAskedYetStep ==
  ASSUME TypeOK, WritesAreGrounded, NobodyAskedYet, [Next]_vars
  PROVE  NobodyAskedYet'
<1> SUFFICES ASSUME NEW j \in Jobs, job'[j] \in Unquoted
             PROVE  /\ Asked(j)' = {}
                    /\ \A t \in Threads : ~OffersTo(call'[t], j)
                    /\ \A s \in Sweepers : ~Covers(sweep'[s], j)
  BY DEF NobodyAskedYet, OffersTo, Covers
<1>1. job'[j] # "QUOTED"
  BY DEF Unquoted
<1>2. job[j] \in Unquoted
  <2>1. RowStep
    BY RowsOfStep
  <2>2. ASSUME NEW i \in Jobs, NEW to \in Statuses, Moves(i, to) PROVE job[j] \in Unquoted
    <3>1. CASE i = j
      BY <2>2, <3>1 DEF Moves, SetJob, TypeOK, Unquoted, CanTransition, Transitions
    <3>2. CASE i # j
      BY <2>2, <3>2 DEF Moves, SetJob, TypeOK
    <3> QED
      BY <3>1, <3>2
  <2>3. ASSUME NEW i \in Jobs, NEW p \in Providers, Awards(i, p) \/ Releases(i, p)
        PROVE  job[j] \in Unquoted
    <3>1. i # j
      BY <2>3 DEF Awards, Releases, SetJob, TypeOK, Unquoted
    <3> QED
      BY <2>3, <3>1 DEF Awards, Releases, SetJob, TypeOK
  <2> QED
    BY <2>1, <2>2, <2>3 DEF RowStep, Quiet, Settles, Sends, Decides, Proves, Asks
<1>3. /\ Asked(j) = {}
      /\ \A t \in Threads : ~OffersTo(call[t], j)
      /\ \A s \in Sweepers : ~Covers(sweep[s], j)
  BY <1>2 DEF NobodyAskedYet
<1>4. ASSUME NEW p \in Providers PROVE offer'[j][p] = "NONE"
  <2>1. offer[j][p] = "NONE"
    BY <1>3 DEF Asked
  <2>2. ~\E t \in Threads : FanOut(t) /\ call[t].job = j
    BY <1>3 DEF FanOut, OffersTo
  <2>3. ~\E s \in Sweepers : Reoffer(s) /\ sweep[s].job = j
    BY <1>3 DEF Reoffer, Covers
  <2> QED
    BY <2>1, <2>2, <2>3, WhoWritesOffers
<1>5. Asked(j)' = {}
  BY <1>4 DEF Asked
<1> QED
  BY <1>1, <1>3, <1>5, OffersToQuoted, CoversQuoted

\* Whoever remembers a job that has run out keeps remembering it, or hands it
\* over: it drops the job only once somebody new was asked or a person was told.
LEMMA RemembersStep ==
  ASSUME ~SweepMayCrash, IInv, [Next]_vars, NEW j \in Jobs, NEW s \in Sweepers,
         RunOut(j), RunOut(j)', Asked(j)' = Asked(j), Remembers(sweep[s], j)
  PROVE  Remembers(sweep[s], j)'
<1>1. TypeOK /\ WritesAreGrounded /\ sweep \in [Sweepers -> Sweep] /\ sweep[s] \in Sweep
  BY DEF IInv, TypeOK
<1>2. CASE sweep'[s] = sweep[s]
  BY <1>2 DEF Remembers
<1>3. CASE sweep'[s] # sweep[s]
  <2>1. SweepStep(s)
    BY <1>1, <1>3, OthersLeaveSweeps, OwnRecord DEF SweepCrash
  <2>2. ASSUME NEW todo, SweepOn(s, todo), j \in todo PROVE Remembers(sweep[s], j)'
    <3>1. sweep'[s] = Covering(todo)
      BY <1>1, <2>2 DEF SweepOn
    <3> QED
      BY <2>2, <3>1 DEF Covering, Remembers
  <2>3. sweep[s] # Resting /\ sweep[s].at # "expire"
    BY DEF Remembers, Resting
  <2>4. ASSUME NEW i \in Jobs, CoverJob(s, i) PROVE Remembers(sweep[s], j)'
    <3>1. j \in sweep[s].todo
      BY <2>4 DEF CoverJob, Remembers
    <3>2. CASE i = j
      <4>1. job[j] = "QUOTED"
        BY DEF RunOut
      <4>2. sweep'[s] = [sweep[s] EXCEPT !.at = "assignment", !.job = j,
                                         !.todo = sweep[s].todo \ {j}]
        BY <1>1, <2>4, <3>2, <4>1 DEF CoverJob
      <4>3. sweep'[s].at = "assignment" /\ sweep'[s].job = j
        BY <1>1, <4>2 DEF Sweep
      <4> QED
        BY <4>3 DEF Remembers
    <3>3. CASE i # j /\ job[i] = "QUOTED"
      <4>1. sweep'[s] = [sweep[s] EXCEPT !.at = "assignment", !.job = i,
                                         !.todo = sweep[s].todo \ {i}]
        BY <1>1, <2>4, <3>3 DEF CoverJob
      <4>2. sweep'[s].at = "assignment" /\ sweep'[s].todo = sweep[s].todo \ {i}
        BY <1>1, <4>1 DEF Sweep
      <4> QED
        BY <3>1, <3>3, <4>2 DEF Remembers
    <3>4. CASE i # j /\ job[i] # "QUOTED"
      BY <2>2, <2>4, <3>1, <3>4 DEF CoverJob
    <3> QED
      BY <3>2, <3>3, <3>4
  <2>5. CASE CoverAssignment(s)
    <3>1. sweep[s].at = "assignment" /\ (sweep[s].job = j \/ j \in sweep[s].todo)
      BY <2>5 DEF CoverAssignment, Remembers
    <3>2. CASE Active(sweep[s].job) = {}
      <4>1. sweep'[s].at = "offers" /\ sweep'[s].job = sweep[s].job
            /\ sweep'[s].todo = sweep[s].todo
        BY <1>1, <2>5, <3>2 DEF CoverAssignment, Sweep
      <4> QED
        BY <3>1, <4>1 DEF Remembers
    <3>3. CASE Active(sweep[s].job) # {}
      <4>1. sweep[s].job # j
        BY <3>3 DEF RunOut, Active
      <4> QED
        BY <2>2, <2>5, <3>1, <3>3, <4>1 DEF CoverAssignment
    <3> QED
      BY <3>2, <3>3
  <2>6. CASE CoverOffers(s)
    <3>1. sweep[s].at = "offers" /\ (sweep[s].job = j \/ j \in sweep[s].todo)
      BY <2>6 DEF CoverOffers, Remembers
    <3>2. CASE ~StillOut(sweep[s].job)
      <4>1. sweep'[s].at = "reoffer" /\ sweep'[s].job = sweep[s].job
            /\ sweep'[s].todo = sweep[s].todo /\ sweep'[s].asked = Asked(sweep[s].job)
        BY <1>1, <2>6, <3>2 DEF CoverOffers, Sweep
      <4> QED
        BY <3>1, <4>1 DEF Remembers
    <3>3. CASE StillOut(sweep[s].job)
      <4>1. sweep[s].job # j
        BY <3>3 DEF RunOut, StillOut, Open
      <4> QED
        BY <2>2, <2>6, <3>1, <3>3, <4>1 DEF CoverOffers
    <3> QED
      BY <3>2, <3>3
  <2>7. CASE Reoffer(s)
    <3>1. CASE j \in sweep[s].todo
      BY <2>2, <2>7, <3>1 DEF Reoffer
    <3>2. CASE j \notin sweep[s].todo
      <4>1. sweep[s].job = j /\ sweep[s].asked = Asked(j)
        BY <2>7, <3>2 DEF Reoffer, Remembers
      <4>2. PriceCheck(j)
        <5>1. PICK p \in Providers : offer[j][p] # "NONE"
          BY DEF RunOut, Asked
        <5> QED
          BY <5>1 DEF IInv, DispatchedAtAPrice, PriceCheck
      <4>3. ASSUME NEW reason, Escalate(j, reason) PROVE FALSE
        <5>1. escalated' = [escalated EXCEPT ![j] = escalated[j] \cup {reason}]
          BY <4>3 DEF Escalate
        <5>2. reason \in escalated'[j]
          BY <5>1 DEF IInv, TypeOK
        <5> QED
          BY <5>2 DEF RunOut
      <4>4. ASSUME NEW next \in SUBSET (Providers \ Asked(j)), next # {}, CreateOffers(j, next)
            PROVE  FALSE
        <5>1. PICK p \in Providers : p \in next /\ p \notin Asked(j)
          BY <4>4
        <5>2. offer[j][p] = "NONE"
          BY <5>1 DEF Asked
        <5>3. offer'[j][p] = "PENDING"
          BY <1>1, <4>4, <5>1, <5>2 DEF CreateOffers, PutOffers, TypeOK
        <5> QED
          BY <5>3 DEF RunOut
      <4> QED
        BY <2>7, <4>1, <4>2, <4>3, <4>4 DEF Reoffer
    <3> QED
      BY <3>1, <3>2
  <2>8. ~BeginSweep(s) /\ ~ExpireOffers(s)
    BY <2>3 DEF BeginSweep, ExpireOffers
  <2> QED
    BY <2>1, <2>4, <2>5, <2>6, <2>7, <2>8 DEF SweepStep
<1> QED
  BY <1>2, <1>3

\* A job runs out by the lapse of an offer, and then the run that marked it has
\* the job on its list.
LEMMA RunsOutByLapse ==
  ASSUME IInv, NobodyAskedYet, [Next]_vars, NEW j \in Jobs, RunOut(j)', ~RunOut(j)
  PROVE  \E s \in Sweepers : Remembers(sweep[s], j)'
<1>1. TypeOK /\ WritesAreGrounded /\ RowStep
  BY RowsOfStep DEF IInv
<1>2. \A p \in Providers : assignment[j][p] = "NONE"
  BY <1>1, NewRows DEF RunOut
<1>3. \A p \in Providers : offer[j][p] = "NONE" => offer'[j][p] = "NONE"
  BY <1>1, NewRows DEF RunOut
<1>4. escalated[j] = {}
  <2>1. escalated[j] \subseteq escalated'[j]
    <3>1. CASE UNCHANGED escalated
      BY <3>1
    <3>2. ASSUME NEW s \in Sweepers, SweepStep(s) \/ SweepCrash(s), ~UNCHANGED escalated
          PROVE  escalated[j] \subseteq escalated'[j]
      <4>1. Reoffer(s)
        BY <3>2 DEF SweepStep, SweepCrash, BeginSweep, ExpireOffers, CoverJob, CoverAssignment,
                    CoverOffers, dispatchRows
      <4>2. PICK i, reason : escalated' = [escalated EXCEPT ![i] = escalated[i] \cup {reason}]
        BY <3>2, <4>1 DEF Reoffer, Escalate
      <4> QED
        BY <1>1, <4>2 DEF TypeOK
    <3> QED
      BY <3>1, <3>2, OthersLeaveSweeps
  <2> QED
    BY <2>1 DEF RunOut
<1>5. Asked(j) # {}
  BY <1>3 DEF RunOut, Asked
<1>6. job[j] = "QUOTED"
  <2> SUFFICES ASSUME job[j] # "QUOTED" PROVE FALSE
    OBVIOUS
  <2>1. job'[j] = "QUOTED"
    BY DEF RunOut
  <2>2. CanTransition(job[j], "QUOTED")
    <3>1. ASSUME NEW i \in Jobs, NEW to \in Statuses, Moves(i, to)
          PROVE  CanTransition(job[j], "QUOTED")
      <4>1. i = j /\ to = "QUOTED"
        BY <1>1, <2>1, <3>1 DEF Moves, SetJob, TypeOK
      <4> QED
        BY <3>1, <4>1 DEF Moves
    <3>2. ASSUME NEW i \in Jobs, NEW p \in Providers, Awards(i, p) PROVE FALSE
      BY <1>1, <2>1, <3>2 DEF Awards, SetJob, TypeOK
    <3>3. ASSUME NEW i \in Jobs, NEW p \in Providers, Releases(i, p)
          PROVE  CanTransition(job[j], "QUOTED")
      <4>1. i = j
        BY <1>1, <2>1, <3>3 DEF Releases, SetJob, TypeOK
      <4> QED
        BY <3>3, <4>1 DEF Releases
    <3>4. job'[j] # job[j]
      BY <2>1
    <3> QED
      BY <1>1, <3>1, <3>2, <3>3, <3>4
      DEF RowStep, Quiet, Settles, Sends, Decides, Proves, Asks
  <2>3. job[j] \in Held \cup Unquoted
    BY <2>2 DEF CanTransition, Transitions, Held, Unquoted
  <2>4. job[j] \notin Held
    BY <1>2 DEF IInv, HeldHasHolder, Active
  <2> QED
    BY <1>5, <2>3, <2>4 DEF NobodyAskedYet
<1>7. PICK p \in Providers : offer[j][p] \notin {"NONE", "EXPIRED"}
  BY <1>2, <1>4, <1>5, <1>6 DEF RunOut
<1>8. offer'[j][p] = "EXPIRED"
  <2>1. offer'[j][p] # "NONE"
    BY <1>1, <1>7, OfferRowsStay
  <2> QED
    BY <2>1 DEF RunOut
<1>9. PICK s \in Sweepers : ExpireOffers(s) /\ <<j, p>> \in sweep[s].due
  BY <1>1, <1>7, <1>8, WhoWritesOffers
<1>10. sweep'[s] = Covering({i \in Jobs : \E r \in Providers : <<i, r>> \in sweep[s].due})
  BY <1>1, <1>9 DEF ExpireOffers, TypeOK
<1>11. sweep'[s].at = "cover" /\ j \in sweep'[s].todo
  BY <1>9, <1>10 DEF Covering
<1> QED
  BY <1>11 DEF Remembers

\* As long as no sweep dies half-way, a job whose offers all lapsed is on its way
\* to somebody new or to a person: some run still has it to cover, and knows
\* everybody who was asked, however many sweeps, requests and fallbacks
\* interleave.  (One that dies takes the job with it: the offers are EXPIRED by
\* then, and no later run selects them.)
THEOREM LapsedJobsAreRemembered == ~SweepMayCrash => (Spec => []NobodyIsForgotten)
<1> SUFFICES ASSUME ~SweepMayCrash PROVE Spec => []NobodyIsForgotten
  OBVIOUS
<1> DEFINE Inv == IInv /\ NobodyAskedYet /\ NobodyIsForgotten
<1>1. Init => Inv
  <2> SUFFICES ASSUME Init PROVE Inv
    OBVIOUS
  <2>1. NobodyAskedYet
    BY DEF Init, NobodyAskedYet, Asked, OffersTo, Covers, Idle, Resting
  <2>2. NobodyIsForgotten
    BY DEF Init, NobodyIsForgotten, RunOut
  <2> QED
    BY <2>1, <2>2, IInvInit
<1>2. Inv /\ [Next]_vars => Inv'
  <2> SUFFICES ASSUME Inv, [Next]_vars PROVE Inv'
    OBVIOUS
  <2>1. IInv' /\ NobodyAskedYet' /\ TypeOK /\ WritesAreGrounded /\ RowStep
    BY IInvStep, NobodyAskedYetStep, RowsOfStep DEF IInv
  <2>2. ASSUME NEW j \in Jobs, RunOut(j)' PROVE \E s \in Sweepers : Remembers(sweep[s], j)'
    <3>1. CASE ~RunOut(j)
      BY <2>2, <3>1, RunsOutByLapse
    <3>2. CASE RunOut(j)
      <4>1. \A p \in Providers : offer[j][p] = "NONE" <=> offer'[j][p] = "NONE"
        BY <2>1, <2>2, NewRows, OfferRowsStay DEF RunOut
      <4>2. Asked(j)' = Asked(j)
        BY <4>1 DEF Asked
      <4>3. PICK s \in Sweepers : Remembers(sweep[s], j)
        BY <3>2 DEF NobodyIsForgotten
      <4> QED
        BY <2>2, <3>2, <4>2, <4>3, RemembersStep
    <3> QED
      BY <3>1, <3>2
  <2>3. NobodyIsForgotten'
    BY <2>2 DEF NobodyIsForgotten
  <2> QED
    BY <2>1, <2>3
<1> QED
  BY <1>1, <1>2, PTL DEF Spec
=============================================================================
