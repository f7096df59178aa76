---------------------------- MODULE MemoryStore ----------------------------
(***************************************************************************)
(* The in-memory Store (store/memory.ts), which the API runs on when no    *)
(* database is configured.  The body of every operation runs without an    *)
(* await, under a lock of its job where it has one, so every operation is  *)
(* one step.  What differs from the PostgreSQL store: a write made before  *)
(* a throw stays (nothing is rolled back), an expiry is one step, and      *)
(* nothing but the code forbids a second active assignment.                *)
(*                                                                         *)
(* The operations are called by handlers that await between their reads    *)
(* and the call, so a caller's check of a job is not repeated here unless  *)
(* what it saw is final (an approved price).                               *)
(***************************************************************************)
EXTENDS JobStatus, Naturals, Sequences

CONSTANTS
  Jobs, Providers, Quotes,
  None,      \* no job; no particular offer or quote
  Followed,  \* bound: the topics of the outbox this instance follows
  OfferTtl, QuoteTtl, MaxTime

ASSUME MemoryStoreAssumption ==
  /\ None \notin Jobs \cup Providers \cup Quotes
  /\ {OfferTtl, QuoteTtl, MaxTime} \subseteq Nat

VARIABLES
  job,         \* jobs: the status of each record, "ABSENT" before createJob
  quote,       \* quotes
  offer,       \* offers: the status of the offer of (job, provider)
  expiresAt,   \* the deadline of that offer
  assignment,  \* assignments: the status of the assignment of (job, provider)
  history,     \* the from and to of the status events of a job, in order
  outboxKeys,  \* the index of the outbox by dedupe key
  outbox,      \* the status of the outbox row of a key
  owed,        \* the messages that wait for their delivery
  unsaid,      \* the keys under which an event got no message of its own
  now

dispatchRows == <<quote, offer, expiresAt, assignment>>
outboxRows   == <<outboxKeys, outbox>>
heardOf      == <<owed, unsaid>>
vars == <<job, dispatchRows, history, outboxRows, heardOf, now>>

-------------------------------------------------------------------------------
(* Types *)

OfferStatuses  == {"NONE", "PENDING", "ACCEPTED", "DECLINED", "EXPIRED", "WITHDRAWN"}
QuoteStatuses  == {"NONE", "SENT", "APPROVED", "REJECTED", "EXPIRED"}
AssignStatuses == {"NONE", "ACTIVE", "FELL_THROUGH"}
RowStatuses    == {"NONE", "PENDING", "FAILED", "SENT", "DEAD"}

QuoteRow == [job : Jobs \cup {None}, status : QuoteStatuses, validUntil : Nat]
NoQuote  == [job |-> None, status |-> "NONE", validUntil |-> 0]

\* TOPIC_BY_EVENT: the events that leave the system, and under what name.
TopicByEvent ==
  [JOB_CREATED |-> "job.created", TRIAGE_APPROVED |-> "job.triaged",
   JOB_QUOTED |-> "job.quoted", QUOTE_APPROVED |-> "quote.decided",
   QUOTE_REJECTED |-> "quote.decided", OFFERS_SENT |-> "offers.sent",
   OFFER_ACCEPTED |-> "offer.accepted", OFFER_DECLINED |-> "offer.declined",
   OFFER_EXPIRED |-> "offer.expired", ASSIGNMENT_FELL_THROUGH |-> "assignment.fell_through",
   WORK_STARTED |-> "job.started", JOB_COMPLETED |-> "job.completed",
   JOB_CANCELLED |-> "job.cancelled", DISPATCH_ESCALATED |-> "dispatch.escalated"]

Topics == {TopicByEvent[type] : type \in DOMAIN TopicByEvent}

ASSUME FollowedAssumption == Followed \subseteq Topics

\* Why the sweep asks for a person.
Reasons == {"MAX_ROUNDS_REACHED", "NO_ELIGIBLE_PROVIDER_LEFT"}

\* What a key says besides its topic and its job.
Occurrences == Providers \cup Quotes \cup Reasons \cup {None}
Keys == [topic : Followed, job : Jobs, id : Occurrences]

\* Beyond the types: the index holds the keys of the rows and no other, so that
\* a key swept with its row may be used again.
TypeOK ==
  /\ job \in [Jobs -> Statuses \cup {"ABSENT"}]
  /\ quote \in [Quotes -> QuoteRow]
  /\ offer \in [Jobs -> [Providers -> OfferStatuses]]
  /\ expiresAt \in [Jobs -> [Providers -> Nat]]
  /\ assignment \in [Jobs -> [Providers -> AssignStatuses]]
  /\ history \in [Jobs -> Seq(Statuses \X Statuses)]
  /\ outboxKeys \in SUBSET Keys
  /\ outbox \in [Keys -> RowStatuses]
  /\ outboxKeys = {k \in Keys : outbox[k] # "NONE"}
  /\ owed \in SUBSET Keys
  /\ unsaid \in SUBSET Keys
  /\ now \in Nat

-------------------------------------------------------------------------------
(* Events and the outbox *)

DiscriminatorUnread(type, id) == IF type = "DISPATCH_ESCALATED" THEN id ELSE None

\* discriminatorFor: answers and expiries carry the id of their offer, decisions
\* that of their quote, escalations their reason.  The payloads of OFFERS_SENT and
\* ASSIGNMENT_FELL_THROUGH hold neither the round nor the assignmentId looked for,
\* so every round of offers of a job has one key, and every fallback.
Discriminator(type, id) ==
  IF type \in {"OFFER_ACCEPTED", "OFFER_DECLINED", "OFFER_EXPIRED",
               "QUOTE_APPROVED", "QUOTE_REJECTED", "DISPATCH_ESCALATED"} THEN id ELSE None

Key(type, j, id) ==
  [topic |-> TopicByEvent[type], job |-> j, id |-> Discriminator(type, id)]

\* recordEvent: a row for the event, unless its key is in the index.
Record(keys) ==
  LET published == {k \in keys : k.topic \in Followed}
      fresh == published \ outboxKeys
  IN  /\ outboxKeys' = outboxKeys \cup fresh
      /\ outbox' = [k \in Keys |-> IF k \in fresh THEN "PENDING" ELSE outbox[k]]
      /\ owed' = owed \cup fresh
      /\ unsaid' = unsaid \cup (published \cap outboxKeys)

\* A move of the job together with its event, which names both ends.
Move(j, from, to, keys) ==
  /\ job' = [job EXCEPT ![j] = to]
  /\ history' = [history EXCEPT ![j] = Append(@, <<from, to>>)]
  /\ Record(keys)

-------------------------------------------------------------------------------
(* Reads *)

Active(j) == {p \in Providers : assignment[j][p] = "ACTIVE"}
Approved(j) == \E q \in Quotes : quote[q].job = j /\ quote[q].status = "APPROVED"
Existing == {j \in Jobs : job[j] # "ABSENT"}

VisibleWhileHeld(j, p) == assignment[j][p] = "ACTIVE"

Tenants == INSTANCE Tenancy WITH NoTenant <- None

\* visible, for the scope of a provider: it has, or had, an assignment.
Visible(j, p) ==
  Tenants!InScope([holders |-> {q \in Providers : assignment[j][q] # "NONE"}],
                  Tenants!ProviderScope(p))

-------------------------------------------------------------------------------
Init ==
  /\ job = [j \in Jobs |-> "ABSENT"]
  /\ quote = [q \in Quotes |-> NoQuote]
  /\ offer = [j \in Jobs |-> [p \in Providers |-> "NONE"]]
  /\ expiresAt = [j \in Jobs |-> [p \in Providers |-> 0]]
  /\ assignment = [j \in Jobs |-> [p \in Providers |-> "NONE"]]
  /\ history = [j \in Jobs |-> <<>>]
  /\ outboxKeys = {}
  /\ outbox = [k \in Keys |-> "NONE"]
  /\ owed = {}
  /\ unsaid = {}
  /\ now = 0

CreateJob(j) ==
  /\ job[j] = "ABSENT"
  /\ job' = [job EXCEPT ![j] = "DRAFT"]
  /\ Record({Key("JOB_CREATED", j, None)})
  /\ UNCHANGED <<dispatchRows, history, now>>

\* The event each route names when it asks for a status.
EventOf ==
  [TRIAGED |-> "TRIAGE_APPROVED", QUOTED |-> "JOB_QUOTED", IN_PROGRESS |-> "WORK_STARTED",
   COMPLETED |-> "JOB_COMPLETED", CANCELLED |-> "JOB_CANCELLED"]

TransitionJob(j, to) ==
  /\ to \in DOMAIN EventOf
  /\ CanTransition(job[j], to)
  /\ Move(j, job[j], to, {Key(EventOf[to], j, None)})
  /\ UNCHANGED <<dispatchRows, now>>

CreateQuote(j, q) ==
  /\ j \in Existing
  /\ quote[q] = NoQuote
  /\ quote' = [quote EXCEPT ![q] =
                 [job |-> j, status |-> "SENT", validUntil |-> now + QuoteTtl]]
  /\ UNCHANGED <<job, offer, expiresAt, assignment, history, outboxRows, heardOf, now>>

\* decideQuote.  Past validUntil the request is refused and EXPIRED stays.
DecideQuote(q, decision) ==
  /\ decision \in {"APPROVED", "REJECTED"}
  /\ quote[q].status = "SENT"
  /\ \/ /\ quote[q].validUntil <= now
        /\ quote' = [quote EXCEPT ![q].status = "EXPIRED"]
        /\ UNCHANGED <<outboxRows, heardOf>>
     \/ /\ quote[q].validUntil > now
        /\ quote' = [quote EXCEPT ![q].status = decision]
        /\ Record({Key(IF decision = "APPROVED" THEN "QUOTE_APPROVED" ELSE "QUOTE_REJECTED",
                       quote[q].job, q)})
  /\ UNCHANGED <<job, offer, expiresAt, assignment, history, now>>

\* createOffers, called once an approved quote was seen: a provider asked before
\* is skipped, and the event is recorded even if all of them were.
CreateOffers(j, ps) ==
  LET fresh == {p \in ps : offer[j][p] = "NONE"}
  IN  /\ Approved(j)
      /\ offer' = [offer EXCEPT ![j] =
                     [p \in Providers |-> IF p \in fresh THEN "PENDING" ELSE @[p]]]
      /\ expiresAt' = [expiresAt EXCEPT ![j] =
                     [p \in Providers |-> IF p \in fresh THEN now + OfferTtl ELSE @[p]]]
      /\ Record({Key("OFFERS_SENT", j, None)})
      /\ UNCHANGED <<job, quote, assignment, history, now>>

\* acceptOffer with a clock read before the lock was had.  A refusal may leave
\* the offer EXPIRED, whatever it was before, or WITHDRAWN.
RefuseAccept(j, p, at) ==
  /\ offer[j][p] # "NONE"
  /\ \/ /\ expiresAt[j][p] <= at
        /\ offer' = [offer EXCEPT ![j][p] = "EXPIRED"]
     \/ /\ expiresAt[j][p] > at
        /\ offer[j][p] = "PENDING"
        /\ Active(j) # {}
        /\ offer' = [offer EXCEPT ![j][p] = "WITHDRAWN"]
  /\ UNCHANGED <<job, quote, expiresAt, assignment, history, outboxRows, heardOf, now>>

Award(j, p, at, from) ==
  /\ offer[j][p] = "PENDING"
  /\ expiresAt[j][p] > at
  /\ CanTransition(job[j], "ASSIGNED")
  /\ assignment' = [assignment EXCEPT ![j][p] = "ACTIVE"]
  /\ offer' = [offer EXCEPT ![j] =
                 [r \in Providers |-> IF r = p THEN "ACCEPTED"
                                      ELSE IF @[r] = "PENDING" THEN "WITHDRAWN" ELSE @[r]]]
  /\ Move(j, from, "ASSIGNED", {Key("OFFER_ACCEPTED", j, p)})
  /\ UNCHANGED <<quote, expiresAt, now>>

AcceptAlthoughAssigned(j, p, at) == Award(j, p, at, job[j])
AcceptOffer(j, p, at) == Active(j) = {} /\ Award(j, p, at, job[j])

DeclineOffer(j, p) ==
  /\ offer[j][p] = "PENDING"
  /\ offer' = [offer EXCEPT ![j][p] = "DECLINED"]
  /\ Record({Key("OFFER_DECLINED", j, p)})
  /\ UNCHANGED <<job, quote, expiresAt, assignment, history, now>>

Lapsed ==
  {jp \in Jobs \X Providers :
     offer[jp[1]][jp[2]] = "PENDING" /\ expiresAt[jp[1]][jp[2]] <= now}

\* expireOffers: every lapsed offer, in one step.
ExpireOffers ==
  /\ Lapsed # {}
  /\ offer' = [j \in Jobs |-> [p \in Providers |->
                 IF <<j, p>> \in Lapsed THEN "EXPIRED" ELSE offer[j][p]]]
  /\ Record({Key("OFFER_EXPIRED", jp[1], jp[2]) : jp \in Lapsed})
  /\ UNCHANGED <<job, quote, expiresAt, assignment, history, now>>

FallThrough(j, from) ==
  \E p \in Active(j) :
    /\ CanTransition(job[j], "QUOTED")
    /\ assignment' = [assignment EXCEPT ![j][p] = "FELL_THROUGH"]
    /\ Move(j, from, "QUOTED", {Key("ASSIGNMENT_FELL_THROUGH", j, None)})
    /\ UNCHANGED <<quote, offer, expiresAt, now>>

FallbackFromAssigned(j) == FallThrough(j, "ASSIGNED")
FallbackAssignment(j) == FallThrough(j, job[j])

\* recordJobEvent, which the sweep calls for a job with lapsed offers and an
\* approved price: an event, and nothing else.
RecordJobEvent(j, reason) ==
  /\ Approved(j)
  /\ \E p \in Providers : offer[j][p] # "NONE"
  /\ Record({Key("DISPATCH_ESCALATED", j, reason)})
  /\ UNCHANGED <<job, dispatchRows, history, now>>

-------------------------------------------------------------------------------
(* The outbox and retention *)

Undelivered == {k \in outboxKeys : outbox[k] \in {"PENDING", "FAILED"}}

\* claimOutbox and markOutboxDelivered.  One worker drains at a time, so nothing
\* that matters to a row comes between the claim and the mark.
MarkDelivered(k) ==
  /\ k \in Undelivered
  /\ outbox' = [outbox EXCEPT ![k] = "SENT"]
  /\ owed' = owed \ {k}
  /\ UNCHANGED <<job, dispatchRows, history, outboxKeys, unsaid, now>>

\* claimOutbox and markOutboxFailed: retried later, or given up.
MarkFailed(k) ==
  /\ k \in Undelivered
  /\ \E status \in {"FAILED", "DEAD"} : outbox' = [outbox EXCEPT ![k] = status]
  /\ UNCHANGED <<job, dispatchRows, history, outboxKeys, heardOf, now>>

SweepRowsOnly(rows) ==
  /\ rows # {}
  /\ outbox' = [k \in Keys |-> IF k \in rows THEN "NONE" ELSE outbox[k]]
  /\ UNCHANGED <<job, dispatchRows, history, outboxKeys, heardOf, now>>

Sweep(rows) ==
  /\ rows # {}
  /\ outboxKeys' = outboxKeys \ rows
  /\ outbox' = [k \in Keys |-> IF k \in rows THEN "NONE" ELSE outbox[k]]
  /\ UNCHANGED <<job, dispatchRows, history, heardOf, now>>

\* runRetention, the outbox: any of the rows delivered, by their age.
RunRetention == \E rows \in SUBSET {k \in outboxKeys : outbox[k] = "SENT"} : Sweep(rows)

Tick ==
  /\ now < MaxTime
  /\ now' = now + 1
  /\ UNCHANGED <<job, dispatchRows, history, outboxRows, heardOf>>

JobStep(j) ==
  \/ CreateJob(j)
  \/ \E to \in Statuses : TransitionJob(j, to)
  \/ \E q \in Quotes : CreateQuote(j, q)
  \/ \E ps \in SUBSET Providers : ps # {} /\ CreateOffers(j, ps)
  \/ \E p \in Providers :
       \/ DeclineOffer(j, p)
       \/ \E at \in 0..now : RefuseAccept(j, p, at) \/ AcceptOffer(j, p, at)
  \/ FallbackAssignment(j)
  \/ \E reason \in Reasons : RecordJobEvent(j, reason)

Next ==
  \/ \E j \in Jobs : JobStep(j)
  \/ \E q \in Quotes, decision \in QuoteStatuses : DecideQuote(q, decision)
  \/ ExpireOffers
  \/ \E k \in Keys : MarkDelivered(k) \/ MarkFailed(k)
  \/ RunRetention
  \/ Tick

Spec == Init /\ [][Next]_vars

-------------------------------------------------------------------------------
(* Properties *)

\* The status events of a job lead without a gap from DRAFT to the status it
\* has: whoever reads the timeline can tell how the job came to be where it is,
\* a fallback from ASSIGNED and one from IN_PROGRESS included.
Explains(trail, status) ==
  IF trail = <<>> THEN status \in {"ABSENT", "DRAFT"}
  ELSE /\ trail[1][1] = "DRAFT"
       /\ trail[Len(trail)][2] = status
       /\ \A i \in 1..Len(trail) : trail[i] \in Transitions
       /\ \A i \in 1..(Len(trail) - 1) : trail[i][2] = trail[i + 1][1]

HistoryExplainsStatus == \A j \in Jobs : Explains(history[j], job[j])

\* What happens to a job more than once, under a key that does not tell the times
\* apart: a later one gets no message while the row of an earlier one is there.
\* lib/outbox.ts means a key to name the occurrence where there is doubt.
MayBeUnsaid ==
  {"job.quoted", "offers.sent", "assignment.fell_through", "job.started",
   "dispatch.escalated"}

\* Every other published event gets a message of its own, whatever the order of
\* answers, expiries, decisions and moves; and a message is in the outbox until it
\* was delivered: no index, retry, dead letter or sweep of delivered rows loses it.
NothingGoesUnsaid ==
  /\ \A k \in owed : k \in outboxKeys /\ outbox[k] \in {"PENDING", "FAILED", "DEAD"}
  /\ \A k \in unsaid : k.topic \in MayBeUnsaid

\* A provider that was given a job keeps sight of it when it falls through, and
\* when another provider takes over, so its own work stays readable.
SightIsKept ==
  [][\A j \in Jobs, p \in Providers : Visible(j, p) => Visible(j, p)']_vars

\* The same promise as PostgreSQL keeps, here without its index: one claimant,
\* at an agreed price, along the status table.
AgreedMap == {j \in Jobs : Approved(j)}
ClaimsMap == [j \in Jobs |-> Active(j)]
Promise == INSTANCE Brokerage WITH status <- job, agreed <- AgreedMap, claims <- ClaimsMap

KeepsPromise == Promise!Spec
=============================================================================
