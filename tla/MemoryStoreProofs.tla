------------------------- MODULE MemoryStoreProofs -------------------------
(***************************************************************************)
(* Theorems about MemoryStore for every set of jobs, providers and quotes, *)
(* every choice of followed topics and every bound on time: the timeline   *)
(* of a job, its messages, what a provider sees, and that the store keeps  *)
(* the promise of Brokerage without the indexes PostgreSQL has.            *)
(***************************************************************************)
EXTENDS MemoryStore, TLAPS

-----------------------------------------------------------------------------
(* The inductive invariant, in the three parts the operations touch *)

\* The jobs and their timelines.
JobsAreExplained ==
  /\ job \in [Jobs -> Statuses \cup {"ABSENT"}]
  /\ history \in [Jobs -> Seq(Statuses \X Statuses)]
  /\ HistoryExplainsStatus

\* What a key says happened has happened: the occurrence that it names, if it
\* names one, cannot happen again.
Told(k) ==
  /\ k.topic = "job.created" => job[k.job] # "ABSENT"
  /\ k.topic = "job.triaged" => job[k.job] \notin {"ABSENT", "DRAFT"}
  /\ k.topic = "job.completed" => job[k.job] = "COMPLETED"
  /\ k.topic = "job.cancelled" => job[k.job] = "CANCELLED"
  /\ k.topic = "quote.decided" =>
       k.id \in Quotes /\ quote[k.id].status \in {"APPROVED", "REJECTED"}
  /\ k.topic \in {"offer.accepted", "offer.declined", "offer.expired"} =>
       k.id \in Providers /\ offer[k.job][k.id] \notin {"NONE", "PENDING"}

\* The outbox, what waits in it, and what never got into it.
OutboxIsSound ==
  /\ outboxKeys \in SUBSET Keys
  /\ outbox \in [Keys -> RowStatuses]
  /\ outboxKeys = {k \in Keys : outbox[k] # "NONE"}
  /\ owed \in SUBSET Keys
  /\ unsaid \in SUBSET Keys
  /\ \A k \in outboxKeys : Told(k)
  /\ NothingGoesUnsaid

\* Quotes, offers and assignments: a quote that can be decided is for a job, and
\* offers are only ever made for a job with an approved price.
DispatchIsAgreed ==
  /\ quote \in [Quotes -> QuoteRow]
  /\ \A q \in Quotes : quote[q].status = "SENT" => quote[q].job \in Jobs
  /\ offer \in [Jobs -> [Providers -> OfferStatuses]]
  /\ \A j \in Jobs : (\E p \in Providers : offer[j][p] # "NONE") => Approved(j)
  /\ expiresAt \in [Jobs -> [Providers -> Nat]]
  /\ assignment \in [Jobs -> [Providers -> AssignStatuses]]
  /\ now \in Nat

IInv == JobsAreExplained /\ OutboxIsSound /\ DispatchIsAgreed

LEMMA InitHolds == Init => IInv
BY MemoryStoreAssumption
   DEF Init, IInv, JobsAreExplained, HistoryExplainsStatus, Explains, OutboxIsSound,
       NothingGoesUnsaid, DispatchIsAgreed, QuoteRow, NoQuote, QuoteStatuses,
       OfferStatuses, AssignStatuses, RowStatuses, Statuses

-----------------------------------------------------------------------------
(* What happens once: the facts that keys name are final *)

\* A job moves along the table, or out of nothing into DRAFT.
LEMMA StatusMoves ==
  ASSUME IInv, [Next]_vars, NEW j \in Jobs
  PROVE  \/ job'[j] = job[j]
         \/ CanTransition(job[j], job'[j])
         \/ job[j] = "ABSENT" /\ job'[j] = "DRAFT"
<1> DEFINE Goal == \/ job'[j] = job[j]
                   \/ CanTransition(job[j], job'[j])
                   \/ job[j] = "ABSENT" /\ job'[j] = "DRAFT"
<1>0. job \in [Jobs -> Statuses \cup {"ABSENT"}]
  BY DEF IInv, JobsAreExplained
<1>1. CASE UNCHANGED job
  BY <1>1
<1>2. ASSUME NEW i \in Jobs, NEW to, job' = [job EXCEPT ![i] = to],
             CanTransition(job[i], to) \/ (job[i] = "ABSENT" /\ to = "DRAFT")
      PROVE  Goal
  BY <1>0, <1>2
<1>3. ASSUME NEW i \in Jobs, JobStep(i) PROVE Goal
  <2>1. CASE CreateJob(i)
    BY <1>2, <2>1 DEF CreateJob
  <2>2. ASSUME NEW to \in Statuses, TransitionJob(i, to) PROVE Goal
    BY <1>2, <2>2 DEF TransitionJob, Move
  <2>3. ASSUME NEW p \in Providers, NEW at \in 0..now, AcceptOffer(i, p, at) PROVE Goal
    BY <1>2, <2>3 DEF AcceptOffer, Award, Move
  <2>4. CASE FallbackAssignment(i)
    BY <1>2, <2>4 DEF FallbackAssignment, FallThrough, Move
  <2>5. CASE \/ \E q \in Quotes : CreateQuote(i, q)
             \/ \E ps \in SUBSET Providers : CreateOffers(i, ps)
             \/ \E p \in Providers : DeclineOffer(i, p)
             \/ \E p \in Providers, at \in 0..now : RefuseAccept(i, p, at)
             \/ \E reason \in Reasons : RecordJobEvent(i, reason)
    BY <1>1, <2>5 DEF CreateQuote, CreateOffers, DeclineOffer, RefuseAccept, RecordJobEvent
  <2> QED
    BY <1>3, <2>1, <2>2, <2>3, <2>4, <2>5 DEF JobStep
<1>4. CASE \/ \E q \in Quotes, decision \in QuoteStatuses : DecideQuote(q, decision)
           \/ \E k \in Keys : MarkDelivered(k) \/ MarkFailed(k)
           \/ ExpireOffers \/ RunRetention \/ Tick \/ UNCHANGED vars
  BY <1>1, <1>4 DEF DecideQuote, MarkDelivered, MarkFailed, ExpireOffers, RunRetention, Sweep,
                    Tick, vars
<1> QED
  BY <1>3, <1>4 DEF Next

\* A decision is about a quote that is SENT, so none is taken back.
LEMMA DecisionsAreFinal ==
  ASSUME IInv, [Next]_vars, NEW q \in Quotes, quote[q].status \in {"APPROVED", "REJECTED"}
  PROVE  quote'[q] = quote[q]
<1>0. quote \in [Quotes -> QuoteRow]
  BY DEF IInv, DispatchIsAgreed
<1>1. CASE UNCHANGED quote
  BY <1>1
<1>2. ASSUME NEW j \in Jobs, NEW r \in Quotes, CreateQuote(j, r) PROVE quote'[q] = quote[q]
  BY <1>0, <1>2 DEF CreateQuote, NoQuote
<1>3. ASSUME NEW r \in Quotes, NEW decision \in QuoteStatuses, DecideQuote(r, decision)
      PROVE  quote'[q] = quote[q]
  BY <1>0, <1>3 DEF DecideQuote
<1>4. ASSUME NEW j \in Jobs, JobStep(j), ~\E r \in Quotes : CreateQuote(j, r)
      PROVE  UNCHANGED quote
  BY <1>4 DEF JobStep, CreateJob, TransitionJob, CreateOffers, DeclineOffer, RefuseAccept,
              AcceptOffer, Award, FallbackAssignment, FallThrough, RecordJobEvent, dispatchRows
<1>5. CASE \/ \E k \in Keys : MarkDelivered(k) \/ MarkFailed(k)
           \/ ExpireOffers \/ RunRetention \/ Tick \/ UNCHANGED vars
  BY <1>1, <1>5 DEF MarkDelivered, MarkFailed, ExpireOffers, RunRetention, Sweep, Tick,
                    dispatchRows, vars
<1> QED
  BY <1>1, <1>2, <1>3, <1>4, <1>5 DEF Next

\* An offer that is not open any more is never open again.
LEMMA ClosedOffersStayClosed ==
  ASSUME IInv, [Next]_vars, NEW j \in Jobs, NEW p \in Providers,
         offer[j][p] \notin {"NONE", "PENDING"}
  PROVE  offer'[j][p] \notin {"NONE", "PENDING"}
<1> DEFINE Goal == offer'[j][p] \notin {"NONE", "PENDING"}
<1>0. offer \in [Jobs -> [Providers -> OfferStatuses]]
  BY DEF IInv, DispatchIsAgreed
<1>1. CASE UNCHANGED offer
  BY <1>1
<1>2. ASSUME NEW i \in Jobs, NEW ps \in SUBSET Providers, CreateOffers(i, ps) PROVE Goal
  BY <1>0, <1>2 DEF CreateOffers
<1>3. ASSUME NEW i \in Jobs, NEW r \in Providers, NEW status \in {"EXPIRED", "WITHDRAWN", "DECLINED"},
             offer' = [offer EXCEPT ![i][r] = status]
      PROVE  Goal
  BY <1>0, <1>3
<1>4. ASSUME NEW i \in Jobs, NEW r \in Providers, NEW at \in 0..now, RefuseAccept(i, r, at)
      PROVE  Goal
  BY <1>3, <1>4 DEF RefuseAccept
<1>5. ASSUME NEW i \in Jobs, NEW r \in Providers, DeclineOffer(i, r) PROVE Goal
  BY <1>3, <1>5 DEF DeclineOffer
<1>6. ASSUME NEW i \in Jobs, NEW r \in Providers, NEW at \in 0..now, AcceptOffer(i, r, at)
      PROVE  Goal
  BY <1>0, <1>6 DEF AcceptOffer, Award
<1>7. CASE ExpireOffers
  BY <1>0, <1>7 DEF ExpireOffers
<1>8. ASSUME NEW i \in Jobs, JobStep(i) PROVE Goal
  <2>1. CASE \/ CreateJob(i) \/ FallbackAssignment(i)
             \/ \E to \in Statuses : TransitionJob(i, to)
             \/ \E q \in Quotes : CreateQuote(i, q)
             \/ \E reason \in Reasons : RecordJobEvent(i, reason)
    BY <1>1, <2>1 DEF CreateJob, FallbackAssignment, FallThrough, TransitionJob, CreateQuote,
                      RecordJobEvent, dispatchRows
  <2> QED
    BY <1>2, <1>4, <1>5, <1>6, <1>8, <2>1 DEF JobStep
<1>9. CASE \/ \E q \in Quotes, decision \in QuoteStatuses : DecideQuote(q, decision)
           \/ \E k \in Keys : MarkDelivered(k) \/ MarkFailed(k)
           \/ RunRetention \/ Tick \/ UNCHANGED vars
  BY <1>1, <1>9 DEF DecideQuote, MarkDelivered, MarkFailed, RunRetention, Sweep, Tick,
                    dispatchRows, vars
<1> QED
  BY <1>7, <1>8, <1>9 DEF Next

LEMMA ToldIsFinal ==
  ASSUME IInv, [Next]_vars, NEW k \in Keys, Told(k)
  PROVE  Told(k)'
<1>1. k.job \in Jobs
  BY DEF Keys
<1>2. /\ job[k.job] # "ABSENT" => job'[k.job] # "ABSENT"
      /\ job[k.job] \notin {"ABSENT", "DRAFT"} => job'[k.job] \notin {"ABSENT", "DRAFT"}
      /\ job[k.job] = "COMPLETED" => job'[k.job] = "COMPLETED"
      /\ job[k.job] = "CANCELLED" => job'[k.job] = "CANCELLED"
  BY <1>1, StatusMoves DEF CanTransition, Transitions
<1>3. k.topic = "quote.decided" => quote'[k.id] = quote[k.id]
  BY DecisionsAreFinal DEF Told
<1>4. k.topic \in {"offer.accepted", "offer.declined", "offer.expired"} =>
        offer'[k.job][k.id] \notin {"NONE", "PENDING"}
  BY <1>1, ClosedOffersStayClosed DEF Told
<1> QED
  BY <1>2, <1>3, <1>4 DEF Told

-----------------------------------------------------------------------------
(* The outbox *)

\* The key of an event, whether or not its topic is followed.
EventKeys == [topic : Topics, job : Jobs, id : Occurrences]

LEMMA KeyType ==
  ASSUME NEW type \in DOMAIN TopicByEvent, NEW j \in Jobs, NEW id \in Occurrences
  PROVE  Key(type, j, id) \in EventKeys
BY DEF Key, Discriminator, EventKeys, Topics, Occurrences

\* What a step records has not happened before, unless its topic is one of those
\* whose keys do not tell.
News(keys) == \A k \in keys : (k.topic \in MayBeUnsaid \/ ~Told(k)) /\ Told(k)'

\* recordEvent of news adds a row for each, or finds one of the topics that may.
LEMMA RecordKeepsOutbox ==
  ASSUME IInv, [Next]_vars, NEW keys \in SUBSET EventKeys, Record(keys), News(keys)
  PROVE  OutboxIsSound'
<1> DEFINE published == {k \in keys : k.topic \in Followed}
           fresh == published \ outboxKeys
<1> USE DEF IInv
<1>1. /\ outboxKeys' = outboxKeys \cup fresh
      /\ outbox' = [k \in Keys |-> IF k \in fresh THEN "PENDING" ELSE outbox[k]]
      /\ owed' = owed \cup fresh
      /\ unsaid' = unsaid \cup (published \cap outboxKeys)
  BY DEF Record
<1>2. published \in SUBSET Keys
  BY DEF EventKeys, Keys
<1>3. \A k \in outboxKeys' : Told(k)'
  <2>1. \A k \in outboxKeys : Told(k)'
    BY ToldIsFinal DEF OutboxIsSound
  <2>2. \A k \in fresh : Told(k)'
    BY DEF News
  <2> QED
    BY <1>1, <2>1, <2>2
<1>4. \A k \in published \cap outboxKeys : k.topic \in MayBeUnsaid
  BY DEF News, OutboxIsSound
<1>5. NothingGoesUnsaid'
  BY <1>1, <1>2, <1>4 DEF OutboxIsSound, NothingGoesUnsaid
<1> HIDE DEF published
<1> QED
  BY <1>1, <1>2, <1>3, <1>5 DEF OutboxIsSound, RowStatuses

LEMMA OutboxStep ==
  ASSUME IInv, [Next]_vars
  PROVE  OutboxIsSound'
<1> USE DEF IInv
<1>0. \A k \in outboxKeys : Told(k)'
  BY ToldIsFinal DEF OutboxIsSound
<1>1. ASSUME UNCHANGED <<outboxRows, heardOf>>
      PROVE  OutboxIsSound'
  BY <1>0, <1>1 DEF OutboxIsSound, NothingGoesUnsaid, outboxRows, heardOf
<1>2. ASSUME NEW type \in DOMAIN TopicByEvent, NEW j \in Jobs, NEW id \in Occurrences,
             Record({Key(type, j, id)}), News({Key(type, j, id)})
      PROVE  OutboxIsSound'
  BY <1>2, KeyType, RecordKeepsOutbox
<1>3. None \in Occurrences /\ Providers \cup Quotes \cup Reasons \subseteq Occurrences
  BY DEF Occurrences
<1>4. ASSUME NEW j \in Jobs, JobStep(j)
      PROVE  OutboxIsSound'
  <2>1. CASE CreateJob(j)
    <3>1. "JOB_CREATED" \in DOMAIN TopicByEvent /\ TopicByEvent["JOB_CREATED"] = "job.created"
      BY DEF TopicByEvent
    <3>2. News({Key("JOB_CREATED", j, None)})
      BY <2>1, <3>1 DEF CreateJob, News, Told, Key, JobsAreExplained
    <3> QED
      BY <1>2, <1>3, <2>1, <3>1, <3>2 DEF CreateJob
  <2>2. ASSUME NEW to \in Statuses, TransitionJob(j, to) PROVE OutboxIsSound'
    <3> DEFINE type == EventOf[to]
    <3>1. /\ type \in DOMAIN TopicByEvent
          /\ TopicByEvent[type] =
               CASE to = "TRIAGED" -> "job.triaged" [] to = "QUOTED" -> "job.quoted"
                 [] to = "IN_PROGRESS" -> "job.started" [] to = "COMPLETED" -> "job.completed"
                 [] to = "CANCELLED" -> "job.cancelled"
          /\ to \in {"TRIAGED", "QUOTED", "IN_PROGRESS", "COMPLETED", "CANCELLED"}
      BY <2>2 DEF TransitionJob, EventOf, TopicByEvent
    <3>2. CanTransition(job[j], to) /\ job'[j] = to /\ Record({Key(type, j, None)})
      BY <2>2 DEF TransitionJob, Move, JobsAreExplained
    <3> HIDE DEF type
    <3>3. /\ to = "TRIAGED" => job[j] = "DRAFT"
          /\ job[j] \notin {"COMPLETED", "CANCELLED"}
      BY <3>2 DEF CanTransition, Transitions
    <3>4. News({Key(type, j, None)})
      BY <3>1, <3>2, <3>3 DEF News, Told, Key, MayBeUnsaid
    <3> QED
      BY <1>2, <1>3, <3>1, <3>2, <3>4
  <2>3. ASSUME NEW q \in Quotes, CreateQuote(j, q) PROVE OutboxIsSound'
    BY <1>1, <2>3 DEF CreateQuote
  <2>4. ASSUME NEW ps \in SUBSET Providers, CreateOffers(j, ps) PROVE OutboxIsSound'
    <3>1. "OFFERS_SENT" \in DOMAIN TopicByEvent /\ TopicByEvent["OFFERS_SENT"] = "offers.sent"
      BY DEF TopicByEvent
    <3>2. News({Key("OFFERS_SENT", j, None)})
      BY <3>1 DEF News, Told, Key, MayBeUnsaid
    <3> QED
      BY <1>2, <1>3, <2>4, <3>1, <3>2 DEF CreateOffers
  <2>5. ASSUME NEW p \in Providers, DeclineOffer(j, p) PROVE OutboxIsSound'
    <3>1. /\ "OFFER_DECLINED" \in DOMAIN TopicByEvent
          /\ TopicByEvent["OFFER_DECLINED"] = "offer.declined"
      BY DEF TopicByEvent
    <3>2. News({Key("OFFER_DECLINED", j, p)})
      BY <2>5, <3>1 DEF DeclineOffer, News, Told, Key, Discriminator, DispatchIsAgreed
    <3> QED
      BY <1>2, <1>3, <2>5, <3>1, <3>2 DEF DeclineOffer
  <2>6. ASSUME NEW p \in Providers, NEW at \in 0..now, RefuseAccept(j, p, at)
        PROVE  OutboxIsSound'
    BY <1>1, <2>6 DEF RefuseAccept
  <2>7. ASSUME NEW p \in Providers, NEW at \in 0..now, AcceptOffer(j, p, at)
        PROVE  OutboxIsSound'
    <3>1. /\ "OFFER_ACCEPTED" \in DOMAIN TopicByEvent
          /\ TopicByEvent["OFFER_ACCEPTED"] = "offer.accepted"
      BY DEF TopicByEvent
    <3>2. /\ offer[j][p] = "PENDING" /\ offer'[j][p] = "ACCEPTED"
          /\ Record({Key("OFFER_ACCEPTED", j, p)})
      BY <2>7 DEF AcceptOffer, Award, Move, DispatchIsAgreed
    <3>3. News({Key("OFFER_ACCEPTED", j, p)})
      BY <3>1, <3>2 DEF News, Told, Key, Discriminator
    <3> QED
      BY <1>2, <1>3, <3>1, <3>2, <3>3
  <2>8. CASE FallbackAssignment(j)
    <3>1. /\ "ASSIGNMENT_FELL_THROUGH" \in DOMAIN TopicByEvent
          /\ TopicByEvent["ASSIGNMENT_FELL_THROUGH"] = "assignment.fell_through"
      BY DEF TopicByEvent
    <3>2. News({Key("ASSIGNMENT_FELL_THROUGH", j, None)})
      BY <3>1 DEF News, Told, Key, MayBeUnsaid
    <3> QED
      BY <1>2, <1>3, <2>8, <3>1, <3>2 DEF FallbackAssignment, FallThrough, Move
  <2>9. ASSUME NEW reason \in Reasons, RecordJobEvent(j, reason) PROVE OutboxIsSound'
    <3>1. /\ "DISPATCH_ESCALATED" \in DOMAIN TopicByEvent
          /\ TopicByEvent["DISPATCH_ESCALATED"] = "dispatch.escalated"
      BY DEF TopicByEvent
    <3>2. News({Key("DISPATCH_ESCALATED", j, reason)})
      BY <3>1 DEF News, Told, Key, MayBeUnsaid
    <3> QED
      BY <1>2, <1>3, <2>9, <3>1, <3>2 DEF RecordJobEvent
  <2> QED
    BY <1>4, <2>1, <2>2, <2>3, <2>4, <2>5, <2>6, <2>7, <2>8, <2>9 DEF JobStep
<1>5. ASSUME NEW q \in Quotes, NEW decision \in QuoteStatuses, DecideQuote(q, decision)
      PROVE  OutboxIsSound'
  <2>1. CASE UNCHANGED <<outboxRows, heardOf>>
    BY <1>1, <1>5, <2>1 DEF DecideQuote
  <2>2. CASE ~UNCHANGED <<outboxRows, heardOf>>
    <3> DEFINE type == IF decision = "APPROVED" THEN "QUOTE_APPROVED" ELSE "QUOTE_REJECTED"
    <3>1. /\ type \in DOMAIN TopicByEvent /\ TopicByEvent[type] = "quote.decided"
          /\ Discriminator(type, q) = q
      BY DEF TopicByEvent, Discriminator
    <3>2. /\ quote[q].status = "SENT" /\ decision \in {"APPROVED", "REJECTED"}
          /\ quote' = [quote EXCEPT ![q].status = decision]
          /\ Record({Key(type, quote[q].job, q)})
      BY <1>5, <2>2 DEF DecideQuote
    <3>3. quote[q].job \in Jobs /\ quote'[q].status = decision
      BY <3>2 DEF DispatchIsAgreed, QuoteRow
    <3> HIDE DEF type
    <3>4. News({Key(type, quote[q].job, q)})
      BY <3>1, <3>2, <3>3 DEF News, Told, Key
    <3> QED
      BY <1>2, <1>3, <3>1, <3>2, <3>3, <3>4
  <2> QED
    BY <2>1, <2>2
<1>6. CASE ExpireOffers
  <2> DEFINE keys == {Key("OFFER_EXPIRED", jp[1], jp[2]) : jp \in Lapsed}
  <2>1. /\ "OFFER_EXPIRED" \in DOMAIN TopicByEvent
        /\ TopicByEvent["OFFER_EXPIRED"] = "offer.expired"
    BY DEF TopicByEvent
  <2>2. keys \in SUBSET EventKeys
    BY <1>3, <2>1, KeyType DEF Lapsed
  <2>3. ASSUME NEW jp \in Lapsed
        PROVE  News({Key("OFFER_EXPIRED", jp[1], jp[2])})
    <3>1. /\ jp[1] \in Jobs /\ jp[2] \in Providers /\ jp = <<jp[1], jp[2]>>
          /\ offer[jp[1]][jp[2]] = "PENDING"
      BY DEF Lapsed
    <3>2. offer'[jp[1]][jp[2]] = "EXPIRED"
      BY <1>6, <3>1 DEF ExpireOffers
    <3> QED
      BY <2>1, <3>1, <3>2 DEF News, Told, Key, Discriminator
  <2>4. News(keys)
    BY <2>3 DEF News
  <2> QED
    BY <1>6, <2>2, <2>4, RecordKeepsOutbox DEF ExpireOffers
<1>7. ASSUME NEW k \in Keys, MarkDelivered(k) \/ MarkFailed(k)
      PROVE  OutboxIsSound'
  BY <1>0, <1>7 DEF MarkDelivered, MarkFailed, Undelivered, OutboxIsSound, NothingGoesUnsaid,
                    RowStatuses, heardOf
<1>8. CASE RunRetention
  <2>1. PICK rows \in SUBSET {k \in outboxKeys : outbox[k] = "SENT"} : Sweep(rows)
    BY <1>8 DEF RunRetention
  <2> QED
    BY <1>0, <2>1 DEF Sweep, OutboxIsSound, NothingGoesUnsaid, RowStatuses, heardOf
<1>9. CASE Tick \/ UNCHANGED vars
  BY <1>1, <1>9 DEF Tick, vars
<1> QED
  BY <1>4, <1>5, <1>6, <1>7, <1>8, <1>9 DEF Next

-----------------------------------------------------------------------------
(* The timelines *)

\* A legal move, written down with both ends, extends the timeline of its job.
LEMMA MoveKeepsJobs ==
  ASSUME JobsAreExplained, NEW j \in Jobs, NEW to, NEW keys,
         CanTransition(job[j], to), Move(j, job[j], to, keys)
  PROVE  JobsAreExplained'
<1>1. /\ job' = [job EXCEPT ![j] = to]
      /\ history' = [history EXCEPT ![j] = Append(@, <<job[j], to>>)]
      /\ <<job[j], to>> \in Transitions
  BY DEF Move, CanTransition
<1>2. Transitions \subseteq Statuses \X Statuses
  BY DEF Transitions, Statuses
<1> DEFINE trail == history[j]
           longer == Append(trail, <<job[j], to>>)
<1>3. trail \in Seq(Statuses \X Statuses) /\ longer \in Seq(Statuses \X Statuses)
  BY <1>1, <1>2 DEF JobsAreExplained
<1>4. Explains(longer, to)
  <2>1. Explains(trail, job[j])
    BY DEF JobsAreExplained, HistoryExplainsStatus
  <2>2. /\ Len(longer) = Len(trail) + 1
        /\ longer[Len(longer)] = <<job[j], to>>
        /\ \A i \in 1..Len(trail) : longer[i] = trail[i]
        /\ longer # <<>>
    BY <1>3
  <2>3. Len(trail) \in Nat
    BY <1>3
  <2>4. CASE trail = <<>>
    <3>1. job[j] = "DRAFT"
      BY <1>1, <2>1, <2>4 DEF Explains, Transitions
    <3>2. Len(longer) = 1
      BY <2>2, <2>4
    <3> HIDE DEF longer
    <3>3. longer[1] = <<"DRAFT", to>>
      BY <2>2, <3>1, <3>2
    <3>4. longer[1][1] = "DRAFT" /\ longer[1][2] = to /\ longer[1] \in Transitions
      BY <1>1, <3>1, <3>3
    <3>5. 1..Len(longer) = {1} /\ 1..(Len(longer) - 1) = {}
      BY <3>2
    <3> QED
      BY <2>2, <3>2, <3>4, <3>5 DEF Explains
  <2>5. CASE trail # <<>>
    <3>1. Len(trail) >= 1
      BY <1>3, <2>5
    <3>2. /\ trail[1][1] = "DRAFT"
          /\ trail[Len(trail)][2] = job[j]
          /\ \A i \in 1..Len(trail) : trail[i] \in Transitions
          /\ \A i \in 1..(Len(trail) - 1) : trail[i][2] = trail[i + 1][1]
      BY <2>1, <2>5 DEF Explains
    <3> HIDE DEF longer, trail
    <3>3. longer[1] = trail[1] /\ longer[Len(longer)][2] = to
      BY <2>2, <2>3, <3>1
    <3>4. ASSUME NEW i \in 1..Len(longer) PROVE longer[i] \in Transitions
      BY <1>1, <2>2, <2>3, <3>1, <3>2, SMTT(30)
    <3>5. ASSUME NEW i \in 1..(Len(longer) - 1) PROVE longer[i][2] = longer[i + 1][1]
      <4>1. CASE i = Len(trail)
        BY <2>2, <2>3, <3>1, <3>2, <4>1
      <4>2. CASE i # Len(trail)
        <5>1. i \in 1..(Len(trail) - 1) /\ i + 1 \in 1..Len(trail)
          BY <2>2, <2>3, <3>1, <4>2
        <5> QED
          BY <2>2, <3>2, <5>1
      <4> QED
        BY <4>1, <4>2
    <3> QED
      BY <2>2, <3>2, <3>3, <3>4, <3>5 DEF Explains
  <2> QED
    BY <2>4, <2>5
<1>5. job' \in [Jobs -> Statuses \cup {"ABSENT"}]
  BY <1>1, <1>2 DEF JobsAreExplained
<1>6. history' = [history EXCEPT ![j] = longer]
  BY <1>1
<1> HIDE DEF longer
<1>7. history' \in [Jobs -> Seq(Statuses \X Statuses)]
  BY <1>3, <1>6 DEF JobsAreExplained
<1>8. \A i \in Jobs : Explains(history'[i], job'[i])
  BY <1>1, <1>4, <1>6 DEF JobsAreExplained, HistoryExplainsStatus
<1> QED
  BY <1>5, <1>7, <1>8 DEF JobsAreExplained, HistoryExplainsStatus

LEMMA JobsStep ==
  ASSUME IInv, [Next]_vars
  PROVE  JobsAreExplained'
<1> USE DEF IInv
<1>1. ASSUME UNCHANGED <<job, history>>
      PROVE  JobsAreExplained'
  BY <1>1 DEF JobsAreExplained, HistoryExplainsStatus
<1>2. ASSUME NEW j \in Jobs, JobStep(j)
      PROVE  JobsAreExplained'
  <2>1. CASE CreateJob(j)
    <3>1. job[j] = "ABSENT" /\ job' = [job EXCEPT ![j] = "DRAFT"] /\ history' = history
      BY <2>1 DEF CreateJob
    <3>2. history[j] = <<>>
      <4>1. Explains(history[j], "ABSENT")
        BY <3>1 DEF JobsAreExplained, HistoryExplainsStatus
      <4>2. \A i \in 1..Len(history[j]) : history[j][i][2] # "ABSENT"
        BY <4>1 DEF Explains, Transitions
      <4>3. history[j] \in Seq(Statuses \X Statuses)
        BY DEF JobsAreExplained
      <4> QED
        BY <4>1, <4>2, <4>3 DEF Explains
    <3>3. Explains(history[j], "DRAFT")
      BY <3>2 DEF Explains
    <3> QED
      BY <3>1, <3>3 DEF JobsAreExplained, HistoryExplainsStatus, Statuses
  <2>2. ASSUME NEW to \in Statuses, TransitionJob(j, to) PROVE JobsAreExplained'
    BY <2>2, MoveKeepsJobs DEF TransitionJob
  <2>3. ASSUME NEW p \in Providers, NEW at \in 0..now, AcceptOffer(j, p, at)
        PROVE  JobsAreExplained'
    BY <2>3, MoveKeepsJobs DEF AcceptOffer, Award
  <2>4. CASE FallbackAssignment(j)
    BY <2>4, MoveKeepsJobs DEF FallbackAssignment, FallThrough
  <2>5. ASSUME \/ \E q \in Quotes : CreateQuote(j, q)
               \/ \E ps \in SUBSET Providers : CreateOffers(j, ps)
               \/ \E p \in Providers : DeclineOffer(j, p)
               \/ \E p \in Providers, at \in 0..now : RefuseAccept(j, p, at)
               \/ \E reason \in Reasons : RecordJobEvent(j, reason)
        PROVE  JobsAreExplained'
    BY <1>1, <2>5 DEF CreateQuote, CreateOffers, DeclineOffer, RefuseAccept, RecordJobEvent
  <2> QED
    BY <1>2, <2>1, <2>2, <2>3, <2>4, <2>5 DEF JobStep
<1>3. ASSUME NEW q \in Quotes, NEW decision \in QuoteStatuses, DecideQuote(q, decision)
      PROVE  JobsAreExplained'
  BY <1>1, <1>3 DEF DecideQuote
<1>4. ASSUME NEW k \in Keys, MarkDelivered(k) \/ MarkFailed(k)
      PROVE  JobsAreExplained'
  BY <1>1, <1>4 DEF MarkDelivered, MarkFailed
<1>5. CASE ExpireOffers \/ RunRetention \/ Tick \/ UNCHANGED vars
  BY <1>1, <1>5 DEF ExpireOffers, RunRetention, Sweep, Tick, vars
<1> QED
  BY <1>2, <1>3, <1>4, <1>5 DEF Next

-----------------------------------------------------------------------------
(* Quotes, offers and assignments *)

\* What is approved stays approved, so an offer made stays one at a price.
LEMMA DispatchStep ==
  ASSUME IInv, [Next]_vars
  PROVE  DispatchIsAgreed'
<1> USE MemoryStoreAssumption DEF IInv
<1>1. ASSUME UNCHANGED <<dispatchRows, now>>
      PROVE  DispatchIsAgreed'
  BY <1>1 DEF dispatchRows, DispatchIsAgreed, Approved
<1>2. ASSUME UNCHANGED <<quote, now>>,
             assignment' \in [Jobs -> [Providers -> AssignStatuses]],
             offer' \in [Jobs -> [Providers -> OfferStatuses]],
             expiresAt' \in [Jobs -> [Providers -> Nat]],
             \A j \in Jobs, p \in Providers :
               offer'[j][p] # "NONE" => offer[j][p] # "NONE" \/ Approved(j)
      PROVE  DispatchIsAgreed'
  BY <1>2, ZenonT(60) DEF DispatchIsAgreed, Approved
<1>3. ASSUME NEW j \in Jobs, JobStep(j)
      PROVE  DispatchIsAgreed'
  <2>1. CASE \/ CreateJob(j)
             \/ \E to \in Statuses : TransitionJob(j, to)
             \/ \E reason \in Reasons : RecordJobEvent(j, reason)
    BY <1>1, <2>1 DEF CreateJob, TransitionJob, RecordJobEvent
  <2>2. ASSUME NEW q \in Quotes, CreateQuote(j, q) PROVE DispatchIsAgreed'
    <3>1. \A i \in Jobs : Approved(i) => Approved(i)'
      BY <2>2 DEF CreateQuote, Approved, NoQuote, DispatchIsAgreed
    <3>2. /\ quote' \in [Quotes -> QuoteRow]
          /\ \A r \in Quotes : quote'[r].status = "SENT" => quote'[r].job \in Jobs
      BY <2>2 DEF CreateQuote, QuoteRow, QuoteStatuses, DispatchIsAgreed
    <3> QED
      BY <2>2, <3>1, <3>2 DEF CreateQuote, DispatchIsAgreed
  <2>3. ASSUME NEW ps \in SUBSET Providers, CreateOffers(j, ps) PROVE DispatchIsAgreed'
    <3>1. /\ offer' \in [Jobs -> [Providers -> OfferStatuses]]
          /\ expiresAt' \in [Jobs -> [Providers -> Nat]]
      BY <2>3 DEF CreateOffers, DispatchIsAgreed, OfferStatuses
    <3>2. \A i \in Jobs, p \in Providers :
            offer'[i][p] # "NONE" => offer[i][p] # "NONE" \/ Approved(i)
      BY <2>3 DEF CreateOffers, DispatchIsAgreed
    <3>3. UNCHANGED <<quote, assignment, now>>
      BY <2>3 DEF CreateOffers
    <3> QED
      BY <1>2, <3>1, <3>2, <3>3 DEF DispatchIsAgreed
  <2>4. ASSUME NEW p \in Providers, DeclineOffer(j, p) PROVE DispatchIsAgreed'
    BY <1>2, <2>4 DEF DeclineOffer, DispatchIsAgreed, OfferStatuses
  <2>5. ASSUME NEW p \in Providers, NEW at \in 0..now, RefuseAccept(j, p, at)
        PROVE  DispatchIsAgreed'
    <3>1. PICK status \in {"EXPIRED", "WITHDRAWN"} : offer' = [offer EXCEPT ![j][p] = status]
      BY <2>5, Zenon DEF RefuseAccept
    <3>2. offer[j][p] # "NONE" /\ UNCHANGED <<quote, expiresAt, assignment, now>>
      BY <2>5, Zenon DEF RefuseAccept
    <3>3. offer' \in [Jobs -> [Providers -> OfferStatuses]]
      BY <3>1 DEF DispatchIsAgreed, OfferStatuses
    <3>4. \A i \in Jobs, r \in Providers : offer'[i][r] # "NONE" => offer[i][r] # "NONE"
      BY <3>1, <3>2 DEF DispatchIsAgreed
    <3> QED
      BY <1>2, <3>2, <3>3, <3>4 DEF DispatchIsAgreed
  <2>6. ASSUME NEW p \in Providers, NEW at \in 0..now, AcceptOffer(j, p, at)
        PROVE  DispatchIsAgreed'
    <3> USE <2>6 DEF AcceptOffer, Award
    <3>1. offer' \in [Jobs -> [Providers -> OfferStatuses]]
      BY DEF DispatchIsAgreed, OfferStatuses
    <3>2. \A i \in Jobs, r \in Providers : offer'[i][r] # "NONE" => offer[i][r] # "NONE"
      BY DEF DispatchIsAgreed
    <3>3. assignment' \in [Jobs -> [Providers -> AssignStatuses]]
      BY DEF DispatchIsAgreed, AssignStatuses
    <3>4. UNCHANGED <<quote, expiresAt, now>>
      OBVIOUS
    <3> QED
      BY <1>2, <3>1, <3>2, <3>3, <3>4 DEF DispatchIsAgreed
  <2>7. CASE FallbackAssignment(j)
    <3>1. assignment' \in [Jobs -> [Providers -> AssignStatuses]]
      BY <2>7 DEF FallbackAssignment, FallThrough, Active, DispatchIsAgreed, AssignStatuses
    <3>2. UNCHANGED <<quote, offer, expiresAt, now>>
      BY <2>7 DEF FallbackAssignment, FallThrough
    <3> QED
      BY <1>2, <3>1, <3>2 DEF DispatchIsAgreed
  <2> QED
    BY <1>3, <2>1, <2>2, <2>3, <2>4, <2>5, <2>6, <2>7 DEF JobStep
<1>4. ASSUME NEW q \in Quotes, NEW decision \in QuoteStatuses, DecideQuote(q, decision)
      PROVE  DispatchIsAgreed'
  <2>1. \A i \in Jobs : Approved(i) => Approved(i)'
    BY <1>4 DEF DecideQuote, Approved, DispatchIsAgreed
  <2>2. PICK status \in QuoteStatuses \ {"SENT"} : quote' = [quote EXCEPT ![q].status = status]
    BY <1>4 DEF DecideQuote, QuoteStatuses
  <2> DEFINE decided == [quote[q] EXCEPT !.status = status]
  <2>3. quote \in [Quotes -> QuoteRow] /\ quote' = [quote EXCEPT ![q] = decided]
    BY <2>2 DEF DispatchIsAgreed
  <2>4. decided \in QuoteRow /\ decided.status # "SENT"
    <3>1. quote[q] \in QuoteRow
      BY <2>3
    <3> QED
      BY <3>1 DEF QuoteRow
  <2> HIDE DEF decided
  <2>5. quote' \in [Quotes -> QuoteRow]
    BY <2>3, <2>4
  <2>6. \A r \in Quotes : quote'[r].status = "SENT" => quote'[r].job \in Jobs
    <3>1. \A r \in Quotes : quote[r].status = "SENT" => quote[r].job \in Jobs
      BY DEF DispatchIsAgreed
    <3> QED
      BY <2>3, <2>4, <3>1
  <2> QED
    BY <1>4, <2>1, <2>5, <2>6 DEF DecideQuote, DispatchIsAgreed
<1>5. CASE ExpireOffers
  <2>1. offer' \in [Jobs -> [Providers -> OfferStatuses]]
    BY <1>5 DEF ExpireOffers, DispatchIsAgreed, OfferStatuses
  <2>2. \A j \in Jobs, p \in Providers : offer'[j][p] # "NONE" => offer[j][p] # "NONE"
    BY <1>5 DEF ExpireOffers, Lapsed
  <2>3. UNCHANGED <<quote, expiresAt, assignment, now>>
    BY <1>5 DEF ExpireOffers
  <2> QED
    BY <1>2, <2>1, <2>2, <2>3 DEF DispatchIsAgreed
<1>6. ASSUME NEW k \in Keys, MarkDelivered(k) \/ MarkFailed(k)
      PROVE  DispatchIsAgreed'
  BY <1>1, <1>6 DEF MarkDelivered, MarkFailed
<1>7. CASE RunRetention \/ UNCHANGED vars
  BY <1>1, <1>7 DEF RunRetention, Sweep, vars
<1>8. CASE Tick
  BY <1>8 DEF Tick, dispatchRows, DispatchIsAgreed, Approved
<1> QED
  BY <1>3, <1>4, <1>5, <1>6, <1>7, <1>8 DEF Next

-----------------------------------------------------------------------------
(* The theorems *)

THEOREM InductiveInvariant == Spec => []IInv
<1>1. IInv /\ [Next]_vars => IInv'
  BY OutboxStep, JobsStep, DispatchStep DEF IInv
<1> QED
  BY InitHolds, <1>1, PTL DEF Spec

\* Every variable of the store keeps its type, and the index of the outbox holds
\* the keys of its rows and no other.
THEOREM TypeCorrect == Spec => []TypeOK
<1>1. IInv => TypeOK
  BY DEF IInv, JobsAreExplained, OutboxIsSound, DispatchIsAgreed, TypeOK
<1> QED
  BY InductiveInvariant, <1>1, PTL

\* The timeline of a job leads without a gap from DRAFT to the status it has.
THEOREM TimelinesExplain == Spec => []HistoryExplainsStatus
<1>1. IInv => HistoryExplainsStatus
  BY DEF IInv, JobsAreExplained
<1> QED
  BY InductiveInvariant, <1>1, PTL

\* Every published event that its key tells from the others gets a message of its
\* own, and no message leaves the outbox before it was delivered.
THEOREM EventsAreHeard == Spec => []NothingGoesUnsaid
<1>1. IInv => NothingGoesUnsaid
  BY DEF IInv, OutboxIsSound
<1> QED
  BY InductiveInvariant, <1>1, PTL

\* No operation takes from a provider the sight of a job it once held.
THEOREM SightIsNeverLost == Spec => SightIsKept
<1>1. ASSUME IInv, [Next]_vars, NEW j \in Jobs, NEW p \in Providers,
             assignment[j][p] # "NONE"
      PROVE  assignment'[j][p] # "NONE"
  <2>1. CASE UNCHANGED assignment
    BY <1>1, <2>1
  <2>2. ASSUME NEW i \in Jobs, NEW r \in Providers, NEW at \in 0..now, AcceptOffer(i, r, at)
        PROVE  assignment'[j][p] # "NONE"
    BY <1>1, <2>2 DEF AcceptOffer, Award, IInv, DispatchIsAgreed
  <2>3. ASSUME NEW i \in Jobs, FallbackAssignment(i)
        PROVE  assignment'[j][p] # "NONE"
    BY <1>1, <2>3 DEF FallbackAssignment, FallThrough, IInv, DispatchIsAgreed
  <2>4. ASSUME NEW i \in Jobs, JobStep(i), ~FallbackAssignment(i),
               ~\E r \in Providers, at \in 0..now : AcceptOffer(i, r, at)
        PROVE  UNCHANGED assignment
    BY <2>4 DEF JobStep, CreateJob, TransitionJob, CreateQuote, CreateOffers, DeclineOffer,
                RefuseAccept, RecordJobEvent, dispatchRows
  <2>5. ASSUME ~\E i \in Jobs : JobStep(i)
        PROVE  UNCHANGED assignment
    BY <1>1, <2>5 DEF Next, DecideQuote, ExpireOffers, MarkDelivered, MarkFailed,
                      RunRetention, Sweep, Tick, dispatchRows, vars
  <2> QED
    BY <2>1, <2>2, <2>3, <2>4, <2>5
<1>2. \A j \in Jobs, p \in Providers : Visible(j, p) <=> assignment[j][p] # "NONE"
  BY DEF Visible, Tenants!InScope, Tenants!ProviderScope
<1>3. IInv /\ [Next]_vars => \A j \in Jobs, p \in Providers : Visible(j, p) => Visible(j, p)'
  <2>1. \A j \in Jobs, p \in Providers : Visible(j, p)' <=> assignment'[j][p] # "NONE"
    BY DEF Visible, Tenants!InScope, Tenants!ProviderScope
  <2> QED
    BY <1>1, <1>2, <2>1
<1> QED
  BY InductiveInvariant, <1>3, PTL DEF Spec, SightIsKept

-----------------------------------------------------------------------------
(* The store keeps the promise of Brokerage *)

LEMMA PromiseInit == Init => Promise!Init
BY DEF Init, Promise!Init, AgreedMap, ClaimsMap, Approved, Active, NoQuote

\* A move that leaves quotes and assignments alone is a move of the promise.
LEMMA PromiseMove ==
  ASSUME IInv, NEW j \in Jobs, NEW to \in Statuses \ {"ASSIGNED"},
         CanTransition(job[j], to), job' = [job EXCEPT ![j] = to],
         UNCHANGED <<quote, assignment>>
  PROVE  Promise!Next
<1>1. AgreedMap' = AgreedMap /\ ClaimsMap' = ClaimsMap
  BY DEF AgreedMap, ClaimsMap, Approved, Active
<1>2. Promise!Move(j, to)
  BY <1>1 DEF Promise!Move, Promise!CanTransition, Promise!Transitions, CanTransition,
              Transitions
<1> QED
  BY <1>2 DEF Promise!Next, Promise!Statuses, Statuses

LEMMA PromiseStep ==
  ASSUME IInv, [Next]_vars
  PROVE  [Promise!Next]_(Promise!vars)
<1> USE DEF Promise!CanTransition, Promise!Transitions, CanTransition, Transitions
<1>1. ASSUME UNCHANGED <<job, quote, assignment>>
      PROVE  [Promise!Next]_(Promise!vars)
  BY <1>1 DEF Promise!vars, AgreedMap, ClaimsMap, Approved, Active
<1>2. ASSUME NEW j \in Jobs, CreateJob(j)
      PROVE  Promise!Next
  <2>1. AgreedMap' = AgreedMap /\ ClaimsMap' = ClaimsMap
    BY <1>2 DEF CreateJob, dispatchRows, AgreedMap, ClaimsMap, Approved, Active
  <2>2. Promise!Create(j)
    BY <1>2, <2>1 DEF CreateJob, Promise!Create
  <2> QED
    BY <2>2 DEF Promise!Next
<1>3. ASSUME NEW j \in Jobs, NEW to \in Statuses, TransitionJob(j, to)
      PROVE  Promise!Next
  <2>1. to # "ASSIGNED"
    BY <1>3 DEF TransitionJob, EventOf
  <2> QED
    BY <1>3, <2>1, PromiseMove DEF TransitionJob, Move, dispatchRows
<1>4. ASSUME NEW j \in Jobs, NEW q \in Quotes, CreateQuote(j, q)
      PROVE  UNCHANGED Promise!vars
  <2>1. \A i \in Jobs : Approved(i) <=> Approved(i)'
    BY <1>4 DEF CreateQuote, Approved, NoQuote, IInv, DispatchIsAgreed
  <2>2. ClaimsMap' = ClaimsMap
    BY <1>4 DEF CreateQuote, ClaimsMap, Active
  <2> QED
    BY <1>4, <2>1, <2>2 DEF CreateQuote, Promise!vars, AgreedMap
<1>5. ASSUME NEW q \in Quotes, NEW decision \in QuoteStatuses, DecideQuote(q, decision)
      PROVE  [Promise!Next]_(Promise!vars)
  <2>1. PICK status \in QuoteStatuses : quote' = [quote EXCEPT ![q].status = status]
    BY <1>5 DEF DecideQuote, QuoteStatuses
  <2>2. \A i \in Jobs : Approved(i)' <=>
          Approved(i) \/ (status = "APPROVED" /\ i = quote[q].job)
    BY <1>5, <2>1 DEF DecideQuote, Approved, IInv, DispatchIsAgreed, QuoteRow
  <2>3. ClaimsMap' = ClaimsMap /\ job' = job
    BY <1>5 DEF DecideQuote, ClaimsMap, Active
  <2>4. CASE status # "APPROVED" \/ quote[q].job \notin Jobs
    BY <2>2, <2>3, <2>4 DEF Promise!vars, AgreedMap
  <2>5. CASE status = "APPROVED" /\ quote[q].job \in Jobs
    <3>1. AgreedMap' = AgreedMap \cup {quote[q].job}
      BY <2>2, <2>5 DEF AgreedMap
    <3> QED
      BY <2>3, <2>5, <3>1 DEF Promise!Next, Promise!Agree
  <2> QED
    BY <2>4, <2>5
<1>6. ASSUME NEW j \in Jobs, NEW p \in Providers, NEW at \in 0..now, AcceptOffer(j, p, at)
      PROVE  Promise!Next
  <2>1. AgreedMap' = AgreedMap /\ j \in AgreedMap
    BY <1>6 DEF AcceptOffer, Award, AgreedMap, Approved, IInv, DispatchIsAgreed
  <2>2. ClaimsMap[j] = {} /\ ClaimsMap' = [ClaimsMap EXCEPT ![j] = {p}]
    <3>1. Active(j) = {} /\ assignment' = [assignment EXCEPT ![j][p] = "ACTIVE"]
      BY <1>6, Zenon DEF AcceptOffer, Award
    <3> QED
      BY <3>1 DEF ClaimsMap, Active, IInv, DispatchIsAgreed
  <2>3. Promise!Award(j, p)
    BY <1>6, <2>1, <2>2 DEF AcceptOffer, Award, Move, Promise!Award
  <2> QED
    BY <2>3 DEF Promise!Next
<1>7. ASSUME NEW j \in Jobs, FallbackAssignment(j)
      PROVE  Promise!Next
  <2>1. PICK p \in Active(j) :
          /\ CanTransition(job[j], "QUOTED")
          /\ assignment' = [assignment EXCEPT ![j][p] = "FELL_THROUGH"]
          /\ job' = [job EXCEPT ![j] = "QUOTED"]
          /\ quote' = quote
    BY <1>7 DEF FallbackAssignment, FallThrough, Move
  <2>2. AgreedMap' = AgreedMap
    BY <2>1 DEF AgreedMap, Approved
  <2>3. p \in ClaimsMap[j] /\ ClaimsMap' = [ClaimsMap EXCEPT ![j] = @ \ {p}]
    BY <2>1 DEF ClaimsMap, Active, IInv, DispatchIsAgreed
  <2>4. Promise!FallThrough(j, p)
    BY <2>1, <2>2, <2>3 DEF Promise!FallThrough
  <2> QED
    BY <2>1, <2>4 DEF Promise!Next, Active
<1>8. ASSUME NEW j \in Jobs,
             \/ \E ps \in SUBSET Providers : CreateOffers(j, ps)
             \/ \E p \in Providers : DeclineOffer(j, p)
             \/ \E p \in Providers, at \in 0..now : RefuseAccept(j, p, at)
             \/ \E reason \in Reasons : RecordJobEvent(j, reason)
      PROVE  UNCHANGED <<job, quote, assignment>>
  BY <1>8 DEF CreateOffers, DeclineOffer, RefuseAccept, RecordJobEvent, dispatchRows
<1>9. ASSUME \/ \E k \in Keys : MarkDelivered(k) \/ MarkFailed(k)
             \/ ExpireOffers \/ RunRetention \/ Tick \/ UNCHANGED vars
      PROVE  UNCHANGED <<job, quote, assignment>>
  BY <1>9 DEF MarkDelivered, MarkFailed, ExpireOffers, RunRetention, Sweep, Tick,
              dispatchRows, vars
<1> QED
  BY <1>1, <1>2, <1>3, <1>4, <1>5, <1>6, <1>7, <1>8, <1>9 DEF Next, JobStep

\* Whatever is called in whatever order, the store awards a job to one provider
\* at a time, only at an approved price, and moves it along the status table.
THEOREM MemoryStoreImplementsBrokerage == Spec => KeepsPromise
<1>1. IInv /\ [Next]_vars => [Promise!Next]_(Promise!vars)
  BY PromiseStep
<1> QED
  BY <1>1, PromiseInit, InductiveInvariant, PTL DEF Spec, KeepsPromise, Promise!Spec
\* In memory, where no index keeps it so, work is done by the one provider that
\* holds the job, at a price the customer approved: it follows from the promise.
THEOREM WorkIsHeldByOne == Spec => []Promise!WorkHasOneHolder
BY MemoryStoreImplementsBrokerage, Promise!WorkIsHeldByOne, PTL DEF KeepsPromise

\* No order of calls takes a job from its provider but the fallback that reopens
\* it, nor from the provider of a job that is over.
THEOREM OnlyFallbackEndsClaims == Spec => Promise!ClaimsEndByFallback
BY MemoryStoreImplementsBrokerage, Promise!OnlyFallbackEndsClaims, PTL DEF KeepsPromise
=============================================================================
