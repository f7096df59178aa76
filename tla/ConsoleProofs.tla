---------------------------- MODULE ConsoleProofs ----------------------------
(***************************************************************************)
(* Theorems about Console for any number of open pages and of quotes:      *)
(* pages that are out of date do nothing new, and a job that waits for its *)
(* first price, or has one and somebody to ask, is in somebody's hands.    *)
(***************************************************************************)
EXTENDS Console, SequenceTheorems, TLAPS

-----------------------------------------------------------------------------
(* The inductive invariant *)

Open(i) == quotes[i] \in {"SENT", "LAPSED"}

TypeOK ==
  /\ job \in Statuses \cup {"ABSENT"}
  /\ quotes \in Seq(QuoteStatuses)
  /\ offer \in [Providers -> OfferStatuses]
  /\ assignment \in [Providers -> AssignStatuses]
  /\ proof \in BOOLEAN
  /\ quoting \in SUBSET Users
  /\ DOMAIN page = Users

\* The forms that the pages of a user may have at all.
FormsOf(u) ==
  IF u \in Customers THEN {NewRequestForm} \cup {QuoteDecision(i) : i \in Nat \ {0}}
  ELSE IF u \in Dispatchers
       THEN {ApproveTriageForm, CreateQuoteForm, CreateOffersForm, FallbackForm}
       ELSE {Form("ACCEPT"), Form("DECLINE"), StartJobForm, CompleteJobForm, EvidenceUploadForm}

\* A decision on a page is about a quote that no open one precedes: a quote that
\* was decided is never open again, and new ones come last.
DecisionsAreFirst ==
  \A u \in Users : \A f \in page[u] :
    f.kind = "DECIDE_QUOTE" => /\ f.quote \in DOMAIN quotes
                               /\ \A k \in 1..(f.quote - 1) : ~Open(k)

\* What the rows of the job owe to its status.
RowsFitTheJob ==
  /\ quoting # {} \/ quotes # <<>> => job \notin {"ABSENT", "DRAFT"}
  /\ job \in {"QUOTED"} \cup Held \/ Active # {} \/ (\E p \in Providers : offer[p] # "NONE")
       => quotes # <<>>
  /\ job \in Held => Active # {}
  /\ Active # {} => job \in {"QUOTED", "CANCELLED"} \cup Held

PagesAreInOrder ==
  /\ \A u \in Users : page[u] \subseteq FormsOf(u)
  /\ DecisionsAreFirst

IInv == TypeOK /\ RowsFitTheJob /\ PagesAreInOrder

LEMMA InitHolds == Init => IInv
<1> SUFFICES ASSUME Init PROVE IInv
  OBVIOUS
<1>1. Active = {}
  BY DEF Init, Active
<1>2. TypeOK
  <2>1. <<>> \in Seq(QuoteStatuses)
    OBVIOUS
  <2> QED
    BY <2>1, Zenon DEF Init, TypeOK, OfferStatuses, AssignStatuses, Users
<1>3. RowsFitTheJob
  BY <1>1 DEF Init, RowsFitTheJob, Held
<1>4. PagesAreInOrder
  BY DEF Init, PagesAreInOrder, DecisionsAreFirst
<1> QED
  BY <1>2, <1>3, <1>4 DEF IInv

-----------------------------------------------------------------------------
(* Pages *)

\* Quotes are only added, and one that was decided is not open again.
QuotesAge ==
  /\ DOMAIN quotes \subseteq DOMAIN quotes'
  /\ \A i \in DOMAIN quotes : Open(i)' => Open(i)

LEMMA FormsAreTold ==
  /\ \A i : QuoteDecision(i).quote = i /\ QuoteDecision(i).kind = "DECIDE_QUOTE"
  /\ \A u \in Users : \A f \in FormsOf(u) : f.kind = "DECIDE_QUOTE" =>
       u \in Customers /\ \E i \in Nat \ {0} : f = QuoteDecision(i)
BY DEF FormsOf, Form, NewRequestForm, ApproveTriageForm, CreateQuoteForm,
       CreateOffersForm, FallbackForm, StartJobForm, CompleteJobForm, EvidenceUploadForm,
       QuoteDecision

LEMMA PageIsItsUsers ==
  ASSUME TypeOK, NEW u \in Users
  PROVE  Page(u) \subseteq FormsOf(u)
<1>1. DOMAIN quotes \subseteq Nat \ {0}
  BY DEF TypeOK
<1>2. CustomerJobPage \subseteq {QuoteDecision(i) : i \in Nat \ {0}}
  BY <1>1, Zenon DEF CustomerJobPage
<1>3. DispatchPage \subseteq {ApproveTriageForm, CreateQuoteForm, CreateOffersForm, FallbackForm}
  BY DEF DispatchPage
<1>4. ProviderInboxPage(u) \subseteq {Form("ACCEPT"), Form("DECLINE")}
  BY DEF ProviderInboxPage, OfferResponse
<1>5. ProviderJobPage(u) \subseteq {StartJobForm, CompleteJobForm, EvidenceUploadForm}
  BY Zenon DEF ProviderJobPage
<1>6. Page(u) = IF u \in Customers THEN CustomerPage
                ELSE IF u \in Dispatchers THEN DispatchPage
                ELSE ProviderInboxPage(u) \cup ProviderJobPage(u)
  BY DEF Page
<1>7. CustomerPage \subseteq {NewRequestForm} \cup {QuoteDecision(i) : i \in Nat \ {0}}
  BY <1>2 DEF CustomerPage
<1> QED
  BY <1>3, <1>4, <1>5, <1>6, <1>7, SMT DEF FormsOf

LEMMA PageDecidesFirst ==
  ASSUME TypeOK, NEW u \in Users, NEW f \in Page(u), f.kind = "DECIDE_QUOTE"
  PROVE  f.quote \in DOMAIN quotes /\ \A k \in 1..(f.quote - 1) : ~Open(k)
<1>1. u \in Customers /\ f # NewRequestForm
  BY PageIsItsUsers, FormsAreTold DEF NewRequestForm, Form
<1>2. f \in CustomerJobPage
  BY <1>1 DEF Page, CustomerPage
<1>3. PICK i \in DOMAIN quotes : f = QuoteDecision(i) /\ \A k \in 1..(i - 1) : ~Open(k)
  BY <1>2, Zenon DEF CustomerJobPage, Open
<1> QED
  BY <1>3, FormsAreTold

\* The pages as they would be rendered now.
RenderedInOrder ==
  \A u \in Users :
    /\ Page(u) \subseteq FormsOf(u)
    /\ \A f \in Page(u) : f.kind = "DECIDE_QUOTE" =>
         f.quote \in DOMAIN quotes /\ \A k \in 1..(f.quote - 1) : ~Open(k)

LEMMA RenderedNow == TypeOK => RenderedInOrder
BY PageIsItsUsers, PageDecidesFirst, Zenon DEF RenderedInOrder

LEMMA RenderedNext == TypeOK' => RenderedInOrder'
BY RenderedNow, PTL

\* What is open on a page stays in order while quotes age, and a page that is
\* rendered anew is in order.
LEMMA PagesStayInOrder ==
  ASSUME TypeOK, PagesAreInOrder, TypeOK', QuotesAge, NEW u \in Users,
         page' = page \/ page' = [page EXCEPT ![u] = Page(u)']
  PROVE  PagesAreInOrder'
<1>1. RenderedInOrder'
  BY RenderedNext
<1> SUFFICES ASSUME NEW w \in Users, NEW f \in page'[w]
             PROVE  /\ f \in FormsOf(w)
                    /\ f.kind = "DECIDE_QUOTE" =>
                         /\ f.quote \in DOMAIN quotes'
                         /\ \A k \in 1..(f.quote - 1) : ~Open(k)'
  BY Zenon DEF PagesAreInOrder, DecisionsAreFirst, FormsOf
<1>2. CASE f \in page[w]
  <2>1. f \in FormsOf(w)
    BY <1>2 DEF PagesAreInOrder
  <2>2. ASSUME f.kind = "DECIDE_QUOTE"
        PROVE  f.quote \in DOMAIN quotes /\ \A k \in 1..(f.quote - 1) : ~Open(k)
    BY <1>2, <2>2 DEF PagesAreInOrder, DecisionsAreFirst
  <2>3. \A k \in 1..(f.quote - 1) : f.quote \in DOMAIN quotes => k \in DOMAIN quotes
    BY DEF TypeOK
  <2> QED
    BY <2>1, <2>2, <2>3 DEF QuotesAge
<1>3. CASE f \notin page[w]
  <2>1. w = u /\ f \in Page(u)'
    BY <1>3 DEF TypeOK
  <2> QED
    BY <1>1, <2>1 DEF RenderedInOrder
<1> QED
  BY <1>2, <1>3

-----------------------------------------------------------------------------
(* The store *)

StoreIsInOrder == TypeOK /\ RowsFitTheJob

\* What every step of the store keeps.
StoreStays ==
  /\ StoreIsInOrder'
  /\ QuotesAge

LEMMA TransitionsAre ==
  ASSUME NEW from, NEW to, CanTransition(from, to)
  PROVE  /\ from \in Statuses /\ to \in Statuses
         /\ to = "TRIAGED" => from = "DRAFT"
         /\ to = "QUOTED" => from \in {"TRIAGED", "ASSIGNED", "IN_PROGRESS"}
         /\ to = "ASSIGNED" => from = "QUOTED"
         /\ to = "IN_PROGRESS" => from = "ASSIGNED"
         /\ to = "COMPLETED" => from = "IN_PROGRESS"
         /\ to = "CANCELLED" => from \in {"DRAFT", "TRIAGED", "QUOTED", "ASSIGNED"}
BY DEF CanTransition, Transitions, Statuses

\* An operation that leaves quotes alone: the rows after it fit the job.
LEMMA OfDispatch ==
  ASSUME StoreIsInOrder, NEW u \in Users, NEW f, DOMAIN page' = Users,
         \/ CreateJobAction(u, f)
         \/ ApproveTriageAction(u, f)
         \/ CreateQuoteAction(u, f)
         \/ StartJobAction(u, f)
         \/ CompleteJobAction(u, f)
         \/ UploadEvidenceAction(u, f)
  PROVE  StoreStays
<1>1. UNCHANGED <<quotes, offer, assignment>> /\ Active' = Active
  BY DEF CreateJobAction, ApproveTriageAction, CreateQuoteAction, StartJobAction,
         CompleteJobAction, UploadEvidenceAction, Active, store
<1>2. QuotesAge
  BY <1>1 DEF QuotesAge, Open
<1>3. CASE CreateJobAction(u, f)
  BY <1>1, <1>2, <1>3 DEF CreateJobAction, StoreStays, StoreIsInOrder, TypeOK, RowsFitTheJob,
                    Statuses, Held
<1>4. CASE ApproveTriageAction(u, f)
  BY <1>1, <1>2, <1>4, TransitionsAre DEF ApproveTriageAction, StoreStays, StoreIsInOrder, TypeOK,
                    RowsFitTheJob, Statuses, Held
<1>5. CASE CreateQuoteAction(u, f)
  BY <1>1, <1>2, <1>5 DEF CreateQuoteAction, store, StoreStays, StoreIsInOrder, TypeOK,
                    RowsFitTheJob
<1>6. CASE StartJobAction(u, f)
  BY <1>1, <1>2, <1>6, TransitionsAre DEF StartJobAction, MayStart, StoreStays, StoreIsInOrder,
                    TypeOK, RowsFitTheJob, Statuses, Held
<1>7. CASE CompleteJobAction(u, f)
  BY <1>1, <1>2, <1>7, TransitionsAre DEF CompleteJobAction, MayComplete, StoreStays,
                    StoreIsInOrder, TypeOK, RowsFitTheJob, Statuses, Held
<1>8. CASE UploadEvidenceAction(u, f)
  BY <1>1, <1>2, <1>8 DEF UploadEvidenceAction, StoreStays, StoreIsInOrder, TypeOK, RowsFitTheJob
<1> QED
  BY <1>3, <1>4, <1>5, <1>6, <1>7, <1>8

\* Offers, answers and fallbacks.
LEMMA OfOffers ==
  ASSUME StoreIsInOrder, NEW u \in Users, NEW f, DOMAIN page' = Users,
         f \in FormsOf(u),
         CreateOffersAction(u, f) \/ RespondToOfferAction(u, f) \/ FallbackAction(u, f)
  PROVE  StoreStays
<1>1. UNCHANGED <<quotes, quoting, proof>>
  BY DEF CreateOffersAction, RespondToOfferAction, FallbackAction
<1>2. QuotesAge
  BY <1>1 DEF QuotesAge, Open
<1>3. CASE CreateOffersAction(u, f)
  <2>1. UNCHANGED <<job, assignment>> /\ Active' = Active /\ job = "QUOTED"
    BY <1>3 DEF CreateOffersAction, MayOffer, Dispatchable, Active
  <2>2. offer' = [p \in Providers |->
                      IF p \in Best /\ offer[p] = "NONE" THEN "PENDING" ELSE offer[p]]
    BY <1>3 DEF CreateOffersAction
  <2>3. offer' \in [Providers -> OfferStatuses]
    BY <2>2 DEF StoreIsInOrder, TypeOK, OfferStatuses
  <2> QED
    BY <1>1, <1>2, <2>1, <2>3 DEF StoreStays, StoreIsInOrder, TypeOK, RowsFitTheJob
<1>4. CASE FallbackAction(u, f)
  <2>1. /\ job' = "QUOTED" /\ Active # {} /\ UNCHANGED offer
        /\ assignment' = [p \in Providers |-> IF p \in Active THEN "FELL_THROUGH" ELSE assignment[p]]
    BY <1>4 DEF FallbackAction, MayFallBack
  <2>2. assignment' \in [Providers -> AssignStatuses] /\ Active' = {}
    BY <2>1 DEF StoreIsInOrder, TypeOK, AssignStatuses, Active
  <2> QED
    BY <1>1, <1>2, <2>1, <2>2 DEF StoreStays, StoreIsInOrder, TypeOK, RowsFitTheJob, Held, Statuses
<1>5. CASE f = Form("ACCEPT") /\ RespondToOfferAction(u, f)
  <2>1. /\ u \in Providers
        /\ offer[u] = "PENDING" /\ job = "QUOTED" /\ job' = "ASSIGNED"
        /\ assignment' = [assignment EXCEPT ![u] = "ACTIVE"]
        /\ offer' = [p \in Providers |->
                    IF p = u THEN "ACCEPTED"
                    ELSE IF offer[p] \in {"PENDING", "LAPSED"} THEN "WITHDRAWN" ELSE offer[p]]
    BY <1>5, TransitionsAre DEF RespondToOfferAction, MayAccept, Form, FormsOf, Users,
         NewRequestForm, QuoteDecision, ApproveTriageForm, CreateQuoteForm, CreateOffersForm,
         FallbackForm
  <2>2. assignment' \in [Providers -> AssignStatuses] /\ u \in Active'
    BY <2>1 DEF StoreIsInOrder, TypeOK, AssignStatuses, Active
  <2>3. offer' \in [Providers -> OfferStatuses]
    BY <2>1 DEF StoreIsInOrder, TypeOK, OfferStatuses
  <2> QED
    BY <1>1, <1>2, <2>1, <2>2, <2>3
       DEF StoreStays, StoreIsInOrder, TypeOK, RowsFitTheJob, Held, Statuses
<1>6. CASE f # Form("ACCEPT") /\ RespondToOfferAction(u, f)
  <2>1. /\ offer' = [offer EXCEPT ![u] = "DECLINED"] /\ offer[u] # "NONE"
        /\ UNCHANGED <<job, assignment>> /\ Active' = Active
    BY <1>6 DEF RespondToOfferAction, MayDecline, Active
  <2>2. u \in Providers
    BY <1>6 DEF RespondToOfferAction, MayDecline, Form, FormsOf, Users,
         NewRequestForm, QuoteDecision, ApproveTriageForm, CreateQuoteForm, CreateOffersForm,
         FallbackForm
  <2>3. offer' \in [Providers -> OfferStatuses]
    BY <2>1, <2>2 DEF StoreIsInOrder, TypeOK, OfferStatuses
  <2> QED
    BY <1>1, <1>2, <2>1, <2>2, <2>3 DEF StoreStays, StoreIsInOrder, TypeOK, RowsFitTheJob
<1> QED
  BY <1>3, <1>4, <1>5, <1>6

\* Quotes: the decision of one, the rows of a new one, and a deadline that passes.
LEMMA OfQuotes ==
  ASSUME StoreIsInOrder, NEW u \in Users, DOMAIN page' = Users,
         \/ \E f : DecideQuoteAction(u, f) /\ f.quote \in DOMAIN quotes
         \/ FinishQuote(u)
         \/ Lapse
  PROVE  StoreStays
<1>1. UNCHANGED <<assignment, proof>> /\ Active' = Active
  BY DEF DecideQuoteAction, FinishQuote, Lapse, Active
<1>2. quotes \in Seq(QuoteStatuses)
  BY DEF StoreIsInOrder, TypeOK
<1>3. ASSUME NEW i \in DOMAIN quotes, NEW status \in QuoteStatuses, Open(i),
             quotes' = [quotes EXCEPT ![i] = status],
             UNCHANGED <<job, offer, quoting>>
      PROVE  StoreStays
  <2>1. quotes' \in Seq(QuoteStatuses) /\ DOMAIN quotes' = DOMAIN quotes /\ quotes # <<>>
    BY <1>2, <1>3
  <2>2. QuotesAge
    BY <1>3, <2>1 DEF QuotesAge, Open
  <2>3. quotes' # <<>>
    BY <2>1
  <2> QED
    BY <1>1, <1>3, <2>1, <2>2, <2>3 DEF StoreStays, StoreIsInOrder, TypeOK, RowsFitTheJob
<1>4. ASSUME NEW f, DecideQuoteAction(u, f), f.quote \in DOMAIN quotes
      PROVE  StoreStays
  <2>1. PICK status \in {"APPROVED", "REJECTED"} : quotes' = [quotes EXCEPT ![f.quote] = status]
    BY <1>4 DEF DecideQuoteAction
  <2> QED
    BY <1>3, <1>4, <2>1 DEF DecideQuoteAction, MayDecide, Open, QuoteStatuses
<1>5. CASE FinishQuote(u)
  <2>1. /\ quotes' = Append(quotes, "SENT") /\ quoting' \subseteq quoting /\ UNCHANGED offer
        /\ quoting # {}
        /\ job' = job \/ job' = "QUOTED"
    BY <1>5 DEF FinishQuote
  <2>2. quotes' \in Seq(QuoteStatuses) /\ quotes' # <<>> /\ DOMAIN quotes \subseteq DOMAIN quotes'
    BY <1>2, <2>1 DEF QuoteStatuses
  <2>3. QuotesAge
    BY <1>2, <2>1 DEF QuotesAge, Open
  <2>4. job' \notin {"ABSENT", "DRAFT"} /\ (job' \in Held => job \in Held)
    BY <2>1 DEF StoreIsInOrder, RowsFitTheJob, Held
  <2> QED
    BY <1>1, <2>1, <2>2, <2>3, <2>4 DEF StoreStays, StoreIsInOrder, TypeOK, RowsFitTheJob, Statuses
<1>6. CASE Lapse
  <2>1. CASE UNCHANGED offer
    <3>1. PICK i \in DOMAIN quotes : quotes[i] = "SENT" /\ quotes' = [quotes EXCEPT ![i] = "LAPSED"]
      BY <1>6, <2>1 DEF Lapse, StoreIsInOrder, TypeOK, OfferStatuses
    <3> QED
      BY <1>3, <1>6, <2>1, <3>1 DEF Lapse, Open, QuoteStatuses
  <2>2. CASE ~UNCHANGED offer
    <3>1. PICK p \in Providers : offer[p] = "PENDING" /\ offer' = [offer EXCEPT ![p] = "LAPSED"]
      BY <1>6, <2>2 DEF Lapse
    <3>2. UNCHANGED <<job, quotes, quoting>>
      BY <1>6, <2>2 DEF Lapse
    <3>3. offer' \in [Providers -> OfferStatuses]
      BY <3>1 DEF StoreIsInOrder, TypeOK, OfferStatuses
    <3>4. QuotesAge
      BY <3>2 DEF QuotesAge, Open
    <3> QED
      BY <1>1, <3>1, <3>2, <3>3, <3>4 DEF StoreStays, StoreIsInOrder, TypeOK, RowsFitTheJob
  <2> QED
    BY <2>1, <2>2
<1> QED
  BY <1>4, <1>5, <1>6

\* Cancellations and the sweep.
LEMMA OfOthers ==
  ASSUME StoreIsInOrder, CancelJob \/ Sweep
  PROVE  StoreStays
<1>1. UNCHANGED <<quotes, assignment, proof, quoting, page>> /\ Active' = Active
  BY DEF CancelJob, Sweep, Active
<1>2. QuotesAge
  BY <1>1 DEF QuotesAge, Open
<1>3. CASE CancelJob
  BY <1>1, <1>2, <1>3, TransitionsAre DEF CancelJob, StoreStays, StoreIsInOrder, TypeOK,
     RowsFitTheJob, Statuses, Held
<1>4. CASE Sweep
  <2> DEFINE expired == [p \in Providers |-> IF offer[p] = "LAPSED" THEN "EXPIRED" ELSE offer[p]]
             uncovered == Dispatchable /\ Active = {} /\ \A p \in Providers : expired[p] # "PENDING"
  <2>1. PICK ps \in SUBSET {p \in Providers : uncovered /\ rank[p] > 0 /\ offer[p] = "NONE"} :
          offer' = [p \in Providers |-> IF p \in ps THEN "PENDING" ELSE expired[p]]
    BY <1>4, Zenon DEF Sweep
  <2>2. offer' \in [Providers -> OfferStatuses]
    BY <2>1 DEF StoreIsInOrder, TypeOK, OfferStatuses
  <2>3. ASSUME NEW p \in Providers, offer'[p] # "NONE"
        PROVE  offer[p] # "NONE" \/ job = "QUOTED"
    BY <2>1, <2>3 DEF Dispatchable
  <2>4. UNCHANGED job
    BY <1>4 DEF Sweep
  <2> QED
    BY <1>1, <1>2, <2>2, <2>3, <2>4 DEF StoreStays, StoreIsInOrder, TypeOK, RowsFitTheJob
<1> QED
  BY <1>3, <1>4

-----------------------------------------------------------------------------
(* The theorems *)

LEMMA InvStep == IInv /\ [Next]_vars => IInv'
<1> SUFFICES ASSUME IInv, [Next]_vars PROVE IInv'
  OBVIOUS
<1>0. TypeOK /\ StoreIsInOrder /\ PagesAreInOrder /\ DOMAIN page = Users
  BY DEF IInv, StoreIsInOrder, TypeOK
<1>1. CASE UNCHANGED vars
  <2>1. UNCHANGED <<job, quotes, offer, assignment, proof, quoting, page>>
    BY <1>1 DEF vars, store
  <2>2. TypeOK' /\ QuotesAge /\ RowsFitTheJob'
    BY <1>0, <2>1 DEF StoreIsInOrder, TypeOK, RowsFitTheJob, QuotesAge, Open, Active
  <2>3. PICK u : u \in Users
    BY ConsoleAssumption DEF Users
  <2> QED
    BY <1>0, <2>1, <2>2, <2>3, PagesStayInOrder DEF IInv
<1>2. ASSUME NEW u \in Users, NEW f \in page[u], Send(u, f), Answer(u)
      PROVE  IInv'
  <2>1. DOMAIN page' = Users /\ (page' = page \/ page' = [page EXCEPT ![u] = Page(u)'])
    BY <1>0, <1>2 DEF Answer
  <2>2. f \in FormsOf(u) /\ (f.kind = "DECIDE_QUOTE" => f.quote \in DOMAIN quotes)
    BY <1>0 DEF PagesAreInOrder, DecisionsAreFirst
  <2>3. DecideQuoteAction(u, f) => f.kind = "DECIDE_QUOTE"
    BY DEF DecideQuoteAction
  <2>4. StoreStays
    BY <1>0, <1>2, <2>1, <2>2, <2>3, OfDispatch, OfOffers, OfQuotes DEF Send
  <2> QED
    BY <1>0, <2>1, <2>4, PagesStayInOrder DEF StoreStays, StoreIsInOrder, IInv
<1>3. ASSUME NEW u \in Users, FinishQuote(u), Answer(u)
      PROVE  IInv'
  <2>1. DOMAIN page' = Users /\ (page' = page \/ page' = [page EXCEPT ![u] = Page(u)'])
    BY <1>0, <1>3 DEF Answer
  <2>2. StoreStays
    BY <1>0, <1>3, <2>1, OfQuotes
  <2> QED
    BY <1>0, <2>1, <2>2, PagesStayInOrder DEF StoreStays, StoreIsInOrder, IInv
<1>4. ASSUME NEW u \in Users, Render(u)
      PROVE  IInv'
  <2>1. UNCHANGED <<job, quotes, offer, assignment, proof, quoting>>
    BY <1>4 DEF Render, store
  <2>2. DOMAIN page' = Users
    BY <1>0, <1>4 DEF Render
  <2>3. TypeOK' /\ QuotesAge /\ RowsFitTheJob'
    BY <1>0, <2>1, <2>2 DEF StoreIsInOrder, TypeOK, RowsFitTheJob, QuotesAge, Open, Active
  <2>4. page' = [page EXCEPT ![u] = Page(u)']
    BY <1>4, <2>1 DEF Render, Page, CustomerPage, CustomerJobPage, DispatchPage, Dispatchable, Approved,
                      ProviderInboxPage, ProviderJobPage
  <2> QED
    BY <1>0, <2>3, <2>4, PagesStayInOrder DEF IInv
<1>5. CASE CancelJob \/ Lapse \/ Sweep
  <2>1. UNCHANGED page
    BY <1>5 DEF CancelJob, Lapse, Sweep
  <2>2. PICK u : u \in Users
    BY ConsoleAssumption DEF Users
  <2>3. StoreStays
    BY <1>0, <1>5, <2>1, <2>2, OfQuotes, OfOthers
  <2> QED
    BY <1>0, <2>1, <2>2, <2>3, PagesStayInOrder DEF StoreStays, StoreIsInOrder, IInv
<1>6. CASE Rerank
  <2>1. UNCHANGED <<job, quotes, offer, assignment, proof, quoting, page>>
    BY <1>6 DEF Rerank, store
  <2>2. TypeOK' /\ QuotesAge /\ RowsFitTheJob'
    BY <1>0, <2>1 DEF StoreIsInOrder, TypeOK, RowsFitTheJob, QuotesAge, Open, Active
  <2>3. PICK u : u \in Users
    BY ConsoleAssumption DEF Users
  <2> QED
    BY <1>0, <2>1, <2>2, <2>3, PagesStayInOrder DEF IInv
<1> QED
  BY <1>1, <1>2, <1>3, <1>4, <1>5, <1>6 DEF Next, JobStep

THEOREM InductiveInvariant == Spec => []IInv
BY InitHolds, InvStep, PTL DEF Spec

LEMMA HeldIsNotPriced ==
  ASSUME RowsFitTheJob, MayFallBack
  PROVE  job \in {"ASSIGNED", "IN_PROGRESS"}
BY TransitionsAre DEF RowsFitTheJob, MayFallBack, Held

\* The action that a form sends is told by its kind.
LEMMA KindTellsAction ==
  ASSUME NEW u, NEW f
  PROVE  /\ CreateJobAction(u, f) => f.kind = "NEW_REQUEST"
         /\ ApproveTriageAction(u, f) => f.kind = "APPROVE_TRIAGE"
         /\ CreateQuoteAction(u, f) => f.kind = "CREATE_QUOTE"
         /\ CreateOffersAction(u, f) => f.kind = "CREATE_OFFERS"
         /\ FallbackAction(u, f) => f.kind = "FALLBACK"
         /\ DecideQuoteAction(u, f) => f.kind = "DECIDE_QUOTE"
         /\ RespondToOfferAction(u, f) => f.kind \in {"ACCEPT", "DECLINE"}
         /\ StartJobAction(u, f) => f.kind = "START"
         /\ CompleteJobAction(u, f) => f.kind = "COMPLETE"
         /\ UploadEvidenceAction(u, f) => f.kind = "UPLOAD"
<1>1. /\ CreateJobAction(u, f) => f = NewRequestForm
      /\ ApproveTriageAction(u, f) => f = ApproveTriageForm
      /\ CreateQuoteAction(u, f) => f = CreateQuoteForm
      /\ CreateOffersAction(u, f) => f = CreateOffersForm
      /\ FallbackAction(u, f) => f = FallbackForm
  BY Zenon DEF CreateJobAction, ApproveTriageAction, CreateQuoteAction, CreateOffersAction, FallbackAction
<1>2. /\ DecideQuoteAction(u, f) => f.kind = "DECIDE_QUOTE"
      /\ RespondToOfferAction(u, f) => f = Form("ACCEPT") \/ f = Form("DECLINE")
  BY Zenon DEF DecideQuoteAction, RespondToOfferAction
<1>3. /\ StartJobAction(u, f) => f = StartJobForm
      /\ CompleteJobAction(u, f) => f = CompleteJobForm
      /\ UploadEvidenceAction(u, f) => f = EvidenceUploadForm
  BY Zenon DEF StartJobAction, CompleteJobAction, UploadEvidenceAction
<1> QED
  BY <1>1, <1>2, <1>3, SMT
     DEF Form, NewRequestForm, ApproveTriageForm, CreateQuoteForm, CreateOffersForm,
         FallbackForm, StartJobForm, CompleteJobForm, EvidenceUploadForm

\* Whatever pages are open, however old, a form of theirs that is accepted is one
\* the page would have if it were rendered anew.
THEOREM OldPagesDoNothingNew == Spec => StaleFormsDoNothingNew
<1>1. ASSUME IInv, NEW u \in Users, NEW f \in page[u], Send(u, f)
      PROVE  f \in Page(u)
  <2>0. TypeOK /\ RowsFitTheJob /\ f \in FormsOf(u)
    BY <1>1 DEF IInv, PagesAreInOrder
  <2> USE DEF Form, NewRequestForm, ApproveTriageForm, CreateQuoteForm, CreateOffersForm,
              FallbackForm, StartJobForm, CompleteJobForm, EvidenceUploadForm, QuoteDecision
  <2>1. CASE u \in Customers
    <3>1. CASE f = NewRequestForm
      <4>1. CreateJobAction(u, f)
        BY <1>1, <3>1, KindTellsAction DEF Send
      <4> QED
        BY <2>1, <3>1, <4>1 DEF CreateJobAction, Page, CustomerPage
    <3>2. CASE f # NewRequestForm
      <4>1. f.kind = "DECIDE_QUOTE" /\ f = QuoteDecision(f.quote)
        BY <2>0, <2>1, <3>2 DEF FormsOf
      <4>2. DecideQuoteAction(u, f)
        BY <1>1, <4>1, KindTellsAction DEF Send
      <4>3. f.quote \in DOMAIN quotes /\ \A k \in 1..(f.quote - 1) : quotes[k] \notin {"SENT", "LAPSED"}
        BY <1>1, <4>1 DEF IInv, PagesAreInOrder, DecisionsAreFirst, Open
      <4>4. f \in CustomerJobPage
        BY <4>1, <4>2, <4>3, Zenon DEF DecideQuoteAction, MayDecide, CustomerJobPage
      <4>5. job # "ABSENT"
        BY <2>0, <4>3 DEF RowsFitTheJob
      <4> QED
        BY <2>1, <4>4, <4>5 DEF Page, CustomerPage
    <3> QED
      BY <3>1, <3>2
  <2>2. CASE u \in Dispatchers
    <3>1. u \notin Customers /\ f \in {ApproveTriageForm, CreateQuoteForm, CreateOffersForm, FallbackForm}
      BY ConsoleAssumption, <2>0, <2>2 DEF FormsOf
    <3>2. \/ ApproveTriageAction(u, f) \/ CreateQuoteAction(u, f) \/ CreateOffersAction(u, f)
          \/ FallbackAction(u, f)
      BY <1>1, <3>1, KindTellsAction DEF Send
    <3>3. f \in DispatchPage
      BY <2>0, <3>1, <3>2, TransitionsAre, HeldIsNotPriced
         DEF ApproveTriageAction, CreateQuoteAction, CreateOffersAction, FallbackAction,
             MayOffer, Dispatchable, DispatchPage
    <3> QED
      BY <2>2, <3>1, <3>3 DEF Page
  <2>3. CASE u \in Providers
    <3>1. /\ u \notin Customers \cup Dispatchers
          /\ f \in {Form("ACCEPT"), Form("DECLINE"), StartJobForm, CompleteJobForm,
                    EvidenceUploadForm}
      BY ConsoleAssumption, <2>0, <2>3 DEF FormsOf
    <3>2. \/ RespondToOfferAction(u, f) \/ StartJobAction(u, f) \/ CompleteJobAction(u, f)
          \/ UploadEvidenceAction(u, f)
      BY <1>1, <3>1, KindTellsAction DEF Send
    <3>3. CASE RespondToOfferAction(u, f)
      BY <3>1, <3>3 DEF RespondToOfferAction, MayAccept, MayDecline, Page, ProviderInboxPage,
                        OfferResponse
    <3>4. CASE StartJobAction(u, f) \/ CompleteJobAction(u, f) \/ UploadEvidenceAction(u, f)
      <4>1. assignment[u] # "NONE"
        BY <3>4 DEF StartJobAction, CompleteJobAction, UploadEvidenceAction, MayStart, MayComplete,
                    MayUpload, Active
      <4>2. /\ StartJobAction(u, f) => f = StartJobForm /\ job = "ASSIGNED"
            /\ CompleteJobAction(u, f) => f = CompleteJobForm /\ job = "IN_PROGRESS" /\ proof
            /\ UploadEvidenceAction(u, f) => f = EvidenceUploadForm
        BY TransitionsAre
           DEF StartJobAction, CompleteJobAction, UploadEvidenceAction, MayStart, MayComplete
      <4>3. f \in ProviderJobPage(u)
        BY <3>4, <4>1, <4>2, SMT DEF ProviderJobPage
      <4> QED
        BY <3>1, <4>3 DEF Page
    <3> QED
      BY <3>2, <3>3, <3>4
  <2> QED
    BY <2>1, <2>2, <2>3 DEF Users
<1>2. IInv /\ [Next]_vars =>
        [\A u \in Users : \A f \in page[u] : Send(u, f) => f \in Page(u)]_vars
  BY <1>1
<1> QED
  BY <1>2, InductiveInvariant, PTL DEF Spec, StaleFormsDoNothingNew

LEMMA SingleElement ==
  ASSUME NEW S, NEW s \in Seq(S), s # <<>>, ~(Len(s) > 1)
  PROVE  Len(s) = 1 /\ s[1] \in S
<1>1. \A n \in Nat \ {0} : ~(n > 1) => n = 1
  OBVIOUS
<1>2. Len(s) \in Nat \ {0}
  BY EmptySeq
<1>3. Len(s) = 1
  BY <1>1, <1>2, Zenon
<1> QED
  BY <1>3, ElementOfSeq

\* In every state of a job that is not over, whose price did not come to nothing
\* and that still has somebody to ask, some page has a form on it that the API
\* accepts and that changes something: whatever the fleet, an empty one included.
THEOREM SomebodyAlwaysCanAct == Spec => []SomebodyCanAct
<1>1. IInv => SomebodyCanAct
  <2> SUFFICES ASSUME IInv, job \notin Terminal, ~Unpriced, ~NobodyLeft
               PROVE  \E u \in Users : \E f \in Page(u) : Accepted(u, f)
    BY DEF SomebodyCanAct
  <2>0. TypeOK /\ RowsFitTheJob
    BY DEF IInv
  <2>1. PICK c \in Customers, d \in Dispatchers : c \in Users /\ d \in Users /\ d \notin Customers
    BY ConsoleAssumption DEF Users
  <2>2. /\ Page(c) = CustomerPage /\ Page(d) = DispatchPage
        /\ \A p \in Providers : Page(p) = ProviderInboxPage(p) \cup ProviderJobPage(p)
    BY <2>1, ConsoleAssumption DEF Page
  <2> USE DEF Form, NewRequestForm, ApproveTriageForm, CreateQuoteForm, CreateOffersForm,
              FallbackForm, StartJobForm, CompleteJobForm, EvidenceUploadForm, QuoteDecision
  <2>3. CASE job = "ABSENT"
    <3>1. NewRequestForm \in Page(c) /\ Accepted(c, NewRequestForm)
      BY <2>2, <2>3 DEF CustomerPage, Accepted
    <3> QED
      BY <2>1, <3>1
  <2>4. CASE job = "DRAFT"
    <3>1. ApproveTriageForm \in Page(d) /\ Accepted(d, ApproveTriageForm)
      BY <2>2, <2>4 DEF DispatchPage, Accepted, CanTransition, Transitions
    <3> QED
      BY <2>1, <3>1
  <2>5. CASE job = "TRIAGED"
    <3>1. CreateQuoteForm \in Page(d) /\ Accepted(d, CreateQuoteForm)
      BY <2>2, <2>5 DEF DispatchPage, Accepted
    <3> QED
      BY <2>1, <3>1
  <2>6. CASE job \in {"ASSIGNED", "IN_PROGRESS"}
    <3>1. MayFallBack
      BY <2>0, <2>6 DEF MayFallBack, RowsFitTheJob, Held, CanTransition, Transitions
    <3>2. FallbackForm \in Page(d) /\ Accepted(d, FallbackForm)
      BY <2>2, <2>6, <3>1 DEF DispatchPage, Accepted
    <3> QED
      BY <2>1, <3>2
  <2>7. CASE job = "QUOTED"
    <3>1. quotes \in Seq(QuoteStatuses) /\ Len(quotes) = 1 /\ quotes[1] \in {"SENT", "APPROVED"}
      <4>1. quotes \in Seq(QuoteStatuses) /\ quotes # <<>> /\ ~(Len(quotes) > 1)
        BY <2>0, <2>7 DEF Unpriced, TypeOK, RowsFitTheJob
      <4>2. Len(quotes) = 1 /\ quotes[1] \in QuoteStatuses
        BY <4>1, SingleElement
      <4> QED
        BY <2>7, <4>1, <4>2 DEF Unpriced, QuoteStatuses
    <3>2. 1 \in DOMAIN quotes
      BY <3>1
    <3>3. CASE quotes[1] = "SENT"
      <4>1. QuoteDecision(1) \in CustomerJobPage
        BY <3>2, <3>3 DEF CustomerJobPage
      <4>2. QuoteDecision(1) \in Page(c) /\ Accepted(c, QuoteDecision(1))
        BY <2>2, <2>7, <3>3, <4>1 DEF CustomerPage, Accepted, MayDecide
      <4> QED
        BY <2>1, <4>2
    <3>4. CASE quotes[1] = "APPROVED"
      <4>1. Dispatchable
        BY <2>7, <3>2, <3>4 DEF Dispatchable, Approved
      <4>2. CASE \E p \in Best : offer[p] = "NONE"
        <5>1. CreateOffersForm \in Page(d) /\ Accepted(d, CreateOffersForm)
          BY <2>2, <4>1, <4>2 DEF DispatchPage, Accepted, MayOffer
        <5> QED
          BY <2>1, <5>1
      <4>3. CASE ~\E p \in Best : offer[p] = "NONE"
        <5>1. PICK p \in Providers : offer[p] \in {"PENDING", "LAPSED"}
          BY <4>1, <4>3 DEF NobodyLeft
        <5>2. Form("DECLINE") \in Page(p) /\ Accepted(p, Form("DECLINE"))
          BY <2>2, <5>1 DEF ProviderInboxPage, OfferResponse, Accepted, MayDecline
        <5> QED
          BY <5>2 DEF Users
      <4> QED
        BY <4>2, <4>3
    <3> QED
      BY <3>1, <3>3, <3>4
  <2> QED
    BY <2>0, <2>3, <2>4, <2>5, <2>6, <2>7 DEF TypeOK, Statuses, Terminal
<1> QED
  BY <1>1, InductiveInvariant, PTL
-----------------------------------------------------------------------------
(* The console keeps the promise of Brokerage *)

\* Nobody is asked before the customer agreed to a price, which is for good, and
\* nobody is given the job while another provider holds it.
DealsAreSound ==
  /\ (\E p \in Providers : offer[p] # "NONE") => Approved
  /\ \A p, r \in Active : p = r

PromiseInv == IInv /\ DealsAreSound

LEMMA PromiseInit == Init => Promise!Init /\ DealsAreSound
BY DEF Init, Promise!Init, StatusMap, AgreedMap, ClaimsMap, TheJob, Approved, Active,
       DealsAreSound

\* What a step is that changes nothing of the promise but the status.
Moves(to) ==
  /\ CanTransition(job, to) /\ to # "ASSIGNED"
  /\ job' = to
  /\ Active' = Active /\ (Approved <=> Approved')

LEMMA MovesArePromised ==
  ASSUME NEW to, Moves(to)
  PROVE  Promise!Next
<1>1. "the job" \in TheJob /\ StatusMap' = [StatusMap EXCEPT !["the job"] = to]
  BY DEF StatusMap, TheJob, Moves
<1>2. AgreedMap' = AgreedMap /\ ClaimsMap' = ClaimsMap
  BY DEF AgreedMap, ClaimsMap, TheJob, Moves
<1>3. Promise!Move("the job", to)
  BY <1>1, <1>2 DEF Promise!Move, Moves, StatusMap, TheJob, Promise!CanTransition,
     Promise!Transitions, CanTransition, Transitions
<1>4. to \in Promise!Statuses
  BY DEF Promise!Statuses, Moves, CanTransition, Transitions
<1> QED
  BY <1>1, <1>3, <1>4 DEF Promise!Next

\* What changes neither the status, nor the claims, nor what was agreed.
LEMMA QuietIsPromised ==
  ASSUME UNCHANGED <<job, assignment>>, Approved <=> Approved'
  PROVE  UNCHANGED Promise!vars
BY DEF Promise!vars, StatusMap, AgreedMap, ClaimsMap, TheJob, Active

\* A form that is sent, old or new, is a step of the promise.
LEMMA PromiseOfForms ==
  ASSUME PromiseInv, NEW u \in Users, NEW f \in page[u], Send(u, f)
  PROVE  [Promise!Next]_(Promise!vars) /\ DealsAreSound'
<1> USE DEF PromiseInv, IInv
<1>0. f \in FormsOf(u)
  BY DEF PagesAreInOrder
<1>1. ASSUME UNCHANGED <<quotes, assignment>>
      PROVE  Active' = Active /\ (Approved <=> Approved')
  BY <1>1 DEF Active, Approved
<1>2. CASE CreateJobAction(u, f)
  <2>1. Promise!Create("the job")
    BY <1>1, <1>2 DEF CreateJobAction, Promise!Create, StatusMap, AgreedMap, ClaimsMap, TheJob
  <2> QED
    BY <1>1, <1>2, <2>1 DEF CreateJobAction, Promise!Next, TheJob, DealsAreSound
<1>3. CASE ApproveTriageAction(u, f)
  <2>1. Moves("TRIAGED")
    BY <1>1, <1>3 DEF ApproveTriageAction, Moves
  <2> QED
    BY <1>1, <1>3, <2>1, MovesArePromised DEF ApproveTriageAction, DealsAreSound
<1>4. CASE CreateQuoteAction(u, f) \/ UploadEvidenceAction(u, f)
  <2>1. UNCHANGED <<job, quotes, offer, assignment>>
    BY <1>4 DEF CreateQuoteAction, UploadEvidenceAction, store
  <2> QED
    BY <1>1, <2>1, QuietIsPromised DEF DealsAreSound
<1>5. CASE CreateOffersAction(u, f)
  <2>1. UNCHANGED <<job, quotes, assignment>> /\ Approved
    BY <1>5 DEF CreateOffersAction, MayOffer, Dispatchable
  <2> QED
    BY <1>1, <2>1, QuietIsPromised DEF DealsAreSound
<1>6. CASE FallbackAction(u, f)
  <2>1. /\ Active # {} /\ CanTransition(job, "QUOTED") /\ job' = "QUOTED"
        /\ assignment' = [p \in Providers |-> IF p \in Active THEN "FELL_THROUGH" ELSE assignment[p]]
        /\ UNCHANGED <<quotes, offer>>
    BY <1>6 DEF FallbackAction, MayFallBack
  <2>2. PICK p \in Providers : Active = {p}
    BY <2>1 DEF DealsAreSound, Active
  <2>3. Active' = {} /\ (Approved <=> Approved')
    BY <2>1 DEF Active, Approved, TypeOK
  <2>4. /\ "the job" \in TheJob /\ AgreedMap' = AgreedMap
        /\ StatusMap' = [StatusMap EXCEPT !["the job"] = "QUOTED"]
        /\ ClaimsMap' = [ClaimsMap EXCEPT !["the job"] = @ \ {p}]
    BY <2>1, <2>2, <2>3 DEF StatusMap, AgreedMap, ClaimsMap, TheJob
  <2>5. Promise!FallThrough("the job", p)
    BY <2>1, <2>2, <2>4 DEF Promise!FallThrough, StatusMap, ClaimsMap, TheJob,
       Promise!CanTransition, Promise!Transitions, CanTransition, Transitions
  <2> QED
    BY <2>1, <2>3, <2>4, <2>5 DEF Promise!Next, DealsAreSound
<1>7. CASE DecideQuoteAction(u, f)
  <2>1. f.quote \in DOMAIN quotes
    BY <1>7 DEF PagesAreInOrder, DecisionsAreFirst, DecideQuoteAction
  <2>2. PICK decision \in {"APPROVED", "REJECTED"} :
          quotes' = [quotes EXCEPT ![f.quote] = decision]
    BY <1>7 DEF DecideQuoteAction
  <2>3. /\ UNCHANGED <<job, offer, assignment>> /\ Active' = Active
        /\ quotes \in Seq(QuoteStatuses) /\ quotes[f.quote] = "SENT"
    BY <1>7 DEF DecideQuoteAction, MayDecide, TypeOK, Active
  <2>4. Approved' <=> Approved \/ decision = "APPROVED"
    BY <2>1, <2>2, <2>3 DEF Approved
  <2>5. CASE decision = "APPROVED"
    <3>1. "the job" \in TheJob /\ AgreedMap' = AgreedMap \cup {"the job"}
      BY <2>4, <2>5 DEF AgreedMap, TheJob
    <3>2. Promise!Agree("the job")
      BY <2>3, <3>1 DEF Promise!Agree, StatusMap, ClaimsMap
    <3> QED
      BY <2>3, <2>4, <3>1, <3>2 DEF Promise!Next, DealsAreSound
  <2>6. CASE decision # "APPROVED"
    BY <2>3, <2>4, <2>6, QuietIsPromised DEF DealsAreSound
  <2> QED
    BY <2>5, <2>6
<1>8. CASE f = Form("ACCEPT") /\ RespondToOfferAction(u, f)
  <2>1. /\ u \in Providers /\ offer[u] = "PENDING" /\ Active = {}
        /\ CanTransition(job, "ASSIGNED") /\ job' = "ASSIGNED"
        /\ assignment' = [assignment EXCEPT ![u] = "ACTIVE"]
        /\ UNCHANGED quotes
    BY <1>0, <1>8 DEF RespondToOfferAction, MayAccept, Form, FormsOf, Users,
         NewRequestForm, QuoteDecision, ApproveTriageForm, CreateQuoteForm, CreateOffersForm,
         FallbackForm
  <2>2. Active' = {u} /\ Approved /\ Approved'
    BY <2>1 DEF Active, Approved, TypeOK, DealsAreSound
  <2>3. /\ "the job" \in TheJob /\ "the job" \in AgreedMap /\ AgreedMap' = AgreedMap
        /\ StatusMap' = [StatusMap EXCEPT !["the job"] = "ASSIGNED"]
        /\ ClaimsMap["the job"] = {} /\ ClaimsMap' = [ClaimsMap EXCEPT !["the job"] = {u}]
    BY <2>1, <2>2 DEF StatusMap, AgreedMap, ClaimsMap, TheJob
  <2>4. Promise!Award("the job", u)
    BY <2>1, <2>3 DEF Promise!Award, StatusMap, TheJob,
       Promise!CanTransition, Promise!Transitions, CanTransition, Transitions
  <2> QED
    BY <2>1, <2>2, <2>3, <2>4 DEF Promise!Next, DealsAreSound
<1>9. CASE f # Form("ACCEPT") /\ RespondToOfferAction(u, f)
  <2>1. /\ UNCHANGED <<job, quotes, assignment>> /\ offer' = [offer EXCEPT ![u] = "DECLINED"]
        /\ u \in Providers /\ offer[u] # "NONE"
    BY <1>0, <1>9 DEF RespondToOfferAction, MayDecline, Form, FormsOf, Users,
         NewRequestForm, QuoteDecision, ApproveTriageForm, CreateQuoteForm, CreateOffersForm,
         FallbackForm
  <2> QED
    BY <1>1, <2>1, QuietIsPromised DEF DealsAreSound
<1>10. CASE StartJobAction(u, f)
  <2>1. Moves("IN_PROGRESS") /\ UNCHANGED <<quotes, offer, assignment>>
    BY <1>1, <1>10 DEF StartJobAction, MayStart, Moves
  <2> QED
    BY <1>1, <2>1, MovesArePromised DEF DealsAreSound
<1>11. CASE CompleteJobAction(u, f)
  <2>1. Moves("COMPLETED") /\ UNCHANGED <<quotes, offer, assignment>>
    BY <1>1, <1>11 DEF CompleteJobAction, MayComplete, Moves
  <2> QED
    BY <1>1, <2>1, MovesArePromised DEF DealsAreSound
<1> QED
  BY <1>2, <1>3, <1>4, <1>5, <1>6, <1>7, <1>8, <1>9, <1>10, <1>11 DEF Send

LEMMA PromiseStep ==
  ASSUME PromiseInv, [Next]_vars
  PROVE  [Promise!Next]_(Promise!vars) /\ DealsAreSound'
<1> USE DEF PromiseInv, IInv
<1>1. ASSUME UNCHANGED <<job, assignment>>, Approved <=> Approved',
             \A p \in Providers : offer'[p] # "NONE" => offer[p] # "NONE" \/ Approved
      PROVE  [Promise!Next]_(Promise!vars) /\ DealsAreSound'
  BY <1>1, QuietIsPromised DEF DealsAreSound, Active
<1>2. CASE UNCHANGED store
  BY <1>1, <1>2 DEF store, Approved
<1>3. ASSUME NEW u \in Users, FinishQuote(u)
      PROVE  [Promise!Next]_(Promise!vars) /\ DealsAreSound'
  <2>1. UNCHANGED <<offer, assignment>> /\ quotes' = Append(quotes, "SENT") /\ Active' = Active
    BY <1>3 DEF FinishQuote, Active
  <2>2. Approved <=> Approved'
    <3>1. quotes \in Seq(QuoteStatuses)
      BY DEF TypeOK
    <3>2. /\ DOMAIN quotes' = DOMAIN quotes \cup {Len(quotes) + 1}
          /\ quotes'[Len(quotes) + 1] = "SENT"
          /\ \A i \in DOMAIN quotes : quotes'[i] = quotes[i]
      BY <2>1, <3>1
    <3> QED
      BY <3>2 DEF Approved
  <2>3. CASE CanTransition(job, "QUOTED")
    <3>1. Moves("QUOTED")
      BY <1>3, <2>1, <2>2, <2>3 DEF FinishQuote, Moves
    <3> QED
      BY <2>1, <2>2, <3>1, MovesArePromised DEF DealsAreSound
  <2>4. CASE ~CanTransition(job, "QUOTED")
    BY <1>1, <1>3, <2>1, <2>2, <2>4 DEF FinishQuote
  <2> QED
    BY <2>3, <2>4
<1>4. CASE CancelJob
  <2>1. UNCHANGED <<quotes, offer, assignment>> /\ Active' = Active /\ (Approved <=> Approved')
    BY <1>4 DEF CancelJob, Active, Approved
  <2>2. Moves("CANCELLED")
    BY <1>4, <2>1 DEF CancelJob, Moves
  <2> QED
    BY <2>1, <2>2, MovesArePromised DEF DealsAreSound
<1>5. CASE Lapse
  <2>1. quotes \in Seq(QuoteStatuses) /\ offer \in [Providers -> OfferStatuses]
    BY DEF TypeOK
  <2>2. Approved <=> Approved'
    BY <1>5, <2>1 DEF Lapse, Approved
  <2>3. \A p \in Providers : offer'[p] # "NONE" => offer[p] # "NONE"
    BY <1>5, <2>1 DEF Lapse
  <2> QED
    BY <1>1, <1>5, <2>2, <2>3 DEF Lapse
<1>6. CASE Sweep
  <2> DEFINE expired == [p \in Providers |-> IF offer[p] = "LAPSED" THEN "EXPIRED" ELSE offer[p]]
             uncovered == Dispatchable /\ Active = {} /\ \A p \in Providers : expired[p] # "PENDING"
  <2>1. PICK ps \in SUBSET {p \in Providers : uncovered /\ rank[p] > 0 /\ offer[p] = "NONE"} :
          offer' = [p \in Providers |-> IF p \in ps THEN "PENDING" ELSE expired[p]]
    BY <1>6, Zenon DEF Sweep
  <2>2. \A p \in Providers : offer'[p] # "NONE" => offer[p] # "NONE" \/ Approved
    BY <2>1 DEF Dispatchable
  <2>3. UNCHANGED <<job, assignment, quotes>>
    BY <1>6 DEF Sweep
  <2> QED
    BY <1>1, <2>2, <2>3 DEF Approved
<1>7. ASSUME NEW u \in Users, NEW f \in page[u], Send(u, f)
      PROVE  [Promise!Next]_(Promise!vars) /\ DealsAreSound'
  BY <1>7, PromiseOfForms
<1> QED
  BY <1>2, <1>3, <1>4, <1>5, <1>6, <1>7 DEF Next, JobStep, Render, Rerank, vars

\* Whatever users send from pages of whatever age, and whatever happens beside the
\* console, the job is dispatched as Brokerage promises: so a customer's page, a
\* dispatcher's and a provider's never give the job to two providers, nor to one
\* without an approved price.
THEOREM ConsoleImplementsBrokerage == Spec => KeepsPromise
<1>1. Init => PromiseInv
  BY InitHolds, PromiseInit DEF PromiseInv
<1>2. PromiseInv /\ [Next]_vars => PromiseInv' /\ [Promise!Next]_(Promise!vars)
  BY InvStep, PromiseStep DEF PromiseInv
<1>3. Init => Promise!Init
  BY PromiseInit
<1> QED
  BY <1>1, <1>2, <1>3, PTL DEF Spec, KeepsPromise, Promise!Spec

\* Behind the pages, work is done by the one provider that holds the job, at a
\* price the customer approved: it follows from the promise.
THEOREM WorkIsHeldByOne == Spec => []Promise!WorkHasOneHolder
BY ConsoleImplementsBrokerage, Promise!WorkIsHeldByOne, PTL DEF KeepsPromise
=============================================================================
