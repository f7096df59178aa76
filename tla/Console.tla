------------------------------ MODULE Console ------------------------------
(***************************************************************************)
(* The web console (apps/web) in front of the API: which forms each page   *)
(* shows for a job, what becomes of a form that is sent from a page that   *)
(* is out of date, and whether every job that is not over has a page with  *)
(* a form that moves it on.                                                *)
(*                                                                         *)
(* A page is rendered from reads of that moment and stays as it is until   *)
(* its user renders it again or an action sent from it comes back.  A form *)
(* that the API refuses, or that the console's own validation stops,       *)
(* changes nothing but the error it shows, and is no step here.  The       *)
(* handlers of the API are one step, except that pricing reads the job     *)
(* before it writes (module Dispatch has the steps of the others).         *)
(***************************************************************************)
EXTENDS JobStatus, Naturals, Sequences, FiniteSets

CONSTANTS
  Customers, Dispatchers, Providers,  \* who has a page open
  MaxProviders,                       \* how many a form offers the job to at most
  MaxQuotes                           \* bound: the quotes of the job

ASSUME ConsoleAssumption ==
  /\ MaxQuotes \in Nat \ {0} /\ MaxProviders \in Nat \ {0}
  /\ Customers # {} /\ Dispatchers # {}
  /\ Customers \cap (Dispatchers \cup Providers) = {} /\ Dispatchers \cap Providers = {}

VARIABLES
  job,         \* the status of the job
  quotes,      \* its quotes in the order of their creation
  offer,       \* the offer to each provider
  assignment,  \* the assignment of each provider
  proof,       \* whether a piece of evidence is marked UPLOADED
  quoting,     \* the dispatchers whose price is between its check and its rows
  page,        \* the forms on the page that each user has open
  rank         \* the rank of each provider for the job, 0 if it is not eligible

store == <<job, quotes, offer, assignment, proof>>
vars  == <<store, quoting, page, rank>>

Users == Customers \cup Dispatchers \cup Providers

\* A quote past validUntil, or an offer past expiresAt, is LAPSED here until it
\* is written EXPIRED: in the store it is still SENT, or PENDING.
QuoteStatuses  == {"SENT", "LAPSED", "APPROVED", "REJECTED"}
OfferStatuses  == {"NONE", "PENDING", "LAPSED", "ACCEPTED", "DECLINED", "EXPIRED", "WITHDRAWN"}
AssignStatuses == {"NONE", "ACTIVE", "FELL_THROUGH"}

Active == {p \in Providers : assignment[p] = "ACTIVE"}

Approved == \E i \in DOMAIN quotes : quotes[i] = "APPROVED"

Dispatchable == job = "QUOTED" /\ Approved

\* The eligible ones are ranked 1, 2, ...
Rankings ==
  {r \in [Providers -> 0..Cardinality(Providers)] :
     \A p \in Providers : r[p] > 0 =>
       /\ \A q \in Providers \ {p} : r[q] # r[p]
       /\ r[p] > 1 => \E q \in Providers : r[q] = r[p] - 1}

\* Those that a form offers the job to, whether or not they were asked before.
Best == {p \in Providers : rank[p] > 0 /\ rank[p] <= MaxProviders}

-------------------------------------------------------------------------------
(* Forms; the one about a quote names it *)

Form(kind) == [kind |-> kind, quote |-> 0]

NewRequestForm    == Form("NEW_REQUEST")
ApproveTriageForm == Form("APPROVE_TRIAGE")
CreateQuoteForm   == Form("CREATE_QUOTE")
CreateOffersForm  == Form("CREATE_OFFERS")
FallbackForm      == Form("FALLBACK")
StartJobForm      == Form("START")
CompleteJobForm   == Form("COMPLETE")
EvidenceUploadForm == Form("UPLOAD")
QuoteDecision(i) == [kind |-> "DECIDE_QUOTE", quote |-> i]

\* An expired offer can still be declined.
OfferResponse(expired) ==
  IF expired THEN {Form("DECLINE")} ELSE {Form("ACCEPT"), Form("DECLINE")}

-------------------------------------------------------------------------------
(* Pages: the forms shown for what the store holds *)

\* The decision is about the first quote that is SENT, whatever its validUntil
\* and the job's status.  (The price above it is that of the approved quote or
\* else of the last one: not of the quote decided about, if there are two.)
CustomerJobPage ==
  {QuoteDecision(i) : i \in {i \in DOMAIN quotes :
     /\ quotes[i] \in {"SENT", "LAPSED"}
     /\ \A k \in 1..(i - 1) : quotes[k] \notin {"SENT", "LAPSED"}}}

CustomerPage == IF job = "ABSENT" THEN {NewRequestForm} ELSE CustomerJobPage

DispatchPage ==
  {f \in {ApproveTriageForm, CreateQuoteForm, CreateOffersForm, FallbackForm} :
     /\ f = ApproveTriageForm => job = "DRAFT"
     /\ f = CreateQuoteForm => job = "TRIAGED"
     /\ f = CreateOffersForm => Dispatchable
     /\ f = FallbackForm => job \in {"ASSIGNED", "IN_PROGRESS"}}

\* The open offers of a provider.
ProviderInboxPage(p) ==
  IF offer[p] \in {"PENDING", "LAPSED"} THEN OfferResponse(offer[p] = "LAPSED") ELSE {}

\* A job is visible to whoever has, or had, an assignment on it.
ProviderJobPage(p) ==
  {f \in {StartJobForm, CompleteJobForm, EvidenceUploadForm} :
     /\ assignment[p] # "NONE"
     /\ f = StartJobForm => job = "ASSIGNED"
     /\ f = CompleteJobForm => job = "IN_PROGRESS" /\ proof}

Page(u) ==
  IF u \in Customers THEN CustomerPage
  ELSE IF u \in Dispatchers THEN DispatchPage
  ELSE ProviderInboxPage(u) \cup ProviderJobPage(u)

-------------------------------------------------------------------------------
Init ==
  /\ job = "ABSENT"
  /\ quotes = <<>>
  /\ offer = [p \in Providers |-> "NONE"]
  /\ assignment = [p \in Providers |-> "NONE"]
  /\ proof = FALSE
  /\ quoting = {}
  /\ page = [u \in Users |-> {}]
  /\ rank \in Rankings

-------------------------------------------------------------------------------
(* What the API allows *)

MayDecideAnyOpen(i) == quotes[i] # "LAPSED"
MayDecide(i)   == quotes[i] = "SENT"
MayOfferOnce   == Dispatchable /\ Best # {} /\ \A p \in Providers : offer[p] = "NONE"
MayOffer       == Dispatchable /\ Best # {}
MayAccept(p)   == offer[p] = "PENDING" /\ Active = {} /\ CanTransition(job, "ASSIGNED")
MayDecline(p)  == offer[p] \in {"PENDING", "LAPSED"}
MayStart(p)    == Active = {p} /\ CanTransition(job, "IN_PROGRESS")
MayComplete(p) == Active = {p} /\ proof /\ CanTransition(job, "COMPLETED")
MayUpload(p)   == Active = {p}
MayFallBack    == Active # {} /\ CanTransition(job, "QUOTED")

-------------------------------------------------------------------------------
(* Server actions: a form f that is sent from the page of u and accepted *)

CreateJobAction(u, f) ==
  /\ f = NewRequestForm
  /\ job = "ABSENT"
  /\ job' = "DRAFT"
  /\ UNCHANGED <<quotes, offer, assignment, proof, quoting>>

ApproveTriageAction(u, f) ==
  /\ f = ApproveTriageForm
  /\ CanTransition(job, "TRIAGED")
  /\ job' = "TRIAGED"
  /\ UNCHANGED <<quotes, offer, assignment, proof, quoting>>

\* The check; the quote and the move of the job follow in FinishQuote.
CreateQuoteAction(u, f) ==
  /\ f = CreateQuoteForm
  /\ job = "TRIAGED"
  /\ u \notin quoting
  /\ quoting' = quoting \cup {u}
  /\ UNCHANGED store

\* Those of the best that were not asked before: it may be nobody.
CreateOffersAction(u, f) ==
  /\ f = CreateOffersForm
  /\ MayOffer
  /\ offer' = [p \in Providers |->
                 IF p \in Best /\ offer[p] = "NONE" THEN "PENDING" ELSE offer[p]]
  /\ UNCHANGED <<job, quotes, assignment, proof, quoting>>

FallbackAction(u, f) ==
  /\ f = FallbackForm
  /\ MayFallBack
  /\ job' = "QUOTED"
  /\ assignment' = [p \in Providers |-> IF p \in Active THEN "FELL_THROUGH" ELSE assignment[p]]
  /\ UNCHANGED <<quotes, offer, proof, quoting>>

DecideQuoteAction(u, f) ==
  /\ f.kind = "DECIDE_QUOTE"
  /\ MayDecide(f.quote)
  /\ \E decision \in {"APPROVED", "REJECTED"} : quotes' = [quotes EXCEPT ![f.quote] = decision]
  /\ UNCHANGED <<job, offer, assignment, proof, quoting>>

RespondToOfferAction(u, f) ==
  \/ /\ f = Form("ACCEPT")
     /\ MayAccept(u)
     /\ job' = "ASSIGNED"
     /\ assignment' = [assignment EXCEPT ![u] = "ACTIVE"]
     /\ offer' = [p \in Providers |->
                    IF p = u THEN "ACCEPTED"
                    ELSE IF offer[p] \in {"PENDING", "LAPSED"} THEN "WITHDRAWN" ELSE offer[p]]
     /\ UNCHANGED <<quotes, proof, quoting>>
  \/ /\ f = Form("DECLINE")
     /\ MayDecline(u)
     /\ offer' = [offer EXCEPT ![u] = "DECLINED"]
     /\ UNCHANGED <<job, quotes, assignment, proof, quoting>>

StartJobAction(u, f) ==
  /\ f = StartJobForm
  /\ MayStart(u)
  /\ job' = "IN_PROGRESS"
  /\ UNCHANGED <<quotes, offer, assignment, proof, quoting>>

CompleteJobAction(u, f) ==
  /\ f = CompleteJobForm
  /\ MayComplete(u)
  /\ job' = "COMPLETED"
  /\ UNCHANGED <<quotes, offer, assignment, proof, quoting>>

\* A ticket, the PUT, and the confirmation, which is also sent when the PUT
\* failed for another reason than a fault of storage.
UploadEvidenceAction(u, f) ==
  /\ f = EvidenceUploadForm
  /\ MayUpload(u)
  /\ proof' \in {proof, TRUE}
  /\ UNCHANGED <<job, quotes, offer, assignment, quoting>>

Send(u, f) ==
  /\ f \in page[u]
  /\ \/ CreateJobAction(u, f)
     \/ ApproveTriageAction(u, f)
     \/ CreateQuoteAction(u, f)
     \/ CreateOffersAction(u, f)
     \/ FallbackAction(u, f)
     \/ DecideQuoteAction(u, f)
     \/ RespondToOfferAction(u, f)
     \/ StartJobAction(u, f)
     \/ CompleteJobAction(u, f)
     \/ UploadEvidenceAction(u, f)

\* revalidatePath: the page comes back as the store is now; or the answer is
\* lost on its way, and the page stays with an error and its forms.
Answer(u) == page' = [page EXCEPT ![u] = Page(u)'] \/ UNCHANGED page

\* The rows of a price that was checked: the quote first, then the status,
\* which the table may by then refuse; the quote stays.
FinishQuote(u) ==
  /\ u \in quoting
  /\ Len(quotes) < MaxQuotes
  /\ quoting' = quoting \ {u}
  /\ quotes' = Append(quotes, "SENT")
  /\ job' = IF CanTransition(job, "QUOTED") THEN "QUOTED" ELSE job
  /\ UNCHANGED <<offer, assignment, proof>>

\* A user opens its page, or opens it again.
Render(u) ==
  /\ page[u] # Page(u)
  /\ page' = [page EXCEPT ![u] = Page(u)]
  /\ UNCHANGED <<store, quoting>>

-------------------------------------------------------------------------------
(* What happens beside the console *)

\* Cancelled by another client of the API: no page of the console has the form.
CancelJob ==
  /\ CanTransition(job, "CANCELLED")
  /\ job' = "CANCELLED"
  /\ UNCHANGED <<quotes, offer, assignment, proof, quoting, page>>

\* Time: a quote or an offer passes its deadline.
Lapse ==
  /\ \/ /\ \E i \in DOMAIN quotes :
              quotes[i] = "SENT" /\ quotes' = [quotes EXCEPT ![i] = "LAPSED"]
        /\ UNCHANGED offer
     \/ /\ \E p \in Providers : /\ offer[p] = "PENDING"
                                /\ offer' = [offer EXCEPT ![p] = "LAPSED"]
        /\ UNCHANGED quotes
  /\ UNCHANGED <<job, assignment, proof, quoting, page>>

\* The sweep: what lapsed expires, and a job left without an open offer is
\* offered to eligible providers that were not asked before, or not.
Sweep ==
  LET expired == [p \in Providers |-> IF offer[p] = "LAPSED" THEN "EXPIRED" ELSE offer[p]]
      uncovered == Dispatchable /\ Active = {} /\ \A p \in Providers : expired[p] # "PENDING"
  IN  /\ expired # offer
      /\ \E ps \in SUBSET {p \in Providers : uncovered /\ rank[p] > 0 /\ offer[p] = "NONE"} :
           offer' = [p \in Providers |-> IF p \in ps THEN "PENDING" ELSE expired[p]]
      /\ UNCHANGED <<job, quotes, assignment, proof, quoting, page>>

\* The fleet: who is eligible, and in which order, is worked out anew by every
\* call, and changes as providers are reviewed, pause, take jobs and finish them.
Rerank ==
  /\ rank' \in Rankings \ {rank}
  /\ UNCHANGED <<store, quoting, page>>

JobStep ==
  \/ \E u \in Users :
       \/ \E f \in page[u] : Send(u, f) /\ Answer(u)
       \/ FinishQuote(u) /\ Answer(u)
       \/ Render(u)
  \/ CancelJob
  \/ Lapse
  \/ Sweep

Next ==
  \/ JobStep /\ UNCHANGED rank
  \/ Rerank

Spec == Init /\ [][Next]_vars

-------------------------------------------------------------------------------
(* Properties *)

\* A page that is out of date does no harm: a form sent from it is accepted only
\* while the page, rendered anew, would have the same form on it.  This is what
\* the guards of the API owe to pages that are opened twice, left open while
\* others act, or sent again after an answer was lost.
StaleFormsDoNothingNew ==
  [][\A u \in Users : \A f \in page[u] :
       Send(u, f) => f \in Page(u)]_vars

\* A job whose only quote was rejected or lapsed has no form to price it again;
\* one with two quotes may be as stuck.
Unpriced == job = "QUOTED" /\ (Len(quotes) > 1 \/ quotes[1] \in {"REJECTED", "LAPSED"})

\* A job with an approved price, but no open offer and nobody new among the best:
\* with no eligible provider the API refuses the form (NO_ELIGIBLE_PROVIDER), and
\* with the best all asked it accepts it and creates no offer.
NobodyLeft ==
  /\ Dispatchable
  /\ \A p \in Best : offer[p] # "NONE"
  /\ \A p \in Providers : offer[p] \notin {"PENDING", "LAPSED"}

\* The form is accepted, and changes something.
Accepted(u, f) ==
  CASE f = NewRequestForm      -> job = "ABSENT"
    [] f = ApproveTriageForm   -> CanTransition(job, "TRIAGED")
    [] f = CreateQuoteForm     -> job = "TRIAGED"
    [] f = CreateOffersForm    -> MayOffer /\ \E p \in Best : offer[p] = "NONE"
    [] f = FallbackForm        -> MayFallBack
    [] f.kind = "DECIDE_QUOTE" -> MayDecide(f.quote)
    [] f = Form("ACCEPT")      -> MayAccept(u)
    [] f = Form("DECLINE")     -> MayDecline(u)
    [] f = StartJobForm        -> MayStart(u)
    [] f = CompleteJobForm     -> MayComplete(u)
    [] f = EvidenceUploadForm  -> MayUpload(u)

\* A job that waits for its first price, or has one and somebody to ask, never gets
\* out of everybody's hands: some page has a form on it that the API accepts and
\* that changes something.  (The two dead ends above are those of the console,
\* which has no form to price a job again, to ask beyond the best, nor to cancel.)
SomebodyCanAct ==
  job \notin Terminal /\ ~Unpriced /\ ~NobodyLeft => \E u \in Users : \E f \in Page(u) : Accepted(u, f)
-------------------------------------------------------------------------------
(* What users do from their pages keeps the promise of Brokerage             *)

TheJob == {"the job"}
StatusMap == [j \in TheJob |-> job]
AgreedMap == {j \in TheJob : Approved}
ClaimsMap == [j \in TheJob |-> Active]

Promise ==
  INSTANCE Brokerage WITH Jobs <- TheJob, status <- StatusMap, agreed <- AgreedMap,
                          claims <- ClaimsMap

KeepsPromise == Promise!Spec
=============================================================================
