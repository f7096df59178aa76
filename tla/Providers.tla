----------------------------- MODULE Providers -----------------------------
(***************************************************************************)
(* Providers and the ranking that reads them: onboarding and review        *)
(* (routes/providers.ts, store/prisma.ts), the cached road distances of    *)
(* lib/maps.ts, and rankForJob of lib/dispatch.ts, which reads the         *)
(* providers, then a distance for each, then each fleet and each set of    *)
(* documents, with an await before every one of them.                      *)
(*                                                                         *)
(* What never changes after it was created is a constant: where a provider *)
(* is, what a vehicle can carry, what a document is and when it expires.   *)
(***************************************************************************)
EXTENDS Eligibility

CONSTANTS
  Providers,   \* bound: the providers that register
  Facts,       \* per provider: id, base, radius, services
  Fleet,       \* per provider: the vehicles it may register
  Job,         \* the job that is ranked for: type, pickup, items
  Papers,      \* per provider: the documents it may submit (id, type, expiresAt)
  Rankings,    \* the rankings that may be under way at once
  RoadKm,      \* the distances the map service may answer
  Ttl,         \* MAPS_CACHE_TTL_MS
  MaxTime      \* bound: the clock

ASSUME ProvidersAssumption ==
  /\ DOMAIN Facts = Providers /\ DOMAIN Fleet = Providers /\ DOMAIN Papers = Providers
  /\ RoadKm \subseteq Nat
  /\ {Ttl, MaxTime} \subseteq Nat

VARIABLES
  status,     \* the status of a provider; "ABSENT" before it registers
  accepting,  \* its own switch, acceptingWork
  fleet,      \* its registered vehicles
  papers,     \* the status of each document it submitted
  cache,      \* routes: the cached answer for a base (and the pickup), and since when
  measured,   \* what the map service answered so far, and when
  ranking,    \* what each ranking under way has read
  seen,       \* which gates a provider met at some moment of a ranking
  now

registry == <<status, accepting, fleet, papers>>
maps     == <<cache, measured>>
vars     == <<registry, maps, ranking, seen, now>>

-------------------------------------------------------------------------------
ProviderStatuses == {"ABSENT", "PENDING", "ACTIVE", "SUSPENDED", "REJECTED"}
DocumentStatuses == {"ABSENT", "PENDING", "VERIFIED", "REJECTED"}

\* What rankForJob asks for: a small van, whatever the triage approved.
Demand == [type |-> Job.type, pickup |-> Job.pickup, class |-> "SMALL_VAN",
           weight |-> Load(Job.items).weight, volume |-> Load(Job.items).volume]

Base(p) == Facts[p].base
Bases   == {Base(p) : p \in Providers}

NoEntry == [km |-> Unmeasured, at |-> 0]

\* What a ranking knows of a provider: the fields that eligibility reads.
Known(p) ==
  [id |-> Facts[p].id, base |-> Base(p), radius |-> Facts[p].radius,
   services |-> Facts[p].services, status |-> status[p], accepting |-> accepting[p],
   road |-> Unmeasured, vehicles |-> {}, documents |-> {}]

Documents(p) ==
  {[type |-> d.type, status |-> papers[p][d], expiresAt |-> d.expiresAt] :
     d \in {d \in Papers[p] : papers[p][d] # "ABSENT"}}

Registered == {p \in Providers : status[p] # "ABSENT"}

\* todo: the providers it has yet to route; ask: the one of them it waits for;
\* fleets and files: those whose vehicles and documents it has read.
Idle == [now |-> 0, known |-> <<>>, todo |-> {}, ask |-> {},
         fleets |-> {}, files |-> {}]

Routing(q)  == ranking[q].todo \cup ranking[q].ask
Complete(q) == ranking[q] # Idle /\ ranking[q].files = DOMAIN ranking[q].known

TypeOK ==
  /\ status \in [Providers -> ProviderStatuses]
  /\ accepting \in [Providers -> BOOLEAN]
  /\ DOMAIN fleet = Providers /\ DOMAIN papers = Providers
  /\ \A p \in Providers : fleet[p] \subseteq Fleet[p]
  /\ \A p \in Providers : papers[p] \in [Papers[p] -> DocumentStatuses]
  /\ cache \in [Bases -> [km : RoadKm, at : 0..now] \cup {NoEntry}]
  /\ measured \subseteq [base : Bases, km : RoadKm, at : 0..now]
  /\ \A q \in Rankings :
       /\ DOMAIN ranking[q].known \subseteq Registered
       /\ ranking[q].todo \cup ranking[q].ask \cup ranking[q].fleets \cup ranking[q].files
            \subseteq DOMAIN ranking[q].known
  /\ now \in Nat

Init ==
  /\ status = [p \in Providers |-> "ABSENT"]
  /\ accepting = [p \in Providers |-> FALSE]
  /\ fleet = [p \in Providers |-> {}]
  /\ papers = [p \in Providers |-> [d \in Papers[p] |-> "ABSENT"]]
  /\ cache = [b \in Bases |-> NoEntry]
  /\ measured = {}
  /\ ranking = [q \in Rankings |-> Idle]
  /\ seen = [q \in Rankings |-> [p \in Providers |-> {}]]
  /\ now = 0

-------------------------------------------------------------------------------
(* The registry: one transaction each *)

\* POST /providers: PENDING, and willing by default.
CreateProvider(p) ==
  /\ status[p] = "ABSENT"
  /\ status' = [status EXCEPT ![p] = "PENDING"]
  /\ accepting' = [accepting EXCEPT ![p] = TRUE]
  /\ UNCHANGED <<fleet, papers>>

\* POST /providers/:id/review: by compliance, any of the three whatever the status was.
ReviewProvider(p) ==
  /\ p \in Registered
  /\ \E to \in {"ACTIVE", "SUSPENDED", "REJECTED"} : status' = [status EXCEPT ![p] = to]
  /\ UNCHANGED <<accepting, fleet, papers>>

\* POST /providers/:id/availability: the provider's own switch.
SetAvailability(p) ==
  /\ p \in Registered
  /\ accepting' = [accepting EXCEPT ![p] = ~@]
  /\ UNCHANGED <<status, fleet, papers>>

\* POST /providers/:id/vehicles: a plate once.
CreateVehicle(p) ==
  /\ p \in Registered
  /\ \E v \in Fleet[p] \ fleet[p] : fleet' = [fleet EXCEPT ![p] = @ \cup {v}]
  /\ UNCHANGED <<status, accepting, papers>>

\* POST /providers/:id/documents: submitted, to be reviewed.
CreateDocument(p) ==
  /\ p \in Registered
  /\ \E d \in Papers[p] : /\ papers[p][d] = "ABSENT"
                          /\ papers' = [papers EXCEPT ![p][d] = "PENDING"]
  /\ UNCHANGED <<status, accepting, fleet>>

\* POST /providers/:id/documents/:documentId/review.
ReviewDocument(p) ==
  /\ \E d \in Papers[p], to \in {"VERIFIED", "REJECTED"} :
       /\ papers[p][d] # "ABSENT"
       /\ papers' = [papers EXCEPT ![p][d] = to]
  /\ UNCHANGED <<status, accepting, fleet>>

RegistryStep ==
  \E p \in Providers :
    /\ \/ CreateProvider(p)
       \/ ReviewProvider(p)
       \/ SetAvailability(p)
       \/ CreateVehicle(p)
       \/ CreateDocument(p)
       \/ ReviewDocument(p)
    /\ UNCHANGED <<maps, ranking, now>>

-------------------------------------------------------------------------------
(* rankForJob *)

\* The clock is read first, then listProviders, of every status.
BeginRanking(q) ==
  /\ ranking[q] = Idle
  /\ Registered # {}
  /\ ranking' = [ranking EXCEPT ![q] =
       [Idle EXCEPT !.now = now, !.todo = Registered,
                    !.known = [p \in Registered |-> Known(p)]]]
  /\ UNCHANGED maps

Routed(q, p, km) ==
  ranking' = [ranking EXCEPT ![q].todo = @ \ {p}, ![q].ask = {}, ![q].known[p].road = km]

FreshAlways(p) == cache[Base(p)] # NoEntry

\* fresh: an entry is used for less than its time to live.
Fresh(p) == cache[Base(p)] # NoEntry /\ now - cache[Base(p)].at < Ttl

\* CachingMaps.route, answered from the cache.
RouteFromCache(q, p) ==
  /\ ranking[q].ask = {}
  /\ p \in ranking[q].todo
  /\ Fresh(p)
  /\ Routed(q, p, cache[Base(p)].km)
  /\ UNCHANGED maps

\* One provider at a time, because the map service is to be asked slowly.
AskRoute(q, p) ==
  /\ ranking[q].ask = {}
  /\ p \in ranking[q].todo
  /\ ~Fresh(p)
  /\ ranking' = [ranking EXCEPT ![q].ask = {p}]
  /\ UNCHANGED maps

AnswerKeptUntil(q, p) ==
  /\ p \in ranking[q].ask
  /\ \E km \in RoadKm :
       /\ measured' = measured \cup {[base |-> Base(p), km |-> km, at |-> now]}
       /\ cache' = [cache EXCEPT ![Base(p)] = [km |-> km, at |-> now + Ttl]]
       /\ Routed(q, p, km)

\* The map service answers, some time later, and its answer is kept; or it
\* fails, and an estimate answers that is neither kept nor taken for a road.
RouteAnswered(q, p) ==
  /\ p \in ranking[q].ask
  /\ \/ \E km \in RoadKm :
            /\ measured' = measured \cup {[base |-> Base(p), km |-> km, at |-> now]}
            /\ cache' = [cache EXCEPT ![Base(p)] = [km |-> km, at |-> now]]
            /\ Routed(q, p, km)
     \/ Routed(q, p, Unmeasured) /\ UNCHANGED maps

\* listVehicles and listDocuments, provider by provider in any order, but the
\* vehicles of a provider before its documents.
ReadFleet(q, p) ==
  /\ Routing(q) = {}
  /\ p \in DOMAIN ranking[q].known \ ranking[q].fleets
  /\ ranking' = [ranking EXCEPT ![q].fleets = @ \cup {p}, ![q].known[p].vehicles = fleet[p]]
  /\ UNCHANGED maps

ReadDocuments(q, p) ==
  /\ Routing(q) = {}
  /\ p \in ranking[q].fleets \ ranking[q].files
  /\ ranking' = [ranking EXCEPT ![q].files = @ \cup {p},
                                ![q].known[p].documents = Documents(p)]
  /\ UNCHANGED maps

\* The caller offers the job to the best of those that were found eligible.
EndRanking(q) ==
  /\ Complete(q)
  /\ ranking' = [ranking EXCEPT ![q] = Idle]
  /\ UNCHANGED maps

RankingStep ==
  /\ \E q \in Rankings :
       \/ BeginRanking(q)
       \/ EndRanking(q)
       \/ \E p \in Providers :
            RouteFromCache(q, p) \/ AskRoute(q, p) \/ RouteAnswered(q, p)
              \/ ReadFleet(q, p) \/ ReadDocuments(q, p)
  /\ UNCHANGED <<registry, now>>

Tick ==
  /\ now < MaxTime
  /\ now' = now + 1
  /\ UNCHANGED <<registry, maps, ranking>>

\* The gates that a provider meets on the facts of this moment, its documents
\* judged by the clock of the ranking.
GatesMet(q, p) ==
  {gate \in {"ACTIVE", "ACCEPTING", "VEHICLE"} \cup RequiredDocumentTypes :
     /\ gate = "ACTIVE" => status[p] = "ACTIVE"
     /\ gate = "ACCEPTING" => accepting[p]
     /\ gate = "VEHICLE" => Suitable(fleet[p], Demand) # {}
     /\ gate \in RequiredDocumentTypes =>
          \E d \in Documents(p) :
            d.type = gate /\ d.status = "VERIFIED" /\ Unexpired(d, ranking[q].now)}

\* History: every gate met since the ranking began.
Observe ==
  seen' = [q \in Rankings |-> [p \in Providers |->
             IF ranking'[q] = Idle THEN {}
             ELSE seen[q][p] \cup GatesMet(q, p)']]

Next == (RegistryStep \/ RankingStep \/ Tick) /\ Observe

Spec == Init /\ [][Next]_vars

-------------------------------------------------------------------------------
(* Properties *)

Chosen(q) ==
  {p \in DOMAIN ranking[q].known : IsEligible(ranking[q].known[p], Demand, ranking[q].now)}

\* Whoever a ranking finds eligible did meet every gate during that ranking, if
\* not all of them at one moment: suspensions, pauses, reviews and the clock
\* come between its reads, but nothing it goes by is older than its beginning.
EligibleOnRecentFacts ==
  \A q \in Rankings : Complete(q) =>
    \A p \in Chosen(q) :
      {"ACTIVE", "ACCEPTING", "VEHICLE"} \cup RequiredDocumentTypes \subseteq seen[q][p]

\* A distance taken for a road distance was measured, from this base, less
\* than the cache's time to live before the ranking, or during it: estimates
\* are never taken for measurements, and measurements are not kept for ever.
RoadDistancesAreMeasured ==
  \A q \in Rankings : \A p \in DOMAIN ranking[q].known :
    ranking[q].known[p].road # Unmeasured =>
      \E m \in measured : /\ m.base = Base(p) /\ m.km = ranking[q].known[p].road
                          /\ m.at >= ranking[q].now \/ ranking[q].now - m.at < Ttl
=============================================================================
