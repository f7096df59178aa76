--------------------------- MODULE ProvidersProofs ---------------------------
(***************************************************************************)
(* Theorems about Providers for any set of providers, fleets, papers and   *)
(* rankings under way, any distances and any time to live of the cache.    *)
(***************************************************************************)
EXTENDS Providers, TLAPS

-----------------------------------------------------------------------------
(* The inductive invariant *)

\* A ranking, and what it knows of each provider, are records.
IsRanking(r) ==
  r = [now |-> r.now, known |-> r.known, todo |-> r.todo, ask |-> r.ask,
       fleets |-> r.fleets, files |-> r.files]

IsKnowledge(k) ==
  k = [id |-> k.id, base |-> k.base, radius |-> k.radius, services |-> k.services,
       status |-> k.status, accepting |-> k.accepting, road |-> k.road,
       vehicles |-> k.vehicles, documents |-> k.documents]

RankingShape ==
  /\ DOMAIN ranking = Rankings
  /\ \A q \in Rankings :
       /\ IsRanking(ranking[q])
       /\ ranking[q].now \in 0..now
       /\ \A p \in DOMAIN ranking[q].known : p \in Providers /\ IsKnowledge(ranking[q].known[p])

\* Whatever a ranking has read that speaks for a provider was true during it.
KnowledgeIsRecent ==
  \A q \in Rankings : \A p \in DOMAIN ranking[q].known :
    LET k == ranking[q].known[p]
    IN  /\ k.status = "ACTIVE" => "ACTIVE" \in seen[q][p]
        /\ k.accepting => "ACCEPTING" \in seen[q][p]
        /\ Suitable(k.vehicles, Demand) # {} => "VEHICLE" \in seen[q][p]
        /\ \A type \in RequiredDocumentTypes :
             DocumentHeld(k.documents, type, ranking[q].now) => type \in seen[q][p]

\* What is cached was measured when the cache says it was.
CacheIsMeasured ==
  \A b \in Bases : cache[b] # NoEntry => [base |-> b, km |-> cache[b].km, at |-> cache[b].at] \in measured

IInv ==
  /\ TypeOK
  /\ RankingShape
  /\ KnowledgeIsRecent
  /\ CacheIsMeasured
  /\ RoadDistancesAreMeasured

LEMMA InitHolds == Init => IInv
<1> SUFFICES ASSUME Init PROVE IInv
  OBVIOUS
<1>1. /\ DOMAIN ranking = Rankings
      /\ \A q \in Rankings : ranking[q] = Idle
  BY DEF Init
<1>2. DOMAIN Idle.known = {} /\ Idle.now = 0 /\ Idle.todo \cup Idle.ask \cup Idle.fleets \cup Idle.files = {}
  BY DEF Idle
<1>3. IsRanking(Idle)
  BY DEF IsRanking, Idle
<1>4. now = 0
  BY DEF Init
<1>5. TypeOK
  <2>1. /\ status \in [Providers -> ProviderStatuses]
        /\ accepting \in [Providers -> BOOLEAN]
        /\ DOMAIN fleet = Providers /\ DOMAIN papers = Providers
        /\ \A p \in Providers : fleet[p] \subseteq Fleet[p]
        /\ \A p \in Providers : papers[p] \in [Papers[p] -> DocumentStatuses]
        /\ cache \in [Bases -> [km : RoadKm, at : 0..now] \cup {NoEntry}]
        /\ measured \subseteq [base : Bases, km : RoadKm, at : 0..now]
    BY DEF Init, ProviderStatuses, DocumentStatuses
  <2> QED
    BY <1>1, <1>2, <1>4, <2>1 DEF TypeOK
<1>6. RankingShape /\ KnowledgeIsRecent /\ RoadDistancesAreMeasured
  BY <1>1, <1>2, <1>3, <1>4 DEF RankingShape, KnowledgeIsRecent, RoadDistancesAreMeasured
<1>7. CacheIsMeasured
  BY DEF Init, CacheIsMeasured
<1> QED
  BY <1>5, <1>6, <1>7 DEF IInv

-----------------------------------------------------------------------------
(* What a step does to a ranking *)

\* A distance that may be taken for a road distance at the time t.
Measured(answers, p, km, t) ==
  \E m \in answers : /\ m.base = Base(p) /\ m.km = km
                     /\ m.at >= t \/ t - m.at < Ttl

\* What is known of a provider after a step, k, of which l was known before:
\* nothing new, or a distance, or the vehicles or the documents of this moment.
Learns(q, p, l, k) ==
  /\ IsKnowledge(k)
  /\ k.status = l.status /\ k.accepting = l.accepting
  /\ k.road \in {l.road, Unmeasured} \/ Measured(measured', p, k.road, ranking[q].now)
  /\ k.vehicles \in {l.vehicles, fleet[p]}
  /\ k.documents \in {l.documents, Documents(p)}

\* A ranking that has just begun.
Begun == [now |-> now, known |-> [p \in Registered |-> Known(p)], todo |-> Registered,
          ask |-> {}, fleets |-> {}, files |-> {}]

\* A ranking ends, begins, or goes on and learns something.
Goes(q) ==
  \/ ranking'[q] = Idle
  \/ /\ ranking[q] = Idle
     /\ ranking'[q] = Begun
  \/ /\ IsRanking(ranking'[q])
     /\ ranking'[q].now = ranking[q].now
     /\ DOMAIN ranking'[q].known = DOMAIN ranking[q].known
     /\ ranking'[q].todo \cup ranking'[q].ask \cup ranking'[q].fleets \cup ranking'[q].files
          \subseteq DOMAIN ranking[q].known
     /\ \A p \in DOMAIN ranking[q].known :
          Learns(q, p, ranking[q].known[p], ranking'[q].known[p])

LEMMA FieldsOfKnowledge ==
  ASSUME NEW k, IsKnowledge(k), NEW x
  PROVE  /\ [k EXCEPT !.road = x] =
              [id |-> k.id, base |-> k.base, radius |-> k.radius, services |-> k.services,
               status |-> k.status, accepting |-> k.accepting, road |-> x,
               vehicles |-> k.vehicles, documents |-> k.documents]
         /\ [k EXCEPT !.vehicles = x] =
              [id |-> k.id, base |-> k.base, radius |-> k.radius, services |-> k.services,
               status |-> k.status, accepting |-> k.accepting, road |-> k.road,
               vehicles |-> x, documents |-> k.documents]
         /\ [k EXCEPT !.documents = x] =
              [id |-> k.id, base |-> k.base, radius |-> k.radius, services |-> k.services,
               status |-> k.status, accepting |-> k.accepting, road |-> k.road,
               vehicles |-> k.vehicles, documents |-> x]
<1>1. DOMAIN k = {"id", "base", "radius", "services", "status", "accepting", "road",
                  "vehicles", "documents"}
  BY DEF IsKnowledge
<1> QED
  BY <1>1

LEMMA LearnsNothing ==
  ASSUME NEW q, NEW p, NEW k, IsKnowledge(k)
  PROVE  Learns(q, p, k, k)
BY DEF Learns

\* A ranking that a step of another does not touch.
LEMMA OthersGo ==
  ASSUME RankingShape, NEW q \in Rankings, ranking'[q] = ranking[q], TypeOK
  PROVE  Goes(q)
<1>1. CASE ranking[q] = Idle
  BY <1>1 DEF Goes
<1>2. CASE ranking[q] # Idle
  <2>1. IsRanking(ranking[q])
    BY DEF RankingShape
  <2>2. \A p \in DOMAIN ranking[q].known : Learns(q, p, ranking[q].known[p], ranking[q].known[p])
    BY LearnsNothing DEF RankingShape
  <2>3. ranking[q].todo \cup ranking[q].ask \cup ranking[q].fleets \cup ranking[q].files
          \subseteq DOMAIN ranking[q].known
    BY DEF TypeOK
  <2> QED
    BY <2>1, <2>2, <2>3 DEF Goes
<1> QED
  BY <1>1, <1>2

\* The distance of one provider was obtained.
LEMMA RoutedGoes ==
  ASSUME TypeOK, RankingShape, NEW q \in Rankings, NEW p, p \in DOMAIN ranking[q].known,
         NEW km, Routed(q, p, km),
         km = Unmeasured \/ Measured(measured', p, km, ranking[q].now)
  PROVE  Goes(q)
<1> DEFINE r == ranking[q]
           k == r.known[p]
           kn == [k EXCEPT !.road = km]
<1>1. IsRanking(r) /\ q \in DOMAIN ranking
  BY DEF RankingShape
<1>2. \A x \in DOMAIN r.known : IsKnowledge(r.known[x])
  BY DEF RankingShape
<1>3. r.todo \cup r.ask \cup r.fleets \cup r.files \subseteq DOMAIN r.known
  BY DEF TypeOK
<1>4. ranking'[q] = [r EXCEPT !.todo = @ \ {p}, !.ask = {}, !.known[p].road = km]
  BY <1>1 DEF Routed
<1>5. ranking'[q] = [now |-> r.now, known |-> [r.known EXCEPT ![p] = kn],
                     todo |-> r.todo \ {p}, ask |-> {}, fleets |-> r.fleets, files |-> r.files]
  BY <1>1, <1>4 DEF IsRanking
<1>6. IsRanking(ranking'[q]) /\ ranking'[q].now = r.now
      /\ ranking'[q].known = [r.known EXCEPT ![p] = kn]
      /\ ranking'[q].todo \cup ranking'[q].ask \cup ranking'[q].fleets \cup ranking'[q].files
           \subseteq DOMAIN r.known
  BY <1>3, <1>5 DEF IsRanking
<1>7. kn = [id |-> k.id, base |-> k.base, radius |-> k.radius, services |-> k.services,
            status |-> k.status, accepting |-> k.accepting, road |-> km,
            vehicles |-> k.vehicles, documents |-> k.documents]
  BY <1>2, FieldsOfKnowledge, Zenon
<1>8. Learns(q, p, k, kn)
  BY <1>7 DEF Learns, IsKnowledge
<1>9. \A x \in DOMAIN r.known : Learns(q, x, r.known[x], ranking'[q].known[x])
  BY <1>2, <1>6, <1>8, LearnsNothing
<1> QED
  BY <1>6, <1>9 DEF Goes

\* The vehicles or the documents of one provider were read.
LEMMA ReadingGoes ==
  ASSUME TypeOK, RankingShape, NEW q \in Rankings, NEW p,
         ReadFleet(q, p) \/ ReadDocuments(q, p)
  PROVE  Goes(q)
<1> DEFINE r == ranking[q]
           k == r.known[p]
<1>1. IsRanking(r) /\ q \in DOMAIN ranking
  BY DEF RankingShape
<1>2. \A x \in DOMAIN r.known : IsKnowledge(r.known[x])
  BY DEF RankingShape
<1>3. r.todo \cup r.ask \cup r.fleets \cup r.files \subseteq DOMAIN r.known
  BY DEF TypeOK
<1>4. CASE ReadFleet(q, p)
  <2> DEFINE kn == [k EXCEPT !.vehicles = fleet[p]]
  <2>1. /\ p \in DOMAIN r.known
        /\ ranking'[q] = [r EXCEPT !.fleets = @ \cup {p}, !.known[p].vehicles = fleet[p]]
    BY <1>1, <1>4 DEF ReadFleet
  <2>2. ranking'[q] = [now |-> r.now, known |-> [r.known EXCEPT ![p] = kn],
                       todo |-> r.todo, ask |-> r.ask, fleets |-> r.fleets \cup {p},
                       files |-> r.files]
    BY <1>1, <2>1 DEF IsRanking
  <2>3. IsRanking(ranking'[q]) /\ ranking'[q].now = r.now
        /\ ranking'[q].known = [r.known EXCEPT ![p] = kn]
        /\ ranking'[q].todo \cup ranking'[q].ask \cup ranking'[q].fleets \cup ranking'[q].files
             \subseteq DOMAIN r.known
    BY <1>3, <2>1, <2>2 DEF IsRanking
  <2>4. kn = [id |-> k.id, base |-> k.base, radius |-> k.radius, services |-> k.services,
              status |-> k.status, accepting |-> k.accepting, road |-> k.road,
              vehicles |-> fleet[p], documents |-> k.documents]
    BY <1>2, <2>1, FieldsOfKnowledge, Zenon
  <2>5. Learns(q, p, k, kn)
    BY <2>4 DEF Learns, IsKnowledge
  <2>6. \A x \in DOMAIN r.known : Learns(q, x, r.known[x], ranking'[q].known[x])
    BY <1>2, <2>3, <2>5, LearnsNothing
  <2> QED
    BY <2>3, <2>6 DEF Goes
<1>5. CASE ReadDocuments(q, p)
  <2> DEFINE kn == [k EXCEPT !.documents = Documents(p)]
  <2>1. /\ p \in DOMAIN r.known
        /\ ranking'[q] = [r EXCEPT !.files = @ \cup {p}, !.known[p].documents = Documents(p)]
    BY <1>1, <1>3, <1>5 DEF ReadDocuments
  <2>2. ranking'[q] = [now |-> r.now, known |-> [r.known EXCEPT ![p] = kn],
                       todo |-> r.todo, ask |-> r.ask, fleets |-> r.fleets,
                       files |-> r.files \cup {p}]
    BY <1>1, <2>1 DEF IsRanking
  <2>3. IsRanking(ranking'[q]) /\ ranking'[q].now = r.now
        /\ ranking'[q].known = [r.known EXCEPT ![p] = kn]
        /\ ranking'[q].todo \cup ranking'[q].ask \cup ranking'[q].fleets \cup ranking'[q].files
             \subseteq DOMAIN r.known
    BY <1>3, <2>1, <2>2 DEF IsRanking
  <2>4. kn = [id |-> k.id, base |-> k.base, radius |-> k.radius, services |-> k.services,
              status |-> k.status, accepting |-> k.accepting, road |-> k.road,
              vehicles |-> k.vehicles, documents |-> Documents(p)]
    BY <1>2, <2>1, FieldsOfKnowledge, Zenon
  <2>5. Learns(q, p, k, kn)
    BY <2>4 DEF Learns, IsKnowledge
  <2>6. \A x \in DOMAIN r.known : Learns(q, x, r.known[x], ranking'[q].known[x])
    BY <1>2, <2>3, <2>5, LearnsNothing
  <2> QED
    BY <2>3, <2>6 DEF Goes
<1> QED
  BY <1>4, <1>5

\* What a step owes to the cache and to what was measured.
MapsStay ==
  /\ measured \subseteq measured'
  /\ CacheIsMeasured'
  /\ cache' \in [Bases -> [km : RoadKm, at : 0..now'] \cup {NoEntry}]
  /\ measured' \subseteq [base : Bases, km : RoadKm, at : 0..now']

LEMMA UnchangedMapsStay ==
  ASSUME TypeOK, CacheIsMeasured, UNCHANGED maps, now' \in {now, now + 1}
  PROVE  MapsStay
<1>1. 0..now \subseteq 0..now'
  BY DEF TypeOK
<1>2. UNCHANGED <<cache, measured>>
  BY DEF maps
<1>3. cache' \in [Bases -> [km : RoadKm, at : 0..now'] \cup {NoEntry}]
  BY <1>1, <1>2 DEF TypeOK
<1>4. measured' \subseteq [base : Bases, km : RoadKm, at : 0..now']
  BY <1>1, <1>2 DEF TypeOK
<1> QED
  BY <1>2, <1>3, <1>4 DEF MapsStay, CacheIsMeasured

\* The cache answers with what was measured while it was fresh, the service with
\* what it measures now.
LEMMA MapsGo ==
  ASSUME TypeOK, RankingShape, CacheIsMeasured, UNCHANGED now,
         NEW q \in Rankings, NEW p \in Providers, p \in DOMAIN ranking[q].known,
         RouteFromCache(q, p) \/ RouteAnswered(q, p)
  PROVE  MapsStay /\ Goes(q)
<1>0. Base(p) \in Bases /\ ranking[q].now \in 0..now /\ now \in Nat
  BY DEF Bases, RankingShape, TypeOK
<1>1. CASE RouteFromCache(q, p)
  <2> DEFINE m == [base |-> Base(p), km |-> cache[Base(p)].km, at |-> cache[Base(p)].at]
  <2>1. /\ cache[Base(p)] # NoEntry /\ now - cache[Base(p)].at < Ttl
        /\ Routed(q, p, cache[Base(p)].km) /\ UNCHANGED maps
    BY <1>1 DEF RouteFromCache, Fresh
  <2>2. m \in measured /\ UNCHANGED measured
    BY <1>0, <2>1 DEF CacheIsMeasured, maps
  <2>3. m.at \in 0..now
    BY <2>2 DEF TypeOK
  <2>4. m.base = Base(p) /\ m.km = cache[Base(p)].km /\ m.at = cache[Base(p)].at
    OBVIOUS
  <2>5. ranking[q].now - m.at < Ttl
    BY <1>0, <2>1, <2>3, <2>4, ProvidersAssumption
  <2>6. Measured(measured', p, cache[Base(p)].km, ranking[q].now)
    BY <2>2, <2>4, <2>5 DEF Measured
  <2>7. Goes(q)
    BY <2>1, <2>6, RoutedGoes
  <2> QED
    BY <2>1, <2>7, UnchangedMapsStay
<1>2. CASE RouteAnswered(q, p)
  <2>1. CASE Routed(q, p, Unmeasured) /\ UNCHANGED maps
    BY <2>1, RoutedGoes, UnchangedMapsStay
  <2>2. ASSUME NEW km \in RoadKm,
               measured' = measured \cup {[base |-> Base(p), km |-> km, at |-> now]},
               cache' = [cache EXCEPT ![Base(p)] = [km |-> km, at |-> now]],
               Routed(q, p, km)
        PROVE  MapsStay /\ Goes(q)
    <3> DEFINE m == [base |-> Base(p), km |-> km, at |-> now]
    <3>1. m \in measured' /\ m.base = Base(p) /\ m.km = km /\ m.at >= ranking[q].now
      BY <1>0, <2>2
    <3>2. Measured(measured', p, km, ranking[q].now)
      BY <3>1 DEF Measured
    <3>3. m \in [base : Bases, km : RoadKm, at : 0..now] /\ [km |-> km, at |-> now] \in [km : RoadKm, at : 0..now]
      BY <1>0, <2>2
    <3>4. cache' \in [Bases -> [km : RoadKm, at : 0..now'] \cup {NoEntry}]
      BY <2>2, <3>3 DEF TypeOK
    <3>5. measured' \subseteq [base : Bases, km : RoadKm, at : 0..now']
      BY <2>2, <3>3 DEF TypeOK
    <3>6. ASSUME NEW b \in Bases, cache'[b] # NoEntry
          PROVE  [base |-> b, km |-> cache'[b].km, at |-> cache'[b].at] \in measured'
      <4>1. CASE b = Base(p)
        BY <1>0, <2>2, <3>1, <4>1 DEF TypeOK
      <4>2. CASE b # Base(p)
        <5>1. cache'[b] = cache[b]
          BY <2>2, <4>2 DEF TypeOK
        <5> QED
          BY <2>2, <3>6, <5>1 DEF CacheIsMeasured
      <4> QED
        BY <4>1, <4>2
    <3>7. CacheIsMeasured'
      BY <3>6 DEF CacheIsMeasured
    <3> QED
      BY <2>2, <3>2, <3>4, <3>5, <3>7, RoutedGoes DEF MapsStay
  <2> QED
    BY <1>2, <2>1, <2>2, Zenon DEF RouteAnswered
<1> QED
  BY <1>1, <1>2

Touches(q) ==
  /\ DOMAIN ranking' = Rankings
  /\ \A x \in Rankings \ {q} : ranking'[x] = ranking[x]

LEMMA StepTouches ==
  ASSUME RankingShape, NEW q \in Rankings, NEW p,
         \/ BeginRanking(q) \/ EndRanking(q) \/ RouteFromCache(q, p) \/ AskRoute(q, p)
         \/ RouteAnswered(q, p) \/ ReadFleet(q, p) \/ ReadDocuments(q, p)
  PROVE  Touches(q)
<1> USE DEF Touches, RankingShape
<1>1. ASSUME NEW km, Routed(q, p, km) PROVE Touches(q)
  BY <1>1 DEF Routed
<1>2. RouteAnswered(q, p) => \E km : Routed(q, p, km)
  BY Zenon DEF RouteAnswered
<1>3. RouteFromCache(q, p) => \E km : Routed(q, p, km)
  BY Zenon DEF RouteFromCache
<1>4. CASE BeginRanking(q)
  BY <1>4 DEF BeginRanking
<1>5. CASE EndRanking(q)
  BY <1>5 DEF EndRanking
<1>6. CASE AskRoute(q, p)
  BY <1>6 DEF AskRoute
<1>7. CASE ReadFleet(q, p)
  BY <1>7 DEF ReadFleet
<1>8. CASE ReadDocuments(q, p)
  BY <1>8 DEF ReadDocuments
<1> QED
  BY <1>1, <1>2, <1>3, <1>4, <1>5, <1>6, <1>7, <1>8, Zenon

LEMMA AskGoes ==
  ASSUME TypeOK, RankingShape, NEW q \in Rankings, NEW p, AskRoute(q, p)
  PROVE  Goes(q)
<1> DEFINE r == ranking[q]
<1>1. IsRanking(r) /\ q \in DOMAIN ranking
  BY DEF RankingShape
<1>2. \A x \in DOMAIN r.known : IsKnowledge(r.known[x])
  BY DEF RankingShape
<1>3. r.todo \cup r.ask \cup r.fleets \cup r.files \subseteq DOMAIN r.known /\ p \in r.todo
  BY DEF TypeOK, AskRoute
<1>4. ranking'[q] = [now |-> r.now, known |-> r.known, todo |-> r.todo, ask |-> {p},
                     fleets |-> r.fleets, files |-> r.files]
  BY <1>1 DEF AskRoute, IsRanking
<1>5. IsRanking(ranking'[q]) /\ ranking'[q].now = r.now /\ ranking'[q].known = r.known
      /\ ranking'[q].todo \cup ranking'[q].ask \cup ranking'[q].fleets \cup ranking'[q].files
           \subseteq DOMAIN r.known
  BY <1>3, <1>4 DEF IsRanking
<1>6. \A x \in DOMAIN r.known : Learns(q, x, r.known[x], ranking'[q].known[x])
  BY <1>2, <1>5, LearnsNothing
<1> QED
  BY <1>5, <1>6 DEF Goes

LEMMA RankingsGo ==
  ASSUME TypeOK, RankingShape, CacheIsMeasured, RankingStep
  PROVE  /\ MapsStay /\ DOMAIN ranking' = Rankings
         /\ \A q \in Rankings : Goes(q)
<1>0. UNCHANGED <<registry, now>>
  BY DEF RankingStep
<1>1. ASSUME NEW q \in Rankings, Touches(q), Goes(q)
      PROVE  DOMAIN ranking' = Rankings /\ \A x \in Rankings : Goes(x)
  <2>1. ASSUME NEW x \in Rankings, x # q
        PROVE  Goes(x)
    BY <1>1, <2>1, OthersGo DEF Touches
  <2> QED
    BY <1>1, <2>1 DEF Touches
<1>2. ASSUME NEW q \in Rankings, BeginRanking(q) \/ EndRanking(q)
      PROVE  MapsStay /\ Touches(q) /\ Goes(q)
  <2>1. BeginRanking(q) => ranking[q] = Idle /\ ranking'[q] = Begun
    BY DEF BeginRanking, Begun, Idle, RankingShape
  <2>2. EndRanking(q) => ranking'[q] = Idle
    BY DEF EndRanking, RankingShape
  <2>3. Goes(q) /\ UNCHANGED maps
    BY <1>2, <2>1, <2>2 DEF BeginRanking, EndRanking, Goes
  <2> QED
    BY <1>0, <1>2, <2>3, UnchangedMapsStay, StepTouches
<1>3. ASSUME NEW q \in Rankings, NEW p \in Providers, RouteFromCache(q, p) \/ RouteAnswered(q, p)
      PROVE  MapsStay /\ Touches(q) /\ Goes(q)
  <2>1. p \in DOMAIN ranking[q].known
    BY <1>3 DEF RouteFromCache, RouteAnswered, TypeOK
  <2> QED
    BY <1>0, <1>3, <2>1, MapsGo, StepTouches
<1>4. ASSUME NEW q \in Rankings, NEW p \in Providers,
             AskRoute(q, p) \/ ReadFleet(q, p) \/ ReadDocuments(q, p)
      PROVE  MapsStay /\ Touches(q) /\ Goes(q)
  <2>1. UNCHANGED maps
    BY <1>4 DEF AskRoute, ReadFleet, ReadDocuments
  <2> QED
    BY <1>0, <1>4, <2>1, UnchangedMapsStay, AskGoes, ReadingGoes, StepTouches
<1>5. \/ \E q \in Rankings : BeginRanking(q) \/ EndRanking(q)
      \/ \E q \in Rankings, p \in Providers :
           RouteFromCache(q, p) \/ AskRoute(q, p) \/ RouteAnswered(q, p)
             \/ ReadFleet(q, p) \/ ReadDocuments(q, p)
  BY Zenon DEF RankingStep
<1> QED
  BY <1>1, <1>2, <1>3, <1>4, <1>5, Zenon

-----------------------------------------------------------------------------
(* The invariant *)

LEMMA NothingKnown == DOMAIN Idle.known = {} /\ Idle.now = 0
                      /\ Idle.todo \cup Idle.ask \cup Idle.fleets \cup Idle.files = {}
BY DEF Idle

LEMMA Beginning ==
  /\ IsRanking(Begun) /\ Begun.now = now /\ DOMAIN Begun.known = Registered
  /\ Begun.todo \cup Begun.ask \cup Begun.fleets \cup Begun.files \subseteq Registered
  /\ \A p \in Registered : /\ IsKnowledge(Begun.known[p])
                           /\ Begun.known[p] = Known(p)
<1>1. \A p : IsKnowledge(Known(p))
  BY DEF IsKnowledge, Known
<1>2. IsRanking(Begun)
  BY DEF IsRanking, Begun
<1>3. /\ Begun.now = now /\ Begun.known = [p \in Registered |-> Known(p)]
      /\ Begun.todo \cup Begun.ask \cup Begun.fleets \cup Begun.files \subseteq Registered
  BY DEF Begun
<1> QED
  BY <1>1, <1>2, <1>3, Zenon

\* The gates met now are among those that were seen after the step.
LEMMA GatesAreSeen ==
  ASSUME TypeOK, UNCHANGED registry, Observe, NEW q \in Rankings, NEW p \in Providers,
         ranking'[q] # Idle
  PROVE  /\ status[p] = "ACTIVE" => "ACTIVE" \in seen'[q][p]
         /\ accepting[p] => "ACCEPTING" \in seen'[q][p]
         /\ Suitable(fleet[p], Demand) # {} => "VEHICLE" \in seen'[q][p]
         /\ \A type \in RequiredDocumentTypes :
              DocumentHeld(Documents(p), type, ranking'[q].now) => type \in seen'[q][p]
<1>1. seen'[q][p] = seen[q][p] \cup GatesMet(q, p)'
  BY DEF Observe
<1>2. UNCHANGED <<status, accepting, fleet, papers>>
  BY DEF registry
<1>3. Documents(p)' = Documents(p)
  BY <1>2 DEF Documents
<1>4. GatesMet(q, p)' =
        {gate \in {"ACTIVE", "ACCEPTING", "VEHICLE"} \cup RequiredDocumentTypes :
           /\ gate = "ACTIVE" => status[p] = "ACTIVE"
           /\ gate = "ACCEPTING" => accepting[p]
           /\ gate = "VEHICLE" => Suitable(fleet[p], Demand) # {}
           /\ gate \in RequiredDocumentTypes =>
                \E d \in Documents(p) :
                  d.type = gate /\ d.status = "VERIFIED" /\ Unexpired(d, ranking'[q].now)}
  BY <1>2, <1>3, Zenon DEF GatesMet
<1>5. \A type \in RequiredDocumentTypes :
        DocumentHeld(Documents(p), type, ranking'[q].now) => type \in GatesMet(q, p)'
  BY <1>4 DEF RequiredDocumentTypes, DocumentHeld
<1>6. /\ status[p] = "ACTIVE" => "ACTIVE" \in GatesMet(q, p)'
      /\ Suitable(fleet[p], Demand) # {} => "VEHICLE" \in GatesMet(q, p)'
      /\ accepting[p] => "ACCEPTING" \in GatesMet(q, p)'
  BY <1>4 DEF RequiredDocumentTypes
<1> QED
  BY <1>1, <1>5, <1>6

LEMMA SeenStays ==
  ASSUME Observe, NEW q \in Rankings, NEW p \in Providers, ranking'[q] # Idle
  PROVE  seen[q][p] \subseteq seen'[q][p]
BY DEF Observe

LEMMA RecentOfRankings ==
  ASSUME IInv, RankingStep, Observe
  PROVE  KnowledgeIsRecent'
<1>0. TypeOK /\ RankingShape /\ CacheIsMeasured /\ UNCHANGED <<registry, now>>
  BY DEF IInv, RankingStep
<1> SUFFICES ASSUME NEW q \in Rankings, NEW p \in DOMAIN ranking'[q].known
             PROVE  LET k == ranking'[q].known[p]
                    IN  /\ k.status = "ACTIVE" => "ACTIVE" \in seen'[q][p]
                        /\ k.accepting => "ACCEPTING" \in seen'[q][p]
                        /\ Suitable(k.vehicles, Demand) # {} => "VEHICLE" \in seen'[q][p]
                        /\ \A type \in RequiredDocumentTypes :
                             DocumentHeld(k.documents, type, ranking'[q].now) => type \in seen'[q][p]
  BY Zenon DEF KnowledgeIsRecent, DocumentHeld, Suitable, Demand
<1>1. Goes(q)
  BY <1>0, RankingsGo
<1>2. ranking'[q] # Idle
  BY NothingKnown
<1>3. CASE ranking'[q] = Begun
  <2>1. p \in Registered /\ p \in Providers /\ ranking'[q].known[p] = Known(p)
    BY <1>3, Beginning DEF Registered
  <2>2. /\ Known(p).status = status[p] /\ Known(p).accepting = accepting[p]
        /\ Known(p).vehicles = {} /\ Known(p).documents = {}
    BY DEF Known
  <2>3. Suitable({}, Demand) = {} /\ \A type : ~DocumentHeld({}, type, ranking'[q].now)
    BY DEF Suitable, DocumentHeld
  <2> QED
    BY <1>0, <1>2, <2>1, <2>2, <2>3, GatesAreSeen
<1>4. CASE /\ ranking'[q].now = ranking[q].now
           /\ DOMAIN ranking'[q].known = DOMAIN ranking[q].known
           /\ \A x \in DOMAIN ranking[q].known :
                Learns(q, x, ranking[q].known[x], ranking'[q].known[x])
  <2> DEFINE k == ranking'[q].known[p]
             l == ranking[q].known[p]
  <2>1. p \in DOMAIN ranking[q].known /\ p \in Providers
    BY <1>0, <1>4 DEF RankingShape
  <2>2. /\ k.status = l.status /\ k.accepting = l.accepting
        /\ k.vehicles = l.vehicles \/ k.vehicles = fleet[p]
        /\ k.documents = l.documents \/ k.documents = Documents(p)
    BY <1>4, <2>1 DEF Learns
  <2>3. /\ l.status = "ACTIVE" => "ACTIVE" \in seen[q][p]
        /\ l.accepting => "ACCEPTING" \in seen[q][p]
        /\ Suitable(l.vehicles, Demand) # {} => "VEHICLE" \in seen[q][p]
        /\ \A type \in RequiredDocumentTypes :
             DocumentHeld(l.documents, type, ranking[q].now) => type \in seen[q][p]
    BY <2>1, Zenon DEF IInv, KnowledgeIsRecent
  <2>4. seen[q][p] \subseteq seen'[q][p]
    BY <1>2, <2>1, SeenStays
  <2>5. /\ Suitable(fleet[p], Demand) # {} => "VEHICLE" \in seen'[q][p]
        /\ \A type \in RequiredDocumentTypes :
             DocumentHeld(Documents(p), type, ranking'[q].now) => type \in seen'[q][p]
    BY <1>0, <1>2, <2>1, GatesAreSeen
  <2> QED
    BY <1>4, <2>2, <2>3, <2>4, <2>5
<1> QED
  BY <1>1, <1>2, <1>3, <1>4, Zenon DEF Goes

\* Registry steps and the clock leave rankings alone.
LEMMA RecentOfOthers ==
  ASSUME IInv, UNCHANGED ranking, Observe \/ UNCHANGED seen
  PROVE  KnowledgeIsRecent'
<1> SUFFICES ASSUME NEW q \in Rankings, NEW p \in DOMAIN ranking[q].known
             PROVE  LET k == ranking[q].known[p]
                    IN  /\ k.status = "ACTIVE" => "ACTIVE" \in seen'[q][p]
                        /\ k.accepting => "ACCEPTING" \in seen'[q][p]
                        /\ Suitable(k.vehicles, Demand) # {} => "VEHICLE" \in seen'[q][p]
                        /\ \A type \in RequiredDocumentTypes :
                             DocumentHeld(k.documents, type, ranking[q].now) => type \in seen'[q][p]
  BY Zenon DEF KnowledgeIsRecent, DocumentHeld, Suitable, Demand
<1>1. ranking'[q] # Idle
  BY NothingKnown
<1>2. p \in Providers
  BY DEF IInv, RankingShape
<1>3. seen[q][p] \subseteq seen'[q][p]
  BY <1>1, <1>2, SeenStays
<1> QED
  BY <1>3 DEF IInv, KnowledgeIsRecent

LEMMA RoadsOfRankings ==
  ASSUME IInv, RankingStep
  PROVE  RoadDistancesAreMeasured'
<1>0. TypeOK /\ RankingShape /\ CacheIsMeasured
  BY DEF IInv
<1> SUFFICES ASSUME NEW q \in Rankings, NEW p \in DOMAIN ranking'[q].known,
                    ranking'[q].known[p].road # Unmeasured
             PROVE  Measured(measured', p, ranking'[q].known[p].road, ranking'[q].now)
  BY Zenon DEF RoadDistancesAreMeasured, Measured, Base
<1>1. Goes(q) /\ measured \subseteq measured'
  BY <1>0, RankingsGo DEF MapsStay
<1>2. ranking'[q] # Idle
  BY NothingKnown
<1>3. CASE ranking'[q] = Begun
  <2>1. p \in Registered /\ ranking'[q].known[p] = Known(p)
    BY <1>3, Beginning
  <2>2. Known(p).road = Unmeasured
    BY DEF Known
  <2> QED
    BY <2>1, <2>2
<1>4. CASE /\ ranking'[q].now = ranking[q].now
           /\ DOMAIN ranking'[q].known = DOMAIN ranking[q].known
           /\ \A x \in DOMAIN ranking[q].known :
                Learns(q, x, ranking[q].known[x], ranking'[q].known[x])
  <2> DEFINE k == ranking'[q].known[p]
             l == ranking[q].known[p]
  <2>1. p \in DOMAIN ranking[q].known
    BY <1>4
  <2>2. k.road \in {l.road, Unmeasured} \/ Measured(measured', p, k.road, ranking[q].now)
    BY <1>4, <2>1 DEF Learns
  <2>3. l.road # Unmeasured => Measured(measured, p, l.road, ranking[q].now)
    BY <2>1 DEF IInv, RoadDistancesAreMeasured, Measured
  <2>4. Measured(measured, p, l.road, ranking[q].now) => Measured(measured', p, l.road, ranking[q].now)
    BY <1>1, Zenon DEF Measured
  <2> QED
    BY <1>4, <2>2, <2>3, <2>4
<1> QED
  BY <1>1, <1>2, <1>3, <1>4, Zenon DEF Goes

LEMMA ShapeOfRankings ==
  ASSUME IInv, RankingStep
  PROVE  RankingShape' /\ TypeOK'
<1>0. /\ TypeOK /\ RankingShape /\ CacheIsMeasured
      /\ UNCHANGED <<status, accepting, fleet, papers, now>>
  BY DEF IInv, RankingStep, registry
<1>1. ASSUME NEW q \in Rankings
      PROVE  /\ IsRanking(ranking'[q])
             /\ ranking'[q].now \in 0..now
             /\ DOMAIN ranking'[q].known \subseteq Registered
             /\ ranking'[q].todo \cup ranking'[q].ask \cup ranking'[q].fleets \cup ranking'[q].files
                  \subseteq DOMAIN ranking'[q].known
             /\ \A p \in DOMAIN ranking'[q].known : IsKnowledge(ranking'[q].known[p])
  <2>0. Goes(q) /\ ranking[q].now \in 0..now /\ now \in Nat /\ 0 \in 0..now /\ now \in 0..now
    BY <1>0, RankingsGo DEF RankingShape, TypeOK
  <2>1. CASE ranking'[q] = Idle
    <3>1. IsRanking(Idle)
      BY DEF Idle, IsRanking
    <3> QED
      BY <2>0, <2>1, <3>1, NothingKnown
  <2>2. CASE ranking'[q] = Begun
    <3> DEFINE r == ranking'[q]
    <3>1. /\ IsRanking(r) /\ r.now = now /\ DOMAIN r.known = Registered
          /\ r.todo \cup r.ask \cup r.fleets \cup r.files \subseteq Registered
          /\ \A p \in Registered : IsKnowledge(r.known[p])
      BY <2>2, Beginning
    <3> QED
      BY <2>0, <3>1
  <2>3. CASE /\ IsRanking(ranking'[q])
             /\ ranking'[q].now = ranking[q].now
             /\ DOMAIN ranking'[q].known = DOMAIN ranking[q].known
             /\ ranking'[q].todo \cup ranking'[q].ask \cup ranking'[q].fleets \cup ranking'[q].files
                  \subseteq DOMAIN ranking[q].known
             /\ \A p \in DOMAIN ranking[q].known :
                  Learns(q, p, ranking[q].known[p], ranking'[q].known[p])
    <3>1. DOMAIN ranking[q].known \subseteq Registered
      BY <1>0 DEF TypeOK
    <3>2. \A p \in DOMAIN ranking[q].known : IsKnowledge(ranking'[q].known[p])
      BY <2>3 DEF Learns
    <3> QED
      BY <2>0, <2>3, <3>1, <3>2
  <2> QED
    BY <2>0, <2>1, <2>2, <2>3, Zenon DEF Goes
<1>2. Registered \subseteq Providers /\ Registered' = Registered
  BY <1>0 DEF Registered
<1>3. MapsStay /\ DOMAIN ranking' = Rankings
  BY <1>0, RankingsGo
<1>4. RankingShape'
  <2>1. \A q \in Rankings : \A p \in DOMAIN ranking'[q].known : p \in Providers
    BY <1>1, <1>2
  <2> QED
    BY <1>0, <1>1, <1>3, <2>1, ZenonT(30) DEF RankingShape, IsRanking, IsKnowledge
<1>5. TypeOK'
  BY <1>0, <1>1, <1>2, <1>3 DEF TypeOK, MapsStay
<1> QED
  BY <1>4, <1>5

LEMMA OfRankings ==
  ASSUME IInv, RankingStep, Observe
  PROVE  IInv'
<1>1. CacheIsMeasured'
  BY RankingsGo DEF IInv, MapsStay
<1> QED
  BY <1>1, RecentOfRankings, RoadsOfRankings, ShapeOfRankings DEF IInv

\* What a step of the registry keeps: nobody is ever unregistered.
RegistryStays ==
  /\ status' \in [Providers -> ProviderStatuses]
  /\ accepting' \in [Providers -> BOOLEAN]
  /\ DOMAIN fleet' = Providers /\ DOMAIN papers' = Providers
  /\ \A p \in Providers : fleet'[p] \subseteq Fleet[p]
  /\ \A p \in Providers : papers'[p] \in [Papers[p] -> DocumentStatuses]
  /\ Registered \subseteq Registered'

\* Registry steps, the clock and stuttering.
LEMMA OfOthers ==
  ASSUME IInv, UNCHANGED <<maps, ranking>>, Observe \/ UNCHANGED seen,
         \/ UNCHANGED <<registry, now>>
         \/ UNCHANGED now /\ \E p \in Providers :
              \/ CreateProvider(p) \/ ReviewProvider(p) \/ SetAvailability(p)
              \/ CreateVehicle(p) \/ CreateDocument(p) \/ ReviewDocument(p)
         \/ now' = now + 1 /\ UNCHANGED registry
  PROVE  IInv'
<1>0. TypeOK /\ RankingShape /\ UNCHANGED <<cache, measured>>
  BY DEF IInv, maps
<1>1. RegistryStays
  <2> USE DEF RegistryStays
  <2>1. CASE UNCHANGED registry
    BY <1>0, <2>1 DEF TypeOK, registry, Registered
  <2>2. ASSUME NEW p \in Providers, CreateProvider(p) \/ ReviewProvider(p) \/ SetAvailability(p)
        PROVE  RegistryStays
    <3>1. /\ status' \in [Providers -> ProviderStatuses]
          /\ \A x \in Providers : status[x] # "ABSENT" => status'[x] # "ABSENT"
      BY <1>0, <2>2 DEF TypeOK, CreateProvider, ReviewProvider, SetAvailability, ProviderStatuses
    <3>2. accepting' \in [Providers -> BOOLEAN]
      BY <1>0, <2>2 DEF TypeOK, CreateProvider, ReviewProvider, SetAvailability
    <3>3. UNCHANGED <<fleet, papers>>
      BY <2>2 DEF CreateProvider, ReviewProvider, SetAvailability
    <3> QED
      BY <1>0, <3>1, <3>2, <3>3 DEF TypeOK, Registered
  <2>3. ASSUME NEW p \in Providers, CreateVehicle(p)
        PROVE  RegistryStays
    BY <1>0, <2>3 DEF TypeOK, CreateVehicle, Registered
  <2>4. ASSUME NEW p \in Providers, NEW d \in Papers[p], NEW to \in DocumentStatuses,
               papers' = [papers EXCEPT ![p][d] = to], UNCHANGED <<status, accepting, fleet>>
        PROVE  RegistryStays
    <3>1. papers' = [papers EXCEPT ![p] = [papers[p] EXCEPT ![d] = to]]
      BY <2>4
    <3>2. papers[p] \in [Papers[p] -> DocumentStatuses]
      BY <1>0 DEF TypeOK
    <3>3. [papers[p] EXCEPT ![d] = to] \in [Papers[p] -> DocumentStatuses]
      BY <2>4, <3>2
    <3>4. DOMAIN papers' = Providers
          /\ \A x \in Providers : papers'[x] \in [Papers[x] -> DocumentStatuses]
      BY <1>0, <3>1, <3>3 DEF TypeOK
    <3> QED
      BY <1>0, <2>4, <3>4 DEF TypeOK, Registered
  <2>5. ASSUME NEW p \in Providers, CreateDocument(p) \/ ReviewDocument(p)
        PROVE  RegistryStays
    <3>1. PICK d \in Papers[p], to \in DocumentStatuses :
            papers' = [papers EXCEPT ![p][d] = to] /\ UNCHANGED <<status, accepting, fleet>>
      <4>1. "PENDING" \in DocumentStatuses /\ {"VERIFIED", "REJECTED"} \subseteq DocumentStatuses
        BY DEF DocumentStatuses
      <4>2. CreateDocument(p) => \E d \in Papers[p] :
              papers' = [papers EXCEPT ![p][d] = "PENDING"] /\ UNCHANGED <<status, accepting, fleet>>
        BY Zenon DEF CreateDocument
      <4>3. ReviewDocument(p) => \E d \in Papers[p], to \in {"VERIFIED", "REJECTED"} :
              papers' = [papers EXCEPT ![p][d] = to] /\ UNCHANGED <<status, accepting, fleet>>
        BY Zenon DEF ReviewDocument
      <4> QED
        BY <2>5, <4>1, <4>2, <4>3, Zenon
    <3> QED
      BY <2>4, <3>1
  <2> QED
    BY <2>1, <2>2, <2>3, <2>5
<1>2. now \in Nat /\ now' \in {now, now + 1} /\ now' \in Nat
  BY <1>0 DEF TypeOK
<1>3. MapsStay
  BY <1>0, <1>2, UnchangedMapsStay DEF IInv
<1>4. TypeOK'
  BY <1>0, <1>1, <1>2, <1>3 DEF TypeOK, MapsStay, RegistryStays
<1>5. RankingShape'
  <2>1. \A q \in Rankings : ranking[q].now \in 0..now'
    BY <1>0, <1>2 DEF RankingShape
  <2> QED
    BY <1>0, <2>1 DEF RankingShape
<1>6. RoadDistancesAreMeasured'
  BY <1>0 DEF IInv, RoadDistancesAreMeasured
<1> QED
  BY <1>3, <1>4, <1>5, <1>6, RecentOfOthers DEF IInv, MapsStay

-----------------------------------------------------------------------------
(* The theorems *)

THEOREM InductiveInvariant == Spec => []IInv
<1>1. IInv /\ [Next]_vars => IInv'
  <2> SUFFICES ASSUME IInv, [Next]_vars PROVE IInv'
    OBVIOUS
  <2>1. CASE UNCHANGED vars
    BY <2>1, OfOthers DEF vars
  <2>2. CASE RegistryStep /\ Observe
    BY <2>2, OfOthers, Zenon DEF RegistryStep
  <2>3. CASE RankingStep /\ Observe
    BY <2>3, OfRankings
  <2>4. CASE Tick /\ Observe
    BY <2>4, OfOthers DEF Tick
  <2> QED
    BY <2>1, <2>2, <2>3, <2>4 DEF Next
<1> QED
  BY InitHolds, <1>1, PTL DEF Spec

\* Every variable keeps its type: what a ranking knows, it knows of providers
\* that are registered.
THEOREM TypeCorrect == Spec => []TypeOK
<1>1. IInv => TypeOK
  BY DEF IInv
<1> QED
  BY InductiveInvariant, <1>1, PTL

\* Whoever is found eligible met every gate while the ranking was under way.
THEOREM EligibilityIsRecent == Spec => []EligibleOnRecentFacts
<1>1. IInv => EligibleOnRecentFacts
  <2> SUFFICES ASSUME IInv, NEW q \in Rankings, NEW p \in Chosen(q)
               PROVE  {"ACTIVE", "ACCEPTING", "VEHICLE"} \cup RequiredDocumentTypes \subseteq seen[q][p]
    BY DEF EligibleOnRecentFacts
  <2> DEFINE k == ranking[q].known[p]
  <2>1. p \in DOMAIN ranking[q].known /\ Reasons(k, Demand, ranking[q].now) = {}
    BY Zenon DEF Chosen, IsEligible
  <2>2. /\ "PROVIDER_NOT_ACTIVE" \notin Reasons(k, Demand, ranking[q].now)
        /\ "PROVIDER_NOT_ACCEPTING_WORK" \notin Reasons(k, Demand, ranking[q].now)
        /\ "DOCUMENT_PROBLEM" \notin Reasons(k, Demand, ranking[q].now)
        /\ "NO_SUITABLE_VEHICLE" \notin Reasons(k, Demand, ranking[q].now)
    BY <2>1
  <2>3. /\ k.status = "ACTIVE" /\ k.accepting /\ DocumentsInOrder(k.documents, ranking[q].now)
        /\ Suitable(k.vehicles, Demand) # {}
    BY <2>2 DEF Reasons
  <2> QED
    BY <2>1, <2>3 DEF IInv, KnowledgeIsRecent, DocumentsInOrder
<1> QED
  BY InductiveInvariant, <1>1, PTL

\* A distance taken for a road distance was measured, and is not outdated.
THEOREM RoadsWereMeasured == Spec => []RoadDistancesAreMeasured
<1>1. IInv => RoadDistancesAreMeasured
  BY DEF IInv
<1> QED
  BY InductiveInvariant, <1>1, PTL
=============================================================================
