---------------------------- MODULE Eligibility ----------------------------
(***************************************************************************)
(* Who may be offered a job, and in which order: the pure rules of         *)
(* lib/eligibility.ts and the sizing of a load they share with             *)
(* lib/triage.ts.                                                          *)
(*                                                                         *)
(* Distances are in tenths of a kilometre, as the map service rounds them, *)
(* weights in tenths of a kilogram and volumes in cubic centimetres where  *)
(* they are summed; identifiers are numbers, which order as strings do.    *)
(***************************************************************************)
EXTENDS Totals, FiniteSets

CONSTANTS
  Never,       \* the expiry of a document without one
  Unmeasured   \* no road distance was obtained

ASSUME EligibilityAssumption == Never \notin Int /\ Unmeasured \notin Int

JobTypes        == {"FAILED_DELIVERY", "BULKY_RETURN", "COMPANY_SURPLUS"}
VehicleClasses  == {"CARGO_BIKE", "SMALL_VAN", "LARGE_VAN", "BOX_VAN", "TRUCK"}
RequiredDocumentTypes == {"LIABILITY_INSURANCE", "TRADE_LICENCE"}

\* vehicleClassRank, by the place in VEHICLE_CLASS_ORDER.
VehicleClassRank ==
  [CARGO_BIKE |-> 0, SMALL_VAN |-> 1, LARGE_VAN |-> 2, BOX_VAN |-> 3, TRUCK |-> 4]

-------------------------------------------------------------------------------
(* Distance *)

\* How many leading digits two postal codes share.
SharedPrefix(from, to) ==
  Cardinality({n \in 1..5 : \A i \in 1..n : from[i] = to[i]})

\* estimateDistanceKm, from the shared prefix.
EstimateFor == [n \in 0..5 |->
  CASE n = 5 -> 0 [] n = 4 -> 30 [] n = 3 -> 100 [] n = 2 -> 400 [] n = 1 -> 1200
    [] OTHER -> 4000]

EstimateDistance(from, to) == EstimateFor[SharedPrefix(from, to)]

\* A measured distance where there is one, the estimate otherwise.
Distance(p, demand) ==
  IF p.road # Unmeasured THEN p.road ELSE EstimateDistance(p.base, demand.pickup)

-------------------------------------------------------------------------------
(* Vehicles and documents *)

Suitable(vehicles, demand) ==
  {v \in vehicles :
     /\ v.active
     /\ VehicleClassRank[v.class] >= VehicleClassRank[demand.class]
     /\ v.payload >= demand.weight
     /\ v.volume >= demand.volume}

Smaller(v, w) ==
  \/ VehicleClassRank[v.class] < VehicleClassRank[w.class]
  \/ /\ VehicleClassRank[v.class] = VehicleClassRank[w.class]
     /\ v.payload < w.payload \/ (v.payload = w.payload /\ v.id < w.id)

\* selectVehicle, where one is suitable.
SelectVehicle(vehicles, demand) ==
  CHOOSE v \in Suitable(vehicles, demand) :
    \A w \in Suitable(vehicles, demand) \ {v} : Smaller(v, w)

Unexpired(d, now) == d.expiresAt = Never \/ d.expiresAt > now

DocumentHeldOnce(documents, type, now) ==
  \E d \in documents : d.type = type /\ d.status = "VERIFIED"

\* One document of the type that is verified and not past its expiry.
DocumentHeld(documents, type, now) ==
  \E d \in documents : d.type = type /\ d.status = "VERIFIED" /\ Unexpired(d, now)

\* documentProblems, without the distinction between its three reasons.
DocumentsInOrder(documents, now) ==
  \A type \in RequiredDocumentTypes : DocumentHeld(documents, type, now)

-------------------------------------------------------------------------------
(* Eligibility and rank *)

\* evaluateProviderEligibility: the reasons against a provider.
Reasons(p, demand, now) ==
  {reason \in {"PROVIDER_NOT_ACTIVE", "PROVIDER_NOT_ACCEPTING_WORK",
               "SERVICE_TYPE_NOT_PERMITTED", "OUTSIDE_SERVICE_RADIUS",
               "DOCUMENT_PROBLEM", "NO_SUITABLE_VEHICLE"} :
     CASE reason = "PROVIDER_NOT_ACTIVE"         -> p.status # "ACTIVE"
       [] reason = "PROVIDER_NOT_ACCEPTING_WORK" -> ~p.accepting
       [] reason = "SERVICE_TYPE_NOT_PERMITTED"  -> demand.type \notin p.services
       [] reason = "OUTSIDE_SERVICE_RADIUS"      -> Distance(p, demand) > p.radius
       [] reason = "DOCUMENT_PROBLEM"            -> ~DocumentsInOrder(p.documents, now)
       [] reason = "NO_SUITABLE_VEHICLE"         -> Suitable(p.vehicles, demand) = {}}

IsEligible(p, demand, now) == Reasons(p, demand, now) = {}

VehicleRank(p, demand) == VehicleClassRank[SelectVehicle(p.vehicles, demand).class]

\* The order of rankProviders: distance, then the size of the vehicle, then id.
Before(p, q, demand) ==
  \/ Distance(p, demand) < Distance(q, demand)
  \/ /\ Distance(p, demand) = Distance(q, demand)
     /\ \/ VehicleRank(p, demand) < VehicleRank(q, demand)
        \/ VehicleRank(p, demand) = VehicleRank(q, demand) /\ p.id < q.id

Eligible(providers, demand, now) == {p \in providers : IsEligible(p, demand, now)}

\* rankProviders: the place of an eligible provider in the sorted list.
Rank(p, providers, demand, now) ==
  1 + Cardinality({q \in Eligible(providers, demand, now) : Before(q, p, demand)})

-------------------------------------------------------------------------------
(* The load *)

CeilDiv(n, d) == (n + d - 1) \div d

\* What an item weighs in tenths of a kilogram, 50 kg if unknown, and the room
\* it takes in cubic centimetres, half a cubic metre if unknown.
ItemWeight(item) == item.quantity * (IF item.weight = Unmeasured THEN 500 ELSE item.weight)
ItemVolume(item) == item.quantity * (IF item.volume = Unmeasured THEN 500000 ELSE item.volume)

ItemsWeight(items) == TotalOf([i \in 1..Len(items) |-> ItemWeight(items[i])])
ItemsVolume(items) == TotalOf([i \in 1..Len(items) |-> ItemVolume(items[i])])

\* demandFromItems: whole kilograms and hundredths of a cubic metre, rounded up.
Load(items) ==
  [weight |-> CeilDiv(ItemsWeight(items), 10), volume |-> CeilDiv(ItemsVolume(items), 10000)]
=============================================================================
