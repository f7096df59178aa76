------------------------------- MODULE Triage -------------------------------
(***************************************************************************)
(* The suggestion a new job comes with: the rules of lib/triage.ts, and    *)
(* the wrapper of lib/ai.ts that lets a model answer in their place and    *)
(* falls back to them.  A dispatcher reads it; it changes no job.  The     *)
(* wording of the risks and the confidence are left out.                   *)
(***************************************************************************)
EXTENDS Eligibility, Sequences

CircularRoutes == {"DELIVER", "RETURN", "STORE", "REPAIR", "REUSE", "DONATE", "RECYCLE",
                   "DISPOSAL", "MANUAL_REVIEW"}

\* triageSuggestionSchema
Suggestions ==
  [vehicleClass : VehicleClasses \cup {"MANUAL_REVIEW"}, workers : 1..6,
   minutes : Nat \ {0}, route : CircularRoutes, requiresHumanApproval : {TRUE}]

Exceeds(load, kg, hundredths) == load.weight > kg \/ load.volume > hundredths

\* The vehicle for a load in whole kilograms and hundredths of a cubic metre.
VehicleFor(load) ==
  CASE Exceeds(load, 1000, 4000)                                -> "MANUAL_REVIEW"
    [] ~Exceeds(load, 1000, 4000) /\ Exceeds(load, 450, 1500)   -> "BOX_VAN"
    [] ~Exceeds(load, 450, 1500) /\ Exceeds(load, 120, 500)     -> "LARGE_VAN"
    [] ~Exceeds(load, 120, 500)                                 -> "SMALL_VAN"

WorkersFor(load, stairs) == IF load.weight > 90 \/ stairs > 0 THEN 2 ELSE 1

RouteFor == [BULKY_RETURN |-> "RETURN", COMPANY_SURPLUS |-> "REUSE",
             FAILED_DELIVERY |-> "DELIVER"]

\* RulesFirstTriageService.suggest
Suggest(job) ==
  LET load == Load(job.items)
  IN  [vehicleClass |-> VehicleFor(load),
       workers      |-> WorkersFor(load, job.stairs),
       minutes      |-> 45 + 10 * Len(job.items) + 8 * job.stairs,
       route        |-> RouteFor[job.type],
       requiresHumanApproval |-> TRUE]

\* ValidatingTriageService.answer: a reply that fits the schema is taken, and
\* the rules answer for a model that is absent, fails or says anything else.
Answer(job, reply) ==
  IF reply \in Suggestions
  THEN [suggestion |-> [reply EXCEPT !.requiresHumanApproval = TRUE], fellBack |-> FALSE]
  ELSE [suggestion |-> Suggest(job), fellBack |-> TRUE]

\* The order in which the classes carry more; MANUAL_REVIEW is beyond them all.
ClassRank(class) ==
  IF class = "MANUAL_REVIEW" THEN 5 ELSE VehicleClassRank[class]
=============================================================================
