---------------------------- MODULE MCProviders ----------------------------
(***************************************************************************)
(* An instance of Providers for TLC: a provider that is in range by road   *)
(* but not by the estimate, with one van and two required documents, one   *)
(* of which expires while the clock runs.  With it, the pure rules of      *)
(* Eligibility and Triage on sample inputs, against what they compute.     *)
(***************************************************************************)
EXTENDS Providers, Triage, SequencesExt

Depot == <<2, 8, 1, 9, 5>>

MCJob == [type |-> "BULKY_RETURN", pickup |-> <<2, 8, 1, 9, 9>>,
          items |-> <<[quantity |-> 1, weight |-> 1001, volume |-> Unmeasured],
                      [quantity |-> 2, weight |-> Unmeasured, volume |-> 100]>>]

MCFacts == [p \in Providers |-> [id |-> 1, base |-> Depot, radius |-> 25,
                                 services |-> {"BULKY_RETURN"}]]
MCFleet == [p \in Providers |->
  {[id |-> 1, class |-> "LARGE_VAN", payload |-> 201, volume |-> 51, active |-> TRUE]}]
MCPapers == [p \in Providers |->
  {[id |-> 1, type |-> "LIABILITY_INSURANCE", expiresAt |-> 1],
   [id |-> 2, type |-> "TRADE_LICENCE", expiresAt |-> Never]}]

-------------------------------------------------------------------------------
(* Sample providers, all in order but for their distance and their vehicles *)

Van(id, class, payload) ==
  [id |-> id, class |-> class, payload |-> payload, volume |-> 9999, active |-> TRUE]

Sample(id, road, vehicles) ==
  [id |-> id, status |-> "ACTIVE", accepting |-> TRUE, road |-> road, base |-> Depot,
   radius |-> 30, services |-> {"BULKY_RETURN"}, vehicles |-> vehicles,
   documents |-> {[type |-> type, status |-> "VERIFIED", expiresAt |-> Never] :
                    type \in RequiredDocumentTypes}]

Fleets == SUBSET {Van(1, "SMALL_VAN", 20), Van(2, "BOX_VAN", 10), Van(3, "BOX_VAN", 20)}

SampleDemand == [type |-> "BULKY_RETURN", pickup |-> <<2, 8, 1, 9, 9>>, class |-> "SMALL_VAN",
                 weight |-> 10, volume |-> 1]

\* The places rank gives are those of the list sorted by Before: one provider
\* each, whatever ties there are in distance and vehicle.
ASSUME RankIsTheSortedPlace ==
  \A one, two, three \in {Unmeasured} \cup {10, 31}, f, g \in Fleets :
    LET providers == {Sample(1, one, f), Sample(2, two, g), Sample(3, three, f)}
        eligible  == Eligible(providers, SampleDemand, 0)
        list      == SetToSortSeq(eligible, LAMBDA p, q : Before(p, q, SampleDemand))
    IN  \A i \in DOMAIN list : Rank(list[i], providers, SampleDemand, 0) = i

\* A heavier or bulkier load never gets a smaller vehicle.
ASSUME HeavierIsNeverSmaller ==
  LET loads == [weight : {0, 120, 121, 450, 451, 1000, 1001},
                volume : {0, 500, 501, 1500, 1501, 4000, 4001}]
  IN  \A small, large \in loads :
        small.weight <= large.weight /\ small.volume <= large.volume
          => ClassRank(VehicleFor(small)) <= ClassRank(VehicleFor(large))

\* Whatever a model says, and whether it says anything, a dispatcher is shown a
\* suggestion that fits the schema and leaves the decision to a person.
ASSUME AnswersFitTheSchema ==
  \A stairs \in 0..2, type \in JobTypes, says \in {TRUE, FALSE}, workers \in 0..7 :
    LET job   == [type |-> type, items |-> MCJob.items, stairs |-> stairs]
        reply == [Suggest(job) EXCEPT !.requiresHumanApproval = says, !.workers = workers]
    IN  /\ Answer(job, reply).suggestion \in Suggestions
        /\ Answer(job, reply).fellBack <=> ~says \/ workers \notin 1..6
=============================================================================
