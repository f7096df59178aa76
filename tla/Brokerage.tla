------------------------------ MODULE Brokerage ------------------------------
(***************************************************************************)
(* What dispatch promises, without quotes, offers, sweeps or handlers: a   *)
(* job moves along the status table, it is awarded to a provider only from *)
(* QUOTED, only against an agreed price and only while nobody claims it,   *)
(* and a claim ends only by the fallback that reopens the job.             *)
(* Sources of the promise: docs/adr/0001-fallback-returns-to-quoted.md     *)
(* ("no job can be dispatched without a price the customer approved") and  *)
(* Store.acceptOffer in store/types.ts ("exactly one winner").             *)
(***************************************************************************)
EXTENDS JobStatus, TLAPS

CONSTANTS Jobs, Providers

VARIABLES
  status,  \* the status of each job, or "ABSENT" before it is created
  agreed,  \* the jobs whose price a customer approved
  claims   \* the providers holding an active claim on the job

vars == <<status, agreed, claims>>

Init ==
  /\ status = [j \in Jobs |-> "ABSENT"]
  /\ agreed = {}
  /\ claims = [j \in Jobs |-> {}]

Create(j) ==
  /\ status[j] = "ABSENT"
  /\ status' = [status EXCEPT ![j] = "DRAFT"]
  /\ UNCHANGED <<agreed, claims>>

\* Any legal move except the award leaves the claims as they are.
Move(j, to) ==
  /\ CanTransition(status[j], to)
  /\ to # "ASSIGNED"
  /\ status' = [status EXCEPT ![j] = to]
  /\ UNCHANGED <<agreed, claims>>

Agree(j) ==
  /\ agreed' = agreed \cup {j}
  /\ UNCHANGED <<status, claims>>

Award(j, p) ==
  /\ CanTransition(status[j], "ASSIGNED")
  /\ j \in agreed
  /\ claims[j] = {}
  /\ status' = [status EXCEPT ![j] = "ASSIGNED"]
  /\ claims' = [claims EXCEPT ![j] = {p}]
  /\ UNCHANGED agreed

FallThrough(j, p) ==
  /\ p \in claims[j]
  /\ CanTransition(status[j], "QUOTED")
  /\ status' = [status EXCEPT ![j] = "QUOTED"]
  /\ claims' = [claims EXCEPT ![j] = @ \ {p}]
  /\ UNCHANGED agreed

Next ==
  \E j \in Jobs :
    \/ Create(j)
    \/ Agree(j)
    \/ \E to \in Statuses : Move(j, to)
    \/ \E p \in Providers : Award(j, p) \/ FallThrough(j, p)

Spec == Init /\ [][Next]_vars

-------------------------------------------------------------------------------
(* What the promise is worth *)

\* Work has one provider behind it, at a price the customer approved.
WorkHasOneHolder ==
  \A j \in Jobs :
    status[j] \in Held => j \in agreed /\ \E p \in Providers : claims[j] = {p}

\* ADR 0001: a provider loses a job only by the fallback that reopens it, so no
\* job passes from one provider to another behind the dispatcher's back, and a
\* job that is over stays with whoever had it.
ClaimsEndByFallback ==
  [][\A j \in Jobs : \A p \in claims[j] \ claims'[j] :
       status[j] \notin Terminal /\ status'[j] = "QUOTED" /\ claims'[j] = {}]_vars
-------------------------------------------------------------------------------
(* It is worth it: the theorems hold of every specification that implements  *)
(* this one, so of Dispatch, MemoryStore and Console.                        *)

BrokerageInv ==
  /\ status \in [Jobs -> Statuses \cup {"ABSENT"}]
  /\ claims \in [Jobs -> SUBSET Providers]
  /\ \A j \in Jobs :
       /\ claims[j] # {} => j \in agreed /\ \E p \in Providers : claims[j] = {p}
       /\ status[j] \in Held => claims[j] # {}

LEMMA BrokerageInit == Init => BrokerageInv
BY DEF Init, BrokerageInv, Held

LEMMA BrokerageStep == BrokerageInv /\ [Next]_vars => BrokerageInv'
<1> SUFFICES ASSUME BrokerageInv, [Next]_vars PROVE BrokerageInv'
  OBVIOUS
<1> USE DEF BrokerageInv, CanTransition, Transitions, Statuses, Held
<1>1. ASSUME NEW j \in Jobs, Create(j) PROVE BrokerageInv'
  BY <1>1 DEF Create
<1>2. ASSUME NEW j \in Jobs, Agree(j) PROVE BrokerageInv'
  BY <1>2 DEF Agree
<1>3. ASSUME NEW j \in Jobs, NEW to \in Statuses, Move(j, to) PROVE BrokerageInv'
  BY <1>3 DEF Move
<1>4. ASSUME NEW j \in Jobs, NEW p \in Providers, Award(j, p) PROVE BrokerageInv'
  BY <1>4 DEF Award
<1>5. ASSUME NEW j \in Jobs, NEW p \in Providers, FallThrough(j, p) PROVE BrokerageInv'
  BY <1>5 DEF FallThrough
<1> QED
  BY <1>1, <1>2, <1>3, <1>4, <1>5 DEF Next, vars

\* Nobody is at work on a job, or has finished it, but the one provider that holds
\* it, and the customer approved the price.
THEOREM WorkIsHeldByOne == Spec => []WorkHasOneHolder
<1>1. BrokerageInv => WorkHasOneHolder
  BY DEF BrokerageInv, WorkHasOneHolder
<1> QED
  BY <1>1, BrokerageInit, BrokerageStep, PTL DEF Spec

\* A claim ends only when the job is reopened, and then nobody else has one.
THEOREM OnlyFallbackEndsClaims == Spec => ClaimsEndByFallback
<1>1. ASSUME BrokerageInv, [Next]_vars, NEW j \in Jobs, NEW p \in claims[j] \ claims'[j]
      PROVE  status[j] \notin Terminal /\ status'[j] = "QUOTED" /\ claims'[j] = {}
  <2> USE <1>1 DEF BrokerageInv
  <2>1. PICK i \in Jobs, r \in Providers : Award(i, r) \/ FallThrough(i, r)
    BY DEF Next, Create, Move, Agree, vars
  <2>2. i = j
    BY <2>1 DEF Award, FallThrough
  <2>3. FallThrough(j, r)
    BY <2>1, <2>2 DEF Award
  <2>4. claims[j] = {r} /\ claims' = [claims EXCEPT ![j] = @ \ {r}]
    BY <2>3 DEF FallThrough
  <2> QED
    BY <2>3, <2>4 DEF FallThrough, CanTransition, Transitions, Terminal
<1>2. BrokerageInv /\ [Next]_vars =>
        \A j \in Jobs : \A p \in claims[j] \ claims'[j] :
          status[j] \notin Terminal /\ status'[j] = "QUOTED" /\ claims'[j] = {}
  BY <1>1
<1> QED
  BY <1>2, BrokerageInit, BrokerageStep, PTL DEF Spec, ClaimsEndByFallback
==============================================================================
