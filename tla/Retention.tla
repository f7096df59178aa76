------------------------------ MODULE Retention ------------------------------
(***************************************************************************)
(* Evidence, retention and erasure, on the tables that retention sweeps:   *)
(* the evidence rows of store/prisma.ts and the objects in storage they    *)
(* point at, and the idempotency records of module Idempotency.            *)
(*                                                                         *)
(* RetentionJob.run (lib/retention.ts) reads the rows that are too old,    *)
(* deletes them in one transaction with the expired records, and then      *)
(* deletes the objects one by one; it may die between any two of these     *)
(* steps, and several may run at once.  Storage, and the client that PUTs  *)
(* an object with its ticket, are outside src/.                            *)
(***************************************************************************)
EXTENDS Idempotency

CONSTANTS
  Evidence,         \* bound: the evidence rows that are ever created
  Persons,          \* who uploads
  Runs,             \* the retention runs that may be under way at once
  TicketTtl,        \* EVIDENCE_UPLOAD_TTL_SECONDS, rounded up to the clock's unit
  EvidenceAge,      \* RETENTION_EVIDENCE_DAYS
  IdempotencyAge,   \* RETENTION_IDEMPOTENCY_DAYS
  MaxTime           \* bound: the clock

\* The configuration bounds a ticket by an hour and the retention of evidence
\* from below by a day.
ASSUME RetentionAssumption ==
  /\ {TicketTtl, EvidenceAge, IdempotencyAge, MaxTime} \subseteq Nat
  /\ TicketTtl <= EvidenceAge
  /\ Nobody \notin Persons

VARIABLES
  row,         \* the status of an evidence row; "UNUSED" before it is created
  createdAt,   \* when it was created
  uploader,    \* its uploadedByUserId
  objects,     \* the objects in storage
  confirming,  \* the authenticated confirmations under way: (person, evidence)
  erased,      \* the persons whose subject was redacted
  run,         \* where each retention run is, and what it has still to delete
  reported,    \* the keys that some run named in orphanedObjects
  lost         \* the keys a run had still to delete when it died

evidenceVars == <<row, createdAt, uploader, objects, confirming, erased>>
runVars      == <<run, reported, lost>>
vars == <<record, request, now, evidenceVars, runVars>>

-------------------------------------------------------------------------------
EvidenceStatuses == {"UNUSED", "REQUESTED", "UPLOADED", "DELETED"}
Run  == [at : {"idle", "read", "deleting"}, now : Nat, doomed : SUBSET Evidence]
Idle == [at |-> "idle", now |-> 0, doomed |-> {}]

\* Beyond the types: no object is older than the row that names it.
TypeOK ==
  /\ IdempotencyTypeOK
  /\ row \in [Evidence -> EvidenceStatuses]
  /\ createdAt \in [Evidence -> Nat]
  /\ uploader \in [Evidence -> Persons \cup {Nobody}]
  /\ objects \subseteq {e \in Evidence : row[e] # "UNUSED"}
  /\ confirming \subseteq Persons \X Evidence
  /\ erased \subseteq Persons
  /\ run \in [Runs -> Run]
  /\ reported \subseteq Evidence
  /\ lost \subseteq Evidence

Rows == {e \in Evidence : row[e] \in {"REQUESTED", "UPLOADED"}}

Init ==
  /\ IdempotencyInit
  /\ row = [e \in Evidence |-> "UNUSED"]
  /\ createdAt = [e \in Evidence |-> 0]
  /\ uploader = [e \in Evidence |-> Nobody]
  /\ objects = {}
  /\ confirming = {}
  /\ erased = {}
  /\ run = [x \in Runs |-> Idle]
  /\ reported = {}
  /\ lost = {}

-------------------------------------------------------------------------------
(* Evidence *)

\* POST /jobs/:id/evidence: a ticket for an object, and the row that names it.
CreateEvidence(e) ==
  /\ row[e] = "UNUSED"
  /\ row' = [row EXCEPT ![e] = "REQUESTED"]
  /\ createdAt' = [createdAt EXCEPT ![e] = now]
  /\ UNCHANGED <<record, request, now, uploader, objects, confirming, erased, runVars>>

PutWithoutRow(e) ==
  /\ now <= createdAt[e] + TicketTtl
  /\ objects' = objects \cup {e}
  /\ UNCHANGED <<record, request, now, row, createdAt, uploader, confirming, erased, runVars>>

\* The client's PUT, which storage accepts until the ticket expires.
Put(e) ==
  /\ row[e] # "UNUSED"
  /\ now <= createdAt[e] + TicketTtl
  /\ objects' = objects \cup {e}
  /\ UNCHANGED <<record, request, now, row, createdAt, uploader, confirming, erased, runVars>>

BeginConfirmByToken(u, e) ==
  /\ row[e] # "UNUSED"
  /\ confirming' = confirming \cup {<<u, e>>}
  /\ UNCHANGED <<record, request, now, row, createdAt, uploader, objects, erased, runVars>>

\* The client confirms its PUT.  The console does so although the PUT failed, if
\* the network or a 4xx made it fail.  The caller is looked up by its subject,
\* and an erased person is no longer found by it.
BeginConfirm(u, e) ==
  /\ row[e] # "UNUSED"
  /\ u \notin erased
  /\ confirming' = confirming \cup {<<u, e>>}
  /\ UNCHANGED <<record, request, now, row, createdAt, uploader, objects, erased, runVars>>

\* markEvidenceUploaded, for the caller looked up before; a row that is gone is
\* answered with 404.
Confirm(u, e) ==
  /\ <<u, e>> \in confirming
  /\ confirming' = confirming \ {<<u, e>>}
  /\ \/ /\ e \in Rows
        /\ row' = [row EXCEPT ![e] = "UPLOADED"]
        /\ uploader' = [uploader EXCEPT ![e] = u]
     \/ /\ e \notin Rows
        /\ UNCHANGED <<row, uploader>>
  /\ UNCHANGED <<record, request, now, createdAt, objects, erased, runVars>>

\* erasePerson: the subject is severed and the rows are unlinked; a second
\* erasure finds the subject severed and changes nothing.
ErasePerson(u) ==
  /\ u \notin erased
  /\ erased' = erased \cup {u}
  /\ uploader' = [e \in Evidence |-> IF uploader[e] = u THEN Nobody ELSE uploader[e]]
  /\ UNCHANGED <<record, request, now, row, createdAt, objects, confirming, runVars>>

-------------------------------------------------------------------------------
(* RetentionJob.run *)

Old(e) == createdAt[e] + EvidenceAge < now
UploadedOldRows == {e \in Rows : Old(e) /\ row[e] = "UPLOADED"}
OldRows == {e \in Rows : Old(e)}

PastAgeOfAnswer(k, at) == record[k] # NoRecord /\ record[k].expiresAt + IdempotencyAge < at + Ttl

\* Long past its expiry, seen from the clock of the run.
PastAge(k, at) == record[k] # NoRecord /\ record[k].expiresAt + IdempotencyAge < at

\* The rows that are too old are read outside the transaction that deletes them.
\* A run that would delete nothing is left out.
BeginRun(x) ==
  /\ run[x] = Idle
  /\ OldRows # {} \/ \E k \in Keys : PastAge(k, now)
  /\ run' = [run EXCEPT ![x] = [at |-> "read", now |-> now, doomed |-> OldRows]]
  /\ UNCHANGED <<record, request, now, evidenceVars, reported, lost>>

\* The transaction of runRetention.
DeleteRows(x) ==
  /\ run[x].at = "read"
  /\ row' = [e \in Evidence |-> IF e \in run[x].doomed THEN "DELETED" ELSE row[e]]
  /\ record' = [k \in Keys |-> IF PastAge(k, run[x].now) THEN NoRecord ELSE record[k]]
  /\ run' = [run EXCEPT ![x].at = "deleting"]
  /\ UNCHANGED <<request, now, createdAt, uploader, objects, confirming, erased, reported, lost>>

DeleteObjectOrForget(x) ==
  \E e \in run[x].doomed :
    /\ run[x].at = "deleting"
    /\ run' = [run EXCEPT ![x].doomed = @ \ {e}]
    /\ \E gone \in SUBSET {e} : objects' = objects \ gone
    /\ UNCHANGED <<record, request, now, row, createdAt, uploader, confirming, erased,
                   reported, lost>>

\* storage.delete; a key that storage refuses to delete is named in the result.
DeleteObject(x) ==
  \E e \in run[x].doomed :
    /\ run[x].at = "deleting"
    /\ run' = [run EXCEPT ![x].doomed = @ \ {e}]
    /\ \/ objects' = objects \ {e} /\ UNCHANGED reported
       \/ reported' = reported \cup {e} /\ UNCHANGED objects
    /\ UNCHANGED <<record, request, now, row, createdAt, uploader, confirming, erased, lost>>

EndRun(x) ==
  /\ run[x].at = "deleting"
  /\ run[x].doomed = {}
  /\ run' = [run EXCEPT ![x] = Idle]
  /\ UNCHANGED <<record, request, now, evidenceVars, reported, lost>>

\* The process dies; what its run had still to delete was known to it alone.
RunDies(x) ==
  /\ run[x].at # "idle"
  /\ lost' = IF run[x].at = "deleting" THEN lost \cup run[x].doomed ELSE lost
  /\ run' = [run EXCEPT ![x] = Idle]
  /\ UNCHANGED <<record, request, now, evidenceVars, reported>>

RunStep(x) == BeginRun(x) \/ DeleteRows(x) \/ DeleteObject(x) \/ EndRun(x)

Tick ==
  /\ now < MaxTime
  /\ now' = now + 1
  /\ UNCHANGED <<record, request, evidenceVars, runVars>>

Next ==
  \/ RequestStep /\ UNCHANGED <<evidenceVars, runVars>>
  \/ \E e \in Evidence :
       \/ CreateEvidence(e)
       \/ Put(e)
       \/ \E u \in Persons : BeginConfirm(u, e) \/ Confirm(u, e)
  \/ \E u \in Persons : ErasePerson(u)
  \/ \E x \in Runs : RunStep(x) \/ RunDies(x)
  \/ Tick

Spec == Init /\ [][Next]_vars

\* The worker runs retention at its start and once a day for as long as it
\* lives, so a run that is due is made and goes on; a process that dies is
\* started again and does not die at the same step for ever.
FairSpec ==
  /\ Spec
  /\ \A x \in Runs :
       WF_vars(BeginRun(x)) /\ SF_vars(DeleteRows(x)) /\ WF_vars(DeleteObject(x))
                           /\ WF_vars(EndRun(x))

-------------------------------------------------------------------------------
(* Properties *)

\* No photograph is left behind unnoticed: an object without its row is still to
\* be deleted by a run, or was named in a result, or was lost with a process.
NothingLeaksUnnamed ==
  \A e \in objects \ Rows :
    e \in reported \cup lost \/ \E x \in Runs : run[x].at = "deleting" /\ e \in run[x].doomed

\* An erased person stays erased: of the rows linked to that person, or about to
\* be by a confirmation that was under way, there are never more again.
LinkedOrAboutToBe(u) == {e \in Evidence : uploader[e] = u \/ <<u, e>> \in confirming}

ErasedStayErased ==
  [][\A u \in erased : LinkedOrAboutToBe(u)' \subseteq LinkedOrAboutToBe(u)]_vars

\* Storage limitation: evidence past its age leaves the table, and its object
\* leaves storage unless a run said that it did not, or died over it.
OldEvidenceGoes ==
  \A e \in Evidence :
    (e \in Rows /\ Old(e)) ~> (e \notin Rows /\ (e \notin objects \/ e \in reported \cup lost))

-------------------------------------------------------------------------------
(* What the documentation says and the code does not keep, refuted by a run. *)

\* routes/evidence.ts: the client confirms that the PUT succeeded, so that
\* completion cannot be claimed against a row that was only ever requested.
UploadedIsThere == \A e \in Evidence : row[e] = "UPLOADED" => e \in objects
=============================================================================
