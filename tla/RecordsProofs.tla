--------------------------- MODULE RecordsProofs ---------------------------
(***************************************************************************)
(* Theorems about Retention and the idempotency records it sweeps, for     *)
(* every set of requests, keys, evidence, persons and retention runs and   *)
(* every duration the configuration allows.                                *)
(***************************************************************************)
EXTENDS Retention, TLAPS

-----------------------------------------------------------------------------
(* The inductive invariant *)

\* An answer is that of a request which was answered, for this key and body: an
\* answered request never changes again.
Reports(a, k, b) ==
  /\ a \in Requests
  /\ request[a].at = "answered" /\ request[a].key = k /\ request[a].body = b

\* A request on its way has sent a key and a body.
RequestIsSent(r) ==
  request[r].at \in {"working", "saving", "answered"}
    => request[r].key \in Keys /\ request[r].body \in Bodies

\* What an answered request was told is true, and remembered until it may be
\* forgotten: the record of its key is at least as long-lived as its answer.
AnswerIsKept(r) ==
  request[r].at = "answered" =>
    /\ Reports(request[r].answer, request[r].key, request[r].body)
    /\ request[r].until <= now + Ttl
    /\ request[r].until > now =>
         /\ record[request[r].key] # NoRecord
         /\ request[r].until <= record[request[r].key].expiresAt

RecordIsTrue(k) ==
  record[k] # NoRecord =>
    /\ Reports(record[k].answer, k, record[k].body)
    /\ record[k].expiresAt <= now + Ttl

AnswersAreSound ==
  /\ IdempotencyTypeOK
  /\ \A r \in Requests : RequestIsSent(r) /\ AnswerIsKept(r)
  /\ \A k \in Keys : RecordIsTrue(k)

\* Only evidence past its age is deleted or about to be, and by then no ticket
\* for its object is valid.
EvidenceIsAged ==
  /\ \A e \in Evidence : row[e] = "DELETED" => Old(e)
  /\ \A x \in Runs :
       /\ run[x].now <= now
       /\ \A e \in run[x].doomed : Old(e) /\ row[e] # "UNUSED"

\* A run deletes objects only after the transaction that deleted their rows.
RowsGoFirst ==
  \A x \in Runs : run[x].at = "deleting" => \A e \in run[x].doomed : row[e] = "DELETED"

IInv == AnswersAreSound /\ TypeOK /\ EvidenceIsAged /\ RowsGoFirst /\ NothingLeaksUnnamed

LEMMA InitHolds == Init => IInv
BY IdempotencyAssumption, RetentionAssumption
   DEF Init, IdempotencyInit, IInv, AnswersAreSound, IdempotencyTypeOK, RequestIsSent,
       AnswerIsKept, RecordIsTrue, Record, NoRecord, Request, Unsent, Stages, TypeOK,
       EvidenceStatuses, Run, Idle, EvidenceIsAged, RowsGoFirst, NothingLeaksUnnamed, Rows

-----------------------------------------------------------------------------
(* The records *)

\* What was answered stays answered, so what reports it stays true.
LEMMA ReportsLast ==
  ASSUME NEW r \in Requests, request[r].at # "answered", request \in [Requests -> Request],
         NEW new \in Request, request' = [request EXCEPT ![r] = new],
         NEW a, NEW k, NEW b, Reports(a, k, b)
  PROVE  Reports(a, k, b)'
BY DEF Reports

\* The clock goes on and nothing else happens to the records.
LEMMA AnswersLast ==
  ASSUME AnswersAreSound, UNCHANGED <<record, request>>, now' \in Nat, now <= now'
  PROVE  AnswersAreSound'
<1> USE IdempotencyAssumption
<1>1. IdempotencyTypeOK' /\ \A r \in Requests : RequestIsSent(r)'
  BY DEF AnswersAreSound, IdempotencyTypeOK, RequestIsSent
<1>2. \A a, k, b : Reports(a, k, b) => Reports(a, k, b)'
  BY DEF Reports
<1>3. ASSUME NEW r \in Requests PROVE AnswerIsKept(r)'
  <2>1. request[r].until \in Nat /\ now \in Nat
    BY DEF AnswersAreSound, IdempotencyTypeOK, Request
  <2> QED
    BY <1>2, <2>1 DEF AnswersAreSound, AnswerIsKept
<1>4. ASSUME NEW k \in Keys PROVE RecordIsTrue(k)'
  <2>1. record[k].expiresAt \in Nat /\ now \in Nat
    BY DEF AnswersAreSound, IdempotencyTypeOK, Record
  <2> QED
    BY <1>2, <2>1 DEF AnswersAreSound, RecordIsTrue
<1> QED
  BY <1>1, <1>3, <1>4 DEF AnswersAreSound

\* A request that gets no answer changes nothing for those that have one.
LEMMA UnansweredStep ==
  ASSUME AnswersAreSound, NEW r \in Requests, request[r].at # "answered",
         NEW new \in Request, request' = [request EXCEPT ![r] = new],
         new.at # "answered", UNCHANGED <<record, now>>,
         new.at \in {"working", "saving"} => new.key \in Keys /\ new.body \in Bodies
  PROVE  AnswersAreSound'
<1>1. IdempotencyTypeOK' /\ \A s \in Requests : RequestIsSent(s)'
  BY DEF AnswersAreSound, IdempotencyTypeOK, RequestIsSent
<1>2. \A a, k, b : Reports(a, k, b) => Reports(a, k, b)'
  BY ReportsLast DEF AnswersAreSound, IdempotencyTypeOK
<1>3. ASSUME NEW s \in Requests PROVE AnswerIsKept(s)'
  BY <1>2 DEF AnswersAreSound, IdempotencyTypeOK, AnswerIsKept
<1>4. ASSUME NEW k \in Keys PROVE RecordIsTrue(k)'
  BY <1>2 DEF AnswersAreSound, RecordIsTrue
<1> QED
  BY <1>1, <1>3, <1>4 DEF AnswersAreSound

LEMMA OverType == Over \in Request /\ Over.at = "over"
BY DEF Over, Unsent, Request, Stages

LEMMA LookUpStep ==
  ASSUME AnswersAreSound, NEW r \in Requests, NEW k \in Keys, NEW b \in Bodies, LookUp(r, k, b)
  PROVE  AnswersAreSound'
<1> USE IdempotencyAssumption
<1>1. request[r].at # "answered" /\ UNCHANGED <<record, now>>
  BY DEF LookUp, Unsent
<1>2. CASE Live(k) /\ record[k].body = b
  <2> DEFINE new == [at |-> "answered", key |-> k, body |-> b,
                     answer |-> record[k].answer, until |-> record[k].expiresAt]
  <2>1. request' = [request EXCEPT ![r] = new]
    BY <1>2 DEF LookUp, Sent
  <2>2. record[k] # NoRecord /\ RecordIsTrue(k) /\ record[k] \in Record
    BY <1>2 DEF Live, AnswersAreSound, IdempotencyTypeOK
  <2>3. Reports(record[k].answer, k, b) /\ record[k].expiresAt <= now + Ttl
    BY <1>2, <2>2 DEF RecordIsTrue
  <2>4. new \in Request
    BY <2>2 DEF Request, Record, Stages
  <2>5. \A a, l, c : Reports(a, l, c) => Reports(a, l, c)'
    BY <1>1, <2>1, <2>4, ReportsLast DEF AnswersAreSound, IdempotencyTypeOK
  <2>6. request'[r] = new /\ \A s \in Requests \ {r} : request'[s] = request[s]
    BY <2>1 DEF AnswersAreSound, IdempotencyTypeOK
  <2>7. IdempotencyTypeOK'
    BY <1>1, <2>1, <2>4 DEF AnswersAreSound, IdempotencyTypeOK
  <2>8. \A s \in Requests : RequestIsSent(s)'
    BY <2>6 DEF AnswersAreSound, RequestIsSent
  <2>9. ASSUME NEW s \in Requests PROVE AnswerIsKept(s)'
    <3>1. CASE s = r
      <4>1. record[k].expiresAt <= record[k].expiresAt
        BY <2>2 DEF Record
      <4> QED
        BY <1>1, <2>2, <2>3, <2>5, <2>6, <3>1, <4>1 DEF AnswerIsKept
    <3>2. CASE s # r
      BY <1>1, <2>5, <2>6, <3>2 DEF AnswersAreSound, AnswerIsKept
    <3> QED
      BY <3>1, <3>2
  <2>10. \A l \in Keys : RecordIsTrue(l)'
    BY <1>1, <2>5 DEF AnswersAreSound, RecordIsTrue
  <2> QED
    BY <2>7, <2>8, <2>9, <2>10 DEF AnswersAreSound
<1>3. CASE Live(k) /\ record[k].body # b
  <2>1. request' = [request EXCEPT ![r] = Over]
    BY <1>3 DEF LookUp
  <2> QED
    BY <1>1, <2>1, OverType, UnansweredStep
<1>4. CASE ~Live(k)
  <2> DEFINE new == [at |-> "working", key |-> k, body |-> b, answer |-> Nobody, until |-> 0]
  <2>1. request' = [request EXCEPT ![r] = new]
    BY <1>4 DEF LookUp, Sent
  <2>2. new \in Request /\ new.at = "working" /\ new.key \in Keys /\ new.body \in Bodies
    BY DEF Request, Stages
  <2> QED
    BY <1>1, <2>1, <2>2, UnansweredStep
<1> QED
  BY <1>2, <1>3, <1>4

LEMMA SaveStep ==
  ASSUME AnswersAreSound, NEW r \in Requests, Save(r)
  PROVE  AnswersAreSound'
<1> USE IdempotencyAssumption
<1>0. request[r].at = "saving"
  BY DEF Save
<1>1. PICK k \in Keys, b \in Bodies : request[r].key = k /\ request[r].body = b
  BY <1>0 DEF AnswersAreSound, RequestIsSent
<1> DEFINE rec == [body |-> b, answer |-> r, expiresAt |-> now + Ttl]
           new == [at |-> "answered", key |-> k, body |-> b, answer |-> r, until |-> now + Ttl]
<1>2. /\ record' = [record EXCEPT ![k] = rec]
      /\ request' = [request EXCEPT ![r] = new]
      /\ now' = now
  BY <1>1 DEF Save, Sent
<1>3. now \in Nat /\ now + Ttl \in Nat /\ now + Ttl <= now + Ttl
  BY DEF AnswersAreSound, IdempotencyTypeOK
<1>4. rec \in Record /\ rec # NoRecord /\ new \in Request
  BY <1>3 DEF Record, NoRecord, Request, Stages
<1>5. \A a, l, c : Reports(a, l, c) => Reports(a, l, c)'
  BY <1>0, <1>2, <1>4, ReportsLast DEF AnswersAreSound, IdempotencyTypeOK
<1>6. /\ request'[r] = new /\ \A s \in Requests \ {r} : request'[s] = request[s]
      /\ record'[k] = rec /\ \A l \in Keys \ {k} : record'[l] = record[l]
  BY <1>2 DEF AnswersAreSound, IdempotencyTypeOK
<1>7. Reports(r, k, b)'
  BY <1>6 DEF Reports
<1>8. IdempotencyTypeOK'
  BY <1>2, <1>4 DEF AnswersAreSound, IdempotencyTypeOK
<1>9. ASSUME NEW s \in Requests PROVE RequestIsSent(s)'
  BY <1>6 DEF AnswersAreSound, RequestIsSent
<1>10. ASSUME NEW s \in Requests PROVE AnswerIsKept(s)'
  <2>1. CASE s = r
    BY <1>2, <1>3, <1>4, <1>6, <1>7, <2>1 DEF AnswerIsKept
  <2>2. CASE s # r
    <3>1. CASE request[s].key = k
      BY <1>2, <1>4, <1>5, <1>6, <2>2, <3>1 DEF AnswersAreSound, AnswerIsKept
    <3>2. CASE request[s].key # k
      <4>1. request[s].at = "answered" => request[s].key \in Keys
        BY DEF AnswersAreSound, RequestIsSent
      <4> QED
        BY <1>2, <1>5, <1>6, <2>2, <3>2, <4>1 DEF AnswersAreSound, AnswerIsKept
    <3> QED
      BY <3>1, <3>2
  <2> QED
    BY <2>1, <2>2
<1>11. ASSUME NEW l \in Keys PROVE RecordIsTrue(l)'
  <2>1. CASE l = k
    BY <1>2, <1>3, <1>6, <1>7, <2>1 DEF RecordIsTrue
  <2>2. CASE l # k
    BY <1>2, <1>5, <1>6, <2>2 DEF AnswersAreSound, RecordIsTrue
  <2> QED
    BY <2>1, <2>2
<1> QED
  BY <1>8, <1>9, <1>10, <1>11 DEF AnswersAreSound

LEMMA RequestsStep ==
  ASSUME AnswersAreSound, RequestStep
  PROVE  AnswersAreSound'
<1>1. PICK r \in Requests :
        \/ \E k \in Keys, b \in Bodies : LookUp(r, k, b)
        \/ Work(r) \/ Save(r) \/ CutOff(r)
  BY DEF RequestStep
<1>2. CASE \E k \in Keys, b \in Bodies : LookUp(r, k, b)
  BY <1>2, LookUpStep
<1>3. CASE Work(r)
  <2>1. request[r] \in Request /\ RequestIsSent(r)
    BY DEF AnswersAreSound, IdempotencyTypeOK
  <2>2. CASE request' = [request EXCEPT ![r] = Over]
    BY <1>3, <2>2, OverType, UnansweredStep DEF Work
  <2>3. CASE request' = [request EXCEPT ![r].at = "saving"]
    <3> DEFINE new == [request[r] EXCEPT !.at = "saving"]
    <3>1. new \in Request /\ new.at = "saving" /\ new.key \in Keys /\ new.body \in Bodies
      BY <1>3, <2>1 DEF Work, Request, Stages, RequestIsSent
    <3>2. request' = [request EXCEPT ![r] = new]
      BY <2>3
    <3> HIDE DEF new
    <3> QED
      BY <1>3, <3>1, <3>2, UnansweredStep DEF Work
  <2> QED
    BY <1>3, <2>2, <2>3 DEF Work
<1>4. CASE Save(r)
  BY <1>4, SaveStep
<1>5. CASE CutOff(r)
  BY <1>5, OverType, UnansweredStep DEF CutOff
<1> QED
  BY <1>1, <1>2, <1>3, <1>4, <1>5

\* The sweep takes a record only long after the last answer it stood for may be
\* forgotten: the clock of the run is not ahead.
LEMMA SweepStep ==
  ASSUME IInv, NEW x \in Runs, DeleteRows(x)
  PROVE  AnswersAreSound'
<1> USE IdempotencyAssumption, RetentionAssumption DEF IInv
<1>1. /\ record' = [k \in Keys |-> IF PastAge(k, run[x].now) THEN NoRecord ELSE record[k]]
      /\ UNCHANGED <<request, now>>
  BY DEF DeleteRows
<1>2. run[x].now \in Nat /\ run[x].now <= now /\ now \in Nat
  BY DEF TypeOK, IdempotencyTypeOK, Run, EvidenceIsAged
<1>3. IdempotencyTypeOK'
  BY <1>1 DEF AnswersAreSound, IdempotencyTypeOK, Record, NoRecord
<1>4. \A a, k, b : Reports(a, k, b) => Reports(a, k, b)'
  BY <1>1 DEF Reports
<1>5. ASSUME NEW r \in Requests PROVE RequestIsSent(r)' /\ AnswerIsKept(r)'
  <2> DEFINE k == request[r].key
  <2>1. RequestIsSent(r)'
    BY <1>1 DEF AnswersAreSound, RequestIsSent
  <2>2. ASSUME request[r].at = "answered", request[r].until > now
        PROVE  record'[k] = record[k]
    <3>1. /\ k \in Keys /\ request[r].until \in Nat /\ record[k].expiresAt \in Nat
          /\ request[r].until <= record[k].expiresAt
      BY <2>2 DEF AnswersAreSound, RequestIsSent, AnswerIsKept, IdempotencyTypeOK, Request,
                  Record
    <3>2. ~PastAge(k, run[x].now)
      BY <1>2, <2>2, <3>1 DEF PastAge
    <3> QED
      BY <1>1, <3>1, <3>2
  <2> QED
    BY <1>1, <1>4, <2>1, <2>2 DEF AnswersAreSound, AnswerIsKept
<1>6. ASSUME NEW k \in Keys PROVE RecordIsTrue(k)'
  BY <1>1, <1>4 DEF AnswersAreSound, RecordIsTrue
<1> QED
  BY <1>3, <1>5, <1>6 DEF AnswersAreSound

LEMMA AnswersStep ==
  ASSUME IInv, [Next]_vars
  PROVE  AnswersAreSound'
<1> USE DEF IInv
<1>1. ASSUME UNCHANGED <<record, request, now>>
      PROVE  AnswersAreSound'
  <2>1. now \in Nat /\ now <= now
    BY DEF AnswersAreSound, IdempotencyTypeOK
  <2> QED
    BY <1>1, <2>1, AnswersLast
<1>2. CASE RequestStep
  BY <1>2, RequestsStep
<1>3. ASSUME NEW e \in Evidence,
             CreateEvidence(e) \/ Put(e) \/ \E u \in Persons : BeginConfirm(u, e) \/ Confirm(u, e)
      PROVE  AnswersAreSound'
  BY <1>1, <1>3 DEF CreateEvidence, Put, BeginConfirm, Confirm
<1>4. ASSUME NEW u \in Persons, ErasePerson(u)
      PROVE  AnswersAreSound'
  BY <1>1, <1>4 DEF ErasePerson
<1>5. ASSUME NEW x \in Runs, RunStep(x) \/ RunDies(x)
      PROVE  AnswersAreSound'
  BY <1>1, <1>5, SweepStep DEF RunStep, BeginRun, DeleteObject, EndRun, RunDies
<1>6. CASE Tick
  <2>1. now' \in Nat /\ now <= now'
    BY <1>6 DEF Tick, AnswersAreSound, IdempotencyTypeOK
  <2> QED
    BY <1>6, <2>1, AnswersLast DEF Tick
<1> QED
  BY <1>1, <1>2, <1>3, <1>4, <1>5, <1>6 DEF Next, vars

-----------------------------------------------------------------------------
(* Evidence *)

\* What every step of Retention does to the rows, the objects and the runs.
LEMMA EvidenceStep ==
  ASSUME IInv, [Next]_vars, IdempotencyTypeOK'
  PROVE  TypeOK' /\ EvidenceIsAged' /\ NothingLeaksUnnamed'
<1> USE RetentionAssumption DEF IInv
<1>0. now \in Nat /\ createdAt \in [Evidence -> Nat] /\ EvidenceAge \in Nat /\ TicketTtl \in Nat
  BY DEF TypeOK, IdempotencyTypeOK
<1>1. ASSUME UNCHANGED <<now, evidenceVars, runVars>>
      PROVE  TypeOK' /\ EvidenceIsAged' /\ NothingLeaksUnnamed'
  BY <1>1 DEF evidenceVars, runVars, TypeOK, EvidenceIsAged, NothingLeaksUnnamed, Rows, Old
<1>2. ASSUME NEW e \in Evidence, CreateEvidence(e)
      PROVE  TypeOK' /\ EvidenceIsAged' /\ NothingLeaksUnnamed'
  <2> USE <1>2 DEF CreateEvidence, runVars
  <2>1. TypeOK'
    BY <1>0 DEF TypeOK, EvidenceStatuses
  <2>2. EvidenceIsAged'
    BY <1>0 DEF EvidenceIsAged, Old, TypeOK
  <2>3. NothingLeaksUnnamed'
    BY DEF NothingLeaksUnnamed, Rows, TypeOK
  <2> QED
    BY <2>1, <2>2, <2>3
<1>3. ASSUME NEW e \in Evidence, Put(e)
      PROVE  TypeOK' /\ EvidenceIsAged' /\ NothingLeaksUnnamed'
  <2> USE <1>3 DEF Put, runVars
  <2>1. TypeOK'
    BY DEF TypeOK
  <2>2. EvidenceIsAged'
    BY DEF EvidenceIsAged, Old
  <2>3. e \in Rows
    <3>1. createdAt[e] \in Nat
      BY <1>0
    <3>2. ~Old(e)
      BY <1>0, <3>1 DEF Old
    <3> QED
      BY <3>2 DEF Rows, TypeOK, EvidenceStatuses, EvidenceIsAged
  <2>4. NothingLeaksUnnamed'
    BY <2>3 DEF NothingLeaksUnnamed, Rows
  <2> QED
    BY <2>1, <2>2, <2>4
<1>4. ASSUME NEW e \in Evidence, NEW u \in Persons, BeginConfirm(u, e) \/ Confirm(u, e)
      PROVE  TypeOK' /\ EvidenceIsAged' /\ NothingLeaksUnnamed'
  <2> USE <1>4 DEF BeginConfirm, Confirm, runVars
  <2>1. TypeOK'
    BY DEF TypeOK, EvidenceStatuses, Rows
  <2>2. UNCHANGED <<now, createdAt, objects, run, reported, lost>> /\ Rows' = Rows
    BY DEF Rows, TypeOK
  <2>3. /\ row' \in [Evidence -> EvidenceStatuses]
        /\ \A f \in Evidence : row'[f] = "UNUSED" <=> row[f] = "UNUSED"
        /\ \A f \in Evidence : row'[f] = "DELETED" <=> row[f] = "DELETED"
    BY <2>1 DEF Rows, TypeOK
  <2>4. EvidenceIsAged'
    BY <2>2, <2>3 DEF EvidenceIsAged, Old, TypeOK, Run
  <2>5. NothingLeaksUnnamed'
    BY <2>2 DEF NothingLeaksUnnamed
  <2> QED
    BY <2>1, <2>4, <2>5
<1>5. ASSUME NEW u \in Persons, ErasePerson(u)
      PROVE  TypeOK' /\ EvidenceIsAged' /\ NothingLeaksUnnamed'
  BY <1>5 DEF ErasePerson, runVars, TypeOK, EvidenceIsAged, Old, NothingLeaksUnnamed, Rows
<1>6. ASSUME NEW x \in Runs, BeginRun(x)
      PROVE  TypeOK' /\ EvidenceIsAged' /\ NothingLeaksUnnamed'
  <2> DEFINE new == [at |-> "read", now |-> now, doomed |-> OldRows]
  <2>1. /\ run[x] = Idle /\ run' = [run EXCEPT ![x] = new]
        /\ UNCHANGED <<record, request, now, evidenceVars, reported, lost>>
    BY <1>6 DEF BeginRun
  <2>2. new \in Run /\ run' \in [Runs -> Run]
    BY <1>0, <2>1 DEF Run, OldRows, Rows, TypeOK
  <2>3. TypeOK'
    BY <2>1, <2>2 DEF TypeOK, evidenceVars
  <2>4. EvidenceIsAged'
    BY <1>0, <2>1 DEF EvidenceIsAged, Old, OldRows, Rows, evidenceVars, TypeOK
  <2>5. NothingLeaksUnnamed'
    BY <2>1 DEF NothingLeaksUnnamed, Rows, evidenceVars, TypeOK, Idle
  <2> QED
    BY <2>3, <2>4, <2>5
<1>7. ASSUME NEW x \in Runs, DeleteRows(x)
      PROVE  TypeOK' /\ EvidenceIsAged' /\ NothingLeaksUnnamed'
  <2> USE <1>7 DEF DeleteRows
  <2>1. TypeOK'
    BY DEF TypeOK, EvidenceStatuses, Run
  <2>2. EvidenceIsAged'
    BY DEF EvidenceIsAged, Old, TypeOK, Run
  <2>3. NothingLeaksUnnamed'
    BY DEF NothingLeaksUnnamed, Rows, TypeOK, Run
  <2> QED
    BY <2>1, <2>2, <2>3
<1>8. ASSUME NEW x \in Runs, DeleteObject(x)
      PROVE  TypeOK' /\ EvidenceIsAged' /\ NothingLeaksUnnamed'
  <2>1. PICK e \in run[x].doomed :
          /\ run[x].at = "deleting"
          /\ run' = [run EXCEPT ![x].doomed = @ \ {e}]
          /\ \/ objects' = objects \ {e} /\ UNCHANGED reported
             \/ reported' = reported \cup {e} /\ UNCHANGED objects
          /\ UNCHANGED <<record, request, now, row, createdAt, uploader, confirming, erased, lost>>
    BY <1>8 DEF DeleteObject
  <2>2. TypeOK'
    BY <2>1 DEF TypeOK, Run
  <2>3. EvidenceIsAged'
    BY <2>1 DEF EvidenceIsAged, Old, TypeOK, Run
  <2>4. NothingLeaksUnnamed'
    BY <2>1 DEF NothingLeaksUnnamed, Rows, TypeOK, Run
  <2> QED
    BY <2>2, <2>3, <2>4
<1>9. ASSUME NEW x \in Runs, EndRun(x) \/ RunDies(x)
      PROVE  TypeOK' /\ EvidenceIsAged' /\ NothingLeaksUnnamed'
  <2> USE <1>9 DEF EndRun, RunDies, evidenceVars
  <2>1. TypeOK'
    BY DEF TypeOK, Run, Idle
  <2>2. EvidenceIsAged'
    BY <1>0 DEF EvidenceIsAged, Old, TypeOK, Run, Idle
  <2>3. NothingLeaksUnnamed'
    BY DEF NothingLeaksUnnamed, Rows, TypeOK, Run, Idle
  <2> QED
    BY <2>1, <2>2, <2>3
<1>10. CASE Tick
  <2> USE <1>10 DEF Tick, evidenceVars, runVars
  <2>1. TypeOK'
    BY DEF TypeOK
  <2>2. \A e \in Evidence : Old(e) => Old(e)'
    BY <1>0 DEF Old
  <2>3. \A x \in Runs : run[x].now \in Nat /\ run[x].doomed \subseteq Evidence
    BY DEF TypeOK, Run
  <2>4. EvidenceIsAged'
    BY <1>0, <2>2, <2>3 DEF EvidenceIsAged
  <2>5. NothingLeaksUnnamed'
    BY DEF NothingLeaksUnnamed, Rows
  <2> QED
    BY <2>1, <2>4, <2>5
<1>11. CASE (RequestStep /\ UNCHANGED <<evidenceVars, runVars>>) \/ UNCHANGED vars
  <2>1. UNCHANGED <<evidenceVars, runVars>> /\ now' = now
    BY <1>11, Zenon DEF RequestStep, LookUp, Work, Save, CutOff, vars
  <2> QED
    BY <1>1, <2>1
<1> QED
  BY <1>2, <1>3, <1>4, <1>5, <1>6, <1>7, <1>8, <1>9, <1>10, <1>11 DEF Next, RunStep

\* A row that is deleted is never used again.
LEMMA DeletedForGood ==
  ASSUME TypeOK, [Next]_vars, NEW e \in Evidence, row[e] = "DELETED"
  PROVE  row'[e] = "DELETED"
<1> USE DEF TypeOK
<1>1. CASE row' = row
  BY <1>1
<1>2. ASSUME NEW f \in Evidence, CreateEvidence(f)
      PROVE  row'[e] = "DELETED"
  BY <1>2 DEF CreateEvidence
<1>3. ASSUME NEW f \in Evidence, NEW u \in Persons, Confirm(u, f)
      PROVE  row'[e] = "DELETED"
  BY <1>3 DEF Confirm, Rows
<1>4. ASSUME NEW x \in Runs, DeleteRows(x)
      PROVE  row'[e] = "DELETED"
  BY <1>4 DEF DeleteRows
<1>5. ASSUME ~\E f \in Evidence : CreateEvidence(f) \/ \E u \in Persons : Confirm(u, f),
             ~\E x \in Runs : DeleteRows(x)
      PROVE  row' = row
  BY <1>5, Zenon DEF Next, Put, BeginConfirm, ErasePerson, RunStep, BeginRun, DeleteObject,
              EndRun, RunDies, Tick, evidenceVars, vars
<1> QED
  BY <1>1, <1>2, <1>3, <1>4, <1>5

LEMMA RowsGoFirstStep ==
  ASSUME TypeOK, RowsGoFirst, [Next]_vars
  PROVE  RowsGoFirst'
<1> SUFFICES ASSUME NEW x \in Runs, run'[x].at = "deleting", NEW e \in run'[x].doomed
             PROVE  row'[e] = "DELETED"
  BY DEF RowsGoFirst
<1>1. run \in [Runs -> Run]
  BY DEF TypeOK
<1>2. CASE run' = run
  BY <1>1, <1>2, DeletedForGood DEF RowsGoFirst, Run
<1>3. ASSUME NEW y \in Runs, BeginRun(y) \/ EndRun(y) \/ RunDies(y)
      PROVE  row'[e] = "DELETED"
  <2>1. run'[x] = run[x]
    BY <1>1, <1>3 DEF BeginRun, EndRun, RunDies, Idle
  <2> QED
    BY <1>1, <2>1, DeletedForGood DEF RowsGoFirst, Run
<1>4. ASSUME NEW y \in Runs, DeleteRows(y)
      PROVE  row'[e] = "DELETED"
  <2>1. CASE x = y
    BY <1>1, <1>4, <2>1 DEF DeleteRows, Run
  <2>2. CASE x # y
    <3>1. run'[x] = run[x]
      BY <1>1, <1>4, <2>2 DEF DeleteRows
    <3> QED
      BY <1>1, <3>1, DeletedForGood DEF RowsGoFirst, Run
  <2> QED
    BY <2>1, <2>2
<1>5. ASSUME NEW y \in Runs, DeleteObject(y)
      PROVE  row'[e] = "DELETED"
  <2>1. run'[x].at = run[x].at /\ run'[x].doomed \subseteq run[x].doomed
    BY <1>1, <1>5 DEF DeleteObject, Run
  <2> QED
    BY <1>1, <2>1, DeletedForGood DEF RowsGoFirst, Run
<1>6. ASSUME ~\E y \in Runs : RunStep(y) \/ RunDies(y)
      PROVE  run' = run
  BY <1>6, Zenon DEF Next, CreateEvidence, Put, BeginConfirm, Confirm, ErasePerson, Tick,
              runVars, vars
<1> QED
  BY <1>2, <1>3, <1>4, <1>5, <1>6 DEF RunStep

-----------------------------------------------------------------------------
(* The theorems *)

THEOREM InductiveInvariant == Spec => []IInv
<1>1. IInv /\ [Next]_vars => IInv'
  BY AnswersStep, EvidenceStep, RowsGoFirstStep DEF IInv, AnswersAreSound
<1> QED
  BY InitHolds, <1>1, PTL DEF Spec

\* Every variable keeps its type, and no object is older than its row.
THEOREM TypeCorrect == Spec => []TypeOK
<1>1. IInv => TypeOK
  BY DEF IInv
<1> QED
  BY InductiveInvariant, <1>1, PTL

\* However requests with one key overlap, none is given another body's answer.
THEOREM NobodyGetsAnothersAnswer == Spec => []AnswersMatchTheirRequest
<1>1. IInv => AnswersMatchTheirRequest
  BY DEF IInv, AnswersAreSound, AnswerIsKept, RecordIsTrue, Reports, AnswersMatchTheirRequest
<1> QED
  BY InductiveInvariant, <1>1, PTL

\* A retry of what was answered starts no work while the answer is remembered:
\* neither an overlapping save nor a sweep shortens the memory of a key.
THEOREM AnsweredWorkIsNotRepeated == Spec => RetriesDoNoWork
<1>1. ASSUME IInv, [Next]_vars, NEW r \in Requests, NEW s \in Requests,
             request[r].at = "new", request'[r].at = "working",
             request[s].at = "answered", request[s].key = request'[r].key
      PROVE  request[s].until <= now
  <2>1. PICK k \in Keys, b \in Bodies : LookUp(r, k, b)
    <3>1. RequestStep
      BY <1>1, Zenon DEF Next, CreateEvidence, Put, BeginConfirm, Confirm, ErasePerson,
                  RunStep, BeginRun, DeleteRows, DeleteObject, EndRun, RunDies, Tick, vars
    <3>2. PICK q \in Requests :
            \/ \E k \in Keys, b \in Bodies : LookUp(q, k, b)
            \/ Work(q) \/ Save(q) \/ CutOff(q)
      BY <3>1 DEF RequestStep
    <3>3. request \in [Requests -> Request]
      BY <1>1 DEF IInv, TypeOK, IdempotencyTypeOK
    <3>4. CASE Work(q)
      BY <1>1, <3>3, <3>4, OverType DEF Work
    <3>5. CASE Save(q)
      BY <1>1, <3>3, <3>5 DEF Save, Sent
    <3>6. CASE CutOff(q)
      BY <1>1, <3>3, <3>6, OverType DEF CutOff
    <3>7. ASSUME NEW k \in Keys, NEW b \in Bodies, LookUp(q, k, b) PROVE q = r
      BY <1>1, <3>3, <3>7, OverType DEF LookUp, Sent
    <3> QED
      BY <3>2, <3>4, <3>5, <3>6, <3>7
  <2>2. request \in [Requests -> Request] /\ now \in Nat /\ record \in [Keys -> Record]
    BY <1>1 DEF IInv, TypeOK, IdempotencyTypeOK
  <2>3. ~Live(k) /\ request'[r].key = k
    BY <1>1, <2>1, <2>2, OverType DEF LookUp, Sent
  <2>4. AnswerIsKept(s)
    BY <1>1 DEF IInv, AnswersAreSound
  <2>5. request[s].until \in Nat /\ record[k].expiresAt \in Nat
    BY <2>2 DEF Request, Record
  <2> QED
    BY <1>1, <2>2, <2>3, <2>4, <2>5 DEF AnswerIsKept, Live
<1>2. IInv /\ [Next]_vars =>
        (\A r, s \in Requests :
           /\ request[r].at = "new" /\ request'[r].at = "working"
           /\ request[s].at = "answered" /\ request[s].key = request'[r].key
           => request[s].until <= now)
  BY <1>1
<1>3. UNCHANGED <<record, request, now>> \/ ~UNCHANGED <<record, request, now>>
  OBVIOUS
<1> QED
  BY InductiveInvariant, <1>2, PTL DEF Spec, RetriesDoNoWork

\* No run, however many there are and wherever they die, leaves an object behind
\* that nobody was told of.
THEOREM NothingIsLeftUnnamed == Spec => []NothingLeaksUnnamed
<1>1. IInv => NothingLeaksUnnamed
  BY DEF IInv
<1> QED
  BY InductiveInvariant, <1>1, PTL

\* Retention takes nothing it should keep: a row leaves the table only past its
\* age, and while it is there its object is not taken from storage, although a
\* run deletes what it read some time before, and others may be confirming it.
YoungEvidenceIsKept ==
  [][\A e \in Rows : /\ ~Old(e) => e \in Rows'
                     /\ e \in Rows' /\ e \in objects => e \in objects']_vars

\* However many runs there are, and however late they go on with what they read.
THEOREM RetentionTakesOnlyTheOld == Spec => YoungEvidenceIsKept
<1>1. ASSUME IInv, [Next]_vars, NEW e \in Rows
      PROVE  /\ ~Old(e) => e \in Rows'
             /\ e \in Rows' /\ e \in objects => e \in objects'
  <2> USE <1>1 DEF IInv
  <2>1. e \in Evidence /\ row[e] \in {"REQUESTED", "UPLOADED"}
    BY DEF Rows
  <2>2. CASE UNCHANGED <<row, objects>>
    BY <2>1, <2>2 DEF Rows
  <2>3. ASSUME NEW f \in Evidence, CreateEvidence(f) \/ Put(f)
        PROVE  e \in Rows' /\ (e \in objects => e \in objects')
    BY <2>1, <2>3 DEF CreateEvidence, Put, Rows, TypeOK
  <2>4. ASSUME NEW f \in Evidence, NEW u \in Persons, Confirm(u, f)
        PROVE  e \in Rows' /\ (e \in objects => e \in objects')
    BY <2>1, <2>4 DEF Confirm, Rows, TypeOK
  <2>5. ASSUME NEW x \in Runs, DeleteRows(x)
        PROVE  (~Old(e) => e \in Rows') /\ objects' = objects
    BY <2>1, <2>5 DEF DeleteRows, Rows, EvidenceIsAged
  <2>6. ASSUME NEW x \in Runs, DeleteObject(x)
        PROVE  e \in Rows' /\ (e \in objects => e \in objects')
    <3>1. PICK f \in run[x].doomed :
            /\ run[x].at = "deleting" /\ row' = row
            /\ objects' = objects \ {f} \/ objects' = objects
      BY <2>6 DEF DeleteObject
    <3>2. row[f] = "DELETED"
      BY <3>1 DEF RowsGoFirst
    <3> QED
      BY <2>1, <3>1, <3>2 DEF Rows
  <2>7. ASSUME ~\E f \in Evidence : \/ CreateEvidence(f) \/ Put(f)
                                   \/ \E u \in Persons : Confirm(u, f),
               ~\E x \in Runs : DeleteRows(x) \/ DeleteObject(x)
        PROVE  UNCHANGED <<row, objects>>
    BY <2>7, Zenon DEF Next, BeginConfirm, ErasePerson, RunStep, BeginRun, EndRun, RunDies,
                Tick, evidenceVars, vars
  <2> QED
    BY <2>2, <2>3, <2>4, <2>5, <2>6, <2>7
<1>2. IInv /\ [Next]_vars =>
        \A e \in Rows : /\ ~Old(e) => e \in Rows'
                        /\ e \in Rows' /\ e \in objects => e \in objects'
  BY <1>1
<1> QED
  BY InductiveInvariant, <1>2, PTL DEF Spec, YoungEvidenceIsKept

\* No step links one more row to an erased person.
THEOREM ErasureIsFinal == Spec => ErasedStayErased
<1>1. ASSUME IInv, [Next]_vars, NEW v \in erased
      PROVE  LinkedOrAboutToBe(v)' \subseteq LinkedOrAboutToBe(v)
  <2> USE <1>1 DEF LinkedOrAboutToBe, IInv, TypeOK
  <2>1. CASE UNCHANGED <<uploader, confirming>>
    BY <2>1
  <2>2. ASSUME NEW u \in Persons, NEW e \in Evidence, BeginConfirm(u, e)
        PROVE  LinkedOrAboutToBe(v)' \subseteq LinkedOrAboutToBe(v)
    BY <2>2 DEF BeginConfirm
  <2>3. ASSUME NEW u \in Persons, NEW e \in Evidence, Confirm(u, e)
        PROVE  LinkedOrAboutToBe(v)' \subseteq LinkedOrAboutToBe(v)
    BY <2>3 DEF Confirm
  <2>4. ASSUME NEW u \in Persons, ErasePerson(u)
        PROVE  LinkedOrAboutToBe(v)' \subseteq LinkedOrAboutToBe(v)
    BY <2>4, RetentionAssumption DEF ErasePerson
  <2>5. ASSUME ~\E u \in Persons, e \in Evidence : BeginConfirm(u, e) \/ Confirm(u, e),
               ~\E u \in Persons : ErasePerson(u)
        PROVE  UNCHANGED <<uploader, confirming>>
    BY <2>5, Zenon DEF Next, CreateEvidence, Put, RunStep, BeginRun, DeleteRows, DeleteObject,
                EndRun, RunDies, Tick, evidenceVars, vars
  <2> QED
    BY <2>1, <2>2, <2>3, <2>4, <2>5
<1>2. IInv /\ [Next]_vars =>
        \A u \in erased : LinkedOrAboutToBe(u)' \subseteq LinkedOrAboutToBe(u)
  BY <1>1
<1> QED
  BY InductiveInvariant, <1>2, PTL DEF Spec, ErasedStayErased
=============================================================================
