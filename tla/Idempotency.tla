---------------------------- MODULE Idempotency ----------------------------
(***************************************************************************)
(* Idempotency keys (plugins/idempotency.ts and the records of             *)
(* store/prisma.ts).  A mutating request looks its key up, does its work   *)
(* and saves the answer: three steps with awaits between them and no lock, *)
(* so requests with one key may overlap, and a request may be cut off      *)
(* after its work and before its save.                                     *)
(*                                                                         *)
(* A key here is the pair (organisation, key) of the store; a body stands  *)
(* for what requestHash digests: method, path and body.  An answer is the  *)
(* request whose work it reports.                                          *)
(***************************************************************************)
EXTENDS Naturals

CONSTANTS
  Keys, Bodies,
  Requests,  \* bound: the requests made with these keys
  Nobody,    \* no answer, no key, no body
  Ttl        \* IDEMPOTENCY_TTL_HOURS

ASSUME IdempotencyAssumption ==
  /\ Nobody \notin Requests \cup Keys \cup Bodies
  /\ Ttl \in Nat \ {0}

VARIABLES
  record,   \* the idempotency record of a key
  request,  \* what each request sent, and how far it is
  now       \* the clock

-------------------------------------------------------------------------------
Stages == {"new", "working", "saving", "answered", "over"}

Record  == [body : Bodies \cup {Nobody}, answer : Requests \cup {Nobody}, expiresAt : Nat]
NoRecord == [body |-> Nobody, answer |-> Nobody, expiresAt |-> 0]

Request == [at : Stages, key : Keys \cup {Nobody}, body : Bodies \cup {Nobody},
            answer : Requests \cup {Nobody}, until : Nat]
Unsent  == [at |-> "new", key |-> Nobody, body |-> Nobody, answer |-> Nobody, until |-> 0]

\* Refused, failed or cut off: the request has got no answer that is remembered.
Over    == [Unsent EXCEPT !.at = "over"]

IdempotencyTypeOK ==
  /\ record \in [Keys -> Record]
  /\ request \in [Requests -> Request]
  /\ now \in Nat

IdempotencyInit ==
  /\ record = [k \in Keys |-> NoRecord]
  /\ request = [r \in Requests |-> Unsent]
  /\ now = 0

\* findIdempotencyRecord: a record past its time counts as none, and stays.
Live(k) == record[k] # NoRecord /\ record[k].expiresAt > now

Sent(r, stage, k, b, answer, until) ==
  request' = [request EXCEPT ![r] = [at |-> stage, key |-> k, body |-> b,
                                     answer |-> answer, until |-> until]]

\* run, up to its work: a record found is replayed to a request with its body
\* and refused (409) to any other.
LookUp(r, k, b) ==
  /\ request[r] = Unsent
  /\ \/ /\ Live(k) /\ record[k].body = b
        /\ Sent(r, "answered", k, b, record[k].answer, record[k].expiresAt)
     \/ /\ Live(k) /\ record[k].body # b
        /\ request' = [request EXCEPT ![r] = Over]
     \/ /\ ~Live(k)
        /\ Sent(r, "working", k, b, Nobody, 0)
  /\ UNCHANGED <<record, now>>

\* The handler's work: only what it answers is stored, so that a request whose
\* work throws may be sent again with its key.
Work(r) ==
  /\ request[r].at = "working"
  /\ \/ request' = [request EXCEPT ![r].at = "saving"]
     \/ request' = [request EXCEPT ![r] = Over]
  /\ UNCHANGED <<record, now>>

SaveAnswerOnly(r) ==
  LET k == request[r].key
  IN  /\ request[r].at = "saving"
      /\ record' = [record EXCEPT ![k] =
                      [body |-> IF @.body = Nobody THEN request[r].body ELSE @.body,
                       answer |-> r, expiresAt |-> now + Ttl]]
      /\ Sent(r, "answered", k, request[r].body, r, now + Ttl)
      /\ UNCHANGED now

\* saveIdempotencyRecord: an upsert, so the last of overlapping requests wins
\* the record, with its hash as well as its answer.
Save(r) ==
  LET k == request[r].key
  IN  /\ request[r].at = "saving"
      /\ record' = [record EXCEPT ![k] =
                      [body |-> request[r].body, answer |-> r, expiresAt |-> now + Ttl]]
      /\ Sent(r, "answered", k, request[r].body, r, now + Ttl)
      /\ UNCHANGED now

\* The process dies, or the save fails: whatever the work did remains.
CutOff(r) ==
  /\ request[r].at \in {"working", "saving"}
  /\ request' = [request EXCEPT ![r] = Over]
  /\ UNCHANGED <<record, now>>

RequestStep ==
  \E r \in Requests :
    \/ \E k \in Keys, b \in Bodies : LookUp(r, k, b)
    \/ Work(r)
    \/ Save(r)
    \/ CutOff(r)

-------------------------------------------------------------------------------
(* Properties *)

\* No request is given the answer to another request's body, however the
\* requests with one key overlap and overwrite each other's record: neither the
\* ones answered so far, nor one that finds the record as it is.
AnswersMatchTheirRequest ==
  LET Matches(a, k, b) == a \in Requests /\ request[a].key = k /\ request[a].body = b
  IN  /\ \A r \in Requests : request[r].at = "answered" =>
           Matches(request[r].answer, request[r].key, request[r].body)
      /\ \A k \in Keys : record[k] # NoRecord =>
           Matches(record[k].answer, k, record[k].body)

\* A retry of a request that was answered never starts its work again while
\* that answer is to be remembered: neither an overwrite by an overlapping
\* request, nor the clock, nor a run of retention takes the record early.
RetriesDoNoWork ==
  [][\A r, s \in Requests :
       /\ request[r].at = "new" /\ request'[r].at = "working"
       /\ request[s].at = "answered" /\ request[s].key = request'[r].key
       => request[s].until <= now]_<<record, request, now>>
=============================================================================
