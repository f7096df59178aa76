------------------------------- MODULE Outbox -------------------------------
(***************************************************************************)
(* The transactional outbox and the workers that drain it (lib/outbox.ts,  *)
(* worker/worker.ts, the outbox operations of store/prisma.ts): rows       *)
(* written with the event they announce, claimed under a lease, delivered  *)
(* at least once, retried, and given up after MaxAttempts.                 *)
(*                                                                         *)
(* A row is indexed by its dedupe key, which is unique.  Time is one bit   *)
(* per row, due: availableAt has passed.  A claim moves availableAt past   *)
(* the lease and a failure past the back-off; either runs out at any       *)
(* moment, so a lease may be outlived by the delivery it was taken for.    *)
(* What a delivery does is the business of the module that extends this    *)
(* one; it moves a worker from "next" to "done" or "failed".               *)
(***************************************************************************)
EXTENDS Naturals, FiniteSets

CONSTANTS
  Jobs, Quotes,
  Workers,       \* processes that drain the outbox, one drain at a time each
  None,          \* no message, no quote
  BatchSize,     \* WorkerOptions.batchSize: the most rows one drain claims
  MaxAttempts,   \* OUTBOX_MAX_ATTEMPTS
  WorkersMayDie  \* may a drain end half-way (process death, failed mark)?

ASSUME OutboxAssumption ==
  /\ {BatchSize, MaxAttempts} \subseteq Nat \ {0}
  /\ WorkersMayDie \in BOOLEAN

VARIABLES
  outbox,        \* the outbox row of every dedupe key
  worker         \* where each worker is in its drain

RowStatuses == {"NONE", "PENDING", "FAILED", "SENT", "DEAD"}
Row == [status : RowStatuses, attempts : Nat, due : BOOLEAN]

\* The dedupe keys of the messages that move money: topic, job, and for a
\* decision its quote.
Keys ==
  [topic : {"quote.decided"}, job : Jobs, quote : Quotes] \cup
  [topic : {"job.completed", "job.cancelled"}, job : Jobs, quote : {None}]

NoRow   == [status |-> "NONE", attempts |-> 0, due |-> FALSE]
NewRow  == [status |-> "PENDING", attempts |-> 0, due |-> TRUE]

\* createMany with skipDuplicates: a key that has a row keeps it.
Enqueue(keys) ==
  outbox' = [k \in Keys |-> IF k \in keys /\ outbox[k] = NoRow THEN NewRow ELSE outbox[k]]

-------------------------------------------------------------------------------
(* Claiming *)

ClaimableOnce == {k \in Keys : outbox[k].status = "PENDING" /\ outbox[k].due}
Claimable == {k \in Keys : outbox[k].status \in {"PENDING", "FAILED"} /\ outbox[k].due}

\* claimOutbox: up to a batch of the due rows, fewer if another claim has them
\* locked.  The rows are returned as they are now, attempts included.
Batches == {keys \in SUBSET Claimable : keys # {} /\ Cardinality(keys) <= BatchSize}
Claimed(keys) == [k \in Keys |-> IF k \in keys THEN [outbox[k] EXCEPT !.due = FALSE]
                                               ELSE outbox[k]]
BatchWithoutAttempts(keys) == {<<k, None>> : k \in keys}
Batch(keys) == {<<k, outbox[k].attempts>> : k \in keys}

\* The lease of a claimed row, or the back-off of a failed one, runs out.
TimePasses(k) ==
  /\ outbox[k].status \in {"PENDING", "FAILED"}
  /\ ~outbox[k].due
  /\ outbox' = [outbox EXCEPT ![k].due = TRUE]

-------------------------------------------------------------------------------
(* Settling *)

Delivered(k) == outbox' = [outbox EXCEPT ![k].status = "SENT"]

\* The CHECK delivered_iff_sent: a row that was delivered stays SENT.
FailureRefused(k) == outbox[k].status = "SENT"

FailedOneLate(k, tries) ==
  LET n == outbox[k].attempts + 1
  IN  outbox' = [outbox EXCEPT ![k] =
                   IF tries >= MaxAttempts
                   THEN [status |-> "DEAD", attempts |-> n, due |-> @.due]
                   ELSE [status |-> "FAILED", attempts |-> n, due |-> FALSE]]

\* markOutboxFailed: attempts counts in the row, but whether to give up was
\* decided from the attempts the row had when it was claimed.
Failed(k, tries) ==
  LET n == outbox[k].attempts + 1
  IN  outbox' = [outbox EXCEPT ![k] =
                   IF tries + 1 >= MaxAttempts
                   THEN [status |-> "DEAD", attempts |-> n, due |-> @.due]
                   ELSE [status |-> "FAILED", attempts |-> n, due |-> FALSE]]
=============================================================================
