------------------------------ MODULE JobStatus ------------------------------
(***************************************************************************)
(* The job status table of packages/contracts/src/job.ts: the statuses a   *)
(* recovery job can have and the only transitions between them.            *)
(***************************************************************************)

Statuses ==
  {"DRAFT", "TRIAGED", "QUOTED", "ASSIGNED", "IN_PROGRESS", "COMPLETED", "CANCELLED"}

TransitionsAfterCompletion ==
  ({"DRAFT"}       \X {"TRIAGED", "CANCELLED"}) \cup
  ({"TRIAGED"}     \X {"QUOTED", "CANCELLED"}) \cup
  ({"QUOTED"}      \X {"ASSIGNED", "CANCELLED"}) \cup
  ({"ASSIGNED"}    \X {"IN_PROGRESS", "QUOTED", "CANCELLED"}) \cup
  ({"IN_PROGRESS"} \X {"COMPLETED", "QUOTED"}) \cup
  ({"COMPLETED"}   \X {"CANCELLED"})

\* JOB_TRANSITIONS, as the set of its edges.
Transitions ==
  ({"DRAFT"}       \X {"TRIAGED", "CANCELLED"}) \cup
  ({"TRIAGED"}     \X {"QUOTED", "CANCELLED"}) \cup
  ({"QUOTED"}      \X {"ASSIGNED", "CANCELLED"}) \cup
  ({"ASSIGNED"}    \X {"IN_PROGRESS", "QUOTED", "CANCELLED"}) \cup
  ({"IN_PROGRESS"} \X {"COMPLETED", "QUOTED"})

\* A job that was never created has no row, and so no legal transition.
CanTransition(from, to) == <<from, to>> \in Transitions

Terminal == {"COMPLETED", "CANCELLED"}

\* The statuses in which a provider is expected to be at work.
Held == {"ASSIGNED", "IN_PROGRESS", "COMPLETED"}
==============================================================================
