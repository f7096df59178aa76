------------------------------- MODULE Totals -------------------------------
(***************************************************************************)
(* The sum of a list of whole numbers, as `reduce` computes it in          *)
(* contracts/money.ts, lib/payments.ts and lib/eligibility.ts: one element *)
(* after the other, from zero.                                             *)
(***************************************************************************)
EXTENDS Integers, Sequences

\* What the sum is after each element of the list.
RunningTotal(list) ==
  LET total[n \in 0..Len(list)] == IF n = 0 THEN 0 ELSE total[n - 1] + list[n]
  IN  total

TotalOf(list) == RunningTotal(list)[Len(list)]
=============================================================================
