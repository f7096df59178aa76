----------------------------- MODULE MCPayments -----------------------------
(***************************************************************************)
(* Payments on model values that TLC may permute, and the arithmetic of    *)
(* Money on small amounts, against what it is meant to compute.            *)
(***************************************************************************)
EXTENDS Payments, TLC

Symmetry == Permutations(Workers) \cup Permutations(Providers)

Cash == INSTANCE Money

\* A breakdown is accepted exactly when its lines add up to the net price.
ASSUME BreakdownAddsUp ==
  \A net \in 0..4, a \in 0..4, b \in 0..4 :
    Cash!BreakdownAccepted(net, <<a, b>>) <=> a + b = net

\* What is held is what came in, less what went back and what was paid out, and
\* a hold is no part of it: on every ledger of up to three entries.
ASSUME LedgerAddsUp ==
  \A n \in 0..3 :
    \A entries \in [1..n -> {Cash!Entry(op, c) : op \in DOMAIN Cash!EntryFor, c \in 1..2}] :
      LET sum == Cash!LedgerSummary(entries)
      IN  /\ sum.net = sum.captured - sum.refunded - sum.paidOut
          /\ (sum.captured = 0 /\ sum.refunded = 0 /\ sum.paidOut = 0) => sum.net = 0

\* A job that was paid for and carried out: the whole price less the payout stays.
ASSUME FinishedJobAddsUp ==
  \A gross \in 1..3, payout \in 1..3 :
    Cash!LedgerSummary(<<Cash!Entry("authorise", gross), Cash!Entry("capture", gross),
                         Cash!Entry("payout", payout)>>)
      = [authorised |-> gross, captured |-> gross, refunded |-> 0, paidOut |-> payout,
         net |-> gross - payout]
=============================================================================
