------------------------------- MODULE Money -------------------------------
(***************************************************************************)
(* The arithmetic of money: the VAT of a quote (contracts/money.ts), the   *)
(* check of a breakdown (routes/quotes.ts), the sign every ledger entry    *)
(* carries and what a ledger adds up to (lib/payments.ts).  Amounts are    *)
(* whole cents; the module has no state.                                   *)
(***************************************************************************)
EXTENDS Totals

\* The bounds createQuoteSchema puts on a price and a rate, and the largest
\* value an INTEGER column of the database holds.
MaxCents         == 100000000
MaxRate          == 10000
Cents            == 0..MaxCents
RatesBasisPoints == 0..MaxRate
MaxColumn        == 2147483647

\* vatCents: half a cent is added before the division, so .5 goes up.
VatCents(net, rate) == (net * rate + 5000) \div 10000

\* What the quote route stores of the three amounts.
Quoted(net, rate) ==
  [net |-> net, vat |-> VatCents(net, rate), gross |-> net + VatCents(net, rate)]

\* sumCents, and every other sum over amounts.
SumCents(amounts) == TotalOf(amounts)

\* A breakdown is optional and, when given, must add up to the net price.
BreakdownAccepted(net, lines) == lines = << >> \/ SumCents(lines) = net

-------------------------------------------------------------------------------
(* The ledger *)

\* ENTRY_FOR: the kind of entry an operation of the gateway leaves, its sign.
EntryFor ==
  [authorise |-> <<"AUTHORISATION", 1>>, void |-> <<"AUTHORISATION_VOID", -1>>,
   capture |-> <<"CAPTURE", 1>>, refund |-> <<"REFUND", -1>>,
   payout |-> <<"PAYOUT", -1>>, payoutReversal |-> <<"PAYOUT_REVERSAL", 1>>]

Entry(operation, cents) ==
  [kind |-> EntryFor[operation][1], amount |-> EntryFor[operation][2] * cents]

Total(entries, kinds) ==
  SumCents([i \in 1..Len(entries) |->
              IF entries[i].kind \in kinds THEN entries[i].amount ELSE 0])

\* summariseLedger
LedgerSummary(entries) ==
  [authorised |-> Total(entries, {"AUTHORISATION", "AUTHORISATION_VOID"}),
   captured   |-> Total(entries, {"CAPTURE"}),
   refunded   |-> -Total(entries, {"REFUND"}),
   paidOut    |-> -Total(entries, {"PAYOUT", "PAYOUT_REVERSAL"}),
   net        |-> Total(entries, {"CAPTURE", "REFUND", "PAYOUT", "PAYOUT_REVERSAL"})]
=============================================================================
