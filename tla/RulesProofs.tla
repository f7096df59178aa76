---------------------------- MODULE RulesProofs ----------------------------
(***************************************************************************)
(* Theorems about the pure rules: money, ranking, triage and tenancy, for  *)
(* every input the program can be given.                                   *)
(***************************************************************************)
EXTENDS Money, Triage, Tenancy, FiniteSetTheorems, FunctionTheorems, TLAPS

-----------------------------------------------------------------------------
(* Induction, and sums *)

LEMMA LeastNatural ==
  ASSUME NEW S \in SUBSET Nat, S # {}
  PROVE  \E n \in S : \A m \in S : n <= m
<1> DEFINE less == OpToRel(<, Nat)
<1>1. IsWellFoundedOn(less, Nat)
  BY NatLessThanWellFounded
<1>2. \A m, n \in Nat : <<m, n>> \in less <=> m < n
  BY DEF OpToRel
<1> HIDE DEF less
<1>3. PICK n \in S : \A m \in S : <<m, n>> \notin less
  BY <1>1, WFMin
<1>4. ASSUME NEW m \in S PROVE n <= m
  <2>1. ~(m < n) /\ m \in Nat /\ n \in Nat
    BY <1>2, <1>3
  <2> QED
    BY <2>1
<1> QED
  BY <1>4

\* Induction over the natural numbers, for a set instead of a predicate.
LEMMA InductionOverNat ==
  ASSUME NEW S, 0 \in S, \A n \in Nat : n \in S => n + 1 \in S
  PROVE  \A n \in Nat : n \in S
<1> SUFFICES ASSUME Nat \ S # {} PROVE FALSE
  OBVIOUS
<1>1. PICK n \in Nat \ S : \A m \in Nat \ S : n <= m
  BY LeastNatural
<1>2. n # 0 /\ n - 1 \in Nat /\ n - 1 \in S
  BY <1>1
<1> QED
  BY <1>1, <1>2

\* f holds the sums of the beginnings of a list.
SumsUp(f, list) ==
  /\ f[0] = 0
  /\ \A i \in 1..Len(list) : f[i] = f[i - 1] + list[i]

LEMMA SumsExist ==
  ASSUME NEW list \in Seq(Int)
  PROVE  \E f \in [0..Len(list) -> Int] : SumsUp(f, list)
<1> DEFINE Sums(n) == {f \in [0..n -> Int] :
                         f[0] = 0 /\ \A i \in 1..n : f[i] = f[i - 1] + list[i]}
           S == {n \in Nat : n <= Len(list) => Sums(n) # {}}
<1>1. 0 \in S
  <2>1. [i \in 0..0 |-> 0] \in Sums(0)
    OBVIOUS
  <2> QED
    BY <2>1
<1>2. ASSUME NEW n \in Nat, n \in S, n + 1 <= Len(list) PROVE Sums(n + 1) # {}
  <2>0. Sums(n) # {}
    <3> HIDE DEF Sums
    <3> QED
      BY <1>2
  <2>1. PICK f \in [0..n -> Int] : f[0] = 0 /\ \A i \in 1..n : f[i] = f[i - 1] + list[i]
    BY <2>0
  <2> DEFINE g == [i \in 0..(n + 1) |-> IF i = n + 1 THEN f[n] + list[n + 1] ELSE f[i]]
  <2>2. list[n + 1] \in Int /\ f[n] \in Int
    BY <1>2, n + 1 \in 1..Len(list)
  <2>3. g \in [0..(n + 1) -> Int]
    BY <2>1, <2>2
  <2>4. g[0] = 0 /\ \A i \in 1..(n + 1) : g[i] = g[i - 1] + list[i]
    BY <2>1
  <2>5. g \in Sums(n + 1)
    BY <2>3, <2>4
  <2> QED
    BY <2>5
<1> HIDE DEF Sums
<1>3. \A n \in Nat : n \in S => n + 1 \in S
  BY <1>2
<1>4. \A n \in Nat : n \in S
  <2> HIDE DEF S
  <2> QED
    BY <1>1, <1>3, InductionOverNat
<1>5. Sums(Len(list)) # {}
  BY <1>4
<1> QED
  BY <1>5 DEF SumsUp, Sums

\* A function that sums up a list holds whole numbers, and there is one only.
LEMMA SumsAreUnique ==
  ASSUME NEW list \in Seq(Int), NEW f, NEW g, SumsUp(f, list), SumsUp(g, list)
  PROVE  \A n \in 0..Len(list) : f[n] \in Int /\ f[n] = g[n]
<1> DEFINE S == {n \in Nat : n <= Len(list) => f[n] \in Int /\ f[n] = g[n]}
<1>1. 0 \in S
  BY DEF SumsUp
<1>2. ASSUME NEW n \in Nat, n \in S, n + 1 <= Len(list)
      PROVE  f[n + 1] \in Int /\ f[n + 1] = g[n + 1]
  <2>1. n + 1 \in 1..Len(list) /\ list[n + 1] \in Int /\ (n + 1) - 1 = n
    BY <1>2
  <2>2. f[n + 1] = f[n] + list[n + 1] /\ g[n + 1] = g[n] + list[n + 1]
    BY <2>1 DEF SumsUp
  <2>3. f[n] \in Int /\ f[n] = g[n]
    BY <1>2
  <2> QED
    BY <2>1, <2>2, <2>3
<1>3. \A n \in Nat : n \in S => n + 1 \in S
  BY <1>2
<1>4. \A n \in Nat : n \in S
  <2> HIDE DEF S
  <2> QED
    BY <1>1, <1>3, InductionOverNat
<1> QED
  BY <1>4

LEMMA RunningTotalSums ==
  ASSUME NEW list \in Seq(Int)
  PROVE  SumsUp(RunningTotal(list), list)
<1> DEFINE Step(f) == [n \in 0..Len(list) |-> IF n = 0 THEN 0 ELSE f[n - 1] + list[n]]
<1>1. PICK f \in [0..Len(list) -> Int] : SumsUp(f, list)
  BY SumsExist
<1>2. f = Step(f)
  BY <1>1 DEF SumsUp
<1> DEFINE total == RunningTotal(list)
<1>3. total = Step(total)
  BY <1>2 DEF RunningTotal
<1>4. \A n \in 0..Len(list) : total[n] = IF n = 0 THEN 0 ELSE total[n - 1] + list[n]
  BY <1>3
<1>5. Len(list) \in Nat
  OBVIOUS
<1>6. SumsUp(total, list)
  <2> HIDE DEF total
  <2>1. \A i \in 1..Len(list) : i \in 0..Len(list) /\ i # 0
    BY <1>5
  <2>2. 0 \in 0..Len(list)
    BY <1>5
  <2> QED
    BY <1>4, <2>1, <2>2 DEF SumsUp
<1> QED
  BY <1>6 DEF total

\* The sum of a list is the last value of whatever sums it up.
LEMMA TotalIsTheLast ==
  ASSUME NEW list \in Seq(Int), NEW f, SumsUp(f, list)
  PROVE  TotalOf(list) \in Int /\ TotalOf(list) = f[Len(list)]
<1>1. Len(list) \in 0..Len(list)
  OBVIOUS
<1> QED
  BY <1>1, RunningTotalSums, SumsAreUnique DEF TotalOf

\* One more element counts once.
LEMMA TotalOfAppend ==
  ASSUME NEW list \in Seq(Int), NEW last \in Int
  PROVE  TotalOf(Append(list, last)) = TotalOf(list) + last
<1> DEFINE longer == Append(list, last)
           f == RunningTotal(longer)
<1>1. /\ longer \in Seq(Int) /\ Len(longer) = Len(list) + 1 /\ longer[Len(list) + 1] = last
      /\ \A i \in 1..Len(list) : longer[i] = list[i]
      /\ Len(list) \in Nat
  OBVIOUS
<1>2. SumsUp(f, longer)
  BY <1>1, RunningTotalSums
<1> HIDE DEF longer, f
<1>3. SumsUp(f, list)
  <2>1. ASSUME NEW i \in 1..Len(list) PROVE f[i] = f[i - 1] + list[i]
    <3>1. i \in 1..Len(longer) /\ longer[i] = list[i]
      BY <1>1
    <3>2. f[i] = f[i - 1] + longer[i]
      BY <1>2, <3>1 DEF SumsUp
    <3> QED
      BY <3>1, <3>2
  <2>2. f[0] = 0
    BY <1>2 DEF SumsUp
  <2> QED
    BY <2>1, <2>2 DEF SumsUp
<1>4. TotalOf(longer) = f[Len(list) + 1] /\ TotalOf(list) = f[Len(list)]
  BY <1>1, <1>2, <1>3, TotalIsTheLast
<1>5. f[Len(list) + 1] = f[Len(list)] + last
  <2>1. Len(list) + 1 \in 1..Len(longer) /\ (Len(list) + 1) - 1 = Len(list)
    BY <1>1
  <2>2. f[Len(list) + 1] = f[(Len(list) + 1) - 1] + longer[Len(list) + 1]
    BY <1>2, <2>1 DEF SumsUp
  <2> QED
    BY <1>1, <2>1, <2>2
<1> QED
  BY <1>1, <1>4, <1>5 DEF longer

\* The sum of sums, element by element.
LEMMA TotalsAdd ==
  ASSUME NEW a \in Seq(Int), NEW b \in Seq(Int), NEW c \in Seq(Int),
         Len(b) = Len(a), Len(c) = Len(a), \A i \in 1..Len(a) : c[i] = a[i] + b[i]
  PROVE  TotalOf(c) = TotalOf(a) + TotalOf(b)
<1> DEFINE f == RunningTotal(a)
           g == RunningTotal(b)
           h == [i \in 0..Len(a) |-> f[i] + g[i]]
<1>1. SumsUp(f, a) /\ SumsUp(g, b) /\ Len(a) \in Nat
  BY RunningTotalSums
<1> HIDE DEF f, g
<1>2. \A i \in 0..Len(a) : f[i] \in Int /\ g[i] \in Int
  BY <1>1, SumsAreUnique
<1>3. SumsUp(h, c)
  <2>1. h[0] = 0
    BY <1>1 DEF SumsUp
  <2>2. ASSUME NEW i \in 1..Len(a) PROVE h[i] = h[i - 1] + c[i]
    <3> DEFINE u == f[i - 1]
               v == g[i - 1]
               x == a[i]
               y == b[i]
    <3>1. i \in 0..Len(a) /\ i - 1 \in 0..Len(a) /\ x \in Int /\ y \in Int
      BY <1>1
    <3>2. u \in Int /\ v \in Int
      BY <1>2, <3>1
    <3>3. f[i] = u + x /\ g[i] = v + y
      BY <1>1 DEF SumsUp
    <3>4. h[i] = f[i] + g[i] /\ h[i - 1] = u + v /\ c[i] = x + y
      BY <3>1
    <3> HIDE DEF u, v, x, y, h
    <3>5. (u + x) + (v + y) = (u + v) + (x + y)
      BY <3>1, <3>2
    <3> QED
      BY <3>3, <3>4, <3>5
  <2> QED
    BY <2>1, <2>2 DEF SumsUp
<1>4. TotalOf(c) = h[Len(a)] /\ TotalOf(a) = f[Len(a)] /\ TotalOf(b) = g[Len(a)]
  BY <1>1, <1>3, TotalIsTheLast
<1> QED
  BY <1>1, <1>4

\* A sum of what is not negative is not negative.
LEMMA TotalOfNaturals ==
  ASSUME NEW list \in Seq(Nat)
  PROVE  TotalOf(list) \in Nat
<1> DEFINE f == RunningTotal(list)
           S == {n \in Nat : n <= Len(list) => f[n] \in Nat}
<1>1. list \in Seq(Int) /\ SumsUp(f, list)
  <2>1. list \in Seq(Int)
    OBVIOUS
  <2> QED
    BY <2>1, RunningTotalSums
<1>2. TotalOf(list) = f[Len(list)]
  BY <1>1, TotalIsTheLast
<1> HIDE DEF f
<1>3. 0 \in S
  BY <1>1 DEF SumsUp
<1>4. ASSUME NEW n \in Nat, n \in S, n + 1 <= Len(list) PROVE f[n + 1] \in Nat
  <2>1. n + 1 \in 1..Len(list) /\ list[n + 1] \in Nat /\ (n + 1) - 1 = n /\ f[n] \in Nat
    BY <1>4
  <2>2. f[n + 1] = f[n] + list[n + 1]
    BY <1>1, <2>1 DEF SumsUp
  <2> QED
    BY <2>1, <2>2
<1>5. \A n \in Nat : n \in S => n + 1 \in S
  BY <1>4
<1>6. \A n \in Nat : n \in S
  <2> HIDE DEF S
  <2> QED
    BY <1>3, <1>5, InductionOverNat
<1> QED
  BY <1>2, <1>6

-----------------------------------------------------------------------------
(* Money *)

\* The largest integer a number of the API holds without loss.
MaxSafeInteger == 9007199254740991

\* A whole number of cents nearest to an amount in hundredths of a basis point.
NearestCent(cents, exact) ==
  10000 * cents - 5000 <= exact /\ exact < 10000 * cents + 5000

\* VAT is the exact product rounded to the nearest cent, half a cent going up:
\* the comment on vatCents asks for exactly this rounding.
THEOREM VatIsRoundedHalfUp ==
  ASSUME NEW net \in Nat, NEW rate \in Nat
  PROVE  /\ VatCents(net, rate) \in Nat
         /\ NearestCent(VatCents(net, rate), net * rate)
<1> DEFINE x == net * rate + 5000
<1>1. x \in Nat /\ net * rate \in Nat
  BY SMT
<1>2. ASSUME NEW y \in Nat
      PROVE  y \div 10000 \in Nat /\ 10000 * (y \div 10000) <= y
                /\ y < 10000 * (y \div 10000) + 10000
  BY SMT
<1>3. /\ x \div 10000 \in Nat
      /\ 10000 * (x \div 10000) <= x
      /\ x < 10000 * (x \div 10000) + 10000
  BY SMT, <1>1, <1>2
<1>4. VatCents(net, rate) = x \div 10000
  BY SMT DEF VatCents
<1> HIDE DEF x
<1>5. x = net * rate + 5000
  BY DEF x
<1> QED
  BY SMT, <1>1, <1>3, <1>4, <1>5 DEF NearestCent

\* A product of bounded factors is bounded: the step of arithmetic below.
LEMMA BoundedProduct ==
  ASSUME NEW a \in Nat, NEW b \in Nat, NEW m \in Nat, NEW n \in Nat, a <= m, b <= n
  PROVE  a * b \in Nat /\ a * b <= m * n
<1>1. a * b <= m * b
  BY Z3
<1>2. m * b <= m * n
  BY Z3
<1> QED
  BY <1>1, <1>2

\* No price and rate the quote schema lets through loses a digit on the way, and
\* the three amounts of a quote fit the columns they are stored in.
THEOREM QuoteFitsItsColumn ==
  ASSUME NEW net \in Cents, NEW rate \in RatesBasisPoints
  PROVE  /\ net * rate + 5000 <= MaxSafeInteger
         /\ Quoted(net, rate) \in [net : 0..MaxColumn, vat : 0..net, gross : net..MaxColumn]
<1>1. /\ net \in Nat /\ net <= MaxCents /\ MaxCents \in Nat
      /\ rate \in Nat /\ rate <= MaxRate /\ MaxRate \in Nat
  <2>1. MaxCents \in Nat /\ MaxRate \in Nat
    BY SMT DEF MaxCents, MaxRate
  <2> QED
    BY SMT, <2>1 DEF Cents, RatesBasisPoints
<1>2. /\ net * rate \in Nat
      /\ net * rate <= net * MaxRate
      /\ net * rate <= MaxCents * MaxRate
  BY <1>1, BoundedProduct
<1> DEFINE v == VatCents(net, rate)
<1>3. v \in Nat /\ NearestCent(v, net * rate)
  BY <1>1, VatIsRoundedHalfUp
<1> HIDE DEF v
<1>4. v <= net
  BY SMT, <1>1, <1>2, <1>3 DEF NearestCent, MaxRate
<1>5. net * rate + 5000 <= MaxSafeInteger
  BY SMT, <1>1, <1>2 DEF MaxSafeInteger, MaxCents, MaxRate
<1>6. MaxColumn \in Nat /\ MaxCents + MaxCents <= MaxColumn
  BY SMT DEF MaxColumn, MaxCents
<1>7. net \in 0..MaxColumn /\ v \in 0..net /\ net + v \in net..MaxColumn
  BY SMT, <1>1, <1>3, <1>4, <1>6
<1>8. Quoted(net, rate) = [net |-> net, vat |-> v, gross |-> net + v]
  BY SMT DEF Quoted, v
<1> QED
  BY <1>5, <1>7, <1>8

\* A dearer price never carries less VAT at the same rate.
THEOREM VatGrowsWithThePrice ==
  ASSUME NEW a \in Nat, NEW b \in Nat, NEW rate \in Nat, a <= b
  PROVE  VatCents(a, rate) <= VatCents(b, rate)
<1>1. a * rate \in Nat /\ b * rate \in Nat /\ a * rate <= b * rate
  BY BoundedProduct
<1>2. /\ VatCents(a, rate) \in Nat /\ NearestCent(VatCents(a, rate), a * rate)
      /\ VatCents(b, rate) \in Nat /\ NearestCent(VatCents(b, rate), b * rate)
  BY VatIsRoundedHalfUp
<1> QED
  BY SMT, <1>1, <1>2 DEF NearestCent

-----------------------------------------------------------------------------
(* The ledger *)

LedgerEntry == [kind : {EntryFor[operation][1] : operation \in DOMAIN EntryFor}, amount : Int]

\* What an entry counts for in the total of some kinds.
Counted(entry, kinds) == IF entry.kind \in kinds THEN entry.amount ELSE 0

Parts(entries, kinds) == [i \in 1..Len(entries) |-> Counted(entries[i], kinds)]

LEMMA TotalOfLedger ==
  ASSUME NEW entries \in Seq(LedgerEntry), NEW kinds
  PROVE  /\ Parts(entries, kinds) \in Seq(Int)
         /\ Len(Parts(entries, kinds)) = Len(entries)
         /\ \A i \in 1..Len(entries) : Parts(entries, kinds)[i] = Counted(entries[i], kinds)
         /\ Total(entries, kinds) = TotalOf(Parts(entries, kinds))
         /\ Total(entries, kinds) \in Int
<1> DEFINE list == Parts(entries, kinds)
<1>1. ASSUME NEW i \in 1..Len(entries) PROVE Counted(entries[i], kinds) \in Int
  <2>1. entries[i] \in LedgerEntry
    OBVIOUS
  <2>2. entries[i].amount \in Int
    BY <2>1 DEF LedgerEntry
  <2> QED
    BY <2>2 DEF Counted
<1>2. /\ list \in Seq(Int) /\ Len(list) = Len(entries)
      /\ \A i \in 1..Len(entries) : list[i] = Counted(entries[i], kinds)
  BY <1>1 DEF Parts
<1>3. Total(entries, kinds) = TotalOf(list)
  BY DEF Total, SumCents, Counted, Parts
<1> HIDE DEF list
<1>4. TotalOf(list) \in Int
  BY <1>2, RunningTotalSums, TotalIsTheLast
<1> QED
  BY <1>2, <1>3, <1>4 DEF list

\* Kinds that have nothing in common are added up apart.
LEMMA KindsAddUp ==
  ASSUME NEW entries \in Seq(LedgerEntry), NEW some, NEW other, some \cap other = {}
  PROVE  Total(entries, some \cup other) = Total(entries, some) + Total(entries, other)
<1> DEFINE a == Parts(entries, some)
           b == Parts(entries, other)
           c == Parts(entries, some \cup other)
<1>1. /\ a \in Seq(Int) /\ Len(a) = Len(entries) /\ Total(entries, some) = TotalOf(a)
      /\ b \in Seq(Int) /\ Len(b) = Len(entries) /\ Total(entries, other) = TotalOf(b)
      /\ c \in Seq(Int) /\ Len(c) = Len(entries)
      /\ Total(entries, some \cup other) = TotalOf(c)
  BY TotalOfLedger
<1>2. ASSUME NEW i \in 1..Len(entries) PROVE c[i] = a[i] + b[i]
  <2>1. entries[i] \in LedgerEntry
    OBVIOUS
  <2>2. entries[i].amount \in Int
    BY <2>1 DEF LedgerEntry
  <2> QED
    BY <2>2 DEF Counted, Parts
<1> HIDE DEF a, b, c
<1> QED
  BY <1>1, <1>2, TotalsAdd

\* One more entry of the ledger counts once, in the totals of its kind.
LEMMA EntryCountsOnce ==
  ASSUME NEW entries \in Seq(LedgerEntry), NEW entry \in LedgerEntry, NEW kinds
  PROVE  Total(Append(entries, entry), kinds) = Total(entries, kinds) + Counted(entry, kinds)
<1> DEFINE n == Len(entries)
           longer == Append(entries, entry)
           a == Parts(entries, kinds)
           b == Parts(longer, kinds)
<1>1. /\ longer \in Seq(LedgerEntry) /\ Len(longer) = n + 1 /\ n \in Nat
      /\ \A i \in 1..n : longer[i] = entries[i]
      /\ longer[n + 1] = entry
  OBVIOUS
<1>2. Counted(entry, kinds) \in Int
  BY DEF Counted, LedgerEntry
<1>3. a \in Seq(Int) /\ Len(a) = n /\ Total(entries, kinds) = TotalOf(a)
  BY TotalOfLedger
<1> HIDE DEF longer
<1>4. b \in Seq(Int) /\ Len(b) = Len(longer) /\ Total(longer, kinds) = TotalOf(b)
  BY <1>1, TotalOfLedger
<1>5. b = Append(a, Counted(entry, kinds))
  <2> DEFINE c == Append(a, Counted(entry, kinds))
  <2>1. c \in Seq(Int) /\ Len(c) = n + 1
    BY <1>1, <1>2, <1>3
  <2>2. ASSUME NEW i \in 1..(n + 1) PROVE b[i] = c[i]
    BY <1>1, <1>2, <1>3 DEF Parts
  <2> HIDE DEF a, b, c, n
  <2>3. b = c
    BY <1>1, <1>4, <2>1, <2>2
  <2> QED
    BY <2>3 DEF c
<1> HIDE DEF a, b
<1>6. TotalOf(b) = TotalOf(a) + Counted(entry, kinds)
  BY <1>2, <1>3, <1>5, TotalOfAppend
<1> QED
  BY <1>3, <1>4, <1>6 DEF longer

\* What RESCUE is holding is what was captured, less what went back to customers
\* and what went on to providers, whatever the ledger and however long; a hold is
\* no part of it.
THEOREM LedgerBalances ==
  ASSUME NEW entries \in Seq(LedgerEntry)
  PROVE  LET sum == LedgerSummary(entries)
         IN  sum.net = sum.captured - sum.refunded - sum.paidOut
<1> DEFINE captured == Total(entries, {"CAPTURE"})
           refund   == Total(entries, {"REFUND"})
           payout   == Total(entries, {"PAYOUT", "PAYOUT_REVERSAL"})
           net      == Total(entries, {"CAPTURE", "REFUND", "PAYOUT", "PAYOUT_REVERSAL"})
<1>1. Total(entries, {"CAPTURE"} \cup {"REFUND"}) = captured + refund
  BY KindsAddUp
<1>2. Total(entries, ({"CAPTURE"} \cup {"REFUND"}) \cup {"PAYOUT", "PAYOUT_REVERSAL"})
        = Total(entries, {"CAPTURE"} \cup {"REFUND"}) + payout
  BY KindsAddUp
<1>3. ({"CAPTURE"} \cup {"REFUND"}) \cup {"PAYOUT", "PAYOUT_REVERSAL"}
        = {"CAPTURE", "REFUND", "PAYOUT", "PAYOUT_REVERSAL"}
  OBVIOUS
<1>4. captured \in Int /\ refund \in Int /\ payout \in Int
  BY TotalOfLedger
<1>5. net = (captured + refund) + payout
  BY <1>1, <1>2, <1>3
<1> HIDE DEF captured, refund, payout, net
<1>6. net = captured - (-refund) - (-payout)
  BY <1>4, <1>5
<1> QED
  BY <1>6 DEF LedgerSummary, captured, refund, payout, net

\* By how much an operation moves an amount that some operations raise and
\* others lower.
Change(operation, cents, raise, lower) ==
  IF operation \in raise THEN cents ELSE IF operation \in lower THEN -cents ELSE 0

\* Each operation of the gateway moves its own amounts of the summary and leaves
\* the others: a hold and its release do not touch what RESCUE holds, and what is
\* voided or reversed takes back what it undoes.
THEOREM OperationMovesItsAmounts ==
  ASSUME NEW entries \in Seq(LedgerEntry), NEW operation \in DOMAIN EntryFor, NEW cents \in Nat
  PROVE  LET before == LedgerSummary(entries)
             after  == LedgerSummary(Append(entries, Entry(operation, cents)))
             C(raise, lower) == Change(operation, cents, raise, lower)
         IN  /\ after.authorised = before.authorised + C({"authorise"}, {"void"})
             /\ after.captured = before.captured + C({"capture"}, {})
             /\ after.refunded = before.refunded + C({"refund"}, {})
             /\ after.paidOut = before.paidOut + C({"payout"}, {"payoutReversal"})
             /\ after.net = before.net
                              + C({"capture", "payoutReversal"}, {"refund", "payout"})
<1> DEFINE entry == Entry(operation, cents)
           longer == Append(entries, entry)
           C(raise, lower) == Change(operation, cents, raise, lower)
<1>1. entry \in LedgerEntry
  BY DEF Entry, LedgerEntry, EntryFor
<1>2. /\ Counted(entry, {"AUTHORISATION", "AUTHORISATION_VOID"}) = C({"authorise"}, {"void"})
      /\ Counted(entry, {"CAPTURE"}) = C({"capture"}, {})
      /\ Counted(entry, {"REFUND"}) = -C({"refund"}, {})
      /\ Counted(entry, {"PAYOUT", "PAYOUT_REVERSAL"}) = -C({"payout"}, {"payoutReversal"})
      /\ Counted(entry, {"CAPTURE", "REFUND", "PAYOUT", "PAYOUT_REVERSAL"})
           = C({"capture", "payoutReversal"}, {"refund", "payout"})
  BY DEF Entry, EntryFor, Counted, Change
<1>3. \A raise, lower : C(raise, lower) \in Int
  BY DEF Change
<1> HIDE DEF entry, C
<1>4. ASSUME NEW kinds
      PROVE  /\ Total(entries, kinds) \in Int
             /\ Total(longer, kinds) = Total(entries, kinds) + Counted(entry, kinds)
  BY <1>1, EntryCountsOnce, TotalOfLedger
<1> HIDE DEF longer
<1>5. LedgerSummary(longer).authorised = LedgerSummary(entries).authorised
                                           + C({"authorise"}, {"void"})
  BY <1>2, <1>4 DEF LedgerSummary
<1>6. LedgerSummary(longer).captured = LedgerSummary(entries).captured + C({"capture"}, {})
  BY <1>2, <1>4 DEF LedgerSummary
<1>7. LedgerSummary(longer).refunded = LedgerSummary(entries).refunded + C({"refund"}, {})
  <2>1. Total(longer, {"REFUND"}) = Total(entries, {"REFUND"}) + (-C({"refund"}, {}))
    BY <1>2, <1>4
  <2>2. -Total(longer, {"REFUND"}) = -Total(entries, {"REFUND"}) + C({"refund"}, {})
    BY <1>3, <1>4, <2>1
  <2> QED
    BY <2>2 DEF LedgerSummary
<1>8. LedgerSummary(longer).paidOut = LedgerSummary(entries).paidOut
                                        + C({"payout"}, {"payoutReversal"})
  <2> DEFINE kinds == {"PAYOUT", "PAYOUT_REVERSAL"}
             change == C({"payout"}, {"payoutReversal"})
  <2>1. Total(longer, kinds) = Total(entries, kinds) + (-change)
    BY <1>2, <1>4
  <2>2. change \in Int /\ Total(entries, kinds) \in Int
    BY <1>3, <1>4
  <2>3. -Total(longer, kinds) = -Total(entries, kinds) + change
    <3> HIDE DEF kinds, change
    <3> QED
      BY <2>1, <2>2
  <2> QED
    BY <2>3 DEF LedgerSummary
<1>9. LedgerSummary(longer).net = LedgerSummary(entries).net
                                    + C({"capture", "payoutReversal"}, {"refund", "payout"})
  BY <1>2, <1>4 DEF LedgerSummary
<1> QED
  BY <1>5, <1>6, <1>7, <1>8, <1>9 DEF entry, longer, C

-----------------------------------------------------------------------------
(* Ranking *)

\* The elements of E that a relation puts before x.
Ahead(x, E, R) == {y \in E : <<y, x>> \in R}

StrictOrder(E, R) ==
  /\ \A x \in E : <<x, x>> \notin R
  /\ \A x, y, z \in E : <<x, y>> \in R /\ <<y, z>> \in R => <<x, z>> \in R
  /\ \A x, y \in E : x # y => <<x, y>> \in R \/ <<y, x>> \in R

\* In a finite strict order the number of elements ahead grows along the order,
\* and the places so counted are 1, 2 and so on, without a gap.
LEMMA PlacesOfAnOrder ==
  ASSUME NEW E, IsFiniteSet(E), NEW R, StrictOrder(E, R)
  PROVE  /\ \A x \in E : Cardinality(Ahead(x, E, R)) \in Nat
         /\ \A x, y \in E : <<x, y>> \in R =>
              Cardinality(Ahead(x, E, R)) < Cardinality(Ahead(y, E, R))
         /\ \A n \in 1..Cardinality(E) : \E x \in E : n = 1 + Cardinality(Ahead(x, E, R))
         /\ \A x \in E : 1 + Cardinality(Ahead(x, E, R)) \in 1..Cardinality(E)
<1> DEFINE C(x) == Cardinality(Ahead(x, E, R))
           n    == Cardinality(E)
           f    == [x \in E |-> 1 + C(x)]
<1>1. \A x \in E : Ahead(x, E, R) \in SUBSET E /\ IsFiniteSet(Ahead(x, E, R))
  BY FS_Subset DEF Ahead
<1>2. n \in Nat /\ \A x \in E : C(x) \in Nat
  BY <1>1, FS_CardinalityType
<1>3. ASSUME NEW x \in E, NEW y \in E, <<x, y>> \in R
      PROVE  C(x) < C(y)
  <2>1. /\ Ahead(x, E, R) \in SUBSET Ahead(y, E, R)
        /\ x \in Ahead(y, E, R) /\ x \notin Ahead(x, E, R)
    BY <1>3 DEF StrictOrder, Ahead
  <2>2. C(x) <= C(y) /\ C(y) # C(x)
    BY <1>1, <2>1, FS_Subset
  <2> QED
    BY <1>2, <2>2
<1>4. ASSUME NEW x \in E PROVE C(x) < n
  <2>1. x \notin Ahead(x, E, R)
    BY DEF StrictOrder, Ahead
  <2>2. C(x) <= n /\ n # C(x)
    BY <1>1, <2>1, FS_Subset
  <2> QED
    BY <1>2, <2>2
<1> HIDE DEF C, n
<1>5. f \in [E -> 1..n]
  BY <1>2, <1>4
<1>6. ASSUME NEW x \in E, NEW y \in E, f[x] = f[y] PROVE x = y
  <2>1. C(x) = C(y)
    BY <1>2, <1>6
  <2>2. ~(C(x) < C(y)) /\ ~(C(y) < C(x))
    BY <1>2, <2>1
  <2> QED
    BY <1>3, <2>2 DEF StrictOrder
<1>7. f \in Injection(E, 1..n)
  BY <1>5, <1>6, Fun_IsInj
<1>8. IsFiniteSet(1..n) /\ Cardinality(1..n) = n
  BY <1>2, FS_Interval
<1>9. f \in Surjection(E, 1..n)
  BY <1>7, <1>8, FS_Injection DEF n
<1>10. \A m \in 1..n : \E x \in E : f[x] = m
  BY <1>9 DEF Surjection
<1> QED
  BY <1>2, <1>3, <1>5, <1>10 DEF C, n

\* A fleet as the registry holds it, in which an id names one vehicle.
IsFleet(vehicles) ==
  /\ IsFiniteSet(vehicles)
  /\ \A v \in vehicles :
       v.id \in Int /\ v.class \in VehicleClasses /\ v.payload \in Int
  /\ \A v, w \in vehicles : v.id = w.id => v = w

PostalCodes == [1..5 -> 0..9]

\* Whoever is ranked, and what for.
IsCandidate(p) ==
  /\ p.id \in Int
  /\ p.road \in Int \cup {Unmeasured}
  /\ p.base \in PostalCodes
  /\ IsFleet(p.vehicles)

IsDemand(demand) == demand.class \in VehicleClasses /\ demand.pickup \in PostalCodes

\* The smallest vehicle that can carry the load is the one selected: no other
\* suitable one is smaller, so that nobody is ranked on a truck when a van would
\* do, and the choice leaves no tie.
THEOREM SmallestVehicleIsSelected ==
  ASSUME NEW vehicles, NEW demand, IsFleet(vehicles), Suitable(vehicles, demand) # {}
  PROVE  /\ SelectVehicle(vehicles, demand) \in Suitable(vehicles, demand)
         /\ \A w \in Suitable(vehicles, demand) \ {SelectVehicle(vehicles, demand)} :
              /\ Smaller(SelectVehicle(vehicles, demand), w)
              /\ ~Smaller(w, SelectVehicle(vehicles, demand))
<1> DEFINE S == Suitable(vehicles, demand)
           R == {vw \in S \X S : Smaller(vw[1], vw[2])}
<1>1. S \in SUBSET vehicles
  BY DEF Suitable
<1>2. IsFiniteSet(S) /\ Cardinality(S) \in Nat /\ Cardinality(S) # 0
  BY <1>1, FS_Subset, FS_CardinalityType, FS_EmptySet DEF IsFleet
<1>3. \A v \in S : v.id \in Int /\ v.payload \in Int /\ VehicleClassRank[v.class] \in Int
  BY <1>1 DEF IsFleet, VehicleClasses, VehicleClassRank
<1>4. \A v, w \in S : v.id = w.id => v = w
  BY <1>1 DEF IsFleet
<1>5. \A v, w \in S : <<v, w>> \in R <=> Smaller(v, w)
  OBVIOUS
<1> HIDE DEF S, R
<1>6. StrictOrder(S, R)
  BY <1>3, <1>4, <1>5 DEF StrictOrder, Smaller
<1>7. PICK v \in S : 1 = 1 + Cardinality(Ahead(v, S, R))
  BY <1>2, <1>6, PlacesOfAnOrder
<1>8. Ahead(v, S, R) = {}
  <2>1. IsFiniteSet(Ahead(v, S, R))
    BY <1>2, FS_Subset DEF Ahead
  <2>2. Cardinality(Ahead(v, S, R)) = 0
    BY <1>2, <1>6, <1>7, PlacesOfAnOrder
  <2> QED
    BY <2>1, <2>2, FS_EmptySet
<1>9. \A w \in S \ {v} : Smaller(v, w)
  BY <1>5, <1>6, <1>8 DEF StrictOrder, Ahead
<1>10. /\ SelectVehicle(vehicles, demand) \in S
       /\ \A w \in S \ {SelectVehicle(vehicles, demand)} :
            Smaller(SelectVehicle(vehicles, demand), w)
  BY <1>9 DEF SelectVehicle, S
<1>11. \A v1, w \in S : Smaller(v1, w) => ~Smaller(w, v1)
  BY <1>5, <1>6 DEF StrictOrder
<1> QED
  BY <1>10, <1>11 DEF S

\* What the order compares: a distance, the size of the vehicle and the id.
Comparable(p, demand) ==
  /\ Distance(p, demand) \in Int
  /\ VehicleRank(p, demand) \in Int
  /\ p.id \in Int

LEMMA EligibleAreComparable ==
  ASSUME NEW p, NEW demand, NEW now, IsCandidate(p), IsDemand(demand),
         IsEligible(p, demand, now)
  PROVE  Comparable(p, demand)
<1>1. Distance(p, demand) \in Int
  <2> DEFINE shared == {n \in 1..5 : \A i \in 1..n : p.base[i] = demand.pickup[i]}
  <2>1. IsFiniteSet(1..5) /\ Cardinality(1..5) = 5
    <3>1. \A n \in Int : n > 0 => IsFiniteSet(1..n) /\ Cardinality(1..n) = n
      BY FS_Interval
    <3>2. 5 \in Int /\ 5 > 0
      OBVIOUS
    <3> QED
      BY <3>1, <3>2, Zenon
  <2>2. shared \in SUBSET (1..5)
    OBVIOUS
  <2>3. IsFiniteSet(shared) /\ Cardinality(shared) <= 5
    BY <2>1, <2>2, FS_Subset
  <2>4. Cardinality(shared) \in 0..5
    BY <2>3, FS_CardinalityType
  <2> DEFINE n == Cardinality(shared)
  <2>5. EstimateDistance(p.base, demand.pickup) = EstimateFor[n]
    BY DEF EstimateDistance, SharedPrefix
  <2> HIDE DEF n
  <2>6. EstimateFor[n] \in Int
    BY <2>4 DEF EstimateFor, n
  <2> QED
    BY <2>5, <2>6 DEF Distance, IsCandidate
<1>2. Suitable(p.vehicles, demand) # {}
  <2>1. "NO_SUITABLE_VEHICLE" \notin Reasons(p, demand, now)
    BY DEF IsEligible
  <2> QED
    BY <2>1 DEF Reasons
<1>3. SelectVehicle(p.vehicles, demand) \in p.vehicles
  BY <1>2, SmallestVehicleIsSelected DEF IsCandidate, Suitable
<1> QED
  BY <1>1, <1>3
     DEF Comparable, VehicleRank, IsCandidate, IsFleet, VehicleClasses, VehicleClassRank

\* The order of rankProviders as a relation, which leaves no tie between two ids.
Precedence(E, demand) == {xy \in E \X E : Before(xy[1], xy[2], demand)}

LEMMA BeforeIsAStrictOrder ==
  ASSUME NEW E, NEW demand, \A x \in E : Comparable(x, demand),
         \A x, y \in E : x.id = y.id => x = y
  PROVE  /\ StrictOrder(E, Precedence(E, demand))
         /\ \A x, y \in E : <<x, y>> \in Precedence(E, demand) <=> Before(x, y, demand)
<1>1. \A x, y \in E : <<x, y>> \in Precedence(E, demand) <=> Before(x, y, demand)
  BY DEF Precedence
<1>2. StrictOrder(E, Precedence(E, demand))
  BY <1>1 DEF StrictOrder, Before, Comparable
<1> QED
  BY <1>1, <1>2

\* What can be ranked: finitely many providers, each under one id.
IsRegistry(providers) ==
  /\ IsFiniteSet(providers)
  /\ \A x \in providers : IsCandidate(x)
  /\ \A x, y \in providers : x.id = y.id => x = y

LEMMA RankCountsThoseAhead ==
  ASSUME NEW providers, NEW demand, NEW now, IsRegistry(providers), IsDemand(demand),
         NEW E, E = Eligible(providers, demand, now),
         NEW R, R = Precedence(E, demand)
  PROVE  /\ IsFiniteSet(E)
         /\ StrictOrder(E, R)
         /\ \A x, y \in E : <<x, y>> \in R <=> Before(x, y, demand)
         /\ \A x \in E :
              Rank(x, providers, demand, now) = 1 + Cardinality(Ahead(x, E, R))
<1>1. E \in SUBSET providers /\ \A x \in E : IsEligible(x, demand, now)
  BY DEF Eligible
<1>2. IsFiniteSet(E)
  BY <1>1, FS_Subset DEF IsRegistry
<1>3. \A x \in E : Comparable(x, demand)
  BY <1>1, EligibleAreComparable DEF IsRegistry
<1>4. \A x, y \in E : x.id = y.id => x = y
  BY <1>1 DEF IsRegistry
<1>5. /\ StrictOrder(E, R)
      /\ \A x, y \in E : <<x, y>> \in R <=> Before(x, y, demand)
  BY <1>3, <1>4, BeforeIsAStrictOrder
<1>6. ASSUME NEW x \in E
      PROVE  Rank(x, providers, demand, now) = 1 + Cardinality(Ahead(x, E, R))
  <2>1. Ahead(x, E, R) = {q \in E : Before(q, x, demand)}
    BY <1>5 DEF Ahead
  <2> QED
    BY <2>1 DEF Rank
<1> QED
  BY <1>2, <1>5, <1>6

\* Whatever ties there are in distance and vehicle, no two providers have the
\* same rank, and the one that comes before the other has the smaller one.
THEOREM RanksAreDistinct ==
  ASSUME NEW providers, NEW demand, NEW now, IsRegistry(providers), IsDemand(demand),
         NEW p \in Eligible(providers, demand, now),
         NEW q \in Eligible(providers, demand, now), p # q
  PROVE  /\ Before(p, q, demand) \/ Before(q, p, demand)
         /\ Before(p, q, demand) <=>
              Rank(p, providers, demand, now) < Rank(q, providers, demand, now)
<1> DEFINE E == Eligible(providers, demand, now)
           R == Precedence(E, demand)
<1> HIDE DEF R
<1>1. /\ IsFiniteSet(E) /\ StrictOrder(E, R)
      /\ \A x, y \in E : <<x, y>> \in R <=> Before(x, y, demand)
      /\ \A x \in E : Rank(x, providers, demand, now) = 1 + Cardinality(Ahead(x, E, R))
  BY RankCountsThoseAhead DEF R
<1> HIDE DEF E
<1>2. p \in E /\ q \in E
  BY DEF E
<1>3. Before(p, q, demand) \/ Before(q, p, demand)
  BY <1>1, <1>2 DEF StrictOrder
<1>4. /\ Cardinality(Ahead(p, E, R)) \in Nat /\ Cardinality(Ahead(q, E, R)) \in Nat
      /\ Before(p, q, demand) => Cardinality(Ahead(p, E, R)) < Cardinality(Ahead(q, E, R))
      /\ Before(q, p, demand) => Cardinality(Ahead(q, E, R)) < Cardinality(Ahead(p, E, R))
  BY <1>1, <1>2, PlacesOfAnOrder
<1> QED
  BY <1>1, <1>2, <1>3, <1>4

\* The list rankProviders returns has a provider in every place: the ranks of
\* the eligible are 1, 2 and so on up to their number.
THEOREM RanksAreThePlaces ==
  ASSUME NEW providers, NEW demand, NEW now, IsRegistry(providers), IsDemand(demand)
  PROVE  LET eligible == Eligible(providers, demand, now)
         IN  {Rank(p, providers, demand, now) : p \in eligible} = 1..Cardinality(eligible)
<1> DEFINE E == Eligible(providers, demand, now)
           R == Precedence(E, demand)
<1> HIDE DEF R
<1>1. /\ IsFiniteSet(E) /\ StrictOrder(E, R)
      /\ \A x \in E : Rank(x, providers, demand, now) = 1 + Cardinality(Ahead(x, E, R))
  BY RankCountsThoseAhead DEF R
<1> HIDE DEF E
<1>2. /\ \A n \in 1..Cardinality(E) : \E x \in E : n = 1 + Cardinality(Ahead(x, E, R))
      /\ \A x \in E : 1 + Cardinality(Ahead(x, E, R)) \in 1..Cardinality(E)
  BY <1>1, PlacesOfAnOrder
<1>3. {Rank(p, providers, demand, now) : p \in E} = 1..Cardinality(E)
  BY <1>1, <1>2
<1> QED
  BY <1>3 DEF E

-----------------------------------------------------------------------------
(* Triage *)

Loads == [weight : Nat, volume : Nat]

\* Every load has a class, and a load that is heavier or bulkier never gets a
\* smaller one.
THEOREM HeavierLoadNeverGetsSmallerVehicle ==
  ASSUME NEW small \in Loads, NEW large \in Loads,
         small.weight <= large.weight, small.volume <= large.volume
  PROVE  /\ VehicleFor(small) \in VehicleClasses \cup {"MANUAL_REVIEW"}
         /\ ClassRank(VehicleFor(small)) <= ClassRank(VehicleFor(large))
BY DEF Loads, VehicleFor, Exceeds, ClassRank, VehicleClassRank, VehicleClasses

Item == [quantity : Nat, weight : Nat \cup {Unmeasured}, volume : Nat \cup {Unmeasured}]

LEMMA ProductOfNaturals ==
  ASSUME NEW a \in Nat, NEW b \in Nat
  PROVE  a * b \in Nat
BY SMT

LEMMA ItemsAddUp ==
  ASSUME NEW items \in Seq(Item)
  PROVE  /\ ItemsWeight(items) \in Nat /\ ItemsVolume(items) \in Nat
         /\ \A item \in Item :
              /\ ItemWeight(item) \in Nat /\ ItemVolume(item) \in Nat
              /\ ItemsWeight(Append(items, item)) = ItemsWeight(items) + ItemWeight(item)
              /\ ItemsVolume(Append(items, item)) = ItemsVolume(items) + ItemVolume(item)
<1>1. ASSUME NEW item \in Item PROVE ItemWeight(item) \in Nat /\ ItemVolume(item) \in Nat
  <2>1. /\ item.quantity \in Nat
        /\ (IF item.weight = Unmeasured THEN 500 ELSE item.weight) \in Nat
        /\ (IF item.volume = Unmeasured THEN 500000 ELSE item.volume) \in Nat
    BY DEF Item
  <2> QED
    BY <2>1, ProductOfNaturals DEF ItemWeight, ItemVolume
<1> DEFINE weights(list) == [i \in 1..Len(list) |-> ItemWeight(list[i])]
           volumes(list) == [i \in 1..Len(list) |-> ItemVolume(list[i])]
<1>2. \A list \in Seq(Item) : \A i \in 1..Len(list) : list[i] \in Item
  OBVIOUS
<1>3. ASSUME NEW list \in Seq(Item)
      PROVE  weights(list) \in Seq(Nat) /\ volumes(list) \in Seq(Nat)
  BY <1>1, <1>2
<1>4. \A list : /\ ItemsWeight(list) = TotalOf(weights(list))
                /\ ItemsVolume(list) = TotalOf(volumes(list))
  BY DEF ItemsWeight, ItemsVolume
<1>5. ASSUME NEW item \in Item
      PROVE  /\ weights(Append(items, item)) = Append(weights(items), ItemWeight(item))
             /\ volumes(Append(items, item)) = Append(volumes(items), ItemVolume(item))
  <2> DEFINE n == Len(items)
             longer == Append(items, item)
  <2>1. /\ longer \in Seq(Item) /\ Len(longer) = n + 1 /\ n \in Nat
        /\ \A i \in 1..n : longer[i] = items[i]
        /\ longer[n + 1] = item
    OBVIOUS
  <2>2. /\ weights(items) \in Seq(Nat) /\ Len(weights(items)) = n
        /\ volumes(items) \in Seq(Nat) /\ Len(volumes(items)) = n
    BY <1>3
  <2> HIDE DEF longer
  <2>3. weights(longer) = Append(weights(items), ItemWeight(item))
    BY <2>1, <2>2
  <2>4. volumes(longer) = Append(volumes(items), ItemVolume(item))
    BY <2>1, <2>2
  <2> QED
    BY <2>3, <2>4 DEF longer
<1> HIDE DEF weights, volumes
<1>6. ItemsWeight(items) \in Nat /\ ItemsVolume(items) \in Nat
  BY <1>3, <1>4, TotalOfNaturals
<1>7. ASSUME NEW item \in Item
      PROVE  /\ ItemsWeight(Append(items, item)) = ItemsWeight(items) + ItemWeight(item)
             /\ ItemsVolume(Append(items, item)) = ItemsVolume(items) + ItemVolume(item)
  <2>1. weights(items) \in Seq(Int) /\ volumes(items) \in Seq(Int)
    BY <1>3
  <2>2. ItemWeight(item) \in Int /\ ItemVolume(item) \in Int
    BY <1>1
  <2> QED
    BY <1>4, <1>5, <2>1, <2>2, TotalOfAppend
<1> QED
  BY <1>1, <1>6, <1>7

LEMMA RoundingUpGrows ==
  ASSUME NEW a \in Nat, NEW b \in Nat, a <= b
  PROVE  /\ CeilDiv(a, 10) \in Nat /\ CeilDiv(a, 10) <= CeilDiv(b, 10)
         /\ CeilDiv(a, 10000) \in Nat /\ CeilDiv(a, 10000) <= CeilDiv(b, 10000)
BY SMT DEF CeilDiv

LEMMA LoadsGrow ==
  ASSUME NEW items \in Seq(Item), NEW item \in Item
  PROVE  /\ Load(items) \in Loads /\ Load(Append(items, item)) \in Loads
         /\ Load(items).weight <= Load(Append(items, item)).weight
         /\ Load(items).volume <= Load(Append(items, item)).volume
<1>1. /\ ItemsWeight(items) \in Nat /\ ItemsVolume(items) \in Nat
      /\ ItemsWeight(Append(items, item)) \in Nat /\ ItemsVolume(Append(items, item)) \in Nat
      /\ ItemsWeight(items) <= ItemsWeight(Append(items, item))
      /\ ItemsVolume(items) <= ItemsVolume(Append(items, item))
  <2>1. /\ ItemsWeight(items) \in Nat /\ ItemWeight(item) \in Nat
        /\ ItemsVolume(items) \in Nat /\ ItemVolume(item) \in Nat
        /\ ItemsWeight(Append(items, item)) = ItemsWeight(items) + ItemWeight(item)
        /\ ItemsVolume(Append(items, item)) = ItemsVolume(items) + ItemVolume(item)
    BY ItemsAddUp
  <2> QED
    BY <2>1
<1> QED
  BY <1>1, RoundingUpGrows DEF Load, Loads

LEMMA ItemsMakeALoad ==
  ASSUME NEW items \in Seq(Item)
  PROVE  Load(items) \in Loads
BY ItemsAddUp, RoundingUpGrows DEF Load, Loads

\* One more item on the list never makes the suggested vehicle smaller, nor the
\* crew: what is unknown about an item is counted as something.
THEOREM MoreItemsNeedNoLess ==
  ASSUME NEW items \in Seq(Item), NEW item \in Item, NEW stairs \in Nat
  PROVE  /\ ClassRank(VehicleFor(Load(items)))
              <= ClassRank(VehicleFor(Load(Append(items, item))))
         /\ WorkersFor(Load(items), stairs)
              <= WorkersFor(Load(Append(items, item)), stairs)
<1>1. /\ Load(items) \in Loads /\ Load(Append(items, item)) \in Loads
      /\ Load(items).weight <= Load(Append(items, item)).weight
      /\ Load(items).volume <= Load(Append(items, item)).volume
  BY LoadsGrow
<1>2. ClassRank(VehicleFor(Load(items))) <= ClassRank(VehicleFor(Load(Append(items, item))))
  BY <1>1, HeavierLoadNeverGetsSmallerVehicle
<1>3. WorkersFor(Load(items), stairs) <= WorkersFor(Load(Append(items, item)), stairs)
  BY <1>1 DEF Loads, WorkersFor
<1> QED
  BY <1>2, <1>3

\* Whatever a model replies - nothing, an error, nonsense, a suggestion that
\* approves itself - the answer fits the schema and asks for a person, and the
\* reply is either taken as it is or not at all.
THEOREM AnswersAreValid ==
  ASSUME NEW job, NEW reply, job.items \in Seq(Item), job.stairs \in Nat,
         job.type \in JobTypes
  PROVE  /\ Answer(job, reply).suggestion \in Suggestions
         /\ Answer(job, reply).suggestion.requiresHumanApproval
         /\ ~Answer(job, reply).fellBack => Answer(job, reply).suggestion = reply
<1> DEFINE load == Load(job.items)
<1>1. VehicleFor(load) \in VehicleClasses \cup {"MANUAL_REVIEW"}
  BY ItemsMakeALoad, HeavierLoadNeverGetsSmallerVehicle DEF Loads
<1>2. WorkersFor(load, job.stairs) \in 1..6
  BY DEF WorkersFor
<1>3. RouteFor[job.type] \in CircularRoutes
  BY DEF RouteFor, JobTypes, CircularRoutes
<1>4. 45 + 10 * Len(job.items) + 8 * job.stairs \in Nat \ {0}
  <2>1. Len(job.items) \in Nat
    OBVIOUS
  <2> DEFINE n == Len(job.items)
             m == job.stairs
  <2>2. n \in Nat /\ m \in Nat
    BY <2>1
  <2> HIDE DEF n, m
  <2>3. 45 + 10 * n + 8 * m \in Nat \ {0}
    BY <2>2, SMTT(30)
  <2> QED
    BY <2>3 DEF n, m
<1>5. Suggest(job) \in Suggestions
  BY <1>1, <1>2, <1>3, <1>4 DEF Suggest, Suggestions
<1>6. \A s \in Suggestions :
        [s EXCEPT !.requiresHumanApproval = TRUE] = s /\ s.requiresHumanApproval
  BY DEF Suggestions
<1> QED
  BY <1>5, <1>6 DEF Answer

-----------------------------------------------------------------------------
(* Tenancy *)

\* The caller of a request that was let through, and the tenants it runs in.
Caller(memberships, asksOrganization, asksProvider) ==
  /\ Resolves(Organizations(memberships), asksOrganization)
  /\ Resolves(ProvidersOf(memberships), asksProvider)

\* A header selects among what the caller holds and never adds to it.
LEMMA SelectsWhatIsHeld ==
  ASSUME NEW held, NEW requested, NoTenant \notin held, Resolves(held, requested)
  PROVE  Resolved(held, requested) \in held \cup {NoTenant}
BY DEF Resolves, Resolved

\* Whoever is not staff sees a job only of an organisation it is a member of, or
\* one that a provider it is a member of has or had an assignment on; a caller
\* with no membership sees none.  A job always has an organisation.
THEOREM OnlyOwnJobsAreInScope ==
  ASSUME NEW memberships, NEW asksOrganization, NEW asksProvider, NEW job,
         Caller(memberships, asksOrganization, asksProvider),
         \A m \in memberships : m.role \notin StaffRoles,
         job.organization # NoTenant,
         InScope(job, Scope(memberships,
                            Resolved(Organizations(memberships), asksOrganization),
                            Resolved(ProvidersOf(memberships), asksProvider)))
  PROVE  \/ job.organization \in Organizations(memberships)
         \/ \E p \in ProvidersOf(memberships) : p \in job.holders
<1> DEFINE organization == Resolved(Organizations(memberships), asksOrganization)
           provider     == Resolved(ProvidersOf(memberships), asksProvider)
<1>1. /\ organization \in Organizations(memberships) \cup {NoTenant}
      /\ provider \in ProvidersOf(memberships) \cup {NoTenant}
  BY SelectsWhatIsHeld DEF Caller, Organizations, ProvidersOf
<1> HIDE DEF organization, provider
<1>2. Roles(memberships, organization, provider) \cap StaffRoles = {}
  BY DEF Roles
<1>3. InScope(job, Scope(memberships, organization, provider))
  BY DEF organization, provider
<1> QED
  BY <1>1, <1>2, <1>3 DEF Scope, InScope

\* A role counts only where it was given: acting for one tenant, nobody brings a
\* role held at another, and a caller without a tenant has none at all.
THEOREM RolesStayAtHome ==
  ASSUME NEW memberships, NEW organization, NEW provider,
         NEW role \in Roles(memberships, organization, provider) \ StaffRoles
  PROVE  \E m \in memberships :
           /\ m.role = role
           /\ \/ m.organization = organization /\ organization # NoTenant
              \/ m.provider = provider /\ provider # NoTenant
BY DEF Roles, Counts
=============================================================================
