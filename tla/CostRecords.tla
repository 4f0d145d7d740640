----------------------------- MODULE CostRecords -----------------------------
(***************************************************************************)
(* The arithmetic shared by the analyses of costs: normalized line items   *)
(* (CostRecord), the rounding of amounts, medians and daily totals.        *)
(*                                                                         *)
(* Line items are a function from some set of keys to records, for two     *)
(* items may be equal. Account and region are left out: the explorer sets  *)
(* both from the provider alone. Amounts are integers, so every quotient   *)
(* is compared after multiplying out, and rounded only where the code does.*)
(***************************************************************************)
EXTENDS Integers, Sequences, FiniteSets, FiniteSetsExt, Functions

CONSTANT None

\* Decimal.quantize(..., ROUND_HALF_UP) of n/d, for d > 0.
Round(n, d) ==
  IF n >= 0 THEN (2 * n + d) \div (2 * d) ELSE -((d - 2 * n) \div (2 * d))

Abs(n) == IF n < 0 THEN -n ELSE n
AtLeast(low, n) == IF n < low THEN low ELSE n
AtMost(high, n) == IF n > high THEN high ELSE n

\* The k-th smallest element of a sequence of integers.
Ranked(s, k) ==
  CHOOSE v \in Range(s) :
    /\ Cardinality({i \in DOMAIN s : s[i] < v}) < k
    /\ Cardinality({i \in DOMAIN s : s[i] <= v}) >= k

\* Mutant: the mean in place of the median.
Mean2(s) == (2 * SumFunction(s)) \div Len(s)

\* Twice the median, which is an integer.
Median2(s) ==
  Ranked(s, (Len(s) + 1) \div 2) + Ranked(s, (Len(s) + 2) \div 2)

\* The i-th smallest element of a set of integers, and the values of a function
\* on such a set in the order of their arguments.
Nth(S, i) == CHOOSE k \in S : Cardinality({j \in S : j <= k}) = i
InOrder(f) == [i \in 1..Cardinality(DOMAIN f) |-> f[Nth(DOMAIN f, i)]]

-----------------------------------------------------------------------------
(* Line items                                                              *)

CostRecord(day, provider, service, cost, currency) ==
  [day |-> day, provider |-> provider, service |-> service, cost |-> cost,
   currency |-> currency]

Cost(records, day) ==
  SumFunction([k \in {x \in DOMAIN records : records[x].day = day} |-> records[k].cost])

\* What the days of some items cost, in order.
CostsOn(records, days) == InOrder([d \in days |-> Cost(records, d)])

\* One item of those an analysis takes for the same.
Unique(records, Key(_)) ==
  LET Kept(key) == CHOOSE r \in Range(records) : Key(r) = key
  IN [r \in {Kept(Key(x)) : x \in Range(records)} |-> r]

\* The items one query is about.
Matching(records, wanted(_)) ==
  Restrict(records, {k \in DOMAIN records : wanted(records[k])})
=============================================================================
