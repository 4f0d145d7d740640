------------------------------- MODULE Advisor -------------------------------
(***************************************************************************)
(* OptimizationService: the rules that turn line items into                *)
(* recommendations, from the daily averages of the earlier and the recent  *)
(* half of the days a service has costs on.                                *)
(*                                                                         *)
(* Costs are in cents; averages are in 1/Fraction of a cent, for a         *)
(* Fraction that the number of days of every half divides.                 *)
(***************************************************************************)
EXTENDS CostRecords

CONSTANTS
  MinDays,   \* MIN_DAYS
  Fraction

ASSUME AdvisorAssumption ==
  /\ MinDays \in Nat \ {0, 1}
  /\ Fraction \in Nat \ {0}

Priorities == 0..3  \* low, medium, high, critical

Dollars(n) == 100 * n

Average(costs) == (SumFunction(costs) * Fraction) \div Len(costs)

\* What a daily average costs in a month, in cents.
Monthly(average) == Round(30 * average, Fraction)

-----------------------------------------------------------------------------
(* The costs of a group of items by day, in order, over the days with items. *)

DailyCosts(records) == CostsOn(records, {r.day : r \in Range(records)})

Baseline(costs) == Average(SubSeq(costs, 1, Len(costs) \div 2))
Recent(costs) == Average(SubSeq(costs, Len(costs) \div 2 + 1, Len(costs)))

\* total_cost: the recent averages of the groups with enough days.
TotalRecent(daily) == SumFunction([g \in DOMAIN daily |-> Recent(daily[g])])

Grows(costs) ==
  /\ Baseline(costs) > 0
  /\ 100 * (Recent(costs) - Baseline(costs)) >= 20 * Baseline(costs)

\* Is the group `percent` of the recent costs?
HasShare(daily, g, percent) ==
  TotalRecent(daily) > 0 /\ 100 * Recent(daily[g]) >= percent * TotalRecent(daily)

Weighs(daily, g) ==
  /\ HasShare(daily, g, 20)
  /\ 30 * Recent(daily[g]) >= Dollars(300) * Fraction

\* Mutant: the baseline and the recent average are exchanged.
SavingsSwapped(costs) == Monthly(AtLeast(0, Baseline(costs) - Recent(costs)))

\* _monthly_savings, upper end; 0 stands for no savings.
Savings(costs) == Monthly(AtLeast(0, Recent(costs) - Baseline(costs)))

Priority(daily, g) ==
  LET costs == daily[g]
  IN IF Savings(costs) >= Dollars(1000) THEN 3
     ELSE IF Savings(costs) >= Dollars(250) \/ HasShare(daily, g, 40) THEN 2
     ELSE IF Monthly(Recent(costs)) >= Dollars(300) \/ HasShare(daily, g, 20) THEN 1
     ELSE 0

-----------------------------------------------------------------------------
(* _build_recommendations, _summary                                        *)

\* A recommendation is known by its group and its method.
Recommendation(daily, g, method) ==
  [group |-> g, method |-> method, priority |-> Priority(daily, g),
   current |-> Monthly(Recent(daily[g])), savings |-> Savings(daily[g])]

\* daily[g]: the daily costs of group g.
Recommendations(all) ==
  LET daily == Restrict(all, {g \in DOMAIN all : Len(all[g]) >= MinDays})
  IN {Recommendation(daily, g, "growth") : g \in {h \in DOMAIN daily : Grows(daily[h])}}
     \cup
     {Recommendation(daily, g, "high cost") : g \in {h \in DOMAIN daily : Weighs(daily, h)}}

Summary(recommendations) ==
  [total |-> Cardinality(recommendations),
   urgent |-> Cardinality({r \in recommendations : r.priority >= 2}),
   savings |-> SumFunction([r \in recommendations |-> r.savings])]

RecommendationsAmong(kept) ==
  LET Group(r) == <<r.provider, r.service>>
      groups == {Group(r) : r \in Range(kept)}
  IN Recommendations([g \in groups |->
                        DailyCosts(Matching(kept, LAMBDA r : Group(r) = g))])

\* What makes two items one.
AdviceKey(r) == <<r.day, r.provider, r.service, r.cost, r.currency>>

RecommendationsFor(records, start, end) ==
  RecommendationsAmong(
    Unique(Matching(records, LAMBDA r : r.day \in start..end), AdviceKey))
=============================================================================
