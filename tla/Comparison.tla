----------------------------- MODULE Comparison -----------------------------
(***************************************************************************)
(* AnalyticsService: the shares of the providers, the days of a period,    *)
(* and two periods compared with the drivers of the change; the insights   *)
(* the dashboard derives from them by rules, and the events a language     *)
(* model is asked to explain.                                              *)
(*                                                                         *)
(* A period is the answers of the providers, by provider, in one currency. *)
(* Amounts are in cents, percentages in hundredths. The order in which     *)
(* drivers are listed is the relation Precedes.                            *)
(***************************************************************************)
EXTENDS ProviderCosts

CONSTANTS
  TopN,          \* top_n of a query
  LargeImpact,   \* a change that is no minor one whatever its percentage
  EventPercent,  \* settings: ai_insight_percentage_threshold,
  EventAmount,   \* ai_insight_absolute_threshold and
  MaxEvents      \* ai_insight_max_events

ASSUME ComparisonAssumption ==
  /\ TopN \in Nat \ {0} /\ MaxEvents \in Nat \ {0}
  /\ LargeImpact \in Nat /\ EventPercent \in Nat /\ EventAmount \in Nat

\* money
Money(amount) == Round(amount, PerCent)

ProviderTotals(answers) == [p \in DOMAIN answers |-> Money(answers[p].total)]

\* A provider may list a service several times.
ServiceTotals(answers) ==
  LET entries == UNION {{p} \X DOMAIN answers[p].services : p \in DOMAIN answers}
      Entry(x) == answers[x[1]].services[x[2]]
      cents == [x \in entries |-> Money(Entry(x).cost)]
      Key(x) == <<x[1], Entry(x).service>>
  IN [key \in {Key(x) : x \in entries} |->
        SumFunctionOnSet(cents, {x \in entries : Key(x) = key})]

\* Decimal.quantize without a rounding of its own: a half goes to the even digit.
RoundEven(n, d) ==
  LET low == n \div d
      twice == 2 * (n % d)
  IN IF twice < d \/ (twice = d /\ low % 2 = 0) THEN low ELSE low + 1

\* What a provider (service None), a service of it, or all of them (provider
\* None) cost in the two periods.
Driver(provider, service, current, previous) ==
  [provider |-> provider, service |-> service, current |-> current, previous |-> previous,
   change |-> current - previous,
   percentage |-> IF previous = 0 THEN None
                  ELSE RoundEven(10000 * (current - previous), previous)]

\* _comparison_from_responses, and the overview of the dashboard.
Overview(current, previous) ==
  Driver(None, None, SumFunction(ProviderTotals(current)), SumFunction(ProviderTotals(previous)))

\* _percentage: in hundredths, 0 of nothing.
Share(cost, total) == IF total = 0 THEN 0 ELSE Round(10000 * cost, total)

\* The providers of a summary, each with its share of the total.
ProviderShares(answers) ==
  LET totals == ProviderTotals(answers)
  IN [p \in DOMAIN totals |-> [cost |-> totals[p],
                               share |-> Share(totals[p], SumFunction(totals))]]

\* The days of a period; None if there are costs, but of no day. The costs of a
\* period of one day need no date.
Trends(answers, start, end) ==
  LET dated == UNION {{p} \X DOMAIN answers[p].daily : p \in DOMAIN answers}
      cents == [x \in dated |-> Money(answers[x[1]].daily[x[2]])]
      CostOf(day) == SumFunctionOnSet(cents, {x \in dated : x[2] = day})
  IN IF dated # {} THEN [day \in start..end |-> CostOf(day)]
     ELSE IF start = end THEN [day \in {start} |-> SumFunction(ProviderTotals(answers))]
     ELSE IF \E p \in DOMAIN answers : answers[p].total # 0 THEN None
     ELSE [day \in start..end |-> 0]

CostIn(totals, key) == IF key \in DOMAIN totals THEN totals[key] ELSE 0

\* Mutant: a service without costs in the current period is forgotten.
DriversOfCurrent(current, previous) ==
  LET now == ProviderTotals(current)      then == ProviderTotals(previous)
      nowBy == ServiceTotals(current)     thenBy == ServiceTotals(previous)
  IN {Driver(p, None, CostIn(now, p), CostIn(then, p)) : p \in DOMAIN now \cup DOMAIN then}
     \cup {Driver(k[1], k[2], nowBy[k], CostIn(thenBy, k)) : k \in DOMAIN nowBy}

\* What moved, before the list is cut.
Drivers(current, previous) ==
  LET now == ProviderTotals(current)      then == ProviderTotals(previous)
      nowBy == ServiceTotals(current)     thenBy == ServiceTotals(previous)
  IN {Driver(p, None, CostIn(now, p), CostIn(then, p)) : p \in DOMAIN now \cup DOMAIN then}
     \cup {Driver(k[1], k[2], CostIn(nowBy, k), CostIn(thenBy, k)) :
             k \in DOMAIN nowBy \cup DOMAIN thenBy}

-----------------------------------------------------------------------------
(* The order of the drivers: by the size of the change, then by category   *)
(* and name; what is left of a tie by the provider.                        *)

Alphabetical == [aws |-> 1, azure |-> 2, gcp |-> 3]

NamedBefore(d, e) ==
  IF d.service = None \/ e.service = None
  THEN /\ d.service = None
       /\ e.service = None => Alphabetical[d.provider] < Alphabetical[e.provider]
  ELSE \/ d.service < e.service
       \/ d.service = e.service /\ Alphabetical[d.provider] < Alphabetical[e.provider]

\* Mutant: a fall comes after every rise.
PrecedesSigned(d, e) ==
  d.change > e.change \/ (d.change = e.change /\ NamedBefore(d, e))

Precedes(d, e) ==
  \/ Abs(d.change) > Abs(e.change)
  \/ Abs(d.change) = Abs(e.change) /\ NamedBefore(d, e)

\* drivers[:n]
FirstOf(drivers, n) ==
  {d \in drivers : Cardinality({e \in drivers \ {d} : Precedes(e, d)}) < n}

-----------------------------------------------------------------------------
(* DashboardService._generate_insights                                     *)

InsightSeverity(d) ==
  IF d.percentage = None \/ Abs(d.percentage) >= 2500 THEN 3
  ELSE IF Abs(d.percentage) >= 1000 \/ Abs(d.change) >= LargeImpact THEN 2
  ELSE 1

CostInsight(type, d) ==
  [type |-> type, severity |-> InsightSeverity(d), impact |-> Abs(d.change), of |-> d]

\* One on the total if it changed by 5 %, one on the first service that rose.
Insights(overview, drivers) ==
  LET significant == overview.percentage = None \/ Abs(overview.percentage) >= 500
      rising == {d \in drivers : d.service # None /\ d.change > 0}
  IN {CostInsight("cost_increase", d) : d \in {x \in {overview} : significant /\ x.change > 0}}
     \cup {CostInsight("cost_decrease", d) : d \in {x \in {overview} : significant /\ x.change < 0}}
     \cup {CostInsight("top_cost_driver", d) : d \in FirstOf(rising, 1)}

-----------------------------------------------------------------------------
(* select_cost_events                                                      *)

\* is_significant_change
Significant(d) ==
  /\ d.change # 0
  /\ \/ Abs(d.change) >= EventAmount
     \/ d.percentage # None /\ Abs(d.percentage) >= EventPercent

\* The significant drivers, or the total if there is none and it is significant.
CostEvents(overview, drivers) ==
  LET significant == {d \in drivers : Significant(d)}
  IN IF significant # {} THEN FirstOf(significant, MaxEvents)
     ELSE {d \in {overview} : Significant(d)}
=============================================================================
