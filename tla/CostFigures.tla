----------------------------- MODULE CostFigures -----------------------------
(***************************************************************************)
(* The computations on costs, each for every input of a bounded set: a     *)
(* behaviour is one call, and the properties relate what it returns to a   *)
(* reference, or to what the call returns for a related input.             *)
(***************************************************************************)
EXTENDS Explorer, Detector, BudgetEvaluation, Advisor, Comparison, AlertConditions

CONSTANTS
  BillDays, Services,  \* the days and services of a bill
  Amounts,             \* its amounts, in 1/PerCent of a cent
  Accounts,            \* what two periods are compared for: sets of <<cloud, service, day>>
  Charges,             \* what such a service is charged, in 1/PerCent of a cent
  Costs3,              \* the daily costs of a baseline and of a forecast
  MonthlyCosts,        \* those recommendations are made from, in cents
  BudgetCosts,         \* those of a month that is evaluated
  Lengths,             \* the lengths of the daily series
  Months               \* the lengths of a month

ASSUME FiguresAssumption ==
  /\ IsFiniteSet(BillDays) /\ IsFiniteSet(Services) /\ IsFiniteSet(Amounts)
  /\ BillDays \in SUBSET Nat /\ BillDays # {} /\ Amounts \in SUBSET Int /\ Amounts # {}
  \* The days of a bill are a period that can be asked for.
  /\ Min(BillDays) <= Today /\ Max(BillDays) - Min(BillDays) <= MaxRange
  /\ Accounts \in SUBSET SUBSET (Clouds \X Services \X BillDays) /\ Charges \in SUBSET Int
  /\ Costs3 \in SUBSET Nat /\ MonthlyCosts \in SUBSET Nat /\ BudgetCosts \in SUBSET Nat
  /\ Lengths \in SUBSET Nat /\ Months \in SUBSET Nat
  \* The longest horizon reaches from the first day of any month to its last.
  /\ \A length \in Months : length - 1 <= Horizons[3]

VARIABLE call  \* the computation and its arguments

vars == <<call>>

Init == call = [of |-> "nothing"]

SeriesOf(costs) == UNION {[1..n -> costs] : n \in Lengths}

Settings == [enabled : BOOLEAN, mock : BOOLEAN, scope : {"given", "listed", "absent"}]
SdkCalls == [failure : Failures \cup {None}, listing : BOOLEAN,
             first : {BillDays \X Services, BillDays \X {Min(Services)}}]

\* A query of the explorer, answered by one provider.
LoadBill ==
  /\ call.of = "nothing"
  /\ \E cloud \in Clouds, granularity \in Granularities,
        bill \in [BillDays \X Services -> Amounts] :
       call' = [of |-> "bill", cloud |-> cloud, granularity |-> granularity,
                bill |-> bill, setting |-> [enabled |-> TRUE, mock |-> FALSE,
                                            scope |-> "given"],
                sdk |-> [failure |-> None, listing |-> FALSE,
                         first |-> BillDays \X Services]]

\* The same with settings and failures of the provider.
LoadBillInTrouble ==
  /\ call.of = "nothing"
  /\ \E cloud \in Clouds, granularity \in Granularities, setting \in Settings,
        sdk \in SdkCalls :
       call' = [of |-> "bill", cloud |-> cloud, granularity |-> granularity,
                bill |-> [k \in BillDays \X Services |-> Max(Amounts)],
                setting |-> setting, sdk |-> sdk]

\* What the clouds answer for some charges.
AnswersFor(charges) ==
  [p \in {x[1] : x \in DOMAIN charges} |->
     Normalized(p, [k \in {<<x[3], x[2]>> : x \in {y \in DOMAIN charges : y[1] = p}} |->
                      charges[<<p, k[2], k[1]>>]], "DAILY")]

\* A period against the one before, as the dashboard compares them.
ComparePeriods ==
  /\ call.of = "nothing"
  /\ \E accounts \in Accounts :
       \E current, previous \in [accounts -> Charges] :
         call' = [of |-> "periods", current |-> current, previous |-> previous]

\* A day against its history, as `detect` compares them.
DetectDay ==
  /\ call.of = "nothing"
  /\ \E history \in SeriesOf(Costs3), actual \in Costs3 :
       call' = [of |-> "day", history |-> history, actual |-> actual]

ForecastSeries ==
  /\ call.of = "nothing"
  /\ \E daily \in SeriesOf(Costs3) :
       call' = [of |-> "series", daily |-> daily,
                forecast |-> GroupForecast(daily, Horizons[1])]

Recommend ==
  /\ call.of = "nothing"
  /\ \E daily \in [Services -> UNION {[1..n -> MonthlyCosts] : n \in 2..3}] :
       call' = [of |-> "advice", daily |-> daily]

\* One item for every day of some costs.
ItemsOf(costs) ==
  [d \in DOMAIN costs |-> CostRecord(d, "aws", Min(Services), costs[d], "USD")]

\* Line items, for the analyses that start from them.
AnalyseItems ==
  /\ call.of = "nothing"
  /\ \E length \in Lengths, days \in SUBSET (UNION {1..n : n \in Lengths}) :
       \E items \in [days -> Costs3 \ {0}] :
         call' = [of |-> "items", length |-> length, records |-> ItemsOf(items)]

BudgetOf(amount) ==
  [enabled |-> TRUE, amount |-> amount, warning |-> 50, critical |-> 80,
   provider |-> None, currency |-> "USD"]

EvaluateBudget ==
  /\ call.of = "nothing"
  /\ \E length \in Months, amount \in Costs3 \ {0} :
       \E today \in 1..length :
         \E costs \in [1..today -> BudgetCosts] :
           call' = [of |-> "budget", length |-> length, today |-> today, daily |-> costs,
                    evaluation |-> Evaluation(ItemsOf(costs), BudgetOf(amount), today, length)]

Next ==
  \/ LoadBill \/ LoadBillInTrouble \/ DetectDay \/ ForecastSeries
  \/ Recommend \/ AnalyseItems \/ EvaluateBudget \/ ComparePeriods

Spec == Init /\ [][Next]_vars

=============================================================================
