-------------------------- MODULE BudgetEvaluation --------------------------
(***************************************************************************)
(* BudgetEvaluationService: what was spent in the month so far and what    *)
(* will be by its end, against a budget and its thresholds. The forecast   *)
(* is that of Forecaster, for the items the budget is about.               *)
(*                                                                         *)
(* Days are those of the month, 1..Length. Utilizations are in hundredths  *)
(* of a percent. A budget is [enabled, amount, warning, critical,          *)
(* provider, currency].                                                    *)
(***************************************************************************)
EXTENDS Forecaster

CONSTANT Horizons  \* the horizons a forecast may have, in ascending order

ASSUME BudgetEvaluationAssumption ==
  /\ Horizons \in Seq(Nat) /\ Len(Horizons) = 3
  /\ \A h \in 1..3 : Horizons[h] <= Len(Root)

Statuses == {"healthy", "warning", "critical", "exceeded", "unavailable", "disabled"}

\* _status: of an amount spent, not rounded.
StatusOf(spend, budget) ==
  IF spend > budget.amount THEN "exceeded"
  ELSE IF 100 * spend >= budget.critical * budget.amount THEN "critical"
  ELSE IF 100 * spend >= budget.warning * budget.amount THEN "warning"
  ELSE "healthy"

Utilization(spend, budget) == Round(10000 * spend, budget.amount)

\* Mutant: the longest horizon is never asked for.
HorizonForWeeks(remaining) ==
  IF remaining <= Horizons[1] THEN Horizons[1] ELSE Horizons[2]

\* The smallest horizon that reaches the end of the month, else the longest.
HorizonFor(remaining) ==
  IF remaining <= Horizons[1] THEN Horizons[1]
  ELSE IF remaining <= Horizons[2] THEN Horizons[2] ELSE Horizons[3]

NoForecast == [spend |-> None, variance |-> None, status |-> "unavailable"]

\* Mutant: what was spent so far is not added.
MonthTotalAhead(actual, future) == future

\* The month: what was spent and what is projected for the days that are left.
MonthTotal(actual, future) == actual + future

ForecastFor(month, budget) ==
  [spend |-> month, variance |-> month - budget.amount,
   status |-> StatusOf(month, budget)]

\* The projected days up to the end of the month.
Future(forecast, remaining) ==
  SumFunction([s \in {x \in DOMAIN forecast.points : x <= remaining} |->
                 forecast.points[s].cost])

\* _evaluate_forecast
ForecastSpend(records, budget, today, length, actual) ==
  LET remaining == length - today
      forecast == ForecastOf(records,
                    [start |-> 1, end |-> today, provider |-> budget.provider,
                     currency |-> budget.currency, horizon |-> HorizonFor(remaining),
                     dimension |-> "total"])
  IN IF remaining <= 0 \/ forecast.status # "ready" THEN NoForecast
     ELSE ForecastFor(MonthTotal(actual, Future(forecast.forecasts["all"], remaining)),
                      budget)

Unavailable(budget, status) ==
  [available |-> FALSE, spend |-> 0, remaining |-> budget.amount, utilization |-> 0,
   status |-> status, forecast |-> [NoForecast EXCEPT !.status = status]]

\* evaluate: of the items of the month so far; None stands for the error that
\* items in another currency raise.
Evaluation(records, budget, today, length) ==
  LET about == Matching(records, LAMBDA r : /\ r.day \in 1..today
                                            /\ budget.provider \in {None, r.provider})
      actual == SumFunction([k \in DOMAIN about |-> about[k].cost])
  IN IF ~budget.enabled THEN Unavailable(budget, "disabled")
     ELSE IF about = <<>> THEN Unavailable(budget, "unavailable")
     ELSE IF {about[k].currency : k \in DOMAIN about} # {budget.currency} THEN None
     ELSE [available |-> TRUE, spend |-> actual, remaining |-> budget.amount - actual,
           utilization |-> Utilization(actual, budget),
           status |-> StatusOf(actual, budget),
           forecast |-> ForecastSpend(records, budget, today, length, actual)]
=============================================================================
