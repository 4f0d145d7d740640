--------------------------- MODULE AlertConditions ---------------------------
(***************************************************************************)
(* AlertEvaluationService._condition: what an alert of each type is        *)
(* triggered by. An alert has the thresholds its type needs; amounts are   *)
(* in cents. Alerts leaves the outcome open: this is what decides it.      *)
(***************************************************************************)
EXTENDS Explorer, Detector, Forecaster

CONSTANTS
  Lookback,     \* settings: anomaly_lookback_days
  AlertHorizon  \* the days an alert on a forecast looks ahead

ASSUME AlertConditionsAssumption ==
  /\ Lookback \in Nat \ {0}
  /\ AlertHorizon \in 1..Len(Root)

\* _matches: the items an alert is about.
Subject(records, alert) ==
  Matching(records, LAMBDA r : /\ alert.provider \in {None, r.provider}
                               /\ NamePart(alert.service, r.service))

During(records, start, end) == Matching(records, LAMBDA r : r.day \in start..end)

\* The costs of the last day that has any.
ThresholdExceeded(items, alert) ==
  /\ DOMAIN items # {}
  /\ Cost(items, Max({items[k].day : k \in DOMAIN items})) > alert.threshold

\* Mutant: the halves are exchanged.
RisesSwapped(earlier, later, percentage) ==
  LET before == SumFunction(later)    after == SumFunction(earlier)
  IN /\ before > 0
     /\ 100 * (after * Len(later) - before * Len(earlier)) > percentage * before * Len(earlier)

\* Is the average of some costs above that of earlier ones by the percentage?
Rises(earlier, later, percentage) ==
  LET before == SumFunction(earlier)    after == SumFunction(later)
  IN /\ before > 0
     /\ 100 * (after * Len(earlier) - before * Len(later)) > percentage * before * Len(later)

\* The later half of the days that have costs against the earlier half.
Increased(items, alert) ==
  LET daily == CostsOn(items, {items[k].day : k \in DOMAIN items})
      half == Len(daily) \div 2
  IN /\ half > 0
     /\ Rises(SubSeq(daily, 1, half), SubSeq(daily, half + 1, Len(daily)), alert.percentage)

\* The forecast of all items, or of the first of the services that match.
ForecastExceeded(items, alert, start, end) ==
  LET dimension == IF alert.service = None THEN "total" ELSE "service"
      answer == ForecastOf(items, [start |-> start, end |-> end, provider |-> None,
                  currency |-> None, horizon |-> AlertHorizon, dimension |-> dimension])
      first == IF alert.service = None THEN "all" ELSE Min(DOMAIN answer.forecasts)
  IN answer.status = "ready" /\ answer.forecasts[first].projected > alert.threshold

Triggered(records, alert, start, end) ==
  LET items == Subject(records, alert)
  IN CASE alert.alert_type = "cost_threshold" ->
            ThresholdExceeded(During(items, start, end), alert)
       [] alert.alert_type = "cost_increase" -> Increased(During(items, start, end), alert)
       [] alert.alert_type = "anomaly" -> Anomalies(items, Lookback, start, end) # {}
       [] OTHER -> ForecastExceeded(items, alert, start, end)
=============================================================================
