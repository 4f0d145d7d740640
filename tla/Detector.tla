------------------------------ MODULE Detector ------------------------------
(***************************************************************************)
(* AnomalyDetectionService: the costs of a day against the median and the  *)
(* median absolute deviation (MAD) of the days before the period.          *)
(*                                                                         *)
(* Amounts are in cents; scores and percentages in hundredths. Severities  *)
(* are ranks, 0 for a cost that is not an anomaly.                         *)
(***************************************************************************)
EXTENDS CostRecords

CONSTANTS
  MinHistory,  \* settings: anomaly_min_history_points,
  MinCost,     \* anomaly_min_cost,
  MinPercent,  \* anomaly_min_deviation_percentage and
  Scores       \* the low, medium, high and critical scores

ASSUME DetectorAssumption ==
  /\ MinHistory \in Nat \ {0} /\ MinCost \in Nat /\ MinPercent \in Nat
  /\ Scores \in [1..4 -> Nat]

Severities == 0..4

\* Four times the MAD, and twice the deviation from the median: integers.
Mad4(history) ==
  LET center2 == Median2(history)
  IN Median2([i \in DOMAIN history |-> Abs(2 * history[i] - center2)])
Deviation2(history, actual) == 2 * actual - Median2(history)

\* The deviation in units of 1.4826 * MAD, but of a cent at least.
Score(history, actual) ==
  Round(Abs(Deviation2(history, actual)) * 1000000,
        AtLeast(20000, 7413 * Mad4(history)))
Percentage(history, actual) ==
  Round(10000 * Deviation2(history, actual), Median2(history))

\* _severity: the highest threshold that is reached.
SeverityOf(score) == Max({0} \cup {s \in 1..4 : score >= Scores[s]})

\* Mutant: a cost below the baseline deviates as well.
DeviatesEither(history, actual) ==
  /\ Len(history) >= MinHistory
  /\ Abs(Deviation2(history, actual)) >= 2 * MinCost
  /\ Median2(history) > 0 => Abs(Percentage(history, actual)) >= MinPercent

\* A day above its baseline by enough to be considered.
Deviates(history, actual) ==
  /\ Len(history) >= MinHistory
  /\ Deviation2(history, actual) > 0
  /\ Deviation2(history, actual) >= 2 * MinCost
  /\ Median2(history) > 0 => Percentage(history, actual) >= MinPercent

\* What `detect` finds of one day of one dimension; a zero baseline counts as
\* critical without a percentage.
Severity(history, actual) ==
  IF ~Deviates(history, actual) THEN 0
  ELSE SeverityOf(IF Median2(history) = 0 THEN Scores[4] ELSE Score(history, actual))

-----------------------------------------------------------------------------
(* The anomalies of line items: by dimension (provider, service, currency), *)
(* over the days that have items; `start` ends the history.                *)

Dimension(r) == <<r.provider, r.service, r.currency>>

OfDimension(records, dimension) ==
  Matching(records, LAMBDA r : Dimension(r) = dimension)

\* The days are visited in order, a median does not depend on it.
History(records, first, start) ==
  CostsOn(records, {r.day : r \in Range(records)} \cap first..(start - 1))

AnomaliesAmong(items, lookback, start, end) ==
  LET Found(dimension, day) ==
        LET same == OfDimension(items, dimension)
        IN Severity(History(same, start - lookback, start), Cost(same, day))
      found == {<<r.day, Dimension(r), Found(Dimension(r), r.day)>> :
                  r \in {x \in Range(items) : x.day \in start..end}}
  IN {a \in found : a[3] > 0}

\* What makes two items one.
AnomalyKey(r) == <<r.day, Dimension(r), r.cost>>

Anomalies(records, lookback, start, end) ==
  AnomaliesAmong(Unique(records, AnomalyKey), lookback, start, end)
=============================================================================
