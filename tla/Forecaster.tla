----------------------------- MODULE Forecaster -----------------------------
(***************************************************************************)
(* ForecastingService: the level and the trend of the daily costs of a     *)
(* group of line items, and the days they are projected to.                *)
(*                                                                         *)
(* A daily series is a sequence of amounts in cents. What is computed from *)
(* it is in 1/Parts of a cent, for Parts a multiple of every denominator   *)
(* that occurs: exact, as Decimal is to 28 digits.                         *)
(***************************************************************************)
EXTENDS CostRecords

CONSTANTS
  MinObservations,  \* MIN_OBSERVATIONS
  RecentDays,       \* the days the level is taken from
  FullHistory,      \* the days a high confidence takes
  Root              \* Root[n]: the square root of n, in hundredths, for any
                    \* number of days a forecast may reach

ASSUME ForecasterAssumption ==
  /\ MinObservations \in Nat \ {0, 1, 2} /\ RecentDays \in Nat \ {0}
  /\ FullHistory \in Nat /\ Root \in Seq(Nat)

\* _daily_values: a day without items costs nothing.
DailyValues(records, start, end) ==
  [i \in 1..(end - start + 1) |-> Cost(records, start + i - 1)]
Missing(records, start, end) ==
  start..end \ {records[k].day : k \in DOMAIN records}

\* _clean_outliers: more than three MADs above the median, in fourths of a cent,
\* or than three medians if the MAD is zero.
Extreme(daily, cost) ==
  LET median2 == Median2(daily)
      mad4 == Median2([i \in DOMAIN daily |-> Abs(2 * daily[i] - median2)])
      threshold4 == IF mad4 = 0 THEN 6 * median2 ELSE 2 * median2 + 3 * mad4
  IN 4 * cost > threshold4 /\ 2 * cost > median2
Cleaned(daily) ==
  LET kept == {i \in DOMAIN daily : ~Extreme(daily, daily[i])}
  IN IF Len(daily) < MinObservations \/ Cardinality(kept) <= 2 THEN daily
     ELSE InOrder(Restrict(daily, kept))

-----------------------------------------------------------------------------
(* _forecast_group                                                         *)

\* The denominators of the level and of the slope of n values, and the unit:
\* the trend is bounded by half the level, the spread by a tenth of it.
Weights(n) == LET k == AtMost(RecentDays, n) IN (k * (k + 1)) \div 2
Moments(n) == n * (n * n - 1)
Parts(n) == 10 * Weights(n) * Moments(n)

\* _weighted_level: the later of the recent days weigh more.
Level(values) ==
  LET n == Len(values)
      first == AtLeast(0, n - RecentDays)
  IN SumFunction([i \in (first + 1)..n |-> (i - first) * values[i]]) * 10 * Moments(n)

\* _slope: least squares.
Slope(values) ==
  LET n == Len(values)
  IN SumFunction([i \in 1..n |-> 6 * (2 * i - n - 1) * values[i]]) * 10 * Weights(n)

\* The slope, bounded by half the level or, if that is less, by a cent.
Trend(level, slope, parts) ==
  LET bound == AtLeast(parts, level \div 2)
  IN AtLeast(-bound, AtMost(bound, slope))

\* Twice the median distance of the values from the fitted line, no less than a
\* tenth of the level and a cent.
Spread(values, level, trend, parts) ==
  LET n == Len(values)
      residuals == [i \in 1..n |-> Abs(values[i] * parts - (level + trend * (i - n)))]
  IN Max({Median2(residuals), level \div 10, parts})

\* What a series is projected from.
Fit(values) ==
  LET parts == Parts(Len(values))
      level == Level(values)
      trend == Trend(level, Slope(values), parts)
  IN [used |-> Len(values), parts |-> parts, level |-> level, trend |-> trend,
      spread |-> Spread(values, level, trend, parts)]

\* Mutant: a falling trend makes the expected cost negative.
PointUnbounded(fit, step) ==
  LET expected == fit.level + fit.trend * step
      uncertainty == (fit.spread * Root[step]) \div 100
  IN [cost |-> Round(expected, fit.parts),
      lower |-> Round(AtLeast(0, expected - uncertainty), fit.parts),
      upper |-> Round(expected + uncertainty, fit.parts)]

\* One day ahead: what is expected and the band around it, in cents.
Point(fit, step) ==
  LET expected == AtLeast(0, fit.level + fit.trend * step)
      uncertainty == (fit.spread * Root[step]) \div 100
  IN [cost |-> Round(expected, fit.parts),
      lower |-> Round(AtLeast(0, expected - uncertainty), fit.parts),
      upper |-> Round(expected + uncertainty, fit.parts)]

Confidence(fit) ==
  LET Calm(percent) == fit.level > 0 /\ 100 * fit.spread <= percent * fit.level
  IN IF fit.used >= FullHistory /\ Calm(15) THEN "high"
     ELSE IF fit.used >= MinObservations /\ Calm(35) THEN "medium" ELSE "low"

Projection(daily, fit, horizon) ==
  LET n == Len(daily)
      points == [step \in 1..horizon |-> Point(fit, step)]
      Total(field) == SumFunction([s \in 1..horizon |-> points[s][field]])
  IN [points |-> points, projected |-> Total("cost"), lower |-> Total("lower"),
      upper |-> Total("upper"), confidence |-> Confidence(fit), used |-> fit.used,
      historical |-> SumFunctionOnSet(daily, AtLeast(1, n - horizon + 1)..n)]

\* Mutant: the days are projected from the series with its outliers.
GroupForecastRaw(daily, horizon) ==
  IF Len(daily) < MinObservations THEN None
  ELSE Projection(daily, Fit(daily), horizon)

\* The forecast of a daily series, or None for one that is too short.
GroupForecast(daily, horizon) ==
  IF Len(daily) < MinObservations THEN None
  ELSE Projection(daily, Fit(Cleaned(daily)), horizon)

-----------------------------------------------------------------------------
(* forecast: the items a query selects, by group; the status and the number *)
(* of days with items are those of all of them.                            *)

\* Mutant: two items of a service are one whatever they cost.
ForecastKeyCostless(r) == <<r.day, r.provider, r.service, r.currency>>

\* What makes two items one.
ForecastKey(r) == <<r.day, r.provider, r.service, r.cost, r.currency>>

Selected(records, query) ==
  Unique(Matching(records, LAMBDA r : /\ r.day \in query.start..query.end
                                      /\ query.provider \in {None, r.provider}
                                      /\ query.currency \in {None, r.currency}),
         ForecastKey)

GroupOf(r, dimension) == IF dimension = "total" THEN "all" ELSE r[dimension]

\* The forecasts of the groups that have one, and what is said of all.
Answer(groups, observations) ==
  LET ready == {g \in DOMAIN groups : groups[g] # None}
  IN [status |-> IF DOMAIN groups = {} THEN "empty"
                 ELSE IF ready = {} THEN "insufficient_data" ELSE "ready",
      observations |-> observations,
      forecasts |-> Restrict(groups, ready)]

ForecastAmong(selected, query) ==
  LET Group(g) == Matching(selected, LAMBDA r : GroupOf(r, query.dimension) = g)
      days == query.start..query.end
  IN Answer([g \in {GroupOf(r, query.dimension) : r \in Range(selected)} |->
               GroupForecast(DailyValues(Group(g), query.start, query.end), query.horizon)],
            Cardinality(days \ Missing(selected, query.start, query.end)))

ForecastOf(records, query) == ForecastAmong(Selected(records, query), query)
=============================================================================
