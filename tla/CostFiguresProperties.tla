------------------------- MODULE CostFiguresProperties -------------------------
(* What the computations on costs promise. *)
EXTENDS CostFigures

-----------------------------------------------------------------------------
(* Bills and line items                                                    *)

BillStart == Min(BillDays)
BillEnd == Max(BillDays)

ItemsOfBill ==
  LET answer == Costs(call.cloud, call.setting, call.sdk, call.bill,
                      BillStart, BillEnd, call.granularity)
  IN Filtered(LineItems(call.cloud, answer, BillStart),
              [start |-> BillStart, end |-> BillEnd, provider |-> None, service |-> None])

\* The rows of a bill that charge something, of those the cloud is asked for.
BillRows == RowsOf(call.cloud, call.bill, BillStart, BillEnd, call.granularity)
ChargedRows == {k \in DOMAIN BillRows : BillRows[k] > 0}

\* The explorer accounts for the bill: the total of a date, or of the period when
\* the rows have none, is what the rows charge but for half a cent for every row
\* and the one rounding of the date, though credits are dropped and the shares of
\* days and services are rounded on the way
\* (CostExplorerService._fetch_provider_records, the normalization of the three
\* provider services). A failure shows nothing: no part of a bill. Demo data is
\* accounted for like a bill.
\* Accounted for is what is asked for: not the last day of AWS, to which the end
\* of a period is exclusive, though AWSCostService.get_costs calls it inclusive,
\* nor an answer of Azure that has more pages than the first.
BillAccounted ==
  call.of = "bill" =>
    LET items == ItemsOfBill
        asked == call.setting.enabled /\ (call.cloud = "aws" \/ call.setting.scope # "absent")
        mocked == call.setting.enabled /\ call.cloud = "aws" /\ call.setting.mock
        byMonth == call.granularity = "MONTHLY" /\ (call.cloud # "aws" \/ mocked)
        Rows(day) == {k \in ChargedRows : byMonth \/ k[1] = day}
        Charge(day) ==
          IF mocked
          THEN PerCent * SumFunction([s \in DOMAIN MockRates |->
                 IF byMonth THEN MockRates[s].month ELSE MockRates[s].day])
          ELSE SumFunctionOnSet(BillRows, Rows(day))
        Shown(day) == LET days == Breakdown(items, "day")
                      IN IF day \in DOMAIN days THEN days[day].cost ELSE 0
        entries == IF mocked THEN Cardinality(DOMAIN MockRates) ELSE Cardinality(ChargedRows)
        whole == call.cloud = "azure" => DOMAIN BillRows \subseteq call.sdk.first
    IN IF ~asked \/ (call.sdk.failure # None /\ ~mocked)
       THEN items = <<>>
       ELSE \A day \in (IF byMonth THEN {BillStart} ELSE BillStart..BillEnd) :
              whole => 2 * Abs(PerCent * Shown(day) - Charge(day))
                         <= PerCent * (entries + 1)

-----------------------------------------------------------------------------
(* Two periods compared                                                    *)

AnswersNow == AnswersFor(call.current)
AnswersThen == AnswersFor(call.previous)
AllDrivers == Drivers(AnswersNow, AnswersThen)
ToldDrivers == FirstOf(AllDrivers, TopN)
Compared == Overview(AnswersNow, AnswersThen)

\* The drivers explain the change: those of the providers add up to the change of
\* the total, and those of a provider's services to that of the provider, but for
\* half a cent of every charge and of the two totals. Services that came or went
\* between the periods are counted like the others. Of each period, the days add
\* up to the total and the shares to 100 %, but for what is rounded: half a cent
\* for every day and provider, and half a hundredth of a percent for every provider
\* (AnalyticsService.drivers, trends and summary, from totals rounded apart).
ChangeIsExplained ==
  call.of = "periods" =>
    LET Changes(drivers) == SumFunction([d \in drivers |-> d.change])
        providers == {d \in AllDrivers : d.service = None}
        ServicesOf(p) == {d \in AllDrivers : d.service # None /\ d.provider = p}
        ChargedBy(charges, p) == {x \in DOMAIN charges : x[1] = p /\ charges[x] > 0}
    IN /\ Changes(providers) = Compared.change
       /\ \A d \in providers :
            2 * Abs(Changes(ServicesOf(d.provider)) - d.change)
              <= Cardinality(ChargedBy(call.current, d.provider))
                   + Cardinality(ChargedBy(call.previous, d.provider)) + 2
       /\ \A answers \in {AnswersNow, AnswersThen} :
            LET total == SumFunction(ProviderTotals(answers))
                trends == Trends(answers, BillStart, BillEnd)
                shares == ProviderShares(answers)
                n == Cardinality(DOMAIN answers)
            IN /\ 2 * Abs(SumFunction(trends) - total) <= n * (Cardinality(BillDays) + 1)
               /\ total # 0 =>
                    2 * Abs(SumFunction([p \in DOMAIN shares |-> shares[p].share]) - 10000) <= n

\* What is cut from the list of drivers, twice, is never what matters most: the
\* service named as the top driver is the one that rose most of all; no event that
\* is explained is smaller than a significant one that is not; and a change of
\* the amount of an event always has one (drivers[:top_n], _generate_insights,
\* select_cost_events).
LargestChangesTold ==
  call.of = "periods" =>
    LET events == CostEvents(Compared, ToldDrivers)
        insights == Insights(Compared, ToldDrivers)
    IN /\ \A i \in insights, d \in AllDrivers :
            i.type = "top_cost_driver" /\ d.service # None => d.change <= i.impact
       /\ \A e \in events, d \in AllDrivers \ events :
            Significant(d) => Abs(d.change) <= Abs(e.change)
       /\ (\E d \in AllDrivers : Abs(d.change) >= AtLeast(1, EventAmount)) => events # {}

-----------------------------------------------------------------------------
(* Alerts                                                                  *)

\* An alert that is triggered still is when the last day costs more, whatever its
\* type: on the costs of a day, on an increase over the days before, on an anomaly,
\* or on a forecast, as long as no day is left out of the forecast as an outlier
\* (AlertEvaluationService._condition).
CostlierStaysRaised ==
  call.of = "items" /\ DOMAIN call.records # {} =>
    LET last == Max(DOMAIN call.records)
        items == [x \in (DOMAIN call.records) \X Services |->
                    [call.records[x[1]] EXCEPT !.service = x[2]]]
        Costlier(service) ==
          [x \in DOMAIN items |-> IF x[1] = last /\ NamePart(service, x[2])
                                  THEN [items[x] EXCEPT !.cost = @ + 5] ELSE items[x]]
        Kept(records, service) ==
          \A s \in Services : NamePart(service, s) =>
            LET daily == DailyValues(Matching(records, LAMBDA r : r.service = s), 1, call.length)
            IN Len(Cleaned(daily)) = Len(daily)
    IN last <= call.length =>
         \A type \in {"cost_threshold", "cost_increase", "anomaly", "forecast_threshold"},
           service \in Services \cup {None}, amount \in {3, 20} :
           LET alert == [alert_type |-> type, provider |-> None, service |-> service,
                         threshold |-> amount, percentage |-> amount]
               start == IF type = "anomaly" THEN last ELSE 1
           IN /\ Triggered(items, alert, start, call.length)
              /\ type = "forecast_threshold" =>
                   Kept(items, service) /\ Kept(Costlier(service), service)
              => Triggered(Costlier(service), alert, start, call.length)

-----------------------------------------------------------------------------
(* Anomalies                                                               *)

\* A day that costs more is no smaller an anomaly: the guards of `detect` (amount,
\* percentage, score, the zero baseline) do not hide a rise that a smaller one
\* shows.
CostlierNoMilder ==
  call.of = "day" =>
    \A more \in Costs3 : more >= call.actual =>
      Severity(call.history, more) >= Severity(call.history, call.actual)

\* One day of a steady history that went wrong changes nothing of what the days
\* after it are found to be: the baseline of median and MAD is robust.
SpikeForgiven ==
  call.of = "day" =>
    \A c \in Costs3, i \in DOMAIN call.history :
      (Len(call.history) >= 3 /\ \A j \in DOMAIN call.history \ {i} : call.history[j] = c)
        => Severity(call.history, call.actual)
             = Severity([j \in DOMAIN call.history |-> c], call.actual)

-----------------------------------------------------------------------------
(* Forecasts                                                               *)

Ahead == Horizons[1]

\* What a forecast is made of: None stands for no forecast.
AnyForecast ==
  [points : Seq([cost : Int, lower : Int, upper : Int]),
   projected : Int, lower : Int, upper : Int,
   confidence : {"low", "medium", "high"}, used : Nat, historical : Int]

ASSUME NoneAssumption == None \notin AnyForecast

\* How high a day is that the forecast leaves out does not matter: it moves
\* neither the projection nor the band (_clean_outliers before the level, the
\* trend and the spread).
OutlierHeightIgnored ==
  call.of = "series" =>
    \A i \in DOMAIN call.daily, more \in Costs3 :
      (Len(Cleaned(call.daily)) < Len(call.daily) /\ Extreme(call.daily, call.daily[i])
         /\ more >= call.daily[i])
        => LET higher == GroupForecast([call.daily EXCEPT ![i] = more], Ahead)
           IN /\ higher # None
              /\ [higher EXCEPT !.historical = 0]
                   = [call.forecast EXCEPT !.historical = 0]

\* The band contains the forecast on every day and in total, which the response
\* model demands: a forecast outside it would be an internal error instead of an
\* answer (DailyForecast.validate_bounds, ForecastResult.validate_total_bounds).
BandHolds ==
  call.of = "series" =>
    LET forecast == call.forecast
        Within(x, cost) == 0 <= x.lower /\ x.lower <= cost /\ cost <= x.upper
    IN forecast # None =>
         /\ Within(forecast, forecast.projected)
         /\ \A point \in Range(forecast.points) : Within(point, point.cost)

\* A provider's answer lists a service several times and the explorer spreads each
\* entry over all days, so that a day has several items of a service. No analysis
\* takes such items for one, as long as they differ in their costs: of costs in two
\* parts it finds what it finds of the whole. (Parts that cost the same are equal
\* items, of which all three analyses drop one.)
PartsAddUp ==
  call.of = "items" =>
    LET Part(cost, i) == IF i = 1 THEN cost \div 3 ELSE cost - cost \div 3
        keys == {k \in (DOMAIN call.records) \X {1, 2} :
                   Part(call.records[k[1]].cost, k[2]) > 0}
        parts == [k \in keys |-> [call.records[k[1]] EXCEPT !.cost = Part(@, k[2])]]
        query == [start |-> 1, end |-> call.length, provider |-> None, currency |-> None,
                  horizon |-> Ahead, dimension |-> "service"]
    IN /\ Anomalies(call.records, call.length - 1, call.length, call.length)
            = Anomalies(parts, call.length - 1, call.length, call.length)
       /\ ForecastOf(call.records, query) = ForecastOf(parts, query)
       /\ RecommendationsFor(call.records, 1, call.length)
            = RecommendationsFor(parts, 1, call.length)

-----------------------------------------------------------------------------
(* Recommendations and budgets                                             *)

\* A service whose recent costs rise stays recommended for review by each of the
\* rules that named it, and no less urgently, though its share, its growth and
\* the total all move with them.
RisingStaysUrgent ==
  call.of = "advice" =>
    \A g \in Services : \A r \in {x \in Recommendations(call.daily) : x.group = g} :
      LET costs == call.daily[g]
          risen == [call.daily EXCEPT ![g] =
                      [i \in DOMAIN costs |-> IF i > Len(costs) \div 2
                                              THEN costs[i] + Dollars(1) ELSE costs[i]]]
      IN \E more \in Recommendations(risen) :
           /\ more.group = g /\ more.method = r.method
           /\ more.priority >= r.priority /\ more.savings >= r.savings

Rank == [healthy |-> 0, warning |-> 1, critical |-> 2, exceeded |-> 3]

\* The status by the forecast is no milder than the status by what was spent.
ForecastNoMilder ==
  call.of = "budget" =>
    LET e == call.evaluation
    IN e.available /\ e.forecast.spend # None =>
         /\ e.forecast.spend >= e.spend
         /\ Rank[e.forecast.status] >= Rank[e.status]

\* The forecast of a budget counts every day that is left of the month: the
\* horizons reach from any day to the end of the longest month.
ForecastReachesMonthEnd ==
  call.of = "budget" =>
    LET e == call.evaluation
        left == GroupForecast(call.daily, call.length - call.today)
    IN e.forecast.spend # None => e.forecast.spend = e.spend + left.projected
=============================================================================
