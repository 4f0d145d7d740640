---------------------------- MODULE ProviderCosts ----------------------------
(***************************************************************************)
(* From a bill to a provider's answer: the three provider services (AWS    *)
(* Cost Explorer, Azure Cost Management, GCP's BigQuery export), their     *)
(* adapters and mappers.                                                   *)
(*                                                                         *)
(* A bill is what a cloud charges, by day and service, in PerCent-ths of a *)
(* cent; negative amounts are credits. A MONTHLY query sums it before the  *)
(* services see it. The currency of a bill is one, and the order of the    *)
(* services in an answer, which only shows, is left out.                   *)
(***************************************************************************)
EXTENDS CostRecords

CONSTANTS
  PerCent,   \* the amounts of a bill are counted in 1/PerCent of a cent
  Today,
  FirstDays, \* the days that begin a month
  MaxRange,  \* the longest period AWS is asked for, in days
  MockRates  \* cost of a service in the local demo data, of a day and of a month

Clouds == {"aws", "azure", "gcp"}
Granularities == {"DAILY", "MONTHLY"}
ErrorClasses == {"credentials", "throttling", "permissions", "invalid range", "service"}

ASSUME ProviderCostsAssumption ==
  /\ PerCent \in Nat \ {0} /\ Today \in Nat /\ MaxRange \in Nat
  /\ FirstDays \in SUBSET Nat /\ IsFiniteSet(FirstDays)
  /\ IsFiniteSet(DOMAIN MockRates)
  /\ \A s \in DOMAIN MockRates : MockRates[s] \in [day : Nat, month : Nat]
  /\ None \notin ErrorClasses

\* How an SDK call may fail, and the provider error each ends up as: through the
\* exceptions of the service and those of the adapter. (A "bad token" that the
\* Azure SDK raises as an authentication error is one without credentials.)
Failures == {"no credentials", "bad token", "denied", "throttled", "rejected",
             "missing", "unreachable", "other"}
ProviderFailure(cloud, failure) ==
  CASE failure = "no credentials" -> "credentials"
    [] failure = "throttled" -> "throttling"
    [] failure = "rejected" -> "invalid range"
    [] failure = "denied" -> IF cloud = "gcp" THEN "credentials" ELSE "permissions"
    [] failure = "bad token" ->
         [aws |-> "credentials", azure |-> "permissions", gcp |-> "service"][cloud]
    [] failure = "missing" -> IF cloud = "gcp" THEN "invalid range" ELSE "service"
    [] OTHER -> "service"
\* While Azure looks for a subscription, throttling and a bad request are not told
\* apart from other failures.
ListingFailure(failure) ==
  IF failure \in {"throttled", "rejected"} THEN "service"
  ELSE ProviderFailure("azure", failure)

Error(class) == [error |-> class]
Served(total, services, daily) ==
  [error |-> None, total |-> total, services |-> services, daily |-> daily]
NoCosts == Served(0, <<>>, <<>>)

ToCents(amount) == Round(amount, PerCent) * PerCent

-----------------------------------------------------------------------------
(* The query: a row for every group of the charges, with their sum.        *)

\* The days a cloud is asked for: to AWS the end of a period is exclusive.
Period(cloud, start, end) == IF cloud = "aws" THEN start..(end - 1) ELSE start..end

\* The date of the group a day is in. By month, AWS groups by the part of a month
\* within the period; Azure and GCP by nothing but the service: the start of the
\* period stands for no date.
RowDate(cloud, day, start, granularity) ==
  IF granularity = "DAILY" THEN day
  ELSE IF cloud = "aws" THEN Max({start} \cup {d \in FirstDays : d <= day})
  ELSE start

RowsOf(cloud, bill, start, end, granularity) ==
  LET Row(k) == <<RowDate(cloud, k[1], start, granularity), k[2]>>
      asked == {k \in DOMAIN bill : k[1] \in Period(cloud, start, end)}
  IN [row \in {Row(k) : k \in asked} |->
        SumFunctionOnSet(bill, {k \in asked : Row(k) = row})]

-----------------------------------------------------------------------------
(* Normalization. The rows of an answer are a function from <<date, service>> *)
(* to amounts; only the positive ones count.                               *)

Days(rows) == {k[1] : k \in DOMAIN rows}
DayTotal(rows, day) ==
  SumFunctionOnSet(rows, {k \in DOMAIN rows : k[1] = day})
ServiceTotal(rows, service) ==
  SumFunctionOnSet(rows, {k \in DOMAIN rows : k[2] = service})
RowsTotal(rows) == SumFunction(rows)

Charged(rows) == Restrict(rows, {k \in DOMAIN rows : rows[k] > 0})

\* AWS and GCP list a service once for every row, Azure once; AWS does not round.
ServiceCosts(cloud, rows) ==
  IF cloud = "azure"
  THEN [s \in {k[2] : k \in DOMAIN rows} |->
          [service |-> s, cost |-> ToCents(ServiceTotal(rows, s))]]
  ELSE [k \in DOMAIN rows |->
          [service |-> k[2],
           cost |-> IF cloud = "aws" THEN rows[k] ELSE ToCents(rows[k])]]

\* The rows of a MONTHLY answer of Azure or GCP have no date.
Normalized(cloud, rows, granularity) ==
  LET charged == Charged(rows)
  IN Served(ToCents(RowsTotal(charged)),
            ServiceCosts(cloud, charged),
            [d \in IF cloud # "aws" /\ granularity = "MONTHLY" THEN {}
                   ELSE Days(charged) |-> ToCents(DayTotal(charged, d))])

\* The demo data of AWS: each day costs the average; a month is always the same.
Mocked(start, end, granularity) ==
  LET byDay == granularity = "DAILY"
      days == AtLeast(1, end - start + 1)
      services == [s \in DOMAIN MockRates |->
                     [service |-> s,
                      cost |-> PerCent * (IF byDay THEN MockRates[s].day * days
                                          ELSE MockRates[s].month)]]
      total == SumFunction([s \in DOMAIN services |-> services[s].cost])
  IN Served(total, services, [d \in IF byDay THEN start..(start + days - 1) ELSE {} |->
                                Round(total, days * PerCent) * PerCent])

-----------------------------------------------------------------------------
(* get_costs of the three services                                         *)

ValidRange(start, end) == start <= end /\ start <= Today

\* What the cloud answers, unless the SDK meets a failure.
Asked(cloud, call, rows, granularity) ==
  IF call.failure # None THEN Error(ProviderFailure(cloud, call.failure))
  ELSE Normalized(cloud, rows, granularity)

\* setting: is the service enabled, with demo data, what is configured to be
\* asked ("given", "listed": to be found by listing, "absent"). call: the failure
\* the SDK meets or None, while listing or not, and the first page.

\* AWS rejects an empty period, and is asked for every page.
AwsCosts(setting, call, bill, start, end, granularity) ==
  IF ~setting.enabled THEN NoCosts
  ELSE IF setting.mock THEN Mocked(start, end, granularity)
  ELSE IF ~ValidRange(start, end) \/ end - start > MaxRange
       THEN Error("invalid range")
  ELSE IF Period("aws", start, end) = {} /\ call.failure = None
       THEN Error(ProviderFailure("aws", "rejected"))
  ELSE Asked("aws", call, RowsOf("aws", bill, start, end, granularity), granularity)

\* Of Azure's answer the first page is read.
FirstPage(rows, call) == Restrict(rows, DOMAIN rows \cap call.first)

AzureCosts(setting, call, bill, start, end, granularity) ==
  LET rows == RowsOf("azure", bill, start, end, granularity)
  IN IF ~setting.enabled THEN NoCosts
     ELSE IF setting.scope # "given" /\ call.listing /\ call.failure # None
          THEN Error(ListingFailure(call.failure))
     ELSE IF setting.scope = "absent" THEN Error("invalid range")
     ELSE Asked("azure", call, FirstPage(rows, call), granularity)

\* BigQuery's result has all the rows.
GcpCosts(setting, call, bill, start, end, granularity) ==
  IF ~setting.enabled THEN NoCosts
  ELSE IF setting.scope = "absent" \/ ~ValidRange(start, end) THEN Error("invalid range")
  ELSE Asked("gcp", call, RowsOf("gcp", bill, start, end, granularity), granularity)

\* get_costs of the adapters.
Costs(cloud, setting, call, bill, start, end, granularity) ==
  CASE cloud = "aws" -> AwsCosts(setting, call, bill, start, end, granularity)
    [] cloud = "azure" -> AzureCosts(setting, call, bill, start, end, granularity)
    [] OTHER -> GcpCosts(setting, call, bill, start, end, granularity)

=============================================================================
