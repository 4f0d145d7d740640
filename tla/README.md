# A verification development of the multi-cloud cost detector

TLA+ modules that model the parts of the system whose behaviour depends on
interleaving, failure and time, and the computations on costs; the TLC
configurations that check them on small instances; and theorems that TLAPS
proves about them for every instance. Paths below are relative to the
repository.

## 1. The system

A FastAPI service (one process, one asyncio event loop; a second one when it is
deployed twice) in front of AWS, Azure and GCP billing APIs, with PostgreSQL,
Redis, an SMTP server and Gemini behind it, and a Next.js client.

| component | state it keeps | operations | what is hard |
|---|---|---|---|
| alerts (`app/alerts`, `routes/alerts.py`) | table `alerts`; rows loaded by a session; mails in worker threads | CRUD, `run_alert_scheduler`, `POST /alerts/evaluate`, SMTP send | two evaluations overlap, a mail is sent before it is recorded, cancellation does not stop a thread, a PATCH validates one row and writes another |
| cached cost readers (`explorer`, `anomaly`, `forecasting`, `optimization`, `budgets/service.py`, `core/cache.py`) | Redis entries with expiry; the client or its absence | look up, ask the providers, compute, store, answer | entries built from entries, outages that become empty lists, Redis that fails at any call, concurrent requests, restarts |
| budgets (`app/budgets`) | table `budgets` | CRUD, evaluation | the evaluation is cached under the row's `updated_at`; an edit races a running evaluation; month ends |
| cost aggregator, unified costs (`cost_aggregator.py`, `cost_service.py`) | Redis entries per provider | `get_costs` | a provider error is raised here, and swallowed in the explorer |
| dashboard and analytics (`dashboard.py`, `analytics/`) | two Redis entries per query | summary, insights | three concurrent loads of one period are combined into one answer |
| AI insights, explanations, copilot, advisor (`services/ai`) | Redis entries per event or anomaly | chains of Gemini calls | partial failure: some explanations exist, the rest do not; facts that change between the request that stored an explanation and the one that reads it |
| arithmetic (explorer allocation, MAD baseline, forecast level and slope, optimization rules, budget thresholds) | none | pure functions | rounding, empty and short series, dedup of equal records |
| provider adapters (`services/aws`, `azure`, `gcp`) | none | page loops, normalisation | pagination, exclusive end dates |
| authentication (`app/auth`), client (`frontend/lib/api/client.ts`) | table `users`; tokens in `localStorage`, shared by the tabs of a browser | register, login, refresh, logout, the second attempt after a 401 | the storage changes between the awaits of a call; two registrations of one e-mail; client and server disagree on an answer |
| rate limiting, configuration, logging, migrations, health | library state or none | | |

Interactions: the scheduler and the alert endpoints call the explorer, the
detector and the forecaster; a budget evaluation calls the explorer and the
forecaster, whose answer may come from Redis; recommendations, anomalies and
forecasts all call the explorer; dashboard insights call the summary and the AI
service. Every cached reader shares one `RedisCache`, which turns any Redis
error into a miss or a no-op.

What makes each part correct:

* **alerts**: a time in `last_triggered_at` is that of a mail the user got; no
  mail within the cooldown of a recorded one; a mail that was lost is tried
  again; only accidents produce duplicates; only two edits that overlap can leave
  a row that the schema would refuse; an edit is never overwritten by an evaluation; a disabled alert falls silent.
* **cached readers**: an answer is never older than the lifetimes of the
  entries it came through; an evaluation is one of the budget as it was read; a
  total outage is not remembered; after the costs stop changing every answer
  shows them; a request that has an answer gets it.
* **budgets**: an evaluation of the budget as it was read; the status by the
  forecast is no milder than the one by what was spent; the forecast reaches the
  end of the month from each of its days.
* **dashboard**: total, change and drivers of one answer belong together; the ages
  of what is cached from caches have a bound.
* **AI**: an explanation is of the facts it is shown with and quotes no other
  figures; what was paid for is kept; a status neither hides an explanation nor
  the failure of one.
* **arithmetic**: the explorer accounts for the bill up to the roundings; the drivers
  of a change add up to it, and what is cut from their list is never the largest; a
  rise keeps an alert triggered, is no smaller an anomaly and no less urgent a recommendation; one odd day
  moves neither a baseline nor a forecast; a band holds its forecast; the parts
  of a day's costs count in every analysis.
* **client**: the two stored tokens are of one account; a session ends; a
  call within a live session is served; one account per e-mail.

## 2. Modules

| module | what it is |
|---|---|
| `Alerts` | the alert subsystem, one action per step between two awaits |
| `AlertLedger` | what alert notification promises, without sessions, rows or commits |
| `AlertsProperties` | type invariant, safety, action and liveness properties of `Alerts`, and its refinement mapping to `AlertLedger` |
| `AlertsProofs` | theorems: types, records are of delivered mails, the cooldown |
| `AlertRowsProofs` | theorems: what may spoil a row, no lost edit, unrecorded mails |
| `AlertLedgerProofs` | theorem: one evaluator implements `AlertLedger` |
| `MCAlerts` | instances of `Alerts` |
| `CostReads` | the five cached readers of cost records over Redis |
| `CostReadsProperties` | their properties |
| `CostReadsProofs` | theorems about `CostReads` |
| `MCCostReads` | instances of `CostReads` |
| `Dashboard` | the loads of provider costs, the analytics and the dashboard composed from them, three levels of entries |
| `DashboardProperties`, `DashboardProofs` | their properties; theorems |
| `MCDashboard` | instances of `Dashboard` |
| `ClientSession` | the tokens of the web client, its tabs, and the auth endpoints |
| `ClientSessionProperties`, `ClientSessionProofs`, `MCClientSession` | its properties; theorems; instances |
| `AiAnswers` | the four services that quote the language model |
| `AiAnswersProperties`, `AiAnswersProofs`, `MCAiAnswers` | their properties; theorems; an instance |
| `CostRecords` | line items, rounding, medians: what the computations share |
| `ProviderCosts` | what `get_costs` of the three clouds answers for a bill |
| `Explorer` | answers to line items; filters, breakdowns, totals |
| `Detector` | the robust baseline and the severity of a day |
| `Forecaster` | outliers, level, trend, spread; forecasts by group |
| `Advisor` | the two rules of recommendation, priorities, the summary |
| `BudgetEvaluation` | spend, forecast and status of a budget |
| `Comparison` | shares of providers, days of a period, two periods compared: drivers, insights, significant events |
| `AlertConditions` | what an alert of each type is triggered by |
| `CostFigures` | calls of all of these, for every input of bounded sets |
| `CostFiguresProperties`, `CostFiguresProofs`, `MCCostFigures` | their properties; theorems, and lemmas about the operators; an instance |

Definitions marked `Mutant:` are plausible bugs of the definition that follows
them. They are not part of any specification: they document which mistake each
property notices.

### Alerts

State. `config` is the client's columns of `alerts` (None where there is no
row), `last` the column `last_triggered_at`, `born` the primary keys used up,
`active` the column `users.is_active`. A session `e` (a scheduler task in
`Schedulers`, a running `POST /alerts/evaluate` in `Endpoints`) has a position
`pc[e]`, the users it still has to walk, the alerts of the current one (`todo`),
the columns it loaded (`seen`, `seenLast`) and the mail it is sending.
`patching` is, per client, a PATCH between its read and its commit, with whether
another PATCH of the row committed in between (`overtaken`, which only a property
reads), `orphans` the mails in
worker threads whose coroutine is gone. `delivered` and `recorded` are history.

| action | code |
|---|---|
| `StartCycle`, `NextUser`, `EndCycle` | `run_alert_scheduler` |
| `PostEvaluate` | `evaluate_alerts` in `routes/alerts.py` |
| `SkipAlert`, `StartSend` | `_evaluate_one` up to `notifier.send` |
| `Deliver`, `SendFails`, `SendFailsLate` | `EmailNotificationService.send`: accepted; refused; accepted and then broken |
| `Save`, `Refresh`, `RowGone` | `AlertRepository.save`: commit, refresh, a row deleted meanwhile |
| `DatabaseError`, `Stop`, `Restart`, `OrphanEnds` | an exception out of the repository, shutdown or crash (with the commit applied or not), the thread that outlives its task |
| `Create`, `UpdateValidate`, `UpdateCommit`, `Delete` | `AlertService` |
| `SetActive`, `Tick` | an administrator; the clock |

Abstractions. A threshold is present or null; whether a condition triggers is
a nondeterministic outcome of the provider data (`AlertConditions` computes it), except that a null threshold
can never trigger (`Runnable`). A mail is its alert and the `now` it was
decided at. The order of users and alerts in a cycle is left open. One unit of
the clock is the granularity of `cooldown_minutes`. `MinCooldown`, of which only
the ledger speaks, is a number that no offered cooldown is below
(`MinCooldownAssumption`): 0 always is one, for the schemas demand
`cooldown_minutes >= 0` (`schemas/alerts.py:43`, `86`).

### CostReads

State. `store` is Redis (an answer and the time it has left, per key),
`connected` whether startup got a client, `source[p]` what provider `p` returns
now (a version of its costs, or `Failing`), `budget` the row of one budget,
`req[r]` a request: the service it is for (`endpoint`) and the one it is in
(`at`, different only for the forecast of an evaluation), the row it read, the
providers it waits for, the answer. `gone[p][v]` is history: how long ago `v`
stopped being what `p` returns; with it "how old is this answer" is a state
predicate (`Current`).

| action | code |
|---|---|
| `Begin` | a handler of `routes/`, which reads the budget's row first |
| `Hit`, `Miss` | `cache.get_json` of the service; a disabled budget |
| `Fetch` | one of the gathered calls in `_fetch_provider_records` returns |
| `Explored`, `Recommended`, `Forecast`, `Evaluate`, `Mismatch` | what each service does with the records |
| `Store` | `cache.set_json` and the return, to the client or to `evaluate` |
| `Finish`, `Change`, `EditBudget`, `Restart`, `Tick` | the response is sent; the environment |

Abstractions. One query per service (the key of another query is another
entry), over all providers, within one day; an answer is the versions it was
computed from; a provider that fails and one without records look the same to
the readers, so both are `Failing`. `GetJson` may miss and `SetJson` may do
nothing at any time, which is what `RedisCache` makes of every Redis error; a
process whose startup failed (`connected = FALSE`) misses always.

### Dashboard

State. `store` is Redis as above, with an entry per provider and period (the
age of its figures), one for the summary and one for the insights. `req[r]` is
a request: where it is (`pc`), the loads it has gathered, each with its own
position and figure, the summary it has and the one its insights were derived
from. All ages are explicit and `Tick` advances them, since each level of
caching is filled from the one below it.

| action | code |
|---|---|
| `Begin` | a handler of `routes/analytics.py` or `routes/dashboard.py` |
| `LoadGet`, `LoadFetch`, `LoadFails`, `LoadSet` | `CostAggregatorService.get_costs`: look up, the provider answers or raises, store |
| `Refuse` | `AnalyticsCurrencyError`, `AnalyticsNoDataError` of one analytics call, as soon as its own loads are back |
| `SummaryGet`, `Compose`, `SummarySet` | `DashboardService.summary` |
| `InsightsGet`, `Summarised`, `InsightsSet` | `DashboardService.insights` |
| `Finish`, `Restart`, `Tick` | the response is sent; the environment |

A failed load ends the request at once, and the other loads of the gather go on
and fill their entries: nothing cancels them. `Finish` frees the place of a
request when its last load has ended. `LoadGet` is the lookup in Redis and
`LoadFetch` the resumption of the coroutine; the SDK call in between is
synchronous, so one step.

Abstractions. One query of one user; a figure is its age; an answer is the set
of loads it was composed from with the oldest and the newest figure. The AI
explanations, which change neither summary nor insights, are left out.

### ClientSession

State. `storage` is the three keys of `localStorage` (access token, refresh
token, user), which all tabs share; `users` the accounts and `is_active`;
`tab[t]` the call a tab makes: where it is between two awaits, the token of the
attempt, the refresh token it is renewing with, the answer. A token is its
claims. `since`, `live` and `trouble` are there for the properties: when an
account was registered, whether a call began with a refresh token that outlives
it, and whether anything happened that may cost a session.

| action | code |
|---|---|
| `Start`, `Settle`, `StoreRefreshed`, `Again` | `request` and `refreshAccessToken`: send; read the answer; store or sign out; the second attempt |
| `Return` | `storeAuth`, `logout`: what the page does with the answer |
| `Serve` | `POST /auth/login`, `POST /auth/logout`, `get_current_active_user` of a data endpoint |
| `RegisterCheck`, `RegisterCommit` | `AuthService.register`: look up; insert and answer tokens |
| `ServeRefresh` | `POST /auth/refresh` |
| `Refuse`, `Lose`, `SetActive` | the one accident: an answer that is not ok, a rejected `fetch`, an account switched off or on |
| `Tick` | the clock |

What the model shows of the code besides its properties: a refresh that is
refused for whatever reason (429 and 5xx too) clears a session that is still
valid (`client.ts:68`, `93`), and a refresh that is answered after a logout
stores tokens again; both set `trouble`. Not in the model, because no state
depends on it: `deleteAlert` and `deleteBudget` are answered 204, whose empty
body `request` tries to parse (`client.ts:105`), so that a page reports the
deletion it made as failed.

### AiAnswers

State. `kind` is the service of a behaviour: the four share no key. `figures` is
the version of the costs the deterministic services report, `config` and `redis`
the settings and the client of the process, `quota` what Gemini still answers
before the next tick, `cache` the explanations in Redis, `detected` the
detector's own entry. `req[r]` is a request with the finding it resolved, the
facts to explain and the explanations it has, in order.

| action | code |
|---|---|
| `Ask`, `Finish` | the routes |
| `SelectEvents` | `AIInsightService.generate` before its loop |
| `ResolveAnomaly`, `CheckAnomaly`, `ReadRecords`, `ReadInvalid` | `AnomalyExplanationService`: the detector, the anomaly of that id, the records, `build_anomaly_context` |
| `ResolveRecommendation`, `ResolveQuestion` | the advisor's and the copilot's facts |
| `Hit`, `Miss` | the lookup, and what is answered without the model |
| `Generate`, `OverQuota`, `ModelFails` | Gemini and the validation of what it says |
| `Store` | `set_json`; the next event, or the answer |
| `Change`, `RedisFails`, `RedisReturns`, `Restart`, `Tick` | the environment |

A text is the set of figures it claims. The validators of three of the services
refuse a number that is not among the facts, except the bare 1 to 8
(`anomaly_explanations.py:91`, `copilot.py:92`, `optimization_advisor.py:101`), which
any text may quote: these are `Small`, some of which may be figures too. The texts
on dashboard events are not searched for numbers (`Explanation` gives them no
claims), and `ClaimsSupported` says nothing of them. A question is its intent
(`classify_question`); those in `Questions` are asked. One about costs has records,
one about anomalies, forecasts, optimization or budgets what that service says, one
across domains any of these. A key is the facts it hashes: an event's
numbers, an anomaly's id, the whole context of a recommendation or a question.

What the model shows of the code besides its properties: with a Redis client the
advisor fails whenever there is a recommendation, for the list it asks for does
(run `reads_recommendations`), so that advice is never cached;
`share_of_increment` is declared at most 100
(`schemas/anomaly_explanation.py:54`) and computed without a limit
(`anomaly_context.py:85`), which is `ReadInvalid`; two requests that overlap pay
for the same explanation twice; a figure of 1 to 8 may be quoted without support.

### The computations

`CostRecords`, `ProviderCosts`, `Explorer`, `Detector`, `Forecaster`, `Advisor`,
`BudgetEvaluation`, `Comparison` and `AlertConditions` are operators and functions, no state. A behaviour of
`CostFigures` is one call: an action chooses the arguments (a bill with settings
and a failure of the SDK; two periods; a history and a day; a series; daily costs by service;
line items; a budget and its month), and the properties compare what the call
returns with a reference or with what it returns for a related input. A
reference that repeats the code's formula is nowhere: the properties are
conservation, monotony, robustness and the bounds of the response models.

Amounts are integers: cents in line items, `1/PerCent` of a cent in a bill,
hundredths in scores and percentages. `Round` is `ROUND_HALF_UP` and is applied
where the code quantizes. `Decimal` quotients that are only compared are
compared multiplied out. The parts that are floats in the code (square roots of
horizons, slopes) are exact quotients, or a table (`Root`) of two decimals.

What the model shows of the code besides its properties:

* AWS takes an exclusive `End`, the services pass the inclusive one: the last
  day of a range is missing, and a range of one day is refused
  (`cost_explorer.py:171`). `Period` is the days that are asked for.
* What comes back is grouped in the query (`RowsOf`): by day and service, or, by
  month, by service alone in Azure and GCP and by service and part of a month
  within the period in AWS (`RowDate`, with `FirstDays` the days that begin a
  month). Credits are netted within a group before the adapters drop the rows that
  are not positive, so that a total by month may be below the total by day.
* Azure's first page is all that is read (`FirstPage`).
* Accordingly `BillAccounted` compares the explorer with the positive rows that
  were asked for (`ChargedRows`): not with AWS's last day, whatever the docstring
  says of the range (`cost_explorer.py:261`), and not with what is on further pages
  of Azure.
* The three analyses each tell duplicates by a key of their own (`AnomalyKey`,
  `ForecastKey`, `AdviceKey`), all of which have the cost: items of a service and day
  that differ in their cost count each (`PartsAddUp`), and two of the same amount,
  such as two AWS charges, count once in anomalies, forecasts and recommendations
  although the explorer shows both.
* The summary of recommendations adds the savings of both rules for one group,
  and adds currencies.
* A percentage of change is quantized with Python's default, half to even
  (`RoundEven`; `analytics/service.py:224`, `291`), where the shares and the money of
  the same service round a half up.
* An alert on the forecast of a service compares its threshold with the forecast of
  the first service whose name contains the given one (`forecasts[0]`,
  `alerts/service.py:291`), an alert on its costs with the sum of all of them.
* More costs on the last day may make that day an outlier, which the forecast leaves
  out: an alert on the forecast may then end. `CostlierStaysRaised` excludes just
  that case.
* Shares under half a cent vanish one by one, however many there are, which is
  why the bound of `BillAccounted` counts items.

## 3. The runs

| run | question | instance |
|---|---|---|
| `alerts_single` | cooldown, what may spoil a row, no lost edit, refinement of `AlertLedger` | one alert, one scheduler, two PATCH clients, `MaxTime` 2, `MaxFaults` 1 |
| `alerts_concurrent` | what is recorded was delivered; duplicates need a fault; a disabled alert falls silent; a due one is mailed | one alert, the scheduler and one `POST /alerts/evaluate`, `MaxTime` 3, `MaxFaults` 1, with fairness |
| `alerts_race` | *violation*: the cooldown with two evaluations | as `alerts_concurrent`, no fault |
| `reads` | how old can an answer be | two requests for evaluations and forecasts, one provider that changes and fails |
| `reads_heal` | evaluations of the budget read, outages not cached, convergence | four services in turn, an edit, restarts |
| `reads_recommendations` | *violation*: recommendations are answered | one request |
| `dashboard` | whole answers, of one window | two requests, two loads of one key each |
| `insights` | age through three levels | one request at a time, two loads of different keys |
| `session` | tokens of one account, sessions that end, live sessions that are served, one account per e-mail | two tabs, two accounts, one accident |
| `session_login` | *violation*: a login signs in | one tab |
| `ai` | own facts, supported claims, honest statuses, nothing paid for is lost | two requests, two versions of the costs that share an event, three questions, a quota of one answer per tick, one fault |
| `figures` | conservation, monotony, robustness, bounds of the computations, from bills to comparisons, alerts and budgets | one call for each input of bounded sets |

Bounds and why they are enough.

* `MaxTime` bounds the clock. With cooldowns of 1 and 2 units, which edits
  change, a clock of 2 lets a mail be decided within a cooldown and at the end of
  it; a clock of 3 in `alerts_concurrent` also within the next one.
* `MaxFaults` bounds broken SMTP replies, database errors and stops together: one
  accident in the course of everything else. Refused mails need no bound. What two
  accidents in a row do is for the theorems, which have no bound.
* Two clients in `alerts_single`, which edit the same alert: one PATCH may be
  overtaken by the other, between its validation and its commit. They are
  symmetric, since nothing compares clients other than for equality.
* One alert: sessions share nothing but the rows of one alert. Only the
  scheduler's walk relates two, by leaving the later ones out when it fails; the
  next cycle starts anew, and which alert it reaches first is left open.
* `MaxRun` bounds how long a request takes, in units of the lifetimes. Without a
  bound on requests nothing bounds the age of an answer.
* `MCTtl` scales the defaults (300 s for a budget, 3600 s for the others) to 1
  and 2: different, and both longer than nothing. `MCShortTtl` is 1 for all.
* `Horizon` is where ages stop counting, above `ForecastAge` in `reads` (6 > 5);
  it is 0 where no property is about ages.
* `MaxEdits` bounds the edits of the budget.
* `dashboard` has the loads `summary` and `current`, which share an entry, so
  that the figures of one answer differ by whoever filled it; `insights` has
  `summary` and `previous`, whose entries expire apart. The trend's load repeats
  the summary's. One provider is enough: providers differ in nothing but their
  key, and a second load of a request plays the part of a second provider.
  `Ttl` 2 lets an entry be hit one unit after it was stored; with 1 it would be
  gone at the next tick and ages would not add up. The bounds of `OneWindow`
  and `StackedAge` are reached in these instances: with one unit less, for the
  window or for the insights, TLC finds a violation.
* `dashboard` and `reads` declare requests symmetric (`reads` versions too):
  no definition compares two of them other than for equality, and neither run
  checks liveness.

* `session`: two tabs are enough for everything a call may see happen to the
  storage, two accounts for tokens that mix them. `AccessTtl` 2 and
  `RefreshTtl` 3 with calls of one unit let an access token expire before and
  during a call, and a refresh token be too old. One accident at a time: two
  would excuse each other in every property that mentions `trouble`.
* `ai`: two requests, because an explanation passes from one to the other.
  `AiTtl` 1 and `DetectTtl` 2 expire apart; the events of `old` and `new` overlap
  in one, so that an answer mixes explanations from the cache with new ones;
  `Quota` 1 cuts it after the first. Of the intents, the questions have one with
  records, one with a finding (and the failure of the recommendations) and one
  with neither; the questions across domains take more than the five minutes a run
  may take, and are for the theorems, which hold for every `Questions`.
* `figures`: a bill of four days, the third of which begins a month, and two services,
  amounts of -2 and 7 thirds of a cent (a credit, and a charge, which three credits
  leave positive by less than rounds to a cent);
  series of three to five daily costs of 0, 2, 3, 7, 20 with `MinObservations`
  4, so that there are outliers, flat series, gaps and too short ones; months
  of 8 and 9 days with horizons of 2, 4 and 8 for months of 28 to 31 with 7, 14
  and 30. Two periods are compared for the services of each cloud and for one
  service of all three, on one day, and for one service of each cloud on two days,
  charged -2, 7 or 20 (`Accounts`, `Charges`): a credit is
  dropped, so services come and go, and changes tie, rise and fall; `TopN` 2 and
  `MaxEvents` 1 cut lists of up to six drivers, and `EventAmount` 5 and
  `EventPercent` 40 % have changes on both sides. Alerts have thresholds of 3 and 20
  in cents or percent, on a service or on all; `Lookback` 4 and `AlertHorizon` 2 fit
  the series. Thresholds (`MinCost`, `MinDays`, `RecentDays`, `Fraction`) are scaled
  with them.

Deadlock is checked in every run but `figures`, where a behaviour is one call.

### What the violations show

They are disagreements between the code and what the repository says of it;
`PROJECT.json` quotes the lines.

* `alerts_race`: the cooldown is tested on the `last_triggered_at` that was
  loaded before the provider calls and the mail; two evaluations that overlap
  both send.
* `reads_recommendations`: `set_json` gets a list of models, which `_json_payload`
  hands to `json.dumps` as they are; the TypeError ends the request.
* `session_login`: `POST /auth/login` answers the two tokens, `storeAuth` reads
  `auth.tokens` and `auth.user`; it throws, and the page shows an error.

Five more were met and are not kept as runs, for each is one line of code
against one of a document: two PATCH requests that overlap, each valid for the row
it read, together leave a row that `AlertCreate` refuses (`alerts/service.py:68`,
`schemas/alerts.py:60`); AWS leaves out the last day of a range that
`cost_explorer.py:261` calls inclusive; the validators let a text quote an
unsupported figure of 1 to 8, where `README.md:59` and `docs/architecture.md:994`
and `1053` state the check without exception; a provider's failure is answered as an empty list where
`routes/explorer.py:53` documents a 502; a history of one day with costs in a
long enough period is forecast (`forecasting.py:264`) where
`docs/architecture.md:1100` asks for seven observations.

## 4. Fairness

* `Progress` (Alerts): weak fairness of each session's steps, of the scheduler's
  loop and of the restart. The SMTP client has a timeout of 10 s, provider and
  database calls return or raise, the loop of `run_alert_scheduler` catches
  everything but cancellation, and a stopped process is started again by its
  supervisor.
* `Favourable` (Alerts): strong fairness of `StartSend` and `Deliver`: the
  condition of the alert keeps being met and the mail server does not refuse
  for ever. Without it an alert is rightly never mailed. Since the clock is
  bounded, `DueAlertIsMailed` says that in the end the alert is within the
  cooldown of its last record.
* `FairSpec` (CostReads): weak fairness of each request's steps and of time.
  Nothing is assumed of Redis, providers, edits or restarts.
* `Fairness` (ClientSession): weak fairness of the server's and the client's
  steps: an exchange ends, by an answer or a rejection. Its properties are about
  safety and do not need it.
* `AiAnswers`, `Dashboard` and `CostFigures` assume none.

## 5. What is proved

TLAPS checks every proof to its last leaf. Every invariant that a passing run
checks is a theorem, but for four of `figures` (below), and so are the action properties
(`AnswersFresh`, `OnlyOvertakenPatchSpoils`, `NoLostPatch`, `PaidIsKept`) and the refinement (`LedgerSpec`). The theorems hold
for any number of alerts, users, sessions, requests, tabs, providers, versions,
days and services, and for any lifetimes and bounds. TLC evaluates the named
assumptions on the constants in every run.

### Alerts

* `TypeCorrect`: types, and that a session holds a mail exactly between the
  decision to send and the end of the save.
* `RecordedMailsWereDelivered`: the property alone is not inductive: it says
  nothing of a session about to save. `DeliveredInv` adds that the mail of a
  session at `save` or `refresh` was delivered.
* `CooldownIsHonoured`, under `SingleEvaluator`: `CooldownInv` adds that recorded
  times are not in the future, that `last` is the newest of them, that an alert a
  session has not reached yet was loaded with the newest one, and that a
  session's mail is later than all of them by the cooldown it loaded. The race of
  two evaluations (run `alerts_race`) breaks exactly the third part, which is why
  the assumption is needed.
* `OnlyOverlapsSpoil`, for any number of clients: a row that is spoilt, or comes to
  be so, was so by the commit of a PATCH that another one of the row overtook.
  Between the validation and the commit the row may be deleted, but keys are not
  used twice (`BornInv`), and sessions write another column; so that unless it was
  overtaken, what a request is about to commit still makes a valid row of the row
  as it is (`PatchFits`). The pair of PATCH requests of section 3 is thus the only
  way to an invalid row.
* `CommittedPatchesStay`: each step that changes a column of a stored row is a
  commit of a PATCH with that column. It needs types only, and no assumption.
* `OnlyFaultsLoseRecords`: `MissedInv` counts. A step makes a mail unrecorded
  only by delivering it without a session or by forgetting a session with it;
  each such step is a fault, and involves one mail.
* `OneEvaluatorImplementsTheLedger`, under `SingleEvaluator`: `delivered` and
  `recorded` are the ledger's own variables, so a step maps to `Deliver`,
  `Record` or a stutter. `LedgerInv` is the conjunction of the earlier
  invariants with: no row, loaded row or pending PATCH is below `MinCooldown`; an
  orphan's mail is no newer than the one its alert's session holds, and is apart
  from every older record. The last part is why a mail that a thread delivers
  after its session is gone still keeps the cooldown.

### CostReads

* `TypeCorrect`: types, and the shape of a request at each point.
* `AnswersAreFresh`: `FreshInv` relates every entry's age to the lifetime it has
  used up (`EntryFresh`) and the age of what a request holds to the time it has
  run (`RequestFresh`). An entry of a budget evaluation embeds a forecast that
  may have been read from an entry: its bound is the sum of both lifetimes and
  of both runs, and the proof shows that nothing adds a third.
* `EvaluationsAreOfTheBudgetRead`, `OutagesAreNotCached`: `HonestInv` says both of
  entries, of what a request is about to store, and of what it holds while it
  awaits the forecast it calls for.

### Dashboard

`DashboardInv` gives every theorem of the module. An entry of a provider is as
old as its age and the time it has left say together; one of the summary, or of
the insights, is a composition of all loads, with a window; a load of a request
is no older than the request and, from the lookup on, than an entry. The sums
of lifetimes and runs in `StackedAge` are those of the three levels. Assumed: an
endpoint awaits at least one load (`DashboardAssumption`), None is no answer.

### ClientSession

* `SessionTypeCorrect`: `FlowInv` says what a call carries at each point of its
  exchange. A refresh token is never where an access token belongs.
* `OneAccount`: a registration past its commit has an account; of two that
  looked up before, the second commit finds the first.
* `SessionsEnd`: `TokenInv` bounds each token anywhere (stored, held, granted)
  by the registration of its account.
* `TokensAreOfOneAccount`, without exception: both tokens are written and removed in
  one step of a tab, from one answer, and an answer's tokens are one account's. The
  third key, the user, is not written by a refresh: one that ends after another
  tab has registered another account leaves that account's user with the tokens of
  the first, until the next sign-in. The property says nothing of it.
* `LiveSessionsAreServed`, under `CallsAreShort` (two calls in a row last less
  than a token: seconds against 30 minutes and 7 days): `LiveInv` says what a
  live call may rely on at each point of its exchange (`Served`): the tokens it
  holds, and those it will read from a storage that other tabs write, outlive it.
  Such a writer may have got its token at the start of a call as long as this one,
  hence two calls. The assumption is needed: with `AccessTtl` 2, `MaxRun` 1 and
  longer sessions than in the run `session` (`RefreshTtl` 6, `MaxTime` 4, one
  account), TLC finds that another tab's older token replaces the one a call has
  just renewed, and expires before the second attempt. In the run's own instance
  no live session lasts until then; the smallest one within the assumption
  (`AccessTtl` 3, `RefreshTtl` 4, `MaxTime` 4: 7.4 million states, the longest
  check of all) passes too, and is left out of the runs for its length.

### AiAnswers

`AiInv` gives every theorem of the module: an entry explains what its key stands
for, and its ages and the time it has left are bounded together; a request's
explanations are of its facts, in order, and no more; the claims of a text are
figures of its facts or bare numbers of `Small`. For `ExplainedIsKept` it has a conjunct that relates a
request with the whole cache (`Paid`): what a request without delay and failure
of Redis has explained is there, which steps of the other requests keep because
they only add entries. Assumed: None is neither an item, a text nor an entry
(`NoneAssumption`).

### CostFigures

A behaviour is one call; `CallGood`, inductive, says that its arguments are in
their sets. The theorems are about what the operators then return, for series of
any length and any amounts. Sums are the library's fold: `SumStep` proves its
recursion, and what is needed of sums (equal, ordered or near terms, sums of
groups, of parts, of scaled terms) is proved from it by induction over finite sets
ordered by inclusion, with the set of the subsets for which the statement holds in
place of a predicate (`BySubsets`, `AllSubsets`; `AllNumbers` for the medians).

* `BillsAreAccounted`, for the rows that are asked for, in either granularity:
  `Near(a, b, c)` bounds a difference. An entry is near the
  rows it stands for (`ServiceCostsAre`), a day's total near its rows
  (`ToCentsNear`), the shares of a day near that day (`AllocatedShown`), and the
  errors of the terms add up (`ErrorsAdd`): half a cent of each row and one of
  the day. When every row of a day rounds to nothing so does every share, and
  the bound still covers the day. The filters of a query without a part of a name
  drop nothing (`FilterKeeps`), and a failure shows nothing (`NothingShown`).
* `CostlierIsNoMilder`, `SpikesAreForgiven`: the severity depends on the median
  and the MAD; one entry of three or more moves neither from a constant.
* `BandAlwaysHolds`, `OutliersHeightIsIgnored`: a spread is not negative, and what
  is cut off does not enter the level, the trend or the spread.
* `ForecastIsNoMilder`, `ForecastsReachMonthEnd`: what is forecast is never
  negative; `HorizonFor` covers the days that are left.
* `RisingIsUrgent`: averages, savings and priorities are monotone in the costs.

Assumed (`FiguresAssumption` and the assumptions of the operators' modules): the
days, services and amounts are finite sets, the days of a bill a period that can
be asked for, and the longest horizon reaches from the first day of a month to
its last (30 days, for months of 31). `Root` has an entry for every day of a
horizon.

### Only model-checked

The liveness properties `DisabledAlertFallsSilent`, `DueAlertIsMailed` and
`EveryAnswerConverges`: fairness and `ENABLED` are out of the provers' reach.
`PartsAddUp` compares what three analyses say of a day's cost in two items and in
one, for the amounts of the run. `ChangeIsExplained`, `LargestChangesTold` and
`CostlierStaysRaised` are the newest properties of `figures`; they too are checked
for its amounts and not proved yet. The
three violations are runs, since a counterexample needs no proof.

## 6. Not modelled, and the plan

Every component of the program's own that keeps state is modelled, some of them
in part. What can still be added: theorems that the assumptions of section 5 are
needed (the other way round, with a witness behaviour), proofs of
`ChangeIsExplained` (from the lemmas about sums that `BillsAreAccounted` rests on)
and `LargestChangesTold`, an abstract
specification of the cached readers in the way of `AlertLedger` with the
refinement proved from `FreshInv`, and safety lemmas that the liveness properties
rest on (which step is enabled where a request waits).

Not modelled within the modelled components: creation, deletion and PATCH
validation of budgets (those of alerts with other columns), the lifecycle status
of a recommendation (each request for it fails in the list before it), the
advisor's lookup among the first hundred, `calculate_accuracy` (nothing calls
it), the lists of services by cost of the analytics, accounts and regions as
dimensions, ordering and paging, ties of floats, the words of texts and
questions (the keywords by which the copilot tells an intent), the two legacy cost endpoints.

Left out for good: React components, the SDK calls of the providers, SQLAlchemy
and the migrations, the rate limiter (its state is in a library), logging,
OpenAPI, deployment files.
