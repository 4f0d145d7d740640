-------------------------- MODULE CostReadsProperties --------------------------
(***************************************************************************)
(* What the cached readers of cost records must guarantee.                 *)
(***************************************************************************)
EXTENDS CostReads

Request ==
  [pc : {"idle", "get", "load", "set", "done", "failed"},
   endpoint : Services \cup {None}, at : Services \cup {None}, age : 0..MaxRun,
   budget : Budget \cup {None}, waiting : SUBSET Providers,
   data : Data \cup {None}, held : Answer \cup {None}, answer : Answer \cup {None}]

\* A request that runs is in a service, and one that stores or has answered has
\* an answer; only an evaluation is in another service than its own.
WellFormed(q) ==
  /\ q.pc # "idle" => q.endpoint # None /\ q.at # None
  /\ q.pc = "load" => q.data # None
  /\ q.pc \in {"set", "done"} => q.answer # None
  /\ q.at # q.endpoint =>
       q.endpoint = "budget" /\ q.at = "forecast" /\ q.held # None
  /\ q.endpoint = "budget" => q.budget # None

\* Every variable holds a value of its kind.
TypeOK ==
  /\ connected \in BOOLEAN
  /\ DOMAIN store \subseteq Services \X (Budget \cup {None})
  /\ \A k \in DOMAIN store : store[k] \in [answer : Answer, left : Nat]
  /\ source \in Data
  /\ gone \in [Providers -> [Versions \cup {Failing} -> 0..Horizon]]
  /\ budget \in Budget
  /\ req \in [Requests -> Request]
  /\ \A r \in Requests : WellFormed(req[r])

\* d is what the providers returned, each at some time in the last `ages` units.
Current(d, ages) == d # None => \A p \in Providers : gone[p][d[p]] <= ages

\* How old the costs in an answer of service s may be when it leaves: the
\* lifetime of its entry and the run of the request that stored it ...
CostAge(s) == Ttl[s] + MaxRun
\* ... and those in the forecast of an evaluation, an entry built from an entry.
ForecastAge == CostAge("budget") + CostAge("forecast")

\* No answer shows costs older than the lifetimes of the entries it went
\* through, whatever is cached, fails, is edited or restarts in between. In
\* particular an outage shows no longer than that after it is over.
AnswersFresh ==
  [][\A r \in Requests : req[r].pc # "done" /\ req'[r].pc = "done" =>
       /\ Current(req'[r].answer.data, CostAge(req[r].endpoint))
       /\ Current(req'[r].answer.forecast, ForecastAge)]_vars

\* An evaluation is that of the budget as it is or was while the request ran:
\* an edit never gets the evaluation of an older configuration from the cache.
EvaluationOfBudgetRead ==
  \A r \in Requests :
    req[r].pc = "done" /\ req[r].endpoint = "budget" =>
      /\ req[r].answer.budget = req[r].budget
      /\ ~req[r].budget.enabled => req[r].answer.data = None

\* A total outage is never remembered by the two services that answer it with
\* an explicit status: neither an unavailable evaluation nor an empty forecast
\* is in Redis, so the first request after the outage finds the costs.
OutageNotCached ==
  \A k \in DOMAIN store : k[1] \in {"forecast", "budget"} =>
    store[k].answer.data \notin {None, NoRecords}

\* Once a provider's costs no longer change, nothing that was cached before
\* survives: in the end every answer shows them.
EveryAnswerConverges ==
  \A p \in Providers, v \in Versions \cup {Failing} :
    <>[](source[p] = v) =>
      <>[](\A r \in Requests :
             req[r].pc = "done" =>
               /\ req[r].answer.data # None => req[r].answer.data[p] = v
               /\ req[r].answer.forecast # None => req[r].answer.forecast[p] = v)

\* Optimization requests are answered.
RecommendationsServed ==
  \A r \in Requests : req[r].pc = "failed" => req[r].endpoint # "recommendations"
=============================================================================
