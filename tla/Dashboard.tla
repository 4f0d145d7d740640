------------------------------ MODULE Dashboard ------------------------------
(***************************************************************************)
(* The analytics and the dashboard. Every answer is put together from      *)
(* loads of provider costs, each through its own cache entry and gathered  *)
(* concurrently; the dashboard's summary is cached again, and the insights *)
(* derived from it once more under a key of their own.                     *)
(*                                                                         *)
(* Abstractions: one query of one user; a figure is the time since the     *)
(* provider gave it, and an answer is the loads it was composed from with  *)
(* the oldest and the newest of their figures. The AI explanations added   *)
(* to an insights answer are left out.                                     *)
(***************************************************************************)
EXTENDS Integers, FiniteSetsExt

CONSTANTS
  Providers,
  Parts,      \* the reads of a dashboard
  Requests,   \* concurrent requests
  Endpoints,  \* what they ask for
  Ttl,        \* cache_ttl_seconds, the lifetime of every entry
  MaxRun,     \* bound on the time a request and its loads take
  None

Services == {"analytics", "drivers", "dashboard", "insights"}

\* A load is the read of one provider for one part. A dashboard gathers those
\* of analytics.summary, of trends, and the two of drivers; /analytics/summary,
\* /providers, /services and /trends make one, /compare and /drivers two.
Loads(service) ==
  (CASE service = "analytics" -> Parts \cap {"summary"}
     [] service = "drivers" -> Parts \cap {"current", "previous"}
     [] OTHER -> Parts) \X Providers

\* Every request has something to wait for.
ASSUME DashboardAssumption ==
  /\ Endpoints \subseteq Services
  /\ Parts \subseteq {"summary", "trend", "current", "previous"}
  /\ \A service \in Endpoints : Loads(service) # {}
  /\ Ttl \in Nat \ {0} /\ MaxRun \in Nat

\* CostAggregatorService._cache_key
CostsKey(load) ==
  <<"costs", IF load[1] = "previous" THEN "previous" ELSE "current", load[2]>>

VARIABLES
  store,  \* Redis: [value, left] of the keys that are set, left to live
  req     \* the requests

vars == <<store, req>>

\* A request: the loads it has gathered, the summary it has, and the summary
\* its insights were derived from.
Idle == [pc |-> "idle", service |-> None, age |-> 0, loads |-> <<>>,
         summary |-> None, insights |-> None]

Init ==
  /\ store = <<>>
  /\ req = [r \in Requests |-> Idle]

At(r, pc) == req[r].pc = pc

-----------------------------------------------------------------------------
(* RedisCache: any operation may fail, which is a miss or a no-op.         *)

GetJson(key) ==
  {None} \cup (IF key \in DOMAIN store THEN {store[key].value} ELSE {})

SetJson(key, value) ==
  \/ UNCHANGED store
  \/ store' = [k \in DOMAIN store \cup {key} |->
                 IF k = key THEN [value |-> value, left |-> Ttl] ELSE store[k]]

-----------------------------------------------------------------------------
(* CostAggregatorService.get_costs, in a task of its own. It goes on when  *)
(* the request that gathered it has failed: gather cancels no sibling.     *)

LoadAt(r, l, pc) == l \in DOMAIN req[r].loads /\ req[r].loads[l].pc = pc
LoadGoes(r, l, pc, figure) ==
  req' = [req EXCEPT ![r].loads =
            IF pc = "done" /\ At(r, "failed")
            THEN [m \in DOMAIN @ \ {l} |-> @[m]]   \* nobody awaits it
            ELSE [@ EXCEPT ![l] = [pc |-> pc, figure |-> figure]]]

\* The request answers with an error; the loads that still run go on.
Fail(r, running) ==
  req' = [req EXCEPT ![r].pc = "failed", ![r].insights = None,
                     ![r].loads = [l \in running |-> @[l]]]
Running(r) == {l \in DOMAIN req[r].loads : req[r].loads[l].pc # "done"}

\* Mutant: a hit renews the entry, a sliding expiration.
LoadGetRenews(r, l) ==
  /\ LoadAt(r, l, "get")
  /\ \E figure \in GetJson(CostsKey(l)) :
       /\ LoadGoes(r, l, IF figure = None THEN "fetch" ELSE "done", figure)
       /\ IF figure = None THEN UNCHANGED store
          ELSE store' = [store EXCEPT ![CostsKey(l)].left = Ttl]

\* A hit, or a miss.
LoadGet(r, l) ==
  /\ LoadAt(r, l, "get")
  /\ \E figure \in GetJson(CostsKey(l)) :
       LoadGoes(r, l, IF figure = None THEN "fetch" ELSE "done", figure)
  /\ UNCHANGED store

\* Mutant: an answer without costs is kept like any other.
LoadFetchEmpty(r, l) ==
  /\ LoadAt(r, l, "fetch")
  /\ LoadGoes(r, l, "set", None)
  /\ UNCHANGED store

\* The provider answers, or LoadFails.
LoadFetch(r, l) ==
  /\ LoadAt(r, l, "fetch")
  /\ LoadGoes(r, l, "set", 0)
  /\ UNCHANGED store

\* Mutant: the provider's error leaves its costs out, as in the explorer.
LoadFailsSilently(r, l) ==
  /\ LoadAt(r, l, "fetch")
  /\ DOMAIN req[r].loads # {l}
  /\ req' = [req EXCEPT ![r].loads = [m \in DOMAIN @ \ {l} |-> @[m]]]
  /\ UNCHANGED store

\* The provider raises: so does the gather that awaits this load, and the
\* whole request with it.
LoadFails(r, l) ==
  /\ LoadAt(r, l, "fetch")
  /\ Fail(r, Running(r) \ {l})
  /\ UNCHANGED store

LoadSet(r, l) ==
  /\ LoadAt(r, l, "set")
  /\ SetJson(CostsKey(l), req[r].loads[l].figure)
  /\ LoadGoes(r, l, "done", req[r].loads[l].figure)

-----------------------------------------------------------------------------
(* AnalyticsService and DashboardService                                   *)

\* A handler starts: an analytics endpoint gathers its loads, the dashboard
\* and the insights look for their entries first.
Gathered(service) == [l \in Loads(service) |-> [pc |-> "get", figure |-> None]]

Begin(r, service) ==
  /\ At(r, "idle")
  /\ req' = [req EXCEPT ![r] =
       CASE service \in {"analytics", "drivers"} ->
              [Idle EXCEPT !.pc = "gather", !.service = service,
                           !.loads = Gathered(service)]
         [] OTHER -> [Idle EXCEPT !.pc = service, !.service = service]]
  /\ UNCHANGED store

\* DashboardService.insights looks for its entry, then calls summary, hit or miss.
InsightsGet(r) ==
  /\ At(r, "insights")
  /\ \E insights \in GetJson(<<"insights">>) :
       req' = [req EXCEPT ![r].insights = insights, ![r].pc = "dashboard"]
  /\ UNCHANGED store

\* The request has its summary: an insights request without insights derives
\* them from it and stores them next.
Summarised(r, summary) ==
  LET derives == req[r].service = "insights" /\ req[r].insights = None
  IN  req' = [req EXCEPT ![r].summary = summary,
                         ![r].insights = IF derives THEN summary ELSE @,
                         ![r].pc = IF derives THEN "insights_set" ELSE "done"]

\* DashboardService.summary looks for its entry, or gathers its loads.
SummaryGet(r) ==
  /\ At(r, "dashboard")
  /\ \E summary \in GetJson(<<"summary">>) :
       IF summary # None THEN Summarised(r, summary)
       ELSE req' = [req EXCEPT ![r].loads = Gathered("dashboard"),
                               ![r].pc = "gather"]
  /\ UNCHANGED store

\* What one analytics call awaits: drivers awaits two parts, the others one.
Calls == {{"summary"}, {"trend"}, {"current", "previous"}}

\* The loads of a call have come back with incompatible currencies, or without
\* daily data: the call raises, and the request fails.
Refuse(r) ==
  /\ At(r, "gather")
  /\ \E call \in Calls :
       LET mine == {l \in DOMAIN req[r].loads : l[1] \in call}
       IN  mine # {} /\ mine \cap Running(r) = {}
  /\ Fail(r, Running(r))
  /\ UNCHANGED store

Answer(loads) ==
  LET figures == {loads[l].figure : l \in DOMAIN loads}
  IN  [of |-> DOMAIN loads, oldest |-> Max(figures), newest |-> Min(figures)]

\* Every load has come back: the answer is composed from them. The dashboard
\* stores it, the analytics endpoints answer with it.
Compose(r) ==
  /\ At(r, "gather")
  /\ Running(r) = {}
  /\ req' = [req EXCEPT
       ![r].summary = Answer(req[r].loads),
       ![r].loads = <<>>,
       ![r].pc = IF req[r].service \in {"analytics", "drivers"} THEN "done"
                 ELSE "summary_set"]
  /\ UNCHANGED store

SummarySet(r) ==
  /\ At(r, "summary_set")
  /\ SetJson(<<"summary">>, req[r].summary)
  /\ Summarised(r, req[r].summary)

\* Mutant: the insights are stored again on every request, hit or miss.
Restored(r) ==
  /\ \/ At(r, "insights_set")
     \/ At(r, "done") /\ req[r].service = "insights"
  /\ SetJson(<<"insights">>, req[r].insights)
  /\ req' = [req EXCEPT ![r].pc = "done"]

InsightsSet(r) ==
  /\ At(r, "insights_set")
  /\ SetJson(<<"insights">>, req[r].insights)
  /\ req' = [req EXCEPT ![r].pc = "done"]

\* The answer has been sent and no detached load is left.
Finish(r) ==
  /\ At(r, "done") \/ At(r, "failed")
  /\ Running(r) = {}
  /\ req' = [req EXCEPT ![r] = Idle]
  /\ UNCHANGED store

-----------------------------------------------------------------------------
(* The environment                                                         *)

\* The process is replaced: its requests are lost, Redis keeps its entries.
Restart ==
  /\ req' = [r \in Requests |-> Idle]
  /\ UNCHANGED store

Older(answer) ==
  IF answer = None THEN None
  ELSE [answer EXCEPT !.oldest = @ + 1, !.newest = @ + 1]
OlderLoad(load) ==
  IF load.figure = None THEN load ELSE [load EXCEPT !.figure = @ + 1]

OlderRequest(q) ==
  IF q.pc = "idle" THEN q
  ELSE [q EXCEPT !.age = @ + 1,
                 !.loads = [l \in DOMAIN @ |-> OlderLoad(@[l])],
                 !.summary = Older(@), !.insights = Older(@)]

OlderEntry(key) ==
  [value |-> IF key[1] = "costs" THEN store[key].value + 1
             ELSE Older(store[key].value),
   left |-> store[key].left - 1]

\* Time passes, and the entries whose time is over are gone. An answer that is
\* complete is sent at once.
Tick ==
  /\ \A r \in Requests :
       At(r, "idle") \/ (~At(r, "done") /\ req[r].age < MaxRun)
  /\ store' = [k \in {k \in DOMAIN store : store[k].left > 1} |-> OlderEntry(k)]
  /\ req' = [r \in Requests |-> OlderRequest(req[r])]

-----------------------------------------------------------------------------

Next ==
  \/ \E r \in Requests :
       \/ \E service \in Endpoints : Begin(r, service)
       \/ \E l \in Parts \X Providers :
            \/ LoadGet(r, l) \/ LoadFetch(r, l)
            \/ LoadFails(r, l) \/ LoadSet(r, l)
       \/ InsightsGet(r) \/ SummaryGet(r)
       \/ Refuse(r) \/ Compose(r)
       \/ SummarySet(r) \/ InsightsSet(r)
       \/ Finish(r)
  \/ Restart \/ Tick

Spec == Init /\ [][Next]_vars
=============================================================================
