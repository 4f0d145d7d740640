------------------------------ MODULE CostReads ------------------------------
(***************************************************************************)
(* The cached readers of cost records: Cost Explorer, anomaly detection,   *)
(* forecasting, recommendations and budget evaluation (which calls the     *)
(* forecasting service). Each looks its answer up in Redis, else asks the  *)
(* providers, computes, stores and answers; the requests interleave at     *)
(* every await, while costs change, providers fail, Redis misbehaves, a    *)
(* budget is edited, time passes and the process restarts.                 *)
(*                                                                         *)
(* Abstractions: one query per service, over all of Providers, in one day  *)
(* of one user; a provider's costs are a version, and a provider that      *)
(* fails or has no records is Failing (the readers cannot tell); an answer *)
(* is the versions it was computed from.                                   *)
(***************************************************************************)
EXTENDS Integers, FiniteSets

CONSTANTS
  Providers,
  Versions,    \* what a provider's costs may be
  Failing,
  Requests,    \* concurrent requests
  Endpoints,   \* the services the requests are for
  Ttl,         \* Ttl[s]: lifetime of the answers of service s in Redis
  MaxRun,      \* bound on the time a request takes
  MaxEdits,    \* bound on the edits of the budget
  Horizon,     \* where the ages kept for the properties stop counting
  None

Services == {"explorer", "anomaly", "forecast", "budget", "recommendations"}

\* A row of the budgets table: updated_at, and is it enabled?
Budget == [updated_at : Nat, enabled : BOOLEAN]

\* What each provider answered; None stands for an answer without cost data.
Data == [Providers -> Versions \cup {Failing}]
NoRecords == [p \in Providers |-> Failing]

\* An answer: `found` says that a forecast is READY or that there are
\* recommendations, `budget` and `forecast` are those of an evaluation.
Answer == [data : Data \cup {None}, found : BOOLEAN,
           budget : Budget \cup {None}, forecast : Data \cup {None}]
Plain(data, found) ==
  [data |-> data, found |-> found, budget |-> None, forecast |-> None]

ASSUME CostReadsAssumption ==
  /\ Endpoints \subseteq Services
  /\ Ttl \in [Services -> Nat] /\ MaxRun \in Nat /\ MaxEdits \in Nat
  /\ Horizon \in Nat
  /\ Failing \notin Versions
  /\ None \notin Data /\ None \notin Budget /\ None \notin Answer
  /\ None \notin Services

VARIABLES
  connected,  \* RedisCache._client is not None
  store,      \* Redis: [answer, left] of the keys that are set, left to live
  source,     \* what a call of the provider returns now
  gone,       \* gone[p][v]: how long ago v stopped being what p returns
  budget,     \* the budgets table: one row
  req         \* the requests in progress

vars == <<connected, store, source, gone, budget, req>>

\* A request: the service it is for and the one it is in, the row it read, the
\* providers it waits for and what the others answered, the evaluation it makes
\* while it is in forecast, its answer.
Idle == [pc |-> "idle", endpoint |-> None, at |-> None, age |-> 0,
         budget |-> None, waiting |-> {}, data |-> None, held |-> None,
         answer |-> None]

Init ==
  /\ connected \in BOOLEAN
  /\ store = <<>>
  /\ source \in [Providers -> Versions \cup {Failing}]
  /\ gone = [p \in Providers |-> [v \in Versions \cup {Failing} |->
                                  IF v = source[p] THEN 0 ELSE Horizon]]
  /\ \E enabled \in BOOLEAN : budget = [updated_at |-> 0, enabled |-> enabled]
  /\ req = [r \in Requests |-> Idle]

-----------------------------------------------------------------------------
(* RedisCache                                                              *)

\* Mutant: the key names the row of the budget and not its state.
KeyOfRow(r) == <<req[r].at, None>>

\* The key of the service request r is in.
Key(r) == <<req[r].at, IF req[r].at = "budget" THEN req[r].budget ELSE None>>

\* get_json: without a client, or when Redis fails, it is a miss.
GetJson(key) ==
  IF connected /\ key \in DOMAIN store THEN {None, store[key].answer} ELSE {None}

\* Mutant: `ttl` is ignored for the longest one.
SetJsonLongest(key, answer) ==
  \/ UNCHANGED store
  \/ /\ connected
     /\ LET ttl == CHOOSE t \in {Ttl[s] : s \in Services} :
                     \A s \in Services : Ttl[s] <= t
        IN  store' = [k \in DOMAIN store \cup {key} |->
                        IF k = key THEN [answer |-> answer, left |-> ttl]
                        ELSE store[k]]

\* set_json of a payload that serialises: it is stored, unless there is no
\* client or Redis fails.
SetJson(key, answer) ==
  \/ UNCHANGED store
  \/ /\ connected
     /\ store' = [k \in DOMAIN store \cup {key} |->
                    IF k = key THEN [answer |-> answer, left |-> Ttl[key[1]]]
                    ELSE store[k]]

\* Mutant: the entries are stored without expiry.
AgedNever == store

\* The entries that are left when time passes.
Aged == [k \in {k \in DOMAIN store : store[k].left > 0} |->
           [store[k] EXCEPT !.left = @ - 1]]

-----------------------------------------------------------------------------
(* The services. Env is what a request never changes.                      *)

Env == <<connected, source, gone, budget>>

\* Mutant: evaluate is called without the row.
BeginUnread(r, s) ==
  /\ req[r].pc = "idle"
  /\ req' = [req EXCEPT ![r] = [Idle EXCEPT !.pc = "get", !.endpoint = s, !.at = s]]
  /\ UNCHANGED <<Env, store>>

\* A handler starts; a budget's row is read first.
Begin(r, s) ==
  /\ req[r].pc = "idle"
  /\ req' = [req EXCEPT ![r] = [Idle EXCEPT
                !.pc = "get", !.endpoint = s, !.at = s,
                !.budget = IF s = "budget" THEN budget ELSE None]]
  /\ UNCHANGED <<Env, store>>

\* The service request r is in returns `answer`: to the client, or, when it is
\* the forecast of a budget evaluation, to evaluate, which stores its result.
Returns(r, answer) ==
  IF req[r].at = req[r].endpoint
  THEN req' = [req EXCEPT ![r] = [@ EXCEPT !.pc = "done", !.answer = answer]]
  ELSE req' = [req EXCEPT ![r] = [@ EXCEPT
                 !.pc = "set", !.at = "budget",
                 !.answer = [req[r].held EXCEPT
                               !.forecast = IF answer.found THEN answer.data
                                            ELSE None]]]

\* Cache hit.
Hit(r) ==
  /\ req[r].pc = "get"
  /\ \E answer \in GetJson(Key(r)) \ {None} : Returns(r, answer)
  /\ UNCHANGED <<Env, store>>

Evaluation(r, data) == [Plain(data, FALSE) EXCEPT !.budget = req[r].budget]

\* Cache miss: a disabled budget is answered at once and not cached, any other
\* service asks the providers.
Miss(r) ==
  /\ req[r].pc = "get" /\ None \in GetJson(Key(r))
  /\ IF req[r].at = "budget" /\ ~req[r].budget.enabled
     THEN Returns(r, Evaluation(r, None))
     ELSE req' = [req EXCEPT ![r] = [@ EXCEPT !.pc = "load", !.waiting = Providers,
                                              !.data = NoRecords]]
  /\ UNCHANGED <<Env, store>>

\* _fetch_provider_records: one of the gathered calls returns; an error is
\* logged and gives no records.
Fetch(r, p) ==
  /\ req[r].pc = "load" /\ p \in req[r].waiting
  /\ req' = [req EXCEPT ![r] = [@ EXCEPT
                !.waiting = req[r].waiting \ {p},
                !.data = [req[r].data EXCEPT ![p] = source[p]]]]
  /\ UNCHANGED <<Env, store>>

Loaded(r, services) ==
  req[r].pc = "load" /\ req[r].waiting = {} /\ req[r].at \in services

\* The service has its result and goes on to store it.
ToStore(r, answer) ==
  req' = [req EXCEPT ![r] = [@ EXCEPT !.pc = "set", !.answer = answer]]

\* get_explorer_data and detect: whatever was loaded is the result.
Explored(r) ==
  /\ Loaded(r, {"explorer", "anomaly"})
  /\ ToStore(r, Plain(req[r].data, FALSE))
  /\ UNCHANGED <<Env, store>>

\* list_recommendations: the rules find something or not.
Recommended(r) ==
  /\ Loaded(r, {"recommendations"})
  /\ \E found \in {FALSE, req[r].data # NoRecords} :
       ToStore(r, Plain(req[r].data, found))
  /\ UNCHANGED <<Env, store>>

\* forecast: READY only when there are records, and enough of them.
\* An empty response is returned and not stored.
Forecast(r) ==
  /\ Loaded(r, {"forecast"})
  /\ \/ Returns(r, Plain(None, FALSE))
     \/ req[r].data # NoRecords /\ ToStore(r, Plain(req[r].data, TRUE))
  /\ UNCHANGED <<Env, store>>

\* Mutant: no records are evaluated as no spend.
EvaluateAnyway(r) ==
  /\ Loaded(r, {"budget"})
  /\ req' = [req EXCEPT ![r] = [@ EXCEPT !.pc = "get", !.at = "forecast",
                                 !.held = Evaluation(r, req[r].data)]]
  /\ UNCHANGED <<Env, store>>

\* evaluate: without records it answers "unavailable" and stores nothing;
\* another currency is refused; else the forecast is asked for, unless this is
\* the last day of the period.
Evaluate(r) ==
  /\ Loaded(r, {"budget"})
  /\ IF req[r].data = NoRecords
     THEN Returns(r, Evaluation(r, NoRecords))
     ELSE \/ req' = [req EXCEPT ![r].pc = "failed"]
          \/ ToStore(r, Evaluation(r, req[r].data))
          \/ req' = [req EXCEPT ![r] = [@ EXCEPT
                       !.pc = "get", !.at = "forecast",
                       !.held = Evaluation(r, req[r].data)]]
  /\ UNCHANGED <<Env, store>>

\* The forecast's currency is not the budget's: evaluate raises.
Mismatch(r) ==
  /\ req[r].pc = "set" /\ req[r].at = "budget" /\ req[r].answer.forecast # None
  /\ req' = [req EXCEPT ![r].pc = "failed"]
  /\ UNCHANGED <<Env, store>>

\* _json_payload of a list of models: json.dumps raises TypeError, outside the
\* try of set_json; a missing client or an empty list is noticed before.
Unserialisable(r) ==
  req[r].at = "recommendations" /\ req[r].answer.found /\ connected

Store(r) ==
  /\ req[r].pc = "set"
  /\ IF Unserialisable(r)
     THEN req' = [req EXCEPT ![r].pc = "failed"] /\ UNCHANGED store
     ELSE Returns(r, req[r].answer) /\ SetJson(Key(r), req[r].answer)
  /\ UNCHANGED Env

\* The response, or the error, has been sent.
Finish(r) ==
  /\ req[r].pc \in {"done", "failed"}
  /\ req' = [req EXCEPT ![r] = Idle]
  /\ UNCHANGED <<Env, store>>

-----------------------------------------------------------------------------
(* The environment                                                         *)

\* A provider's costs change, or it fails, or it is back.
Change(p, v) ==
  /\ v # source[p]
  /\ source' = [source EXCEPT ![p] = v]
  /\ gone' = [gone EXCEPT ![p][v] = 0]
  /\ UNCHANGED <<connected, store, budget, req>>

\* PATCH /budgets/{id}: the row changes and updated_at with it.
EditBudget ==
  /\ budget.updated_at < MaxEdits
  /\ \E enabled \in BOOLEAN :
       budget' = [updated_at |-> budget.updated_at + 1, enabled |-> enabled]
  /\ UNCHANGED <<connected, store, source, gone, req>>

\* The process restarts: its requests are gone, Redis keeps its entries, and
\* startup finds Redis or runs without a client.
Restart ==
  /\ connected' \in BOOLEAN
  /\ req' = [r \in Requests |-> Idle]
  /\ UNCHANGED <<store, source, gone, budget>>

Running == {r \in Requests : req[r].pc \in {"get", "load", "set"}}

Tick ==
  /\ \A r \in Running : req[r].age < MaxRun
  /\ store' = Aged
  /\ req' = [r \in Requests |-> IF r \in Running THEN [req[r] EXCEPT !.age = @ + 1]
                                ELSE req[r]]
  /\ gone' = [p \in Providers |-> [v \in Versions \cup {Failing} |->
                IF v = source[p] THEN 0
                ELSE IF gone[p][v] < Horizon THEN gone[p][v] + 1 ELSE Horizon]]
  /\ UNCHANGED <<connected, source, budget>>

Step(r) ==
  \/ Hit(r) \/ Miss(r) \/ \E p \in Providers : Fetch(r, p)
  \/ Explored(r) \/ Recommended(r) \/ Forecast(r) \/ Evaluate(r)
  \/ Mismatch(r) \/ Store(r) \/ Finish(r)

Next ==
  \/ \E r \in Requests : Step(r) \/ \E s \in Endpoints : Begin(r, s)
  \/ \E p \in Providers, v \in Versions \cup {Failing} : Change(p, v)
  \/ EditBudget \/ Restart \/ Tick

Spec == Init /\ [][Next]_vars

\* Awaited calls return, and time passes.
FairSpec == Spec /\ WF_vars(Tick) /\ \A r \in Requests : WF_vars(Step(r))
=============================================================================
