--------------------------- MODULE DashboardProofs ---------------------------
(***************************************************************************)
(* Proofs about the dashboard and the analytics. One invariant says of     *)
(* every entry and of every request what it was computed from and how old  *)
(* it can be at this point; the properties of the answers follow from it.  *)
(***************************************************************************)
EXTENDS DashboardProperties, WellFoundedInduction, TLAPS

USE DashboardAssumption, AnswersAssumption DEF vars

-----------------------------------------------------------------------------
(* The greatest and the least figure                                       *)

\* A set of natural numbers that has an element has a least one.
LEMMA LeastExists ==
  ASSUME NEW S \in SUBSET Nat, S # {} PROVE \E m \in S : \A y \in S : m <= y
<1> DEFINE Lt == {ss \in Nat \X Nat : ss[1] < ss[2]}
<1>1. OpToRel(<, Nat) = Lt
  BY DEF OpToRel
<1>2. IsWellFoundedOn(Lt, Nat)
  BY <1>1, NatLessThanWellFounded
<1>3. \A x, y \in Nat : y < x => <<y, x>> \in Lt
  OBVIOUS
<1> HIDE DEF Lt
<1>4. PICK m \in S : \A y \in S : ~(<<y, m>> \in Lt)
  BY <1>2, WFMin
<1>5. ASSUME NEW y \in S PROVE m <= y
  <2>1. ~(y < m)
    BY <1>3, <1>4
  <2>2. QED
    BY <2>1
<1>6. QED
  BY <1>5

LEMMA MinIsLeast ==
  ASSUME NEW S \in SUBSET Nat, S # {} PROVE Min(S) \in S /\ \A x \in S : Min(S) <= x
BY LeastExists DEF Min

LEMMA MaxIsGreatest ==
  ASSUME NEW bound \in Nat, NEW S \in SUBSET (0..bound), S # {}
  PROVE  Max(S) \in S /\ \A x \in S : x <= Max(S)
<1> DEFINE D == {bound - x : x \in S}
<1>1. D \in SUBSET Nat
  OBVIOUS
<1>2. D # {}
  OBVIOUS
<1>3. PICK m \in D : \A y \in D : m <= y
  BY <1>1, <1>2, LeastExists
<1>4. PICK x \in S : m = bound - x
  BY <1>3
<1>5. \A y \in S : y <= x
  BY <1>3, <1>4
<1>6. QED
  BY <1>5 DEF Max

-----------------------------------------------------------------------------
(* The invariant                                                           *)

Keys ==
  {<<"costs", when, p>> : when \in {"current", "previous"}, p \in Providers}
    \cup {<<"summary">>, <<"insights">>}

Steps == {"idle", "insights", "dashboard", "gather", "summary_set", "insights_set",
          "done", "failed"}

Shaped(q) ==
  /\ q \in [pc : Steps, service : Services \cup {None}, age : 0..MaxRun, loads : {q.loads},
           summary : Answers \cup {None}, insights : Answers \cup {None}]
  /\ DOMAIN q.loads \subseteq Parts \X Providers
  /\ \A l \in DOMAIN q.loads : q.loads[l] \in LoadStates

\* The figures of an answer are at most this far apart.
Window(answer) == answer.oldest <= answer.newest + Lived + 2 * MaxRun

\* An entry is as old as what it was set to, and loses its time as it ages.
EntryGood(k) ==
  /\ k \in Keys
  /\ store[k].left \in 1..Ttl
  /\ k[1] = "costs" =>
       store[k].value \in Nat /\ store[k].value + store[k].left <= MaxRun + Ttl
  /\ k[1] # "costs" => store[k].value \in Answers /\ store[k].value.of = Loads("dashboard")
  /\ k[1] = "summary" =>
       /\ Window(store[k].value)
       /\ store[k].value.oldest + store[k].left <= Lived + 2 * MaxRun + Ttl
  /\ k[1] = "insights" =>
       store[k].value.oldest + store[k].left <= 2 * Lived + 3 * MaxRun + Ttl

\* A load has a figure of this request, or of an entry it has hit since.
LoadGood(load, age) ==
  /\ load.pc = "set" => load.figure <= age
  /\ load.pc = "done" => load.figure <= Lived + MaxRun + age

OfDashboard(service) == service \in {"dashboard", "insights"}

\* What a request has at each step.
RequestGood(q) ==
  /\ Shaped(q)
  /\ q.pc # "idle" => q.service \in Endpoints
  /\ q.pc = "idle" => DOMAIN q.loads = {}
  /\ \A l \in DOMAIN q.loads : LoadGood(q.loads[l], q.age)
  /\ q.pc = "gather" => DOMAIN q.loads = Loads(q.service)
  /\ q.pc \in {"dashboard", "summary_set"} => OfDashboard(q.service)
  /\ q.pc \in {"insights", "insights_set"} => q.service = "insights"
  /\ q.pc = "insights_set" => q.insights = q.summary
  /\ q.pc = "done" /\ q.service = "insights" => q.insights # None
  /\ q.insights # None =>
       /\ q.insights.of = Loads("dashboard")
       /\ q.insights.oldest <= 3 * Lived + 3 * MaxRun + q.age
  /\ q.pc \in {"summary_set", "insights_set", "done"} =>
       /\ q.summary \in Answers /\ q.summary.of = Loads(q.service) /\ Window(q.summary)
       /\ q.summary.oldest <=
            IF q.pc = "summary_set" \/ ~OfDashboard(q.service)
            THEN Lived + MaxRun + q.age ELSE 2 * Lived + 2 * MaxRun + q.age

DashboardInv ==
  /\ \A k \in DOMAIN store : EntryGood(k)
  /\ req = [r \in Requests |-> req[r]]
  /\ \A r \in Requests : RequestGood(req[r])

\* The bounds are natural numbers; the dashboard and the insights await all parts.
LEMMA Bounds ==
  /\ Ttl \in Nat /\ Ttl >= 1 /\ MaxRun \in Nat /\ Lived \in Nat /\ Ttl = Lived + 1
  /\ \A service \in Services : /\ Loads(service) \subseteq Parts \X Providers
                               /\ OfDashboard(service) => Loads(service) = Loads("dashboard")
  /\ \A service \in Services \ {"analytics", "drivers"} : OfDashboard(service)
BY DEF Lived, Loads, Services, OfDashboard

LEMMA IdleGood == RequestGood(Idle) /\ Idle.pc = "idle"
<1>1. DOMAIN Idle.loads = {}
  BY DEF Idle
<1>2. Shaped(Idle)
  BY <1>1, Bounds DEF Shaped, Idle, Steps
<1>3. QED
  BY <1>1, <1>2 DEF RequestGood, Idle

LEMMA DashboardInit == Init => DashboardInv
<1> SUFFICES ASSUME Init PROVE DashboardInv
  OBVIOUS
<1>1. DOMAIN store = {}
  BY DEF Init
<1>2. req = [r \in Requests |-> req[r]] /\ \A r \in Requests : req[r] = Idle
  BY DEF Init
<1>3. QED
  BY <1>1, <1>2, IdleGood DEF DashboardInv

-----------------------------------------------------------------------------
(* Steps                                                                   *)

\* A step of one request.
LEMMA OneRequest ==
  ASSUME DashboardInv, NEW r \in Requests, NEW q, RequestGood(q),
         req' = [req EXCEPT ![r] = q], \A k \in DOMAIN store' : EntryGood(k)'
  PROVE  DashboardInv'
<1>1. req' = [s \in Requests |-> req'[s]]
  BY DEF DashboardInv
<1>2. \A s \in Requests : req'[s] = IF s = r THEN q ELSE req[s]
  BY DEF DashboardInv
<1>3. \A s \in Requests : RequestGood(req'[s])
  BY <1>2 DEF DashboardInv
<1>4. QED
  BY <1>1, <1>3 DEF DashboardInv

LEMMA StoreKept == ASSUME DashboardInv, store' = store
                   PROVE  \A k \in DOMAIN store' : EntryGood(k)'
BY DEF DashboardInv, EntryGood

\* An entry that is set starts a lifetime.
LEMMA StoreSet ==
  ASSUME DashboardInv, NEW key, NEW value, SetJson(key, value), key \in Keys,
         key[1] = "costs" => value \in Nat /\ value <= MaxRun,
         key[1] # "costs" => value \in Answers /\ value.of = Loads("dashboard"),
         key[1] = "summary" => Window(value) /\ value.oldest <= Lived + 2 * MaxRun,
         key[1] = "insights" => value.oldest <= 2 * Lived + 3 * MaxRun
  PROVE  \A k \in DOMAIN store' : EntryGood(k)'
<1>1. CASE store' = store
  BY <1>1, StoreKept
<1>2. CASE store' = [k \in DOMAIN store \cup {key} |->
                       IF k = key THEN [value |-> value, left |-> Ttl] ELSE store[k]]
  <2> SUFFICES ASSUME NEW k \in DOMAIN store' PROVE EntryGood(k)'
    OBVIOUS
  <2>1. CASE k # key
    <3>1. k \in DOMAIN store /\ store'[k] = store[k]
      BY <1>2, <2>1
    <3>2. QED
      BY <3>1 DEF DashboardInv, EntryGood
  <2>2. CASE k = key
    <3>1. store'[k].value = value /\ store'[k].left = Ttl
      BY <1>2, <2>2
    <3>2. value \in Answers => value.oldest \in Nat
      BY DEF Answers
    <3>3. key[1] \in {"costs", "summary", "insights"}
      BY DEF Keys
    <3>4. QED
      BY <2>2, <3>1, <3>2, <3>3, Bounds DEF EntryGood, Lived
  <2>3. QED
    BY <2>1, <2>2
<1>3. QED
  BY <1>1, <1>2 DEF SetJson

\* What GetJson may return.
LEMMA Hits ==
  ASSUME DashboardInv
  PROVE  /\ \A l \in Parts \X Providers : \A figure \in GetJson(CostsKey(l)) :
              figure # None => figure \in Nat /\ figure <= Lived + MaxRun
         /\ \A summary \in GetJson(<<"summary">>) : summary # None =>
              /\ summary \in Answers /\ summary.of = Loads("dashboard") /\ Window(summary)
              /\ summary.oldest <= 2 * Lived + 2 * MaxRun
         /\ \A insights \in GetJson(<<"insights">>) : insights # None =>
              /\ insights \in Answers /\ insights.of = Loads("dashboard")
              /\ insights.oldest <= 3 * Lived + 3 * MaxRun
<1>1. \A l \in Parts \X Providers : CostsKey(l)[1] = "costs"
  BY DEF CostsKey
<1>2. \A k \in DOMAIN store : EntryGood(k)
  BY DEF DashboardInv
<1>3. \A a \in Answers : a.oldest \in Nat
  BY DEF Answers
<1>4. ASSUME NEW l \in Parts \X Providers, NEW figure \in GetJson(CostsKey(l)), figure # None
      PROVE  figure \in Nat /\ figure <= Lived + MaxRun
  <2>1. CostsKey(l) \in DOMAIN store /\ figure = store[CostsKey(l)].value
    BY <1>4 DEF GetJson
  <2>2. QED
    BY <1>1, <1>2, <2>1, Bounds DEF EntryGood
<1>5. ASSUME NEW summary \in GetJson(<<"summary">>), summary # None
      PROVE  /\ summary \in Answers /\ summary.of = Loads("dashboard") /\ Window(summary)
             /\ summary.oldest <= 2 * Lived + 2 * MaxRun
  <2>1. <<"summary">> \in DOMAIN store /\ summary = store[<<"summary">>].value
    BY <1>5 DEF GetJson
  <2>2. QED
    BY <1>2, <1>3, <2>1, Bounds DEF EntryGood
<1>6. ASSUME NEW insights \in GetJson(<<"insights">>), insights # None
      PROVE  /\ insights \in Answers /\ insights.of = Loads("dashboard")
             /\ insights.oldest <= 3 * Lived + 3 * MaxRun
  <2>1. <<"insights">> \in DOMAIN store /\ insights = store[<<"insights">>].value
    BY <1>6 DEF GetJson
  <2>2. QED
    BY <1>2, <1>3, <2>1, Bounds DEF EntryGood
<1>7. QED
  BY <1>4, <1>5, <1>6

-----------------------------------------------------------------------------
(* Loads                                                                   *)

\* A request whose loads change, or go, stays good; what it gathers must stay.
LEMMA LoadsChange ==
  ASSUME NEW q, RequestGood(q), NEW loads,
         DOMAIN loads \subseteq DOMAIN q.loads,
         q.pc = "gather" => DOMAIN loads = DOMAIN q.loads,
         \A l \in DOMAIN loads : loads[l] \in LoadStates /\ LoadGood(loads[l], q.age)
  PROVE  RequestGood([q EXCEPT !.loads = loads])
<1> DEFINE p == [q EXCEPT !.loads = loads]
<1>1. /\ p.pc = q.pc /\ p.service = q.service /\ p.age = q.age /\ p.loads = loads
      /\ p.summary = q.summary /\ p.insights = q.insights
  BY DEF RequestGood, Shaped
<1>2. Shaped(p)
  <2>1. p \in [pc : Steps, service : Services \cup {None}, age : 0..MaxRun, loads : {loads},
               summary : Answers \cup {None}, insights : Answers \cup {None}]
    BY DEF RequestGood, Shaped
  <2>2. QED
    BY <1>1, <2>1 DEF RequestGood, Shaped
<1> HIDE DEF p
<1>3. RequestGood(p)
  BY <1>1, <1>2 DEF RequestGood
<1>4. QED
  BY <1>3 DEF p

\* A load goes on, and so does its request.
LEMMA LoadGoesOn ==
  ASSUME DashboardInv, NEW r \in Requests, NEW l, l \in DOMAIN req[r].loads,
         NEW pc, NEW figure, LoadGoes(r, l, pc, figure),
         [pc |-> pc, figure |-> figure] \in LoadStates,
         LoadGood([pc |-> pc, figure |-> figure], req[r].age),
         \A k \in DOMAIN store' : EntryGood(k)'
  PROVE  DashboardInv'
<1> DEFINE old == req[r].loads
           loads == IF pc = "done" /\ At(r, "failed")
                    THEN [m \in DOMAIN old \ {l} |-> old[m]]
                    ELSE [old EXCEPT ![l] = [pc |-> pc, figure |-> figure]]
<1>0. RequestGood(req[r]) /\ r \in DOMAIN req
  BY DEF DashboardInv
<1>1. /\ DOMAIN loads \subseteq DOMAIN old
      /\ req[r].pc = "gather" => DOMAIN loads = DOMAIN old
  BY DEF At
<1>2. \A m \in DOMAIN loads : loads[m] \in LoadStates /\ LoadGood(loads[m], req[r].age)
  <2>1. \A m \in DOMAIN old : old[m] \in LoadStates /\ LoadGood(old[m], req[r].age)
    BY <1>0 DEF RequestGood, Shaped
  <2>2. \A m \in DOMAIN loads : loads[m] = old[m] \/ loads[m] = [pc |-> pc, figure |-> figure]
    OBVIOUS
  <2>3. QED
    BY <1>1, <2>1, <2>2
<1>3. req' = [req EXCEPT ![r] = [req[r] EXCEPT !.loads = loads]]
  BY <1>0 DEF LoadGoes
<1> HIDE DEF loads
<1>4. RequestGood([req[r] EXCEPT !.loads = loads])
  BY <1>0, <1>1, <1>2, LoadsChange
<1>5. QED
  BY <1>3, <1>4, OneRequest

\* A request that fails keeps some of its loads.
LEMMA FailGood ==
  ASSUME DashboardInv, NEW r \in Requests, NEW running \in SUBSET DOMAIN req[r].loads,
         req[r].pc # "idle", Fail(r, running), UNCHANGED store
  PROVE  DashboardInv'
<1> DEFINE q == req[r]
           loads == [l \in running |-> q.loads[l]]
           p == [q EXCEPT !.pc = "failed", !.insights = None, !.loads = loads]
<1>0. RequestGood(q) /\ r \in DOMAIN req
  BY DEF DashboardInv
<1>1. req' = [req EXCEPT ![r] = p]
  BY <1>0 DEF Fail
<1>2. \A l \in DOMAIN loads : loads[l] \in LoadStates /\ LoadGood(loads[l], q.age)
  BY <1>0 DEF RequestGood, Shaped
<1>3. DOMAIN loads \subseteq Parts \X Providers
  BY <1>0 DEF RequestGood, Shaped
<1> HIDE DEF loads
<1>4. /\ p.pc = "failed" /\ p.service = q.service /\ p.age = q.age /\ p.loads = loads
      /\ p.insights = None
  BY <1>0 DEF RequestGood, Shaped
<1>5. p \in [pc : Steps, service : Services \cup {None}, age : 0..MaxRun, loads : {loads},
             summary : Answers \cup {None}, insights : Answers \cup {None}]
  BY <1>0 DEF RequestGood, Shaped, Steps
<1> HIDE DEF p
<1>6. Shaped(p)
  BY <1>2, <1>3, <1>4, <1>5 DEF Shaped
<1>7. RequestGood(p)
  BY <1>0, <1>2, <1>4, <1>6 DEF RequestGood
<1>8. QED
  BY <1>1, <1>7, OneRequest, StoreKept

\* A load hits its entry or fetches, and stores what it fetched.
LEMMA LoadSteps ==
  ASSUME DashboardInv, NEW r \in Requests, NEW l \in Parts \X Providers,
         LoadGet(r, l) \/ LoadFetch(r, l) \/ LoadFails(r, l) \/ LoadSet(r, l)
  PROVE  DashboardInv'
<1>0. RequestGood(req[r]) /\ req[r].age \in 0..MaxRun
  BY DEF DashboardInv, RequestGood, Shaped
<1>1. CASE LoadGet(r, l)
  <2>1. l \in DOMAIN req[r].loads /\ UNCHANGED store
    BY <1>1 DEF LoadGet, LoadAt
  <2>2. PICK figure \in GetJson(CostsKey(l)) :
          LoadGoes(r, l, IF figure = None THEN "fetch" ELSE "done", figure)
    BY <1>1 DEF LoadGet
  <2>3. CASE figure = None
    <3>1. [pc |-> "fetch", figure |-> figure] \in LoadStates
      BY <2>3 DEF LoadStates
    <3>2. LoadGood([pc |-> "fetch", figure |-> figure], req[r].age)
      BY DEF LoadGood
    <3>3. LoadGoes(r, l, "fetch", figure)
      BY <2>2, <2>3
    <3>4. QED
      BY <2>1, <3>1, <3>2, <3>3, LoadGoesOn, StoreKept
  <2>4. CASE figure # None
    <3>0. figure \in Nat /\ figure <= Lived + MaxRun
      BY <2>4, Hits
    <3>1. [pc |-> "done", figure |-> figure] \in LoadStates
      BY <3>0 DEF LoadStates
    <3>2. LoadGood([pc |-> "done", figure |-> figure], req[r].age)
      BY <1>0, <3>0, Bounds DEF LoadGood
    <3>3. LoadGoes(r, l, "done", figure)
      BY <2>2, <2>4
    <3>4. QED
      BY <2>1, <3>1, <3>2, <3>3, LoadGoesOn, StoreKept
  <2>5. QED
    BY <2>3, <2>4
<1>2. CASE LoadFetch(r, l)
  <2>1. l \in DOMAIN req[r].loads /\ UNCHANGED store /\ LoadGoes(r, l, "set", 0)
    BY <1>2 DEF LoadFetch, LoadAt
  <2>2. [pc |-> "set", figure |-> 0] \in LoadStates
    BY DEF LoadStates
  <2>3. LoadGood([pc |-> "set", figure |-> 0], req[r].age)
    BY <1>0 DEF LoadGood
  <2>4. QED
    BY <2>1, <2>2, <2>3, LoadGoesOn, StoreKept
<1>3. CASE LoadFails(r, l)
  <2>1. Running(r) \ {l} \in SUBSET DOMAIN req[r].loads
    BY DEF Running
  <2>2. req[r].pc # "idle"
    BY <1>0, <1>3 DEF LoadFails, LoadAt, RequestGood
  <2>3. QED
    BY <1>3, <2>1, <2>2, FailGood DEF LoadFails
<1>4. CASE LoadSet(r, l)
  <2> DEFINE figure == req[r].loads[l].figure
  <2>1. /\ l \in DOMAIN req[r].loads /\ req[r].loads[l].pc = "set"
        /\ SetJson(CostsKey(l), figure) /\ LoadGoes(r, l, "done", figure)
    BY <1>4 DEF LoadSet, LoadAt
  <2>2. figure \in Nat /\ figure <= req[r].age
    BY <1>0, <2>1 DEF RequestGood, Shaped, LoadStates, LoadGood
  <2> HIDE DEF figure
  <2>3. CostsKey(l) \in Keys /\ CostsKey(l)[1] = "costs"
    BY DEF CostsKey, Keys
  <2>4. \A k \in DOMAIN store' : EntryGood(k)'
    BY <1>0, <2>1, <2>2, <2>3, StoreSet
  <2>5. [pc |-> "done", figure |-> figure] \in LoadStates
    BY <2>2 DEF LoadStates
  <2>6. LoadGood([pc |-> "done", figure |-> figure], req[r].age)
    BY <1>0, <2>2, Bounds DEF LoadGood
  <2>7. QED
    BY <2>1, <2>4, <2>5, <2>6, LoadGoesOn
<1>5. QED
  BY <1>1, <1>2, <1>3, <1>4

-----------------------------------------------------------------------------
(* Requests                                                                *)

\* A handler starts.
LEMMA BeginGood ==
  ASSUME DashboardInv, NEW r \in Requests, NEW service \in Endpoints, Begin(r, service)
  PROVE  DashboardInv'
<1> DEFINE p == CASE service \in {"analytics", "drivers"} ->
                     [Idle EXCEPT !.pc = "gather", !.service = service,
                                  !.loads = Gathered(service)]
                [] OTHER -> [Idle EXCEPT !.pc = service, !.service = service]
<1>1. req' = [req EXCEPT ![r] = p] /\ UNCHANGED store
  BY DEF Begin
<1>2. service \in Services
  OBVIOUS
<1>3. /\ DOMAIN Gathered(service) = Loads(service)
      /\ Loads(service) \subseteq Parts \X Providers
      /\ \A l \in Loads(service) : /\ Gathered(service)[l] \in LoadStates
                                   /\ LoadGood(Gathered(service)[l], 0)
  BY <1>2, Bounds DEF Gathered, LoadStates, LoadGood
<1>4. CASE service \in {"analytics", "drivers"}
  <2>1. p = [pc |-> "gather", service |-> service, age |-> 0, loads |-> Gathered(service),
             summary |-> None, insights |-> None]
    BY <1>4 DEF Idle
  <2> HIDE DEF p
  <2>2. Shaped(p)
    BY <1>2, <1>3, <2>1, Bounds DEF Shaped, Steps
  <2>3. RequestGood(p)
    BY <1>3, <2>1, <2>2 DEF RequestGood
  <2>4. QED
    BY <1>1, <2>3, OneRequest, StoreKept
<1>5. CASE service \notin {"analytics", "drivers"}
  <2>1. p = [pc |-> service, service |-> service, age |-> 0, loads |-> <<>>,
             summary |-> None, insights |-> None]
    BY <1>5 DEF Idle
  <2> HIDE DEF p
  <2>2. service \in {"dashboard", "insights"} /\ DOMAIN p.loads = {}
    BY <1>2, <1>5, <2>1 DEF Services
  <2>3. Shaped(p)
    BY <1>2, <2>1, <2>2, Bounds DEF Shaped, Steps
  <2>4. RequestGood(p)
    BY <2>1, <2>2, <2>3 DEF RequestGood, OfDashboard
  <2>5. QED
    BY <1>1, <2>4, OneRequest, StoreKept
<1>6. QED
  BY <1>4, <1>5

\* The insights may be there already.
LEMMA InsightsGetGood ==
  ASSUME DashboardInv, NEW r \in Requests, InsightsGet(r) PROVE DashboardInv'
<1> DEFINE q == req[r]
<1>0. RequestGood(q) /\ Shaped(q) /\ r \in DOMAIN req /\ q.pc = "insights"
  BY DEF DashboardInv, RequestGood, InsightsGet, At
<1>1. PICK insights \in GetJson(<<"insights">>) :
        req' = [req EXCEPT ![r].insights = insights, ![r].pc = "dashboard"]
  BY DEF InsightsGet
<1> DEFINE p == [q EXCEPT !.insights = insights, !.pc = "dashboard"]
<1>2. req' = [req EXCEPT ![r] = p] /\ UNCHANGED store
  BY <1>0, <1>1 DEF InsightsGet
<1>3. insights # None => /\ insights \in Answers /\ insights.of = Loads("dashboard")
                         /\ insights.oldest <= 3 * Lived + 3 * MaxRun
  BY Hits
<1>4. p \in [pc : Steps, service : Services \cup {None}, age : 0..MaxRun, loads : {q.loads},
             summary : Answers \cup {None}, insights : Answers \cup {None}]
  BY <1>0, <1>3 DEF Shaped, Steps
<1>5. /\ p.pc = "dashboard" /\ p.service = q.service /\ p.age = q.age
      /\ p.loads = q.loads /\ p.summary = q.summary /\ p.insights = insights
  BY <1>0 DEF Shaped
<1>6. q.age \in 0..MaxRun
  BY <1>0 DEF Shaped
<1> HIDE DEF p
<1>7. Shaped(p)
  BY <1>0, <1>4, <1>5 DEF Shaped
<1>8. insights # None => insights.oldest <= 3 * Lived + 3 * MaxRun + q.age
  <2>1. insights # None => insights.oldest \in Nat
    BY <1>3 DEF Answers
  <2>2. QED
    BY <1>3, <1>6, <2>1, Bounds
<1>9. RequestGood(p)
  BY <1>0, <1>3, <1>5, <1>7, <1>8 DEF RequestGood, OfDashboard
<1>10. QED
  BY <1>2, <1>9, OneRequest, StoreKept

\* A request that has a summary as good as any answers, or derives its insights.
LEMMA SummarisedGood ==
  ASSUME DashboardInv, NEW r \in Requests, NEW summary \in Answers, Summarised(r, summary),
         OfDashboard(req[r].service), req[r].pc # "idle",
         summary.of = Loads("dashboard"), Window(summary),
         summary.oldest <= 2 * Lived + 2 * MaxRun + req[r].age,
         \A k \in DOMAIN store' : EntryGood(k)'
  PROVE  DashboardInv'
<1> DEFINE q == req[r]
           derives == q.service = "insights" /\ q.insights = None
           p == [q EXCEPT !.summary = summary,
                          !.insights = IF derives THEN summary ELSE q.insights,
                          !.pc = IF derives THEN "insights_set" ELSE "done"]
<1>0. RequestGood(q) /\ Shaped(q) /\ r \in DOMAIN req /\ q.age \in 0..MaxRun
  BY DEF DashboardInv, RequestGood, Shaped
<1>1. req' = [req EXCEPT ![r] = p]
  BY <1>0 DEF Summarised
<1>2. p \in [pc : Steps, service : Services \cup {None}, age : 0..MaxRun, loads : {q.loads},
             summary : Answers \cup {None}, insights : Answers \cup {None}]
  BY <1>0 DEF Shaped, Steps
<1>3. /\ p.service = q.service /\ p.age = q.age /\ p.loads = q.loads
      /\ p.summary = summary
      /\ p.insights = IF derives THEN summary ELSE q.insights
      /\ p.pc = IF derives THEN "insights_set" ELSE "done"
  BY <1>0 DEF Shaped
<1> HIDE DEF p
<1>4. Shaped(p)
  BY <1>0, <1>2, <1>3 DEF Shaped
<1>5. summary.oldest \in Nat /\ summary.oldest <= 3 * Lived + 3 * MaxRun + q.age
  <2>1. summary.oldest \in Nat
    BY DEF Answers
  <2>2. QED
    BY <1>0, <2>1, Bounds
<1>6. summary.of = Loads(q.service)
  BY Bounds DEF OfDashboard, Services
<1>7. RequestGood(p)
  BY <1>0, <1>3, <1>4, <1>5, <1>6 DEF RequestGood
<1>8. QED
  BY <1>1, <1>7, OneRequest

LEMMA SummaryGetGood ==
  ASSUME DashboardInv, NEW r \in Requests, SummaryGet(r) PROVE DashboardInv'
<1> DEFINE q == req[r]
<1>0. RequestGood(q) /\ Shaped(q) /\ r \in DOMAIN req /\ q.pc = "dashboard"
      /\ OfDashboard(q.service) /\ q.age \in 0..MaxRun /\ UNCHANGED store
  BY DEF DashboardInv, RequestGood, Shaped, SummaryGet, At
<1>1. PICK summary \in GetJson(<<"summary">>) :
        IF summary # None THEN Summarised(r, summary)
        ELSE req' = [req EXCEPT ![r].loads = Gathered("dashboard"), ![r].pc = "gather"]
  BY DEF SummaryGet
<1>2. CASE summary # None
  <2>1. /\ summary \in Answers /\ summary.of = Loads("dashboard") /\ Window(summary)
        /\ summary.oldest <= 2 * Lived + 2 * MaxRun
    BY <1>2, Hits
  <2>2. summary.oldest <= 2 * Lived + 2 * MaxRun + q.age
    <3>1. summary.oldest \in Nat
      BY <2>1 DEF Answers
    <3>2. QED
      BY <1>0, <2>1, <3>1, Bounds
  <2>3. QED
    BY <1>0, <1>1, <1>2, <2>1, <2>2, SummarisedGood, StoreKept
<1>3. CASE summary = None
  <2> DEFINE loads == Gathered("dashboard")
             p == [q EXCEPT !.loads = loads, !.pc = "gather"]
  <2>1. req' = [req EXCEPT ![r] = p]
    BY <1>0, <1>1, <1>3
  <2>2. /\ DOMAIN loads = Loads("dashboard") /\ Loads("dashboard") = Loads(q.service)
        /\ Loads("dashboard") \subseteq Parts \X Providers
        /\ \A l \in DOMAIN loads : loads[l] \in LoadStates /\ LoadGood(loads[l], q.age)
    BY <1>0, Bounds DEF OfDashboard, Services, Gathered, LoadStates, LoadGood
  <2> HIDE DEF loads
  <2>3. p \in [pc : Steps, service : Services \cup {None}, age : 0..MaxRun, loads : {loads},
               summary : Answers \cup {None}, insights : Answers \cup {None}]
    BY <1>0 DEF Shaped, Steps
  <2>4. /\ p.pc = "gather" /\ p.service = q.service /\ p.age = q.age
        /\ p.loads = loads /\ p.summary = q.summary /\ p.insights = q.insights
    BY <1>0 DEF Shaped
  <2> HIDE DEF p
  <2>5. Shaped(p)
    BY <2>2, <2>3, <2>4 DEF Shaped
  <2>6. RequestGood(p)
    BY <1>0, <2>2, <2>4, <2>5 DEF RequestGood
  <2>7. QED
    BY <1>0, <2>1, <2>6, OneRequest, StoreKept
<1>4. QED
  BY <1>2, <1>3

\* Every load has come back: the answer is of all of them, and not older than
\* the oldest of them.
LEMMA AnswerGood ==
  ASSUME DashboardInv, NEW r \in Requests, req[r].pc = "gather", Running(r) = {}
  PROVE  /\ Answer(req[r].loads) \in Answers
         /\ Answer(req[r].loads).of = Loads(req[r].service)
         /\ Window(Answer(req[r].loads))
         /\ Answer(req[r].loads).oldest <= Lived + MaxRun + req[r].age
<1> DEFINE q == req[r]
           figures == {q.loads[l].figure : l \in DOMAIN q.loads}
           bound == Lived + MaxRun + q.age
<1>0. RequestGood(q) /\ Shaped(q) /\ q.age \in 0..MaxRun /\ bound \in Nat
  BY Bounds DEF DashboardInv, RequestGood, Shaped
<1>1. DOMAIN q.loads = Loads(q.service) /\ q.service \in Endpoints
  BY <1>0 DEF RequestGood
<1>2. figures # {}
  <2>1. PICK l \in DOMAIN q.loads : TRUE
    BY <1>1
  <2>2. q.loads[l].figure \in figures
    BY <2>1
  <2>3. QED
    BY <2>2
<1>3. ASSUME NEW l \in DOMAIN q.loads PROVE q.loads[l].figure \in 0..bound
  <2>1. q.loads[l].pc = "done" /\ q.loads[l] \in LoadStates /\ LoadGood(q.loads[l], q.age)
    BY <1>0 DEF Running, Shaped, RequestGood
  <2>2. q.loads[l].figure \in Nat
    BY <2>1 DEF LoadStates
  <2>3. QED
    BY <1>0, <2>1, <2>2 DEF LoadGood
<1>4. figures \in SUBSET (0..bound) /\ figures \in SUBSET Nat
  BY <1>3
<1> HIDE DEF figures, bound
<1>5. Max(figures) \in 0..bound /\ Min(figures) \in Nat
  BY <1>0, <1>2, <1>4, MaxIsGreatest, MinIsLeast
<1>6. Answer(q.loads) = [of |-> DOMAIN q.loads, oldest |-> Max(figures), newest |-> Min(figures)]
  BY DEF Answer, figures
<1>7. DOMAIN q.loads \subseteq Parts \X Providers
  BY <1>0 DEF Shaped
<1>8. Answer(q.loads) \in Answers
  BY <1>0, <1>5, <1>6, <1>7 DEF Answers
<1>9. Max(figures) <= bound /\ Max(figures) <= Min(figures) + Lived + 2 * MaxRun
  BY <1>0, <1>5, Bounds DEF bound
<1>10. QED
  BY <1>1, <1>6, <1>8, <1>9 DEF Window, bound

LEMMA ComposeGood ==
  ASSUME DashboardInv, NEW r \in Requests, Compose(r) PROVE DashboardInv'
<1> DEFINE q == req[r]
           answer == Answer(q.loads)
           p == [q EXCEPT !.summary = answer, !.loads = <<>>,
                          !.pc = IF q.service \in {"analytics", "drivers"} THEN "done"
                                 ELSE "summary_set"]
<1>0. RequestGood(q) /\ Shaped(q) /\ r \in DOMAIN req /\ q.pc = "gather"
      /\ UNCHANGED store /\ Running(r) = {} /\ q.age \in 0..MaxRun
  BY DEF DashboardInv, RequestGood, Shaped, Compose, At
<1>1. req' = [req EXCEPT ![r] = p]
  BY <1>0 DEF Compose
<1>2. /\ answer \in Answers /\ answer.of = Loads(q.service) /\ Window(answer)
      /\ answer.oldest <= Lived + MaxRun + q.age
  BY <1>0, AnswerGood
<1> HIDE DEF answer
<1>3. p \in [pc : Steps, service : Services \cup {None}, age : 0..MaxRun, loads : {<<>>},
             summary : Answers \cup {None}, insights : Answers \cup {None}]
  BY <1>0, <1>2 DEF Shaped, Steps
<1>4. /\ p.service = q.service /\ p.age = q.age /\ p.loads = <<>>
      /\ p.summary = answer /\ p.insights = q.insights
      /\ p.pc = IF q.service \in {"analytics", "drivers"} THEN "done" ELSE "summary_set"
  BY <1>0 DEF Shaped
<1>5. DOMAIN p.loads = {}
  BY <1>4
<1> HIDE DEF p
<1>6. Shaped(p)
  BY <1>3, <1>4, <1>5 DEF Shaped
<1>7. /\ q.service \in Services
      /\ OfDashboard(q.service) <=> q.service \notin {"analytics", "drivers"}
  BY <1>0 DEF RequestGood, OfDashboard, Services
<1>8. RequestGood(p)
  BY <1>0, <1>2, <1>4, <1>5, <1>6, <1>7 DEF RequestGood, OfDashboard
<1>9. QED
  BY <1>0, <1>1, <1>8, OneRequest, StoreKept

\* The loads of a call do not fit together.
LEMMA RefuseGood == ASSUME DashboardInv, NEW r \in Requests, Refuse(r) PROVE DashboardInv'
<1>1. Running(r) \in SUBSET DOMAIN req[r].loads
  BY DEF Running
<1>2. QED
  BY <1>1, FailGood DEF Refuse, At

\* The summary and the insights are stored.
LEMMA SetsGood ==
  ASSUME DashboardInv, NEW r \in Requests, SummarySet(r) \/ InsightsSet(r) PROVE DashboardInv'
<1> DEFINE q == req[r]
<1>0. RequestGood(q) /\ Shaped(q) /\ r \in DOMAIN req /\ q.age \in 0..MaxRun
  BY DEF DashboardInv, RequestGood, Shaped
<1>1. CASE SummarySet(r)
  <2>1. /\ q.pc = "summary_set" /\ SetJson(<<"summary">>, q.summary)
        /\ Summarised(r, q.summary)
    BY <1>1 DEF SummarySet, At
  <2>2. /\ OfDashboard(q.service) /\ q.service \in Services
        /\ q.summary \in Answers /\ q.summary.of = Loads(q.service) /\ Window(q.summary)
        /\ q.summary.oldest <= Lived + MaxRun + q.age /\ q.summary.oldest \in Nat
    BY <1>0, <2>1 DEF RequestGood, Answers
  <2>3. /\ q.summary.of = Loads("dashboard")
        /\ q.summary.oldest <= Lived + 2 * MaxRun
        /\ q.summary.oldest <= 2 * Lived + 2 * MaxRun + q.age
    BY <1>0, <2>2, Bounds
  <2>4. <<"summary">> \in Keys /\ <<"summary">>[1] = "summary"
    BY DEF Keys
  <2>5. \A k \in DOMAIN store' : EntryGood(k)'
    BY <2>1, <2>2, <2>3, <2>4, StoreSet
  <2>6. QED
    BY <2>1, <2>2, <2>3, <2>5, SummarisedGood
<1>2. CASE InsightsSet(r)
  <2> DEFINE p == [q EXCEPT !.pc = "done"]
  <2>1. /\ q.pc = "insights_set" /\ SetJson(<<"insights">>, q.insights)
        /\ req' = [req EXCEPT ![r] = p]
    BY <1>0, <1>2 DEF InsightsSet, At
  <2>2. /\ q.service = "insights" /\ q.insights = q.summary /\ OfDashboard(q.service)
        /\ q.summary \in Answers /\ q.summary.of = Loads(q.service)
        /\ q.summary.oldest <= 2 * Lived + 2 * MaxRun + q.age /\ q.summary.oldest \in Nat
    BY <1>0, <2>1 DEF RequestGood, Answers, OfDashboard
  <2>3. /\ q.insights.of = Loads("dashboard")
        /\ q.insights.oldest <= 2 * Lived + 3 * MaxRun
    BY <1>0, <2>2, Bounds DEF Services
  <2>4. <<"insights">> \in Keys /\ <<"insights">>[1] = "insights"
    BY DEF Keys
  <2>5. \A k \in DOMAIN store' : EntryGood(k)'
    BY <2>1, <2>2, <2>3, <2>4, StoreSet
  <2>6. /\ p.pc = "done" /\ p.service = q.service /\ p.age = q.age
        /\ p.loads = q.loads /\ p.summary = q.summary /\ p.insights = q.insights
    BY <1>0 DEF Shaped
  <2>7. p \in [pc : Steps, service : Services \cup {None}, age : 0..MaxRun, loads : {q.loads},
               summary : Answers \cup {None}, insights : Answers \cup {None}]
    BY <1>0 DEF Shaped, Steps
  <2> HIDE DEF p
  <2>8. Shaped(p)
    BY <1>0, <2>6, <2>7 DEF Shaped
  <2>9. RequestGood(p)
    BY <1>0, <2>1, <2>2, <2>6, <2>8 DEF RequestGood
  <2>10. QED
    BY <2>1, <2>5, <2>9, OneRequest
<1>3. QED
  BY <1>1, <1>2

\* Requests end, and a new process has none.
LEMMA EndsGood ==
  ASSUME DashboardInv, (\E r \in Requests : Finish(r)) \/ Restart PROVE DashboardInv'
<1>1. ASSUME NEW r \in Requests, Finish(r) PROVE DashboardInv'
  BY <1>1, IdleGood, OneRequest, StoreKept DEF Finish
<1>2. CASE Restart
  <2>1. store' = store /\ \A r \in Requests : req'[r] = Idle
    BY <1>2 DEF Restart
  <2>2. req' = [r \in Requests |-> req'[r]]
    BY <1>2 DEF Restart
  <2>3. \A r \in Requests : RequestGood(req'[r])
    BY <2>1, IdleGood
  <2>4. \A k \in DOMAIN store' : EntryGood(k)'
    BY <2>1, StoreKept
  <2>5. QED
    BY <2>2, <2>3, <2>4 DEF DashboardInv
<1>3. QED
  BY <1>1, <1>2

-----------------------------------------------------------------------------
(* Time                                                                    *)

\* An answer a tick later.
LEMMA OlderAnswer ==
  ASSUME NEW answer \in Answers
  PROVE  /\ Older(answer) \in Answers /\ Older(answer).of = answer.of
         /\ Older(answer).oldest = answer.oldest + 1
         /\ Older(answer) # None
         /\ Window(answer) => Window(Older(answer))
<1>1. Older(answer) = [answer EXCEPT !.oldest = @ + 1, !.newest = @ + 1]
  BY DEF Older
<1>a. /\ answer = [of |-> answer.of, oldest |-> answer.oldest, newest |-> answer.newest]
      /\ answer.of \in SUBSET (Parts \X Providers)
      /\ answer.oldest \in Nat /\ answer.newest \in Nat
  BY DEF Answers
<1>b. Older(answer) = [of |-> answer.of, oldest |-> answer.oldest + 1,
                       newest |-> answer.newest + 1]
  BY <1>1, <1>a
<1>2. /\ answer.oldest \in Nat /\ answer.newest \in Nat
      /\ Older(answer) \in Answers /\ Older(answer).of = answer.of
      /\ Older(answer).oldest = answer.oldest + 1
      /\ Older(answer).newest = answer.newest + 1
  BY <1>a, <1>b DEF Answers
<1>3. Window(answer) => Window(Older(answer))
  BY <1>2, Bounds DEF Window
<1>4. QED
  BY <1>2, <1>3

\* The entries a tick later: older, and with less time left.
LEMMA OlderEntries ==
  ASSUME DashboardInv, Tick PROVE \A k \in DOMAIN store' : EntryGood(k)'
<1> SUFFICES ASSUME NEW k \in DOMAIN store' PROVE EntryGood(k)'
  OBVIOUS
<1>1. /\ k \in DOMAIN store /\ store[k].left > 1 /\ EntryGood(k)
      /\ store'[k] = OlderEntry(k)
  BY DEF Tick, DashboardInv
<1>2. /\ store'[k].value = IF k[1] = "costs" THEN store[k].value + 1 ELSE Older(store[k].value)
      /\ store'[k].left = store[k].left - 1
  BY <1>1 DEF OlderEntry
<1>3. CASE k[1] = "costs"
  BY <1>1, <1>2, <1>3, Bounds DEF EntryGood
<1>4. CASE k[1] # "costs"
  <2>1. store[k].value \in Answers /\ store[k].value.oldest \in Nat
    BY <1>1, <1>4 DEF EntryGood, Answers
  <2>2. /\ store'[k].value \in Answers /\ store'[k].value.of = store[k].value.of
        /\ store'[k].value.oldest = store[k].value.oldest + 1
        /\ Window(store[k].value) => Window(store'[k].value)
    BY <1>2, <1>4, <2>1, OlderAnswer
  <2>3. store'[k].left \in 1..Ttl /\ store'[k].left + 1 = store[k].left
    BY <1>1, <1>2, Bounds DEF EntryGood
  <2>4. /\ k[1] = "summary" =>
             store'[k].value.oldest + store'[k].left <= Lived + 2 * MaxRun + Ttl
        /\ k[1] = "insights" =>
             store'[k].value.oldest + store'[k].left <= 2 * Lived + 3 * MaxRun + Ttl
    BY <1>1, <2>1, <2>2, <2>3, Bounds DEF EntryGood
  <2>5. QED
    BY <1>1, <1>4, <2>2, <2>3, <2>4 DEF EntryGood
<1>5. QED
  BY <1>3, <1>4

\* A request that runs, a tick later.
LEMMA OlderGood ==
  ASSUME NEW q, RequestGood(q), q.pc = "idle" \/ (q.pc # "done" /\ q.age < MaxRun)
  PROVE  RequestGood(OlderRequest(q))
<1>1. CASE q.pc = "idle"
  BY <1>1 DEF OlderRequest
<1>2. CASE q.pc # "idle"
  <2> DEFINE p == OlderRequest(q)
             loads == [l \in DOMAIN q.loads |-> OlderLoad(q.loads[l])]
  <2>0. Shaped(q) /\ q.age \in Nat /\ q.age < MaxRun
    BY <1>2 DEF RequestGood, Shaped
  <2>1. p = [q EXCEPT !.age = q.age + 1, !.loads = loads, !.summary = Older(q.summary),
                      !.insights = Older(q.insights)]
    BY <1>2 DEF OlderRequest
  <2>2. ASSUME NEW l \in DOMAIN loads
        PROVE  loads[l] \in LoadStates /\ LoadGood(loads[l], q.age + 1)
    <3>1. q.loads[l] \in LoadStates /\ LoadGood(q.loads[l], q.age)
      BY <2>0 DEF Shaped, RequestGood
    <3>2. loads[l] = OlderLoad(q.loads[l])
      OBVIOUS
    <3>3. CASE q.loads[l].figure = None
      <4>1. loads[l] = q.loads[l]
        BY <3>2, <3>3 DEF OlderLoad
      <4>2. q.loads[l].pc \in {"set", "done"} => q.loads[l].figure \in Nat
        BY <3>1 DEF LoadStates
      <4>3. QED
        BY <2>0, <3>1, <4>1, <4>2, Bounds DEF LoadGood
    <3>4. CASE q.loads[l].figure # None
      <4>1. q.loads[l].pc \in {"set", "done"} /\ q.loads[l].figure \in Nat
        BY <3>1, <3>4 DEF LoadStates
      <4>2. /\ loads[l] \in LoadStates /\ loads[l].pc = q.loads[l].pc
            /\ loads[l].figure = q.loads[l].figure + 1
        BY <3>1, <3>2, <3>4, <4>1 DEF OlderLoad, LoadStates
      <4>3. QED
        BY <2>0, <3>1, <4>1, <4>2, Bounds DEF LoadGood
    <3>5. QED
      BY <3>3, <3>4
  <2>3. DOMAIN loads = DOMAIN q.loads
    OBVIOUS
  <2> HIDE DEF loads
  <2>4. /\ Older(q.summary) \in Answers \cup {None} /\ Older(q.insights) \in Answers \cup {None}
        /\ Older(q.insights) # None => q.insights # None
    BY <2>0, OlderAnswer DEF Shaped, Older
  <2>5. p \in [pc : Steps, service : Services \cup {None}, age : 0..MaxRun, loads : {loads},
               summary : Answers \cup {None}, insights : Answers \cup {None}]
    <3>1. p = [pc |-> q.pc, service |-> q.service, age |-> q.age + 1, loads |-> loads,
               summary |-> Older(q.summary), insights |-> Older(q.insights)]
      BY <2>0, <2>1 DEF Shaped
    <3>2. q.pc \in Steps /\ q.service \in Services \cup {None} /\ q.age + 1 \in 0..MaxRun
      BY <2>0, Bounds DEF Shaped
    <3> HIDE DEF p
    <3>3. QED
      BY <2>4, <3>1, <3>2
  <2>6. /\ p.pc = q.pc /\ p.service = q.service /\ p.age = q.age + 1 /\ p.loads = loads
        /\ p.summary = Older(q.summary) /\ p.insights = Older(q.insights)
    BY <2>0, <2>1 DEF Shaped
  <2> HIDE DEF p
  <2>7. Shaped(p)
    BY <2>0, <2>2, <2>3, <2>5, <2>6 DEF Shaped
  <2>8. p.insights # None => /\ p.insights.of = Loads("dashboard")
                             /\ p.insights.oldest <= 3 * Lived + 3 * MaxRun + p.age
    <3>1. CASE q.insights = None
      BY <2>4, <2>6, <3>1
    <3>2. CASE q.insights # None
      <4>1. q.insights \in Answers /\ q.insights.oldest \in Nat
        BY <2>0, <3>2 DEF Shaped, Answers
      <4>2. QED
        BY <2>0, <2>6, <3>2, <4>1, OlderAnswer, Bounds DEF RequestGood
    <3>3. QED
      BY <3>1, <3>2
  <2>9. q.pc \in {"summary_set", "insights_set"} =>
          /\ p.summary \in Answers /\ p.summary.of = Loads(p.service) /\ Window(p.summary)
          /\ p.summary.oldest <=
               IF p.pc = "summary_set" \/ ~OfDashboard(p.service)
               THEN Lived + MaxRun + p.age ELSE 2 * Lived + 2 * MaxRun + p.age
    <3> SUFFICES ASSUME q.pc \in {"summary_set", "insights_set"}
                 PROVE  /\ p.summary \in Answers /\ p.summary.of = Loads(p.service)
                        /\ Window(p.summary)
                        /\ p.summary.oldest <=
                             IF p.pc = "summary_set" \/ ~OfDashboard(p.service)
                             THEN Lived + MaxRun + p.age
                             ELSE 2 * Lived + 2 * MaxRun + p.age
      OBVIOUS
    <3>1. /\ q.summary \in Answers /\ q.summary.of = Loads(q.service) /\ Window(q.summary)
          /\ q.summary.oldest <=
               IF q.pc = "summary_set" \/ ~OfDashboard(q.service)
               THEN Lived + MaxRun + q.age ELSE 2 * Lived + 2 * MaxRun + q.age
      BY DEF RequestGood
    <3>2. q.summary.oldest \in Nat
      BY <3>1 DEF Answers
    <3>3. /\ p.summary \in Answers /\ p.summary.of = q.summary.of /\ Window(p.summary)
          /\ p.summary.oldest = q.summary.oldest + 1
      BY <2>6, <3>1, OlderAnswer
    <3>4. QED
      BY <2>0, <2>6, <3>1, <3>2, <3>3, Bounds
  <2>10. RequestGood(p)
    BY <1>2, <2>2, <2>3, <2>6, <2>7, <2>8, <2>9 DEF RequestGood
  <2>11. QED
    BY <2>10 DEF p
<1>3. QED
  BY <1>1, <1>2

LEMMA TickGood == ASSUME DashboardInv, Tick PROVE DashboardInv'
<1>1. req' = [r \in Requests |-> req'[r]]
  BY DEF Tick
<1>2. ASSUME NEW r \in Requests PROVE RequestGood(req'[r])
  <2>1. req'[r] = OlderRequest(req[r]) /\ RequestGood(req[r])
    BY DEF Tick, DashboardInv
  <2>2. req[r].pc = "idle" \/ (req[r].pc # "done" /\ req[r].age < MaxRun)
    BY DEF Tick, At
  <2>3. QED
    BY <2>1, <2>2, OlderGood
<1>3. QED
  BY <1>1, <1>2, OlderEntries DEF DashboardInv

-----------------------------------------------------------------------------
(* Theorems                                                                *)

LEMMA DashboardStep == DashboardInv /\ [Next]_vars => DashboardInv'
<1> SUFFICES ASSUME DashboardInv, [Next]_vars PROVE DashboardInv'
  OBVIOUS
<1>1. CASE UNCHANGED vars
  BY <1>1 DEF DashboardInv, EntryGood
<1>2. ASSUME NEW r \in Requests,
             \/ \E service \in Endpoints : Begin(r, service)
             \/ \E l \in Parts \X Providers :
                  LoadGet(r, l) \/ LoadFetch(r, l) \/ LoadFails(r, l) \/ LoadSet(r, l)
             \/ InsightsGet(r) \/ SummaryGet(r) \/ Refuse(r) \/ Compose(r)
             \/ SummarySet(r) \/ InsightsSet(r)
      PROVE  DashboardInv'
  BY <1>2, BeginGood, LoadSteps, InsightsGetGood, SummaryGetGood, RefuseGood,
     ComposeGood, SetsGood
<1>3. CASE (\E r \in Requests : Finish(r)) \/ Restart \/ Tick
  BY <1>3, EndsGood, TickGood
<1>4. QED
  BY <1>1, <1>2, <1>3 DEF Next

LEMMA DashboardAlways == Spec => []DashboardInv
BY DashboardInit, DashboardStep, PTL DEF Spec

\* Every key holds what its readers parse, and every request what its next step
\* needs.
THEOREM DashboardTypeCorrect == Spec => []TypeOK
<1>1. DashboardInv => TypeOK
  <2> SUFFICES ASSUME DashboardInv PROVE TypeOK
    OBVIOUS
  <2>1. \A k \in DOMAIN store :
          /\ store[k].left \in 1..Ttl
          /\ store[k].value \in IF k[1] = "costs" THEN Nat ELSE Answers
    BY DEF DashboardInv, EntryGood
  <2>2. \A r \in Requests :
          /\ req[r].service \in Services \cup {None} /\ req[r].age \in 0..MaxRun
          /\ \A l \in DOMAIN req[r].loads : req[r].loads[l] \in LoadStates
          /\ {req[r].summary, req[r].insights} \subseteq Answers \cup {None}
    BY DEF DashboardInv, RequestGood, Shaped
  <2>3. QED
    BY <2>1, <2>2 DEF TypeOK
<1>2. QED
  BY <1>1, DashboardAlways, PTL

\* No answer and no entry that a later answer may come from is a partial total,
\* whichever providers fail while requests share their entries.
THEOREM AnswersAreWhole == Spec => []AnswersWhole
<1>1. DashboardInv => AnswersWhole
  <2> SUFFICES ASSUME DashboardInv PROVE AnswersWhole
    OBVIOUS
  <2>1. \A k \in DOMAIN store : k[1] # "costs" => store[k].value.of = Loads("dashboard")
    BY DEF DashboardInv, EntryGood
  <2>2. ASSUME NEW r \in Requests, At(r, "done")
        PROVE  /\ req[r].summary.of = Loads(req[r].service)
               /\ req[r].service = "insights" => req[r].insights.of = Loads("insights")
    <3>1. RequestGood(req[r]) /\ req[r].pc = "done"
      BY <2>2 DEF DashboardInv, At
    <3>2. Loads("insights") = Loads("dashboard")
      BY DEF Loads
    <3>3. QED
      BY <3>1, <3>2 DEF RequestGood
  <2>3. QED
    BY <2>1, <2>2 DEF AnswersWhole
<1>2. QED
  BY <1>1, DashboardAlways, PTL

\* The figures of one answer were fetched at most one cache lifetime and two
\* requests apart.
THEOREM AnswersHaveOneWindow == Spec => []OneWindow
<1>1. DashboardInv => OneWindow
  BY DEF DashboardInv, RequestGood, OneWindow, At, Window
<1>2. QED
  BY <1>1, DashboardAlways, PTL

\* The lifetimes of the stacked caches add up, and nothing else does.
THEOREM AnswersAgeByTheStack == Spec => []StackedAge
<1>1. DashboardInv => StackedAge
  <2> SUFFICES ASSUME DashboardInv, NEW r \in Requests, At(r, "done")
               PROVE  /\ req[r].summary.oldest <=
                           IF req[r].service \in {"analytics", "drivers"}
                           THEN Lived + 2 * MaxRun ELSE 2 * Lived + 3 * MaxRun
                      /\ req[r].service = "insights" =>
                           req[r].insights.oldest <= 3 * Lived + 4 * MaxRun
    BY DEF StackedAge
  <2>1. /\ RequestGood(req[r]) /\ req[r].age \in 0..MaxRun /\ req[r].pc = "done"
        /\ req[r].insights \in Answers \cup {None}
    BY DEF DashboardInv, RequestGood, Shaped, At
  <2>2. /\ req[r].summary.oldest \in Nat
        /\ req[r].insights # None => req[r].insights.oldest \in Nat
    BY <2>1 DEF RequestGood, Answers
  <2>3. req[r].service \in {"analytics", "drivers"} => ~OfDashboard(req[r].service)
    BY DEF OfDashboard
  <2>4. QED
    BY <2>1, <2>2, <2>3, Bounds DEF RequestGood
<1>2. QED
  BY <1>1, DashboardAlways, PTL
=============================================================================
