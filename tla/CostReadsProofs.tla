--------------------------- MODULE CostReadsProofs ---------------------------
(***************************************************************************)
(* How old the costs in an answer can be, for any providers, requests,     *)
(* lifetimes, bounds and outages.                                          *)
(***************************************************************************)
EXTENDS CostReadsProperties, TLAPS

\* A stored entry has used up part of its lifetime; its costs are older than
\* the run of the request that stored it by no more than that.
EntryFresh(s, e) ==
  /\ e.left <= Ttl[s]
  /\ Current(e.answer.data, CostAge(s) - e.left)
  /\ Current(e.answer.forecast, ForecastAge - e.left)

\* The costs a running request has fetched are no older than its run; those in
\* its forecast may have come out of an entry.
RequestFresh(q) ==
  /\ q.pc = "load" =>
       \A p \in Providers \ q.waiting : gone[p][q.data[p]] <= q.age
  /\ q.pc = "set" =>
       /\ Current(q.answer.data, q.age)
       /\ Current(q.answer.forecast, CostAge("forecast") + q.age)
       /\ q.at # "budget" => q.answer.forecast = None
  /\ q.at # q.endpoint =>
       /\ q.pc \in {"get", "load", "set"}
       /\ Current(q.held.data, q.age)

FreshInv ==
  /\ TypeOK
  /\ \A p \in Providers : gone[p][source[p]] = 0
  /\ \A k \in DOMAIN store : EntryFresh(k[1], store[k])
  /\ \A r \in Requests : RequestFresh(req[r])

USE CostReadsAssumption DEF vars, Env

\* An idle request is well-formed and has fetched nothing.
LEMMA IdleGood == Idle \in Request /\ WellFormed(Idle) /\ RequestFresh(Idle)
<1>1. None # "budget"
  BY DEF Services
<1>2. Idle \in Request
  BY DEF Idle, Request
<1>3. QED
  BY <1>1, <1>2 DEF Idle, WellFormed, RequestFresh

\* The empty cache and idle requests are fresh.
LEMMA FreshInit == Init => FreshInv
<1> SUFFICES ASSUME Init PROVE FreshInv
  OBVIOUS
<1>1. Idle \in Request /\ WellFormed(Idle) /\ RequestFresh(Idle)
  BY IdleGood
<1>2. gone \in [Providers -> [Versions \cup {Failing} -> 0..Horizon]]
  BY DEF Init
<1>3. DOMAIN store = {} /\ \A p \in Providers : gone[p][source[p]] = 0
  BY DEF Init
<1>4. budget \in Budget
  BY DEF Init, Budget
<1>5. QED
  BY <1>1, <1>2, <1>3, <1>4 DEF Init, FreshInv, TypeOK, Data

\* What was current a while ago was current a longer while ago.
LEMMA CurrentLonger ==
  ASSUME TypeOK, NEW d \in Data \cup {None}, NEW m \in Int, NEW n \in Int, m <= n,
         Current(d, m)
  PROVE  Current(d, n)
<1> SUFFICES ASSUME d # None, NEW p \in Providers PROVE gone[p][d[p]] <= n
  BY DEF Current
<1>1. d[p] \in Versions \cup {Failing}
  BY DEF Data
<1>2. gone[p][d[p]] \in 0..Horizon
  BY <1>1 DEF TypeOK
<1>3. QED
  BY <1>2 DEF Current

\* What Redis may hold.
StoreOK ==
  /\ DOMAIN store \subseteq Services \X (Budget \cup {None})
  /\ \A k \in DOMAIN store : store[k] \in [answer : Answer, left : Nat]
  /\ \A k \in DOMAIN store : EntryFresh(k[1], store[k])

\* A request as the invariant wants it.
Good(q) == q \in Request /\ WellFormed(q) /\ RequestFresh(q)

\* Replacing one request by a good one, and perhaps an entry of the cache.
LEMMA OneRequest ==
  ASSUME FreshInv, NEW r \in Requests, NEW q, Good(q),
         req' = [req EXCEPT ![r] = q], UNCHANGED Env, StoreOK'
  PROVE  FreshInv'
<1>1. req' \in [Requests -> Request]
  BY DEF FreshInv, TypeOK, Good
<1>2. \A s \in Requests : WellFormed(req'[s]) /\ RequestFresh(req'[s])
  BY DEF FreshInv, TypeOK, Good
<1>3. TypeOK'
  BY <1>1, <1>2 DEF FreshInv, TypeOK, WellFormed, StoreOK
<1>4. \A s \in Requests : RequestFresh(req[s])'
  BY <1>2 DEF RequestFresh, Current
<1>5. QED
  BY <1>3, <1>4 DEF FreshInv, StoreOK

\* A step that leaves the cache alone leaves it in order.
LEMMA SameStore == ASSUME FreshInv, UNCHANGED <<Env, store>> PROVE StoreOK'
BY DEF FreshInv, TypeOK, StoreOK, EntryFresh, Current

\* Returning an answer that is current enough leaves a good request.
LEMMA ReturnsGood ==
  ASSUME FreshInv, NEW r \in Requests, req[r].pc \in {"get", "load", "set"},
         NEW answer \in Answer, Returns(r, answer),
         req[r].at # req[r].endpoint =>
           Current(answer.data, CostAge("forecast") + req[r].age)
  PROVE  \E q : Good(q) /\ req' = [req EXCEPT ![r] = q]
<1>0. req[r] \in Request /\ WellFormed(req[r]) /\ RequestFresh(req[r])
  BY DEF FreshInv, TypeOK
<1>1. CASE req[r].at = req[r].endpoint
  <2> DEFINE q == [req[r] EXCEPT !.pc = "done", !.answer = answer]
  <2>1. q \in Request
    BY <1>0 DEF Request
  <2>2. WellFormed(q)
    BY <1>0, <1>1 DEF WellFormed, Request
  <2>3. RequestFresh(q)
    BY <1>0, <1>1 DEF RequestFresh, Request
  <2>4. req' = [req EXCEPT ![r] = q]
    BY <1>1 DEF Returns
  <2>5. QED
    BY <2>1, <2>2, <2>3, <2>4 DEF Good
<1>2. CASE req[r].at # req[r].endpoint
  <2> DEFINE part == IF answer.found THEN answer.data ELSE None
             full == [req[r].held EXCEPT !.forecast = part]
             q == [req[r] EXCEPT !.pc = "set", !.at = "budget", !.answer = full]
  <2>1. req[r].held \in Answer /\ Current(req[r].held.data, req[r].age)
    BY <1>0, <1>2 DEF Request, WellFormed, RequestFresh
  <2>2. part \in Data \cup {None}
    BY DEF Answer
  <2>3. full \in Answer /\ full.data = req[r].held.data /\ full.forecast = part
    BY <2>1, <2>2 DEF Answer
  <2>4. "budget" \in Services
    BY DEF Services
  <2> HIDE DEF part, full
  <2>5. q \in Request
    BY <1>0, <2>3, <2>4 DEF Request
  <2>6. q.pc = "set" /\ q.at = "budget" /\ q.endpoint = "budget" /\ q.answer = full
        /\ q.held = req[r].held /\ q.age = req[r].age /\ q.budget = req[r].budget
    BY <1>0, <1>2 DEF Request, WellFormed
  <2>7. WellFormed(q)
    BY <1>0, <2>3, <2>4, <2>6, <1>2 DEF WellFormed
  <2>8. Current(full.forecast, CostAge("forecast") + req[r].age)
    BY <1>2, <2>3 DEF Current, part
  <2>9. RequestFresh(q)
    BY <2>1, <2>3, <2>6, <2>8 DEF RequestFresh
  <2>10. req' = [req EXCEPT ![r] = q]
    BY <1>2 DEF Returns, part, full
  <2>11. QED
    BY <2>5, <2>7, <2>9, <2>10 DEF Good
<1>3. QED
  BY <1>1, <1>2

\* A request that changes only itself, to a good record, preserves the invariant.
LEMMA GoodStep ==
  ASSUME FreshInv, NEW r \in Requests, UNCHANGED <<Env, store>>,
         \E q : Good(q) /\ req' = [req EXCEPT ![r] = q]
  PROVE  FreshInv'
<1>1. PICK q : Good(q) /\ req' = [req EXCEPT ![r] = q]
  OBVIOUS
<1>2. QED
  BY <1>1, SameStore, OneRequest

\* Lifetimes are times.
LEMMA AgesAreTimes ==
  /\ \A s \in Services : Ttl[s] \in Nat /\ CostAge(s) \in Nat
  /\ CostAge("forecast") \in Nat /\ CostAge("budget") \in Nat /\ ForecastAge \in Nat
  /\ ForecastAge = Ttl["budget"] + MaxRun + CostAge("forecast")
<1>1. "forecast" \in Services /\ "budget" \in Services
  BY DEF Services
<1>2. \A s \in Services : Ttl[s] \in Nat /\ CostAge(s) \in Nat
  BY DEF CostAge
<1>3. ForecastAge = Ttl["budget"] + MaxRun + CostAge("forecast")
  BY <1>1, <1>2 DEF ForecastAge, CostAge
<1>4. QED
  BY <1>1, <1>2, <1>3 DEF ForecastAge

\* An answer from the cache is as current as its entry.
LEMMA HitFresh ==
  ASSUME FreshInv, NEW r \in Requests, req[r].pc = "get",
         NEW answer \in GetJson(Key(r)) \ {None}
  PROVE  /\ answer \in Answer
         /\ req[r].at \in Services
         /\ Current(answer.data, CostAge(req[r].at))
         /\ Current(answer.forecast, ForecastAge)
<1> DEFINE k == Key(r)
<1>1. k \in DOMAIN store /\ answer = store[k].answer
  BY DEF GetJson
<1>2. k[1] = req[r].at
  BY DEF Key
<1>3. k[1] \in Services /\ answer \in Answer /\ store[k].left \in Nat
      /\ EntryFresh(k[1], store[k])
  BY <1>1 DEF FreshInv, TypeOK
<1>4. /\ CostAge(k[1]) \in Nat /\ ForecastAge \in Nat
      /\ CostAge(k[1]) - store[k].left <= CostAge(k[1])
      /\ ForecastAge - store[k].left <= ForecastAge
      /\ CostAge(k[1]) - store[k].left \in Int
      /\ ForecastAge - store[k].left \in Int
  BY <1>3, AgesAreTimes
<1>5. answer.data \in Data \cup {None} /\ answer.forecast \in Data \cup {None}
  BY <1>3 DEF Answer
<1>6. TypeOK
  BY DEF FreshInv
<1>7. Current(answer.data, CostAge(k[1]))
  BY <1>1, <1>3, <1>4, <1>5, <1>6, CurrentLonger DEF EntryFresh
<1>8. Current(answer.forecast, ForecastAge)
  BY <1>1, <1>3, <1>4, <1>5, <1>6, CurrentLonger DEF EntryFresh
<1>9. QED
  BY <1>2, <1>3, <1>7, <1>8

\* A cache hit preserves the invariant.
LEMMA HitStep ==
  ASSUME FreshInv, NEW r \in Requests, Hit(r)
  PROVE  FreshInv'
<1>1. PICK answer \in GetJson(Key(r)) \ {None} : Returns(r, answer)
  BY DEF Hit
<1>2. req[r].pc = "get" /\ UNCHANGED <<Env, store>>
  BY DEF Hit
<1>3. answer \in Answer /\ Current(answer.data, CostAge(req[r].at))
  BY <1>2, HitFresh
<1>4. req[r] \in Request /\ WellFormed(req[r])
  BY DEF FreshInv, TypeOK
<1>5. ASSUME req[r].at # req[r].endpoint
      PROVE  Current(answer.data, CostAge("forecast") + req[r].age)
  <2>1. req[r].at = "forecast" /\ req[r].age \in Nat
    BY <1>4, <1>5 DEF WellFormed, Request
  <2>2. CostAge("forecast") \in Int /\ CostAge("forecast") + req[r].age \in Int
        /\ CostAge("forecast") <= CostAge("forecast") + req[r].age
    BY <2>1, AgesAreTimes
  <2>3. QED
    BY <1>3, <2>1, <2>2, CurrentLonger DEF FreshInv, Answer
<1>6. QED
  BY <1>1, <1>2, <1>3, <1>5, ReturnsGood, GoodStep

\* What the types say of one request.
LEMMA RequestType ==
  ASSUME FreshInv, NEW r \in Requests
  PROVE  /\ Good(req[r])
         /\ req[r].age \in Nat
BY DEF FreshInv, TypeOK, Good, Request

\* A new request preserves the invariant.
LEMMA BeginStep ==
  ASSUME FreshInv, NEW r \in Requests, NEW s \in Endpoints, Begin(r, s)
  PROVE  FreshInv'
<1> DEFINE q == [Idle EXCEPT !.pc = "get", !.endpoint = s, !.at = s,
                             !.budget = IF s = "budget" THEN budget ELSE None]
<1>1. s \in Services /\ s # None /\ budget \in Budget /\ budget # None
  BY DEF FreshInv, TypeOK
<1>2. q \in Request
  BY <1>1, IdleGood DEF Request
<1>3. WellFormed(q)
  BY <1>1 DEF WellFormed, Idle
<1>4. RequestFresh(q)
  BY DEF RequestFresh, Idle
<1>5. QED
  BY <1>2, <1>3, <1>4, GoodStep DEF Good, Begin

\* An evaluation is an answer.
LEMMA EvaluationType ==
  ASSUME FreshInv, NEW r \in Requests, NEW d \in Data \cup {None}
  PROVE  /\ Evaluation(r, d) \in Answer
         /\ Evaluation(r, d).data = d /\ Evaluation(r, d).forecast = None
<1>1. req[r].budget \in Budget \cup {None}
  BY DEF FreshInv, TypeOK, Request
<1>2. QED
  BY <1>1 DEF Evaluation, Plain, Answer

\* An answer without costs, or with those just fetched, may be returned.
LEMMA PlainType ==
  ASSUME NEW d \in Data \cup {None}, NEW found \in BOOLEAN
  PROVE  /\ Plain(d, found) \in Answer
         /\ Plain(d, found).data = d /\ Plain(d, found).forecast = None
BY DEF Plain, Answer

\* A cache miss preserves the invariant.
LEMMA MissStep ==
  ASSUME FreshInv, NEW r \in Requests, Miss(r)
  PROVE  FreshInv'
<1>1. req[r].pc = "get" /\ UNCHANGED <<Env, store>>
  BY DEF Miss
<1>2. CASE req[r].at = "budget" /\ ~req[r].budget.enabled
  <2>1. Returns(r, Evaluation(r, None))
    BY <1>2 DEF Miss
  <2>2. Evaluation(r, None) \in Answer /\ Evaluation(r, None).data = None
    BY EvaluationType
  <2>3. Current(None, CostAge("forecast") + req[r].age)
    BY DEF Current
  <2>4. QED
    BY <1>1, <2>1, <2>2, <2>3, ReturnsGood, GoodStep
<1>3. CASE ~(req[r].at = "budget" /\ ~req[r].budget.enabled)
  <2> DEFINE q == [req[r] EXCEPT !.pc = "load", !.waiting = Providers,
                                 !.data = NoRecords]
  <2>1. NoRecords \in Data /\ NoRecords # None
    BY DEF NoRecords, Data
  <2>2. q \in Request
    BY <2>1, RequestType DEF Good, Request
  <2>3. WellFormed(q)
    BY <1>1, <2>1, RequestType DEF Good, WellFormed, Request
  <2>4. RequestFresh(q)
    BY <1>1, RequestType DEF Good, RequestFresh, Request
  <2>5. req' = [req EXCEPT ![r] = q]
    BY <1>3 DEF Miss
  <2>6. QED
    BY <1>1, <2>2, <2>3, <2>4, <2>5, GoodStep DEF Good
<1>4. QED
  BY <1>2, <1>3

\* What a provider returns is current.
LEMMA FetchStep ==
  ASSUME FreshInv, NEW r \in Requests, NEW p \in Providers, Fetch(r, p)
  PROVE  FreshInv'
<1> DEFINE q == [req[r] EXCEPT !.waiting = req[r].waiting \ {p},
                        !.data = [req[r].data EXCEPT ![p] = source[p]]]
<1>1. req[r].pc = "load" /\ p \in req[r].waiting /\ UNCHANGED <<Env, store>>
      /\ req' = [req EXCEPT ![r] = q]
  BY DEF Fetch
<1>2. req[r].data \in Data /\ req[r].waiting \subseteq Providers
  BY <1>1, RequestType DEF Good, WellFormed, Request
<1>3. [req[r].data EXCEPT ![p] = source[p]] \in Data
  BY <1>2 DEF Data, FreshInv, TypeOK
<1>4. q \in Request
  BY <1>2, <1>3, RequestType DEF Good, Request
<1>5. q.data = [req[r].data EXCEPT ![p] = source[p]] /\ q.waiting = req[r].waiting \ {p}
      /\ q.pc = "load" /\ q.age = req[r].age /\ q.at = req[r].at
      /\ q.endpoint = req[r].endpoint /\ q.held = req[r].held
      /\ q.budget = req[r].budget
  BY <1>1, RequestType DEF Good, Request
<1>6. WellFormed(q)
  BY <1>1, <1>3, <1>5, RequestType DEF Good, WellFormed
<1>7. ASSUME NEW o \in Providers \ q.waiting
      PROVE  gone[o][q.data[o]] <= q.age
  <2>1. CASE o = p
    BY <1>2, <1>5, <2>1, RequestType DEF Data, FreshInv
  <2>2. CASE o # p
    BY <1>1, <1>2, <1>5, <2>2, RequestType DEF Data, Good, RequestFresh
  <2>3. QED
    BY <2>1, <2>2
<1>8. RequestFresh(q)
  BY <1>1, <1>5, <1>7, RequestType DEF Good, RequestFresh
<1>9. QED
  BY <1>1, <1>4, <1>6, <1>8, GoodStep DEF Good

\* What all providers have answered is current.
LEMMA LoadedCurrent ==
  ASSUME FreshInv, NEW r \in Requests, NEW services, Loaded(r, services)
  PROVE  /\ req[r].pc = "load" /\ req[r].at \in services
         /\ req[r].data \in Data /\ Current(req[r].data, req[r].age)
BY RequestType DEF Loaded, Good, WellFormed, Request, RequestFresh, Current

\* Going on to store costs that were just loaded leaves a good request.
LEMMA ToStoreGood ==
  ASSUME FreshInv, NEW r \in Requests, req[r].pc = "load",
         NEW answer \in Answer, ToStore(r, answer),
         Current(answer.data, req[r].age), answer.forecast = None
  PROVE  \E q : Good(q) /\ req' = [req EXCEPT ![r] = q]
<1> DEFINE q == [req[r] EXCEPT !.pc = "set", !.answer = answer]
<1>1. Good(req[r])
  BY RequestType
<1>2. q \in Request
  BY <1>1 DEF Good, Request
<1>3. q.pc = "set" /\ q.answer = answer /\ q.age = req[r].age
      /\ q.at = req[r].at /\ q.endpoint = req[r].endpoint /\ q.held = req[r].held
      /\ q.budget = req[r].budget
  BY <1>1 DEF Good, Request
<1>4. WellFormed(q)
  BY <1>1, <1>3 DEF Good, WellFormed
<1>5. RequestFresh(q)
  BY <1>1, <1>3 DEF Good, RequestFresh, Current
<1>6. QED
  BY <1>2, <1>4, <1>5 DEF ToStore, Good

\* The explorer's and the detector's results are what was loaded.
LEMMA ExploredStep ==
  ASSUME FreshInv, NEW r \in Requests, Explored(r)
  PROVE  FreshInv'
<1>1. req[r].pc = "load" /\ req[r].data \in Data /\ Current(req[r].data, req[r].age)
  BY LoadedCurrent DEF Explored
<1>2. QED
  BY <1>1, PlainType, ToStoreGood, GoodStep DEF Explored

\* And so are those of the rules.
LEMMA RecommendedStep ==
  ASSUME FreshInv, NEW r \in Requests, Recommended(r)
  PROVE  FreshInv'
<1>1. req[r].pc = "load" /\ req[r].data \in Data /\ Current(req[r].data, req[r].age)
  BY LoadedCurrent DEF Recommended
<1>2. PICK found \in {FALSE, req[r].data # NoRecords} :
              ToStore(r, Plain(req[r].data, found))
  BY DEF Recommended
<1> DEFINE a == Plain(req[r].data, found)
<1>3. a \in Answer /\ a.data = req[r].data /\ a.forecast = None
  BY <1>1, <1>2, PlainType
<1>4. \E q : Good(q) /\ req' = [req EXCEPT ![r] = q]
  BY <1>1, <1>2, <1>3, ToStoreGood
<1>5. QED
  BY <1>4, GoodStep DEF Recommended

\* A forecast, be it for a client or for an evaluation, preserves the invariant.
LEMMA ForecastStep ==
  ASSUME FreshInv, NEW r \in Requests, Forecast(r)
  PROVE  FreshInv'
<1>1. req[r].pc = "load" /\ req[r].data \in Data /\ Current(req[r].data, req[r].age)
  BY LoadedCurrent DEF Forecast
<1>2. CASE Returns(r, Plain(None, FALSE))
  <2>1. Plain(None, FALSE) \in Answer /\ Plain(None, FALSE).data = None
    BY PlainType
  <2>2. Current(None, CostAge("forecast") + req[r].age)
    BY DEF Current
  <2>3. QED
    BY <1>1, <1>2, <2>1, <2>2, ReturnsGood, GoodStep DEF Forecast
<1>3. CASE ToStore(r, Plain(req[r].data, TRUE))
  <2> DEFINE a == Plain(req[r].data, TRUE)
  <2>1. a \in Answer /\ a.data = req[r].data /\ a.forecast = None
    BY <1>1, PlainType
  <2>2. \E q : Good(q) /\ req' = [req EXCEPT ![r] = q]
    BY <1>1, <1>3, <2>1, ToStoreGood
  <2>3. QED
    BY <2>2, GoodStep DEF Forecast
<1>4. QED
  BY <1>2, <1>3 DEF Forecast

\* A request that fails holds nothing any more.
LEMMA FailGood ==
  ASSUME FreshInv, NEW r \in Requests, req[r].at = req[r].endpoint,
         req[r].pc # "idle"
  PROVE  Good([req[r] EXCEPT !.pc = "failed"])
<1> DEFINE q == [req[r] EXCEPT !.pc = "failed"]
<1>1. Good(req[r])
  BY RequestType
<1>2. q \in Request
  BY <1>1 DEF Good, Request
<1>3. WellFormed(q) /\ RequestFresh(q)
  BY <1>1 DEF Good, Request, WellFormed, RequestFresh
<1>4. QED
  BY <1>2, <1>3 DEF Good

\* Asking for the forecast keeps the evaluation made so far.
LEMMA EvaluateStep ==
  ASSUME FreshInv, NEW r \in Requests, Evaluate(r)
  PROVE  FreshInv'
<1> DEFINE e == Evaluation(r, req[r].data)
<1>1. req[r].pc = "load" /\ req[r].data \in Data /\ Current(req[r].data, req[r].age)
      /\ req[r].at = "budget" /\ UNCHANGED <<Env, store>>
  BY LoadedCurrent DEF Evaluate
<1>2. Good(req[r]) /\ req[r].endpoint = "budget"
  BY <1>1, RequestType DEF Good, WellFormed
<1>3. e \in Answer /\ e.data = req[r].data /\ e.forecast = None
  BY <1>1, EvaluationType
<1>4. CASE req[r].data = NoRecords
  <2>1. Returns(r, e)
    BY <1>4 DEF Evaluate
  <2>2. QED
    BY <1>1, <1>2, <1>3, <2>1, ReturnsGood, GoodStep
<1>5. CASE req' = [req EXCEPT ![r].pc = "failed"]
  <2>1. Good([req[r] EXCEPT !.pc = "failed"])
    BY <1>1, <1>2, FailGood
  <2>2. QED
    BY <1>1, <1>5, <2>1, GoodStep
<1>6. CASE ToStore(r, e)
  BY <1>1, <1>3, <1>6, ToStoreGood, GoodStep
<1>7. CASE req' = [req EXCEPT ![r] = [@ EXCEPT !.pc = "get", !.at = "forecast",
                                               !.held = e]]
  <2> DEFINE q == [req[r] EXCEPT !.pc = "get", !.at = "forecast", !.held = e]
  <2>1. "forecast" \in Services /\ "forecast" # None /\ e # None
    BY <1>3 DEF Services
  <2>2. q \in Request
    BY <1>2, <1>3, <2>1 DEF Good, Request
  <2>3. q.pc = "get" /\ q.at = "forecast" /\ q.endpoint = "budget" /\ q.held = e
        /\ q.age = req[r].age /\ q.budget = req[r].budget
    BY <1>2 DEF Good, Request
  <2>4. WellFormed(q)
    BY <1>1, <1>2, <2>1, <2>3 DEF Good, WellFormed
  <2>5. RequestFresh(q)
    BY <1>1, <1>3, <2>3 DEF RequestFresh
  <2>6. req' = [req EXCEPT ![r] = q]
    BY <1>7
  <2>7. QED
    BY <1>1, <2>2, <2>4, <2>5, <2>6, GoodStep DEF Good
<1>8. QED
  BY <1>4, <1>5, <1>6, <1>7 DEF Evaluate

\* An evaluation that is refused for its currency preserves the invariant.
LEMMA MismatchStep ==
  ASSUME FreshInv, NEW r \in Requests, Mismatch(r)
  PROVE  FreshInv'
<1>1. req[r].pc = "set" /\ req[r].at = "budget" /\ UNCHANGED <<Env, store>>
      /\ req' = [req EXCEPT ![r].pc = "failed"]
  BY DEF Mismatch
<1>2. req[r].at = req[r].endpoint
  BY <1>1, RequestType DEF Good, WellFormed
<1>3. Good([req[r] EXCEPT !.pc = "failed"])
  BY <1>1, <1>2, FailGood
<1>4. QED
  BY <1>1, <1>3, GoodStep

\* The end of a request preserves the invariant.
LEMMA FinishStep ==
  ASSUME FreshInv, NEW r \in Requests, Finish(r)
  PROVE  FreshInv'
BY IdleGood, GoodStep DEF Finish, Good

\* Storing an answer leaves the cache in order: its costs are no older than the
\* run of its request, and its whole lifetime is left.
LEMMA SetJsonOK ==
  ASSUME FreshInv, NEW r \in Requests, req[r].pc = "set", UNCHANGED Env,
         SetJson(Key(r), req[r].answer)
  PROVE  StoreOK'
<1> DEFINE a == req[r].answer
           at == req[r].at
           e == [answer |-> a, left |-> Ttl[at]]
<1>1. Good(req[r]) /\ req[r].age \in Nat /\ req[r].age <= MaxRun
  BY RequestType DEF Good, Request
<1>2. a \in Answer /\ at \in Services /\ req[r].budget \in Budget \cup {None}
  BY <1>1 DEF Good, Request, WellFormed
<1>3. Key(r) \in Services \X (Budget \cup {None}) /\ Key(r)[1] = at
  BY <1>2 DEF Key
<1>4. Ttl[at] \in Nat /\ CostAge(at) - Ttl[at] = MaxRun
  BY <1>2 DEF CostAge
<1>5. Current(a.data, MaxRun)
  BY <1>1, <1>2, CurrentLonger DEF Good, RequestFresh, FreshInv, Answer
<1>6. Current(a.forecast, ForecastAge - Ttl[at])
  <2>1. CASE at = "budget"
    <3>1. ForecastAge - Ttl[at] = CostAge("forecast") + MaxRun
          /\ CostAge("forecast") \in Nat
      BY <2>1, <1>4, AgesAreTimes
    <3>2. CostAge("forecast") + req[r].age <= CostAge("forecast") + MaxRun
          /\ CostAge("forecast") + req[r].age \in Int
          /\ CostAge("forecast") + MaxRun \in Int
      BY <1>1, <3>1
    <3>3. Current(a.forecast, CostAge("forecast") + req[r].age)
      BY <1>1 DEF Good, RequestFresh
    <3>4. a.forecast \in Data \cup {None} /\ TypeOK
      BY <1>2 DEF Answer, FreshInv
    <3>5. Current(a.forecast, CostAge("forecast") + MaxRun)
      BY <3>2, <3>3, <3>4, CurrentLonger
    <3>6. QED
      BY <3>1, <3>5
  <2>2. CASE at # "budget"
    BY <2>2, <1>1 DEF Good, RequestFresh, Current
  <2>3. QED
    BY <2>1, <2>2
<1>7. EntryFresh(at, e)
  BY <1>4, <1>5, <1>6 DEF EntryFresh
<1>8. CASE UNCHANGED store
  BY <1>8, SameStore
<1>9. CASE store' = [k \in DOMAIN store \cup {Key(r)} |->
                       IF k = Key(r) THEN [answer |-> a, left |-> Ttl[Key(r)[1]]]
                       ELSE store[k]]
  <2>1. DOMAIN store' = DOMAIN store \cup {Key(r)}
    BY <1>9
  <2>2. \A k \in DOMAIN store' :
          \/ k = Key(r) /\ k[1] = at /\ store'[k] = e
          \/ k \in DOMAIN store /\ store'[k] = store[k]
    BY <1>9, <1>3
  <2>3. e \in [answer : Answer, left : Nat]
    BY <1>2, <1>4
  <2>4. \A k \in DOMAIN store' :
          /\ store'[k] \in [answer : Answer, left : Nat]
          /\ EntryFresh(k[1], store'[k])
    BY <2>2, <2>3, <1>7 DEF FreshInv, TypeOK
  <2>5. \A k \in DOMAIN store' : EntryFresh(k[1], store[k])'
    BY <2>4 DEF EntryFresh, Current
  <2>6. DOMAIN store' \subseteq Services \X (Budget \cup {None})
    BY <2>1, <1>3 DEF FreshInv, TypeOK
  <2>7. QED
    BY <2>4, <2>5, <2>6 DEF StoreOK
<1>10. QED
  BY <1>8, <1>9 DEF SetJson

\* Storing and returning an answer preserves the invariant.
LEMMA StoreStep ==
  ASSUME FreshInv, NEW r \in Requests, Store(r)
  PROVE  FreshInv'
<1>1. req[r].pc = "set" /\ UNCHANGED Env
  BY DEF Store
<1>2. Good(req[r]) /\ req[r].age \in Nat
  BY RequestType
<1>3. CASE Unserialisable(r)
  <2>1. req[r].at = req[r].endpoint
    BY <1>2, <1>3 DEF Unserialisable, Good, WellFormed
  <2>2. Good([req[r] EXCEPT !.pc = "failed"])
    BY <1>1, <2>1, FailGood
  <2>3. req' = [req EXCEPT ![r].pc = "failed"] /\ UNCHANGED store
    BY <1>3 DEF Store
  <2>4. QED
    BY <1>1, <2>2, <2>3, GoodStep
<1>4. CASE ~Unserialisable(r)
  <2>1. Returns(r, req[r].answer) /\ SetJson(Key(r), req[r].answer)
    BY <1>4 DEF Store
  <2>2. req[r].answer \in Answer /\ Current(req[r].answer.data, req[r].age)
    BY <1>1, <1>2 DEF Good, Request, WellFormed, RequestFresh
  <2>3. /\ CostAge("forecast") + req[r].age \in Int
        /\ req[r].age <= CostAge("forecast") + req[r].age
    BY <1>2, AgesAreTimes
  <2>4. Current(req[r].answer.data, CostAge("forecast") + req[r].age)
    BY <1>2, <2>2, <2>3, CurrentLonger DEF FreshInv, Answer
  <2>5. PICK q : Good(q) /\ req' = [req EXCEPT ![r] = q]
    BY <1>1, <2>1, <2>2, <2>4, ReturnsGood
  <2>6. StoreOK'
    BY <1>1, <2>1, SetJsonOK
  <2>7. QED
    BY <1>1, <2>5, <2>6, OneRequest
<1>5. QED
  BY <1>3, <1>4

\* Costs that a provider returns are not gone.
LEMMA ChangeStep ==
  ASSUME FreshInv, NEW p \in Providers, NEW v \in Versions \cup {Failing},
         Change(p, v)
  PROVE  FreshInv'
<1>1. /\ source' = [source EXCEPT ![p] = v] /\ gone' = [gone EXCEPT ![p][v] = 0]
      /\ UNCHANGED <<connected, store, budget, req>>
  BY DEF Change
<1>2. 0 \in 0..Horizon
  OBVIOUS
<1>3. TypeOK'
  BY <1>1, <1>2 DEF FreshInv, TypeOK, Data, WellFormed
<1>4. \A o \in Providers, w \in Versions \cup {Failing} :
        gone[o][w] \in Nat /\ gone'[o][w] \in Nat /\ gone'[o][w] <= gone[o][w]
  BY <1>1, <1>2 DEF FreshInv, TypeOK
<1>5. ASSUME NEW d \in Data \cup {None}, NEW n \in Int, Current(d, n)
      PROVE  d # None => \A o \in Providers : gone'[o][d[o]] <= n
  BY <1>4, <1>5 DEF Current, Data
<1>6. ASSUME NEW k \in DOMAIN store PROVE EntryFresh(k[1], store[k])'
  <2>1. k[1] \in Services /\ EntryFresh(k[1], store[k]) /\ store[k].left \in Nat
        /\ store[k].answer \in Answer
    BY <1>6 DEF FreshInv, TypeOK
  <2>2. CostAge(k[1]) - store[k].left \in Int /\ ForecastAge - store[k].left \in Int
    BY <2>1, AgesAreTimes
  <2>3. QED
    BY <1>1, <1>5, <2>1, <2>2 DEF EntryFresh, Current, Answer
<1>7. ASSUME NEW r \in Requests PROVE RequestFresh(req[r])'
  <2>1. Good(req[r]) /\ req[r].age \in Nat
    BY RequestType
  <2>2. req[r].age \in Int /\ CostAge("forecast") + req[r].age \in Int
    BY <2>1, AgesAreTimes
  <2>3. req[r].pc = "load" =>
          \A o \in Providers \ req[r].waiting : gone'[o][req[r].data[o]] <= req[r].age
    BY <1>4, <2>1 DEF Good, Request, WellFormed, RequestFresh, Data
  <2>4. req[r].pc = "set" => req[r].answer \in Answer
    BY <2>1 DEF Good, Request, WellFormed
  <2>5. req[r].at # req[r].endpoint => req[r].held \in Answer
    BY <2>1 DEF Good, Request, WellFormed
  <2>6. QED
    BY <1>1, <1>5, <2>1, <2>2, <2>3, <2>4, <2>5
       DEF Good, RequestFresh, Current, Answer
<1>8. \A o \in Providers : gone'[o][source'[o]] = 0
  BY <1>1 DEF FreshInv, TypeOK, Data
<1>9. QED
  BY <1>1, <1>3, <1>6, <1>7, <1>8 DEF FreshInv

\* An edit of the budget changes no costs.
LEMMA EditBudgetStep == ASSUME FreshInv, EditBudget PROVE FreshInv'
<1>1. UNCHANGED <<connected, store, source, gone, req>>
  BY DEF EditBudget
<1>2. budget' \in Budget
  BY DEF EditBudget, FreshInv, TypeOK, Budget
<1>3. TypeOK'
  BY <1>1, <1>2 DEF FreshInv, TypeOK, WellFormed
<1>4. QED
  BY <1>1, <1>3 DEF FreshInv, EntryFresh, RequestFresh, Current

\* A restart forgets the requests and nothing else.
LEMMA RestartStep == ASSUME FreshInv, Restart PROVE FreshInv'
<1>1. connected' \in BOOLEAN /\ UNCHANGED <<store, source, gone, budget>>
      /\ req' = [r \in Requests |-> Idle]
  BY DEF Restart
<1>2. Idle \in Request /\ WellFormed(Idle) /\ RequestFresh(Idle)
  BY IdleGood
<1>3. TypeOK'
  BY <1>1, <1>2 DEF FreshInv, TypeOK, WellFormed
<1>4. \A r \in Requests : RequestFresh(req[r])'
  BY <1>1, <1>2 DEF RequestFresh, Current
<1>5. QED
  BY <1>1, <1>3, <1>4 DEF FreshInv, EntryFresh, Current

\* Time makes the costs one unit older, and so are the entries and requests.
LEMMA TickStep == ASSUME FreshInv, Tick PROVE FreshInv'
<1>1. /\ \A r \in Running : req[r].age < MaxRun
      /\ store' = Aged
      /\ req' = [r \in Requests |-> IF r \in Running THEN [req[r] EXCEPT !.age = @ + 1]
                                    ELSE req[r]]
      /\ UNCHANGED <<connected, source, budget>>
  BY DEF Tick
<1>2. \A p \in Providers, v \in Versions \cup {Failing} :
        /\ gone[p][v] \in Nat /\ gone'[p][v] \in 0..Horizon
        /\ gone'[p][v] <= gone[p][v] + 1
  BY DEF Tick, FreshInv, TypeOK
<1>3. ASSUME NEW d \in Data \cup {None}, NEW n \in Int, Current(d, n)
      PROVE  d # None => \A p \in Providers : gone'[p][d[p]] <= n + 1
  BY <1>2, <1>3 DEF Current, Data
<1>4. ASSUME NEW k \in DOMAIN store'
      PROVE  /\ k \in Services \X (Budget \cup {None})
             /\ store'[k] \in [answer : Answer, left : Nat]
             /\ EntryFresh(k[1], store[k])'
  <2>1. /\ k \in DOMAIN store /\ store[k].left > 0
        /\ store'[k] = [store[k] EXCEPT !.left = @ - 1]
    BY <1>1, <1>4 DEF Aged
  <2>2. /\ k[1] \in Services /\ EntryFresh(k[1], store[k]) /\ store[k].left \in Nat
        /\ store[k] \in [answer : Answer, left : Nat]
        /\ store[k].answer \in Answer /\ k \in Services \X (Budget \cup {None})
    BY <2>1 DEF FreshInv, TypeOK
  <2> DEFINE left == store[k].left
             a == store[k].answer
  <2>3. /\ store'[k].answer = a /\ store'[k].left = left - 1
    BY <2>1, <2>2
  <2>4. left - 1 \in Nat /\ left - 1 <= Ttl[k[1]]
    BY <2>1, <2>2, AgesAreTimes DEF EntryFresh
  <2>5. /\ CostAge(k[1]) - left \in Int /\ ForecastAge - left \in Int
        /\ CostAge(k[1]) - left + 1 = CostAge(k[1]) - (left - 1)
        /\ ForecastAge - left + 1 = ForecastAge - (left - 1)
    <3>1. ASSUME NEW x \in Int, NEW y \in Int
          PROVE  x - y \in Int /\ x - y + 1 = x - (y - 1)
      OBVIOUS
    <3>2. left \in Int /\ CostAge(k[1]) \in Int /\ ForecastAge \in Int
      BY <2>2, AgesAreTimes
    <3> HIDE DEF left
    <3>3. QED
      BY <3>1, <3>2
  <2>6. /\ a.data # None =>
             \A p \in Providers : gone'[p][a.data[p]] <= CostAge(k[1]) - (left - 1)
        /\ a.forecast # None =>
             \A p \in Providers : gone'[p][a.forecast[p]] <= ForecastAge - (left - 1)
    BY <1>3, <2>2, <2>5 DEF EntryFresh, Answer
  <2>7. EntryFresh(k[1], store[k])'
    BY <2>3, <2>4, <2>6 DEF EntryFresh, Current
  <2>8. QED
    BY <2>1, <2>2, <2>4, <2>7
<1>5. ASSUME NEW r \in Requests
      PROVE  req'[r] \in Request /\ WellFormed(req'[r]) /\ RequestFresh(req[r])'
  <2> DEFINE q == req'[r]
             age == req[r].age
  <2>1. Good(req[r]) /\ age \in 0..MaxRun
    BY RequestType DEF Good, Request
  <2>2. CASE r \in Running
    <3>1. q = [req[r] EXCEPT !.age = age + 1] /\ age < MaxRun
      BY <1>1, <2>2
    <3>2. age + 1 \in 0..MaxRun
      BY <2>1, <3>1
    <3>3. q \in Request
      BY <2>1, <3>1, <3>2 DEF Good, Request
    <3>4. /\ q.pc = req[r].pc /\ q.endpoint = req[r].endpoint /\ q.at = req[r].at
          /\ q.age = age + 1 /\ q.budget = req[r].budget
          /\ q.waiting = req[r].waiting /\ q.data = req[r].data
          /\ q.held = req[r].held /\ q.answer = req[r].answer
      BY <2>1, <3>1 DEF Good, Request
    <3>5. WellFormed(q)
      BY <2>1, <3>4 DEF Good, WellFormed
    <3>6. ASSUME q.pc = "load", NEW p \in Providers \ q.waiting
          PROVE  gone'[p][q.data[p]] <= q.age
      BY <1>2, <2>1, <3>4, <3>6 DEF Good, Request, WellFormed, RequestFresh, Data
    <3>7. /\ age \in Int /\ CostAge("forecast") + age \in Int
          /\ CostAge("forecast") + age + 1 = CostAge("forecast") + (age + 1)
      BY <2>1, AgesAreTimes
    <3>8. ASSUME q.pc = "set"
          PROVE  /\ Current(req[r].answer.data, req[r].age)'
                 /\ Current(req[r].answer.forecast, CostAge("forecast") + req[r].age)'
                 /\ q.at # "budget" => q.answer.forecast = None
      <4>1. /\ req[r].answer \in Answer /\ Current(req[r].answer.data, age)
            /\ Current(req[r].answer.forecast, CostAge("forecast") + age)
            /\ req[r].at # "budget" => req[r].answer.forecast = None
        BY <2>1, <3>4, <3>8 DEF Good, Request, WellFormed, RequestFresh
      <4>2. /\ req[r].answer.data # None =>
                 \A p \in Providers : gone'[p][req[r].answer.data[p]] <= age + 1
            /\ req[r].answer.forecast # None =>
                 \A p \in Providers : gone'[p][req[r].answer.forecast[p]]
                                        <= CostAge("forecast") + (age + 1)
        BY <1>3, <3>7, <4>1 DEF Answer
      <4>3. QED
        BY <3>4, <4>1, <4>2 DEF Current
    <3>9. ASSUME q.at # q.endpoint
          PROVE  q.pc \in {"get", "load", "set"} /\ Current(req[r].held.data, req[r].age)'
      <4>1. /\ req[r].held \in Answer /\ Current(req[r].held.data, age)
            /\ req[r].pc \in {"get", "load", "set"}
        BY <2>1, <3>4, <3>9 DEF Good, Request, WellFormed, RequestFresh
      <4>2. req[r].held.data # None =>
              \A p \in Providers : gone'[p][req[r].held.data[p]] <= age + 1
        BY <1>3, <3>7, <4>1 DEF Answer
      <4>3. QED
        BY <3>4, <4>1, <4>2 DEF Current
    <3>10. QED
      BY <3>3, <3>5, <3>6, <3>8, <3>9 DEF RequestFresh
  <2>3. CASE r \notin Running
    <3>1. q = req[r] /\ req[r].pc \notin {"get", "load", "set"}
      BY <1>1, <2>3 DEF Running
    <3>2. req[r].at = req[r].endpoint
      BY <2>1, <3>1 DEF Good, RequestFresh
    <3>3. QED
      BY <2>1, <3>1, <3>2 DEF Good, RequestFresh
  <2>4. QED
    BY <2>2, <2>3
<1>6. gone' \in [Providers -> [Versions \cup {Failing} -> 0..Horizon]]
  BY <1>2 DEF Tick, FreshInv, TypeOK
<1>7. \A p \in Providers : gone'[p][source'[p]] = 0
  BY <1>1 DEF Tick, FreshInv, TypeOK, Data
<1>8. req' \in [Requests -> Request]
  BY <1>1, <1>5
<1>9. TypeOK'
  BY <1>1, <1>4, <1>5, <1>6, <1>8 DEF FreshInv, TypeOK, WellFormed
<1>10. QED
  BY <1>4, <1>5, <1>7, <1>9 DEF FreshInv

\* Every step preserves the invariant.
LEMMA FreshStep == FreshInv /\ [Next]_vars => FreshInv'
<1> SUFFICES ASSUME FreshInv, [Next]_vars PROVE FreshInv'
  OBVIOUS
<1>1. CASE \E r \in Requests : Step(r)
  <2>1. PICK r \in Requests : Step(r)
    BY <1>1
  <2>2. QED
    BY <2>1, HitStep, MissStep, FetchStep, ExploredStep, RecommendedStep,
       ForecastStep, EvaluateStep, MismatchStep, StoreStep, FinishStep DEF Step
<1>2. CASE \E r \in Requests : \E s \in Endpoints : Begin(r, s)
  BY <1>2, BeginStep
<1>3. CASE \E p \in Providers, v \in Versions \cup {Failing} : Change(p, v)
  BY <1>3, ChangeStep
<1>4. CASE EditBudget
  BY <1>4, EditBudgetStep
<1>5. CASE Restart
  BY <1>5, RestartStep
<1>6. CASE Tick
  BY <1>6, TickStep
<1>7. CASE UNCHANGED vars
  BY <1>7 DEF FreshInv, TypeOK, WellFormed, EntryFresh, RequestFresh, Current
<1>8. QED
  BY <1>1, <1>2, <1>3, <1>4, <1>5, <1>6, <1>7 DEF Next

\* The invariant holds in every state of the readers.
THEOREM FreshAlways == Spec => []FreshInv
BY FreshInit, FreshStep, PTL DEF Spec

\* Every variable of the cached readers holds a value of its kind, always.
THEOREM TypeCorrect == Spec => []TypeOK
<1>1. FreshInv => TypeOK
  BY DEF FreshInv
<1>2. QED
  BY <1>1, FreshAlways, PTL

-----------------------------------------------------------------------------
(* The answers themselves                                                  *)

Fresh(r, answer) ==
  Current(answer.data, CostAge(req[r].endpoint)) /\ Current(answer.forecast, ForecastAge)

\* Costs no older than a run of the service, and a forecast no older than an
\* entry of the forecasts and a run, are fresh.
LEMMA RunFresh ==
  ASSUME FreshInv, NEW r \in Requests, req[r].pc # "idle", NEW answer \in Answer,
         Current(answer.data, req[r].age),
         Current(answer.forecast, CostAge("forecast") + req[r].age)
  PROVE  Fresh(r, answer)
<1> DEFINE s == req[r].endpoint
           age == req[r].age
<1>1. s \in Services /\ age \in Nat /\ age <= MaxRun
  BY RequestType DEF Good, Request, WellFormed
<1>2. CostAge(s) \in Int /\ age \in Int /\ age <= CostAge(s)
  BY <1>1 DEF CostAge
<1>3. "budget" \in Services
  BY DEF Services
<1>4. /\ ForecastAge \in Int /\ CostAge("forecast") + age \in Int
      /\ CostAge("forecast") + age <= ForecastAge
  BY <1>1, <1>3, AgesAreTimes
<1>5. answer.data \in Data \cup {None} /\ answer.forecast \in Data \cup {None} /\ TypeOK
  BY DEF Answer, FreshInv
<1>6. QED
  BY <1>2, <1>4, <1>5, CurrentLonger DEF Fresh

\* What becomes of a request that a step replaces.
LEMMA Replaced ==
  ASSUME FreshInv, NEW r \in Requests, NEW q, req' = [req EXCEPT ![r] = q]
  PROVE  req'[r] = q
BY DEF FreshInv, TypeOK

\* A request that goes on has not answered.
LEMMA Goes ==
  ASSUME FreshInv, NEW r \in Requests, NEW pc, NEW at, NEW held, NEW answer,
         \/ req' = [req EXCEPT ![r] = [req[r] EXCEPT !.pc = pc, !.answer = answer]]
         \/ req' = [req EXCEPT ![r] = [req[r] EXCEPT !.pc = pc]]
         \/ req' = [req EXCEPT ![r] = [req[r] EXCEPT !.pc = pc, !.at = at, !.held = held]]
         \/ req' = [req EXCEPT ![r] = [req[r] EXCEPT !.pc = pc, !.at = at, !.answer = answer]]
  PROVE  req'[r].pc = pc
<1>1. Good(req[r])
  BY RequestType
<1>2. CASE req' = [req EXCEPT ![r] = [req[r] EXCEPT !.pc = pc, !.answer = answer]]
  <2> DEFINE q == [req[r] EXCEPT !.pc = pc, !.answer = answer]
  <2>1. q.pc = pc
    BY <1>1 DEF Good, Request
  <2>2. req'[r] = q
    BY <1>2, Replaced
  <2>3. QED
    BY <2>1, <2>2
<1>3. CASE req' = [req EXCEPT ![r] = [req[r] EXCEPT !.pc = pc]]
  <2> DEFINE q == [req[r] EXCEPT !.pc = pc]
  <2>1. q.pc = pc
    BY <1>1 DEF Good, Request
  <2>2. req'[r] = q
    BY <1>3, Replaced
  <2>3. QED
    BY <2>1, <2>2
<1>4. CASE req' = [req EXCEPT ![r] = [req[r] EXCEPT !.pc = pc, !.at = at, !.held = held]]
  <2> DEFINE q == [req[r] EXCEPT !.pc = pc, !.at = at, !.held = held]
  <2>1. q.pc = pc
    BY <1>1 DEF Good, Request
  <2>2. req'[r] = q
    BY <1>4, Replaced
  <2>3. QED
    BY <2>1, <2>2
<1>5. CASE req' = [req EXCEPT ![r] = [req[r] EXCEPT !.pc = pc, !.at = at, !.answer = answer]]
  <2> DEFINE q == [req[r] EXCEPT !.pc = pc, !.at = at, !.answer = answer]
  <2>1. q.pc = pc
    BY <1>1 DEF Good, Request
  <2>2. req'[r] = q
    BY <1>5, Replaced
  <2>3. QED
    BY <2>1, <2>2
<1>6. QED
  BY <1>2, <1>3, <1>4, <1>5

\* A request that becomes done in a return has what was returned.
LEMMA ReturnedAnswer ==
  ASSUME FreshInv, NEW r \in Requests, NEW answer \in Answer, Returns(r, answer),
         req'[r].pc = "done"
  PROVE  req[r].at = req[r].endpoint /\ req'[r].answer = answer
<1>1. Good(req[r])
  BY RequestType
<1>2. CASE req[r].at = req[r].endpoint
  <2> DEFINE q == [req[r] EXCEPT !.pc = "done", !.answer = answer]
  <2>1. req' = [req EXCEPT ![r] = q]
    BY <1>2 DEF Returns
  <2>2. req'[r] = q
    BY <2>1, Replaced
  <2>3. QED
    BY <1>1, <1>2, <2>2 DEF Good, Request
<1>3. CASE req[r].at # req[r].endpoint
  <2> DEFINE full == [req[r].held EXCEPT !.forecast = IF answer.found THEN answer.data
                                                      ELSE None]
  <2>1. req' = [req EXCEPT ![r] = [req[r] EXCEPT !.pc = "set", !.at = "budget",
                                                 !.answer = full]]
    BY <1>3 DEF Returns
  <2>2. req'[r].pc = "set"
    BY <2>1, Goes
  <2>3. QED
    BY <2>2
<1>4. QED
  BY <1>2, <1>3

\* A request that does not answer in a step of its own does so in none.
LEMMA OthersWait ==
  ASSUME FreshInv, NEW r \in Requests, NEW q,
         req' = [req EXCEPT ![r] = q], NEW o \in Requests,
         req[o].pc # "done", req'[o].pc = "done"
  PROVE  o = r /\ q.pc = "done"
BY DEF FreshInv, TypeOK

\* Whatever a request answers with is fresh.
LEMMA StepAnswers ==
  ASSUME FreshInv, NEW r \in Requests, Step(r), req[r].pc # "done",
         req'[r].pc = "done"
  PROVE  Fresh(r, req'[r].answer)
<1>1. Good(req[r]) /\ req[r].age \in Nat
  BY RequestType
<1>2. \A n \in Int : Current(None, n)
  BY DEF Current
<1>3. CostAge("forecast") + req[r].age \in Int
  BY <1>1, AgesAreTimes
<1>4. CASE Hit(r)
  <2>1. PICK answer \in GetJson(Key(r)) \ {None} : Returns(r, answer)
    BY <1>4 DEF Hit
  <2>2. /\ answer \in Answer /\ Current(answer.data, CostAge(req[r].at))
        /\ Current(answer.forecast, ForecastAge)
    BY <1>4, <2>1, HitFresh DEF Hit
  <2>3. req[r].at = req[r].endpoint /\ req'[r].answer = answer
    BY <2>1, <2>2, ReturnedAnswer
  <2>4. QED
    BY <2>2, <2>3 DEF Fresh
<1>5. CASE Miss(r)
  <2>1. req[r].pc = "get" /\ Evaluation(r, None) \in Answer
        /\ Evaluation(r, None).data = None /\ Evaluation(r, None).forecast = None
    BY <1>5, EvaluationType DEF Miss
  <2>2. Returns(r, Evaluation(r, None))
    <3>1. \/ Returns(r, Evaluation(r, None))
          \/ req' = [req EXCEPT ![r] = [req[r] EXCEPT !.pc = "load",
                                   !.waiting = Providers, !.data = NoRecords]]
      BY <1>5 DEF Miss
    <3> DEFINE q == [req[r] EXCEPT !.pc = "load", !.waiting = Providers,
                                   !.data = NoRecords]
    <3>2. q.pc = "load"
      BY <1>1 DEF Good, Request
    <3>3. req' = [req EXCEPT ![r] = q] => req'[r] = q
      BY Replaced
    <3>4. QED
      BY <3>1, <3>2, <3>3
  <2>3. req'[r].answer = Evaluation(r, None)
    BY <2>1, <2>2, ReturnedAnswer
  <2>4. QED
    BY <1>1, <1>2, <1>3, <2>1, <2>3, RunFresh
<1>6. CASE Forecast(r)
  <2>1. req[r].pc = "load"
    BY <1>6 DEF Forecast, Loaded
  <2>2. Plain(None, FALSE) \in Answer /\ Plain(None, FALSE).data = None
        /\ Plain(None, FALSE).forecast = None
    BY PlainType
  <2>3. Returns(r, Plain(None, FALSE))
    <3>1. \/ Returns(r, Plain(None, FALSE))
          \/ ToStore(r, Plain(req[r].data, TRUE))
      BY <1>6 DEF Forecast
    <3>2. ToStore(r, Plain(req[r].data, TRUE)) => req'[r].pc = "set"
      BY Goes DEF ToStore
    <3>3. QED
      BY <3>1, <3>2
  <2>4. req'[r].answer = Plain(None, FALSE)
    BY <2>2, <2>3, ReturnedAnswer
  <2> DEFINE a == req'[r].answer
  <2>5. a \in Answer /\ a.data = None /\ a.forecast = None
    BY <2>2, <2>4, Zenon
  <2>6. Current(a.data, req[r].age)
        /\ Current(a.forecast, CostAge("forecast") + req[r].age)
    BY <1>1, <1>2, <1>3, <2>5
  <2> HIDE DEF a
  <2>7. Fresh(r, a)
    BY <2>1, <2>5, <2>6, RunFresh
  <2>8. QED
    BY <2>7 DEF a
<1>7. CASE Evaluate(r)
  <2> DEFINE e == Evaluation(r, req[r].data)
  <2>1. req[r].pc = "load" /\ req[r].data \in Data /\ Current(req[r].data, req[r].age)
    BY <1>7, LoadedCurrent DEF Evaluate
  <2>2. e \in Answer /\ e.data = req[r].data /\ e.forecast = None
    BY <2>1, EvaluationType
  <2>3. Returns(r, e)
    <3>1. req[r].data = NoRecords \/ req' = [req EXCEPT ![r].pc = "failed"]
          \/ ToStore(r, e)
          \/ req' = [req EXCEPT ![r] = [@ EXCEPT !.pc = "get", !.at = "forecast",
                                                 !.held = e]]
      BY <1>7 DEF Evaluate
    <3>2. req[r].data = NoRecords
      <4>1. ToStore(r, e) => req'[r].pc = "set"
        BY Goes DEF ToStore
      <4>2. req' = [req EXCEPT ![r].pc = "failed"] => req'[r].pc = "failed"
        BY Goes
      <4>3. ASSUME NEW h, req' = [req EXCEPT ![r] = [req[r] EXCEPT
                                  !.pc = "get", !.at = "forecast", !.held = h]]
            PROVE  req'[r].pc = "get"
        BY <4>3, Goes
      <4>4. QED
        BY <3>1, <4>1, <4>2, <4>3
    <3>3. QED
      BY <1>7, <3>2 DEF Evaluate
  <2>4. req'[r].answer = e
    BY <2>2, <2>3, ReturnedAnswer
  <2>5. Current(e.data, req[r].age)
        /\ Current(e.forecast, CostAge("forecast") + req[r].age)
    BY <1>2, <1>3, <2>1, <2>2
  <2> HIDE DEF e
  <2>6. QED
    BY <2>1, <2>2, <2>4, <2>5, RunFresh
<1>8. CASE Store(r)
  <2>1. req[r].pc = "set"
    BY <1>8 DEF Store
  <2>2. /\ req[r].answer \in Answer /\ Current(req[r].answer.data, req[r].age)
        /\ Current(req[r].answer.forecast, CostAge("forecast") + req[r].age)
    BY <1>1, <2>1 DEF Good, Request, WellFormed, RequestFresh
  <2>3. Returns(r, req[r].answer)
    BY <1>8, <1>1 DEF Store, Good, Request, FreshInv, TypeOK
  <2>4. req'[r].answer = req[r].answer
    BY <2>2, <2>3, ReturnedAnswer
  <2>5. QED
    BY <2>1, <2>2, <2>4, RunFresh
<1>9. CASE \/ \E p \in Providers : Fetch(r, p)
           \/ Explored(r) \/ Recommended(r) \/ Mismatch(r) \/ Finish(r)
  <2>1. ASSUME NEW answer, ToStore(r, answer) PROVE FALSE
    BY <2>1, Goes DEF ToStore
  <2>2. ~Explored(r) /\ ~Recommended(r)
    BY <2>1 DEF Explored, Recommended
  <2>3. ~Mismatch(r)
    BY Goes DEF Mismatch
  <2>4. ~Finish(r)
    <3>1. Idle.pc = "idle"
      BY DEF Idle
    <3>2. QED
      BY <3>1, Replaced DEF Finish
  <2>5. ASSUME NEW p \in Providers, Fetch(r, p) PROVE FALSE
    <3> DEFINE q == [req[r] EXCEPT !.waiting = req[r].waiting \ {p},
                                   !.data = [req[r].data EXCEPT ![p] = source[p]]]
    <3>1. q.pc = req[r].pc
      BY <1>1 DEF Good, Request
    <3>2. req' = [req EXCEPT ![r] = q]
      BY <2>5 DEF Fetch
    <3>3. QED
      BY <3>1, <3>2, Replaced
  <2>6. QED
    BY <1>9, <2>2, <2>3, <2>4, <2>5
<1>10. QED
  BY <1>4, <1>5, <1>6, <1>7, <1>8, <1>9 DEF Step

\* No other step makes a request answer.
LEMMA NextAnswers ==
  ASSUME FreshInv, Next, NEW r \in Requests, req[r].pc # "done", req'[r].pc = "done"
  PROVE  Fresh(r, req'[r].answer)
<1>1. Step(r)
  <2>1. ASSUME NEW o \in Requests, Step(o) PROVE o = r
    <3>1. \E q : req' = [req EXCEPT ![o] = q]
      BY <2>1 DEF Step, Hit, Miss, Fetch, Explored, Recommended, Forecast, Evaluate,
                  Mismatch, Store, Finish, Returns, ToStore
    <3>2. QED
      BY <3>1, OthersWait
  <2>2. ASSUME NEW o \in Requests, NEW s \in Endpoints, Begin(o, s) PROVE FALSE
    BY <2>2 DEF Begin, Idle, FreshInv, TypeOK
  <2>3. ~(\E p \in Providers, v \in Versions \cup {Failing} : Change(p, v))
    BY DEF Change
  <2>4. ~EditBudget /\ ~Restart
    BY DEF EditBudget, Restart, Idle
  <2>5. ~Tick
    BY RequestType DEF Tick, Running, Good, Request
  <2>6. QED
    BY <2>1, <2>2, <2>3, <2>4, <2>5 DEF Next
<1>2. QED
  BY <1>1, StepAnswers

\* No answer shows costs older than the lifetimes of the entries it went
\* through, whatever is cached, fails, is edited or restarts in between.
THEOREM AnswersAreFresh == Spec => AnswersFresh
<1> DEFINE Freshly == \A r \in Requests :
             req[r].pc # "done" /\ req'[r].pc = "done" =>
               /\ Current(req'[r].answer.data, CostAge(req[r].endpoint))
               /\ Current(req'[r].answer.forecast, ForecastAge)
<1>1. FreshInv /\ [Next]_vars => [Freshly]_vars
  BY NextAnswers DEF Fresh
<1>2. Spec => [][Freshly]_vars
  BY <1>1, FreshAlways, PTL DEF Spec
<1>3. QED
  BY <1>2 DEF AnswersFresh

-----------------------------------------------------------------------------
(* What the answers are about                                              *)

\* An entry of a service with an explicit status holds costs, and one of an
\* evaluation is that of the enabled budget its key names.
EntryHonest(k, answer) ==
  /\ k[1] \in {"forecast", "budget"} => answer.data \notin {None, NoRecords}
  /\ k[1] = "budget" => answer.budget = k[2] /\ k[2].enabled

\* So does what a request is about to store, or holds while it asks for the
\* forecast; an evaluation that is answered is that of the row that was read.
RequestHonest(q) ==
  /\ q.pc = "load" /\ q.at = "budget" => q.budget.enabled
  /\ q.pc = "set" /\ q.at \in {"forecast", "budget"} =>
       q.answer.data \notin {None, NoRecords}
  /\ q.pc = "set" /\ q.at = "budget" =>
       q.answer.budget = q.budget /\ q.budget.enabled
  /\ q.at # q.endpoint => /\ q.held.data \notin {None, NoRecords}
                          /\ q.held.budget = q.budget /\ q.budget.enabled
  /\ q.pc = "done" /\ q.endpoint = "budget" =>
       /\ q.answer.budget = q.budget
       /\ ~q.budget.enabled => q.answer.data = None

HonestInv ==
  /\ FreshInv
  /\ \A k \in DOMAIN store : EntryHonest(k, store[k].answer)
  /\ \A r \in Requests : RequestHonest(req[r])

\* Nothing is stored or held at the start.
LEMMA HonestInit == Init => HonestInv
<1>1. Idle.pc = "idle" /\ Idle.at = Idle.endpoint
  BY DEF Idle
<1>2. RequestHonest(Idle)
  BY <1>1 DEF RequestHonest
<1>3. QED
  BY <1>2, FreshInit DEF Init, HonestInv

\* What a stored entry, and a request, is about does not depend on the rest of
\* the state: a step that replaces one request needs to look at that one only.
LEMMA HonestStep1 ==
  ASSUME HonestInv, FreshInv', NEW r \in Requests, UNCHANGED store,
         \E q : RequestHonest(q) /\ req' = [req EXCEPT ![r] = q]
  PROVE  HonestInv'
<1>1. PICK q : RequestHonest(q) /\ req' = [req EXCEPT ![r] = q]
  OBVIOUS
<1>2. \A o \in Requests : req'[o] \in {q, req[o]}
  BY <1>1 DEF HonestInv, FreshInv, TypeOK
<1>3. \A o \in Requests : RequestHonest(req'[o])
  BY <1>1, <1>2 DEF HonestInv
<1>4. QED
  BY <1>3 DEF HonestInv

\* Returning an evaluation of the row that was read, or a forecast to the
\* evaluation that asked for it, leaves an honest request.
LEMMA ReturnsHonest ==
  ASSUME HonestInv, NEW r \in Requests, NEW answer, Returns(r, answer),
         req[r].pc \in {"get", "load", "set"},
         req[r].at = "budget" =>
           /\ answer.budget = req[r].budget
           /\ ~req[r].budget.enabled => answer.data = None
  PROVE  \E q : RequestHonest(q) /\ req' = [req EXCEPT ![r] = q]
<1>0. Good(req[r]) /\ RequestHonest(req[r])
  BY RequestType DEF HonestInv
<1>1. CASE req[r].at = req[r].endpoint
  <2> DEFINE q == [req[r] EXCEPT !.pc = "done", !.answer = answer]
  <2>1. q.pc = "done" /\ q.at = req[r].at /\ q.endpoint = req[r].endpoint
        /\ q.answer = answer /\ q.budget = req[r].budget
    BY <1>0 DEF Good, Request
  <2>2. RequestHonest(q)
    BY <1>1, <2>1 DEF RequestHonest
  <2>3. req' = [req EXCEPT ![r] = q]
    BY <1>1 DEF Returns
  <2>4. QED
    BY <2>2, <2>3
<1>2. CASE req[r].at # req[r].endpoint
  <2> DEFINE part == IF answer.found THEN answer.data ELSE None
             full == [req[r].held EXCEPT !.forecast = part]
             q == [req[r] EXCEPT !.pc = "set", !.at = "budget", !.answer = full]
  <2>1. req[r].held \in Answer /\ req[r].endpoint = "budget"
    BY <1>0, <1>2 DEF Good, Request, WellFormed
  <2>2. full.data = req[r].held.data /\ full.budget = req[r].held.budget
    BY <2>1 DEF Answer
  <2>3. q.pc = "set" /\ q.at = "budget" /\ q.endpoint = "budget"
        /\ q.answer = full /\ q.budget = req[r].budget
    BY <1>0, <2>1 DEF Good, Request
  <2>4. /\ req[r].held.data \notin {None, NoRecords}
        /\ req[r].held.budget = req[r].budget /\ req[r].budget.enabled
    BY <1>0, <1>2 DEF RequestHonest
  <2> HIDE DEF full
  <2>5. RequestHonest(q)
    BY <2>2, <2>3, <2>4 DEF RequestHonest
  <2>6. req' = [req EXCEPT ![r] = q]
    BY <1>2 DEF Returns, full
  <2>7. QED
    BY <2>5, <2>6
<1>3. QED
  BY <1>1, <1>2

\* A hit under an evaluation's key is the evaluation of the row that was read.
LEMMA HitHonest ==
  ASSUME HonestInv, NEW r \in Requests, Hit(r)
  PROVE  \E q : RequestHonest(q) /\ req' = [req EXCEPT ![r] = q]
<1>1. PICK answer \in GetJson(Key(r)) \ {None} : Returns(r, answer)
  BY DEF Hit
<1>2. Key(r) \in DOMAIN store /\ answer = store[Key(r)].answer
  BY <1>1 DEF GetJson
<1>3. EntryHonest(Key(r), answer)
  BY <1>2 DEF HonestInv
<1>4. req[r].at = "budget" => Key(r)[1] = "budget" /\ Key(r)[2] = req[r].budget
  BY DEF Key
<1>5. req[r].at = "budget" =>
        answer.budget = req[r].budget /\ req[r].budget.enabled
  BY <1>3, <1>4 DEF EntryHonest
<1>6. QED
  BY <1>1, <1>5, ReturnsHonest DEF Hit

\* A miss sends only an enabled budget on to the providers.
LEMMA MissHonest ==
  ASSUME HonestInv, NEW r \in Requests, Miss(r)
  PROVE  \E q : RequestHonest(q) /\ req' = [req EXCEPT ![r] = q]
<1>0. Good(req[r]) /\ RequestHonest(req[r]) /\ req[r].pc = "get"
  BY RequestType DEF HonestInv, Miss
<1>1. CASE req[r].at = "budget" /\ ~req[r].budget.enabled
  <2>1. Returns(r, Evaluation(r, None))
    BY <1>1 DEF Miss
  <2>2. Evaluation(r, None).budget = req[r].budget /\ Evaluation(r, None).data = None
    BY DEF Evaluation, Plain
  <2>3. QED
    BY <1>0, <2>1, <2>2, ReturnsHonest
<1>2. CASE ~(req[r].at = "budget" /\ ~req[r].budget.enabled)
  <2> DEFINE q == [req[r] EXCEPT !.pc = "load", !.waiting = Providers,
                                 !.data = NoRecords]
  <2>1. q.pc = "load" /\ q.at = req[r].at /\ q.endpoint = req[r].endpoint
        /\ q.held = req[r].held /\ q.budget = req[r].budget
    BY <1>0 DEF Good, Request
  <2>2. RequestHonest(q)
    BY <1>0, <1>2, <2>1 DEF RequestHonest
  <2>3. req' = [req EXCEPT ![r] = q]
    BY <1>2 DEF Miss
  <2>4. QED
    BY <2>2, <2>3
<1>3. QED
  BY <1>1, <1>2

\* A provider's answer changes nothing of what the request is about.
LEMMA FetchHonest ==
  ASSUME HonestInv, NEW r \in Requests, NEW p \in Providers, Fetch(r, p)
  PROVE  \E q : RequestHonest(q) /\ req' = [req EXCEPT ![r] = q]
<1> DEFINE q == [req[r] EXCEPT !.waiting = req[r].waiting \ {p},
                               !.data = [req[r].data EXCEPT ![p] = source[p]]]
<1>1. Good(req[r]) /\ RequestHonest(req[r]) /\ req[r].pc = "load"
  BY RequestType DEF HonestInv, Fetch
<1>2. q.pc = "load" /\ q.at = req[r].at /\ q.endpoint = req[r].endpoint
      /\ q.held = req[r].held /\ q.budget = req[r].budget
  BY <1>1 DEF Good, Request
<1>3. RequestHonest(q)
  BY <1>1, <1>2 DEF RequestHonest
<1>4. QED
  BY <1>3 DEF Fetch

\* A service stores an answer without costs only if it is one of those that
\* have no explicit status.
LEMMA ToStoreHonest ==
  ASSUME HonestInv, NEW r \in Requests, NEW answer, ToStore(r, answer),
         req[r].pc = "load",
         req[r].at \in {"forecast", "budget"} => answer.data \notin {None, NoRecords},
         req[r].at = "budget" => answer.budget = req[r].budget
  PROVE  \E q : RequestHonest(q) /\ req' = [req EXCEPT ![r] = q]
<1> DEFINE q == [req[r] EXCEPT !.pc = "set", !.answer = answer]
<1>1. Good(req[r]) /\ RequestHonest(req[r])
  BY RequestType DEF HonestInv
<1>2. q.pc = "set" /\ q.answer = answer /\ q.at = req[r].at
      /\ q.endpoint = req[r].endpoint /\ q.held = req[r].held
      /\ q.budget = req[r].budget
  BY <1>1 DEF Good, Request
<1>3. RequestHonest(q)
  BY <1>1, <1>2 DEF RequestHonest
<1>4. QED
  BY <1>3 DEF ToStore

\* A request that fails holds nothing any more.
LEMMA FailHonest ==
  ASSUME HonestInv, NEW r \in Requests, req[r].at = req[r].endpoint,
         req' = [req EXCEPT ![r].pc = "failed"]
  PROVE  \E q : RequestHonest(q) /\ req' = [req EXCEPT ![r] = q]
<1> DEFINE q == [req[r] EXCEPT !.pc = "failed"]
<1>1. Good(req[r])
  BY RequestType DEF HonestInv
<1>2. q.pc = "failed" /\ q.at = q.endpoint
  BY <1>1 DEF Good, Request
<1>3. RequestHonest(q)
  BY <1>2 DEF RequestHonest
<1>4. req' = [req EXCEPT ![r] = q]
  OBVIOUS
<1>5. QED
  BY <1>3, <1>4

\* The services that have loaded: an empty forecast and an unavailable
\* evaluation are returned at once.
LEMMA LoadedHonest ==
  ASSUME HonestInv, NEW r \in Requests,
         Explored(r) \/ Recommended(r) \/ Forecast(r) \/ Evaluate(r)
  PROVE  \E q : RequestHonest(q) /\ req' = [req EXCEPT ![r] = q]
<1>0. Good(req[r]) /\ RequestHonest(req[r]) /\ FreshInv
  BY RequestType DEF HonestInv
<1>1. CASE Explored(r)
  <2>1. req[r].pc = "load" /\ req[r].at \in {"explorer", "anomaly"}
    BY <1>1 DEF Explored, Loaded
  <2>2. QED
    BY <1>1, <2>1, ToStoreHonest DEF Explored
<1>2. CASE Recommended(r)
  <2>1. req[r].pc = "load" /\ req[r].at = "recommendations"
    BY <1>2 DEF Recommended, Loaded
  <2>2. PICK found : ToStore(r, Plain(req[r].data, found))
    BY <1>2 DEF Recommended
  <2>3. QED
    BY <2>1, <2>2, ToStoreHonest
<1>3. CASE Forecast(r)
  <2>1. req[r].pc = "load" /\ req[r].at = "forecast" /\ req[r].data \in Data
    BY <1>0, <1>3, LoadedCurrent DEF Forecast
  <2>2. CASE Returns(r, Plain(None, FALSE))
    BY <2>1, <2>2, ReturnsHonest
  <2>3. CASE req[r].data # NoRecords /\ ToStore(r, Plain(req[r].data, TRUE))
    <3>1. Plain(req[r].data, TRUE).data = req[r].data
      BY DEF Plain
    <3>2. QED
      BY <2>1, <2>3, <3>1, ToStoreHonest
  <2>4. QED
    BY <1>3, <2>2, <2>3 DEF Forecast
<1>4. CASE Evaluate(r)
  <2> DEFINE e == Evaluation(r, req[r].data)
  <2>1. req[r].pc = "load" /\ req[r].at = "budget" /\ req[r].data \in Data
    BY <1>0, <1>4, LoadedCurrent DEF Evaluate
  <2>2. e.data = req[r].data /\ e.budget = req[r].budget
    BY DEF Evaluation, Plain
  <2>3. req[r].budget.enabled /\ req[r].endpoint = "budget"
    BY <1>0, <2>1 DEF RequestHonest, Good, WellFormed
  <2>4. CASE req[r].data = NoRecords
    <3>1. Returns(r, e)
      BY <1>4, <2>4 DEF Evaluate
    <3> HIDE DEF e
    <3>2. QED
      BY <2>1, <2>2, <2>3, <3>1, ReturnsHonest
  <2>5. CASE req' = [req EXCEPT ![r].pc = "failed"]
    BY <2>1, <2>3, <2>5, FailHonest
  <2>6. CASE req[r].data # NoRecords /\ ToStore(r, e)
    BY <2>1, <2>2, <2>6, ToStoreHonest
  <2>7. CASE /\ req[r].data # NoRecords
             /\ req' = [req EXCEPT ![r] = [@ EXCEPT !.pc = "get", !.at = "forecast",
                                                    !.held = e]]
    <3> DEFINE q == [req[r] EXCEPT !.pc = "get", !.at = "forecast", !.held = e]
    <3>1. q.pc = "get" /\ q.held = e /\ q.budget = req[r].budget
      BY <1>0 DEF Good, Request
    <3> HIDE DEF e
    <3>2. RequestHonest(q)
      BY <2>1, <2>2, <2>3, <2>7, <3>1 DEF RequestHonest
    <3>3. req' = [req EXCEPT ![r] = q]
      BY <2>7
    <3>4. QED
      BY <3>2, <3>3
  <2>8. QED
    BY <1>4, <2>4, <2>5, <2>6, <2>7 DEF Evaluate
<1>5. QED
  BY <1>1, <1>2, <1>3, <1>4

\* What is stored is honest: the request was, and its key names its row.
LEMMA StoreHonest ==
  ASSUME HonestInv, FreshInv', NEW r \in Requests, Store(r)
  PROVE  HonestInv'
<1>0. Good(req[r]) /\ RequestHonest(req[r]) /\ req[r].pc = "set"
  BY RequestType DEF HonestInv, Store
<1>1. CASE Unserialisable(r)
  <2>1. req[r].at = req[r].endpoint
    BY <1>0, <1>1 DEF Unserialisable, Good, WellFormed
  <2>2. req' = [req EXCEPT ![r].pc = "failed"] /\ UNCHANGED store
    BY <1>1 DEF Store
  <2>3. QED
    BY <2>1, <2>2, FailHonest, HonestStep1
<1>2. CASE ~Unserialisable(r)
  <2> DEFINE a == req[r].answer
  <2>1. Returns(r, a) /\ SetJson(Key(r), a)
    BY <1>2 DEF Store
  <2>2. PICK q : RequestHonest(q) /\ req' = [req EXCEPT ![r] = q]
    BY <1>0, <2>1, ReturnsHonest DEF RequestHonest
  <2>3. \A o \in Requests : req'[o] \in {q, req[o]}
    BY <2>2 DEF HonestInv, FreshInv, TypeOK
  <2>4. \A o \in Requests : RequestHonest(req'[o])
    BY <2>2, <2>3 DEF HonestInv
  <2>5. Key(r)[1] = req[r].at /\ (req[r].at = "budget" => Key(r)[2] = req[r].budget)
    BY DEF Key
  <2>6. EntryHonest(Key(r), a)
    BY <1>0, <2>5 DEF EntryHonest, RequestHonest
  <2>7. ASSUME NEW k \in DOMAIN store'
        PROVE  \/ k \in DOMAIN store /\ store'[k] = store[k]
               \/ k = Key(r) /\ store'[k].answer = a
    BY <2>1 DEF SetJson
  <2>8. \A k \in DOMAIN store' : EntryHonest(k, store'[k].answer)
    BY <2>6, <2>7 DEF HonestInv
  <2>9. QED
    BY <2>4, <2>8 DEF HonestInv
<1>3. QED
  BY <1>1, <1>2

\* Every step keeps the entries and the requests honest.
LEMMA HonestStep == HonestInv /\ [Next]_vars => HonestInv'
<1> SUFFICES ASSUME HonestInv, [Next]_vars PROVE HonestInv'
  OBVIOUS
<1>0. FreshInv'
  BY FreshStep DEF HonestInv
<1>1. RequestHonest(Idle)
  BY DEF RequestHonest, Idle
<1>2. ASSUME NEW r \in Requests, Step(r) PROVE HonestInv'
  <2>1. CASE Store(r)
    BY <1>0, <2>1, StoreHonest
  <2>2. CASE Mismatch(r)
    <3>1. req[r].at = req[r].endpoint /\ UNCHANGED store
      BY <2>2, RequestType DEF Mismatch, HonestInv, Good, WellFormed
    <3>2. QED
      BY <1>0, <2>2, <3>1, FailHonest, HonestStep1 DEF Mismatch
  <2>3. CASE Finish(r)
    BY <1>0, <1>1, <2>3, HonestStep1 DEF Finish
  <2>4. CASE Hit(r)
    BY <1>0, <2>4, HitHonest, HonestStep1 DEF Hit
  <2>5. CASE Miss(r)
    BY <1>0, <2>5, MissHonest, HonestStep1 DEF Miss
  <2>6. CASE \E p \in Providers : Fetch(r, p)
    BY <1>0, <2>6, FetchHonest, HonestStep1 DEF Fetch
  <2>7. CASE Explored(r) \/ Recommended(r) \/ Forecast(r) \/ Evaluate(r)
    <3>1. UNCHANGED store
      BY <2>7 DEF Explored, Recommended, Forecast, Evaluate
    <3>2. QED
      BY <1>0, <2>7, <3>1, LoadedHonest, HonestStep1
  <2>8. QED
    BY <1>2, <2>1, <2>2, <2>3, <2>4, <2>5, <2>6, <2>7 DEF Step
<1>3. ASSUME NEW r \in Requests, NEW s \in Endpoints, Begin(r, s) PROVE HonestInv'
  <2> DEFINE q == [Idle EXCEPT !.pc = "get", !.endpoint = s, !.at = s,
                               !.budget = IF s = "budget" THEN budget ELSE None]
  <2>1. RequestHonest(q)
    BY DEF RequestHonest, Idle
  <2>2. req' = [req EXCEPT ![r] = q] /\ UNCHANGED store
    BY <1>3 DEF Begin
  <2>3. QED
    BY <1>0, <2>1, <2>2, HonestStep1
<1>4. CASE \/ \E p \in Providers, v \in Versions \cup {Failing} : Change(p, v)
           \/ EditBudget \/ UNCHANGED vars
  BY <1>0, <1>4 DEF HonestInv, Change, EditBudget
<1>5. CASE Restart
  BY <1>0, <1>1, <1>5 DEF HonestInv, Restart
<1>6. CASE Tick
  <2>1. \A k \in DOMAIN store' : k \in DOMAIN store /\ store'[k].answer = store[k].answer
    BY <1>6 DEF Tick, Aged, HonestInv, FreshInv, TypeOK
  <2>2. ASSUME NEW r \in Requests PROVE RequestHonest(req'[r])
    <3>1. req'[r] \in {req[r], [req[r] EXCEPT !.age = @ + 1]}
      BY <1>6 DEF Tick
    <3>2. Good(req[r]) /\ RequestHonest(req[r])
      BY RequestType DEF HonestInv
    <3>3. RequestHonest([req[r] EXCEPT !.age = @ + 1])
      BY <3>2 DEF Good, Request, RequestHonest
    <3>4. QED
      BY <3>1, <3>2, <3>3
  <2>3. QED
    BY <1>0, <2>1, <2>2 DEF HonestInv
<1>7. QED
  BY <1>2, <1>3, <1>4, <1>5, <1>6 DEF Next

\* The invariant holds in every state of the readers.
LEMMA HonestAlways == Spec => []HonestInv
BY HonestInit, HonestStep, PTL DEF Spec

\* However requests interleave and budgets are edited, a cached evaluation never
\* answers a request for another state of the budget.
THEOREM EvaluationsAreOfTheBudgetRead == Spec => []EvaluationOfBudgetRead
<1>1. HonestInv => EvaluationOfBudgetRead
  BY DEF HonestInv, RequestHonest, EvaluationOfBudgetRead
<1>2. QED
  BY <1>1, HonestAlways, PTL

\* Redis never remembers an unavailable evaluation or an empty forecast.
THEOREM OutagesAreNotCached == Spec => []OutageNotCached
<1>1. HonestInv => OutageNotCached
  BY DEF HonestInv, EntryHonest, OutageNotCached
<1>2. QED
  BY <1>1, HonestAlways, PTL
=============================================================================
