--------------------------- MODULE AiAnswersProofs ---------------------------
(***************************************************************************)
(* Proofs about the answers that quote the language model. The invariant   *)
(* says what every entry of Redis is about, how old it can be, and how far *)
(* every request has come; one more conjunct, of requests and cache        *)
(* together, is what a retry relies on.                                    *)
(***************************************************************************)
EXTENDS AiAnswersProperties, TLAPS

USE DEF vars

-----------------------------------------------------------------------------
(* The invariant. The service of a behaviour and its items are parameters: *)
(* no step changes them.                                                   *)

FactsOf(items) ==
  [item : items, finding : Figures \cup {None}, records : Figures \cup {None}]
TextsOf(items) ==
  [of : FactsOf(items), claims : SUBSET (Figures \cup Small), foundAge : Nat, readAge : Nat]
EntriesOf(items) == [explanation : TextsOf(items), left : 1..AiTtl]

KeyOf(service, facts) ==
  IF service \in {"insights", "anomaly"}
  THEN [item |-> facts.item, finding |-> None, records |-> None] ELSE facts
KeysOf(service, items) == {KeyOf(service, facts) : facts \in FactsOf(items)}

\* An event comes without a finding, an anomaly is one of its detection.
FactGood(service, facts) ==
  /\ service = "insights" => facts.finding = None /\ facts.records = None
  /\ service = "anomaly" =>
       facts.finding \in Figures /\ facts.item \in Anomalies[facts.finding]

TextGood(service, text) ==
  /\ FactGood(service, text.of)
  /\ service # "insights" => text.claims \ Small \subseteq Numbers(text.of)

IsOf(service, text, facts) ==
  IF service = "anomaly"
  THEN text.of.item = facts.item /\ facts.item \in Anomalies[text.of.finding]
  ELSE text.of = facts

\* An entry explains what its key stands for, and loses its time as it ages.
EntryGood(service, key, entry) ==
  /\ KeyOf(service, entry.explanation.of) = key
  /\ TextGood(service, entry.explanation)
  /\ entry.explanation.readAge + entry.left <= AiTtl + MaxRun
  /\ entry.explanation.foundAge + entry.left < AiTtl + DetectTtl + MaxRun

Steps == {"idle", "resolve", "found", "read", "look", "model", "store", "answered"}
Explains == {"look", "model", "store"}
Between == {"idle", "answered"}

Shaped(items, q) ==
  q \in [pc : Steps, item : items \cup {None}, ai : {q.ai}, finding : Figures \cup {None},
         facts : Seq(FactsOf(items)), done : Seq(TextsOf(items)),
         text : TextsOf(items) \cup {None}, status : Statuses \cup {None},
         told : {q.told}, foundAge : Nat, readAge : Nat, age : 0..MaxRun, clean : {q.clean}]

\* What a request knows of its facts before it explains them.
Resolves(service, items, q) ==
  /\ service = "insights" => q.item = None
  /\ service # "insights" /\ q.pc # "idle" => q.item \in items
  /\ q.pc = "found" => service = "anomaly" /\ q.finding \in Figures
  /\ q.pc = "read" =>
       /\ service # "insights"
       /\ service = "anomaly" => q.finding \in Figures /\ q.item \in Anomalies[q.finding]
  /\ q.pc \in {"idle", "resolve", "found", "read"} => q.facts = <<>> /\ q.done = <<>>

\* Only events are explained one after the other.
Explaining(service, q) ==
  /\ \A i \in DOMAIN q.facts : FactGood(service, q.facts[i])
  /\ service # "insights" => Len(q.facts) <= 1
  /\ Len(q.done) <= Len(q.facts)
  /\ \A i \in DOMAIN q.done :
       /\ TextGood(service, q.done[i])
       /\ IsOf(service, q.done[i], q.facts[i])
       /\ q.done[i].readAge < AiTtl + MaxRun
       /\ q.done[i].foundAge < AiTtl + DetectTtl + MaxRun

\* The facts are as old as the request, the detection as its entry besides.
Ages(readAge, foundAge, age) == readAge <= age /\ foundAge < DetectTtl + age

Writes(service, setting, items, q) ==
  /\ Ages(q.readAge, q.foundAge, q.age)
  /\ q.pc \in Explains =>
       /\ Len(q.done) < Len(q.facts)
       /\ service = "insights" => setting = "on"
  /\ q.pc = "store" =>
       /\ q.text \in TextsOf(items) /\ q.text.of = q.facts[Len(q.done) + 1]
       /\ TextGood(service, q.text)
       /\ Ages(q.text.readAge, q.text.foundAge, q.age)

Honest(q) ==
  /\ q.status = "ready" <=> q.done # <<>>
  /\ q.status = "ready" => (q.told <=> Len(q.done) < Len(q.facts))
  /\ q.status = "error" => q.facts = <<>>

RequestGood(service, setting, items, q) ==
  /\ Shaped(items, q)
  /\ Resolves(service, items, q)
  /\ Explaining(service, q)
  /\ Writes(service, setting, items, q)
  /\ q.pc = "answered" => Honest(q)

\* What a request without delay and failure of Redis has explained is there.
Paid(service, up, kept, q) ==
  q.pc \notin Between /\ q.clean /\ q.age = 0 =>
    up /\ \A i \in DOMAIN q.done : KeyOf(service, q.done[i].of) \in kept

Kept == {k \in DOMAIN cache : cache[k] # None}

Settings ==
  /\ kind \in {"insights", "anomaly", "advisor", "copilot"}
  /\ figures \in Figures
  /\ config \in {"on", "nokey", "off"}
  /\ redis \in {"up", "down", "none"}
  /\ quota \in 0..Quota
  /\ faults \in 0..MaxFaults
  /\ detected \in [figures : Figures, age : 0..DetectTtl - 1] \cup {None}

CacheGood ==
  /\ cache \in [KeysOf(kind, Items) -> EntriesOf(Items) \cup {None}]
  /\ \A k \in Kept : EntryGood(kind, k, cache[k])

RequestsGood ==
  /\ req = [r \in Requests |-> req[r]]
  /\ \A r \in Requests :
       RequestGood(kind, config, Items, req[r]) /\ Paid(kind, redis = "up", Kept, req[r])

AiInv == Settings /\ CacheGood /\ RequestsGood
-----------------------------------------------------------------------------
(* The operators                                                           *)

LEMMA Bounds ==
  /\ AiTtl \in Nat /\ AiTtl >= 1 /\ DetectTtl \in Nat /\ DetectTtl >= 1
  /\ MaxRun \in Nat /\ Quota \in Nat /\ MaxFaults \in Nat /\ None # "unsupported"
<1>1. "unsupported" \in Intents
  BY DEF Intents
<1>2. Intents \subseteq AnyItem
  BY DEF AnyItem
<1>3. /\ AiTtl \in Nat /\ AiTtl >= 1 /\ DetectTtl \in Nat /\ DetectTtl >= 1
      /\ MaxRun \in Nat /\ Quota \in Nat /\ MaxFaults \in Nat
  BY AiAssumption
<1>4. QED
  BY <1>1, <1>2, <1>3, NoneAssumption

LEMMA ItemsAreAny ==
  kind \in {"insights", "anomaly", "advisor", "copilot"} => Items \subseteq AnyItem
<1> SUFFICES ASSUME kind \in {"insights", "anomaly", "advisor", "copilot"}
             PROVE  Items \subseteq AnyItem
  OBVIOUS
<1>1. CASE kind = "insights"
  BY <1>1 DEF Items, AnyItem
<1>2. CASE kind = "anomaly"
  <2>1. Items = UNION {Anomalies[f] : f \in Figures}
    BY <1>2 DEF Items
  <2>2. QED
    BY <2>1 DEF AnyItem
<1>3. CASE kind = "advisor"
  <2>1. Items = {"recommendation"}
    BY <1>3 DEF Items
  <2>2. QED
    BY <2>1 DEF AnyItem
<1>4. CASE kind = "copilot"
  <2>1. Items = Questions
    BY <1>4 DEF Items
  <2>2. Questions \subseteq Intents
    BY AiAssumption
  <2>3. QED
    BY <2>1, <2>2 DEF AnyItem
<1>5. QED
  BY <1>1, <1>2, <1>3, <1>4

\* What the model calls them.
LEMMA Named ==
  /\ Facts = FactsOf(Items) /\ Text = TextsOf(Items)
  /\ \A facts \in Facts : Key(facts) = KeyOf(kind, facts)
  /\ {Key(facts) : facts \in Facts} = KeysOf(kind, Items)
<1>1. Facts = FactsOf(Items)
  BY DEF Facts, FactsOf
<1>2. ASSUME NEW facts \in Facts PROVE Key(facts) = KeyOf(kind, facts)
  <2> DEFINE key == [facts EXCEPT !.finding = None, !.records = None]
  <2>1. key \in [item : {facts.item}, finding : {None}, records : {None}]
    BY DEF Facts
  <2> HIDE DEF key
  <2>2. key = [item |-> facts.item, finding |-> None, records |-> None]
    BY <2>1
  <2>3. QED
    BY <2>2 DEF Key, KeyOf, key
<1>3. {Key(facts) : facts \in Facts} = KeysOf(kind, Items)
  BY <1>1, <1>2 DEF KeysOf
<1>4. Text = TextsOf(Items)
  BY <1>1 DEF Text, TextsOf
<1>5. QED
  BY <1>1, <1>2, <1>3, <1>4

\* No text and no entry is None.
LEMMA NoneIsNoText ==
  ASSUME NEW items \in SUBSET AnyItem
  PROVE  None \notin TextsOf(items) /\ None \notin EntriesOf(items)
<1>1. ASSUME NEW text \in TextsOf(items) PROVE text \in AnyText
  <2>1. /\ text.of \in FactsOf(items) /\ text.claims \in SUBSET (Figures \cup Small)
        /\ text.foundAge \in Nat /\ text.readAge \in Nat
        /\ text = [of |-> text.of, claims |-> text.claims, foundAge |-> text.foundAge,
                   readAge |-> text.readAge]
    BY DEF TextsOf
  <2>2. text.of \in [item : AnyItem, finding : Figures \cup {None},
                    records : Figures \cup {None}]
    BY <2>1 DEF FactsOf
  <2>3. QED
    BY <2>1, <2>2 DEF AnyText
<1>2. ASSUME NEW entry \in EntriesOf(items)
      PROVE  entry \in [explanation : AnyText, left : 1..AiTtl]
  <2>1. /\ entry.explanation \in AnyText /\ entry.left \in 1..AiTtl
        /\ entry = [explanation |-> entry.explanation, left |-> entry.left]
    BY <1>1 DEF EntriesOf
  <2>2. QED
    BY <2>1
<1>3. QED
  BY <1>1, <1>2, NoneAssumption

LEMMA KeyInKeys ==
  ASSUME NEW service, NEW items, NEW facts \in FactsOf(items)
  PROVE  KeyOf(service, facts) \in KeysOf(service, items)
BY DEF KeysOf

\* A key determines the event or the context; of an anomaly, which one it is.
LEMMA KeyTells ==
  ASSUME NEW service, NEW items, NEW text \in TextsOf(items), NEW facts \in FactsOf(items),
         FactGood(service, text.of), FactGood(service, facts),
         KeyOf(service, text.of) = KeyOf(service, facts)
  PROVE  IsOf(service, text, facts)
<1> DEFINE of == text.of
<1>1. of \in FactsOf(items)
  BY DEF TextsOf
<1> HIDE DEF of
<1>2. /\ of = [item |-> of.item, finding |-> of.finding, records |-> of.records]
      /\ facts = [item |-> facts.item, finding |-> facts.finding, records |-> facts.records]
  BY <1>1 DEF FactsOf
<1>3. KeyOf(service, of) = KeyOf(service, facts) /\ FactGood(service, of)
  BY DEF of
<1>4. CASE service \in {"insights", "anomaly"}
  <2>2. [item |-> of.item, finding |-> None, records |-> None] =
          [item |-> facts.item, finding |-> None, records |-> None]
    BY <1>3, <1>4 DEF KeyOf
  <2>3. of.item = facts.item
    <3> DEFINE a == [item |-> of.item, finding |-> None, records |-> None]
               b == [item |-> facts.item, finding |-> None, records |-> None]
    <3>1. a.item = of.item /\ b.item = facts.item /\ a = b
      BY <2>2
    <3>2. QED
      BY <3>1
  <2>4. CASE service = "anomaly"
    BY <1>3, <2>3, <2>4 DEF IsOf, FactGood, of
  <2>5. CASE service = "insights"
    <3>1. of = facts
      BY <1>2, <1>3, <2>3, <2>5 DEF FactGood
    <3>2. QED
      BY <2>5, <3>1 DEF IsOf, of
  <2>6. QED
    BY <1>4, <2>4, <2>5
<1>5. CASE service \notin {"insights", "anomaly"}
  BY <1>3, <1>5 DEF KeyOf, IsOf, of
<1>6. QED
  BY <1>4, <1>5

\* No step changes the service, its items or the settings of the process.
LEMMA KindStays == Next => kind' = kind /\ config' = config /\ Items' = Items
<1>1. Next => kind' = kind /\ config' = config
  BY DEF Next, Step, Ask, SelectEvents, ResolveAnomaly, CheckAnomaly, ResolveRecommendation,
     ResolveQuestion, ReadRecords, ReadInvalid, Hit, Miss, Generate, OverQuota, ModelFails,
     Store, Finish, Change, RedisFails, RedisReturns, Restart, Tick
<1>2. kind' = kind => Items' = Items
  BY DEF Items
<1>3. QED
  BY <1>1, <1>2

-----------------------------------------------------------------------------
(* Requests                                                                *)

LEMMA IdleGood ==
  ASSUME NEW service, NEW setting, NEW items
  PROVE  /\ RequestGood(service, setting, items, Idle)
         /\ \A up, kept : Paid(service, up, kept, Idle)
<1>1. /\ Idle.pc = "idle" /\ Idle.item = None /\ Idle.finding = None /\ Idle.facts = <<>>
      /\ Idle.done = <<>> /\ Idle.text = None /\ Idle.status = None
      /\ Idle.foundAge = 0 /\ Idle.readAge = 0 /\ Idle.age = 0
  BY DEF Idle
<1>2. Shaped(items, Idle)
  BY Bounds DEF Shaped, Idle, Steps
<1>3. Resolves(service, items, Idle) /\ Explaining(service, Idle)
  BY <1>1 DEF Resolves, Explaining
<1>4. Writes(service, setting, items, Idle)
  BY <1>1, Bounds DEF Writes, Ages, Explains
<1>5. QED
  BY <1>1, <1>2, <1>3, <1>4 DEF RequestGood, Paid, Between

\* What an answer keeps of the request.
LEMMA AnsweredFields ==
  ASSUME NEW items, NEW q, Shaped(items, q), NEW status \in Statuses, NEW told \in BOOLEAN
  PROVE  LET p == Answered(q, status, told)
         IN  /\ Shaped(items, p)
             /\ p.pc = "answered" /\ p.item = q.item /\ p.facts = q.facts /\ p.done = q.done
             /\ p.status = status /\ p.told = told
             /\ p.foundAge = 0 /\ p.readAge = 0 /\ p.age = 0
<1> DEFINE p == Answered(q, status, told)
<1>1. /\ p.pc = "answered" /\ p.item = q.item /\ p.finding = q.finding
      /\ p.facts = q.facts /\ p.done = q.done
      /\ p.text = None /\ p.status = status /\ p.told = told /\ p.ai = TRUE /\ p.clean = TRUE
      /\ p.foundAge = 0 /\ p.readAge = 0 /\ p.age = 0
  BY DEF Answered, Shaped
<1>2. p \in [pc : Steps, item : items \cup {None}, ai : {TRUE}, finding : Figures \cup {None},
             facts : Seq(FactsOf(items)), done : Seq(TextsOf(items)),
             text : TextsOf(items) \cup {None}, status : Statuses \cup {None},
             told : {told}, foundAge : Nat, readAge : Nat, age : 0..MaxRun, clean : {TRUE}]
  <2>1. p \in [pc : {"answered"}, item : {q.item}, ai : {TRUE}, finding : {q.finding},
               facts : {q.facts}, done : {q.done}, text : {None}, status : {status},
               told : {told}, foundAge : {0}, readAge : {0}, age : {0}, clean : {TRUE}]
    BY DEF Answered, Shaped
  <2>2. /\ q.item \in items \cup {None} /\ q.finding \in Figures \cup {None}
        /\ q.facts \in Seq(FactsOf(items)) /\ q.done \in Seq(TextsOf(items))
    BY DEF Shaped
  <2>3. "answered" \in Steps /\ 0 \in 0..MaxRun /\ 0 \in Nat
    BY Bounds DEF Steps
  <2> HIDE DEF p
  <2>4. QED
    BY <2>1, <2>2, <2>3
<1> HIDE DEF p
<1>3. Shaped(items, p)
  BY <1>1, <1>2 DEF Shaped
<1>4. QED
  BY <1>1, <1>3 DEF p

LEMMA AnsweredGood ==
  ASSUME NEW service, NEW setting, NEW items, NEW q, NEW status \in Statuses,
         NEW told \in BOOLEAN, Shaped(items, q), Explaining(service, q),
         service = "insights" => q.item = None, service # "insights" => q.item \in items,
         status = "ready" <=> q.done # <<>>,
         status = "ready" => (told <=> Len(q.done) < Len(q.facts)),
         status = "error" => q.facts = <<>>
  PROVE  /\ RequestGood(service, setting, items, Answered(q, status, told))
         /\ \A up, kept : Paid(service, up, kept, Answered(q, status, told))
<1> DEFINE p == Answered(q, status, told)
<1>1. /\ Shaped(items, p)
      /\ p.pc = "answered" /\ p.item = q.item /\ p.facts = q.facts /\ p.done = q.done
      /\ p.status = status /\ p.told = told
      /\ p.foundAge = 0 /\ p.readAge = 0 /\ p.age = 0
  BY AnsweredFields
<1> HIDE DEF p
<1>2. Resolves(service, items, p)
  BY <1>1 DEF Resolves
<1>3. Explaining(service, p)
  BY <1>1 DEF Explaining
<1>4. Writes(service, setting, items, p)
  BY <1>1, Bounds DEF Writes, Ages, Explains
<1>5. Honest(p)
  BY <1>1 DEF Honest
<1>6. QED
  BY <1>1, <1>2, <1>3, <1>4, <1>5 DEF RequestGood, Paid, Between, p

\* A step of one request.
Still == /\ kind' = kind /\ config' = config /\ Items' = Items
         /\ redis' = redis /\ cache' = cache

LEMMA OneRequest ==
  ASSUME AiInv, Still, NEW r \in Requests, NEW p, req' = [req EXCEPT ![r] = p],
         RequestGood(kind, config, Items, p), Paid(kind, redis = "up", Kept, p)
  PROVE  RequestsGood'
<1>1. Kept' = Kept /\ (redis = "up")' = (redis = "up")
  BY DEF Still, Kept
<1>2. req' = [s \in Requests |-> req'[s]]
  BY DEF AiInv, RequestsGood
<1>3. \A s \in Requests : req'[s] = IF s = r THEN p ELSE req[s]
  BY DEF AiInv, RequestsGood
<1>4. \A s \in Requests : /\ RequestGood(kind, config, Items, req'[s])
                          /\ Paid(kind, redis = "up", Kept, req'[s])
  BY <1>3 DEF AiInv, RequestsGood
<1>5. QED
  BY <1>1, <1>2, <1>4 DEF RequestsGood, Still

\* A request is answered.
LEMMA AnswerStep ==
  ASSUME AiInv, Still, NEW r \in Requests, NEW status \in Statuses, NEW told \in BOOLEAN,
         Answer(r, status, told), req[r].pc # "idle",
         status = "ready" <=> req[r].done # <<>>,
         status = "ready" => (told <=> Len(req[r].done) < Len(req[r].facts)),
         status = "error" => req[r].facts = <<>>
  PROVE  RequestsGood'
<1> DEFINE q == req[r]
           p == Answered(q, status, told)
<1>1. RequestGood(kind, config, Items, q) /\ r \in DOMAIN req
  BY DEF AiInv, RequestsGood
<1>2. req' = [req EXCEPT ![r] = p]
  BY <1>1 DEF Answer
<1>3. RequestGood(kind, config, Items, p) /\ Paid(kind, redis = "up", Kept, p)
  <2>1. Shaped(Items, q) /\ Explaining(kind, q)
    BY <1>1 DEF RequestGood
  <2>2. /\ kind = "insights" => q.item = None
        /\ kind # "insights" => q.item \in Items
    BY <1>1 DEF RequestGood, Resolves
  <2>3. QED
    BY <2>1, <2>2, AnsweredGood
<1> HIDE DEF p
<1>4. QED
  BY <1>2, <1>3, OneRequest

-----------------------------------------------------------------------------
(* The settings                                                            *)

LEMMA AiInit == Init => AiInv
<1> SUFFICES ASSUME Init PROVE AiInv
  OBVIOUS
<1>1. Settings
  BY Bounds DEF Init, Settings
<1>2. Kept = {} /\ cache \in [KeysOf(kind, Items) -> EntriesOf(Items) \cup {None}]
  BY Named DEF Init, Kept
<1>3. CacheGood
  BY <1>2 DEF CacheGood
<1>4. RequestsGood
  BY IdleGood DEF Init, RequestsGood
<1>5. QED
  BY <1>1, <1>3, <1>4 DEF AiInv

LEMMA SettingsStep == ASSUME AiInv, Next PROVE Settings'
<1>0. Settings /\ kind' = kind /\ config' = config
  BY KindStays DEF AiInv
<1>1. CASE UNCHANGED <<figures, redis, quota, faults, detected>>
  BY <1>0, <1>1 DEF Settings
<1>2. ASSUME NEW r \in Requests, ResolveAnomaly(r) PROVE Settings'
  <2>1. UNCHANGED <<figures, redis, quota, faults>>
    BY <1>2 DEF ResolveAnomaly
  <2>2. detected' \in {detected, [figures |-> figures, age |-> 0]}
    BY <1>2 DEF ResolveAnomaly, Detect
  <2>3. 0 \in 0..DetectTtl - 1
    BY Bounds
  <2>4. QED
    BY <1>0, <2>1, <2>2, <2>3 DEF Settings
<1>3. ASSUME NEW r \in Requests, Generate(r) \/ ModelFails(r) PROVE Settings'
  <2>1. UNCHANGED <<figures, redis, detected>>
    BY <1>3 DEF Generate, ModelFails
  <2>2. quota' \in 0..Quota /\ faults' \in 0..MaxFaults
    BY <1>0, <1>3, Bounds DEF Generate, ModelFails, Settings
  <2>3. QED
    BY <1>0, <2>1, <2>2 DEF Settings
<1>4. CASE Change \/ RedisFails \/ RedisReturns \/ Restart
  BY <1>0, <1>4, Bounds DEF Change, RedisFails, RedisReturns, Restart, Settings
<1>5. CASE Tick
  <2>1. UNCHANGED <<figures, redis, faults>> /\ quota' = Quota
    BY <1>5 DEF Tick
  <2>2. detected' \in [figures : Figures, age : 0..DetectTtl - 1] \cup {None}
    <3>1. CASE detected = None \/ detected.age + 1 = DetectTtl
      BY <1>5, <3>1 DEF Tick
    <3>2. CASE ~(detected = None \/ detected.age + 1 = DetectTtl)
      <4>1. detected \in [figures : Figures, age : 0..DetectTtl - 1]
        BY <1>0, <3>2 DEF Settings
      <4>2. detected' = [detected EXCEPT !.age = detected.age + 1]
        BY <1>5, <3>2, <4>1 DEF Tick
      <4>3. detected.age + 1 \in 0..DetectTtl - 1
        BY <3>2, <4>1, Bounds
      <4>4. QED
        BY <4>1, <4>2, <4>3
    <3>3. QED
      BY <3>1, <3>2
  <2>3. Quota \in 0..Quota
    BY Bounds
  <2>4. QED
    BY <1>0, <2>1, <2>2, <2>3 DEF Settings
<1>6. ASSUME NEW r \in Requests,
             \/ Ask(r) \/ SelectEvents(r) \/ CheckAnomaly(r) \/ ResolveRecommendation(r)
             \/ ResolveQuestion(r) \/ ReadRecords(r) \/ ReadInvalid(r) \/ Hit(r) \/ Miss(r)
             \/ OverQuota(r) \/ Store(r) \/ Finish(r)
      PROVE  Settings'
  BY <1>1, <1>6 DEF Ask, SelectEvents, CheckAnomaly, ResolveRecommendation, ResolveQuestion,
     ReadRecords, ReadInvalid, Hit, Miss, OverQuota, Store, Finish
<1>7. QED
  BY <1>2, <1>3, <1>4, <1>5, <1>6 DEF Next, Step

LEMMA CacheStays == ASSUME AiInv, Still PROVE CacheGood'
BY DEF AiInv, Still, CacheGood, Kept

-----------------------------------------------------------------------------
(* The facts                                                               *)

\* A request before it has anything to explain.
LEMMA BeforeGood ==
  ASSUME NEW service, NEW setting, NEW items, NEW up, NEW kept, NEW q,
         Shaped(items, q), Resolves(service, items, q), q.facts = <<>>, q.done = <<>>,
         q.pc \in {"resolve", "found", "read"}, Ages(q.readAge, q.foundAge, q.age),
         q.clean => up \/ q.age # 0
  PROVE  RequestGood(service, setting, items, q) /\ Paid(service, up, kept, q)
BY DEF RequestGood, Explaining, Writes, Explains, Paid, Between

LEMMA AskGood == ASSUME AiInv, NEW r \in Requests, Ask(r), Still PROVE RequestsGood'
<1>1. PICK item \in Items, ai \in BOOLEAN :
        req' = [req EXCEPT ![r] = [Idle EXCEPT !.pc = "resolve", !.ai = ai,
                  !.clean = redis = "up",
                  !.item = IF kind = "insights" THEN None ELSE item]]
  BY DEF Ask
<1> DEFINE mine == IF kind = "insights" THEN None ELSE item
           up == redis = "up"
           p == [Idle EXCEPT !.pc = "resolve", !.ai = ai, !.clean = up, !.item = mine]
<1>2. p \in [pc : {"resolve"}, item : {mine}, ai : {ai}, finding : {None}, facts : {<<>>},
             done : {<<>>}, text : {None}, status : {None}, told : {FALSE},
             foundAge : {0}, readAge : {0}, age : {0}, clean : {up}]
  BY DEF Idle
<1>3. req' = [req EXCEPT ![r] = p]
  BY <1>1
<1>4. mine \in Items \cup {None} /\ (kind = "insights" => mine = None)
      /\ (kind # "insights" => mine \in Items)
  OBVIOUS
<1> HIDE DEF p, mine
<1>5. Shaped(Items, p)
  <2>1. p.ai = ai /\ p.told = FALSE /\ p.clean = up
    BY <1>2
  <2>2. /\ "resolve" \in Steps /\ <<>> \in Seq(FactsOf(Items)) /\ <<>> \in Seq(TextsOf(Items))
        /\ 0 \in 0..MaxRun
    BY Bounds DEF Steps
  <2>3. p \in [pc : Steps, item : Items \cup {None}, ai : {ai}, finding : Figures \cup {None},
               facts : Seq(FactsOf(Items)), done : Seq(TextsOf(Items)),
               text : TextsOf(Items) \cup {None}, status : Statuses \cup {None},
               told : {FALSE}, foundAge : Nat, readAge : Nat, age : 0..MaxRun, clean : {up}]
    <3> HIDE DEF up
    <3>1. p = [pc |-> "resolve", item |-> mine, ai |-> ai, finding |-> None, facts |-> <<>>,
               done |-> <<>>, text |-> None, status |-> None, told |-> FALSE,
               foundAge |-> 0, readAge |-> 0, age |-> 0, clean |-> up]
      BY <1>2
    <3>2. QED
      BY <1>4, <2>2, <3>1
  <2>4. QED
    BY <2>1, <2>3 DEF Shaped
<1>6. Resolves(kind, Items, p)
  BY <1>2, <1>4 DEF Resolves
<1>7. Ages(p.readAge, p.foundAge, p.age)
  BY <1>2, Bounds DEF Ages
<1>8. p.clean => up
  BY <1>2
<1>9. RequestGood(kind, config, Items, p) /\ Paid(kind, up, Kept, p)
  BY <1>2, <1>5, <1>6, <1>7, <1>8, BeforeGood
<1>10. QED
  BY <1>3, <1>9, OneRequest

\* A request that goes on, with what it has found out.
Onward(q, pc, finding, facts, foundAge, readAge) ==
  [pc : {pc}, item : {q.item}, ai : {q.ai}, finding : {finding}, facts : {facts},
   done : {q.done}, text : {q.text}, status : {q.status}, told : {q.told},
   foundAge : {foundAge}, readAge : {readAge}, age : {q.age}, clean : {q.clean}]

LEMMA OnwardShaped ==
  ASSUME NEW items, NEW q, NEW p, NEW pc, NEW finding, NEW facts, NEW foundAge, NEW readAge,
         p \in Onward(q, pc, finding, facts, foundAge, readAge),
         Shaped(items, q), pc \in Steps, finding \in Figures \cup {None},
         facts \in Seq(FactsOf(items)), foundAge \in Nat, readAge \in Nat
  PROVE  /\ Shaped(items, p)
         /\ p.pc = pc /\ p.item = q.item /\ p.finding = finding /\ p.facts = facts
         /\ p.done = q.done /\ p.text = q.text /\ p.foundAge = foundAge
         /\ p.readAge = readAge /\ p.age = q.age /\ p.clean = q.clean
<1>1. /\ p.pc = pc /\ p.item = q.item /\ p.finding = finding /\ p.facts = facts
      /\ p.done = q.done /\ p.text = q.text /\ p.foundAge = foundAge
      /\ p.readAge = readAge /\ p.age = q.age
  BY DEF Onward
<1>2. p.clean = q.clean /\ p.told = q.told /\ p.ai = q.ai
  BY DEF Onward
<1>3. /\ q.item \in items \cup {None} /\ q.done \in Seq(TextsOf(items))
      /\ q.text \in TextsOf(items) \cup {None} /\ q.status \in Statuses \cup {None}
      /\ q.age \in 0..MaxRun
  BY DEF Shaped
<1>4. p \in [pc : Steps, item : items \cup {None}, ai : {q.ai}, finding : Figures \cup {None},
             facts : Seq(FactsOf(items)), done : Seq(TextsOf(items)),
             text : TextsOf(items) \cup {None}, status : Statuses \cup {None},
             told : {q.told}, foundAge : Nat, readAge : Nat, age : 0..MaxRun,
             clean : {q.clean}]
  BY <1>3 DEF Onward
<1>5. Shaped(items, p)
  BY <1>2, <1>4 DEF Shaped
<1>6. QED
  BY <1>1, <1>2, <1>5

\* A request that has its facts.
LEMMA LookGood ==
  ASSUME NEW service, NEW setting, NEW items, NEW up, NEW kept, NEW p,
         Shaped(items, p), p.pc = "look", p.done = <<>>, p.facts # <<>>,
         service = "insights" => p.item = None /\ setting = "on",
         service # "insights" => p.item \in items /\ Len(p.facts) = 1,
         \A i \in DOMAIN p.facts : FactGood(service, p.facts[i]),
         Ages(p.readAge, p.foundAge, p.age), p.clean => up \/ p.age # 0
  PROVE  RequestGood(service, setting, items, p) /\ Paid(service, up, kept, p)
<1>1. p.facts \in Seq(FactsOf(items)) /\ Len(p.facts) \in Nat /\ Len(p.facts) > 0
  <2>1. p.facts \in Seq(FactsOf(items))
    BY DEF Shaped
  <2>2. QED
    BY <2>1
<1>2. Len(p.done) = 0 /\ DOMAIN p.done = {}
  OBVIOUS
<1>3. Resolves(service, items, p) /\ Explaining(service, p)
  BY <1>1, <1>2 DEF Resolves, Explaining
<1>4. Writes(service, setting, items, p)
  BY <1>1, <1>2 DEF Writes, Explains
<1>5. QED
  BY <1>2, <1>3, <1>4 DEF RequestGood, Paid, Between

\* The request before such a step.
LEMMA Resolving ==
  ASSUME AiInv, NEW r \in Requests, req[r].pc \in {"resolve", "found", "read"}
  PROVE  /\ r \in DOMAIN req /\ RequestGood(kind, config, Items, req[r])
         /\ Shaped(Items, req[r]) /\ Resolves(kind, Items, req[r])
         /\ req[r].facts = <<>> /\ req[r].done = <<>> /\ req[r].facts \in Seq(FactsOf(Items))
         /\ req[r].finding \in Figures \cup {None} /\ req[r].age \in 0..MaxRun
         /\ req[r].foundAge \in Nat /\ req[r].readAge \in Nat
         /\ Ages(req[r].readAge, req[r].foundAge, req[r].age)
         /\ req[r].clean => redis = "up" \/ req[r].age # 0
<1>1. r \in DOMAIN req /\ RequestGood(kind, config, Items, req[r])
      /\ Paid(kind, redis = "up", Kept, req[r])
  BY DEF AiInv, RequestsGood
<1>2. Shaped(Items, req[r]) /\ Resolves(kind, Items, req[r])
      /\ Ages(req[r].readAge, req[r].foundAge, req[r].age)
  BY <1>1 DEF RequestGood, Writes
<1>3. req[r].facts = <<>> /\ req[r].done = <<>>
  BY <1>2 DEF Resolves
<1>4. /\ req[r].finding \in Figures \cup {None} /\ req[r].age \in 0..MaxRun
      /\ req[r].foundAge \in Nat /\ req[r].readAge \in Nat
      /\ req[r].facts \in Seq(FactsOf(Items))
  BY <1>2 DEF Shaped
<1>5. req[r].clean => redis = "up" \/ req[r].age # 0
  BY <1>1 DEF Paid, Between
<1>6. QED
  BY <1>1, <1>2, <1>3, <1>4, <1>5

\* The request goes on to look for the explanations of its facts.
LEMMA LookStep ==
  ASSUME AiInv, Still, NEW r \in Requests, req[r].pc \in {"resolve", "read"},
         NEW facts \in Seq(FactsOf(Items)), facts # <<>>, NEW readAge \in {0, req[r].readAge},
         NEW p \in Onward(req[r], "look", req[r].finding, facts, req[r].foundAge, readAge),
         req' = [req EXCEPT ![r] = p],
         kind = "insights" => config = "on",
         kind # "insights" => Len(facts) = 1,
         \A i \in DOMAIN facts : FactGood(kind, facts[i])
  PROVE  RequestsGood'
<1> DEFINE q == req[r]
<1>1. /\ Shaped(Items, q) /\ Resolves(kind, Items, q) /\ q.done = <<>>
      /\ q.finding \in Figures \cup {None} /\ q.age \in 0..MaxRun
      /\ q.foundAge \in Nat /\ q.readAge \in Nat /\ Ages(q.readAge, q.foundAge, q.age)
      /\ q.clean => redis = "up" \/ q.age # 0
      /\ q.pc \in {"resolve", "read"}
  BY Resolving
<1>a. p \in Onward(q, "look", q.finding, facts, q.foundAge, readAge)
  OBVIOUS
<1>b. readAge \in {0, q.readAge}
  OBVIOUS
<1> HIDE DEF q
<1>2. "look" \in Steps /\ readAge \in Nat /\ Ages(readAge, q.foundAge, q.age)
  BY <1>1, <1>b DEF Steps, Ages
<1>3. /\ Shaped(Items, p) /\ p.pc = "look" /\ p.item = q.item /\ p.facts = facts
      /\ p.done = q.done /\ p.foundAge = q.foundAge /\ p.readAge = readAge
      /\ p.age = q.age /\ p.clean = q.clean
  <2>1. Shaped(Items, q) /\ "look" \in Steps /\ q.finding \in Figures \cup {None}
        /\ q.foundAge \in Nat /\ readAge \in Nat /\ facts \in Seq(FactsOf(Items))
    BY <1>1, <1>2
  <2>2. QED
    BY <1>a, <2>1, OnwardShaped
<1>4. /\ kind = "insights" => p.item = None
      /\ kind # "insights" => p.item \in Items
  BY <1>1, <1>3 DEF Resolves
<1>5. Ages(p.readAge, p.foundAge, p.age)
  BY <1>2, <1>3
<1>6. p.clean => redis = "up" \/ p.age # 0
  BY <1>1, <1>3
<1>7. RequestGood(kind, config, Items, p) /\ Paid(kind, redis = "up", Kept, p)
  BY <1>1, <1>3, <1>4, <1>5, <1>6, LookGood
<1>8. QED
  BY <1>7, OneRequest

LEMMA SelectEventsGood ==
  ASSUME AiInv, NEW r \in Requests, SelectEvents(r), Still PROVE RequestsGood'
<1> DEFINE q == req[r]
<1>1. kind = "insights" /\ q.pc = "resolve"
  BY DEF SelectEvents
<1>2. /\ r \in DOMAIN req /\ Shaped(Items, q) /\ q.facts = <<>> /\ q.done = <<>>
  BY <1>1, Resolving
<1>3. figures \in Figures /\ config \in {"on", "nokey", "off"}
  BY DEF AiInv, Settings
<1> DEFINE facts == [i \in DOMAIN Events[figures] |->
                       [item |-> Events[figures][i], finding |-> None, records |-> None]]
           p == [q EXCEPT !.pc = "look", !.facts = facts]
<1>4. \/ \E status \in {"disabled", "unavailable", "empty", "pending"}, told \in BOOLEAN :
           Answer(r, status, told)
      \/ /\ config = "on" /\ Events[figures] # <<>>
         /\ req' = [req EXCEPT ![r].pc = "look", ![r].facts = facts]
  <2>1. CASE config = "off"
    <3>1. Answer(r, "disabled", FALSE)
      BY <2>1 DEF SelectEvents
    <3>2. QED
      BY <3>1
  <2>2. CASE config = "nokey"
    <3>1. Answer(r, "unavailable", TRUE)
      BY <2>2 DEF SelectEvents
    <3>2. QED
      BY <3>1
  <2>3. CASE config = "on" /\ Events[figures] = <<>>
    <3>1. Answer(r, "empty", FALSE)
      BY <2>3 DEF SelectEvents
    <3>2. QED
      BY <3>1
  <2>4. CASE config = "on" /\ Events[figures] # <<>> /\ ~q.ai
    <3>1. Answer(r, "pending", FALSE)
      BY <2>4 DEF SelectEvents
    <3>2. QED
      BY <3>1
  <2>5. CASE config = "on" /\ Events[figures] # <<>> /\ q.ai
    BY <2>5 DEF SelectEvents
  <2>6. QED
    BY <1>3, <2>1, <2>2, <2>3, <2>4, <2>5
<1>5. ASSUME NEW status \in {"disabled", "unavailable", "empty", "pending"},
             NEW told \in BOOLEAN, Answer(r, status, told)
      PROVE  RequestsGood'
  <2>1. status \in Statuses /\ status # "ready" /\ status # "error"
    BY DEF Statuses
  <2>2. QED
    BY <1>1, <1>2, <1>5, <2>1, AnswerStep
<1>6. CASE /\ config = "on" /\ Events[figures] # <<>>
           /\ req' = [req EXCEPT ![r].pc = "look", ![r].facts = facts]
  <2>1. /\ Events[figures] \in Seq(STRING)
        /\ \A i \in DOMAIN Events[figures] : Events[figures][i] \in Items
    BY <1>1, <1>3, AiAssumption DEF Items
  <2>2. /\ DOMAIN facts = 1..Len(Events[figures]) /\ Len(Events[figures]) \in Nat
        /\ Len(Events[figures]) > 0
    BY <1>6, <2>1
  <2>3. \A i \in DOMAIN facts : facts[i] \in FactsOf(Items) /\ FactGood("insights", facts[i])
    BY <2>1 DEF FactsOf, FactGood
  <2>4. facts = [i \in DOMAIN facts |-> facts[i]]
    OBVIOUS
  <2> HIDE DEF facts
  <2>5. facts \in Seq(FactsOf(Items))
    BY <2>2, <2>3, <2>4
  <2>6. facts # <<>>
    BY <2>2
  <2>7. p \in Onward(q, "look", q.finding, facts, q.foundAge, q.readAge)
    BY <1>2 DEF Onward, Shaped
  <2>8. req' = [req EXCEPT ![r] = p]
    BY <1>2, <1>6
  <2> HIDE DEF p
  <2>9. QED
    BY <1>1, <1>6, <2>3, <2>5, <2>6, <2>7, <2>8, LookStep
<1>7. QED
  BY <1>4, <1>5, <1>6

\* The request goes on to its finding, or to read the records.
LEMMA OnwardStep ==
  ASSUME AiInv, Still, NEW r \in Requests, req[r].pc \in {"resolve", "found"},
         NEW pc \in {"found", "read"}, NEW finding \in Figures \cup {None},
         NEW foundAge \in Nat, foundAge < DetectTtl + req[r].age,
         NEW p, p \in Onward(req[r], pc, finding, req[r].facts, foundAge, req[r].readAge),
         req' = [req EXCEPT ![r] = p],
         kind # "insights",
         pc = "found" => kind = "anomaly" /\ finding \in Figures,
         pc = "read" /\ kind = "anomaly" =>
           finding \in Figures /\ req[r].item \in Anomalies[finding]
  PROVE  RequestsGood'
<1> DEFINE q == req[r]
<1>1. /\ Shaped(Items, q) /\ Resolves(kind, Items, q) /\ q.done = <<>> /\ q.facts = <<>>
      /\ q.facts \in Seq(FactsOf(Items)) /\ q.age \in 0..MaxRun
      /\ q.readAge \in Nat /\ Ages(q.readAge, q.foundAge, q.age)
      /\ q.clean => redis = "up" \/ q.age # 0
      /\ q.pc \in {"resolve", "found"}
  BY Resolving
<1>2. /\ p \in Onward(q, pc, finding, q.facts, foundAge, q.readAge)
      /\ foundAge < DetectTtl + q.age
      /\ pc = "read" /\ kind = "anomaly" =>
           finding \in Figures /\ q.item \in Anomalies[finding]
  OBVIOUS
<1> HIDE DEF q
<1>3. pc \in Steps /\ Ages(q.readAge, foundAge, q.age)
  BY <1>1, <1>2 DEF Steps, Ages
<1>4. /\ Shaped(Items, p) /\ p.pc = pc /\ p.item = q.item /\ p.finding = finding
      /\ p.facts = q.facts /\ p.done = q.done /\ p.foundAge = foundAge
      /\ p.readAge = q.readAge /\ p.age = q.age /\ p.clean = q.clean
  <2>1. /\ p \in Onward(q, pc, finding, q.facts, foundAge, q.readAge)
        /\ Shaped(Items, q) /\ pc \in Steps /\ finding \in Figures \cup {None}
        /\ q.facts \in Seq(FactsOf(Items)) /\ foundAge \in Nat /\ q.readAge \in Nat
    BY <1>1, <1>2, <1>3
  <2>2. QED
    BY <2>1, OnwardShaped
<1>5. Resolves(kind, Items, p)
  BY <1>1, <1>2, <1>4 DEF Resolves
<1>6. Ages(p.readAge, p.foundAge, p.age)
  BY <1>3, <1>4
<1>7. p.clean => redis = "up" \/ p.age # 0
  BY <1>1, <1>4
<1>8. RequestGood(kind, config, Items, p) /\ Paid(kind, redis = "up", Kept, p)
  BY <1>1, <1>4, <1>5, <1>6, <1>7, BeforeGood
<1>9. QED
  BY <1>8, OneRequest

LEMMA ResolveAnomalyGood ==
  ASSUME AiInv, NEW r \in Requests, ResolveAnomaly(r), Still PROVE RequestsGood'
<1> DEFINE q == req[r]
<1>1. kind = "anomaly" /\ q.pc = "resolve" /\ Detect(r)
  BY DEF ResolveAnomaly
<1>2. r \in DOMAIN req /\ Shaped(Items, q) /\ q.age \in Nat
  BY <1>1, Resolving
<1>3. PICK finding \in Figures, foundAge \in 0..DetectTtl - 1 :
        req' = [req EXCEPT ![r].pc = "found", ![r].finding = finding, ![r].foundAge = foundAge]
  <2>1. CASE redis = "up" /\ detected # None
    <3>1. detected.figures \in Figures /\ detected.age \in 0..DetectTtl - 1
      BY <2>1 DEF AiInv, Settings
    <3>2. QED
      BY <1>1, <2>1, <3>1 DEF Detect
  <2>2. CASE ~(redis = "up" /\ detected # None)
    <3>1. figures \in Figures /\ 0 \in 0..DetectTtl - 1
      BY Bounds DEF AiInv, Settings
    <3>2. QED
      BY <1>1, <2>2, <3>1 DEF Detect
  <2>3. QED
    BY <2>1, <2>2
<1> DEFINE p == [q EXCEPT !.pc = "found", !.finding = finding, !.foundAge = foundAge]
<1>4. p \in Onward(q, "found", finding, q.facts, foundAge, q.readAge)
  BY <1>2 DEF Onward, Shaped
<1>5. req' = [req EXCEPT ![r] = p]
  BY <1>2, <1>3
<1> HIDE DEF p
<1>6. foundAge \in Nat /\ foundAge < DetectTtl + q.age
  BY <1>2, Bounds
<1>7. QED
  BY <1>1, <1>4, <1>5, <1>6, OnwardStep

\* An answer without an explanation, as there are no facts.
LEMMA NoFactsStep ==
  ASSUME AiInv, Still, NEW r \in Requests, req[r].pc \in {"resolve", "found", "read"},
         NEW status \in {"not_found", "error"}, Answer(r, status, FALSE)
  PROVE  RequestsGood'
<1>1. req[r].facts = <<>> /\ req[r].done = <<>>
  BY Resolving
<1>2. status \in Statuses /\ status # "ready" /\ req[r].pc # "idle"
  BY DEF Statuses
<1>3. QED
  BY <1>1, <1>2, AnswerStep

LEMMA CheckAnomalyGood ==
  ASSUME AiInv, NEW r \in Requests, CheckAnomaly(r), Still PROVE RequestsGood'
<1> DEFINE q == req[r]
           p == [q EXCEPT !.pc = "read"]
<1>1. q.pc = "found"
  BY DEF CheckAnomaly
<1>2. /\ r \in DOMAIN req /\ Shaped(Items, q) /\ Resolves(kind, Items, q)
      /\ q.foundAge \in Nat /\ Ages(q.readAge, q.foundAge, q.age)
  BY <1>1, Resolving
<1>3. kind = "anomaly" /\ q.finding \in Figures
  BY <1>1, <1>2 DEF Resolves
<1>4. CASE q.item \in Anomalies[q.finding]
  <2>1. p \in Onward(q, "read", q.finding, q.facts, q.foundAge, q.readAge)
    BY <1>2 DEF Onward, Shaped
  <2>2. req' = [req EXCEPT ![r] = p]
    BY <1>2, <1>4 DEF CheckAnomaly, To
  <2> HIDE DEF p
  <2>3. q.foundAge < DetectTtl + q.age
    BY <1>2 DEF Ages
  <2>4. QED
    BY <1>1, <1>2, <1>3, <1>4, <2>1, <2>2, <2>3, OnwardStep
<1>5. CASE q.item \notin Anomalies[q.finding]
  <2>1. Answer(r, "not_found", FALSE)
    BY <1>5 DEF CheckAnomaly
  <2>2. QED
    BY <1>1, <2>1, NoFactsStep
<1>6. QED
  BY <1>4, <1>5

LEMMA ResolveRecommendationGood ==
  ASSUME AiInv, NEW r \in Requests, ResolveRecommendation(r), Still PROVE RequestsGood'
<1> DEFINE q == req[r]
           p == [q EXCEPT !.pc = "read", !.finding = figures]
<1>1. q.pc = "resolve" /\ kind = "advisor" /\ figures \in Figures
  BY DEF ResolveRecommendation, AiInv, Settings
<1>2. /\ r \in DOMAIN req /\ Shaped(Items, q)
      /\ q.foundAge \in Nat /\ Ages(q.readAge, q.foundAge, q.age)
  BY <1>1, Resolving
<1>3. \/ \E status \in {"not_found", "error"} : Answer(r, status, FALSE)
      \/ req' = [req EXCEPT ![r].pc = "read", ![r].finding = figures]
  <2>1. PICK exists \in BOOLEAN :
          CASE ~exists -> Answer(r, "not_found", FALSE)
            [] exists /\ redis # "none" -> Answer(r, "error", FALSE)
            [] OTHER -> req' = [req EXCEPT ![r].pc = "read", ![r].finding = figures]
    BY DEF ResolveRecommendation
  <2>2. CASE ~exists
    <3>1. Answer(r, "not_found", FALSE)
      BY <2>1, <2>2
    <3>2. QED
      BY <3>1
  <2>3. CASE exists /\ redis # "none"
    <3>1. Answer(r, "error", FALSE)
      BY <2>1, <2>3
    <3>2. QED
      BY <3>1
  <2>4. CASE exists /\ ~(redis # "none")
    BY <2>1, <2>4
  <2>5. QED
    BY <2>2, <2>3, <2>4
<1>4. ASSUME NEW status \in {"not_found", "error"}, Answer(r, status, FALSE)
      PROVE  RequestsGood'
  BY <1>1, <1>4, NoFactsStep
<1>5. CASE req' = [req EXCEPT ![r].pc = "read", ![r].finding = figures]
  <2>1. p \in Onward(q, "read", figures, q.facts, q.foundAge, q.readAge)
    BY <1>2 DEF Onward, Shaped
  <2>2. req' = [req EXCEPT ![r] = p]
    BY <1>2, <1>5
  <2> HIDE DEF p
  <2>3. q.foundAge < DetectTtl + q.age
    BY <1>2 DEF Ages
  <2>4. QED
    BY <1>1, <1>2, <2>1, <2>2, <2>3, OnwardStep
<1>6. QED
  BY <1>3, <1>4, <1>5

LEMMA ResolveQuestionGood ==
  ASSUME AiInv, NEW r \in Requests, ResolveQuestion(r), Still PROVE RequestsGood'
<1> DEFINE q == req[r]
<1>1. q.pc = "resolve" /\ kind = "copilot" /\ figures \in Figures
  BY DEF ResolveQuestion, AiInv, Settings
<1>2. /\ r \in DOMAIN req /\ Shaped(Items, q) /\ q.finding \in Figures \cup {None}
      /\ Resolves(kind, Items, q) /\ q.foundAge \in Nat /\ Ages(q.readAge, q.foundAge, q.age)
  BY <1>1, Resolving
<1>3. ASSUME NEW finding \in Figures \cup {None},
             req' = [req EXCEPT ![r].pc = "read", ![r].finding = finding]
      PROVE  RequestsGood'
  <2> DEFINE p == [q EXCEPT !.pc = "read", !.finding = finding]
  <2>1. p \in Onward(q, "read", finding, q.facts, q.foundAge, q.readAge)
    BY <1>2 DEF Onward, Shaped
  <2>2. req' = [req EXCEPT ![r] = p]
    BY <1>2, <1>3
  <2> HIDE DEF p
  <2>3. q.foundAge < DetectTtl + q.age
    BY <1>2 DEF Ages
  <2>4. QED
    BY <1>1, <1>2, <2>1, <2>2, <2>3, OnwardStep
<1>4. CASE Answer(r, "error", FALSE)
  BY <1>1, <1>4, NoFactsStep
<1>5. ASSUME NEW finding \in Figures \cup {None},
             req' = [req EXCEPT ![r].pc = "look", ![r].facts =
                       <<[item |-> q.item, finding |-> finding, records |-> None]>>]
      PROVE  RequestsGood'
  <2> DEFINE fact == [item |-> q.item, finding |-> finding, records |-> None]
             facts == <<fact>>
             p == [q EXCEPT !.pc = "look", !.facts = facts]
  <2>1. q.item \in Items
    BY <1>1, <1>2 DEF Resolves
  <2>2. fact \in FactsOf(Items) /\ FactGood("copilot", fact)
    BY <1>1, <2>1 DEF FactsOf, FactGood
  <2> HIDE DEF fact
  <2>3. /\ facts \in Seq(FactsOf(Items)) /\ facts # <<>> /\ Len(facts) = 1
        /\ \A i \in DOMAIN facts : FactGood("copilot", facts[i])
    BY <2>2
  <2>4. req' = [req EXCEPT ![r] = p]
    BY <1>2, <1>5 DEF fact
  <2> HIDE DEF facts
  <2>5. p \in Onward(q, "look", q.finding, facts, q.foundAge, q.readAge)
    BY <1>2 DEF Onward, Shaped
  <2> HIDE DEF p
  <2>6. QED
    BY <1>1, <2>3, <2>4, <2>5, LookStep
<1>6. QED
  <2>1. \/ Answer(r, "error", FALSE)
        \/ \E finding \in Figures \cup {None} :
             req' = [req EXCEPT ![r].pc = "read", ![r].finding = finding]
        \/ \E finding \in Figures \cup {None} :
             req' = [req EXCEPT ![r].pc = "look", ![r].facts =
                       <<[item |-> q.item, finding |-> finding, records |-> None]>>]
    BY DEF ResolveQuestion
  <2>2. QED
    BY <1>3, <1>4, <1>5, <2>1

LEMMA ReadsGood ==
  ASSUME AiInv, NEW r \in Requests, ReadRecords(r) \/ ReadInvalid(r), Still
  PROVE  RequestsGood'
<1> DEFINE q == req[r]
<1>1. q.pc = "read" /\ figures \in Figures
  BY DEF ReadRecords, ReadInvalid, AiInv, Settings
<1>2. /\ r \in DOMAIN req /\ Shaped(Items, q) /\ q.finding \in Figures \cup {None}
      /\ Resolves(kind, Items, q)
  BY <1>1, Resolving
<1>3. CASE ReadInvalid(r)
  <2>1. Answer(r, "error", FALSE)
    BY <1>3 DEF ReadInvalid
  <2>2. QED
    BY <1>1, <2>1, NoFactsStep
<1>4. CASE ReadRecords(r)
  <2> DEFINE fact == [item |-> q.item, finding |-> q.finding, records |-> figures]
             facts == <<fact>>
             p == [q EXCEPT !.pc = "look", !.readAge = 0, !.facts = facts]
  <2>1. /\ q.item \in Items /\ kind # "insights"
        /\ kind = "anomaly" => q.finding \in Figures /\ q.item \in Anomalies[q.finding]
    BY <1>1, <1>2 DEF Resolves
  <2>2. fact \in FactsOf(Items) /\ FactGood(kind, fact)
    BY <1>1, <1>2, <2>1 DEF FactsOf, FactGood
  <2>3. req' = [req EXCEPT ![r] = p]
    BY <1>2, <1>4 DEF ReadRecords
  <2> HIDE DEF fact
  <2>4. /\ facts \in Seq(FactsOf(Items)) /\ facts # <<>> /\ Len(facts) = 1
        /\ \A i \in DOMAIN facts : FactGood(kind, facts[i])
    BY <2>2
  <2> HIDE DEF facts
  <2>5. p \in Onward(q, "look", q.finding, facts, q.foundAge, 0)
    BY <1>2 DEF Onward, Shaped
  <2> HIDE DEF p
  <2>6. QED
    BY <1>1, <2>1, <2>3, <2>4, <2>5, LookStep
<1>5. QED
  BY <1>3, <1>4

-----------------------------------------------------------------------------
(* The explanations                                                        *)

\* A request with something to explain, and what that is.
LEMMA Explainable ==
  ASSUME AiInv, NEW r \in Requests, req[r].pc \in Explains
  PROVE  /\ r \in DOMAIN req /\ RequestGood(kind, config, Items, req[r])
         /\ Shaped(Items, req[r]) /\ Resolves(kind, Items, req[r]) /\ Explaining(kind, req[r])
         /\ Paid(kind, redis = "up", Kept, req[r])
         /\ Ages(req[r].readAge, req[r].foundAge, req[r].age)
         /\ req[r].done \in Seq(TextsOf(Items)) /\ req[r].facts \in Seq(FactsOf(Items))
         /\ Len(req[r].done) \in Nat /\ Len(req[r].facts) \in Nat
         /\ Len(req[r].done) < Len(req[r].facts)
         /\ kind = "insights" => config = "on"
         /\ kind # "insights" => req[r].done = <<>>
         /\ Fact(r) = req[r].facts[Len(req[r].done) + 1]
         /\ Fact(r) \in FactsOf(Items) /\ FactGood(kind, Fact(r))
<1>1. r \in DOMAIN req /\ RequestGood(kind, config, Items, req[r])
      /\ Paid(kind, redis = "up", Kept, req[r])
  BY DEF AiInv, RequestsGood
<1>2. /\ Shaped(Items, req[r]) /\ Resolves(kind, Items, req[r]) /\ Explaining(kind, req[r])
      /\ Writes(kind, config, Items, req[r])
  BY <1>1 DEF RequestGood
<1>3. /\ req[r].done \in Seq(TextsOf(Items)) /\ req[r].facts \in Seq(FactsOf(Items))
  BY <1>2 DEF Shaped
<1>4. /\ Ages(req[r].readAge, req[r].foundAge, req[r].age)
      /\ Len(req[r].done) < Len(req[r].facts)
      /\ kind = "insights" => config = "on"
  BY <1>2 DEF Writes
<1>5. Len(req[r].done) \in Nat /\ Len(req[r].facts) \in Nat
  BY <1>3
<1>6. ASSUME kind # "insights" PROVE req[r].done = <<>>
  <2>1. Len(req[r].facts) <= 1
    BY <1>2, <1>6 DEF Explaining
  <2>2. Len(req[r].done) = 0
    BY <1>4, <1>5, <2>1
  <2>3. QED
    BY <1>3, <2>2
<1>7. Len(req[r].done) + 1 \in DOMAIN req[r].facts
  BY <1>3, <1>4, <1>5
<1>8. /\ Fact(r) = req[r].facts[Len(req[r].done) + 1]
      /\ Fact(r) \in FactsOf(Items)
  BY <1>3, <1>7 DEF Fact
<1>9. FactGood(kind, Fact(r))
  BY <1>2, <1>7, <1>8 DEF Explaining
<1>10. QED
  BY <1>1, <1>2, <1>3, <1>4, <1>5, <1>6, <1>8, <1>9

\* A request with one explanation more.
More(q, text) == [q EXCEPT !.pc = "look", !.text = None, !.done = Append(@, text)]

LEMMA MoreFields ==
  ASSUME NEW items, NEW q, Shaped(items, q), NEW text, text \in TextsOf(items)
  PROVE  /\ Shaped(items, More(q, text))
         /\ More(q, text).pc = "look" /\ More(q, text).item = q.item
         /\ More(q, text).facts = q.facts /\ More(q, text).done = Append(q.done, text)
         /\ More(q, text).foundAge = q.foundAge /\ More(q, text).readAge = q.readAge
         /\ More(q, text).age = q.age /\ More(q, text).clean = q.clean
<1> DEFINE p == More(q, text)
           done == Append(q.done, text)
<1>0. q.done \in Seq(TextsOf(items)) /\ done \in Seq(TextsOf(items))
  BY DEF Shaped
<1> HIDE DEF done
<1>1. p \in [pc : {"look"}, item : {q.item}, ai : {q.ai}, finding : {q.finding},
             facts : {q.facts}, done : {done}, text : {None}, status : {q.status},
             told : {q.told}, foundAge : {q.foundAge}, readAge : {q.readAge},
             age : {q.age}, clean : {q.clean}]
  BY DEF More, Shaped, done
<1> HIDE DEF p
<1>2. /\ p.pc = "look" /\ p.item = q.item /\ p.facts = q.facts /\ p.done = done
      /\ p.foundAge = q.foundAge /\ p.readAge = q.readAge /\ p.age = q.age
      /\ p.clean = q.clean /\ p.ai = q.ai /\ p.told = q.told
  BY <1>1
<1>3. /\ q.item \in items \cup {None} /\ q.finding \in Figures \cup {None}
      /\ q.facts \in Seq(FactsOf(items)) /\ q.status \in Statuses \cup {None}
      /\ q.foundAge \in Nat /\ q.readAge \in Nat /\ q.age \in 0..MaxRun /\ "look" \in Steps
  BY DEF Shaped, Steps
<1>4. p \in [pc : Steps, item : items \cup {None}, ai : {q.ai}, finding : Figures \cup {None},
             facts : Seq(FactsOf(items)), done : Seq(TextsOf(items)),
             text : TextsOf(items) \cup {None}, status : Statuses \cup {None},
             told : {q.told}, foundAge : Nat, readAge : Nat, age : 0..MaxRun,
             clean : {q.clean}]
  BY <1>0, <1>1, <1>3
<1>5. Shaped(items, p)
  BY <1>2, <1>4 DEF Shaped
<1>6. QED
  BY <1>2, <1>5 DEF p, done

LEMMA AppendElements ==
  ASSUME NEW S, NEW s \in Seq(S), NEW e \in S
  PROVE  /\ Len(Append(s, e)) = Len(s) + 1 /\ Len(s) \in Nat /\ Append(s, e) # <<>>
         /\ \A i \in DOMAIN Append(s, e) :
              \/ i \in DOMAIN s /\ Append(s, e)[i] = s[i]
              \/ i = Len(s) + 1 /\ Append(s, e)[i] = e
<1>1. Len(Append(s, e)) = Len(s) + 1 /\ Len(s) \in Nat
  OBVIOUS
<1>2. DOMAIN Append(s, e) = 1..(Len(s) + 1) /\ DOMAIN s = 1..Len(s)
  OBVIOUS
<1>3. Append(s, e)[Len(s) + 1] = e /\ \A i \in 1..Len(s) : Append(s, e)[i] = s[i]
  OBVIOUS
<1>4. \A i \in 1..(Len(s) + 1) : i \in 1..Len(s) \/ i = Len(s) + 1
  BY <1>1
<1>5. Append(s, e) # <<>>
  BY <1>1
<1> HIDE <1>1
<1>6. QED
  BY <1>1, <1>2, <1>3, <1>4, <1>5

LEMMA MoreExplains ==
  ASSUME NEW service, NEW items, NEW q, Shaped(items, q), Explaining(service, q),
         Len(q.done) < Len(q.facts),
         NEW text, text \in TextsOf(items), TextGood(service, text),
         IsOf(service, text, q.facts[Len(q.done) + 1]),
         text.readAge < AiTtl + MaxRun, text.foundAge < AiTtl + DetectTtl + MaxRun
  PROVE  Explaining(service, More(q, text))
<1> DEFINE p == More(q, text)
<1>1. /\ Shaped(items, p) /\ p.facts = q.facts /\ p.done = Append(q.done, text)
  BY MoreFields
<1> HIDE DEF p
<1>2. q.done \in Seq(TextsOf(items)) /\ q.facts \in Seq(FactsOf(items)) /\ Len(q.facts) \in Nat
  <2>1. q.done \in Seq(TextsOf(items)) /\ q.facts \in Seq(FactsOf(items))
    BY DEF Shaped
  <2>2. QED
    BY <2>1
<1>3. /\ Len(p.done) = Len(q.done) + 1 /\ Len(q.done) \in Nat
      /\ \A i \in DOMAIN p.done :
           \/ i \in DOMAIN q.done /\ p.done[i] = q.done[i]
           \/ i = Len(q.done) + 1 /\ p.done[i] = text
  BY <1>1, <1>2, AppendElements
<1>4. Len(p.done) <= Len(p.facts)
  BY <1>1, <1>2, <1>3
<1>5. ASSUME NEW i \in DOMAIN p.done
      PROVE  /\ TextGood(service, p.done[i]) /\ IsOf(service, p.done[i], p.facts[i])
             /\ p.done[i].readAge < AiTtl + MaxRun
             /\ p.done[i].foundAge < AiTtl + DetectTtl + MaxRun
  <2>1. CASE i \in DOMAIN q.done /\ p.done[i] = q.done[i]
    BY <1>1, <2>1 DEF Explaining
  <2>2. CASE i = Len(q.done) + 1 /\ p.done[i] = text
    BY <1>1, <2>2
  <2>3. QED
    BY <1>3, <2>1, <2>2
<1>6. Explaining(service, p)
  BY <1>1, <1>4, <1>5 DEF Explaining
<1>7. QED
  BY <1>6 DEF p

\* A text is found in Redis, or has just been stored.
LEMMA ExplainedGood ==
  ASSUME NEW service, NEW setting, NEW items, NEW up, NEW kept, NEW q,
         RequestGood(service, setting, items, q), q.pc \in {"look", "store"},
         NEW text, text \in TextsOf(items), TextGood(service, text),
         IsOf(service, text, q.facts[Len(q.done) + 1]),
         text.readAge < AiTtl + MaxRun, text.foundAge < AiTtl + DetectTtl + MaxRun,
         q.clean /\ q.age = 0 =>
           /\ up /\ KeyOf(service, text.of) \in kept
           /\ \A i \in DOMAIN q.done : KeyOf(service, q.done[i].of) \in kept,
         NEW p, p = IF Len(More(q, text).done) = Len(q.facts)
                    THEN Answered(More(q, text), "ready", FALSE) ELSE More(q, text)
  PROVE  RequestGood(service, setting, items, p) /\ Paid(service, up, kept, p)
<1> DEFINE m == More(q, text)
<1>1. /\ Shaped(items, q) /\ Resolves(service, items, q) /\ Explaining(service, q)
      /\ Writes(service, setting, items, q)
  BY DEF RequestGood
<1>2. /\ Len(q.done) < Len(q.facts) /\ (service = "insights" => setting = "on")
      /\ Ages(q.readAge, q.foundAge, q.age)
  BY <1>1 DEF Writes, Explains
<1>3. /\ Shaped(items, m) /\ m.pc = "look" /\ m.item = q.item
      /\ m.facts = q.facts /\ m.done = Append(q.done, text)
      /\ m.foundAge = q.foundAge /\ m.readAge = q.readAge
      /\ m.age = q.age /\ m.clean = q.clean
  BY <1>1, MoreFields
<1>4. Explaining(service, m)
  BY <1>1, <1>2, MoreExplains
<1>5. p = IF Len(m.done) = Len(m.facts) THEN Answered(m, "ready", FALSE) ELSE m
  BY <1>3
<1> HIDE DEF m
<1>6. q.done \in Seq(TextsOf(items))
  BY <1>1 DEF Shaped
<1>7. /\ m.done # <<>>
      /\ \A i \in DOMAIN m.done :
           (i \in DOMAIN q.done /\ m.done[i] = q.done[i]) \/ m.done[i] = text
  <2>1. /\ Append(q.done, text) # <<>>
        /\ \A i \in DOMAIN Append(q.done, text) :
             \/ i \in DOMAIN q.done /\ Append(q.done, text)[i] = q.done[i]
             \/ i = Len(q.done) + 1 /\ Append(q.done, text)[i] = text
    BY <1>6, AppendElements
  <2>2. QED
    BY <1>3, <2>1
<1>8. /\ service = "insights" => m.item = None
      /\ service # "insights" => m.item \in items
  BY <1>1, <1>3 DEF Resolves
<1>9. CASE Len(m.done) = Len(m.facts)
  <2>1. p = Answered(m, "ready", FALSE)
    BY <1>5, <1>9
  <2>2. "ready" \in Statuses /\ FALSE \in BOOLEAN /\ ~(Len(m.done) < Len(m.facts))
    <3>1. Len(m.facts) \in Nat
      <4>1. m.facts \in Seq(FactsOf(items))
        BY <1>3 DEF Shaped
      <4>2. QED
        BY <4>1
    <3>2. QED
      BY <1>9, <3>1 DEF Statuses
  <2>3. /\ ("ready" = "ready") <=> m.done # <<>>
        /\ FALSE <=> Len(m.done) < Len(m.facts)
        /\ "ready" # "error"
    BY <1>7, <2>2
  <2>4. /\ RequestGood(service, setting, items, Answered(m, "ready", FALSE))
        /\ Paid(service, up, kept, Answered(m, "ready", FALSE))
    <3> DEFINE status == "ready"
               told == FALSE
    <3>1. /\ status \in Statuses /\ told \in BOOLEAN
          /\ status = "ready" <=> m.done # <<>>
          /\ status = "ready" => (told <=> Len(m.done) < Len(m.facts))
          /\ status = "error" => m.facts = <<>>
      BY <2>2, <2>3
    <3> HIDE DEF status, told
    <3>2. /\ RequestGood(service, setting, items, Answered(m, status, told))
          /\ Paid(service, up, kept, Answered(m, status, told))
      BY <1>3, <1>4, <1>8, <3>1, AnsweredGood
    <3>3. QED
      BY <3>2 DEF status, told
  <2>5. QED
    BY <2>1, <2>4
<1>10. CASE Len(m.done) # Len(m.facts)
  <2>1. p = m
    BY <1>5, <1>10
  <2>2. Len(m.done) < Len(m.facts)
    <3>1. m.done \in Seq(TextsOf(items)) /\ m.facts \in Seq(FactsOf(items))
      BY <1>3 DEF Shaped
    <3>2. Len(m.done) \in Nat /\ Len(m.facts) \in Nat
      BY <3>1
    <3>3. Len(m.done) <= Len(m.facts)
      BY <1>4 DEF Explaining
    <3>4. QED
      BY <1>10, <3>2, <3>3
  <2>3. Resolves(service, items, m)
    BY <1>3, <1>8 DEF Resolves
  <2>4. Writes(service, setting, items, m)
    BY <1>2, <1>3, <2>2 DEF Writes
  <2>5. Paid(service, up, kept, m)
    BY <1>3, <1>7 DEF Paid
  <2>6. QED
    BY <1>3, <1>4, <2>1, <2>3, <2>4, <2>5 DEF RequestGood
<1>11. QED
  BY <1>9, <1>10

LEMMA ExplainedIs ==
  ASSUME NEW r, Shaped(Items, req[r]), NEW text, text \in TextsOf(Items)
  PROVE  Explained(r, text) =
           IF Len(More(req[r], text).done) = Len(req[r].facts)
           THEN Answered(More(req[r], text), "ready", FALSE) ELSE More(req[r], text)
<1>1. Explained(r, text) =
        IF Len(More(req[r], text).done) = Len(More(req[r], text).facts)
        THEN Answered(More(req[r], text), "ready", FALSE) ELSE More(req[r], text)
  BY DEF Explained, More
<1>2. More(req[r], text).facts = req[r].facts
  BY MoreFields
<1>3. QED
  BY <1>1, <1>2

\* What an entry says is of the facts that it is found for.
LEMMA EntryTells ==
  ASSUME AiInv, NEW facts, facts \in FactsOf(Items), FactGood(kind, facts),
         GetJson(Key(facts)) # None
  PROVE  LET text == GetJson(Key(facts)).explanation
         IN  /\ redis = "up" /\ text \in TextsOf(Items) /\ TextGood(kind, text)
             /\ KeyOf(kind, text.of) \in Kept /\ IsOf(kind, text, facts)
             /\ text.readAge < AiTtl + MaxRun
             /\ text.foundAge < AiTtl + DetectTtl + MaxRun
<1> DEFINE k == KeyOf(kind, facts)
           entry == cache[k]
           text == entry.explanation
<1>1. Key(facts) = k /\ k \in KeysOf(kind, Items)
  BY Named, KeyInKeys
<1>2. redis = "up" /\ GetJson(Key(facts)) = entry /\ entry # None
  BY <1>1 DEF GetJson
<1>3. cache \in [KeysOf(kind, Items) -> EntriesOf(Items) \cup {None}]
  BY DEF AiInv, CacheGood
<1>4. entry \in EntriesOf(Items) /\ k \in Kept
  BY <1>1, <1>2, <1>3 DEF Kept
<1>5. EntryGood(kind, k, entry)
  BY <1>4 DEF AiInv, CacheGood
<1> HIDE DEF entry
<1>6. text \in TextsOf(Items) /\ entry.left \in 1..AiTtl
  BY <1>4 DEF EntriesOf
<1>7. /\ KeyOf(kind, text.of) = k /\ TextGood(kind, text)
      /\ text.readAge + entry.left <= AiTtl + MaxRun
      /\ text.foundAge + entry.left < AiTtl + DetectTtl + MaxRun
  BY <1>5 DEF EntryGood
<1>8. text.readAge \in Nat /\ text.foundAge \in Nat
  BY <1>6 DEF TextsOf
<1>9. text.readAge < AiTtl + MaxRun /\ text.foundAge < AiTtl + DetectTtl + MaxRun
  BY <1>6, <1>7, <1>8, Bounds
<1>10. IsOf(kind, text, facts)
  BY <1>6, <1>7, KeyTells DEF TextGood
<1>11. QED
  BY <1>2, <1>4, <1>6, <1>7, <1>9, <1>10

LEMMA HitGood == ASSUME AiInv, NEW r \in Requests, Hit(r), Still PROVE RequestsGood'
<1> DEFINE q == req[r]
           text == GetJson(Key(Fact(r))).explanation
           p == Explained(r, text)
<1>1. q.pc = "look" /\ GetJson(Key(Fact(r))) # None
      /\ req' = [req EXCEPT ![r] = p]
  BY DEF Hit
<1>2. /\ RequestGood(kind, config, Items, q) /\ Shaped(Items, q)
      /\ Paid(kind, redis = "up", Kept, q)
      /\ Fact(r) = q.facts[Len(q.done) + 1]
      /\ Fact(r) \in FactsOf(Items) /\ FactGood(kind, Fact(r))
  BY <1>1, Explainable DEF Explains
<1>3. /\ redis = "up" /\ text \in TextsOf(Items) /\ TextGood(kind, text)
      /\ KeyOf(kind, text.of) \in Kept /\ IsOf(kind, text, Fact(r))
      /\ text.readAge < AiTtl + MaxRun
      /\ text.foundAge < AiTtl + DetectTtl + MaxRun
  BY <1>1, <1>2, EntryTells
<1> HIDE DEF text
<1>4. p = IF Len(More(q, text).done) = Len(q.facts)
          THEN Answered(More(q, text), "ready", FALSE) ELSE More(q, text)
  <2>1. Shaped(Items, req[r]) /\ text \in TextsOf(Items)
    BY <1>2, <1>3
  <2>2. QED
    BY <2>1, ExplainedIs, Zenon
<1> HIDE DEF p
<1>5. q.clean /\ q.age = 0 =>
        /\ redis = "up" /\ KeyOf(kind, text.of) \in Kept
        /\ \A i \in DOMAIN q.done : KeyOf(kind, q.done[i].of) \in Kept
  BY <1>1, <1>2, <1>3 DEF Paid, Between
<1>6. IsOf(kind, text, q.facts[Len(q.done) + 1])
  BY <1>2, <1>3
<1> HIDE DEF q
<1>7. RequestGood(kind, config, Items, p) /\ Paid(kind, redis = "up", Kept, p)
  <2> DEFINE up == redis = "up"
  <2>1. q.clean /\ q.age = 0 =>
          /\ up /\ KeyOf(kind, text.of) \in Kept
          /\ \A i \in DOMAIN q.done : KeyOf(kind, q.done[i].of) \in Kept
    BY <1>5
  <2> HIDE DEF up
  <2>2. RequestGood(kind, config, Items, p) /\ Paid(kind, up, Kept, p)
    <3>1. /\ RequestGood(kind, config, Items, q) /\ q.pc \in {"look", "store"}
          /\ text \in TextsOf(Items) /\ TextGood(kind, text)
          /\ text.readAge < AiTtl + MaxRun /\ text.foundAge < AiTtl + DetectTtl + MaxRun
      BY <1>1, <1>2, <1>3
    <3>2. QED
      BY <1>4, <1>6, <2>1, <3>1, ExplainedGood
  <2>3. QED
    BY <2>2 DEF up
<1>8. QED
  BY <1>1, <1>7, OneRequest

LEMMA MissGood == ASSUME AiInv, NEW r \in Requests, Miss(r), Still PROVE RequestsGood'
<1> DEFINE q == req[r]
           p == [q EXCEPT !.pc = "model"]
<1>1. q.pc = "look"
  BY DEF Miss
<1>2. /\ r \in DOMAIN req /\ Shaped(Items, q) /\ Resolves(kind, Items, q)
      /\ Explaining(kind, q) /\ Paid(kind, redis = "up", Kept, q)
      /\ Ages(q.readAge, q.foundAge, q.age)
      /\ Len(q.done) < Len(q.facts)
      /\ kind = "insights" => config = "on"
      /\ kind # "insights" => q.done = <<>>
  BY <1>1, Explainable DEF Explains
<1>3. \/ \E status \in {"insufficient_data", "unsupported", "disabled"}, told \in BOOLEAN :
           Answer(r, status, told) /\ kind # "insights"
      \/ To(r, "model")
  <2>1. PICK sparse \in BOOLEAN :
          /\ sparse => kind = "advisor"
          /\ CASE sparse -> Answer(r, "insufficient_data", TRUE)
               [] ~sparse /\ q.item = "unsupported" -> Answer(r, "unsupported", FALSE)
               [] ~sparse /\ q.item # "unsupported" /\ config # "on" -> Answer(r, "disabled", TRUE)
               [] OTHER -> To(r, "model")
    BY DEF Miss
  <2>2. CASE sparse
    <3>1. Answer(r, "insufficient_data", TRUE) /\ kind # "insights"
      BY <2>1, <2>2
    <3>2. QED
      BY <3>1
  <2>3. CASE ~sparse /\ q.item = "unsupported"
    <3>1. Answer(r, "unsupported", FALSE)
      BY <2>1, <2>3
    <3>2. kind # "insights"
      BY <1>2, <2>3, Bounds DEF Resolves
    <3>3. QED
      BY <3>1, <3>2
  <2>4. CASE ~sparse /\ q.item # "unsupported" /\ config # "on"
    <3>1. Answer(r, "disabled", TRUE)
      BY <2>1, <2>4
    <3>2. kind # "insights"
      BY <1>2, <2>4
    <3>3. QED
      BY <3>1, <3>2
  <2>5. CASE ~sparse /\ q.item # "unsupported" /\ config = "on"
    BY <2>1, <2>5
  <2>6. QED
    BY <2>2, <2>3, <2>4, <2>5
<1>4. ASSUME NEW status \in {"insufficient_data", "unsupported", "disabled"},
             NEW told \in BOOLEAN, Answer(r, status, told), kind # "insights"
      PROVE  RequestsGood'
  <2>1. status \in Statuses /\ status # "ready" /\ status # "error"
    BY DEF Statuses
  <2>2. QED
    BY <1>1, <1>2, <1>4, <2>1, AnswerStep
<1>5. CASE To(r, "model")
  <2>1. p \in Onward(q, "model", q.finding, q.facts, q.foundAge, q.readAge)
    BY <1>2 DEF Onward, Shaped
  <2>2. req' = [req EXCEPT ![r] = p]
    BY <1>2, <1>5 DEF To
  <2> HIDE DEF p
  <2>3. /\ q.finding \in Figures \cup {None} /\ q.facts \in Seq(FactsOf(Items))
        /\ q.foundAge \in Nat /\ q.readAge \in Nat /\ "model" \in Steps
    BY <1>2 DEF Shaped, Steps
  <2>4. /\ Shaped(Items, p) /\ p.pc = "model" /\ p.item = q.item
        /\ p.facts = q.facts /\ p.done = q.done /\ p.foundAge = q.foundAge
        /\ p.readAge = q.readAge /\ p.age = q.age /\ p.clean = q.clean
    BY <1>2, <2>1, <2>3, OnwardShaped
  <2>5. Resolves(kind, Items, p)
    BY <1>1, <1>2, <2>4 DEF Resolves
  <2>6. Explaining(kind, p)
    BY <1>2, <2>4 DEF Explaining
  <2>7. Writes(kind, config, Items, p)
    BY <1>2, <2>4 DEF Writes
  <2>8. Paid(kind, redis = "up", Kept, p)
    BY <1>1, <1>2, <2>4 DEF Paid, Between
  <2>9. RequestGood(kind, config, Items, p)
    BY <2>4, <2>5, <2>6, <2>7 DEF RequestGood
  <2>10. QED
    BY <2>2, <2>8, <2>9, OneRequest
<1>6. QED
  BY <1>3, <1>4, <1>5

\* The model fails: the answer has what was explained before.
LEMMA FailsGood ==
  ASSUME AiInv, Still, NEW r \in Requests, req[r].pc = "model",
         NEW failure \in Failures, Fails(r, failure)
  PROVE  RequestsGood'
<1> DEFINE q == req[r]
<1>1. Len(q.done) < Len(q.facts)
  BY Explainable DEF Explains
<1>2. FailureStatus(failure) \in {"quota_exceeded", "timeout", "invalid", "unavailable"}
  BY DEF FailureStatus, Failures
<1>3. CASE q.done # <<>>
  <2>1. Answer(r, "ready", TRUE)
    BY <1>3 DEF Fails
  <2>2. "ready" \in Statuses
    BY DEF Statuses
  <2>3. QED
    <3> DEFINE status == "ready"
               told == TRUE
    <3>1. /\ status \in Statuses /\ told \in BOOLEAN /\ Answer(r, status, told)
          /\ status = "ready" <=> q.done # <<>>
          /\ status = "ready" => (told <=> Len(q.done) < Len(q.facts))
          /\ status = "error" => q.facts = <<>>
      BY <1>1, <1>3, <2>1, <2>2
    <3> HIDE DEF status, told
    <3>2. QED
      BY <3>1, AnswerStep
<1>4. CASE q.done = <<>>
  <2>1. Answer(r, FailureStatus(failure), TRUE)
    BY <1>4 DEF Fails
  <2>2. /\ FailureStatus(failure) \in Statuses /\ FailureStatus(failure) # "ready"
        /\ FailureStatus(failure) # "error"
    BY <1>2 DEF Statuses
  <2>3. QED
    BY <1>4, <2>1, <2>2, AnswerStep
<1>5. QED
  BY <1>3, <1>4

\* What a valid text becomes.
LEMMA ExplanationGood ==
  ASSUME AiInv, NEW r \in Requests, req[r].pc = "model", NEW claims \in SUBSET (Figures \cup Small),
         Valid(Fact(r), claims)
  PROVE  LET text == Explanation(r, claims)
         IN  /\ text \in TextsOf(Items) /\ text.of = Fact(r) /\ TextGood(kind, text)
             /\ text.readAge = req[r].readAge /\ text.foundAge = req[r].foundAge
<1> DEFINE mine == IF kind = "insights" THEN {} ELSE claims
           text == Explanation(r, claims)
<1>1. Shaped(Items, req[r]) /\ Fact(r) \in FactsOf(Items) /\ FactGood(kind, Fact(r))
  BY Explainable DEF Explains
<1>2. req[r].readAge \in Nat /\ req[r].foundAge \in Nat
  BY <1>1 DEF Shaped
<1>3. text = [of |-> Fact(r), claims |-> mine, foundAge |-> req[r].foundAge,
              readAge |-> req[r].readAge]
  BY DEF Explanation
<1>4. /\ mine \in SUBSET (Figures \cup Small)
      /\ kind # "insights" => mine \ Small \subseteq Numbers(Fact(r))
  BY DEF Valid
<1> HIDE DEF text, mine
<1>5. /\ text.of = Fact(r) /\ text.claims = mine
      /\ text.readAge = req[r].readAge /\ text.foundAge = req[r].foundAge
  BY <1>3
<1>6. text \in TextsOf(Items)
  BY <1>1, <1>2, <1>3, <1>4 DEF TextsOf
<1>7. TextGood(kind, text)
  BY <1>1, <1>4, <1>5 DEF TextGood
<1>8. QED
  BY <1>5, <1>6, <1>7 DEF text

LEMMA GenerateGood == ASSUME AiInv, NEW r \in Requests, Generate(r), Still PROVE RequestsGood'
<1> DEFINE q == req[r]
<1>1. q.pc = "model"
  BY DEF Generate
<1>2. PICK claims \in {{n} : n \in Figures \cup Small} :
        IF Valid(Fact(r), claims)
        THEN req' = [req EXCEPT ![r].pc = "store", ![r].text = Explanation(r, claims)]
        ELSE Fails(r, "invalid")
  BY DEF Generate
<1>3. CASE ~Valid(Fact(r), claims)
  <2>1. Fails(r, "invalid") /\ "invalid" \in Failures
    BY <1>2, <1>3 DEF Failures
  <2>2. QED
    BY <1>1, <2>1, FailsGood
<1>4. CASE Valid(Fact(r), claims)
  <2> DEFINE text == Explanation(r, claims)
             p == [q EXCEPT !.pc = "store", !.text = text]
  <2>1. /\ r \in DOMAIN req /\ Shaped(Items, q) /\ Resolves(kind, Items, q)
        /\ Explaining(kind, q) /\ Paid(kind, redis = "up", Kept, q)
        /\ Ages(q.readAge, q.foundAge, q.age)
        /\ Len(q.done) < Len(q.facts)
        /\ kind = "insights" => config = "on"
        /\ Fact(r) = q.facts[Len(q.done) + 1]
    BY <1>1, Explainable DEF Explains
  <2>2. /\ text \in TextsOf(Items) /\ text.of = Fact(r) /\ TextGood(kind, text)
        /\ text.readAge = q.readAge /\ text.foundAge = q.foundAge
    BY <1>1, <1>4, ExplanationGood
  <2>3. req' = [req EXCEPT ![r] = p]
    BY <1>2, <1>4, <2>1
  <2> HIDE DEF text
  <2>4. p \in [pc : {"store"}, item : {q.item}, ai : {q.ai}, finding : {q.finding},
               facts : {q.facts}, done : {q.done}, text : {text}, status : {q.status},
               told : {q.told}, foundAge : {q.foundAge}, readAge : {q.readAge},
               age : {q.age}, clean : {q.clean}]
    BY <2>1 DEF Shaped
  <2> HIDE DEF p
  <2>5. /\ p.pc = "store" /\ p.item = q.item /\ p.facts = q.facts /\ p.done = q.done
        /\ p.text = text /\ p.foundAge = q.foundAge /\ p.readAge = q.readAge
        /\ p.age = q.age /\ p.clean = q.clean /\ p.ai = q.ai /\ p.told = q.told
    BY <2>4
  <2>6. /\ q.item \in Items \cup {None} /\ q.finding \in Figures \cup {None}
        /\ q.facts \in Seq(FactsOf(Items)) /\ q.done \in Seq(TextsOf(Items))
        /\ q.status \in Statuses \cup {None} /\ q.foundAge \in Nat /\ q.readAge \in Nat
        /\ q.age \in 0..MaxRun /\ "store" \in Steps
    BY <2>1 DEF Shaped, Steps
  <2>7. p \in [pc : Steps, item : Items \cup {None}, ai : {q.ai},
               finding : Figures \cup {None}, facts : Seq(FactsOf(Items)),
               done : Seq(TextsOf(Items)), text : TextsOf(Items) \cup {None},
               status : Statuses \cup {None}, told : {q.told}, foundAge : Nat,
               readAge : Nat, age : 0..MaxRun, clean : {q.clean}]
    BY <2>2, <2>4, <2>6
  <2>8. Shaped(Items, p)
    BY <2>5, <2>7 DEF Shaped
  <2>9. Resolves(kind, Items, p)
    BY <1>1, <2>1, <2>5 DEF Resolves
  <2>10. Explaining(kind, p)
    BY <2>1, <2>5 DEF Explaining
  <2>11. Writes(kind, config, Items, p)
    BY <2>1, <2>2, <2>5 DEF Writes
  <2>12. Paid(kind, redis = "up", Kept, p)
    BY <1>1, <2>1, <2>5 DEF Paid, Between
  <2>13. RequestGood(kind, config, Items, p)
    BY <2>5, <2>8, <2>9, <2>10, <2>11 DEF RequestGood
  <2>14. QED
    BY <2>3, <2>12, <2>13, OneRequest
<1>5. QED
  BY <1>3, <1>4

LEMMA ModelFailsGood ==
  ASSUME AiInv, NEW r \in Requests, OverQuota(r) \/ ModelFails(r), Still PROVE RequestsGood'
<1>1. PICK failure \in Failures : Fails(r, failure) /\ req[r].pc = "model"
  <2>1. "quota_exceeded" \in Failures
    BY DEF Failures
  <2>2. QED
    BY <2>1 DEF OverQuota, ModelFails
<1>2. QED
  BY <1>1, FailsGood

LEMMA FinishGood == ASSUME AiInv, NEW r \in Requests, Finish(r), Still PROVE RequestsGood'
<1>1. req' = [req EXCEPT ![r] = Idle]
  BY DEF Finish
<1>2. RequestGood(kind, config, Items, Idle) /\ Paid(kind, redis = "up", Kept, Idle)
  BY IdleGood
<1>3. QED
  BY <1>1, <1>2, OneRequest

\* The text that is stored, and the request that it is stored for.
LEMMA StoreText ==
  ASSUME AiInv, NEW r \in Requests, req[r].pc = "store"
  PROVE  LET text == req[r].text
         IN  /\ text \in TextsOf(Items) /\ TextGood(kind, text)
             /\ IsOf(kind, text, req[r].facts[Len(req[r].done) + 1])
             /\ text.readAge \in 0..MaxRun /\ text.foundAge \in Nat
             /\ text.foundAge < DetectTtl + MaxRun
             /\ Key(text.of) = KeyOf(kind, text.of)
             /\ KeyOf(kind, text.of) \in KeysOf(kind, Items)
<1> DEFINE text == req[r].text
<1>1. /\ RequestGood(kind, config, Items, req[r]) /\ Shaped(Items, req[r])
  BY DEF AiInv, RequestsGood, RequestGood
<1>2. /\ text \in TextsOf(Items) /\ TextGood(kind, text)
      /\ text.of = req[r].facts[Len(req[r].done) + 1]
      /\ Ages(text.readAge, text.foundAge, req[r].age)
  BY <1>1 DEF RequestGood, Writes
<1>3. req[r].age \in 0..MaxRun
  BY <1>1 DEF Shaped
<1> HIDE DEF text
<1>4. text.of \in FactsOf(Items) /\ text.readAge \in Nat /\ text.foundAge \in Nat
  BY <1>2 DEF TextsOf
<1>5. text.readAge \in 0..MaxRun /\ text.foundAge < DetectTtl + MaxRun
  BY <1>2, <1>3, <1>4, Bounds DEF Ages
<1>6. Key(text.of) = KeyOf(kind, text.of) /\ KeyOf(kind, text.of) \in KeysOf(kind, Items)
  BY <1>4, Named, KeyInKeys
<1>7. IsOf(kind, text, text.of)
  BY <1>2 DEF TextGood, FactGood, IsOf
<1>8. QED
  BY <1>2, <1>4, <1>5, <1>6, <1>7 DEF text

\* The cache once it is stored.
LEMMA StoreCache ==
  ASSUME AiInv, NEW r \in Requests, Store(r), kind' = kind, Items' = Items
  PROVE  /\ CacheGood' /\ Kept \subseteq Kept'
         /\ redis = "up" => KeyOf(kind, req[r].text.of) \in Kept'
<1> DEFINE text == req[r].text
           key == KeyOf(kind, text.of)
           entry == [explanation |-> text, left |-> AiTtl]
<1>1. /\ text \in TextsOf(Items) /\ TextGood(kind, text)
      /\ text.readAge \in 0..MaxRun /\ text.foundAge \in Nat
      /\ text.foundAge < DetectTtl + MaxRun
      /\ Key(text.of) = key /\ key \in KeysOf(kind, Items)
  BY StoreText DEF Store
<1>2. cache' = IF redis = "up" THEN [cache EXCEPT ![key] = entry] ELSE cache
  BY <1>1 DEF Store, SetJson
<1> HIDE DEF text
<1>3. /\ entry \in EntriesOf(Items) /\ entry.explanation = text /\ entry.left = AiTtl
      /\ EntryGood(kind, key, entry)
  BY <1>1, Bounds DEF EntriesOf, EntryGood
<1>4. Items \in SUBSET AnyItem
  BY ItemsAreAny DEF AiInv, Settings
<1>5. entry # None
  BY <1>3, <1>4, NoneIsNoText
<1>6. cache \in [KeysOf(kind, Items) -> EntriesOf(Items) \cup {None}]
      /\ \A k \in Kept : EntryGood(kind, k, cache[k])
  BY DEF AiInv, CacheGood
<1> HIDE DEF entry, key
<1>7. CASE redis = "up"
  <2>1. /\ cache' \in [KeysOf(kind, Items) -> EntriesOf(Items) \cup {None}]
        /\ \A k \in DOMAIN cache : cache'[k] = IF k = key THEN entry ELSE cache[k]
    BY <1>1, <1>2, <1>3, <1>6, <1>7
  <2>2. Kept' = Kept \cup {key}
    BY <1>1, <1>5, <1>6, <2>1 DEF Kept
  <2>3. \A k \in Kept' : EntryGood(kind, k, cache'[k])
    BY <1>1, <1>3, <1>6, <2>1, <2>2 DEF Kept
  <2>4. CacheGood'
    BY <2>1, <2>3 DEF CacheGood
  <2>5. QED
    BY <2>2, <2>4 DEF key, text
<1>8. CASE redis # "up"
  <2>1. cache' = cache /\ Kept' = Kept
    BY <1>2, <1>8 DEF Kept
  <2>2. QED
    BY <1>6, <1>8, <2>1 DEF CacheGood
<1>9. QED
  BY <1>7, <1>8

LEMMA StoreGood ==
  ASSUME AiInv, NEW r \in Requests, Store(r), kind' = kind, config' = config, Items' = Items
  PROVE  CacheGood' /\ RequestsGood'
<1> DEFINE q == req[r]
           text == q.text
           p == Explained(r, text)
           kept == Kept'
<1>1. q.pc = "store" /\ redis' = redis /\ req' = [req EXCEPT ![r] = p]
  BY DEF Store
<1>2. /\ CacheGood' /\ Kept \subseteq kept
      /\ redis = "up" => KeyOf(kind, text.of) \in kept
  BY StoreCache
<1> HIDE DEF kept
<1>3. /\ text \in TextsOf(Items) /\ TextGood(kind, text)
      /\ IsOf(kind, text, q.facts[Len(q.done) + 1])
      /\ text.readAge < AiTtl + MaxRun /\ text.foundAge < AiTtl + DetectTtl + MaxRun
  BY <1>1, StoreText, Bounds
<1>4. /\ RequestGood(kind, config, Items, q) /\ Shaped(Items, q)
      /\ Paid(kind, redis = "up", Kept, q)
  BY <1>1, Explainable DEF Explains
<1> HIDE DEF text
<1>5. p = IF Len(More(q, text).done) = Len(q.facts)
          THEN Answered(More(q, text), "ready", FALSE) ELSE More(q, text)
  <2>1. Shaped(Items, req[r]) /\ text \in TextsOf(Items)
    BY <1>3, <1>4
  <2>2. QED
    BY <2>1, ExplainedIs, Zenon
<1> HIDE DEF p
<1>6. q.clean /\ q.age = 0 =>
        /\ redis = "up" /\ KeyOf(kind, text.of) \in kept
        /\ \A i \in DOMAIN q.done : KeyOf(kind, q.done[i].of) \in kept
  BY <1>1, <1>2, <1>4 DEF Paid, Between
<1>7. RequestGood(kind, config, Items, p) /\ Paid(kind, redis = "up", kept, p)
  <2> DEFINE up == redis = "up"
  <2>1. q.clean /\ q.age = 0 =>
          /\ up /\ KeyOf(kind, text.of) \in kept
          /\ \A i \in DOMAIN q.done : KeyOf(kind, q.done[i].of) \in kept
    BY <1>6
  <2> HIDE DEF up, q
  <2>2. RequestGood(kind, config, Items, p) /\ Paid(kind, up, kept, p)
    <3>1. q.pc \in {"look", "store"}
      BY <1>1
    <3>2. QED
      BY <1>3, <1>4, <1>5, <2>1, <3>1, ExplainedGood
  <2>3. QED
    BY <2>2 DEF up
<1> HIDE DEF q
<1>8. \A s \in Requests :
        RequestGood(kind, config, Items, req[s]) /\ Paid(kind, redis = "up", Kept, req[s])
  BY DEF AiInv, RequestsGood
<1>9. \A s \in Requests : req'[s] = IF s = r THEN p ELSE req[s]
  BY <1>1 DEF AiInv, RequestsGood
<1>10. \A s \in Requests : /\ RequestGood(kind, config, Items, req'[s])
                           /\ Paid(kind, redis = "up", kept, req'[s])
  <2>1. \A s \in Requests : Paid(kind, redis = "up", kept, req[s])
    BY <1>2, <1>8 DEF Paid
  <2>2. QED
    BY <1>7, <1>8, <1>9, <2>1
<1>11. req' = [s \in Requests |-> req'[s]]
  BY <1>1 DEF AiInv, RequestsGood
<1>12. RequestsGood'
  BY <1>1, <1>10, <1>11 DEF RequestsGood, kept
<1>13. QED
  BY <1>2, <1>12

-----------------------------------------------------------------------------
(* The environment                                                         *)

\* A request during which Redis fails.
LEMMA UncleanGood ==
  ASSUME NEW service, NEW setting, NEW items, NEW q, RequestGood(service, setting, items, q)
  PROVE  /\ RequestGood(service, setting, items, [q EXCEPT !.clean = FALSE])
         /\ \A up, kept : Paid(service, up, kept, [q EXCEPT !.clean = FALSE])
<1> DEFINE p == [q EXCEPT !.clean = FALSE]
<1>1. /\ Shaped(items, q) /\ Resolves(service, items, q) /\ Explaining(service, q)
      /\ Writes(service, setting, items, q) /\ (q.pc = "answered" => Honest(q))
  BY DEF RequestGood
<1>2. p \in [pc : Steps, item : items \cup {None}, ai : {q.ai}, finding : Figures \cup {None},
             facts : Seq(FactsOf(items)), done : Seq(TextsOf(items)),
             text : TextsOf(items) \cup {None}, status : Statuses \cup {None},
             told : {q.told}, foundAge : Nat, readAge : Nat, age : 0..MaxRun, clean : {FALSE}]
  BY <1>1 DEF Shaped
<1>3. /\ p.pc = q.pc /\ p.item = q.item /\ p.finding = q.finding /\ p.facts = q.facts
      /\ p.done = q.done /\ p.text = q.text /\ p.status = q.status /\ p.told = q.told
      /\ p.foundAge = q.foundAge /\ p.readAge = q.readAge /\ p.age = q.age
      /\ p.ai = q.ai /\ p.clean = FALSE
  BY <1>1 DEF Shaped
<1> HIDE DEF p
<1>4. Shaped(items, p)
  BY <1>2, <1>3 DEF Shaped
<1>5. Resolves(service, items, p) /\ Explaining(service, p)
  BY <1>1, <1>3 DEF Resolves, Explaining
<1>6. Writes(service, setting, items, p)
  BY <1>1, <1>3 DEF Writes
<1>7. p.pc = "answered" => Honest(p)
  BY <1>1, <1>3 DEF Honest
<1>8. RequestGood(service, setting, items, p)
  BY <1>4, <1>5, <1>6, <1>7 DEF RequestGood
<1>9. \A up, kept : Paid(service, up, kept, p)
  BY <1>3 DEF Paid
<1>10. QED
  BY <1>8, <1>9 DEF p

LEMMA RedisGood ==
  ASSUME AiInv, RedisFails \/ RedisReturns \/ Restart,
         kind' = kind, config' = config, Items' = Items
  PROVE  CacheGood' /\ RequestsGood'
<1>1. cache' = cache /\ Kept' = Kept
  BY DEF RedisFails, RedisReturns, Restart, Kept
<1>2. CacheGood'
  BY <1>1 DEF AiInv, CacheGood
<1>3. /\ req = [r \in Requests |-> req[r]]
      /\ \A r \in Requests : /\ RequestGood(kind, config, Items, req[r])
                             /\ Paid(kind, redis = "up", Kept, req[r])
  BY DEF AiInv, RequestsGood
<1>4. CASE RedisFails
  <2>1. req' = [r \in Requests |-> req'[r]]
    BY <1>4 DEF RedisFails
  <2>2. ASSUME NEW r \in Requests
        PROVE  /\ RequestGood(kind, config, Items, req'[r])
               /\ \A up : Paid(kind, up, Kept, req'[r])
    <3>1. CASE req[r].pc = "idle"
      <4>1. req'[r] = req[r]
        BY <1>4, <3>1 DEF RedisFails
      <4>2. QED
        BY <1>3, <3>1, <4>1 DEF Paid, Between
    <3>2. CASE req[r].pc # "idle"
      <4>1. req'[r] = [req[r] EXCEPT !.clean = FALSE]
        BY <1>4, <3>2 DEF RedisFails
      <4>2. QED
        <5>1. RequestGood(kind, config, Items, req[r])
          BY <1>3
        <5>2. /\ RequestGood(kind, config, Items, [req[r] EXCEPT !.clean = FALSE])
              /\ \A up : Paid(kind, up, Kept, [req[r] EXCEPT !.clean = FALSE])
          BY <5>1, UncleanGood
        <5>3. QED
          BY <4>1, <5>2
    <3>3. QED
      BY <3>1, <3>2
  <2>3. QED
    BY <1>1, <1>2, <2>1, <2>2 DEF RequestsGood
<1>5. CASE RedisReturns
  <2>1. req' = req /\ redis = "down"
    BY <1>5 DEF RedisReturns
  <2>2. \A r \in Requests : Paid(kind, (redis = "up")', Kept, req[r])
    BY <1>3, <2>1 DEF Paid
  <2>3. QED
    BY <1>1, <1>2, <1>3, <2>1, <2>2 DEF RequestsGood
<1>6. CASE Restart
  <2>1. req' = [r \in Requests |-> Idle]
    BY <1>6 DEF Restart
  <2>2. QED
    BY <1>2, <2>1, IdleGood DEF RequestsGood
<1>7. QED
  BY <1>4, <1>5, <1>6

LEMMA ChangeGood ==
  ASSUME AiInv, Change, kind' = kind, config' = config, Items' = Items
  PROVE  CacheGood' /\ RequestsGood'
<1>1. Still /\ req' = req
  BY DEF Change, Still
<1>2. Kept' = Kept /\ (redis = "up")' = (redis = "up")
  BY <1>1 DEF Still, Kept
<1>3. RequestsGood'
  BY <1>1, <1>2 DEF AiInv, RequestsGood, Still
<1>4. QED
  BY <1>1, <1>3, CacheStays

-----------------------------------------------------------------------------
(* Time                                                                    *)

\* A text a tick later.
LEMMA OlderTextGood ==
  ASSUME NEW items, NEW text, text \in TextsOf(items)
  PROVE  /\ OlderText(text) \in TextsOf(items)
         /\ OlderText(text).of = text.of /\ OlderText(text).claims = text.claims
         /\ OlderText(text).readAge <= text.readAge + 1
         /\ OlderText(text).foundAge <= text.foundAge + 1
         /\ OlderText(text).readAge \in Nat /\ OlderText(text).foundAge \in Nat
         /\ text.readAge \in Nat /\ text.foundAge \in Nat
<1> DEFINE found == Older(text.foundAge)
           read == Older(text.readAge)
           p == OlderText(text)
<1>1. /\ text.of \in FactsOf(items) /\ text.claims \in SUBSET (Figures \cup Small)
      /\ text.foundAge \in Nat /\ text.readAge \in Nat
  BY DEF TextsOf
<1>2. /\ found \in Nat /\ found <= text.foundAge + 1
      /\ read \in Nat /\ read <= text.readAge + 1
  BY <1>1 DEF Older
<1> HIDE DEF found, read
<1>3. p \in [of : {text.of}, claims : {text.claims}, foundAge : {found}, readAge : {read}]
  BY DEF OlderText, TextsOf, found, read
<1> HIDE DEF p
<1>4. /\ p.of = text.of /\ p.claims = text.claims /\ p.foundAge = found /\ p.readAge = read
  BY <1>3
<1>5. p \in TextsOf(items)
  BY <1>1, <1>2, <1>3 DEF TextsOf
<1>6. QED
  BY <1>1, <1>2, <1>4, <1>5 DEF p

LEMMA TickCache ==
  ASSUME AiInv, Tick, kind' = kind, Items' = Items PROVE CacheGood'
<1>1. cache \in [KeysOf(kind, Items) -> EntriesOf(Items) \cup {None}]
      /\ \A k \in Kept : EntryGood(kind, k, cache[k])
  BY DEF AiInv, CacheGood
<1>2. cache' = [k \in KeysOf(kind, Items) |-> OlderEntry(cache[k])]
  BY <1>1 DEF Tick
<1>3. ASSUME NEW k \in KeysOf(kind, Items), cache'[k] # None
      PROVE  cache'[k] \in EntriesOf(Items) /\ EntryGood(kind, k, cache'[k])
  <2> DEFINE entry == cache[k]
             p == cache'[k]
  <2>1. entry # None /\ entry.left # 1
        /\ p = [entry EXCEPT !.left = @ - 1, !.explanation = OlderText(@)]
    BY <1>2, <1>3 DEF OlderEntry
  <2>2. entry \in EntriesOf(Items) /\ EntryGood(kind, k, entry)
    BY <1>1, <2>1 DEF Kept
  <2> HIDE DEF entry
  <2>3. entry.explanation \in TextsOf(Items) /\ entry.left \in 1..AiTtl
    BY <2>2 DEF EntriesOf
  <2> DEFINE text == OlderText(entry.explanation)
  <2>4. /\ text \in TextsOf(Items) /\ text.of = entry.explanation.of
        /\ text.claims = entry.explanation.claims
        /\ text.readAge <= entry.explanation.readAge + 1
        /\ text.foundAge <= entry.explanation.foundAge + 1
        /\ text.readAge \in Nat /\ text.foundAge \in Nat
        /\ entry.explanation.readAge \in Nat /\ entry.explanation.foundAge \in Nat
    BY <2>3, OlderTextGood
  <2> HIDE DEF text
  <2>5. p \in [explanation : {text}, left : {entry.left - 1}]
    BY <2>1, <2>2 DEF EntriesOf, text
  <2> HIDE DEF p
  <2>6. p.explanation = text /\ p.left = entry.left - 1 /\ p.left \in 1..AiTtl
    <3>1. p.explanation = text /\ p.left = entry.left - 1
      BY <2>5
    <3>2. entry.left - 1 \in 1..AiTtl
      BY <2>1, <2>3, Bounds
    <3>3. QED
      BY <3>1, <3>2
  <2>7. p \in EntriesOf(Items)
    BY <2>4, <2>5, <2>6 DEF EntriesOf
  <2>8. /\ text.readAge + p.left <= AiTtl + MaxRun
        /\ text.foundAge + p.left < AiTtl + DetectTtl + MaxRun
    <3>1. /\ entry.explanation.readAge + entry.left <= AiTtl + MaxRun
          /\ entry.explanation.foundAge + entry.left < AiTtl + DetectTtl + MaxRun
      BY <2>2 DEF EntryGood
    <3>2. entry.left \in Int /\ p.left \in Int
      BY <2>3, <2>6
    <3>3. p.left = entry.left - 1
      BY <2>6
    <3>4. AiTtl \in Nat /\ DetectTtl \in Nat /\ MaxRun \in Nat
      BY Bounds
    <3>5. QED
      BY <2>4, <3>1, <3>2, <3>3, <3>4
  <2>9. TextGood(kind, text) /\ KeyOf(kind, text.of) = k
    BY <2>2, <2>4 DEF EntryGood, TextGood
  <2>10. EntryGood(kind, k, p)
    BY <2>6, <2>8, <2>9 DEF EntryGood
  <2>11. QED
    BY <2>7, <2>10 DEF p
<1>4. cache' \in [KeysOf(kind, Items) -> EntriesOf(Items) \cup {None}]
  BY <1>2, <1>3
<1>5. \A k \in Kept' : EntryGood(kind, k, cache'[k])
  BY <1>2, <1>3 DEF Kept
<1>6. QED
  BY <1>4, <1>5 DEF CacheGood

\* A request a tick later.
LEMMA OlderRequestGood ==
  ASSUME NEW service, NEW setting, NEW items, items \in SUBSET AnyItem,
         NEW q, RequestGood(service, setting, items, q),
         q.pc \notin {"idle", "answered"} => q.age < MaxRun
  PROVE  /\ RequestGood(service, setting, items, OlderRequest(q))
         /\ \A up, kept : Paid(service, up, kept, OlderRequest(q))
<1>0. /\ Shaped(items, q) /\ Resolves(service, items, q) /\ Explaining(service, q)
      /\ Writes(service, setting, items, q)
  BY DEF RequestGood
<1>1. CASE q.pc \in {"idle", "answered"}
  <2>1. OlderRequest(q) = q
    BY <1>1 DEF OlderRequest
  <2>2. QED
    BY <1>1, <2>1 DEF Paid, Between
<1>2. CASE q.pc \notin {"idle", "answered"}
  <2> DEFINE p == OlderRequest(q)
             found == Older(q.foundAge)
             read == Older(q.readAge)
             text == IF q.text = None THEN None ELSE OlderText(q.text)
  <2>1. /\ q.pc \in Steps /\ q.item \in items \cup {None} /\ q.finding \in Figures \cup {None}
        /\ q.facts \in Seq(FactsOf(items)) /\ q.done \in Seq(TextsOf(items))
        /\ q.text \in TextsOf(items) \cup {None} /\ q.status \in Statuses \cup {None}
        /\ q.foundAge \in Nat /\ q.readAge \in Nat /\ q.age \in Nat /\ q.age < MaxRun
    BY <1>0, <1>2 DEF Shaped
  <2>2. /\ found \in Nat /\ found <= q.foundAge + 1 /\ read \in Nat /\ read <= q.readAge + 1
    BY <2>1 DEF Older
  <2>3. text \in TextsOf(items) \cup {None}
    BY <2>1, OlderTextGood
  <2>4. p = [q EXCEPT !.age = @ + 1, !.foundAge = found, !.readAge = read, !.text = text]
    BY <1>2 DEF OlderRequest
  <2> HIDE DEF found, read, text, p
  <2>5. p \in [pc : {q.pc}, item : {q.item}, ai : {q.ai}, finding : {q.finding},
               facts : {q.facts}, done : {q.done}, text : {text}, status : {q.status},
               told : {q.told}, foundAge : {found}, readAge : {read},
               age : {q.age + 1}, clean : {q.clean}]
    BY <1>0, <2>4 DEF Shaped
  <2>6. /\ p.pc = q.pc /\ p.item = q.item /\ p.finding = q.finding /\ p.facts = q.facts
        /\ p.done = q.done /\ p.text = text /\ p.foundAge = found /\ p.readAge = read
        /\ p.age = q.age + 1 /\ p.ai = q.ai /\ p.told = q.told /\ p.clean = q.clean
    BY <2>5
  <2>7. p.age \in 0..MaxRun
    BY <2>1, <2>6, Bounds
  <2>8. Shaped(items, p)
    <3>1. p \in [pc : Steps, item : items \cup {None}, ai : {q.ai},
                 finding : Figures \cup {None}, facts : Seq(FactsOf(items)),
                 done : Seq(TextsOf(items)), text : TextsOf(items) \cup {None},
                 status : Statuses \cup {None}, told : {q.told}, foundAge : Nat,
                 readAge : Nat, age : 0..MaxRun, clean : {q.clean}]
      BY <2>1, <2>2, <2>3, <2>5, <2>6, <2>7
    <3>2. QED
      BY <2>6, <3>1 DEF Shaped
  <2>9. Resolves(service, items, p) /\ Explaining(service, p)
    BY <1>0, <2>6 DEF Resolves, Explaining
  <2>10. Ages(p.readAge, p.foundAge, p.age)
    <3>1. q.readAge <= q.age /\ q.foundAge < DetectTtl + q.age
      BY <1>0 DEF Writes, Ages
    <3>2. read <= q.age + 1 /\ found < DetectTtl + (q.age + 1)
      BY <2>1, <2>2, <3>1, Bounds
    <3>3. QED
      BY <2>6, <3>2 DEF Ages
  <2>11. ASSUME q.pc = "store"
         PROVE  /\ p.text \in TextsOf(items) /\ p.text.of = p.facts[Len(p.done) + 1]
                /\ TextGood(service, p.text)
                /\ Ages(p.text.readAge, p.text.foundAge, p.age)
    <3>1. /\ q.text \in TextsOf(items) /\ q.text.of = q.facts[Len(q.done) + 1]
          /\ TextGood(service, q.text) /\ Ages(q.text.readAge, q.text.foundAge, q.age)
      BY <1>0, <2>11 DEF Writes
    <3>2. p.text = OlderText(q.text)
      BY <2>6, <3>1, NoneIsNoText DEF text
    <3>3. /\ p.text \in TextsOf(items) /\ p.text.of = q.text.of
          /\ p.text.claims = q.text.claims
          /\ p.text.readAge <= q.text.readAge + 1 /\ p.text.foundAge <= q.text.foundAge + 1
          /\ p.text.readAge \in Nat /\ p.text.foundAge \in Nat
          /\ q.text.readAge \in Nat /\ q.text.foundAge \in Nat
      BY <3>1, <3>2, OlderTextGood
    <3>4. Ages(p.text.readAge, p.text.foundAge, p.age)
      <4>1. q.text.readAge <= q.age /\ q.text.foundAge < DetectTtl + q.age
        BY <3>1 DEF Ages
      <4>2. p.text.readAge <= q.age + 1 /\ p.text.foundAge < DetectTtl + (q.age + 1)
        <5>1. q.age \in Nat /\ DetectTtl \in Nat
          BY <2>1, Bounds
        <5>2. p.text.readAge <= q.age + 1
          BY <3>3, <4>1, <5>1
        <5>3. p.text.foundAge < DetectTtl + (q.age + 1)
          BY <3>3, <4>1, <5>1
        <5>4. QED
          BY <5>2, <5>3
      <4>3. QED
        BY <2>6, <4>2 DEF Ages
    <3>5. TextGood(service, p.text)
      BY <3>1, <3>3 DEF TextGood
    <3>6. QED
      BY <2>6, <3>1, <3>3, <3>4, <3>5
  <2>12. Writes(service, setting, items, p)
    BY <1>0, <2>6, <2>10, <2>11 DEF Writes
  <2>13. RequestGood(service, setting, items, p)
    BY <1>2, <2>6, <2>8, <2>9, <2>12 DEF RequestGood
  <2>14. \A up, kept : Paid(service, up, kept, p)
    BY <2>1, <2>6 DEF Paid
  <2>15. QED
    BY <2>13, <2>14 DEF p
<1>3. QED
  BY <1>1, <1>2

LEMMA TickGood ==
  ASSUME AiInv, Tick, kind' = kind, config' = config, Items' = Items
  PROVE  CacheGood' /\ RequestsGood'
<1>1. CacheGood'
  BY TickCache
<1>2. Items \in SUBSET AnyItem
  BY ItemsAreAny DEF AiInv, Settings
<1>3. req' = [r \in Requests |-> OlderRequest(req[r])]
      /\ \A r \in Requests : req[r].pc \notin {"idle", "answered"} => req[r].age < MaxRun
  BY DEF Tick
<1>4. \A r \in Requests : RequestGood(kind, config, Items, req[r])
  BY DEF AiInv, RequestsGood
<1>5. ASSUME NEW r \in Requests
      PROVE  /\ RequestGood(kind, config, Items, OlderRequest(req[r]))
             /\ \A up, kept : Paid(kind, up, kept, OlderRequest(req[r]))
  BY <1>2, <1>3, <1>4, OlderRequestGood
<1>6. req' = [r \in Requests |-> req'[r]] /\ \A r \in Requests : req'[r] = OlderRequest(req[r])
  BY <1>3
<1>7. RequestsGood'
  BY <1>5, <1>6 DEF RequestsGood
<1>8. QED
  BY <1>1, <1>7

-----------------------------------------------------------------------------
(* Theorems                                                                *)

\* The steps of requests that leave Redis alone.
LEMMA RequestStep ==
  ASSUME AiInv, Next, NEW r \in Requests,
         \/ Ask(r) \/ SelectEvents(r) \/ ResolveAnomaly(r) \/ CheckAnomaly(r)
         \/ ResolveRecommendation(r) \/ ResolveQuestion(r) \/ ReadRecords(r) \/ ReadInvalid(r)
         \/ Hit(r) \/ Miss(r) \/ Generate(r) \/ OverQuota(r) \/ ModelFails(r) \/ Finish(r)
  PROVE  CacheGood' /\ RequestsGood'
<1>1. redis' = redis /\ cache' = cache
  BY DEF Ask, SelectEvents, ResolveAnomaly, CheckAnomaly, ResolveRecommendation,
     ResolveQuestion, ReadRecords, ReadInvalid, Hit, Miss, Generate, OverQuota, ModelFails,
     Finish
<1>2. Still
  BY <1>1, KindStays DEF Still
<1>3. RequestsGood'
  BY <1>2, AskGood, SelectEventsGood, ResolveAnomalyGood, CheckAnomalyGood,
     ResolveRecommendationGood, ResolveQuestionGood, ReadsGood, HitGood, MissGood,
     GenerateGood, ModelFailsGood, FinishGood
<1>4. QED
  BY <1>2, <1>3, CacheStays

LEMMA AiStep == AiInv /\ [Next]_vars => AiInv'
<1> SUFFICES ASSUME AiInv, [Next]_vars PROVE AiInv'
  OBVIOUS
<1>1. CASE UNCHANGED vars
  <2>1. Kept' = Kept /\ Items' = Items
    BY <1>1 DEF Kept, Items
  <2>2. Settings' /\ CacheGood' /\ RequestsGood'
    BY <1>1, <2>1 DEF AiInv, Settings, CacheGood, RequestsGood
  <2>3. QED
    BY <2>2 DEF AiInv
<1>2. CASE Next
  <2>0. kind' = kind /\ config' = config /\ Items' = Items /\ Settings'
    BY <1>2, KindStays, SettingsStep
  <2>1. ASSUME NEW r \in Requests, Store(r) PROVE CacheGood' /\ RequestsGood'
    BY <2>0, <2>1, StoreGood
  <2>2. ASSUME NEW r \in Requests, (Ask(r) \/ Step(r)) /\ ~Store(r)
        PROVE  CacheGood' /\ RequestsGood'
    BY <1>2, <2>2, RequestStep DEF Step
  <2>3. ASSUME NEW r \in Requests, Ask(r) \/ Step(r) PROVE CacheGood' /\ RequestsGood'
    <3>1. CASE Store(r)
      BY <2>1, <3>1
    <3>2. CASE ~Store(r)
      BY <2>2, <2>3, <3>2
    <3>3. QED
      BY <3>1, <3>2
  <2>4. CacheGood' /\ RequestsGood'
    <3>1. CASE \E r \in Requests : Ask(r) \/ Step(r)
      BY <2>3, <3>1
    <3>2. CASE Change
      BY <2>0, <3>2, ChangeGood
    <3>3. CASE RedisFails \/ RedisReturns \/ Restart
      BY <2>0, <3>3, RedisGood
    <3>4. CASE Tick
      BY <2>0, <3>4, TickGood
    <3>5. QED
      BY <1>2, <3>1, <3>2, <3>3, <3>4 DEF Next
  <2>5. QED
    BY <2>0, <2>4 DEF AiInv
<1>3. QED
  BY <1>1, <1>2

LEMMA AiAlways == Spec => []AiInv
BY AiInit, AiStep, PTL DEF Spec

\* Every variable has its type, and a request that explains has something left
\* to explain.
THEOREM AiTypeCorrect == Spec => []TypeOK
<1>1. AiInv => TypeOK
  <2> SUFFICES ASSUME AiInv PROVE TypeOK
    OBVIOUS
  <2>1. Settings /\ cache \in [{Key(facts) : facts \in Facts} ->
                                 [explanation : Text, left : 1..AiTtl] \cup {None}]
    BY Named DEF AiInv, CacheGood, EntriesOf
  <2>2. ASSUME NEW r \in Requests
        PROVE  /\ req[r].pc \in Steps /\ req[r].item \in Items \cup {None}
               /\ req[r].finding \in Figures \cup {None}
               /\ req[r].facts \in Seq(Facts) /\ req[r].done \in Seq(Text)
               /\ req[r].text \in Text \cup {None} /\ req[r].status \in Statuses \cup {None}
               /\ req[r].age \in 0..MaxRun
               /\ req[r].pc \in {"look", "model", "store"} =>
                    Len(req[r].done) < Len(req[r].facts)
    <3>1. Shaped(Items, req[r]) /\ Writes(kind, config, Items, req[r])
      BY DEF AiInv, RequestsGood, RequestGood
    <3>2. req[r].pc \in {"look", "model", "store"} => Len(req[r].done) < Len(req[r].facts)
      BY <3>1 DEF Writes, Explains
    <3>3. QED
      BY <3>1, <3>2, Named DEF Shaped
  <2>3. QED
    BY <2>1, <2>2 DEF TypeOK, Settings, Steps
<1>2. QED
  BY <1>1, AiAlways, PTL

\* Bare numbers from 1 to 8 apart, no text is shown or kept that quotes a figure
\* which the facts it explains do not have, whatever the model says.
THEOREM ClaimsAreSupported == Spec => []ClaimsSupported
<1>1. AiInv => ClaimsSupported
  <2> SUFFICES ASSUME AiInv, kind # "insights" PROVE ClaimsSupported
    BY DEF ClaimsSupported
  <2>1. \A r \in Requests : \A i \in DOMAIN req[r].done :
          req[r].done[i].claims \ Small \subseteq Numbers(req[r].done[i].of)
    BY DEF AiInv, RequestsGood, RequestGood, Explaining, TextGood
  <2>2. \A k \in DOMAIN cache : cache[k] # None =>
          cache[k].explanation.claims \ Small \subseteq
            Numbers(cache[k].explanation.of)
    BY DEF AiInv, CacheGood, Kept, EntryGood, TextGood
  <2>3. QED
    BY <2>1, <2>2 DEF ClaimsSupported
<1>2. QED
  BY <1>1, AiAlways, PTL

\* The status of an answer says whether it explains something, and whether the
\* model left something out.
THEOREM StatusesAreHonest == Spec => []StatusHonest
<1>1. AiInv => StatusHonest
  BY DEF AiInv, RequestsGood, RequestGood, Honest, StatusHonest, Done
<1>2. QED
  BY <1>1, AiAlways, PTL

\* Whatever request stored them, the explanations of an answer are of the facts
\* that were asked about, and as recent as the lifetimes say.
THEOREM ExplanationsAreOfOwnFacts == Spec => []OwnFacts
<1>1. AiInv => OwnFacts
  <2> SUFFICES ASSUME AiInv, NEW r \in Requests, NEW i \in DOMAIN req[r].done
               PROVE  IF kind = "anomaly"
                      THEN /\ req[r].done[i].of.item = req[r].facts[i].item
                           /\ req[r].facts[i].item \in Anomalies[req[r].done[i].of.finding]
                           /\ req[r].done[i].readAge < AiTtl + MaxRun
                           /\ req[r].done[i].foundAge < AiTtl + DetectTtl + MaxRun
                      ELSE req[r].done[i].of = req[r].facts[i]
    BY DEF OwnFacts
  <2>1. Explaining(kind, req[r])
    BY DEF AiInv, RequestsGood, RequestGood
  <2>2. QED
    BY <2>1 DEF Explaining, IsOf
<1>2. QED
  BY <1>1, AiAlways, PTL

-----------------------------------------------------------------------------
(* What an answered request has explained                                  *)

\* A step of a request that answers it adds at most what is in Redis by then.
Ends(r) ==
  \E p : /\ req' = [req EXCEPT ![r] = p]
         /\ p.pc = "answered" =>
              \/ p.done = req[r].done
              \/ \E text \in TextsOf(Items) :
                   /\ p.done = Append(req[r].done, text)
                   /\ redis = "up" => KeyOf(kind, text.of) \in Kept'

\* An answer has what the request has explained.
LEMMA AnsweredKeeps ==
  ASSUME NEW items, NEW q, Shaped(items, q), NEW status, NEW told
  PROVE  Answered(q, status, told).done = q.done
BY DEF Answered, Shaped

LEMMA AnswerEnds ==
  ASSUME AiInv, NEW r \in Requests, NEW status, NEW told, Answer(r, status, told)
  PROVE  Ends(r)
<1>1. Shaped(Items, req[r]) /\ r \in DOMAIN req
  BY DEF AiInv, RequestsGood, RequestGood
<1> DEFINE p == Answered(req[r], status, told)
<1>2. req' = [req EXCEPT ![r] = p] /\ p.done = req[r].done
  BY <1>1, AnsweredKeeps DEF Answer
<1> HIDE DEF p
<1>3. QED
  BY <1>2 DEF Ends

\* A step to another place than the answer.
LEMMA OnwardEnds ==
  ASSUME NEW r, NEW p, req' = [req EXCEPT ![r] = p], p.pc # "answered" PROVE Ends(r)
BY DEF Ends

LEMMA ExplainedKeeps ==
  ASSUME NEW r, NEW text \in TextsOf(Items), NEW p, req' = [req EXCEPT ![r] = p],
         p.done = Append(req[r].done, text),
         redis = "up" => KeyOf(kind, text.of) \in Kept'
  PROVE  Ends(r)
BY DEF Ends

LEMMA ExplainedEnds ==
  ASSUME AiInv, NEW r \in Requests, NEW text \in TextsOf(Items),
         req' = [req EXCEPT ![r] = Explained(r, text)],
         redis = "up" => KeyOf(kind, text.of) \in Kept'
  PROVE  Ends(r)
<1> DEFINE m == More(req[r], text)
           p == Explained(r, text)
<1>1. Shaped(Items, req[r])
  BY DEF AiInv, RequestsGood, RequestGood
<1>2. Shaped(Items, m) /\ m.done = Append(req[r].done, text)
  BY <1>1, MoreFields
<1>3. \/ p = Answered(m, "ready", FALSE)
      \/ p = m
  BY <1>1, ExplainedIs
<1> HIDE DEF m, p
<1>4. CASE p = m
  BY <1>2, <1>4, ExplainedKeeps DEF p
<1>5. CASE p = Answered(m, "ready", FALSE)
  <2>1. Answered(m, "ready", FALSE).done = m.done
    <3> DEFINE told == FALSE
               status == "ready"
    <3> HIDE DEF told, status
    <3>1. Answered(m, status, told).done = m.done
      BY <1>2, AnsweredKeeps
    <3>2. QED
      BY <3>1 DEF told, status
  <2>2. QED
    BY <1>2, <1>5, <2>1, ExplainedKeeps DEF p
<1>6. QED
  BY <1>3, <1>4, <1>5

LEMMA AskResolves ==
  ASSUME NEW r \in Requests, Ask(r)
  PROVE  \E p : req' = [req EXCEPT ![r] = p] /\ p.pc = "resolve"
<1>1. PICK item \in Items, ai \in BOOLEAN :
        req' = [req EXCEPT ![r] = [Idle EXCEPT !.pc = "resolve", !.ai = ai,
                  !.clean = redis = "up",
                  !.item = IF kind = "insights" THEN None ELSE item]]
  BY DEF Ask
<1> DEFINE p == [Idle EXCEPT !.pc = "resolve", !.ai = ai, !.clean = redis = "up",
                             !.item = IF kind = "insights" THEN None ELSE item]
<1>2. p.pc = "resolve"
  BY DEF Idle
<1>3. QED
  BY <1>1, <1>2

\* A request that fails on its way to its facts, or goes on.
LEMMA BeforeEnds ==
  ASSUME AiInv, NEW r \in Requests,
         \/ Ask(r) \/ SelectEvents(r) \/ ResolveAnomaly(r) \/ CheckAnomaly(r)
         \/ ResolveRecommendation(r) \/ ResolveQuestion(r) \/ ReadRecords(r) \/ ReadInvalid(r)
         \/ Finish(r)
  PROVE  Ends(r)
<1> DEFINE q == req[r]
<1>1. Shaped(Items, q) /\ r \in DOMAIN req
  BY DEF AiInv, RequestsGood, RequestGood
<1>2. ASSUME NEW status, NEW told, Answer(r, status, told) PROVE Ends(r)
  BY <1>2, AnswerEnds
<1>3. ASSUME NEW pc, pc # "answered", To(r, pc) PROVE Ends(r)
  <2>1. [q EXCEPT !.pc = pc].pc = pc
    BY <1>1 DEF Shaped
  <2>2. QED
    BY <1>1, <1>3, <2>1, OnwardEnds DEF To
<1>4. ASSUME NEW finding, NEW foundAge,
             req' = [req EXCEPT ![r].pc = "found", ![r].finding = finding,
                                ![r].foundAge = foundAge]
      PROVE  Ends(r)
  <2> DEFINE p == [q EXCEPT !.pc = "found", !.finding = finding, !.foundAge = foundAge]
  <2>1. req' = [req EXCEPT ![r] = p] /\ p.pc = "found"
    BY <1>1, <1>4 DEF Shaped
  <2> HIDE DEF p
  <2>2. QED
    BY <2>1, OnwardEnds
<1>5. ASSUME NEW facts, req' = [req EXCEPT ![r].pc = "look", ![r].facts = facts]
      PROVE  Ends(r)
  <2> DEFINE p == [q EXCEPT !.pc = "look", !.facts = facts]
  <2>1. req' = [req EXCEPT ![r] = p] /\ p.pc = "look"
    BY <1>1, <1>5 DEF Shaped
  <2> HIDE DEF p
  <2>2. QED
    BY <2>1, OnwardEnds
<1>6. CASE Ask(r)
  <2>1. PICK p : req' = [req EXCEPT ![r] = p] /\ p.pc = "resolve"
    BY <1>6, AskResolves
  <2>2. QED
    BY <2>1, OnwardEnds
<1>7. CASE SelectEvents(r)
  <2> DEFINE facts == [i \in DOMAIN Events[figures] |->
                         [item |-> Events[figures][i], finding |-> None, records |-> None]]
             goes == req' = [req EXCEPT ![r].pc = "look", ![r].facts = facts]
  <2>1. \/ Answer(r, "disabled", FALSE) \/ Answer(r, "unavailable", TRUE)
        \/ Answer(r, "empty", FALSE) \/ Answer(r, "pending", FALSE) \/ goes
    BY <1>7 DEF SelectEvents
  <2>2. goes => Ends(r)
    <3> HIDE DEF facts
    <3>1. QED
      BY <1>5
  <2> HIDE DEF goes
  <2>3. QED
    BY <1>2, <2>1, <2>2
<1>8. CASE ResolveAnomaly(r)
  BY <1>4, <1>8 DEF ResolveAnomaly, Detect
<1>9. CASE CheckAnomaly(r)
  BY <1>2, <1>3, <1>9 DEF CheckAnomaly
<1> DEFINE reads(finding) == req' = [req EXCEPT ![r].pc = "read", ![r].finding = finding]
           looks(facts) == req' = [req EXCEPT ![r].pc = "look", ![r].facts = facts]
<1>15. ASSUME NEW finding, reads(finding) PROVE Ends(r)
  <2> DEFINE p == [q EXCEPT !.pc = "read", !.finding = finding]
  <2>1. req' = [req EXCEPT ![r] = p] /\ p.pc = "read"
    BY <1>1, <1>15 DEF Shaped
  <2> HIDE DEF p
  <2>2. QED
    BY <2>1, OnwardEnds
<1>10. CASE ResolveRecommendation(r)
  BY <1>2, <1>10, <1>15 DEF ResolveRecommendation
<1>11. CASE ResolveQuestion(r)
  <2>1. \/ Answer(r, "error", FALSE) \/ \E finding : reads(finding)
        \/ \E facts : looks(facts)
    BY <1>11 DEF ResolveQuestion
  <2>2. \A facts : looks(facts) => Ends(r)
    BY <1>5
  <2> HIDE DEF reads, looks
  <2>3. QED
    BY <1>2, <1>15, <2>1, <2>2
<1>12. CASE ReadRecords(r)
  <2> DEFINE p == [q EXCEPT !.pc = "look", !.readAge = 0,
                            !.facts = <<[item |-> q.item, finding |-> q.finding,
                                         records |-> figures]>>]
  <2>1. req' = [req EXCEPT ![r] = p] /\ p.pc = "look"
    BY <1>1, <1>12 DEF ReadRecords, Shaped
  <2> HIDE DEF p
  <2>2. QED
    BY <2>1, OnwardEnds
<1>13. CASE ReadInvalid(r)
  BY <1>2, <1>13 DEF ReadInvalid
<1>14. CASE Finish(r)
  <2>1. req' = [req EXCEPT ![r] = Idle] /\ Idle.pc # "answered"
    BY <1>14 DEF Finish, Idle
  <2>2. QED
    BY <2>1, OnwardEnds
<1>16. QED
  BY <1>6, <1>7, <1>8, <1>9, <1>10, <1>11, <1>12, <1>13, <1>14

\* A failure of the model.
LEMMA FailsEnds ==
  ASSUME AiInv, NEW r \in Requests, NEW failure, Fails(r, failure) PROVE Ends(r)
<1>1. PICK status : Answer(r, status, TRUE)
  BY DEF Fails
<1>2. QED
  BY <1>1, AnswerEnds

\* A request that explains: what it adds is in the entry it was found in, or is
\* stored in this step.
LEMMA ExplainEnds ==
  ASSUME AiInv, NEW r \in Requests, kind' = kind, Items' = Items,
         \/ Hit(r) \/ Miss(r) \/ Generate(r) \/ OverQuota(r) \/ ModelFails(r) \/ Store(r)
  PROVE  Ends(r)
<1> DEFINE q == req[r]
<1>1. Shaped(Items, q) /\ r \in DOMAIN req
  BY DEF AiInv, RequestsGood, RequestGood
<1>2. CASE Hit(r)
  <2> DEFINE text == GetJson(Key(Fact(r))).explanation
  <2>1. /\ q.pc = "look" /\ GetJson(Key(Fact(r))) # None /\ cache' = cache
        /\ req' = [req EXCEPT ![r] = Explained(r, text)]
    BY <1>2 DEF Hit
  <2>2. Fact(r) \in FactsOf(Items) /\ FactGood(kind, Fact(r))
    BY <2>1, Explainable DEF Explains
  <2>3. text \in TextsOf(Items) /\ KeyOf(kind, text.of) \in Kept
    BY <2>1, <2>2, EntryTells
  <2>4. Kept' = Kept
    BY <2>1 DEF Kept
  <2> HIDE DEF text
  <2>5. QED
    BY <2>1, <2>3, <2>4, ExplainedEnds
<1>3. CASE Miss(r)
  <2>1. \/ \E status, told : Answer(r, status, told)
        \/ To(r, "model")
    BY <1>3 DEF Miss
  <2>2. To(r, "model") => Ends(r)
    <3>1. [q EXCEPT !.pc = "model"].pc # "answered"
      BY <1>1 DEF Shaped
    <3>2. QED
      BY <1>1, <3>1, OnwardEnds DEF To
  <2>3. QED
    BY <2>1, <2>2, AnswerEnds
<1>4. CASE Generate(r)
  <2>1. PICK claims :
          \/ Fails(r, "invalid")
          \/ req' = [req EXCEPT ![r].pc = "store", ![r].text = Explanation(r, claims)]
    BY <1>4 DEF Generate
  <2> DEFINE text == Explanation(r, claims)
             p == [q EXCEPT !.pc = "store", !.text = text]
  <2>2. ASSUME req' = [req EXCEPT ![r].pc = "store", ![r].text = text] PROVE Ends(r)
    <3>1. req' = [req EXCEPT ![r] = p] /\ p.pc # "answered"
      BY <1>1, <2>2 DEF Shaped
    <3> HIDE DEF p
    <3>2. QED
      BY <3>1, OnwardEnds
  <2>3. QED
    BY <2>1, <2>2, FailsEnds
<1>5. CASE OverQuota(r) \/ ModelFails(r)
  BY <1>5, FailsEnds DEF OverQuota, ModelFails
<1>6. CASE Store(r)
  <2> DEFINE text == q.text
  <2>1. /\ q.pc = "store" /\ req' = [req EXCEPT ![r] = Explained(r, text)]
    BY <1>6 DEF Store
  <2>2. text \in TextsOf(Items)
    BY <2>1, StoreText
  <2>3. redis = "up" => KeyOf(kind, text.of) \in Kept'
    BY <1>6, StoreCache
  <2> HIDE DEF text
  <2>4. QED
    BY <2>1, <2>2, <2>3, ExplainedEnds
<1>7. QED
  BY <1>2, <1>3, <1>4, <1>5, <1>6

\* No request takes an explanation out of Redis.
LEMMA KeptStays ==
  ASSUME AiInv, Next, NEW r \in Requests, Ask(r) \/ Step(r) PROVE Kept \subseteq Kept'
<1>1. CASE Store(r)
  BY <1>1, KindStays, StoreCache
<1>2. CASE ~Store(r)
  <2>1. cache' = cache
    BY <1>2 DEF Step, Ask, SelectEvents, ResolveAnomaly, CheckAnomaly, ResolveRecommendation,
       ResolveQuestion, ReadRecords, ReadInvalid, Hit, Miss, Generate, OverQuota, ModelFails,
       Finish
  <2>2. QED
    BY <2>1 DEF Kept
<1>3. QED
  BY <1>1, <1>2

\* Nothing but its own step answers a request.
LEMMA AnsweredByItself ==
  ASSUME AiInv, Change \/ RedisFails \/ RedisReturns \/ Restart \/ Tick,
         NEW r \in Requests, Done(r)'
  PROVE  Done(r)
<1>1. Shaped(Items, req[r])
  BY DEF AiInv, RequestsGood, RequestGood
<1>2. CASE Change \/ RedisReturns
  BY <1>2 DEF Change, RedisReturns, Done
<1>3. CASE RedisFails
  BY <1>1, <1>3 DEF RedisFails, Done, Shaped
<1>4. CASE Restart
  BY <1>4 DEF Restart, Done, Idle
<1>5. CASE Tick
  <2>1. req'[r] = OlderRequest(req[r])
    BY <1>5 DEF Tick
  <2>2. OlderRequest(req[r]).pc = req[r].pc
    BY <1>1 DEF OlderRequest, Shaped
  <2>3. QED
    BY <2>1, <2>2 DEF Done
<1>6. QED
  BY <1>2, <1>3, <1>4, <1>5

\* The step that answers a request which Redis served without delay.
LEMMA PaidStep ==
  ASSUME AiInv, Next, NEW r \in Requests, Ask(r) \/ Step(r),
         ~Done(r), Done(r)', req[r].clean, req[r].age = 0,
         NEW i \in DOMAIN req'[r].done
  PROVE  cache'[Key(req'[r].done[i].of)] # None
<1> DEFINE q == req[r]
           done == req'[r].done
<1>1. Shaped(Items, q) /\ r \in DOMAIN req /\ Paid(kind, redis = "up", Kept, q)
  BY DEF AiInv, RequestsGood, RequestGood
<1>2. ~Ask(r)
  <2>1. ASSUME Ask(r) PROVE req'[r].pc = "resolve"
    <3>1. PICK p : req' = [req EXCEPT ![r] = p] /\ p.pc = "resolve"
      BY <2>1, AskResolves
    <3>2. QED
      BY <1>1, <3>1
  <2>2. QED
    BY <2>1 DEF Done
<1>3. q.pc \notin Between
  BY <1>2 DEF Done, Between, Step, SelectEvents, ResolveAnomaly, CheckAnomaly,
     ResolveRecommendation, ResolveQuestion, ReadRecords, ReadInvalid, Hit, Miss, Generate,
     OverQuota, ModelFails, Store, Finish
<1>4. redis = "up" /\ \A j \in DOMAIN q.done : KeyOf(kind, q.done[j].of) \in Kept
  BY <1>1, <1>3 DEF Paid
<1>5. Kept \subseteq Kept'
  BY KeptStays
<1>6. Ends(r)
  BY <1>2, KindStays, BeforeEnds, ExplainEnds DEF Step
<1>7. \/ done = q.done
      \/ \E text \in TextsOf(Items) : done = Append(q.done, text) /\ KeyOf(kind, text.of) \in Kept'
  <2>1. PICK p : /\ req' = [req EXCEPT ![r] = p]
                 /\ p.pc = "answered" =>
                      \/ p.done = req[r].done
                      \/ \E text \in TextsOf(Items) :
                           /\ p.done = Append(req[r].done, text)
                           /\ redis = "up" => KeyOf(kind, text.of) \in Kept'
    BY <1>6 DEF Ends
  <2>2. req'[r] = p
    BY <1>1, <2>1
  <2>3. QED
    BY <1>4, <2>1, <2>2 DEF Done
<1>8. q.done \in Seq(TextsOf(Items))
  BY <1>1 DEF Shaped
<1> HIDE DEF q, done
<1>9. done[i] \in TextsOf(Items) /\ KeyOf(kind, done[i].of) \in Kept'
  <2>0. i \in DOMAIN done
    BY DEF done
  <2>1. CASE done = q.done
    BY <1>4, <1>5, <1>8, <2>0, <2>1
  <2>2. ASSUME NEW text \in TextsOf(Items), done = Append(q.done, text),
               KeyOf(kind, text.of) \in Kept'
        PROVE  done[i] \in TextsOf(Items) /\ KeyOf(kind, done[i].of) \in Kept'
    <3>1. \/ i \in DOMAIN q.done /\ done[i] = q.done[i]
          \/ done[i] = text
      BY <1>8, <2>0, <2>2, AppendElements
    <3>2. CASE i \in DOMAIN q.done /\ done[i] = q.done[i]
      <4>1. q.done[i] \in TextsOf(Items)
        BY <1>8, <3>2
      <4>2. KeyOf(kind, q.done[i].of) \in Kept'
        BY <1>4, <1>5, <3>2
      <4>3. QED
        BY <3>2, <4>1, <4>2
    <3>3. QED
      BY <2>2, <3>1, <3>2
  <2>3. QED
    BY <1>7, <2>1, <2>2
<1>10. Key(done[i].of) = KeyOf(kind, done[i].of)
  BY <1>9, Named DEF TextsOf
<1>11. cache'[KeyOf(kind, done[i].of)] # None
  BY <1>9 DEF Kept
<1>12. QED
  BY <1>10, <1>11 DEF done

\* If Redis served a request without delay, whatever it explained is there when
\* it is answered: a retry does not pay for it again.
THEOREM ExplainedIsKept == Spec => PaidIsKept
<1>1. AiInv /\ [Next]_vars =>
        [\A r \in Requests :
           (~Done(r) /\ Done(r)' /\ req[r].clean /\ req[r].age = 0) =>
             \A i \in DOMAIN req'[r].done : cache'[Key(req'[r].done[i].of)] # None]_vars
  <2> SUFFICES ASSUME AiInv, Next, NEW r \in Requests,
                      ~Done(r), Done(r)', req[r].clean, req[r].age = 0,
                      NEW i \in DOMAIN req'[r].done
               PROVE  cache'[Key(req'[r].done[i].of)] # None
    OBVIOUS
  <2>1. PICK s \in Requests : Ask(s) \/ Step(s)
    BY AnsweredByItself DEF Next
  <2>2. \E p : req' = [req EXCEPT ![s] = p]
    <3>1. Ends(s)
      BY <2>1, KindStays, BeforeEnds, ExplainEnds DEF Step
    <3>2. QED
      BY <3>1 DEF Ends
  <2>3. s = r
    <3>1. s # r => req'[r] = req[r]
      BY <2>2 DEF AiInv, RequestsGood
    <3>2. QED
      BY <3>1 DEF Done
  <2>4. QED
    BY <2>1, <2>3, PaidStep
<1>2. QED
  BY <1>1, AiAlways, PTL DEF Spec, PaidIsKept
=============================================================================
