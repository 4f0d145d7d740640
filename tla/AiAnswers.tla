------------------------------ MODULE AiAnswers ------------------------------
(***************************************************************************)
(* The answers that quote a language model: the explained cost events of   *)
(* the dashboard, the explanation of an anomaly, the advice on a           *)
(* recommendation, the copilot. Each collects its facts from the           *)
(* deterministic services, looks the explanation of those facts up in      *)
(* Redis, asks Gemini if it is not there, validates what Gemini says,      *)
(* stores it, and falls back on the facts alone when the model fails. The  *)
(* events of the dashboard are explained one after the other.              *)
(*                                                                         *)
(* Abstractions: the figures of the providers are a version, and the       *)
(* events and anomalies a function of it; a text is the numbers it quotes.  *)
(* The four services share no key, so that one behaviour runs one of them. *)
(* The entries of the summary and of the Cost Explorer are those of the    *)
(* modules Dashboard and CostReads.                                        *)
(***************************************************************************)
EXTENDS Integers, Sequences

CONSTANTS
  Requests,
  Figures,    \* the versions of the costs
  Small,      \* bare numbers from 1 to 8, which any text may quote
  Events,     \* the significant changes of each, largest first
  Anomalies,  \* the ids of the anomalies of each
  Questions,  \* the questions, by the intents they have
  AiTtl,      \* AI_INSIGHT_CACHE_TTL_SECONDS
  DetectTtl,  \* ANOMALY_CACHE_TTL_SECONDS
  Quota,      \* answers Gemini gives between two ticks
  MaxRun,     \* bound on the time a request takes
  MaxFaults,  \* bound on the failures of Gemini, the quota apart, and of Redis
  None

\* What classify_question makes of a question.
Intents == {"cost", "anomaly", "forecast", "optimization", "budget",
            "cross_domain", "unsupported"}

ASSUME AiAssumption ==
  /\ Questions \subseteq Intents
  /\ Events \in [Figures -> Seq(STRING)]
  /\ Anomalies \in [Figures -> SUBSET STRING]
  /\ AiTtl \in Nat \ {0} /\ DetectTtl \in Nat \ {0}
  /\ Quota \in Nat \ {0} /\ MaxRun \in Nat /\ MaxFaults \in Nat

VARIABLES
  kind,      \* the service of this behaviour
  figures,   \* the costs the providers report
  config,    \* the settings of the process: "on", without a key, or "off"
  redis,     \* "up", "down" (its calls fail), "none" (no client since startup)
  quota, faults,
  cache,     \* the explanations in Redis, by key
  detected,  \* the detector's entry in Redis
  req

vars == <<kind, figures, config, redis, quota, faults, cache, detected, req>>

Items ==
  CASE kind = "insights" -> UNION {{Events[f][i] : i \in DOMAIN Events[f]} : f \in Figures}
    [] kind = "anomaly" -> UNION {Anomalies[f] : f \in Figures}
    [] kind = "advisor" -> {"recommendation"}
    [] kind = "copilot" -> Questions

\* What Gemini is told: an event with its numbers, or a finding (anomaly or
\* recommendation) with the records that go with it.
Facts == [item : Items, finding : Figures \cup {None}, records : Figures \cup {None}]

\* Mutant: advice and answers are kept by what was asked alone.
KeyOfItem(facts) == [facts EXCEPT !.finding = None, !.records = None]

\* The key of an explanation: the event; the anomaly; the whole context.
Key(facts) ==
  IF kind \in {"insights", "anomaly"}
  THEN [facts EXCEPT !.finding = None, !.records = None]
  ELSE facts

\* A request: what it asks and whether the model is wanted; the finding it
\* resolved; the facts to explain and the explanations it has; the text to be
\* stored; its answer; the age of finding and records; was Redis up all the
\* time (for the properties)?
Idle == [pc |-> "idle", item |-> None, ai |-> TRUE, finding |-> None,
         facts |-> <<>>, done |-> <<>>, text |-> None, status |-> None, told |-> FALSE,
         foundAge |-> 0, readAge |-> 0, age |-> 0, clean |-> TRUE]

Init ==
  /\ kind \in {"insights", "anomaly", "advisor", "copilot"}
  /\ figures \in Figures
  /\ config \in {"on", "nokey", "off"}
  /\ config = "nokey" => kind = "insights"  \* the others do not tell it from "off"
  /\ redis \in {"up", "none"}
  /\ quota = Quota
  /\ faults = MaxFaults
  /\ cache = [k \in {Key(facts) : facts \in Facts} |-> None]
  /\ detected = None
  /\ req = [r \in Requests |-> Idle]

-----------------------------------------------------------------------------
(* The facts                                                               *)

\* get_json: nothing from a client that is missing or fails.
GetJson(key) == IF redis = "up" THEN cache[key] ELSE None

To(r, pc) == req' = [req EXCEPT ![r].pc = pc]

\* The answer, and whether it says that the model failed. What only the way to
\* it needed is forgotten.
Answered(q, status, told) ==
  [q EXCEPT !.pc = "answered", !.status = status, !.told = told, !.text = None,
            !.ai = TRUE, !.clean = TRUE, !.foundAge = 0, !.readAge = 0, !.age = 0]

Answer(r, status, told) ==
  req' = [req EXCEPT ![r] = Answered(@, status, told)]

Ask(r) ==
  /\ req[r].pc = "idle"
  /\ \E item \in Items, ai \in BOOLEAN :
       /\ kind # "insights" => ai
       /\ req' = [req EXCEPT ![r] = [Idle EXCEPT !.pc = "resolve", !.ai = ai,
                    !.clean = redis = "up",
                    !.item = IF kind = "insights" THEN None ELSE item]]
  /\ UNCHANGED <<kind, figures, config, redis, quota, faults, cache, detected>>

\* AIInsightService.generate before its loop.
SelectEvents(r) ==
  /\ kind = "insights"
  /\ req[r].pc = "resolve"
  /\ CASE config = "off" -> Answer(r, "disabled", FALSE)
       [] config = "nokey" -> Answer(r, "unavailable", TRUE)
       [] config = "on" /\ Events[figures] = <<>> -> Answer(r, "empty", FALSE)
       [] config = "on" /\ Events[figures] # <<>> /\ ~req[r].ai ->
            Answer(r, "pending", FALSE)
       [] OTHER ->
            req' = [req EXCEPT ![r].pc = "look",
                      ![r].facts = [i \in DOMAIN Events[figures] |->
                        [item |-> Events[figures][i], finding |-> None,
                         records |-> None]]]
  /\ UNCHANGED <<kind, figures, config, redis, quota, faults, cache, detected>>

\* The detector, with its entry.
Detect(r) ==
  IF redis = "up" /\ detected # None
  THEN /\ req' = [req EXCEPT ![r].pc = "found", ![r].finding = detected.figures,
                             ![r].foundAge = detected.age]
       /\ UNCHANGED detected
  ELSE /\ req' = [req EXCEPT ![r].pc = "found", ![r].finding = figures,
                             ![r].foundAge = 0]
       /\ detected' = IF redis = "up" THEN [figures |-> figures, age |-> 0]
                      ELSE detected

\* _resolve_anomaly
ResolveAnomaly(r) ==
  /\ kind = "anomaly"
  /\ req[r].pc = "resolve"
  /\ Detect(r)
  /\ UNCHANGED <<kind, figures, config, redis, quota, faults, cache>>

\* An anomaly of an earlier list may be another one by now: 404.
CheckAnomaly(r) ==
  /\ req[r].pc = "found"
  /\ IF req[r].item \in Anomalies[req[r].finding]
     THEN To(r, "read") ELSE Answer(r, "not_found", FALSE)
  /\ UNCHANGED <<kind, figures, config, redis, quota, faults, cache, detected>>

\* list_recommendations fails when there is a recommendation and a client to
\* store the list with. Without a recommendation the advisor answers 404.
ResolveRecommendation(r) ==
  /\ kind = "advisor"
  /\ req[r].pc = "resolve"
  /\ \E exists \in BOOLEAN :
       CASE ~exists -> Answer(r, "not_found", FALSE)
         [] exists /\ redis # "none" -> Answer(r, "error", FALSE)
         [] OTHER -> req' = [req EXCEPT ![r].pc = "read", ![r].finding = figures]
  /\ UNCHANGED <<kind, figures, config, redis, quota, faults, cache, detected>>

\* The facts of a question are the records, what the analyses it is about say,
\* both, or none. An analysis may come from an entry, of earlier costs, or be made
\* after the records were read, of later ones. A budget, an anomaly, a history
\* long enough for a forecast need not exist.
ResolveQuestion(r) ==
  /\ kind = "copilot"
  /\ req[r].pc = "resolve"
  /\ \/ /\ req[r].item \in {"optimization", "cross_domain"}
        /\ redis # "none"  \* list_recommendations, as above
        /\ Answer(r, "error", FALSE)
     \/ \E finding \in Figures \cup {None}, costs \in BOOLEAN :
          /\ finding # None => req[r].item \notin {"cost", "unsupported"}
          /\ finding # None /\ req[r].item = "optimization" => redis = "none"
          /\ IF req[r].item = "cross_domain" THEN TRUE
             ELSE costs <=> req[r].item = "cost"
          /\ IF costs
             THEN req' = [req EXCEPT ![r].pc = "read", ![r].finding = finding]
             ELSE req' = [req EXCEPT ![r].pc = "look", ![r].facts =
                    <<[item |-> req[r].item, finding |-> finding, records |-> None]>>]
  /\ UNCHANGED <<kind, figures, config, redis, quota, faults, cache, detected>>

\* The records are loaded anew for every request.
ReadRecords(r) ==
  /\ req[r].pc = "read"
  /\ req' = [req EXCEPT ![r].pc = "look", ![r].readAge = 0,
               ![r].facts = <<[item |-> req[r].item, finding |-> req[r].finding,
                               records |-> figures]>>]
  /\ UNCHANGED <<kind, figures, config, redis, quota, faults, cache, detected>>

\* build_anomaly_context raises for a share of the increment over 100 %.
ReadInvalid(r) ==
  /\ kind = "anomaly"
  /\ req[r].pc = "read"
  /\ Answer(r, "error", FALSE)
  /\ UNCHANGED <<kind, figures, config, redis, quota, faults, cache, detected>>

-----------------------------------------------------------------------------
(* The explanation                                                         *)

\* The facts to explain next.
Fact(r) == req[r].facts[Len(req[r].done) + 1]

\* An explanation with the age of what it is about.
Explanation(r, claims) ==
  [of |-> Fact(r),
   claims |-> IF kind = "insights" THEN {} ELSE claims,
   foundAge |-> req[r].foundAge, readAge |-> req[r].readAge]

\* The request after its next fact was explained.
Explained(r, explanation) ==
  LET next == [req[r] EXCEPT !.pc = "look", !.text = None,
                             !.done = Append(@, explanation)]
  IN  IF Len(next.done) = Len(next.facts) THEN Answered(next, "ready", FALSE)
      ELSE next

Hit(r) ==
  /\ req[r].pc = "look"
  /\ GetJson(Key(Fact(r))) # None
  /\ req' = [req EXCEPT ![r] =
               Explained(r, GetJson(Key(Fact(r))).explanation)]
  /\ UNCHANGED <<kind, figures, config, redis, quota, faults, cache, detected>>

\* What is answered without the model. An advisor context may lack records.
Miss(r) ==
  /\ req[r].pc = "look"
  /\ GetJson(Key(Fact(r))) = None
  /\ \E sparse \in BOOLEAN :
       /\ sparse => kind = "advisor"
       /\ CASE sparse -> Answer(r, "insufficient_data", TRUE)
            [] ~sparse /\ req[r].item = "unsupported" -> Answer(r, "unsupported", FALSE)
            [] ~sparse /\ req[r].item # "unsupported" /\ config # "on" ->
                 Answer(r, "disabled", TRUE)
            [] OTHER -> To(r, "model")
  /\ UNCHANGED <<kind, figures, config, redis, quota, faults, cache, detected>>

Failures == {"quota_exceeded", "timeout", "invalid", "unavailable"}

\* The status each service reports for a failure of the model.
FailureStatus(failure) ==
  CASE failure = "quota_exceeded" /\ kind # "insights" -> "unavailable"
    [] failure = "timeout" /\ kind = "copilot" -> "unavailable"
    [] OTHER -> failure

\* Mutant: an answer with some explanations hides the failure of the others.
FailsQuietly(r, failure) ==
  IF req[r].done # <<>> THEN Answer(r, "ready", FALSE)
  ELSE Answer(r, FailureStatus(failure), TRUE)

\* _partial_or_status and the fallbacks.
Fails(r, failure) ==
  Answer(r, IF req[r].done # <<>> THEN "ready" ELSE FailureStatus(failure), TRUE)

\* The figures of the facts.
Numbers(facts) == {facts.finding, facts.records} \ {None}

\* Mutant: the claims of a text are compared with all figures there are.
ValidAnyFigure(facts, claims) == claims \ Small \subseteq Figures

\* The guard on numerical claims: bare numbers from 1 to 8 pass in any case. The
\* text on an event is not searched for any.
Valid(facts, claims) == kind = "insights" \/ claims \ Small \subseteq Numbers(facts)

\* Gemini answers with a text that quotes a number.
Generate(r) ==
  /\ req[r].pc = "model"
  /\ quota > 0
  /\ quota' = quota - 1
  /\ \E claims \in {{n} : n \in Figures \cup Small} :
       /\ LET facts == Fact(r)
          IN  IF Valid(facts, claims)
              THEN /\ req' = [req EXCEPT ![r].pc = "store",
                               ![r].text = Explanation(r, claims)]
                   /\ UNCHANGED faults
              ELSE /\ faults > 0 /\ faults' = faults - 1
                   /\ Fails(r, "invalid")
  /\ UNCHANGED <<kind, figures, config, redis, cache, detected>>

\* The quota is used up.
OverQuota(r) ==
  /\ req[r].pc = "model"
  /\ quota = 0
  /\ Fails(r, "quota_exceeded")
  /\ UNCHANGED <<kind, figures, config, redis, quota, faults, cache, detected>>

\* It times out, refuses, or says what is no JSON of the schema or forbidden.
ModelFails(r) ==
  /\ req[r].pc = "model"
  /\ faults > 0 /\ faults' = faults - 1
  /\ \E failure \in Failures : Fails(r, failure)
  /\ UNCHANGED <<kind, figures, config, redis, quota, cache, detected>>

SetJson(key, explanation) ==
  cache' = IF redis = "up"
           THEN [cache EXCEPT ![key] = [explanation |-> explanation, left |-> AiTtl]]
           ELSE cache

\* Mutant: the explanations are stored when the answer is complete.
StoreComplete(r) ==
  /\ req[r].pc = "store"
  /\ IF Len(req[r].facts) = 1
     THEN SetJson(Key(req[r].text.of), req[r].text) ELSE UNCHANGED cache
  /\ req' = [req EXCEPT ![r] = Explained(r, req[r].text)]
  /\ UNCHANGED <<kind, figures, config, redis, quota, faults, detected>>

Store(r) ==
  /\ req[r].pc = "store"
  /\ SetJson(Key(req[r].text.of), req[r].text)
  /\ req' = [req EXCEPT ![r] = Explained(r, req[r].text)]
  /\ UNCHANGED <<kind, figures, config, redis, quota, faults, detected>>

\* The page has its answer.
Finish(r) ==
  /\ req[r].pc = "answered"
  /\ req' = [req EXCEPT ![r] = Idle]
  /\ UNCHANGED <<kind, figures, config, redis, quota, faults, cache, detected>>

-----------------------------------------------------------------------------
(* The environment                                                         *)

Change ==
  /\ figures' \in Figures \ {figures}
  /\ UNCHANGED <<kind, config, redis, quota, faults, cache, detected, req>>

RedisFails ==
  /\ redis = "up" /\ redis' = "down"
  /\ faults > 0 /\ faults' = faults - 1
  /\ req' = [r \in Requests |-> IF req[r].pc = "idle" THEN req[r]
                                ELSE [req[r] EXCEPT !.clean = FALSE]]
  /\ UNCHANGED <<kind, figures, config, quota, cache, detected>>

RedisReturns ==
  /\ redis = "down" /\ redis' = "up"
  /\ UNCHANGED <<kind, figures, config, quota, faults, cache, detected, req>>

\* A new process with the same settings; Redis keeps what it has.
Restart ==
  /\ redis' \in {"up", "none"}
  /\ req' = [r \in Requests |-> Idle]
  /\ UNCHANGED <<kind, figures, config, quota, faults, cache, detected>>

\* One tick later. The age of the facts is followed where the key leaves them out.
Older(age) == IF kind = "anomaly" THEN age + 1 ELSE age

OlderText(text) ==
  [text EXCEPT !.foundAge = Older(@), !.readAge = Older(@)]

\* Mutant: the entry is there for one tick more.
OlderEntryLate(entry) ==
  IF entry = None \/ entry.left = 0 THEN None
  ELSE [entry EXCEPT !.left = @ - 1, !.explanation = OlderText(@)]

OlderEntry(entry) ==
  IF entry = None \/ entry.left = 1 THEN None
  ELSE [entry EXCEPT !.left = @ - 1, !.explanation = OlderText(@)]

OlderRequest(q) ==
  IF q.pc \in {"idle", "answered"} THEN q
  ELSE [q EXCEPT !.age = @ + 1, !.foundAge = Older(@), !.readAge = Older(@),
                 !.text = IF @ = None THEN None ELSE OlderText(@)]

Tick ==
  /\ \A r \in Requests : req[r].pc \notin {"idle", "answered"} => req[r].age < MaxRun
  /\ quota' = Quota
  /\ cache' = [k \in DOMAIN cache |-> OlderEntry(cache[k])]
  /\ detected' = IF detected = None \/ detected.age + 1 = DetectTtl THEN None
                 ELSE [detected EXCEPT !.age = @ + 1]
  /\ req' = [r \in Requests |-> OlderRequest(req[r])]
  /\ UNCHANGED <<kind, figures, config, redis, faults>>

Step(r) ==
  \/ SelectEvents(r) \/ ResolveAnomaly(r) \/ CheckAnomaly(r)
  \/ ResolveRecommendation(r) \/ ResolveQuestion(r)
  \/ ReadRecords(r) \/ ReadInvalid(r)
  \/ Hit(r) \/ Miss(r) \/ Generate(r) \/ OverQuota(r) \/ ModelFails(r)
  \/ Store(r) \/ Finish(r)

Next ==
  \/ \E r \in Requests : Ask(r) \/ Step(r)
  \/ Change \/ RedisFails \/ RedisReturns \/ Restart \/ Tick

Spec == Init /\ [][Next]_vars
=============================================================================
