-------------------------- MODULE AiAnswersProperties --------------------------
(* What the answers of the language model promise.                           *)
EXTENDS AiAnswers

Text ==
  [of : Facts, claims : SUBSET (Figures \cup Small), foundAge : Nat, readAge : Nat]

\* Whatever is asked for and explained: no item, no text, no entry is None.
AnyItem ==
  (UNION {{Events[f][i] : i \in DOMAIN Events[f]} : f \in Figures})
    \cup (UNION {Anomalies[f] : f \in Figures}) \cup {"recommendation"} \cup Intents

AnyText ==
  [of : [item : AnyItem, finding : Figures \cup {None}, records : Figures \cup {None}],
   claims : SUBSET (Figures \cup Small), foundAge : Nat, readAge : Nat]

ASSUME NoneAssumption ==
  None \notin AnyItem \cup AnyText \cup [explanation : AnyText, left : 1..AiTtl]

Statuses ==
  {"ready", "disabled", "unavailable", "timeout", "invalid", "quota_exceeded",
   "empty", "pending", "not_found", "error", "unsupported", "insufficient_data"}

\* Every variable has its type.
TypeOK ==
  /\ kind \in {"insights", "anomaly", "advisor", "copilot"}
  /\ figures \in Figures
  /\ config \in {"on", "nokey", "off"}
  /\ redis \in {"up", "down", "none"}
  /\ quota \in 0..Quota
  /\ faults \in 0..MaxFaults
  /\ cache \in [{Key(facts) : facts \in Facts} ->
                 [explanation : Text, left : 1..AiTtl] \cup {None}]
  /\ detected \in [figures : Figures, age : 0..DetectTtl - 1] \cup {None}
  /\ \A r \in Requests :
       /\ req[r].pc \in {"idle", "resolve", "found", "read", "look", "model",
                         "store", "answered"}
       /\ req[r].item \in Items \cup {None}
       /\ req[r].finding \in Figures \cup {None}
       /\ req[r].facts \in Seq(Facts)
       /\ req[r].done \in Seq(Text)
       /\ req[r].text \in Text \cup {None}
       /\ req[r].status \in Statuses \cup {None}
       /\ req[r].age \in 0..MaxRun
       /\ req[r].pc \in {"look", "model", "store"} =>
            Len(req[r].done) < Len(req[r].facts)

Done(r) == req[r].pc = "answered"

\* The explanations of an answer are of the request's own facts, in their order,
\* whichever request they were stored by: an event's of the same numbers, a
\* context's of the same context; an anomaly's of the same anomaly, with records
\* and detection not older than the entries they passed and the run that asked
\* the model (the cache keys of the four services).
OwnFacts ==
  \A r \in Requests : Done(r) => \A i \in DOMAIN req[r].done :
    LET text == req[r].done[i]
        facts == req[r].facts[i]
    IN  IF kind = "anomaly"
        THEN /\ text.of.item = facts.item
             /\ facts.item \in Anomalies[text.of.finding]
             /\ text.readAge < AiTtl + MaxRun
             /\ text.foundAge < AiTtl + DetectTtl + MaxRun
        ELSE text.of = facts

\* A text on an anomaly, a recommendation or a question, answered or in Redis,
\* whichever request paid for it, quotes no figures but those of the facts it
\* comes with, bare numbers from 1 to 8 apart, which the validate_* functions of
\* the three services let pass.
ClaimsSupported ==
  kind # "insights" =>
    /\ \A r \in Requests : \A i \in DOMAIN req[r].done :
         req[r].done[i].claims \ Small \subseteq Numbers(req[r].done[i].of)
    /\ \A k \in DOMAIN cache : cache[k] # None =>
         cache[k].explanation.claims \ Small \subseteq
           Numbers(cache[k].explanation.of)

\* An answer is ready exactly if it explains something, says so exactly if the
\* model left something unexplained, and fails only for want of its facts,
\* never because of the model ("Gemini failures never omit deterministic
\* insights").
StatusHonest ==
  \A r \in Requests : Done(r) =>
    /\ req[r].status = "ready" <=> req[r].done # <<>>
    /\ req[r].status = "ready" => 
         (req[r].told <=> Len(req[r].done) < Len(req[r].facts))
    /\ req[r].status = "error" => req[r].facts = <<>>

\* What a request explained before the model failed is not paid for again: if
\* Redis was up and no time has passed, all of it is in the cache when the
\* request is answered, so that a retry begins where this one was cut.
PaidIsKept ==
  [][\A r \in Requests :
       (~Done(r) /\ Done(r)' /\ req[r].clean /\ req[r].age = 0) =>
         \A i \in DOMAIN req'[r].done : cache'[Key(req'[r].done[i].of)] # None]_vars
=============================================================================
