-------------------------- MODULE DashboardProperties -------------------------
(***************************************************************************)
(* What the dashboard and the analytics promise about their answers.       *)
(***************************************************************************)
EXTENDS Dashboard

Answers == [of : SUBSET (Parts \X Providers), oldest : Nat, newest : Nat]

\* No answer is None.
ASSUME AnswersAssumption == None \notin Answers

LoadStates == [pc : {"get", "fetch"}, figure : {None}]
                \cup [pc : {"set", "done"}, figure : Nat]

\* The variables have their types: a key holds what its readers parse.
TypeOK ==
  /\ \A k \in DOMAIN store :
       /\ store[k].left \in 1..Ttl
       /\ store[k].value \in IF k[1] = "costs" THEN Nat ELSE Answers
  /\ \A r \in Requests :
       /\ req[r].service \in Services \cup {None} /\ req[r].age \in 0..MaxRun
       /\ \A l \in DOMAIN req[r].loads : req[r].loads[l] \in LoadStates
       /\ {req[r].summary, req[r].insights} \subseteq Answers \cup {None}

\* No partial totals: an answered request, and every summary or insights entry
\* that a later request may be answered from, was computed from every provider
\* in every part; a provider's failure fails the request and is never cached.
AnswersWhole ==
  /\ \A k \in DOMAIN store :
       k[1] # "costs" => store[k].value.of = Loads("dashboard")
  /\ \A r \in Requests : At(r, "done") =>
       /\ req[r].summary.of = Loads(req[r].service)
       /\ req[r].service = "insights" => req[r].insights.of = Loads("insights")

\* How long after it was set an entry can still be hit.
Lived == Ttl - 1

\* Three caches are stacked (costs, summary, insights), and each adds its own
\* lifetime to the age of what is answered: one lifetime and two requests for
\* analytics, two and three for the dashboard, three and four for the insights,
\* and no more whatever the interleaving of fills and requests.
StackedAge ==
  \A r \in Requests : At(r, "done") =>
    /\ req[r].summary.oldest <=
         IF req[r].service \in {"analytics", "drivers"}
         THEN Lived + 2 * MaxRun ELSE 2 * Lived + 3 * MaxRun
    /\ req[r].service = "insights" =>
         req[r].insights.oldest <= 3 * Lived + 4 * MaxRun

\* The overview's total comes from one load and its change from two others, of
\* the same costs: within one answer all figures were fetched at most one cache
\* lifetime and two requests apart, however old the answer itself is.
OneWindow ==
  \A r \in Requests : At(r, "done") =>
    req[r].summary.oldest <= req[r].summary.newest + Lived + 2 * MaxRun
=============================================================================
