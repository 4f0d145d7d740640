--------------------------- MODULE AlertRowsProofs ---------------------------
(***************************************************************************)
(* Proofs about the rows of the alerts table: what a PATCH may store, what *)
(* no session may overwrite, and how many mails the table can miss.        *)
(***************************************************************************)
EXTENDS AlertsProofs, FiniteSetTheorems

USE ConstantsAssumption DEF vars, db, session, history

\* Whatever mentions an alert mentions one whose row was inserted.
BornInv ==
  /\ TypeOK
  /\ \A a \in Alerts : config[a] # None \/ delivered[a] # {} => a \in born
  /\ \A e \in Evaluators : /\ todo[e] \subseteq born
                           /\ mail[e] # None => mail[e].alert \in born
  /\ \A m \in orphans : m.alert \in born
  /\ \A c \in Clients : patching[c] # None => patching[c].alert \in born

\* At the start nothing is mentioned.
LEMMA BornInit == Init => BornInv
BY InitType DEF Init, BornInv, Nothing

\* A step that only drops what it mentions, or inserts rows, keeps BornInv.
LEMMA BornQuiet ==
  ASSUME BornInv, TypeOK', UNCHANGED <<config, delivered, orphans, patching, born>>,
         \A e \in Evaluators :
           /\ todo'[e] \subseteq born
           /\ mail'[e] # None => mail'[e].alert \in born
  PROVE  BornInv'
BY DEF BornInv

\* The mail that reaches the user is about an alert that was inserted.
LEMMA BornReaches ==
  ASSUME BornInv, NEW m \in Mail, m.alert \in born, Reaches(m)
  PROVE  \A a \in Alerts : delivered'[a] # {} => a \in born
BY DEF BornInv, TypeOK, Reaches, Mail

\* Rows are inserted under fresh keys only, and everything else that names an
\* alert takes the name from a row, a loaded row or a mail.
LEMMA BornStep == BornInv /\ [Next]_vars => BornInv'
<1> SUFFICES ASSUME BornInv, [Next]_vars PROVE BornInv'
  OBVIOUS
<1>0. TypeOK /\ TypeOK'
  BY StepType DEF BornInv
<1>1. ASSUME NEW e \in Evaluators,
             \/ SendFails(e) \/ Refresh(e) \/ RowGone(e) \/ EndCycle(e) \/ Save(e)
             \/ \E a \in Alerts : SkipAlert(e, a) \/ StartSend(e, a)
      PROVE  BornInv'
  <2>1. UNCHANGED <<config, delivered, orphans, patching, born>>
    BY <1>1 DEF SendFails, Refresh, RowGone, EndCycle, Save, Record, SkipAlert, StartSend
  <2>2. ASSUME NEW f \in Evaluators PROVE todo'[f] \subseteq todo[f]
    BY <1>0, <1>1 DEF TypeOK, SendFails, Refresh, RowGone, EndCycle, Save, SkipAlert,
       StartSend, Close
  <2>3. ASSUME NEW f \in Evaluators, mail'[f] # None PROVE mail'[f].alert \in born
    <3>1. CASE mail'[f] = mail[f]
      BY <2>3, <3>1 DEF BornInv
    <3>2. CASE mail'[f] # mail[f]
      <4>1. PICK a \in Alerts : StartSend(e, a)
        BY <1>0, <1>1, <2>3, <3>2 DEF TypeOK, SendFails, Refresh, RowGone, EndCycle, Save,
           SkipAlert, Close
      <4>2. mail'[f] = [alert |-> a, at |-> clock] /\ a \in born
        BY <1>0, <3>2, <4>1 DEF BornInv, TypeOK, StartSend
      <4>3. QED
        BY <4>2
    <3>3. QED
      BY <3>1, <3>2
  <2>4. \A f \in Evaluators : todo'[f] \subseteq born
    BY <2>2 DEF BornInv
  <2>5. QED
    BY <1>0, <2>1, <2>3, <2>4, BornQuiet
<1>2. ASSUME NEW e \in Evaluators, Deliver(e) \/ SendFailsLate(e) PROVE BornInv'
  <2>1. mail[e] \in Mail /\ mail[e].alert \in born /\ Reaches(mail[e])
    BY <1>0, <1>2 DEF BornInv, TypeOK, Deliver, SendFailsLate
  <2>2. \A a \in Alerts : delivered'[a] # {} => a \in born
    BY <2>1, BornReaches
  <2>3. \A f \in Evaluators : mail'[f] = mail[f] \/ mail'[f] = None
    BY <1>0, <1>2 DEF TypeOK, Deliver, SendFailsLate
  <2>4. UNCHANGED <<config, todo, orphans, patching, born>>
    BY <1>2 DEF Deliver, SendFailsLate
  <2>5. QED
    BY <1>0, <2>2, <2>3, <2>4 DEF BornInv
<1>3. ASSUME NEW e \in Evaluators, DatabaseError(e) PROVE BornInv'
  BY <1>0, <1>3, BornQuiet DEF BornInv, TypeOK, DatabaseError, Record, Close
<1>4. ASSUME NEW e \in Evaluators, Stop(e) PROVE BornInv'
  <2>1. \A m \in orphans' : m.alert \in born
    BY <1>0, <1>4 DEF BornInv, TypeOK, Stop
  <2>2. UNCHANGED <<config, delivered, patching, born>>
    BY <1>4 DEF Stop, Record
  <2>3. \A f \in Evaluators : /\ todo'[f] \subseteq todo[f]
                              /\ mail'[f] = mail[f] \/ mail'[f] = None
    BY <1>0, <1>4 DEF TypeOK, Stop, Close
  <2>4. QED
    BY <1>0, <2>1, <2>2, <2>3 DEF BornInv
<1>5. ASSUME NEW e \in Evaluators, NEW u \in Users, NextUser(e, u) \/ PostEvaluate(e, u)
      PROVE  BornInv'
  <2>1. UNCHANGED <<config, delivered, orphans, patching, born, mail>>
    BY <1>5 DEF NextUser, PostEvaluate, Load
  <2>2. \A f \in Evaluators : todo'[f] = todo[f] \/ todo'[f] = Rows(u)
    BY <1>0, <1>5 DEF TypeOK, NextUser, PostEvaluate, Load
  <2>3. Rows(u) \subseteq born
    BY DEF BornInv, Rows
  <2>4. QED
    BY <1>0, <2>1, <2>2, <2>3, BornQuiet DEF BornInv
<1>6. ASSUME NEW e \in Evaluators, StartCycle(e) \/ Restart(e) PROVE BornInv'
  BY <1>0, <1>6, BornQuiet DEF BornInv, StartCycle, Restart
<1>7. ASSUME NEW m \in orphans, OrphanEnds(m) PROVE BornInv'
  <2>1. m \in Mail /\ m.alert \in born
    BY DEF BornInv, TypeOK
  <2>2. \A a \in Alerts : delivered'[a] # {} => a \in born
    BY <1>7, <2>1, BornReaches DEF OrphanEnds, BornInv
  <2>3. QED
    BY <1>0, <1>7, <2>2 DEF BornInv, OrphanEnds
<1>8. ASSUME NEW a \in Alerts, NEW c \in NewConfigs, Create(a, c) PROVE BornInv'
  <2>1. \A b \in Alerts : config'[b] # None => b \in born'
    BY <1>0, <1>8 DEF BornInv, TypeOK, Create
  <2>2. QED
    BY <1>0, <1>8, <2>1 DEF BornInv, Create
<1>9. ASSUME NEW c \in Clients, NEW a \in Alerts, NEW p \in Patches, UpdateValidate(c, a, p)
      PROVE  BornInv'
  <2>1. \A d \in Clients : patching'[d] = patching[d] \/ patching'[d].alert = a
    BY <1>9 DEF UpdateValidate
  <2>2. a \in born
    BY <1>9 DEF UpdateValidate, BornInv
  <2>3. QED
    BY <1>0, <1>9, <2>1, <2>2 DEF BornInv, UpdateValidate
<1>10. ASSUME NEW c \in Clients, UpdateCommit(c) PROVE BornInv'
  <2>1. \A b \in Alerts : config'[b] # None => config[b] # None
    BY <1>0, <1>10 DEF TypeOK, UpdateCommit
  <2>2. \A d \in Clients : patching'[d] # None =>
          patching[d] # None /\ patching'[d].alert = patching[d].alert
    BY <1>10, CommitPasses
  <2>3. QED
    BY <1>0, <1>10, <2>1, <2>2 DEF BornInv, UpdateCommit
<1>11. ASSUME NEW a \in Alerts, Delete(a) PROVE BornInv'
  <2>1. \A b \in Alerts : config'[b] # None => config[b] # None
    BY <1>0, <1>11 DEF TypeOK, Delete
  <2>2. QED
    BY <1>0, <1>11, <2>1 DEF BornInv, Delete
<1>12. CASE (\E u \in Users : SetActive(u)) \/ Tick \/ UNCHANGED vars
  BY <1>0, <1>12 DEF BornInv, SetActive, Tick
<1>13. QED
  BY <1>1, <1>2, <1>3, <1>4, <1>5, <1>6, <1>7, <1>8, <1>9, <1>10, <1>11, <1>12
     DEF Next, Evaluate, Fault, Schedule, Api, Evaluators

-----------------------------------------------------------------------------
(* PATCH requests that overlap.                                            *)

\* A request that was not overtaken makes a valid row of the row as it is now.
PatchFits ==
  \A c \in Clients :
    patching[c] # None /\ ~patching[c].overtaken /\ config[patching[c].alert] # None =>
      ValidCondition(Merge(config[patching[c].alert], patching[c].set))

FitsInv == BornInv /\ PatchFits

\* Only the API writes the client's columns or validates a PATCH.
LEMMA RowWriters ==
  ASSUME [Next]_vars
  PROVE  \/ UNCHANGED <<config, patching>>
         \/ \E a \in Alerts, c \in NewConfigs : Create(a, c)
         \/ \E a \in Alerts : Delete(a)
         \/ \E c \in Clients, a \in Alerts, p \in Patches : UpdateValidate(c, a, p)
         \/ \E c \in Clients : UpdateCommit(c)
<1>1. ASSUME NEW e \in Evaluators, Evaluate(e) PROVE UNCHANGED <<config, patching>>
  BY <1>1 DEF Evaluate, SkipAlert, StartSend, Deliver, SendFails, Save, Record, Refresh,
     RowGone, EndCycle
<1>2. ASSUME NEW e \in Evaluators, Fault(e) PROVE UNCHANGED <<config, patching>>
  BY <1>2 DEF Fault, SendFailsLate, DatabaseError, Stop, Record
<1>3. ASSUME NEW s \in Schedulers, Schedule(s) \/ Restart(s)
      PROVE  UNCHANGED <<config, patching>>
  BY <1>3 DEF Schedule, StartCycle, NextUser, Load, Restart
<1>4. ASSUME NEW h \in Endpoints, NEW u \in Users, PostEvaluate(h, u)
      PROVE  UNCHANGED <<config, patching>>
  BY <1>4 DEF PostEvaluate, Load
<1>5. ASSUME \/ \E m \in orphans : OrphanEnds(m)
             \/ \E u \in Users : SetActive(u)
             \/ Tick \/ UNCHANGED vars
      PROVE  UNCHANGED <<config, patching>>
  BY <1>5 DEF OrphanEnds, SetActive, Tick
<1>6. QED
  BY <1>1, <1>2, <1>3, <1>4, <1>5 DEF Next, Api

\* To set the columns that change is to set all that were asked for.
LEMMA MergeChanged ==
  ASSUME NEW c \in Config, NEW p, NEW changed \in ChangedColumns(c, p)
  PROVE  Merge(c, [f \in changed |-> p[f]]) = Merge(c, p)
<1> DEFINE q == [f \in changed |-> p[f]]
<1>1. /\ changed \subseteq DOMAIN p
      /\ \A f \in DOMAIN p : Merge(c, p)[f] # c[f] => f \in changed
  BY DEF ChangedColumns
<1>2. /\ Merge(c, p).alert_type = Patched(p, "alert_type", c.alert_type)
      /\ Merge(c, p).threshold = Patched(p, "threshold", c.threshold)
      /\ Merge(c, p).percentage = Patched(p, "percentage", c.percentage)
      /\ Merge(c, p).enabled = Patched(p, "enabled", c.enabled)
      /\ Merge(c, p).cooldown = Patched(p, "cooldown", c.cooldown)
  BY DEF Merge, Config
<1>3. Patched(q, "alert_type", c.alert_type) = Patched(p, "alert_type", c.alert_type)
  BY <1>1, <1>2 DEF Patched
<1>4. Patched(q, "threshold", c.threshold) = Patched(p, "threshold", c.threshold)
  BY <1>1, <1>2 DEF Patched
<1>5. Patched(q, "percentage", c.percentage) = Patched(p, "percentage", c.percentage)
  BY <1>1, <1>2 DEF Patched
<1>6. Patched(q, "enabled", c.enabled) = Patched(p, "enabled", c.enabled)
  BY <1>1, <1>2 DEF Patched
<1>7. Patched(q, "cooldown", c.cooldown) = Patched(p, "cooldown", c.cooldown)
  BY <1>1, <1>2 DEF Patched
<1>8. QED
  BY <1>3, <1>4, <1>5, <1>6, <1>7 DEF Merge

\* Between validation and commit the row of a request changes by the commit of
\* another one, which overtakes it, or by its deletion; a deleted key is not
\* inserted again.
LEMMA FitsStep == FitsInv /\ [Next]_vars => FitsInv'
<1> SUFFICES ASSUME FitsInv, [Next]_vars
             PROVE  PatchFits'
  BY BornStep DEF FitsInv
<1>0. BornInv /\ TypeOK /\ TypeOK'
  BY StepType DEF FitsInv, BornInv
<1>1. CASE UNCHANGED <<config, patching>>
  BY <1>1 DEF FitsInv, PatchFits
<1>2. ASSUME NEW a \in Alerts, NEW c \in NewConfigs, Create(a, c)
      PROVE  PatchFits'
  <2>1. \A b \in Alerts : config'[b] = IF b = a THEN c ELSE config[b]
    BY <1>0, <1>2 DEF TypeOK, Create
  <2>2. \A d \in Clients : patching[d] # None => patching[d].alert # a
    BY <1>0, <1>2 DEF BornInv, Create
  <2>3. patching' = patching
    BY <1>2 DEF Create
  <2>4. QED
    BY <1>0, <2>1, <2>2, <2>3 DEF FitsInv, PatchFits, TypeOK
<1>3. ASSUME NEW a \in Alerts, Delete(a)
      PROVE  PatchFits'
  <2>1. \A b \in Alerts : config'[b] \in {None, config[b]}
    BY <1>0, <1>3 DEF TypeOK, Delete
  <2>2. patching' = patching
    BY <1>3 DEF Delete
  <2>3. QED
    BY <1>0, <2>1, <2>2 DEF FitsInv, PatchFits, TypeOK
<1>4. ASSUME NEW c \in Clients, NEW a \in Alerts, NEW p \in Patches, UpdateValidate(c, a, p)
      PROVE  PatchFits'
  <2>1. PICK changed \in ChangedColumns(config[a], p) :
          patching' = [patching EXCEPT ![c] =
                         [alert |-> a, set |-> [f \in changed |-> p[f]],
                          overtaken |-> FALSE]]
    BY <1>4 DEF UpdateValidate
  <2>2. config' = config /\ config[a] \in Config /\ ValidCondition(Merge(config[a], p))
    BY <1>0, <1>4 DEF TypeOK, UpdateValidate
  <2>3. ValidCondition(Merge(config[a], [f \in changed |-> p[f]]))
    BY <2>2, MergeChanged
  <2> DEFINE next == [alert |-> a, set |-> [f \in changed |-> p[f]], overtaken |-> FALSE]
  <2>4. next.alert = a /\ ValidCondition(Merge(config[a], next.set))
    BY <2>3
  <2>5. \A d \in Clients : patching'[d] \in {next, patching[d]}
    BY <2>1
  <2> HIDE DEF next
  <2>6. QED
    BY <2>2, <2>4, <2>5 DEF FitsInv, PatchFits
<1>5. ASSUME NEW c \in Clients, UpdateCommit(c)
      PROVE  PatchFits'
  <2>1. patching[c].alert \in Alerts
    BY <1>0, <1>5 DEF TypeOK, UpdateCommit
  <2>2. \A b \in Alerts : b # patching[c].alert => config'[b] = config[b]
    BY <1>0, <1>5, <2>1 DEF TypeOK, UpdateCommit
  <2> SUFFICES ASSUME NEW d \in Clients, patching'[d] # None, ~patching'[d].overtaken,
                      config'[patching'[d].alert] # None
               PROVE  ValidCondition(Merge(config'[patching'[d].alert], patching'[d].set))
    BY DEF PatchFits
  <2>3. patching[d] # None /\ patching'[d] = patching[d]
        /\ patching[d].alert # patching[c].alert
    BY <1>5, CommitPasses
  <2>4. config'[patching[d].alert] = config[patching[d].alert]
    BY <1>0, <2>2, <2>3 DEF TypeOK
  <2>5. QED
    BY <2>3, <2>4 DEF FitsInv, PatchFits
<1>6. QED
  BY <1>1, <1>2, <1>3, <1>4, <1>5, RowWriters

\* A row that changes to an invalid one changes by the commit of a request that
\* does not fit it, and such a request was overtaken.
LEMMA SpoilStep ==
  ASSUME FitsInv, [Next]_vars, NEW a \in Alerts,
         config'[a] \notin {None, config[a]}, ~ValidCondition(config'[a])
  PROVE  \E c \in Clients :
           /\ patching[c] # None /\ patching'[c] = None /\ patching[c].alert = a
           /\ patching[c].overtaken
<1>0. TypeOK
  BY DEF FitsInv, BornInv
<1>1. PICK c \in Clients : UpdateCommit(c)
  <2>1. \A b \in Alerts, k \in NewConfigs : ~Create(b, k)
    <3> SUFFICES ASSUME NEW b \in Alerts, NEW k \in NewConfigs, Create(b, k)
                 PROVE  FALSE
      OBVIOUS
    <3>1. config'[a] \in {k, config[a]} /\ ValidCondition(k)
      BY <1>0 DEF Create, TypeOK
    <3>2. QED
      BY <3>1
  <2>2. \A b \in Alerts : Delete(b) => config'[a] \in {None, config[a]}
    BY <1>0 DEF Delete, TypeOK
  <2>3. \A d \in Clients, b \in Alerts, p \in Patches :
          UpdateValidate(d, b, p) => config'[a] = config[a]
    BY DEF UpdateValidate
  <2>4. QED
    BY <2>1, <2>2, <2>3, RowWriters
<1>2. patching[c] # None /\ patching'[c] = None
  BY <1>0, <1>1 DEF UpdateCommit, TypeOK
<1>3. /\ patching[c].alert = a /\ config[a] # None
      /\ config'[a] = Merge(config[a], patching[c].set)
  BY <1>0, <1>1 DEF UpdateCommit, TypeOK
<1>4. patching[c].overtaken
  BY <1>2, <1>3 DEF FitsInv, PatchFits
<1>5. QED
  BY <1>2, <1>3, <1>4

\* For any number of clients, whatever the evaluators, the faults and the
\* deletions do: only PATCH requests that overlap on a row spoil it.
THEOREM OnlyOverlapsSpoil == Spec => OnlyOvertakenPatchSpoils
<1>1. Init => FitsInv
  BY BornInit DEF Init, FitsInv, PatchFits, Nothing
<1>2. FitsInv /\ [Next]_vars =>
        [\A a \in Alerts :
           config'[a] \notin {None, config[a]} /\ ~ValidCondition(config'[a]) =>
             \E c \in Clients :
               /\ patching[c] # None /\ patching'[c] = None /\ patching[c].alert = a
               /\ patching[c].overtaken]_vars
  BY SpoilStep
<1>3. QED
  BY <1>1, <1>2, FitsStep, PTL DEF Spec, OnlyOvertakenPatchSpoils

\* What applying a patch changes, the patch sets.
LEMMA MergeSets ==
  ASSUME NEW c \in Config, NEW p, NEW f \in DOMAIN c, Merge(c, p)[f] # c[f]
  PROVE  f \in DOMAIN p /\ Merge(c, p)[f] = p[f]
<1>1. f \in {"alert_type", "threshold", "percentage", "enabled", "cooldown"}
  BY DEF Config
<1>2. /\ Merge(c, p).alert_type = Patched(p, "alert_type", c.alert_type)
      /\ Merge(c, p).threshold = Patched(p, "threshold", c.threshold)
      /\ Merge(c, p).percentage = Patched(p, "percentage", c.percentage)
      /\ Merge(c, p).enabled = Patched(p, "enabled", c.enabled)
      /\ Merge(c, p).cooldown = Patched(p, "cooldown", c.cooldown)
  BY DEF Merge, Config
<1>3. QED
  BY <1>1, <1>2 DEF Patched

\* A stored row changes by a commit of a PATCH only: no evaluator writes the
\* client's columns, and a stored key is not inserted again.
LEMMA PatchStep ==
  ASSUME BornInv, [Next]_vars, NEW a \in Alerts,
         config[a] # None, config'[a] \notin {None, config[a]}
  PROVE  \E c \in Clients :
           /\ patching[c] # None /\ patching'[c] = None /\ patching[c].alert = a
           /\ \A f \in DOMAIN config[a] : config'[a][f] # config[a][f] =>
                 /\ f \in DOMAIN patching[c].set
                 /\ config'[a][f] = patching[c].set[f]
<1>0. TypeOK /\ config[a] \in Config /\ a \in born
  BY DEF BornInv, TypeOK
<1>1. PICK c \in Clients : UpdateCommit(c)
  <2>1. \A b \in Alerts, k \in NewConfigs : Create(b, k) => config'[a] = config[a]
    BY <1>0 DEF Create, TypeOK
  <2>2. \A b \in Alerts : Delete(b) => config'[a] \in {None, config[a]}
    BY <1>0 DEF Delete, TypeOK
  <2>3. \A d \in Clients, b \in Alerts, p \in Patches :
          UpdateValidate(d, b, p) => config'[a] = config[a]
    BY DEF UpdateValidate
  <2>4. QED
    BY <2>1, <2>2, <2>3, RowWriters
<1>2. patching[c] # None /\ patching'[c] = None
  BY <1>0, <1>1 DEF UpdateCommit, TypeOK
<1>3. patching[c].alert = a /\ config'[a] = Merge(config[a], patching[c].set)
  BY <1>0, <1>1 DEF UpdateCommit, TypeOK
<1>4. QED
  BY <1>0, <1>2, <1>3, MergeSets

\* Whatever sessions and requests run at the same time, no committed PATCH is
\* written over by a session that loaded the row before it.
THEOREM CommittedPatchesStay == Spec => NoLostPatch
<1>1. BornInv /\ [Next]_vars =>
        [\A a \in Alerts :
           config[a] # None /\ config'[a] \notin {None, config[a]} =>
             \E c \in Clients :
               /\ patching[c] # None /\ patching'[c] = None /\ patching[c].alert = a
               /\ \A f \in DOMAIN config[a] : config'[a][f] # config[a][f] =>
                     /\ f \in DOMAIN patching[c].set
                     /\ config'[a][f] = patching[c].set[f]]_vars
  BY PatchStep
<1>2. QED
  BY <1>1, BornInit, BornStep, PTL DEF Spec, NoLostPatch

-----------------------------------------------------------------------------
(* Mails the table does not know of.                                       *)

Missed == Unrecorded \cup orphans

MissedInv == BornInv /\ IsFiniteSet(Missed) /\ Cardinality(Missed) <= faults

\* A mail is unrecorded when it arrived for a stored alert, is not on record and
\* no session is at repo.save with it.
LEMMA UnrecordedMembers ==
  ASSUME TypeOK, NEW m
  PROVE  m \in Unrecorded <=>
           /\ m \in Mail
           /\ config[m.alert] # None
           /\ m.at \in delivered[m.alert] \ recorded[m.alert]
           /\ \A e \in Evaluators : pc[e] = "save" => mail[e] # m
<1> DEFINE stored == {b \in Alerts : config[b] # None}
           Off(a) == {[alert |-> a, at |-> t] : t \in delivered[a] \ recorded[a]}
           off == UNION {Off(a) : a \in stored}
           saving == {mail[e] : e \in {f \in Evaluators : pc[f] = "save"}}
<1>1. Unrecorded = off \ saving
  BY DEF Unrecorded
<1>2. m \in off <=> \E a \in stored : m \in Off(a)
  OBVIOUS
<1>3. ASSUME NEW a \in stored
      PROVE  m \in Off(a) <=> /\ m \in Mail /\ m.alert = a
                              /\ m.at \in delivered[a] \ recorded[a]
  <2>1. delivered[a] \subseteq Nat /\ a \in Alerts
    BY DEF TypeOK
  <2>2. QED
    BY <2>1 DEF Mail
<1>4. m \in saving <=> \E e \in Evaluators : pc[e] = "save" /\ mail[e] = m
  OBVIOUS
<1>5. m \in Mail => m.alert \in Alerts
  BY DEF Mail
<1> HIDE DEF Off, saving
<1>6. QED
  BY <1>1, <1>2, <1>3, <1>4, <1>5

\* No step but a fault adds to the missed mails.
LEMMA MissedShrinks ==
  ASSUME MissedInv, BornInv', Missed' \subseteq Missed, faults' = faults
  PROVE  MissedInv'
<1>1. IsFiniteSet(Missed') /\ Cardinality(Missed') <= Cardinality(Missed)
  BY FS_Subset DEF MissedInv
<1>2. Cardinality(Missed') \in Nat /\ Cardinality(Missed) \in Nat /\ faults \in Nat
  BY <1>1, FS_CardinalityType DEF MissedInv, BornInv, TypeOK
<1>3. QED
  BY <1>1, <1>2 DEF MissedInv

\* A fault adds at most one.
LEMMA MissedGrows ==
  ASSUME MissedInv, BornInv', NEW m, Missed' \subseteq Missed \cup {m},
         faults' = faults + 1
  PROVE  MissedInv'
<1>1. /\ IsFiniteSet(Missed \cup {m})
      /\ Cardinality(Missed \cup {m}) \in {Cardinality(Missed), Cardinality(Missed) + 1}
  BY FS_AddElement DEF MissedInv
<1>2. /\ IsFiniteSet(Missed')
      /\ Cardinality(Missed') <= Cardinality(Missed \cup {m})
  BY <1>1, FS_Subset
<1>3. Cardinality(Missed') \in Nat /\ Cardinality(Missed) \in Nat /\ faults \in Nat
  BY <1>2, FS_CardinalityType DEF MissedInv, BornInv, TypeOK
<1>4. QED
  BY <1>1, <1>2, <1>3 DEF MissedInv

\* The step from the unprimed state forgets no record and no mail about to be
\* recorded, except mails in `lost`.
Remembers(lost) ==
  /\ \A a \in Alerts : recorded[a] \subseteq recorded'[a]
  /\ \A e \in Evaluators : pc[e] = "save" =>
       \/ pc'[e] = "save" /\ mail'[e] = mail[e]
       \/ config'[mail[e].alert] = None
       \/ mail[e].at \in recorded'[mail[e].alert]
       \/ mail[e] \in lost

\* The step stores no alert that was mailed before, and only mails in `new` arrive.
Arrives(new) ==
  \A a \in Alerts :
    /\ config'[a] # None => config[a] # None \/ delivered'[a] = {}
    /\ \A t \in delivered'[a] : t \in delivered[a] \/ [alert |-> a, at |-> t] \in new

\* A mail becomes unrecorded by arriving or by being forgotten.
LEMMA UnrecordedGrows ==
  ASSUME TypeOK, TypeOK', NEW lost, NEW new, Remembers(lost), Arrives(new)
  PROVE  Unrecorded' \subseteq Unrecorded \cup lost \cup new
<1> SUFFICES ASSUME NEW m \in Unrecorded', m \notin new, m \notin lost
             PROVE  m \in Unrecorded
  OBVIOUS
<1>1. /\ m \in Mail
      /\ config'[m.alert] # None
      /\ m.at \in delivered'[m.alert] \ recorded'[m.alert]
      /\ \A e \in Evaluators : pc'[e] = "save" => mail'[e] # m
  <2>1. (m \in Unrecorded <=>
           /\ m \in Mail
           /\ config[m.alert] # None
           /\ m.at \in delivered[m.alert] \ recorded[m.alert]
           /\ \A e \in Evaluators : pc[e] = "save" => mail[e] # m)'
    BY UnrecordedMembers, PTL
  <2>2. QED
    BY <2>1
<1>2. m.alert \in Alerts /\ m = [alert |-> m.alert, at |-> m.at]
  BY <1>1 DEF Mail
<1>3. m.at \in delivered[m.alert] /\ config[m.alert] # None
  BY <1>1, <1>2 DEF Arrives
<1>4. m.at \notin recorded[m.alert]
  BY <1>1, <1>2 DEF Remembers
<1>5. \A e \in Evaluators : pc[e] = "save" => mail[e] # m
  BY <1>1 DEF Remembers
<1>6. QED
  BY <1>1, <1>3, <1>4, <1>5, UnrecordedMembers

\* Steps without a fault: a session that leaves repo.save has recorded its mail
\* or found no row; an abandoned mail that arrives was missed already; a row
\* inserted under a fresh key was never mailed. A fault costs one mail at most.
LEMMA MissedStep == MissedInv /\ [Next]_vars => MissedInv'
<1> SUFFICES ASSUME MissedInv, [Next]_vars PROVE MissedInv'
  OBVIOUS
<1>0. BornInv /\ BornInv' /\ TypeOK /\ TypeOK'
  BY BornStep DEF MissedInv, BornInv
<1>a. ASSUME Remembers({}), Arrives({}), orphans' = orphans, faults' = faults
      PROVE  MissedInv'
  <2>1. Unrecorded' \subseteq Unrecorded
    BY <1>0, <1>a, UnrecordedGrows
  <2>2. QED
    BY <1>0, <1>a, <2>1, MissedShrinks DEF Missed
<1>b. ASSUME UNCHANGED history, config' = config,
             \A e \in Evaluators : pc[e] = "save" => pc'[e] = "save" /\ mail'[e] = mail[e]
      PROVE  Remembers({}) /\ Arrives({})
  BY <1>b DEF Remembers, Arrives
<1>c. ASSUME NEW e \in Evaluators, pc[e] = "save", Record(mail[e]), mail[e] \in Mail,
             \A f \in Evaluators \ {e} : pc'[f] = pc[f] /\ mail'[f] = mail[f]
      PROVE  Remembers({}) /\ Arrives({})
  BY <1>0, <1>c DEF Remembers, Arrives, Record, TypeOK, Mail
<1>1. ASSUME NEW e \in Evaluators,
             \/ SendFails(e) \/ Refresh(e) \/ EndCycle(e)
             \/ \E a \in Alerts : SkipAlert(e, a) \/ StartSend(e, a)
      PROVE  MissedInv'
  <2>1. UNCHANGED history /\ config' = config
    BY <1>1 DEF SendFails, Refresh, EndCycle, SkipAlert, StartSend
  <2>2. \A f \in Evaluators : pc[f] = "save" => pc'[f] = "save" /\ mail'[f] = mail[f]
    BY <1>0, <1>1 DEF TypeOK, SendFails, Refresh, EndCycle, SkipAlert, StartSend, Close
  <2>3. orphans' = orphans /\ faults' = faults
    BY <1>1 DEF SendFails, Refresh, EndCycle, SkipAlert, StartSend
  <2>4. QED
    BY <1>a, <1>b, <2>1, <2>2, <2>3
<1>2. ASSUME NEW e \in Evaluators, Save(e) PROVE MissedInv'
  <2>1. mail[e] \in Mail
    BY <1>0, <1>2 DEF TypeOK, Save
  <2>2. \A f \in Evaluators \ {e} : pc'[f] = pc[f] /\ mail'[f] = mail[f]
    BY <1>0, <1>2 DEF TypeOK, Save
  <2>3. QED
    BY <1>2, <2>1, <2>2, <1>a, <1>c DEF Save
<1>3. ASSUME NEW e \in Evaluators, RowGone(e) PROVE MissedInv'
  <2>1. \A f \in Evaluators : pc[f] = "save" =>
          (pc'[f] = "save" /\ mail'[f] = mail[f]) \/ config'[mail[f].alert] = None
    BY <1>0, <1>3 DEF TypeOK, RowGone, Close
  <2>2. QED
    BY <1>3, <2>1, <1>a DEF Remembers, Arrives, RowGone
<1>4. ASSUME NEW e \in Evaluators, Deliver(e) PROVE MissedInv'
  <2>1. mail[e] \in Mail /\ pc'[e] = "save" /\ mail' = mail
    BY <1>0, <1>4 DEF TypeOK, Deliver
  <2>2. Arrives({mail[e]})
    BY <1>0, <1>4, <2>1 DEF TypeOK, Deliver, Reaches, Arrives, Mail
  <2>3. Remembers({})
    BY <1>0, <1>4 DEF TypeOK, Deliver, Remembers
  <2>4. Unrecorded' \subseteq Unrecorded \cup {mail[e]}
    BY <1>0, <2>2, <2>3, UnrecordedGrows
  <2>5. mail[e] \notin Unrecorded'
    BY <2>1 DEF Unrecorded
  <2>6. QED
    BY <1>0, <1>4, <2>4, <2>5, MissedShrinks DEF Missed, Deliver
<1>5. ASSUME NEW e \in Evaluators, SendFailsLate(e) PROVE MissedInv'
  <2>1. mail[e] \in Mail
    BY <1>0, <1>5 DEF TypeOK, SendFailsLate
  <2>2. Arrives({mail[e]})
    BY <1>0, <1>5, <2>1 DEF TypeOK, SendFailsLate, Reaches, Arrives, Mail
  <2>3. Remembers({})
    BY <1>0, <1>5 DEF TypeOK, SendFailsLate, Remembers
  <2>4. Unrecorded' \subseteq Unrecorded \cup {mail[e]}
    BY <1>0, <2>2, <2>3, UnrecordedGrows
  <2>5. QED
    BY <1>0, <1>5, <2>4, MissedGrows DEF Missed, SendFailsLate
<1>6. ASSUME NEW e \in Evaluators, DatabaseError(e) \/ Stop(e) PROVE MissedInv'
  <2>1. \A f \in Evaluators \ {e} : pc'[f] = pc[f] /\ mail'[f] = mail[f]
    BY <1>0, <1>6 DEF TypeOK, DatabaseError, Stop, Close
  <2>2. Remembers({mail[e]}) /\ Arrives({})
    <3>1. CASE UNCHANGED <<db, history>>
      BY <2>1, <3>1 DEF Remembers, Arrives
    <3>2. CASE pc[e] = "save" /\ Record(mail[e])
      BY <1>0, <1>c, <2>1, <3>2 DEF Remembers, TypeOK
    <3>3. QED
      BY <1>6, <3>1, <3>2 DEF DatabaseError, Stop
  <2>3. Unrecorded' \subseteq Unrecorded \cup {mail[e]}
    BY <1>0, <2>2, UnrecordedGrows
  <2>4. orphans' \subseteq orphans \cup {mail[e]} /\ faults' = faults + 1
    BY <1>6 DEF DatabaseError, Stop
  <2>5. QED
    BY <1>0, <2>3, <2>4, MissedGrows DEF Missed
<1>7. ASSUME NEW m \in orphans, OrphanEnds(m) PROVE MissedInv'
  <2>1. m \in Mail
    BY <1>0 DEF TypeOK
  <2>2. Arrives({m})
    BY <1>0, <1>7, <2>1 DEF TypeOK, OrphanEnds, Reaches, Arrives, Mail
  <2>3. Remembers({})
    BY <1>7 DEF OrphanEnds, Remembers
  <2>4. Unrecorded' \subseteq Unrecorded \cup {m}
    BY <1>0, <2>2, <2>3, UnrecordedGrows
  <2>5. QED
    BY <1>0, <1>7, <2>4, MissedShrinks DEF Missed, OrphanEnds
<1>8. ASSUME NEW a \in Alerts, NEW c \in NewConfigs, Create(a, c) PROVE MissedInv'
  <2>1. a \notin born /\ delivered[a] = {} /\ delivered' = delivered
    BY <1>0, <1>8 DEF BornInv, TypeOK, Create
  <2>2. \A b \in Alerts : b # a => config'[b] = config[b]
    BY <1>0, <1>8 DEF TypeOK, Create
  <2>3. Arrives({})
    BY <2>1, <2>2 DEF Arrives
  <2>4. QED
    BY <1>8, <1>a, <2>3 DEF Remembers, Create
<1>9. ASSUME NEW a \in Alerts, Delete(a) PROVE MissedInv'
  <2>1. \A b \in Alerts : config'[b] # None => config[b] # None
    BY <1>0, <1>9 DEF TypeOK, Delete
  <2>2. QED
    BY <1>9, <2>1, <1>a DEF Remembers, Arrives, Delete
<1>10. ASSUME NEW c \in Clients, UpdateCommit(c) PROVE MissedInv'
  <2>1. \A b \in Alerts : config'[b] # None => config[b] # None
    BY <1>0, <1>10 DEF TypeOK, UpdateCommit
  <2>2. QED
    BY <1>10, <2>1, <1>a DEF Remembers, Arrives, UpdateCommit
<1>11. ASSUME NEW e \in Evaluators, NEW u \in Users, NextUser(e, u) \/ PostEvaluate(e, u)
       PROVE  MissedInv'
  <2>1. UNCHANGED history /\ config' = config /\ orphans' = orphans /\ faults' = faults
    BY <1>11 DEF NextUser, PostEvaluate, Load
  <2>2. \A f \in Evaluators : pc[f] = "save" => pc'[f] = "save" /\ mail'[f] = mail[f]
    BY <1>0, <1>11 DEF TypeOK, NextUser, PostEvaluate, Load
  <2>3. QED
    BY <1>a, <1>b, <2>1, <2>2
<1>12. ASSUME NEW e \in Evaluators, StartCycle(e) \/ Restart(e) PROVE MissedInv'
  <2>1. UNCHANGED history /\ config' = config /\ orphans' = orphans /\ faults' = faults
    BY <1>12 DEF StartCycle, Restart
  <2>2. \A f \in Evaluators : pc[f] = "save" => pc'[f] = "save" /\ mail'[f] = mail[f]
    BY <1>0, <1>12 DEF TypeOK, StartCycle, Restart
  <2>3. QED
    BY <1>a, <1>b, <2>1, <2>2
<1>13. CASE \/ \E c \in Clients, a \in Alerts, p \in Patches : UpdateValidate(c, a, p)
            \/ \E u \in Users : SetActive(u)
            \/ Tick \/ UNCHANGED vars
  BY <1>13, <1>a, <1>b DEF UpdateValidate, SetActive, Tick
<1>14. QED
  BY <1>1, <1>2, <1>3, <1>4, <1>5, <1>6, <1>7, <1>8, <1>9, <1>10, <1>11, <1>12, <1>13
     DEF Next, Evaluate, Fault, Schedule, Api, Evaluators

\* For any number of evaluators, clients and alerts: the mails a user got and
\* the table does not know of are never more than the faults that happened.
THEOREM OnlyFaultsLoseRecords == Spec => []UnrecordedMailNeedsFault
<1>1. Init => MissedInv
  <2> SUFFICES ASSUME Init PROVE MissedInv
    OBVIOUS
  <2>1. Missed = {}
    BY DEF Init, Missed, Unrecorded, Nothing
  <2>2. QED
    BY <2>1, BornInit, FS_EmptySet DEF MissedInv, Init
<1>2. MissedInv => UnrecordedMailNeedsFault
  BY DEF MissedInv, Missed, UnrecordedMailNeedsFault
<1>3. QED
  BY <1>1, <1>2, MissedStep, PTL DEF Spec
=============================================================================
