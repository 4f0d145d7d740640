---------------------------- MODULE AlertsProofs ----------------------------
(***************************************************************************)
(* Proofs about the alert subsystem, for any sets of alerts, users,        *)
(* sessions and requests and any bounds on time and faults.                *)
(***************************************************************************)
EXTENDS AlertsProperties, TLAPS

\* Applying a patch to a row of the table gives a row of the table.
LEMMA MergeType ==
  ASSUME NEW c \in Config, NEW p, WellTyped(p)
  PROVE  Merge(c, p) \in Config
<1>1. Patched(p, "alert_type", c.alert_type) \in AlertTypes
  BY DEF Patched, WellTyped, Config
<1>2. Patched(p, "threshold", c.threshold) \in BOOLEAN
  BY DEF Patched, WellTyped, Config
<1>3. Patched(p, "percentage", c.percentage) \in BOOLEAN
  BY DEF Patched, WellTyped, Config
<1>4. Patched(p, "enabled", c.enabled) \in BOOLEAN
  BY DEF Patched, WellTyped, Config
<1>5. Patched(p, "cooldown", c.cooldown) \in Nat
  BY DEF Patched, WellTyped, Config
<1>6. QED
  BY <1>1, <1>2, <1>3, <1>4, <1>5 DEF Merge, Config

\* What a patch changes is well-typed when the patch is.
LEMMA ChangedType ==
  ASSUME NEW p, WellTyped(p), NEW changed \in SUBSET DOMAIN p
  PROVE  WellTyped([f \in changed |-> p[f]])
<1> DEFINE q == [f \in changed |-> p[f]]
<1>1. ASSUME NEW column, NEW old
      PROVE  Patched(q, column, old) \in {Patched(p, column, old), old}
  BY DEF Patched
<1>2. Patched(q, "alert_type", "anomaly") \in AlertTypes
  BY <1>1 DEF WellTyped, AlertTypes
<1>3. Patched(q, "threshold", TRUE) \in BOOLEAN
  BY <1>1, Patched(q, "threshold", TRUE) \in {Patched(p, "threshold", TRUE), TRUE}
     DEF WellTyped
<1>4. Patched(q, "percentage", TRUE) \in BOOLEAN
  BY <1>1, Patched(q, "percentage", TRUE) \in {Patched(p, "percentage", TRUE), TRUE}
     DEF WellTyped
<1>5. Patched(q, "enabled", TRUE) \in BOOLEAN
  BY <1>1, Patched(q, "enabled", TRUE) \in {Patched(p, "enabled", TRUE), TRUE}
     DEF WellTyped
<1>6. Patched(q, "cooldown", 0) \in Nat
  BY <1>1, Patched(q, "cooldown", 0) \in {Patched(p, "cooldown", 0), 0} DEF WellTyped
<1>7. QED
  BY <1>2, <1>3, <1>4, <1>5, <1>6 DEF WellTyped

USE ConstantsAssumption DEF vars, db, session, history

\* The empty table and idle sessions are well-typed.
LEMMA InitType == Init => TypeOK
BY DEF Init, TypeOK, Nothing

\* Recording a mail writes a time into its alert's column.
LEMMA RecordType ==
  ASSUME TypeOK, NEW m \in Mail, Record(m)
  PROVE  /\ last' \in [Alerts -> Nat \cup {None}]
         /\ recorded' \in [Alerts -> SUBSET Nat]
BY DEF TypeOK, Record, Mail

\* A commit leaves the other requests as they are, except that it overtakes
\* those on its row.
LEMMA CommitPasses ==
  ASSUME NEW c \in Clients, UpdateCommit(c), NEW d \in Clients
  PROVE  \/ patching'[d] = None
         \/ patching[d] # None /\ patching'[d] = patching[d]
            /\ patching[d].alert # patching[c].alert
         \/ /\ patching[d] # None /\ patching'[d].alert = patching[d].alert
            /\ patching'[d].set = patching[d].set /\ patching'[d].overtaken = TRUE
BY DEF UpdateCommit, Passed

\* What a session holds.
SessionTypes ==
  /\ pc \in [Evaluators -> {"idle", "loop", "send", "save", "refresh", "stopped"}]
  /\ users \in [Evaluators -> SUBSET Users]
  /\ todo \in [Evaluators -> SUBSET Alerts]
  /\ seen \in [Evaluators -> [Alerts -> Config \cup {None}]]
  /\ seenLast \in [Evaluators -> [Alerts -> Nat \cup {None}]]
  /\ mail \in [Evaluators -> Mail \cup {None}]
  /\ \A e \in Evaluators : pc[e] \in {"send", "save", "refresh"} <=> mail[e] # None

\* A session that closes holds nothing.
LEMMA CloseType ==
  ASSUME TypeOK, NEW e \in Evaluators, NEW to \in {"idle", "stopped"}, Close(e, to)
  PROVE  SessionTypes'
BY DEF TypeOK, Close, Nothing, SessionTypes

\* Every action preserves the types, and the mail a session holds goes with its pc.
LEMMA StepType == TypeOK /\ [Next]_vars => TypeOK'
<1> SUFFICES ASSUME TypeOK, [Next]_vars PROVE TypeOK'
  OBVIOUS
<1>1. ASSUME NEW s \in Schedulers, StartCycle(s) PROVE TypeOK'
  BY <1>1 DEF TypeOK, StartCycle, Evaluators
<1>2. ASSUME NEW s \in Schedulers, NEW u \in Users, NextUser(s, u) PROVE TypeOK'
  BY <1>2 DEF TypeOK, NextUser, Load, Rows, Evaluators
<1>3. ASSUME NEW h \in Endpoints, NEW u \in Users, PostEvaluate(h, u) PROVE TypeOK'
  BY <1>3 DEF TypeOK, PostEvaluate, Load, Rows, Evaluators
<1>4. ASSUME NEW e \in Evaluators, EndCycle(e) PROVE TypeOK'
  BY <1>4 DEF TypeOK, EndCycle, Close, Nothing
<1>5. ASSUME NEW e \in Evaluators, NEW a \in Alerts, SkipAlert(e, a) PROVE TypeOK'
  BY <1>5 DEF TypeOK, SkipAlert
<1>6. ASSUME NEW e \in Evaluators, NEW a \in Alerts, StartSend(e, a) PROVE TypeOK'
  BY <1>6 DEF TypeOK, StartSend, Mail
<1>7. ASSUME NEW e \in Evaluators, Deliver(e) PROVE TypeOK'
  BY <1>7 DEF TypeOK, Deliver, Reaches, Mail
<1>8. ASSUME NEW e \in Evaluators, SendFails(e) PROVE TypeOK'
  BY <1>8 DEF TypeOK, SendFails
<1>9. ASSUME NEW e \in Evaluators, SendFailsLate(e) PROVE TypeOK'
  BY <1>9 DEF TypeOK, SendFailsLate, Reaches, Mail
<1>10. ASSUME NEW e \in Evaluators, Save(e) PROVE TypeOK'
  BY <1>10 DEF TypeOK, Save, Record, Mail
<1>11. ASSUME NEW e \in Evaluators, Refresh(e) PROVE TypeOK'
  BY <1>11 DEF TypeOK, Refresh
<1>12. ASSUME NEW e \in Evaluators, RowGone(e) PROVE TypeOK'
  BY <1>12 DEF TypeOK, RowGone, Close, Nothing
<1>13. ASSUME NEW e \in Evaluators, DatabaseError(e) PROVE TypeOK'
  <2>1. CASE UNCHANGED <<db, history>>
    BY <1>13, <2>1 DEF TypeOK, DatabaseError, Close, Nothing
  <2>2. CASE pc[e] = "save" /\ Record(mail[e])
    <3>1. mail[e] \in Mail
      BY <2>2 DEF TypeOK
    <3>2. /\ last' \in [Alerts -> Nat \cup {None}]
          /\ recorded' \in [Alerts -> SUBSET Nat]
      BY <2>2, <3>1, RecordType
    <3>3. UNCHANGED <<clock, active, born, config, patching, delivered>> /\ Close(e, pc'[e])
      BY <1>13, <2>2 DEF TypeOK, DatabaseError, Record, Close
    <3>4. faults' \in Nat /\ orphans' \subseteq Mail /\ pc'[e] \in {"idle", "stopped"}
      BY <1>13, <2>2 DEF TypeOK, DatabaseError, Close
    <3>5. SessionTypes'
      BY <3>3, <3>4, CloseType
    <3>6. QED
      BY <3>2, <3>3, <3>4, <3>5 DEF TypeOK, SessionTypes
  <2>3. QED
    BY <1>13, <2>1, <2>2 DEF DatabaseError
<1>14. ASSUME NEW e \in Evaluators, Stop(e) PROVE TypeOK'
  <2>1. CASE UNCHANGED <<db, history>>
    BY <1>14, <2>1 DEF TypeOK, Stop, Close, Nothing
  <2>2. CASE pc[e] = "save" /\ Record(mail[e])
    <3>1. mail[e] \in Mail
      BY <2>2 DEF TypeOK
    <3>2. /\ last' \in [Alerts -> Nat \cup {None}]
          /\ recorded' \in [Alerts -> SUBSET Nat]
      BY <2>2, <3>1, RecordType
    <3>3. UNCHANGED <<clock, active, born, config, patching, delivered>> /\ Close(e, pc'[e])
      BY <1>14, <2>2 DEF TypeOK, Stop, Record, Close
    <3>4. faults' \in Nat /\ orphans' \subseteq Mail /\ pc'[e] \in {"idle", "stopped"}
      BY <1>14, <2>2 DEF TypeOK, Stop, Close
    <3>5. SessionTypes'
      BY <3>3, <3>4, CloseType
    <3>6. QED
      BY <3>2, <3>3, <3>4, <3>5 DEF TypeOK, SessionTypes
  <2>3. QED
    BY <1>14, <2>1, <2>2 DEF Stop
<1>15. ASSUME NEW s \in Schedulers, Restart(s) PROVE TypeOK'
  BY <1>15 DEF TypeOK, Restart, Evaluators
<1>16. ASSUME NEW m \in orphans, OrphanEnds(m) PROVE TypeOK'
  <2>1. m.alert \in Alerts /\ m.at \in Nat
    BY DEF TypeOK, Mail
  <2>2. delivered' \in [Alerts -> SUBSET Nat]
    BY <1>16, <2>1 DEF TypeOK, OrphanEnds, Reaches
  <2>3. QED
    BY <1>16, <2>2 DEF TypeOK, OrphanEnds
<1>17. ASSUME NEW a \in Alerts, NEW c \in NewConfigs, Create(a, c) PROVE TypeOK'
  BY <1>17 DEF TypeOK, Create
<1>18. ASSUME NEW c \in Clients, NEW a \in Alerts, NEW p \in Patches,
              UpdateValidate(c, a, p)
       PROVE  TypeOK'
  <2>1. PICK changed \in ChangedColumns(config[a], p) :
          patching' = [patching EXCEPT ![c] =
                         [alert |-> a, set |-> [f \in changed |-> p[f]],
                          overtaken |-> FALSE]]
    BY <1>18 DEF UpdateValidate
  <2>2. changed \in SUBSET DOMAIN p /\ WellTyped(p)
    BY DEF ChangedColumns
  <2> DEFINE next == [alert |-> a, set |-> [f \in changed |-> p[f]], overtaken |-> FALSE]
  <2>3. WellTyped(next.set)
    BY <2>2, ChangedType
  <2>4. next.alert \in Alerts /\ next.overtaken \in BOOLEAN
    OBVIOUS
  <2>5. \A d \in Clients : patching'[d] = next \/ patching'[d] = patching[d]
    BY <2>1
  <2> HIDE DEF next
  <2>6. QED
    BY <1>18, <2>3, <2>4, <2>5 DEF TypeOK, UpdateValidate
<1>19. ASSUME NEW c \in Clients, UpdateCommit(c) PROVE TypeOK'
  <2>1. config' \in [Alerts -> Config \cup {None}]
    BY <1>19, MergeType DEF TypeOK, UpdateCommit
  <2>2. ASSUME NEW d \in Clients, patching'[d] # None
        PROVE  /\ patching'[d].alert \in Alerts /\ WellTyped(patching'[d].set)
               /\ patching'[d].overtaken \in BOOLEAN
    BY <1>19, <2>2, CommitPasses DEF TypeOK
  <2>3. DOMAIN patching' = Clients
    BY <1>19 DEF UpdateCommit
  <2>4. QED
    BY <1>19, <2>1, <2>2, <2>3 DEF TypeOK, UpdateCommit
<1>20. ASSUME NEW a \in Alerts, Delete(a) PROVE TypeOK'
  BY <1>20 DEF TypeOK, Delete
<1>21. ASSUME NEW u \in Users, SetActive(u) PROVE TypeOK'
  BY <1>21 DEF TypeOK, SetActive
<1>22. CASE Tick
  BY <1>22 DEF TypeOK, Tick
<1>23. CASE UNCHANGED vars
  BY <1>23 DEF TypeOK
<1>24. QED
  BY <1>1, <1>2, <1>3, <1>4, <1>5, <1>6, <1>7, <1>8, <1>9, <1>10, <1>11, <1>12,
     <1>13, <1>14, <1>15, <1>16, <1>17, <1>18, <1>19, <1>20, <1>21, <1>22, <1>23
     DEF Next, Evaluate, Fault, Schedule, Api

\* Type correctness holds in every reachable state.
THEOREM TypeCorrect == Spec => []TypeOK
BY InitType, StepType, PTL DEF Spec

-----------------------------------------------------------------------------
(* last_triggered_at is the time of a delivered mail.                      *)

\* A session that is past notifier.send holds a mail that was delivered.
HeldWasDelivered ==
  \A e \in Evaluators : pc[e] \in {"save", "refresh"} =>
    mail[e].at \in delivered[mail[e].alert]

DeliveredInv == TypeOK /\ RecordedWasDelivered /\ HeldWasDelivered

\* No action takes a mail out of the user's mailbox.
LEMMA DeliveredGrows ==
  ASSUME TypeOK, [Next]_vars
  PROVE  \A a \in Alerts : delivered[a] \subseteq delivered'[a]
<1>1. ASSUME NEW m \in Mail, Reaches(m)
      PROVE  \A a \in Alerts : delivered[a] \subseteq delivered'[a]
  BY <1>1 DEF TypeOK, Reaches, Mail
<1>2. ASSUME NEW e \in Evaluators, Deliver(e) \/ SendFailsLate(e)
      PROVE  \A a \in Alerts : delivered[a] \subseteq delivered'[a]
  <2>1. mail[e] \in Mail /\ Reaches(mail[e])
    BY <1>2 DEF TypeOK, Deliver, SendFailsLate
  <2>2. QED
    BY <2>1, <1>1
<1>3. ASSUME NEW m \in orphans, OrphanEnds(m)
      PROVE  \A a \in Alerts : delivered[a] \subseteq delivered'[a]
  <2>1. m \in Mail
    BY DEF TypeOK
  <2>2. QED
    BY <2>1, <1>1, <1>3 DEF OrphanEnds
<1>4. QED
  BY <1>2, <1>3 DEF Next, Evaluate, Fault, Schedule, Api, StartCycle, NextUser, Load,
     PostEvaluate, EndCycle, SkipAlert, StartSend, SendFails, Save, Refresh, RowGone,
     DatabaseError, Stop, Restart, Create, UpdateValidate, UpdateCommit, Delete,
     SetActive, Tick, Record

\* Whatever is on record, or about to be recorded, was delivered: one step.
LEMMA DeliveredStep == DeliveredInv /\ [Next]_vars => DeliveredInv'
<1> SUFFICES ASSUME DeliveredInv, [Next]_vars
             PROVE  RecordedWasDelivered' /\ HeldWasDelivered'
  BY StepType DEF DeliveredInv
<1>0. TypeOK /\ RecordedWasDelivered /\ HeldWasDelivered /\ TypeOK'
  BY StepType DEF DeliveredInv
<1>a. \A a \in Alerts : delivered[a] \subseteq delivered'[a]
  BY <1>0, DeliveredGrows
\* Only Record writes a time; Delete clears it.
<1>b. ASSUME NEW e \in Evaluators, pc[e] = "save", Record(mail[e])
      PROVE  RecordedWasDelivered'
  BY <1>b, <1>0, <1>a DEF TypeOK, Record, RecordedWasDelivered, HeldWasDelivered, Mail
<1>c. ASSUME last' = last PROVE RecordedWasDelivered'
  BY <1>c, <1>0, <1>a DEF TypeOK, RecordedWasDelivered
<1>d. ASSUME \A e \in Evaluators : pc'[e] \in {"save", "refresh"} =>
               pc[e] \in {"save", "refresh"} /\ mail'[e] = mail[e]
      PROVE  HeldWasDelivered'
  <2> SUFFICES ASSUME NEW e \in Evaluators, pc'[e] \in {"save", "refresh"}
               PROVE  mail'[e].at \in delivered'[mail'[e].alert]
    BY DEF HeldWasDelivered
  <2>1. pc[e] \in {"save", "refresh"} /\ mail'[e] = mail[e] /\ mail[e] \in Mail
    BY <1>d, <1>0 DEF TypeOK
  <2>2. mail[e].at \in delivered[mail[e].alert] /\ mail[e].alert \in Alerts
    BY <2>1, <1>0 DEF HeldWasDelivered, Mail
  <2>3. QED
    BY <2>1, <2>2, <1>a
<1>1. ASSUME NEW e \in Evaluators, Deliver(e)
      PROVE  RecordedWasDelivered' /\ HeldWasDelivered'
  <2>1. mail[e] \in Mail /\ mail[e].at \in delivered'[mail[e].alert]
    BY <1>1, <1>0 DEF TypeOK, Deliver, Reaches, Mail
  <2>2. \A f \in Evaluators : f # e => pc'[f] = pc[f] /\ mail'[f] = mail[f]
    BY <1>1, <1>0 DEF TypeOK, Deliver
  <2>3. mail'[e] = mail[e]
    BY <1>1 DEF Deliver
  <2>4. ASSUME NEW f \in Evaluators, f # e, pc'[f] \in {"save", "refresh"}
        PROVE  mail'[f].at \in delivered'[mail'[f].alert]
    <3>1. mail[f] \in Mail /\ pc[f] \in {"save", "refresh"} /\ mail'[f] = mail[f]
      BY <2>2, <2>4, <1>0 DEF TypeOK
    <3>2. mail[f].at \in delivered[mail[f].alert] /\ mail[f].alert \in Alerts
      BY <3>1, <1>0 DEF HeldWasDelivered, Mail
    <3>3. QED
      BY <3>1, <3>2, <1>a
  <2>5. HeldWasDelivered'
    BY <2>1, <2>3, <2>4 DEF HeldWasDelivered
  <2>6. QED
    BY <1>1, <1>c, <2>5 DEF Deliver
<1>2. ASSUME NEW e \in Evaluators, Save(e)
      PROVE  RecordedWasDelivered' /\ HeldWasDelivered'
  BY <1>2, <1>0, <1>b, <1>d DEF Save, TypeOK
<1>3. ASSUME NEW e \in Evaluators, DatabaseError(e) \/ Stop(e)
      PROVE  RecordedWasDelivered' /\ HeldWasDelivered'
  <2>1. RecordedWasDelivered'
    BY <1>3, <1>b, <1>c DEF DatabaseError, Stop
  <2>2. HeldWasDelivered'
    BY <1>3, <1>0, <1>d DEF DatabaseError, Stop, Close, TypeOK
  <2>3. QED
    BY <2>1, <2>2
<1>4. ASSUME NEW a \in Alerts, Delete(a)
      PROVE  RecordedWasDelivered' /\ HeldWasDelivered'
  BY <1>4, <1>0, <1>a, <1>d DEF Delete, TypeOK, RecordedWasDelivered
<1>5. ASSUME last' = last,
             \A e \in Evaluators : pc'[e] \in {"save", "refresh"} =>
               pc[e] \in {"save", "refresh"} /\ mail'[e] = mail[e]
      PROVE  RecordedWasDelivered' /\ HeldWasDelivered'
  BY <1>5, <1>c, <1>d
<1>6. ASSUME NEW e \in Evaluators,
             \/ SendFailsLate(e) \/ SendFails(e) \/ Refresh(e) \/ RowGone(e) \/ EndCycle(e)
             \/ \E a \in Alerts : SkipAlert(e, a) \/ StartSend(e, a)
      PROVE  RecordedWasDelivered' /\ HeldWasDelivered'
  BY <1>6, <1>5, <1>0 DEF TypeOK, SendFailsLate, SendFails, Refresh, RowGone, EndCycle,
     Close, SkipAlert, StartSend
<1>7. ASSUME NEW e \in Evaluators, NEW u \in Users,
             NextUser(e, u) \/ PostEvaluate(e, u)
      PROVE  RecordedWasDelivered' /\ HeldWasDelivered'
  BY <1>7, <1>5, <1>0 DEF TypeOK, NextUser, PostEvaluate, Load
<1>8. CASE \/ \E m \in orphans : OrphanEnds(m)
           \/ \E u \in Users : SetActive(u)
           \/ \E a \in Alerts, c \in NewConfigs : Create(a, c)
           \/ \E c \in Clients, a \in Alerts, p \in Patches : UpdateValidate(c, a, p)
           \/ \E c \in Clients : UpdateCommit(c)
           \/ Tick
           \/ UNCHANGED vars
  BY <1>8, <1>5 DEF OrphanEnds, SetActive, Create, UpdateValidate, UpdateCommit, Tick
<1>9. ASSUME NEW e \in Evaluators, Evaluate(e) \/ Fault(e)
      PROVE  RecordedWasDelivered' /\ HeldWasDelivered'
  BY <1>9, <1>1, <1>2, <1>3, <1>6 DEF Evaluate, Fault
<1>10. ASSUME NEW s \in Schedulers, Schedule(s) \/ Restart(s)
       PROVE  RecordedWasDelivered' /\ HeldWasDelivered'
  <2>1. s \in Evaluators
    BY DEF Evaluators
  <2>2. CASE Restart(s)
    BY <2>1, <2>2, <1>5, <1>0 DEF TypeOK, Restart
  <2>3. CASE StartCycle(s)
    BY <2>1, <2>3, <1>5, <1>0 DEF TypeOK, StartCycle
  <2>4. CASE \E u \in Users : NextUser(s, u)
    BY <2>1, <2>4, <1>7
  <2>5. QED
    BY <1>10, <2>2, <2>3, <2>4 DEF Schedule
<1>11. CASE Api
  <2>1. CASE \E h \in Endpoints, u \in Users : PostEvaluate(h, u)
    BY <2>1, <1>7 DEF Evaluators
  <2>2. QED
    BY <1>11, <2>1, <1>4, <1>8 DEF Api
<1>12. QED
  BY <1>8, <1>9, <1>10, <1>11 DEF Next

\* However many sessions evaluate, and whatever fails, last_triggered_at only
\* ever holds the time of a mail that reached the user.
THEOREM RecordedMailsWereDelivered == Spec => []RecordedWasDelivered
<1>1. Init => DeliveredInv
  BY InitType DEF Init, DeliveredInv, RecordedWasDelivered, HeldWasDelivered, Nothing
<1>2. DeliveredInv => RecordedWasDelivered
  BY DEF DeliveredInv
<1>3. QED
  BY <1>1, <1>2, DeliveredStep, PTL DEF Spec

-----------------------------------------------------------------------------
(* One evaluator honours the cooldown.                                     *)

SingleEvaluator == \A e, f \in Evaluators : e = f

\* Recorded times lie in the past, and belong to alerts that were inserted.
RecordedPast ==
  \A a \in Alerts : /\ \A r \in recorded[a] : r <= clock
                    /\ config[a] # None \/ recorded[a] # {} => a \in born

\* last_triggered_at of a stored alert is the newest of its recorded times.
LastIsNewest ==
  \A a \in Alerts : config[a] # None =>
    \A r \in recorded[a] : last[a] # None /\ r <= last[a]

\* So is the value a session has loaded for an alert it has yet to evaluate.
LoadedIsNewest ==
  \A e \in Evaluators : \A a \in todo[e] :
    /\ seen[e][a] # None
    /\ \A r \in recorded[a] : seenLast[e][a] # None /\ r <= seenLast[e][a]

\* A mail being sent or saved is past the cooldown of every recorded time.
HeldIsLater ==
  \A e \in Evaluators :
    /\ pc[e] \in {"send", "save", "refresh"} => mail[e].alert \notin todo[e]
    /\ pc[e] \in {"send", "save"} =>
         /\ mail[e].at <= clock
         /\ seen[e][mail[e].alert] # None
         /\ \A r \in recorded[mail[e].alert] :
              mail[e].at - r >= seen[e][mail[e].alert].cooldown

CooldownInv ==
  TypeOK /\ RecordedPast /\ LastIsNewest /\ LoadedIsNewest /\ HeldIsLater

\* Nothing is recorded or loaded at the start.
LEMMA CooldownInit == Init => CooldownInv
BY InitType DEF Init, CooldownInv, RecordedPast, LastIsNewest, LoadedIsNewest,
   HeldIsLater, Nothing

\* The null of a timestamp column is not a time.
LEMMA NoneIsNoTime == \A t \in Nat : t # None
OBVIOUS

\* Steps of a session that neither record nor load.
LEMMA CooldownQuiet ==
  ASSUME CooldownInv, TypeOK',
         UNCHANGED <<clock, born, config, last, recorded>>,
         \A f \in Evaluators :
           /\ todo'[f] \subseteq todo[f]
           /\ todo'[f] # {} => seen'[f] = seen[f] /\ seenLast'[f] = seenLast[f]
           /\ pc'[f] \in {"send", "save", "refresh"} =>
                /\ pc[f] \in {"send", "save", "refresh"}
                /\ pc'[f] \in {"send", "save"} => pc[f] \in {"send", "save"}
                /\ mail'[f] = mail[f] /\ seen'[f] = seen[f]
  PROVE  CooldownInv'
BY DEF CooldownInv, RecordedPast, LastIsNewest, LoadedIsNewest, HeldIsLater

\* The decision to send: the loaded time is the newest one recorded.
LEMMA CooldownStartSend ==
  ASSUME CooldownInv, TypeOK', NEW e \in Evaluators, NEW a \in Alerts, StartSend(e, a)
  PROVE  CooldownInv'
<1>0. TypeOK
  BY DEF CooldownInv
<1>1. seen[e][a] \in Config /\ seenLast[e][a] \in Nat \cup {None} /\ clock \in Nat
  BY DEF StartSend, CooldownInv, LoadedIsNewest, TypeOK
<1>2. \A r \in recorded[a] : clock - r >= seen[e][a].cooldown
  <2> SUFFICES ASSUME NEW r \in recorded[a] PROVE clock - r >= seen[e][a].cooldown
    OBVIOUS
  <2>1. seenLast[e][a] \in Nat /\ r <= seenLast[e][a] /\ r \in Nat
    BY <1>1 DEF StartSend, CooldownInv, LoadedIsNewest, TypeOK
  <2>2. clock - seenLast[e][a] >= seen[e][a].cooldown
    BY <1>1, <2>1 DEF StartSend, CoolingDown, Config
  <2>3. seen[e][a].cooldown \in Nat
    BY <1>1 DEF Config
  <2>4. QED
    BY <1>1, <2>1, <2>2, <2>3
<1>3. /\ mail'[e] = [alert |-> a, at |-> clock] /\ pc'[e] = "send"
      /\ todo'[e] = todo[e] \ {a}
      /\ \A f \in Evaluators \ {e} : /\ mail'[f] = mail[f] /\ pc'[f] = pc[f]
                                    /\ todo'[f] = todo[f]
      /\ UNCHANGED <<clock, born, config, last, recorded, seen, seenLast>>
  BY DEF StartSend, CooldownInv, TypeOK
<1>4. HeldIsLater'
  <2> SUFFICES ASSUME NEW f \in Evaluators
               PROVE  HeldIsLater!(f)'
    BY DEF HeldIsLater
  <2>1. CASE f = e
    BY <1>1, <1>2, <1>3, <2>1 DEF CooldownInv, HeldIsLater, TypeOK
  <2>2. CASE f # e
    BY <1>3, <2>2 DEF CooldownInv, HeldIsLater
  <2>3. QED
    BY <2>1, <2>2
<1>5. LoadedIsNewest'
  <2> SUFFICES ASSUME NEW f \in Evaluators, NEW b \in todo'[f]
               PROVE  /\ seen'[f][b] # None
                      /\ \A r \in recorded'[b] : seenLast'[f][b] # None /\ r <= seenLast'[f][b]
    BY DEF LoadedIsNewest
  <2>1. b \in todo[f]
    BY <1>3
  <2>2. QED
    BY <1>3, <2>1 DEF CooldownInv, LoadedIsNewest
<1>6. QED
  BY <1>3, <1>4, <1>5 DEF CooldownInv, RecordedPast, LastIsNewest

\* The commit: nobody else has loaded this alert, and its time is the newest.
LEMMA CooldownRecord ==
  ASSUME SingleEvaluator, CooldownInv, TypeOK', NEW e \in Evaluators,
         pc[e] = "save", Record(mail[e]), clock' = clock,
         \/ UNCHANGED <<todo, seen, seenLast>> /\ pc'[e] = "refresh" /\ UNCHANGED mail
         \/ todo'[e] = {} /\ pc'[e] \in {"idle", "stopped"}
  PROVE  CooldownInv'
<1> DEFINE m == mail[e]
<1>1. m \in Mail /\ m.alert \in Alerts /\ m.at \in Nat /\ m.alert \notin todo[e]
  BY DEF CooldownInv, TypeOK, HeldIsLater, Mail
<1>2. \A r \in recorded[m.alert] : r \in Nat /\ r <= m.at
  <2>1. seen[e][m.alert] \in Config
    BY <1>1 DEF CooldownInv, TypeOK, HeldIsLater
  <2>2. \A r \in recorded[m.alert] : m.at - r >= seen[e][m.alert].cooldown
    BY DEF CooldownInv, HeldIsLater
  <2>3. seen[e][m.alert].cooldown \in Nat
    BY <2>1 DEF Config
  <2>4. QED
    BY <1>1, <2>2, <2>3 DEF CooldownInv, TypeOK
<1>3. /\ recorded'[m.alert] = recorded[m.alert] \cup {m.at} /\ last'[m.alert] = m.at
      /\ \A b \in Alerts \ {m.alert} : recorded'[b] = recorded[b] /\ last'[b] = last[b]
      /\ UNCHANGED <<born, config>> /\ config[m.alert] # None
  BY <1>1 DEF Record, CooldownInv, TypeOK
<1>4. m.at <= clock
  BY DEF CooldownInv, HeldIsLater
<1>5. RecordedPast'
  BY <1>1, <1>3, <1>4 DEF CooldownInv, RecordedPast
<1>6. LastIsNewest'
  BY <1>1, <1>2, <1>3, NoneIsNoTime DEF CooldownInv, LastIsNewest
<1>7. LoadedIsNewest'
  <2> SUFFICES ASSUME NEW f \in Evaluators, NEW b \in todo'[f]
               PROVE  /\ seen'[f][b] # None
                      /\ \A r \in recorded'[b] : seenLast'[f][b] # None /\ r <= seenLast'[f][b]
    BY DEF LoadedIsNewest
  <2>1. f = e /\ UNCHANGED <<todo, seen, seenLast>> /\ b \in todo[e] /\ b \in Alerts
    BY DEF SingleEvaluator, CooldownInv, TypeOK
  <2>2. b # m.alert /\ recorded'[b] = recorded[b]
    BY <1>1, <1>3, <2>1
  <2>3. QED
    BY <2>1, <2>2 DEF CooldownInv, LoadedIsNewest
<1>8. HeldIsLater'
  BY <1>1 DEF SingleEvaluator, CooldownInv, HeldIsLater
<1>9. QED
  BY <1>5, <1>6, <1>7, <1>8 DEF CooldownInv

\* Loading reads the newest recorded times; nothing is held while loading.
LEMMA CooldownLoad ==
  ASSUME CooldownInv, TypeOK', NEW e \in Evaluators, NEW u \in Users, Load(e, u),
         pc'[e] = "loop", born' = born, config' = config, last' = last,
         recorded' = recorded, \A f \in Evaluators \ {e} : pc'[f] = pc[f]
  PROVE  CooldownInv'
<1>0. TypeOK
  BY DEF CooldownInv
<1>1. \A f \in Evaluators \ {e} : todo'[f] = todo[f] /\ seen'[f] = seen[f]
                                  /\ seenLast'[f] = seenLast[f] /\ mail'[f] = mail[f]
  BY <1>0 DEF Load, TypeOK
<1>2. todo'[e] = Rows(u)
  BY <1>0 DEF Load, TypeOK
<1>3. \A a \in Rows(u) : seen'[e][a] = config[a] /\ seenLast'[e][a] = last[a]
  BY <1>0 DEF Load, TypeOK, Rows
<1>4. LoadedIsNewest'
  <2> SUFFICES ASSUME NEW f \in Evaluators, NEW b \in todo'[f]
               PROVE  /\ seen'[f][b] # None
                      /\ \A r \in recorded'[b] : seenLast'[f][b] # None /\ r <= seenLast'[f][b]
    BY DEF LoadedIsNewest
  <2>1. CASE f = e
    BY <2>1, <1>2, <1>3 DEF CooldownInv, LastIsNewest, Rows
  <2>2. CASE f # e
    BY <2>2, <1>1 DEF CooldownInv, LoadedIsNewest
  <2>3. QED
    BY <2>1, <2>2
<1>5. HeldIsLater'
  <2> SUFFICES ASSUME NEW f \in Evaluators PROVE HeldIsLater!(f)'
    BY DEF HeldIsLater
  <2>1. CASE f = e
    BY <2>1 DEF HeldIsLater
  <2>2. CASE f # e
    BY <2>2, <1>1 DEF Load, CooldownInv, HeldIsLater
  <2>3. QED
    BY <2>1, <2>2
<1>6. QED
  BY <1>4, <1>5 DEF CooldownInv, RecordedPast, LastIsNewest, Load

\* Steps of the API and the environment: no session changes, and a row is gone,
\* or keeps its last_triggered_at, or is new.
RowsAgree ==
  \A a \in Alerts :
    \/ config'[a] = None
    \/ config[a] # None /\ last'[a] = last[a]
    \/ a \notin born /\ a \in born'

\* Such a step preserves the cooldown invariant.
LEMMA CooldownOutside ==
  ASSUME CooldownInv, TypeOK', UNCHANGED session, UNCHANGED recorded, clock <= clock',
         born \subseteq born',
         RowsAgree
  PROVE  CooldownInv'
<1>0. TypeOK
  BY DEF CooldownInv
<1>1. RecordedPast'
  BY <1>0 DEF CooldownInv, RecordedPast, RowsAgree, TypeOK
<1>2. LastIsNewest'
  <2> SUFFICES ASSUME NEW a \in Alerts, config'[a] # None, NEW r \in recorded[a]
               PROVE  last'[a] # None /\ r <= last'[a]
    BY DEF LastIsNewest
  <2>1. a \in born
    BY DEF CooldownInv, RecordedPast
  <2>2. config[a] # None /\ last'[a] = last[a]
    BY <2>1 DEF RowsAgree
  <2>3. QED
    BY <2>2 DEF CooldownInv, LastIsNewest
<1>3. LoadedIsNewest'
  BY DEF CooldownInv, LoadedIsNewest
<1>4. HeldIsLater'
  <2> SUFFICES ASSUME NEW f \in Evaluators PROVE HeldIsLater!(f)'
    BY DEF HeldIsLater
  <2>1. pc[f] \in {"send", "save"} => mail[f].at \in Nat
    BY <1>0 DEF TypeOK, Mail
  <2>2. QED
    BY <1>0, <2>1 DEF CooldownInv, HeldIsLater, TypeOK
<1>5. QED
  BY <1>1, <1>2, <1>3, <1>4 DEF CooldownInv

\* The cooldown invariant is inductive when one session evaluates.
LEMMA CooldownStep ==
  ASSUME SingleEvaluator
  PROVE  CooldownInv /\ [Next]_vars => CooldownInv'
<1> SUFFICES ASSUME CooldownInv, [Next]_vars PROVE CooldownInv'
  OBVIOUS
<1>0. TypeOK /\ TypeOK'
  BY StepType DEF CooldownInv
<1>1. ASSUME NEW e \in Evaluators, NEW a \in Alerts, SkipAlert(e, a) PROVE CooldownInv'
  BY <1>1, <1>0, CooldownQuiet DEF SkipAlert, TypeOK
<1>2. ASSUME NEW e \in Evaluators, Deliver(e) \/ SendFails(e) \/ SendFailsLate(e)
      PROVE  CooldownInv'
  BY <1>2, <1>0, CooldownQuiet DEF Deliver, SendFails, SendFailsLate, TypeOK
<1>3. ASSUME NEW e \in Evaluators, Refresh(e) \/ RowGone(e) \/ EndCycle(e)
      PROVE  CooldownInv'
  BY <1>3, <1>0, CooldownQuiet DEF Refresh, RowGone, EndCycle, Close, TypeOK
<1>4. ASSUME NEW e \in Evaluators, Save(e) PROVE CooldownInv'
  BY <1>4, <1>0, CooldownRecord DEF Save, TypeOK
<1>5. ASSUME NEW e \in Evaluators, DatabaseError(e) \/ Stop(e) PROVE CooldownInv'
  <2>1. todo'[e] = {} /\ pc'[e] \in {"idle", "stopped"} /\ clock' = clock
    BY <1>5, <1>0 DEF DatabaseError, Stop, Close, TypeOK
  <2>2. CASE pc[e] = "save" /\ Record(mail[e])
    BY <2>1, <2>2, <1>0, CooldownRecord
  <2>3. CASE UNCHANGED <<db, history>>
    BY <1>5, <2>3, <1>0, CooldownQuiet DEF DatabaseError, Stop, Close, TypeOK
  <2>4. QED
    BY <1>5, <2>2, <2>3 DEF DatabaseError, Stop
<1>6. ASSUME NEW e \in Evaluators, Evaluate(e) \/ Fault(e) PROVE CooldownInv'
  BY <1>6, <1>0, <1>1, <1>2, <1>3, <1>4, <1>5, CooldownStartSend DEF Evaluate, Fault
<1>7. ASSUME NEW s \in Schedulers, StartCycle(s) \/ Restart(s) PROVE CooldownInv'
  BY <1>7, <1>0, CooldownQuiet DEF StartCycle, Restart, TypeOK, Evaluators
<1>8. ASSUME NEW s \in Schedulers, NEW u \in Users, NextUser(s, u) PROVE CooldownInv'
  BY <1>8, <1>0, CooldownLoad DEF NextUser, Evaluators, Load
<1>9. ASSUME NEW h \in Endpoints, NEW u \in Users, PostEvaluate(h, u) PROVE CooldownInv'
  <2>1. h \in Evaluators
    BY DEF Evaluators
  <2>2. /\ pc'[h] = "loop" /\ \A f \in Evaluators \ {h} : pc'[f] = pc[f]
        /\ Load(h, u) /\ UNCHANGED <<born, config, last, recorded>>
    BY <1>9, <1>0, <2>1 DEF PostEvaluate, TypeOK, Load
  <2>3. QED
    BY <2>1, <2>2, <1>0, CooldownLoad
<1>10. ASSUME NEW a \in Alerts, NEW c \in NewConfigs, Create(a, c) PROVE CooldownInv'
  <2>1. \A b \in Alerts \ {a} : config'[b] = config[b]
    BY <1>10, <1>0 DEF Create, TypeOK
  <2>2. QED
    <3>1. RowsAgree
      BY <1>10, <2>1 DEF RowsAgree, Create
    <3>2. clock <= clock' /\ born \subseteq born' /\ UNCHANGED session /\ UNCHANGED recorded
      BY <1>10, <1>0 DEF Create, TypeOK
    <3>3. QED
      BY <3>1, <3>2, <1>0, CooldownOutside
<1>11. ASSUME NEW c \in Clients, UpdateCommit(c) PROVE CooldownInv'
  <2>1. \A b \in Alerts : config'[b] = None \/ config[b] # None
    BY <1>11, <1>0 DEF UpdateCommit, TypeOK
  <2>2. QED
    <3>1. RowsAgree
      BY <1>11, <2>1 DEF RowsAgree, UpdateCommit
    <3>2. clock <= clock' /\ born \subseteq born' /\ UNCHANGED session /\ UNCHANGED recorded
      BY <1>11, <1>0 DEF UpdateCommit, TypeOK
    <3>3. QED
      BY <3>1, <3>2, <1>0, CooldownOutside
<1>12. ASSUME NEW a \in Alerts, Delete(a) PROVE CooldownInv'
  <2>1. \A b \in Alerts \ {a} : config'[b] = config[b] /\ last'[b] = last[b]
    BY <1>12, <1>0 DEF Delete, TypeOK
  <2>2. config'[a] = None
    BY <1>12, <1>0 DEF Delete, TypeOK
  <2>3. QED
    <3>1. RowsAgree
      BY <1>12, <2>1, <2>2 DEF RowsAgree, Delete
    <3>2. clock <= clock' /\ born \subseteq born' /\ UNCHANGED session /\ UNCHANGED recorded
      BY <1>12, <1>0 DEF Delete, TypeOK
    <3>3. QED
      BY <3>1, <3>2, <1>0, CooldownOutside
<1>13. CASE \/ \E m \in orphans : OrphanEnds(m)
            \/ \E u \in Users : SetActive(u)
            \/ \E c \in Clients, a \in Alerts, p \in Patches : UpdateValidate(c, a, p)
            \/ Tick
            \/ UNCHANGED vars
  <2>1. clock <= clock' /\ UNCHANGED session /\ UNCHANGED recorded
    <3>1. clock' \in {clock, clock + 1}
      BY <1>13 DEF OrphanEnds, SetActive, UpdateValidate, Tick
    <3>2. UNCHANGED session /\ UNCHANGED recorded
      BY <1>13 DEF OrphanEnds, SetActive, UpdateValidate, Tick
    <3>3. QED
      BY <3>1, <3>2, <1>0 DEF TypeOK
  <2>2. born' = born /\ config' = config /\ last' = last
    BY <1>13 DEF OrphanEnds, SetActive, UpdateValidate, Tick
  <2>3. RowsAgree
    BY <2>2, <1>0 DEF RowsAgree, TypeOK
  <2>4. QED
    BY <2>1, <2>2, <2>3, <1>0, CooldownOutside
<1>14. QED
  BY <1>6, <1>7, <1>8, <1>9, <1>10, <1>11, <1>12, <1>13 DEF Next, Schedule, Api

\* One evaluator never decides a mail within the cooldown of a recorded one, for
\* any number of alerts, edits, deletions, faults and restarts.
THEOREM CooldownIsHonoured ==
  ASSUME SingleEvaluator
  PROVE  Spec => []CooldownHonoured
<1>1. CooldownInv => CooldownHonoured
  BY DEF CooldownInv, HeldIsLater, CooldownHonoured
<1>2. QED
  BY <1>1, CooldownInit, CooldownStep, PTL DEF Spec
=============================================================================
