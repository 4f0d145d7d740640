-------------------------- MODULE AlertLedgerProofs --------------------------
(***************************************************************************)
(* One evaluator implements the ledger: to the user, a step of the alert   *)
(* subsystem is a delivery, a record or nothing.                           *)
(***************************************************************************)
EXTENDS AlertRowsProofs

USE ConstantsAssumption, MinCooldownAssumption DEF vars, db, session, history

\* No row, loaded row or pending PATCH has a cooldown below the least offered.
CooldownsBounded ==
  /\ \A a \in Alerts : config[a] # None => config[a].cooldown >= MinCooldown
  /\ \A e \in Evaluators, a \in Alerts :
       seen[e][a] # None => seen[e][a].cooldown >= MinCooldown
  /\ \A c \in Clients : patching[c] # None =>
       Patched(patching[c].set, "cooldown", MinCooldown) >= MinCooldown

\* What is on record was delivered.
RecordsDelivered == \A a \in Alerts : recorded[a] \subseteq delivered[a]

\* A mail whose session is gone is not newer than the one its alert's session
\* holds, and was decided after the cooldown of every older record.
OrphansApart ==
  \A m \in orphans :
    /\ m.at <= clock
    /\ \A e \in Evaluators :
         pc[e] \in {"send", "save"} /\ mail[e].alert = m.alert => m.at <= mail[e].at
    /\ \A r \in recorded[m.alert] : r >= m.at \/ m.at - r >= MinCooldown

LedgerInv ==
  /\ CooldownInv /\ DeliveredInv
  /\ clock <= MaxTime
  /\ CooldownsBounded /\ RecordsDelivered /\ OrphansApart

-----------------------------------------------------------------------------
\* Sessions hold rows as they loaded them.
LEMMA SeenWriters ==
  ASSUME TypeOK, [Next]_vars, NEW e \in Evaluators, NEW a \in Alerts
  PROVE  seen'[e][a] \in {seen[e][a], config[a], None}
<1>1. ASSUME NEW f \in Evaluators, NEW to, Close(f, to)
      PROVE  seen'[e][a] \in {seen[e][a], None}
  BY <1>1 DEF TypeOK, Close, Nothing
<1>2. ASSUME NEW f \in Evaluators, NEW u \in Users, Load(f, u)
      PROVE  seen'[e][a] \in {seen[e][a], config[a], None}
  BY <1>2 DEF TypeOK, Load
<1>3. ASSUME NEW f \in Evaluators, Evaluate(f) \/ Fault(f)
      PROVE  seen'[e][a] \in {seen[e][a], None}
  <2>1. (\E to : Close(f, to)) \/ seen' = seen
    BY <1>3 DEF Evaluate, Fault, SkipAlert, StartSend, Deliver, SendFails, Save, Refresh,
       RowGone, EndCycle, SendFailsLate, DatabaseError, Stop
  <2>2. QED
    BY <1>1, <2>1
<1>4. QED
  BY <1>2, <1>3 DEF Next, Schedule, Api, Evaluators, StartCycle, NextUser, PostEvaluate,
     Restart, OrphanEnds, SetActive, Tick, Create, Delete, UpdateValidate, UpdateCommit

\* A patch that sets no cooldown below a bound leaves none below it.
LEMMA MergeBound ==
  ASSUME NEW c \in Config, NEW p, c.cooldown >= MinCooldown,
         Patched(p, "cooldown", MinCooldown) >= MinCooldown
  PROVE  Merge(c, p).cooldown >= MinCooldown
<1>1. Merge(c, p).cooldown = Patched(p, "cooldown", c.cooldown)
  BY DEF Merge, Config
<1>2. QED
  BY <1>1 DEF Patched

\* Rows come from AlertCreate, changes from AlertUpdate.
LEMMA CooldownsStep ==
  ASSUME TypeOK, CooldownsBounded, [Next]_vars
  PROVE  CooldownsBounded'
<1>1. \A e \in Evaluators, a \in Alerts :
        seen'[e][a] # None => seen'[e][a].cooldown >= MinCooldown
  BY SeenWriters DEF CooldownsBounded
<1>2. ASSUME NEW a \in Alerts, config'[a] # None PROVE config'[a].cooldown >= MinCooldown
  <2>1. CASE config'[a] = config[a]
    BY <1>2, <2>1 DEF CooldownsBounded
  <2>2. CASE config'[a] # config[a]
    <3>1. \A b \in Alerts, k \in NewConfigs : Create(b, k) => config'[a] \in {k, config[a]}
      BY DEF Create, TypeOK
    <3>2. \A b \in Alerts : Delete(b) => config'[a] \in {None, config[a]}
      BY DEF Delete, TypeOK
    <3>3. \A c \in Clients : UpdateCommit(c) =>
            /\ patching[c] # None
            /\ config'[a] = config[a] \/ config'[a] = Merge(config[a], patching[c].set)
      BY DEF UpdateCommit, TypeOK
    <3>4. \A c \in Clients : UpdateCommit(c) => config[a] # None
      BY <2>2 DEF UpdateCommit, TypeOK
    <3>5. CASE \E c \in Clients : UpdateCommit(c)
      BY <2>2, <3>3, <3>4, <3>5, MergeBound DEF CooldownsBounded, TypeOK
    <3>6. QED
      BY <1>2, <2>2, <3>1, <3>2, <3>5, RowWriters DEF UpdateValidate
  <2>3. QED
    BY <2>1, <2>2
<1>3. ASSUME NEW c \in Clients, patching'[c] # None
      PROVE  Patched(patching'[c].set, "cooldown", MinCooldown) >= MinCooldown
  <2>1. CASE patching[c] # None /\ patching'[c].set = patching[c].set
    BY <1>3, <2>1 DEF CooldownsBounded
  <2>2. CASE ~(patching[c] # None /\ patching'[c].set = patching[c].set)
    <3>0. \A d \in Clients : ~UpdateCommit(d)
      BY <1>3, <2>2, CommitPasses
    <3>1. PICK d \in Clients, a \in Alerts, p \in Patches : UpdateValidate(d, a, p)
      BY <1>3, <2>2, <3>0, RowWriters DEF Create, Delete, TypeOK
    <3>2. PICK changed \in ChangedColumns(config[a], p) :
            patching' = [patching EXCEPT ![d] =
                           [alert |-> a, set |-> [f \in changed |-> p[f]],
                            overtaken |-> FALSE]]
      BY <3>1 DEF UpdateValidate
    <3>3. patching'[c].set = [f \in changed |-> p[f]] /\ changed \subseteq DOMAIN p
      BY <1>3, <2>2, <3>2 DEF ChangedColumns, TypeOK
    <3>4. QED
      BY <3>3 DEF Patched
  <2>3. QED
    BY <2>1, <2>2
<1>4. QED
  BY <1>1, <1>2, <1>3 DEF CooldownsBounded

-----------------------------------------------------------------------------
\* What the user, or the record, can see of a step.
LEMMA Outward ==
  ASSUME [Next]_vars
  PROVE  \/ UNCHANGED history
         \/ \E e \in Evaluators :
              pc[e] = "send" /\ Reaches(mail[e]) /\ recorded' = recorded
         \/ \E m \in orphans : Reaches(m) /\ recorded' = recorded
         \/ \E e \in Evaluators : pc[e] = "save" /\ Record(mail[e])
<1>1. ASSUME NEW e \in Evaluators, Evaluate(e) \/ Fault(e)
      PROVE  \/ UNCHANGED history
             \/ pc[e] = "send" /\ Reaches(mail[e]) /\ recorded' = recorded
             \/ pc[e] = "save" /\ Record(mail[e])
  BY <1>1 DEF Evaluate, Fault, SkipAlert, StartSend, Deliver, SendFails, Save, Refresh,
     RowGone, EndCycle, SendFailsLate, DatabaseError, Stop
<1>2. ASSUME NEW m \in orphans, OrphanEnds(m)
      PROVE  (Reaches(m) /\ recorded' = recorded) \/ UNCHANGED history
  BY <1>2 DEF OrphanEnds
<1>3. ASSUME \/ \E s \in Schedulers : Schedule(s) \/ Restart(s)
             \/ \E u \in Users : SetActive(u)
             \/ Api \/ Tick \/ UNCHANGED vars
      PROVE  UNCHANGED history
  BY <1>3 DEF Schedule, Api, StartCycle, NextUser, PostEvaluate, Load, Restart, SetActive,
     Tick, Create, Delete, UpdateValidate, UpdateCommit
<1>4. QED
  BY <1>1, <1>2, <1>3 DEF Next

\* Only delivered mails are recorded.
LEMMA RecordsStep ==
  ASSUME DeliveredInv, RecordsDelivered, [Next]_vars
  PROVE  RecordsDelivered'
<1>1. TypeOK /\ \A a \in Alerts : delivered[a] \subseteq delivered'[a]
  BY DeliveredGrows DEF DeliveredInv
<1>2. CASE recorded' = recorded
  BY <1>1, <1>2 DEF RecordsDelivered
<1>3. ASSUME NEW e \in Evaluators, pc[e] = "save", Record(mail[e])
      PROVE  RecordsDelivered'
  <2>1. mail[e] \in Mail /\ mail[e].at \in delivered[mail[e].alert]
    BY <1>1, <1>3 DEF TypeOK, DeliveredInv, HeldWasDelivered
  <2>2. QED
    BY <1>1, <1>3, <2>1 DEF TypeOK, RecordsDelivered, Record, Mail
<1>4. QED
  BY <1>2, <1>3, Outward

\* A step that abandons no mail, records none and takes up none at the most
\* lets time pass.
LEMMA OrphansQuiet ==
  ASSUME TypeOK, TypeOK', OrphansApart, orphans' \subseteq orphans, recorded' = recorded,
         clock' \in {clock, clock + 1},
         \A e \in Evaluators : pc'[e] \in {"send", "save"} =>
           pc[e] \in {"send", "save"} /\ mail'[e] = mail[e]
  PROVE  OrphansApart'
<1>1. \A m \in orphans : m.at \in Nat
  BY DEF TypeOK, Mail
<1>2. \A m \in orphans : m.at <= clock'
  BY <1>1 DEF OrphansApart, TypeOK
<1>3. QED
  BY <1>2 DEF OrphansApart

\* Abandoned mails stay older than the mail in hand: time only moves forward,
\* and the one evaluator has no mail in hand when it abandons one.
LEMMA OrphansStep ==
  ASSUME SingleEvaluator, LedgerInv, TypeOK', [Next]_vars
  PROVE  OrphansApart'
<1>0. TypeOK /\ OrphansApart /\ \A m \in orphans : m \in Mail /\ m.at \in Nat
  BY DEF LedgerInv, CooldownInv, TypeOK, Mail
<1>1. ASSUME NEW e \in Evaluators,
             \/ Deliver(e) \/ SendFails(e) \/ SendFailsLate(e) \/ Refresh(e) \/ RowGone(e)
             \/ EndCycle(e) \/ \E a \in Alerts : SkipAlert(e, a)
      PROVE  OrphansApart'
  <2>1. orphans' = orphans /\ recorded' = recorded /\ clock' = clock
    BY <1>1 DEF Deliver, SendFails, SendFailsLate, Refresh, RowGone, EndCycle, SkipAlert
  <2>2. \A f \in Evaluators : pc'[f] \in {"send", "save"} =>
          pc[f] \in {"send", "save"} /\ mail'[f] = mail[f]
    BY <1>0, <1>1 DEF TypeOK, Deliver, SendFails, SendFailsLate, Refresh, RowGone, EndCycle,
       SkipAlert, Close
  <2>3. QED
    BY <1>0, <2>1, <2>2, OrphansQuiet
<1>2. ASSUME NEW e \in Evaluators, NEW a \in Alerts, StartSend(e, a) PROVE OrphansApart'
  <2>1. mail'[e] = [alert |-> a, at |-> clock] /\ \A f \in Evaluators : f = e
    BY <1>0, <1>2 DEF TypeOK, StartSend, SingleEvaluator
  <2>2. QED
    BY <1>2, <2>1 DEF LedgerInv, OrphansApart, StartSend
<1>3. ASSUME NEW e \in Evaluators, pc[e] = "save", Record(mail[e]), orphans' = orphans,
             clock' = clock, pc'[e] \notin {"send", "save"}
      PROVE  OrphansApart'
  <2>1. mail[e] \in Mail
    BY <1>0, <1>3 DEF TypeOK
  <2>2. ASSUME NEW m \in orphans, NEW r \in recorded'[m.alert]
        PROVE  r >= m.at \/ m.at - r >= MinCooldown
    <3>1. CASE r \in recorded[m.alert]
      BY <3>1 DEF LedgerInv, OrphansApart
    <3>2. CASE r \notin recorded[m.alert]
      <4>1. r = mail[e].at /\ m.alert = mail[e].alert
        BY <1>0, <1>3, <2>1, <2>2, <3>2 DEF TypeOK, Record, Mail
      <4>2. m.at <= mail[e].at /\ m.at \in Nat /\ mail[e].at \in Nat
        BY <1>0, <1>3, <2>1, <4>1 DEF OrphansApart, Mail
      <4>3. QED
        BY <4>1, <4>2
    <3>3. QED
      BY <3>1, <3>2
  <2>3. QED
    BY <1>0, <1>3, <2>2 DEF OrphansApart, SingleEvaluator
<1>4. ASSUME NEW e \in Evaluators, Save(e) PROVE OrphansApart'
  BY <1>0, <1>3, <1>4 DEF Save, TypeOK
<1>5. ASSUME NEW e \in Evaluators, DatabaseError(e) \/ Stop(e) PROVE OrphansApart'
  <2>1. clock' = clock /\ pc'[e] \in {"idle", "stopped"}
    BY <1>0, <1>5 DEF TypeOK, DatabaseError, Stop, Close
  <2>2. CASE pc[e] = "save" /\ Record(mail[e])
    BY <1>3, <1>5, <2>1, <2>2 DEF DatabaseError, Stop
  <2>3. CASE UNCHANGED history
    <3>1. \A m \in orphans' : m \in orphans \/ (m = mail[e] /\ pc[e] = "send")
      <4>1. \/ orphans' = orphans
            \/ pc[e] = "send" /\ orphans' = orphans \cup {mail[e]}
        BY <1>5 DEF DatabaseError, Stop
      <4>2. QED
        BY <4>1
    <3>2. ASSUME pc[e] = "send"
          PROVE  /\ mail[e].at <= clock
                 /\ \A r \in recorded[mail[e].alert] : mail[e].at - r >= MinCooldown
      <4>1. /\ mail[e] \in Mail /\ seen[e][mail[e].alert] \in Config \cup {None}
            /\ recorded[mail[e].alert] \subseteq Nat
        BY <1>0, <3>2 DEF TypeOK, Mail
      <4>2. /\ mail[e].at <= clock /\ seen[e][mail[e].alert] # None
            /\ \A r \in recorded[mail[e].alert] :
                 mail[e].at - r >= seen[e][mail[e].alert].cooldown
        BY <3>2 DEF LedgerInv, CooldownInv, HeldIsLater
      <4>3. seen[e][mail[e].alert].cooldown \in Nat
            /\ seen[e][mail[e].alert].cooldown >= MinCooldown
        BY <4>1, <4>2 DEF LedgerInv, CooldownsBounded, Config, Mail
      <4>4. QED
        BY <4>1, <4>2, <4>3 DEF Mail
    <3>3. \A f \in Evaluators : pc'[f] \notin {"send", "save"}
      BY <2>1 DEF SingleEvaluator
    <3>4. QED
      BY <2>1, <2>3, <3>1, <3>2, <3>3 DEF LedgerInv, OrphansApart
  <2>4. QED
    BY <1>5, <2>2, <2>3 DEF DatabaseError, Stop
<1>6. ASSUME NEW e \in Evaluators, NEW u \in Users,
             \/ NextUser(e, u) \/ PostEvaluate(e, u) \/ StartCycle(e) \/ Restart(e)
      PROVE  OrphansApart'
  <2>1. orphans' = orphans /\ recorded' = recorded /\ clock' = clock /\ mail' = mail
    BY <1>6 DEF NextUser, PostEvaluate, StartCycle, Restart, Load
  <2>2. \A f \in Evaluators : pc'[f] \in {"send", "save"} => pc[f] \in {"send", "save"}
    BY <1>0, <1>6 DEF TypeOK, NextUser, PostEvaluate, StartCycle, Restart
  <2>3. QED
    BY <1>0, <2>1, <2>2, OrphansQuiet
<1>7. ASSUME NEW s \in Schedulers, StartCycle(s) \/ Restart(s) PROVE OrphansApart'
  <2>1. orphans' = orphans /\ recorded' = recorded /\ clock' = clock /\ mail' = mail
    BY <1>7 DEF StartCycle, Restart
  <2>2. \A f \in Evaluators : pc'[f] \in {"send", "save"} => pc[f] \in {"send", "save"}
    BY <1>0, <1>7 DEF TypeOK, StartCycle, Restart, Evaluators
  <2>3. QED
    BY <1>0, <2>1, <2>2, OrphansQuiet
<1>8. CASE \/ \E m \in orphans : OrphanEnds(m)
           \/ \E u \in Users : SetActive(u)
           \/ \E a \in Alerts : Delete(a) \/ \E c \in NewConfigs : Create(a, c)
           \/ \E c \in Clients, a \in Alerts, p \in Patches : UpdateValidate(c, a, p)
           \/ \E c \in Clients : UpdateCommit(c)
           \/ Tick \/ UNCHANGED vars
  <2>1. orphans' \subseteq orphans /\ recorded' = recorded /\ clock' \in {clock, clock + 1}
    BY <1>8 DEF OrphanEnds, SetActive, Delete, Create, UpdateValidate, UpdateCommit, Tick
  <2>2. pc' = pc /\ mail' = mail
    BY <1>8 DEF OrphanEnds, SetActive, Delete, Create, UpdateValidate, UpdateCommit, Tick
  <2>3. QED
    BY <1>0, <2>1, <2>2, OrphansQuiet
<1>9. QED
  BY <1>1, <1>2, <1>4, <1>5, <1>6, <1>7, <1>8
     DEF Next, Evaluate, Fault, Schedule, Api, Evaluators

\* The clock stops at its bound.
LEMMA ClockStep ==
  ASSUME TypeOK, clock <= MaxTime, [Next]_vars
  PROVE  clock' <= MaxTime
<1>1. CASE Tick
  BY <1>1 DEF Tick, TypeOK
<1>2. CASE ~Tick
  BY <1>2 DEF Next, Evaluate, Fault, Schedule, Api, SkipAlert, StartSend, Deliver, SendFails,
     Save, Refresh, RowGone, EndCycle, SendFailsLate, DatabaseError, Stop, StartCycle,
     NextUser, PostEvaluate, Load, Restart, OrphanEnds, SetActive, Create, Delete,
     UpdateValidate, UpdateCommit
<1>3. QED
  BY <1>1, <1>2

\* The refinement's invariant is inductive when one session evaluates.
LEMMA LedgerStep ==
  ASSUME SingleEvaluator
  PROVE  LedgerInv /\ [Next]_vars => LedgerInv'
<1> SUFFICES ASSUME LedgerInv, [Next]_vars PROVE LedgerInv'
  OBVIOUS
<1>1. TypeOK /\ CooldownInv' /\ DeliveredInv' /\ TypeOK'
  BY CooldownStep, DeliveredStep DEF LedgerInv, DeliveredInv
<1>2. clock' <= MaxTime /\ CooldownsBounded' /\ RecordsDelivered'
  BY <1>1, ClockStep, CooldownsStep, RecordsStep DEF LedgerInv
<1>3. OrphansApart'
  BY <1>1, OrphansStep
<1>4. QED
  BY <1>1, <1>2, <1>3 DEF LedgerInv

-----------------------------------------------------------------------------
\* A mail that arrives from a session or from an abandoned thread was decided
\* outside the cooldown of the older records, or is on record itself.
LEMMA ReachesIsDelivery ==
  ASSUME LedgerInv, NEW m \in Mail, m.at <= clock, Reaches(m), recorded' = recorded,
         \A r \in recorded[m.alert] : r >= m.at \/ m.at - r >= MinCooldown
  PROVE  Ledger!Next \/ UNCHANGED <<delivered, recorded>>
<1>0. TypeOK /\ m.alert \in Alerts /\ m.at \in 0..MaxTime
  BY DEF LedgerInv, CooldownInv, TypeOK, Mail
<1>1. CASE m.at \in recorded[m.alert]
  <2>1. m.at \in delivered[m.alert]
    BY <1>0, <1>1 DEF LedgerInv, RecordsDelivered
  <2>2. delivered' = delivered
    BY <1>0, <2>1 DEF Reaches, TypeOK
  <2>3. QED
    BY <2>2
<1>2. CASE m.at \notin recorded[m.alert]
  <2>1. ASSUME NEW r \in recorded[m.alert] PROVE r > m.at \/ m.at - r >= MinCooldown
    <3>1. r \in Nat /\ m.at \in Nat /\ r # m.at
      BY <1>0, <1>2 DEF TypeOK
    <3>2. r >= m.at \/ m.at - r >= MinCooldown
      OBVIOUS
    <3>3. QED
      BY <3>1, <3>2
  <2>2. Ledger!Deliver(m.alert, m.at)
    BY <2>1 DEF Ledger!Deliver, Reaches
  <2>3. QED
    BY <1>0, <2>2 DEF Ledger!Next
<1>3. QED
  BY <1>1, <1>2

\* A mail in a session's hands is past the least cooldown of every record.
LEMMA HeldPastCooldown ==
  ASSUME LedgerInv, NEW e \in Evaluators, pc[e] \in {"send", "save"}
  PROVE  /\ mail[e] \in Mail /\ mail[e].at <= clock
         /\ \A r \in recorded[mail[e].alert] : mail[e].at - r >= MinCooldown
<1>1. TypeOK /\ mail[e] \in Mail /\ mail[e].at <= clock
  BY DEF LedgerInv, CooldownInv, HeldIsLater, TypeOK
<1>2. seen[e][mail[e].alert] \in Config /\ recorded[mail[e].alert] \subseteq Nat
  BY <1>1 DEF LedgerInv, CooldownInv, HeldIsLater, TypeOK, Mail
<1>3. seen[e][mail[e].alert].cooldown \in Nat
      /\ seen[e][mail[e].alert].cooldown >= MinCooldown
  BY <1>1, <1>2 DEF LedgerInv, CooldownsBounded, Config, Mail
<1>4. \A r \in recorded[mail[e].alert] :
        mail[e].at - r >= seen[e][mail[e].alert].cooldown
  BY DEF LedgerInv, CooldownInv, HeldIsLater
<1>5. QED
  BY <1>1, <1>2, <1>3, <1>4 DEF Mail

\* Every step is a delivery, a record or nothing to the ledger.
LEMMA StepIsLedgerStep ==
  ASSUME LedgerInv, [Next]_vars
  PROVE  [Ledger!Next]_<<delivered, recorded>>
<1>1. CASE UNCHANGED history
  BY <1>1
<1>2. ASSUME NEW e \in Evaluators, pc[e] = "send", Reaches(mail[e]), recorded' = recorded
      PROVE  [Ledger!Next]_<<delivered, recorded>>
  BY <1>2, HeldPastCooldown, ReachesIsDelivery
<1>3. ASSUME NEW m \in orphans, Reaches(m), recorded' = recorded
      PROVE  [Ledger!Next]_<<delivered, recorded>>
  <2>1. /\ m \in Mail /\ m.at <= clock
        /\ \A r \in recorded[m.alert] : r >= m.at \/ m.at - r >= MinCooldown
    BY DEF LedgerInv, OrphansApart, CooldownInv, TypeOK
  <2>2. QED
    BY <1>3, <2>1, ReachesIsDelivery
<1>4. ASSUME NEW e \in Evaluators, pc[e] = "save", Record(mail[e])
      PROVE  Ledger!Next
  <2>1. /\ mail[e] \in Mail /\ mail[e].at <= clock
        /\ \A r \in recorded[mail[e].alert] : mail[e].at - r >= MinCooldown
    BY <1>4, HeldPastCooldown
  <2>2. mail[e].alert \in Alerts /\ mail[e].at \in 0..MaxTime
    BY <2>1 DEF Mail, LedgerInv, CooldownInv, TypeOK
  <2>3. mail[e].at \in delivered[mail[e].alert]
    BY <1>4 DEF LedgerInv, DeliveredInv, HeldWasDelivered
  <2>4. Ledger!Record(mail[e].alert, mail[e].at)
    BY <1>4, <2>1, <2>3 DEF Ledger!Record, Record
  <2>5. QED
    BY <2>2, <2>4 DEF Ledger!Next
<1>5. QED
  BY <1>1, <1>2, <1>3, <1>4, Outward

\* For any alerts, clients, faults and bounds, one evaluator (a scheduler or the
\* one evaluation request) implements the ledger it promises the user.
THEOREM OneEvaluatorImplementsTheLedger ==
  ASSUME SingleEvaluator
  PROVE  Spec => LedgerSpec
<1>1. Init => LedgerInv
  <2> SUFFICES ASSUME Init PROVE LedgerInv
    OBVIOUS
  <2>1. DeliveredInv /\ CooldownInv
    BY InitType, CooldownInit
       DEF Init, DeliveredInv, RecordedWasDelivered, HeldWasDelivered, Nothing
  <2>2. CooldownsBounded /\ RecordsDelivered /\ OrphansApart /\ clock <= MaxTime
    BY DEF Init, CooldownsBounded, RecordsDelivered, OrphansApart, Nothing
  <2>3. QED
    BY <2>1, <2>2 DEF LedgerInv
<1>2. Init => Ledger!Init
  BY DEF Init, Ledger!Init
<1>3. QED
  BY <1>1, <1>2, LedgerStep, StepIsLedgerStep, PTL DEF Spec, LedgerSpec, Ledger!Spec
=============================================================================
