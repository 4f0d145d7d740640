------------------------------- MODULE Alerts -------------------------------
(***************************************************************************)
(* Cost alerts: the `alerts` table, the sessions that evaluate it (the     *)
(* periodic scheduler and POST /alerts/evaluate), the HTTP requests that   *)
(* edit it, and the SMTP deliveries they cause.                            *)
(*                                                                         *)
(* An action is what one coroutine does between two awaits whose order     *)
(* another session can observe: reading the table, deciding about one      *)
(* alert, the mail leaving (or not) in the worker thread, the commit.      *)
(*                                                                         *)
(* Abstractions: a threshold or a percentage is present or null; which     *)
(* cost data a provider returns is a nondeterministic outcome; a mail is   *)
(* its alert and the `now` it was decided at; the order in which a session *)
(* walks its users and their alerts is left open.                          *)
(***************************************************************************)
EXTENDS Integers, FiniteSets

CONSTANTS
  Alerts,      \* primary keys that may be inserted
  Users,
  Owner,       \* Owner[a]: the user that creates alert a
  Schedulers,  \* run_alert_scheduler tasks, one per process
  Endpoints,   \* concurrent POST /alerts/evaluate requests
  Clients,     \* concurrent PATCH requests
  NewConfigs,  \* AlertCreate payloads offered
  Patches,     \* AlertUpdate payloads offered: functions from set columns
  MaxTime,     \* bound on the clock
  MaxFaults,   \* bound on injected faults and stops
  None

Evaluators == Schedulers \cup Endpoints

AlertTypes ==
  {"cost_threshold", "cost_increase", "anomaly", "forecast_threshold"}

\* The columns a client sets; threshold and percentage: is it non-null?
Config == [alert_type : AlertTypes, threshold : BOOLEAN, percentage : BOOLEAN,
           enabled : BOOLEAN, cooldown : Nat]

\* AlertCreate.validate_condition
ValidCondition(c) ==
  /\ c.threshold <=> c.alert_type \in {"cost_threshold", "forecast_threshold"}
  /\ c.percentage <=> c.alert_type = "cost_increase"

\* The columns of c that patch p sets, overwritten.
Patched(p, column, old) == IF column \in DOMAIN p THEN p[column] ELSE old

\* AlertUpdate's field types.
WellTyped(p) ==
  /\ Patched(p, "alert_type", "anomaly") \in AlertTypes
  /\ Patched(p, "threshold", TRUE) \in BOOLEAN
  /\ Patched(p, "percentage", TRUE) \in BOOLEAN
  /\ Patched(p, "enabled", TRUE) \in BOOLEAN
  /\ Patched(p, "cooldown", 0) \in Nat

Merge(c, p) ==
  [c EXCEPT !.alert_type = Patched(p, "alert_type", @),
            !.threshold  = Patched(p, "threshold", @),
            !.percentage = Patched(p, "percentage", @),
            !.enabled    = Patched(p, "enabled", @),
            !.cooldown   = Patched(p, "cooldown", @)]

\* An e-mail about one alert, decided at a time.
Mail == [alert : Alerts, at : Nat]

ASSUME ConstantsAssumption ==
  /\ Owner \in [Alerts -> Users]
  /\ NewConfigs \subseteq Config
  /\ \A p \in Patches : WellTyped(p)
  /\ MaxTime \in Nat /\ MaxFaults \in Nat
  /\ None \notin Config /\ None \notin Nat /\ None \notin Mail

VARIABLES
  clock,
  active,      \* users.is_active
  born,        \* primary keys ever inserted
  config,      \* alerts table: client columns, None when there is no row
  last,        \* alerts table: last_triggered_at
  pc,          \* where an evaluation session stands
  users,       \* users its cycle has not reached yet
  todo,        \* loaded alerts it has not evaluated yet
  seen,        \* the client columns it loaded
  seenLast,    \* the last_triggered_at it loaded
  mail,        \* the mail it is sending or has sent and not recorded
  patching,    \* what a PATCH has validated and not committed; did another one on
               \* the row commit since (for the properties)?
  orphans,     \* mails in a worker thread whose coroutine is gone
  delivered,   \* history: stamps of the mails that reached the user
  recorded,    \* history: stamps last_triggered_at has held
  faults       \* how many faults have been injected

db == <<born, config, last>>
session == <<pc, users, todo, seen, seenLast, mail>>
history == <<delivered, recorded>>
vars == <<clock, active, db, session, patching, orphans, history, faults>>

Nothing == [a \in Alerts |-> None]
Rows(u) == {a \in Alerts : config[a] # None /\ Owner[a] = u}

Init ==
  /\ clock = 0
  /\ active = [u \in Users |-> TRUE]
  /\ born = {}
  /\ config = Nothing
  /\ last = Nothing
  /\ pc = [e \in Evaluators |-> "idle"]
  /\ users = [e \in Evaluators |-> {}]
  /\ todo = [e \in Evaluators |-> {}]
  /\ seen = [e \in Evaluators |-> Nothing]
  /\ seenLast = [e \in Evaluators |-> Nothing]
  /\ mail = [e \in Evaluators |-> None]
  /\ patching = [c \in Clients |-> None]
  /\ orphans = {}
  /\ delivered = [a \in Alerts |-> {}]
  /\ recorded = [a \in Alerts |-> {}]
  /\ faults = 0

-----------------------------------------------------------------------------
(* Evaluation sessions                                                     *)

\* run_alert_scheduler: a cycle opens a session and selects the active users.
StartCycle(s) ==
  /\ pc[s] = "idle"
  /\ pc' = [pc EXCEPT ![s] = "loop"]
  /\ users' = [users EXCEPT ![s] = {u \in Users : active[u]}]
  /\ UNCHANGED <<clock, active, db, todo, seen, seenLast, mail, patching,
                 orphans, history, faults>>

\* AlertRepository.list_for_user: session e loads the rows of user u.
Load(e, u) ==
  /\ todo' = [todo EXCEPT ![e] = Rows(u)]
  /\ seen' = [seen EXCEPT ![e] = [a \in Alerts |-> IF a \in Rows(u)
                                                   THEN config[a] ELSE None]]
  /\ seenLast' = [seenLast EXCEPT ![e] = [a \in Alerts |-> IF a \in Rows(u)
                                                           THEN last[a] ELSE None]]
  /\ UNCHANGED <<clock, active, db, mail, patching, orphans, history, faults>>

\* The scheduler moves on to its next user.
NextUser(s, u) ==
  /\ pc[s] = "loop" /\ todo[s] = {}
  /\ u \in users[s]
  /\ users' = [users EXCEPT ![s] = @ \ {u}]
  /\ Load(s, u)
  /\ UNCHANGED pc

\* POST /alerts/evaluate: an active user's request loads his alerts.
PostEvaluate(h, u) ==
  /\ pc[h] = "idle" /\ active[u]
  /\ pc' = [pc EXCEPT ![h] = "loop"]
  /\ Load(h, u)
  /\ UNCHANGED users

\* The session closes: whatever it had loaded is gone.
Close(e, to) ==
  /\ pc' = [pc EXCEPT ![e] = to]
  /\ users' = [users EXCEPT ![e] = {}]
  /\ todo' = [todo EXCEPT ![e] = {}]
  /\ seen' = [seen EXCEPT ![e] = Nothing]
  /\ seenLast' = [seenLast EXCEPT ![e] = Nothing]
  /\ mail' = [mail EXCEPT ![e] = None]

\* The cycle, or the request, is through: results are returned, the scheduler
\* waits for its interval.
EndCycle(e) ==
  /\ pc[e] = "loop" /\ todo[e] = {} /\ users[e] = {}
  /\ Close(e, "idle")
  /\ UNCHANGED <<clock, active, db, patching, orphans, history, faults>>

\* Can _condition answer "triggered"? A threshold or percentage that is null
\* raises TypeError instead, which evaluates to invalid_configuration.
Runnable(c) ==
  \/ c.alert_type = "anomaly"
  \/ c.alert_type = "cost_increase" /\ c.percentage
  \/ c.alert_type \in {"cost_threshold", "forecast_threshold"} /\ c.threshold

\* Mutant: the cooldown ends one unit early.
CoolingDownShort(c, lastSeen) ==
  lastSeen # None /\ clock - lastSeen < c.cooldown - 1

\* The cooldown test of _evaluate_one; `now` is read after the condition.
CoolingDown(c, lastSeen) ==
  lastSeen # None /\ clock - lastSeen < c.cooldown

\* _evaluate_one returns without sending: disabled, invalid_configuration,
\* evaluation_failed, not_triggered or cooldown. Provider data and errors can
\* bring this about for every alert, so only StartSend has a guard on its row.
SkipAlert(e, a) ==
  /\ pc[e] = "loop" /\ a \in todo[e]
  /\ todo' = [todo EXCEPT ![e] = @ \ {a}]
  /\ UNCHANGED <<clock, active, db, pc, users, seen, seenLast, mail, patching,
                 orphans, history, faults>>

\* Mutant: the enabled flag is not looked at.
StartSendDisabled(e, a) ==
  /\ pc[e] = "loop" /\ a \in todo[e]
  /\ Runnable(seen[e][a])
  /\ ~CoolingDown(seen[e][a], seenLast[e][a])
  /\ pc' = [pc EXCEPT ![e] = "send"]
  /\ todo' = [todo EXCEPT ![e] = @ \ {a}]
  /\ mail' = [mail EXCEPT ![e] = [alert |-> a, at |-> clock]]
  /\ UNCHANGED <<clock, active, db, users, seen, seenLast, patching, orphans,
                 history, faults>>

\* Mutant: the trigger is recorded when it is decided, before the delivery.
StartSendRecorded(e, a) ==
  /\ pc[e] = "loop" /\ a \in todo[e]
  /\ seen[e][a].enabled
  /\ Runnable(seen[e][a])
  /\ ~CoolingDown(seen[e][a], seenLast[e][a])
  /\ pc' = [pc EXCEPT ![e] = "send"]
  /\ todo' = [todo EXCEPT ![e] = @ \ {a}]
  /\ mail' = [mail EXCEPT ![e] = [alert |-> a, at |-> clock]]
  /\ last' = [last EXCEPT ![a] = clock]
  /\ recorded' = [recorded EXCEPT ![a] = @ \cup {clock}]
  /\ UNCHANGED <<clock, active, born, config, users, seen, seenLast, patching,
                 orphans, delivered, faults>>

\* _evaluate_one reaches notifier.send: the worker thread has the mail.
StartSend(e, a) ==
  /\ pc[e] = "loop" /\ a \in todo[e]
  /\ seen[e][a].enabled
  /\ Runnable(seen[e][a])
  /\ ~CoolingDown(seen[e][a], seenLast[e][a])
  /\ pc' = [pc EXCEPT ![e] = "send"]
  /\ todo' = [todo EXCEPT ![e] = @ \ {a}]
  /\ mail' = [mail EXCEPT ![e] = [alert |-> a, at |-> clock]]
  /\ UNCHANGED <<clock, active, db, users, seen, seenLast, patching, orphans,
                 history, faults>>

Reaches(m) == delivered' = [delivered EXCEPT ![m.alert] = @ \cup {m.at}]

\* The SMTP server accepts the mail and send() returns.
Deliver(e) ==
  /\ pc[e] = "send"
  /\ Reaches(mail[e])
  /\ pc' = [pc EXCEPT ![e] = "save"]
  /\ UNCHANGED <<clock, active, db, users, todo, seen, seenLast, mail, patching,
                 orphans, recorded, faults>>

\* Mutant: the NotificationError is swallowed and the trigger saved.
SendFailsSaved(e) ==
  /\ pc[e] = "send"
  /\ pc' = [pc EXCEPT ![e] = "save"]
  /\ UNCHANGED <<clock, active, db, users, todo, seen, seenLast, mail, patching,
                 orphans, history, faults>>

\* Mutant: the error path leaves the mail with the session.
SendFailsKept(e) ==
  /\ pc[e] = "send"
  /\ pc' = [pc EXCEPT ![e] = "loop"]
  /\ UNCHANGED <<clock, active, db, users, todo, seen, seenLast, mail, patching,
                 orphans, history, faults>>

\* NotificationError: mail is not configured or not accepted; nothing is saved.
SendFails(e) ==
  /\ pc[e] = "send"
  /\ pc' = [pc EXCEPT ![e] = "loop"]
  /\ mail' = [mail EXCEPT ![e] = None]
  /\ UNCHANGED <<clock, active, db, users, todo, seen, seenLast, patching,
                 orphans, history, faults>>

\* NotificationError after the server took the mail (the connection breaks, or
\* QUIT is refused, once DATA is accepted).
SendFailsLate(e) ==
  /\ pc[e] = "send"
  /\ faults < MaxFaults
  /\ faults' = faults + 1
  /\ Reaches(mail[e])
  /\ pc' = [pc EXCEPT ![e] = "loop"]
  /\ mail' = [mail EXCEPT ![e] = None]
  /\ UNCHANGED <<clock, active, db, users, todo, seen, seenLast, patching,
                 orphans, recorded>>

\* UPDATE alerts SET last_triggered_at: only the changed column is written.
Record(m) ==
  /\ config[m.alert] # None
  /\ last' = [last EXCEPT ![m.alert] = m.at]
  /\ recorded' = [recorded EXCEPT ![m.alert] = @ \cup {m.at}]
  /\ UNCHANGED <<born, config, delivered>>

\* Mutant: the commit is forgotten.
SaveUncommitted(e) ==
  /\ pc[e] = "save"
  /\ pc' = [pc EXCEPT ![e] = "refresh"]
  /\ UNCHANGED <<clock, active, db, users, todo, seen, seenLast, mail, patching,
                 orphans, history, faults>>

\* Mutant: the UPDATE writes every column of the loaded object.
SaveWholeRow(e) ==
  /\ pc[e] = "save"
  /\ LET a == mail[e].alert
     IN  /\ config[a] # None
         /\ config' = [config EXCEPT ![a] = seen[e][a]]
         /\ last' = [last EXCEPT ![a] = mail[e].at]
         /\ recorded' = [recorded EXCEPT ![a] = @ \cup {mail[e].at}]
  /\ pc' = [pc EXCEPT ![e] = "refresh"]
  /\ UNCHANGED <<clock, active, born, users, todo, seen, seenLast, mail, patching,
                 orphans, delivered, faults>>

\* alert.last_triggered_at = now; repo.save commits ...
Save(e) ==
  /\ pc[e] = "save"
  /\ Record(mail[e])
  /\ pc' = [pc EXCEPT ![e] = "refresh"]
  /\ UNCHANGED <<clock, active, users, todo, seen, seenLast, mail, patching,
                 orphans, faults>>

\* ... and refreshes the row; evaluate goes on with the next alert.
Refresh(e) ==
  /\ pc[e] = "refresh" /\ config[mail[e].alert] # None
  /\ pc' = [pc EXCEPT ![e] = "loop"]
  /\ mail' = [mail EXCEPT ![e] = None]
  /\ UNCHANGED <<clock, active, db, users, todo, seen, seenLast, patching,
                 orphans, history, faults>>

\* The row was deleted meanwhile: the UPDATE matches nothing (StaleDataError),
\* or the refresh finds nothing (InvalidRequestError); the exception leaves
\* evaluate() and ends the whole cycle or request.
RowGone(e) ==
  /\ pc[e] \in {"save", "refresh"} /\ config[mail[e].alert] = None
  /\ Close(e, "idle")
  /\ UNCHANGED <<clock, active, db, patching, orphans, history, faults>>

\* Mutant: run_alert_scheduler does not catch the exception; its task is dead.
DatabaseErrorFatal(e) ==
  /\ \/ pc[e] = "loop" /\ todo[e] = {} /\ users[e] # {}
     \/ pc[e] \in {"save", "refresh"}
  /\ faults < MaxFaults
  /\ faults' = faults + 1
  /\ Close(e, "dead")
  /\ UNCHANGED <<clock, active, db, history, patching, orphans>>

\* A database error in list_for_user or in save (then the commit may or may not
\* have been applied) ends the cycle or the request as well.
DatabaseError(e) ==
  /\ \/ pc[e] = "loop" /\ todo[e] = {} /\ users[e] # {}
     \/ pc[e] \in {"save", "refresh"}
  /\ faults < MaxFaults
  /\ faults' = faults + 1
  /\ Close(e, "idle")
  /\ \/ UNCHANGED <<db, history>>
     \/ pc[e] = "save" /\ Record(mail[e])
  /\ UNCHANGED <<clock, active, patching, orphans>>

\* lifespan shutdown cancels the scheduler task; a crash ends any session. The
\* to_thread worker is not cancelled: its mail is still on the way. A commit
\* under way may or may not be applied.
Stop(e) ==
  /\ pc[e] # "stopped"
  /\ e \in Endpoints => pc[e] # "idle"
  /\ faults < MaxFaults
  /\ faults' = faults + 1
  /\ Close(e, IF e \in Schedulers THEN "stopped" ELSE "idle")
  /\ orphans' = IF pc[e] = "send" THEN orphans \cup {mail[e]} ELSE orphans
  /\ \/ UNCHANGED <<db, history>>
     \/ pc[e] = "save" /\ Record(mail[e])
  /\ UNCHANGED <<clock, active, patching>>

\* The process is started again.
Restart(s) ==
  /\ pc[s] = "stopped"
  /\ pc' = [pc EXCEPT ![s] = "idle"]
  /\ UNCHANGED <<clock, active, db, users, todo, seen, seenLast, mail, patching,
                 orphans, history, faults>>

\* The abandoned worker thread finishes, with or without success.
OrphanEnds(m) ==
  /\ m \in orphans
  /\ orphans' = orphans \ {m}
  /\ Reaches(m) \/ UNCHANGED delivered
  /\ UNCHANGED <<clock, active, db, session, patching, recorded, faults>>

-----------------------------------------------------------------------------
(* The alerts API and the environment                                      *)

\* POST /alerts: AlertCreate validates, the row is inserted.
Create(a, c) ==
  /\ a \notin born /\ active[Owner[a]]
  /\ ValidCondition(c)
  /\ born' = born \cup {a}
  /\ config' = [config EXCEPT ![a] = c]
  /\ UNCHANGED <<clock, active, last, session, patching, orphans, history, faults>>

\* Mutant: the payload is taken as it is, the merged row is not validated.
UpdateUnvalidated(c, a, p) ==
  /\ patching[c] = None
  /\ config[a] # None /\ active[Owner[a]]
  /\ patching' = [patching EXCEPT ![c] =
                    [alert |-> a, set |-> p, overtaken |-> FALSE]]
  /\ UNCHANGED <<clock, active, db, session, orphans, history, faults>>

\* The columns an UPDATE names when p is applied to row c: those whose value
\* changes. One amount may replace another, which the Booleans do not show.
ChangedColumns(c, p) ==
  LET differs == {f \in DOMAIN p : Merge(c, p)[f] # c[f]}
      amounts == {f \in DOMAIN p \cap {"threshold", "percentage"} : p[f]}
  IN  {differs \cup same : same \in SUBSET amounts}

\* PATCH /alerts/{id}, first half: the row is read and the merged row validated.
UpdateValidate(c, a, p) ==
  /\ patching[c] = None
  /\ config[a] # None /\ active[Owner[a]]
  /\ ValidCondition(Merge(config[a], p))
  /\ \E changed \in ChangedColumns(config[a], p) :
       patching' = [patching EXCEPT ![c] =
                      [alert |-> a, set |-> [f \in changed |-> p[f]],
                       overtaken |-> FALSE]]
  /\ UNCHANGED <<clock, active, db, session, orphans, history, faults>>

\* Another request on row a commits.
Passed(request, a) ==
  IF request # None /\ request.alert = a
  THEN [alert |-> a, set |-> request.set, overtaken |-> TRUE] ELSE request

\* PATCH, second half: the changed columns are committed; a row that is gone
\* by then raises StaleDataError and nothing is written.
UpdateCommit(c) ==
  /\ patching[c] # None
  /\ LET a == patching[c].alert
     IN  /\ config' = IF config[a] = None THEN config
                      ELSE [config EXCEPT ![a] = Merge(@, patching[c].set)]
         /\ patching' = [d \in Clients |-> IF d = c THEN None ELSE Passed(patching[d], a)]
  /\ UNCHANGED <<clock, active, born, last, session, orphans, history, faults>>

\* DELETE /alerts/{id}
Delete(a) ==
  /\ config[a] # None /\ active[Owner[a]]
  /\ config' = [config EXCEPT ![a] = None]
  /\ last' = [last EXCEPT ![a] = None]
  /\ UNCHANGED <<clock, active, born, session, patching, orphans, history, faults>>

\* An administrator deactivates or reactivates a user.
SetActive(u) ==
  /\ active' = [active EXCEPT ![u] = ~@]
  /\ UNCHANGED <<clock, db, session, patching, orphans, history, faults>>

Tick ==
  /\ clock < MaxTime
  /\ clock' = clock + 1
  /\ UNCHANGED <<active, db, session, patching, orphans, history, faults>>

-----------------------------------------------------------------------------
Evaluate(e) ==
  \/ \E a \in Alerts : SkipAlert(e, a) \/ StartSend(e, a)
  \/ Deliver(e) \/ SendFails(e) \/ Save(e) \/ Refresh(e) \/ RowGone(e)
  \/ EndCycle(e)

Schedule(s) ==
  \/ StartCycle(s)
  \/ \E u \in Users : NextUser(s, u)

Fault(e) == SendFailsLate(e) \/ DatabaseError(e) \/ Stop(e)

Api ==
  \/ \E a \in Alerts : Delete(a) \/ \E c \in NewConfigs : Create(a, c)
  \/ \E c \in Clients, a \in Alerts, p \in Patches : UpdateValidate(c, a, p)
  \/ \E c \in Clients : UpdateCommit(c)
  \/ \E h \in Endpoints, u \in Users : PostEvaluate(h, u)

Next ==
  \/ \E e \in Evaluators : Evaluate(e) \/ Fault(e)
  \/ \E s \in Schedulers : Schedule(s) \/ Restart(s)
  \/ \E m \in orphans : OrphanEnds(m)
  \/ \E u \in Users : SetActive(u)
  \/ Api
  \/ Tick

Spec == Init /\ [][Next]_vars

(* Every await of an evaluation returns (the SMTP socket has a timeout), the *)
(* scheduler loops without end and a stopped process is restarted.           *)
Progress ==
  /\ \A e \in Evaluators : WF_vars(Evaluate(e))
  /\ \A s \in Schedulers : WF_vars(Schedule(s)) /\ WF_vars(Restart(s))

(* The world an alert needs to be of use: its cost condition keeps being met *)
(* and the SMTP server does not refuse for ever.                             *)
Favourable ==
  \A s \in Schedulers :
    /\ \A a \in Alerts : SF_vars(StartSend(s, a))
    /\ SF_vars(Deliver(s))

FairSpec == Spec /\ Progress /\ Favourable
=============================================================================
