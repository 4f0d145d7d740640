-------------------------- MODULE AlertsProperties --------------------------
(***************************************************************************)
(* What the alert subsystem must guarantee, stated over module Alerts.     *)
(***************************************************************************)
EXTENDS Alerts

CONSTANT MinCooldown  \* a lower bound of the cooldowns offered

\* Zero always is one: AlertCreate and AlertUpdate accept no negative cooldown.
ASSUME MinCooldownAssumption ==
  /\ MinCooldown \in Nat
  /\ \A c \in NewConfigs : c.cooldown >= MinCooldown
  /\ \A p \in Patches : Patched(p, "cooldown", MinCooldown) >= MinCooldown

Sends(e, a) == pc[e] = "send" /\ mail[e].alert = a

\* Every variable holds a value of its kind, and a session holds a mail exactly
\* from notifier.send to the end of repo.save.
TypeOK ==
  /\ clock \in Nat
  /\ active \in [Users -> BOOLEAN]
  /\ born \subseteq Alerts
  /\ config \in [Alerts -> Config \cup {None}]
  /\ last \in [Alerts -> Nat \cup {None}]
  /\ pc \in [Evaluators -> {"idle", "loop", "send", "save", "refresh", "stopped"}]
  /\ users \in [Evaluators -> SUBSET Users]
  /\ todo \in [Evaluators -> SUBSET Alerts]
  /\ seen \in [Evaluators -> [Alerts -> Config \cup {None}]]
  /\ seenLast \in [Evaluators -> [Alerts -> Nat \cup {None}]]
  /\ mail \in [Evaluators -> Mail \cup {None}]
  /\ \A e \in Evaluators : pc[e] \in {"send", "save", "refresh"} <=> mail[e] # None
  /\ DOMAIN patching = Clients
  /\ \A c \in Clients : patching[c] # None =>
       
       /\ patching[c].alert \in Alerts /\ WellTyped(patching[c].set)
       /\ patching[c].overtaken \in BOOLEAN
  /\ orphans \subseteq Mail
  /\ delivered \in [Alerts -> SUBSET Nat]
  /\ recorded \in [Alerts -> SUBSET Nat]
  /\ faults \in Nat

\* last_triggered_at is never the time of a mail the user did not get: a failed,
\* cancelled or crashed delivery does not suppress the retry (_evaluate_one
\* saves only after notifier.send returned).
RecordedWasDelivered ==
  \A a \in Alerts : last[a] # None => last[a] \in delivered[a]

\* With one evaluator, whatever faults, restarts and edits happen, a mail is
\* sent only when the cooldown the session loaded has passed since every time
\* that was ever recorded for the alert: neither a stale last_triggered_at nor
\* an older time written over a newer one can shorten it.
CooldownHonoured ==
  \A e \in Evaluators : pc[e] = "send" =>
    \A r \in recorded[mail[e].alert] :
      mail[e].at - r >= seen[e][mail[e].alert].cooldown

\* Mails about existing alerts that reached the user, are not on record and
\* that no session is about to record.
Unrecorded ==
  (UNION {{[alert |-> a, at |-> t] : t \in delivered[a] \ recorded[a]} :
          a \in {b \in Alerts : config[b] # None}})
  \ {mail[e] : e \in {f \in Evaluators : pc[f] = "save"}}

\* A duplicate needs an accident: the mails the table does not know of are at
\* most as many as the faults (a broken SMTP reply, a failed commit, a shutdown
\* or crash between delivery and commit). No schedule of sessions and requests
\* alone leaves a mail of an existing alert unrecorded.
UnrecordedMailNeedsFault == Cardinality(Unrecorded \cup orphans) <= faults

\* A PATCH is validated against the row it read and commits the changed columns
\* alone. A stored alert turns into one that AlertCreate would refuse only by the
\* commit of a PATCH that another PATCH on this row overtook between its read and
\* its commit: evaluations, faults, deletions and insertions in between spoil no
\* row, nor do any number of PATCH requests one after the other.
OnlyOvertakenPatchSpoils ==
  [][\A a \in Alerts :
       config'[a] \notin {None, config[a]} /\ ~ValidCondition(config'[a]) =>
         \E c \in Clients :
           /\ patching[c] # None /\ patching'[c] = None /\ patching[c].alert = a
           /\ patching[c].overtaken]_vars

\* No session's write reverts a committed PATCH: a column of a stored alert
\* changes only by the commit of a PATCH that set this column, to its value.
NoLostPatch ==
  [][\A a \in Alerts :
       config[a] # None /\ config'[a] \notin {None, config[a]} =>
         \E c \in Clients :
           /\ patching[c] # None /\ patching'[c] = None /\ patching[c].alert = a
           /\ \A f \in DOMAIN config[a] : config'[a][f] # config[a][f] =>
                 /\ f \in DOMAIN patching[c].set
                 /\ config'[a][f] = patching[c].set[f]]_vars

\* An alert that stays disabled, deleted or owned by an inactive user stops
\* causing mails: a cycle that loaded it earlier ends.
DisabledAlertFallsSilent ==
  \A a \in Alerts :
    <>[](config[a] = None \/ ~config[a].enabled \/ ~active[Owner[a]])
      => <>[](\A e \in Evaluators : ~Sends(e, a))

\* An alert that stays enabled and well-formed, and whose user stays active, is
\* mailed and recorded whenever its cooldown is over, although sends fail,
\* cycles abort and processes stop: in the end (the clock is bounded) it is
\* always within the cooldown of its last record.
DueAlertIsMailed ==
  \A a \in Alerts :
    <>[](config[a] # None /\ config[a].enabled /\ Runnable(config[a])
         /\ active[Owner[a]])
      => <>[](config[a] # None /\ CoolingDown(config[a], last[a]))

\* The promise of AlertLedger, by the history variables: one evaluator, its
\* faults and restarts and all edits are for the user no more than mails that
\* arrive and, later, go on record, no two records closer than a cooldown.
Ledger == INSTANCE AlertLedger WITH Times <- 0..MaxTime
LedgerSpec == Ledger!Spec
=============================================================================
