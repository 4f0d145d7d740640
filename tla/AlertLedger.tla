---------------------------- MODULE AlertLedger ----------------------------
(***************************************************************************)
(* What alert notification promises the user, with no sessions, rows or    *)
(* commits: mails carry the time they were decided at; some of them are on *)
(* record; a mail goes on record only after it was delivered, records only *)
(* move forward, and no mail is decided within the cooldown of a record.   *)
(* A delivered mail may stay off the record for ever (at-least-once).      *)
(***************************************************************************)
EXTENDS Integers

CONSTANTS
  Alerts,
  Times,       \* stamps a mail may carry, natural numbers
  MinCooldown  \* the smallest cooldown any alert is configured with

VARIABLES
  delivered,  \* delivered[a]: stamps of the mails that reached the user
  recorded    \* recorded[a]: stamps on record

Init ==
  /\ delivered = [a \in Alerts |-> {}]
  /\ recorded = [a \in Alerts |-> {}]

\* A mail decided at t arrives. It may arrive so late that a newer mail is on
\* record already.
Deliver(a, t) ==
  /\ \A r \in recorded[a] : r > t \/ t - r >= MinCooldown
  /\ delivered' = [delivered EXCEPT ![a] = @ \cup {t}]
  /\ UNCHANGED recorded

Record(a, t) ==
  /\ t \in delivered[a]
  /\ \A r \in recorded[a] : t - r >= MinCooldown
  /\ recorded' = [recorded EXCEPT ![a] = @ \cup {t}]
  /\ UNCHANGED delivered

Next == \E a \in Alerts, t \in Times : Deliver(a, t) \/ Record(a, t)

Spec == Init /\ [][Next]_<<delivered, recorded>>
=============================================================================
