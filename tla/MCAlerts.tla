------------------------------ MODULE MCAlerts ------------------------------
(* Small instances of the alert subsystem for TLC.                         *)
EXTENDS AlertsProperties, TLC

CONSTANTS a1, a2, u1

MCOwner == [a \in Alerts |-> u1]

Threshold == [alert_type |-> "cost_threshold", threshold |-> TRUE,
              percentage |-> FALSE, enabled |-> TRUE, cooldown |-> 2]

OneConfig == {Threshold}

\* The disabled one would mail in every cycle if it were not disabled.
OnAndOff == {[Threshold EXCEPT !.cooldown = 1],
             [Threshold EXCEPT !.cooldown = 0, !.enabled = FALSE]}

\* A PATCH that disables, one that turns the alert into a cost increase, and one
\* that sets an amount and a shorter cooldown, which a cost increase must refuse.
EditPatches ==
  {[enabled |-> FALSE],
   [alert_type |-> "cost_increase", threshold |-> FALSE, percentage |-> TRUE,
    enabled |-> TRUE],
   [threshold |-> TRUE, cooldown |-> 1]}

AnyClient == Permutations(Clients)
=============================================================================
