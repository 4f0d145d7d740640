----------------------------- MODULE MCDashboard -----------------------------
(* Instances of Dashboard for TLC. *)
EXTENDS DashboardProperties, TLC

\* Requests are interchangeable.
Symmetry == Permutations(Requests)
=============================================================================
