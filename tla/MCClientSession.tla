--------------------------- MODULE MCClientSession ---------------------------
(* Instances of ClientSession for TLC; accounts and tabs are interchangeable *)
(* as long as no liveness property is checked.                              *)
EXTENDS ClientSessionProperties, TLC

Symmetry == Permutations(Tabs) \cup Permutations(Accounts)
=============================================================================
