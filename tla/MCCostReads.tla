----------------------------- MODULE MCCostReads -----------------------------
(* Small instances of the cached readers for TLC.                            *)
EXTENDS CostReadsProperties, TLC

\* The versions of a provider's costs are interchangeable, and so are requests.
Symmetry == Permutations(Versions) \cup Permutations(Requests)

\* 300 s for budgets, an hour for the others: scaled to 1 and 2.
MCTtl == [s \in Services |-> IF s = "budget" THEN 1 ELSE 2]

\* The shortest lifetime for all.
MCShortTtl == [s \in Services |-> 1]
=============================================================================
