------------------------------ MODULE Explorer ------------------------------
(***************************************************************************)
(* The Cost Explorer: the allocation of a provider's answer to days and    *)
(* services, the filters, and the totals of every dimension. Every other   *)
(* analysis starts from the line items allocated here.                     *)
(*                                                                         *)
(* The order and the paging of the items are left out. What a query finds  *)
(* by a part of a name is the relation Contains.                           *)
(***************************************************************************)
EXTENDS ProviderCosts

CONSTANT Contains  \* the pairs <<a, b>> of names with a a substring of b

-----------------------------------------------------------------------------
(* CostExplorerService._fetch_provider_records                             *)

\* Mutant: every day is given the whole cost.
AllocatedWhole(answer, day, k) == Round(answer.services[k].cost, PerCent)

\* The share of a day in the cost of an entry of the answer, in cents. (The
\* ratio is a float: at exactly half a cent the code may round down.)
Allocated(answer, day, k) ==
  LET total == SumFunction([j \in DOMAIN answer.services |-> answer.services[j].cost])
  IN IF total = 0 THEN 0
     ELSE Round(answer.services[k].cost * answer.daily[day], total * PerCent)

LineItems(cloud, answer, start) ==
  LET services == answer.services
      Item(day, service, cents) == CostRecord(day, cloud, service, cents, "USD")
      shares == {x \in (DOMAIN answer.daily) \X (DOMAIN services) :
                   Allocated(answer, x[1], x[2]) > 0}
  IN IF answer.error # None THEN <<>>
     ELSE IF services # <<>> /\ answer.daily # <<>>
     THEN [x \in shares |->
             Item(x[1], services[x[2]].service, Allocated(answer, x[1], x[2]))]
     ELSE IF services # <<>>
     THEN [k \in DOMAIN services |->
             Item(start, services[k].service, Round(services[k].cost, PerCent))]
     ELSE IF answer.total > 0
     THEN <<Item(start, cloud, Round(answer.total, PerCent))>>
     ELSE <<>>

-----------------------------------------------------------------------------
(* _apply_filters and _aggregate                                           *)

NamePart(filter, name) == filter = None \/ <<filter, name>> \in Contains

Filtered(records, query) ==
  LET Wanted(r) == /\ r.day \in query.start..query.end
                   /\ query.provider \in {None, r.provider}
                   /\ NamePart(query.service, r.service)
  IN Matching(records, Wanted)

TotalCost(records) == SumFunction([k \in DOMAIN records |-> records[k].cost])

\* The totals of one dimension, with their shares in hundredths of a percent.
Breakdown(records, field) ==
  LET total == TotalCost(records)
      Items(v) == {k \in DOMAIN records : records[k][field] = v}
      CostOf(v) == SumFunction([k \in Items(v) |-> records[k].cost])
  IN [v \in {records[k][field] : k \in DOMAIN records} |->
        [cost |-> CostOf(v), count |-> Cardinality(Items(v)),
         percentage |-> IF total > 0 THEN Round(10000 * CostOf(v), total) ELSE 0]]
=============================================================================
