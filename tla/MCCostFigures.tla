---------------------------- MODULE MCCostFigures ----------------------------
(* An instance of CostFigures for TLC: a service whose name is part of the   *)
(* other's, and square roots of up to eight days.                              *)
EXTENDS CostFiguresProperties, TLC

MCScores == <<200, 300, 400, 600>>
MCRoot == <<100, 141, 173, 200, 224, 245, 265, 283>>
MCHorizons == <<2, 4, 8>>
MCMockRates == (1 :> [day |-> 3, month |-> 84]) @@ (2 :> [day |-> 1, month |-> 13])
MCContains == {<<1, 1>>, <<1, 2>>, <<2, 2>>}
MCAmounts == {-2, 7}
MCCharges == {-2, 7, 20}
MCAccounts == {{c} \X Services \X {1} : c \in Clouds} \cup {Clouds \X {1} \X {1}}
              \cup {{c} \X {1} \X {1, 2} : c \in Clouds}
=============================================================================
