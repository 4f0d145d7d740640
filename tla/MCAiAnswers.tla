----------------------------- MODULE MCAiAnswers -----------------------------
(* An instance of AiAnswers for TLC: two versions of the costs that share an *)
(* event and an anomaly.                                                     *)
EXTENDS AiAnswersProperties, TLC

MCEvents == [f \in Figures |-> IF f = "old" THEN <<"e1", "e2">> ELSE <<"e2", "e3">>]
MCAnomalies == [f \in Figures |-> IF f = "old" THEN {"a1"} ELSE {}]

Symmetry == Permutations(Requests)
=============================================================================
