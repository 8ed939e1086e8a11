----------------------------- MODULE MCGrading -----------------------------
(* Instances of Grading for TLC. *)
EXTENDS Grading, TLC

CONSTANTS q1, q2, w1, w2

Questions == {q1, q2}
OneQuestion == {q1}
TwoWorkers == {w1, w2}

Mixed == {[q \in Questions |-> IF q = q1 THEN "LLM_ASSISTED" ELSE m] : m \in Modes}
SingleLLM == {[q \in OneQuestion |-> "LLM_ASSISTED"]}

FullForms == {[q \in Questions |-> a] : a \in {"A"}} \union {[q \in Questions |-> IF q = q1 THEN "B" ELSE "EMPTY"]}
SingleForms == {[q \in OneQuestion |-> a] : a \in {"A", "B"}}

OneForm == {[q \in OneQuestion |-> "A"]}

Interchangeable == Permutations(Workers)
=============================================================================
