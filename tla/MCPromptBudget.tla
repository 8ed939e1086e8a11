--------------------------- MODULE MCPromptBudget ---------------------------
(* Instances of PromptBudget for TLC. *)
EXTENDS PromptBudget, TLC

CONSTANTS r1, r2, r3, q1, q2

ThreeRuns == {r1, r2, r3}
TwoRuns == {r1, r2}
OneScope == {q1}
TwoScopes == {q1, q2}
LimitTwo == [s \in {q1} |-> 2]
LimitsApart == [s \in {q1, q2} |-> IF s = q1 THEN 1 ELSE 0]
Punctual == {"crash", "cancel"}
Anonymous == Permutations(Runs)
=============================================================================
