------------------------- MODULE MCRequestNumbering -------------------------
(* Instances of RequestNumbering for TLC. *)
EXTENDS RequestNumbering, TLC

CONSTANTS r1, r2, r3, r4, m1, m2, i1, i2

FourRequests == {r1, r2, r3, r4}

\* Two requests of one message, one of another, and a fourth of either or none.
TwoMessages ==
  {[r \in FourRequests |-> IF r = r3 THEN m2 ELSE IF r = r4 THEN m ELSE m1] : m \in {m1, m2, NoMessage}}

\* The fourth is made in another task than the others.
TwoTasks == {[r \in FourRequests |-> IF r = r4 THEN i2 ELSE i1]}

InAllTasks(mode, count) ==
  [enabled |-> TRUE, mode |-> mode, count |-> count, from |-> 0, to |-> 0, scope |-> "ALL_TASKS", items |-> {}]

SomeRules ==
  {InAllTasks("FIRST_REQUEST", 0),
   [InAllTasks("EVERY_N_PROMPTS", 2) EXCEPT !.scope = "SELECTED_TASKS", !.items = {i1}]}

\* Probability 1, and one at which just the even requests are drawn.
SomeDraws == {1..4, {2, 4}}
=============================================================================
