-------------------------- MODULE MCWarningRuntime --------------------------
(* Instances of WarningRuntime for TLC. *)
EXTENDS WarningRuntime, TLC

CONSTANTS r1, r2, m1, m2, t1, t2

TwoPrompts == {r1, r2}
OnePromptEach == {[r \in TwoPrompts |-> IF r = r1 THEN m1 ELSE m2]}

\* The instruction does not matter here: every request, in every task, for certain.
EveryRequest ==
  {[enabled |-> TRUE, mode |-> "EVERY_REQUEST", count |-> 0, from |-> 0, to |-> 0,
    scope |-> "ALL_TASKS", items |-> {}]}
NoPlaces == {[r \in TwoPrompts |-> NoItem]}
Certain == {1..2}

Warning(cadence, value) ==
  [cadence |-> cadence, value |-> value, numbers |-> {1}, must_acknowledge |-> TRUE]

SomeWarnings == {Warning("BEGINNING", 1), Warning("EVERY_N_PROMPTS", 1), Warning("EVERY_N_ACTIVE_MINUTES", 1)}
AfterEveryPrompt == {Warning("EVERY_N_PROMPTS", 1)}

TwoTabs == {t1, t2}
OneTab == {t1}
Interchangeable == Permutations(Tabs)
=============================================================================
