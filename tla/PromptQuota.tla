---------------------------- MODULE PromptQuota ----------------------------
(***************************************************************************)
(* What the prompt budget of an experiment task promises, whatever leases, *)
(* heartbeats and transactions implement it: a generation is granted a     *)
(* place in a scope at most once, a place is either given back or becomes  *)
(* a counted response, and the places held plus the responses counted      *)
(* never exceed the limit of the scope.                                    *)
(***************************************************************************)
EXTENDS Integers, FiniteSets

CONSTANTS
  Scopes,  \* the task as a whole, or each of its questions
  Runs,    \* the generations (one BudgetRun each)
  Limit    \* the prompt limit of every scope

VARIABLES
  held,     \* per scope, the generations holding a place
  counted,  \* per scope, the generations whose response was counted
  granted   \* the generations that were ever granted a place

vars == <<held, counted, granted>>

Init ==
  /\ held = [s \in Scopes |-> {}]
  /\ counted = [s \in Scopes |-> {}]
  /\ granted = {}

\* Places D of scope s are given back and, if one is then free, r takes it.
Grant(s, r, D) ==
  /\ r \notin granted
  /\ Cardinality(held[s] \ D) + Cardinality(counted[s]) < Limit[s]
  /\ held' = [held EXCEPT ![s] = (@ \ D) \union {r}]
  /\ granted' = granted \union {r}
  /\ UNCHANGED counted

\* Places D of scope s are given back.
Return(s, D) ==
  /\ held' = [held EXCEPT ![s] = @ \ D]
  /\ UNCHANGED <<counted, granted>>

\* The place r holds becomes a counted response; places D are given back.
Count(s, r, D) ==
  /\ r \in held[s] \ D
  /\ held' = [held EXCEPT ![s] = (@ \ D) \ {r}]
  /\ counted' = [counted EXCEPT ![s] = @ \union {r}]
  /\ UNCHANGED granted

Next ==
  \E s \in Scopes, D \in SUBSET Runs :
    \/ Return(s, D)
    \/ \E r \in Runs : Grant(s, r, D) \/ Count(s, r, D)

Spec == Init /\ [][Next]_vars
=============================================================================
