----------------------------- MODULE PlanLedger -----------------------------
(***************************************************************************)
(* What the plans of a group promise: a ledger to which each publication   *)
(* adds one entry, and participants who are seated once, on one entry.     *)
(* Nothing that was published changes, and nobody is moved.  PlanPublishing *)
(* implements it.                                                          *)
(***************************************************************************)
EXTENDS Naturals, Sequences

CONSTANTS
  Users,    \* participants of the group
  Contents  \* what a plan can ask of them

VARIABLES
  ledger,  \* the contents published so far, oldest first
  seats    \* the entry of each participant, with what was taken from it

ledgerVars == <<ledger, seats>>

NoSeat == [plan |-> 0]

Seat(v) == [plan |-> v, condition |-> ledger[v], tasks |-> ledger[v]]

Init ==
  /\ ledger \in {<<c>> : c \in Contents}
  /\ seats = [u \in Users |-> NoSeat]

Publish ==
  /\ \E c \in Contents : ledger' = Append(ledger, c)
  /\ UNCHANGED seats

TakeSeat(u) ==
  /\ seats[u] = NoSeat
  /\ \E v \in DOMAIN ledger : seats' = [seats EXCEPT ![u] = Seat(v)]
  /\ UNCHANGED ledger

Next == Publish \/ \E u \in Users : TakeSeat(u)

LedgerSpec == Init /\ [][Next]_ledgerVars
=============================================================================
