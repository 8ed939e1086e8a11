------------------------- MODULE PromptBudgetProofs -------------------------
(***************************************************************************)
(* Proofs about PromptBudget for every number of runs, every set of scopes,*)
(* every limit, lease and heartbeat, and every combination of faults.      *)
(***************************************************************************)
EXTENDS PromptBudget, FiniteSetTheorems, TLAPS

USE RunsAssumption, ScopesAssumption, LimitAssumption, TimersAssumption

\* The rows of a scope in one status are finitely many.
LEMMA InFinite ==
  ASSUME NEW s, NEW st
  PROVE  IsFiniteSet(In(s, st)) /\ Cardinality(In(s, st)) \in Nat
  BY FS_Subset, FS_CardinalityType DEF In

\* What the cleanup of _locked_bucket leaves in the counter is the number of
\* reservations that are really live.
LEMMA LeftIsLive ==
  ASSUME TypeOK, LedgerAgrees, NEW s \in Scopes
  PROVE  /\ IsFiniteSet(In(s, "PENDING") \ Overdue(s))
         /\ PendingLeft(s) = Cardinality(In(s, "PENDING") \ Overdue(s))
         /\ PendingLeft(s) \in Nat
         /\ PendingLeft(s) <= bucket[s].pending
  <1>1. Overdue(s) \subseteq In(s, "PENDING")
    BY DEF Overdue
  <1>2. IsFiniteSet(In(s, "PENDING"))
    BY InFinite
  <1>3. In(s, "PENDING") \cap Overdue(s) = Overdue(s)
    BY <1>1
  <1>4. IsFiniteSet(Overdue(s)) /\ Cardinality(Overdue(s)) \in Nat
    BY <1>1, <1>2, FS_Subset, FS_CardinalityType
  <1>5. /\ IsFiniteSet(In(s, "PENDING") \ Overdue(s))
        /\ Cardinality(In(s, "PENDING") \ Overdue(s)) \in Nat
    BY <1>2, FS_Subset, FS_CardinalityType
  <1>6. Cardinality(In(s, "PENDING") \ Overdue(s))
          = Cardinality(In(s, "PENDING")) - Cardinality(Overdue(s))
    BY <1>2, <1>3, FS_Difference
  <1>7. bucket[s].pending = Cardinality(In(s, "PENDING"))
    BY DEF LedgerAgrees
  <1>8. Cardinality(In(s, "PENDING")) \in Nat
    BY InFinite
  <1>9. PendingLeft(s) = Cardinality(In(s, "PENDING") \ Overdue(s))
    BY <1>6, <1>7 DEF PendingLeft
  <1> QED
    BY <1>4, <1>5, <1>6, <1>7, <1>8, <1>9

\* A step that leaves the counters and the status of the rows alone keeps
\* them in agreement; a run without a row may choose its scope meanwhile.
LEMMA QuietStep ==
  ASSUME LedgerAgrees, QuotaRespected,
         \A s \in Scopes : /\ bucket'[s].used = bucket[s].used
                           /\ bucket'[s].pending = bucket[s].pending,
         \A r \in Runs : /\ resv'[r].status = resv[r].status
                         /\ scope'[r] = scope[r] \/ resv[r].status = "NONE"
  PROVE  LedgerAgrees' /\ QuotaRespected'
  <1>1. \A s \in Scopes : /\ In(s, "PENDING")' = In(s, "PENDING")
                          /\ In(s, "COMPLETED")' = In(s, "COMPLETED")
    BY DEF In
  <1> QED
    BY <1>1 DEF LedgerAgrees, QuotaRespected

\* Taking a place: the expired reservations leave, the new one comes in, and
\* the test under the lock keeps the limit.
LEMMA TakePlaceStep ==
  ASSUME BudgetInv, NEW r \in Runs, TakePlace(r), UNCHANGED scope
  PROVE  /\ LedgerAgrees' /\ QuotaRespected'
         /\ bucket' \in [Scopes -> [exists: BOOLEAN, used: Nat, pending: Nat]]
         /\ resv' \in [Runs -> [status: Status, lease: 0..Lease]]
         /\ \A s \in Scopes : bucket'[s].exists = bucket[s].exists
         /\ resv'[r].status = "PENDING"
         /\ \A q \in Runs : resv'[q].status = "NONE" <=> (q # r /\ resv[q].status = "NONE")
  <1>0. PICK s \in Scopes : s = scope[r]
    BY DEF BudgetInv, RowsFollowControl, TakePlace
  <1> DEFINE live == In(s, "PENDING") \ Overdue(s)
  <1>1. resv[r].status = "NONE"
    BY DEF BudgetInv, RowsFollowControl, TakePlace
  <1>2. TypeOK /\ LedgerAgrees /\ QuotaRespected
    BY DEF BudgetInv
  <1>3. /\ IsFiniteSet(live)
        /\ PendingLeft(s) = Cardinality(live)
        /\ PendingLeft(s) \in Nat
    BY <1>1, <1>2, LeftIsLive
  <1>4. bucket' = [bucket EXCEPT ![s] = [exists |-> bucket[s].exists,
                                         used |-> bucket[s].used,
                                         pending |-> PendingLeft(s) + 1]]
    BY <1>0 DEF TakePlace, WithCounters
  <1>5. \A q \in Runs : resv'[q] = IF q = r THEN [status |-> "PENDING", lease |-> Lease]
                                  ELSE IF q \in Overdue(s) THEN [status |-> "EXPIRED", lease |-> 0]
                                  ELSE resv[q]
    BY <1>0, <1>2 DEF TakePlace, Swept, TypeOK
  <1>6. resv' \in [Runs -> [status: Status, lease: 0..Lease]]
    <2>1. resv' = [q \in Runs |-> resv'[q]]
      BY <1>0 DEF TakePlace, Swept
    <2>2. \A q \in Runs : resv'[q] \in [status: Status, lease: 0..Lease]
      BY <1>2, <1>5 DEF TypeOK, Status
    <2> QED
      BY <2>1, <2>2
  <1>7. bucket' \in [Scopes -> [exists: BOOLEAN, used: Nat, pending: Nat]]
    BY <1>1, <1>2, <1>3, <1>4 DEF TypeOK
  <1>8. /\ bucket'[s].used = bucket[s].used
        /\ bucket'[s].pending = PendingLeft(s) + 1
        /\ \A t \in Scopes \ {s} : bucket'[t] = bucket[t]
        /\ \A t \in Scopes : bucket'[t].exists = bucket[t].exists
    BY <1>1, <1>2, <1>4 DEF TypeOK
  <1>9. /\ In(s, "PENDING")' = live \union {r}
        /\ r \notin live
        /\ In(s, "COMPLETED")' = In(s, "COMPLETED")
        /\ \A t \in Scopes \ {s} : /\ In(t, "PENDING")' = In(t, "PENDING")
                                   /\ In(t, "COMPLETED")' = In(t, "COMPLETED")
    <2>1. \A q \in Runs : resv'[q].status = IF q = r THEN "PENDING"
                                           ELSE IF q \in Overdue(s) THEN "EXPIRED"
                                           ELSE resv[q].status
      BY <1>5
    <2>2. Overdue(s) \subseteq In(s, "PENDING") /\ r \notin Overdue(s)
      BY <1>1 DEF Overdue, In
    <2>3. In(s, "PENDING")' = live \union {r} /\ r \notin live
      BY <1>0, <1>1, <2>1, <2>2 DEF In
    <2>4. In(s, "COMPLETED")' = In(s, "COMPLETED")
      BY <1>1, <2>1, <2>2 DEF In
    <2>5. \A t \in Scopes \ {s} : /\ In(t, "PENDING")' = In(t, "PENDING")
                                 /\ In(t, "COMPLETED")' = In(t, "COMPLETED")
      BY <1>0, <1>1, <2>1, <2>2 DEF In
    <2> QED
      BY <2>3, <2>4, <2>5
  <1>10. Cardinality(live \union {r}) = PendingLeft(s) + 1
    BY <1>3, <1>9, FS_AddElement
  <1>11. LedgerAgrees'
    BY <1>2, <1>8, <1>9, <1>10 DEF LedgerAgrees
  <1>12. QuotaRespected'
    <2>1. bucket[s].used + PendingLeft(s) < Limit[s]
      BY <1>0 DEF TakePlace, HasRoom
    <2>2. bucket[s].used \in Nat /\ Limit[s] \in Nat
      BY <1>1, <1>2 DEF TypeOK
    <2>3. bucket'[s].used + bucket'[s].pending <= Limit[s]
      BY <1>3, <1>8, <2>1, <2>2
    <2> QED
      BY <1>2, <1>8, <2>3 DEF QuotaRespected
  <1>13. \A q \in Runs : resv'[q].status = "NONE" <=> (q # r /\ resv[q].status = "NONE")
    BY <1>2, <1>5 DEF Overdue, In, TypeOK
  <1> QED
    BY <1>5, <1>6, <1>7, <1>8, <1>11, <1>12, <1>13

\* A refused request still cleans up the expired reservations.
LEMMA RefuseLimitStep ==
  ASSUME BudgetInv, NEW r \in Runs, RefuseLimit(r)
  PROVE  /\ LedgerAgrees' /\ QuotaRespected'
         /\ bucket' \in [Scopes -> [exists: BOOLEAN, used: Nat, pending: Nat]]
         /\ resv' \in [Runs -> [status: Status, lease: 0..Lease]]
         /\ \A s \in Scopes : bucket'[s].exists = bucket[s].exists
         /\ \A q \in Runs : resv'[q].status = "NONE" <=> resv[q].status = "NONE"
  <1>1. PICK s \in Scopes : s = scope[r]
    BY DEF BudgetInv, RowsFollowControl, RefuseLimit
  <1> DEFINE live == In(s, "PENDING") \ Overdue(s)
  <1>2. TypeOK /\ LedgerAgrees /\ QuotaRespected
    BY DEF BudgetInv
  <1>3. /\ PendingLeft(s) = Cardinality(live)
        /\ PendingLeft(s) \in Nat
        /\ PendingLeft(s) <= bucket[s].pending
    BY <1>1, <1>2, LeftIsLive
  <1>4. /\ bucket' = WithCounters(s, bucket[s].used, PendingLeft(s))
        /\ resv' = Swept(s)
        /\ scope' = scope
    BY <1>1 DEF RefuseLimit
  <1>5. bucket' \in [Scopes -> [exists: BOOLEAN, used: Nat, pending: Nat]]
    BY <1>1, <1>2, <1>3, <1>4 DEF TypeOK, WithCounters
  <1>6. resv' \in [Runs -> [status: Status, lease: 0..Lease]]
    BY <1>2, <1>4 DEF TypeOK, Swept, Status
  <1>7. /\ bucket'[s].used = bucket[s].used
        /\ bucket'[s].pending = PendingLeft(s)
        /\ \A t \in Scopes \ {s} : bucket'[t] = bucket[t]
        /\ \A t \in Scopes : bucket'[t].exists = bucket[t].exists
    BY <1>1, <1>2, <1>4 DEF TypeOK, WithCounters
  <1>8. /\ In(s, "PENDING")' = live
        /\ In(s, "COMPLETED")' = In(s, "COMPLETED")
        /\ \A t \in Scopes \ {s} : /\ In(t, "PENDING")' = In(t, "PENDING")
                                   /\ In(t, "COMPLETED")' = In(t, "COMPLETED")
    BY <1>1, <1>2, <1>4 DEF In, Overdue, Swept, TypeOK
  <1>9. LedgerAgrees'
    BY <1>2, <1>3, <1>7, <1>8 DEF LedgerAgrees
  <1>10. QuotaRespected'
    <2>1. /\ bucket[s].used \in Nat /\ bucket[s].pending \in Nat /\ Limit[s] \in Nat
          /\ bucket[s].used + bucket[s].pending <= Limit[s]
      BY <1>1, <1>2 DEF TypeOK, QuotaRespected
    <2>2. bucket'[s].used + bucket'[s].pending <= Limit[s]
      BY <1>3, <1>7, <2>1
    <2> QED
      BY <1>2, <1>7, <2>2 DEF QuotaRespected
  <1>11. \A q \in Runs : resv'[q].status = "NONE" <=> resv[q].status = "NONE"
    BY <1>2, <1>4 DEF Swept, Overdue, In, TypeOK
  <1> QED
    BY <1>5, <1>6, <1>7, <1>9, <1>10, <1>11

\* A settlement turns a place that is still held into a counted prompt or
\* gives it back; a place already reclaimed is not touched again.
LEMMA SettleStep ==
  ASSUME BudgetInv, NEW r \in Runs, Settle(r)
  PROVE  /\ LedgerAgrees' /\ QuotaRespected'
         /\ bucket' \in [Scopes -> [exists: BOOLEAN, used: Nat, pending: Nat]]
         /\ resv' \in [Runs -> [status: Status, lease: 0..Lease]]
         /\ \A s \in Scopes : bucket'[s].exists = bucket[s].exists
         /\ \A q \in Runs : resv'[q].status = "NONE" <=> resv[q].status = "NONE"
  <1>1. PICK s \in Scopes : s = scope[r]
    BY DEF BudgetInv, RowsFollowControl, Settle
  <1> DEFINE live == In(s, "PENDING") \ Overdue(s)
             open == resv[r].status = "PENDING" /\ r \notin Overdue(s)
  <1>2. TypeOK /\ LedgerAgrees /\ QuotaRespected
    BY DEF BudgetInv
  <1>3. /\ IsFiniteSet(live)
        /\ PendingLeft(s) = Cardinality(live)
        /\ PendingLeft(s) \in Nat
        /\ PendingLeft(s) <= bucket[s].pending
    BY <1>1, <1>2, LeftIsLive
  <1>4. open <=> r \in live
    BY <1>1 DEF In
  <1>5. open => Cardinality(live) > 0
    BY <1>3, <1>4, FS_EmptySet
  <1>6. /\ bucket[s].used \in Nat /\ bucket[s].pending \in Nat /\ Limit[s] \in Nat
        /\ bucket[s].used + bucket[s].pending <= Limit[s]
    BY <1>1, <1>2 DEF TypeOK, QuotaRespected
  <1>7. /\ bucket'[s].used = bucket[s].used + (IF open /\ success[r] THEN 1 ELSE 0)
        /\ bucket'[s].pending = PendingLeft(s) - (IF open THEN 1 ELSE 0)
        /\ \A t \in Scopes \ {s} : bucket'[t] = bucket[t]
        /\ \A t \in Scopes : bucket'[t].exists = bucket[t].exists
    BY <1>1, <1>2 DEF Settle, TypeOK, WithCounters
  <1>8. bucket'[s].used \in Nat /\ bucket'[s].pending \in Nat
    BY <1>3, <1>5, <1>6, <1>7
  <1>9. bucket' \in [Scopes -> [exists: BOOLEAN, used: Nat, pending: Nat]]
    <2>1. bucket' = [bucket EXCEPT ![s] = [exists |-> bucket[s].exists,
                                           used |-> bucket'[s].used,
                                           pending |-> bucket'[s].pending]]
      BY <1>1, <1>2 DEF Settle, TypeOK, WithCounters
    <2> QED
      BY <1>2, <1>8, <2>1 DEF TypeOK
  <1>10. /\ scope' = scope
         /\ \A q \in Runs : resv'[q] = IF q = r /\ open THEN Closed(r)
                                       ELSE IF q \in Overdue(s) THEN [status |-> "EXPIRED", lease |-> 0]
                                       ELSE resv[q]
    BY <1>1, <1>2 DEF Settle, Swept, TypeOK
  <1>11. resv' \in [Runs -> [status: Status, lease: 0..Lease]]
    <2>1. resv' = [q \in Runs |-> resv'[q]]
      BY <1>1 DEF Settle, Swept
    <2>2. \A q \in Runs : resv'[q] \in [status: Status, lease: 0..Lease]
      BY <1>2, <1>10 DEF TypeOK, Status, Closed
    <2> QED
      BY <2>1, <2>2
  <1>12. \A t \in Scopes \ {s} : /\ In(t, "PENDING")' = In(t, "PENDING")
                                 /\ In(t, "COMPLETED")' = In(t, "COMPLETED")
    BY <1>1, <1>2, <1>10 DEF In, Overdue, TypeOK, Closed
  <1>13. In(s, "PENDING")' = live \ {r}
    BY <1>1, <1>2, <1>4, <1>10 DEF In, Overdue, TypeOK, Closed
  <1>14. In(s, "COMPLETED")' = IF open /\ success[r] THEN In(s, "COMPLETED") \union {r}
                                                     ELSE In(s, "COMPLETED")
    BY <1>1, <1>2, <1>10 DEF In, Overdue, TypeOK, Closed
  <1>15. bucket'[s].pending = Cardinality(In(s, "PENDING")')
    <2>1. Cardinality(live \ {r}) = IF r \in live THEN Cardinality(live) - 1
                                                 ELSE Cardinality(live)
      BY <1>3, FS_RemoveElement
    <2>2. bucket'[s].pending = Cardinality(live \ {r})
      BY <1>3, <1>4, <1>7, <2>1
    <2> QED
      BY <1>13, <2>2
  <1>16. bucket'[s].used = Cardinality(In(s, "COMPLETED")')
    <2>1. IsFiniteSet(In(s, "COMPLETED"))
      BY InFinite
    <2>2. open => r \notin In(s, "COMPLETED")
      BY DEF In
    <2>3. bucket[s].used = Cardinality(In(s, "COMPLETED"))
      BY <1>1, <1>2 DEF LedgerAgrees
    <2>4. CASE open /\ success[r]
      <3>1. Cardinality(In(s, "COMPLETED") \union {r}) = Cardinality(In(s, "COMPLETED")) + 1
        BY <2>1, <2>2, <2>4, FS_AddElement
      <3>2. In(s, "COMPLETED")' = In(s, "COMPLETED") \union {r}
        BY <1>14, <2>4
      <3> QED
        BY <1>6, <1>7, <2>3, <2>4, <3>1, <3>2
    <2>5. CASE ~(open /\ success[r])
      BY <1>6, <1>7, <1>14, <2>3, <2>5
    <2> QED
      BY <2>4, <2>5
  <1>17. LedgerAgrees'
    <2>1. \A t \in Scopes \ {s} : /\ bucket'[t].pending = Cardinality(In(t, "PENDING")')
                                 /\ bucket'[t].used = Cardinality(In(t, "COMPLETED")')
      BY <1>2, <1>7, <1>12 DEF LedgerAgrees
    <2> QED
      BY <1>15, <1>16, <2>1 DEF LedgerAgrees
  <1>18. bucket'[s].used + bucket'[s].pending <= Limit[s]
    BY <1>3, <1>6, <1>7
  <1>19. QuotaRespected'
    BY <1>2, <1>7, <1>18 DEF QuotaRespected
  <1>20. \A q \in Runs : resv'[q].status = "NONE" <=> resv[q].status = "NONE"
    BY <1>2, <1>10 DEF Overdue, In, TypeOK, Closed
  <1> QED
    BY <1>7, <1>9, <1>11, <1>17, <1>19, <1>20

-----------------------------------------------------------------------------
\* The initial state: no rows, no runs.
LEMMA InitBudgetInv == Init => BudgetInv
  <1> SUFFICES ASSUME Init PROVE BudgetInv
    OBVIOUS
  <1>1. TypeOK
    BY DEF Init, TypeOK, Status, Control, Stopped
  <1>2. RowsFollowControl
    BY DEF Init, RowsFollowControl
  <1>3. \A s \in Scopes : In(s, "PENDING") = {} /\ In(s, "COMPLETED") = {}
    BY DEF Init, In
  <1>4. LedgerAgrees
    BY <1>3, FS_EmptySet DEF Init, LedgerAgrees
  <1>5. QuotaRespected
    BY DEF Init, QuotaRespected
  <1> QED
    BY <1>1, <1>2, <1>4, <1>5 DEF BudgetInv

\* What any step does to a heartbeat keeps its type.
LEMMA HeartbeatType ==
  ASSUME TypeOK, NEW r \in Runs,
         \/ hb' = hb
         \/ hb' = [hb EXCEPT ![r] = Stopped]
         \/ hb' = [hb EXCEPT ![r] = Fresh]
         \/ hb' = [hb EXCEPT ![r] = [on |-> TRUE, wake |-> Heartbeat,
                                    deadline |-> hb[r].deadline]]
  PROVE  hb' \in [Runs -> [on: BOOLEAN, wake: 0..Heartbeat, deadline: 0..Lease]]
  <1> DEFINE Timers == [on: BOOLEAN, wake: 0..Heartbeat, deadline: 0..Lease]
  <1>1. hb \in [Runs -> Timers] /\ hb[r].deadline \in 0..Lease
    BY DEF TypeOK
  <1>2. Stopped \in Timers /\ Fresh \in Timers
    BY DEF Stopped, Fresh
  <1>3. [on |-> TRUE, wake |-> Heartbeat, deadline |-> hb[r].deadline] \in Timers
    BY <1>1
  <1> HIDE DEF Timers
  <1>4. hb' \in [Runs -> Timers]
    BY <1>1, <1>2, <1>3
  <1> QED
    BY <1>4 DEF Timers

\* Steps that touch neither the bucket nor a reservation row: the control of
\* one run moves, or its heartbeat does.
LEMMA ControlStep ==
  ASSUME BudgetInv, NEW r \in Runs, UNCHANGED <<bucket, resv>>,
         \/ \E s \in Scopes : Start(r, s)
         \/ RefuseScope(r) \/ CheckBucket(r) \/ Deliver(r) \/ FailOrStop(r)
         \/ HandOver(r) \/ BeginDelivery(r) \/ Abandon(r) \/ SettleLost(r) \/ Crash(r)
         \/ HeartbeatRetires(r) \/ HeartbeatRefused(r)
         \/ HeartbeatRetries(r) \/ HeartbeatGivesUp(r)
  PROVE  BudgetInv'
  <1> USE DEF Start, RefuseScope, CheckBucket, Deliver, FailOrStop, HandOver,
              BeginDelivery, Abandon, SettleLost, Crash, HeartbeatRetires,
              HeartbeatRefused, HeartbeatRetries, HeartbeatGivesUp,
              CancelOwner, Finish
  <1>1. TypeOK /\ RowsFollowControl /\ LedgerAgrees /\ QuotaRespected
    BY DEF BudgetInv
  <1>2. TypeOK'
    <2>1. hb' \in [Runs -> [on: BOOLEAN, wake: 0..Heartbeat, deadline: 0..Lease]]
      <3>1. \/ hb' = hb
            \/ hb' = [hb EXCEPT ![r] = Stopped]
            \/ hb' = [hb EXCEPT ![r] = [on |-> TRUE, wake |-> Heartbeat,
                                       deadline |-> hb[r].deadline]]
        BY Zenon
      <3> QED
        BY <1>1, <3>1, HeartbeatType
    <2>2. pc' \in [Runs -> Control]
      <3>1. \/ pc' = pc
            \/ pc' = [pc EXCEPT ![r] = IF bucket[scope[r]].exists THEN "reserving" ELSE "inserting"]
            \/ \E c \in {"checking", "rejected", "running", "handed", "settling", "done", "gone"} :
                 pc' = [pc EXCEPT ![r] = c]
        BY Zenon
      <3> QED
        BY <1>1, <3>1 DEF TypeOK, Control
    <2>3. scope' \in [Runs -> Scopes \union {NoScope}]
      <3>1. scope' = scope \/ \E s \in Scopes : scope' = [scope EXCEPT ![r] = s]
        OBVIOUS
      <3> QED
        BY <1>1, <3>1 DEF TypeOK
    <2>4. \/ success' = success
          \/ success' = [success EXCEPT ![r] = TRUE]
          \/ success' = [success EXCEPT ![r] = FALSE]
      BY Zenon
    <2>5. success' \in [Runs -> BOOLEAN]
      BY <1>1, <2>4 DEF TypeOK
    <2> QED
      BY <1>1, <2>1, <2>2, <2>3, <2>5 DEF TypeOK
  <1>3. \A q \in Runs : scope'[q] = scope[q] \/ resv[q].status = "NONE"
    BY <1>1 DEF RowsFollowControl, TypeOK
  <1>4. LedgerAgrees' /\ QuotaRespected'
    BY <1>1, <1>3, QuietStep
  <1>5. RowsFollowControl'
    <2>1. \A q \in Runs : q # r => pc'[q] = pc[q] /\ scope'[q] = scope[q]
      BY <1>1 DEF TypeOK
    <2>2. /\ pc'[r] \in {"idle", "checking", "inserting", "reserving", "rejected"}
               => pc[r] \in {"idle", "checking", "inserting", "reserving", "rejected"}
          /\ pc'[r] \in {"running", "handed", "settling"}
               => pc[r] \in {"running", "handed", "settling"}
          /\ pc'[r] \in {"checking", "inserting", "reserving"} => scope'[r] \in Scopes
          /\ pc'[r] = "reserving" => bucket[scope'[r]].exists
          /\ scope'[r] = scope[r] \/ pc[r] = "idle"
      BY <1>1 DEF TypeOK, RowsFollowControl, Control
    <2> QED
      BY <1>1, <2>1, <2>2 DEF RowsFollowControl
  <1> QED
    BY <1>2, <1>4, <1>5 DEF BudgetInv

\* Steps of the clock and renewals change leases and timers, never a status.
LEMMA TimerStep ==
  ASSUME BudgetInv, Tick \/ \E r \in Runs : HeartbeatRenews(r)
  PROVE  BudgetInv'
  <1>1. TypeOK /\ RowsFollowControl /\ LedgerAgrees /\ QuotaRespected
    BY DEF BudgetInv
  <1>3. UNCHANGED <<bucket, scope, pc, success>>
    BY DEF Tick, HeartbeatRenews
  <1>4. /\ resv' \in [Runs -> [status: Status, lease: 0..Lease]]
        /\ \A q \in Runs : resv'[q].status = resv[q].status
    <2>1. CASE Tick
      <3>1. \A q \in Runs : resv'[q] = [status |-> resv[q].status, lease |-> Less(resv[q].lease)]
        BY <1>1, <2>1 DEF Tick, TypeOK
      <3>2. ASSUME NEW q \in Runs
            PROVE  resv'[q] \in [status: Status, lease: 0..Lease]
        <4>1. resv[q].status \in Status /\ resv[q].lease \in 0..Lease
          BY <1>1 DEF TypeOK
        <4>2. Less(resv[q].lease) \in 0..Lease
          BY <4>1 DEF Less
        <4>3. resv'[q] = [status |-> resv[q].status, lease |-> Less(resv[q].lease)]
          BY <3>1
        <4> QED
          BY <4>1, <4>2, <4>3
      <3>3. resv' = [q \in Runs |-> resv'[q]]
        BY <2>1 DEF Tick
      <3> QED
        BY <3>1, <3>2, <3>3
    <2>2. CASE \E r \in Runs : HeartbeatRenews(r)
      BY <1>1, <2>2 DEF HeartbeatRenews, TypeOK
    <2> QED
      BY <2>1, <2>2
  <1>5. hb' \in [Runs -> [on: BOOLEAN, wake: 0..Heartbeat, deadline: 0..Lease]]
    <2>1. CASE Tick
      <3>1. \A q \in Runs : hb'[q] = [on |-> hb[q].on, wake |-> Less(hb[q].wake),
                                      deadline |-> Less(hb[q].deadline)]
        BY <1>1, <2>1 DEF Tick, TypeOK
      <3>2. ASSUME NEW q \in Runs
            PROVE  hb'[q] \in [on: BOOLEAN, wake: 0..Heartbeat, deadline: 0..Lease]
        <4>1. hb[q].on \in BOOLEAN /\ hb[q].wake \in 0..Heartbeat /\ hb[q].deadline \in 0..Lease
          BY <1>1 DEF TypeOK
        <4>2. Less(hb[q].wake) \in 0..Heartbeat /\ Less(hb[q].deadline) \in 0..Lease
          BY <4>1 DEF Less
        <4>3. hb'[q] = [on |-> hb[q].on, wake |-> Less(hb[q].wake),
                        deadline |-> Less(hb[q].deadline)]
          BY <3>1
        <4> QED
          BY <4>1, <4>2, <4>3
      <3>3. hb' = [q \in Runs |-> hb'[q]]
        BY <2>1 DEF Tick
      <3> QED
        BY <3>2, <3>3
    <2>2. CASE \E r \in Runs : HeartbeatRenews(r)
      BY <1>1, <2>2 DEF HeartbeatRenews, TypeOK, Fresh
    <2> QED
      BY <2>1, <2>2
  <1>6. TypeOK'
    BY <1>1, <1>3, <1>4, <1>5 DEF TypeOK
  <1>7. LedgerAgrees' /\ QuotaRespected'
    BY <1>1, <1>3, <1>4, QuietStep
  <1>8. RowsFollowControl'
    BY <1>1, <1>3, <1>4 DEF RowsFollowControl
  <1> QED
    BY <1>6, <1>7, <1>8 DEF BudgetInv

\* Creating the row of a first request changes no counter: there are no rows
\* to count yet, or another request created it.
LEMMA InsertCounters ==
  ASSUME BudgetInv, NEW r \in Runs, InsertBucket(r), NEW s \in Scopes
  PROVE  bucket'[s].used = bucket[s].used /\ bucket'[s].pending = bucket[s].pending
  <1>1. TypeOK /\ RowsFollowControl /\ LedgerAgrees
    BY DEF BudgetInv
  <1>2. CASE bucket[s].exists \/ s # scope[r]
    BY <1>1, <1>2 DEF InsertBucket, TypeOK
  <1>3. CASE ~bucket[s].exists /\ s = scope[r]
    <2>1. In(s, "PENDING") = {} /\ In(s, "COMPLETED") = {}
      BY <1>1, <1>3 DEF In, RowsFollowControl
    <2>2. bucket[s].used = 0 /\ bucket[s].pending = 0
      BY <1>1, <2>1, FS_EmptySet DEF LedgerAgrees
    <2>3. bucket'[s] = [exists |-> TRUE, used |-> 0, pending |-> 0]
      BY <1>1, <1>3 DEF InsertBucket, TypeOK
    <2> QED
      BY <2>2, <2>3
  <1> QED
    BY <1>2, <1>3

\* A first request that creates the row keeps the invariant.
LEMMA InsertBucketStep ==
  ASSUME BudgetInv, NEW r \in Runs, InsertBucket(r)
  PROVE  BudgetInv'
  <1>1. TypeOK /\ RowsFollowControl /\ LedgerAgrees /\ QuotaRespected
    BY DEF BudgetInv
  <1>2. PICK s \in Scopes : s = scope[r]
    BY <1>1 DEF RowsFollowControl, InsertBucket
  <1>3. /\ UNCHANGED <<resv, scope, hb, success>>
        /\ pc' = [pc EXCEPT ![r] = "reserving"]
    BY DEF InsertBucket
  <1>4. /\ bucket' \in [Scopes -> [exists: BOOLEAN, used: Nat, pending: Nat]]
        /\ bucket'[s].exists
        /\ \A t \in Scopes \ {s} : bucket'[t] = bucket[t]
    BY <1>1, <1>2 DEF InsertBucket, TypeOK
  <1>5. TypeOK'
    BY <1>1, <1>3, <1>4 DEF TypeOK, Control
  <1>6. \A t \in Scopes : /\ bucket'[t].used = bucket[t].used
                         /\ bucket'[t].pending = bucket[t].pending
    BY InsertCounters
  <1>7. LedgerAgrees' /\ QuotaRespected'
    BY <1>1, <1>3, <1>6, QuietStep
  <1>8. RowsFollowControl'
    BY <1>1, <1>2, <1>3, <1>4 DEF RowsFollowControl, TypeOK, InsertBucket
  <1> QED
    BY <1>5, <1>7, <1>8 DEF BudgetInv

\* Every step keeps the counters, the rows and the limit in agreement.
LEMMA StepBudgetInv == BudgetInv /\ [Next]_vars => BudgetInv'
  <1> SUFFICES ASSUME BudgetInv, [Next]_vars PROVE BudgetInv'
    OBVIOUS
  <1>1. TypeOK /\ RowsFollowControl /\ LedgerAgrees /\ QuotaRespected
    BY DEF BudgetInv
  <1>2. CASE Tick \/ \E r \in Runs : HeartbeatRenews(r)
    BY <1>2, TimerStep
  <1>3. ASSUME NEW r \in Runs,
               \/ \E s \in Scopes : Start(r, s)
               \/ RefuseScope(r) \/ CheckBucket(r) \/ Deliver(r) \/ FailOrStop(r)
               \/ HandOver(r) \/ BeginDelivery(r) \/ Abandon(r) \/ SettleLost(r) \/ Crash(r)
               \/ HeartbeatRetires(r) \/ HeartbeatRefused(r)
               \/ HeartbeatRetries(r) \/ HeartbeatGivesUp(r)
        PROVE  BudgetInv'
    <2>1. UNCHANGED <<bucket, resv>>
      BY <1>3 DEF Start, RefuseScope, CheckBucket, Deliver, FailOrStop, HandOver,
                  BeginDelivery, Abandon, SettleLost, Crash, HeartbeatRetires,
                  HeartbeatRefused, HeartbeatRetries, HeartbeatGivesUp,
                  CancelOwner, Finish
    <2> QED
      BY <1>3, <2>1, ControlStep
  <1>4. ASSUME NEW r \in Runs, InsertBucket(r) PROVE BudgetInv'
    BY <1>4, InsertBucketStep
  <1>5. ASSUME NEW r \in Runs, Reserve(r) \/ ReserveLost(r) PROVE BudgetInv'
    <2>1. TakePlace(r) /\ UNCHANGED <<scope, success>>
      BY <1>5 DEF Reserve, ReserveLost
    <2>2. /\ pc' \in [Runs -> Control]
          /\ \A q \in Runs : q # r => pc'[q] = pc[q]
          /\ pc'[r] \in {"running", "gone"}
      BY <1>1, <1>5 DEF Reserve, ReserveLost, TypeOK, Control
    <2>3. hb' \in [Runs -> [on: BOOLEAN, wake: 0..Heartbeat, deadline: 0..Lease]]
      <3>1. hb' = hb \/ hb' = [hb EXCEPT ![r] = Fresh]
        BY <1>5 DEF Reserve, ReserveLost
      <3> QED
        BY <1>1, <3>1, HeartbeatType
    <2>4. TypeOK'
      BY <1>1, <2>1, <2>2, <2>3, TakePlaceStep DEF TypeOK
    <2>5. pc[r] = "reserving"
      BY <2>1 DEF TakePlace
    <2>6. RowsFollowControl'
      BY <1>1, <2>1, <2>2, <2>5, TakePlaceStep DEF RowsFollowControl
    <2> QED
      BY <2>1, <2>4, <2>6, TakePlaceStep DEF BudgetInv
  <1>6. ASSUME NEW r \in Runs, RefuseLimit(r) PROVE BudgetInv'
    <2>1. /\ UNCHANGED <<scope, hb, success>>
          /\ pc[r] = "reserving"
          /\ pc' = [pc EXCEPT ![r] = "rejected"]
      BY <1>6 DEF RefuseLimit
    <2>2. TypeOK'
      BY <1>1, <1>6, <2>1, RefuseLimitStep DEF TypeOK, Control
    <2>3. RowsFollowControl'
      BY <1>1, <1>6, <2>1, RefuseLimitStep DEF RowsFollowControl, TypeOK
    <2> QED
      BY <1>6, <2>2, <2>3, RefuseLimitStep DEF BudgetInv
  <1>7. ASSUME NEW r \in Runs, Settle(r) PROVE BudgetInv'
    <2>1. /\ UNCHANGED <<scope, hb, success>>
          /\ pc[r] = "settling"
          /\ pc' = [pc EXCEPT ![r] = "done"]
      BY <1>7 DEF Settle
    <2>2. TypeOK'
      BY <1>1, <1>7, <2>1, SettleStep DEF TypeOK, Control
    <2>3. RowsFollowControl'
      BY <1>1, <1>7, <2>1, SettleStep DEF RowsFollowControl, TypeOK
    <2> QED
      BY <1>7, <2>2, <2>3, SettleStep DEF BudgetInv
  <1>8. CASE UNCHANGED vars
    <2>1. UNCHANGED <<bucket, resv, scope, pc, hb, success>>
      BY <1>8 DEF vars
    <2>2. LedgerAgrees' /\ QuotaRespected'
      BY <1>1, <2>1, QuietStep
    <2>3. TypeOK' /\ RowsFollowControl'
      BY <1>1, <2>1 DEF TypeOK, RowsFollowControl
    <2> QED
      BY <2>2, <2>3 DEF BudgetInv
  <1> QED
    BY <1>2, <1>3, <1>4, <1>5, <1>6, <1>7, <1>8 DEF Next, RunStep, HeartbeatStep

-----------------------------------------------------------------------------
\* In every reachable state the counters agree with the rows, the rows with
\* the control of the runs, and the limit is respected.
THEOREM Inductive == Spec => []BudgetInv
  BY InitBudgetInv, StepBudgetInv, PTL DEF Spec

\* Type correctness; in particular the pending counter is never negative.
THEOREM TypeCorrect == Spec => []TypeOK
  <1>1. BudgetInv => TypeOK
    BY DEF BudgetInv
  <1> QED
    BY <1>1, Inductive, PTL

\* The limit of a task or question is never exceeded, whatever crashes,
\* cancellations, failed renewals and late settlements occur.
THEOREM LimitHolds == Spec => []QuotaRespected
  <1>1. BudgetInv => QuotaRespected
    BY DEF BudgetInv
  <1> QED
    BY <1>1, Inductive, PTL

\* No place leaks and none is freed twice.
THEOREM CountersExact == Spec => []LedgerAgrees
  <1>1. BudgetInv => LedgerAgrees
    BY DEF BudgetInv
  <1> QED
    BY <1>1, Inductive, PTL

\* The allowance task_usage shows is positive exactly when reserve accepts.
THEOREM UsageExact == Spec => []UsageAgreesWithReserve
  <1>1. BudgetInv => UsageAgreesWithReserve
    <2> SUFFICES ASSUME BudgetInv, NEW s \in Scopes
                 PROVE  HasRoom(s) <=> Available(s) > 0
      BY DEF UsageAgreesWithReserve
    <2>1. TypeOK /\ LedgerAgrees
      BY DEF BudgetInv
    <2>2. /\ PendingLeft(s) = Cardinality(In(s, "PENDING") \ Overdue(s))
          /\ PendingLeft(s) \in Nat
      BY <2>1, LeftIsLive
    <2>3. bucket[s].used \in Nat /\ Limit[s] \in Nat
      BY <2>1 DEF TypeOK
    <2> QED
      BY <2>2, <2>3 DEF HasRoom, Available
  <1> QED
    BY <1>1, Inductive, PTL

-----------------------------------------------------------------------------
\* How one step changes the status of the rows: a row appears only when a
\* place is taken, and otherwise only a pending row changes.
LEMMA StatusStep ==
  ASSUME BudgetInv, [Next]_vars
  PROVE  \/ /\ \A q \in Runs : resv'[q].status = resv[q].status
            /\ \A s \in Scopes : bucket'[s].used = bucket[s].used
            /\ \A q \in Runs : scope'[q] = scope[q] \/ resv[q].status = "NONE"
         \/ \E r \in Runs : (TakePlace(r) \/ RefuseLimit(r) \/ Settle(r)) /\ UNCHANGED scope
  <1>1. TypeOK /\ RowsFollowControl
    BY DEF BudgetInv
  <1>2. CASE Tick
    BY <1>1, <1>2 DEF Tick, TypeOK
  <1>3. ASSUME NEW r \in Runs, InsertBucket(r)
        PROVE  UNCHANGED <<resv, scope>> /\ \A s \in Scopes : bucket'[s].used = bucket[s].used
    BY <1>3, InsertCounters DEF InsertBucket
  <1>4. ASSUME NEW r \in Runs, HeartbeatRenews(r)
        PROVE  /\ \A q \in Runs : resv'[q].status = resv[q].status
               /\ UNCHANGED <<bucket, scope>>
    BY <1>1, <1>4 DEF HeartbeatRenews, TypeOK
  <1>5. ASSUME NEW r \in Runs,
               \/ \E s \in Scopes : Start(r, s)
               \/ RefuseScope(r) \/ CheckBucket(r) \/ Deliver(r) \/ FailOrStop(r)
               \/ HandOver(r) \/ BeginDelivery(r) \/ Abandon(r) \/ SettleLost(r) \/ Crash(r)
               \/ HeartbeatRetires(r) \/ HeartbeatRefused(r)
               \/ HeartbeatRetries(r) \/ HeartbeatGivesUp(r)
        PROVE  /\ UNCHANGED <<bucket, resv>>
               /\ \A q \in Runs : scope'[q] = scope[q] \/ pc[q] = "idle"
    <2> USE DEF Start, RefuseScope, CheckBucket, Deliver, FailOrStop, HandOver,
                BeginDelivery, Abandon, SettleLost, Crash, HeartbeatRetires,
                HeartbeatRefused, HeartbeatRetries, HeartbeatGivesUp,
                CancelOwner, Finish
    <2>1. UNCHANGED <<bucket, resv>>
      BY <1>5
    <2>2. \/ UNCHANGED scope
          \/ pc[r] = "idle" /\ \E s \in Scopes : scope' = [scope EXCEPT ![r] = s]
      BY <1>5
    <2> QED
      BY <1>1, <2>1, <2>2 DEF TypeOK
  <1>6. \A q \in Runs : pc[q] = "idle" => resv[q].status = "NONE"
    BY <1>1 DEF RowsFollowControl
  <1>7. ASSUME NEW r \in Runs, Reserve(r) \/ ReserveLost(r) \/ RefuseLimit(r) \/ Settle(r)
        PROVE  (TakePlace(r) \/ RefuseLimit(r) \/ Settle(r)) /\ UNCHANGED scope
    BY <1>7 DEF Reserve, ReserveLost, RefuseLimit, Settle
  <1>8. CASE UNCHANGED vars
    BY <1>8 DEF vars
  <1> QED
    BY <1>2, <1>3, <1>4, <1>5, <1>6, <1>7, <1>8 DEF Next, RunStep, HeartbeatStep

\* What a transaction may do to the status of a reservation row.
Kept(q) == resv'[q].status = resv[q].status
Reclaimed(q, s) == q \in Overdue(s) /\ resv'[q].status = "EXPIRED"
Ended(q) == resv[q].status = "PENDING" /\ resv'[q].status \in Terminal
Taken(q) == resv[q].status = "NONE" /\ resv'[q].status = "PENDING"

\* A transaction on a scope reclaims overdue reservations, and opens or ends
\* the one of its own run; the used counter never goes down.
LEMMA TransactionStep ==
  ASSUME BudgetInv, NEW r \in Runs,
         TakePlace(r) \/ RefuseLimit(r) \/ Settle(r), UNCHANGED scope
  PROVE  /\ scope[r] \in Scopes
         /\ \A q \in Runs : q # r => Kept(q) \/ Reclaimed(q, scope[r])
         /\ Kept(r) \/ Ended(r) \/ (TakePlace(r) /\ Taken(r))
         /\ \A s \in Scopes : bucket'[s].used >= bucket[s].used
  <1>1. TypeOK /\ RowsFollowControl
    BY DEF BudgetInv
  <1>2. scope[r] \in Scopes
    BY <1>1 DEF RowsFollowControl, TakePlace, RefuseLimit, Settle
  <1>3. \A q \in Runs : Swept(scope[r])[q].status = IF q \in Overdue(scope[r]) THEN "EXPIRED"
                                                   ELSE resv[q].status
    BY DEF Swept
  <1>4. \A q \in Overdue(scope[r]) : resv[q].status = "PENDING"
    BY DEF Overdue, In
  <1>5. CASE TakePlace(r)
    <2>1. resv[r].status = "NONE"
      BY <1>1, <1>5 DEF RowsFollowControl, TakePlace
    <2>2. \A q \in Runs : resv'[q].status = IF q = r THEN "PENDING" ELSE Swept(scope[r])[q].status
      BY <1>5 DEF TakePlace, Swept
    <2>3. \A s \in Scopes : bucket'[s].used = bucket[s].used
      BY <1>1, <1>2, <1>5 DEF TakePlace, WithCounters, TypeOK
    <2>4. \A s \in Scopes : bucket'[s].used >= bucket[s].used
      BY <1>1, <2>3 DEF TypeOK
    <2> QED
      <3>1. ASSUME NEW q \in Runs, q # r
            PROVE  Kept(q) \/ Reclaimed(q, scope[r])
        <4>1. resv'[q].status = Swept(scope[r])[q].status
          BY <2>2, <3>1
        <4>2. Swept(scope[r])[q].status = IF q \in Overdue(scope[r]) THEN "EXPIRED"
                                          ELSE resv[q].status
          BY <1>3
        <4> QED
          BY <4>1, <4>2 DEF Kept, Reclaimed
      <3>2. Taken(r)
        BY <2>1, <2>2 DEF Taken
      <3> QED
        BY <1>2, <1>5, <2>1, <2>4, <3>1, <3>2
  <1>6. CASE RefuseLimit(r)
    <2>1. \A q \in Runs : resv'[q].status = Swept(scope[r])[q].status
      BY <1>6 DEF RefuseLimit
    <2>2. \A s \in Scopes : bucket'[s].used = bucket[s].used
      BY <1>1, <1>2, <1>6 DEF RefuseLimit, WithCounters, TypeOK
    <2>3. \A s \in Scopes : bucket'[s].used >= bucket[s].used
      BY <1>1, <2>2 DEF TypeOK
    <2> QED
      <3>1. \A q \in Runs : Kept(q) \/ Reclaimed(q, scope[r])
        BY <1>3, <2>1 DEF Kept, Reclaimed
      <3>2. Kept(r) \/ Ended(r)
        BY <1>4, <3>1 DEF Terminal, Reclaimed, Ended
      <3> QED
        BY <1>2, <2>3, <3>1, <3>2, Zenon
  <1>7. CASE Settle(r)
    <2> DEFINE open == resv[r].status = "PENDING" /\ r \notin Overdue(scope[r])
    <2>1. \A q \in Runs : resv'[q].status = IF q = r /\ open THEN Closed(r).status
                                           ELSE Swept(scope[r])[q].status
      BY <1>7 DEF Settle, Swept
    <2>2. Closed(r).status \in Terminal
      BY DEF Closed, Terminal
    <2>3. \A s \in Scopes : \/ bucket'[s].used = bucket[s].used
                            \/ bucket'[s].used = bucket[s].used + 1
                            \/ bucket'[s].used = bucket[s].used + 0
      BY <1>1, <1>2, <1>7 DEF Settle, WithCounters, TypeOK
    <2>4. \A s \in Scopes : bucket'[s].used >= bucket[s].used
      BY <1>1, <2>3 DEF TypeOK
    <2> QED
      <3>1. ASSUME NEW q \in Runs, q # r
            PROVE  Kept(q) \/ Reclaimed(q, scope[r])
        <4>1. resv'[q].status = Swept(scope[r])[q].status
          BY <2>1, <3>1
        <4>2. Swept(scope[r])[q].status = IF q \in Overdue(scope[r]) THEN "EXPIRED"
                                          ELSE resv[q].status
          BY <1>3
        <4> QED
          BY <4>1, <4>2 DEF Kept, Reclaimed
      <3>2. Kept(r) \/ Ended(r)
        <4>1. CASE open
          BY <2>1, <2>2, <4>1 DEF Ended
        <4>2. CASE ~open
          BY <1>3, <1>4, <2>1, <4>2 DEF Terminal, Kept, Ended
        <4> QED
          BY <4>1, <4>2
      <3> QED
        BY <1>2, <2>4, <3>1, <3>2
  <1> QED
    BY <1>5, <1>6, <1>7

\* A settled reservation stays settled and a used prompt stays used: late
\* settlements and renewals of a reclaimed reservation change nothing.
THEOREM SettledForGood == Spec => SettledOnce
  <1>1. ASSUME BudgetInv, [Next]_vars
        PROVE  [/\ \A r \in Runs : resv[r].status \in Terminal => resv'[r].status = resv[r].status
                /\ \A s \in Scopes : bucket'[s].used >= bucket[s].used]_vars
    <2>1. TypeOK
      BY <1>1 DEF BudgetInv
    <2>2. CASE /\ \A q \in Runs : resv'[q].status = resv[q].status
               /\ \A s \in Scopes : bucket'[s].used = bucket[s].used
      BY <2>1, <2>2 DEF TypeOK
    <2>3. ASSUME NEW r \in Runs, TakePlace(r) \/ RefuseLimit(r) \/ Settle(r), UNCHANGED scope
          PROVE  /\ \A q \in Runs : resv[q].status \in Terminal => resv'[q].status = resv[q].status
                 /\ \A s \in Scopes : bucket'[s].used >= bucket[s].used
      <3>1. \A q \in Overdue(scope[r]) : resv[q].status = "PENDING"
        BY DEF Overdue, In
      <3> QED
        BY <1>1, <2>3, <3>1, TransactionStep DEF Terminal, Kept, Reclaimed, Ended, Taken
    <2> QED
      BY <1>1, <2>2, <2>3, StatusStep
  <1> QED
    BY <1>1, Inductive, PTL DEF Spec, SettledOnce

-----------------------------------------------------------------------------
Held == [s \in Scopes |-> In(s, "PENDING")]
CountedIn == [s \in Scopes |-> In(s, "COMPLETED")]
Granted == {r \in Runs : resv[r].status # "NONE"}

\* The instance counts with the same Cardinality.
LEMMA SameCardinality == \A S : Quota!Cardinality(S) = Cardinality(S)
  BY DEF Quota!Cardinality, Cardinality

\* Taking a place is a Grant of the abstract quota: the reclaimed places are
\* given back first, and the run was never granted one before.
LEMMA TakePlaceGrants ==
  ASSUME BudgetInv, NEW r \in Runs, TakePlace(r), UNCHANGED scope
  PROVE  \E s \in Scopes, D \in SUBSET Runs : Quota!Grant(s, r, D)
  <1>1. PICK s \in Scopes : s = scope[r]
    BY DEF BudgetInv, RowsFollowControl, TakePlace
  <1>2. TypeOK /\ RowsFollowControl /\ LedgerAgrees
    BY DEF BudgetInv
  <1>3. resv[r].status = "NONE"
    BY <1>2 DEF RowsFollowControl, TakePlace
  <1>4. \A q \in Runs : resv'[q].status = IF q = r THEN "PENDING"
                                         ELSE IF q \in Overdue(s) THEN "EXPIRED"
                                         ELSE resv[q].status
    BY <1>1 DEF TakePlace, Swept
  <1>5. /\ Overdue(s) \subseteq In(s, "PENDING") /\ Overdue(s) \in SUBSET Runs
        /\ r \notin Overdue(s)
    BY <1>3 DEF Overdue, In
  <1>6. Granted' = Granted \union {r} /\ r \notin Granted
    <2>1. \A q \in Overdue(s) : resv[q].status = "PENDING"
      BY DEF Overdue, In
    <2> QED
      BY <1>3, <1>4, <2>1 DEF Granted
  <1>7. In(s, "PENDING")' = (In(s, "PENDING") \ Overdue(s)) \union {r}
    BY <1>1, <1>4, <1>5 DEF In
  <1>8. \A t \in Scopes \ {s} : In(t, "PENDING")' = In(t, "PENDING")
    BY <1>1, <1>3, <1>4, <1>5 DEF In
  <1>9. \A t \in Scopes : In(t, "COMPLETED")' = In(t, "COMPLETED")
    BY <1>3, <1>4, <1>5 DEF In
  <1>10. Held' = [Held EXCEPT ![s] = (@ \ Overdue(s)) \union {r}]
    BY <1>7, <1>8 DEF Held
  <1>11. CountedIn' = CountedIn
    BY <1>9 DEF CountedIn
  <1>12. Cardinality(Held[s] \ Overdue(s)) + Cardinality(CountedIn[s]) < Limit[s]
    <2>1. bucket[s].used + PendingLeft(s) < Limit[s]
      BY <1>1 DEF TakePlace, HasRoom
    <2>2. PendingLeft(s) = Cardinality(In(s, "PENDING") \ Overdue(s)) /\ PendingLeft(s) \in Nat
      BY <1>2, LeftIsLive
    <2>3. bucket[s].used = Cardinality(In(s, "COMPLETED")) /\ bucket[s].used \in Nat
      BY <1>2 DEF LedgerAgrees, TypeOK
    <2> QED
      BY <2>1, <2>2, <2>3 DEF Held, CountedIn
  <1>13. PICK D \in SUBSET Runs : D = Overdue(s)
    BY <1>5
  <1>14. Quota!Grant(s, r, D)
    BY <1>6, <1>10, <1>11, <1>12, <1>13, SameCardinality DEF Quota!Grant, Held, CountedIn, Granted
  <1> QED
    BY <1>14

\* A refusal gives the reclaimed places back.
LEMMA RefuseLimitReturns ==
  ASSUME BudgetInv, NEW r \in Runs, RefuseLimit(r)
  PROVE  \E s \in Scopes, D \in SUBSET Runs : Quota!Return(s, D)
  <1>1. PICK s \in Scopes : s = scope[r]
    BY DEF BudgetInv, RowsFollowControl, RefuseLimit
  <1>2. /\ scope' = scope
        /\ \A q \in Runs : resv'[q].status = IF q \in Overdue(s) THEN "EXPIRED" ELSE resv[q].status
    BY <1>1 DEF RefuseLimit, Swept
  <1>3. /\ Overdue(s) \in SUBSET Runs
        /\ \A q \in Overdue(s) : scope[q] = s /\ resv[q].status = "PENDING"
    BY DEF Overdue, In
  <1>4. Granted' = Granted
    BY <1>2, <1>3 DEF Granted
  <1>5. In(s, "PENDING")' = In(s, "PENDING") \ Overdue(s)
    BY <1>2, <1>3 DEF In
  <1>6. \A t \in Scopes \ {s} : In(t, "PENDING")' = In(t, "PENDING")
    BY <1>2, <1>3 DEF In
  <1>7. \A t \in Scopes : In(t, "COMPLETED")' = In(t, "COMPLETED")
    BY <1>2, <1>3 DEF In
  <1>8. Held' = [Held EXCEPT ![s] = @ \ Overdue(s)]
    BY <1>5, <1>6 DEF Held
  <1>9. CountedIn' = CountedIn
    BY <1>7 DEF CountedIn
  <1>10. Quota!Return(s, Overdue(s))
    BY <1>4, <1>8, <1>9 DEF Quota!Return, Held, CountedIn, Granted
  <1> QED
    BY <1>3, <1>10

\* A settlement turns the place it still holds into a counted response, or
\* gives it back.
LEMMA SettleCountsOrReturns ==
  ASSUME BudgetInv, NEW r \in Runs, Settle(r)
  PROVE  \E s \in Scopes, D \in SUBSET Runs : Quota!Return(s, D) \/ Quota!Count(s, r, D)
  <1>1. PICK s \in Scopes : s = scope[r]
    BY DEF BudgetInv, RowsFollowControl, Settle
  <1> DEFINE open == resv[r].status = "PENDING" /\ r \notin Overdue(s)
  <1>2. /\ scope' = scope
        /\ \A q \in Runs : resv'[q].status = IF q = r /\ open THEN Closed(r).status
                                           ELSE IF q \in Overdue(s) THEN "EXPIRED"
                                           ELSE resv[q].status
    BY <1>1 DEF Settle, Swept
  <1>3. /\ Overdue(s) \in SUBSET Runs
        /\ \A q \in Overdue(s) : scope[q] = s /\ resv[q].status = "PENDING"
    BY DEF Overdue, In
  <1>4. Closed(r).status = IF success[r] THEN "COMPLETED" ELSE "RELEASED"
    BY DEF Closed
  <1>5. Granted' = Granted
    BY <1>2, <1>3, <1>4 DEF Granted
  <1>6. \A t \in Scopes \ {s} : /\ In(t, "PENDING")' = In(t, "PENDING")
                                /\ In(t, "COMPLETED")' = In(t, "COMPLETED")
    BY <1>1, <1>2, <1>3, <1>4 DEF In
  <1>7. CASE open /\ success[r]
    <2>1. /\ In(s, "PENDING")' = (In(s, "PENDING") \ Overdue(s)) \ {r}
          /\ In(s, "COMPLETED")' = In(s, "COMPLETED") \union {r}
          /\ r \in In(s, "PENDING") \ Overdue(s)
      BY <1>1, <1>2, <1>3, <1>4, <1>7 DEF In
    <2>2. Held' = [Held EXCEPT ![s] = (@ \ Overdue(s)) \ {r}]
      BY <1>6, <2>1 DEF Held
    <2>3. CountedIn' = [CountedIn EXCEPT ![s] = @ \union {r}]
      BY <1>6, <2>1 DEF CountedIn
    <2>4. Quota!Count(s, r, Overdue(s))
      BY <1>5, <2>1, <2>2, <2>3 DEF Quota!Count, Held, CountedIn, Granted
    <2> QED
      BY <1>3, <2>4
  <1>8. CASE ~(open /\ success[r])
    <2> DEFINE D == Overdue(s) \union (IF open THEN {r} ELSE {})
    <2>1. /\ In(s, "PENDING")' = In(s, "PENDING") \ D
          /\ In(s, "COMPLETED")' = In(s, "COMPLETED")
      BY <1>1, <1>2, <1>3, <1>4, <1>8 DEF In
    <2>2. D \in SUBSET Runs
      BY <1>3
    <2> HIDE DEF D
    <2>3. Held' = [Held EXCEPT ![s] = @ \ D]
      BY <1>6, <2>1 DEF Held
    <2>4. CountedIn' = CountedIn
      BY <1>6, <2>1 DEF CountedIn
    <2>5. Quota!Return(s, D)
      BY <1>5, <2>3, <2>4 DEF Quota!Return, Held, CountedIn, Granted
    <2> QED
      BY <2>2, <2>5
  <1> QED
    BY <1>7, <1>8

\* The rows, leases and heartbeats implement the abstract quota: every step is
\* one of its steps or leaves its state alone.
THEOREM QuotaImplemented == Spec => ImplementsQuota
  <1>1. Init => Quota!Init
    <2> SUFFICES ASSUME Init PROVE Quota!Init
      OBVIOUS
    <2>1. /\ \A s \in Scopes : In(s, "PENDING") = {} /\ In(s, "COMPLETED") = {}
          /\ Granted = {}
      BY DEF Init, In, Granted
    <2> QED
      BY <2>1 DEF Quota!Init, Granted
  <1>2. ASSUME BudgetInv, [Next]_vars PROVE [Quota!Next]_(Quota!vars)
    <2>1. CASE /\ \A q \in Runs : resv'[q].status = resv[q].status
               /\ \A q \in Runs : scope'[q] = scope[q] \/ resv[q].status = "NONE"
      <3>1. \A s \in Scopes : /\ In(s, "PENDING")' = In(s, "PENDING")
                              /\ In(s, "COMPLETED")' = In(s, "COMPLETED")
        BY <2>1 DEF In
      <3>2. Held' = Held /\ CountedIn' = CountedIn
        BY <3>1 DEF Held, CountedIn
      <3>3. Granted' = Granted
        BY <2>1 DEF Granted
      <3>4. UNCHANGED Quota!vars
        BY <3>2, <3>3 DEF Quota!vars, Held, CountedIn, Granted
      <3> QED
        BY <3>4
    <2>2. ASSUME NEW r \in Runs, TakePlace(r), UNCHANGED scope PROVE Quota!Next
      BY <1>2, <2>2, TakePlaceGrants DEF Quota!Next
    <2>3. ASSUME NEW r \in Runs, RefuseLimit(r) PROVE Quota!Next
      BY <1>2, <2>3, RefuseLimitReturns DEF Quota!Next
    <2>4. ASSUME NEW r \in Runs, Settle(r) PROVE Quota!Next
      BY <1>2, <2>4, SettleCountsOrReturns DEF Quota!Next
    <2> QED
      BY <1>2, <2>1, <2>2, <2>3, <2>4, StatusStep
  <1> QED
    BY <1>1, <1>2, Inductive, PTL DEF Spec, ImplementsQuota, Quota!Spec

-----------------------------------------------------------------------------
(***************************************************************************)
(* Runs whose heartbeats are on time.  What is left of a lease is as much  *)
(* ahead of the next heartbeat as the lease is longer than its interval.   *)
(***************************************************************************)
Timely == Faults \intersect {"db", "stall"} = {}

\* A run under way has a reservation that its heartbeat will find alive.
Covered(r) ==
  /\ pc[r] \in {"running", "handed"} =>
       /\ resv[r].status = "PENDING" /\ hb[r].on
       /\ resv[r].lease >= (Lease - Heartbeat) + hb[r].wake
  /\ pc[r] = "settling" => resv[r].status = "PENDING" /\ resv[r].lease > 0
LeasesCovered == \A r \in Runs : Covered(r)

LEMMA CoveredIsLive ==
  ASSUME TypeOK, NEW r \in Runs, Covered(r), pc[r] \in {"running", "handed", "settling"}
  PROVE  resv[r].status = "PENDING" /\ resv[r].lease > 0 /\ Renewable(r)
  <1>1. resv[r].lease \in Nat /\ hb[r].wake \in Nat
    BY DEF TypeOK
  <1> QED
    BY <1>1 DEF Covered, Renewable

\* Another run's step reclaims only what is overdue.
LEMMA StaysCovered ==
  ASSUME TypeOK, NEW r \in Runs, Covered(r), pc'[r] = pc[r], hb'[r] = hb[r],
         resv'[r] = resv[r] \/ resv[r].lease = 0 \/ resv[r].status # "PENDING"
  PROVE  Covered(r)'
  <1>1. CASE pc[r] \in {"running", "handed", "settling"}
    <2>1. resv'[r] = resv[r]
      BY <1>1, CoveredIsLive
    <2> QED
      BY <2>1 DEF Covered
  <1>2. CASE pc[r] \notin {"running", "handed", "settling"}
    BY <1>2 DEF Covered
  <1> QED
    BY <1>1, <1>2

\* The clock runs only when no heartbeat and no settlement is due.
LEMMA TickCovers == ASSUME Timely, TypeOK, LeasesCovered, Tick PROVE LeasesCovered'
  <1> SUFFICES ASSUME NEW r \in Runs PROVE Covered(r)'
    BY DEF LeasesCovered
  <1>1. /\ ~Awake(r) /\ pc[r] # "settling" /\ pc' = pc
        /\ resv'[r] = [status |-> resv[r].status, lease |-> Less(resv[r].lease)]
        /\ hb'[r] = [on |-> hb[r].on, wake |-> Less(hb[r].wake), deadline |-> Less(hb[r].deadline)]
    BY DEF Tick, Timely
  <1>2. /\ resv[r].lease \in Nat /\ hb[r].wake \in Nat
    BY DEF TypeOK
  <1>3. CASE pc[r] \in {"running", "handed"}
    <2>1. resv[r].status = "PENDING" /\ hb[r].on /\ resv[r].lease >= (Lease - Heartbeat) + hb[r].wake
      BY <1>3 DEF LeasesCovered, Covered
    <2>2. hb[r].wake > 0
      BY <1>1, <1>2, <2>1 DEF Awake
    <2>3. Less(resv[r].lease) >= (Lease - Heartbeat) + Less(hb[r].wake)
      BY <1>2, <2>1, <2>2 DEF Less
    <2>4. resv'[r].status = "PENDING" /\ resv'[r].lease >= (Lease - Heartbeat) + hb'[r].wake
      BY <1>1, <2>1, <2>3
    <2>5. hb'[r].on
      BY <1>1, <2>1
    <2>6. pc'[r] # "settling"
      BY <1>1
    <2> QED
      BY <2>4, <2>5, <2>6 DEF Covered
  <1>4. CASE pc[r] \notin {"running", "handed"}
    BY <1>1, <1>4 DEF Covered
  <1> QED
    BY <1>3, <1>4

\* A transaction leaves the rows that are not overdue, its own apart.
LEMMA TransactionCovers ==
  ASSUME TypeOK, RowsFollowControl, LeasesCovered, NEW r \in Runs,
         Reserve(r) \/ ReserveLost(r) \/ RefuseLimit(r) \/ Settle(r)
  PROVE  LeasesCovered'
  <1>1. \A q \in Runs \ {r} : pc'[q] = pc[q] /\ hb'[q] = hb[q]
    BY DEF Reserve, ReserveLost, RefuseLimit, Settle, TypeOK
  <1>2. \A q \in Runs \ {r} : resv'[q] = Swept(scope[r])[q]
    BY DEF Reserve, ReserveLost, TakePlace, RefuseLimit, Settle, Swept
  <1>3. ASSUME NEW q \in Runs \ {r} PROVE Covered(q)'
    <2>1. resv'[q] = resv[q] \/ resv[q].lease = 0
      BY <1>2 DEF Swept, Overdue
    <2> QED
      BY <1>1, <2>1, StaysCovered DEF LeasesCovered
  <1>4. Covered(r)'
    <2>1. CASE Reserve(r)
      <3>1. pc'[r] = "running" /\ hb'[r] = Fresh /\ resv'[r] = [status |-> "PENDING", lease |-> Lease]
        BY <2>1 DEF Reserve, TakePlace, TypeOK, Swept
      <3> QED
        BY <3>1 DEF Covered, Fresh
    <2>2. CASE ReserveLost(r) \/ RefuseLimit(r) \/ Settle(r)
      <3>1. pc'[r] \in {"gone", "rejected", "done"}
        BY <2>2 DEF ReserveLost, RefuseLimit, Settle, TypeOK
      <3> QED
        BY <3>1 DEF Covered
    <2> QED
      BY <2>1, <2>2
  <1> QED
    BY <1>3, <1>4 DEF LeasesCovered

\* The other steps of a run: it finishes while its reservation is alive, and
\* no heartbeat has a reason to cancel it.
LEMMA RunCovers ==
  ASSUME Timely, TypeOK, LeasesCovered, NEW r \in Runs, UNCHANGED resv,
         \/ \E s \in Scopes : Start(r, s)
         \/ RefuseScope(r) \/ CheckBucket(r) \/ InsertBucket(r) \/ Deliver(r) \/ FailOrStop(r)
         \/ HandOver(r) \/ BeginDelivery(r) \/ Abandon(r) \/ SettleLost(r) \/ Crash(r)
         \/ HeartbeatRetires(r) \/ HeartbeatRefused(r)
  PROVE  LeasesCovered'
  <1> USE DEF Start, RefuseScope, CheckBucket, InsertBucket, Deliver, FailOrStop, HandOver,
              BeginDelivery, Abandon, SettleLost, Crash, HeartbeatRetires, HeartbeatRefused,
              CancelOwner, Finish
  <1>1. \A q \in Runs \ {r} : pc'[q] = pc[q] /\ hb'[q] = hb[q]
    BY DEF TypeOK
  <1>2. \A q \in Runs \ {r} : Covered(q)'
    BY <1>1, StaysCovered DEF LeasesCovered
  <1>3. Covered(r)
    BY DEF LeasesCovered
  <1>4. CASE HandOver(r) \/ BeginDelivery(r)
    <2>1. pc[r] \in {"running", "handed"} /\ pc'[r] \in {"running", "handed"} /\ hb' = hb
      BY <1>4 DEF TypeOK
    <2> QED
      BY <1>2, <1>3, <2>1 DEF Covered, LeasesCovered
  <1>5. CASE Deliver(r) \/ FailOrStop(r)
    <2>1. pc[r] = "running" /\ pc'[r] = "settling"
      BY <1>5 DEF TypeOK
    <2>2. resv[r].status = "PENDING" /\ resv[r].lease > 0
      BY <1>3, <2>1, CoveredIsLive
    <2> QED
      BY <1>2, <2>1, <2>2 DEF Covered, LeasesCovered
  <1>6. CASE HeartbeatRefused(r)
    <2>1. pc[r] \notin {"running", "handed", "settling"}
      BY <1>3, <1>6, CoveredIsLive
    <2>2. pc'[r] = "gone"
      BY <1>6, <2>1 DEF TypeOK
    <2> QED
      BY <1>2, <2>2 DEF Covered, LeasesCovered
  <1>7. CASE \/ \E s \in Scopes : Start(r, s)
             \/ RefuseScope(r) \/ CheckBucket(r) \/ InsertBucket(r) \/ Abandon(r) \/ SettleLost(r)
             \/ Crash(r) \/ HeartbeatRetires(r)
    <2>1. pc'[r] \notin {"running", "handed", "settling"}
      BY <1>7 DEF TypeOK, OwnerDone
    <2> QED
      BY <1>2, <2>1 DEF Covered, LeasesCovered
  <1> QED
    BY <1>4, <1>5, <1>6, <1>7

\* A renewal gives its run a whole lease.
LEMMA RenewalCovers == ASSUME TypeOK, LeasesCovered, NEW r \in Runs, HeartbeatRenews(r) PROVE LeasesCovered'
  <1>1. /\ \A q \in Runs \ {r} : resv'[q] = resv[q] /\ hb'[q] = hb[q]
        /\ resv'[r].status = "PENDING" /\ resv'[r].lease = Lease /\ hb'[r] = Fresh /\ pc' = pc
    BY DEF HeartbeatRenews, Renewable, TypeOK
  <1>2. \A q \in Runs \ {r} : Covered(q)'
    BY <1>1 DEF LeasesCovered, Covered
  <1>3. Covered(r)'
    BY <1>1 DEF Covered, Fresh
  <1> QED
    BY <1>2, <1>3 DEF LeasesCovered

LEMMA StepCovers == ASSUME Timely, BudgetInv, LeasesCovered, [Next]_vars PROVE LeasesCovered'
  <1>1. TypeOK /\ RowsFollowControl
    BY DEF BudgetInv
  <1>2. ASSUME NEW r \in Runs, HeartbeatRetries(r) \/ HeartbeatGivesUp(r) PROVE FALSE
    BY <1>2 DEF HeartbeatRetries, HeartbeatGivesUp, Timely
  <1>3. ASSUME NEW r \in Runs,
               \/ \E s \in Scopes : Start(r, s)
               \/ RefuseScope(r) \/ CheckBucket(r) \/ InsertBucket(r) \/ Deliver(r) \/ FailOrStop(r)
               \/ HandOver(r) \/ BeginDelivery(r) \/ Abandon(r) \/ SettleLost(r) \/ Crash(r)
               \/ HeartbeatRetires(r) \/ HeartbeatRefused(r)
        PROVE  LeasesCovered'
    <2>1. UNCHANGED resv
      BY <1>3 DEF Start, RefuseScope, CheckBucket, InsertBucket, Deliver, FailOrStop, HandOver,
                  BeginDelivery, Abandon, SettleLost, Crash, HeartbeatRetires, HeartbeatRefused,
                  CancelOwner, Finish
    <2> QED
      BY <1>1, <1>3, <2>1, RunCovers
  <1>4. CASE UNCHANGED vars
    BY <1>4 DEF vars, LeasesCovered, Covered
  <1> QED
    BY <1>1, <1>2, <1>3, <1>4, TickCovers, TransactionCovers, RenewalCovers
       DEF Next, RunStep, HeartbeatStep

LEMMA AlwaysCovered == ASSUME Timely PROVE Spec => []LeasesCovered
  <1>1. Init => LeasesCovered
    BY DEF Init, LeasesCovered, Covered
  <1>2. BudgetInv /\ LeasesCovered /\ [Next]_vars => LeasesCovered'
    BY StepCovers
  <1> QED
    BY <1>1, <1>2, Inductive, PTL DEF Spec

\* With heartbeats on time and renewals that reach the database, cleanup never
\* reclaims the place of a run that is still generating or settling.
THEOREM PlacesKept == Timely => (Spec => []LiveRunsHoldPlaces)
  <1> SUFFICES ASSUME Timely PROVE Spec => []LiveRunsHoldPlaces
    OBVIOUS
  <1>1. BudgetInv /\ LeasesCovered => LiveRunsHoldPlaces
    BY CoveredIsLive DEF BudgetInv, LeasesCovered, LiveRunsHoldPlaces
  <1> QED
    BY <1>1, AlwaysCovered, Inductive, PTL

\* Then the responses that were counted and those that were delivered and wait
\* for their settlement are together within the limit: each of the latter
\* still has its place.
THEOREM DeliveriesLimited == Timely => (Spec => []DeliveredWithinLimit)
  <1> SUFFICES ASSUME Timely PROVE Spec => []DeliveredWithinLimit
    OBVIOUS
  <1>1. ASSUME BudgetInv, LeasesCovered PROVE DeliveredWithinLimit
    <2> SUFFICES ASSUME NEW s \in Scopes
                 PROVE  Cardinality(In(s, "COMPLETED") \union
                          {r \in Runs : scope[r] = s /\ success[r] /\ pc[r] \in {"handed", "settling"}})
                          <= Limit[s]
      BY DEF DeliveredWithinLimit
    <2> DEFINE D == {r \in Runs : scope[r] = s /\ success[r] /\ pc[r] \in {"handed", "settling"}}
               C == In(s, "COMPLETED")
               W == In(s, "PENDING")
    <2>1. TypeOK /\ LedgerAgrees /\ QuotaRespected
      BY <1>1 DEF BudgetInv
    <2>2. D \subseteq W
      BY <1>1, <2>1, CoveredIsLive DEF LeasesCovered, In
    <2>3. /\ IsFiniteSet(C) /\ IsFiniteSet(W) /\ Cardinality(C) \in Nat /\ Cardinality(W) \in Nat
      BY InFinite
    <2>4. C \intersect W = {}
      BY DEF In
    <2>5. IsFiniteSet(C \union W) /\ Cardinality(C \union W) = Cardinality(C) + Cardinality(W)
      <3>1. /\ IsFiniteSet(C \union W)
            /\ Cardinality(C \union W) = Cardinality(C) + Cardinality(W) - Cardinality(C \intersect W)
        BY <2>3, FS_Union
      <3>2. Cardinality(C \intersect W) = 0
        BY <2>4, FS_EmptySet
      <3> QED
        BY <2>3, <3>1, <3>2
    <2>6. Cardinality(C) + Cardinality(W) <= Limit[s]
      BY <2>1 DEF LedgerAgrees, QuotaRespected
    <2>7. C \union D \subseteq C \union W
      BY <2>2
    <2>8. Cardinality(C \union D) <= Cardinality(C \union W) /\ Cardinality(C \union D) \in Nat
      BY <2>5, <2>7, FS_Subset, FS_CardinalityType
    <2>9. Limit[s] \in Nat
      OBVIOUS
    <2> HIDE DEF C, W
    <2>10. Cardinality(C \union D) <= Limit[s]
      BY <2>3, <2>5, <2>6, <2>8, <2>9
    <2> QED
      BY <2>10 DEF C
  <1>2. BudgetInv /\ LeasesCovered => DeliveredWithinLimit
    BY <1>1
  <1> QED
    BY <1>2, AlwaysCovered, Inductive, PTL

-----------------------------------------------------------------------------
\* A reservation is counted by the settlement of its run, which ends there.
CountedIsOver == \A r \in Runs : resv[r].status = "COMPLETED" => success[r] /\ pc[r] = "done"

\* finish keeps the success it was called with, so a response that failed, was
\* stopped or lost its place is never counted, with any faults.
THEOREM DeliveredOnly == Spec => []OnlyDeliveredCounts
  <1>1. Init => CountedIsOver
    BY DEF Init, CountedIsOver
  <1>2. ASSUME BudgetInv, CountedIsOver, [Next]_vars PROVE CountedIsOver'
    <2> SUFFICES ASSUME NEW q \in Runs, resv'[q].status = "COMPLETED"
                 PROVE  success'[q] /\ pc'[q] = "done"
      BY DEF CountedIsOver
    <2>1. TypeOK /\ RowsFollowControl
      BY <1>2 DEF BudgetInv
    <2>2. ASSUME resv[q].status = "COMPLETED" PROVE success'[q] /\ pc'[q] = "done"
      <3>1. success[q] /\ pc[q] = "done"
        BY <1>2, <2>2 DEF CountedIsOver
      <3>2. ASSUME NEW r \in Runs, RunStep(r) PROVE success'[q] /\ pc'[q] = "done"
        BY <2>1, <3>1, <3>2, Zenon DEF RunStep, Start, RefuseScope, CheckBucket, InsertBucket, Reserve, ReserveLost,
           TakePlace, RefuseLimit, Deliver, FailOrStop, HandOver, BeginDelivery, Abandon, Settle,
           SettleLost, Crash, Finish, TypeOK
      <3>3. ASSUME NEW r \in Runs, HeartbeatStep(r) PROVE success'[q] /\ pc'[q] = "done"
        BY <2>1, <3>1, <3>3 DEF HeartbeatStep, HeartbeatRetires, HeartbeatRenews, HeartbeatRefused,
           HeartbeatRetries, HeartbeatGivesUp, CancelOwner, Finish, OwnerDone, TypeOK
      <3>4. CASE Tick \/ UNCHANGED vars
        BY <3>1, <3>4 DEF Tick, vars
      <3> QED
        BY <1>2, <3>2, <3>3, <3>4 DEF Next
    <2>3. ASSUME resv[q].status # "COMPLETED" PROVE Settle(q) /\ success[q]
      <3>1. PICK r \in Runs : (TakePlace(r) \/ RefuseLimit(r) \/ Settle(r)) /\ UNCHANGED scope
        BY <1>2, <2>3, StatusStep
      <3>2. \A p \in Runs : Swept(scope[r])[p].status # "COMPLETED" \/ resv[p].status = "COMPLETED"
        BY DEF Swept
      <3>3. CASE TakePlace(r) \/ RefuseLimit(r)
        <4>1. resv'[q] = Swept(scope[r])[q] \/ resv'[q].status = "PENDING"
          <5>1. CASE TakePlace(r)
            <6>1. resv' = [Swept(scope[r]) EXCEPT ![r] = [status |-> "PENDING", lease |-> Lease]]
              BY <5>1 DEF TakePlace
            <6>2. Swept(scope[r]) = [p \in Runs |-> Swept(scope[r])[p]]
              BY DEF Swept
            <6>3. CASE q = r
              BY <6>1, <6>2, <6>3
            <6>4. CASE q # r
              BY <6>1, <6>4
            <6> QED
              BY <6>3, <6>4
          <5>2. CASE RefuseLimit(r)
            BY <5>2 DEF RefuseLimit
          <5> QED
            BY <3>3, <5>1, <5>2
        <4> QED
          BY <2>3, <3>2, <4>1
      <3>4. CASE Settle(r)
        <4>1. q = r
          BY <2>3, <3>2, <3>4 DEF Settle, Swept
        <4>2. resv'[q] = Closed(q)
          BY <2>3, <3>2, <3>4, <4>1 DEF Settle, Swept
        <4> QED
          BY <3>4, <4>1, <4>2 DEF Closed
      <3> QED
        BY <3>1, <3>3, <3>4
    <2>4. ASSUME Settle(q), success[q] PROVE success'[q] /\ pc'[q] = "done"
      BY <2>1, <2>4 DEF Settle, TypeOK
    <2> QED
      BY <2>2, <2>3, <2>4
  <1>3. CountedIsOver => OnlyDeliveredCounts
    BY DEF CountedIsOver, OnlyDeliveredCounts
  <1>4. BudgetInv /\ CountedIsOver /\ [Next]_vars => CountedIsOver'
    BY <1>2
  <1> QED
    BY <1>1, <1>3, <1>4, Inductive, PTL DEF Spec
==============================================================================
