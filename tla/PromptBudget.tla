---------------------------- MODULE PromptBudget ----------------------------
(***************************************************************************)
(* The LLM prompt budget of the experiment platform                        *)
(* (utils/experiment_prompt_budgets.py and the calls main.py makes to it). *)
(*                                                                         *)
(* A bucket row counts the prompts used and pending in a scope; every      *)
(* generation (a BudgetRun) inserts a reservation row with a lease, which  *)
(* a heartbeat task renews until the run settles.  The bucket row is       *)
(* locked by a no-op UPDATE, so one database transaction is one action;    *)
(* everything between two transactions interleaves.                        *)
(*                                                                         *)
(* Time is kept as what is left of each timer: a lease of 0 has expired,   *)
(* a wake of 0 means the heartbeat's sleep is over, a deadline of 0 means  *)
(* its monotonic deadline has passed.                                      *)
(***************************************************************************)
EXTENDS Integers, FiniteSets

CONSTANTS
  Runs,       \* the generations requested over the life of a task
  Scopes,     \* the budget scopes the task has: TASK, or its questions
  Limit,      \* the configured limit of each scope
  Lease,      \* LEASE_SECONDS, in ticks
  Heartbeat,  \* HEARTBEAT_SECONDS, in ticks
  NoScope,    \* scope of a run that has not chosen one
  Faults      \* what may go wrong, a subset of AllFaults

(***************************************************************************)
(* crash:  a server process dies with the run it serves                    *)
(* db:     a database call of the heartbeat or of settle raises            *)
(* stall:  the event loop or a transaction is late by any amount           *)
(* cancel: a cancellation lands inside reserve or inside settle            *)
(***************************************************************************)
AllFaults == {"crash", "db", "stall", "cancel"}

ASSUME RunsAssumption == IsFiniteSet(Runs)
ASSUME ScopesAssumption == NoScope \notin Scopes
ASSUME LimitAssumption == Limit \in [Scopes -> Nat]
ASSUME TimersAssumption ==
  Lease \in Nat /\ Heartbeat \in Nat /\ 0 < Heartbeat /\ Heartbeat < Lease
ASSUME FaultsAssumption == Faults \subseteq AllFaults

VARIABLES
  bucket,   \* experiment_prompt_bucket, one row per scope
  resv,     \* experiment_prompt_reservation, one row per run at most
  scope,    \* the scope a run resolved
  pc,       \* where the run is in process_chat
  hb,       \* the run's heartbeat task
  success   \* the success its finish() was called with

vars == <<bucket, resv, scope, pc, hb, success>>

Status == {"NONE", "PENDING", "EXPIRED", "COMPLETED", "RELEASED"}
Terminal == {"EXPIRED", "COMPLETED", "RELEASED"}
\* handed: the StreamingResponse is returned, its body not iterated yet.
\* gone: the run ended without finish(): crash, abandoned body, lost reserve.
Control == {"idle", "checking", "inserting", "reserving", "rejected",
            "running", "handed", "settling", "done", "gone"}

TypeOK ==
  /\ bucket \in [Scopes -> [exists: BOOLEAN, used: Nat, pending: Nat]]
  /\ resv \in [Runs -> [status: Status, lease: 0..Lease]]
  /\ scope \in [Runs -> Scopes \union {NoScope}]
  /\ pc \in [Runs -> Control]
  /\ hb \in [Runs -> [on: BOOLEAN, wake: 0..Heartbeat, deadline: 0..Lease]]
  /\ success \in [Runs -> BOOLEAN]

Stopped == [on |-> FALSE, wake |-> 0, deadline |-> 0]
Fresh == [on |-> TRUE, wake |-> Heartbeat, deadline |-> Lease]

Init ==
  /\ bucket = [s \in Scopes |-> [exists |-> FALSE, used |-> 0, pending |-> 0]]
  /\ resv = [r \in Runs |-> [status |-> "NONE", lease |-> 0]]
  /\ scope = [r \in Runs |-> NoScope]
  /\ pc = [r \in Runs |-> "idle"]
  /\ hb = [r \in Runs |-> Stopped]
  /\ success = [r \in Runs |-> FALSE]

-----------------------------------------------------------------------------
(***************************************************************************)
(* What the rows say                                                       *)
(***************************************************************************)
In(s, st) == {r \in Runs : scope[r] = s /\ resv[r].status = st}

\* Seeded defect: the cleanup forgets to compare the lease with the clock.
OverdueDefect(s) == In(s, "PENDING")

\* Pending reservations whose lease is over: what _locked_bucket expires.
Overdue(s) == {r \in In(s, "PENDING") : resv[r].lease = 0}

\* row.pending after _locked_bucket took the expired ones off.
PendingLeft(s) == bucket[s].pending - Cardinality(Overdue(s))

\* Seeded defect: the comparison with the limit is off by one.
HasRoomOffByOne(s) == bucket[s].used + PendingLeft(s) <= Limit[s]

\* Seeded defect: places held by requests under way are not taken into account.
HasRoomIgnoringPending(s) == bucket[s].used < Limit[s]

HasRoom(s) == bucket[s].used + PendingLeft(s) < Limit[s]

\* The bucket rows once s has these counters.
WithCounters(s, used, pending) ==
  [bucket EXCEPT ![s] = [exists |-> bucket[s].exists, used |-> used, pending |-> pending]]

\* The reservation rows once _locked_bucket has expired those of scope s.
Swept(s) ==
  [r \in Runs |-> IF r \in Overdue(s) THEN [status |-> "EXPIRED", lease |-> 0]
                                      ELSE resv[r]]

\* Seeded defect: the usage shown counts leases nobody has reclaimed yet.
AvailableCountingOverdue(s) ==
  LET left == Limit[s] - bucket[s].used - bucket[s].pending
  IN  IF left > 0 THEN left ELSE 0

\* usage_value's available, from task_usage: expired leases do not count.
Available(s) ==
  LET live == Cardinality(In(s, "PENDING") \ Overdue(s))
      left == Limit[s] - bucket[s].used - live
  IN  IF left > 0 THEN left ELSE 0

OwnerDone(r) == pc[r] \in {"done", "gone"}

-----------------------------------------------------------------------------
(***************************************************************************)
(* reserve: resolve the scope, ensure the bucket, take a place             *)
(***************************************************************************)
Start(r, s) ==
  /\ pc[r] = "idle"
  /\ scope' = [scope EXCEPT ![r] = s]
  /\ pc' = [pc EXCEPT ![r] = "checking"]
  /\ UNCHANGED <<bucket, resv, hb, success>>

\* A question id that has no limit in the budget: 422, nothing is stored.
RefuseScope(r) ==
  /\ pc[r] = "idle"
  /\ pc' = [pc EXCEPT ![r] = "rejected"]
  /\ UNCHANGED <<bucket, resv, scope, hb, success>>

CheckBucket(r) ==
  /\ pc[r] = "checking"
  /\ pc' = [pc EXCEPT ![r] = IF bucket[scope[r]].exists THEN "reserving"
                                                        ELSE "inserting"]
  /\ UNCHANGED <<bucket, resv, scope, hb, success>>

\* Two first requests may both insert: the second gets an IntegrityError.
InsertBucket(r) ==
  /\ pc[r] = "inserting"
  /\ bucket' = IF bucket[scope[r]].exists THEN bucket
               ELSE [bucket EXCEPT ![scope[r]] =
                       [exists |-> TRUE, used |-> 0, pending |-> 0]]
  /\ pc' = [pc EXCEPT ![r] = "reserving"]
  /\ UNCHANGED <<resv, scope, hb, success>>

TakePlace(r) ==
  LET s == scope[r] IN
  /\ pc[r] = "reserving"
  /\ HasRoom(s)
  /\ bucket' = WithCounters(s, bucket[s].used, PendingLeft(s) + 1)
  /\ resv' = [Swept(s) EXCEPT ![r] = [status |-> "PENDING", lease |-> Lease]]

Reserve(r) ==
  /\ TakePlace(r)
  /\ pc' = [pc EXCEPT ![r] = "running"]
  /\ hb' = [hb EXCEPT ![r] = Fresh]
  /\ UNCHANGED <<scope, success>>

\* Cancelled while the commit is under way: the row is there, but start()
\* never stored its id, so finish(False) does nothing and no heartbeat runs.
ReserveLost(r) ==
  /\ "cancel" \in Faults
  /\ TakePlace(r)
  /\ pc' = [pc EXCEPT ![r] = "gone"]
  /\ UNCHANGED <<scope, hb, success>>

\* 429, but the expired reservations are cleaned up all the same.
RefuseLimit(r) ==
  LET s == scope[r] IN
  /\ pc[r] = "reserving"
  /\ ~HasRoom(s)
  /\ bucket' = WithCounters(s, bucket[s].used, PendingLeft(s))
  /\ resv' = Swept(s)
  /\ pc' = [pc EXCEPT ![r] = "rejected"]
  /\ UNCHANGED <<scope, hb, success>>

-----------------------------------------------------------------------------
(***************************************************************************)
(* The generation: finish(ok) stops the heartbeat, then settles.           *)
(***************************************************************************)
Finish(r, ok) ==
  /\ pc' = [pc EXCEPT ![r] = "settling"]
  /\ success' = [success EXCEPT ![r] = ok]
  /\ hb' = [hb EXCEPT ![r] = Stopped]
  /\ UNCHANGED <<bucket, resv, scope>>

\* The whole response was observed and delivered.
Deliver(r) == pc[r] = "running" /\ Finish(r, TRUE)

\* A provider error, an early end of the stream, or a stop by the student.
FailOrStop(r) == pc[r] = "running" /\ Finish(r, FALSE)

\* process_chat returns a StreamingResponse whose body settles the run...
HandOver(r) ==
  /\ pc[r] = "running"
  /\ pc' = [pc EXCEPT ![r] = "handed"]
  /\ UNCHANGED <<bucket, resv, scope, hb, success>>

\* ...once the server starts to iterate it,
BeginDelivery(r) ==
  /\ pc[r] = "handed"
  /\ pc' = [pc EXCEPT ![r] = "running"]
  /\ UNCHANGED <<bucket, resv, scope, hb, success>>

\* but a client that left before leaves the generator, and finish(), unrun.
Abandon(r) ==
  /\ pc[r] = "handed"
  /\ pc' = [pc EXCEPT ![r] = "gone"]
  /\ UNCHANGED <<bucket, resv, scope, hb, success>>

\* The reservation row once settled.
Closed(r) ==
  [status |-> IF success[r] THEN "COMPLETED" ELSE "RELEASED", lease |-> resv[r].lease]

Settle(r) ==
  LET s == scope[r]
      open == resv[r].status = "PENDING" /\ r \notin Overdue(s)
  IN
  /\ pc[r] = "settling"
  /\ resv' = IF open THEN [Swept(s) EXCEPT ![r] = Closed(r)] ELSE Swept(s)
  /\ bucket' = WithCounters(s, bucket[s].used + (IF open /\ success[r] THEN 1 ELSE 0),
                               PendingLeft(s) - (IF open THEN 1 ELSE 0))
  /\ pc' = [pc EXCEPT ![r] = "done"]
  /\ UNCHANGED <<scope, hb, success>>

\* The transaction raises or is cancelled; finished is set, so no retry.
SettleLost(r) ==
  /\ Faults \intersect {"db", "cancel"} # {}
  /\ pc[r] = "settling"
  /\ pc' = [pc EXCEPT ![r] = "done"]
  /\ UNCHANGED <<bucket, resv, scope, hb, success>>

Crash(r) ==
  /\ "crash" \in Faults
  /\ pc[r] \in Control \ {"idle", "rejected", "done", "gone"}
  /\ pc' = [pc EXCEPT ![r] = "gone"]
  /\ hb' = [hb EXCEPT ![r] = Stopped]
  /\ UNCHANGED <<bucket, resv, scope, success>>

-----------------------------------------------------------------------------
(***************************************************************************)
(* The heartbeat task                                                      *)
(***************************************************************************)
Awake(r) == hb[r].on /\ hb[r].wake = 0

Renewable(r) == resv[r].status = "PENDING" /\ resv[r].lease > 0

\* owner.cancel(): the run ends through finish(False), but a body nobody
\* iterates yet has no handler that would call it.
CancelOwner(r) ==
  IF pc[r] = "running" THEN Finish(r, FALSE)
  ELSE /\ pc' = [pc EXCEPT ![r] = "gone"]
       /\ hb' = [hb EXCEPT ![r] = Stopped]
       /\ UNCHANGED <<bucket, resv, scope, success>>

\* Seeded defect: the heartbeat does not look whether its owner is done.
HeartbeatOutlivesOwner(r) ==
  /\ Awake(r) /\ OwnerDone(r)
  /\ Renewable(r)
  /\ resv' = [resv EXCEPT ![r].lease = Lease]
  /\ hb' = [hb EXCEPT ![r] = Fresh]
  /\ UNCHANGED <<bucket, scope, pc, success>>

HeartbeatRetires(r) ==
  /\ Awake(r) /\ OwnerDone(r)
  /\ hb' = [hb EXCEPT ![r] = Stopped]
  /\ UNCHANGED <<bucket, resv, scope, pc, success>>

\* Seeded defect: the lease is tested but not extended.
HeartbeatRenewsNothing(r) ==
  /\ Awake(r) /\ ~OwnerDone(r)
  /\ Renewable(r)
  /\ hb' = [hb EXCEPT ![r] = Fresh]
  /\ UNCHANGED <<bucket, resv, scope, pc, success>>

HeartbeatRenews(r) ==
  /\ Awake(r) /\ ~OwnerDone(r)
  /\ Renewable(r)
  /\ resv' = [resv EXCEPT ![r].lease = Lease]
  /\ hb' = [hb EXCEPT ![r] = Fresh]
  /\ UNCHANGED <<bucket, scope, pc, success>>

HeartbeatRefused(r) ==
  /\ Awake(r) /\ ~OwnerDone(r)
  /\ ~Renewable(r)
  /\ CancelOwner(r)

\* renew raises: sleep again while the last lease may still be good.
HeartbeatRetries(r) ==
  /\ "db" \in Faults
  /\ Awake(r) /\ ~OwnerDone(r)
  /\ hb[r].deadline > 0
  /\ hb' = [hb EXCEPT ![r] = [on |-> TRUE, wake |-> Heartbeat,
                                 deadline |-> hb[r].deadline]]
  /\ UNCHANGED <<bucket, resv, scope, pc, success>>

HeartbeatGivesUp(r) ==
  /\ "db" \in Faults
  /\ Awake(r) /\ ~OwnerDone(r)
  /\ hb[r].deadline = 0
  /\ CancelOwner(r)

HeartbeatStep(r) ==
  \/ HeartbeatRetires(r)
  \/ HeartbeatRenews(r)
  \/ HeartbeatRefused(r)
  \/ HeartbeatRetries(r)
  \/ HeartbeatGivesUp(r)

-----------------------------------------------------------------------------
Less(t) == IF t > 0 THEN t - 1 ELSE 0

\* Unless the process stalls, a due heartbeat and a settlement come first.
Tick ==
  /\ "stall" \in Faults \/ \A r \in Runs : ~Awake(r) /\ pc[r] # "settling"
  /\ resv' = [r \in Runs |-> [status |-> resv[r].status, lease |-> Less(resv[r].lease)]]
  /\ hb' = [r \in Runs |-> [on |-> hb[r].on, wake |-> Less(hb[r].wake),
                            deadline |-> Less(hb[r].deadline)]]
  /\ UNCHANGED <<bucket, scope, pc, success>>

RunStep(r) ==
  \/ \E s \in Scopes : Start(r, s)
  \/ RefuseScope(r)
  \/ CheckBucket(r)
  \/ InsertBucket(r)
  \/ Reserve(r)
  \/ ReserveLost(r)
  \/ RefuseLimit(r)
  \/ Deliver(r)
  \/ FailOrStop(r)
  \/ HandOver(r)
  \/ BeginDelivery(r)
  \/ Abandon(r)
  \/ Settle(r)
  \/ SettleLost(r)
  \/ Crash(r)

Next == Tick \/ \E r \in Runs : RunStep(r) \/ HeartbeatStep(r)

Spec == Init /\ [][Next]_vars

\* Time passes, a heartbeat that is due runs, and a settlement begun ends:
\* the event loop schedules every ready task.  The student and the provider
\* owe nothing.
Fairness ==
  /\ WF_vars(Tick)
  /\ \A r \in Runs : WF_vars(HeartbeatStep(r)) /\ WF_vars(Settle(r) \/ SettleLost(r))

FairSpec == Spec /\ Fairness

-----------------------------------------------------------------------------
(***************************************************************************)
(* Properties                                                              *)
(***************************************************************************)
\* reserve (l.123) compares a counter that several transactions write and
\* that cleanup decrements: used and pending together never pass the limit.
QuotaRespected == \A s \in Scopes : bucket[s].used + bucket[s].pending <= Limit[s]

\* The bucket's counters are kept by hand in reserve, settle and the cleanup
\* of _locked_bucket; they always equal what the reservation rows say, so no
\* place leaks and none is freed twice.
LedgerAgrees ==
  \A s \in Scopes :
    /\ bucket[s].pending = Cardinality(In(s, "PENDING"))
    /\ bucket[s].used = Cardinality(In(s, "COMPLETED"))

\* task_usage recomputes pending from the rows and reserve from the counter:
\* the student is shown an allowance exactly when a request would be accepted.
UsageAgreesWithReserve == \A s \in Scopes : HasRoom(s) <=> Available(s) > 0

\* Only a response that was delivered whole is counted, whatever settles it.
OnlyDeliveredCounts == \A r \in Runs : resv[r].status = "COMPLETED" => success[r]

\* A reservation that is expired, released or completed stays so: a late
\* settle or renew of a run whose place was reclaimed changes nothing, and a
\* prompt once used is never given back.
SettledOnce ==
  [][/\ \A r \in Runs : resv[r].status \in Terminal => resv'[r].status = resv[r].status
     /\ \A s \in Scopes : bucket'[s].used >= bucket[s].used]_vars

\* When heartbeats run on time and renewals reach the database, a run that is
\* still generating or settling keeps its place: nobody is cancelled or
\* reclaimed for being slow.
LiveRunsHoldPlaces == \A r \in Runs : pc[r] \in {"running", "handed", "settling"} => Renewable(r)

\* A response is counted only after it was delivered.  With heartbeats on time
\* the counted and the delivered that wait for their settlement are together
\* within the limit: no request between delivery and settlement takes the place.
DeliveredWithinLimit ==
  \A s \in Scopes :
    Cardinality(In(s, "COMPLETED") \union
      {r \in Runs : scope[r] = s /\ success[r] /\ pc[r] \in {"handed", "settling"}}) <= Limit[s]

\* A run that ended in any way, crashes included, gives its place back within
\* the lease if it was not counted: nothing is pending for ever.
PlacesReturn ==
  \A r \in Runs : OwnerDone(r) ~> (scope[r] \notin Scopes \/ r \notin In(scope[r], "PENDING") \ Overdue(scope[r]))

\* How the rows follow the control of the runs; with LedgerAgrees it makes
\* the limit inductive.
RowsFollowControl ==
  \A r \in Runs :
    /\ pc[r] \in {"idle", "checking", "inserting", "reserving", "rejected"}
         => resv[r].status = "NONE"
    /\ pc[r] \in {"running", "handed", "settling"} => resv[r].status # "NONE"
    /\ pc[r] \in {"checking", "inserting", "reserving"} => scope[r] \in Scopes
    /\ pc[r] = "reserving" => bucket[scope[r]].exists
    /\ resv[r].status # "NONE" => scope[r] \in Scopes /\ bucket[scope[r]].exists

\* The inductive invariant: counters, rows and control agree, and the limit
\* that reserve compares with holds between any two transactions.
BudgetInv == TypeOK /\ RowsFollowControl /\ LedgerAgrees /\ QuotaRespected

\* The rows implement the abstract quota, PENDING rows being the places held.
Quota == INSTANCE PromptQuota WITH
  held <- [s \in Scopes |-> In(s, "PENDING")],
  counted <- [s \in Scopes |-> In(s, "COMPLETED")],
  granted <- {r \in Runs : resv[r].status # "NONE"}

\* Every transaction of the budget is a step of the quota or leaves it alone.
ImplementsQuota == Quota!Spec
=============================================================================
