------------------------- MODULE TaskRegistryProofs -------------------------
(***************************************************************************)
(* A running task stays within reach of who wants to stop it, for any      *)
(* number of tasks, servers, requests and faults, with and without Redis.  *)
(*                                                                         *)
(* The names a request stops may be out of date, and it removes them from  *)
(* Redis whether or not they are.  It can do so because it published the   *)
(* command before: what it is about to remove has been told to stop, and   *)
(* a clean-up works only on a task that runs no more.                      *)
(***************************************************************************)
EXTENDS TaskRegistry, TLAPS, SequenceTheorems

Running(t) == task[t].phase = "running"
Created == {t \in Tasks : task[t] # NoTask}

InRedis == {"next", "publish", "remove", "count", "delete"}

\* Only tasks that exist are named anywhere.
NamesOfCreated ==
  /\ hash \subseteq Created /\ members \subseteq Created /\ saved \subseteq Created
  /\ \A r \in Requests : stop[r].at \in InRedis =>
       stop[r].listed \subseteq Created /\ stop[r].current \subseteq Created

\* Each way of stopping is used in its kind of deployment.
StopsAsDeployed ==
  /\ ~redis => inbox = {}
  /\ \A r \in Requests :
       /\ stop[r].at \in InRedis => redis
       /\ stop[r].at = "await" => ~redis

\* No clean-up works on a task that has not yet ended.
CleanedAfterwards ==
  \A t \in Tasks : Running(t) \/ task[t] = NoTask => clean[t] = "idle"

\* A request removes from Redis only what was told to stop.
ToldFirst ==
  \A r \in Requests : stop[r].at = "remove" =>
    \A t \in stop[r].current : Running(t) => t \in inbox \/ task[t].cancelled

IInv ==
  TypeOK /\ NamesOfCreated /\ StopsAsDeployed /\ CleanedAfterwards /\ ToldFirst /\ Reachable

-----------------------------------------------------------------------------
(***************************************************************************)
(* Lists and records.                                                      *)
(***************************************************************************)
Listed(t, list) == \E i \in 1..Len(list) : list[i] = t

\* Removing a task leaves the others in the list.
LEMMA WithoutProperties ==
  ASSUME NEW list \in Seq(Tasks), NEW t \in Tasks
  PROVE  /\ Without(list, t) \in Seq(Tasks)
         /\ \A u \in Tasks \ {t} : Listed(u, list) => Listed(u, Without(list, t))
  <1>1. CASE \A i \in 1..Len(list) : list[i] # t
    BY <1>1 DEF Without
  <1>2. CASE ~\A i \in 1..Len(list) : list[i] # t
    <2> DEFINE i == CHOOSE j \in 1..Len(list) : list[j] = t
               front == SubSeq(list, 1, i - 1)
               back == SubSeq(list, i + 1, Len(list))
    <2>1. i \in 1..Len(list) /\ list[i] = t
      BY <1>2
    <2>2. Without(list, t) = front \o back
      BY <1>2 DEF Without
    <2> HIDE DEF i
    <2>3. front \in Seq(Tasks) /\ Len(front) = i - 1 /\ \A j \in 1..i - 1 : front[j] = list[j]
      BY <2>1, SubSeqProperties
    <2>4. /\ back \in Seq(Tasks) /\ Len(back) = Len(list) - i
          /\ \A j \in 1..Len(list) - i : back[j] = list[i + j]
      BY <2>1, SubSeqProperties
    <2> HIDE DEF front, back
    <2>5. /\ front \o back \in Seq(Tasks) /\ Len(front \o back) = Len(list) - 1
          /\ \A j \in 1..Len(list) - 1 : (front \o back)[j] = IF j < i THEN list[j] ELSE list[j + 1]
      <3>1. /\ front \o back \in Seq(Tasks) /\ Len(front \o back) = Len(front) + Len(back)
            /\ \A j \in 1..Len(front) + Len(back) :
                 (front \o back)[j] = IF j <= Len(front) THEN front[j] ELSE back[j - Len(front)]
        BY <2>3, <2>4, ConcatProperties
      <3>2. Len(front) + Len(back) = Len(list) - 1
        BY <2>1, <2>3, <2>4
      <3>3. ASSUME NEW j \in 1..Len(list) - 1
            PROVE  (front \o back)[j] = IF j < i THEN list[j] ELSE list[j + 1]
        <4>1. CASE j < i
          BY <2>1, <2>3, <3>1, <3>2, <4>1
        <4>2. CASE j >= i
          <5>1. /\ ~(j <= i - 1) /\ j - (i - 1) \in 1..Len(list) - i
                /\ i + (j - (i - 1)) = j + 1
            BY <2>1, <4>2
          <5>2. (front \o back)[j] = back[j - (i - 1)]
            BY <2>3, <3>1, <3>2, <5>1
          <5>3. back[j - (i - 1)] = list[j + 1]
            BY <2>4, <5>1
          <5> QED
            BY <2>1, <4>2, <5>2, <5>3
        <4>3. j < i \/ j >= i
          BY <2>1
        <4> QED
          BY <4>1, <4>2, <4>3
      <3> QED
        BY <3>1, <3>2, <3>3
    <2>6. ASSUME NEW u \in Tasks \ {t}, NEW j \in 1..Len(list), list[j] = u
          PROVE  Listed(u, front \o back)
      <3>1. j # i
        BY <2>1, <2>6
      <3>2. CASE j < i
        <4>1. j \in 1..Len(list) - 1
          BY <2>1, <2>6, <3>2
        <4>2. (front \o back)[j] = u /\ j \in 1..Len(front \o back)
          BY <2>5, <2>6, <3>2, <4>1
        <4> QED
          BY <4>2 DEF Listed
      <3>3. CASE j > i
        <4>1. j - 1 \in 1..Len(list) - 1 /\ ~(j - 1 < i) /\ (j - 1) + 1 = j
          BY <2>1, <3>3
        <4> QED
          BY <2>5, <2>6, <4>1 DEF Listed
      <3> QED
        BY <2>1, <3>1, <3>2, <3>3
    <2> QED
      BY <2>2, <2>5, <2>6 DEF Listed
  <1> QED
    BY <1>1, <1>2

\* Appending a task adds it to those of the list.
LEMMA AppendedListed ==
  ASSUME NEW list \in Seq(Tasks), NEW t \in Tasks
  PROVE  /\ Append(list, t) \in Seq(Tasks)
         /\ \A u \in Tasks : Listed(u, list) \/ u = t => Listed(u, Append(list, t))
  <1>1. /\ Append(list, t) \in Seq(Tasks) /\ Len(Append(list, t)) = Len(list) + 1
        /\ \A i \in 1..Len(list) : Append(list, t)[i] = list[i]
        /\ Append(list, t)[Len(list) + 1] = t
    BY AppendProperties
  <1> QED
    BY <1>1, LenProperties DEF Listed

\* A task that exists has a server and a mark for its cancellation.
LEMMA CreatedTask ==
  ASSUME TypeOK, NEW t \in Tasks
  PROVE  /\ task[t].phase \in Phases
         /\ task[t] # NoTask <=> task[t].phase # "none"
         /\ task[t] # NoTask =>
              task[t] \in [phase : Phases \ {"none"}, server : Servers, cancelled : BOOLEAN]
  BY DEF TypeOK, TaskType, NoTask, Phases

\* A request that uses Redis has its lists and its tasks in hand.
LEMMA RequestUnderWay ==
  ASSUME TypeOK, NEW r \in Requests
  PROVE  /\ stop[r].at \in InRedis =>
              stop[r] \in [at : InRedis, server : Servers, listed : SUBSET Tasks,
                           current : SUBSET Tasks, known : BOOLEAN]
         /\ stop[r].at = "await" =>
              stop[r] \in [at : {"await"}, server : Servers, listed : SUBSET Tasks, index : Nat,
                           current : SUBSET Tasks]
  BY DEF TypeOK, StopType, NoStop, InRedis

\* The moves of a request under way leave a request under way.
LEMMA RequestMoves ==
  ASSUME TypeOK, NEW r \in Requests, stop[r].at \in InRedis
  PROVE  /\ \A place \in InRedis : [stop EXCEPT ![r].at = place] \in [Requests -> StopType]
         /\ \A place \in InRedis :
              [stop EXCEPT ![r].at = place, ![r].current = {}] \in [Requests -> StopType]
         /\ \A t \in Tasks, known \in BOOLEAN :
              [stop EXCEPT ![r].at = "publish", ![r].listed = @ \ {t}, ![r].current = {t},
                           ![r].known = known] \in [Requests -> StopType]
  <1> DEFINE Moving == [at : InRedis, server : Servers, listed : SUBSET Tasks,
                        current : SUBSET Tasks, known : BOOLEAN]
  <1>1. stop \in [Requests -> StopType] /\ stop[r] \in Moving
    BY RequestUnderWay DEF TypeOK
  <1>2. Moving \subseteq StopType
    BY DEF StopType, InRedis
  <1>3. ASSUME NEW place \in InRedis
        PROVE  [stop EXCEPT ![r].at = place] \in [Requests -> StopType]
    <2>1. [stop[r] EXCEPT !.at = place] \in Moving
      BY <1>1
    <2> QED
      BY <1>1, <1>2, <2>1
  <1>4. ASSUME NEW place \in InRedis
        PROVE  [stop EXCEPT ![r].at = place, ![r].current = {}] \in [Requests -> StopType]
    <2>1. [stop[r] EXCEPT !.at = place, !.current = {}] \in Moving
      BY <1>1
    <2> QED
      BY <1>1, <1>2, <2>1
  <1>5. ASSUME NEW t \in Tasks, NEW known \in BOOLEAN
        PROVE  [stop EXCEPT ![r].at = "publish", ![r].listed = @ \ {t}, ![r].current = {t},
                            ![r].known = known] \in [Requests -> StopType]
    <2>1. [stop[r] EXCEPT !.at = "publish", !.listed = @ \ {t}, !.current = {t},
                          !.known = known] \in Moving
      BY <1>1 DEF InRedis
    <2> QED
      BY <1>1, <1>2, <2>1
  <1> QED
    BY <1>3, <1>4, <1>5

\* A request may end at any time.
LEMMA RequestEnds ==
  ASSUME TypeOK, NEW r \in Requests
  PROVE  /\ [stop EXCEPT ![r] = [at |-> "failed"]] \in [Requests -> StopType]
         /\ \A L \in SUBSET Tasks :
              [stop EXCEPT ![r] = [at |-> "done", listed |-> L]] \in [Requests -> StopType]
  <1>1. [at |-> "failed"] \in StopType
    BY DEF StopType
  <1>2. ASSUME NEW L \in SUBSET Tasks PROVE [at |-> "done", listed |-> L] \in StopType
    BY DEF StopType
  <1> QED
    BY <1>1, <1>2 DEF TypeOK

\* What a cancellation and an end do to a task.
LEMMA TaskChanges ==
  ASSUME TypeOK, NEW t \in Tasks
  PROVE  /\ Cancelled(t) \in [Tasks -> TaskType]
         /\ \A phase \in Phases \ {"none"} : task[t] # NoTask =>
              [task EXCEPT ![t].phase = phase, ![t].cancelled = FALSE] \in [Tasks -> TaskType]
  <1> DEFINE Existing == [phase : Phases \ {"none"}, server : Servers, cancelled : BOOLEAN]
  <1>1. task \in [Tasks -> TaskType] /\ Existing \subseteq TaskType
    BY DEF TypeOK, TaskType
  <1>2. ASSUME task[t] # NoTask, NEW phase \in Phases \ {"none"}
        PROVE  [task EXCEPT ![t].phase = phase, ![t].cancelled = FALSE] \in [Tasks -> TaskType]
    <2>1. [task[t] EXCEPT !.phase = phase, !.cancelled = FALSE] \in Existing
      BY <1>2, CreatedTask
    <2> QED
      BY <1>1, <2>1
  <1>3. ASSUME Live(t)
        PROVE  [task EXCEPT ![t].cancelled = TRUE] \in [Tasks -> TaskType]
    <2>1. [task[t] EXCEPT !.cancelled = TRUE] \in Existing
      BY <1>3, CreatedTask DEF Live
    <2> QED
      BY <1>1, <2>1
  <1> QED
    BY <1>1, <1>2, <1>3 DEF Cancelled

\* A running task stays within reach when its place in the list, in the
\* dictionary and in Redis is kept.
LEMMA ReachableStays ==
  ASSUME Reachable, UNCHANGED redis,
         \A t \in Tasks : Running(t)' =>
           /\ Running(t) /\ task'[t].server = task[t].server
           /\ task[t].cancelled => task'[t].cancelled
           /\ Listed(t, items[At(t)]) => Listed(t, items'[At(t)])
           /\ t \in tasks[At(t)] => t \in tasks'[At(t)] \/ (~redis /\ task'[t].cancelled)
           /\ t \in saved' /\ (t \in saved => t \in hash \/ t \in inbox \/ task[t].cancelled)
                => t \in hash' \/ t \in inbox' \/ task'[t].cancelled
  PROVE  Reachable'
  BY DEF Reachable, Running, Listed, At

\* The new task is in the list and the dictionary; nothing named it before.
LEMMA CreateStep ==
  ASSUME IInv, NEW t \in Tasks, NEW s \in Servers, Create(t, s)
  PROVE  IInv'
  <1> USE DEF IInv, storeVars, serverVars
  <1>1. TypeOK'
    <2>1. [phase |-> "running", server |-> s, cancelled |-> FALSE] \in TaskType
      BY DEF TaskType, Phases
    <2>2. task' \in [Tasks -> TaskType]
      BY <2>1 DEF TypeOK, Create
    <2>3. items' \in [Servers -> Seq(Tasks)]
      BY DEF TypeOK, Create
    <2> QED
      BY <2>2, <2>3 DEF TypeOK, Create
  <1>2. NamesOfCreated'
    BY DEF NamesOfCreated, Created, Create
  <1>3. StopsAsDeployed'
    BY DEF StopsAsDeployed, Create
  <1>4. CleanedAfterwards'
    BY DEF CleanedAfterwards, Running, Create
  <1>5. ToldFirst'
    BY DEF ToldFirst, NamesOfCreated, Created, Running, Create, InRedis
  <1>6. Reachable'
    <2> SUFFICES ASSUME NEW u \in Tasks, Running(u)'
                 PROVE  /\ Listed(u, items'[At(u)'])
                        /\ u \in tasks'[At(u)'] \/ (~redis /\ task'[u].cancelled)
                        /\ u \in saved => u \in hash \/ u \in inbox \/ task'[u].cancelled
      BY DEF Reachable, Running, Listed, Create
    <2>1. CASE u = t
      <3>1. At(t)' = s /\ items'[s] = Append(items[s], t) /\ tasks'[s] = tasks[s] \union {t}
        BY DEF Create, TypeOK, At
      <3>2. t \notin saved
        BY DEF NamesOfCreated, Created, Create
      <3> QED
        BY <2>1, <3>1, <3>2, AppendedListed DEF TypeOK
    <2>2. CASE u # t
      <3>1. task'[u] = task[u] /\ Running(u) /\ At(u)' = At(u) /\ At(u) \in Servers
        BY <2>2, CreatedTask DEF Create, Running, At
      <3>2. /\ Listed(u, items[At(u)]) => Listed(u, items'[At(u)])
            /\ tasks[At(u)] \subseteq tasks'[At(u)]
        BY <3>1, AppendedListed DEF Create, TypeOK
      <3> QED
        BY <3>1, <3>2 DEF Reachable, Running, Listed
    <2> QED
      BY <2>1, <2>2
  <1> QED
    BY <1>1, <1>2, <1>3, <1>4, <1>5, <1>6

\* The registration names a task that exists.
LEMMA SaveStep ==
  ASSUME IInv, NEW t \in Tasks, Save(t)
  PROVE  IInv'
  <1> USE DEF IInv, storeVars, serverVars
  <1>1. TypeOK'
    BY DEF TypeOK, Save
  <1>2. NamesOfCreated'
    BY DEF NamesOfCreated, Created, Save, NoTask
  <1>3. StopsAsDeployed'
    BY DEF StopsAsDeployed, Save
  <1>4. CleanedAfterwards'
    BY DEF CleanedAfterwards, Running, Save
  <1>5. ToldFirst'
    BY DEF ToldFirst, Running, Save
  <1>6. Reachable'
    BY DEF Reachable, At, Save
  <1> QED
    BY <1>1, <1>2, <1>3, <1>4, <1>5, <1>6

\* A task that leaves runs no more.
LEMMA LeaveStep ==
  ASSUME IInv, NEW t \in Tasks, Leave(t)
  PROVE  IInv'
  <1> USE DEF IInv, storeVars, serverVars
  <1>1. TypeOK'
    <2>1. task[t] # NoTask
      BY CreatedTask DEF Leave
    <2>2. PICK phase \in Phases \ {"none"} :
            task' = [task EXCEPT ![t].phase = phase, ![t].cancelled = FALSE]
      BY DEF Leave, Ended, Phases
    <2>3. [task EXCEPT ![t].phase = phase, ![t].cancelled = FALSE] \in [Tasks -> TaskType]
      BY <2>1, TaskChanges
    <2>5. task' \in [Tasks -> TaskType]
      BY <2>2, <2>3
    <2>4. clean' \in [Tasks -> Steps]
      BY DEF TypeOK, Leave, Ended, FirstStep, Steps
    <2> QED
      BY <2>4, <2>5 DEF TypeOK, Leave
  <1>0. /\ task'[t].phase \in {"leaving", "over"} /\ task'[t].server = task[t].server
        /\ \A u \in Tasks \ {t} : task'[u] = task[u] /\ clean'[u] = clean[u]
    BY CreatedTask DEF Leave, Ended, TypeOK
  <1>2. NamesOfCreated'
    BY DEF NamesOfCreated, Created, TypeOK, Leave, Ended, NoTask
  <1>3. StopsAsDeployed'
    BY DEF StopsAsDeployed, Leave
  <1>4. CleanedAfterwards'
    BY <1>0 DEF CleanedAfterwards, Running, NoTask
  <1>5. ToldFirst'
    <2> SUFFICES ASSUME NEW r \in Requests, stop[r].at = "remove", NEW u \in stop[r].current,
                        Running(u)'
                 PROVE  u \in inbox \/ task'[u].cancelled
      BY DEF ToldFirst, Leave
    <2>1. u \in Tasks \ {t}
      BY <1>0, RequestUnderWay DEF Running, InRedis
    <2> QED
      BY <1>0, <2>1 DEF ToldFirst, Running
  <1>6. Reachable'
    BY <1>0, ReachableStays DEF Running, Leave
  <1> QED
    BY <1>1, <1>2, <1>3, <1>4, <1>5, <1>6

\* Nor does one that has left already.
LEMMA EndStep ==
  ASSUME IInv, NEW t \in Tasks, End(t)
  PROVE  IInv'
  <1> USE DEF IInv, storeVars, serverVars
  <1>1. TypeOK'
    <2>1. task[t] # NoTask
      BY CreatedTask DEF End
    <2>2. task' \in [Tasks -> TaskType]
      BY <2>1, TaskChanges DEF End, Ended, Phases
    <2>3. clean' \in [Tasks -> Steps]
      BY DEF TypeOK, End, Ended, FirstStep, Steps
    <2> QED
      BY <2>2, <2>3 DEF TypeOK, End
  <1>2. NamesOfCreated'
    BY DEF NamesOfCreated, Created, TypeOK, End, Ended, NoTask
  <1>3. StopsAsDeployed'
    BY DEF StopsAsDeployed, End
  <1>4. CleanedAfterwards'
    BY CreatedTask DEF CleanedAfterwards, Running, TypeOK, End, Ended, NoTask
  <1>5. ToldFirst'
    BY DEF ToldFirst, NamesOfCreated, Created, Running, TypeOK, End, Ended, InRedis
  <1>6. Reachable'
    BY ReachableStays, CreatedTask DEF Running, TypeOK, End, Ended
  <1> QED
    BY <1>1, <1>2, <1>3, <1>4, <1>5, <1>6

\* What a clean-up takes out of Redis does not run.
LEMMA RemoveEntryStep ==
  ASSUME IInv, NEW t \in Tasks, RemoveEntry(t)
  PROVE  IInv'
  <1> USE DEF IInv, storeVars, serverVars
  <1>1. TypeOK'
    BY DEF TypeOK, RemoveEntry, Steps
  <1>2. NamesOfCreated'
    BY DEF NamesOfCreated, Created, RemoveEntry
  <1>3. StopsAsDeployed'
    BY DEF StopsAsDeployed, RemoveEntry
  <1>4. CleanedAfterwards'
    BY DEF CleanedAfterwards, Running, RemoveEntry
  <1>5. ToldFirst'
    BY DEF ToldFirst, Running, RemoveEntry
  <1>6. Reachable'
    BY DEF Reachable, CleanedAfterwards, Running, At, RemoveEntry
  <1> QED
    BY <1>1, <1>2, <1>3, <1>4, <1>5, <1>6

\* The rest of the clean-up in Redis does not touch the hash.
LEMMA CountMembersStep ==
  ASSUME IInv, NEW t \in Tasks, CountMembers(t)
  PROVE  IInv'
  <1> USE DEF IInv, storeVars, serverVars
  <1>1. TypeOK'
    BY DEF TypeOK, CountMembers, Steps
  <1>2. NamesOfCreated'
    BY DEF NamesOfCreated, Created, CountMembers
  <1>3. StopsAsDeployed'
    BY DEF StopsAsDeployed, CountMembers
  <1>4. CleanedAfterwards'
    BY DEF CleanedAfterwards, Running, CountMembers
  <1>5. ToldFirst'
    BY DEF ToldFirst, Running, CountMembers
  <1>6. Reachable'
    BY DEF Reachable, At, CountMembers
  <1> QED
    BY <1>1, <1>2, <1>3, <1>4, <1>5, <1>6

\* The set of the item may be dropped: the hash still has its tasks.
LEMMA DeleteSetStep ==
  ASSUME IInv, NEW t \in Tasks, DeleteSet(t)
  PROVE  IInv'
  <1> USE DEF IInv, storeVars, serverVars
  <1>1. TypeOK'
    BY DEF TypeOK, DeleteSet, Steps
  <1>2. NamesOfCreated'
    BY DEF NamesOfCreated, Created, DeleteSet
  <1>3. StopsAsDeployed'
    BY DEF StopsAsDeployed, DeleteSet
  <1>4. CleanedAfterwards'
    BY DEF CleanedAfterwards, Running, DeleteSet
  <1>5. ToldFirst'
    BY DEF ToldFirst, Running, DeleteSet
  <1>6. Reachable'
    BY DEF Reachable, At, DeleteSet
  <1> QED
    BY <1>1, <1>2, <1>3, <1>4, <1>5, <1>6

\* Only the task that is over leaves the list and the dictionary.
LEMMA ForgetStep ==
  ASSUME IInv, NEW t \in Tasks, Forget(t)
  PROVE  IInv'
  <1> USE DEF IInv, storeVars, serverVars
  <1>1. TypeOK'
    <2>1. \A q \in Requests : stop[q].at = "await" => [stop[q] EXCEPT !.index = 0] \in StopType
      BY RequestUnderWay DEF StopType
    <2>2. stop' \in [Requests -> StopType]
      BY <2>1 DEF TypeOK, Forget
    <2>3. items' \in [Servers -> Seq(Tasks)]
      BY WithoutProperties DEF TypeOK, Forget
    <2> QED
      BY <2>2, <2>3 DEF TypeOK, Forget, Steps
  <1>2. NamesOfCreated'
    BY DEF NamesOfCreated, Created, Forget
  <1>3. StopsAsDeployed'
    BY DEF StopsAsDeployed, Forget
  <1>4. CleanedAfterwards'
    BY DEF CleanedAfterwards, Running, Forget
  <1>5. ToldFirst'
    BY DEF ToldFirst, Running, Forget
  <1>6. Reachable'
    <2> SUFFICES ASSUME NEW u \in Tasks, Running(u)'
                 PROVE  /\ Listed(u, items[At(u)]) => Listed(u, items'[At(u)])
                        /\ u \in tasks[At(u)] => u \in tasks'[At(u)]
      BY ReachableStays DEF Forget, Running
    <2>1. u # t
      BY DEF CleanedAfterwards, Running, Forget
    <2>2. At(u) \in Servers
      BY CreatedTask DEF Running, Forget, At
    <2>3. items'[At(u)] = items[At(u)] \/ items'[At(u)] = Without(items[At(u)], t)
      BY <2>2 DEF Forget
    <2>4. tasks'[At(u)] = tasks[At(u)] \/ tasks'[At(u)] = tasks[At(u)] \ {t}
      BY <2>2 DEF Forget
    <2> QED
      BY <2>1, <2>2, <2>3, <2>4, WithoutProperties DEF TypeOK
  <1> QED
    BY <1>1, <1>2, <1>3, <1>4, <1>5, <1>6

\* A clean-up that fails changes nothing.
LEMMA CleanFailsStep ==
  ASSUME IInv, NEW t \in Tasks, CleanFails(t)
  PROVE  IInv'
  <1> USE DEF IInv, storeVars, serverVars
  <1>1. TypeOK'
    BY RegistryAssumption DEF TypeOK, CleanFails, Steps
  <1>2. NamesOfCreated'
    BY DEF NamesOfCreated, Created, CleanFails
  <1>3. StopsAsDeployed'
    BY DEF StopsAsDeployed, CleanFails
  <1>4. CleanedAfterwards'
    BY DEF CleanedAfterwards, Running, CleanFails
  <1>5. ToldFirst'
    BY DEF ToldFirst, Running, CleanFails
  <1>6. Reachable'
    BY DEF Reachable, At, CleanFails
  <1> QED
    BY <1>1, <1>2, <1>3, <1>4, <1>5, <1>6

\* A request lists names of tasks that exist.
LEMMA StopBeginsStep ==
  ASSUME IInv, NEW r \in Requests, NEW s \in Servers, StopBegins(r, s)
  PROVE  IInv'
  <1> USE DEF IInv, storeVars, serverVars
  <1>1. TypeOK'
    <2>1. [at |-> "next", server |-> s, listed |-> members, current |-> {}, known |-> TRUE]
            \in StopType
      BY DEF StopType, TypeOK
    <2>2. [at |-> "done", listed |-> {}] \in StopType
      BY DEF StopType
    <2> QED
      BY <2>1, <2>2 DEF TypeOK, StopBegins
  <1>2. NamesOfCreated'
    BY DEF NamesOfCreated, Created, StopBegins, InRedis
  <1>3. StopsAsDeployed'
    BY DEF StopsAsDeployed, StopBegins
  <1>4. CleanedAfterwards'
    BY DEF CleanedAfterwards, Running, StopBegins
  <1>5. ToldFirst'
    BY DEF ToldFirst, Running, StopBegins
  <1>6. Reachable'
    BY DEF Reachable, At, StopBegins
  <1> QED
    BY <1>1, <1>2, <1>3, <1>4, <1>5, <1>6

\* It has told nothing to the task it takes in hand, and removes nothing.
LEMMA LookUpStep ==
  ASSUME IInv, NEW r \in Requests, NEW t \in Tasks, LookUp(r, t)
  PROVE  IInv'
  <1> USE DEF IInv, storeVars, serverVars
  <1>1. TypeOK'
    <2>1. stop[r].at \in InRedis
      BY DEF LookUp, InRedis
    <2>2. [stop EXCEPT ![r].at = "publish", ![r].listed = @ \ {t}, ![r].current = {t},
                       ![r].known = t \in hash] \in [Requests -> StopType]
      <3>1. (t \in hash) \in BOOLEAN
        OBVIOUS
      <3> QED
        BY <2>1, <3>1, RequestMoves
    <2>3. stop' \in [Requests -> StopType]
      BY <2>2 DEF LookUp
    <2> QED
      BY <2>3 DEF TypeOK, LookUp
  <1>2. NamesOfCreated'
    BY DEF NamesOfCreated, Created, TypeOK, LookUp, InRedis
  <1>3. StopsAsDeployed'
    BY DEF StopsAsDeployed, TypeOK, LookUp
  <1>4. CleanedAfterwards'
    BY DEF CleanedAfterwards, Running, LookUp
  <1>5. ToldFirst'
    BY DEF ToldFirst, Running, TypeOK, LookUp
  <1>6. Reachable'
    BY DEF Reachable, At, LookUp
  <1> QED
    BY <1>1, <1>2, <1>3, <1>4, <1>5, <1>6

\* The command is published before anything is removed.
LEMMA PublishStep ==
  ASSUME IInv, NEW r \in Requests, Publish(r)
  PROVE  IInv'
  <1> USE DEF IInv, storeVars, serverVars
  <1>1. TypeOK'
    <2>1. stop' \in [Requests -> StopType]
      BY RequestMoves DEF Publish, InRedis
    <2>2. stop[r].current \subseteq Tasks
      BY RequestUnderWay DEF Publish, InRedis
    <2> QED
      BY <2>1, <2>2 DEF TypeOK, Publish
  <1>2. NamesOfCreated'
    BY DEF NamesOfCreated, Created, Publish, InRedis
  <1>3. StopsAsDeployed'
    <2>1. stop'[r].at = "remove" /\ \A q \in Requests \ {r} : stop'[q] = stop[q]
      BY DEF Publish, TypeOK
    <2>2. stop[r].at \in InRedis
      BY DEF Publish, InRedis
    <2>3. redis
      BY <2>2 DEF StopsAsDeployed
    <2> QED
      BY <2>1, <2>3 DEF StopsAsDeployed, Publish
  <1>4. CleanedAfterwards'
    BY DEF CleanedAfterwards, Running, Publish
  <1>5. ToldFirst'
    BY DEF ToldFirst, Running, Publish
  <1>6. Reachable'
    BY ReachableStays DEF Running, Publish
  <1> QED
    BY <1>1, <1>2, <1>3, <1>4, <1>5, <1>6

\* What is removed has been told to stop.
LEMMA RemoveStoppedStep ==
  ASSUME IInv, NEW r \in Requests, RemoveStopped(r)
  PROVE  IInv'
  <1> USE DEF IInv, storeVars, serverVars
  <1>1. TypeOK'
    <2>1. stop[r].at \in InRedis
      BY DEF RemoveStopped, InRedis
    <2>2. PICK place \in InRedis : stop' = [stop EXCEPT ![r].at = place, ![r].current = {}]
      BY DEF RemoveStopped, Goes, InRedis
    <2>3. [stop EXCEPT ![r].at = place, ![r].current = {}] \in [Requests -> StopType]
      BY <2>1, RequestMoves
    <2>4. stop' \in [Requests -> StopType]
      BY <2>2, <2>3
    <2> QED
      BY <2>4 DEF TypeOK, RemoveStopped
  <1>2. NamesOfCreated'
    <2>1. hash' \subseteq hash /\ members' \subseteq members
      BY DEF RemoveStopped
    <2>2. stop[r].at \in InRedis /\ stop[r].listed \subseteq Created
      BY DEF RemoveStopped, InRedis, NamesOfCreated
    <2>3. stop'[r].listed = stop[r].listed /\ stop'[r].current = {}
      BY <2>2, RequestUnderWay DEF RemoveStopped, Goes, TypeOK
    <2>4. \A q \in Requests \ {r} : stop'[q] = stop[q]
      BY DEF RemoveStopped, Goes, TypeOK
    <2> QED
      BY <2>1, <2>2, <2>3, <2>4 DEF NamesOfCreated, Created, RemoveStopped
  <1>3. StopsAsDeployed'
    <2>1. stop'[r].at \in InRedis /\ \A q \in Requests \ {r} : stop'[q] = stop[q]
      BY RequestUnderWay DEF RemoveStopped, Goes, TypeOK, InRedis
    <2>2. stop[r].at \in InRedis
      BY DEF RemoveStopped, InRedis
    <2> QED
      BY <2>1, <2>2 DEF StopsAsDeployed, RemoveStopped, InRedis
  <1>4. CleanedAfterwards'
    BY DEF CleanedAfterwards, Running, RemoveStopped
  <1>5. ToldFirst'
    <2>1. stop'[r].at # "remove" /\ \A q \in Requests \ {r} : stop'[q] = stop[q]
      BY RequestUnderWay DEF RemoveStopped, Goes, TypeOK, InRedis
    <2> QED
      BY <2>1 DEF ToldFirst, Running, RemoveStopped
  <1>6. Reachable'
    BY ReachableStays DEF ToldFirst, Running, RemoveStopped
  <1> QED
    BY <1>1, <1>2, <1>3, <1>4, <1>5, <1>6

\* Counting changes nothing.
LEMMA CountRemainingStep ==
  ASSUME IInv, NEW r \in Requests, CountRemaining(r)
  PROVE  IInv'
  <1> USE DEF IInv, storeVars, serverVars
  <1>1. TypeOK'
    BY RequestMoves DEF TypeOK, CountRemaining, Goes, InRedis
  <1>2. NamesOfCreated'
    BY DEF NamesOfCreated, Created, TypeOK, CountRemaining, Goes, InRedis
  <1>3. StopsAsDeployed'
    BY DEF StopsAsDeployed, TypeOK, CountRemaining, Goes, InRedis
  <1>4. CleanedAfterwards'
    BY DEF CleanedAfterwards, Running, CountRemaining
  <1>5. ToldFirst'
    BY DEF ToldFirst, Running, TypeOK, CountRemaining, Goes
  <1>6. Reachable'
    BY DEF Reachable, At, CountRemaining
  <1> QED
    BY <1>1, <1>2, <1>3, <1>4, <1>5, <1>6

\* The set of the item may be dropped here as well.
LEMMA DeleteRemainingStep ==
  ASSUME IInv, NEW r \in Requests, DeleteRemaining(r)
  PROVE  IInv'
  <1> USE DEF IInv, storeVars, serverVars
  <1>1. TypeOK'
    BY RequestMoves DEF TypeOK, DeleteRemaining, Goes, InRedis
  <1>2. NamesOfCreated'
    BY DEF NamesOfCreated, Created, TypeOK, DeleteRemaining, Goes, InRedis
  <1>3. StopsAsDeployed'
    BY DEF StopsAsDeployed, TypeOK, DeleteRemaining, Goes, InRedis
  <1>4. CleanedAfterwards'
    BY DEF CleanedAfterwards, Running, DeleteRemaining
  <1>5. ToldFirst'
    BY DEF ToldFirst, Running, TypeOK, DeleteRemaining, Goes
  <1>6. Reachable'
    BY DEF Reachable, At, DeleteRemaining
  <1> QED
    BY <1>1, <1>2, <1>3, <1>4, <1>5, <1>6

\* A request that fails leaves the commands it published.
LEMMA StopFailsStep ==
  ASSUME IInv, NEW r \in Requests, StopFails(r)
  PROVE  IInv'
  <1> USE DEF IInv, storeVars, serverVars
  <1>1. TypeOK'
    BY RequestEnds, RegistryAssumption DEF TypeOK, StopFails
  <1>2. NamesOfCreated'
    BY DEF NamesOfCreated, Created, StopFails, InRedis
  <1>3. StopsAsDeployed'
    BY DEF StopsAsDeployed, StopFails, InRedis
  <1>4. CleanedAfterwards'
    BY DEF CleanedAfterwards, Running, StopFails
  <1>5. ToldFirst'
    BY DEF ToldFirst, Running, StopFails
  <1>6. Reachable'
    BY DEF Reachable, At, StopFails
  <1> QED
    BY <1>1, <1>2, <1>3, <1>4, <1>5, <1>6

\* A command that arrives becomes a cancellation.
LEMMA ListenerStep ==
  ASSUME IInv, NEW t \in Tasks, Listener(t)
  PROVE  IInv'
  <1> USE DEF IInv, storeVars, serverVars
  <1>1. TypeOK'
    BY TaskChanges DEF TypeOK, Listener
  <1>2. NamesOfCreated'
    BY DEF NamesOfCreated, Created, Listener, Cancelled, Live, NoTask
  <1>3. StopsAsDeployed'
    BY DEF StopsAsDeployed, Listener
  <1>4. CleanedAfterwards'
    BY DEF CleanedAfterwards, Running, Listener, Cancelled, Live, NoTask
  <1>5. ToldFirst'
    BY DEF ToldFirst, Running, Reachable, TypeOK, Listener, Cancelled, Live
  <1>6. Reachable'
    BY CreatedTask DEF Reachable, ToldFirst, At, TypeOK, Listener, Cancelled, Live
  <1> QED
    BY <1>1, <1>2, <1>3, <1>4, <1>5, <1>6

\* A request that is done holds nothing.
LEMMA StopReturnsStep ==
  ASSUME IInv, NEW r \in Requests, StopReturns(r)
  PROVE  IInv'
  <1> USE DEF IInv, storeVars, serverVars
  <1>1. TypeOK'
    BY RequestEnds DEF TypeOK, StopReturns
  <1>2. NamesOfCreated'
    BY DEF NamesOfCreated, Created, StopReturns, InRedis
  <1>3. StopsAsDeployed'
    BY DEF StopsAsDeployed, StopReturns, InRedis
  <1>4. CleanedAfterwards'
    BY DEF CleanedAfterwards, Running, StopReturns
  <1>5. ToldFirst'
    BY DEF ToldFirst, Running, StopReturns
  <1>6. Reachable'
    BY DEF Reachable, At, StopReturns
  <1> QED
    BY <1>1, <1>2, <1>3, <1>4, <1>5, <1>6

\* The tasks of a lost server run no more.
LEMMA CrashStep ==
  ASSUME IInv, NEW s \in Servers, Crash(s)
  PROVE  IInv'
  <1> USE DEF IInv, storeVars, serverVars
  <1>1. TypeOK'
    <2>1. \A t \in Tasks : task[t] # NoTask => [task[t] EXCEPT !.phase = "lost"] \in TaskType
      BY CreatedTask DEF TaskType, Phases
    <2>2. task' \in [Tasks -> TaskType]
      BY <2>1, CreatedTask DEF TypeOK, Crash
    <2>3. clean' \in [Tasks -> Steps]
      BY DEF TypeOK, Crash, Steps
    <2>4. stop' \in [Requests -> StopType]
      BY DEF TypeOK, Crash, StopType
    <2>5. items' \in [Servers -> Seq(Tasks)] /\ tasks' \in [Servers -> SUBSET Tasks]
      BY DEF TypeOK, Crash
    <2>6. faults' \in 0..MaxFaults
      BY RegistryAssumption DEF TypeOK, Crash
    <2> QED
      BY <2>2, <2>3, <2>4, <2>5, <2>6 DEF TypeOK, Crash
  <1>2. NamesOfCreated'
    BY DEF NamesOfCreated, Created, Crash, NoTask, InRedis
  <1>3. StopsAsDeployed'
    BY DEF StopsAsDeployed, Crash, InRedis
  <1>4. CleanedAfterwards'
    BY DEF CleanedAfterwards, Running, Crash
  <1>5. ToldFirst'
    BY DEF ToldFirst, NamesOfCreated, Created, Running, Crash, InRedis
  <1>6. Reachable'
    <2> SUFFICES ASSUME NEW u \in Tasks, Running(u)'
                 PROVE  /\ Running(u) /\ task'[u] = task[u]
                        /\ items'[At(u)] = items[At(u)] /\ tasks'[At(u)] = tasks[At(u)]
                        /\ u \in inbox => u \in inbox'
      BY ReachableStays DEF Crash
    <2>1. CASE Running(u) /\ At(u) = s
      <3>1. task'[u] = [task[u] EXCEPT !.phase = "lost"]
        BY <2>1 DEF Crash, Running, Over
      <3>2. task'[u].phase = "lost"
        BY <2>1, <3>1
      <3> QED
        BY <3>2 DEF Running
    <2>2. CASE ~(Running(u) /\ At(u) = s)
      <3>1. Running(u) /\ task'[u] = task[u]
        BY <2>2 DEF Crash, Running
      <3>2. At(u) \in Servers /\ At(u) # s
        BY <2>2, <3>1, CreatedTask DEF Running, At
      <3> QED
        BY <3>1, <3>2 DEF Crash
    <2> QED
      BY <2>1, <2>2
  <1> QED
    BY <1>1, <1>2, <1>3, <1>4, <1>5, <1>6

\* Position i of the list without Redis: what is taken out of the dictionary is
\* cancelled.
LEMMA WalkStep ==
  ASSUME IInv, ~redis, NEW r \in Requests, NEW s \in Servers, NEW ids \in SUBSET Tasks,
         NEW i \in Nat, Walk(r, s, ids, i)
  PROVE  IInv'
  <1> USE DEF IInv, storeVars, serverVars
  <1>1. UNCHANGED <<redis, items, hash, members, saved, inbox, clean, spoiled, faults>>
    BY DEF Walk
  <1>2. PICK next \in StopType : stop' = [stop EXCEPT ![r] = next] /\ next.at \notin InRedis
    <2>1. CASE stop' = [stop EXCEPT ![r] = [at |-> "done", listed |-> ids]]
      <3>1. [at |-> "done", listed |-> ids] \in StopType
        BY DEF StopType
      <3> QED
        BY <2>1, <3>1 DEF InRedis
    <2>2. CASE stop' = [stop EXCEPT ![r] = [at |-> "failed"]]
      <3>1. [at |-> "failed"] \in StopType
        BY DEF StopType
      <3> QED
        BY <2>2, <3>1 DEF InRedis
    <2>3. CASE /\ i \in 1..Len(items[s])
               /\ stop' = [stop EXCEPT ![r] =
                    [at |-> "await", server |-> s, listed |-> ids \ {items[s][i]}, index |-> i,
                     current |-> {items[s][i]}]]
      <3>1. items[s][i] \in Tasks
        BY <2>3 DEF TypeOK
      <3>2. [at |-> "await", server |-> s, listed |-> ids \ {items[s][i]}, index |-> i,
             current |-> {items[s][i]}] \in StopType
        BY <3>1 DEF StopType
      <3> QED
        BY <2>3, <3>2 DEF InRedis
    <2> QED
      BY <2>1, <2>2, <2>3 DEF Walk
  <1>3. \A q \in Requests : stop'[q].at \in InRedis => stop'[q] = stop[q]
    BY <1>2 DEF TypeOK
  <1>4. /\ task' \in [Tasks -> TaskType] /\ tasks' \in [Servers -> SUBSET Tasks]
        /\ \A u \in Tasks :
             /\ task'[u] # task[u] => Live(u) /\ task'[u] = [task[u] EXCEPT !.cancelled = TRUE]
             /\ \A z \in Servers : u \in tasks[z] \ tasks'[z] /\ Live(u) => task'[u].cancelled
    <2>1. CASE UNCHANGED <<tasks, task>>
      BY <2>1 DEF TypeOK
    <2>2. CASE /\ i \in 1..Len(items[s])
               /\ tasks' = [tasks EXCEPT ![s] = @ \ {items[s][i]}]
               /\ task' = Cancelled(items[s][i])
      <3> DEFINE w == items[s][i]
      <3>1. w \in Tasks
        BY <2>2 DEF TypeOK
      <3> HIDE DEF w
      <3>2. /\ task' \in [Tasks -> TaskType] /\ tasks' \in [Servers -> SUBSET Tasks]
            /\ \A z \in Servers : tasks[z] \ tasks'[z] \subseteq {w}
        BY <2>2, <3>1, TaskChanges DEF TypeOK, w
      <3>3. CASE Live(w)
        <4>1. task' = [task EXCEPT ![w].cancelled = TRUE]
          BY <2>2, <3>3 DEF Cancelled, w
        <4>2. task[w] \in [phase : Phases \ {"none"}, server : Servers, cancelled : BOOLEAN]
          BY <3>1, <3>3, CreatedTask DEF Live
        <4>3. task'[w] = [task[w] EXCEPT !.cancelled = TRUE] /\ task'[w].cancelled
          BY <3>1, <4>1, <4>2 DEF TypeOK
        <4>4. \A u \in Tasks \ {w} : task'[u] = task[u]
          BY <4>1 DEF TypeOK
        <4> QED
          BY <3>2, <3>3, <4>3, <4>4
      <3>4. CASE ~Live(w)
        <4>1. task' = task
          BY <2>2, <3>4 DEF Cancelled, w
        <4> QED
          BY <3>2, <3>4, <4>1
      <3> QED
        BY <3>3, <3>4
    <2> QED
      BY <2>1, <2>2 DEF Walk
  <1>5. \A u \in Tasks : /\ task'[u].phase = task[u].phase /\ (task'[u] = NoTask <=> task[u] = NoTask)
                         /\ Running(u) => task'[u].server = task[u].server
                         /\ Running(u) /\ task[u].cancelled => task'[u].cancelled
    BY <1>4, CreatedTask DEF Live, NoTask, Running
  <1>6. TypeOK'
    BY <1>1, <1>2, <1>4 DEF TypeOK
  <1>7. NamesOfCreated'
    BY <1>1, <1>3, <1>5 DEF NamesOfCreated, Created
  <1>8. StopsAsDeployed' /\ CleanedAfterwards'
    BY <1>1, <1>3, <1>5 DEF StopsAsDeployed, CleanedAfterwards, Running
  <1>9. ToldFirst'
    <2>1. ASSUME NEW q \in Requests PROVE stop[q].at \notin InRedis
      BY Zenon DEF StopsAsDeployed
    <2>2. ASSUME NEW q \in Requests PROVE stop'[q].at # "remove"
      BY <1>3, <2>1 DEF InRedis
    <2> QED
      BY <2>2 DEF ToldFirst
  <1>10. Reachable'
    <2> SUFFICES ASSUME NEW u \in Tasks, Running(u)
                 PROVE  u \in tasks[At(u)] => u \in tasks'[At(u)] \/ task'[u].cancelled
      BY <1>1, <1>5, ReachableStays DEF Running
    <2>1. At(u) \in Servers /\ Live(u)
      BY CreatedTask DEF Running, At, NoTask, Live
    <2> QED
      BY <1>4, <2>1
  <1> QED
    BY <1>6, <1>7, <1>8, <1>9, <1>10

\* The loop of stop_item_tasks begins.
LEMMA WalkBeginsStep ==
  ASSUME IInv, NEW r \in Requests, NEW s \in Servers, WalkBegins(r, s)
  PROVE  IInv'
  <1>1. {items[s][i] : i \in 1..Len(items[s])} \in SUBSET Tasks
    BY DEF IInv, TypeOK
  <1> QED
    BY <1>1, WalkStep DEF WalkBegins

\* The loop goes on, or ends with the exception of the task it waited for.
LEMMA WalkGoesOnStep ==
  ASSUME IInv, NEW r \in Requests, WalkGoesOn(r)
  PROVE  IInv'
  <1> USE DEF IInv, storeVars, serverVars
  <1>1. /\ stop[r].server \in Servers /\ stop[r].listed \in SUBSET Tasks
        /\ (IF stop[r].index = 0 THEN 0 ELSE stop[r].index + 1) \in Nat
    BY RequestUnderWay DEF WalkGoesOn
  <1>2. ~redis
    <2>1. stop[r].at = "await"
      BY DEF WalkGoesOn
    <2> QED
      BY <2>1, Zenon DEF StopsAsDeployed
  <1>3. CASE /\ stop' = [stop EXCEPT ![r] = [at |-> "failed"]]
             /\ UNCHANGED <<redis, task, serverVars, storeVars, saved, inbox, clean, spoiled, faults>>
    <2>1. TypeOK'
      BY <1>3, RequestEnds DEF TypeOK
    <2>2. \A q \in Requests : stop'[q].at \in InRedis => stop'[q] = stop[q]
      BY <1>3 DEF TypeOK, InRedis
    <2>3. (NamesOfCreated /\ StopsAsDeployed /\ CleanedAfterwards /\ ToldFirst)'
      BY <1>3, <2>2 DEF NamesOfCreated, StopsAsDeployed, CleanedAfterwards, ToldFirst, Created,
         Running, InRedis
    <2>4. Reachable'
      BY <1>3, ReachableStays DEF Running, At
    <2> QED
      BY <2>1, <2>3, <2>4
  <1> QED
    BY <1>1, <1>2, <1>3, WalkStep DEF WalkGoesOn

\* The initial states name no task.
LEMMA InitIInv == Init => IInv
  <1> SUFFICES ASSUME Init PROVE IInv
    OBVIOUS
  <1>1. TypeOK
    BY RegistryAssumption, EmptySeq DEF Init, TypeOK, TaskType, StopType, Steps
  <1>2. \A t \in Tasks : ~Running(t)
    BY DEF Init, Running, NoTask
  <1> QED
    BY <1>1, <1>2 DEF Init, IInv, NamesOfCreated, StopsAsDeployed, CleanedAfterwards, ToldFirst, Reachable,
       Running, InRedis, NoStop

\* Every step keeps the invariant.
LEMMA NextIInv == IInv /\ [Next]_vars => IInv'
  <1> SUFFICES ASSUME IInv, [Next]_vars PROVE IInv'
    OBVIOUS
  <1>1. CASE \E t \in Tasks :
               \/ \E s \in Servers : Create(t, s)
               \/ Save(t) \/ Listener(t) \/ Leave(t) \/ End(t) \/ Cleaning(t) \/ CleanFails(t)
    BY <1>1, CreateStep, SaveStep, ListenerStep, LeaveStep, EndStep, RemoveEntryStep,
       CountMembersStep, DeleteSetStep, ForgetStep, CleanFailsStep DEF Cleaning
  <1>2. CASE \E r \in Requests :
               \/ \E s \in Servers : StopBegins(r, s) \/ WalkBegins(r, s)
               \/ Stopping(r) \/ StopFails(r)
    BY <1>2, StopBeginsStep, WalkBeginsStep, LookUpStep, PublishStep, RemoveStoppedStep,
       CountRemainingStep, DeleteRemainingStep, StopReturnsStep, WalkGoesOnStep, StopFailsStep
       DEF Stopping
  <1>3. CASE \E s \in Servers : Crash(s)
    BY <1>3, CrashStep
  <1>4. CASE UNCHANGED vars
    <2>1. TypeOK'
      BY <1>4 DEF IInv, TypeOK, vars, serverVars, storeVars
    <2>2. (NamesOfCreated /\ StopsAsDeployed /\ CleanedAfterwards /\ ToldFirst)'
      BY <1>4 DEF IInv, NamesOfCreated, StopsAsDeployed, CleanedAfterwards, ToldFirst, Created,
         Running, vars, serverVars, storeVars
    <2>3. Reachable'
      BY <1>4 DEF IInv, Reachable, At, vars, serverVars, storeVars
    <2> QED
      BY <2>1, <2>2, <2>3 DEF IInv
  <1> QED
    BY <1>1, <1>2, <1>3, <1>4 DEF Next

\* The invariant holds in every reachable state.
LEMMA Invariance == Spec => []IInv
  <1> QED
    BY InitIInv, NextIInv, PTL DEF Spec

-----------------------------------------------------------------------------
\* The registry of every server and of Redis is well typed in every reachable
\* state.
THEOREM RegistryTypes == Spec => []TypeOK
  <1>1. IInv => TypeOK
    BY DEF IInv
  <1> QED
    BY <1>1, Invariance, PTL

\* A running task is never out of reach, whatever servers are lost, whatever calls
\* to Redis fail, and however requests to stop and clean-ups overlap.
THEOREM TasksReachable == Spec => []Reachable
  <1>1. IInv => Reachable
    BY DEF IInv
  <1> QED
    BY <1>1, Invariance, PTL
=============================================================================
