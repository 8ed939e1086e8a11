---------------------------- MODULE TaskRegistry ----------------------------
(***************************************************************************)
(* The registry of background tasks (tasks.py): chat generations (main.py),*)
(* gradings (routers/experiments.py) and delayed saves (socket/main.py) of *)
(* one chat, submission or document, the item.                             *)
(*                                                                         *)
(* Each server process keeps the tasks it runs in a dictionary and, per    *)
(* item, in a list.  With Redis a hash and a set name the tasks of all     *)
(* servers, and a request to stop is published to them; without it there   *)
(* is one server.  Every await is a point where others may run.            *)
(***************************************************************************)
EXTENDS Naturals, Sequences, FiniteSets

CONSTANTS
  Tasks,       \* tasks created for the item
  Chats,       \* those that deregister themselves before they end
  Servers,     \* server processes
  Arrivals,    \* the servers that each task's creation may reach
  Requests,    \* requests to stop the item's tasks
  Commands,    \* those of them that are made where there is Redis
  Deployments, \* with Redis or without it
  MaxFaults    \* servers that are lost and calls to Redis that fail

ASSUME RegistryAssumption ==
  /\ Chats \subseteq Tasks /\ Arrivals \subseteq Tasks \X Servers /\ Deployments \subseteq BOOLEAN
  /\ Commands \subseteq Requests
  /\ MaxFaults \in Nat

VARIABLES
  redis,   \* whether app.state.redis is set
  task,    \* phase, server and pending cancellation of each task
  tasks,   \* the dictionary of each server
  items,   \* the item's entry of item_tasks on each server
  hash,    \* the keys of REDIS_TASKS_KEY
  members, \* the set REDIS_ITEM_TASKS_KEY of the item
  saved,   \* tasks whose registration reached Redis
  inbox,   \* tasks whose stop command has not reached their server yet
  clean,   \* how far the clean-up of each task is
  stop,    \* the requests to stop
  spoiled, \* tasks whose last clean-up failed, or came before their registration
  faults   \* servers lost and failures of Redis so far

storeVars  == <<hash, members>>
serverVars == <<tasks, items>>
vars == <<redis, task, serverVars, storeVars, saved, inbox, clean, stop, spoiled, faults>>

Phases  == {"none", "running", "leaving", "over", "lost"}
Steps   == {"idle", "remove", "count", "delete", "forget"}
NoTask  == [phase |-> "none"]
NoStop  == [at |-> "idle"]
Live(t) == task[t].phase \in {"running", "leaving"}
Over(t) == task[t].phase = "over"
At(t)   == task[t].server

TaskType ==
  {NoTask} \union [phase : Phases \ {"none"}, server : Servers, cancelled : BOOLEAN]

\* What a request to stop has seen: the names it listed and has still to stop,
\* the one it is at, and whether that one was found in the hash.
StopType ==
  {NoStop, [at |-> "failed"]} \union [at : {"done"}, listed : SUBSET Tasks]
  \union [at : {"next", "publish", "remove", "count", "delete"}, server : Servers,
          listed : SUBSET Tasks, current : SUBSET Tasks, known : BOOLEAN]
  \union [at : {"await"}, server : Servers, listed : SUBSET Tasks, index : Nat,
          current : SUBSET Tasks]

TypeOK ==
  /\ redis \in BOOLEAN
  /\ task \in [Tasks -> TaskType]
  /\ tasks \in [Servers -> SUBSET Tasks]
  /\ items \in [Servers -> Seq(Tasks)]
  /\ hash \subseteq Tasks /\ members \subseteq Tasks
  /\ saved \subseteq Tasks /\ inbox \subseteq Tasks /\ spoiled \subseteq Tasks
  /\ clean \in [Tasks -> Steps]
  /\ stop \in [Requests -> StopType]
  /\ faults \in 0..MaxFaults

Init ==
  /\ redis \in Deployments
  /\ task = [t \in Tasks |-> NoTask]
  /\ tasks = [s \in Servers |-> {}] /\ items = [s \in Servers |-> <<>>]
  /\ hash = {} /\ members = {} /\ saved = {} /\ inbox = {}
  /\ clean = [t \in Tasks |-> "idle"]
  /\ stop = [r \in Requests |-> NoStop]
  /\ spoiled = {} /\ faults = 0

----------------------------------------------------------------------------
(* Creation.  The task runs from here on; its name is known to it, and to  *)
(* Redis, only when redis_save_task has been answered.                     *)

\* Without Redis everything happens in one process.
MayServe(s) == redis \/ \A t \in Tasks : task[t] # NoTask => At(t) = s

Create(t, s) ==
  /\ task[t] = NoTask /\ <<t, s>> \in Arrivals /\ MayServe(s)
  /\ task' = [task EXCEPT ![t] = [phase |-> "running", server |-> s, cancelled |-> FALSE]]
  /\ tasks' = [tasks EXCEPT ![s] = @ \union {t}]
  /\ items' = [items EXCEPT ![s] = Append(@, t)]
  /\ UNCHANGED <<redis, storeVars, saved, inbox, clean, stop, spoiled, faults>>

Save(t) ==
  /\ redis /\ t \notin saved /\ task[t].phase \in {"running", "over"}
  /\ hash' = hash \union {t} /\ members' = members \union {t}
  /\ saved' = saved \union {t}
  /\ spoiled' = IF Over(t) /\ clean[t] # "remove" THEN spoiled \union {t} ELSE spoiled
  /\ UNCHANGED <<redis, task, serverVars, inbox, clean, stop, faults>>

----------------------------------------------------------------------------
(* The end of a task, and the clean-ups: its own, in the finally block of  *)
(* process_chat, and that of the callback asyncio runs when it is over.    *)

FirstStep == IF redis THEN "remove" ELSE "forget"

\* Seeded defect: no callback for tasks that deregister themselves.
EndedUnattended(t) ==
  /\ task' = [task EXCEPT ![t].phase = "over", ![t].cancelled = FALSE]
  /\ clean' = [clean EXCEPT ![t] = IF t \in Chats THEN "idle" ELSE FirstStep]

Ended(t) ==
  /\ task' = [task EXCEPT ![t].phase = "over", ![t].cancelled = FALSE]
  /\ clean' = [clean EXCEPT ![t] = FirstStep]

\* The coroutine returns, fails or takes notice of its cancellation; one that
\* does not know its name yet, or was cancelled before it began, just ends.
Leave(t) ==
  /\ task[t].phase = "running"
  /\ \/ /\ t \in Chats /\ (redis => t \in saved)
        /\ task' = [task EXCEPT ![t].phase = "leaving", ![t].cancelled = FALSE]
        /\ clean' = [clean EXCEPT ![t] = FirstStep]
     \/ Ended(t)
  /\ UNCHANGED <<redis, serverVars, storeVars, saved, inbox, stop, spoiled, faults>>

\* A cancellation that arrives in the finally block cuts its clean-up short.
End(t) ==
  /\ task[t].phase = "leaving" /\ (clean[t] = "idle" \/ task[t].cancelled)
  /\ Ended(t)
  /\ UNCHANGED <<redis, serverVars, storeVars, saved, inbox, stop, spoiled, faults>>

RemoveEntry(t) ==
  /\ clean[t] = "remove"
  /\ hash' = hash \ {t} /\ members' = members \ {t}
  /\ clean' = [clean EXCEPT ![t] = "count"]
  /\ UNCHANGED <<redis, task, serverVars, saved, inbox, stop, spoiled, faults>>

CountMembers(t) ==
  /\ clean[t] = "count"
  /\ clean' = [clean EXCEPT ![t] = IF members = {} THEN "delete" ELSE "forget"]
  /\ UNCHANGED <<redis, task, serverVars, storeVars, saved, inbox, stop, spoiled, faults>>

DeleteSet(t) ==
  /\ clean[t] = "delete"
  /\ members' = {}
  /\ clean' = [clean EXCEPT ![t] = "forget"]
  /\ UNCHANGED <<redis, task, serverVars, hash, saved, inbox, stop, spoiled, faults>>

\* list.remove: a task is appended once, so it has one position at most.
Without(list, t) ==
  IF \A i \in 1..Len(list) : list[i] # t THEN list
  ELSE LET i == CHOOSE j \in 1..Len(list) : list[j] = t
       IN SubSeq(list, 1, i - 1) \o SubSeq(list, i + 1, Len(list))

\* Seeded defect: the entry of the item goes with the first of its tasks.
ForgetItem(t) ==
  /\ clean[t] = "forget"
  /\ tasks' = [tasks EXCEPT ![At(t)] = @ \ {t}]
  /\ items' = [items EXCEPT ![At(t)] = <<>>]
  /\ stop' = [r \in Requests |->
       IF stop[r].at = "await" /\ stop[r].server = At(t)
       THEN [stop[r] EXCEPT !.index = 0] ELSE stop[r]]
  /\ clean' = [clean EXCEPT ![t] = "idle"]
  /\ UNCHANGED <<redis, task, storeVars, saved, inbox, spoiled, faults>>

\* A list that becomes empty is dropped: a loop that still runs over it ends.
Forget(t) ==
  /\ clean[t] = "forget"
  /\ tasks' = [tasks EXCEPT ![At(t)] = @ \ {t}]
  /\ items' = [items EXCEPT ![At(t)] = Without(@, t)]
  /\ stop' = [r \in Requests |->
       IF stop[r].at = "await" /\ stop[r].server = At(t) /\ items'[At(t)] = <<>>
       THEN [stop[r] EXCEPT !.index = 0] ELSE stop[r]]
  /\ clean' = [clean EXCEPT ![t] = "idle"]
  /\ UNCHANGED <<redis, task, storeVars, saved, inbox, spoiled, faults>>

\* Redis fails: process_chat goes on, the callback ends and is not repeated.
CleanFails(t) ==
  /\ clean[t] \in {"remove", "count", "delete"} /\ faults < MaxFaults
  /\ clean' = [clean EXCEPT ![t] = "idle"]
  /\ spoiled' = IF Over(t) THEN spoiled \union {t} ELSE spoiled
  /\ faults' = faults + 1
  /\ UNCHANGED <<redis, task, serverVars, storeVars, saved, inbox, stop>>

----------------------------------------------------------------------------
(* stop_item_tasks.  With Redis it works on the names the set had when it  *)
(* began; without it, it walks along the very list the clean-ups change.   *)

Goes(r, place) == stop' = [stop EXCEPT ![r].at = place, ![r].current = {}]

StopBegins(r, s) ==
  /\ redis /\ r \in Commands /\ stop[r] = NoStop
  /\ stop' = [stop EXCEPT ![r] =
       IF members = {} THEN [at |-> "done", listed |-> {}]
       ELSE [at |-> "next", server |-> s, listed |-> members, current |-> {}, known |-> TRUE]]
  /\ UNCHANGED <<redis, task, serverVars, storeVars, saved, inbox, clean, spoiled, faults>>

\* stop_task looks up the item of the task before it publishes the command.
LookUp(r, t) ==
  /\ redis /\ stop[r].at = "next" /\ t \in stop[r].listed
  /\ stop' = [stop EXCEPT ![r].at = "publish", ![r].listed = @ \ {t}, ![r].current = {t},
                          ![r].known = t \in hash]
  /\ UNCHANGED <<redis, task, serverVars, storeVars, saved, inbox, clean, spoiled, faults>>

\* Seeded defect: the command is sent to the process of the request only.
PublishAtHome(r) ==
  /\ stop[r].at = "publish"
  /\ inbox' = inbox \union {t \in stop[r].current : At(t) = stop[r].server}
  /\ stop' = [stop EXCEPT ![r].at = "remove"]
  /\ UNCHANGED <<redis, task, serverVars, storeVars, saved, clean, spoiled, faults>>

Publish(r) ==
  /\ stop[r].at = "publish"
  /\ inbox' = inbox \union stop[r].current
  /\ stop' = [stop EXCEPT ![r].at = "remove"]
  /\ UNCHANGED <<redis, task, serverVars, storeVars, saved, clean, spoiled, faults>>

\* A task whose item was not found is only taken out of the hash.
RemoveStopped(r) ==
  /\ stop[r].at = "remove"
  /\ hash' = hash \ stop[r].current
  /\ IF stop[r].known THEN members' = members \ stop[r].current /\ Goes(r, "count")
     ELSE UNCHANGED members /\ Goes(r, "next")
  /\ UNCHANGED <<redis, task, serverVars, saved, inbox, clean, spoiled, faults>>

CountRemaining(r) ==
  /\ stop[r].at = "count"
  /\ Goes(r, IF members = {} THEN "delete" ELSE "next")
  /\ UNCHANGED <<redis, task, serverVars, storeVars, saved, inbox, clean, spoiled, faults>>

DeleteRemaining(r) ==
  /\ stop[r].at = "delete"
  /\ members' = {}
  /\ Goes(r, "next")
  /\ UNCHANGED <<redis, task, serverVars, hash, saved, inbox, clean, spoiled, faults>>

StopFails(r) ==
  /\ stop[r].at \in {"publish", "remove", "count", "delete"} /\ faults < MaxFaults
  /\ stop' = [stop EXCEPT ![r] = [at |-> "failed"]]
  /\ faults' = faults + 1
  /\ UNCHANGED <<redis, task, serverVars, storeVars, saved, inbox, clean, spoiled>>

\* Cancelling a task that is over has no effect.
Cancelled(t) == IF Live(t) THEN [task EXCEPT ![t].cancelled = TRUE] ELSE task

\* redis_task_command_listener of the task's server; the others ignore it.
Listener(t) ==
  /\ t \in inbox
  /\ inbox' = inbox \ {t}
  /\ task' = IF t \in tasks[At(t)] THEN Cancelled(t) ELSE task
  /\ UNCHANGED <<redis, serverVars, storeVars, saved, clean, stop, spoiled, faults>>

StopReturns(r) ==
  /\ stop[r].at = "next" /\ stop[r].listed = {}
  /\ stop' = [stop EXCEPT ![r] = [at |-> "done", listed |-> {}]]
  /\ UNCHANGED <<redis, task, serverVars, storeVars, saved, inbox, clean, spoiled, faults>>

\* Without Redis, the loop reaches position i of the list: the task there is
\* cancelled and its end awaited, but one not in the dictionary ends the loop.
Walk(r, s, ids, i) ==
  LET list == items[s]
  IN /\ \/ /\ i \notin 1..Len(list)
           /\ stop' = [stop EXCEPT ![r] = [at |-> "done", listed |-> ids]]
           /\ UNCHANGED <<tasks, task>>
        \/ /\ i \in 1..Len(list) /\ list[i] \notin tasks[s]
           /\ stop' = [stop EXCEPT ![r] = [at |-> "failed"]]
           /\ UNCHANGED <<tasks, task>>
        \/ /\ i \in 1..Len(list) /\ list[i] \in tasks[s]
           /\ tasks' = [tasks EXCEPT ![s] = @ \ {list[i]}]
           /\ task' = Cancelled(list[i])
           /\ stop' = [stop EXCEPT ![r] =
                [at |-> "await", server |-> s, listed |-> ids \ {list[i]}, index |-> i,
                 current |-> {list[i]}]]
     /\ UNCHANGED <<redis, items, storeVars, saved, inbox, clean, spoiled, faults>>

WalkBegins(r, s) ==
  /\ ~redis /\ stop[r] = NoStop /\ MayServe(s)
  /\ Walk(r, s, {items[s][i] : i \in 1..Len(items[s])}, 1)

\* An exception of the task, other than its cancellation, ends the loop.
WalkGoesOn(r) ==
  /\ stop[r].at = "await" /\ \A t \in stop[r].current : Over(t)
  /\ \/ Walk(r, stop[r].server, stop[r].listed, IF stop[r].index = 0 THEN 0 ELSE stop[r].index + 1)
     \/ /\ stop' = [stop EXCEPT ![r] = [at |-> "failed"]]
        /\ UNCHANGED <<redis, task, serverVars, storeVars, saved, inbox, clean, spoiled, faults>>

\* A server process is lost with its tasks and requests, and starts again.
Crash(s) ==
  /\ faults < MaxFaults
  /\ LET here(t) == /\ task[t].phase \in {"running", "leaving", "over"} /\ At(t) = s
                    /\ Over(t) => clean[t] # "idle" \/ (redis /\ t \notin saved)
     IN /\ inbox' = {t \in inbox : ~here(t)}
        /\ task' = [t \in Tasks |-> IF here(t) THEN [task[t] EXCEPT !.phase = "lost"] ELSE task[t]]
        /\ clean' = [t \in Tasks |-> IF here(t) THEN "idle" ELSE clean[t]]
  /\ tasks' = [tasks EXCEPT ![s] = {}] /\ items' = [items EXCEPT ![s] = <<>>]
  /\ stop' = [r \in Requests |->
       IF stop[r].at \notin {"idle", "done", "failed"} /\ stop[r].server = s
       THEN [at |-> "failed"] ELSE stop[r]]
  /\ faults' = faults + 1
  /\ UNCHANGED <<redis, storeVars, saved, spoiled>>

----------------------------------------------------------------------------
Cleaning(t) == RemoveEntry(t) \/ CountMembers(t) \/ DeleteSet(t) \/ Forget(t)

Stopping(r) ==
  \/ \E t \in Tasks : LookUp(r, t)
  \/ Publish(r) \/ RemoveStopped(r) \/ CountRemaining(r) \/ DeleteRemaining(r)
  \/ StopReturns(r) \/ WalkGoesOn(r)

Next ==
  \/ \E t \in Tasks :
       \/ \E s \in Servers : Create(t, s)
       \/ Save(t) \/ Listener(t) \/ Leave(t) \/ End(t) \/ Cleaning(t) \/ CleanFails(t)
  \/ \E r \in Requests :
       \/ \E s \in Servers : StopBegins(r, s) \/ WalkBegins(r, s)
       \/ Stopping(r) \/ StopFails(r)
  \/ \E s \in Servers : Crash(s)

Spec == Init /\ [][Next]_vars

\* A cancelled task ends, and an event loop runs what is ready to run.  A task
\* that nobody stops need not end.
Fairness ==
  /\ \A t \in Tasks :
       /\ WF_vars(Leave(t) /\ task[t].cancelled) /\ WF_vars(End(t))
       /\ WF_vars(Cleaning(t)) /\ WF_vars(Listener(t))
  /\ \A r \in Requests : WF_vars(Stopping(r))

FairSpec == Spec /\ Fairness

----------------------------------------------------------------------------
(* Properties.                                                             *)

\* A running task can still be found by who wants to stop it (stop_task,
\* redis_task_command_listener): it is in the list and in the dictionary of its
\* server, or a stop is already waiting for its end, and once registered it stays
\* in Redis unless a command to stop it is on its way or has arrived.
Reachable ==
  \A t \in Tasks : task[t].phase = "running" =>
    /\ \E i \in 1..Len(items[At(t)]) : items[At(t)][i] = t
    /\ t \in tasks[At(t)] \/ (~redis /\ task[t].cancelled)
    /\ t \in saved => t \in hash \/ t \in inbox \/ task[t].cancelled

\* Whatever stop_task undertakes to stop comes to its end, unless the request
\* itself fails or is lost with its server: with Redis this is every task that
\* was listed when stop_item_tasks began.
Stopped ==
  \A r \in Requests, t \in Tasks :
    (\/ stop[r].at = "next" /\ t \in stop[r].listed
     \/ stop[r].at = "await" /\ t \in stop[r].current)
      ~> (task[t].phase \in {"over", "lost"} \/ stop[r].at = "failed")

\* A task that is over disappears from the dictionary, the list and Redis
\* (cleanup_task), unless its server is lost, Redis fails in the clean-up of the
\* callback, which nothing repeats, or the registration comes after that clean-up.
Forgotten ==
  \A t \in Tasks :
    Over(t) ~> \/ t \in spoiled \/ ~Over(t)
               \/ /\ t \notin hash /\ t \notin members /\ t \notin tasks[At(t)]
                  /\ \A i \in 1..Len(items[At(t)]) : items[At(t)][i] # t

----------------------------------------------------------------------------
(* What the comments promise and the code does not always keep.            *)

\* tasks.py:184: "Stop all tasks associated with a specific item ID."  Without
\* Redis the loop skips the successor of a task that leaves the list by itself.
StopsAll ==
  \A r \in Requests : stop[r].at = "done" => \A t \in stop[r].listed : task[t].phase # "running"

\* tasks.py:199: "Check if a chat has any active tasks."  With Redis the set is
\* deleted although another server has added to it since it was counted.
ActiveIsSeen ==
  \A t \in Tasks : task[t].phase = "running" /\ t \in saved /\ t \in hash => t \in members
=============================================================================
