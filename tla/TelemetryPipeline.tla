-------------------------- MODULE TelemetryPipeline --------------------------
(****************************************************************************)
(* The way of a telemetry event: captured in a page or by the browser       *)
(* extension, queued by the extension's background worker, posted in        *)
(* batches, stored and added to the summary of the experiment session.      *)
(*   browser-extension/experiment-telemetry/content.js     the page         *)
(*   browser-extension/experiment-telemetry/background.js  the worker       *)
(*   backend/open_webui/routers/experiment_telemetry.py    telemetry_events *)
(* The worker runs its jobs one at a time (runSerial), but every await in a *)
(* job is a point at which the browser may end the worker: `job' is lost,   *)
(* chrome.storage stays.  A browser restart also empties storage.session.   *)
(* A request lives at the server after the worker gave up on it.            *)
(* One experiment session; an event is its identity, its kind and, when the *)
(* extension numbered it, its browser session and sequence number.          *)
(****************************************************************************)
EXTENDS Integers, Sequences, FiniteSets, SequencesExt

CONSTANTS
    MaxEvents,      \* bound: events captured in a behaviour (loss reports not counted)
    PendingLimit,   \* events a page keeps after a failed message (500)
    QueueLimit,     \* MAX_EVENTS of the worker (10000)
    BatchLimit,     \* events of one batch (100)
    MaxAttempts,    \* tries of fetchWithRetries (3)
    Slots,          \* bound: requests of the extension under way at once
    MaxStops,       \* bound: stops of the capture
    MaxFaults       \* bound: timeouts, ends of the worker, browser restarts

ASSUME PipelineAssumption ==
    /\ {PendingLimit, QueueLimit, BatchLimit, MaxAttempts} \subseteq Nat \ {0}
    /\ {MaxEvents, MaxStops, MaxFaults} \subseteq Nat
    /\ IsFiniteSet(Slots) /\ Slots # {}

None == -1
Kinds == {"page", "tab", "loss"}

VARIABLES
    pending,    \* pendingEvents of the page
    message,    \* events of the page's enqueue-events message without an answer
    on,         \* storage.session: browser session and last sequence number, or off
    queue,      \* storage.local: queue.events
    dropped,    \* storage.local: queue.dropped
    job,        \* the job the worker is at
    req,        \* requests at the server
    open,       \* the experiment session is IN_PROGRESS
    stored,     \* rows of ExperimentTelemetryEvent
    summary,    \* total_keystrokes of the session's summary row, or None
    made,       \* history: events made so far
    lives,      \* history: browser session ids given out
    queued,     \* history: events that ever entered the queue
    shed,       \* history: events the queue limit removed
    cleared,    \* history: events removed with the queue at a sign-out
    stops, faults

page == <<pending, message>>
local == <<queue, dropped>>
server == <<open, stored, summary>>
history == <<made, lives, queued, shed, cleared>>
bounds == <<stops, faults>>
vars == <<page, on, local, job, req, server, history, bounds>>

Event(kind, life, seq) == [id |-> made + 1, kind |-> kind, life |-> life, seq |-> seq]
Ids(s) == {e.id : e \in s}

Off == [life |-> 0, seq |-> 0]          \* storage.session holds no state
IsOn == on.life # 0

\* What a job does after the events and batches it is at: nothing more, a
\* flush, a stop, or a stop that also removes the queue.
Ends == {"idle", "flush", "stop", "clear"}
Idle == [step |-> "idle", then |-> "idle", event |-> <<>>, batch |-> 0, try |-> 0, slot |-> None]
Free == [step |-> "free", batch |-> <<>>, sum |-> None, seen |-> {}, answer |-> "none"]

\* The batch a flush sends: the first events of the queue.
Batch == SubSeq(queue, 1, IF Len(queue) < BatchLimit THEN Len(queue) ELSE BatchLimit)

-----------------------------------------------------------------------------
(* The page.                                                               *)

\* A key was pressed: queue() keeps the event until sendPending.
Press == /\ IsOn /\ open /\ made < MaxEvents
         /\ pending' = Append(pending, Event("page", 0, 0))
         /\ made' = made + 1
         /\ UNCHANGED <<message, on, local, job, req, server, lives, queued, shed, cleared, bounds>>

\* sendPending: the events leave the page with the message.
SendPending == /\ pending # <<>> /\ message = <<>>
               /\ message' = pending
               /\ pending' = <<>>
               /\ UNCHANGED <<on, local, job, req, server, history, bounds>>

\* The message was not answered: its events go back before the newer ones,
\* and only the newest are kept.
Kept(s) == SubSeq(s, IF Len(s) > PendingLimit THEN Len(s) - PendingLimit + 1 ELSE 1, Len(s))
MessageFails == /\ pending' = Kept(message \o pending)
                /\ message' = <<>>

-----------------------------------------------------------------------------
(* The queue.                                                              *)

\* enforceQueueLimit: the oldest events leave the queue and are counted.
Excess(events) == IF Len(events) > QueueLimit THEN Len(events) - QueueLimit ELSE 0

AppendToQueue(events) ==
    LET all == queue \o events IN
    /\ queue' = SubSeq(all, Excess(all) + 1, Len(all))
    /\ dropped' = dropped + Excess(all)
    /\ queued' = queued \cup Ids(ToSet(events))
    /\ shed' = shed \cup Ids(ToSet(SubSeq(all, 1, Excess(all))))

\* enqueue-events: without a session the events are thrown away, and the page
\* gets its answer all the same.
Receive == /\ job = Idle /\ message # <<>>
           /\ job' = [job EXCEPT !.step = "reply"]
           /\ IF IsOn THEN AppendToQueue(message)
                      ELSE UNCHANGED <<local, queued, shed>>
           /\ UNCHANGED <<page, on, req, server, made, lives, cleared, bounds>>

Reply == /\ job.step = "reply"
         /\ job' = Idle
         /\ message' = <<>>
         /\ UNCHANGED <<pending, on, local, req, server, history, bounds>>

\* A tab event, alone or as the snapshot at a stop: nextEvent first writes the
\* sequence number to storage.session ...
NextEvent(kind) == /\ on' = [on EXCEPT !.seq = @ + 1]
                   /\ made' = made + 1
                   /\ job' = [job EXCEPT !.event = <<Event(kind, on.life, on.seq + 1)>>,
                                         !.step = IF kind = "tab" THEN "enqueue" ELSE "report"]

TabEvent == /\ job.step \in {"idle", "snapshot"} /\ IsOn /\ made < MaxEvents
            /\ NextEvent("tab")
            /\ UNCHANGED <<page, local, req, server, lives, queued, shed, cleared, bounds>>

\* ... and enqueueUnlocked then writes the queue.
Enqueue == /\ job.step = "enqueue"
           /\ AppendToQueue(job.event)
           /\ job' = [job EXCEPT !.event = <<>>,
                                 !.step = IF job.then = "idle" THEN "idle" ELSE "flush"]
           /\ UNCHANGED <<page, on, req, server, made, lives, cleared, bounds>>

-----------------------------------------------------------------------------
(* The flush.                                                              *)

\* The job ends, or goes on with what a stop does after its flush.
AfterFlush == IF job.then \in {"stop", "clear"} THEN [Idle EXCEPT !.step = "off", !.then = job.then]
                                                ELSE Idle

Flush == /\ job = Idle /\ IsOn /\ (queue # <<>> \/ dropped > 0)
         /\ job' = [job EXCEPT !.step = "flush", !.then = "flush"]
         /\ UNCHANGED <<page, on, local, req, server, history, bounds>>

\* flushUnlocked: a count of dropped events becomes an event of its own ...
\* Seeded defect: the count is reset before its report is in the queue.
StartFlushResets == /\ job.step \in {"flush", "snapshot"}
                    /\ IF dropped > 0
                       THEN NextEvent("loss") /\ dropped' = 0
                       ELSE job' = [job EXCEPT !.step = "send"] /\ UNCHANGED <<on, made, dropped>>
                    /\ UNCHANGED <<page, queue, req, server, lives, queued, shed, cleared, bounds>>

StartFlush == /\ job.step \in {"flush", "snapshot"}
              /\ IF dropped > 0
                 THEN NextEvent("loss")
                 ELSE job' = [job EXCEPT !.step = "send"] /\ UNCHANGED <<on, made>>
              /\ UNCHANGED <<page, local, req, server, lives, queued, shed, cleared, bounds>>

\* ... which goes to the front of the queue.
ReportLoss == /\ job.step = "report"
              /\ queue' = job.event \o queue
              /\ dropped' = 0
              /\ queued' = queued \cup Ids(ToSet(job.event))
              /\ job' = [job EXCEPT !.event = <<>>, !.step = "send"]
              /\ UNCHANGED <<page, on, req, server, made, lives, shed, cleared, bounds>>

\* The loop over the batches, and the tries of fetchWithRetries.
Send == /\ job.step = "send" /\ queue # <<>>
        /\ \E s \in Slots :
              /\ req[s] = Free
              /\ req' = [req EXCEPT ![s].step = "sent", ![s].batch = Batch]
              /\ job' = [job EXCEPT !.step = "await", !.slot = s, !.batch = Len(Batch)]
        /\ UNCHANGED <<page, on, local, server, history, bounds>>

FlushDone == /\ job.step = "send" /\ queue = <<>>
             /\ job' = AfterFlush
             /\ UNCHANGED <<page, on, local, req, server, history, bounds>>

Retry == IF job.try + 1 < MaxAttempts
         THEN [job EXCEPT !.step = "send", !.slot = None, !.try = @ + 1]
         ELSE AfterFlush

\* The batch was accepted: its events leave the queue.
\* Seeded defect: the events stay in the queue after an answer.
AcceptedKeeps == /\ job' = AfterFlush
                 /\ UNCHANGED <<on, queue>>

Accepted == /\ queue' = SubSeq(queue, job.batch + 1, Len(queue))
            /\ job' = [job EXCEPT !.step = "send", !.slot = None, !.try = 0]
            /\ UNCHANGED on

\* Seeded defect: the queue is given up with the session.
RefusedEmpties == /\ on' = Off
                  /\ queue' = <<>>
                  /\ job' = AfterFlush

\* 401, 403, 409 and 422 end the capture; the queue stays.
Refused == /\ on' = Off
           /\ job' = AfterFlush
           /\ UNCHANGED queue

ReadAnswer == /\ job.step = "await" /\ req[job.slot].step = "done"
              /\ req' = [req EXCEPT ![job.slot] = Free]
              /\ \/ req[job.slot].answer = "ok" /\ Accepted
                 \/ req[job.slot].answer = "refused" /\ Refused
                 \/ req[job.slot].answer = "error" /\ job' = Retry /\ UNCHANGED <<on, queue>>
              /\ UNCHANGED <<page, dropped, server, history, bounds>>

\* No answer within ten seconds: the request may not have arrived, may be on
\* its way, or its answer is lost.
Abandon(s) == [req EXCEPT ![s] = IF @.step = "done" THEN Free ELSE [@ EXCEPT !.answer = "unread"]]
Timeout == /\ job.step = "await" /\ faults < MaxFaults
           /\ faults' = faults + 1
           /\ job' = Retry
           /\ \/ req' = Abandon(job.slot)
              \/ req[job.slot].step = "sent" /\ req' = [req EXCEPT ![job.slot] = Free]
           /\ UNCHANGED <<page, on, local, server, history, stops>>

-----------------------------------------------------------------------------
(* Start and stop of the capture.                                          *)

\* Events that wait for the session keep their browser session, and its
\* numbers go on after theirs.
Numbered == {e \in ToSet(queue) : e.life # 0}

StateOfStart == IF Numbered = {} THEN [life |-> lives + 1, seq |-> 0]
                ELSE [life |-> (CHOOSE e \in Numbered : TRUE).life,
                      seq |-> CHOOSE n \in {e.seq : e \in Numbered} : \A e \in Numbered : e.seq <= n]

Start == /\ job = Idle /\ ~IsOn /\ open
         /\ on' = StateOfStart
         /\ lives' = IF Numbered = {} THEN lives + 1 ELSE lives
         /\ UNCHANGED <<page, local, job, req, server, made, queued, shed, cleared, bounds>>

\* stopUnlocked: a last snapshot, a flush, and then the state (after a
\* sign-out the queue too) is removed.
Stop(then) == /\ job = Idle /\ IsOn /\ stops < MaxStops
              /\ stops' = stops + 1
              /\ job' = [job EXCEPT !.step = "snapshot", !.then = then]
              /\ UNCHANGED <<page, on, local, req, server, history, faults>>

Finish == /\ job.step = "off"
          /\ on' = Off
          /\ job' = Idle
          /\ IF job.then = "clear"
             THEN /\ queue' = <<>> /\ dropped' = 0
                  /\ cleared' = cleared \cup Ids(ToSet(queue))
             ELSE UNCHANGED <<local, cleared>>
          /\ UNCHANGED <<page, req, server, made, lives, queued, shed, bounds>>

\* The browser ends the worker, or is restarted (which also ends the page and
\* empties storage.session).
Unread == IF job.step = "await" THEN Abandon(job.slot) ELSE req

WorkerEnds == /\ job # Idle /\ faults < MaxFaults
              /\ faults' = faults + 1
              /\ job' = Idle
              /\ req' = Unread
              /\ IF message # <<>> THEN MessageFails ELSE UNCHANGED page
              /\ UNCHANGED <<on, local, server, history, stops>>

BrowserRestarts == /\ faults < MaxFaults
                   /\ faults' = faults + 1
                   /\ job' = Idle
                   /\ req' = Unread
                   /\ pending' = <<>> /\ message' = <<>>
                   /\ on' = Off
                   /\ UNCHANGED <<local, server, history, stops>>

-----------------------------------------------------------------------------
(* telemetry_events at the server.                                         *)

Answered(s, answer) == req' = [req EXCEPT ![s] = IF @.answer = "unread" THEN Free
                                                 ELSE [Free EXCEPT !.step = "done", !.answer = answer]]

\* The session is looked up, then the summary row ...
LoadSummary(s) == /\ req[s].step = "sent"
                  /\ IF open THEN req' = [req EXCEPT ![s].step = "summary", ![s].sum = summary]
                             ELSE Answered(s, "refused")
                  /\ UNCHANGED <<page, on, local, job, server, history, bounds>>

\* ... and then the events of the batch that are stored already.
LoadExisting(s) == /\ req[s].step = "summary"
                   /\ req' = [req EXCEPT ![s].step = "events",
                                         ![s].seen = Ids(stored) \cap Ids(ToSet(req[s].batch))]
                   /\ UNCHANGED <<page, on, local, job, server, history, bounds>>

New(s) == {e \in ToSet(req[s].batch) : e.id \notin req[s].seen}

\* Only what a participant did in the page is added up.
\* Seeded defect: an event sent again is counted again.
CountedWithDuplicates(s) == {i \in DOMAIN req[s].batch : req[s].batch[i].kind = "page"}

Counted(s) == {e \in New(s) : e.kind = "page"}

\* The commit: the primary keys of the events and of a new summary row make
\* an overtaken request fail, and nothing of it stays.
Conflict(s) == \/ Ids(New(s)) \cap Ids(stored) # {}
               \/ req[s].sum = None /\ summary # None
Commit(s) == /\ req[s].step = "events"
             /\ IF Conflict(s)
                THEN Answered(s, "error") /\ UNCHANGED <<stored, summary>>
                ELSE /\ Answered(s, "ok")
                     /\ stored' = stored \cup New(s)
                     /\ summary' = IF req[s].sum = None THEN Cardinality(Counted(s))
                                   ELSE IF Counted(s) = {} THEN summary
                                   ELSE req[s].sum + Cardinality(Counted(s))
             /\ UNCHANGED <<page, on, local, job, open, history, bounds>>

\* The writing session ends.
Close == /\ open
         /\ open' = FALSE
         /\ UNCHANGED <<page, on, local, job, req, stored, summary, history, bounds>>

-----------------------------------------------------------------------------
Init == /\ pending = <<>> /\ message = <<>>
        /\ on = Off /\ queue = <<>> /\ dropped = 0
        /\ job = Idle /\ req = [s \in Slots |-> Free]
        /\ open = TRUE /\ stored = {} /\ summary = None
        /\ made = 0 /\ lives = 0 /\ queued = {} /\ shed = {} /\ cleared = {}
        /\ stops = 0 /\ faults = 0

Worker == \/ Receive \/ Reply \/ Enqueue \/ StartFlush \/ ReportLoss
          \/ Send \/ FlushDone \/ ReadAnswer \/ Finish
Server(s) == LoadSummary(s) \/ LoadExisting(s) \/ Commit(s)

Next == \/ Press \/ SendPending \/ TabEvent \/ Worker \/ Flush
        \/ Start \/ Stop("stop") \/ Stop("clear")
        \/ Timeout \/ WorkerEnds \/ BrowserRestarts \/ Close
        \/ \E s \in Slots : Server(s)

Spec == Init /\ [][Next]_vars

\* A job that was begun goes on unless the worker ends; the flush alarm fires
\* every half minute; an open page looks for its session again; the server
\* goes on with a request.
Fairness == /\ WF_vars(Worker) /\ WF_vars(Flush) /\ WF_vars(Start)
            /\ \A s \in Slots : WF_vars(Server(s))
FairSpec == Spec /\ Fairness

-----------------------------------------------------------------------------
EventType == [id : Nat \ {0}, kind : Kinds, life : Nat, seq : Nat]
JobType == [step : {"idle", "snapshot", "enqueue", "reply", "flush", "report", "send", "await", "off"},
            then : Ends, event : Seq(EventType), batch : 0..BatchLimit, try : 0..MaxAttempts - 1,
            slot : Slots \cup {None}]
RequestType == [step : {"free", "sent", "summary", "events", "done"}, batch : Seq(EventType),
                sum : Nat \cup {None}, seen : SUBSET Nat, answer : {"none", "ok", "refused", "error", "unread"}]

TypeOK ==
    /\ pending \in Seq(EventType) /\ message \in Seq(EventType)
    /\ on \in [life : Nat, seq : Nat]
    /\ queue \in Seq(EventType) /\ dropped \in Nat
    /\ job \in JobType /\ req \in [Slots -> RequestType]
    /\ open \in BOOLEAN /\ stored \subseteq EventType /\ summary \in Nat \cup {None}
    /\ made \in Nat /\ lives \in Nat
    /\ queued \subseteq Nat /\ shed \subseteq Nat /\ cleared \subseteq Nat
    /\ stops \in 0..MaxStops /\ faults \in 0..MaxFaults

\* The sizes the code relies on: enqueueing leaves at most MAX_EVENTS in the
\* queue and one report of a loss may be in front of them; a flush numbers its
\* report, and a tab its event, only while the capture is on; no request is
\* empty; a stored event has a summary.
SizesKept ==
    /\ Len(pending) <= MaxEvents /\ Len(queue) <= QueueLimit + 1
    /\ job.step \in {"await", "report", "enqueue"} => IsOn
    /\ \A s \in Slots : req[s].step \in {"sent", "summary", "events"} => req[s].batch # <<>>
    /\ summary = None => stored = {}
    /\ \A e \in ToSet(queue) \cup stored : (e.kind = "page") = (e.life = 0)

\* An event that entered the queue waits in it, is stored, was shed by the
\* limit or was removed at a sign-out: answers that are lost, refused or late,
\* an end of the worker between two writes and a restart of the browser lose
\* none.
NothingLostSilently == queued \subseteq Ids(ToSet(queue)) \cup Ids(stored) \cup shed \cup cleared

\* When the limit shed events, a count waits to be reported or a report is in
\* the queue or stored, so that the researcher sees that the data has a hole,
\* although a report can itself be shed.
LossLeavesTrace == shed # {} /\ cleared = {} =>
    dropped > 0 \/ \E e \in ToSet(queue) \cup stored : e.kind = "loss"

\* In one browser session the numbers of tab events are unique and follow the
\* order of capture, over ends of the worker and restarts that resume the
\* browser session from what waits in the queue.
NumberedInOrder == \A e, f \in {g \in ToSet(queue) \cup stored : g.kind = "tab"} :
    e.life = f.life /\ e.id < f.id => e.seq < f.seq

\* The summary never counts an event twice: it is at most the number of stored
\* keystrokes, although batches are sent again and overtake one another.
SummaryWithin == summary <= Cardinality({e \in stored : e.kind = "page"})

\* The summary is the number of stored keystrokes: a batch that is sent again
\* changes nothing and every other one is added.
SummaryAgrees == stored # {} => summary = Cardinality({e \in stored : e.kind = "page"})

\* What is queued is delivered while the session is open: lost answers, ends
\* of the worker and browser restarts delay it and do not stop it.
Drained == queue # <<>> ~> queue = <<>> \/ ~open
=============================================================================
