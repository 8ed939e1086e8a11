# Experiment platform: TLA+ models and proofs

The repository is a fork of Open WebUI that adds a platform for research
experiments: participants work through a plan of surveys, essays and question
tasks while they chat with a language model whose behaviour is measured, limited
and perturbed. These modules model the part this fork adds. Paths below are
relative to `src/backend/open_webui/` unless they say otherwise.

## Inventory

| Part | Source | State | Operations | What must hold |
|---|---|---|---|---|
| Prompt budgets | `utils/experiment_prompt_budgets.py`, `models/experiment_prompt_budgets.py` | bucket and reservation rows, one heartbeat task per run | reserve, renew, settle, expire on next use, usage | the limit, exact counters, places come back after any failure |
| Session and tasks | `models/experiments.py`, task routes of `routers/experiments.py` | session state, one row per task, submissions | consent, start, drafts, submit, skip, complete, finalize, finalize-all | tasks in order, every stage answered, done stays done, no session stuck |
| Plans | `models/experiment_plans.py` | versions of a group's plan, items, conditions | save (draft, publish, supersede), instantiate a session | one published plan per group, locked plans never change, sessions keep their snapshot |
| Surveys | `models/survey_tasks.py`, `models/survey_submissions.py` | versions, submissions, answers | draft, submit, skip | one submission per task, required ones answered |
| Questions and grading | `models/question_submissions.py`, `utils/question_grading.py`, `routers/experiment_analytics.py` | submissions, responses, grading attempts, overrides | draft, finalize, grade by a model, retry, override | every answer graded once or reported, overrides win |
| Warning modals | `routers/experiments.py` 131-356 | one row per session: pending and last token | poll, activity, display, acknowledge | each due warning shown and logged once |
| LLM requests | `utils/experiment_perturbations.py`, `main.py` | one row per request, the chunker of a stream | number, inject, delay, stream, record the outcome | numbers without gaps or repetitions, the text in order, one outcome |
| Telemetry | `routers/experiment_telemetry.py`, `browser-extension/experiment-telemetry/` | queue in the browser, events and summary on the server | enqueue, flush, retry, drop, store | each event counted at most once, losses reported |
| Workflows | `models/experiment_workflows.py` | revisions, row locks, copied images | edit, delete, import, apply to a group | applied only as reviewed, no image forgotten, no deadlock |
| Task registry | `tasks.py` | process-local tasks, Redis sets | create, clean up, stop | no task left behind, none invisible |
| Open WebUI itself, web client, research toolbox | `main.py`, `socket/`, `src/src/`, `research-toolbox/` | | | not modelled: inherited, presentational, or offline |

The parts meet in the database. A handler runs in an async SQLAlchemy session
with `autoflush` and `expire_on_commit` off (`internal/db.py` 384-390): it reads
rows without locking them, decides, and later writes the columns it changed.
Two requests of one participant (double click, two tabs, a client's retry)
therefore interleave between reading and committing. Exceptions are the prompt
bucket, which is locked, and `Experiments._transition`, an `UPDATE ... WHERE
state = expected`. That is where the hard behaviours are: stale reads, several
commits in one handler, work that outlives its request, servers that stop.
`PROJECT.json` lists each hazard at its line.

## Modules

### `PromptQuota`, `PromptBudget`: the LLM prompt budget

`PromptQuota` is the promise: places are granted below a limit, and each is
either returned or counted, never both. `PromptBudget` is the code. One run is
one chat request (`process_chat` in `main.py`):

- `Start`/`RefuseScope`, `CheckBucket`, `InsertBucket`: `resolve_scope` and
  `_ensure_bucket`. The two bucket steps are separate, since two first requests
  may both see no bucket.
- `TakePlace` (`Reserve`, `ReserveLost`, `RefuseLimit`): the transaction of
  `reserve` under the bucket's lock: overdue reservations expire, the counters
  are compared with the limit, a reservation with a lease is inserted.
- `BeginDelivery`, `Deliver`, `FailOrStop`, `HandOver`, `Abandon`, `Finish`:
  what `BudgetRun` sees of the response: success, failure, cancellation,
  a stream whose body is never read.
- `Settle`, `SettleLost`: `finish` and `settle`; `finish` marks the run finished
  first and never settles twice, so a database error there is not retried.
- `HeartbeatRenews`, `HeartbeatRefused`, `HeartbeatRetries`, `HeartbeatGivesUp`,
  `HeartbeatRetires`: the heartbeat task, which cancels its owner when its lease
  is gone and retires with it.
- `Tick`: time, in units of the heartbeat; `Crash`: the server stops.

The variables `bucket` and `resv` are the two tables; the counters are kept by
hand in the code and in the model, and `LedgerAgrees` says they are exact.

### `ExperimentProgress`: a session and its tasks

`plan`, `superseded`, `state` and `rows` are the database; `req` is what each
request under way has loaded. A task request goes through `Receive` (the checks
of `_session_task_for_user` and of its handler, against the rows as they are),
`Load` (submission and other rows), and one commit (`CommitStage`,
`CommitComplete`, `CommitStart`) that writes the columns which differ from what
it loaded (`Written`). `finalize_all_tasks` commits once per task
(`FinalizeEssayRow`, `FinalizeQuestionRow`) and once at the end (`FinishAll`).
`Crash` interrupts a request between any two steps. `AdvancedRows` and
`AdvancedState` are `advance_after_stage`, as functions of the statuses the
handler sees. Session transitions that compare the state in their `UPDATE` are
one step. A submission's second insert is refused by the unique key
(`Collide`; migrations `c0d1e2f3a4b5`, `d1e2f3a4b5c6`).

### `Grading`: answers, scores and grading jobs

`resp`, `sub` and `attempts` are the tables `question_response`,
`question_submission` and `question_grading_attempt`; `jobs` counts the
`grade_response` coroutines not yet begun, and `work` holds the requests and
jobs under way with the rows each of them loaded. A transaction is two steps: a
`Begin...` that loads and checks, and a `Commit...` that writes the columns which
differ from what was loaded (`Update`; sessions lock nothing and flush late).

- `BeginDraft`/`CommitDraft`: `save_draft`. `BeginFinalize`/`CommitFinalize`:
  `finalize`, with the answers of `finalize/questions` or with the stored ones;
  the recalculation and the attempts are part of the commit. `Schedule` creates
  the jobs afterwards.
- `BeginOverride`/`CommitOverride`, `BeginRetry`/`CommitRetry`: the two writing
  routes of `routers/experiment_analytics.py`. The routes do not ask whether the
  submission is final; the constant `Early` says whether an administrator ever
  grades a draft.
- `BeginGrade`/`CommitGrade`, then `Ask`, then `LoadResult`/`CommitResult`: the
  two transactions of `grade_response` with the model's answer, failure or
  timeout between them. `BeginGrade` returns when there is nothing to grade,
  which takes overlapping transactions (`MCGrading_overlap.cfg`).
- `Crash`: jobs and requests are gone, the rows stay.

A score is named by what it scores, so that a stale score is told from a right
one; the total is the family of the scores it adds up, a missing one counting as
0. What a transaction reads, it reads in one step: the code's several `SELECT`s
of one transaction can see more mixtures than that only when transactions
overlap. Retries end at `MaxAttempts`.

### `RequestNumbering`: the numbers of a session's model requests

One request is one call of `prepare_request`. `row` is `experiment_llm_request`,
`att` what an attempt has read. `ReadSequence`, `ReadPrevious` and `ReadPrompt`
are its three queries, each of which sees what is committed when it runs. With
the numbers they give, `PromptActive` decides whether the instruction is added:
the rule is enabled, its scope has the task of the request (`ScopeMatches`), its
activation fits the numbers (`CadenceMatches`), and the draw of this request
number is below the probability. The draw is a keyed hash of plan, session and
number, so `drawn` is the set of numbers it favours; a probability of 1 is the
set of all. Only then do `Insert` and `Conflict` follow, the commit with that
decision and the refusal by the unique key on `(session, request_sequence)`,
after which everything is read and decided again, `Tries` times at most. `Vanish`
is a cancellation or a stop. `called` is history: the highest number when the
request came, with which `FailsOnlyWhenCrowded` counts what was numbered since.

### `WarningRuntime`: warnings and the prompts they hold back

Extends `RequestNumbering`, and composes it with the warning: a prompt (`Call`
of that module) starts only after the check in `chat_completion` let it
pass. A tab polls (`payload`), reports activity, displays and acknowledges; all of them
`Load` the row `FOR UPDATE` or `Create` it (`_active_runtime`), decide, and
commit. `AddActivity` and `Reload` are the activity route, whose second
`FOR UPDATE` keeps the object loaded first. `Payload` is `_runtime_payload`: it
computes the trigger that is due, issues a token or keeps the pending one.
`Display` and `Acknowledge` write the `journal` of telemetry events. `lock` is the
row lock, which a database may not have (`RowLocks`), `modal` what each tab shows.

### `TelemetryPipeline`: from the page to the summary

- The page (`content.js`): `Press` captures, `SendPending` and `MessageFails`
  are its `enqueue-events` message.
- The worker (`background.js`): `Receive`, `Enqueue`, `Reply`, `TabEvent` put
  events into `queue` and count what the limit sheds in `dropped`; `Flush`,
  `StartFlush`, `ReportLoss`, `Send`, `ReadAnswer` are `flushQueue` with
  `fetchWithRetries`; `Start`, `Stop`, `Finish` are the capture. Every `await`
  ends a step, and `WorkerEnds` may come there: `job` is gone, `chrome.storage`
  stays. `BrowserRestarts` also empties `storage.session`. `Timeout` gives up on
  a request that the server goes on with.
- The server (`telemetry_events`): `LoadSummary`, `LoadExisting`, `Commit`, with a
  `Conflict` when another batch stored the same event meanwhile; `Close` ends the
  session.

`queued`, `shed`, `cleared`, `made` and `lives` are history: what the properties
compare the rest with.

### `ResponseDelivery`: a timed answer

One request through `wrap_streaming_response` or the generator of
`apply_nonstream_timing`. `ProviderText`, `ProviderMark`, `ProviderOther`,
`ProviderEnds`, `ProviderAnswers` and `ProviderError` are what the provider may
send next; `Drain` and `Halve` are the two chunkers, by characters, words or
chunks; `First`, `Store`, `Reveal`, `Shown`, `Revealed`, `Marks`, `CompleteRow`
and `Emit` follow the generator from `yield` to `yield`; `Cancel` and `Fail` are
the task's cancellation and an error of the reader, with the `finally` and
`except` branches they run. `row` is what `response_reveal_snapshot` reads
(`Snapshot`). Durations are left out: a delay is a point at which something else
may happen.

What is promised of the text depends on how it is cut. Characters and chunks keep
every character, whatever comes (`Exact`). Words within a target duration (SLOW)
keep every character of a text in which no whitespace comes first or follows
another (`Tidy`); for others see `words` in Findings. Words a second (FAST), cut
line by line, drop the whitespace before the first word of a line that falls into
several parts, and only the letters are promised (`FastWords`, `Letters`).

### `PlanLedger`, `PlanPublishing`: the plans of a group

`PlanLedger` is the promise: publications add entries, participants take one
seat on one entry, and nothing that was published changes. `PlanPublishing` is
the code, and implements it.

- `ApplyBegin`, `ApplyLockGroup`, `ApplyCopySource`, `ApplyStoreImage`,
  `ApplyPublish`: `apply`, one transaction that locks the workflow, the group and
  the sources in their order (`Following`), with one side effect that no rollback
  takes back, the stored images.
- `ElsewhereBegin`, `ElsewhereEnd`: another workflow is applied to another group
  meanwhile. It locks sources with `ApplyCopySource` too, and shares nothing else.
- `SaveBegin`, `SavePublish`: `save_for_group` of the plan editor.
- `Update`, `Delete`: the workflow changes meanwhile. `ArchiveCheck`,
  `ArchiveCommit`, `PublishTask`: so do tasks, those of the library and the copies.
  The route first asks whether a published plan uses the task
  (`routers/question_tasks.py` 112-121), without a lock, and archives later.
- `Fail` ends a request anywhere: an error, a cancellation, a lost worker. `Undo`
  rolls it back and deletes its copies, except any that it keeps (`kept`), since
  `apply` ignores what storage refuses to delete, does not clean up after a
  cancellation, and does not know of an upload that was cut off. `orphans` remembers
  those files.
- `Enter`, `Open`, `TakeTasks`, `Begin`, `Abandon`: `get_current` and
  `instantiate_session_tasks`, in several tabs. A session that is inserted keeps
  other tabs of its participant waiting, shares the rows of its tasks
  (`models/experiment_plans.py` 734, 739) and changes the plan's (761), for which
  applications wait and which wait for applications.

### `TaskRegistry`: background tasks

`task` is what the event loops hold, `tasks` and `items` the dictionaries of each
server, `hash` and `members` the Redis keys, `inbox` the published stop commands.
`Create` and `Save` are `create_task`, whose registration is a later step;
`Leave` is the clean-up a chat generation runs itself, `End` the end, and
`RemoveEntry`, `CountMembers`, `DeleteSet`, `Forget` the clean-up of the callback;
`CleanFails` is a Redis error in it. A request to stop is `StopBegins`, `LookUp`,
`Publish`, `RemoveStopped`, `CountRemaining`, `DeleteRemaining`, `StopReturns` or
`StopFails` with Redis, and `WalkBegins`, `WalkGoesOn` without: Python's loop
over a list that clean-ups shorten, by its index. `Listener` is
`redis_task_command_listener`; `Crash` loses a server.

### Modules for checking and for proofs

`MC...` modules give the constants their values. `PromptBudgetProofs`,
`ExperimentProgressProofs`, `GradingProofs`, `WarningRuntimeProofs`,
`TelemetryPipelineProofs`, `ResponseDeliveryProofs`, `PlanPublishingProofs` and
`TaskRegistryProofs` hold the proofs, each about the module it is named after;
`WarningRuntimeProofs` begins with those about `RequestNumbering`, on which it
rests.

## Runs

| Run | Question | Bounds |
|---|---|---|
| `budget__faults` | Do limit, counters and shown usage survive every fault, do the rows implement the quota, and does the place of a run that ended in any way come back? | 3 runs, 2 scopes (limits 1 and 0: the last place, and none at all), lease of 4 heartbeats |
| `budget__punctual` | With heartbeats on time, does a live run keep its place, and are no more responses delivered than allowed, although they are counted afterwards? | 3 runs, limit 2, cancellations and crashes, no stalls or database errors |
| `progress__serial` | Do stages open in order and stay done, whatever is interrupted, and does a persistent participant get past the tasks? | 1 request at a time, plans of every mode with up to three items |
| `progress__races` | What survives overlapping requests? | 3 requests at once; strict plans, and others without surveys before free tasks |
| `grading__serial` | Do totals, scores, attempts and overrides agree, and does every open grade end? | 2 questions in every mix of modes with a model-graded one, 2 requests or jobs with transactions one after the other, 2 attempts, stops of the server |
| `numbering__crowded` | Are numbers without gaps and repetitions, is a failure justified, is the stored decision that of rule, task and draw? | 4 requests, 2 messages, 3 tries, 2 tasks, a rule on requests for all tasks and one on prompts for one task, every number drawn or each second |
| `warnings__tabs` | Does a prompt pass a required warning? Is activity lost, or a warning logged twice? | 2 tabs, 2 prompts, 3 cadences, 2 reports, 2 tokens, row locks, one prompt after the other |
| `telemetry__faults` | Is an event lost without a trace or counted twice, and does the queue drain? | 3 events, queue and batch of 2, 2 tries, 1 stop, 1 fault, 2 requests at the server |
| `delivery__timings` | Is the text whole and in order, does a reloaded page stay behind, does every request settle? | texts of up to 6 characters (5 where words are cut) in events of up to 3, 9 timings over characters, words and chunks, 2 terminal events, checkpoints every 2 characters |
| `plans__overlap` | Is the current plan the reviewed one, is every image accounted for, can applications wait in a circle, do the plans implement the ledger? | 2 administrators, 1 participant in 2 tabs, a library of 2 tasks with 1 image each, 4 file names, 2 revisions, 3 versions, 1 archived task at a time, 1 fault |
| `registry__servers` | Is a running task within reach, does a stop stop, is what is over forgotten? | 2 tasks, 2 servers, 2 stop requests, with and without Redis, 1 fault |
| `progress__superseded` | a disagreement, see Findings | the smallest plan that shows it |

One scope with one place already has the contention for the last place, and a
second scope shows that scopes do not disturb each other. A third run is needed
for one to expire, one to take its place and one to be refused. Time runs to a
horizon of a few leases; what happens after a lease ran out repeats. Three
requests of a participant suffice for two that race and one that opens the next
stage between them. Essays of one task beyond `MaxEssays` = 2 are not told
apart. Two questions are the least for a total in which one part is stale; two
attempts, for a retry after a failure and after a success; two workers, for an
override or a retry while a job waits for the model. In `grading__serial` only
the transactions are serial: drafts, overrides and retries still come between
the two of a job. A request runs out of its three tries only when three others
were numbered meanwhile, hence four. Two tabs show the same warning, or one
reports while the other acknowledges; the second prompt is the first that a
warning can hold back. A queue of two sheds the first of three events; one fault
is what separates a sending from its retry, and two slots let the given-up
request and the retry meet at the server. Six characters are more than two
targets of every timing. Two administrators are two applications, or one and a
save; a third version shows an overlap whose base was itself applied. Two tasks
in the library are the least that two applications could lock in opposite orders,
and four names let one application leave its files to a failure and the next
publish. Two background tasks
are the least for a list whose walk skips one, and two servers for a set one
deletes while the other adds to it.

A configuration `..._shape.cfg` beside the runs of a module checks its type
invariant and further invariants the others rest on (`LedgerAgrees`, `SettledOnce`,
`OnlyDeliveredCounts`; `EveryStageAnswered` and `OneEssayPerTask` one request at
a time; `GradedHasScore`, `FinalIsComplete`; `PromptsWithoutGaps`; `SizesKept` and
`NumberedInOrder`; `MarksLast`; `CurrentCopiesPublished`).

### Fairness

`PlacesReturn` (`budget__faults`) assumes the event loop runs every task that can
proceed and the clock advances; a handler may crash at any time. The next use of
the bucket, which the code needs to collect overdue places (there is no
sweeper), is expressed in the property: the place is usable again by whoever
asks. `TasksEnd` (`progress__serial`) assumes that a request under way proceeds,
that interruptions end at some time (`FailuresEnd` makes `failing` false, after
which no request is interrupted), and that the participant does again and again
what the page offers (submit the open stage, complete an open task, write an
empty essay, submit everything). It assumes no order and no particular request.
With overlapping requests `TasksEnd` does not hold: a stale write (see below)
can leave a task open whose submission is final, and every later attempt is
refused.

`GradingEnds` assumes that the event loop goes on with every request and job
(weak fairness of its commits), and that a job which can begin, or load the
answer of the model, again and again does so (strong: two other requests may use
both workers meanwhile). The model answers or the 60 seconds of `wait_for` are
over. The property is about grades that no stop of the server lost, once the
server stops no more.

`Drained` assumes that the worker goes on with the job it began unless it is
ended, that the flush alarm fires (`chrome.alarms`, every half minute, survives
the worker), that an open page looks for its session again, and that the server
goes on with a request. `Settles` assumes that the provider ends its answer or
fails (its client has a timeout) and that the event loop goes on with the
generator. `Stopped` and `Forgotten` assume that a cancelled task ends and that
the event loop runs clean-ups, the listener and requests; a task nobody stops
need not end.

## Proofs

Proved for every value of the constants that the assumptions of the modules
allow, with the faults of each model.

**`PromptBudgetProofs`**, for any number of runs, scopes and limits and any lease
and heartbeat: `TypeCorrect`, `LimitHolds` (used and pending never pass the
limit), `CountersExact` (the hand-kept counters equal the rows), `UsageExact`
(what the student is shown is positive exactly when a request would be
accepted), `SettledForGood`, `DeliveredOnly` (only a successful response is
counted) and `QuotaImplemented` (`Spec => PromptQuota!Spec`).
The inductive invariant `BudgetInv` is `TypeOK /\ RowsFollowControl /\
LedgerAgrees /\ QuotaRespected`. `RowsFollowControl` ties a run's control state
to its reservation (only a run that passed `reserve` has one, and its bucket
exists); without it a settlement could close a row its bucket never counted,
and `LedgerAgrees` would not be inductive. `LedgerAgrees` in turn makes the
comparison in `reserve` mean what `QuotaRespected` says. Cardinalities of the
rows before and after a step come from a few lemmas on finite sets.

Two more theorems have a hypothesis, `Timely`: no stalls and no database errors
(crashes and cancellations remain). `PlacesKept` says that a live run holds its
place, and `DeliveriesLimited` that no more is delivered than the limit allows.
They need `LeasesCovered`: a lease ends no earlier than `Lease - Heartbeat` after
the next heartbeat is due, so no clean-up finds a live run overdue. A stall
longer than that margin breaks it, which is why the run
`budget__punctual` has none.

**`ExperimentProgressProofs`**, for any plans, at two strengths. For any number of
overlapping requests: `ProgressTypes`, `ClosedTasksAnswered`,
`StrictPlansAnswered` and `StartedOnce`. The handlers decide on rows that may be
stale, so the invariant is about what their views still get right: a request that has seen a task done has
seen it answered, and answers are never taken back, so a view is right about
that however old it is (`SeenAnswered`). `Shape` types the state, `Begun` says
what the session's state allows the rows to be, `Fits` what a request can be at,
`SkipsAllowed` where a skip can be recorded. A step is then an opening or a
closing of rows (`Opening`, `Closing`), and each keeps the invariant by one
lemma. `StrictPlansAnswered` states `EveryStageAnswered` for strict plans only:
in the others it is false in general (see `loose_surveys` below) and the run
checks it where the code has it.

For one request at a time (`OneAtATime`), which may still be interrupted between
any two of its transactions: `StagesOpenInOrder` (`StagesInOrder`),
`OneEssayStored` (`OneEssayPerTask`) and `DoneTasksStay` (`DoneStays`). `SerialInv`
adds to `StagesInOrder` that what the request has seen is still so (`Current`),
that before the tasks begin all of them are locked (`Unstarted`), and that an
essay is stored only where the task was closed with it (`EssaysOnce`). With two
requests all three are false: see `double_essay` and the limits at the end of Findings. `DoneTasksStay`
has a second hypothesis, `NoneSkippedInReview`: no plan with review has an optional
survey. In review "complete" makes a skipped survey a completed one, which can be
answered after all (see `skipped`).

**`GradingProofs`**, for any number of questions, answers, attempts, requests and
jobs, at three strengths:

- whatever transactions overlap: `GradingTypes` and `FinalNeverIncomplete`.
  Nothing is locked, but a commit writes only what it changed, and what it did
  not change was not less advanced when it was loaded (`ViewsBehind`, kept by
  every step that goes `Onward`). So a final submission leaves no answer out.
- transactions one after the other (`Serial`): `TotalsKept`. `ViewsCurrent` says
  that the one transaction under way still sees the rows as they are. A job that
  begins does not recalculate; the stored status stays right because it only
  takes responses that were pending or failed already (`RunningAgrees`).
- and an administrator who grades only what was handed in (`InTurn`):
  `ScoresOfAnswers`, `OneAttempt`, `GradedScored` and `OverridesKept`. A job is
  two transactions with the model between them, so `WorkInTurn` says what may
  not change meanwhile (the answer it scores, the attempt to close), and
  `RowInTurn` that only the last attempt can be open and that a score the
  administrator gave in place of the model is marked `ADMIN_OVERRIDE`, by which
  the second transaction recognises it.

Without the hypotheses these properties are false (see the end of Findings).

**`WarningRuntimeProofs`, numbering**, for any number of requests, messages and tries:
`RequestsNumbered`, `PromptsNumbered`, `FailuresExplained` and
`InstructionsPlaced`, which are all properties of `numbering__crowded`. The three
queries of an attempt are not one snapshot. What saves the code is that a number
which is still free when the row is inserted proves that no row was inserted
since it was read: rows are only added, each with the next number
(`NumbersBelow`, `NoneEarlier`, `PromptRead`). `TriesLost` names, for each lost
try, a request that was numbered since this one was called. `Decided` says that the
decision an attempt brings to its insert is the one of the numbers it brings,
whatever it decided in the tries before.

**`WarningRuntimeProofs`, warnings**, for any number of tabs, prompts, reports, tokens and
cadences: `WarningTypes`; `NumberedAsAlone`, that the composition of the check
with the numbering implements the numbering, so that its theorems and its
invariant can be used here; `PromptsWarned`, for a participant who sends one
prompt after the other (`OneChat`); and, where the database honours row locks
(`RowLocks`), `ActivityKept` and `WarningsLoggedOnce`. `PromptsWarned` rests on
`OneMessage` (the prompt under way is the only one), `Admitted` (it passed the
check with the number it will get) and `LastAcknowledged` (the last trigger
that is not pending was acknowledged); it needs no row lock. The other two rest
on `RowHeld` (between load and commit the row is what was loaded) and
`LogAgrees` (the row says what the log has).

**`TelemetryPipelineProofs`**, for any number of events, batches, tries, worker
ends and restarts: `PipelineTypes`, `EventsAccountedFor`
(`NothingLostSilently`), `LossIsReported` (`LossLeavesTrace`) and
`KeystrokesCountedOnce` (`SummaryWithin`). `EventsNumbered` keeps the numbers
that `sessionStorage` gives from being given twice, `BatchAwaited` says that what a
flush has taken is still at the head of the queue when its answer is read,
`SeenStored` that what a request found in the table is there, `LossReported`
that a shed count is in storage or in a report that is queued or stored, and
`SumsBehind` that a summary loaded earlier has no keystroke that is not stored.

**`ResponseDeliveryProofs`**, for any timings, any text in events of any length, any
checkpoint and any number of terminal events. `MarksAfterText` (`MarksLast`) has
no hypothesis: `MarksInv` counts the terminal events that came, wait and went out,
and says at which stages of the generator one may go out. The others are about
timings that do not cut a stream by words (`NoWords`): `TextDeliveredInOrder`
(`TextInOrder`), `ReloadBehind` (`SnapshotBehind`), `CompletedWhole`
(`CompletedIsWhole`) and `DeliveryTypes`. Reveals by words lose or repeat
characters of some texts, so the hypothesis names the timings at which the code
keeps every character. The invariant is `TextInv`: what was shown, followed by the pieces
that were cut and by what waits in the chunker, is what was received
(`Conserved`); cursor and row are not ahead of what was shown (`Cursors`);
`Buffers` says which of the buffers each stage leaves empty. That the pieces a
chunker takes, `_split_sse_content` cuts and the generator halves make up the text
again is a fact about `FlattenSeq` and `Slice` for sequences of every length. The
prover cannot apply the induction theorems of its library, so the lemmas on these
operators argue by a least counterexample: the set of lengths at which the claim
fails has a least element (`LeastOf`), and that one follows from the one below.

**`PlanPublishingProofs`**, for any number of administrators, participants, tabs,
tasks, images, files, revisions, versions and faults: `OnePlanPublished`
(`OneCurrentPlan`), `ReviewedPlansApplied` (`AppliedAsReviewed`),
`CurrentCopiesStay` (`CurrentCopiesPublished`), `LedgerImplemented`
(`Spec => PlanLedger!LedgerSpec`), `FilesNeverForgotten` (`FilesAccounted`),
`ApplicationsNeverInCircle` (`NoCircle`) and `PublishingTypes`. The core of
`PublishingInvariant` is `UnderLock`: what an application or a save read is still so
as long as it holds the lock under which it read it, and an application has locked
its sources in their order (`Holds`). `TakenFromPlans` ties entries and sessions to
plans. `Origins` says that every copy belongs to the version it was made for, and
`Unarchived` that an archive which was allowed, perhaps before the current plan was
published, is about other tasks than its copies. `OneInserting` lets one tab of a
participant insert a session at a time, which makes a session one seat of the
ledger. `Filed` accounts for the files; what no row and no request names was left by
a failure. That no applications wait in a circle follows from the greatest row
somebody in it waits for (`Greatest`): whoever holds it waits for a greater one, if
for any (`Upwards`).

**`TaskRegistryProofs`**, for any number of tasks, servers, requests to stop and
faults, with and without Redis: `RegistryTypes` and `TasksReachable`
(`Reachable`). A running task is listed, or a clean-up or a stop that removes it
is under way with the command already published (`ToldFirst`,
`CleanedAfterwards`); `NamesOfCreated` and `StopsAsDeployed` say what the
dictionaries, the keys and the requests can hold.

Only model-checked:

- all liveness (`PlacesReturn`, `TasksEnd`, `GradingEnds`, `Drained`, `Settles`,
  `Stopped`, `Forgotten`), which is beyond the prover;
- the properties the configurations of Findings refute;
- reveals by words (`delivery__timings`): no theorem is about what `Words`
  computes.

## Findings

`progress__superseded`: publishing a new plan turns a session of an older plan
without surveys into a legacy one and sends it to the questionnaires.

Further configurations show the same way where the code differs from a line of
the repository. Each checks one property that TLC finds violated:

| Configuration | Property | What the repository says | What the code does |
|---|---|---|---|
| `MCExperimentProgress_loose_surveys` | `RequiredSurveysAnswered` | `models/survey_submissions.py:269`: "This survey is required and cannot be skipped." | outside strict progression `finalize-tasks` ends the session with a required survey unanswered |
| `MCExperimentProgress_double_essay` | `OneEssayPerTask` | `models/experiments.py:404` | two overlapping submissions store two essays |
| `MCExperimentProgress_skipped` | `SkippedStaysDistinct` | `src/ADMIN_PANEL_GUIDE.md:38` | "complete" turns a skipped survey into a completed one |
| `MCGrading_lost_override` | `GradeSparesOverride` | `test/util/test_question_grading.py:187` | an override that commits while a job records the model's score is replaced by it, and keeps its method `ADMIN_OVERRIDE` |
| `MCWarningRuntime_two_chats` | `NoPromptUnwarned` | `src/ADMIN_PANEL_GUIDE.md:117`, `main.py:1808` | two chats sending at once both pass the check before either prompt is counted |
| `MCTelemetryPipeline_overlap` | `SummaryAgrees` | `test/routers/test_experiment_telemetry.py:370` | two overlapping batches write the summary they loaded (`routers/experiment_telemetry.py` 548-550), and one batch's count is lost |
| `MCResponseDelivery_words` | `LettersInOrder` | `test/util/test_experiment_perturbations.py:337` | a slow reveal by words shows letters twice where whitespace begins what the chunker holds: at the beginning of the text, or after a cut between two spaces, as in "a " and then " b" with a target of one word (`utils/experiment_perturbations.py:373`) |
| `MCTaskRegistry_stop_all` | `StopsAll` | `tasks.py:184`: "Stop all tasks associated with a specific item ID." | without Redis the walk skips the successor of a task that leaves the list |
| `MCTaskRegistry_unseen` | `ActiveIsSeen` | `tasks.py:199`: "Check if a chat has any active tasks." | a clean-up deletes the set to which another server has just added a task |

Stated as limits, since TLC finds them only when transactions overlap
(`Overlap`, or several requests in `ExperimentProgress`) or when an
administrator grades a draft (`Early`): `DoneStays` (a delayed duplicate
submission writes `ACTIVE` over a finalized task, `models/experiments.py` 521),
`TotalsAgree` (a job and an override each store a sum without the other's
score), `ScoredAsAnswered` (a draft checked before the finalization commits
after it), `OneAttemptUnderWay` (two finalizations), and `OverrideKept` (a
finalization reopens a response that was scored as a draft). To see one, add the
property to `MCGrading_overlap.cfg` or `MCExperimentProgress_races.cfg`.

## Limits of the models

- Budget: with faults, a response can be delivered and never counted (a database
  error or a crash between delivery and settlement); that is why
  `DeliveredWithinLimit` counts a delivered response only until its settlement
  is over or lost. The deletion of a session with its reservations is not
  modelled.
- Progress: answers and grades are abstracted to the status of the submission;
  the extension check before `start`, the chat gate, times and topic choice are
  left out. `_repair_finalized_question_submissions` (GET /current) repairs rows
  an earlier release could write; `ClosedHasAnswer` shows they do not arise now.
  The target of `consent` is read before its compare-and-swap and is one step.
- Grading: a server that stops leaves an attempt `PENDING` or `RUNNING` for ever;
  nothing schedules it again and `retry` answers that it is active. The model
  shows such states and `GradingEnds` excludes them. The arithmetic of the
  automatic graders, the parsing of the model's output and the single repair
  request are inside `Ask` or left out; a choice or blank, which `save_draft`
  deletes and inserts again, is written as a free text is.
- Warnings: on SQLite the row lock does nothing, and the row is first inserted
  without one; with `RowLocks = FALSE` activity is lost and warnings are logged
  twice. A report of activity that decides on the object it loaded first can
  issue an acknowledged trigger a second time; the tab that shows the older token
  then gets 409. `src/docs/ADMIN_PANEL_GUIDE.md:229` speaks of "before every prompt"
  while no warning but the beginning one precedes the first.
- Telemetry: a report of a loss can itself be shed, and its number may be used
  again after a restart; the page keeps 500 events that were not taken and
  drops the rest silently; a worker that ends between writing the number and the
  queue loses a tab event and leaves a gap in the numbers; a 403 or 422 for one
  event ends the capture. One session; presence and the contents of events are
  not modelled.
- Delivery: plain HTTP answers and answers without text to split are not
  modelled. `_replace_sse_content` is the template of the event that carried
  the text.
- Plans: row locks are those of PostgreSQL; on SQLite a publication between the
  version check of `apply` and its first flush leaves two published plans.
  `save_for_group` has no expected version and replaces what it did not see. A
  commit that the database carried out and whose answer is lost is left out: the
  clean-up would delete the files of a plan that is published. The branch that
  publishes a draft in place (`models/experiment_plans.py` 496-499) is not
  reachable.
  `NoCircle` is about applications. A save and a session lock library rows in the
  order of the plan's items, an application in the order of ids, and a circle
  between them is not excluded by the code: the database ends it, which is `Fail`
  and `Abandon` here. A save takes its shared locks in one step, and participants
  do not wait for each other at the rows of a plan nobody has begun, though the
  database makes them.
  `CurrentCopiesPublished` is about plans made from a workflow. A plan that the
  editor saves can refer to an archived task although the route refuses to archive
  tasks in use (`routers/question_tasks.py` 117-120): the question is asked without
  a lock, and a save may publish the task before the archive commits.
  Topics, question tasks and surveys, which `apply` locks kind by kind, each sorted,
  are one kind of task; an image that several tasks share is copied once in the code
  and per task here. Other groups are there through `ElsewhereBegin` only. The
  deletion of groups, and import and export of archives are not modelled.
- Registry: a late registration, or an entry of a lost server, stays in Redis
  until a stop; a listener whose Redis connection breaks is not restarted.
  Tasks without an item, which no caller creates, and the `chat:active` events
  are left out. `Arrivals` and `Commands` bound which task and which request
  meets which server: the servers are alike.

## Not modelled

- Results and analytics (`routers/experiment_analytics.py` apart from its two
  grading routes): read-only aggregation and export of rows. Its correctness is
  that of queries, with no state of its own.
- Open WebUI itself (chat, models, files, retrieval, channels, users, OAuth,
  sockets, configuration), which is most of the lines of the repository: inherited
  code that the platform calls. The models take from it what they observe: the
  response that `BudgetRun` wraps, the stream of the provider, the tasks. This is
  why the share of the repository's lines that a definition stands for is small,
  although most of the fork's own state-changing code is modelled.
- The web client: Svelte pages choose which requests are sent, and the models let
  a participant send any of them; the pages matter where they hold state
  (`content.js`, the modal of a tab), and are modelled there.
- The research toolbox and scripts: offline analysis of exported data.

## Plan

Every invariant and every action property that a run checks is proved, under the
hypotheses named above. What is left: the import of workflow archives; the
deletion of a group with its plans, sessions and reservations; the circles of locks
in which a save or a participant takes part, which need the order of a plan's items;
and a proof of what `Words` computes for a tidy text.
