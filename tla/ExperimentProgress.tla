------------------------- MODULE ExperimentProgress -------------------------
(***************************************************************************)
(* A participant's experiment session and its ordered tasks                *)
(* (models/experiments.py and the task handlers of routers/experiments.py).*)
(*                                                                         *)
(* Handlers do not lock the rows they read: a handler loads the task and   *)
(* the session, then the other rows, and later commits the columns it      *)
(* changed (SQLAlchemy's identity map, autoflush and expire_on_commit off).*)
(* Each of these is a step here, so requests of the same participant (a    *)
(* double click, two tabs, a client retry) interleave.  Transitions that   *)
(* the code guards with UPDATE ... WHERE state = expected are one step.    *)
(***************************************************************************)
EXTENDS Integers, Sequences, FiniteSetsExt

CONSTANTS
  Plans,     \* the plans a session may be created from
  Requests   \* requests of the participant that may be under way at once

Modes == {"STRICT", "REVIEW", "FREE", "NO_PLAN"}
Types == {"ESSAY", "QUESTION", "SURVEY"}

\* The enabled items of a plan; NO_PLAN is a session without one.  Except in
\* a strict plan, surveys stand before or after the tasks, never in between.
IsPlan(P) ==
  /\ P.mode \in Modes
  /\ P.consent \in BOOLEAN /\ P.neutral \in BOOLEAN
  /\ P.items \in Seq([type : Types, required : BOOLEAN])
  /\ P.mode = "NO_PLAN" <=> P.items = <<>>
  /\ P.mode # "STRICT" =>
       \A a, c \in DOMAIN P.items : \A b \in a..c :
         P.items[b].type = "SURVEY" => "SURVEY" \in {P.items[a].type, P.items[c].type}

ASSUME PlansAssumption == \A P \in Plans : IsPlan(P)

NoPlan == [mode |-> "NO_PLAN", consent |-> TRUE, neutral |-> FALSE, items |-> <<>>]

VARIABLES
  plan,        \* the plan the session was created from
  superseded,  \* whether the administrator published another one since
  state,       \* experiment_session.state
  rows,        \* experiment_session_task by position, with the submission row
  req,         \* what each request under way has loaded
  failing      \* whether requests may still be interrupted

vars == <<plan, superseded, state, rows, req, failing>>

\* NONE: the session does not exist yet.
States == {"NONE", "CONSENT_REQUIRED", "PRE_SURVEY_REQUIRED", "TOPIC_REQUIRED",
           "TASK_REQUIRED", "IN_PROGRESS", "POST_SURVEY_REQUIRED",
           "THANK_YOU_REQUIRED", "COMPLETED"}
Status == {"LOCKED", "ACTIVE", "AVAILABLE", "COMPLETED", "FINALIZED", "SKIPPED"}
Submission == {"NONE", "DRAFT", "SUBMITTED", "SKIPPED", "FINALIZED"}
Ops == {"start", "submit", "skip", "complete", "essay", "questions", "all"}

\* Essays of one task beyond this many are not told apart.
MaxEssays == 2

Unread == "UNREAD"
Idle == [op |-> "idle", at |-> "idle", t |-> 0, sess |-> Unread, view |-> <<>>, sub |-> "NONE"]

TypeOK ==
  /\ plan \in Plans \union {NoPlan}
  /\ superseded \in BOOLEAN /\ failing \in BOOLEAN
  /\ state \in States
  /\ rows \in Seq([status : Status, sub : Submission, draft : BOOLEAN, essays : 0..MaxEssays])
  /\ Len(rows) = Len(plan.items)
  /\ \A i \in Requests :
       /\ req[i].op \in Ops \union {"idle"}
       /\ req[i].at \in {"idle", "received", "loaded"}
       /\ req[i].t \in 0..Len(rows)
       /\ req[i].sess \in States \union {Unread}
       /\ req[i].view \in Seq(Status \union {Unread})
       /\ req[i].sub \in Submission

Init ==
  /\ plan = NoPlan
  /\ superseded = FALSE
  /\ state = "NONE"
  /\ rows = <<>>
  /\ req = [i \in Requests |-> Idle]
  /\ failing = TRUE

-----------------------------------------------------------------------------
(***************************************************************************)
(* Which tasks open next: pure functions of the statuses v a handler sees  *)
(***************************************************************************)
Type(p) == plan.items[p].type
Survey(p) == Type(p) = "SURVEY"
HasSurvey == \E p \in DOMAIN rows : Survey(p)
TaskRows == {p \in DOMAIN rows : ~Survey(p)}

Done(st) == st \in {"FINALIZED", "SKIPPED"}

\* The tasks from n on, up to the next survey.
Block(n) == {q \in DOMAIN rows : q >= n /\ \A s \in n..q : ~Survey(s)}

\* Open the first task of S, or its whole block when navigation is free.
Unlock(v, S) ==
  IF S = {} THEN v
  ELSE IF plan.mode = "FREE" /\ ~Survey(Min(S))
  THEN [q \in DOMAIN v |-> IF q \in Block(Min(S)) /\ ~Done(v[q]) THEN "AVAILABLE" ELSE v[q]]
  ELSE [v EXCEPT ![Min(S)] = "ACTIVE"]

\* _activate_initial
InitialRows(v) == Unlock([q \in DOMAIN v |-> "LOCKED"], DOMAIN v)

LaterOpen(v, t) == {q \in DOMAIN v : q > t /\ ~Done(v[q])}

Unfinished(v) == {q \in DOMAIN v : ~Done(v[q])}

\* Seeded defect: surveys after the tasks are not opened.
AdvancedRowsNoSurveys(v, t, block) ==
  IF Unfinished(v) # {} /\ (plan.mode = "STRICT" \/ Survey(t)) THEN Unlock(v, LaterOpen(v, t))
  ELSE v

\* advance_after_stage: the rows after t is done...
AdvancedRows(v, t, block) ==
  IF Unfinished(v) = {} THEN v
  ELSE IF plan.mode = "STRICT" \/ Survey(t) THEN Unlock(v, LaterOpen(v, t))
  ELSE IF block THEN Unlock(v, {q \in LaterOpen(v, t) : Survey(q)})
  ELSE v

\* ...and the session's state, s being the one the handler loaded.
AdvancedState(s, v, t, block) ==
  IF Unfinished(v) = {}
  THEN IF superseded /\ ~HasSurvey THEN "POST_SURVEY_REQUIRED" ELSE "THANK_YOU_REQUIRED"
  ELSE IF plan.mode # "STRICT" /\ ~Survey(t) /\ block /\ ~\E q \in LaterOpen(v, t) : Survey(q)
  THEN "THANK_YOU_REQUIRED"
  ELSE s

\* An UPDATE writes the columns that differ from what was loaded.
Changed(old, new, current) == IF new # old THEN new ELSE current

Written(old, new) ==
  [p \in DOMAIN rows |-> [rows[p] EXCEPT !.status = Changed(old[p], new[p], @)]]

-----------------------------------------------------------------------------
(***************************************************************************)
(* The session: transitions guarded by the state they expect               *)
(***************************************************************************)
CreateSession(P) ==
  /\ state = "NONE"
  /\ plan' = P
  /\ state' = IF P.mode = "NO_PLAN" \/ P.consent THEN "CONSENT_REQUIRED" ELSE "TASK_REQUIRED"
  /\ rows' = [p \in DOMAIN P.items |->
                [status |-> "LOCKED", sub |-> "NONE", draft |-> FALSE, essays |-> 0]]
  /\ UNCHANGED <<superseded, req, failing>>

Transition(expected, target) ==
  /\ state = expected
  /\ state' = target
  /\ UNCHANGED <<plan, superseded, rows, req, failing>>

Consent ==
  Transition("CONSENT_REQUIRED",
             IF plan.mode # "NO_PLAN" /\ (~superseded \/ HasSurvey)
             THEN "TASK_REQUIRED" ELSE "PRE_SURVEY_REQUIRED")

SubmitPreSurvey ==
  Transition("PRE_SURVEY_REQUIRED", IF plan.neutral THEN "TASK_REQUIRED" ELSE "TOPIC_REQUIRED")

\* submit_essay of a session without a plan.
SubmitEssay == plan.mode = "NO_PLAN" /\ Transition("IN_PROGRESS", "POST_SURVEY_REQUIRED")

SubmitPostSurvey == Transition("POST_SURVEY_REQUIRED", "THANK_YOU_REQUIRED")

CompleteSession == Transition("THANK_YOU_REQUIRED", "COMPLETED")

\* The administrator publishes a new plan for the group.
Supersede ==
  /\ plan.mode # "NO_PLAN"
  /\ ~superseded
  /\ superseded' = TRUE
  /\ UNCHANGED <<plan, state, rows, req, failing>>

-----------------------------------------------------------------------------
(***************************************************************************)
(* Looking at a task and saving drafts                                     *)
(***************************************************************************)
\* get_current_task and save_question_draft create the submission row.
OpenTask(p) ==
  /\ state = "IN_PROGRESS"
  /\ Type(p) # "ESSAY" /\ rows[p].status # "LOCKED" /\ rows[p].sub = "NONE"
  /\ rows' = [rows EXCEPT ![p].sub = "DRAFT"]
  /\ UNCHANGED <<plan, superseded, state, req, failing>>

\* The draft may be emptied again.
SaveEssayDraft(p, text) ==
  /\ state = "IN_PROGRESS"
  /\ Type(p) = "ESSAY" /\ rows[p].status \notin {"LOCKED", "FINALIZED"}
  /\ rows' = [rows EXCEPT ![p].draft = text]
  /\ UNCHANGED <<plan, superseded, state, req, failing>>

-----------------------------------------------------------------------------
(***************************************************************************)
(* Task handlers, step 1: the checks on the task and session rows, or for  *)
(* "all" (finalize_all_tasks) on every row.                                *)
(***************************************************************************)
Editable(t) == state = "IN_PROGRESS" /\ rows[t].status # "LOCKED"

\* Seeded defect: the survey may be submitted before its turn.
AcceptsSurveyEarly(op, t) ==
  /\ op = "skip" => ~plan.items[t].required
  /\ state = "IN_PROGRESS" /\ ~Done(rows[t].status)

\* Seeded defect: required surveys may be skipped.
AcceptsAnySkip(op, t) == Editable(t) /\ rows[t].status = "ACTIVE"

AcceptsSurvey(op, t) ==
  /\ op = "skip" => ~plan.items[t].required
  /\ Editable(t) /\ rows[t].status = "ACTIVE"

\* finalize/essay and finalize/questions are for strict plans only.
AcceptsFinalize(op, t) ==
  /\ plan.mode = "STRICT" /\ Editable(t)
  /\ \/ op = "essay" /\ Type(t) = "ESSAY" /\ rows[t].status \in {"ACTIVE", "AVAILABLE", "COMPLETED"}
     \/ op = "questions" /\ Type(t) = "QUESTION" /\ rows[t].status # "FINALIZED"

\* Seeded defect: a finalized task may be marked complete.
AcceptsCompleteAgain(t) ==
  /\ plan.mode = "REVIEW" /\ Editable(t)
  /\ Type(t) = "ESSAY" => rows[t].draft

\* A done row passes _session_task_for_user in any state of the session.
AcceptsComplete(t) ==
  /\ plan.mode = "REVIEW" /\ rows[t].status # "FINALIZED"
  /\ rows[t].status = "SKIPPED" \/ Editable(t)
  /\ Type(t) = "ESSAY" => rows[t].draft

AcceptsAll ==
  /\ plan.mode \in {"REVIEW", "FREE"} /\ state = "IN_PROGRESS"
  /\ plan.mode = "REVIEW" =>
       \A p \in TaskRows : rows[p].status \in {"COMPLETED", "FINALIZED"}
  /\ \A p \in TaskRows : Type(p) = "ESSAY" /\ rows[p].status # "FINALIZED" => rows[p].draft

Accepts(op, t) ==
  CASE op = "start" -> t = 0 /\ state \in {"TOPIC_REQUIRED", "TASK_REQUIRED"}
    [] op = "all" -> t = 0 /\ AcceptsAll
    [] op = "complete" -> t \in DOMAIN rows /\ AcceptsComplete(t)
    [] op \in {"submit", "skip"} -> t \in DOMAIN rows /\ Survey(t) /\ AcceptsSurvey(op, t)
    [] op \in {"essay", "questions"} -> t \in DOMAIN rows /\ AcceptsFinalize(op, t)

Receive(i, op, t) ==
  /\ req[i].at = "idle"
  /\ Accepts(op, t)
  /\ req' = [req EXCEPT ![i] =
       [op |-> op, at |-> "received", t |-> t, sub |-> "NONE",
        sess |-> IF op = "all" THEN Unread ELSE state,
        view |-> [p \in DOMAIN rows |-> IF op = "all" \/ p = t THEN rows[p].status ELSE Unread]]]
  /\ UNCHANGED <<plan, superseded, state, rows, failing>>

\* The request ends without (further) effect.
Drop(i) ==
  /\ req' = [req EXCEPT ![i] = Idle]
  /\ UNCHANGED <<plan, superseded, state, rows, failing>>

-----------------------------------------------------------------------------
(***************************************************************************)
(* Step 2: the submission and the other rows are loaded.                   *)
(***************************************************************************)
\* save_draft accepts answers only while the submission is a draft.
Refused(i) ==
  \/ req[i].op = "submit" /\ rows[req[i].t].sub \notin {"NONE", "DRAFT"}
  \/ req[i].op = "questions" /\ rows[req[i].t].sub = "FINALIZED"

Load(i) ==
  /\ req[i].at = "received" /\ req[i].op # "all"
  /\ ~Refused(i)
  /\ req' = [req EXCEPT ![i] =
       [@ EXCEPT !.at = "loaded",
                 !.view = [p \in DOMAIN rows |-> IF p = req[i].t THEN req[i].view[p] ELSE rows[p].status],
                 !.sub = IF req[i].t = 0 THEN "NONE" ELSE rows[req[i].t].sub]]
  /\ UNCHANGED <<plan, superseded, state, rows, failing>>

LoadRefused(i) ==
  /\ req[i].at = "received" /\ req[i].op # "all"
  /\ Refused(i)
  /\ Drop(i)

-----------------------------------------------------------------------------
(***************************************************************************)
(* Step 3: the commit.                                                     *)
(***************************************************************************)
\* Seeded defect: start updates the session without comparing its state.
CommitStartAnyway(i) ==
  /\ req[i].at = "loaded" /\ req[i].op = "start"
  /\ rows' = Written(req[i].view, InitialRows(req[i].view))
  /\ state' = "IN_PROGRESS"
  /\ req' = [req EXCEPT ![i] = Idle]
  /\ UNCHANGED <<plan, superseded, failing>>

\* start: rows are reset to their initial statuses if the CAS still holds.
CommitStart(i) ==
  /\ req[i].at = "loaded" /\ req[i].op = "start"
  /\ state = req[i].sess
  /\ rows' = Written(req[i].view, InitialRows(req[i].view))
  /\ state' = "IN_PROGRESS"
  /\ req' = [req EXCEPT ![i] = Idle]
  /\ UNCHANGED <<plan, superseded, failing>>

\* 409 after a rollback: another request changed the state first.
StartLost(i) ==
  /\ req[i].at = "loaded" /\ req[i].op = "start"
  /\ state # req[i].sess
  /\ Drop(i)

\* Both requests inserted the submission row: its unique key refuses one.
Collides(i) ==
  /\ req[i].op \in {"submit", "skip", "questions"}
  /\ req[i].sub = "NONE" /\ rows[req[i].t].sub # "NONE"

OwnStatus(op) == IF op = "skip" THEN "SKIPPED" ELSE "FINALIZED"
OwnSubmission(op) ==
  CASE op = "submit" -> "SUBMITTED" [] op = "skip" -> "SKIPPED" [] op = "questions" -> "FINALIZED"

OneMoreEssay(n) == IF n < MaxEssays THEN n + 1 ELSE n

\* The row of the task itself, beyond its status.
WithAnswer(row, op) ==
  IF op = "essay" THEN [row EXCEPT !.essays = OneMoreEssay(@), !.draft = TRUE]
                  ELSE [row EXCEPT !.sub = OwnSubmission(op)]

\* Seeded defect: the task is closed before its answers are stored.
CommitStageWithoutAnswer(i) ==
  LET r == req[i]
      own == [r.view EXCEPT ![r.t] = OwnStatus(r.op)]
      new == AdvancedRows(own, r.t, FALSE)
  IN
  /\ r.at = "loaded" /\ r.op \in {"submit", "skip", "essay", "questions"}
  /\ ~Collides(i)
  /\ rows' = Written(r.view, new)
  /\ state' = Changed(r.sess, AdvancedState(r.sess, own, r.t, FALSE), state)
  /\ req' = [req EXCEPT ![i] = Idle]
  /\ UNCHANGED <<plan, superseded, failing>>

\* submit_survey_task, skip_survey_task, finalize_essay, finalize_questions:
\* the answer, the task's status and what it opens are one transaction.
CommitStage(i) ==
  LET r == req[i]
      own == [r.view EXCEPT ![r.t] = OwnStatus(r.op)]
      new == AdvancedRows(own, r.t, FALSE)
  IN
  /\ r.at = "loaded" /\ r.op \in {"submit", "skip", "essay", "questions"}
  /\ ~Collides(i)
  /\ rows' = [Written(r.view, new) EXCEPT ![r.t] = WithAnswer(@, r.op)]
  /\ state' = Changed(r.sess, AdvancedState(r.sess, own, r.t, FALSE), state)
  /\ req' = [req EXCEPT ![i] = Idle]
  /\ UNCHANGED <<plan, superseded, failing>>

Collide(i) ==
  /\ req[i].at = "loaded"
  /\ Collides(i)
  /\ Drop(i)

\* _unlock_after_review: the next task opens if it is not a survey.
CommitComplete(i) ==
  LET r == req[i]
      own == [r.view EXCEPT ![r.t] = "COMPLETED"]
      n == r.t + 1
      new == IF n \in DOMAIN own /\ ~Survey(n) /\ own[n] = "LOCKED"
             THEN [own EXCEPT ![n] = "ACTIVE"] ELSE own
  IN
  /\ r.at = "loaded" /\ r.op = "complete"
  /\ rows' = Written(r.view, new)
  /\ req' = [req EXCEPT ![i] = Idle]
  /\ UNCHANGED <<plan, superseded, state, failing>>

-----------------------------------------------------------------------------
(***************************************************************************)
(* finalize_all_tasks: one commit per task, then one to advance.           *)
(***************************************************************************)
\* The session row is loaded by the first essay, or at the end.
SessionOf(i) == IF req[i].sess = Unread THEN state ELSE req[i].sess

Remaining(i) == {p \in TaskRows : ~Done(req[i].view[p])}

Finalizing(i, p) ==
  /\ req[i].at = "received" /\ req[i].op = "all"
  /\ Remaining(i) # {} /\ p = Min(Remaining(i))

EssayRefused(i, p) ==
  SessionOf(i) # "IN_PROGRESS" \/ req[i].view[p] \notin {"ACTIVE", "AVAILABLE", "COMPLETED"}

FinalizeEssayRow(i, p) ==
  LET own == [req[i].view EXCEPT ![p] = "FINALIZED"]
      new == AdvancedRows(own, p, FALSE)
      s == AdvancedState(SessionOf(i), own, p, FALSE)
  IN
  /\ Finalizing(i, p) /\ Type(p) = "ESSAY" /\ ~EssayRefused(i, p)
  /\ rows' = [Written(req[i].view, new) EXCEPT ![p].essays = OneMoreEssay(@)]
  /\ state' = Changed(SessionOf(i), s, state)
  /\ req' = [req EXCEPT ![i] = [@ EXCEPT !.view = new, !.sess = s]]
  /\ UNCHANGED <<plan, superseded, failing>>

FinalizeEssayRefused(i, p) ==
  /\ Finalizing(i, p) /\ Type(p) = "ESSAY" /\ EssayRefused(i, p)
  /\ Drop(i)

FinalizeQuestionRow(i, p) ==
  LET own == [req[i].view EXCEPT ![p] = "FINALIZED"] IN
  /\ Finalizing(i, p) /\ Type(p) = "QUESTION"
  /\ rows' = [Written(req[i].view, own) EXCEPT ![p].sub = "FINALIZED"]
  /\ req' = [req EXCEPT ![i] = [@ EXCEPT !.view = own]]
  /\ UNCHANGED <<plan, superseded, state, failing>>

\* A plan of surveys only has no task to advance from.
FinishAll(i) ==
  LET v == req[i].view
      new == IF TaskRows = {} THEN v ELSE AdvancedRows(v, Max(TaskRows), TRUE)
      s == IF TaskRows = {} THEN "THANK_YOU_REQUIRED"
                            ELSE AdvancedState(SessionOf(i), v, Max(TaskRows), TRUE)
  IN
  /\ req[i].at = "received" /\ req[i].op = "all" /\ Remaining(i) = {}
  /\ rows' = Written(v, new)
  /\ state' = Changed(SessionOf(i), s, state)
  /\ req' = [req EXCEPT ![i] = Idle]
  /\ UNCHANGED <<plan, superseded, failing>>

\* The server dies, or the client leaves and the handler is cancelled.
Crash(i) == failing /\ req[i].at # "idle" /\ Drop(i)

\* From some time on nothing is interrupted any more (for liveness only).
FailuresEnd ==
  /\ failing
  /\ failing' = FALSE
  /\ UNCHANGED <<plan, superseded, state, rows, req>>

-----------------------------------------------------------------------------
Work(i) ==
  \/ Load(i)
  \/ LoadRefused(i)
  \/ CommitStart(i)
  \/ StartLost(i)
  \/ CommitStage(i)
  \/ Collide(i)
  \/ CommitComplete(i)
  \/ \E p \in DOMAIN rows : FinalizeEssayRow(i, p)
  \/ \E p \in DOMAIN rows : FinalizeEssayRefused(i, p)
  \/ \E p \in DOMAIN rows : FinalizeQuestionRow(i, p)
  \/ FinishAll(i)

Next ==
  \/ \E P \in Plans : CreateSession(P)
  \/ Consent
  \/ SubmitPreSurvey
  \/ SubmitEssay
  \/ SubmitPostSurvey
  \/ CompleteSession
  \/ Supersede
  \/ FailuresEnd
  \/ \E p \in DOMAIN rows : OpenTask(p)
  \/ \E p \in DOMAIN rows, text \in BOOLEAN : SaveEssayDraft(p, text)
  \/ \E i \in Requests : Work(i) \/ Crash(i)
  \/ \E i \in Requests, op \in Ops, t \in 0..Len(rows) : Receive(i, op, t)

Spec == Init /\ [][Next]_vars

\* The participant goes on working: what the page offers (the active survey
\* or strict stage, completing an open task under review, the final
\* submission, writing an essay while no request is under way) is done again
\* and again, and from some time on requests are not interrupted.
Quiet == \A i \in Requests : req[i].at = "idle"

Persistent ==
  /\ WF_vars(FailuresEnd)
  /\ \A i \in Requests :
       /\ WF_vars(Work(i))
       /\ SF_vars(Receive(i, "all", 0))
       /\ SF_vars(\E op \in {"submit", "essay", "questions"}, t \in DOMAIN rows : Receive(i, op, t))
       /\ SF_vars(\E t \in TaskRows : rows[t].status = "ACTIVE" /\ Receive(i, "complete", t))
  /\ SF_vars(Quiet /\ \E p \in DOMAIN rows : ~rows[p].draft /\ SaveEssayDraft(p, TRUE))
  /\ WF_vars(SubmitEssay)

FairSpec == Spec /\ Persistent

-----------------------------------------------------------------------------
(***************************************************************************)
(* Properties                                                              *)
(***************************************************************************)
Started == {"IN_PROGRESS", "POST_SURVEY_REQUIRED", "THANK_YOU_REQUIRED", "COMPLETED"}
TasksOver == Started \ {"IN_PROGRESS"}

\* What counts as the answer to a stage.
Answered(p) ==
  CASE Type(p) = "ESSAY" -> rows[p].essays > 0
    [] Type(p) = "QUESTION" -> rows[p].sub = "FINALIZED"
    [] Survey(p) -> \/ rows[p].sub = "SUBMITTED"
                    \/ rows[p].sub = "SKIPPED" /\ ~plan.items[p].required

\* advance_after_stage trusts the statuses it sees, which may be stale: a
\* session still never gets past its tasks with a stage left unanswered.
EveryStageAnswered == state \in TasksOver => \A p \in DOMAIN rows : Answered(p)

\* The task row and its submission or essay are written by several
\* statements and several requests; a closed task always has its answer (the
\* split-brain rows GET /current repairs cannot arise again).
ClosedHasAnswer ==
  \A p \in DOMAIN rows :
    /\ rows[p].status = "FINALIZED" => Answered(p) /\ rows[p].sub # "SKIPPED"
    /\ rows[p].status = "SKIPPED" => Survey(p) /\ rows[p].sub = "SKIPPED"

\* A start that is late or repeated resets nothing: tasks never lock again.
StartsOnce ==
  [][(state \in Started) =>
       /\ state' \in Started
       /\ \A p \in DOMAIN rows : rows'[p].status = "LOCKED" => rows[p].status = "LOCKED"]_vars

\* Strict progression: a stage opens only when everything before it is done.
StagesInOrder ==
  plan.mode = "STRICT" =>
    \A p \in DOMAIN rows : rows[p].status # "LOCKED" =>
      \A q \in DOMAIN rows : q < p => Done(rows[q].status)

\* A task that was submitted or skipped is never open again.
DoneStays == [][\A p \in DOMAIN rows : Done(rows[p].status) => Done(rows'[p].status)]_vars

\* However often a final submission is repeated or interrupted, a task has one essay.
OneEssayPerTask == \A p \in DOMAIN rows : rows[p].essays <= 1

\* A participant who goes on working gets past the tasks: no interrupted
\* request and no order of completing them leaves the session stuck.
TasksEnd == state = "IN_PROGRESS" ~> state \in TasksOver

(***************************************************************************)
(* What documents and messages say and the code does not keep              *)
(***************************************************************************)
\* "This survey is required and cannot be skipped."
RequiredSurveysAnswered ==
  state \in TasksOver =>
    \A p \in DOMAIN rows : Survey(p) /\ plan.items[p].required => rows[p].sub = "SUBMITTED"

\* "Participants with active sessions maintain their original plan": the
\* essay-era questionnaires are not part of any plan.
SnapshotKept ==
  plan.mode # "NO_PLAN" => state \notin {"PRE_SURVEY_REQUIRED", "POST_SURVEY_REQUIRED"}

\* "Optional skipped surveys remain distinct from completed ones."
SkippedStaysDistinct == \A p \in DOMAIN rows : rows[p].sub = "SKIPPED" => rows[p].status = "SKIPPED"
=============================================================================
