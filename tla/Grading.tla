------------------------------ MODULE Grading ------------------------------
(***************************************************************************)
(* The answers of one question submission and how they are graded          *)
(* (models/question_submissions.py, utils/question_grading.py and the      *)
(* score and retry routes of routers/experiment_analytics.py).             *)
(*                                                                         *)
(* Participant, administrator and grading jobs each load the rows they     *)
(* need, decide, and commit the columns they changed; nothing is locked.   *)
(* A job runs two transactions with the language model's answer between.   *)
(* A score is named by what it scores: the model's score of answer A is A, *)
(* the administrator's is ADMIN, and the score of no answer (0) is EMPTY.  *)
(***************************************************************************)
EXTENDS Integers, Sequences, FiniteSetsExt

CONSTANTS
  Responses,    \* the questions of the submission, one response row each
  Gradings,     \* how they may be graded: functions from Responses to Modes
  Forms,        \* what the participant may answer: functions to Answers
  Workers,      \* requests and jobs that may be under way at once
  MaxAttempts,  \* retries end at so many attempts of a response
  Early,        \* whether the administrator grades drafts, which no route refuses
  Overlap,      \* whether database transactions may overlap
  Crashes       \* whether the server may stop

Modes == {"AUTOMATIC", "MANUAL", "LLM_ASSISTED"}
Answers == {"EMPTY", "A", "B"}
Scores == Answers \union {"NONE", "ADMIN"}
Status == {"NOT_STARTED", "AWAITING_REVIEW", "PENDING", "RUNNING", "GRADED", "FAILED"}

ASSUME GradingAssumption ==
  /\ Gradings \subseteq [Responses -> Modes]
  /\ Forms \subseteq [Responses -> Answers]
  /\ MaxAttempts \in Nat \ {0}
  /\ Early \in BOOLEAN /\ Overlap \in BOOLEAN /\ Crashes \in BOOLEAN

VARIABLES
  mode,      \* grading_mode of each question
  resp,      \* question_response
  sub,       \* question_submission
  attempts,  \* question_grading_attempt.status per response, oldest first
  jobs,      \* grade_response coroutines created and not begun, per response
  failing,   \* the server may still stop
  work       \* requests and jobs under way, with the rows they loaded

vars == <<mode, resp, sub, attempts, jobs, failing, work>>
rows == <<resp, sub, attempts>>
fixed == <<mode, failing>>

Idle == [op |-> "idle", at |-> "idle", r |-> "none", form |-> <<>>, todo |-> {}, view |-> <<>>, result |-> "NONE"]

RowType == [answer : Answers, status : Status, generated : Scores, effective : Scores,
            method : Modes \union {"NONE", "ADMIN_OVERRIDE"}]
SubType == [status : {"DRAFT", "FINALIZED"}, grading : Status, total : [Responses -> Scores \ {"NONE"}]]
AttemptsType == [Responses -> Seq({"PENDING", "RUNNING", "GRADED", "FAILED"})]
ViewType == [resp : [Responses -> RowType], sub : SubType, attempts : AttemptsType]
WorkType ==
  [op : {"idle", "draft", "finalize", "override", "retry", "grade", "record"},
   at : {"idle", "loaded", "committed", "asking", "answered"},
   r : Responses \union {"none"}, form : Forms \union {<<>>}, todo : SUBSET Responses,
   view : ViewType \union {<<>>}, result : Answers \union {"NONE", "FAILED"}]

TypeOK ==
  /\ mode \in Gradings /\ failing \in BOOLEAN
  /\ resp \in [Responses -> RowType] /\ sub \in SubType /\ attempts \in AttemptsType
  /\ jobs \in [Responses -> Nat]
  /\ work \in [Workers -> WorkType]

Init ==
  /\ mode \in Gradings
  /\ resp = [r \in Responses |-> [answer |-> "EMPTY", status |-> "NOT_STARTED", method |-> "NONE",
                                  generated |-> "NONE", effective |-> "NONE"]]
  /\ sub = [status |-> "DRAFT", grading |-> "NOT_STARTED", total |-> [r \in Responses |-> "EMPTY"]]
  /\ attempts = [r \in Responses |-> <<>>]
  /\ jobs = [r \in Responses |-> 0]
  /\ failing = Crashes
  /\ work = [i \in Workers |-> Idle]

-----------------------------------------------------------------------------
Overridden(row) == row.method = "ADMIN_OVERRIDE" /\ row.effective # "NONE"

Active(as) == {k \in DOMAIN as : as[k] \in {"PENDING", "RUNNING"}}
Waiting(as) == {k \in DOMAIN as : as[k] = "PENDING"}

\* The submission's grading status: the worst one of its responses.
Summary(rs) ==
  LET statuses == {rs[r].status : r \in Responses} IN
  CASE statuses \intersect {"RUNNING", "PENDING", "FAILED"} # {} -> "PENDING"
    [] statuses \intersect {"RUNNING", "PENDING", "FAILED"} = {} /\ "AWAITING_REVIEW" \in statuses -> "AWAITING_REVIEW"
    [] OTHER -> "GRADED"

\* The total score, as the scores it adds up; a missing one counts as 0 (EMPTY).
Counted(score) == IF score = "NONE" THEN "EMPTY" ELSE score
Total(rs) == [r \in Responses |-> Counted(rs[r].effective)]

\* Seeded defect: the total takes the scores the model gave.
RecalculatedFromGenerated(s, rs) ==
  [s EXCEPT !.grading = IF s.status = "FINALIZED" THEN Summary(rs) ELSE "NOT_STARTED",
            !.total = [r \in Responses |-> Counted(rs[r].generated)]]

\* recalculate
Recalculated(s, rs) ==
  [s EXCEPT !.grading = IF s.status = "FINALIZED" THEN Summary(rs) ELSE "NOT_STARTED",
            !.total = Total(rs)]

\* An UPDATE writes the columns that differ from what was loaded.
Changed(old, new, current) == [f \in DOMAIN current |-> IF new[f] # old[f] THEN new[f] ELSE current[f]]

Update(i, rs, s) ==
  /\ resp' = [r \in Responses |-> Changed(work[i].view.resp[r], rs[r], resp[r])]
  /\ sub' = Changed(work[i].view.sub, s, sub)

-----------------------------------------------------------------------------
(***************************************************************************)
(* Loading                                                                 *)
(***************************************************************************)
Snapshot == [resp |-> resp, sub |-> sub, attempts |-> attempts]

Alone(i) == Overlap \/ \A j \in Workers \ {i} : work[j].at # "loaded"

Load(i, op, r, form) ==
  /\ work[i].at = "idle" /\ Alone(i)
  /\ work' = [work EXCEPT ![i] =
       [Idle EXCEPT !.op = op, !.at = "loaded", !.r = r, !.form = form, !.view = Snapshot]]
  /\ UNCHANGED <<fixed, rows>>

\* Seeded defect: a finalized submission takes a draft.
BeginDraftAnyway(i, form) == Load(i, "draft", "none", form) /\ UNCHANGED jobs

\* save_draft; a finalized submission answers 409.
BeginDraft(i, form) == sub.status = "DRAFT" /\ Load(i, "draft", "none", form) /\ UNCHANGED jobs

\* finalize: with the answers of finalize/questions, or (<<>>) those stored.
BeginFinalize(i, form) == sub.status = "DRAFT" /\ Load(i, "finalize", "none", form) /\ UNCHANGED jobs

HandedIn == Early \/ sub.status = "FINALIZED"

BeginOverride(i, r) == HandedIn /\ Load(i, "override", r, <<>>) /\ UNCHANGED jobs

\* Seeded defect: a retry does not wait for the attempt under way.
BeginRetryAnyway(i, r) ==
  /\ HandedIn /\ mode[r] = "LLM_ASSISTED"
  /\ Len(attempts[r]) < MaxAttempts
  /\ Load(i, "retry", r, <<>>) /\ UNCHANGED jobs

BeginRetry(i, r) ==
  /\ HandedIn /\ mode[r] = "LLM_ASSISTED"
  /\ Active(attempts[r]) = {} /\ Len(attempts[r]) < MaxAttempts
  /\ Load(i, "retry", r, <<>>) /\ UNCHANGED jobs

Gradable(r) ==
  /\ Waiting(attempts[r]) # {}
  /\ Overridden(resp[r]) \/ resp[r].status \in {"PENDING", "FAILED"}

\* The first transaction of grade_response finds an attempt to run, or there is
\* none (two overlapping finalizations, a draft graded early) and it returns.
BeginGrade(i, r) ==
  /\ jobs[r] > 0
  /\ jobs' = [jobs EXCEPT ![r] = @ - 1]
  /\ IF Gradable(r) THEN Load(i, "grade", r, <<>>) ELSE UNCHANGED <<fixed, rows, work>>

-----------------------------------------------------------------------------
(***************************************************************************)
(* Committing                                                              *)
(***************************************************************************)
Committing(i, op) == work[i].at = "loaded" /\ work[i].op = op

Ends(i) == work' = [work EXCEPT ![i] = Idle]

Answered(rs, form) ==
  IF form = <<>> THEN rs ELSE [r \in Responses |-> [rs[r] EXCEPT !.answer = form[r]]]

CommitDraft(i) ==
  /\ Committing(i, "draft")
  /\ Update(i, Answered(work[i].view.resp, work[i].form), work[i].view.sub)
  /\ Ends(i)
  /\ UNCHANGED <<fixed, attempts, jobs>>

NeedsModel(r, row) == mode[r] = "LLM_ASSISTED" /\ row.answer # "EMPTY"

FinalizedRow(r, row) ==
  CASE mode[r] = "MANUAL" -> [row EXCEPT !.status = "AWAITING_REVIEW", !.method = "MANUAL"]
    [] NeedsModel(r, row) -> [row EXCEPT !.status = "PENDING", !.method = "LLM_ASSISTED"]
    [] OTHER -> [row EXCEPT !.status = "GRADED", !.method = mode[r],
                            !.generated = row.answer, !.effective = row.answer]

WithAttempts(S) == [r \in Responses |-> IF r \in S THEN Append(attempts[r], "PENDING") ELSE attempts[r]]

CommitFinalize(i) ==
  LET answered == Answered(work[i].view.resp, work[i].form)
      new == [r \in Responses |-> FinalizedRow(r, answered[r])]
      pending == {r \in Responses : NeedsModel(r, answered[r])}
  IN
  /\ Committing(i, "finalize")
  /\ Update(i, new, Recalculated([work[i].view.sub EXCEPT !.status = "FINALIZED"], new))
  /\ attempts' = WithAttempts(pending)
  /\ work' = [work EXCEPT ![i] = [Idle EXCEPT !.op = "finalize", !.at = "committed", !.todo = pending]]
  /\ UNCHANGED <<fixed, jobs>>

\* A first score for an answer that waits for review is no override.
Scored(row) ==
  [row EXCEPT !.effective = "ADMIN", !.status = "GRADED",
              !.method = IF row.status = "AWAITING_REVIEW" /\ row.effective = "NONE"
                         THEN "MANUAL" ELSE "ADMIN_OVERRIDE"]

\* override_question_score
CommitOverride(i) ==
  LET r == work[i].r
      old == work[i].view.resp
      new == [old EXCEPT ![r] = Scored(old[r])]
  IN
  /\ Committing(i, "override")
  /\ Update(i, new, Recalculated(work[i].view.sub, new))
  /\ Ends(i)
  /\ UNCHANGED <<fixed, attempts, jobs>>

Reopened(row) == [row EXCEPT !.generated = "NONE", !.effective = "NONE", !.status = "PENDING"]

\* retry_question_grading
CommitRetry(i) ==
  LET r == work[i].r
      old == work[i].view.resp
      new == IF Overridden(old[r]) THEN old
             ELSE [old EXCEPT ![r] = Reopened(old[r])]
  IN
  /\ Committing(i, "retry")
  /\ Update(i, new, Recalculated(work[i].view.sub, new))
  /\ attempts' = WithAttempts({r})
  /\ work' = [work EXCEPT ![i] = [Idle EXCEPT !.op = "retry", !.at = "committed", !.todo = {r}]]
  /\ UNCHANGED <<fixed, jobs>>

\* Jobs are created after the commit; a server that stops before forgets them.
Schedule(i) ==
  /\ work[i].at = "committed"
  /\ jobs' = [r \in Responses |-> IF r \in work[i].todo THEN jobs[r] + 1 ELSE jobs[r]]
  /\ Ends(i)
  /\ UNCHANGED <<fixed, rows>>

-----------------------------------------------------------------------------
(***************************************************************************)
(* A grading job                                                           *)
(***************************************************************************)
CommitGrade(i) ==
  LET r == work[i].r
      old == work[i].view.resp
      new == IF Overridden(old[r]) THEN old ELSE [old EXCEPT ![r].status = "RUNNING"]
  IN
  /\ Committing(i, "grade")
  /\ Update(i, new, work[i].view.sub)
  /\ attempts' = [attempts EXCEPT ![r][Max(Waiting(work[i].view.attempts[r]))] = "RUNNING"]
  /\ work' = [work EXCEPT ![i] = [Idle EXCEPT !.op = "grade", !.at = "asking", !.r = r]]
  /\ UNCHANGED <<fixed, jobs>>

\* The model scores the answer stored now, or fails, or is given up.
Ask(i, result) ==
  /\ work[i].at = "asking"
  /\ result \in {resp[work[i].r].answer, "FAILED"}
  /\ work' = [work EXCEPT ![i].at = "answered", ![i].result = result]
  /\ UNCHANGED <<fixed, rows, jobs>>

LoadResult(i) ==
  /\ work[i].at = "answered" /\ Alone(i)
  /\ work' = [work EXCEPT ![i].op = "record", ![i].at = "loaded", ![i].view = Snapshot]
  /\ UNCHANGED <<fixed, rows, jobs>>

\* Seeded defect: the model's score replaces the administrator's.
GradedRowAnyway(row, result) ==
  IF result = "FAILED" THEN [row EXCEPT !.generated = "NONE", !.effective = "NONE", !.status = "FAILED"]
  ELSE [row EXCEPT !.generated = result, !.status = "GRADED", !.effective = result, !.method = "LLM_ASSISTED"]

\* Seeded defect: a failure of the model leaves the response as it was.
GradedRowOpen(row, result) ==
  IF result = "FAILED" THEN row
  ELSE [row EXCEPT !.generated = result, !.status = "GRADED",
                   !.effective = IF row.method = "ADMIN_OVERRIDE" THEN @ ELSE result]

GradedRow(row, result) ==
  CASE result # "FAILED" /\ row.method # "ADMIN_OVERRIDE" ->
         [row EXCEPT !.generated = result, !.effective = result, !.method = "LLM_ASSISTED", !.status = "GRADED"]
    [] result # "FAILED" /\ row.method = "ADMIN_OVERRIDE" ->
         [row EXCEPT !.generated = result, !.status = "GRADED"]
    [] result = "FAILED" /\ row.method # "ADMIN_OVERRIDE" ->
         [row EXCEPT !.generated = "NONE", !.effective = "NONE", !.status = "FAILED"]
    [] OTHER -> row

\* The second transaction closes the latest attempt of the response.
CommitResult(i) ==
  LET r == work[i].r
      k == Len(work[i].view.attempts[r])
      outcome == IF work[i].result = "FAILED" THEN "FAILED" ELSE "GRADED"
      old == work[i].view.resp
      new == [old EXCEPT ![r] = GradedRow(old[r], work[i].result)]
  IN
  /\ Committing(i, "record")
  /\ Update(i, new, Recalculated(work[i].view.sub, new))
  /\ attempts' = [attempts EXCEPT ![r][k] = IF outcome # work[i].view.attempts[r][k]
                                                THEN outcome ELSE attempts[r][k]]
  /\ Ends(i)
  /\ UNCHANGED <<fixed, jobs>>

\* The server stops: requests and jobs are gone, the rows stay.
Crash ==
  /\ failing
  /\ jobs' = [r \in Responses |-> 0]
  /\ work' = [i \in Workers |-> Idle]
  /\ UNCHANGED <<fixed, rows>>

\* The server stops no more: what GradingEnds waits for.
FailuresEnd ==
  /\ failing
  /\ failing' = FALSE
  /\ UNCHANGED <<mode, rows, jobs, work>>

-----------------------------------------------------------------------------
Commit(i) ==
  \/ CommitDraft(i)
  \/ CommitFinalize(i)
  \/ CommitOverride(i)
  \/ CommitRetry(i)
  \/ Schedule(i)
  \/ CommitGrade(i)
  \/ \E result \in Answers \union {"FAILED"} : Ask(i, result)
  \/ CommitResult(i)

Next ==
  \/ \E i \in Workers, form \in Forms : BeginDraft(i, form)
  \/ \E i \in Workers, form \in Forms \union {<<>>} : BeginFinalize(i, form)
  \/ \E i \in Workers, r \in Responses : BeginOverride(i, r)
  \/ \E i \in Workers, r \in Responses : BeginRetry(i, r)
  \/ \E i \in Workers, r \in Responses : BeginGrade(i, r)
  \/ \E i \in Workers : LoadResult(i)
  \/ \E i \in Workers : Commit(i)
  \/ Crash
  \/ FailuresEnd

Spec == Init /\ [][Next]_vars

\* The event loop runs every job and request; a job that can begin again and
\* again (only the bound on Workers and the order of transactions delay it)
\* begins.
Fairness ==
  /\ \A i \in Workers : WF_vars(Commit(i)) /\ SF_vars(LoadResult(i))
  /\ \A r \in Responses : SF_vars(\E i \in Workers : BeginGrade(i, r))

FairSpec == Spec /\ Fairness

-----------------------------------------------------------------------------
(***************************************************************************)
(* Properties                                                              *)
(***************************************************************************)
Final == sub.status = "FINALIZED"

\* The total and grading status that recalculate keeps on the submission are
\* those of its responses, whichever was graded, retried or overridden last.
TotalsAgree == Final => sub.grading = Summary(resp) /\ sub.total = Total(resp)

\* A score that finalize or a job stored is that of the answer handed in, not of
\* a draft that came before or after it.
ScoredAsAnswered ==
  Final => \A r \in Responses :
    resp[r].effective \notin {"NONE", "ADMIN"} => resp[r].effective = resp[r].answer

\* A response is shown as graded only with a score, through failures of the
\* model, retries and overrides: current_score would count it as 0.
GradedHasScore == \A r \in Responses : resp[r].status = "GRADED" => resp[r].effective # "NONE"

\* retry_question_grading starts no second attempt beside an active one, and an
\* open grade always has an attempt: grade_response closes the latest attempt,
\* whichever it began with.
OneAttemptUnderWay ==
  \A r \in Responses :
    /\ Cardinality(Active(attempts[r])) <= 1
    /\ resp[r].status \in {"PENDING", "RUNNING"} => Active(attempts[r]) # {}

\* No job, retry or finalization replaces the administrator's score.
OverrideKept ==
  [][\A r \in Responses : resp[r].effective = "ADMIN" => resp'[r].effective = "ADMIN"]_vars

\* Whatever overlaps, a submission is final only with every answer graded,
\* waiting for review, or in the hands of an attempt; nothing is left out.
FinalIsComplete ==
  Final => \A r \in Responses :
    /\ resp[r].status # "NOT_STARTED" /\ resp[r].method # "NONE"
    /\ mode[r] = "LLM_ASSISTED" => resp[r].status = "GRADED" \/ attempts[r] # <<>>

\* A job that records the model's score leaves the administrator's alone: the
\* second transaction of grade_response reads grading_method to see to it.
GradeSparesOverride ==
  [][\A i \in Workers, r \in Responses :
       CommitResult(i) /\ resp[r].effective = "ADMIN" => resp'[r].effective = "ADMIN"]_vars

\* A job of the response is waiting, or a request or job still answers for it.
InHands(r) ==
  \/ jobs[r] > 0
  \/ \E i \in Workers : r \in work[i].todo
  \/ \E i \in Workers : work[i].op \in {"grade", "record"} /\ work[i].r = r

\* Once the server stops no more, every grade that is open and was not lost by
\* a stop ends in a score or a failure that can be retried, whatever requests
\* participant and administrator send meanwhile.
GradingEnds ==
  \A r \in Responses :
    ~failing /\ InHands(r) /\ resp[r].status \in {"PENDING", "RUNNING"}
      ~> resp[r].status \notin {"PENDING", "RUNNING"}
=============================================================================
