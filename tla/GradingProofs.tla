---------------------------- MODULE GradingProofs ----------------------------
(***************************************************************************)
(* What the grading of a submission keeps, for any number of questions,    *)
(* answers, attempts, requests and jobs.                                   *)
(*                                                                         *)
(* Nothing is locked, so whatever overlaps only FinalIsComplete is safe: a *)
(* commit writes what it changed, and what it did not change was not less  *)
(* advanced when it was loaded.  The totals need transactions that follow  *)
(* one another, and scores and overrides an administrator who grades only  *)
(* what was handed in as well.                                             *)
(***************************************************************************)
EXTENDS Grading, SequenceTheorems, FiniteSetTheorems, TLAPS

AttemptStatus == {"PENDING", "RUNNING", "GRADED", "FAILED"}

Loaded(w) == w.at = "loaded"

\* A job between its two transactions or in the second.
Scoring(w) == w.at \in {"asking", "answered"} \/ w.op = "record"

\* Which request or job can be at which step.
Shaped(w) ==
  /\ Loaded(w) => w.op # "idle" /\ w.view \in ViewType
  /\ w.at \in {"asking", "answered"} => w.op = "grade"
  /\ w.op = "record" => Loaded(w)
  /\ Loaded(w) /\ w.op \in {"override", "retry", "grade"} => w.r \in Responses
  /\ Scoring(w) => w.r \in Responses
  /\ w.op = "record" \/ w.at = "answered" => w.result \in Answers \union {"FAILED"}
WorkShape == \A i \in Workers : Shaped(work[i])

Started(row) == row.status # "NOT_STARTED" /\ row.method # "NONE"

\* What a request or job has loaded is never ahead of the rows, however late it commits.
Behind(w) ==
  /\ Loaded(w) =>
       /\ w.view.sub.status = "FINALIZED" => sub.status = "FINALIZED"
       /\ \A r \in Responses :
            /\ w.view.resp[r].status # "NOT_STARTED" => resp[r].status # "NOT_STARTED"
            /\ w.view.resp[r].method # "NONE" => resp[r].method # "NONE"
            /\ w.view.attempts[r] # <<>> => attempts[r] # <<>>
            /\ mode[r] = "LLM_ASSISTED" /\ w.view.resp[r].status = "GRADED" =>
                 resp[r].status = "GRADED" \/ attempts[r] # <<>>
  /\ Loaded(w) /\ w.op = "grade" => attempts[w.r] # <<>>
  /\ Scoring(w) => attempts[w.r] # <<>>
ViewsBehind == \A i \in Workers : Behind(work[i])

\* Transactions one after the other: what was loaded is what the rows are.
Current(w) ==
  Loaded(w) =>
    /\ w.view = Snapshot
    /\ w.op \in {"draft", "finalize"} => sub.status # "FINALIZED"
    /\ w.op = "grade" => Gradable(w.r)
OneLoaded == \A i, j \in Workers : Loaded(work[i]) /\ Loaded(work[j]) => i = j
ViewsCurrent == OneLoaded /\ \A i \in Workers : Current(work[i])

\* Only what was handed in is graded, and its answers stay.
Unscored(row) ==
  row.status = "NOT_STARTED" /\ row.method = "NONE" /\ row.generated = "NONE" /\ row.effective = "NONE"
DraftsUnscored ==
  sub.status # "FINALIZED" => \A r \in Responses : attempts[r] = <<>> /\ Unscored(resp[r])
InTurnOf(w) ==
  /\ Scoring(w) \/ (Loaded(w) /\ w.op \notin {"draft", "finalize"}) => sub.status = "FINALIZED"
  /\ Loaded(w) /\ w.op = "retry" => mode[w.r] = "LLM_ASSISTED" /\ Active(attempts[w.r]) = {}
  /\ Scoring(w) => attempts[w.r] # <<>>
  /\ w.op = "record" \/ w.at = "answered" => w.result \in {resp[w.r].answer, "FAILED"}
WorkInTurn == \A i \in Workers : InTurnOf(work[i])

\* Attempts are for the model, and only the last one can be open; what the
\* administrator scored instead of the model is marked as an override.
RowInTurn(r) ==
  /\ mode[r] = "LLM_ASSISTED" =>
       /\ resp[r].effective = "ADMIN" => resp[r].method = "ADMIN_OVERRIDE"
       /\ resp[r].status # "AWAITING_REVIEW"
  /\ mode[r] # "LLM_ASSISTED" => attempts[r] = <<>>
  /\ resp[r].method = "ADMIN_OVERRIDE" => resp[r].effective = "ADMIN" /\ resp[r].status = "GRADED"
  /\ Active(attempts[r]) \subseteq {Len(attempts[r])}
  /\ resp[r].status \in {"PENDING", "RUNNING"} => Active(attempts[r]) # {}
  /\ resp[r].status = "GRADED" => resp[r].effective # "NONE"
  /\ sub.status = "FINALIZED" /\ resp[r].effective \notin {"NONE", "ADMIN"} =>
       resp[r].effective = resp[r].answer
RowsInTurn == \A r \in Responses : RowInTurn(r)

Serial == ~Overlap
InTurn == ~Overlap /\ ~Early

BasicInv == TypeOK /\ WorkShape
SerialInv == BasicInv /\ ViewsCurrent /\ TotalsAgree
TurnInv == BasicInv /\ ViewsCurrent /\ DraftsUnscored /\ WorkInTurn /\ RowsInTurn

------------------------------------------------------------------------------
(***************************************************************************)
(* The operators that compute rows.                                        *)
(***************************************************************************)

\* An UPDATE of a row, column by column.
LEMMA ChangedRow ==
  ASSUME NEW old \in RowType, NEW new \in RowType, NEW cur \in RowType
  PROVE  /\ Changed(old, new, cur) \in RowType
         /\ Changed(old, new, cur).status = IF new.status # old.status THEN new.status ELSE cur.status
         /\ Changed(old, new, cur).method = IF new.method # old.method THEN new.method ELSE cur.method
         /\ new = old => Changed(old, new, cur) = cur
         /\ cur = old => Changed(old, new, cur) = new
  <1>1. Changed(old, new, cur) =
          [answer |-> IF new.answer # old.answer THEN new.answer ELSE cur.answer,
           status |-> IF new.status # old.status THEN new.status ELSE cur.status,
           generated |-> IF new.generated # old.generated THEN new.generated ELSE cur.generated,
           effective |-> IF new.effective # old.effective THEN new.effective ELSE cur.effective,
           method |-> IF new.method # old.method THEN new.method ELSE cur.method]
    BY DEF Changed, RowType
  <1>2. \A x \in RowType : x = [answer |-> x.answer, status |-> x.status, generated |-> x.generated,
                               effective |-> x.effective, method |-> x.method]
    BY DEF RowType
  <1> QED
    BY <1>1, <1>2 DEF RowType

LEMMA ChangedSub ==
  ASSUME NEW old \in SubType, NEW new \in SubType, NEW cur \in SubType
  PROVE  /\ Changed(old, new, cur) \in SubType
         /\ Changed(old, new, cur).status = IF new.status # old.status THEN new.status ELSE cur.status
         /\ cur = old => Changed(old, new, cur) = new
  <1>1. Changed(old, new, cur) =
          [status |-> IF new.status # old.status THEN new.status ELSE cur.status,
           grading |-> IF new.grading # old.grading THEN new.grading ELSE cur.grading,
           total |-> IF new.total # old.total THEN new.total ELSE cur.total]
    BY DEF Changed, SubType
  <1>2. \A x \in SubType : x = [status |-> x.status, grading |-> x.grading, total |-> x.total]
    BY DEF SubType
  <1> QED
    BY <1>1, <1>2 DEF SubType

\* recalculate
LEMMA RecalculatedSub ==
  ASSUME NEW rs \in [Responses -> RowType], NEW s \in SubType
  PROVE  /\ Recalculated(s, rs) \in SubType
         /\ Recalculated(s, rs).status = s.status
         /\ s.status = "FINALIZED" => /\ Recalculated(s, rs).grading = Summary(rs)
                                      /\ Recalculated(s, rs).total = Total(rs)
  <1>1. Summary(rs) \in Status
    BY DEF Summary, Status
  <1>2. \A r \in Responses : Counted(rs[r].effective) \in Scores \ {"NONE"}
    BY DEF RowType, Counted, Scores, Answers
  <1>3. Total(rs) \in [Responses -> Scores \ {"NONE"}]
    BY <1>2 DEF Total
  <1> HIDE DEF Status
  <1>4. "NOT_STARTED" \in Status
    BY DEF Status
  <1> QED
    BY <1>1, <1>3, <1>4 DEF Recalculated, SubType

LEMMA AnsweredRows ==
  ASSUME NEW rs \in [Responses -> RowType], NEW form \in Forms \union {<<>>}
  PROVE  /\ Answered(rs, form) \in [Responses -> RowType]
         /\ \A r \in Responses : /\ Answered(rs, form)[r].status = rs[r].status
                                 /\ Answered(rs, form)[r].method = rs[r].method
                                 /\ Answered(rs, form)[r].generated = rs[r].generated
                                 /\ Answered(rs, form)[r].effective = rs[r].effective
  <1>1. CASE form = <<>>
    BY <1>1 DEF Answered
  <1>2. CASE form # <<>>
    <2>1. \A r \in Responses : form[r] \in Answers
      BY <1>2, GradingAssumption
    <2>2. \A r \in Responses : /\ [rs[r] EXCEPT !.answer = form[r]] \in RowType
                               /\ [rs[r] EXCEPT !.answer = form[r]].status = rs[r].status
                               /\ [rs[r] EXCEPT !.answer = form[r]].method = rs[r].method
                               /\ [rs[r] EXCEPT !.answer = form[r]].generated = rs[r].generated
                               /\ [rs[r] EXCEPT !.answer = form[r]].effective = rs[r].effective
      BY <2>1 DEF RowType
    <2> QED
      BY <1>2, <2>2 DEF Answered
  <1> QED
    BY <1>1, <1>2

\* What finalize makes of a response.
LEMMA FinalizedRows ==
  ASSUME TypeOK, NEW r \in Responses, NEW row \in RowType
  PROVE  /\ FinalizedRow(r, row) \in RowType /\ Started(FinalizedRow(r, row))
         /\ FinalizedRow(r, row).answer = row.answer
         /\ NeedsModel(r, row) => /\ FinalizedRow(r, row).status = "PENDING"
                                  /\ FinalizedRow(r, row).effective = row.effective
         /\ mode[r] = "MANUAL" => /\ FinalizedRow(r, row).status = "AWAITING_REVIEW"
                                  /\ FinalizedRow(r, row).effective = row.effective
         /\ mode[r] # "MANUAL" /\ ~NeedsModel(r, row) =>
              FinalizedRow(r, row).status = "GRADED" /\ FinalizedRow(r, row).effective = row.answer
         /\ FinalizedRow(r, row).method = mode[r]
  <1>1. mode[r] \in Modes
    BY GradingAssumption DEF TypeOK
  <1>2. row.answer \in Answers /\ row.answer \in Scores
    BY DEF RowType, Scores
  <1>3. CASE mode[r] = "MANUAL"
    BY <1>2, <1>3 DEF FinalizedRow, RowType, Status, Modes, Started, NeedsModel
  <1>4. CASE NeedsModel(r, row)
    BY <1>2, <1>4 DEF FinalizedRow, RowType, Status, Modes, Started, NeedsModel
  <1>5. CASE mode[r] # "MANUAL" /\ ~NeedsModel(r, row)
    <2>1. FinalizedRow(r, row) = [row EXCEPT !.status = "GRADED", !.method = mode[r],
                                             !.generated = row.answer, !.effective = row.answer]
      BY <1>5 DEF FinalizedRow
    <2> QED
      BY <1>1, <1>2, <1>5, <2>1 DEF RowType, Status, Modes, Started
  <1> QED
    BY <1>3, <1>4, <1>5

LEMMA ScoredRow ==
  ASSUME NEW row \in RowType
  PROVE  /\ Scored(row) \in RowType /\ Scored(row).effective = "ADMIN" /\ Scored(row).status = "GRADED"
         /\ Scored(row).answer = row.answer
         /\ Scored(row).method \in {"MANUAL", "ADMIN_OVERRIDE"}
         /\ row.status # "AWAITING_REVIEW" => Scored(row).method = "ADMIN_OVERRIDE"
  BY DEF Scored, RowType, Status, Scores, Modes

LEMMA ReopenedRow ==
  ASSUME NEW row \in RowType
  PROVE  /\ Reopened(row) \in RowType /\ Reopened(row).effective = "NONE" /\ Reopened(row).status = "PENDING"
         /\ Reopened(row).answer = row.answer /\ Reopened(row).method = row.method
  BY DEF Reopened, RowType, Status, Scores

LEMMA RunningRow ==
  ASSUME NEW row \in RowType
  PROVE  /\ [row EXCEPT !.status = "RUNNING"] \in RowType
         /\ [row EXCEPT !.status = "RUNNING"].status = "RUNNING"
         /\ [row EXCEPT !.status = "RUNNING"].answer = row.answer
         /\ [row EXCEPT !.status = "RUNNING"].method = row.method
         /\ [row EXCEPT !.status = "RUNNING"].effective = row.effective
  BY DEF RowType, Status

\* What the model's result makes of a response: an override stays as it is.
LEMMA GradedRows ==
  ASSUME NEW row \in RowType, NEW result \in Answers \union {"FAILED"}
  PROVE  /\ GradedRow(row, result) \in RowType
         /\ GradedRow(row, result).answer = row.answer
         /\ row.method = "ADMIN_OVERRIDE" =>
              /\ GradedRow(row, result).method = "ADMIN_OVERRIDE"
              /\ GradedRow(row, result).effective = row.effective
              /\ GradedRow(row, result).status \in {"GRADED", row.status}
         /\ row.method # "ADMIN_OVERRIDE" =>
              /\ GradedRow(row, result).method # "ADMIN_OVERRIDE"
              /\ GradedRow(row, result).status \in {"GRADED", "FAILED"}
              /\ GradedRow(row, result).status = "GRADED" => GradedRow(row, result).effective # "NONE"
              /\ GradedRow(row, result).effective \in {result, "NONE"} \ {"FAILED", "ADMIN"}
         /\ GradedRow(row, result).method # "NONE" \/ row.method = "NONE"
         /\ GradedRow(row, result).status # "NOT_STARTED" \/ row.status = "NOT_STARTED"
  <1>1. result = "FAILED" \/ (result \in Answers /\ result \in Scores /\ result \notin {"FAILED", "ADMIN", "NONE"})
    BY DEF Scores, Answers
  <1>2. CASE result # "FAILED" /\ row.method # "ADMIN_OVERRIDE"
    <2>1. GradedRow(row, result) =
            [row EXCEPT !.generated = result, !.effective = result, !.method = "LLM_ASSISTED", !.status = "GRADED"]
      BY <1>2 DEF GradedRow
    <2> QED
      BY <1>1, <1>2, <2>1 DEF RowType, Status, Modes
  <1>3. CASE result # "FAILED" /\ row.method = "ADMIN_OVERRIDE"
    <2>1. GradedRow(row, result) = [row EXCEPT !.generated = result, !.status = "GRADED"]
      BY <1>3 DEF GradedRow
    <2> QED
      BY <1>1, <1>3, <2>1 DEF RowType, Status
  <1>4. CASE result = "FAILED" /\ row.method # "ADMIN_OVERRIDE"
    <2>1. GradedRow(row, result) = [row EXCEPT !.generated = "NONE", !.effective = "NONE", !.status = "FAILED"]
      BY <1>4 DEF GradedRow
    <2> QED
      BY <1>4, <2>1 DEF RowType, Status, Scores
  <1>5. CASE result = "FAILED" /\ row.method = "ADMIN_OVERRIDE"
    <2>1. GradedRow(row, result) = row
      BY <1>5 DEF GradedRow
    <2> QED
      BY <1>5, <2>1
  <1> QED
    BY <1>2, <1>3, <1>4, <1>5

------------------------------------------------------------------------------
(***************************************************************************)
(* What the parts of an action do.                                         *)
(***************************************************************************)

\* What i writes of the rows new and the submission s it computed from its view.
Writes(i, new, s) ==
  /\ \A r \in Responses :
       /\ resp'[r].status = IF new[r].status # work[i].view.resp[r].status THEN new[r].status ELSE resp[r].status
       /\ resp'[r].method = IF new[r].method # work[i].view.resp[r].method THEN new[r].method ELSE resp[r].method
  /\ sub'.status = IF s.status # work[i].view.sub.status THEN s.status ELSE sub.status
  /\ work[i].view = Snapshot => resp' = new /\ sub' = s

Others(i) == \A j \in Workers \ {i} : work'[j] = work[j]

LEMMA Written ==
  ASSUME TypeOK, WorkShape, NEW i \in Workers, Loaded(work[i]),
         NEW new \in [Responses -> RowType], NEW s \in SubType, Update(i, new, s)
  PROVE  /\ resp' \in [Responses -> RowType] /\ sub' \in SubType
         /\ Writes(i, new, s)
  <1> DEFINE old == work[i].view.resp
  <1>1. /\ old \in [Responses -> RowType] /\ work[i].view.sub \in SubType
        /\ resp \in [Responses -> RowType] /\ sub \in SubType
    BY DEF WorkShape, Shaped, ViewType, TypeOK
  <1>2. /\ resp' = [r \in Responses |-> Changed(old[r], new[r], resp[r])]
        /\ sub' = Changed(work[i].view.sub, s, sub)
    BY DEF Update
  <1>3. work[i].view = Snapshot => old = resp /\ work[i].view.sub = sub
    BY DEF Snapshot
  <1> HIDE DEF old
  <1> DEFINE row(r) == Changed(old[r], new[r], resp[r])
  <1>4. ASSUME NEW r \in Responses
        PROVE  /\ row(r) \in RowType
               /\ row(r).status = IF new[r].status # old[r].status THEN new[r].status ELSE resp[r].status
               /\ row(r).method = IF new[r].method # old[r].method THEN new[r].method ELSE resp[r].method
               /\ resp = old => row(r) = new[r]
    <2>1. old[r] \in RowType /\ new[r] \in RowType /\ resp[r] \in RowType
      BY <1>1
    <2> QED
      BY <2>1, ChangedRow
  <1>5. /\ sub' \in SubType
        /\ sub'.status = IF s.status # work[i].view.sub.status THEN s.status ELSE sub.status
        /\ work[i].view.sub = sub => sub' = s
    BY <1>1, <1>2, ChangedSub
  <1>6. resp' \in [Responses -> RowType]
    BY <1>2, <1>4
  <1>7. \A r \in Responses : resp'[r] = Changed(old[r], new[r], resp[r])
    BY <1>2
  <1>8. work[i].view = Snapshot => resp' = new
    <2> HAVE work[i].view = Snapshot
    <2>1. \A r \in Responses : resp'[r] = new[r]
      BY <1>3, <1>4, <1>7
    <2> QED
      BY <1>2, <2>1
  <1> QED
    BY <1>3, <1>4, <1>5, <1>6, <1>7, <1>8 DEF old, Writes

\* One worker takes a step.
LEMMA WorkerStep ==
  ASSUME TypeOK, WorkShape, NEW i \in Workers, NEW w \in WorkType, Shaped(w),
         work' = [work EXCEPT ![i] = w]
  PROVE  /\ work' \in [Workers -> WorkType] /\ WorkShape'
         /\ work'[i] = w /\ Others(i)
  <1>1. \A j \in Workers : work'[j] = IF j = i THEN w ELSE work[j]
    BY DEF TypeOK
  <1>2. \A j \in Workers : Shaped(work'[j])
    BY <1>1 DEF WorkShape
  <1>3. \A j \in Workers : Shaped(work[j])'
    BY <1>2
  <1>4. work' \in [Workers -> WorkType]
    BY DEF TypeOK
  <1> QED
    BY <1>1, <1>3, <1>4 DEF WorkShape, Others

LEMMA IdleWork == Idle \in WorkType /\ Shaped(Idle) /\ ~Loaded(Idle) /\ ~Scoring(Idle)
  BY DEF Idle, WorkType, Shaped, Loaded, Scoring

LEMMA SnapshotTyped ==
  ASSUME TypeOK
  PROVE  Snapshot \in ViewType
  BY DEF TypeOK, Snapshot, ViewType

\* A request or job loads the rows it needs.
LEMMA LoadStep ==
  ASSUME TypeOK, WorkShape, NEW i \in Workers,
         NEW op \in {"draft", "finalize", "override", "retry", "grade"},
         NEW r \in Responses \union {"none"}, op \in {"override", "retry", "grade"} => r \in Responses,
         NEW form \in Forms \union {<<>>}, Load(i, op, r, form)
  PROVE  /\ work' \in [Workers -> WorkType] /\ WorkShape'
         /\ Loaded(work'[i]) /\ ~Scoring(work'[i])
         /\ work'[i].op = op /\ work'[i].r = r /\ work'[i].view = Snapshot
         /\ Others(i)
         /\ UNCHANGED <<mode, failing, resp, sub, attempts>>
         /\ Overlap \/ \A j \in Workers \ {i} : ~Loaded(work[j])
  <1> DEFINE w == [Idle EXCEPT !.op = op, !.at = "loaded", !.r = r, !.form = form, !.view = Snapshot]
  <1>1. /\ work' = [work EXCEPT ![i] = w] /\ UNCHANGED <<mode, failing, resp, sub, attempts>>
        /\ Overlap \/ \A j \in Workers \ {i} : ~Loaded(work[j])
    BY DEF Load, Alone, fixed, rows, Loaded
  <1>2. Snapshot \in ViewType
    BY SnapshotTyped
  <1>3. /\ w.op = op /\ w.at = "loaded" /\ w.r = r /\ w.view = Snapshot
    OBVIOUS
  <1>4. w \in WorkType
    BY <1>2 DEF Idle, WorkType
  <1> HIDE DEF w
  <1>5. Shaped(w) /\ Loaded(w) /\ ~Scoring(w) /\ w.op = op /\ w.r = r /\ w.view = Snapshot
    BY <1>2, <1>3 DEF Shaped, Loaded, Scoring
  <1> QED
    BY <1>1, <1>4, <1>5, WorkerStep

\* A new attempt of some responses.
LEMMA AttemptsAdded ==
  ASSUME TypeOK, NEW S, attempts' = WithAttempts(S)
  PROVE  /\ attempts' \in AttemptsType
         /\ \A r \in Responses : attempts[r] # <<>> \/ r \in S => attempts'[r] # <<>>
         /\ \A r \in Responses \ S : attempts'[r] = attempts[r]
         /\ \A r \in Responses : r \in S => attempts'[r] = Append(attempts[r], "PENDING")
  <1>1. \A r \in Responses : attempts'[r] = IF r \in S THEN Append(attempts[r], "PENDING") ELSE attempts[r]
    BY DEF WithAttempts
  <1>2. \A r \in Responses : attempts[r] \in Seq(AttemptStatus)
    BY DEF TypeOK, AttemptsType, AttemptStatus
  <1>3. \A r \in Responses : /\ Append(attempts[r], "PENDING") \in Seq(AttemptStatus)
                             /\ Append(attempts[r], "PENDING") # <<>>
    BY <1>2 DEF AttemptStatus
  <1>4. attempts' \in [Responses -> Seq(AttemptStatus)]
    BY <1>1, <1>2, <1>3 DEF WithAttempts
  <1> QED
    BY <1>1, <1>3, <1>4 DEF AttemptsType, AttemptStatus

\* An attempt is marked, if the response has it.
LEMMA AttemptMarked ==
  ASSUME TypeOK, NEW r \in Responses, NEW k, NEW v, k \in DOMAIN attempts[r] => v \in AttemptStatus,
         attempts' = [attempts EXCEPT ![r][k] = v]
  PROVE  /\ attempts' \in AttemptsType
         /\ Len(attempts'[r]) = Len(attempts[r])
         /\ \A q \in Responses : attempts[q] # <<>> => attempts'[q] # <<>>
         /\ \A q \in Responses \ {r} : attempts'[q] = attempts[q]
  <1>1. attempts \in [Responses -> Seq(AttemptStatus)] /\ attempts[r] \in Seq(AttemptStatus)
    BY DEF TypeOK, AttemptsType, AttemptStatus
  <1>2. PICK as : as = attempts[r]
    OBVIOUS
  <1>3. PICK bs : bs = [as EXCEPT ![k] = v]
    OBVIOUS
  <1>4. attempts' = [attempts EXCEPT ![r] = bs]
    BY <1>1, <1>2, <1>3
  <1>5. as \in Seq(AttemptStatus) /\ (k \in 1..Len(as) => v \in AttemptStatus)
    BY <1>1, <1>2
  <1>6. /\ bs \in Seq(AttemptStatus) /\ Len(bs) = Len(as)
        /\ \A j \in 1..Len(as) : bs[j] = IF j = k THEN v ELSE as[j]
    <2> DEFINE n == Len(as)
    <2>1. n \in Nat /\ as \in [1..n -> AttemptStatus]
      BY <1>5, LenProperties
    <2>2. k \in 1..n => v \in AttemptStatus
      BY <1>5
    <2> HIDE DEF n
    <2>3. bs \in [1..n -> AttemptStatus] /\ \A j \in 1..n : bs[j] = IF j = k THEN v ELSE as[j]
      BY <1>3, <2>1, <2>2
    <2>4. bs \in Seq(AttemptStatus)
      BY <2>1, <2>3
    <2>5. Len(bs) \in Nat /\ DOMAIN bs = 1..Len(bs)
      BY <2>4
    <2>6. Len(bs) = n
      BY <2>1, <2>3, <2>5
    <2> QED
      BY <2>3, <2>4, <2>6 DEF n
  <1>7. \A q \in Responses : attempts'[q] = IF q = r THEN bs ELSE attempts[q]
    BY <1>1, <1>4
  <1>8. attempts' \in [Responses -> Seq(AttemptStatus)]
    BY <1>1, <1>4, <1>6
  <1>9. as # <<>> => bs # <<>>
    <2>1. as # <<>> => Len(as) # 0
      BY <1>5, EmptySeq
    <2>2. bs = <<>> => Len(bs) = 0
      OBVIOUS
    <2> QED
      BY <1>6, <2>1, <2>2
  <1> QED
    BY <1>2, <1>6, <1>7, <1>8, <1>9 DEF AttemptsType, AttemptStatus

------------------------------------------------------------------------------
(***************************************************************************)
(* What each commit writes, whatever overlaps.                             *)
(***************************************************************************)
DraftRows(i) == Answered(work[i].view.resp, work[i].form)

LEMMA DraftWrites ==
  ASSUME BasicInv, NEW i \in Workers, CommitDraft(i)
  PROVE  /\ BasicInv'
         /\ Writes(i, DraftRows(i), work[i].view.sub)
         /\ \A r \in Responses :
              /\ DraftRows(i)[r].status = work[i].view.resp[r].status
              /\ DraftRows(i)[r].method = work[i].view.resp[r].method
              /\ DraftRows(i)[r].generated = work[i].view.resp[r].generated
              /\ DraftRows(i)[r].effective = work[i].view.resp[r].effective
         /\ work'[i] = Idle /\ Others(i)
         /\ UNCHANGED <<mode, attempts>>
  <1> USE DEF BasicInv
  <1>1. Loaded(work[i]) /\ work[i].view \in ViewType /\ work[i].form \in Forms \union {<<>>}
    BY DEF CommitDraft, Committing, Loaded, WorkShape, Shaped, TypeOK, WorkType
  <1>2. work[i].view.resp \in [Responses -> RowType] /\ work[i].view.sub \in SubType
    BY <1>1 DEF ViewType
  <1>3. /\ DraftRows(i) \in [Responses -> RowType]
        /\ \A r \in Responses :
              /\ DraftRows(i)[r].status = work[i].view.resp[r].status
              /\ DraftRows(i)[r].method = work[i].view.resp[r].method
              /\ DraftRows(i)[r].generated = work[i].view.resp[r].generated
              /\ DraftRows(i)[r].effective = work[i].view.resp[r].effective
    BY <1>1, <1>2, AnsweredRows DEF DraftRows
  <1>4. Update(i, DraftRows(i), work[i].view.sub)
    BY DEF CommitDraft, DraftRows
  <1>5. resp' \in [Responses -> RowType] /\ sub' \in SubType /\ Writes(i, DraftRows(i), work[i].view.sub)
    BY <1>1, <1>2, <1>3, <1>4, Written
  <1>6. work' \in [Workers -> WorkType] /\ WorkShape' /\ work'[i] = Idle /\ Others(i)
    BY IdleWork, WorkerStep DEF CommitDraft, Ends
  <1>7. UNCHANGED <<mode, failing, attempts, jobs>>
    BY DEF CommitDraft, fixed
  <1>8. TypeOK'
    BY <1>5, <1>6, <1>7 DEF TypeOK
  <1> QED
    BY <1>3, <1>5, <1>6, <1>7, <1>8

FinalAnswers(i) == Answered(work[i].view.resp, work[i].form)
FinalRows(i) == [r \in Responses |-> FinalizedRow(r, FinalAnswers(i)[r])]
FinalSub(i) == Recalculated([work[i].view.sub EXCEPT !.status = "FINALIZED"], FinalRows(i))
ForModel(i) == {r \in Responses : NeedsModel(r, FinalAnswers(i)[r])}

LEMMA FinalizeWrites ==
  ASSUME BasicInv, NEW i \in Workers, CommitFinalize(i)
  PROVE  /\ BasicInv'
         /\ Writes(i, FinalRows(i), FinalSub(i))
         /\ FinalRows(i) \in [Responses -> RowType] /\ FinalAnswers(i) \in [Responses -> RowType]
         /\ FinalSub(i).status = "FINALIZED"
         /\ FinalSub(i).grading = Summary(FinalRows(i)) /\ FinalSub(i).total = Total(FinalRows(i))
         /\ attempts' = WithAttempts(ForModel(i))
         /\ ~Loaded(work'[i]) /\ ~Scoring(work'[i]) /\ Others(i)
         /\ UNCHANGED mode
  <1> USE DEF BasicInv
  <1>1. Loaded(work[i]) /\ work[i].view \in ViewType /\ work[i].form \in Forms \union {<<>>}
    BY DEF CommitFinalize, Committing, Loaded, WorkShape, Shaped, TypeOK, WorkType
  <1>2. work[i].view.resp \in [Responses -> RowType] /\ work[i].view.sub \in SubType
    BY <1>1 DEF ViewType
  <1>3. FinalAnswers(i) \in [Responses -> RowType]
    BY <1>1, <1>2, AnsweredRows DEF FinalAnswers
  <1>4. FinalRows(i) \in [Responses -> RowType]
    BY <1>3, FinalizedRows DEF FinalRows
  <1> DEFINE s == [work[i].view.sub EXCEPT !.status = "FINALIZED"]
  <1>5. s \in SubType /\ s.status = "FINALIZED"
    BY <1>2 DEF SubType
  <1>6. FinalSub(i) = Recalculated(s, FinalRows(i))
    BY DEF FinalSub
  <1> HIDE DEF s
  <1>7. /\ FinalSub(i) \in SubType /\ FinalSub(i).status = "FINALIZED"
        /\ FinalSub(i).grading = Summary(FinalRows(i)) /\ FinalSub(i).total = Total(FinalRows(i))
    BY <1>4, <1>5, <1>6, RecalculatedSub
  <1>8. /\ Update(i, FinalRows(i), FinalSub(i)) /\ attempts' = WithAttempts(ForModel(i))
        /\ work' = [work EXCEPT ![i] = [Idle EXCEPT !.op = "finalize", !.at = "committed", !.todo = ForModel(i)]]
        /\ UNCHANGED <<mode, failing, jobs>>
    BY DEF CommitFinalize, FinalAnswers, FinalRows, FinalSub, ForModel, fixed
  <1>9. resp' \in [Responses -> RowType] /\ sub' \in SubType /\ Writes(i, FinalRows(i), FinalSub(i))
    BY <1>1, <1>4, <1>7, <1>8, Written
  <1> DEFINE w == [Idle EXCEPT !.op = "finalize", !.at = "committed", !.todo = ForModel(i)]
  <1>10. ForModel(i) \in SUBSET Responses
    BY DEF ForModel
  <1>11. w \in WorkType /\ Shaped(w) /\ ~Loaded(w) /\ ~Scoring(w)
    BY <1>10 DEF Idle, WorkType, Shaped, Loaded, Scoring
  <1>12. work' \in [Workers -> WorkType] /\ WorkShape' /\ work'[i] = w /\ Others(i)
    BY <1>8, <1>11, WorkerStep
  <1>13. attempts' \in AttemptsType
    BY <1>8, AttemptsAdded
  <1>14. TypeOK'
    BY <1>8, <1>9, <1>12, <1>13 DEF TypeOK
  <1> HIDE DEF w
  <1> QED
    BY <1>3, <1>4, <1>7, <1>8, <1>9, <1>11, <1>12, <1>14

OverrideRows(i) == [work[i].view.resp EXCEPT ![work[i].r] = Scored(work[i].view.resp[work[i].r])]

LEMMA OverrideWrites ==
  ASSUME BasicInv, NEW i \in Workers, CommitOverride(i)
  PROVE  /\ BasicInv'
         /\ work[i].view.resp \in [Responses -> RowType] /\ work[i].view.sub \in SubType /\ work[i].r \in Responses
         /\ OverrideRows(i) \in [Responses -> RowType]
         /\ OverrideRows(i)[work[i].r] = Scored(work[i].view.resp[work[i].r])
         /\ \A r \in Responses \ {work[i].r} : OverrideRows(i)[r] = work[i].view.resp[r]
         /\ Writes(i, OverrideRows(i), Recalculated(work[i].view.sub, OverrideRows(i)))
         /\ work'[i] = Idle /\ Others(i)
         /\ UNCHANGED <<mode, attempts>>
  <1> USE DEF BasicInv
  <1>1. Loaded(work[i]) /\ work[i].view \in ViewType /\ work[i].r \in Responses
    BY DEF CommitOverride, Committing, Loaded, WorkShape, Shaped
  <1>2. work[i].view.resp \in [Responses -> RowType] /\ work[i].view.sub \in SubType
    BY <1>1 DEF ViewType
  <1>3. Scored(work[i].view.resp[work[i].r]) \in RowType
    BY <1>1, <1>2, ScoredRow
  <1>4. /\ OverrideRows(i) \in [Responses -> RowType]
        /\ OverrideRows(i)[work[i].r] = Scored(work[i].view.resp[work[i].r])
        /\ \A r \in Responses \ {work[i].r} : OverrideRows(i)[r] = work[i].view.resp[r]
    BY <1>1, <1>2, <1>3 DEF OverrideRows
  <1>5. Recalculated(work[i].view.sub, OverrideRows(i)) \in SubType
    BY <1>2, <1>4, RecalculatedSub
  <1>6. /\ Update(i, OverrideRows(i), Recalculated(work[i].view.sub, OverrideRows(i)))
        /\ UNCHANGED <<mode, failing, attempts, jobs>>
    BY DEF CommitOverride, OverrideRows, fixed
  <1>7. /\ resp' \in [Responses -> RowType] /\ sub' \in SubType
        /\ Writes(i, OverrideRows(i), Recalculated(work[i].view.sub, OverrideRows(i)))
    BY <1>1, <1>4, <1>5, <1>6, Written
  <1>8. work' \in [Workers -> WorkType] /\ WorkShape' /\ work'[i] = Idle /\ Others(i)
    BY IdleWork, WorkerStep DEF CommitOverride, Ends
  <1>9. TypeOK'
    BY <1>6, <1>7, <1>8 DEF TypeOK
  <1> QED
    BY <1>1, <1>2, <1>4, <1>6, <1>7, <1>8, <1>9

RetryRow(row) == IF Overridden(row) THEN row ELSE Reopened(row)
RetryRows(i) == [work[i].view.resp EXCEPT ![work[i].r] = RetryRow(work[i].view.resp[work[i].r])]

LEMMA RetryWrites ==
  ASSUME BasicInv, NEW i \in Workers, CommitRetry(i)
  PROVE  /\ BasicInv'
         /\ work[i].view.resp \in [Responses -> RowType] /\ work[i].view.sub \in SubType /\ work[i].r \in Responses
         /\ RetryRows(i) \in [Responses -> RowType]
         /\ RetryRows(i)[work[i].r] = RetryRow(work[i].view.resp[work[i].r])
         /\ \A r \in Responses \ {work[i].r} : RetryRows(i)[r] = work[i].view.resp[r]
         /\ Writes(i, RetryRows(i), Recalculated(work[i].view.sub, RetryRows(i)))
         /\ attempts' = WithAttempts({work[i].r})
         /\ ~Loaded(work'[i]) /\ ~Scoring(work'[i]) /\ Others(i)
         /\ UNCHANGED mode
  <1> USE DEF BasicInv
  <1>1. Loaded(work[i]) /\ work[i].view \in ViewType /\ work[i].r \in Responses
    BY DEF CommitRetry, Committing, Loaded, WorkShape, Shaped
  <1>2. work[i].view.resp \in [Responses -> RowType] /\ work[i].view.sub \in SubType
    BY <1>1 DEF ViewType
  <1>3. RetryRow(work[i].view.resp[work[i].r]) \in RowType
    BY <1>1, <1>2, ReopenedRow DEF RetryRow
  <1>4. /\ RetryRows(i) \in [Responses -> RowType]
        /\ RetryRows(i)[work[i].r] = RetryRow(work[i].view.resp[work[i].r])
        /\ \A r \in Responses \ {work[i].r} : RetryRows(i)[r] = work[i].view.resp[r]
    BY <1>1, <1>2, <1>3 DEF RetryRows
  <1>5. Recalculated(work[i].view.sub, RetryRows(i)) \in SubType
    BY <1>2, <1>4, RecalculatedSub
  <1>6. RetryRows(i) = IF Overridden(work[i].view.resp[work[i].r]) THEN work[i].view.resp
          ELSE [work[i].view.resp EXCEPT ![work[i].r] = Reopened(work[i].view.resp[work[i].r])]
    BY <1>1, <1>2 DEF RetryRows, RetryRow
  <1>7. /\ Update(i, RetryRows(i), Recalculated(work[i].view.sub, RetryRows(i)))
        /\ attempts' = WithAttempts({work[i].r})
        /\ work' = [work EXCEPT ![i] = [Idle EXCEPT !.op = "retry", !.at = "committed", !.todo = {work[i].r}]]
        /\ UNCHANGED <<mode, failing, jobs>>
    BY <1>6 DEF CommitRetry, fixed
  <1>8. /\ resp' \in [Responses -> RowType] /\ sub' \in SubType
        /\ Writes(i, RetryRows(i), Recalculated(work[i].view.sub, RetryRows(i)))
    BY <1>1, <1>4, <1>5, <1>7, Written
  <1> DEFINE w == [Idle EXCEPT !.op = "retry", !.at = "committed", !.todo = {work[i].r}]
  <1>9. w \in WorkType /\ Shaped(w) /\ ~Loaded(w) /\ ~Scoring(w)
    BY <1>1 DEF Idle, WorkType, Shaped, Loaded, Scoring
  <1>10. work' \in [Workers -> WorkType] /\ WorkShape' /\ work'[i] = w /\ Others(i)
    BY <1>7, <1>9, WorkerStep
  <1>11. attempts' \in AttemptsType
    BY <1>7, AttemptsAdded
  <1>12. TypeOK'
    BY <1>7, <1>8, <1>10, <1>11 DEF TypeOK
  <1> HIDE DEF w
  <1> QED
    BY <1>1, <1>2, <1>4, <1>7, <1>8, <1>9, <1>10, <1>12

RunRow(row) == IF Overridden(row) THEN row ELSE [row EXCEPT !.status = "RUNNING"]
RunRows(i) == [work[i].view.resp EXCEPT ![work[i].r] = RunRow(work[i].view.resp[work[i].r])]

LEMMA GradeWrites ==
  ASSUME BasicInv, NEW i \in Workers, CommitGrade(i)
  PROVE  /\ BasicInv'
         /\ work[i].view.resp \in [Responses -> RowType] /\ work[i].r \in Responses
         /\ RunRows(i) \in [Responses -> RowType]
         /\ RunRows(i)[work[i].r] = RunRow(work[i].view.resp[work[i].r])
         /\ \A r \in Responses \ {work[i].r} : RunRows(i)[r] = work[i].view.resp[r]
         /\ Writes(i, RunRows(i), work[i].view.sub)
         /\ attempts' = [attempts EXCEPT ![work[i].r][Max(Waiting(work[i].view.attempts[work[i].r]))] = "RUNNING"]
         /\ work'[i].op = "grade" /\ work'[i].at = "asking" /\ work'[i].r = work[i].r
         /\ Others(i) /\ UNCHANGED mode
  <1> USE DEF BasicInv
  <1>1. Loaded(work[i]) /\ work[i].view \in ViewType /\ work[i].r \in Responses
    BY DEF CommitGrade, Committing, Loaded, WorkShape, Shaped
  <1>2. work[i].view.resp \in [Responses -> RowType] /\ work[i].view.sub \in SubType
    BY <1>1 DEF ViewType
  <1>3. RunRow(work[i].view.resp[work[i].r]) \in RowType
    BY <1>1, <1>2, RunningRow DEF RunRow
  <1>4. /\ RunRows(i) \in [Responses -> RowType]
        /\ RunRows(i)[work[i].r] = RunRow(work[i].view.resp[work[i].r])
        /\ \A r \in Responses \ {work[i].r} : RunRows(i)[r] = work[i].view.resp[r]
    BY <1>1, <1>2, <1>3 DEF RunRows
  <1>5. RunRows(i) = IF Overridden(work[i].view.resp[work[i].r]) THEN work[i].view.resp
          ELSE [work[i].view.resp EXCEPT ![work[i].r].status = "RUNNING"]
    BY <1>1, <1>2 DEF RunRows, RunRow
  <1>6. /\ Update(i, RunRows(i), work[i].view.sub)
        /\ attempts' = [attempts EXCEPT ![work[i].r][Max(Waiting(work[i].view.attempts[work[i].r]))] = "RUNNING"]
        /\ work' = [work EXCEPT ![i] = [Idle EXCEPT !.op = "grade", !.at = "asking", !.r = work[i].r]]
        /\ UNCHANGED <<mode, failing, jobs>>
    BY <1>5 DEF CommitGrade, fixed
  <1>7. /\ resp' \in [Responses -> RowType] /\ sub' \in SubType
        /\ Writes(i, RunRows(i), work[i].view.sub)
    BY <1>1, <1>2, <1>4, <1>6, Written
  <1> DEFINE w == [Idle EXCEPT !.op = "grade", !.at = "asking", !.r = work[i].r]
  <1>8. w \in WorkType /\ Shaped(w) /\ w.op = "grade" /\ w.at = "asking" /\ w.r = work[i].r
    BY <1>1 DEF Idle, WorkType, Shaped, Loaded
  <1>9. work' \in [Workers -> WorkType] /\ WorkShape' /\ work'[i] = w /\ Others(i)
    BY <1>6, <1>8, WorkerStep
  <1>10. attempts' \in AttemptsType
    <2>1. "RUNNING" \in AttemptStatus
      BY DEF AttemptStatus
    <2> QED
      BY <1>1, <1>6, <2>1, AttemptMarked
  <1>11. TypeOK'
    BY <1>6, <1>7, <1>9, <1>10 DEF TypeOK
  <1> HIDE DEF w
  <1> QED
    BY <1>1, <1>2, <1>4, <1>6, <1>7, <1>8, <1>9, <1>11

ResultRows(i) ==
  [work[i].view.resp EXCEPT ![work[i].r] = GradedRow(work[i].view.resp[work[i].r], work[i].result)]
Outcome(i) == IF work[i].result = "FAILED" THEN "FAILED" ELSE "GRADED"
Last(i) == Len(work[i].view.attempts[work[i].r])
Closed(i) ==
  IF Outcome(i) # work[i].view.attempts[work[i].r][Last(i)] THEN Outcome(i) ELSE attempts[work[i].r][Last(i)]

LEMMA ResultWrites ==
  ASSUME BasicInv, NEW i \in Workers, CommitResult(i)
  PROVE  /\ BasicInv'
         /\ work[i].view.resp \in [Responses -> RowType] /\ work[i].view.sub \in SubType /\ work[i].r \in Responses
         /\ work[i].result \in Answers \union {"FAILED"}
         /\ ResultRows(i) \in [Responses -> RowType]
         /\ ResultRows(i)[work[i].r] = GradedRow(work[i].view.resp[work[i].r], work[i].result)
         /\ \A r \in Responses \ {work[i].r} : ResultRows(i)[r] = work[i].view.resp[r]
         /\ Writes(i, ResultRows(i), Recalculated(work[i].view.sub, ResultRows(i)))
         /\ attempts' = [attempts EXCEPT ![work[i].r][Last(i)] = Closed(i)]
         /\ Last(i) \in DOMAIN attempts[work[i].r] => Closed(i) \in AttemptStatus
         /\ work'[i] = Idle /\ Others(i)
         /\ UNCHANGED mode
  <1> USE DEF BasicInv
  <1>1. /\ Loaded(work[i]) /\ work[i].view \in ViewType /\ work[i].r \in Responses
        /\ work[i].result \in Answers \union {"FAILED"}
    BY DEF CommitResult, Committing, WorkShape, Shaped, Scoring
  <1>2. work[i].view.resp \in [Responses -> RowType] /\ work[i].view.sub \in SubType
    BY <1>1 DEF ViewType
  <1>3. GradedRow(work[i].view.resp[work[i].r], work[i].result) \in RowType
    BY <1>1, <1>2, GradedRows
  <1>4. /\ ResultRows(i) \in [Responses -> RowType]
        /\ ResultRows(i)[work[i].r] = GradedRow(work[i].view.resp[work[i].r], work[i].result)
        /\ \A r \in Responses \ {work[i].r} : ResultRows(i)[r] = work[i].view.resp[r]
    BY <1>1, <1>2, <1>3 DEF ResultRows
  <1>5. Recalculated(work[i].view.sub, ResultRows(i)) \in SubType
    BY <1>2, <1>4, RecalculatedSub
  <1>6. /\ Update(i, ResultRows(i), Recalculated(work[i].view.sub, ResultRows(i)))
        /\ attempts' = [attempts EXCEPT ![work[i].r][Last(i)] = Closed(i)]
        /\ UNCHANGED <<mode, failing, jobs>>
    BY DEF CommitResult, ResultRows, Last, Closed, Outcome, fixed
  <1>7. /\ resp' \in [Responses -> RowType] /\ sub' \in SubType
        /\ Writes(i, ResultRows(i), Recalculated(work[i].view.sub, ResultRows(i)))
    BY <1>1, <1>4, <1>5, <1>6, Written
  <1>8. work' \in [Workers -> WorkType] /\ WorkShape' /\ work'[i] = Idle /\ Others(i)
    BY IdleWork, WorkerStep DEF CommitResult, Ends
  <1>9. Last(i) \in DOMAIN attempts[work[i].r] => Closed(i) \in AttemptStatus
    <2>1. attempts[work[i].r] \in Seq(AttemptStatus)
      BY <1>1 DEF TypeOK, AttemptsType, AttemptStatus
    <2>2. Outcome(i) \in AttemptStatus
      BY DEF Outcome, AttemptStatus
    <2> QED
      BY <2>1, <2>2 DEF Closed
  <1>10. attempts' \in AttemptsType
    BY <1>1, <1>6, <1>9, AttemptMarked
  <1>11. TypeOK'
    BY <1>6, <1>7, <1>8, <1>10 DEF TypeOK
  <1> QED
    BY <1>1, <1>2, <1>4, <1>6, <1>7, <1>8, <1>9, <1>11

------------------------------------------------------------------------------
(***************************************************************************)
(* The other steps leave the rows alone.                                   *)
(***************************************************************************)
RowsStay == UNCHANGED <<mode, resp, sub, attempts>>

LEMMA ScheduleStep ==
  ASSUME BasicInv, NEW i \in Workers, Schedule(i)
  PROVE  BasicInv' /\ RowsStay /\ work'[i] = Idle /\ Others(i)
  <1> USE DEF BasicInv
  <1>1. UNCHANGED <<mode, failing, resp, sub, attempts>>
    BY DEF Schedule, fixed, rows
  <1>2. work' \in [Workers -> WorkType] /\ WorkShape' /\ work'[i] = Idle /\ Others(i)
    BY IdleWork, WorkerStep DEF Schedule, Ends
  <1>3. jobs' \in [Responses -> Nat]
    BY DEF Schedule, TypeOK
  <1>4. TypeOK'
    BY <1>1, <1>2, <1>3 DEF TypeOK
  <1> QED
    BY <1>1, <1>2, <1>4 DEF RowsStay

LEMMA AskStep ==
  ASSUME BasicInv, NEW i \in Workers, NEW result \in Answers \union {"FAILED"}, Ask(i, result)
  PROVE  /\ BasicInv' /\ RowsStay /\ Others(i)
         /\ Scoring(work[i]) /\ ~Loaded(work'[i]) /\ work'[i].r = work[i].r
         /\ work'[i].op = "grade" /\ work'[i].at = "answered" /\ work'[i].result = result
         /\ result \in {resp[work[i].r].answer, "FAILED"}
  <1> USE DEF BasicInv
  <1>1. UNCHANGED <<mode, failing, resp, sub, attempts, jobs>>
    BY DEF Ask, fixed, rows
  <1> DEFINE w == [work[i] EXCEPT !.at = "answered", !.result = result]
  <1>2. work[i] \in WorkType /\ work[i].at = "asking" /\ work[i].op = "grade" /\ work[i].r \in Responses
    BY DEF Ask, TypeOK, WorkShape, Shaped, Scoring
  <1>3. work' = [work EXCEPT ![i] = w]
    BY <1>2 DEF Ask
  <1>4. w \in WorkType /\ w.at = "answered" /\ w.op = "grade" /\ w.r = work[i].r /\ w.result = result
    BY <1>2 DEF WorkType
  <1> HIDE DEF w
  <1>5. Shaped(w) /\ ~Loaded(w)
    BY <1>2, <1>4 DEF Shaped, Loaded
  <1>6. work' \in [Workers -> WorkType] /\ WorkShape' /\ work'[i] = w /\ Others(i)
    BY <1>3, <1>4, <1>5, WorkerStep
  <1>7. TypeOK'
    BY <1>1, <1>6 DEF TypeOK
  <1> QED
    BY <1>1, <1>2, <1>4, <1>5, <1>6, <1>7 DEF RowsStay, Ask, Scoring

LEMMA LoadResultStep ==
  ASSUME BasicInv, NEW i \in Workers, LoadResult(i)
  PROVE  /\ BasicInv' /\ RowsStay /\ Others(i)
         /\ Scoring(work[i]) /\ work[i].at = "answered"
         /\ Loaded(work'[i]) /\ work'[i].op = "record" /\ work'[i].view = Snapshot
         /\ work'[i].r = work[i].r /\ work'[i].result = work[i].result
         /\ Overlap \/ \A j \in Workers \ {i} : ~Loaded(work[j])
  <1> USE DEF BasicInv
  <1>1. /\ UNCHANGED <<mode, failing, resp, sub, attempts, jobs>> /\ work[i].at = "answered"
        /\ Overlap \/ \A j \in Workers \ {i} : ~Loaded(work[j])
    BY DEF LoadResult, Alone, Loaded, fixed, rows
  <1> DEFINE w == [work[i] EXCEPT !.op = "record", !.at = "loaded", !.view = Snapshot]
  <1>2. work[i] \in WorkType /\ Scoring(work[i]) /\ work[i].r \in Responses /\ work[i].result \in Answers \union {"FAILED"}
    BY <1>1 DEF TypeOK, WorkShape, Shaped, Scoring
  <1>3. work' = [work EXCEPT ![i] = w]
    BY <1>2 DEF LoadResult
  <1>4. /\ w \in WorkType /\ w.at = "loaded" /\ w.op = "record" /\ w.r = work[i].r
        /\ w.result = work[i].result /\ w.view = Snapshot /\ Snapshot \in ViewType
    BY <1>2, SnapshotTyped DEF WorkType
  <1> HIDE DEF w
  <1>5. Shaped(w) /\ Loaded(w)
    BY <1>2, <1>4 DEF Shaped, Loaded
  <1>6. work' \in [Workers -> WorkType] /\ WorkShape' /\ work'[i] = w /\ Others(i)
    BY <1>3, <1>4, <1>5, WorkerStep
  <1>7. TypeOK'
    BY <1>1, <1>6 DEF TypeOK
  <1> QED
    BY <1>1, <1>2, <1>4, <1>5, <1>6, <1>7 DEF RowsStay

\* The ways to begin, by what is loaded and why it may be.
Begun(i, op, r) ==
  /\ RowsStay /\ Others(i)
  /\ Loaded(work'[i]) /\ ~Scoring(work'[i])
  /\ work'[i].op = op /\ work'[i].r = r /\ work'[i].view = Snapshot
  /\ Overlap \/ \A j \in Workers \ {i} : ~Loaded(work[j])

LEMMA Began ==
  ASSUME BasicInv, NEW i \in Workers,
         NEW op \in {"draft", "finalize", "override", "retry", "grade"},
         NEW r \in Responses \union {"none"}, op \in {"override", "retry", "grade"} => r \in Responses,
         NEW form \in Forms \union {<<>>}, Load(i, op, r, form), jobs' \in [Responses -> Nat]
  PROVE  BasicInv' /\ Begun(i, op, r)
  <1> USE DEF BasicInv
  <1>1. /\ work' \in [Workers -> WorkType] /\ WorkShape'
        /\ Loaded(work'[i]) /\ ~Scoring(work'[i])
        /\ work'[i].op = op /\ work'[i].r = r /\ work'[i].view = Snapshot
        /\ Others(i)
        /\ UNCHANGED <<mode, failing, resp, sub, attempts>>
        /\ Overlap \/ \A j \in Workers \ {i} : ~Loaded(work[j])
    BY LoadStep
  <1>2. TypeOK'
    BY <1>1 DEF TypeOK
  <1> QED
    BY <1>1, <1>2 DEF Begun, RowsStay

LEMMA BeginSteps ==
  ASSUME BasicInv
  PROVE  /\ \A i \in Workers, form \in Forms : BeginDraft(i, form) =>
              BasicInv' /\ Begun(i, "draft", "none") /\ sub.status # "FINALIZED"
         /\ \A i \in Workers, form \in Forms \union {<<>>} : BeginFinalize(i, form) =>
              BasicInv' /\ Begun(i, "finalize", "none") /\ sub.status # "FINALIZED"
         /\ \A i \in Workers, r \in Responses : BeginOverride(i, r) =>
              BasicInv' /\ Begun(i, "override", r) /\ HandedIn
         /\ \A i \in Workers, r \in Responses : BeginRetry(i, r) =>
              /\ BasicInv' /\ Begun(i, "retry", r) /\ HandedIn
              /\ mode[r] = "LLM_ASSISTED" /\ Active(attempts[r]) = {}
         /\ \A i \in Workers, r \in Responses : BeginGrade(i, r) =>
              \/ BasicInv' /\ Begun(i, "grade", r) /\ Gradable(r)
              \/ BasicInv' /\ RowsStay /\ UNCHANGED work
  <1>0. jobs \in [Responses -> Nat]
    BY DEF BasicInv, TypeOK
  <1>1. ASSUME NEW i \in Workers, NEW form \in Forms, BeginDraft(i, form)
        PROVE  BasicInv' /\ Begun(i, "draft", "none") /\ sub.status # "FINALIZED"
    <2>1. Load(i, "draft", "none", form) /\ jobs' = jobs /\ sub.status # "FINALIZED"
      BY <1>1 DEF BeginDraft
    <2> QED
      BY <1>0, <2>1, Began
  <1>2. ASSUME NEW i \in Workers, NEW form \in Forms \union {<<>>}, BeginFinalize(i, form)
        PROVE  BasicInv' /\ Begun(i, "finalize", "none") /\ sub.status # "FINALIZED"
    <2>1. Load(i, "finalize", "none", form) /\ jobs' = jobs /\ sub.status # "FINALIZED"
      BY <1>2 DEF BeginFinalize
    <2> QED
      BY <1>0, <2>1, Began
  <1>3. ASSUME NEW i \in Workers, NEW r \in Responses, BeginOverride(i, r)
        PROVE  BasicInv' /\ Begun(i, "override", r) /\ HandedIn
    <2>1. Load(i, "override", r, <<>>) /\ jobs' = jobs /\ HandedIn
      BY <1>3 DEF BeginOverride
    <2> QED
      BY <1>0, <2>1, Began
  <1>4. ASSUME NEW i \in Workers, NEW r \in Responses, BeginRetry(i, r)
        PROVE  /\ BasicInv' /\ Begun(i, "retry", r) /\ HandedIn
               /\ mode[r] = "LLM_ASSISTED" /\ Active(attempts[r]) = {}
    <2>1. /\ Load(i, "retry", r, <<>>) /\ jobs' = jobs /\ HandedIn
          /\ mode[r] = "LLM_ASSISTED" /\ Active(attempts[r]) = {}
      BY <1>4 DEF BeginRetry
    <2> QED
      BY <1>0, <2>1, Began
  <1>5. ASSUME NEW i \in Workers, NEW r \in Responses, BeginGrade(i, r)
        PROVE  \/ BasicInv' /\ Begun(i, "grade", r) /\ Gradable(r)
               \/ BasicInv' /\ RowsStay /\ UNCHANGED work
    <2>1. jobs' \in [Responses -> Nat]
      <3>1. jobs[r] - 1 \in Nat /\ jobs' = [jobs EXCEPT ![r] = jobs[r] - 1]
        BY <1>0, <1>5 DEF BeginGrade
      <3> QED
        BY <1>0, <3>1
    <2>2. CASE Gradable(r)
      <3>1. Load(i, "grade", r, <<>>)
        BY <1>5, <2>2 DEF BeginGrade
      <3> QED
        BY <2>1, <2>2, <3>1, Began
    <2>3. CASE ~Gradable(r)
      <3>1. UNCHANGED <<mode, failing, resp, sub, attempts, work>>
        BY <1>5, <2>3 DEF BeginGrade, fixed, rows
      <3>2. TypeOK'
        BY <2>1, <3>1 DEF BasicInv, TypeOK
      <3>3. WorkShape'
        BY <3>1 DEF BasicInv, WorkShape
      <3> QED
        BY <3>1, <3>2, <3>3 DEF BasicInv, RowsStay
    <2> QED
      BY <2>2, <2>3
  <1> QED
    BY <1>1, <1>2, <1>3, <1>4, <1>5

\* The server stops, or stops no more.
LEMMA FailureSteps ==
  ASSUME BasicInv, Crash \/ FailuresEnd \/ UNCHANGED vars
  PROVE  /\ BasicInv' /\ RowsStay
         /\ (\A i \in Workers : work'[i] = Idle) \/ work' = work
  <1> USE DEF BasicInv
  <1>1. CASE Crash
    <2>1. /\ UNCHANGED <<mode, failing, resp, sub, attempts>> /\ jobs' = [r \in Responses |-> 0]
          /\ work' = [i \in Workers |-> Idle]
      BY <1>1 DEF Crash, fixed, rows
    <2>2. TypeOK'
      BY <2>1, IdleWork DEF TypeOK
    <2>3. WorkShape'
      BY <2>1, IdleWork DEF WorkShape
    <2> QED
      BY <2>1, <2>2, <2>3 DEF RowsStay
  <1>2. CASE FailuresEnd \/ UNCHANGED vars
    <2>1. UNCHANGED <<mode, resp, sub, attempts, jobs, work>> /\ failing' \in BOOLEAN
      BY <1>2 DEF FailuresEnd, vars, rows, TypeOK
    <2>2. TypeOK'
      BY <2>1 DEF TypeOK
    <2>3. WorkShape'
      BY <2>1 DEF WorkShape
    <2> QED
      BY <2>1, <2>2, <2>3 DEF RowsStay
  <1> QED
    BY <1>1, <1>2

\* A request or job begins, with what its route or the attempt asks for.
Begins(i, op, r) ==
  /\ Begun(i, op, r)
  /\ op \in {"draft", "finalize", "override", "retry", "grade"}
  /\ op \in {"draft", "finalize"} => sub.status # "FINALIZED"
  /\ op \in {"override", "retry", "grade"} => r \in Responses
  /\ op \in {"override", "retry"} => HandedIn
  /\ op = "retry" => mode[r] = "LLM_ASSISTED" /\ Active(attempts[r]) = {}
  /\ op = "grade" => Gradable(r)

Asked(i) ==
  /\ RowsStay /\ Others(i)
  /\ Scoring(work[i]) /\ ~Loaded(work'[i]) /\ work'[i].r = work[i].r /\ work[i].r \in Responses
  /\ work'[i].op = "grade" /\ work'[i].at = "answered"
  /\ work'[i].result \in {resp[work[i].r].answer, "FAILED"}

Reloaded(i) ==
  /\ RowsStay /\ Others(i)
  /\ Scoring(work[i]) /\ work[i].at = "answered" /\ work[i].r \in Responses
  /\ Loaded(work'[i]) /\ work'[i].op = "record" /\ work'[i].view = Snapshot
  /\ work'[i].r = work[i].r /\ work'[i].result = work[i].result
  /\ Overlap \/ \A j \in Workers \ {i} : ~Loaded(work[j])

Ended(i) == RowsStay /\ Others(i) /\ work'[i] = Idle

Stopped == RowsStay /\ ((\A i \in Workers : work'[i] = Idle) \/ work' = work)

Writing(i) ==
  \/ CommitDraft(i) \/ CommitFinalize(i) \/ CommitOverride(i)
  \/ CommitRetry(i) \/ CommitGrade(i) \/ CommitResult(i)

LEMMA StepKinds ==
  ASSUME BasicInv, [Next]_vars
  PROVE  /\ BasicInv'
         /\ \/ \E i \in Workers : Writing(i)
            \/ \E i \in Workers : \E op, r : Begins(i, op, r)
            \/ \E i \in Workers : Asked(i) \/ Reloaded(i) \/ Ended(i)
            \/ Stopped
  <1>1. CASE \E i \in Workers, form \in Forms : BeginDraft(i, form)
    <2>1. PICK i \in Workers : BasicInv' /\ Begun(i, "draft", "none") /\ sub.status # "FINALIZED"
      BY <1>1, BeginSteps
    <2>2. Begins(i, "draft", "none")
      BY <2>1 DEF Begins
    <2> QED
      BY <2>1, <2>2
  <1>2. CASE \E i \in Workers, form \in Forms \union {<<>>} : BeginFinalize(i, form)
    <2>1. PICK i \in Workers : BasicInv' /\ Begun(i, "finalize", "none") /\ sub.status # "FINALIZED"
      BY <1>2, BeginSteps
    <2>2. Begins(i, "finalize", "none")
      BY <2>1 DEF Begins
    <2> QED
      BY <2>1, <2>2
  <1>3. CASE \E i \in Workers, r \in Responses : BeginOverride(i, r)
    <2>1. PICK i \in Workers, r \in Responses : BasicInv' /\ Begun(i, "override", r) /\ HandedIn
      BY <1>3, BeginSteps
    <2>2. Begins(i, "override", r)
      BY <2>1 DEF Begins
    <2> QED
      BY <2>1, <2>2
  <1>4. CASE \E i \in Workers, r \in Responses : BeginRetry(i, r)
    <2>1. PICK i \in Workers, r \in Responses :
            /\ BasicInv' /\ Begun(i, "retry", r) /\ HandedIn
            /\ mode[r] = "LLM_ASSISTED" /\ Active(attempts[r]) = {}
      BY <1>4, BeginSteps
    <2>2. Begins(i, "retry", r)
      BY <2>1 DEF Begins
    <2> QED
      BY <2>1, <2>2
  <1>5. CASE \E i \in Workers, r \in Responses : BeginGrade(i, r)
    <2>1. PICK i \in Workers, r \in Responses :
            \/ BasicInv' /\ Begun(i, "grade", r) /\ Gradable(r)
            \/ BasicInv' /\ RowsStay /\ UNCHANGED work
      BY <1>5, BeginSteps
    <2>2. Begun(i, "grade", r) /\ Gradable(r) => Begins(i, "grade", r)
      BY DEF Begins
    <2> QED
      BY <2>1, <2>2 DEF Stopped
  <1>6. CASE \E i \in Workers : LoadResult(i)
    <2>1. PICK i \in Workers : LoadResult(i)
      BY <1>6
    <2>2. BasicInv' /\ Reloaded(i)
      <3>1. work[i].r \in Responses
        BY <2>1 DEF LoadResult, BasicInv, WorkShape, Shaped, Scoring
      <3> QED
        BY <2>1, <3>1, LoadResultStep DEF Reloaded
    <2> QED
      BY <2>2
  <1>7. ASSUME NEW i \in Workers, Commit(i)
        PROVE  BasicInv' /\ (Writing(i) \/ Asked(i) \/ Ended(i))
    <2>1. CASE CommitDraft(i)
      BY <2>1, DraftWrites DEF Writing
    <2>2. CASE CommitFinalize(i)
      BY <2>2, FinalizeWrites DEF Writing
    <2>3. CASE CommitOverride(i)
      BY <2>3, OverrideWrites DEF Writing
    <2>4. CASE CommitRetry(i)
      BY <2>4, RetryWrites DEF Writing
    <2>5. CASE CommitGrade(i)
      BY <2>5, GradeWrites DEF Writing
    <2>6. CASE CommitResult(i)
      BY <2>6, ResultWrites DEF Writing
    <2>7. CASE Schedule(i)
      BY <2>7, ScheduleStep DEF Ended
    <2>8. ASSUME NEW result \in Answers \union {"FAILED"}, Ask(i, result)
          PROVE  BasicInv' /\ Asked(i)
      <3>1. work[i].r \in Responses
        BY <2>8 DEF Ask, BasicInv, WorkShape, Shaped, Scoring
      <3> QED
        BY <2>8, <3>1, AskStep DEF Asked
    <2> QED
      BY <1>7, <2>1, <2>2, <2>3, <2>4, <2>5, <2>6, <2>7, <2>8 DEF Commit
  <1>8. CASE Crash \/ FailuresEnd \/ UNCHANGED vars
    BY <1>8, FailureSteps DEF Stopped
  <1> QED
    BY <1>1, <1>2, <1>3, <1>4, <1>5, <1>6, <1>7, <1>8 DEF Next

LEMMA InitBasic == Init => BasicInv
  <1> SUFFICES ASSUME Init
               PROVE  TypeOK /\ WorkShape
    BY DEF BasicInv
  <1>1. /\ mode \in Gradings /\ failing \in BOOLEAN /\ jobs \in [Responses -> Nat]
        /\ attempts \in AttemptsType
    BY GradingAssumption DEF Init, AttemptsType
  <1>2. resp \in [Responses -> RowType] /\ sub \in SubType
    BY DEF Init, RowType, SubType, Status, Scores, Answers
  <1>3. work \in [Workers -> WorkType] /\ WorkShape
    BY IdleWork DEF Init, WorkShape
  <1> QED
    BY <1>1, <1>2, <1>3 DEF TypeOK

\* The submission, its responses and attempts, and every request and job
\* under way keep the shape the routes rely on, whatever overlaps.
THEOREM GradingTypes == Spec => []TypeOK
  <1>1. BasicInv /\ [Next]_vars => BasicInv'
    BY StepKinds
  <1>2. BasicInv => TypeOK
    BY DEF BasicInv
  <1> QED
    BY <1>1, <1>2, InitBasic, PTL DEF Spec

------------------------------------------------------------------------------
(***************************************************************************)
(* Whatever overlaps: nothing that was handed in is left out.              *)
(***************************************************************************)

\* The rows go forward only.
Onward ==
  /\ UNCHANGED mode
  /\ sub.status = "FINALIZED" => sub'.status = "FINALIZED"
  /\ \A r \in Responses :
       /\ resp[r].status # "NOT_STARTED" => resp'[r].status # "NOT_STARTED"
       /\ resp[r].method # "NONE" => resp'[r].method # "NONE"
       /\ attempts[r] # <<>> => attempts'[r] # <<>>
       /\ mode[r] = "LLM_ASSISTED" /\ resp[r].status = "GRADED" => resp'[r].status = "GRADED" \/ attempts'[r] # <<>>

LEMMA StillBehind ==
  ASSUME ViewsBehind, BasicInv', BasicInv, Onward, NEW i \in Workers, Others(i), Behind(work[i])'
  PROVE  ViewsBehind'
  <1> SUFFICES ASSUME NEW j \in Workers, j # i
               PROVE  Behind(work[j])'
    BY DEF ViewsBehind
  <1>1. work'[j] = work[j] /\ Behind(work[j]) /\ Shaped(work[j])
    BY DEF Others, ViewsBehind, BasicInv, WorkShape
  <1> QED
    BY <1>1 DEF Behind, Onward, Shaped

LEMMA StillComplete ==
  ASSUME FinalIsComplete, Onward, sub'.status = "FINALIZED" => sub.status = "FINALIZED"
  PROVE  FinalIsComplete'
  BY DEF FinalIsComplete, Final, Onward

LEMMA DraftOnward ==
  ASSUME BasicInv, ViewsBehind, FinalIsComplete, NEW i \in Workers, CommitDraft(i)
  PROVE  ViewsBehind' /\ FinalIsComplete'
  <1>1. /\ BasicInv' /\ Writes(i, DraftRows(i), work[i].view.sub)
        /\ \A r \in Responses : /\ DraftRows(i)[r].status = work[i].view.resp[r].status
                                /\ DraftRows(i)[r].method = work[i].view.resp[r].method
        /\ work'[i] = Idle /\ Others(i) /\ UNCHANGED <<mode, attempts>>
    BY DraftWrites
  <1>2. /\ \A r \in Responses : resp'[r].status = resp[r].status /\ resp'[r].method = resp[r].method
        /\ sub'.status = sub.status
    BY <1>1 DEF Writes
  <1>3. Onward
    BY <1>1, <1>2 DEF Onward
  <1>4. Behind(work[i])'
    BY <1>1, IdleWork DEF Behind
  <1> QED
    BY <1>1, <1>2, <1>3, <1>4, StillBehind, StillComplete

LEMMA FinalizeOnward ==
  ASSUME BasicInv, ViewsBehind, FinalIsComplete, NEW i \in Workers, CommitFinalize(i)
  PROVE  ViewsBehind' /\ FinalIsComplete'
  <1>1. /\ BasicInv' /\ Writes(i, FinalRows(i), FinalSub(i))
        /\ FinalAnswers(i) \in [Responses -> RowType] /\ FinalSub(i).status = "FINALIZED"
        /\ attempts' = WithAttempts(ForModel(i))
        /\ ~Loaded(work'[i]) /\ ~Scoring(work'[i]) /\ Others(i) /\ UNCHANGED mode
    BY FinalizeWrites
  <1>2. Loaded(work[i]) /\ Behind(work[i])
    BY DEF CommitFinalize, Committing, Loaded, ViewsBehind
  <1>3. sub'.status = "FINALIZED"
    BY <1>1, <1>2 DEF Writes, Behind
  <1>4. \A r \in Responses :
          /\ attempts[r] # <<>> => attempts'[r] # <<>>
          /\ r \in ForModel(i) => attempts'[r] # <<>>
    BY <1>1, AttemptsAdded DEF BasicInv
  <1>5. ASSUME NEW r \in Responses
        PROVE  /\ resp'[r].status # "NOT_STARTED" /\ resp'[r].method # "NONE"
               /\ mode[r] = "LLM_ASSISTED" => resp'[r].status = "GRADED" \/ attempts'[r] # <<>>
    <2>1. FinalAnswers(i)[r] \in RowType /\ FinalRows(i)[r] = FinalizedRow(r, FinalAnswers(i)[r])
      BY <1>1 DEF FinalRows
    <2>2. FinalRows(i)[r].status # "NOT_STARTED" /\ FinalRows(i)[r].method # "NONE"
      BY <2>1, FinalizedRows DEF Started, BasicInv
    <2>3. resp'[r].status # "NOT_STARTED" /\ resp'[r].method # "NONE"
      BY <1>1, <1>2, <2>2 DEF Writes, Behind
    <2>4. ASSUME mode[r] = "LLM_ASSISTED", ~NeedsModel(r, FinalAnswers(i)[r])
          PROVE  resp'[r].status = "GRADED" \/ attempts'[r] # <<>>
      <3>1. FinalRows(i)[r].status = "GRADED"
        BY <2>1, <2>4, FinalizedRows DEF BasicInv
      <3> QED
        BY <1>1, <1>2, <1>4, <2>4, <3>1 DEF Writes, Behind
    <2>5. NeedsModel(r, FinalAnswers(i)[r]) => attempts'[r] # <<>>
      BY <1>4 DEF ForModel
    <2> QED
      BY <2>3, <2>4, <2>5
  <1>6. Onward
    BY <1>1, <1>3, <1>4, <1>5 DEF Onward
  <1>7. Behind(work[i])'
    BY <1>1 DEF Behind
  <1>8. FinalIsComplete'
    BY <1>1, <1>5 DEF FinalIsComplete
  <1> QED
    BY <1>1, <1>6, <1>7, <1>8, StillBehind

LEMMA OverrideOnward ==
  ASSUME BasicInv, ViewsBehind, FinalIsComplete, NEW i \in Workers, CommitOverride(i)
  PROVE  ViewsBehind' /\ FinalIsComplete'
  <1> DEFINE old == work[i].view.resp
             q == work[i].r
             s == Recalculated(work[i].view.sub, OverrideRows(i))
  <1>1. /\ BasicInv' /\ old \in [Responses -> RowType] /\ work[i].view.sub \in SubType /\ q \in Responses
        /\ OverrideRows(i) \in [Responses -> RowType]
        /\ OverrideRows(i)[q] = Scored(old[q])
        /\ \A r \in Responses \ {q} : OverrideRows(i)[r] = old[r]
        /\ Writes(i, OverrideRows(i), s)
        /\ work'[i] = Idle /\ Others(i) /\ UNCHANGED <<mode, attempts>>
    BY OverrideWrites
  <1>2. OverrideRows(i)[q].status = "GRADED" /\ OverrideRows(i)[q].method # "NONE"
    BY <1>1, ScoredRow
  <1>3. s.status = work[i].view.sub.status
    BY <1>1, RecalculatedSub
  <1> HIDE DEF s
  <1>4. /\ \A r \in Responses \ {q} : resp'[r].status = resp[r].status /\ resp'[r].method = resp[r].method
        /\ resp'[q].status \in {"GRADED", resp[q].status} /\ (resp[q].method # "NONE" => resp'[q].method # "NONE")
        /\ sub'.status = sub.status
    BY <1>1, <1>2, <1>3 DEF Writes
  <1> HIDE DEF q, old
  <1>5. Onward
    BY <1>1, <1>4 DEF Onward
  <1>6. Behind(work[i])'
    BY <1>1, IdleWork DEF Behind
  <1> QED
    BY <1>1, <1>4, <1>5, <1>6, StillBehind, StillComplete

LEMMA RetryOnward ==
  ASSUME BasicInv, ViewsBehind, FinalIsComplete, NEW i \in Workers, CommitRetry(i)
  PROVE  ViewsBehind' /\ FinalIsComplete'
  <1> DEFINE old == work[i].view.resp
             q == work[i].r
             s == Recalculated(work[i].view.sub, RetryRows(i))
  <1>1. /\ BasicInv' /\ old \in [Responses -> RowType] /\ work[i].view.sub \in SubType /\ q \in Responses
        /\ RetryRows(i) \in [Responses -> RowType]
        /\ RetryRows(i)[q] = RetryRow(old[q])
        /\ \A r \in Responses \ {q} : RetryRows(i)[r] = old[r]
        /\ Writes(i, RetryRows(i), s)
        /\ attempts' = WithAttempts({q})
        /\ ~Loaded(work'[i]) /\ ~Scoring(work'[i]) /\ Others(i) /\ UNCHANGED mode
    BY RetryWrites
  <1>2. RetryRows(i)[q].status \in {"PENDING", old[q].status} /\ RetryRows(i)[q].method = old[q].method
    <2>1. old[q] \in RowType
      BY <1>1
    <2>2. RetryRow(old[q]).status \in {"PENDING", old[q].status} /\ RetryRow(old[q]).method = old[q].method
      BY <2>1, ReopenedRow DEF RetryRow
    <2> QED
      BY <1>1, <2>2
  <1>3. s.status = work[i].view.sub.status
    BY <1>1, RecalculatedSub
  <1> HIDE DEF s
  <1>4. /\ \A r \in Responses \ {q} : resp'[r].status = resp[r].status /\ resp'[r].method = resp[r].method
        /\ resp'[q].status \in {"PENDING", resp[q].status} /\ resp'[q].method = resp[q].method
        /\ sub'.status = sub.status
    BY <1>1, <1>2, <1>3 DEF Writes
  <1>5. \A r \in Responses : attempts[r] # <<>> \/ r = q => attempts'[r] # <<>>
    BY <1>1, AttemptsAdded DEF BasicInv
  <1> HIDE DEF q, old
  <1>6. Onward
    BY <1>1, <1>4, <1>5 DEF Onward
  <1>7. Behind(work[i])'
    BY <1>1 DEF Behind
  <1> QED
    BY <1>1, <1>4, <1>6, <1>7, StillBehind, StillComplete

LEMMA GradeOnward ==
  ASSUME BasicInv, ViewsBehind, FinalIsComplete, NEW i \in Workers, CommitGrade(i)
  PROVE  ViewsBehind' /\ FinalIsComplete'
  <1> DEFINE old == work[i].view.resp
             q == work[i].r
  <1>1. /\ BasicInv' /\ old \in [Responses -> RowType] /\ q \in Responses
        /\ RunRows(i)[q] = RunRow(old[q])
        /\ \A r \in Responses \ {q} : RunRows(i)[r] = old[r]
        /\ Writes(i, RunRows(i), work[i].view.sub)
        /\ attempts' = [attempts EXCEPT ![q][Max(Waiting(work[i].view.attempts[q]))] = "RUNNING"]
        /\ work'[i].op = "grade" /\ work'[i].at = "asking" /\ work'[i].r = q
        /\ Others(i) /\ UNCHANGED mode
    BY GradeWrites
  <1>2. RunRows(i)[q].status \in {"RUNNING", old[q].status} /\ RunRows(i)[q].method = old[q].method
    BY <1>1 DEF RunRow
  <1>3. /\ \A r \in Responses \ {q} : resp'[r].status = resp[r].status /\ resp'[r].method = resp[r].method
        /\ resp'[q].status \in {"RUNNING", resp[q].status} /\ resp'[q].method = resp[q].method
        /\ sub'.status = sub.status
    BY <1>1, <1>2 DEF Writes
  <1>4. \A r \in Responses : attempts[r] # <<>> => attempts'[r] # <<>>
    <2>1. "RUNNING" \in AttemptStatus
      BY DEF AttemptStatus
    <2> QED
      BY <1>1, <2>1, AttemptMarked DEF BasicInv
  <1>5. attempts[q] # <<>>
    BY DEF CommitGrade, Committing, ViewsBehind, Behind, Loaded
  <1>6. attempts'[q] # <<>>
    BY <1>1, <1>4, <1>5
  <1> HIDE DEF q, old
  <1>7. Onward
    BY <1>1, <1>3, <1>4, <1>6 DEF Onward
  <1>8. Behind(work[i])'
    BY <1>1, <1>6 DEF Behind, Loaded
  <1> QED
    BY <1>1, <1>3, <1>7, <1>8, StillBehind, StillComplete

LEMMA ResultOnward ==
  ASSUME BasicInv, ViewsBehind, FinalIsComplete, NEW i \in Workers, CommitResult(i)
  PROVE  ViewsBehind' /\ FinalIsComplete'
  <1> DEFINE old == work[i].view.resp
             q == work[i].r
             s == Recalculated(work[i].view.sub, ResultRows(i))
  <1>1. /\ BasicInv' /\ old \in [Responses -> RowType] /\ work[i].view.sub \in SubType /\ q \in Responses
        /\ work[i].result \in Answers \union {"FAILED"}
        /\ ResultRows(i) \in [Responses -> RowType]
        /\ ResultRows(i)[q] = GradedRow(old[q], work[i].result)
        /\ \A r \in Responses \ {q} : ResultRows(i)[r] = old[r]
        /\ Writes(i, ResultRows(i), s)
        /\ attempts' = [attempts EXCEPT ![q][Last(i)] = Closed(i)]
        /\ Last(i) \in DOMAIN attempts[q] => Closed(i) \in AttemptStatus
        /\ work'[i] = Idle /\ Others(i) /\ UNCHANGED mode
    BY ResultWrites
  <1>2. /\ ResultRows(i)[q].method # "NONE" \/ old[q].method = "NONE"
        /\ ResultRows(i)[q].status # "NOT_STARTED" \/ old[q].status = "NOT_STARTED"
    BY <1>1, GradedRows
  <1>3. s.status = work[i].view.sub.status
    BY <1>1, RecalculatedSub
  <1> HIDE DEF s
  <1>4. /\ \A r \in Responses \ {q} : resp'[r].status = resp[r].status /\ resp'[r].method = resp[r].method
        /\ resp[q].status # "NOT_STARTED" => resp'[q].status # "NOT_STARTED"
        /\ resp[q].method # "NONE" => resp'[q].method # "NONE"
        /\ sub'.status = sub.status
    BY <1>1, <1>2, <1>3 DEF Writes
  <1>5. \A r \in Responses : attempts[r] # <<>> => attempts'[r] # <<>>
    BY <1>1, AttemptMarked DEF BasicInv
  <1>6. attempts'[q] # <<>>
    <2>1. attempts[q] # <<>>
      BY DEF CommitResult, Committing, ViewsBehind, Behind, Scoring
    <2> QED
      BY <1>1, <1>5, <2>1
  <1> HIDE DEF q, old
  <1>7. Onward
    BY <1>1, <1>4, <1>5, <1>6 DEF Onward
  <1>8. Behind(work[i])'
    BY <1>1, IdleWork DEF Behind
  <1> QED
    BY <1>1, <1>4, <1>7, <1>8, StillBehind, StillComplete

LEMMA WaitingAttempt ==
  ASSUME NEW as, Waiting(as) # {}
  PROVE  as # <<>>
  <1>1. PICK k : k \in DOMAIN as
    BY DEF Waiting
  <1>2. DOMAIN <<>> = {}
    OBVIOUS
  <1> QED
    BY <1>1, <1>2

LEMMA QuietOnward ==
  ASSUME BasicInv, BasicInv', ViewsBehind, FinalIsComplete, RowsStay,
         \/ \E i \in Workers : \E op, r : Begins(i, op, r)
         \/ \E i \in Workers : Asked(i) \/ Reloaded(i) \/ Ended(i)
         \/ Stopped
  PROVE  ViewsBehind' /\ FinalIsComplete'
  <1>1. Onward
    BY DEF RowsStay, Onward
  <1>2. FinalIsComplete'
    BY <1>1, StillComplete DEF RowsStay
  <1>3. ASSUME NEW i \in Workers, NEW op, NEW r, Begins(i, op, r)
        PROVE  ViewsBehind'
    <2>1. /\ Loaded(work'[i]) /\ ~Scoring(work'[i]) /\ Others(i)
          /\ work'[i].op = op /\ work'[i].r = r /\ work'[i].view = Snapshot
      BY <1>3 DEF Begins, Begun
    <2>2. op = "grade" => attempts[r] # <<>>
      BY <1>3, WaitingAttempt DEF Begins, Gradable
    <2>3. Behind(work[i])'
      BY <2>1, <2>2 DEF RowsStay, Behind, Snapshot
    <2> QED
      BY <1>1, <2>1, <2>3, StillBehind
  <1>4. ASSUME NEW i \in Workers, Asked(i)
        PROVE  ViewsBehind'
    <2>1. Behind(work[i])'
      BY <1>4 DEF Asked, RowsStay, ViewsBehind, Behind
    <2> QED
      BY <1>1, <1>4, <2>1, StillBehind DEF Asked
  <1>5. ASSUME NEW i \in Workers, Reloaded(i)
        PROVE  ViewsBehind'
    <2>1. attempts[work[i].r] # <<>>
      BY <1>5 DEF Reloaded, ViewsBehind, Behind
    <2>2. Behind(work[i])'
      BY <1>5, <2>1 DEF Reloaded, RowsStay, Behind, Snapshot
    <2> QED
      BY <1>1, <1>5, <2>2, StillBehind DEF Reloaded
  <1>6. ASSUME NEW i \in Workers, Ended(i)
        PROVE  ViewsBehind'
    <2>1. Behind(work[i])'
      BY <1>6, IdleWork DEF Ended, Behind
    <2> QED
      BY <1>1, <1>6, <2>1, StillBehind DEF Ended
  <1>7. ASSUME Stopped
        PROVE  ViewsBehind'
    <2>1. CASE \A i \in Workers : work'[i] = Idle
      BY <2>1, IdleWork DEF ViewsBehind, Behind
    <2>2. CASE work' = work
      BY <2>2 DEF RowsStay, ViewsBehind, Behind
    <2> QED
      BY <1>7, <2>1, <2>2 DEF Stopped
  <1> QED
    BY <1>2, <1>3, <1>4, <1>5, <1>6, <1>7

\* Whatever overlaps, retried or lost by a stop, a submission is final only
\* with every answer graded, waiting for review, or in the hands of an attempt.
THEOREM FinalNeverIncomplete == Spec => []FinalIsComplete
  <1> DEFINE Inv == BasicInv /\ ViewsBehind /\ FinalIsComplete
  <1>1. Init => Inv
    BY InitBasic, IdleWork DEF Init, ViewsBehind, Behind, FinalIsComplete, Final
  <1>2. Inv /\ [Next]_vars => Inv'
    <2> SUFFICES ASSUME Inv, [Next]_vars
                 PROVE  Inv'
      OBVIOUS
    <2>1. /\ BasicInv'
          /\ \/ \E i \in Workers : Writing(i)
             \/ \E i \in Workers : \E op, r : Begins(i, op, r)
             \/ \E i \in Workers : Asked(i) \/ Reloaded(i) \/ Ended(i)
             \/ Stopped
      BY StepKinds
    <2>2. ASSUME NEW i \in Workers, Writing(i)
          PROVE  ViewsBehind' /\ FinalIsComplete'
      BY <2>2, DraftOnward, FinalizeOnward, OverrideOnward, RetryOnward, GradeOnward,
         ResultOnward DEF Writing
    <2>3. CASE \/ \E i \in Workers : \E op, r : Begins(i, op, r)
               \/ \E i \in Workers : Asked(i) \/ Reloaded(i) \/ Ended(i)
               \/ Stopped
      <3>1. RowsStay
        BY <2>3 DEF Begins, Begun, Asked, Reloaded, Ended, Stopped
      <3> QED
        BY <2>1, <2>3, <3>1, QuietOnward
    <2> QED
      BY <2>1, <2>2, <2>3
  <1>3. Inv => FinalIsComplete
    OBVIOUS
  <1> QED
    BY <1>1, <1>2, <1>3, PTL DEF Spec

------------------------------------------------------------------------------
(***************************************************************************)
(* Transactions one after the other.                                       *)
(***************************************************************************)

\* What a commit starts from is what the rows are, and nothing else is loaded.
LEMMA WritingCurrent ==
  ASSUME BasicInv, ViewsCurrent, NEW i \in Workers, Writing(i)
  PROVE  /\ ViewsCurrent' /\ Others(i)
         /\ work[i].view = Snapshot /\ work[i].view.resp = resp
         /\ work[i].view.sub = sub /\ work[i].view.attempts = attempts
         /\ \A j \in Workers \ {i} : ~Loaded(work[j])
  <1>1. Loaded(work[i])
    BY DEF Writing, CommitDraft, CommitFinalize, CommitOverride, CommitRetry, CommitGrade,
       CommitResult, Committing, Loaded
  <1>2. Others(i) /\ ~Loaded(work'[i])
    <2>1. ASSUME work'[i] = Idle
          PROVE  ~Loaded(work'[i])
      BY <2>1, IdleWork
    <2>2. ASSUME work'[i].at = "asking"
          PROVE  ~Loaded(work'[i])
      BY <2>2 DEF Loaded
    <2> QED
      BY <2>1, <2>2, DraftWrites, FinalizeWrites, OverrideWrites, RetryWrites, GradeWrites,
         ResultWrites DEF Writing
  <1>3. \A j \in Workers \ {i} : ~Loaded(work[j])
    BY <1>1 DEF ViewsCurrent, OneLoaded
  <1>4. \A j \in Workers : ~Loaded(work'[j])
    BY <1>2, <1>3 DEF Others
  <1>5. ViewsCurrent'
    BY <1>4 DEF ViewsCurrent, OneLoaded, Current
  <1>6. work[i].view = Snapshot
    BY <1>1 DEF ViewsCurrent, Current
  <1> QED
    BY <1>2, <1>3, <1>5, <1>6 DEF Snapshot

LEMMA QuietCurrent ==
  ASSUME Serial, BasicInv, ViewsCurrent, RowsStay,
         \/ \E i \in Workers : \E op, r : Begins(i, op, r)
         \/ \E i \in Workers : Asked(i) \/ Reloaded(i) \/ Ended(i)
         \/ Stopped
  PROVE  ViewsCurrent'
  <1>0. ASSUME NEW i \in Workers, Current(work[i]), work'[i] = work[i]
        PROVE  Current(work[i])'
    BY <1>0 DEF RowsStay, Current, Snapshot, Gradable
  <1>1. ASSUME NEW i \in Workers, Others(i), Current(work[i])',
               ~Loaded(work'[i]) \/ \A j \in Workers \ {i} : ~Loaded(work[j])
        PROVE  ViewsCurrent'
    <2>1. \A j \in Workers \ {i} : work'[j] = work[j] /\ Current(work[j])
      BY <1>1 DEF Others, ViewsCurrent
    <2>2. \A j \in Workers : Current(work[j])'
      BY <1>0, <1>1, <2>1
    <2>3. OneLoaded'
      BY <1>1, <2>1 DEF ViewsCurrent, OneLoaded
    <2> QED
      BY <2>2, <2>3 DEF ViewsCurrent
  <1>2. ASSUME NEW i \in Workers, NEW op, NEW r, Begins(i, op, r)
        PROVE  ViewsCurrent'
    <2>1. /\ Loaded(work'[i]) /\ Others(i) /\ work'[i].op = op /\ work'[i].r = r /\ work'[i].view = Snapshot
          /\ \A j \in Workers \ {i} : ~Loaded(work[j])
      BY <1>2 DEF Begins, Begun, Serial
    <2>2. (op \in {"draft", "finalize"} => sub.status # "FINALIZED") /\ (op = "grade" => Gradable(r))
      BY <1>2 DEF Begins
    <2>3. Current(work[i])'
      BY <2>1, <2>2 DEF RowsStay, Current, Snapshot, Gradable
    <2> QED
      BY <1>1, <2>1, <2>3
  <1>3. ASSUME NEW i \in Workers, Asked(i) \/ Ended(i)
        PROVE  ViewsCurrent'
    <2>1. ~Loaded(work'[i]) /\ Others(i)
      BY <1>3, IdleWork DEF Asked, Ended
    <2>2. Current(work[i])'
      BY <2>1 DEF Current
    <2> QED
      BY <1>1, <2>1, <2>2
  <1>4. ASSUME NEW i \in Workers, Reloaded(i)
        PROVE  ViewsCurrent'
    <2>1. /\ work'[i].op = "record" /\ work'[i].view = Snapshot /\ Others(i)
          /\ \A j \in Workers \ {i} : ~Loaded(work[j])
      BY <1>4 DEF Reloaded, Serial
    <2>2. Current(work[i])'
      BY <2>1 DEF RowsStay, Current, Snapshot
    <2> QED
      BY <1>1, <2>1, <2>2
  <1>5. ASSUME Stopped
        PROVE  ViewsCurrent'
    <2>1. CASE \A i \in Workers : work'[i] = Idle
      BY <2>1, IdleWork DEF ViewsCurrent, OneLoaded, Current
    <2>2. CASE work' = work
      <3>1. \A i \in Workers : Current(work[i])'
        BY <1>0, <2>2 DEF ViewsCurrent
      <3>2. OneLoaded'
        BY <2>2 DEF ViewsCurrent, OneLoaded
      <3> QED
        BY <3>1, <3>2 DEF ViewsCurrent
    <2> QED
      BY <1>5, <2>1, <2>2 DEF Stopped
  <1> QED
    BY <1>2, <1>3, <1>4, <1>5

\* A commit that recalculates leaves a submission that agrees with its rows.
LEMMA Agreeing ==
  ASSUME NEW rs \in [Responses -> RowType], NEW s \in SubType,
         resp' = rs, sub' = Recalculated(s, rs)
  PROVE  TotalsAgree'
  <1>1. Recalculated(s, rs).status = "FINALIZED" =>
          Recalculated(s, rs).grading = Summary(rs) /\ Recalculated(s, rs).total = Total(rs)
    BY RecalculatedSub
  <1>2. Summary(resp)' = Summary(rs) /\ Total(resp)' = Total(rs)
    OBVIOUS
  <1> QED
    BY <1>1, <1>2 DEF TotalsAgree, Final

\* A job that begins changes neither: its response was pending or failed.
LEMMA RunningAgrees ==
  ASSUME BasicInv, ViewsCurrent, TotalsAgree, NEW i \in Workers, CommitGrade(i)
  PROVE  TotalsAgree'
  <1> DEFINE q == work[i].r
  <1>1. work[i].view = Snapshot /\ work[i].view.resp = resp /\ work[i].view.sub = sub
    BY WritingCurrent DEF Writing
  <1>2. /\ resp \in [Responses -> RowType] /\ q \in Responses /\ RunRows(i) \in [Responses -> RowType]
        /\ RunRows(i)[q] = RunRow(resp[q]) /\ \A r \in Responses \ {q} : RunRows(i)[r] = resp[r]
        /\ resp' = RunRows(i) /\ sub' = sub
    BY <1>1, GradeWrites DEF Writes
  <1>3. Gradable(q)
    BY DEF CommitGrade, Committing, Loaded, ViewsCurrent, Current
  <1> HIDE DEF q
  <1>4. CASE Overridden(resp[q])
    <2>1. resp' = resp
      BY <1>2, <1>4 DEF RunRow
    <2>2. Summary(resp)' = Summary(resp) /\ Total(resp)' = Total(resp)
      BY <2>1
    <2>3. sub' = sub
      BY <1>2
    <2> QED
      BY <2>2, <2>3 DEF TotalsAgree, Final
  <1>5. CASE ~Overridden(resp[q])
    <2>1. resp[q].status \in {"PENDING", "FAILED"}
      BY <1>3, <1>5 DEF Gradable
    <2>2. resp'[q].status = "RUNNING" /\ \A r \in Responses : resp'[r].effective = resp[r].effective
      <3>1. resp[q] \in RowType /\ resp'[q] = [resp[q] EXCEPT !.status = "RUNNING"]
        BY <1>2, <1>5 DEF RunRow
      <3>2. resp'[q].status = "RUNNING" /\ resp'[q].effective = resp[q].effective
        BY <3>1
      <3> QED
        BY <1>2, <3>2
    <2>3. Summary(resp) = "PENDING"
      BY <1>2, <2>1 DEF Summary
    <2>4. Summary(resp)' = "PENDING"
      BY <1>2, <2>2 DEF Summary
    <2>5. Total(resp)' = Total(resp)
      BY <2>2 DEF Total
    <2> QED
      BY <1>2, <2>3, <2>4, <2>5 DEF TotalsAgree, Final
  <1> QED
    BY <1>4, <1>5

LEMMA WritingAgrees ==
  ASSUME BasicInv, ViewsCurrent, TotalsAgree, NEW i \in Workers, Writing(i)
  PROVE  TotalsAgree'
  <1>1. /\ work[i].view = Snapshot /\ work[i].view.resp = resp /\ work[i].view.sub = sub
        /\ resp \in [Responses -> RowType] /\ sub \in SubType
    BY WritingCurrent DEF BasicInv, TypeOK
  <1>2. CASE CommitDraft(i)
    <2>1. sub' = sub
      BY <1>1, <1>2, DraftWrites DEF Writes
    <2>2. sub.status # "FINALIZED"
      BY <1>2 DEF CommitDraft, Committing, Loaded, ViewsCurrent, Current
    <2> QED
      BY <2>1, <2>2 DEF TotalsAgree, Final
  <1>3. CASE CommitFinalize(i)
    <2>1. /\ resp' = FinalRows(i) /\ sub'.grading = Summary(FinalRows(i)) /\ sub'.total = Total(FinalRows(i))
      BY <1>1, <1>3, FinalizeWrites DEF Writes
    <2>2. Summary(resp)' = Summary(FinalRows(i)) /\ Total(resp)' = Total(FinalRows(i))
      BY <2>1
    <2> QED
      BY <2>1, <2>2 DEF TotalsAgree
  <1>4. CASE CommitOverride(i)
    <2>1. OverrideRows(i) \in [Responses -> RowType] /\ resp' = OverrideRows(i)
          /\ sub' = Recalculated(sub, OverrideRows(i))
      BY <1>1, <1>4, OverrideWrites DEF Writes
    <2> QED
      BY <1>1, <2>1, Agreeing
  <1>5. CASE CommitRetry(i)
    <2>1. RetryRows(i) \in [Responses -> RowType] /\ resp' = RetryRows(i)
          /\ sub' = Recalculated(sub, RetryRows(i))
      BY <1>1, <1>5, RetryWrites DEF Writes
    <2> QED
      BY <1>1, <2>1, Agreeing
  <1>6. CASE CommitGrade(i)
    BY <1>6, RunningAgrees
  <1>7. CASE CommitResult(i)
    <2>1. ResultRows(i) \in [Responses -> RowType] /\ resp' = ResultRows(i)
          /\ sub' = Recalculated(sub, ResultRows(i))
      BY <1>1, <1>7, ResultWrites DEF Writes
    <2> QED
      BY <1>1, <2>1, Agreeing
  <1> QED
    BY <1>2, <1>3, <1>4, <1>5, <1>6, <1>7 DEF Writing

\* The total and grading status that recalculate keeps on the submission are
\* those of its responses, as long as transactions follow one another.
THEOREM TotalsKept == Serial => (Spec => []TotalsAgree)
  <1> SUFFICES ASSUME Serial PROVE Spec => []TotalsAgree
    OBVIOUS
  <1>1. Init => SerialInv
    BY InitBasic, IdleWork DEF Init, SerialInv, ViewsCurrent, OneLoaded, Current,
       TotalsAgree, Final
  <1>2. SerialInv /\ [Next]_vars => SerialInv'
    <2> SUFFICES ASSUME SerialInv, [Next]_vars
                 PROVE  SerialInv'
      OBVIOUS
    <2>1. /\ BasicInv /\ ViewsCurrent /\ TotalsAgree
          /\ BasicInv'
          /\ \/ \E i \in Workers : Writing(i)
             \/ \E i \in Workers : \E op, r : Begins(i, op, r)
             \/ \E i \in Workers : Asked(i) \/ Reloaded(i) \/ Ended(i)
             \/ Stopped
      BY StepKinds DEF SerialInv
    <2>2. ASSUME NEW i \in Workers, Writing(i)
          PROVE  ViewsCurrent' /\ TotalsAgree'
      BY <2>1, <2>2, WritingCurrent, WritingAgrees
    <2>3. CASE \/ \E i \in Workers : \E op, r : Begins(i, op, r)
               \/ \E i \in Workers : Asked(i) \/ Reloaded(i) \/ Ended(i)
               \/ Stopped
      <3>1. RowsStay
        BY <2>3 DEF Begins, Begun, Asked, Reloaded, Ended, Stopped
      <3>2. TotalsAgree'
        BY <2>1, <3>1 DEF RowsStay, TotalsAgree, Final
      <3> QED
        BY <2>1, <2>3, <3>1, <3>2, QuietCurrent DEF SerialInv
    <2> QED
      BY <2>1, <2>2, <2>3 DEF SerialInv
  <1>3. SerialInv => TotalsAgree
    BY DEF SerialInv
  <1> QED
    BY <1>1, <1>2, <1>3, PTL DEF Spec

------------------------------------------------------------------------------
(***************************************************************************)
(* One after the other, and only what was handed in is graded.             *)
(***************************************************************************)

LEMMA Appended ==
  ASSUME NEW as \in Seq(AttemptStatus), NEW p \in AttemptStatus
  PROVE  /\ Append(as, p) \in Seq(AttemptStatus) /\ Len(Append(as, p)) = Len(as) + 1
         /\ \A j \in 1..Len(as) : Append(as, p)[j] = as[j]
         /\ Append(as, p)[Len(as) + 1] = p
  <1>1. Append(as, p) \in Seq(AttemptStatus)
    BY AppendProperties
  <1>2. Len(Append(as, p)) = Len(as) + 1
    OBVIOUS
  <1>3. \A j \in 1..Len(as) : Append(as, p)[j] = as[j]
    OBVIOUS
  <1>4. Append(as, p)[Len(as) + 1] = p
    BY AppendProperties
  <1> QED
    BY <1>1, <1>2, <1>3, <1>4

\* Which attempts are open after one is added, begun or closed.
LEMMA AddedOpen ==
  ASSUME NEW as \in Seq(AttemptStatus), Active(as) = {}
  PROVE  Active(Append(as, "PENDING")) = {Len(Append(as, "PENDING"))}
  <1>1. "PENDING" \in AttemptStatus
    BY DEF AttemptStatus
  <1>2. /\ Append(as, "PENDING") \in Seq(AttemptStatus) /\ Len(Append(as, "PENDING")) = Len(as) + 1
        /\ \A j \in 1..Len(as) : Append(as, "PENDING")[j] = as[j]
        /\ Append(as, "PENDING")[Len(as) + 1] = "PENDING"
    BY <1>1, Appended
  <1> DEFINE bs == Append(as, "PENDING")
             n == Len(as)
  <1>3. n \in Nat /\ DOMAIN as = 1..n /\ DOMAIN bs = 1..(n + 1)
    BY <1>2, LenProperties
  <1> HIDE DEF n
  <1>4. \A j \in 1..n : bs[j] \notin {"PENDING", "RUNNING"}
    BY <1>2, <1>3 DEF Active, n
  <1>5. bs[n + 1] = "PENDING" /\ Len(bs) = n + 1
    BY <1>2 DEF n
  <1> HIDE DEF bs
  <1>6. Active(bs) \subseteq {n + 1}
    BY <1>3, <1>4 DEF Active
  <1>7. n + 1 \in Active(bs)
    BY <1>3, <1>5 DEF Active
  <1> QED
    BY <1>5, <1>6, <1>7 DEF bs

LEMMA LastWaits ==
  ASSUME NEW as \in Seq(AttemptStatus), Active(as) \subseteq {Len(as)}, Waiting(as) # {}
  PROVE  Max(Waiting(as)) = Len(as) /\ Len(as) \in 1..Len(as) /\ Len(as) \in Nat
  <1> DEFINE n == Len(as)
  <1>1. n \in Nat /\ DOMAIN as = 1..n
    BY LenProperties
  <1>2. Waiting(as) \subseteq Active(as)
    BY DEF Waiting, Active
  <1> HIDE DEF n
  <1>3. Waiting(as) = {n}
    BY <1>2 DEF n
  <1>4. n \in 1..n
    BY <1>1, <1>3 DEF Waiting
  <1>5. Max({n}) = n
    BY <1>1 DEF Max
  <1> QED
    BY <1>1, <1>3, <1>4, <1>5 DEF n

LEMMA MarkedOpen ==
  ASSUME NEW as \in Seq(AttemptStatus), NEW bs \in Seq(AttemptStatus), Active(as) \subseteq {Len(as)},
         Len(as) \in 1..Len(as), Len(bs) = Len(as), \A j \in 1..Len(as) : j # Len(as) => bs[j] = as[j]
  PROVE  /\ bs[Len(as)] = "RUNNING" => Active(bs) = {Len(bs)}
         /\ bs[Len(as)] \in {"GRADED", "FAILED"} => Active(bs) = {}
  <1> DEFINE n == Len(as)
  <1>1. n \in Nat /\ DOMAIN as = 1..n /\ DOMAIN bs = 1..n
    BY LenProperties
  <1> HIDE DEF n
  <1>2. \A j \in 1..n : j # n => bs[j] \notin {"PENDING", "RUNNING"}
    BY <1>1 DEF Active, n
  <1>3. n \in 1..n /\ Len(bs) = n
    BY DEF n
  <1>4. /\ bs[n] = "RUNNING" => Active(bs) = {n}
        /\ bs[n] \in {"GRADED", "FAILED"} => Active(bs) = {}
    BY <1>1, <1>2, <1>3 DEF Active
  <1> QED
    BY <1>3, <1>4

\* The requests and jobs that do not write.
LEMMA StillInTurn ==
  ASSUME BasicInv, ViewsCurrent, WorkInTurn, NEW i \in Workers, Writing(i), InTurnOf(work[i])',
         sub.status = "FINALIZED" =>
           /\ sub'.status = "FINALIZED"
           /\ \A r \in Responses : /\ resp'[r].answer = resp[r].answer
                                   /\ attempts[r] # <<>> => attempts'[r] # <<>>
  PROVE  WorkInTurn'
  <1> SUFFICES ASSUME NEW j \in Workers, j # i
               PROVE  InTurnOf(work[j])'
    BY DEF WorkInTurn
  <1>1. work'[j] = work[j] /\ ~Loaded(work[j])
    BY WritingCurrent DEF Others
  <1>2. InTurnOf(work[j]) /\ Shaped(work[j])
    BY DEF WorkInTurn, BasicInv, WorkShape
  <1>3. CASE ~Scoring(work[j])
    BY <1>1, <1>3 DEF InTurnOf, Scoring
  <1>4. CASE Scoring(work[j])
    <2>1. sub.status = "FINALIZED" /\ work[j].r \in Responses /\ attempts[work[j].r] # <<>>
      BY <1>2, <1>4 DEF InTurnOf, Shaped
    <2> QED
      BY <1>1, <1>2, <1>4, <2>1 DEF InTurnOf
  <1> QED
    BY <1>3, <1>4

LEMMA DoneInTurn ==
  ASSUME NEW w, ~Loaded(w), ~Scoring(w)
  PROVE  InTurnOf(w)
  BY DEF InTurnOf, Scoring

\* A response that a commit leaves alone.
LEMMA RowStays ==
  ASSUME NEW r \in Responses, RowInTurn(r), resp'[r] = resp[r], attempts'[r] = attempts[r],
         mode' = mode, sub'.status = sub.status
  PROVE  RowInTurn(r)'
  BY DEF RowInTurn

ScoresKept == \A r \in Responses : resp[r].effective = "ADMIN" => resp'[r].effective = "ADMIN"

LEMMA DraftInTurn ==
  ASSUME TurnInv, NEW i \in Workers, CommitDraft(i)
  PROVE  DraftsUnscored' /\ WorkInTurn' /\ RowsInTurn' /\ ScoresKept
  <1>1. BasicInv /\ ViewsCurrent /\ DraftsUnscored /\ WorkInTurn /\ RowsInTurn /\ Writing(i)
    BY DEF TurnInv, Writing
  <1>2. work[i].view = Snapshot /\ work[i].view.resp = resp /\ work[i].view.sub = sub
    BY <1>1, WritingCurrent
  <1>3. sub.status # "FINALIZED"
    BY <1>1 DEF CommitDraft, Committing, Loaded, ViewsCurrent, Current
  <1>4. /\ \A r \in Responses : /\ resp'[r].status = resp[r].status
                                /\ resp'[r].method = resp[r].method
                                /\ resp'[r].generated = resp[r].generated
                                /\ resp'[r].effective = resp[r].effective
        /\ sub' = sub /\ work'[i] = Idle /\ UNCHANGED <<mode, attempts>>
    BY <1>1, <1>2, DraftWrites DEF Writes
  <1>5. DraftsUnscored'
    BY <1>1, <1>3, <1>4 DEF DraftsUnscored, Unscored
  <1>6. RowsInTurn'
    BY <1>1, <1>3, <1>4 DEF RowsInTurn, RowInTurn
  <1>7. InTurnOf(work[i])'
    BY <1>4 DEF InTurnOf, Loaded, Scoring, Idle
  <1>8. WorkInTurn'
    BY <1>1, <1>3, <1>7, StillInTurn
  <1> QED
    BY <1>4, <1>5, <1>6, <1>8 DEF ScoresKept

LEMMA FinalizeInTurn ==
  ASSUME TurnInv, NEW i \in Workers, CommitFinalize(i)
  PROVE  DraftsUnscored' /\ WorkInTurn' /\ RowsInTurn' /\ ScoresKept
  <1>1. BasicInv /\ ViewsCurrent /\ DraftsUnscored /\ WorkInTurn /\ RowsInTurn /\ Writing(i) /\ TypeOK
    BY DEF TurnInv, Writing, BasicInv
  <1>2. /\ work[i].view = Snapshot /\ work[i].view.resp = resp /\ work[i].view.sub = sub
        /\ work[i].form \in Forms \union {<<>>} /\ resp \in [Responses -> RowType]
    BY <1>1, WritingCurrent DEF TypeOK, WorkType
  <1>3. sub.status # "FINALIZED"
    BY <1>1 DEF CommitFinalize, Committing, Loaded, ViewsCurrent, Current
  <1>4. /\ resp' = FinalRows(i) /\ sub' = FinalSub(i) /\ FinalSub(i).status = "FINALIZED"
        /\ FinalAnswers(i) \in [Responses -> RowType]
        /\ attempts' = WithAttempts(ForModel(i)) /\ mode' = mode
        /\ ~Loaded(work'[i]) /\ ~Scoring(work'[i])
    BY <1>1, <1>2, FinalizeWrites DEF Writes
  <1>5. \A r \in Responses : attempts[r] = <<>> /\ Unscored(resp[r])
    BY <1>1, <1>3 DEF DraftsUnscored
  <1>6. ASSUME NEW r \in Responses
        PROVE  RowInTurn(r)' /\ resp[r].effective # "ADMIN"
    <2> DEFINE row == FinalAnswers(i)[r]
    <2>1. row \in RowType /\ resp'[r] = FinalizedRow(r, row) /\ mode[r] \in Modes
      BY <1>1, <1>4, GradingAssumption DEF FinalRows, TypeOK
    <2>2. row.effective = "NONE" /\ row.status = "NOT_STARTED"
      BY <1>2, <1>5, AnsweredRows DEF FinalAnswers, Unscored
    <2>3. row.answer \in Answers
      BY <2>1 DEF RowType
    <2>4. r \in ForModel(i) <=> NeedsModel(r, row)
      BY DEF ForModel
    <2> HIDE DEF row
    <2>5. /\ resp'[r].answer = row.answer /\ resp'[r].method = mode[r]
          /\ NeedsModel(r, row) => resp'[r].status = "PENDING" /\ resp'[r].effective = "NONE"
          /\ mode[r] = "MANUAL" => resp'[r].status = "AWAITING_REVIEW" /\ resp'[r].effective = "NONE"
          /\ mode[r] # "MANUAL" /\ ~NeedsModel(r, row) =>
               resp'[r].status = "GRADED" /\ resp'[r].effective = row.answer
      BY <1>1, <2>1, <2>2, FinalizedRows
    <2>6. CASE NeedsModel(r, row)
      <3>1. attempts'[r] = Append(<<>>, "PENDING") /\ mode[r] = "LLM_ASSISTED"
        BY <1>1, <1>4, <1>5, <2>4, <2>6, AttemptsAdded DEF NeedsModel
      <3>2. Active(<<>>) = {} /\ <<>> \in Seq(AttemptStatus)
        BY DEF Active
      <3>3. Active(attempts'[r]) = {Len(attempts'[r])}
        BY <3>1, <3>2, AddedOpen
      <3> QED
        BY <1>4, <1>5, <2>5, <2>6, <3>1, <3>3 DEF RowInTurn, Unscored
    <2>7. CASE ~NeedsModel(r, row)
      <3>1. attempts'[r] = <<>> /\ Active(<<>>) = {}
        BY <1>1, <1>4, <1>5, <2>4, <2>7, AttemptsAdded DEF Active
      <3> QED
        BY <1>4, <1>5, <2>1, <2>3, <2>5, <2>7, <3>1 DEF RowInTurn, Unscored, Modes, Answers
    <2> QED
      BY <2>6, <2>7
  <1>7. InTurnOf(work[i])'
    BY <1>1, <1>4 DEF InTurnOf, Scoring
  <1>8. WorkInTurn'
    BY <1>1, <1>3, <1>7, StillInTurn
  <1>9. DraftsUnscored'
    BY <1>4 DEF DraftsUnscored
  <1> QED
    BY <1>6, <1>8, <1>9 DEF ScoresKept, RowsInTurn

LEMMA OverrideInTurn ==
  ASSUME TurnInv, NEW i \in Workers, CommitOverride(i)
  PROVE  DraftsUnscored' /\ WorkInTurn' /\ RowsInTurn' /\ ScoresKept
  <1>0. PICK q : q = work[i].r
    OBVIOUS
  <1>1. BasicInv /\ ViewsCurrent /\ DraftsUnscored /\ WorkInTurn /\ RowsInTurn /\ Writing(i)
    BY DEF TurnInv, Writing
  <1>2. /\ work[i].view = Snapshot /\ work[i].view.resp = resp /\ work[i].view.sub = sub
        /\ resp \in [Responses -> RowType] /\ sub \in SubType
    BY <1>1, WritingCurrent DEF BasicInv, TypeOK
  <1>3. /\ OverrideRows(i) \in [Responses -> RowType] /\ q \in Responses
        /\ resp' = OverrideRows(i) /\ sub' = Recalculated(sub, OverrideRows(i))
        /\ resp'[q] = Scored(resp[q]) /\ \A r \in Responses \ {q} : resp'[r] = resp[r]
        /\ work'[i] = Idle /\ UNCHANGED <<mode, attempts>>
    BY <1>0, <1>1, <1>2, OverrideWrites DEF Writes
  <1>4. sub'.status = sub.status
    BY <1>2, <1>3, RecalculatedSub
  <1>5. sub.status = "FINALIZED"
    BY <1>0, <1>1 DEF CommitOverride, Committing, WorkInTurn, InTurnOf, Loaded
  <1>6. /\ resp'[q].effective = "ADMIN" /\ resp'[q].status = "GRADED" /\ resp'[q].answer = resp[q].answer
        /\ resp[q].status # "AWAITING_REVIEW" => resp'[q].method = "ADMIN_OVERRIDE"
    BY <1>2, <1>3, ScoredRow
  <1>7. RowInTurn(q)'
    <2>1. RowInTurn(q)
      BY <1>1, <1>3 DEF RowsInTurn
    <2> QED
      BY <1>3, <1>6, <2>1 DEF RowInTurn
  <1>8. RowsInTurn'
    <2>1. ASSUME NEW r \in Responses, r # q
          PROVE  RowInTurn(r)'
      BY <1>1, <1>3, <1>4, <2>1, RowStays DEF RowsInTurn
    <2> QED
      BY <1>7, <2>1 DEF RowsInTurn
  <1>9. InTurnOf(work[i])'
    BY <1>3 DEF InTurnOf, Loaded, Scoring, Idle
  <1>10. \A r \in Responses : resp'[r].answer = resp[r].answer
    BY <1>3, <1>6
  <1>11. WorkInTurn'
    BY <1>1, <1>3, <1>4, <1>9, <1>10, StillInTurn
  <1>12. DraftsUnscored'
    BY <1>4, <1>5 DEF DraftsUnscored
  <1>13. ScoresKept
    BY <1>3, <1>6 DEF ScoresKept
  <1> QED
    BY <1>8, <1>11, <1>12, <1>13

LEMMA RetryInTurn ==
  ASSUME TurnInv, NEW i \in Workers, CommitRetry(i)
  PROVE  DraftsUnscored' /\ WorkInTurn' /\ RowsInTurn' /\ ScoresKept
  <1>0. PICK q : q = work[i].r
    OBVIOUS
  <1>1. BasicInv /\ ViewsCurrent /\ DraftsUnscored /\ WorkInTurn /\ RowsInTurn /\ Writing(i) /\ TypeOK
    BY DEF TurnInv, Writing, BasicInv
  <1>2. /\ work[i].view = Snapshot /\ work[i].view.resp = resp /\ work[i].view.sub = sub
        /\ resp \in [Responses -> RowType] /\ sub \in SubType
    BY <1>1, WritingCurrent DEF TypeOK
  <1>3. /\ RetryRows(i) \in [Responses -> RowType] /\ q \in Responses
        /\ resp' = RetryRows(i) /\ sub' = Recalculated(sub, RetryRows(i))
        /\ resp'[q] = RetryRow(resp[q]) /\ \A r \in Responses \ {q} : resp'[r] = resp[r]
        /\ attempts' = WithAttempts({q}) /\ mode' = mode
        /\ ~Loaded(work'[i]) /\ ~Scoring(work'[i])
    <2> DEFINE graded == RetryRows(i)
               part == Recalculated(sub, graded)
    <2>1. /\ graded \in [Responses -> RowType] /\ q \in Responses
          /\ graded[q] = RetryRow(resp[q]) /\ \A r \in Responses \ {q} : graded[r] = resp[r]
          /\ Writes(i, graded, part)
          /\ attempts' = WithAttempts({q}) /\ mode' = mode
          /\ ~Loaded(work'[i]) /\ ~Scoring(work'[i])
      BY <1>0, <1>1, <1>2, RetryWrites
    <2> HIDE DEF graded, part
    <2>2. resp' = graded /\ sub' = part
      BY <1>2, <2>1 DEF Writes
    <2> QED
      BY <2>1, <2>2 DEF graded, part
  <1>4. sub'.status = sub.status
    BY <1>2, <1>3, RecalculatedSub
  <1>5. sub.status = "FINALIZED" /\ mode[q] = "LLM_ASSISTED" /\ Active(attempts[q]) = {}
    BY <1>0, <1>1 DEF CommitRetry, Committing, WorkInTurn, InTurnOf, Loaded
  <1>6. /\ \A r \in Responses \ {q} : attempts'[r] = attempts[r]
        /\ \A r \in Responses : attempts[r] # <<>> => attempts'[r] # <<>>
        /\ attempts'[q] = Append(attempts[q], "PENDING")
    BY <1>1, <1>3, AttemptsAdded
  <1>7. Active(attempts'[q]) = {Len(attempts'[q])}
    <2>1. attempts[q] \in Seq(AttemptStatus)
      BY <1>1, <1>3 DEF TypeOK, AttemptsType, AttemptStatus
    <2> QED
      BY <1>5, <1>6, <2>1, AddedOpen
  <1>8. RowInTurn(q) /\ resp[q] \in RowType
    BY <1>1, <1>2, <1>3 DEF RowsInTurn
  <1>9. \/ Overridden(resp[q]) /\ resp'[q] = resp[q]
        \/ /\ ~Overridden(resp[q]) /\ resp'[q].effective = "NONE" /\ resp'[q].status = "PENDING"
           /\ resp'[q].answer = resp[q].answer /\ resp'[q].method = resp[q].method
    BY <1>3, <1>8, ReopenedRow DEF RetryRow
  <1>10. RowInTurn(q)'
    BY <1>3, <1>4, <1>5, <1>7, <1>8, <1>9 DEF RowInTurn, Overridden
  <1>11. RowsInTurn'
    <2>1. ASSUME NEW r \in Responses, r # q
          PROVE  RowInTurn(r)'
      BY <1>1, <1>3, <1>4, <1>6, <2>1, RowStays DEF RowsInTurn
    <2> QED
      BY <1>10, <2>1 DEF RowsInTurn
  <1>12. InTurnOf(work[i])'
    BY <1>3 DEF InTurnOf, Scoring
  <1>13. \A r \in Responses : resp'[r].answer = resp[r].answer
    BY <1>3, <1>9
  <1>14. WorkInTurn'
    BY <1>1, <1>4, <1>6, <1>12, <1>13, StillInTurn
  <1>15. DraftsUnscored'
    BY <1>4, <1>5 DEF DraftsUnscored
  <1>16. ScoresKept
    <2>1. resp[q].effective = "ADMIN" => Overridden(resp[q])
      BY <1>5, <1>8 DEF RowInTurn, Overridden
    <2> QED
      BY <1>3, <1>9, <2>1 DEF ScoresKept
  <1> QED
    BY <1>11, <1>14, <1>15, <1>16

LEMMA GradeInTurn ==
  ASSUME TurnInv, NEW i \in Workers, CommitGrade(i)
  PROVE  DraftsUnscored' /\ WorkInTurn' /\ RowsInTurn' /\ ScoresKept
  <1>0. PICK q : q = work[i].r
    OBVIOUS
  <1> DEFINE as == attempts[q]
  <1>1. BasicInv /\ ViewsCurrent /\ DraftsUnscored /\ WorkInTurn /\ RowsInTurn /\ Writing(i) /\ TypeOK
    BY DEF TurnInv, Writing, BasicInv
  <1>2. /\ work[i].view = Snapshot /\ work[i].view.resp = resp /\ work[i].view.sub = sub
        /\ work[i].view.attempts = attempts /\ resp \in [Responses -> RowType]
    BY <1>1, WritingCurrent DEF TypeOK
  <1>3. /\ q \in Responses /\ resp' = RunRows(i) /\ sub' = sub
        /\ resp'[q] = RunRow(resp[q]) /\ \A r \in Responses \ {q} : resp'[r] = resp[r]
        /\ attempts' = [attempts EXCEPT ![q][Max(Waiting(as))] = "RUNNING"] /\ mode' = mode
        /\ work'[i].op = "grade" /\ work'[i].at = "asking" /\ work'[i].r = q
    BY <1>0, <1>1, <1>2, GradeWrites DEF Writes
  <1>4. sub.status = "FINALIZED" /\ Gradable(q)
    BY <1>0, <1>1 DEF CommitGrade, Committing, WorkInTurn, InTurnOf, ViewsCurrent, Current,
       Loaded
  <1>5. RowInTurn(q) /\ resp[q] \in RowType /\ as \in Seq(AttemptStatus) /\ Waiting(as) # {}
    BY <1>1, <1>2, <1>3, <1>4 DEF RowsInTurn, Gradable, TypeOK, AttemptsType, AttemptStatus
  <1>6. Active(as) \subseteq {Len(as)} /\ Max(Waiting(as)) = Len(as) /\ Len(as) \in 1..Len(as)
    BY <1>5, LastWaits DEF RowInTurn
  <1>7. as # <<>> /\ mode[q] = "LLM_ASSISTED"
    BY <1>5, WaitingAttempt DEF RowInTurn
  <1>8. /\ attempts' \in AttemptsType /\ Len(attempts'[q]) = Len(as)
        /\ \A r \in Responses : attempts[r] # <<>> => attempts'[r] # <<>>
        /\ \A r \in Responses \ {q} : attempts'[r] = attempts[r]
        /\ \A j \in 1..Len(as) : attempts'[q][j] = IF j = Len(as) THEN "RUNNING" ELSE as[j]
    <2>1. "RUNNING" \in AttemptStatus
      BY DEF AttemptStatus
    <2>2. attempts' = [attempts EXCEPT ![q][Len(as)] = "RUNNING"]
      BY <1>3, <1>6
    <2>4. attempts' \in AttemptsType /\ Len(attempts'[q]) = Len(as)
      BY <1>1, <1>3, <2>1, <2>2, AttemptMarked
    <2>5. \A r \in Responses : attempts[r] # <<>> => attempts'[r] # <<>>
      BY <1>1, <1>3, <2>1, <2>2
    <2>6. \A r \in Responses \ {q} : attempts'[r] = attempts[r]
      BY <1>1, <1>3, <2>1, <2>2
    <2>7. \A j \in 1..Len(as) : attempts'[q][j] = IF j = Len(as) THEN "RUNNING" ELSE as[j]
      <3>1. DOMAIN as = 1..Len(as) /\ DOMAIN attempts = Responses
        BY <1>1, <1>5 DEF TypeOK, AttemptsType
      <3>2. attempts'[q] = [as EXCEPT ![Len(as)] = "RUNNING"]
        BY <1>3, <2>2, <3>1
      <3> QED
        BY <3>1, <3>2
    <2> QED
      BY <2>4, <2>5, <2>6, <2>7
  <1>9. Active(attempts'[q]) = {Len(attempts'[q])}
    <2>1. attempts'[q] \in Seq(AttemptStatus)
      BY <1>3, <1>8 DEF AttemptsType, AttemptStatus
    <2>2. attempts'[q][Len(as)] = "RUNNING" /\ \A j \in 1..Len(as) : j # Len(as) => attempts'[q][j] = as[j]
      BY <1>6, <1>8
    <2> QED
      BY <1>5, <1>6, <1>8, <2>1, <2>2, MarkedOpen
  <1> HIDE DEF as
  <1>10. /\ resp'[q].effective = resp[q].effective /\ resp'[q].method = resp[q].method
         /\ resp'[q].answer = resp[q].answer
         /\ resp'[q].status = IF Overridden(resp[q]) THEN resp[q].status ELSE "RUNNING"
    BY <1>3, <1>5 DEF RunRow
  <1>11. RowInTurn(q)'
    BY <1>3, <1>5, <1>7, <1>9, <1>10 DEF RowInTurn, Overridden
  <1>12. RowsInTurn'
    <2>1. ASSUME NEW r \in Responses, r # q
          PROVE  RowInTurn(r)'
      BY <1>1, <1>3, <1>8, <2>1, RowStays DEF RowsInTurn
    <2> QED
      BY <1>11, <2>1 DEF RowsInTurn
  <1>13. InTurnOf(work[i])'
    BY <1>3, <1>4, <1>7, <1>8 DEF InTurnOf, as
  <1>14. \A r \in Responses : resp'[r].answer = resp[r].answer
    BY <1>3, <1>10
  <1>15. WorkInTurn'
    BY <1>1, <1>3, <1>8, <1>13, <1>14, StillInTurn
  <1>16. DraftsUnscored'
    BY <1>3, <1>4 DEF DraftsUnscored
  <1>17. ScoresKept
    BY <1>3, <1>10 DEF ScoresKept
  <1> QED
    BY <1>12, <1>15, <1>16, <1>17

LEMMA ResultInTurn ==
  ASSUME TurnInv, NEW i \in Workers, CommitResult(i)
  PROVE  DraftsUnscored' /\ WorkInTurn' /\ RowsInTurn' /\ ScoresKept
  <1>0. PICK q : q = work[i].r
    OBVIOUS
  <1> DEFINE as == attempts[q]
             result == work[i].result
  <1>1. BasicInv /\ ViewsCurrent /\ DraftsUnscored /\ WorkInTurn /\ RowsInTurn /\ Writing(i) /\ TypeOK
    BY DEF TurnInv, Writing, BasicInv
  <1>2. /\ work[i].view = Snapshot /\ work[i].view.resp = resp /\ work[i].view.sub = sub
        /\ work[i].view.attempts = attempts /\ resp \in [Responses -> RowType] /\ sub \in SubType
    BY <1>1, WritingCurrent DEF TypeOK
  <1>3. /\ ResultRows(i) \in [Responses -> RowType] /\ q \in Responses
        /\ result \in Answers \union {"FAILED"}
        /\ resp' = ResultRows(i) /\ sub' = Recalculated(sub, ResultRows(i))
        /\ resp'[q] = GradedRow(resp[q], result) /\ \A r \in Responses \ {q} : resp'[r] = resp[r]
        /\ attempts' = [attempts EXCEPT ![q][Last(i)] = Closed(i)] /\ mode' = mode
        /\ Last(i) \in DOMAIN attempts[q] => Closed(i) \in AttemptStatus
        /\ work'[i] = Idle
    BY <1>0, <1>1, <1>2, ResultWrites DEF Writes
  <1>4. sub'.status = sub.status
    BY <1>2, <1>3, RecalculatedSub
  <1>5. sub.status = "FINALIZED" /\ as # <<>> /\ result \in {resp[q].answer, "FAILED"}
    BY <1>0, <1>1 DEF CommitResult, Committing, WorkInTurn, InTurnOf, Scoring
  <1>6. RowInTurn(q) /\ resp[q] \in RowType /\ as \in Seq(AttemptStatus)
    BY <1>1, <1>2, <1>3 DEF RowsInTurn, TypeOK, AttemptsType, AttemptStatus
  <1>7. mode[q] = "LLM_ASSISTED" /\ Active(as) \subseteq {Len(as)} /\ Len(as) \in 1..Len(as)
    <2>1. Len(as) \in Nat \ {0}
      BY <1>5, <1>6
    <2> QED
      BY <1>5, <1>6, <2>1 DEF RowInTurn
  <1>8. Last(i) = Len(as) /\ Closed(i) \in {"GRADED", "FAILED"}
    BY <1>0, <1>2 DEF Last, Closed, Outcome
  <1>9. /\ attempts' \in AttemptsType /\ Len(attempts'[q]) = Len(as)
        /\ \A r \in Responses : attempts[r] # <<>> => attempts'[r] # <<>>
        /\ \A r \in Responses \ {q} : attempts'[r] = attempts[r]
        /\ \A j \in 1..Len(as) : attempts'[q][j] = IF j = Last(i) THEN Closed(i) ELSE as[j]
    <2>4. attempts' \in AttemptsType /\ Len(attempts'[q]) = Len(as)
      BY <1>1, <1>3, AttemptMarked
    <2>5. \A r \in Responses : attempts[r] # <<>> => attempts'[r] # <<>>
      BY <1>1, <1>3
    <2>6. \A r \in Responses \ {q} : attempts'[r] = attempts[r]
      BY <1>1, <1>3
    <2>7. \A j \in 1..Len(as) : attempts'[q][j] = IF j = Last(i) THEN Closed(i) ELSE as[j]
      <3>1. DOMAIN as = 1..Len(as) /\ DOMAIN attempts = Responses
        BY <1>1, <1>6 DEF TypeOK, AttemptsType
      <3>2. attempts'[q] = [as EXCEPT ![Last(i)] = Closed(i)]
        BY <1>3, <3>1
      <3> QED
        BY <3>1, <3>2
    <2> QED
      BY <2>4, <2>5, <2>6, <2>7
  <1>10. Active(attempts'[q]) = {}
    <2>1. attempts'[q] \in Seq(AttemptStatus)
      BY <1>3, <1>9 DEF AttemptsType, AttemptStatus
    <2>2. /\ attempts'[q][Len(as)] \in {"GRADED", "FAILED"}
          /\ \A j \in 1..Len(as) : j # Len(as) => attempts'[q][j] = as[j]
      BY <1>7, <1>8, <1>9
    <2> QED
      BY <1>6, <1>7, <1>9, <2>1, <2>2, MarkedOpen
  <1> HIDE DEF as, result
  <1>11. /\ resp'[q].answer = resp[q].answer
         /\ resp[q].method = "ADMIN_OVERRIDE" =>
              /\ resp'[q].method = "ADMIN_OVERRIDE" /\ resp'[q].effective = resp[q].effective
              /\ resp'[q].status \in {"GRADED", resp[q].status}
         /\ resp[q].method # "ADMIN_OVERRIDE" =>
              /\ resp'[q].method # "ADMIN_OVERRIDE" /\ resp'[q].status \in {"GRADED", "FAILED"}
              /\ resp'[q].status = "GRADED" => resp'[q].effective # "NONE"
              /\ resp'[q].effective \in {result, "NONE"} \ {"FAILED", "ADMIN"}
    BY <1>3, <1>6, GradedRows
  <1>12. RowInTurn(q)'
    <2>1. CASE resp[q].method = "ADMIN_OVERRIDE"
      BY <1>3, <1>4, <1>6, <1>7, <1>10, <1>11, <2>1 DEF RowInTurn
    <2>2. CASE resp[q].method # "ADMIN_OVERRIDE"
      BY <1>3, <1>5, <1>7, <1>10, <1>11, <2>2 DEF RowInTurn
    <2> QED
      BY <2>1, <2>2
  <1>13. RowsInTurn'
    <2>1. ASSUME NEW r \in Responses, r # q
          PROVE  RowInTurn(r)'
      BY <1>1, <1>3, <1>4, <1>9, <2>1, RowStays DEF RowsInTurn
    <2> QED
      BY <1>12, <2>1 DEF RowsInTurn
  <1>14. InTurnOf(work[i])'
    BY <1>3 DEF InTurnOf, Loaded, Scoring, Idle
  <1>15. \A r \in Responses : resp'[r].answer = resp[r].answer
    BY <1>3, <1>11
  <1>16. WorkInTurn'
    BY <1>1, <1>4, <1>9, <1>14, <1>15, StillInTurn
  <1>17. DraftsUnscored'
    BY <1>4, <1>5 DEF DraftsUnscored
  <1>18. ScoresKept
    BY <1>3, <1>6, <1>7, <1>11 DEF ScoresKept, RowInTurn
  <1> QED
    BY <1>13, <1>16, <1>17, <1>18

LEMMA QuietInTurn ==
  ASSUME InTurn, TurnInv, BasicInv', RowsStay,
         \/ \E i \in Workers : \E op, r : Begins(i, op, r)
         \/ \E i \in Workers : Asked(i) \/ Reloaded(i) \/ Ended(i)
         \/ Stopped
  PROVE  DraftsUnscored' /\ WorkInTurn' /\ RowsInTurn' /\ ScoresKept
  <1>0. BasicInv /\ DraftsUnscored /\ WorkInTurn /\ RowsInTurn
    BY DEF TurnInv
  <1>1. DraftsUnscored' /\ ScoresKept
    BY <1>0 DEF RowsStay, DraftsUnscored, ScoresKept
  <1>2. RowsInTurn'
    BY <1>0, RowStays DEF RowsStay, RowsInTurn
  <1>3. ASSUME NEW i \in Workers, InTurnOf(work[i]), work'[i] = work[i]
        PROVE  InTurnOf(work[i])'
    BY <1>3 DEF RowsStay, InTurnOf
  <1>4. ASSUME NEW i \in Workers, Others(i), InTurnOf(work[i])'
        PROVE  WorkInTurn'
    BY <1>0, <1>3, <1>4 DEF Others, WorkInTurn
  <1>5. ASSUME NEW i \in Workers, NEW op, NEW r, Begins(i, op, r)
        PROVE  WorkInTurn'
    <2>1. /\ Loaded(work'[i]) /\ ~Scoring(work'[i]) /\ Others(i) /\ work'[i].op = op /\ work'[i].r = r
          /\ op \in {"draft", "finalize", "override", "retry", "grade"}
          /\ op = "retry" => mode[r] = "LLM_ASSISTED" /\ Active(attempts[r]) = {}
      BY <1>5 DEF Begins, Begun
    <2>2. op \notin {"draft", "finalize"} => sub.status = "FINALIZED"
      <3>1. CASE op \in {"override", "retry"}
        BY <1>5, <3>1 DEF Begins, HandedIn, InTurn
      <3>2. CASE op = "grade"
        <4>1. r \in Responses /\ attempts[r] # <<>>
          BY <1>5, <3>2, WaitingAttempt DEF Begins, Gradable
        <4> QED
          BY <1>0, <4>1 DEF DraftsUnscored
      <3> QED
        BY <2>1, <3>1, <3>2
    <2>3. InTurnOf(work[i])'
      BY <2>1, <2>2 DEF RowsStay, InTurnOf, Scoring
    <2> QED
      BY <1>4, <2>1, <2>3
  <1>6. ASSUME NEW i \in Workers, Asked(i)
        PROVE  WorkInTurn'
    <2>1. InTurnOf(work[i])
      BY <1>0 DEF WorkInTurn
    <2>2. InTurnOf(work[i])'
      BY <1>6, <2>1 DEF Asked, RowsStay, InTurnOf
    <2> QED
      BY <1>4, <1>6, <2>2 DEF Asked
  <1>7. ASSUME NEW i \in Workers, Reloaded(i)
        PROVE  WorkInTurn'
    <2>1. InTurnOf(work[i])
      BY <1>0 DEF WorkInTurn
    <2>2. InTurnOf(work[i])'
      BY <1>7, <2>1 DEF Reloaded, RowsStay, InTurnOf
    <2> QED
      BY <1>4, <1>7, <2>2 DEF Reloaded
  <1>8. ASSUME NEW i \in Workers, Ended(i)
        PROVE  WorkInTurn'
    <2>1. InTurnOf(work[i])'
      BY <1>8 DEF Ended, InTurnOf, Loaded, Scoring, Idle
    <2> QED
      BY <1>4, <1>8, <2>1 DEF Ended
  <1>9. ASSUME Stopped
        PROVE  WorkInTurn'
    <2>1. CASE \A i \in Workers : work'[i] = Idle
      BY <2>1 DEF WorkInTurn, InTurnOf, Loaded, Scoring, Idle
    <2>2. CASE work' = work
      BY <1>0, <1>3, <2>2 DEF WorkInTurn
    <2> QED
      BY <1>9, <2>1, <2>2 DEF Stopped
  <1> QED
    BY <1>1, <1>2, <1>5, <1>6, <1>7, <1>8, <1>9

LEMMA TurnStep ==
  ASSUME InTurn, TurnInv, [Next]_vars
  PROVE  TurnInv' /\ ScoresKept
  <1>1. BasicInv /\ ViewsCurrent /\ Serial
    BY DEF TurnInv, InTurn, Serial
  <1>2. /\ BasicInv'
        /\ \/ \E i \in Workers : Writing(i)
           \/ \E i \in Workers : \E op, r : Begins(i, op, r)
           \/ \E i \in Workers : Asked(i) \/ Reloaded(i) \/ Ended(i)
           \/ Stopped
    BY <1>1, StepKinds
  <1>3. ASSUME NEW i \in Workers, Writing(i)
        PROVE  TurnInv' /\ ScoresKept
    <2>1. DraftsUnscored' /\ WorkInTurn' /\ RowsInTurn' /\ ScoresKept
      BY <1>3, DraftInTurn, FinalizeInTurn, OverrideInTurn, RetryInTurn, GradeInTurn,
         ResultInTurn DEF Writing
    <2>2. ViewsCurrent'
      BY <1>1, <1>3, WritingCurrent
    <2> QED
      BY <1>2, <2>1, <2>2 DEF TurnInv
  <1>4. CASE \/ \E i \in Workers : \E op, r : Begins(i, op, r)
             \/ \E i \in Workers : Asked(i) \/ Reloaded(i) \/ Ended(i)
             \/ Stopped
    <2>1. RowsStay
      BY <1>4 DEF Begins, Begun, Asked, Reloaded, Ended, Stopped
    <2>2. DraftsUnscored' /\ WorkInTurn' /\ RowsInTurn' /\ ScoresKept
      BY <1>2, <1>4, <2>1, QuietInTurn
    <2>3. ViewsCurrent'
      BY <1>1, <1>4, <2>1, QuietCurrent
    <2> QED
      BY <1>2, <2>2, <2>3 DEF TurnInv
  <1> QED
    BY <1>2, <1>3, <1>4

LEMMA InitTurn == Init => TurnInv
  <1> SUFFICES ASSUME Init
               PROVE  TurnInv
    OBVIOUS
  <1>1. BasicInv
    BY InitBasic
  <1>2. \A i \in Workers : work[i] = Idle
    BY DEF Init
  <1>3. ViewsCurrent /\ WorkInTurn
    BY <1>2, IdleWork, DoneInTurn DEF ViewsCurrent, OneLoaded, Current, WorkInTurn
  <1>4. \A r \in Responses : attempts[r] = <<>> /\ Unscored(resp[r]) /\ sub.status = "DRAFT"
    BY DEF Init, Unscored
  <1>5. DraftsUnscored
    BY <1>4 DEF DraftsUnscored
  <1>6. Active(<<>>) = {}
    BY DEF Active
  <1>7. RowsInTurn
    BY <1>4, <1>6 DEF RowsInTurn, RowInTurn, Unscored
  <1> QED
    BY <1>1, <1>3, <1>5, <1>7 DEF TurnInv

LEMMA TurnInvariance ==
  ASSUME InTurn
  PROVE  Spec => []TurnInv
  <1>1. TurnInv /\ [Next]_vars => TurnInv'
    BY TurnStep
  <1> QED
    BY <1>1, InitTurn, PTL DEF Spec

\* A score that finalize or a job stored is that of the answer handed in, not of
\* a draft that came before or after it.
THEOREM ScoresOfAnswers == InTurn => (Spec => []ScoredAsAnswered)
  <1> SUFFICES ASSUME InTurn PROVE Spec => []ScoredAsAnswered
    OBVIOUS
  <1>1. TurnInv => ScoredAsAnswered
    BY DEF TurnInv, RowsInTurn, RowInTurn, ScoredAsAnswered, Final
  <1> QED
    BY <1>1, TurnInvariance, PTL

\* retry_question_grading starts no second attempt beside an active one, and an
\* open grade always has an attempt for grade_response to close.
THEOREM OneAttempt == InTurn => (Spec => []OneAttemptUnderWay)
  <1> SUFFICES ASSUME InTurn PROVE Spec => []OneAttemptUnderWay
    OBVIOUS
  <1>1. TurnInv => OneAttemptUnderWay
    <2> SUFFICES ASSUME TurnInv, NEW r \in Responses
                 PROVE  /\ Cardinality(Active(attempts[r])) <= 1
                        /\ resp[r].status \in {"PENDING", "RUNNING"} => Active(attempts[r]) # {}
      BY DEF OneAttemptUnderWay
    <2>1. RowInTurn(r)
      BY DEF TurnInv, RowsInTurn
    <2>2. Active(attempts[r]) \subseteq {Len(attempts[r])}
      BY <2>1 DEF RowInTurn
    <2>3. IsFiniteSet({Len(attempts[r])}) /\ Cardinality({Len(attempts[r])}) = 1
      BY FS_Singleton
    <2>4. /\ Cardinality(Active(attempts[r])) <= Cardinality({Len(attempts[r])})
      BY <2>2, <2>3, FS_Subset
    <2> QED
      BY <2>1, <2>3, <2>4 DEF RowInTurn
  <1> QED
    BY <1>1, TurnInvariance, PTL

\* Through failures of the model, retries and overrides, a response is shown as
\* graded only with a score: current_score would count it as 0.
THEOREM GradedScored == InTurn => (Spec => []GradedHasScore)
  <1> SUFFICES ASSUME InTurn PROVE Spec => []GradedHasScore
    OBVIOUS
  <1>1. TurnInv => GradedHasScore
    BY DEF TurnInv, RowsInTurn, RowInTurn, GradedHasScore
  <1> QED
    BY <1>1, TurnInvariance, PTL

\* No job, retry or finalization replaces the administrator's score.
THEOREM OverridesKept == InTurn => (Spec => OverrideKept)
  <1> SUFFICES ASSUME InTurn PROVE Spec => OverrideKept
    OBVIOUS
  <1>1. TurnInv /\ [Next]_vars =>
          [\A r \in Responses : resp[r].effective = "ADMIN" => resp'[r].effective = "ADMIN"]_vars
    BY TurnStep DEF ScoresKept
  <1>2. Spec => [][\A r \in Responses : resp[r].effective = "ADMIN" => resp'[r].effective = "ADMIN"]_vars
    BY <1>1, TurnInvariance, PTL DEF Spec
  <1> QED
    BY <1>2 DEF OverrideKept
==============================================================================
