---------------------- MODULE ExperimentProgressProofs ----------------------
(***************************************************************************)
(* Proofs about ExperimentProgress, for any plans and any number of        *)
(* requests that overlap and are interrupted anywhere.                     *)
(***************************************************************************)
EXTENDS ExperimentProgress, SequenceTheorems, WellFoundedInduction, TLAPS

-----------------------------------------------------------------------------
(* The inductive invariant. *)

Seen == Status \union {Unread}
Row == [status : Status, sub : Submission, draft : BOOLEAN, essays : 0..MaxEssays]
Request == [op : Ops \union {"idle"}, at : {"idle", "received", "loaded"}, t : Nat,
            sess : States \union {Unread}, view : Seq(Seen), sub : Submission]

Shape ==
  /\ plan \in Plans \union {NoPlan}
  /\ superseded \in BOOLEAN /\ failing \in BOOLEAN
  /\ state \in States
  /\ rows \in Seq(Row) /\ Len(rows) = Len(plan.items)
  /\ req \in [Requests -> Request]

\* What the checks of its first step established for a request r, the task's
\* status being the one that was loaded.
Checked(r) ==
  /\ r.op = "start" => r.sess \in {"TOPIC_REQUIRED", "TASK_REQUIRED"}
  /\ r.op \in {"submit", "skip"} => Survey(r.t) /\ r.view[r.t] = "ACTIVE"
  /\ r.op = "skip" => ~plan.items[r.t].required
  /\ r.op = "essay" => Type(r.t) = "ESSAY" /\ ~Done(r.view[r.t])
  /\ r.op = "questions" => Type(r.t) = "QUESTION" /\ r.view[r.t] # "FINALIZED"
  /\ r.op = "all" => plan.mode \in {"REVIEW", "FREE"} /\ r.at = "received"

Fits(r) ==
  IF r.at = "idle" THEN r = Idle
  ELSE /\ r.op \in Ops
       /\ Len(r.view) = Len(rows)
       /\ IF r.op \in {"start", "all"} THEN r.t = 0 ELSE r.t \in DOMAIN rows
       /\ Checked(r)

\* A request has seen a task done only when it was answered, and an answer is
\* never taken back: however old a view is, it is right about that.
SeenAnswered(r) == \A p \in DOMAIN r.view : Done(r.view[p]) => Answered(p)

\* Only an optional survey is ever recorded as skipped.
SkipsAllowed ==
  \A p \in DOMAIN rows : rows[p].sub = "SKIPPED" => Survey(p) /\ ~plan.items[p].required

Begun == state = "NONE" => rows = <<>> /\ \A i \in Requests : req[i] = Idle

\* EveryStageAnswered for strict plans: the order of the stages is that of the rows.
StrictStagesAnswered == plan.mode = "STRICT" => EveryStageAnswered

IInv ==
  /\ Shape
  /\ Begun
  /\ \A i \in Requests : Fits(req[i]) /\ SeenAnswered(req[i])
  /\ SkipsAllowed
  /\ ClosedHasAnswer
  /\ StrictStagesAnswered

-----------------------------------------------------------------------------
(* The functions that open tasks. *)

LEMMA MinIsLeast ==
  ASSUME NEW S \in SUBSET Nat, S # {}
  PROVE  Min(S) \in S /\ \A x \in S : Min(S) <= x
<1> DEFINE R == {p \in Nat \X Nat : p[1] < p[2]}
<1>1. PICK x \in S : \A y \in S : ~(<<y, x>> \in R)
  <2>1. IsWellFoundedOn(R, Nat) BY NatLessThanWellFounded DEF OpToRel
  <2> HIDE DEF R
  <2> QED BY <2>1, WFMin
<1>2. \A y \in S : x <= y
  <2> SUFFICES ASSUME NEW y \in S PROVE x <= y OBVIOUS
  <2>1. ~(y < x) BY <1>1
  <2> QED BY <2>1
<1> QED BY <1>2 DEF Min

\* Unlock opens tasks that are not done and leaves the others as they are.
LEMMA UnlockOpens ==
  ASSUME NEW v \in Seq(Seen), NEW S \in SUBSET DOMAIN v, \A q \in S : ~Done(v[q])
  PROVE  /\ Unlock(v, S) \in Seq(Seen) /\ Len(Unlock(v, S)) = Len(v)
         /\ \A q \in DOMAIN v : \/ Unlock(v, S)[q] = v[q]
                                \/ ~Done(v[q]) /\ Unlock(v, S)[q] \in {"ACTIVE", "AVAILABLE"}
<1>1. CASE S = {}
  BY <1>1 DEF Unlock
<1>2. CASE S # {}
  <2> DEFINE m == Min(S)
             w == [q \in DOMAIN v |-> IF q \in Block(m) /\ ~Done(v[q]) THEN "AVAILABLE" ELSE v[q]]
             x == [v EXCEPT ![m] = "ACTIVE"]
  <2>1. m \in DOMAIN v /\ ~Done(v[m])
    BY <1>2, MinIsLeast
  <2>2. {"ACTIVE", "AVAILABLE"} \subseteq Seen
    BY DEF Seen, Status
  <2> HIDE DEF m
  <2>3. w \in Seq(Seen) /\ Len(w) = Len(v)
    <3>1. w \in [1..Len(v) -> Seen] BY <2>2
    <3> QED BY <3>1
  <2>4. x \in Seq(Seen) /\ Len(x) = Len(v)
    BY <2>1, <2>2
  <2>5. \A q \in DOMAIN v : w[q] = v[q] \/ (~Done(v[q]) /\ w[q] = "AVAILABLE")
    OBVIOUS
  <2>6. \A q \in DOMAIN v : x[q] = v[q] \/ (~Done(v[q]) /\ x[q] = "ACTIVE")
    BY <2>1
  <2>7. Unlock(v, S) = w \/ Unlock(v, S) = x
    BY <1>2 DEF Unlock, m
  <2> HIDE DEF w, x
  <2> QED BY <2>3, <2>4, <2>5, <2>6, <2>7
<1> QED BY <1>1, <1>2

LEMMA AdvanceOpens ==
  ASSUME NEW v \in Seq(Seen), NEW t, NEW block \in BOOLEAN
  PROVE  /\ AdvancedRows(v, t, block) \in Seq(Seen) /\ Len(AdvancedRows(v, t, block)) = Len(v)
         /\ \A q \in DOMAIN v :
              \/ AdvancedRows(v, t, block)[q] = v[q]
              \/ ~Done(v[q]) /\ AdvancedRows(v, t, block)[q] \in {"ACTIVE", "AVAILABLE"}
<1> DEFINE S == LaterOpen(v, t)
           U == {q \in S : Survey(q)}
<1>1. S \in SUBSET DOMAIN v /\ U \in SUBSET DOMAIN v /\ (\A q \in S : ~Done(v[q])) /\ (\A q \in U : ~Done(v[q]))
  BY DEF LaterOpen
<1>2. AdvancedRows(v, t, block) \in {v, Unlock(v, S), Unlock(v, U)}
  BY DEF AdvancedRows
<1> HIDE DEF S, U
<1> QED BY <1>1, <1>2, UnlockOpens

LEMMA InitialOpens ==
  ASSUME NEW v \in Seq(Seen)
  PROVE  /\ InitialRows(v) \in Seq(Seen) /\ Len(InitialRows(v)) = Len(v)
         /\ \A q \in DOMAIN v : InitialRows(v)[q] \in {"LOCKED", "ACTIVE", "AVAILABLE"}
<1> DEFINE w == [q \in DOMAIN v |-> "LOCKED"]
<1>1. w \in Seq(Seen) /\ Len(w) = Len(v) /\ \A q \in DOMAIN v : w[q] = "LOCKED"
  <2>1. w \in [1..Len(v) -> Seen] BY DEF Seen, Status
  <2> QED BY <2>1
<1>2. DOMAIN w = DOMAIN v /\ \A q \in DOMAIN w : ~Done(w[q])
  BY <1>1 DEF Done
<1>3. InitialRows(v) = Unlock(w, DOMAIN v)
  BY DEF InitialRows
<1> HIDE DEF w
<1> QED BY <1>1, <1>2, <1>3, UnlockOpens

\* The state either stays, as far as the handler knows, or passes the tasks; in
\* a strict plan only with every stage done in the handler's view.
LEMMA AdvanceState ==
  ASSUME NEW s, NEW v, NEW t, NEW block \in BOOLEAN
  PROVE  /\ AdvancedState(s, v, t, block) \in {s, "POST_SURVEY_REQUIRED", "THANK_YOU_REQUIRED"}
         /\ plan.mode = "STRICT" /\ AdvancedState(s, v, t, block) # s =>
              \A q \in DOMAIN v : Done(v[q])
BY DEF AdvancedState, Unfinished

\* An UPDATE writes statuses only, and only those that differ.
LEMMA WrittenRows ==
  ASSUME Shape, NEW old \in Seq(Seen), NEW new \in Seq(Seen), Len(old) = Len(rows), Len(new) = Len(rows),
         \A p \in DOMAIN rows : new[p] # old[p] => new[p] # Unread
  PROVE  /\ Written(old, new) \in Seq(Row) /\ Len(Written(old, new)) = Len(rows)
         /\ \A p \in DOMAIN rows :
              LET w == Written(old, new)[p] IN
              /\ w.status = IF new[p] # old[p] THEN new[p] ELSE rows[p].status
              /\ w.sub = rows[p].sub /\ w.draft = rows[p].draft /\ w.essays = rows[p].essays
<1>1. \A p \in DOMAIN rows : rows[p] \in Row BY DEF Shape
<1>2. \A p \in DOMAIN rows : Written(old, new)[p] =
        [rows[p] EXCEPT !.status = IF new[p] # old[p] THEN new[p] ELSE rows[p].status]
  BY DEF Written, Changed
<1>3. \A p \in DOMAIN rows : new[p] \in Status \union {Unread}
  BY DEF Shape, Seen
<1>4. ASSUME NEW p \in DOMAIN rows
      PROVE  /\ Written(old, new)[p] \in Row
             /\ Written(old, new)[p].status = IF new[p] # old[p] THEN new[p] ELSE rows[p].status
             /\ Written(old, new)[p].sub = rows[p].sub
             /\ Written(old, new)[p].draft = rows[p].draft
             /\ Written(old, new)[p].essays = rows[p].essays
  <2> DEFINE st == IF new[p] # old[p] THEN new[p] ELSE rows[p].status
             row == rows[p]
  <2>1. row \in Row /\ Written(old, new)[p] = [row EXCEPT !.status = st]
    BY <1>1, <1>2
  <2>2. st \in Status
    BY <1>1, <1>3 DEF Row
  <2> HIDE DEF st, row
  <2>3. /\ [row EXCEPT !.status = st] \in Row /\ [row EXCEPT !.status = st].status = st
        /\ [row EXCEPT !.status = st].sub = row.sub /\ [row EXCEPT !.status = st].draft = row.draft
        /\ [row EXCEPT !.status = st].essays = row.essays
    BY <2>1, <2>2 DEF Row
  <2> QED BY <2>1, <2>3 DEF st, row
<1>5. Written(old, new) \in [1..Len(rows) -> Row]
  <2> DEFINE w == Written(old, new)
  <2>1. w = [p \in DOMAIN rows |-> w[p]] /\ DOMAIN rows = 1..Len(rows)
    BY DEF Written, Shape
  <2> HIDE DEF w
  <2>2. \A p \in DOMAIN rows : w[p] \in Row
    BY <1>4 DEF w
  <2>3. w \in [1..Len(rows) -> Row]
    BY <2>1, <2>2
  <2> QED BY <2>3 DEF w
<1>6. Written(old, new) \in Seq(Row) /\ Len(Written(old, new)) = Len(rows)
  <2> DEFINE w == Written(old, new)
  <2>1. w \in [1..Len(rows) -> Row] /\ Len(rows) \in Nat BY <1>5 DEF Shape
  <2> HIDE DEF w
  <2>2. w \in Seq(Row) /\ Len(w) = Len(rows) BY <2>1
  <2> QED BY <2>2 DEF w
<1> QED BY <1>4, <1>6

-----------------------------------------------------------------------------
(* What a step may do to the rows. *)

LEMMA TypesKnown ==
  ASSUME Shape, NEW p \in DOMAIN rows
  PROVE  Type(p) \in Types
<1> DEFINE I == [type : Types, required : BOOLEAN]
<1>1. plan.items \in Seq(I)
  <2>1. CASE plan \in Plans BY <2>1, PlansAssumption DEF IsPlan
  <2>2. CASE plan = NoPlan
    <3>1. <<>> \in Seq(I) OBVIOUS
    <3> QED BY <2>2, <3>1 DEF NoPlan
  <2> QED BY <2>1, <2>2 DEF Shape
<1>2. p \in DOMAIN plan.items
  <2>1. rows \in Seq(Row) /\ Len(rows) = Len(plan.items) BY DEF Shape
  <2> HIDE DEF I
  <2> QED BY <1>1, <2>1
<1>3. plan.items[p] \in I
  <2> HIDE DEF I
  <2> QED BY <1>1, <1>2
<1> QED BY <1>3 DEF Type

\* Answered, told apart by the type of the task.
Answers(p, row) ==
  \/ Type(p) = "ESSAY" /\ row.essays > 0
  \/ Type(p) = "QUESTION" /\ row.sub = "FINALIZED"
  \/ Survey(p) /\ (row.sub = "SUBMITTED" \/ (row.sub = "SKIPPED" /\ ~plan.items[p].required))

LEMMA AnsweredByType ==
  ASSUME Shape, NEW p \in DOMAIN rows
  PROVE  /\ Answered(p) <=> Answers(p, rows[p])
         /\ plan' = plan => (Answered(p)' <=> Answers(p, rows'[p]))
<1>1. Type(p) \in {"ESSAY", "QUESTION", "SURVEY"}
  BY TypesKnown DEF Types
<1>2. CASE Type(p) = "ESSAY" BY <1>2 DEF Answered, Answers, Survey, Type
<1>3. CASE Type(p) = "QUESTION" BY <1>3 DEF Answered, Answers, Survey, Type
<1>4. CASE Type(p) = "SURVEY" BY <1>4 DEF Answered, Answers, Survey, Type
<1> QED BY <1>1, <1>2, <1>3, <1>4

\* The row of p keeps its answer or gets one, and is closed only with it.
RowGrows(p) ==
  LET old == rows[p]  new == rows'[p] IN
  /\ new.essays >= old.essays
  /\ \/ new.sub = old.sub
     \/ old.sub = "NONE" /\ new.sub = "DRAFT"
     \/ Survey(p) /\ new.sub = "SUBMITTED"
     \/ Survey(p) /\ ~plan.items[p].required /\ new.sub = "SKIPPED"
     \/ Type(p) = "QUESTION" /\ new.sub = "FINALIZED"
  /\ \/ new.status = old.status /\ (new.sub = old.sub \/ new.sub = "DRAFT")
     \/ ~Done(new.status)
     \/ new.status = "FINALIZED" /\ Answered(p)' /\ new.sub # "SKIPPED"
     \/ new.status = "SKIPPED" /\ Survey(p) /\ new.sub = "SKIPPED"

RowsGrow ==
  /\ rows' \in Seq(Row) /\ Len(rows') = Len(rows)
  /\ \A p \in DOMAIN rows : Answered(p) => Answered(p)'
  /\ SkipsAllowed' /\ ClosedHasAnswer'

LEMMA Growing ==
  ASSUME IInv, plan' = plan, rows' \in Seq(Row), Len(rows') = Len(rows),
         \A p \in DOMAIN rows : RowGrows(p)
  PROVE  RowsGrow
<1>1. DOMAIN rows' = DOMAIN rows
  BY DEF IInv, Shape
<1>2. ASSUME NEW p \in DOMAIN rows
      PROVE  /\ Answered(p) => Answered(p)'
             /\ rows'[p].sub = "SKIPPED" => Survey(p) /\ ~plan.items[p].required
             /\ rows'[p].status = "FINALIZED" => Answered(p)' /\ rows'[p].sub # "SKIPPED"
             /\ rows'[p].status = "SKIPPED" => Survey(p) /\ rows'[p].sub = "SKIPPED"
  <2>1. rows[p] \in Row /\ rows'[p] \in Row
    BY <1>1, <1>2 DEF IInv, Shape
  <2>2. rows[p].essays \in Nat /\ rows'[p].essays \in Nat
    BY <2>1 DEF Row, MaxEssays
  <2>3. (rows[p].sub = "SKIPPED" => Survey(p) /\ ~plan.items[p].required)
        /\ (rows[p].status = "FINALIZED" => Answered(p) /\ rows[p].sub # "SKIPPED")
        /\ (rows[p].status = "SKIPPED" => Survey(p) /\ rows[p].sub = "SKIPPED")
    BY <1>2 DEF IInv, SkipsAllowed, ClosedHasAnswer
  <2>a. (Answered(p) <=> Answers(p, rows[p])) /\ (Answered(p)' <=> Answers(p, rows'[p]))
    BY <1>2, AnsweredByType DEF IInv
  <2>4. Answered(p) => Answered(p)'
    BY <1>2, <2>2, <2>a DEF RowGrows, Answers, Survey
  <2>5. rows'[p].sub = "SKIPPED" => Survey(p) /\ ~plan.items[p].required
    BY <1>2, <2>3 DEF RowGrows, Survey
  <2>6. rows[p].status = "FINALIZED" /\ rows[p].sub = "NONE" => Type(p) = "ESSAY"
    BY <2>3, <2>a DEF Answers
  <2>7. rows'[p].status = "FINALIZED" => Answered(p)' /\ rows'[p].sub # "SKIPPED"
    BY <1>2, <2>3, <2>4 DEF RowGrows, Done
  <2>8. rows'[p].status = "SKIPPED" => Survey(p) /\ rows'[p].sub = "SKIPPED"
    BY <1>2, <2>3 DEF RowGrows, Done
  <2> QED BY <2>4, <2>5, <2>7, <2>8
<1> QED BY <1>1, <1>2 DEF RowsGrow, SkipsAllowed, ClosedHasAnswer, Survey, Type

LEMMA NotGrowing ==
  ASSUME IInv, plan' = plan, rows' = rows
  PROVE  RowsGrow
BY DEF IInv, Shape, RowsGrow, SkipsAllowed, ClosedHasAnswer, Answered, Survey, Type

\* The rest of the invariant follows from that.
LEMMA Preserved ==
  ASSUME IInv, RowsGrow, plan' = plan, superseded' \in BOOLEAN, failing' \in BOOLEAN,
         state # "NONE", state' \in States \ {"NONE"},
         req' \in [Requests -> Request],
         \A i \in Requests : \/ req'[i] = Idle
                             \/ req'[i] = req[i]
                             \/ Fits(req'[i]) /\ SeenAnswered(req'[i])
                             \/ Fits(req'[i]) /\ SeenAnswered(req[i])',
         plan.mode = "STRICT" /\ state' \in TasksOver =>
           state \in TasksOver \/ \A p \in DOMAIN rows : Answered(p)'
  PROVE  IInv'
<1>1. DOMAIN rows' = DOMAIN rows /\ Len(rows') = Len(rows)
  BY DEF IInv, Shape, RowsGrow
<1>2. Shape'
  BY DEF IInv, Shape, RowsGrow
<1>3. \A i \in Requests : Fits(req'[i]) /\ (SeenAnswered(req'[i]) \/ SeenAnswered(req[i])')
  BY DEF IInv, Fits, SeenAnswered, Idle
<1>4. ASSUME NEW i \in Requests PROVE Fits(req[i])' /\ SeenAnswered(req[i])'
  <2>1. Fits(req[i])'
    BY <1>1, <1>3, <1>4 DEF Fits, Checked, Survey, Type, Idle
  <2>2. req'[i].at # "idle" => DOMAIN req'[i].view = DOMAIN rows
    <3>1. req'[i].view \in Seq(Seen) BY <1>4 DEF Request
    <3>2. rows \in Seq(Row) BY DEF IInv, Shape
    <3> QED BY <1>3, <1>4, <3>1, <3>2 DEF Fits
  <2>3. SeenAnswered(req[i])'
    <3>1. CASE req'[i].at = "idle"
      BY <1>3, <1>4, <3>1 DEF Fits, SeenAnswered, Idle
    <3>2. CASE SeenAnswered(req'[i]) /\ req'[i].at # "idle"
      <4> SUFFICES ASSUME NEW p \in DOMAIN req'[i].view, Done(req'[i].view[p]) PROVE Answered(p)'
        BY DEF SeenAnswered, Done
      <4>1. Answered(p) /\ p \in DOMAIN rows
        BY <2>2, <3>2 DEF SeenAnswered
      <4> QED BY <4>1 DEF RowsGrow
    <3> QED BY <1>3, <1>4, <3>1, <3>2
  <2> QED BY <2>1, <2>3
<1>5. StrictStagesAnswered'
  BY <1>1 DEF IInv, StrictStagesAnswered, EveryStageAnswered, RowsGrow
<1> QED BY <1>2, <1>4, <1>5 DEF IInv, Begun, RowsGrow

-----------------------------------------------------------------------------
(* Each action preserves the invariant. *)

LEMMA Initially == Init => IInv
<1> SUFFICES ASSUME Init PROVE IInv OBVIOUS
<1>1. Shape
  <2>1. <<>> \in Seq(Row) /\ <<>> \in Seq(Seen)
    OBVIOUS
  <2>2. Idle \in Request
    BY <2>1 DEF Idle, Request, Submission
  <2>3. req \in [Requests -> Request] /\ rows \in Seq(Row)
    BY <2>1, <2>2 DEF Init
  <2>4. Len(rows) = Len(plan.items)
    BY DEF Init, NoPlan
  <2> QED BY <2>3, <2>4 DEF Init, Shape, States
<1> QED
  BY <1>1 DEF Init, IInv, Begun, Fits, SeenAnswered, Idle, SkipsAllowed, ClosedHasAnswer,
            StrictStagesAnswered, EveryStageAnswered, TasksOver, Started

LEMMA Created ==
  ASSUME IInv, NEW P \in Plans, CreateSession(P)
  PROVE  IInv'
<1>1. P.items \in Seq([type : Types, required : BOOLEAN]) /\ P.mode \in Modes
  BY PlansAssumption DEF IsPlan
<1>2. rows' \in Seq(Row) /\ Len(rows') = Len(P.items)
  <2> DEFINE new == [p \in DOMAIN P.items |-> [status |-> "LOCKED", sub |-> "NONE", draft |-> FALSE, essays |-> 0]]
  <2>1. [status |-> "LOCKED", sub |-> "NONE", draft |-> FALSE, essays |-> 0] \in Row
    BY DEF Row, Status, Submission, MaxEssays
  <2>2. new \in [1..Len(P.items) -> Row] /\ Len(P.items) \in Nat
    BY <1>1, <2>1
  <2> HIDE DEF new
  <2>3. new \in Seq(Row) /\ Len(new) = Len(P.items)
    BY <2>2
  <2> QED BY <2>3 DEF CreateSession, new
<1>3. \A p \in DOMAIN rows' : rows'[p].status = "LOCKED" /\ rows'[p].sub = "NONE"
  BY DEF CreateSession
<1>4. state' \in {"CONSENT_REQUIRED", "TASK_REQUIRED"}
  BY DEF CreateSession
<1>5. \A i \in Requests : req'[i] = Idle
  BY DEF CreateSession, IInv, Begun
<1>6. Shape'
  BY <1>2, <1>4 DEF CreateSession, IInv, Shape, States
<1>7. (\A i \in Requests : Fits(req[i]) /\ SeenAnswered(req[i]))'
  BY <1>5 DEF Fits, SeenAnswered, Idle
<1> QED
  BY <1>3, <1>4, <1>6, <1>7 DEF IInv, Begun, SkipsAllowed, ClosedHasAnswer, StrictStagesAnswered,
     EveryStageAnswered, TasksOver, Started

\* Transitions of the session.
LEMMA SessionMoved ==
  ASSUME IInv,
         Consent \/ SubmitPreSurvey \/ SubmitEssay \/ SubmitPostSurvey \/ CompleteSession
  PROVE  IInv'
<1>1. plan' = plan /\ rows' = rows /\ req' = req /\ superseded' = superseded /\ failing' = failing
  BY DEF Consent, SubmitPreSurvey, SubmitEssay, SubmitPostSurvey, CompleteSession, Transition
<1>2. state # "NONE" /\ state' \in States \ {"NONE"}
  BY DEF States, Consent, SubmitPreSurvey, SubmitEssay, SubmitPostSurvey, CompleteSession, Transition
<1>3. plan.mode = "STRICT" /\ state' \in TasksOver => state \in TasksOver
  BY DEF TasksOver, Started, Consent, SubmitPreSurvey, SubmitEssay, SubmitPostSurvey, CompleteSession, Transition
<1>4. RowsGrow
  BY <1>1, NotGrowing
<1> QED
  BY <1>1, <1>2, <1>3, <1>4, Preserved DEF IInv, Shape

\* The administrator publishes a plan, or interruptions end.
LEMMA SettingChanged ==
  ASSUME IInv, UNCHANGED <<plan, state, rows, req>>, superseded' \in BOOLEAN, failing' \in BOOLEAN
  PROVE  IInv'
<1>1. Shape' BY DEF IInv, Shape
<1>2. ASSUME NEW i \in Requests PROVE Fits(req[i])' /\ SeenAnswered(req[i])'
  <2>1. Fits(req[i]) /\ SeenAnswered(req[i])
    BY DEF IInv
  <2>2. Fits(req[i])'
    BY <2>1 DEF Fits, Checked, Survey, Type
  <2>3. SeenAnswered(req[i])'
    BY <2>1 DEF SeenAnswered, Answered, Survey, Type
  <2> QED BY <2>2, <2>3
<1>3. SkipsAllowed' /\ ClosedHasAnswer'
  BY DEF IInv, SkipsAllowed, ClosedHasAnswer, Answered, Survey, Type
<1>4. StrictStagesAnswered' /\ Begun'
  BY DEF IInv, StrictStagesAnswered, EveryStageAnswered, Answered, Survey, Type, Begun
<1> QED BY <1>1, <1>2, <1>3, <1>4 DEF IInv

\* What is known of a request under way.
LEMMA UnderWay ==
  ASSUME IInv, NEW i \in Requests, req[i].at # "idle"
  PROVE  /\ state # "NONE" /\ req[i] \in Request
         /\ req[i].view \in Seq(Seen) /\ Len(req[i].view) = Len(rows) /\ DOMAIN req[i].view = DOMAIN rows
         /\ IF req[i].op \in {"start", "all"} THEN req[i].t = 0 ELSE req[i].t \in DOMAIN rows
         /\ Checked(req[i]) /\ req[i].op \in Ops
         /\ \A p \in DOMAIN rows : Done(req[i].view[p]) => Answered(p)
<1>1. Fits(req[i]) /\ SeenAnswered(req[i]) /\ req[i] \in Request
  BY DEF IInv, Shape
<1>2. state # "NONE"
  BY DEF IInv, Begun, Idle
<1>3. req[i].view \in Seq(Seen) /\ Len(req[i].view) = Len(rows)
  BY <1>1 DEF Request, Fits
<1>4. DOMAIN req[i].view = DOMAIN rows
  <2>1. rows \in Seq(Row) BY DEF IInv, Shape
  <2> QED BY <1>3, <2>1
<1> QED BY <1>1, <1>2, <1>3, <1>4 DEF Fits, SeenAnswered

\* A request that ends without effect.
LEMMA Dropped ==
  ASSUME IInv, NEW i \in Requests, req[i].at # "idle", Drop(i)
  PROVE  IInv'
<1>1. state # "NONE"
  BY UnderWay
<1>2. Idle \in Request
  <2>1. <<>> \in Seq(Seen) OBVIOUS
  <2> QED BY <2>1 DEF Idle, Request, Submission
<1>3. req' \in [Requests -> Request] /\ \A j \in Requests : req'[j] = Idle \/ req'[j] = req[j]
  BY <1>2 DEF Drop, IInv, Shape
<1>4. RowsGrow
  BY NotGrowing DEF Drop
<1> QED
  BY <1>1, <1>3, <1>4, Preserved DEF Drop, IInv, Shape

LEMMA TaskOpened ==
  ASSUME IInv, NEW p \in DOMAIN rows, OpenTask(p)
  PROVE  IInv'
<1> DEFINE row == [rows[p] EXCEPT !.sub = "DRAFT"]
<1>1. rows \in Seq(Row) /\ rows[p] \in Row
  BY DEF IInv, Shape
<1>2. row \in Row
  BY <1>1 DEF Row, Submission
<1>3. rows' = [rows EXCEPT ![p] = row] /\ plan' = plan
  BY DEF OpenTask
<1>4. rows' \in Seq(Row) /\ Len(rows') = Len(rows)
  <2> HIDE DEF row
  <2> QED BY <1>1, <1>2, <1>3
<1>5. \A q \in DOMAIN rows : RowGrows(q)
  <2> SUFFICES ASSUME NEW q \in DOMAIN rows PROVE RowGrows(q) OBVIOUS
  <2>0. rows[q] \in Row
    BY <1>1
  <2>1. rows[q].essays \in Nat
    BY <2>0 DEF Row, MaxEssays
  <2>2. CASE q # p
    BY <1>1, <1>3, <2>1, <2>2 DEF RowGrows
  <2>3. CASE q = p
    <3>1. rows'[q] = row BY <1>1, <1>3, <2>3
    <3>2. row.status = rows[q].status /\ row.sub = "DRAFT" /\ row.essays = rows[q].essays
      BY <1>1, <2>3 DEF Row
    <3>3. rows[q].sub = "NONE"
      BY <2>3 DEF OpenTask
    <3> HIDE DEF row
    <3>4. rows'[q].essays >= rows[q].essays
      BY <2>1, <3>1, <3>2
    <3> QED BY <3>1, <3>2, <3>3, <3>4 DEF RowGrows
  <2> QED BY <2>2, <2>3
<1> HIDE DEF row
<1>6. RowsGrow
  BY <1>3, <1>4, <1>5, Growing
<1> QED BY <1>6, Preserved DEF OpenTask, IInv, Shape, States, TasksOver, Started

LEMMA DraftSaved ==
  ASSUME IInv, NEW p \in DOMAIN rows, NEW text \in BOOLEAN, SaveEssayDraft(p, text)
  PROVE  IInv'
<1> DEFINE row == [rows[p] EXCEPT !.draft = text]
<1>1. rows \in Seq(Row) /\ rows[p] \in Row
  BY DEF IInv, Shape
<1>2. row \in Row
  BY <1>1 DEF Row
<1>3. rows' = [rows EXCEPT ![p] = row] /\ plan' = plan
  BY DEF SaveEssayDraft
<1>4. rows' \in Seq(Row) /\ Len(rows') = Len(rows)
  <2> HIDE DEF row
  <2> QED BY <1>1, <1>2, <1>3
<1>5. \A q \in DOMAIN rows : RowGrows(q)
  <2> SUFFICES ASSUME NEW q \in DOMAIN rows PROVE RowGrows(q) OBVIOUS
  <2>0. rows[q] \in Row
    BY <1>1
  <2>1. rows[q].essays \in Nat
    BY <2>0 DEF Row, MaxEssays
  <2>2. CASE q # p
    BY <1>1, <1>3, <2>1, <2>2 DEF RowGrows
  <2>3. CASE q = p
    <3>1. rows'[q] = row BY <1>1, <1>3, <2>3
    <3>2. row.status = rows[q].status /\ row.sub = rows[q].sub /\ row.essays = rows[q].essays
      BY <1>1, <2>3 DEF Row
    <3> QED BY <2>1, <2>3, <3>1, <3>2 DEF RowGrows
  <2> QED BY <2>2, <2>3
<1> HIDE DEF row
<1>6. RowsGrow
  BY <1>3, <1>4, <1>5, Growing
<1> QED BY <1>6, Preserved DEF SaveEssayDraft, IInv, Shape, States, TasksOver, Started

\* The first step: what the request's checks see is so.
LEMMA Received ==
  ASSUME IInv, NEW i \in Requests, NEW op \in Ops, NEW t \in 0..Len(rows), Receive(i, op, t)
  PROVE  IInv'
<1> DEFINE view == [p \in DOMAIN rows |-> IF op = "all" \/ p = t THEN rows[p].status ELSE Unread]
           r == [op |-> op, at |-> "received", t |-> t, sub |-> "NONE",
                 sess |-> IF op = "all" THEN Unread ELSE state, view |-> view]
<1>1. rows \in Seq(Row) /\ \A p \in DOMAIN rows : rows[p].status \in Status
  <2>1. rows \in Seq(Row) BY DEF IInv, Shape
  <2>2. \A p \in DOMAIN rows : rows[p] \in Row BY <2>1
  <2> QED BY <2>1, <2>2 DEF Row
<1>2. view \in Seq(Seen) /\ Len(view) = Len(rows)
  <2>1. view \in [1..Len(rows) -> Seen] /\ Len(rows) \in Nat
    BY <1>1 DEF Seen
  <2> HIDE DEF view
  <2> QED BY <2>1
<1>3. Accepts(op, t) /\ req' = [req EXCEPT ![i] = r]
  BY DEF Receive
<1>4. op \notin {"start", "all"} => t \in DOMAIN rows
  BY <1>3 DEF Accepts, Ops
<1>5. op \in {"start", "all"} => t = 0
  BY <1>3 DEF Accepts
<1>6. state # "NONE"
  <2>1. SUFFICES ASSUME state = "NONE" PROVE FALSE OBVIOUS
  <2>2. rows = <<>> BY <2>1 DEF IInv, Begun
  <2>3. op \in {"start", "all"} BY <1>4, <2>2
  <2> QED BY <1>3, <2>1, <2>3 DEF Accepts, AcceptsAll
<1>7. /\ op = "start" => state \in {"TOPIC_REQUIRED", "TASK_REQUIRED"}
      /\ op \in {"submit", "skip"} => Survey(t) /\ rows[t].status = "ACTIVE"
      /\ op = "skip" => ~plan.items[t].required
      /\ op = "all" => plan.mode \in {"REVIEW", "FREE"}
  BY <1>3 DEF Accepts, AcceptsAll, AcceptsSurvey
<1>8. /\ op = "essay" => Type(t) = "ESSAY" /\ ~Done(rows[t].status)
      /\ op = "questions" => Type(t) = "QUESTION" /\ rows[t].status # "FINALIZED"
  BY <1>3 DEF Accepts, AcceptsFinalize, Done
<1>9. t \in DOMAIN rows => view[t] = rows[t].status
  OBVIOUS
<1>10. \A p \in DOMAIN view : view[p] \in {rows[p].status, Unread}
  OBVIOUS
<1>11. DOMAIN view = DOMAIN rows
  OBVIOUS
<1> HIDE DEF view
<1>12. r \in Request
  <2>1. t \in Nat BY <1>1
  <2> QED BY <1>2, <2>1 DEF Request, Submission, IInv, Shape
<1>13. Fits(r)
  BY <1>2, <1>4, <1>5, <1>7, <1>8, <1>9 DEF Fits, Checked
<1>14. SeenAnswered(r)
  <2> SUFFICES ASSUME NEW p \in DOMAIN view, Done(view[p]) PROVE Answered(p)
    BY DEF SeenAnswered
  <2>1. view[p] = rows[p].status /\ p \in DOMAIN rows
    BY <1>10, <1>11 DEF Done, Unread
  <2>2. rows[p].status = "SKIPPED" => Answers(p, rows[p])
    BY <2>1 DEF IInv, SkipsAllowed, ClosedHasAnswer, Answers
  <2> QED BY <2>1, <2>2, AnsweredByType DEF IInv, ClosedHasAnswer, Done
<1> HIDE DEF r
<1>15. req' \in [Requests -> Request] /\ req'[i] = r /\ \A j \in Requests \ {i} : req'[j] = req[j]
  BY <1>3, <1>12 DEF IInv, Shape
<1>16. RowsGrow
  BY NotGrowing DEF Receive
<1> QED
  BY <1>6, <1>13, <1>14, <1>15, <1>16, Preserved DEF Receive, IInv, Shape

\* The second step: the other rows are seen as they are now.
LEMMA Loaded ==
  ASSUME IInv, NEW i \in Requests, Load(i)
  PROVE  IInv'
<1> DEFINE old == req[i]
           view == [p \in DOMAIN rows |-> IF p = old.t THEN old.view[p] ELSE rows[p].status]
           r == [old EXCEPT !.at = "loaded", !.view = view, !.sub = IF old.t = 0 THEN "NONE" ELSE rows[old.t].sub]
<1>1. rows \in Seq(Row) /\ \A p \in DOMAIN rows : rows[p].status \in Status /\ rows[p].sub \in Submission
  <2>1. rows \in Seq(Row) BY DEF IInv, Shape
  <2>2. \A p \in DOMAIN rows : rows[p] \in Row BY <2>1
  <2> QED BY <2>1, <2>2 DEF Row
<1>2. /\ state # "NONE" /\ old \in Request
      /\ old.view \in Seq(Seen) /\ DOMAIN old.view = DOMAIN rows
      /\ IF old.op \in {"start", "all"} THEN old.t = 0 ELSE old.t \in DOMAIN rows
      /\ Checked(old) /\ old.op \in Ops \ {"all"}
      /\ \A p \in DOMAIN rows : Done(old.view[p]) => Answered(p)
  BY UnderWay DEF Load
<1>3. view \in Seq(Seen) /\ Len(view) = Len(rows) /\ DOMAIN view = DOMAIN rows
  <2>1. \A p \in DOMAIN rows : old.view[p] \in Seen
    BY <1>2
  <2>2. view \in [1..Len(rows) -> Seen] /\ Len(rows) \in Nat
    BY <1>1, <2>1 DEF Seen
  <2> HIDE DEF view
  <2>3. view \in Seq(Seen) /\ Len(view) = Len(rows)
    BY <2>2
  <2> QED BY <1>1, <2>3
<1>4. old.t \in DOMAIN rows => view[old.t] = old.view[old.t]
  OBVIOUS
<1>5. \A p \in DOMAIN view : view[p] = old.view[p] \/ view[p] = rows[p].status
  OBVIOUS
<1>6. req' = [req EXCEPT ![i] = r]
  BY <1>2 DEF Load, Request
<1> HIDE DEF view
<1>7. r \in Request
  <2>1. old.t # 0 => old.t \in DOMAIN rows BY <1>2
  <2> QED BY <1>1, <1>2, <1>3, <2>1 DEF Request, Submission
<1>8. r.op = old.op /\ r.t = old.t /\ r.sess = old.sess /\ r.view = view /\ r.at = "loaded"
  BY <1>2 DEF Request
<1> HIDE DEF r
<1>9. Fits(r)
  <2>1. Checked(r)
    BY <1>2, <1>4, <1>8 DEF Checked
  <2> QED BY <1>2, <1>3, <1>8, <2>1 DEF Fits
<1>10. SeenAnswered(r)
  <2> SUFFICES ASSUME NEW p \in DOMAIN view, Done(view[p]) PROVE Answered(p)
    BY <1>8 DEF SeenAnswered
  <2>1. CASE view[p] = old.view[p]
    BY <1>2, <1>3, <2>1
  <2>2. CASE view[p] = rows[p].status
    <3>1. rows[p].status = "SKIPPED" => Answers(p, rows[p])
      BY <1>3, <2>2 DEF IInv, SkipsAllowed, ClosedHasAnswer, Answers
    <3> QED BY <1>3, <2>2, <3>1, AnsweredByType DEF IInv, ClosedHasAnswer, Done
  <2> QED BY <1>5, <2>1, <2>2
<1>11. req' \in [Requests -> Request] /\ req'[i] = r /\ \A j \in Requests \ {i} : req'[j] = req[j]
  BY <1>6, <1>7 DEF IInv, Shape
<1>12. RowsGrow
  BY NotGrowing DEF Load
<1> HIDE DEF old
<1> QED
  BY <1>2, <1>9, <1>10, <1>11, <1>12, Preserved DEF Load, IInv, Shape

-----------------------------------------------------------------------------
(* The commits. *)

\* A commit that closes nothing.
LEMMA Opening ==
  ASSUME IInv, plan' = plan, NEW view \in Seq(Seen), NEW new \in Seq(Seen),
         Len(view) = Len(rows), Len(new) = Len(rows), rows' = Written(view, new),
         \A p \in DOMAIN rows : new[p] = view[p] \/ new[p] \in {"LOCKED", "ACTIVE", "AVAILABLE", "COMPLETED"}
  PROVE  RowsGrow
<1>1. /\ rows' \in Seq(Row) /\ Len(rows') = Len(rows)
      /\ \A p \in DOMAIN rows : /\ rows'[p].status = IF new[p] # view[p] THEN new[p] ELSE rows[p].status
                                /\ rows'[p].sub = rows[p].sub /\ rows'[p].essays = rows[p].essays
  BY WrittenRows DEF IInv, Unread
<1>2. rows \in Seq(Row) BY DEF IInv, Shape
<1>3. ASSUME NEW p \in DOMAIN rows PROVE RowGrows(p)
  <2>1. rows[p] \in Row BY <1>2
  <2>2. rows[p].essays \in Nat BY <2>1 DEF Row, MaxEssays
  <2> QED BY <1>1, <1>3, <2>2 DEF RowGrows, Done
<1> QED BY <1>1, <1>3, Growing

\* A commit that closes task t with a status and its answer in the row, view
\* being what the handler loaded, and own and new what it makes of it.
Closes(t, status, view, own, new, row) ==
  /\ t \in DOMAIN rows /\ status \in {"FINALIZED", "SKIPPED"} /\ row \in Row
  /\ view \in Seq(Seen) /\ Len(view) = Len(rows) /\ view[t] # status
  /\ own = [view EXCEPT ![t] = status]
  /\ new \in Seq(Seen) /\ Len(new) = Len(rows)
  /\ \A p \in DOMAIN rows : \/ new[p] = own[p]
                            \/ ~Done(own[p]) /\ new[p] \in {"ACTIVE", "AVAILABLE"}
  /\ rows' = [Written(view, new) EXCEPT ![t] = row]
  /\ row.status = Written(view, new)[t].status
  /\ row.essays >= rows[t].essays
  /\ \/ row.sub = rows[t].sub
     \/ Survey(t) /\ row.sub = "SUBMITTED"
     \/ Type(t) = "QUESTION" /\ row.sub = "FINALIZED"
     \/ Survey(t) /\ ~plan.items[t].required /\ row.sub = "SKIPPED"
  /\ Answers(t, row)
  /\ IF status = "SKIPPED" THEN Survey(t) /\ row.sub = "SKIPPED" ELSE row.sub # "SKIPPED"

LEMMA Closing ==
  ASSUME IInv, plan' = plan, NEW t, NEW status, NEW view, NEW own, NEW new, NEW row,
         Closes(t, status, view, own, new, row)
  PROVE  RowsGrow /\ Answered(t)'
<1> DEFINE w == Written(view, new)
<1>1. rows \in Seq(Row) /\ view[t] \in Seen /\ DOMAIN view = DOMAIN rows
  <2>1. rows \in Seq(Row) BY DEF IInv, Shape
  <2> QED BY <2>1 DEF Closes
<1>2. \A p \in DOMAIN rows : /\ p = t => own[p] = status
                             /\ p # t => own[p] = view[p]
  BY <1>1 DEF Closes
<1>3. /\ w \in Seq(Row) /\ Len(w) = Len(rows)
      /\ \A p \in DOMAIN rows : /\ w[p].status = IF new[p] # view[p] THEN new[p] ELSE rows[p].status
                                /\ w[p].sub = rows[p].sub /\ w[p].essays = rows[p].essays
  <2>1. \A p \in DOMAIN rows : new[p] # view[p] => new[p] # Unread
    BY <1>2 DEF Done, Unread, Closes
  <2> QED BY <2>1, WrittenRows DEF IInv, Closes
<1>4. new[t] = status
  BY <1>2 DEF Done, Closes
<1>5. row.status = status
  BY <1>3, <1>4 DEF Closes
<1> HIDE DEF w
<1>6. /\ rows' \in Seq(Row) /\ Len(rows') = Len(rows) /\ rows'[t] = row
      /\ \A p \in DOMAIN rows : p # t => rows'[p] = w[p]
  BY <1>1, <1>3 DEF w, Closes
<1>7. Answered(t)'
  BY <1>6, AnsweredByType DEF IInv, Closes
<1>8. ASSUME NEW p \in DOMAIN rows PROVE RowGrows(p)
  <2>1. rows[p] \in Row BY <1>1
  <2>2. rows[p].essays \in Nat BY <2>1 DEF Row, MaxEssays
  <2>3. CASE p = t
    BY <1>5, <1>6, <1>7, <2>3 DEF RowGrows, Closes
  <2>4. CASE p # t
    <3>1. new[p] = view[p] \/ new[p] \in {"ACTIVE", "AVAILABLE"}
      BY <1>2, <2>4 DEF Closes
    <3> QED BY <1>3, <1>6, <2>2, <2>4, <3>1 DEF RowGrows, Done
  <2> QED BY <2>3, <2>4
<1> QED BY <1>6, <1>7, <1>8, Growing

\* What StartsOnce asks of a step.
Forward ==
  state \in Started =>
    /\ state' \in Started
    /\ \A p \in DOMAIN rows : rows'[p].status = "LOCKED" => rows[p].status = "LOCKED"

\* A commit that locks no task in its view locks none at all.
LEMMA WritesForward ==
  ASSUME Shape, NEW view \in Seq(Seen), NEW new \in Seq(Seen), Len(view) = Len(rows), Len(new) = Len(rows),
         \A p \in DOMAIN rows : new[p] = view[p] \/ new[p] \in Status \ {"LOCKED"},
         NEW p \in DOMAIN rows
  PROVE  Written(view, new)[p].status = "LOCKED" => rows[p].status = "LOCKED"
<1>1. \A q \in DOMAIN rows : new[q] # view[q] => new[q] # Unread
  BY DEF Status, Unread
<1>2. Written(view, new)[p].status = IF new[p] # view[p] THEN new[p] ELSE rows[p].status
  BY <1>1, WrittenRows
<1> QED BY <1>2

LEMMA ClosesForward ==
  ASSUME Shape, NEW t, NEW status, NEW view, NEW own, NEW new, NEW row,
         Closes(t, status, view, own, new, row)
  PROVE  \A p \in DOMAIN rows : rows'[p].status = "LOCKED" => rows[p].status = "LOCKED"
<1> SUFFICES ASSUME NEW p \in DOMAIN rows
             PROVE  rows'[p].status = "LOCKED" => rows[p].status = "LOCKED"
  OBVIOUS
<1> DEFINE w == Written(view, new)
<1>1. rows \in Seq(Row) /\ DOMAIN view = DOMAIN rows
  <2>1. rows \in Seq(Row) BY DEF Shape
  <2> QED BY <2>1 DEF Closes
<1>2. \A q \in DOMAIN rows : q # t => own[q] = view[q]
  BY <1>1 DEF Closes
<1>3. own[t] = status /\ t \in DOMAIN rows /\ status \in {"FINALIZED", "SKIPPED"}
  BY <1>1 DEF Closes
<1>4. \A q \in DOMAIN rows : new[q] = view[q] \/ new[q] \in Status \ {"LOCKED"}
  BY <1>2, <1>3 DEF Closes, Status
<1>5. w[p].status = "LOCKED" => rows[p].status = "LOCKED"
  BY <1>4, WritesForward DEF Closes
<1>6. p \in DOMAIN w BY DEF Written
<1> HIDE DEF w
<1>7. rows'[p].status = w[p].status
  BY <1>6 DEF Closes, w
<1> QED BY <1>5, <1>7

LEMMA StartCommitted ==
  ASSUME IInv, NEW i \in Requests, CommitStart(i)
  PROVE  IInv' /\ Forward
<1> DEFINE view == req[i].view
           new == InitialRows(view)
<1>1. state # "NONE" /\ view \in Seq(Seen) /\ Len(view) = Len(rows) /\ DOMAIN view = DOMAIN rows
  BY UnderWay DEF CommitStart
<1>2. new \in Seq(Seen) /\ Len(new) = Len(rows) /\ \A q \in DOMAIN rows : new[q] \in {"LOCKED", "ACTIVE", "AVAILABLE"}
  BY <1>1, InitialOpens
<1>3. rows' = Written(view, new) /\ plan' = plan
  BY DEF CommitStart
<1> HIDE DEF view, new
<1>4. RowsGrow
  BY <1>1, <1>2, <1>3, Opening
<1>5. Idle \in Request
  <2>1. <<>> \in Seq(Seen) OBVIOUS
  <2> QED BY <2>1 DEF Idle, Request, Submission
<1>6. req' \in [Requests -> Request] /\ \A j \in Requests : req'[j] = Idle \/ req'[j] = req[j]
  BY <1>5 DEF CommitStart, IInv, Shape
<1>7. state \notin Started
  BY UnderWay DEF CommitStart, Checked, Started
<1>8. IInv'
  BY <1>1, <1>4, <1>6, Preserved DEF CommitStart, IInv, Shape, States, TasksOver, Started
<1> QED BY <1>7, <1>8 DEF Forward

\* One more stage is closed, with its answer, and the next ones open; in a
\* strict plan the session moves on only when the view shows no open stage.
LEMMA StageCommitted ==
  ASSUME IInv, NEW i \in Requests, CommitStage(i)
  PROVE  IInv' /\ Forward
<1>t. PICK t \in DOMAIN rows : t = req[i].t
  BY UnderWay DEF CommitStage
<1> DEFINE view == req[i].view
           op == req[i].op
           status == OwnStatus(op)
           own == [view EXCEPT ![t] = status]
           new == AdvancedRows(own, t, FALSE)
           w == Written(view, new)
           row == WithAnswer(w[t], op)
           next == AdvancedState(req[i].sess, own, t, FALSE)
<1>1. /\ op \in {"submit", "skip", "essay", "questions"} /\ plan' = plan
      /\ rows' = [w EXCEPT ![t] = row]
      /\ state' = Changed(req[i].sess, next, state)
      /\ req' = [req EXCEPT ![i] = Idle] /\ superseded' = superseded /\ failing' = failing
  <2>1. rows' = [Written(view, new) EXCEPT ![t] = WithAnswer(@, op)]
    BY <1>t DEF CommitStage
  <2>3. t \in DOMAIN w
    BY DEF Written
  <2> HIDE DEF view, own, new
  <2>4. rows' = [w EXCEPT ![t] = row]
    BY <2>1, <2>3
  <2> QED BY <1>t, <2>4 DEF CommitStage, view, own, new
<1>2. /\ state # "NONE" /\ view \in Seq(Seen) /\ Len(view) = Len(rows) /\ DOMAIN view = DOMAIN rows
      /\ t \in DOMAIN rows /\ Checked(req[i])
      /\ \A p \in DOMAIN rows : Done(view[p]) => Answered(p)
  BY <1>t, UnderWay DEF CommitStage
<1>3. status \in {"FINALIZED", "SKIPPED"} /\ view[t] # status
  BY <1>t, <1>1, <1>2 DEF Checked, OwnStatus, Done
<1> HIDE DEF status, view, op
<1>4. own \in Seq(Seen) /\ Len(own) = Len(rows)
  BY <1>2, <1>3 DEF Seen, Status
<1>5. own[t] = status /\ \A p \in DOMAIN rows : p # t => own[p] = view[p]
  BY <1>2
<1>6. DOMAIN own = DOMAIN rows
  BY <1>2
<1> HIDE DEF own
<1>7. /\ new \in Seq(Seen) /\ Len(new) = Len(rows)
      /\ \A p \in DOMAIN rows : new[p] = own[p] \/ (~Done(own[p]) /\ new[p] \in {"ACTIVE", "AVAILABLE"})
  BY <1>4, <1>6, AdvanceOpens
<1> HIDE DEF new
<1>8. w \in Seq(Row) /\ Len(w) = Len(rows) /\ w[t].sub = rows[t].sub /\ w[t].essays = rows[t].essays
  <2>1. \A p \in DOMAIN rows : new[p] # view[p] => new[p] # Unread
    BY <1>3, <1>5, <1>7 DEF Unread
  <2> QED BY <1>2, <1>7, <2>1, WrittenRows DEF IInv
<1>9. w[t] \in Row
  <2>1. rows \in Seq(Row) BY DEF IInv, Shape
  <2> QED BY <1>2, <1>8, <2>1
<1> HIDE DEF w
<1>10. row \in Row /\ row.status = w[t].status
  <2>1. OwnSubmission(op) \in Submission \/ op = "essay"
    BY <1>1 DEF OwnSubmission, Submission
  <2>2. OneMoreEssay(w[t].essays) \in 0..MaxEssays
    BY <1>9 DEF Row, OneMoreEssay, MaxEssays
  <2>3. CASE op = "essay"
    BY <1>9, <2>2, <2>3 DEF WithAnswer, Row
  <2>4. CASE op # "essay"
    BY <1>9, <2>1, <2>4 DEF WithAnswer, Row
  <2> QED BY <2>3, <2>4
<1>11. rows[t].essays \in Nat /\ w[t].essays = rows[t].essays
  BY <1>8, <1>9 DEF Row, MaxEssays
<1>12. ASSUME op = "essay" PROVE Closes(t, status, view, own, new, row)
  <2>1. Type(t) = "ESSAY"
    BY <1>t, <1>2, <1>12 DEF Checked, op
  <2>2. row.sub = rows[t].sub /\ row.essays >= rows[t].essays /\ row.essays > 0
    BY <1>8, <1>9, <1>11, <1>12 DEF WithAnswer, OneMoreEssay, MaxEssays, Row
  <2>3. status = "FINALIZED"
    BY <1>12 DEF status, OwnStatus
  <2>4. row.sub # "SKIPPED"
    BY <1>2, <2>1, <2>2 DEF IInv, SkipsAllowed, Survey
  <2>5. Answers(t, row)
    BY <2>1, <2>2 DEF Answers
  <2> HIDE DEF row
  <2> QED BY <1>1, <1>2, <1>3, <1>7, <1>10, <2>2, <2>3, <2>4, <2>5 DEF Closes, own, w
<1>13. ASSUME op # "essay" PROVE Closes(t, status, view, own, new, row)
  <2>1. row.sub = OwnSubmission(op) /\ row.essays >= rows[t].essays
    BY <1>9, <1>11, <1>13 DEF WithAnswer, Row
  <2>2. \/ op = "submit" /\ Survey(t) /\ row.sub = "SUBMITTED" /\ status = "FINALIZED"
        \/ op = "skip" /\ Survey(t) /\ ~plan.items[t].required /\ row.sub = "SKIPPED" /\ status = "SKIPPED"
        \/ op = "questions" /\ Type(t) = "QUESTION" /\ row.sub = "FINALIZED" /\ status = "FINALIZED"
    BY <1>t, <1>1, <1>2, <1>13, <2>1 DEF OwnSubmission, OwnStatus, Checked, op, status
  <2>3. Answers(t, row)
    BY <2>2 DEF Answers
  <2> HIDE DEF row
  <2> QED BY <1>1, <1>2, <1>3, <1>7, <1>10, <2>1, <2>2, <2>3 DEF Closes, own, w
<1>14. RowsGrow /\ Answered(t)'
  <2> HIDE DEF row
  <2> QED BY <1>1, <1>12, <1>13, Closing
<1>f. \A p \in DOMAIN rows : rows'[p].status = "LOCKED" => rows[p].status = "LOCKED"
  <2> HIDE DEF row
  <2> QED BY <1>12, <1>13, ClosesForward DEF IInv
<1>15. next \in {req[i].sess, "POST_SURVEY_REQUIRED", "THANK_YOU_REQUIRED"}
       /\ (plan.mode = "STRICT" /\ next # req[i].sess => \A q \in DOMAIN own : Done(own[q]))
  BY AdvanceState
<1>16. state' \in States \ {"NONE"}
  BY <1>1, <1>2, <1>15 DEF Changed, IInv, Shape, States
<1>17. plan.mode = "STRICT" /\ state' \in TasksOver => state \in TasksOver \/ \A p \in DOMAIN rows : Answered(p)'
  <2> SUFFICES ASSUME plan.mode = "STRICT", next # req[i].sess, NEW p \in DOMAIN rows PROVE Answered(p)'
    <3> HIDE DEF next
    <3>1. next = req[i].sess => state' = state BY <1>1 DEF Changed
    <3> QED BY <3>1
  <2>1. Done(own[p])
    BY <1>6, <1>15
  <2>2. p # t => Answered(p)
    BY <1>2, <1>5, <2>1
  <2> QED BY <1>14, <2>2 DEF RowsGrow
<1>s. state \in Started => state' \in Started
  BY <1>1, <1>15 DEF Changed, Started
<1> HIDE DEF next
<1>18. Idle \in Request
  <2>1. <<>> \in Seq(Seen) OBVIOUS
  <2> QED BY <2>1 DEF Idle, Request, Submission
<1>19. req' \in [Requests -> Request] /\ \A j \in Requests : req'[j] = Idle \/ req'[j] = req[j]
  BY <1>1, <1>18 DEF IInv, Shape
<1>20. IInv'
  BY <1>1, <1>2, <1>14, <1>16, <1>17, <1>19, Preserved DEF IInv, Shape
<1> QED BY <1>f, <1>s, <1>20 DEF Forward

\* _unlock_after_review opens the next task; nothing is closed.
LEMMA CompleteCommitted ==
  ASSUME IInv, NEW i \in Requests, CommitComplete(i)
  PROVE  IInv' /\ Forward
<1>t. PICK t \in DOMAIN rows : t = req[i].t
  BY UnderWay DEF CommitComplete
<1> DEFINE view == req[i].view
           own == [view EXCEPT ![t] = "COMPLETED"]
           n == t + 1
           new == IF n \in DOMAIN own /\ ~Survey(n) /\ own[n] = "LOCKED"
                  THEN [own EXCEPT ![n] = "ACTIVE"] ELSE own
<1>1. state # "NONE" /\ view \in Seq(Seen) /\ Len(view) = Len(rows) /\ DOMAIN view = DOMAIN rows
  BY UnderWay DEF CommitComplete
<1>2. rows' = Written(view, new) /\ plan' = plan
  BY <1>t DEF CommitComplete
<1> HIDE DEF view
<1>3. own \in Seq(Seen) /\ Len(own) = Len(rows) /\ DOMAIN own = DOMAIN rows
      /\ \A p \in DOMAIN rows : own[p] = view[p] \/ own[p] = "COMPLETED"
  BY <1>1 DEF Seen, Status
<1> HIDE DEF own
<1>4. new \in Seq(Seen) /\ Len(new) = Len(rows)
      /\ \A p \in DOMAIN rows : new[p] = view[p] \/ new[p] \in {"ACTIVE", "COMPLETED"}
  <2>1. CASE new = own
    BY <1>3, <2>1
  <2>2. CASE n \in DOMAIN own /\ new = [own EXCEPT ![n] = "ACTIVE"]
    <3> HIDE DEF n, new
    <3> QED BY <1>3, <2>2 DEF Seen, Status
  <2> QED BY <2>1, <2>2
<1> HIDE DEF new
<1>5. RowsGrow
  BY <1>1, <1>2, <1>4, Opening
<1>6. Idle \in Request
  <2>1. <<>> \in Seq(Seen) OBVIOUS
  <2> QED BY <2>1 DEF Idle, Request, Submission
<1>7. req' \in [Requests -> Request] /\ \A j \in Requests : req'[j] = Idle \/ req'[j] = req[j]
  BY <1>6 DEF CommitComplete, IInv, Shape
<1>8. IInv'
  BY <1>1, <1>5, <1>7, Preserved DEF CommitComplete, IInv, Shape
<1>9. \A p \in DOMAIN rows : rows'[p].status = "LOCKED" => rows[p].status = "LOCKED"
  BY <1>1, <1>2, <1>4, WritesForward DEF IInv, Status
<1> QED BY <1>8, <1>9 DEF CommitComplete, Forward

\* finalize_all_tasks takes one task after the other that its view shows open.
LEMMA NextRemaining ==
  ASSUME IInv, NEW i \in Requests, NEW p, Finalizing(i, p)
  PROVE  p \in DOMAIN rows /\ ~Survey(p) /\ ~Done(req[i].view[p])
<1>1. rows \in Seq(Row) BY DEF IInv, Shape
<1>2. Remaining(i) \in SUBSET Nat /\ Remaining(i) # {}
  BY <1>1 DEF Remaining, TaskRows, Finalizing
<1>3. p \in Remaining(i)
  BY <1>2, MinIsLeast DEF Finalizing
<1> QED BY <1>3 DEF Remaining, TaskRows

\* The request goes on with what it made of its view.
LEMMA RowFinalized ==
  ASSUME IInv, NEW i \in Requests, NEW p \in DOMAIN rows, Finalizing(i, p),
         NEW new, NEW row, NEW sess \in States \union {Unread},
         Closes(p, "FINALIZED", req[i].view, [req[i].view EXCEPT ![p] = "FINALIZED"], new, row),
         req' = [req EXCEPT ![i] = [@ EXCEPT !.view = new, !.sess = sess]],
         state' \in States \ {"NONE"}, state \in Started => state' \in Started,
         UNCHANGED <<plan, superseded, failing>>
  PROVE  IInv' /\ Forward
<1> DEFINE view == req[i].view
           own == [view EXCEPT ![p] = "FINALIZED"]
           r == [req[i] EXCEPT !.view = new, !.sess = sess]
<1>1. /\ state # "NONE" /\ req[i] \in Request /\ DOMAIN view = DOMAIN rows
      /\ req[i].op = "all" /\ req[i].at = "received" /\ req[i].t = 0
      /\ plan.mode \in {"REVIEW", "FREE"}
      /\ \A q \in DOMAIN rows : Done(view[q]) => Answered(q)
  BY UnderWay DEF Finalizing, Checked
<1>2. RowsGrow /\ Answered(p)'
  BY Closing
<1>3. /\ new \in Seq(Seen) /\ Len(new) = Len(rows)
      /\ \A q \in DOMAIN rows : \/ new[q] = own[q]
                                \/ ~Done(own[q]) /\ new[q] \in {"ACTIVE", "AVAILABLE"}
  BY DEF Closes
<1>4. req' = [req EXCEPT ![i] = r]
  OBVIOUS
<1>5. r \in Request /\ r.op = "all" /\ r.at = "received" /\ r.t = 0 /\ r.view = new
  BY <1>1, <1>3 DEF Request
<1>6. Fits(r)
  BY <1>1, <1>3, <1>5 DEF Fits, Checked, Ops
<1>7. DOMAIN new = DOMAIN rows
  <2>1. rows \in Seq(Row) BY DEF IInv, Shape
  <2> QED BY <1>3, <2>1
<1>8. \A q \in DOMAIN rows : q # p => own[q] = view[q]
  BY <1>1
<1>9. ASSUME NEW q \in DOMAIN new, Done(new[q]) PROVE Answered(q)'
  <2>1. q # p => Done(view[q])
    BY <1>3, <1>7, <1>8, <1>9 DEF Done
  <2> QED BY <1>1, <1>2, <1>7, <2>1 DEF RowsGrow
<1> HIDE DEF r
<1>10. req' \in [Requests -> Request] /\ req'[i] = r /\ \A j \in Requests \ {i} : req'[j] = req[j]
  BY <1>4, <1>5 DEF IInv, Shape
<1>11. SeenAnswered(req[i])'
  BY <1>5, <1>9, <1>10 DEF SeenAnswered, Done
<1>12. IInv'
  BY <1>1, <1>2, <1>6, <1>10, <1>11, Preserved DEF IInv, Shape
<1> QED BY <1>12, ClosesForward DEF Forward, IInv

\* A question: its submission is final, and nothing opens.
LEMMA QuestionRowFinalized ==
  ASSUME IInv, NEW i \in Requests, NEW p \in DOMAIN rows, FinalizeQuestionRow(i, p)
  PROVE  IInv' /\ Forward
<1> DEFINE view == req[i].view
           own == [view EXCEPT ![p] = "FINALIZED"]
           w == Written(view, own)
           row == [w[p] EXCEPT !.sub = "FINALIZED"]
<1>1. /\ Finalizing(i, p) /\ Type(p) = "QUESTION" /\ UNCHANGED <<plan, superseded, state, failing>>
      /\ req' = [req EXCEPT ![i] = [@ EXCEPT !.view = own]]
      /\ rows' = [w EXCEPT ![p] = row]
  <2>1. p \in DOMAIN w BY DEF Written
  <2>2. rows' = [w EXCEPT ![p].sub = "FINALIZED"] BY DEF FinalizeQuestionRow
  <2>3. rows' = [w EXCEPT ![p] = row]
    <3> HIDE DEF w
    <3> QED BY <2>1, <2>2
  <2> QED BY <2>3 DEF FinalizeQuestionRow
<1>2. /\ state # "NONE" /\ req[i] \in Request /\ view \in Seq(Seen) /\ Len(view) = Len(rows)
      /\ DOMAIN view = DOMAIN rows /\ ~Done(view[p])
  BY <1>1, UnderWay, NextRemaining DEF Finalizing
<1>3. own \in Seq(Seen) /\ Len(own) = Len(rows)
  BY <1>2 DEF Seen, Status
<1>4. w \in Seq(Row) /\ Len(w) = Len(rows) /\ w[p].essays = rows[p].essays
  <2>1. \A q \in DOMAIN rows : own[q] # view[q] => own[q] # Unread
    BY <1>2 DEF Unread
  <2> HIDE DEF own
  <2> QED BY <1>2, <1>3, <2>1, WrittenRows DEF IInv
<1>5. w[p] \in Row /\ rows[p].essays \in Nat
  <2>1. rows \in Seq(Row) BY DEF IInv, Shape
  <2>2. w[p] \in Row
    <3> HIDE DEF w
    <3> QED BY <1>4, <2>1
  <2>3. rows[p] \in Row BY <2>1
  <2> QED BY <2>2, <2>3 DEF Row, MaxEssays
<1> HIDE DEF w
<1>6. row \in Row /\ row.status = w[p].status /\ row.essays >= rows[p].essays /\ row.sub = "FINALIZED"
  BY <1>4, <1>5 DEF Row, Submission
<1>7. Answers(p, row)
  BY <1>1, <1>6 DEF Answers
<1> HIDE DEF row
<1>8. Closes(p, "FINALIZED", view, own, own, row)
  BY <1>1, <1>2, <1>3, <1>6, <1>7 DEF Closes, w, Done
<1>9. req' = [req EXCEPT ![i] = [@ EXCEPT !.view = own, !.sess = req[i].sess]]
  <2>1. [req[i] EXCEPT !.view = own] = [req[i] EXCEPT !.view = own, !.sess = req[i].sess]
    BY <1>2 DEF Request
  <2> QED BY <1>1, <2>1
<1>10. req[i].sess \in States \union {Unread}
  BY <1>2 DEF Request
<1>11. state' \in States \ {"NONE"}
  BY <1>1, <1>2 DEF IInv, Shape
<1> QED
  BY <1>1, <1>8, <1>9, <1>10, <1>11, RowFinalized

\* An essay: one more is stored, and what advance_after_stage opens opens.
LEMMA EssayRowFinalized ==
  ASSUME IInv, NEW i \in Requests, NEW p \in DOMAIN rows, FinalizeEssayRow(i, p)
  PROVE  IInv' /\ Forward
<1> DEFINE view == req[i].view
           own == [view EXCEPT ![p] = "FINALIZED"]
           new == AdvancedRows(own, p, FALSE)
           w == Written(view, new)
           row == [w[p] EXCEPT !.essays = OneMoreEssay(@)]
           s == AdvancedState(SessionOf(i), own, p, FALSE)
<1>1. /\ Finalizing(i, p) /\ Type(p) = "ESSAY" /\ UNCHANGED <<plan, superseded, failing>>
      /\ req' = [req EXCEPT ![i] = [@ EXCEPT !.view = new, !.sess = s]]
      /\ rows' = [w EXCEPT ![p] = row]
      /\ state' = Changed(SessionOf(i), s, state)
  <2>1. p \in DOMAIN w BY DEF Written
  <2>2. rows' = [w EXCEPT ![p].essays = OneMoreEssay(@)] BY DEF FinalizeEssayRow
  <2>3. rows' = [w EXCEPT ![p] = row]
    <3> HIDE DEF w
    <3> QED BY <2>1, <2>2
  <2> QED BY <2>3 DEF FinalizeEssayRow
<1>2. /\ state # "NONE" /\ req[i] \in Request /\ view \in Seq(Seen) /\ Len(view) = Len(rows)
      /\ DOMAIN view = DOMAIN rows /\ ~Done(view[p])
  BY <1>1, UnderWay, NextRemaining DEF Finalizing
<1>3. own \in Seq(Seen) /\ Len(own) = Len(rows) /\ DOMAIN own = DOMAIN rows
      /\ \A q \in DOMAIN rows : own[q] = view[q] \/ own[q] = "FINALIZED"
  BY <1>2 DEF Seen, Status
<1>4. /\ new \in Seq(Seen) /\ Len(new) = Len(rows)
      /\ \A q \in DOMAIN rows : new[q] = own[q] \/ (~Done(own[q]) /\ new[q] \in {"ACTIVE", "AVAILABLE"})
  <2> HIDE DEF own
  <2> QED BY <1>3, AdvanceOpens
<1>5. s \in {SessionOf(i), "POST_SURVEY_REQUIRED", "THANK_YOU_REQUIRED"}
  BY AdvanceState
<1>6. SessionOf(i) \in States
  BY <1>2 DEF SessionOf, Request, IInv, Shape
<1>7. s \in States \union {Unread} /\ state' \in States \ {"NONE"}
  BY <1>1, <1>2, <1>5, <1>6 DEF Changed, States, IInv, Shape
<1>f. state \in Started => state' \in Started
  BY <1>1, <1>5 DEF Changed, Started
<1> HIDE DEF new, own, s
<1>8. w \in Seq(Row) /\ Len(w) = Len(rows) /\ w[p].essays = rows[p].essays /\ w[p].sub = rows[p].sub
  <2>1. \A q \in DOMAIN rows : new[q] # view[q] => new[q] # Unread
    BY <1>3, <1>4 DEF Unread
  <2> QED BY <1>2, <1>4, <2>1, WrittenRows DEF IInv
<1>9. rows \in Seq(Row) BY DEF IInv, Shape
<1>10. w[p] \in Row
  <2> HIDE DEF w
  <2> QED BY <1>8, <1>9
<1> HIDE DEF w
<1>11. row \in Row /\ row.status = w[p].status /\ row.essays >= rows[p].essays /\ row.essays > 0
       /\ row.sub = rows[p].sub
  BY <1>8, <1>10 DEF Row, OneMoreEssay, MaxEssays
<1>12. row.sub # "SKIPPED"
  BY <1>1, <1>11 DEF IInv, SkipsAllowed, Survey
<1>13. Answers(p, row)
  BY <1>1, <1>11 DEF Answers
<1> HIDE DEF row
<1>14. Closes(p, "FINALIZED", view, own, new, row)
  BY <1>1, <1>2, <1>4, <1>11, <1>12, <1>13 DEF Closes, own, w, Done
<1> QED
  BY <1>1, <1>7, <1>f, <1>14, RowFinalized DEF own

\* The last commit opens surveys or ends the session; nothing is closed.
LEMMA FinishedAll ==
  ASSUME IInv, NEW i \in Requests, FinishAll(i)
  PROVE  IInv' /\ Forward
<1> DEFINE view == req[i].view
           new == IF TaskRows = {} THEN view ELSE AdvancedRows(view, Max(TaskRows), TRUE)
           s == IF TaskRows = {} THEN "THANK_YOU_REQUIRED"
                ELSE AdvancedState(SessionOf(i), view, Max(TaskRows), TRUE)
<1>1. /\ state # "NONE" /\ req[i] \in Request /\ view \in Seq(Seen) /\ Len(view) = Len(rows)
      /\ DOMAIN view = DOMAIN rows /\ plan.mode \in {"REVIEW", "FREE"}
  BY UnderWay DEF FinishAll, Checked
<1>2. rows' = Written(view, new) /\ state' = Changed(SessionOf(i), s, state)
      /\ UNCHANGED <<plan, superseded, failing>> /\ req' = [req EXCEPT ![i] = Idle]
  BY DEF FinishAll
<1>3. s \in {SessionOf(i), "POST_SURVEY_REQUIRED", "THANK_YOU_REQUIRED"}
  BY AdvanceState
<1>4. state' \in States \ {"NONE"}
  BY <1>1, <1>2, <1>3 DEF Changed, States, IInv, Shape
<1>f. state \in Started => state' \in Started
  BY <1>2, <1>3 DEF Changed, Started
<1> HIDE DEF view, s
<1>5. /\ new \in Seq(Seen) /\ Len(new) = Len(rows)
      /\ \A q \in DOMAIN rows : new[q] = view[q] \/ new[q] \in {"ACTIVE", "AVAILABLE"}
  BY <1>1, AdvanceOpens
<1> HIDE DEF new
<1>6. RowsGrow
  BY <1>1, <1>2, <1>5, Opening
<1>7. Idle \in Request
  <2>1. <<>> \in Seq(Seen) OBVIOUS
  <2> QED BY <2>1 DEF Idle, Request, Submission
<1>8. req' \in [Requests -> Request] /\ \A j \in Requests : req'[j] = Idle \/ req'[j] = req[j]
  BY <1>2, <1>7 DEF IInv, Shape
<1>9. IInv'
  BY <1>1, <1>2, <1>4, <1>6, <1>8, Preserved DEF IInv, Shape
<1>10. \A p \in DOMAIN rows : rows'[p].status = "LOCKED" => rows[p].status = "LOCKED"
  BY <1>1, <1>2, <1>5, WritesForward DEF IInv, Status
<1> QED BY <1>f, <1>9, <1>10 DEF Forward

-----------------------------------------------------------------------------
(* The theorems. *)

LEMMA Step ==
  ASSUME IInv, Next
  PROVE  IInv' /\ Forward
<1>1. ASSUME NEW P \in Plans, CreateSession(P) PROVE IInv' /\ Forward
  BY <1>1, Created DEF CreateSession, Forward, Started
<1>2. CASE Consent \/ SubmitPreSurvey \/ SubmitEssay \/ SubmitPostSurvey \/ CompleteSession
  <2>1. IInv' BY <1>2, SessionMoved
  <2>2. Forward
    BY <1>2 DEF Forward, Started, Consent, SubmitPreSurvey, SubmitEssay, SubmitPostSurvey,
                CompleteSession, Transition
  <2> QED BY <2>1, <2>2
<1>3. CASE Supersede \/ FailuresEnd
  <2>1. UNCHANGED <<plan, state, rows, req>> /\ superseded' \in BOOLEAN /\ failing' \in BOOLEAN
    BY <1>3 DEF Supersede, FailuresEnd, IInv, Shape
  <2> QED BY <2>1, SettingChanged DEF Forward
<1>4. ASSUME NEW p \in DOMAIN rows, OpenTask(p) PROVE IInv' /\ Forward
  <2>1. rows \in Seq(Row) BY DEF IInv, Shape
  <2>2. \A q \in DOMAIN rows : rows[q] \in Row BY <2>1
  <2>3. \A q \in DOMAIN rows : rows'[q].status = rows[q].status
    BY <1>4, <2>1, <2>2 DEF OpenTask, Row
  <2> QED BY <1>4, <2>3, TaskOpened DEF OpenTask, Forward
<1>5. ASSUME NEW p \in DOMAIN rows, NEW text \in BOOLEAN, SaveEssayDraft(p, text) PROVE IInv' /\ Forward
  <2>1. rows \in Seq(Row) BY DEF IInv, Shape
  <2>2. \A q \in DOMAIN rows : rows[q] \in Row BY <2>1
  <2>3. \A q \in DOMAIN rows : rows'[q].status = rows[q].status
    BY <1>5, <2>1, <2>2 DEF SaveEssayDraft, Row
  <2> QED BY <1>5, <2>3, DraftSaved DEF SaveEssayDraft, Forward
<1>6. ASSUME NEW i \in Requests, Work(i) \/ Crash(i) PROVE IInv' /\ Forward
  <2>1. CASE Load(i)
    BY <2>1, Loaded DEF Load, Forward
  <2>2. CASE LoadRefused(i) \/ StartLost(i) \/ Collide(i) \/ Crash(i)
             \/ \E p \in DOMAIN rows : FinalizeEssayRefused(i, p)
    <3>1. Drop(i) /\ req[i].at # "idle"
      BY <2>2 DEF LoadRefused, StartLost, Collide, Crash, FinalizeEssayRefused, Finalizing
    <3> QED BY <3>1, Dropped DEF Drop, Forward
  <2>3. CASE CommitStart(i) BY <2>3, StartCommitted
  <2>4. CASE CommitStage(i) BY <2>4, StageCommitted
  <2>5. CASE CommitComplete(i) BY <2>5, CompleteCommitted
  <2>6. CASE \E p \in DOMAIN rows : FinalizeEssayRow(i, p) BY <2>6, EssayRowFinalized
  <2>7. CASE \E p \in DOMAIN rows : FinalizeQuestionRow(i, p) BY <2>7, QuestionRowFinalized
  <2>8. CASE FinishAll(i) BY <2>8, FinishedAll
  <2> QED BY <1>6, <2>1, <2>2, <2>3, <2>4, <2>5, <2>6, <2>7, <2>8 DEF Work
<1>7. ASSUME NEW i \in Requests, NEW op \in Ops, NEW t \in 0..Len(rows), Receive(i, op, t)
      PROVE  IInv' /\ Forward
  BY <1>7, Received DEF Receive, Forward
<1> QED BY <1>1, <1>2, <1>3, <1>4, <1>5, <1>6, <1>7 DEF Next

\* A state in which nothing changes satisfies both again.
LEMMA Stutter ==
  ASSUME IInv, UNCHANGED vars
  PROVE  IInv' /\ Forward
<1>1. UNCHANGED <<plan, state, rows, req>> /\ superseded' \in BOOLEAN /\ failing' \in BOOLEAN
  BY DEF vars, IInv, Shape
<1> QED BY <1>1, SettingChanged DEF Forward

LEMMA Invariant == Spec => []IInv
<1>1. Init => IInv
  BY Initially
<1>2. IInv /\ [Next]_vars => IInv'
  BY Step, Stutter
<1> QED BY <1>1, <1>2, PTL DEF Spec

\* Every reachable state is well typed: the columns of the session, of its
\* task rows and of what the handlers under way have loaded
\* (models/experiments.py) hold only the values the code writes there.
THEOREM ProgressTypes == Spec => []TypeOK
<1>1. IInv => TypeOK
  <2> SUFFICES ASSUME IInv PROVE TypeOK OBVIOUS
  <2>1. Shape BY DEF IInv
  <2>2. ASSUME NEW i \in Requests
        PROVE  /\ req[i].op \in Ops \union {"idle"}
               /\ req[i].at \in {"idle", "received", "loaded"}
               /\ req[i].t \in 0..Len(rows)
               /\ req[i].sess \in States \union {Unread}
               /\ req[i].view \in Seq(Status \union {Unread})
               /\ req[i].sub \in Submission
    <3>1. req[i] \in Request /\ Fits(req[i]) BY <2>1 DEF IInv, Shape
    <3>2. rows \in Seq(Row) BY <2>1 DEF Shape
    <3>3. req[i].t \in 0..Len(rows)
      <4>1. req[i].t = 0 \/ req[i].t \in DOMAIN rows BY <3>1 DEF Fits, Idle
      <4> QED BY <3>2, <4>1
    <3> QED BY <3>1, <3>3 DEF Request, Seen
  <2> QED BY <2>1, <2>2 DEF Shape, TypeOK, Row
<1> QED BY <1>1, Invariant, PTL

\* A task row that is closed has its answer, whatever the order of the
\* requests and wherever they are interrupted: the submission or essay, the
\* status and the skipping of a survey (submit_survey_task, skip_survey_task,
\* finalize_essay, finalize_questions, finalize_all_tasks) agree.
THEOREM ClosedTasksAnswered == Spec => []ClosedHasAnswer
<1>1. IInv => ClosedHasAnswer
  BY DEF IInv
<1> QED BY <1>1, Invariant, PTL

\* In a strict plan a session gets past its tasks only with every stage
\* answered, although advance_after_stage decides on rows that may be stale.
THEOREM StrictPlansAnswered == Spec => [](plan.mode = "STRICT" => EveryStageAnswered)
<1>1. IInv => (plan.mode = "STRICT" => EveryStageAnswered)
  BY DEF IInv, StrictStagesAnswered
<1> QED BY <1>1, Invariant, PTL

\* Once the tasks are started no handler, however late, takes the session
\* back or locks a task again (the compare-and-swap of start).
THEOREM StartedOnce == Spec => StartsOnce
<1>1. IInv /\ [Next]_vars =>
        ((state \in Started) =>
           /\ state' \in Started
           /\ \A p \in DOMAIN rows : rows'[p].status = "LOCKED" => rows[p].status = "LOCKED")
  BY Step, Stutter DEF Forward
<1> QED BY <1>1, Invariant, PTL DEF Spec, StartsOnce
-----------------------------------------------------------------------------
(***************************************************************************)
(* One request at a time.  What a request has seen is then still so when   *)
(* it commits, and the order of the stages follows from the functions that *)
(* open tasks.                                                             *)
(***************************************************************************)
OneAtATime == \A i, j \in Requests : i = j

\* What r has seen is still so.
Current(r) ==
  r.at # "idle" =>
    /\ \A p \in DOMAIN rows : \/ r.view[p] = rows[p].status
                              \/ r.view[p] = Unread /\ r.at = "received" /\ r.op # "all" /\ p # r.t
    /\ r.op \notin {"start", "all"} => r.view[r.t] # "LOCKED"
    /\ r.op = "all" => state \in Started
    /\ r.op = "complete" => plan.mode = "REVIEW" /\ r.view[r.t] # "FINALIZED"

\* Before the tasks begin all of them are locked.
Unstarted == state \notin Started => \A p \in DOMAIN rows : rows[p].status = "LOCKED"

\* An essay is stored when its task is closed, which happens once.
EssaysOnce ==
  \A p \in DOMAIN rows : \/ rows[p].essays = 0
                         \/ rows[p].essays = 1 /\ rows[p].status = "FINALIZED"

SerialInv ==
  /\ IInv
  /\ \A i \in Requests : Current(req[i])
  /\ Unstarted
  /\ EssaysOnce
  /\ StagesInOrder

\* What a step does to the statuses when nothing is stale.
Lasting ==
  \A p \in DOMAIN rows : /\ rows[p].status = "FINALIZED" => rows'[p].status = "FINALIZED"
                         /\ Done(rows[p].status) => Done(rows'[p].status) \/ plan.mode = "REVIEW"

\* When the view is current, the statuses become what the handler made of it.
LEMMA StatusesWritten ==
  ASSUME Shape, NEW view \in Seq(Seen), NEW new \in Seq(Seen), Len(view) = Len(rows), Len(new) = Len(rows),
         \A p \in DOMAIN rows : view[p] = rows[p].status,
         \A p \in DOMAIN rows : new[p] # view[p] => new[p] # Unread
  PROVE  \A p \in DOMAIN rows : Written(view, new)[p].status = new[p]
BY WrittenRows

\* In a strict plan the first open task becomes active, and no other.
LEMMA StrictUnlock ==
  ASSUME plan.mode = "STRICT", NEW v \in Seq(Seen), NEW S \in SUBSET DOMAIN v, S # {}
  PROVE  /\ Min(S) \in DOMAIN v /\ \A q \in S : Min(S) <= q
         /\ Unlock(v, S)[Min(S)] = "ACTIVE"
         /\ \A q \in DOMAIN v \ {Min(S)} : Unlock(v, S)[q] = v[q]
<1>1. DOMAIN v \subseteq Nat /\ S \subseteq Nat
  OBVIOUS
<1>2. Min(S) \in DOMAIN v /\ \A q \in S : Min(S) <= q
  BY <1>1, MinIsLeast
<1>3. Unlock(v, S) = [v EXCEPT ![Min(S)] = "ACTIVE"]
  BY DEF Unlock
<1> HIDE DEF Min
<1> QED BY <1>2, <1>3

\* So a stage that was not locked, or was opened, has only closed ones before it.
LEMMA StrictAdvance ==
  ASSUME plan.mode = "STRICT", NEW v \in Seq(Seen), NEW t \in DOMAIN v,
         \A p \in DOMAIN v : v[p] # "LOCKED" => \A q \in DOMAIN v : q < p => Done(v[q]),
         Done(v[t])
  PROVE  \A p, q \in DOMAIN v :
           AdvancedRows(v, t, FALSE)[p] # "LOCKED" /\ q < p => Done(AdvancedRows(v, t, FALSE)[q])
<1> DEFINE S == LaterOpen(v, t)
           w == AdvancedRows(v, t, FALSE)
           m == Min(S)
<1>1. S \in SUBSET DOMAIN v /\ \A q \in DOMAIN v : q > t /\ ~Done(v[q]) => q \in S
  BY DEF LaterOpen
<1>2. CASE S = {} \/ Unfinished(v) = {}
  <2>1. w = v BY <1>2 DEF AdvancedRows, Unlock
  <2> QED BY <2>1
<1>3. CASE S # {} /\ Unfinished(v) # {}
  <2>1. w = Unlock(v, S)
    BY <1>3 DEF AdvancedRows
  <2> HIDE DEF S, w
  <2>2. /\ m \in DOMAIN v /\ (\A q \in S : m <= q) /\ w[m] = "ACTIVE"
        /\ \A q \in DOMAIN v \ {m} : w[q] = v[q]
    BY <1>1, <1>3, <2>1, StrictUnlock
  <2>3. m \in S
    BY <1>1, <1>3, MinIsLeast
  <2> HIDE DEF m
  <2>4. ~Done(v[m]) /\ m > t
    BY <2>3 DEF LaterOpen, S
  <2>5. DOMAIN v \subseteq Nat
    OBVIOUS
  <2>6. \A q \in DOMAIN v : q < m => Done(v[q])
    <3> SUFFICES ASSUME NEW q \in DOMAIN v, q < m PROVE Done(v[q]) OBVIOUS
    <3>1. q \notin S BY <2>2, <2>5
    <3>2. CASE q > t BY <1>1, <3>1, <3>2
    <3>3. CASE q < t
      <4>1. v[t] # "LOCKED" BY DEF Done
      <4> QED BY <3>3, <4>1
    <3>4. q = t \/ q > t \/ q < t BY <2>5
    <3> QED BY <3>2, <3>3, <3>4
  <2> SUFFICES ASSUME NEW p \in DOMAIN v, NEW q \in DOMAIN v, w[p] # "LOCKED", q < p PROVE Done(w[q])
    BY DEF w
  <2>7. Done(v[q])
    BY <2>2, <2>6
  <2> QED BY <2>2, <2>4, <2>7
<1> QED BY <1>2, <1>3

\* The first stage is the one that opens at the start.
LEMMA StrictInitial ==
  ASSUME plan.mode = "STRICT", NEW v \in Seq(Seen)
  PROVE  \A p, q \in DOMAIN v : InitialRows(v)[p] # "LOCKED" => ~(q < p)
<1> DEFINE w == [q \in DOMAIN v |-> "LOCKED"]
<1>1. w \in Seq(Seen) /\ DOMAIN w = DOMAIN v /\ \A q \in DOMAIN v : w[q] = "LOCKED"
  <2>1. w \in [1..Len(v) -> Seen] BY DEF Seen, Status
  <2> QED BY <2>1
<1>2. InitialRows(v) = Unlock(w, DOMAIN v)
  BY DEF InitialRows
<1> HIDE DEF w
<1> SUFFICES ASSUME NEW p \in DOMAIN v, NEW q \in DOMAIN v, InitialRows(v)[p] # "LOCKED" PROVE ~(q < p)
  OBVIOUS
<1>3. /\ Min(DOMAIN v) \in DOMAIN v /\ \A r \in DOMAIN v : Min(DOMAIN v) <= r
      /\ \A r \in DOMAIN v \ {Min(DOMAIN v)} : Unlock(w, DOMAIN v)[r] = w[r]
  BY <1>1, StrictUnlock
<1>4. p = Min(DOMAIN v)
  BY <1>1, <1>2, <1>3
<1> QED BY <1>3, <1>4

\* A step that leaves the statuses and the essays as they are.
LEMMA Unmoved ==
  ASSUME SerialInv, IInv', Forward, plan' = plan, DOMAIN rows' = DOMAIN rows,
         \A p \in DOMAIN rows : rows'[p].status = rows[p].status /\ rows'[p].essays = rows[p].essays,
         \A i \in Requests : req'[i] = req[i] \/ req'[i].at = "idle" \/ Current(req[i])'
  PROVE  SerialInv' /\ Lasting
<1>1. ASSUME NEW i \in Requests PROVE Current(req[i])'
  <2>1. CASE req'[i] = req[i]
    BY <2>1 DEF SerialInv, Current, Forward
  <2>2. CASE req'[i].at = "idle"
    BY <2>2 DEF Current
  <2> QED BY <2>1, <2>2
<1>2. Unstarted'
  BY DEF SerialInv, Unstarted, Forward
<1>3. EssaysOnce'
  BY DEF SerialInv, EssaysOnce
<1>4. StagesInOrder'
  BY DEF SerialInv, StagesInOrder, Done
<1>5. Lasting
  BY DEF Lasting, Done
<1> QED BY <1>1, <1>2, <1>3, <1>4, <1>5 DEF SerialInv

\* A commit of the one request under way that makes the statuses new.
LEMMA Committed ==
  ASSUME SerialInv, IInv', Forward, OneAtATime, NEW i \in Requests, plan' = plan, state' \in Started,
         NEW new, DOMAIN rows' = DOMAIN rows,
         \A p \in DOMAIN rows : rows'[p].status = new[p],
         \A p \in DOMAIN rows : \/ rows'[p].essays = rows[p].essays
                                \/ rows'[p].essays = 1 /\ new[p] = "FINALIZED",
         \A p \in DOMAIN rows : /\ rows[p].status = "FINALIZED" => new[p] = "FINALIZED"
                                /\ Done(rows[p].status) => Done(new[p]) \/ plan.mode = "REVIEW",
         plan.mode = "STRICT" => \A p, q \in DOMAIN rows : new[p] # "LOCKED" /\ q < p => Done(new[q]),
         req'[i].at = "idle" \/ (req'[i].op = "all" /\ req'[i].view = new)
  PROVE  SerialInv' /\ Lasting
<1>1. ASSUME NEW j \in Requests PROVE Current(req[j])'
  <2>1. j = i BY DEF OneAtATime
  <2> QED BY <2>1 DEF Current
<1>2. Unstarted'
  BY DEF Unstarted
<1>3. EssaysOnce'
  BY DEF SerialInv, EssaysOnce
<1>4. StagesInOrder'
  <2> SUFFICES ASSUME plan.mode = "STRICT", NEW p \in DOMAIN rows, rows'[p].status # "LOCKED",
                      NEW q \in DOMAIN rows, q < p
               PROVE  Done(rows'[q].status)
    BY DEF StagesInOrder, Done
  <2> QED OBVIOUS
<1>5. Lasting
  BY DEF Lasting, Done
<1> QED BY <1>1, <1>2, <1>3, <1>4, <1>5 DEF SerialInv

\* What is known of the request that commits: its view is that of the rows.
LEMMA Committing ==
  ASSUME SerialInv, NEW i \in Requests, req[i].at = "loaded" \/ (req[i].at = "received" /\ req[i].op = "all")
  PROVE  /\ \A p \in DOMAIN rows : req[i].view[p] = rows[p].status
         /\ req[i].op \notin {"start", "all"} => req[i].view[req[i].t] # "LOCKED" /\ req[i].t \in DOMAIN rows
         /\ req[i].op # "start" => state \in Started
         /\ req[i].op = "complete" => plan.mode = "REVIEW" /\ req[i].view[req[i].t] # "FINALIZED"
         /\ \A p \in DOMAIN rows : Done(req[i].view[p]) \/ rows[p].essays = 0
<1>1. Current(req[i]) /\ Unstarted
  BY DEF SerialInv
<1>2. \A p \in DOMAIN rows : req[i].view[p] = rows[p].status
  BY <1>1 DEF Current
<1>3. req[i].op \notin {"start", "all"} => req[i].view[req[i].t] # "LOCKED" /\ req[i].t \in DOMAIN rows
  BY <1>1, UnderWay DEF Current, SerialInv
<1>4. req[i].op # "start" => state \in Started
  BY <1>1, <1>2, <1>3 DEF Current, Unstarted
<1>5. \A p \in DOMAIN rows : Done(req[i].view[p]) \/ rows[p].essays = 0
  BY <1>2 DEF SerialInv, EssaysOnce, Done
<1> QED BY <1>1, <1>2, <1>3, <1>4, <1>5 DEF Current

\* A commit that also writes the rest of row t.
LEMMA RowLanded ==
  ASSUME Shape, NEW view \in Seq(Seen), NEW new \in Seq(Seen), Len(view) = Len(rows), Len(new) = Len(rows),
         \A p \in DOMAIN rows : view[p] = rows[p].status,
         \A p \in DOMAIN rows : new[p] # view[p] => new[p] # Unread,
         NEW t \in DOMAIN rows, NEW row,
         rows' = [Written(view, new) EXCEPT ![t] = row],
         row.status = Written(view, new)[t].status
  PROVE  /\ DOMAIN rows' = DOMAIN rows
         /\ \A p \in DOMAIN rows : rows'[p].status = new[p]
         /\ \A p \in DOMAIN rows \ {t} : rows'[p].essays = rows[p].essays
         /\ rows'[t] = row
<1> DEFINE w == Written(view, new)
<1>1. /\ w \in Seq(Row) /\ Len(w) = Len(rows)
      /\ \A p \in DOMAIN rows : w[p].status = new[p] /\ w[p].essays = rows[p].essays
  <2>1. \A p \in DOMAIN rows : w[p].status = new[p]
    BY StatusesWritten
  <2> QED BY <2>1, WrittenRows
<1> HIDE DEF w
<1>2. rows' = [w EXCEPT ![t] = row] /\ row.status = w[t].status
  BY DEF w
<1>3. DOMAIN w = DOMAIN rows
  <2>1. rows \in Seq(Row) BY DEF Shape
  <2> QED BY <1>1, <2>1
<1>4. DOMAIN rows' = DOMAIN rows /\ rows'[t] = row /\ \A p \in DOMAIN rows \ {t} : rows'[p] = w[p]
  BY <1>2, <1>3
<1> QED BY <1>1, <1>2, <1>4

LEMMA StageInOrder ==
  ASSUME SerialInv, OneAtATime, NEW i \in Requests, CommitStage(i)
  PROVE  SerialInv' /\ Lasting
<1>t. PICK t \in DOMAIN rows : t = req[i].t
  BY UnderWay DEF CommitStage, SerialInv
<1> DEFINE view == req[i].view
           op == req[i].op
           status == OwnStatus(op)
           own == [view EXCEPT ![t] = status]
           new == AdvancedRows(own, t, FALSE)
           w == Written(view, new)
           row == WithAnswer(w[t], op)
<1>1. IInv' /\ Forward
  BY StageCommitted DEF SerialInv
<1>2. /\ view \in Seq(Seen) /\ Len(view) = Len(rows) /\ DOMAIN view = DOMAIN rows /\ Checked(req[i])
      /\ req[i] \in Request
  BY UnderWay DEF CommitStage, SerialInv
<1>3. /\ \A p \in DOMAIN rows : view[p] = rows[p].status
      /\ view[t] # "LOCKED" /\ state \in Started
      /\ \A p \in DOMAIN rows : Done(view[p]) \/ rows[p].essays = 0
  BY <1>t, Committing DEF CommitStage
<1>4. /\ op \in {"submit", "skip", "essay", "questions"} /\ plan' = plan
      /\ req' = [req EXCEPT ![i] = Idle]
      /\ rows' = [w EXCEPT ![t] = row]
  <2>1. rows' = [Written(view, new) EXCEPT ![t] = WithAnswer(@, op)]
    BY <1>t DEF CommitStage
  <2>2. t \in DOMAIN w
    BY DEF Written
  <2> HIDE DEF view, own, new
  <2>3. rows' = [w EXCEPT ![t] = row]
    BY <2>1, <2>2
  <2> QED BY <1>t, <2>3 DEF CommitStage, view, own, new
<1>5. /\ status \in {"FINALIZED", "SKIPPED"} /\ (op = "essay" => status = "FINALIZED" /\ ~Done(view[t]))
      /\ (status = "SKIPPED" => view[t] # "FINALIZED")
  BY <1>t, <1>2, <1>4 DEF OwnStatus, Checked
<1>6. state' \in Started
  BY <1>1, <1>3 DEF Forward
<1>7. req'[i].at = "idle"
  BY <1>4 DEF SerialInv, IInv, Shape, Idle
<1> HIDE DEF view, op, status
<1>8. own \in Seq(Seen) /\ Len(own) = Len(rows) /\ DOMAIN own = DOMAIN rows /\ own[t] = status
      /\ \A p \in DOMAIN rows \ {t} : own[p] = rows[p].status
  BY <1>2, <1>3, <1>5 DEF Seen, Status
<1> HIDE DEF own
<1>9. /\ new \in Seq(Seen) /\ Len(new) = Len(rows)
      /\ \A q \in DOMAIN rows : new[q] = own[q] \/ (~Done(own[q]) /\ new[q] \in {"ACTIVE", "AVAILABLE"})
  BY <1>8, AdvanceOpens
<1>10. ASSUME plan.mode = "STRICT"
       PROVE  \A p, q \in DOMAIN rows : new[p] # "LOCKED" /\ q < p => Done(new[q])
  <2>1. ASSUME NEW p \in DOMAIN rows, own[p] # "LOCKED", NEW q \in DOMAIN rows, q < p PROVE Done(own[q])
    <3>1. rows[p].status # "LOCKED"
      BY <1>3, <1>8, <2>1
    <3>2. Done(rows[q].status)
      BY <1>10, <2>1, <3>1 DEF SerialInv, StagesInOrder
    <3> QED BY <1>5, <1>8, <3>2 DEF Done
  <2>2. Done(own[t])
    BY <1>5, <1>8 DEF Done
  <2> QED BY <1>8, <1>10, <2>1, <2>2, StrictAdvance
<1> HIDE DEF new
<1>11. \A p \in DOMAIN rows : new[p] # view[p] => new[p] # Unread
  BY <1>3, <1>5, <1>8, <1>9 DEF Unread
<1>12. w[t] \in Row /\ w[t].essays = rows[t].essays
  <2>1. rows \in Seq(Row) BY DEF SerialInv, IInv, Shape
  <2>2. w \in Seq(Row) /\ Len(w) = Len(rows) /\ w[t].essays = rows[t].essays
    BY <1>2, <1>9, <1>11, WrittenRows DEF SerialInv, IInv
  <2> HIDE DEF w
  <2> QED BY <2>1, <2>2
<1>13. row.status = w[t].status /\ (op # "essay" => row.essays = rows[t].essays)
       /\ (op = "essay" => row.essays = OneMoreEssay(rows[t].essays))
  <2> HIDE DEF w
  <2> QED BY <1>12 DEF WithAnswer, Row
<1> HIDE DEF row
<1>14. /\ DOMAIN rows' = DOMAIN rows
       /\ \A p \in DOMAIN rows : rows'[p].status = new[p]
       /\ \A p \in DOMAIN rows \ {t} : rows'[p].essays = rows[p].essays
       /\ rows'[t] = row
  BY <1>2, <1>3, <1>4, <1>9, <1>11, <1>13, RowLanded DEF SerialInv, IInv
<1>15. \A p \in DOMAIN rows : rows'[p].essays = rows[p].essays \/ (rows'[p].essays = 1 /\ new[p] = "FINALIZED")
  <2>1. CASE op # "essay"
    BY <1>13, <1>14, <2>1
  <2>2. CASE op = "essay"
    <3>1. row.essays = 1
      BY <1>3, <1>5, <1>13, <2>2 DEF OneMoreEssay, MaxEssays
    <3>2. new[t] = "FINALIZED"
      BY <1>5, <1>8, <1>9, <2>2 DEF Done
    <3> QED BY <1>14, <3>1, <3>2
  <2> QED BY <2>1, <2>2
<1>16. \A p \in DOMAIN rows : /\ rows[p].status = "FINALIZED" => new[p] = "FINALIZED"
                              /\ Done(rows[p].status) => Done(new[p])
  <2>1. \A p \in DOMAIN rows \ {t} : Done(rows[p].status) => new[p] = rows[p].status
    BY <1>8, <1>9
  <2>2. new[t] = status
    BY <1>5, <1>8, <1>9 DEF Done
  <2> QED BY <1>3, <1>5, <2>1, <2>2 DEF Done
<1> QED
  BY <1>1, <1>4, <1>6, <1>7, <1>10, <1>14, <1>15, <1>16, Committed

LEMMA CompleteInOrder ==
  ASSUME SerialInv, OneAtATime, NEW i \in Requests, CommitComplete(i)
  PROVE  SerialInv' /\ Lasting
<1>t. PICK t \in DOMAIN rows : t = req[i].t
  BY UnderWay DEF CommitComplete, SerialInv
<1> DEFINE view == req[i].view
           own == [view EXCEPT ![t] = "COMPLETED"]
           n == t + 1
           new == IF n \in DOMAIN own /\ ~Survey(n) /\ own[n] = "LOCKED"
                  THEN [own EXCEPT ![n] = "ACTIVE"] ELSE own
<1>1. IInv' /\ Forward
  BY CompleteCommitted DEF SerialInv
<1>2. view \in Seq(Seen) /\ Len(view) = Len(rows) /\ DOMAIN view = DOMAIN rows
  BY UnderWay DEF CommitComplete, SerialInv
<1>3. /\ \A p \in DOMAIN rows : view[p] = rows[p].status
      /\ view[t] # "FINALIZED" /\ state \in Started /\ plan.mode = "REVIEW"
  BY <1>t, Committing DEF CommitComplete
<1>4. rows' = Written(view, new) /\ plan' = plan /\ state' = state /\ req' = [req EXCEPT ![i] = Idle]
  BY <1>t DEF CommitComplete
<1>5. req'[i].at = "idle"
  BY <1>4 DEF SerialInv, IInv, Shape, Idle
<1> HIDE DEF view
<1>6. own \in Seq(Seen) /\ Len(own) = Len(rows) /\ DOMAIN own = DOMAIN rows
      /\ own[t] = "COMPLETED" /\ \A p \in DOMAIN rows \ {t} : own[p] = rows[p].status
  BY <1>2, <1>3 DEF Seen, Status
<1> HIDE DEF own
<1>7. /\ new \in Seq(Seen) /\ Len(new) = Len(rows)
      /\ \A p \in DOMAIN rows : new[p] = own[p] \/ (own[p] = "LOCKED" /\ new[p] = "ACTIVE")
  <2>1. CASE new = own
    BY <1>6, <2>1
  <2>2. CASE n \in DOMAIN own /\ own[n] = "LOCKED" /\ new = [own EXCEPT ![n] = "ACTIVE"]
    <3> HIDE DEF n, new
    <3> QED BY <1>6, <2>2 DEF Seen, Status
  <2> QED BY <2>1, <2>2
<1> HIDE DEF new
<1>8. \A p \in DOMAIN rows : new[p] # view[p] => new[p] # Unread
  BY <1>3, <1>6, <1>7 DEF Unread
<1>9. \A p \in DOMAIN rows : rows'[p].status = new[p]
  BY <1>2, <1>3, <1>4, <1>7, <1>8, StatusesWritten DEF SerialInv, IInv
<1>10. DOMAIN rows' = DOMAIN rows /\ \A p \in DOMAIN rows : rows'[p].essays = rows[p].essays
  <2>1. DOMAIN rows' = DOMAIN rows
    BY <1>4 DEF Written
  <2> QED BY <1>2, <1>4, <1>7, <1>8, <2>1, WrittenRows DEF SerialInv, IInv
<1>11. \A p \in DOMAIN rows : rows[p].status = "FINALIZED" => new[p] = "FINALIZED"
  BY <1>3, <1>6, <1>7
<1> QED
  BY <1>1, <1>3, <1>4, <1>5, <1>9, <1>10, <1>11, Committed

\* Nothing but the start finds a task locked before the tasks begin.
LEMMA StartInOrder ==
  ASSUME SerialInv, OneAtATime, NEW i \in Requests, CommitStart(i)
  PROVE  SerialInv' /\ Lasting
<1> DEFINE view == req[i].view
           new == InitialRows(view)
<1>1. IInv' /\ Forward
  BY StartCommitted DEF SerialInv
<1>2. view \in Seq(Seen) /\ Len(view) = Len(rows) /\ DOMAIN view = DOMAIN rows
  BY UnderWay DEF CommitStart, SerialInv
<1>3. \A p \in DOMAIN rows : view[p] = rows[p].status
  BY Committing DEF CommitStart
<1>4. rows' = Written(view, new) /\ plan' = plan /\ state' = "IN_PROGRESS" /\ req' = [req EXCEPT ![i] = Idle]
  BY DEF CommitStart
<1>5. req'[i].at = "idle" /\ state' \in Started
  BY <1>4 DEF SerialInv, IInv, Shape, Idle, Started
<1>6. state \notin Started
  BY UnderWay DEF CommitStart, Checked, Started, SerialInv
<1>7. \A p \in DOMAIN rows : rows[p].status = "LOCKED"
  BY <1>6 DEF SerialInv, Unstarted
<1>8. /\ new \in Seq(Seen) /\ Len(new) = Len(rows)
      /\ \A q \in DOMAIN rows : new[q] \in {"LOCKED", "ACTIVE", "AVAILABLE"}
  BY <1>2, InitialOpens
<1>9. plan.mode = "STRICT" => \A p, q \in DOMAIN rows : new[p] # "LOCKED" /\ q < p => Done(new[q])
  BY <1>2, StrictInitial
<1> HIDE DEF view, new
<1>10. \A p \in DOMAIN rows : rows'[p].status = new[p] /\ new[p] # Unread
  BY <1>2, <1>3, <1>4, <1>8, StatusesWritten DEF SerialInv, IInv, Unread
<1>11. DOMAIN rows' = DOMAIN rows /\ \A p \in DOMAIN rows : rows'[p].essays = rows[p].essays
  <2>1. DOMAIN rows' = DOMAIN rows
    BY <1>4 DEF Written
  <2> QED BY <1>2, <1>4, <1>8, <1>10, <2>1, WrittenRows DEF SerialInv, IInv
<1>12. \A p \in DOMAIN rows : ~Done(rows[p].status) /\ rows[p].status # "FINALIZED"
  BY <1>7 DEF Done
<1> QED
  BY <1>1, <1>4, <1>5, <1>9, <1>10, <1>11, <1>12, Committed

LEMMA QuestionRowInOrder ==
  ASSUME SerialInv, OneAtATime, NEW i \in Requests, NEW t \in DOMAIN rows, FinalizeQuestionRow(i, t)
  PROVE  SerialInv' /\ Lasting
<1> DEFINE view == req[i].view
           own == [view EXCEPT ![t] = "FINALIZED"]
           w == Written(view, own)
           row == [w[t] EXCEPT !.sub = "FINALIZED"]
<1>1. IInv' /\ Forward
  BY QuestionRowFinalized DEF SerialInv
<1>2. /\ Finalizing(i, t) /\ UNCHANGED <<plan, state>>
      /\ req' = [req EXCEPT ![i] = [@ EXCEPT !.view = own]]
      /\ rows' = [w EXCEPT ![t] = row]
  <2>1. t \in DOMAIN w BY DEF Written
  <2>2. rows' = [w EXCEPT ![t].sub = "FINALIZED"] BY DEF FinalizeQuestionRow
  <2>3. rows' = [w EXCEPT ![t] = row]
    <3> HIDE DEF w
    <3> QED BY <2>1, <2>2
  <2> QED BY <2>3 DEF FinalizeQuestionRow
<1>3. /\ view \in Seq(Seen) /\ Len(view) = Len(rows) /\ DOMAIN view = DOMAIN rows /\ req[i] \in Request
      /\ plan.mode \in {"REVIEW", "FREE"} /\ req[i].op = "all"
  BY <1>2, UnderWay DEF Finalizing, Checked, SerialInv
<1>4. (\A p \in DOMAIN rows : view[p] = rows[p].status) /\ state \in Started
  BY <1>2, <1>3, Committing DEF Finalizing
<1>5. own \in Seq(Seen) /\ Len(own) = Len(rows) /\ own[t] = "FINALIZED"
      /\ \A p \in DOMAIN rows \ {t} : own[p] = rows[p].status
  BY <1>3, <1>4 DEF Seen, Status
<1>6. req'[i].op = "all" /\ req'[i].view = own
  BY <1>2, <1>3 DEF SerialInv, IInv, Shape, Request
<1> HIDE DEF view, own
<1>7. \A p \in DOMAIN rows : own[p] # view[p] => own[p] # Unread
  BY <1>4, <1>5 DEF Unread
<1>8. w[t] \in Row /\ w[t].essays = rows[t].essays
  <2>1. rows \in Seq(Row) BY DEF SerialInv, IInv, Shape
  <2>2. w \in Seq(Row) /\ Len(w) = Len(rows) /\ w[t].essays = rows[t].essays
    BY <1>3, <1>5, <1>7, WrittenRows DEF SerialInv, IInv
  <2> HIDE DEF w
  <2> QED BY <2>1, <2>2
<1>9. row.status = w[t].status /\ row.essays = rows[t].essays
  <2> HIDE DEF w
  <2> QED BY <1>8 DEF Row
<1> HIDE DEF row
<1>10. /\ DOMAIN rows' = DOMAIN rows
       /\ \A p \in DOMAIN rows : rows'[p].status = own[p] /\ rows'[p].essays = rows[p].essays
  <2>1. Shape /\ rows' = [w EXCEPT ![t] = row] /\ row.status = w[t].status
    BY <1>2, <1>9 DEF SerialInv, IInv
  <2>2. view \in Seq(Seen) /\ own \in Seq(Seen) /\ Len(view) = Len(rows) /\ Len(own) = Len(rows)
    BY <1>3, <1>5
  <2>3. /\ DOMAIN rows' = DOMAIN rows
        /\ \A p \in DOMAIN rows : rows'[p].status = own[p]
        /\ \A p \in DOMAIN rows \ {t} : rows'[p].essays = rows[p].essays
        /\ rows'[t] = row
    BY <1>4, <1>7, <2>1, <2>2, RowLanded
  <2> HIDE DEF w
  <2> QED BY <1>9, <2>3
<1>11. \A p \in DOMAIN rows : /\ rows[p].status = "FINALIZED" => own[p] = "FINALIZED"
                              /\ Done(rows[p].status) => Done(own[p])
  BY <1>5 DEF Done
<1> QED
  BY <1>1, <1>2, <1>3, <1>4, <1>6, <1>10, <1>11, Committed

LEMMA EssayRowInOrder ==
  ASSUME SerialInv, OneAtATime, NEW i \in Requests, NEW t \in DOMAIN rows, FinalizeEssayRow(i, t)
  PROVE  SerialInv' /\ Lasting
<1> DEFINE view == req[i].view
           own == [view EXCEPT ![t] = "FINALIZED"]
           new == AdvancedRows(own, t, FALSE)
           w == Written(view, new)
           row == [w[t] EXCEPT !.essays = OneMoreEssay(@)]
<1>1. IInv' /\ Forward
  BY EssayRowFinalized DEF SerialInv
<1>2. /\ Finalizing(i, t) /\ plan' = plan
      /\ \E s : req' = [req EXCEPT ![i] = [@ EXCEPT !.view = new, !.sess = s]]
      /\ rows' = [w EXCEPT ![t] = row]
  <2>1. t \in DOMAIN w BY DEF Written
  <2>2. rows' = [w EXCEPT ![t].essays = OneMoreEssay(@)] BY DEF FinalizeEssayRow
  <2>3. rows' = [w EXCEPT ![t] = row]
    <3> HIDE DEF w
    <3> QED BY <2>1, <2>2
  <2> QED BY <2>3 DEF FinalizeEssayRow
<1>3. /\ view \in Seq(Seen) /\ Len(view) = Len(rows) /\ DOMAIN view = DOMAIN rows /\ req[i] \in Request
      /\ plan.mode \in {"REVIEW", "FREE"} /\ req[i].op = "all" /\ ~Done(view[t])
  BY <1>2, UnderWay, NextRemaining DEF Finalizing, Checked, SerialInv
<1>4. /\ \A p \in DOMAIN rows : view[p] = rows[p].status
      /\ state \in Started /\ rows[t].essays = 0
  BY <1>2, <1>3, Committing DEF Finalizing
<1>5. own \in Seq(Seen) /\ Len(own) = Len(rows) /\ DOMAIN own = DOMAIN rows /\ own[t] = "FINALIZED"
      /\ \A p \in DOMAIN rows \ {t} : own[p] = rows[p].status
  BY <1>3, <1>4 DEF Seen, Status
<1>6. req'[i].op = "all" /\ req'[i].view = new
  <2> HIDE DEF new
  <2> QED BY <1>2, <1>3 DEF SerialInv, IInv, Shape, Request
<1> HIDE DEF view, own
<1>7. /\ new \in Seq(Seen) /\ Len(new) = Len(rows)
      /\ \A q \in DOMAIN rows : new[q] = own[q] \/ (~Done(own[q]) /\ new[q] \in {"ACTIVE", "AVAILABLE"})
  BY <1>5, AdvanceOpens
<1> HIDE DEF new
<1>8. \A p \in DOMAIN rows : new[p] # view[p] => new[p] # Unread
  BY <1>4, <1>5, <1>7 DEF Unread
<1>9. w[t] \in Row /\ w[t].essays = rows[t].essays
  <2>1. rows \in Seq(Row) BY DEF SerialInv, IInv, Shape
  <2>2. w \in Seq(Row) /\ Len(w) = Len(rows) /\ w[t].essays = rows[t].essays
    BY <1>3, <1>7, <1>8, WrittenRows DEF SerialInv, IInv
  <2> HIDE DEF w
  <2> QED BY <2>1, <2>2
<1>10. row.status = w[t].status /\ row.essays = 1
  <2>1. OneMoreEssay(w[t].essays) = 1
    BY <1>4, <1>9 DEF OneMoreEssay, MaxEssays
  <2> HIDE DEF w
  <2> QED BY <1>9, <2>1 DEF Row
<1> HIDE DEF row
<1>11. /\ DOMAIN rows' = DOMAIN rows
       /\ \A p \in DOMAIN rows : rows'[p].status = new[p]
       /\ \A p \in DOMAIN rows \ {t} : rows'[p].essays = rows[p].essays
       /\ rows'[t] = row
  BY <1>2, <1>3, <1>4, <1>7, <1>8, <1>10, RowLanded DEF SerialInv, IInv
<1>12. new[t] = "FINALIZED"
  BY <1>5, <1>7 DEF Done
<1>13. \A p \in DOMAIN rows : /\ rows[p].status = "FINALIZED" => new[p] = "FINALIZED"
                              /\ Done(rows[p].status) => Done(new[p])
  BY <1>5, <1>7, <1>12 DEF Done
<1>14. state' \in Started
  BY <1>1, <1>4 DEF Forward
<1> QED
  BY <1>1, <1>2, <1>3, <1>6, <1>10, <1>11, <1>12, <1>13, <1>14, Committed

LEMMA FinishInOrder ==
  ASSUME SerialInv, OneAtATime, NEW i \in Requests, FinishAll(i)
  PROVE  SerialInv' /\ Lasting
<1> DEFINE view == req[i].view
           new == IF TaskRows = {} THEN view ELSE AdvancedRows(view, Max(TaskRows), TRUE)
<1>1. IInv' /\ Forward
  BY FinishedAll DEF SerialInv
<1>2. /\ view \in Seq(Seen) /\ Len(view) = Len(rows) /\ DOMAIN view = DOMAIN rows
      /\ plan.mode \in {"REVIEW", "FREE"}
  BY UnderWay DEF FinishAll, Checked, SerialInv
<1>3. (\A p \in DOMAIN rows : view[p] = rows[p].status) /\ state \in Started
  BY Committing DEF FinishAll
<1>4. rows' = Written(view, new) /\ plan' = plan /\ req' = [req EXCEPT ![i] = Idle]
  BY DEF FinishAll
<1>5. req'[i].at = "idle"
  BY <1>4 DEF SerialInv, IInv, Shape, Idle
<1>6. state' \in Started
  BY <1>1, <1>3 DEF Forward
<1> HIDE DEF view
<1>7. /\ new \in Seq(Seen) /\ Len(new) = Len(rows)
      /\ \A q \in DOMAIN rows : new[q] = view[q] \/ (~Done(view[q]) /\ new[q] \in {"ACTIVE", "AVAILABLE"})
  BY <1>2, AdvanceOpens
<1> HIDE DEF new
<1>8. \A p \in DOMAIN rows : new[p] # view[p] => new[p] # Unread
  BY <1>7 DEF Unread
<1>9. \A p \in DOMAIN rows : rows'[p].status = new[p]
  BY <1>2, <1>3, <1>4, <1>7, <1>8, StatusesWritten DEF SerialInv, IInv
<1>10. DOMAIN rows' = DOMAIN rows /\ \A p \in DOMAIN rows : rows'[p].essays = rows[p].essays
  <2>1. DOMAIN rows' = DOMAIN rows
    BY <1>4 DEF Written
  <2> QED BY <1>2, <1>4, <1>7, <1>8, <2>1, WrittenRows DEF SerialInv, IInv
<1>11. \A p \in DOMAIN rows : /\ rows[p].status = "FINALIZED" => new[p] = "FINALIZED"
                              /\ Done(rows[p].status) => Done(new[p])
  BY <1>3, <1>7 DEF Done
<1>12. plan.mode # "STRICT"
  BY <1>2
<1>13. \A p \in DOMAIN rows : rows[p].status = "FINALIZED" => new[p] = "FINALIZED"
  BY <1>11
<1>14. \A p \in DOMAIN rows : Done(rows[p].status) => Done(new[p])
  BY <1>11
<1>15. IInv' /\ Forward /\ plan' = plan
  BY <1>1, <1>4
<1> QED
  BY <1>5, <1>6, <1>9, <1>10, <1>12, <1>13, <1>14, <1>15, Committed

\* The first two steps of a request.
LEMMA ReceivedCurrent ==
  ASSUME SerialInv, NEW i \in Requests, NEW op \in Ops, NEW t \in 0..Len(rows), Receive(i, op, t)
  PROVE  SerialInv' /\ Lasting
<1> DEFINE view == [p \in DOMAIN rows |-> IF op = "all" \/ p = t THEN rows[p].status ELSE Unread]
           r == [op |-> op, at |-> "received", t |-> t, sub |-> "NONE",
                 sess |-> IF op = "all" THEN Unread ELSE state, view |-> view]
<1>1. IInv'
  BY Received DEF SerialInv
<1>2. UNCHANGED <<plan, state, rows>> /\ Accepts(op, t) /\ req' = [req EXCEPT ![i] = r]
  BY DEF Receive
<1>3. req'[i] = r /\ \A j \in Requests \ {i} : req'[j] = req[j]
  BY <1>2 DEF SerialInv, IInv, Shape
<1>4. op \notin {"start", "all"} => t \in DOMAIN rows /\ rows[t].status # "LOCKED"
  BY <1>2 DEF Accepts, Ops, AcceptsSurvey, AcceptsFinalize, AcceptsComplete, Editable
<1>5. op = "all" => state \in Started
  BY <1>2 DEF Accepts, AcceptsAll, Started
<1>6. op = "complete" => plan.mode = "REVIEW" /\ rows[t].status # "FINALIZED"
  BY <1>2 DEF Accepts, AcceptsComplete
<1>7. \A p \in DOMAIN rows : view[p] = IF op = "all" \/ p = t THEN rows[p].status ELSE Unread
  OBVIOUS
<1>8. t \in DOMAIN rows => view[t] = rows[t].status
  OBVIOUS
<1> HIDE DEF view
<1>9. Current(req[i])'
  BY <1>2, <1>3, <1>4, <1>5, <1>6, <1>7, <1>8 DEF Current, Ops
<1>10. \A j \in Requests : req'[j] = req[j] \/ Current(req[j])'
  BY <1>3, <1>9
<1> HIDE DEF r
<1> QED BY <1>1, <1>2, <1>10, Unmoved DEF Forward

LEMMA LoadedCurrent ==
  ASSUME SerialInv, NEW i \in Requests, Load(i)
  PROVE  SerialInv' /\ Lasting
<1> DEFINE old == req[i]
           view == [p \in DOMAIN rows |-> IF p = old.t THEN old.view[p] ELSE rows[p].status]
           r == [old EXCEPT !.at = "loaded", !.view = view, !.sub = IF old.t = 0 THEN "NONE" ELSE rows[old.t].sub]
<1>1. IInv'
  BY Loaded DEF SerialInv
<1>2. /\ old \in Request /\ Current(old) /\ old.at = "received" /\ old.op # "all"
      /\ old.op # "start" => old.t \in DOMAIN rows
  BY UnderWay DEF SerialInv, Load
<1>3. UNCHANGED <<plan, state, rows>> /\ req' = [req EXCEPT ![i] = r]
  BY <1>2 DEF Load, Request
<1>4. req'[i] = r /\ \A j \in Requests \ {i} : req'[j] = req[j]
  BY <1>3 DEF SerialInv, IInv, Shape
<1>5. r.op = old.op /\ r.t = old.t /\ r.view = view /\ r.at = "loaded"
  BY <1>2 DEF Request
<1>6. \A p \in DOMAIN rows : view[p] = rows[p].status
  <2> SUFFICES ASSUME NEW p \in DOMAIN rows PROVE view[p] = rows[p].status OBVIOUS
  <2>1. p = old.t => old.view[p] = rows[p].status
    BY <1>2 DEF Current
  <2> QED BY <2>1
<1>7. old.op # "start" => view[old.t] = old.view[old.t]
  BY <1>2
<1> HIDE DEF view, r
<1>8. Current(req[i])'
  BY <1>2, <1>3, <1>4, <1>5, <1>6, <1>7 DEF Current
<1>9. \A j \in Requests : req'[j] = req[j] \/ Current(req[j])'
  BY <1>4, <1>8
<1> QED BY <1>1, <1>3, <1>9, Unmoved DEF Forward

LEMMA SerialInitially == Init => SerialInv
<1> SUFFICES ASSUME Init PROVE SerialInv OBVIOUS
<1>1. IInv
  BY Initially
<1> QED BY <1>1 DEF Init, SerialInv, Current, Idle, Unstarted, EssaysOnce, StagesInOrder

LEMMA SerialStep ==
  ASSUME SerialInv, OneAtATime, [Next]_vars
  PROVE  SerialInv' /\ Lasting
<1>0. IInv' /\ Forward
  BY Step, Stutter DEF SerialInv
<1>1. CASE UNCHANGED vars
  BY <1>0, <1>1, Unmoved DEF vars
<1>2. ASSUME NEW P \in Plans, CreateSession(P) PROVE SerialInv' /\ Lasting
  <2>1. /\ rows = <<>> /\ \A i \in Requests : req[i] = Idle
        /\ state' \in {"CONSENT_REQUIRED", "TASK_REQUIRED"} /\ req' = req
        /\ \A p \in DOMAIN rows' : rows'[p].status = "LOCKED" /\ rows'[p].essays = 0
    BY <1>2 DEF CreateSession, SerialInv, IInv, Begun
  <2>2. Unstarted' /\ EssaysOnce' /\ StagesInOrder'
    BY <2>1 DEF Unstarted, EssaysOnce, StagesInOrder
  <2>3. (\A i \in Requests : Current(req[i]))'
    BY <2>1 DEF Current, Idle
  <2> QED BY <1>0, <2>1, <2>2, <2>3 DEF SerialInv, Lasting
<1>3. CASE \/ Consent \/ SubmitPreSurvey \/ SubmitEssay \/ SubmitPostSurvey \/ CompleteSession
           \/ Supersede \/ FailuresEnd
  <2>1. UNCHANGED <<plan, rows, req>>
    BY <1>3 DEF Consent, SubmitPreSurvey, SubmitEssay, SubmitPostSurvey, CompleteSession, Transition,
                Supersede, FailuresEnd
  <2> QED BY <1>0, <2>1, Unmoved
<1>4. ASSUME NEW p \in DOMAIN rows, OpenTask(p) \/ \E text \in BOOLEAN : SaveEssayDraft(p, text)
      PROVE  SerialInv' /\ Lasting
  <2>1. rows \in Seq(Row) BY DEF SerialInv, IInv, Shape
  <2>2. \A q \in DOMAIN rows : rows[q] \in Row BY <2>1
  <2>3. /\ DOMAIN rows' = DOMAIN rows /\ UNCHANGED <<plan, req>>
        /\ \A q \in DOMAIN rows : rows'[q].status = rows[q].status /\ rows'[q].essays = rows[q].essays
    <3>1. CASE OpenTask(p)
      <4>1. rows' = [rows EXCEPT ![p].sub = "DRAFT"] /\ UNCHANGED <<plan, req>>
        BY <3>1 DEF OpenTask
      <4> QED BY <2>1, <2>2, <4>1 DEF Row
    <3>2. ASSUME NEW text \in BOOLEAN, SaveEssayDraft(p, text)
          PROVE  /\ DOMAIN rows' = DOMAIN rows /\ UNCHANGED <<plan, req>>
                 /\ \A q \in DOMAIN rows : rows'[q].status = rows[q].status /\ rows'[q].essays = rows[q].essays
      <4>1. rows' = [rows EXCEPT ![p].draft = text] /\ UNCHANGED <<plan, req>>
        BY <3>2 DEF SaveEssayDraft
      <4> QED BY <2>1, <2>2, <4>1 DEF Row
    <3> QED BY <1>4, <3>1, <3>2
  <2> QED BY <1>0, <2>3, Unmoved
<1>5. ASSUME NEW i \in Requests, Work(i) \/ Crash(i) PROVE SerialInv' /\ Lasting
  <2>1. CASE Load(i) BY <2>1, LoadedCurrent
  <2>2. CASE LoadRefused(i) \/ StartLost(i) \/ Collide(i) \/ Crash(i)
             \/ \E p \in DOMAIN rows : FinalizeEssayRefused(i, p)
    <3>1. Drop(i)
      BY <2>2 DEF LoadRefused, StartLost, Collide, Crash, FinalizeEssayRefused
    <3>2. UNCHANGED <<plan, rows>> /\ \A j \in Requests : req'[j] = req[j] \/ req'[j].at = "idle"
      BY <3>1 DEF Drop, SerialInv, IInv, Shape, Idle
    <3> QED BY <1>0, <3>2, Unmoved
  <2>3. CASE CommitStart(i) BY <2>3, StartInOrder
  <2>4. CASE CommitStage(i) BY <2>4, StageInOrder
  <2>5. CASE CommitComplete(i) BY <2>5, CompleteInOrder
  <2>6. CASE \E p \in DOMAIN rows : FinalizeEssayRow(i, p) BY <2>6, EssayRowInOrder
  <2>7. CASE \E p \in DOMAIN rows : FinalizeQuestionRow(i, p) BY <2>7, QuestionRowInOrder
  <2>8. CASE FinishAll(i) BY <2>8, FinishInOrder
  <2> QED BY <1>5, <2>1, <2>2, <2>3, <2>4, <2>5, <2>6, <2>7, <2>8 DEF Work
<1>6. ASSUME NEW i \in Requests, NEW op \in Ops, NEW t \in 0..Len(rows), Receive(i, op, t)
      PROVE  SerialInv' /\ Lasting
  BY <1>6, ReceivedCurrent
<1> QED BY <1>1, <1>2, <1>3, <1>4, <1>5, <1>6 DEF Next

LEMMA SerialInvariance == OneAtATime => (Spec => []SerialInv)
<1> SUFFICES ASSUME OneAtATime PROVE Spec => []SerialInv OBVIOUS
<1>1. SerialInv /\ [Next]_vars => SerialInv'
  BY SerialStep
<1> QED BY <1>1, SerialInitially, PTL DEF Spec

\* One request at a time: in a strict plan a stage is open only when every
\* stage before it is done (initial_statuses, advance_after_stage), in plans
\* of any length.
THEOREM StagesOpenInOrder == OneAtATime => (Spec => []StagesInOrder)
<1>1. SerialInv => StagesInOrder
  BY DEF SerialInv
<1> QED BY <1>1, SerialInvariance, PTL

\* One request at a time: finalize_essay and finalize_all_tasks store a single
\* essay for a task.
THEOREM OneEssayStored == OneAtATime => (Spec => []OneEssayPerTask)
<1>1. SerialInv => OneEssayPerTask
  BY DEF SerialInv, EssaysOnce, OneEssayPerTask
<1> QED BY <1>1, SerialInvariance, PTL

\* The order in review lets every survey be completed again, the skipped ones
\* included; without optional surveys none is skipped.
NoneSkippedInReview ==
  \A P \in Plans : P.mode = "REVIEW" =>
    \A p \in DOMAIN P.items : P.items[p].type = "SURVEY" => P.items[p].required

\* One request at a time: a task that was submitted or skipped is not open in
\* any later state, except as complete_task does to a survey skipped in review.
THEOREM DoneTasksStay == OneAtATime /\ NoneSkippedInReview => (Spec => DoneStays)
<1> SUFFICES ASSUME OneAtATime, NoneSkippedInReview PROVE Spec => DoneStays OBVIOUS
<1>1. SerialInv /\ [Next]_vars => \A p \in DOMAIN rows : Done(rows[p].status) => Done(rows'[p].status)
  <2> SUFFICES ASSUME SerialInv, [Next]_vars, NEW p \in DOMAIN rows, Done(rows[p].status)
               PROVE  Done(rows'[p].status)
    OBVIOUS
  <2>1. Lasting
    BY SerialStep
  <2>2. CASE plan.mode # "REVIEW" \/ rows[p].status = "FINALIZED"
    BY <2>1, <2>2 DEF Lasting, Done
  <2>3. CASE plan.mode = "REVIEW" /\ rows[p].status = "SKIPPED"
    <3>1. Survey(p) /\ ~plan.items[p].required
      BY <2>3 DEF SerialInv, IInv, ClosedHasAnswer, SkipsAllowed
    <3>2. plan \in Plans /\ DOMAIN plan.items = DOMAIN rows
      <4>1. plan \in Plans
        BY <2>3 DEF SerialInv, IInv, Shape, NoPlan
      <4>2. /\ plan.items \in Seq([type : Types, required : BOOLEAN])
            /\ Len(rows) = Len(plan.items) /\ rows \in Seq(Row)
        BY <4>1, PlansAssumption DEF SerialInv, IInv, Shape, IsPlan
      <4> QED BY <4>1, <4>2
    <3> QED BY <2>3, <3>1, <3>2 DEF NoneSkippedInReview, Survey, Type
  <2> QED BY <2>2, <2>3 DEF Done
<1> QED BY <1>1, SerialInvariance, PTL DEF Spec, DoneStays
=============================================================================
