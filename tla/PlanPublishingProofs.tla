------------------------ MODULE PlanPublishingProofs ------------------------
(***************************************************************************)
(* Proofs about PlanPublishing, for any number of administrators,          *)
(* participants, tabs, tasks and images.                                   *)
(***************************************************************************)
EXTENDS PlanPublishing, SequenceTheorems, FiniteSetTheorems, TLAPS

--------------------------------------------------------------------------------
(* The inductive invariant. *)

GroupJobs   == [at : {"group"}, revision : Nat, version : Nat, sources : Choices]
CopyingJobs == [at : {"copying"}, revision : Nat, version : Nat, sources : Choices,
                copied : SUBSET Sources, files : SUBSET Files]
OtherJobs   == [at : {"elsewhere"}, sources : Choices, copied : SUBSET Sources]
SavingJobs  == [at : {"saving"}, content : Contents]
Jobs        == {Idle} \union GroupJobs \union CopyingJobs \union OtherJobs \union SavingJobs
Entries     == {NoEntry} \union [plan : Nat \ {0}, condition : Contents, at : {"read", "opened", "ready"}]
Sessions    == {NoSession} \union [plan : Nat \ {0}, condition : Contents, tasks : Contents]

\* What the variables are, those of the files apart.
Shape ==
  /\ workflow \in [revision : Nat, sources : Choices]
  /\ drafted \in Seq(Choices) /\ Len(drafted) \in 1..MaxRevision
  /\ plans \in Seq(PlanType) /\ Len(plans) \in 1..MaxVersion
  /\ job \in [Admins -> Jobs]
  /\ lock \in [Rows -> Admins \union {Nobody}]
  /\ entry \in [Users \X Tabs -> Entries]
  /\ session \in [Users -> Sessions]
  /\ stored \subseteq Files

\* The workflow says what its last revision says.
LastDraft ==
  /\ workflow.revision \in {0, Len(drafted)}
  /\ workflow.sources = drafted[Len(drafted)]
  /\ \A v \in DOMAIN plans : plans[v].revision \in 0..Len(drafted)

\* Copies are the copies of one plan, which has all of them.
Known(c) == c.origin # 0 => c.origin \in DOMAIN plans /\ c = plans[c.origin].content

\* What request j of administrator a has locked under l, and what stays true while it
\* has: sources are locked in their order.
Holds(a, j, l) ==
  /\ j.at \in {"group", "copying"} =>
       l[WorkflowRow] = a /\ j.revision = Len(drafted) /\ j.sources = drafted[Len(drafted)]
  /\ j.at = "group" => j.version \in 1..Len(plans)
  /\ j.at = "copying" => l[GroupRow] = a /\ j.version = Len(plans)
  /\ j.at = "saving" => l[GroupRow] = a /\ Known(j.content)
  /\ l[GroupRow] = a => j.at \in {"copying", "saving"}
  /\ \A s \in Sources : l[s] = a => j.at \in {"copying", "elsewhere"} /\ s \in j.copied
  /\ j.at \in {"copying", "elsewhere"} => \A s \in j.copied, q \in j.sources \ j.copied : s < q

UnderLock == \A a \in Admins : Holds(a, job[a], lock)

\* What tabs and participants have taken is what their plan says.
TakenFromPlans ==
  /\ \A u \in Users, t \in Tabs : entry[<<u, t>>] # NoEntry =>
       entry[<<u, t>>].plan \in DOMAIN plans /\ entry[<<u, t>>].condition = plans[entry[<<u, t>>].plan].content
  /\ \A u \in Users : session[u] # NoSession =>
       LET s == session[u] IN
       s.plan \in DOMAIN plans /\ s.condition = plans[s.plan].content /\ s.tasks = plans[s.plan].content

\* The library and the copies: none of the current plan's own copies is archived.
Origins == \A v \in DOMAIN plans : Known(plans[v].content)
Unarchived ==
  \A t \in archived \union archiving :
    t \in (0..Len(plans)) \X Sources /\ (plans[Len(plans)].revision # 0 => t[1] # Len(plans))

IInv ==
  /\ Shape /\ LastDraft /\ UnderLock /\ OneCurrentPlan /\ AppliedAsReviewed /\ TakenFromPlans
  /\ Origins /\ Unarchived

--------------------------------------------------------------------------------
(* Rows, and the current plan. *)

LEMMA RowsApart ==
  /\ WorkflowRow \in Rows /\ GroupRow \in Rows /\ Sources \subseteq Rows
  /\ WorkflowRow # GroupRow /\ WorkflowRow \notin Sources /\ GroupRow \notin Sources
  /\ Sources \subseteq Nat /\ \A s \in Sources : GroupRow < s
  /\ Nobody \notin Admins
<1>1. Library \in Nat BY PublishingAssumption
<1> QED BY <1>1, PublishingAssumption DEF Rows, WorkflowRow, GroupRow, Sources

LEMMA CurrentIsLast ==
  ASSUME Shape, OneCurrentPlan
  PROVE  Current = Len(plans) /\ Current \in DOMAIN plans
<1>1. Len(plans) \in DOMAIN plans /\ plans[Len(plans)].status = "PUBLISHED"
  BY DEF Shape, OneCurrentPlan
<1>2. \A w \in DOMAIN plans : w <= Len(plans)
  BY DEF Shape
<1>3. \A v \in DOMAIN plans :
        (plans[v].status = "PUBLISHED" /\ \A w \in DOMAIN plans : plans[w].status = "PUBLISHED" => w <= v)
          <=> v = Len(plans)
  BY <1>1, <1>2 DEF OneCurrentPlan
<1> QED BY <1>1, <1>3 DEF Current

\* The kinds of requests.
LEMMA JobKinds ==
  ASSUME Shape, NEW a \in Admins
  PROVE  /\ job[a] \in Jobs
         /\ job[a].at = "idle" => job[a] = Idle
         /\ job[a].at = "group" => job[a] \in GroupJobs
         /\ job[a].at = "copying" => job[a] \in CopyingJobs
         /\ job[a].at = "elsewhere" => job[a] \in OtherJobs
         /\ job[a].at = "saving" => job[a] \in SavingJobs
<1>1. job[a] \in Jobs BY DEF Shape
<1> QED BY <1>1 DEF Jobs, Idle, GroupJobs, CopyingJobs, OtherJobs, SavingJobs

--------------------------------------------------------------------------------
(* What a step does to the locks. *)

\* Nobody else's locks change.
OnlyOwn(a) ==
  /\ lock' \in [Rows -> Admins \union {Nobody}]
  /\ \A b \in Admins \ {a}, r \in Rows : lock'[r] = b <=> lock[r] = b

LEMMA Releasing ==
  ASSUME Shape, NEW a \in Admins, lock' = Released(a), job' = [job EXCEPT ![a] = Idle]
  PROVE  /\ OnlyOwn(a) /\ job' \in [Admins -> Jobs]
         /\ job'[a] = Idle /\ \A b \in Admins : b # a => job'[b] = job[b]
         /\ \A r \in Rows : lock'[r] # a
<1>1. lock' = [r \in Rows |-> IF lock[r] = a THEN Nobody ELSE lock[r]] BY DEF Released
<1>2. lock \in [Rows -> Admins \union {Nobody}] BY DEF Shape
<1>3. OnlyOwn(a) /\ \A r \in Rows : lock'[r] # a BY <1>1, <1>2, RowsApart DEF OnlyOwn
<1>4. job' \in [Admins -> Jobs] /\ job'[a] = Idle /\ \A b \in Admins : b # a => job'[b] = job[b]
  BY DEF Shape, Jobs
<1> QED BY <1>3, <1>4

\* A free row, or one's own, is taken.
LEMMA Taking ==
  ASSUME Shape, NEW a \in Admins, NEW r \in Rows, lock[r] \in {a, Nobody}, lock' = [lock EXCEPT ![r] = a]
  PROVE  OnlyOwn(a) /\ lock'[r] = a /\ \A x \in Rows : x # r => lock'[x] = lock[x]
<1>1. lock \in [Rows -> Admins \union {Nobody}] BY DEF Shape
<1> QED BY <1>1, RowsApart DEF OnlyOwn

\* The request of another administrator keeps what it holds.
LEMMA OthersHold ==
  ASSUME UnderLock, NEW a \in Admins, NEW b \in Admins, b # a, OnlyOwn(a),
         job'[b] = job[b], UNCHANGED <<drafted, plans>>
  PROVE  Holds(b, job[b], lock)'
<1>1. \A r \in Rows : lock'[r] = b <=> lock[r] = b BY DEF OnlyOwn
<1>2. Holds(b, job[b], lock) BY DEF UnderLock
<1> QED BY <1>1, <1>2, RowsApart DEF Holds, Known

--------------------------------------------------------------------------------
(* The three ways in which a request goes on. *)

\* It ends and leaves the plans as they are.
Ends(a) ==
  /\ job' = [job EXCEPT ![a] = Idle] /\ lock' = Released(a)
  /\ UNCHANGED <<libraryVars, plans, seatVars>> /\ stored' \subseteq Files

\* It comes to a new stage, perhaps with one more lock.
GoesOn(a, j) ==
  /\ j \in Jobs /\ job' = [job EXCEPT ![a] = j]
  /\ OnlyOwn(a) /\ Holds(a, j, lock')
  /\ UNCHANGED <<libraryVars, plans, seatVars>> /\ stored' \subseteq Files

\* It publishes a plan that replaces the last one.
Publishes(a, row) ==
  /\ lock[GroupRow] = a /\ row \in PlanType /\ row.status = "PUBLISHED" /\ row.revision \in 0..Len(drafted)
  /\ row.revision # 0 =>
       row.reviewed = Len(plans)
         /\ row.content = [origin |-> Len(plans) + 1, sources |-> drafted[row.revision]]
  /\ row.revision = 0 => Known(row.content)
  /\ Commit(a, Len(plans), row)

LEMMA Ending ==
  ASSUME IInv, NEW a \in Admins, Ends(a)
  PROVE  IInv'
<1> USE DEF libraryVars, seatVars
<1>0. Shape /\ UNCHANGED <<workflow, drafted, archived, archiving, plans, entry, session>> BY DEF IInv, Ends
<1>1. OnlyOwn(a) /\ job' \in [Admins -> Jobs] /\ job'[a] = Idle /\ (\A b \in Admins : b # a => job'[b] = job[b])
      /\ \A r \in Rows : lock'[r] # a
  BY <1>0, Releasing DEF Ends
<1>2. Shape' BY <1>0, <1>1 DEF Shape, OnlyOwn, Ends
<1>3. UnderLock'
  <2> SUFFICES ASSUME NEW b \in Admins PROVE Holds(b, job[b], lock)' BY DEF UnderLock
  <2>1. CASE b = a
    <3>1. job'[a].at = "idle" BY <1>1 DEF Idle
    <3> QED BY <2>1, <3>1, <1>1, RowsApart DEF Holds
  <2>2. CASE b # a BY <2>2, <1>0, <1>1, OthersHold DEF IInv
  <2> QED BY <2>1, <2>2
<1>4. (LastDraft /\ OneCurrentPlan /\ AppliedAsReviewed /\ TakenFromPlans)'
  BY <1>0 DEF IInv, LastDraft, OneCurrentPlan, AppliedAsReviewed, TakenFromPlans
<1>5. (Origins /\ Unarchived)' BY <1>0 DEF IInv, Origins, Unarchived, Known
<1> QED BY <1>2, <1>3, <1>4, <1>5 DEF IInv

LEMMA GoingOn ==
  ASSUME IInv, NEW a \in Admins, NEW j, GoesOn(a, j)
  PROVE  IInv'
<1> USE DEF libraryVars, seatVars
<1>0. Shape /\ UNCHANGED <<workflow, drafted, archived, archiving, plans, entry, session>>
      /\ j \in Jobs /\ job' = [job EXCEPT ![a] = j] /\ OnlyOwn(a) /\ Holds(a, j, lock') /\ stored' \subseteq Files
  BY DEF IInv, GoesOn
<1>1. job' \in [Admins -> Jobs] /\ job'[a] = j /\ \A b \in Admins : b # a => job'[b] = job[b]
  BY <1>0 DEF Shape
<1>2. Shape' BY <1>0, <1>1 DEF Shape, OnlyOwn
<1>3. UnderLock'
  <2> SUFFICES ASSUME NEW b \in Admins PROVE Holds(b, job[b], lock)' BY DEF UnderLock
  <2>1. CASE b = a BY <2>1, <1>0, <1>1 DEF Holds, Known
  <2>2. CASE b # a BY <2>2, <1>0, <1>1, OthersHold DEF IInv
  <2> QED BY <2>1, <2>2
<1>4. (LastDraft /\ OneCurrentPlan /\ AppliedAsReviewed /\ TakenFromPlans)'
  BY <1>0 DEF IInv, LastDraft, OneCurrentPlan, AppliedAsReviewed, TakenFromPlans
<1>5. (Origins /\ Unarchived)' BY <1>0 DEF IInv, Origins, Unarchived, Known
<1> QED BY <1>2, <1>3, <1>4, <1>5 DEF IInv

\* What a publication does to the plans: the last one is superseded, one is added.
LEMMA Appended ==
  ASSUME Shape, NEW row \in PlanType,
         plans' = Append([plans EXCEPT ![Len(plans)].status = "SUPERSEDED"], row)
  PROVE  LET n == Len(plans) IN
         /\ n \in Nat \ {0} /\ DOMAIN plans = 1..n
         /\ plans' \in Seq(PlanType) /\ Len(plans') = n + 1 /\ DOMAIN plans' = 1..(n + 1)
         /\ plans'[n + 1] = row
         /\ \A v \in 1..n :
              /\ plans'[v].content = plans[v].content /\ plans'[v].revision = plans[v].revision
              /\ plans'[v].reviewed = plans[v].reviewed
              /\ plans'[v].status = IF v = n THEN "SUPERSEDED" ELSE plans[v].status
<1> DEFINE n == Len(plans)
           old == [plans EXCEPT ![n].status = "SUPERSEDED"]
           last == [plans[n] EXCEPT !.status = "SUPERSEDED"]
<1>1. n \in Nat \ {0} /\ n \in 1..n /\ plans \in [1..n -> PlanType] BY DEF Shape
<1>2. /\ last \in PlanType /\ last.status = "SUPERSEDED" /\ last.content = plans[n].content
      /\ last.revision = plans[n].revision /\ last.reviewed = plans[n].reviewed
  <2>1. plans[n] \in PlanType BY <1>1
  <2> QED BY <2>1 DEF PlanType
<1>3. old = [plans EXCEPT ![n] = last] /\ plans' = Append(old, row) OBVIOUS
<1> HIDE DEF last, old
<1>4. old \in [1..n -> PlanType] /\ \A v \in 1..n : old[v] = IF v = n THEN last ELSE plans[v]
  <2> HIDE DEF n
  <2> QED BY <1>1, <1>2, <1>3
<1>5. old \in Seq(PlanType) /\ Len(old) = n
  <2> HIDE DEF n
  <2>1. old \in Seq(PlanType) BY <1>1, <1>4, SeqDef
  <2>2. DOMAIN old = 1..n BY <1>4
  <2> QED BY <1>1, <2>1, <2>2, LenProperties
<1>6. /\ plans' \in Seq(PlanType) /\ Len(plans') = n + 1 /\ plans'[n + 1] = row
      /\ \A v \in 1..n : plans'[v] = old[v]
  <2>1. /\ Append(old, row) \in Seq(PlanType) /\ Len(Append(old, row)) = n + 1
        /\ Append(old, row)[n + 1] = row /\ \A v \in 1..n : Append(old, row)[v] = old[v]
    <3> HIDE DEF n
    <3> QED BY <1>5, AppendProperties
  <2> QED BY <1>3, <2>1
<1>7. DOMAIN plans' = 1..(n + 1) BY <1>6, LenProperties
<1> HIDE DEF n
<1>8. \A v \in 1..n :
        /\ plans'[v].content = plans[v].content /\ plans'[v].revision = plans[v].revision
        /\ plans'[v].reviewed = plans[v].reviewed
        /\ plans'[v].status = IF v = n THEN "SUPERSEDED" ELSE plans[v].status
  BY <1>2, <1>4, <1>6
<1> QED BY <1>1, <1>6, <1>7, <1>8 DEF n

\* Publishing keeps the invariant.
LEMMA Publishing ==
  ASSUME IInv, NEW a \in Admins, NEW row, Publishes(a, row)
  PROVE  IInv'
<1> DEFINE n == Len(plans)
<1>a. /\ lock[GroupRow] = a /\ row \in PlanType /\ row.status = "PUBLISHED" /\ row.revision \in 0..Len(drafted)
      /\ row.revision # 0 => row.reviewed = n /\ row.content = [origin |-> n + 1, sources |-> drafted[row.revision]]
      /\ row.revision = 0 => Known(row.content)
      /\ n < MaxVersion /\ lock' = Released(a) /\ job' = [job EXCEPT ![a] = Idle]
      /\ UNCHANGED <<workflow, drafted, archived, archiving, entry, session, stored>>
  BY DEF Publishes, Commit, libraryVars, seatVars
<1>0. Shape BY DEF IInv
<1>1. /\ n \in Nat \ {0} /\ DOMAIN plans = 1..n
      /\ plans' \in Seq(PlanType) /\ Len(plans') = n + 1 /\ DOMAIN plans' = 1..(n + 1)
      /\ plans'[n + 1] = row
      /\ \A v \in 1..n :
           /\ plans'[v].content = plans[v].content /\ plans'[v].revision = plans[v].revision
           /\ plans'[v].reviewed = plans[v].reviewed
           /\ plans'[v].status = IF v = n THEN "SUPERSEDED" ELSE plans[v].status
  <2>1. plans' = Append([plans EXCEPT ![Len(plans)].status = "SUPERSEDED"], row)
    BY DEF Publishes, Commit
  <2> QED BY <1>0, <1>a, <2>1, Appended
<1> HIDE DEF n
<1>b. \A v \in 1..(n + 1) : v \in 1..n \/ v = n + 1 BY <1>1
<1>2. OnlyOwn(a) /\ job' \in [Admins -> Jobs] /\ job'[a] = Idle /\ (\A b \in Admins : b # a => job'[b] = job[b])
      /\ \A r \in Rows : lock'[r] # a
  BY <1>0, <1>a, Releasing
<1>3. Shape'
  <2>1. Len(plans') \in 1..MaxVersion BY <1>a, <1>1, PublishingAssumption
  <2> QED BY <1>0, <1>a, <1>1, <1>2, <2>1 DEF Shape, OnlyOwn
<1>4. ASSUME NEW c, Known(c) PROVE Known(c)'
  <2>1. c.origin # 0 => c.origin \in 1..n /\ c = plans[c.origin].content BY <1>1, <1>4 DEF Known
  <2>2. c.origin # 0 => c.origin \in 1..(n + 1) /\ c = plans'[c.origin].content BY <1>1, <2>1
  <2> QED BY <1>1, <2>2 DEF Known
<1>5. UnderLock'
  <2> SUFFICES ASSUME NEW b \in Admins PROVE Holds(b, job[b], lock)' BY DEF UnderLock
  <2>1. CASE b = a
    <3>1. job'[a].at = "idle" BY <1>2 DEF Idle
    <3> QED BY <2>1, <3>1, <1>2, RowsApart DEF Holds
  <2>2. CASE b # a
    <3>1. Holds(b, job[b], lock) /\ job'[b] = job[b] BY <1>2, <2>2 DEF IInv, UnderLock
    <3>2. \A r \in Rows : lock'[r] = b <=> lock[r] = b BY <1>2, <2>2 DEF OnlyOwn
    <3>3. job[b].at # "copying" /\ job[b].at # "saving" BY <1>a, <2>2, <3>1 DEF Holds
    <3>4. job[b].at = "group" => job[b].version \in 1..Len(plans')
      <4>1. job[b].at = "group" => job[b].version \in 1..n BY <3>1 DEF Holds, n
      <4>2. \A v \in 1..n : v \in 1..Len(plans') BY <1>1
      <4> QED BY <4>1, <4>2
    <3> QED BY <1>a, <3>1, <3>2, <3>3, <3>4, RowsApart DEF Holds
  <2> QED BY <2>1, <2>2
<1>6. OneCurrentPlan'
  <2> SUFFICES ASSUME NEW v \in 1..(n + 1) PROVE plans'[v].status = "PUBLISHED" <=> v = n + 1
    BY <1>1 DEF OneCurrentPlan
  <2>1. CASE v = n + 1 BY <2>1, <1>a, <1>1
  <2>2. CASE v \in 1..n
    <3>1. plans[v].status = "PUBLISHED" <=> v = n BY <2>2, <1>1 DEF IInv, OneCurrentPlan, n
    <3> QED BY <2>2, <3>1, <1>1
  <2> QED BY <2>1, <2>2, <1>b
<1>7. AppliedAsReviewed'
  <2> SUFFICES ASSUME NEW v \in 1..(n + 1), plans'[v].revision # 0
               PROVE  /\ plans'[v].reviewed = v - 1
                      /\ plans'[v].content = [origin |-> v, sources |-> drafted[plans'[v].revision]]
    BY <1>a, <1>1 DEF AppliedAsReviewed
  <2>1. CASE v = n + 1
    <3> HIDE DEF n
    <3>1. plans'[v] = row /\ row.revision # 0 /\ v - 1 = n BY <2>1, <1>1
    <3>2. row.reviewed = n /\ row.content = [origin |-> v, sources |-> drafted[row.revision]]
      BY <3>1, <2>1, <1>a
    <3> QED BY <3>1, <3>2
  <2>2. CASE v \in 1..n BY <2>2, <1>1 DEF IInv, AppliedAsReviewed
  <2> QED BY <2>1, <2>2, <1>b
<1>8. TakenFromPlans'
  <2>1. \A v \in 1..n : v \in 1..(n + 1) /\ plans'[v].content = plans[v].content
    BY <1>1
  <2>2. entry' = entry /\ session' = session BY <1>a
  <2>3. ASSUME NEW u \in Users, NEW t \in Tabs, entry[<<u, t>>] # NoEntry
        PROVE  entry[<<u, t>>].plan \in 1..(n + 1) /\ entry[<<u, t>>].condition = plans'[entry[<<u, t>>].plan].content
    <3>1. entry[<<u, t>>].plan \in 1..n /\ entry[<<u, t>>].condition = plans[entry[<<u, t>>].plan].content
      BY <2>3, <1>1 DEF IInv, TakenFromPlans
    <3> QED BY <3>1, <2>1
  <2>4. ASSUME NEW u \in Users, session[u] # NoSession
        PROVE  /\ session[u].plan \in 1..(n + 1) /\ session[u].condition = plans'[session[u].plan].content
               /\ session[u].tasks = plans'[session[u].plan].content
    <3>1. /\ session[u].plan \in 1..n /\ session[u].condition = plans[session[u].plan].content
          /\ session[u].tasks = plans[session[u].plan].content
      BY <2>4, <1>1 DEF IInv, TakenFromPlans
    <3> QED BY <3>1, <2>1
  <2> HIDE DEF n
  <2> QED BY <1>1, <2>2, <2>3, <2>4 DEF TakenFromPlans
<1>9. LastDraft'
  <2>1. \A v \in 1..(n + 1) : plans'[v].revision \in 0..Len(drafted)
    <3>1. \A v \in 1..n : plans'[v].revision \in 0..Len(drafted)
      BY <1>1 DEF IInv, LastDraft
    <3> QED BY <3>1, <1>a, <1>1, <1>b
  <2> QED BY <1>a, <1>1, <2>1 DEF IInv, LastDraft
<1>10. Origins'
  <2> SUFFICES ASSUME NEW v \in 1..(n + 1) PROVE Known(plans[v].content)'
    BY <1>1 DEF Origins
  <2>1. CASE v \in 1..n
    <3>1. Known(plans[v].content) BY <2>1, <1>1 DEF IInv, Origins
    <3>2. plans'[v].content = plans[v].content BY <2>1, <1>1
    <3> QED BY <3>1, <3>2, <1>4 DEF Known
  <2>2. CASE v = n + 1 /\ row.revision # 0
    <3>1. row.content.origin = n + 1 BY <2>2, <1>a
    <3> QED BY <2>2, <3>1, <1>1 DEF Known
  <2>3. CASE v = n + 1 /\ row.revision = 0
    BY <2>3, <1>a, <1>1, <1>4 DEF Known
  <2> QED BY <2>1, <2>2, <2>3, <1>b
<1>11. Unarchived'
  <2> SUFFICES ASSUME NEW t \in archived \union archiving
               PROVE  t \in (0..(n + 1)) \X Sources /\ t[1] # n + 1
    BY <1>a, <1>1 DEF Unarchived
  <2>1. t \in (0..n) \X Sources BY <1>1 DEF IInv, Unarchived, n
  <2> QED BY <1>1, <2>1
<1> QED BY <1>3, <1>5, <1>6, <1>7, <1>8, <1>9, <1>10, <1>11 DEF IInv

--------------------------------------------------------------------------------
(* The library and the workflow. *)

\* A step that leaves these variables alone.
LEMMA Quiet ==
  ASSUME IInv, UNCHANGED <<workflow, drafted, archived, archiving, plans, job, lock, entry, session, stored>>
  PROVE  IInv'
<1>1. Shape' BY DEF IInv, Shape
<1>2. (LastDraft /\ UnderLock)' BY DEF IInv, LastDraft, UnderLock, Holds, Known
<1>3. (OneCurrentPlan /\ AppliedAsReviewed /\ TakenFromPlans)'
  BY DEF IInv, OneCurrentPlan, AppliedAsReviewed, TakenFromPlans
<1>4. (Origins /\ Unarchived)' BY DEF IInv, Origins, Unarchived, Known
<1> QED BY <1>1, <1>2, <1>3, <1>4 DEF IInv

\* A copy that the current plan has made is in use, which refuses to archive it.
LEMMA Archiving ==
  ASSUME IInv, NEW t \in Existing, ArchiveCheck(t) \/ ArchiveCommit(t) \/ PublishTask(t)
  PROVE  IInv'
<1> DEFINE n == Len(plans)
<1>1. UNCHANGED <<workflow, drafted, plans, job, lock, entry, session, stored>>
  BY DEF ArchiveCheck, ArchiveCommit, PublishTask, vars, libraryVars, fileVars, seatVars
<1>2. n \in Nat \ {0} /\ DOMAIN plans = 1..n /\ \A v \in 1..n : plans[v].content \in Contents
  <2>1. n \in Nat \ {0} /\ DOMAIN plans = 1..n /\ \A v \in 1..n : plans[v] \in PlanType BY DEF IInv, Shape
  <2> QED BY <2>1 DEF PlanType
<1>3. \A v \in 1..n : Known(plans[v].content) BY <1>2 DEF IInv, Origins
<1>4. t \in (0..n) \X Sources
  <2>1. CASE t \in {0} \X Sources BY <2>1, <1>2
  <2>2. CASE t \in UNION {TasksOf(plans[v].content) : v \in DOMAIN plans}
    <3>1. PICK v \in 1..n : t \in TasksOf(plans[v].content) BY <2>2, <1>2
    <3> DEFINE c == plans[v].content
    <3>2. c.origin \in 0..n BY <1>2, <1>3 DEF Known, Contents
    <3>3. c.sources \subseteq Sources BY <1>2, PublishingAssumption DEF Contents
    <3>4. t \in {c.origin} \X c.sources BY <3>1 DEF TasksOf
    <3> HIDE DEF c
    <3> QED BY <3>2, <3>3, <3>4
  <2> QED BY <2>1, <2>2 DEF Existing
<1>5. ~InUse(t) /\ plans[n].revision # 0 => t[1] # n
  <2> SUFFICES ASSUME ~InUse(t), plans[n].revision # 0, t[1] = n PROVE FALSE OBVIOUS
  <2>1. t \in UNION {TasksOf(plans[v].content) : v \in DOMAIN plans}
    BY <1>2 DEF Existing
  <2>2. PICK v \in 1..n : t \in TasksOf(plans[v].content) BY <2>1, <1>2
  <2>3. plans[v].content.origin = n BY <2>2 DEF TasksOf
  <2>4. t \in TasksOf(plans[n].content) BY <2>2, <2>3, <1>2, <1>3 DEF Known
  <2>5. n \in DOMAIN plans /\ plans[n].status = "PUBLISHED" BY <1>2 DEF IInv, OneCurrentPlan
  <2> QED BY <2>4, <2>5 DEF InUse
<1>6. Unarchived'
  <2>1. \A x \in (archived \union archiving)' : x \in archived \union archiving \/ (x = t /\ ~InUse(t))
    BY DEF ArchiveCheck, ArchiveCommit, PublishTask, vars, libraryVars
  <2>2. \A x \in archived \union archiving :
          x \in (0..n) \X Sources /\ (plans[n].revision # 0 => x[1] # n)
    BY DEF IInv, Unarchived
  <2> HIDE DEF n
  <2>3. \A x \in (archived \union archiving)' :
          x \in (0..n) \X Sources /\ (plans[n].revision # 0 => x[1] # n)
    BY <1>4, <1>5, <2>1, <2>2
  <2> QED BY <1>1, <2>3 DEF Unarchived, n
<1>7. Shape' BY <1>1 DEF IInv, Shape
<1>8. (LastDraft /\ UnderLock)' BY <1>1 DEF IInv, LastDraft, UnderLock, Holds, Known
<1>9. (OneCurrentPlan /\ AppliedAsReviewed /\ TakenFromPlans /\ Origins)'
  BY <1>1 DEF IInv, OneCurrentPlan, AppliedAsReviewed, TakenFromPlans, Origins, Known
<1> QED BY <1>6, <1>7, <1>8, <1>9 DEF IInv

\* No request works on the workflow while its row is free.
LEMMA WorkflowFree ==
  ASSUME UnderLock, lock[WorkflowRow] = Nobody
  PROVE  \A a \in Admins : job[a].at \notin {"group", "copying"}
BY PublishingAssumption DEF UnderLock, Holds

LEMMA Updating ==
  ASSUME IInv, NEW revision \in Revisions, Update(revision)
  PROVE  IInv'
<1> DEFINE k == Len(drafted)
<1>1. PICK S \in Choices : /\ workflow' = [revision |-> revision + 1, sources |-> S]
                           /\ drafted' = Append(drafted, S)
  BY DEF Update
<1>2. UNCHANGED <<archived, archiving, plans, job, lock, entry, session, stored>> /\ lock[WorkflowRow] = Nobody
      /\ revision = workflow.revision /\ workflow.revision < MaxRevision
  BY DEF Update, Unchanged, seatVars, fileVars
<1>3. drafted \in Seq(Choices) /\ k \in 1..MaxRevision /\ DOMAIN drafted = 1..k
  BY LenProperties DEF IInv, Shape
<1>4. revision = k BY <1>2, <1>3 DEF Revisions, IInv, LastDraft
<1> HIDE DEF k
<1>5. /\ drafted' \in Seq(Choices) /\ Len(drafted') = k + 1 /\ drafted'[k + 1] = S
      /\ \A i \in 1..k : drafted'[i] = drafted[i]
  BY <1>1, <1>3, AppendProperties DEF k
<1>6. Shape'
  <2>1. Len(drafted') \in 1..MaxRevision BY <1>2, <1>3, <1>4, <1>5, PublishingAssumption
  <2>2. workflow' \in [revision : Nat, sources : Choices] BY <1>1, <1>3, <1>4, PublishingAssumption
  <2> QED BY <1>2, <1>5, <2>1, <2>2 DEF IInv, Shape
<1>7. LastDraft'
  <2>1. workflow'.revision = k + 1 /\ workflow'.sources = S BY <1>1, <1>4
  <2>2. \A v \in DOMAIN plans : plans[v].revision \in 0..(k + 1)
    BY <1>3, PublishingAssumption DEF IInv, LastDraft, k
  <2> QED BY <1>2, <1>5, <2>1, <2>2 DEF LastDraft
<1>8. UnderLock'
  <2> SUFFICES ASSUME NEW a \in Admins PROVE Holds(a, job[a], lock)' BY DEF UnderLock
  <2>1. job[a].at \notin {"group", "copying"} /\ Holds(a, job[a], lock)
    BY <1>2, WorkflowFree DEF IInv, UnderLock
  <2> QED BY <1>2, <2>1 DEF Holds, Known
<1>9. AppliedAsReviewed'
  <2> SUFFICES ASSUME NEW v \in DOMAIN plans, plans[v].revision # 0
               PROVE  /\ plans[v].reviewed = v - 1
                      /\ plans[v].content = [origin |-> v, sources |-> drafted'[plans[v].revision]]
    BY <1>2 DEF AppliedAsReviewed
  <2>1. plans[v].revision \in 1..k BY <1>3 DEF IInv, LastDraft, k
  <2> QED BY <1>5, <2>1 DEF IInv, AppliedAsReviewed
<1>10. (OneCurrentPlan /\ TakenFromPlans /\ Origins /\ Unarchived)'
  BY <1>2 DEF IInv, OneCurrentPlan, TakenFromPlans, Origins, Unarchived, Known
<1> QED BY <1>6, <1>7, <1>8, <1>9, <1>10 DEF IInv

LEMMA Deleting ==
  ASSUME IInv, NEW revision \in Revisions, Delete(revision)
  PROVE  IInv'
<1>1. UNCHANGED <<drafted, archived, archiving, plans, job, lock, entry, session, stored>>
      /\ workflow' = [workflow EXCEPT !.revision = 0]
  BY DEF Delete, seatVars, fileVars
<1>2. workflow'.revision = 0 /\ workflow'.sources = workflow.sources
      /\ workflow' \in [revision : Nat, sources : Choices]
  BY <1>1 DEF IInv, Shape
<1>3. Shape' BY <1>1, <1>2 DEF IInv, Shape
<1>4. (LastDraft /\ UnderLock)' BY <1>1, <1>2 DEF IInv, LastDraft, UnderLock, Holds, Known
<1>5. (OneCurrentPlan /\ AppliedAsReviewed /\ TakenFromPlans)'
  BY <1>1 DEF IInv, OneCurrentPlan, AppliedAsReviewed, TakenFromPlans
<1>6. (Origins /\ Unarchived)' BY <1>1 DEF IInv, Origins, Unarchived, Known
<1> QED BY <1>3, <1>4, <1>5, <1>6 DEF IInv

--------------------------------------------------------------------------------
(* The steps of a request. *)

GoesOnOrEnds(a) == Ends(a) \/ \E j : GoesOn(a, j)

\* A new stage with no new lock.
LEMMA NoNewLock ==
  ASSUME IInv, UNCHANGED lock, NEW a \in Admins
  PROVE  OnlyOwn(a)
BY DEF IInv, Shape, OnlyOwn

LEMMA Undone ==
  ASSUME IInv, NEW a \in Admins, NEW kept \in SUBSET Files, Undo(a, kept)
  PROVE  Ends(a)
BY DEF IInv, Shape, Undo, Ends, libraryVars, seatVars

LEMMA Beginning ==
  ASSUME IInv, NEW a \in Admins, NEW revision \in Revisions, NEW version \in DOMAIN plans,
         ApplyBegin(a, revision, version)
  PROVE  GoesOnOrEnds(a)
<1> DEFINE j == [at |-> "group", revision |-> revision, version |-> version, sources |-> workflow.sources]
<1>0. Shape /\ LastDraft BY DEF IInv
<1>1. /\ job[a] = Idle /\ lock[WorkflowRow] = Nobody /\ revision = workflow.revision
      /\ lock' = [lock EXCEPT ![WorkflowRow] = a] /\ job' = [job EXCEPT ![a] = j]
      /\ UNCHANGED <<libraryVars, plans, seatVars, stored>>
  BY DEF ApplyBegin, Idling, Unchanged, fileVars
<1>2. revision = Len(drafted) /\ revision \in Nat /\ workflow.sources = drafted[Len(drafted)]
      /\ workflow.sources \in Choices
  <2>1. DOMAIN drafted = 1..Len(drafted) BY <1>0, LenProperties DEF Shape
  <2> QED BY <1>0, <1>1, <2>1 DEF Shape, LastDraft, Revisions
<1>3. version \in 1..Len(plans) /\ version \in Nat BY <1>0, LenProperties DEF Shape
<1>4. j \in GroupJobs BY <1>2, <1>3 DEF GroupJobs
<1>5. /\ OnlyOwn(a) /\ lock'[WorkflowRow] = a
      /\ \A x \in Rows : x # WorkflowRow => lock'[x] = lock[x]
  BY <1>0, <1>1, RowsApart, Taking
<1>6. \A r \in {GroupRow} \union Sources : lock'[r] # a
  <2>1. Holds(a, Idle, lock) BY <1>1 DEF IInv, UnderLock
  <2> QED BY <1>5, <2>1, RowsApart DEF Holds, Idle
<1>7. j.at = "group" /\ j.revision = revision /\ j.version = version /\ j.sources = workflow.sources OBVIOUS
<1> HIDE DEF j
<1>8. Holds(a, j, lock') BY <1>2, <1>3, <1>5, <1>6, <1>7 DEF Holds
<1>9. GoesOn(a, j) BY <1>0, <1>1, <1>4, <1>5, <1>8 DEF GoesOn, Jobs, Shape
<1> QED BY <1>9 DEF GoesOnOrEnds

LEMMA LockingGroup ==
  ASSUME IInv, NEW a \in Admins, ApplyLockGroup(a)
  PROVE  GoesOnOrEnds(a)
<1> DEFINE j == CopyingJob(a)
<1>0. Shape /\ job[a].at = "group" /\ lock[GroupRow] = Nobody BY DEF IInv, ApplyLockGroup
<1>1. CASE Undo(a, {}) BY <1>1, Undone DEF GoesOnOrEnds
<1>2. CASE /\ job[a].version = Current /\ lock' = [lock EXCEPT ![GroupRow] = a] /\ job' = [job EXCEPT ![a] = j]
           /\ UNCHANGED <<libraryVars, plans, fileVars, seatVars>>
  <2>1. job[a] \in GroupJobs BY <1>0, JobKinds
  <2>2. /\ j \in CopyingJobs /\ j.at = "copying" /\ j.copied = {} /\ j.revision = job[a].revision
        /\ j.version = job[a].version /\ j.sources = job[a].sources
    BY <2>1 DEF CopyingJob, GroupJobs, CopyingJobs
  <2>3. /\ OnlyOwn(a) /\ lock'[GroupRow] = a /\ \A x \in Rows : x # GroupRow => lock'[x] = lock[x]
    BY <1>0, <1>2, RowsApart, Taking
  <2>4. Holds(a, job[a], lock) BY DEF IInv, UnderLock
  <2>5. job[a].version = Len(plans) BY <1>0, <1>2, CurrentIsLast DEF IInv
  <2> HIDE DEF j
  <2>6. Holds(a, j, lock') BY <1>0, <2>2, <2>3, <2>4, <2>5, RowsApart DEF Holds
  <2>7. GoesOn(a, j) BY <1>0, <1>2, <2>2, <2>3, <2>6 DEF GoesOn, Jobs, fileVars, Shape
  <2> QED BY <2>7 DEF GoesOnOrEnds
<1> QED BY <1>1, <1>2 DEF ApplyLockGroup

\* Sources are locked in their order, whatever is applied to which group.
LEMMA CopyingSource ==
  ASSUME IInv, NEW a \in Admins, ApplyCopySource(a)
  PROVE  GoesOnOrEnds(a)
<1>0. Shape /\ job[a].at \in {"copying", "elsewhere"} BY DEF IInv, ApplyCopySource
<1>1. CASE Undo(a, {}) BY <1>1, Undone DEF GoesOnOrEnds
<1>2. ASSUME NEW s \in Following(a), lock[s] = Nobody, lock' = [lock EXCEPT ![s] = a],
             job' = [job EXCEPT ![a].copied = @ \union {s}], UNCHANGED <<libraryVars, plans, fileVars, seatVars>>
      PROVE  GoesOnOrEnds(a)
  <2> DEFINE j == [job[a] EXCEPT !.copied = @ \union {s}]
  <2>1. job[a] \in CopyingJobs \/ job[a] \in OtherJobs BY <1>0, JobKinds
  <2>2. s \in Sources /\ s \in job[a].sources /\ s \notin job[a].copied
        /\ \A q \in job[a].sources \ job[a].copied : s <= q
    BY <2>1, PublishingAssumption DEF Following, Lacking, CopyingJobs, OtherJobs
  <2>3. /\ j \in Jobs /\ j.at = job[a].at /\ j.copied = job[a].copied \union {s} /\ j.sources = job[a].sources
        /\ j.at = "copying" => j.revision = job[a].revision /\ j.version = job[a].version
    <3>1. CASE job[a] \in CopyingJobs BY <2>2, <3>1 DEF CopyingJobs, Jobs
    <3>2. CASE job[a] \in OtherJobs BY <2>2, <3>2 DEF OtherJobs, Jobs
    <3> QED BY <2>1, <3>1, <3>2
  <2>4. /\ OnlyOwn(a) /\ lock'[s] = a /\ \A x \in Rows : x # s => lock'[x] = lock[x]
    <3>1. s \in Rows BY <2>2, RowsApart
    <3> QED BY <1>0, <1>2, <3>1, Taking
  <2>5. Holds(a, job[a], lock) BY DEF IInv, UnderLock
  <2>6. job' = [job EXCEPT ![a] = j] BY <1>2
  <2>7. \A q \in j.copied, p \in j.sources \ j.copied : q < p
    <3> SUFFICES ASSUME NEW q \in job[a].copied \union {s},
                        NEW p \in job[a].sources \ (job[a].copied \union {s})
                 PROVE  q < p
      BY <2>3
    <3>1. CASE q \in job[a].copied BY <1>0, <2>5, <3>1 DEF Holds
    <3>2. CASE q = s
      <4>1. p \in Sources BY <2>1, PublishingAssumption DEF CopyingJobs, OtherJobs
      <4> QED BY <2>2, <3>2, <4>1, RowsApart
    <3> QED BY <3>1, <3>2
  <2>8. CASE j.at = "copying"
    <3> HIDE DEF j
    <3>1. Holds(a, j, lock') BY <1>0, <2>2, <2>3, <2>4, <2>5, <2>7, <2>8, RowsApart DEF Holds
    <3>2. GoesOn(a, j) BY <1>0, <1>2, <2>3, <2>4, <2>6, <3>1 DEF GoesOn, fileVars, Shape
    <3> QED BY <3>2 DEF GoesOnOrEnds
  <2>9. CASE j.at = "elsewhere"
    <3> HIDE DEF j
    <3>1. Holds(a, j, lock') BY <1>0, <2>2, <2>3, <2>4, <2>5, <2>7, <2>9, RowsApart DEF Holds
    <3>2. GoesOn(a, j) BY <1>0, <1>2, <2>3, <2>4, <2>6, <3>1 DEF GoesOn, fileVars, Shape
    <3> QED BY <3>2 DEF GoesOnOrEnds
  <2> QED BY <1>0, <2>3, <2>8, <2>9
<1> QED BY <1>1, <1>2 DEF ApplyCopySource

LEMMA NewFileIsNew ==
  ASSUME IInv, stored # Files
  PROVE  NewFile \in Files /\ NewFile \notin stored
<1>1. \E f \in Files : f \notin stored BY DEF IInv, Shape
<1> QED BY <1>1 DEF NewFile

\* What an upload makes of a request.
Longer(a) == [job[a] EXCEPT !.files = @ \union {NewFile}]

LEMMA StoringImage ==
  ASSUME IInv, NEW a \in Admins, ApplyStoreImage(a)
  PROVE  /\ GoesOnOrEnds(a) /\ job[a] \in CopyingJobs /\ job' = [job EXCEPT ![a] = Longer(a)]
         /\ Longer(a).at = "copying" /\ Longer(a).files = job[a].files \union {NewFile}
         /\ stored' = stored \union {NewFile} /\ NewFile \notin stored
<1> DEFINE j == Longer(a)
<1>0. /\ Shape /\ job[a].at = "copying" /\ stored # Files /\ stored' = stored \union {NewFile}
      /\ job' = [job EXCEPT ![a] = j] /\ UNCHANGED <<libraryVars, plans, lock, seatVars>>
  BY DEF IInv, ApplyStoreImage, Uploading, Longer
<1>1. job[a] \in CopyingJobs BY <1>0, JobKinds
<1>2. NewFile \in Files /\ NewFile \notin stored BY <1>0, NewFileIsNew
<1>3. /\ j \in CopyingJobs /\ j.at = "copying" /\ j.copied = job[a].copied /\ j.sources = job[a].sources
      /\ j.revision = job[a].revision /\ j.version = job[a].version
      /\ j.files = job[a].files \union {NewFile}
  BY <1>1, <1>2 DEF CopyingJobs, Longer
<1>4. Holds(a, job[a], lock) BY DEF IInv, UnderLock
<1> HIDE DEF j
<1>5. Holds(a, j, lock') BY <1>0, <1>3, <1>4 DEF Holds
<1>6. GoesOn(a, j) BY <1>0, <1>2, <1>3, <1>5, NoNewLock DEF GoesOn, Jobs, Shape
<1>7. GoesOnOrEnds(a) BY <1>6 DEF GoesOnOrEnds
<1> QED BY <1>0, <1>1, <1>2, <1>3, <1>7 DEF j

LEMMA BeginningElsewhere ==
  ASSUME IInv, NEW a \in Admins, ElsewhereBegin(a)
  PROVE  GoesOnOrEnds(a)
<1>1. PICK S \in Choices : job' = [job EXCEPT ![a] = [at |-> "elsewhere", sources |-> S, copied |-> {}]]
  BY DEF ElsewhereBegin
<1> DEFINE j == [at |-> "elsewhere", sources |-> S, copied |-> {}]
<1>2. job[a] = Idle /\ UNCHANGED <<libraryVars, plans, lock, stored, seatVars>>
  BY DEF ElsewhereBegin, Idling, fileVars
<1>3. j \in OtherJobs BY DEF OtherJobs
<1>4. Holds(a, Idle, lock) BY <1>2 DEF IInv, UnderLock
<1>5. j.at = "elsewhere" /\ j.copied = {} OBVIOUS
<1>6. job' = [job EXCEPT ![a] = j] BY <1>1
<1> HIDE DEF j
<1>7. Holds(a, j, lock') BY <1>2, <1>4, <1>5 DEF Holds, Idle
<1>8. GoesOn(a, j) BY <1>2, <1>3, <1>6, <1>7, NoNewLock DEF GoesOn, Jobs, IInv, Shape
<1> QED BY <1>8 DEF GoesOnOrEnds

LEMMA EndingElsewhere ==
  ASSUME IInv, NEW a \in Admins, ElsewhereEnd(a)
  PROVE  Ends(a)
BY DEF IInv, Shape, ElsewhereEnd, Ends, fileVars

LEMMA Saving ==
  ASSUME IInv, NEW a \in Admins, NEW c \in Forms, SaveBegin(a, c)
  PROVE  GoesOnOrEnds(a)
<1> DEFINE j == [at |-> "saving", content |-> c]
<1>0. Shape /\ job[a] = Idle /\ lock[GroupRow] = Nobody /\ lock' = [lock EXCEPT ![GroupRow] = a]
      /\ job' = [job EXCEPT ![a] = j] /\ UNCHANGED <<libraryVars, plans, stored, seatVars>>
  BY DEF SaveBegin, Idling, fileVars, IInv
<1>1. j \in SavingJobs BY DEF SavingJobs, Forms
<1>2. Known(c) BY DEF Forms, IInv, Origins, Known
<1>3. /\ OnlyOwn(a) /\ lock'[GroupRow] = a /\ \A x \in Rows : x # GroupRow => lock'[x] = lock[x]
  BY <1>0, RowsApart, Taking
<1>4. Holds(a, Idle, lock) BY <1>0 DEF IInv, UnderLock
<1>5. j.at = "saving" /\ j.content = c OBVIOUS
<1> HIDE DEF j
<1>6. Holds(a, j, lock') BY <1>2, <1>3, <1>4, <1>5, RowsApart DEF Holds, Idle
<1>7. GoesOn(a, j) BY <1>0, <1>1, <1>3, <1>6 DEF GoesOn, Jobs, Shape
<1> QED BY <1>7 DEF GoesOnOrEnds

LEMMA Failing ==
  ASSUME IInv, NEW a \in Admins, Fail(a)
  PROVE  \E kept \in SUBSET Files :
           /\ kept \subseteq Held(a) \union {f \in Files : Uploading(a) /\ f = NewFile}
           /\ Undo(a, kept) /\ Ends(a)
<1>1. PICK kept \in SUBSET (Held(a) \union {f \in Files : Uploading(a) /\ f = NewFile}) : Undo(a, kept)
  BY DEF Fail
<1>2. Held(a) \subseteq Files BY JobKinds DEF Held, IInv, CopyingJobs
<1>3. kept \in SUBSET Files BY <1>2
<1> QED BY <1>1, <1>3, Undone


\* What is published: copies of the reviewed revision, or what the form says.
LEMMA ApplicationPublishes ==
  ASSUME IInv, NEW a \in Admins, ApplyPublish(a)
  PROVE  \E row : Publishes(a, row)
<1> DEFINE row == PublishedPlan(Applied(a), job[a].revision, job[a].version)
           n == Len(plans)
<1>0. Shape /\ job[a].at = "copying" BY DEF IInv, ApplyPublish
<1>1. job[a] \in CopyingJobs BY <1>0, JobKinds
<1>2. lock[GroupRow] = a /\ job[a].version = n /\ job[a].revision = Len(drafted)
      /\ job[a].sources = drafted[Len(drafted)]
  BY <1>0 DEF IInv, UnderLock, Holds
<1>3. Commit(a, n, row) BY <1>2 DEF ApplyPublish
<1>4. n \in Nat \ {0} /\ n < MaxVersion /\ Len(drafted) \in 1..MaxRevision BY <1>0, <1>3 DEF Commit, Shape
<1>5. /\ row.content = [origin |-> n + 1, sources |-> job[a].sources] /\ row.status = "PUBLISHED"
      /\ row.revision = Len(drafted) /\ row.reviewed = n /\ row.locked = FALSE
      /\ row = [content |-> row.content, status |-> row.status, locked |-> row.locked,
                revision |-> row.revision, reviewed |-> row.reviewed]
  BY <1>2 DEF PublishedPlan, Applied
<1> HIDE DEF row
<1>6. row.content \in Contents
  <2>1. n + 1 \in 0..MaxVersion BY <1>4, PublishingAssumption
  <2>2. job[a].sources \in Choices BY <1>1 DEF CopyingJobs
  <2> QED BY <1>5, <2>1, <2>2 DEF Contents
<1>7. row \in PlanType
  <2>1. row.reviewed \in 0..MaxVersion /\ row.revision \in 0..MaxRevision
    BY <1>4, <1>5, PublishingAssumption
  <2> QED BY <1>5, <1>6, <2>1 DEF PlanType
<1>8. row.revision \in 0..Len(drafted) /\ row.revision # 0 BY <1>4, <1>5, PublishingAssumption
<1> QED BY <1>2, <1>3, <1>5, <1>7, <1>8 DEF Publishes

LEMMA SavePublishes ==
  ASSUME IInv, NEW a \in Admins, SavePublish(a)
  PROVE  \E row : Publishes(a, row)
<1> DEFINE row == PublishedPlan(job[a].content, 0, 0)
<1>0. Shape /\ job[a].at = "saving" /\ Current = Len(plans)
  BY CurrentIsLast DEF IInv, SavePublish
<1>1. job[a] \in SavingJobs BY <1>0, JobKinds
<1>2. lock[GroupRow] = a /\ Known(job[a].content) BY <1>0 DEF IInv, UnderLock, Holds
<1>3. Commit(a, Len(plans), row) BY <1>0 DEF SavePublish
<1>4. /\ row.content = job[a].content /\ row.status = "PUBLISHED" /\ row.revision = 0 /\ row.reviewed = 0
      /\ row.locked = FALSE
      /\ row = [content |-> row.content, status |-> row.status, locked |-> row.locked,
                revision |-> row.revision, reviewed |-> row.reviewed]
  BY DEF PublishedPlan
<1> HIDE DEF row
<1>5. row \in PlanType
  <2>1. row.content \in Contents BY <1>1, <1>4 DEF SavingJobs
  <2>2. row.reviewed \in 0..MaxVersion /\ row.revision \in 0..MaxRevision BY <1>4, PublishingAssumption
  <2> QED BY <1>4, <2>1, <2>2 DEF PlanType
<1>6. 0 \in 0..Len(drafted) BY <1>0 DEF Shape
<1> QED BY <1>2, <1>3, <1>4, <1>5, <1>6 DEF Publishes

LEMMA Administering ==
  ASSUME IInv, NEW a \in Admins, AdminNext(a)
  PROVE  GoesOnOrEnds(a) \/ \E row : Publishes(a, row)
<1>1. ASSUME NEW revision \in Revisions, NEW version \in DOMAIN plans, ApplyBegin(a, revision, version)
      PROVE  GoesOnOrEnds(a)
  BY <1>1, Beginning
<1>2. ASSUME NEW c \in Forms, SaveBegin(a, c) PROVE GoesOnOrEnds(a) BY <1>2, Saving
<1>3. CASE ApplyLockGroup(a) \/ ApplyCopySource(a) \/ ApplyStoreImage(a)
  BY <1>3, LockingGroup, CopyingSource, StoringImage
<1>4. CASE ApplyPublish(a) \/ SavePublish(a) BY <1>4, ApplicationPublishes, SavePublishes
<1>5. CASE ElsewhereBegin(a) BY <1>5, BeginningElsewhere
<1>6. CASE ElsewhereEnd(a) \/ Fail(a) BY <1>6, EndingElsewhere, Failing DEF GoesOnOrEnds
<1> QED BY <1>1, <1>2, <1>3, <1>4, <1>5, <1>6 DEF AdminNext, ApplyNext

--------------------------------------------------------------------------------
(* Participants. *)

\* Locking a plan changes nothing that its entry in the ledger says.
LEMMA Locked ==
  ASSUME IInv, NEW v \in DOMAIN plans, plans' = [plans EXCEPT ![v].locked = TRUE]
  PROVE  /\ plans' \in Seq(PlanType) /\ Len(plans') = Len(plans) /\ DOMAIN plans' = DOMAIN plans
         /\ \A w \in DOMAIN plans :
              /\ plans'[w].content = plans[w].content /\ plans'[w].status = plans[w].status
              /\ plans'[w].revision = plans[w].revision /\ plans'[w].reviewed = plans[w].reviewed
<1> DEFINE q == [plans[v] EXCEPT !.locked = TRUE]
<1>1. plans \in Seq(PlanType) /\ plans \in [1..Len(plans) -> PlanType] /\ DOMAIN plans = 1..Len(plans)
  BY DEF IInv, Shape
<1>2. plans[v] \in PlanType BY <1>1
<1>3. /\ q \in PlanType /\ q.content = plans[v].content /\ q.status = plans[v].status
      /\ q.revision = plans[v].revision /\ q.reviewed = plans[v].reviewed
  BY <1>2 DEF PlanType
<1>4. plans' = [plans EXCEPT ![v] = q] OBVIOUS
<1> HIDE DEF q
<1>5. plans' \in [1..Len(plans) -> PlanType] BY <1>1, <1>3, <1>4
<1>6. plans' \in Seq(PlanType) BY <1>1, <1>5, SeqDef
<1>7. DOMAIN plans' = 1..Len(plans) /\ Len(plans') = Len(plans) BY <1>1, <1>5, <1>6, LenProperties
<1>8. \A w \in DOMAIN plans : plans'[w] = IF w = v THEN q ELSE plans[w] BY <1>1, <1>4
<1> QED BY <1>1, <1>3, <1>6, <1>7, <1>8

\* A request of a participant before its session is committed: nothing but the tab's
\* entry changes, which still says what its plan says.
LEMMA EntriesMove ==
  ASSUME IInv, NEW u \in Users, NEW t \in Tabs, NEW e \in Entries, entry' = [entry EXCEPT ![<<u, t>>] = e],
         e # NoEntry => e.plan \in DOMAIN plans /\ e.condition = plans[e.plan].content,
         UNCHANGED <<libraryVars, plans, job, lock, session, stored>>
  PROVE  IInv'
<1>0. UNCHANGED <<workflow, drafted, archived, archiving, plans, job, lock, session, stored>> BY DEF libraryVars
<1>1. /\ entry' \in [Users \X Tabs -> Entries]
      /\ \A x \in Users, y \in Tabs : entry'[<<x, y>>] = entry[<<x, y>>] \/ entry'[<<x, y>>] = e
  BY DEF IInv, Shape
<1>2. Shape' BY <1>0, <1>1 DEF IInv, Shape
<1>3. TakenFromPlans' BY <1>0, <1>1 DEF IInv, TakenFromPlans
<1>4. (LastDraft /\ UnderLock)' BY <1>0 DEF IInv, LastDraft, UnderLock, Holds, Known
<1>5. (OneCurrentPlan /\ AppliedAsReviewed)' BY <1>0 DEF IInv, OneCurrentPlan, AppliedAsReviewed
<1>6. (Origins /\ Unarchived)' BY <1>0 DEF IInv, Origins, Unarchived, Known
<1> QED BY <1>2, <1>3, <1>4, <1>5, <1>6 DEF IInv

LEMMA Entering ==
  ASSUME IInv, NEW u \in Users, NEW t \in Tabs,
         Enter(u, t) \/ Open(u, t) \/ TakeTasks(u, t) \/ Abandon(u, t)
  PROVE  IInv'
<1> DEFINE p == entry[<<u, t>>]
<1>1. UNCHANGED <<libraryVars, plans, job, lock, session, stored>>
  BY DEF Enter, Open, TakeTasks, Abandon, fileVars
<1>2. p \in Entries BY DEF IInv, Shape
<1>3. p.at # "none" => p \in [plan : Nat \ {0}, condition : Contents, at : {"read", "opened", "ready"}]
                         /\ p.plan \in DOMAIN plans /\ p.condition = plans[p.plan].content
  BY <1>2 DEF Entries, NoEntry, IInv, TakenFromPlans
<1>4. NoEntry \in Entries BY DEF Entries
<1>5. CASE entry' = [entry EXCEPT ![<<u, t>>] = NoEntry] BY <1>1, <1>4, <1>5, EntriesMove
<1>6. CASE Enter(u, t)
  <2> DEFINE e == [plan |-> Current, condition |-> plans[Current].content, at |-> "read"]
  <2>1. Current \in DOMAIN plans /\ Current \in Nat \ {0} /\ plans[Current] \in PlanType
    BY CurrentIsLast DEF IInv, Shape
  <2>2. e \in Entries /\ e.plan = Current /\ e.condition = plans[Current].content
    BY <2>1 DEF Entries, PlanType
  <2>3. entry' = [entry EXCEPT ![<<u, t>>] = e] BY <1>6 DEF Enter
  <2> HIDE DEF e
  <2> QED BY <1>1, <2>1, <2>2, <2>3, EntriesMove
<1>7. ASSUME NEW at \in {"opened", "ready"}, entry' = [entry EXCEPT ![<<u, t>>] = [p EXCEPT !.at = at]],
             p.at # "none"
      PROVE  IInv'
  <2> DEFINE e == [p EXCEPT !.at = at]
  <2>1. e \in Entries /\ e.plan = p.plan /\ e.condition = p.condition BY <1>3, <1>7 DEF Entries
  <2>2. entry' = [entry EXCEPT ![<<u, t>>] = e] BY <1>7
  <2>3. e.plan \in DOMAIN plans /\ e.condition = plans[e.plan].content BY <1>3, <1>7, <2>1
  <2> HIDE DEF e
  <2> QED BY <1>1, <2>1, <2>2, <2>3, EntriesMove
<1>8. CASE Open(u, t) /\ entry' # [entry EXCEPT ![<<u, t>>] = NoEntry] BY <1>7, <1>8 DEF Open
<1>9. CASE TakeTasks(u, t) BY <1>7, <1>9 DEF TakeTasks
<1> QED BY <1>5, <1>6, <1>8, <1>9 DEF Abandon

LEMMA BeginningSession ==
  ASSUME IInv, NEW u \in Users, NEW t \in Tabs, Begin(u, t)
  PROVE  IInv'
<1> DEFINE e == entry[<<u, t>>]
           v == e.plan
           s == [plan |-> v, condition |-> e.condition, tasks |-> plans[v].content]
<1>1. /\ e.at = "ready" /\ entry' = [entry EXCEPT ![<<u, t>>] = NoEntry]
      /\ session' = [session EXCEPT ![u] = s] /\ plans' = [plans EXCEPT ![v].locked = TRUE]
      /\ UNCHANGED <<workflow, drafted, archived, archiving, job, lock, stored>>
  BY DEF Begin, libraryVars, fileVars
<1>2. e \in Entries /\ e # NoEntry BY <1>1 DEF IInv, Shape, NoEntry
<1>3. v \in DOMAIN plans /\ e.condition = plans[v].content /\ v \in Nat \ {0} /\ e.condition \in Contents
  BY <1>2 DEF IInv, TakenFromPlans, Entries
<1>4. s \in Sessions /\ s.plan = v /\ s.condition = plans[v].content /\ s.tasks = plans[v].content
  BY <1>3 DEF Sessions
<1>5. /\ entry' \in [Users \X Tabs -> Entries]
      /\ \A x \in Users, y \in Tabs : entry'[<<x, y>>] = entry[<<x, y>>] \/ entry'[<<x, y>>] = NoEntry
  BY <1>1 DEF IInv, Shape, Entries
<1> HIDE DEF s, v, e
<1>6. /\ plans' \in Seq(PlanType) /\ Len(plans') = Len(plans) /\ DOMAIN plans' = DOMAIN plans
      /\ \A w \in DOMAIN plans :
           /\ plans'[w].content = plans[w].content /\ plans'[w].status = plans[w].status
           /\ plans'[w].revision = plans[w].revision /\ plans'[w].reviewed = plans[w].reviewed
  BY <1>1, <1>3, Locked
<1>7. Shape' BY <1>1, <1>4, <1>5, <1>6 DEF IInv, Shape
<1>8. \A x \in Users : session'[x] = session[x] \/ session'[x] = s BY <1>1 DEF IInv, Shape
<1>9. TakenFromPlans'
  <2>1. \A x \in Users, y \in Tabs : entry'[<<x, y>>] # NoEntry =>
          entry'[<<x, y>>].plan \in DOMAIN plans'
            /\ entry'[<<x, y>>].condition = plans'[entry'[<<x, y>>].plan].content
    BY <1>5, <1>6 DEF IInv, TakenFromPlans
  <2>2. \A x \in Users : session'[x] # NoSession =>
          /\ session'[x].plan \in DOMAIN plans'
          /\ session'[x].condition = plans'[session'[x].plan].content
          /\ session'[x].tasks = plans'[session'[x].plan].content
    BY <1>3, <1>4, <1>6, <1>8 DEF IInv, TakenFromPlans
  <2> QED BY <2>1, <2>2 DEF TakenFromPlans
<1>10. LastDraft' BY <1>1, <1>6 DEF IInv, LastDraft
<1>11. ASSUME NEW c, Known(c) PROVE Known(c)' BY <1>6, <1>11 DEF Known
<1>12. UnderLock'
  <2> SUFFICES ASSUME NEW a \in Admins PROVE Holds(a, job[a], lock)' BY DEF UnderLock
  <2>1. Holds(a, job[a], lock) BY DEF IInv, UnderLock
  <2> QED BY <1>1, <1>6, <1>11, <2>1 DEF Holds
<1>13. Origins'
  <2> SUFFICES ASSUME NEW w \in DOMAIN plans PROVE Known(plans[w].content)' BY <1>6 DEF Origins
  <2>1. Known(plans[w].content) /\ plans'[w].content = plans[w].content BY <1>6 DEF IInv, Origins
  <2> QED BY <1>6, <2>1 DEF Known
<1>14. Unarchived'
  <2>1. Len(plans) \in DOMAIN plans BY DEF IInv, Shape
  <2> QED BY <1>1, <1>6, <2>1 DEF IInv, Unarchived
<1>15. (OneCurrentPlan /\ AppliedAsReviewed)'
  BY <1>1, <1>6 DEF IInv, OneCurrentPlan, AppliedAsReviewed
<1> QED BY <1>7, <1>9, <1>10, <1>12, <1>13, <1>14, <1>15 DEF IInv

--------------------------------------------------------------------------------
(* The invariant. *)

LEMMA Initially ==
  ASSUME Init
  PROVE  IInv
<1>1. FirstPlan \in PlanType /\ FirstPlan.status = "PUBLISHED" /\ FirstPlan.revision = 0
      /\ FirstPlan.content = [origin |-> 0, sources |-> First]
  BY PublishingAssumption DEF FirstPlan, PublishedPlan, PlanType, Contents
<1>2. plans = <<FirstPlan>> BY DEF Init
<1>3. plans \in Seq(PlanType) /\ Len(plans) = 1 /\ plans[1] = FirstPlan /\ DOMAIN plans = {1}
  <2> HIDE DEF FirstPlan
  <2> QED BY <1>1, <1>2
<1>4. /\ workflow \in [revision : Nat, sources : Choices] /\ workflow.revision = 1 /\ workflow.sources = First
      /\ drafted \in Seq(Choices) /\ Len(drafted) = 1 /\ drafted[1] = First
  BY PublishingAssumption DEF Init
<1>5. \A a \in Admins : job[a] = Idle /\ Idle.at = "idle" BY DEF Init, Idle
<1>6. \A r \in Rows : lock[r] = Nobody BY DEF Init
<1>7. Shape
  <2>1. 1 \in 1..MaxVersion /\ 1 \in 1..MaxRevision BY PublishingAssumption
  <2> QED BY <1>3, <1>4, <2>1 DEF Init, Shape, Jobs, Entries, Sessions
<1>8. LastDraft BY <1>1, <1>3, <1>4 DEF LastDraft
<1>9. UnderLock BY <1>5, <1>6, RowsApart DEF UnderLock, Holds
<1>10. OneCurrentPlan /\ AppliedAsReviewed BY <1>1, <1>3 DEF OneCurrentPlan, AppliedAsReviewed
<1>11. TakenFromPlans BY DEF Init, TakenFromPlans
<1>12. Origins /\ Unarchived BY <1>1, <1>3 DEF Init, Origins, Known, Unarchived
<1> QED BY <1>7, <1>8, <1>9, <1>10, <1>11, <1>12 DEF IInv

LEMMA Inductive ==
  ASSUME IInv, [Next]_vars
  PROVE  IInv'
<1>1. CASE UNCHANGED vars BY <1>1, Quiet DEF vars, libraryVars, fileVars, seatVars
<1>2. ASSUME NEW a \in Admins, AdminNext(a)
      PROVE  IInv'
  BY <1>2, Administering, Ending, GoingOn, Publishing DEF GoesOnOrEnds
<1>3. ASSUME NEW revision \in Revisions, Update(revision) \/ Delete(revision)
      PROVE  IInv'
  BY <1>3, Updating, Deleting
<1>4. ASSUME NEW t \in Existing, ArchiveCheck(t) \/ ArchiveCommit(t) \/ PublishTask(t)
      PROVE  IInv'
  BY <1>4, Archiving
<1>5. ASSUME NEW u \in Users, NEW t \in Tabs, UserNext(u, t)
      PROVE  IInv'
  BY <1>5, Entering, BeginningSession DEF UserNext
<1> QED BY <1>1, <1>2, <1>3, <1>4, <1>5 DEF Next

\* The invariant the proofs rest on holds in every run.
THEOREM PublishingInvariant == Spec => []IInv
<1>1. Init => IInv BY Initially
<1>2. IInv /\ [Next]_vars => IInv' BY Inductive
<1> QED BY <1>1, <1>2, PTL DEF Spec

\* However saves, applications, edits and failures interleave, the last version is the
\* one published plan (save_for_group, apply of experiment_workflows.py).
THEOREM OnePlanPublished == Spec => []OneCurrentPlan
<1>1. IInv => OneCurrentPlan BY DEF IInv
<1> QED BY <1>1, PublishingInvariant, PTL

\* A plan made from a workflow replaced the version its administrator reviewed and has
\* its own copies of what the reviewed revision said, whatever was saved or applied in
\* between (the revision and plan apply compares under the locks of workflow and group).
THEOREM ReviewedPlansApplied == Spec => []AppliedAsReviewed
<1>1. IInv => AppliedAsReviewed BY DEF IInv
<1> QED BY <1>1, PublishingInvariant, PTL

\* While a plan made from the workflow is the current one, none of its copies is
\* archived: the library refuses tasks in use, and an archive that was allowed before the
\* plan was published is about other tasks, whatever it waits for in between
\* (archive_question_task; the copies of apply).
THEOREM CurrentCopiesStay == Spec => []CurrentCopiesPublished
<1>1. IInv => CurrentCopiesPublished
  <2> SUFFICES ASSUME IInv, plans[Len(plans)].revision # 0
               PROVE  TasksOf(plans[Len(plans)].content) \intersect archived = {}
    BY DEF CurrentCopiesPublished, Usable
  <2>1. Len(plans) \in DOMAIN plans BY DEF IInv, Shape
  <2> DEFINE n == Len(plans)
  <2>a. plans[n].content = [origin |-> n, sources |-> drafted[plans[n].revision]]
    BY <2>1 DEF IInv, AppliedAsReviewed
  <2>2. plans[n].content.origin = n
    <3> HIDE DEF n
    <3> QED BY <2>a
  <2>3. \A t \in TasksOf(plans[Len(plans)].content) : t[1] = Len(plans) BY <2>2 DEF TasksOf
  <2>4. \A t \in archived : t[1] # Len(plans) BY DEF IInv, Unarchived
  <2> QED BY <2>3, <2>4
<1> QED BY <1>1, PublishingInvariant, PTL

--------------------------------------------------------------------------------
(* PlanPublishing implements PlanLedger. *)

\* The contents of the plans, which is what the ledger holds.
Said == [v \in DOMAIN plans |-> plans[v].content]

LEMMA LedgerInit ==
  ASSUME Init
  PROVE  Ledger!Init
<1> DEFINE c == FirstPlan.content
<1>1. c \in Contents BY PublishingAssumption DEF FirstPlan, PublishedPlan, Contents
<1>2. DOMAIN plans = {1} /\ plans[1].content = c
  <2>1. plans = <<FirstPlan>> BY DEF Init
  <2> HIDE DEF FirstPlan
  <2> QED BY <2>1
<1> HIDE DEF c
<1>3. Said = <<c>>
  <2>1. Said = [v \in {1} |-> c] BY <1>2 DEF Said
  <2> QED BY <2>1
<1>4. session = [u \in Users |-> [plan |-> 0]] BY DEF Init, NoSession
<1> QED BY <1>1, <1>3, <1>4 DEF Ledger!Init, Ledger!NoSeat, Said

\* A publication adds one entry and moves nobody.
LEMMA CommitAdds ==
  ASSUME IInv, NEW a \in Admins, NEW row, Publishes(a, row)
  PROVE  Ledger!Publish
<1> DEFINE n == Len(plans)
<1>0. row \in PlanType /\ row.content \in Contents BY DEF Publishes, PlanType
<1>1. /\ n \in Nat \ {0} /\ DOMAIN plans = 1..n
      /\ DOMAIN plans' = 1..(n + 1) /\ plans'[n + 1] = row
      /\ \A v \in 1..n : plans'[v].content = plans[v].content
  <2>1. plans' = Append([plans EXCEPT ![Len(plans)].status = "SUPERSEDED"], row)
    BY DEF Publishes, Commit
  <2> QED BY <1>0, <2>1, Appended DEF IInv
<1> HIDE DEF n
<1>2. Said = [v \in 1..n |-> plans[v].content] BY <1>1 DEF Said
<1>3. Said' = [v \in 1..(n + 1) |-> IF v = n + 1 THEN row.content ELSE plans[v].content]
  <2>1. \A v \in 1..(n + 1) :
          plans'[v].content = IF v = n + 1 THEN row.content ELSE plans[v].content
    BY <1>1
  <2> QED BY <1>1, <2>1 DEF Said
<1>4. \A v \in DOMAIN plans : plans[v].content \in Contents
  <2>1. \A v \in DOMAIN plans : plans[v] \in PlanType BY DEF IInv, Shape
  <2> QED BY <2>1 DEF PlanType
<1>5. Said \in Seq(Contents) /\ Len(Said) = n
  <2>1. Said \in [1..n -> Contents] BY <1>1, <1>2, <1>4
  <2>2. Said \in Seq(Contents) BY <1>1, <2>1, SeqDef
  <2> QED BY <1>1, <2>1, <2>2, LenProperties
<1>6. Said' = Append(Said, row.content)
  <2> DEFINE longer == Append(Said, row.content)
  <2>1. /\ longer \in Seq(Contents) /\ Len(longer) = n + 1 /\ longer[n + 1] = row.content
        /\ \A v \in 1..n : longer[v] = Said[v]
    BY <1>0, <1>5, AppendProperties
  <2>2. DOMAIN longer = 1..(n + 1) BY <2>1, LenProperties
  <2>3. longer = [v \in 1..(n + 1) |-> longer[v]] BY <2>1, <2>2, LenProperties
  <2>4. \A v \in 1..(n + 1) : longer[v] = IF v = n + 1 THEN row.content ELSE plans[v].content
    BY <1>1, <1>2, <2>1
  <2> HIDE DEF longer
  <2>5. Said' = longer BY <1>3, <2>3, <2>4
  <2> QED BY <2>5 DEF longer
<1>7. UNCHANGED session BY DEF Publishes, Commit, seatVars
<1> QED BY <1>0, <1>6, <1>7 DEF Ledger!Publish, Said

\* A session that is committed takes a seat on one entry: its tab found none when it
\* inserted it, and no other tab has inserted one since.
OneInserting ==
  \A u \in Users, t \in Tabs : Inserting(<<u, t>>) =>
    session[u] = NoSession /\ \A x \in Tabs : x # t => ~Inserting(<<u, x>>)

LEMMA InsertingOne ==
  ASSUME IInv, OneInserting, [Next]_vars
  PROVE  OneInserting'
<1>a. ASSUME UNCHANGED <<entry, session>> PROVE OneInserting' BY <1>a DEF OneInserting, Inserting
<1>0. entry \in [Users \X Tabs -> Entries] /\ session \in [Users -> Sessions] BY DEF IInv, Shape
<1>b. ASSUME NEW u \in Users, NEW t \in Tabs, NEW e, e.at \notin {"opened", "ready"},
             entry' = [entry EXCEPT ![<<u, t>>] = e], UNCHANGED session
      PROVE  OneInserting'
  <2>1. \A x \in Users, y \in Tabs : Inserting(<<x, y>>)' => Inserting(<<x, y>>)
    BY <1>0, <1>b DEF Inserting
  <2> QED BY <1>b, <2>1 DEF OneInserting
<1>1. CASE UNCHANGED vars BY <1>1, <1>a DEF vars, seatVars
<1>2. ASSUME NEW a \in Admins, AdminNext(a) PROVE OneInserting'
  <2>1. UNCHANGED <<entry, session>>
    BY <1>2, Administering DEF GoesOnOrEnds, Ends, GoesOn, Publishes, Commit, seatVars
  <2> QED BY <2>1, <1>a
<1>3. ASSUME NEW revision \in Revisions, Update(revision) \/ Delete(revision) PROVE OneInserting'
  BY <1>3, <1>a DEF Update, Delete, seatVars
<1>4. ASSUME NEW t \in Existing, ArchiveCheck(t) \/ ArchiveCommit(t) \/ PublishTask(t) PROVE OneInserting'
  BY <1>4, <1>a DEF ArchiveCheck, ArchiveCommit, PublishTask, vars, seatVars
<1>5. ASSUME NEW u \in Users, NEW t \in Tabs, UserNext(u, t) PROVE OneInserting'
  <2> DEFINE p == entry[<<u, t>>]
  <2>0. NoEntry.at = "none" BY DEF NoEntry
  <2>1. CASE Enter(u, t)
    <3> DEFINE e == [plan |-> Current, condition |-> plans[Current].content, at |-> "read"]
    <3>1. e.at = "read" /\ entry' = [entry EXCEPT ![<<u, t>>] = e] /\ UNCHANGED session BY <2>1 DEF Enter
    <3> HIDE DEF e
    <3> QED BY <3>1, <1>b
  <2>2. CASE Open(u, t)
    <3>1. CASE entry' = [entry EXCEPT ![<<u, t>>] = NoEntry]
      <4>1. UNCHANGED session BY <2>2 DEF Open
      <4> QED BY <2>0, <3>1, <4>1, <1>b
    <3>2. CASE entry' # [entry EXCEPT ![<<u, t>>] = NoEntry]
      <4>1. /\ session[u] = NoSession /\ UNCHANGED session /\ \A x \in Tabs : ~Inserting(<<u, x>>)
            /\ \A x \in Users, y \in Tabs : <<x, y>> # <<u, t>> => entry'[<<x, y>>] = entry[<<x, y>>]
        BY <1>0, <2>2, <3>2 DEF Open
      <4>2. \A x \in Users, y \in Tabs : Inserting(<<x, y>>)' => Inserting(<<x, y>>) \/ (x = u /\ y = t)
        BY <4>1 DEF Inserting
      <4> QED BY <4>1, <4>2 DEF OneInserting
    <3> QED BY <3>1, <3>2
  <2>3. CASE TakeTasks(u, t)
    <3>1. Inserting(<<u, t>>) /\ UNCHANGED session BY <2>3 DEF TakeTasks, Inserting
    <3>2. \A x \in Users, y \in Tabs : Inserting(<<x, y>>)' => Inserting(<<x, y>>)
      BY <1>0, <2>3, <3>1 DEF TakeTasks, Inserting
    <3> QED BY <3>1, <3>2 DEF OneInserting
  <2>4. CASE Begin(u, t)
    <3>1. /\ Inserting(<<u, t>>) /\ entry' = [entry EXCEPT ![<<u, t>>] = NoEntry]
          /\ \A x \in Users : x # u => session'[x] = session[x]
      BY <1>0, <2>4 DEF Begin, Inserting
    <3>2. \A x \in Users, y \in Tabs : Inserting(<<x, y>>)' => Inserting(<<x, y>>) /\ <<x, y>> # <<u, t>>
      BY <1>0, <2>0, <3>1 DEF Inserting
    <3>3. \A x \in Users, y \in Tabs : Inserting(<<x, y>>)' => x # u
      BY <3>1, <3>2 DEF OneInserting
    <3> QED BY <3>1, <3>2, <3>3 DEF OneInserting
  <2>5. CASE Abandon(u, t) BY <2>0, <2>5, <1>b DEF Abandon
  <2> QED BY <1>5, <2>1, <2>2, <2>3, <2>4, <2>5 DEF UserNext
<1> QED BY <1>1, <1>2, <1>3, <1>4, <1>5 DEF Next

LEMMA BeginSeats ==
  ASSUME IInv, OneInserting, NEW u \in Users, NEW t \in Tabs, Begin(u, t)
  PROVE  Ledger!Next
<1> DEFINE e == entry[<<u, t>>]
           v == e.plan
<1>1. /\ e.at = "ready"
      /\ session' = [session EXCEPT ![u] = [plan |-> v, condition |-> e.condition, tasks |-> plans[v].content]]
      /\ plans' = [plans EXCEPT ![v].locked = TRUE]
  BY DEF Begin
<1>2. session[u] = NoSession BY <1>1 DEF OneInserting, Inserting
<1>3. v \in DOMAIN plans /\ e.condition = plans[v].content
  <2>1. e # NoEntry BY <1>1 DEF NoEntry
  <2> QED BY <2>1 DEF IInv, TakenFromPlans
<1> HIDE DEF e, v
<1>4. DOMAIN plans' = DOMAIN plans /\ \A w \in DOMAIN plans : plans'[w].content = plans[w].content
  BY <1>1, <1>3, Locked
<1>5. Said' = Said BY <1>4 DEF Said
<1>6. Ledger!Seat(v) = [plan |-> v, condition |-> plans[v].content, tasks |-> plans[v].content]
  BY <1>3 DEF Ledger!Seat
<1>7. Ledger!TakeSeat(u)
  <2>1. session' = [session EXCEPT ![u] = Ledger!Seat(v)] BY <1>1, <1>3, <1>6
  <2>2. DOMAIN Said = DOMAIN plans BY DEF Said
  <2> QED BY <1>2, <1>3, <1>5, <2>1, <2>2 DEF Ledger!TakeSeat, Ledger!NoSeat, NoSession, Said
<1> QED BY <1>7 DEF Ledger!Next

LEMMA LedgerStep ==
  ASSUME IInv, OneInserting, [Next]_vars
  PROVE  [Ledger!Next]_(Ledger!ledgerVars)
<1>a. ASSUME UNCHANGED <<plans, session>> PROVE [Ledger!Next]_(Ledger!ledgerVars)
  <2>1. Said' = Said BY <1>a DEF Said
  <2> QED BY <1>a, <2>1 DEF Ledger!ledgerVars, Said
<1>1. CASE UNCHANGED vars BY <1>1, <1>a DEF vars, seatVars
<1>2. ASSUME NEW a \in Admins, AdminNext(a)
      PROVE  [Ledger!Next]_(Ledger!ledgerVars)
  <2>1. CASE GoesOnOrEnds(a) BY <2>1, <1>a DEF GoesOnOrEnds, Ends, GoesOn, seatVars
  <2>2. CASE \E row : Publishes(a, row) BY <2>2, CommitAdds DEF Ledger!Next
  <2> QED BY <1>2, <2>1, <2>2, Administering
<1>3. ASSUME NEW revision \in Revisions, Update(revision) \/ Delete(revision)
      PROVE  [Ledger!Next]_(Ledger!ledgerVars)
  BY <1>3, <1>a DEF Update, Delete, seatVars
<1>4. ASSUME NEW t \in Existing, ArchiveCheck(t) \/ ArchiveCommit(t) \/ PublishTask(t)
      PROVE  [Ledger!Next]_(Ledger!ledgerVars)
  BY <1>4, <1>a DEF ArchiveCheck, ArchiveCommit, PublishTask, vars, seatVars
<1>5. ASSUME NEW u \in Users, NEW t \in Tabs, UserNext(u, t)
      PROVE  [Ledger!Next]_(Ledger!ledgerVars)
  <2>1. CASE Enter(u, t) \/ Open(u, t) \/ TakeTasks(u, t) \/ Abandon(u, t)
    BY <2>1, <1>a DEF Enter, Open, TakeTasks, Abandon
  <2>2. CASE Begin(u, t) BY <2>2, BeginSeats
  <2> QED BY <1>5, <2>1, <2>2 DEF UserNext
<1> QED BY <1>1, <1>2, <1>3, <1>4, <1>5 DEF Next

\* The plans and sessions of a group behave as the ledger: what was published never
\* changes, and a participant is seated once, with the condition and tasks of one plan,
\* though two tabs enter across a publication (get_current, the unique session of a
\* participant).
THEOREM LedgerImplemented == Spec => ImplementsLedger
<1>1. Init => Ledger!Init BY LedgerInit
<1>2. Init => OneInserting BY DEF Init, OneInserting, Inserting, NoEntry
<1>3. IInv /\ OneInserting /\ [Next]_vars => OneInserting' BY InsertingOne
<1>4. IInv /\ OneInserting /\ [Next]_vars => [Ledger!Next]_(Ledger!ledgerVars) BY LedgerStep
<1> QED BY <1>1, <1>2, <1>3, <1>4, PublishingInvariant, PTL DEF Spec, ImplementsLedger, Ledger!LedgerSpec

--------------------------------------------------------------------------------
(* The files in storage. *)

Filed == orphans \subseteq stored /\ FilesAccounted

\* What a change of one request's stage does to the files it holds.
LEMMA HeldByOthers ==
  ASSUME Shape, NEW a \in Admins, NEW j, job' = [job EXCEPT ![a] = j]
  PROVE  /\ Held(a)' = IF j.at = "copying" THEN j.files ELSE {}
         /\ \A b \in Admins : b # a => Held(b)' = Held(b)
BY DEF Shape, Held

LEMMA HeldKept ==
  ASSUME Filed, UNCHANGED <<fileVars, faults>>, \A a \in Admins : Held(a)' = Held(a)
  PROVE  Filed'
BY DEF Filed, FilesAccounted, fileVars

\* The files of a request that ends are recorded, or deleted but for those that a failure
\* leaves, an interrupted upload among them.
LEMMA FilesLeft ==
  ASSUME Filed, NEW a \in Admins, Held(a)' = {}, \A b \in Admins : b # a => Held(b)' = Held(b),
         \/ recorded' = recorded \union Held(a) /\ UNCHANGED <<stored, orphans, faults>>
         \/ \E kept :
              /\ \A f \in kept : f \in Held(a) \/ f \notin stored
              /\ stored' = (stored \ Held(a)) \union kept /\ orphans' = orphans \union kept
              /\ recorded' = recorded
              /\ kept # {} => faults' # 0
              /\ faults # 0 => faults' # 0
  PROVE  Filed'
<1> DEFINE Others == UNION {Held(b) : b \in Admins \ {a}}
           All == UNION {Held(b) : b \in Admins}
<1>1. All = Held(a) \union Others OBVIOUS
<1>2. All' = Others
  <2>1. \A f : f \in All' <=> f \in Others OBVIOUS
  <2> HIDE DEF All, Others
  <2> QED BY <2>1
<1>3. Others \intersect Held(a) = {} BY DEF Filed, FilesAccounted
<1>4. (\A b, c \in Admins : b # c => Held(b) \intersect Held(c) = {})'
  <2>1. \A b \in Admins : Held(b)' = IF b = a THEN {} ELSE Held(b) OBVIOUS
  <2> QED BY <2>1 DEF Filed, FilesAccounted
<1>5. /\ stored \ (recorded \union orphans) = All /\ recorded \subseteq stored /\ orphans \subseteq stored
      /\ recorded \intersect orphans = {} /\ (orphans # {} => faults # 0)
  BY DEF Filed, FilesAccounted
<1> HIDE DEF All, Others
<1>6. (/\ stored \ (recorded \union orphans) = All /\ recorded \subseteq stored /\ orphans \subseteq stored
       /\ recorded \intersect orphans = {} /\ (orphans # {} => faults # 0))'
  <2>1. CASE recorded' = recorded \union Held(a) /\ UNCHANGED <<stored, orphans, faults>>
    BY <1>1, <1>2, <1>3, <1>5, <2>1
  <2>2. ASSUME NEW kept,
               \A f \in kept : f \in Held(a) \/ f \notin stored,
               stored' = (stored \ Held(a)) \union kept, orphans' = orphans \union kept,
               recorded' = recorded, kept # {} => faults' # 0, faults # 0 => faults' # 0
        PROVE  (/\ stored \ (recorded \union orphans) = All /\ recorded \subseteq stored
                /\ orphans \subseteq stored /\ recorded \intersect orphans = {}
                /\ (orphans # {} => faults # 0))'
    <3>1. \A f \in Held(a) : f \in stored /\ f \notin recorded /\ f \notin orphans BY <1>1, <1>5
    <3>2. recorded' \subseteq stored' /\ orphans' \subseteq stored' BY <1>5, <2>2, <3>1
    <3>3. recorded' \intersect orphans' = {} BY <1>5, <2>2, <3>1
    <3>4. orphans' # {} => faults' # 0 BY <1>5, <2>2
    <3>5. ASSUME NEW f PROVE f \in stored' \ (recorded' \union orphans') <=> f \in Others
      BY <1>1, <1>3, <1>5, <2>2, <3>1
    <3> QED BY <1>2, <3>2, <3>3, <3>4, <3>5
  <2> QED BY <2>1, <2>2
<1> QED BY <1>4, <1>6 DEF Filed, FilesAccounted, All

\* A file with a new name belongs to the request that stores it.
LEMMA FileAdded ==
  ASSUME Filed, NEW a \in Admins, NEW f, f \notin stored,
         Held(a)' = Held(a) \union {f}, \A b \in Admins : b # a => Held(b)' = Held(b),
         stored' = stored \union {f}, UNCHANGED <<recorded, orphans, faults>>
  PROVE  Filed'
<1> DEFINE All == UNION {Held(b) : b \in Admins}
<1>1. All' = All \union {f}
  <2>1. \A g : g \in All' <=> g \in All \union {f} OBVIOUS
  <2> HIDE DEF All
  <2> QED BY <2>1
<1>2. /\ stored \ (recorded \union orphans) = All /\ recorded \subseteq stored /\ orphans \subseteq stored
      /\ recorded \intersect orphans = {} /\ (orphans # {} => faults # 0)
  BY DEF Filed, FilesAccounted
<1>3. (\A b, c \in Admins : b # c => Held(b) \intersect Held(c) = {})'
  <2>1. \A b \in Admins : Held(b)' = IF b = a THEN Held(a) \union {f} ELSE Held(b) OBVIOUS
  <2>2. \A b \in Admins : f \notin Held(b) BY <1>2
  <2> QED BY <2>1, <2>2 DEF Filed, FilesAccounted
<1> HIDE DEF All
<1>4. (/\ stored \ (recorded \union orphans) = All /\ recorded \subseteq stored /\ orphans \subseteq stored
       /\ recorded \intersect orphans = {} /\ (orphans # {} => faults # 0))'
  BY <1>1, <1>2
<1> QED BY <1>3, <1>4 DEF Filed, FilesAccounted, All

LEMMA FiledInductive ==
  ASSUME IInv, faults \in 0..MaxFaults, Filed, [Next]_vars
  PROVE  Filed' /\ faults' \in 0..MaxFaults
<1> DEFINE G == Filed' /\ faults' \in 0..MaxFaults
<1>0. Shape BY DEF IInv
<1>a. ASSUME UNCHANGED <<job, fileVars, faults>> PROVE G BY <1>a, HeldKept DEF Held
\* A request that ends.
<1>b. ASSUME NEW a \in Admins, job' = [job EXCEPT ![a] = Idle],
             \/ recorded' = recorded \union Held(a) /\ UNCHANGED <<stored, orphans, faults>>
             \/ \E kept :
                  /\ \A f \in kept : f \in Held(a) \/ f \notin stored
                  /\ stored' = (stored \ Held(a)) \union kept /\ orphans' = orphans \union kept
                  /\ recorded' = recorded
                  /\ kept # {} => faults' # 0
                  /\ faults' \in {faults, faults + 1} \intersect 0..MaxFaults
      PROVE  G
  <2>1. Held(a)' = {} /\ \A b \in Admins : b # a => Held(b)' = Held(b)
    <3>1. Idle.at = "idle" BY DEF Idle
    <3> QED BY <1>0, <1>b, <3>1, HeldByOthers
  <2>2. \A x \in {faults, faults + 1} : faults # 0 => x # 0 OBVIOUS
  <2> QED BY <1>b, <2>1, <2>2, FilesLeft
\* A request that goes on with the files it has.
<1>c. ASSUME NEW a \in Admins, NEW j, job' = [job EXCEPT ![a] = j], UNCHANGED <<fileVars, faults>>,
             (IF j.at = "copying" THEN j.files ELSE {}) = Held(a)
      PROVE  G
  BY <1>0, <1>c, HeldByOthers, HeldKept
<1>d. ASSUME NEW a \in Admins, Undo(a, {}), UNCHANGED faults PROVE G
  <2> DEFINE kept == {}
  <2>1. /\ stored' = (stored \ Held(a)) \union kept /\ orphans' = orphans \union kept
        /\ recorded' = recorded /\ job' = [job EXCEPT ![a] = Idle]
    BY <1>d DEF Undo
  <2>2. kept = {} OBVIOUS
  <2> HIDE DEF kept
  <2>3. \A f \in kept : f \in Held(a) \/ f \notin stored BY <2>2
  <2> QED BY <1>b, <1>d, <2>1, <2>2, <2>3
<1>1. CASE UNCHANGED vars BY <1>1, <1>a DEF vars
<1>2. ASSUME NEW a \in Admins, AdminNext(a)
      PROVE  G
  <2>1. ASSUME NEW revision \in Revisions, NEW version \in DOMAIN plans, ApplyBegin(a, revision, version)
        PROVE  G
    <3> DEFINE j == [at |-> "group", revision |-> revision, version |-> version, sources |-> workflow.sources]
    <3>1. job' = [job EXCEPT ![a] = j] /\ job[a] = Idle /\ UNCHANGED <<fileVars, faults>>
      BY <2>1 DEF ApplyBegin, Idling
    <3>2. j.at = "group" OBVIOUS
    <3>3. Held(a) = {} BY <3>1 DEF Held, Idle
    <3> HIDE DEF j
    <3> QED BY <3>1, <3>2, <3>3, <1>c
  <2>2. CASE ApplyLockGroup(a)
    <3>1. CASE job' = [job EXCEPT ![a] = CopyingJob(a)] /\ UNCHANGED <<fileVars, faults>>
      <4>1. Held(a) = {} BY <2>2 DEF ApplyLockGroup, Held
      <4>2. CopyingJob(a).at = "copying" /\ CopyingJob(a).files = {} BY DEF CopyingJob
      <4> QED BY <3>1, <4>1, <4>2, <1>c
    <3> QED BY <2>2, <3>1, <1>d DEF ApplyLockGroup
  <2>3. CASE ApplyCopySource(a)
    <3>1. ASSUME NEW s, job' = [job EXCEPT ![a].copied = @ \union {s}], UNCHANGED <<fileVars, faults>>
          PROVE  G
      <4> DEFINE j == [job[a] EXCEPT !.copied = @ \union {s}]
      <4>1. job[a] \in CopyingJobs \/ job[a] \in OtherJobs BY <1>0, <2>3, JobKinds DEF ApplyCopySource
      <4>2. job' = [job EXCEPT ![a] = j] BY <3>1
      <4>3. (IF j.at = "copying" THEN j.files ELSE {}) = Held(a)
        <5>1. CASE job[a] \in CopyingJobs BY <5>1 DEF CopyingJobs, Held
        <5>2. CASE job[a] \in OtherJobs BY <5>2 DEF OtherJobs, Held
        <5> QED BY <4>1, <5>1, <5>2
      <4> HIDE DEF j
      <4> QED BY <3>1, <4>2, <4>3, <1>c
    <3> QED BY <2>3, <3>1, <1>d DEF ApplyCopySource
  <2>4. CASE ApplyStoreImage(a)
    <3>1. /\ job' = [job EXCEPT ![a] = Longer(a)] /\ job[a] \in CopyingJobs /\ NewFile \notin stored
          /\ Longer(a).at = "copying" /\ Longer(a).files = job[a].files \union {NewFile}
          /\ stored' = stored \union {NewFile} /\ UNCHANGED <<recorded, orphans, faults>>
      BY <2>4, StoringImage DEF ApplyStoreImage
    <3>2. Held(a) = job[a].files BY <3>1 DEF Held, CopyingJobs
    <3>3. Held(a)' = Held(a) \union {NewFile} /\ \A b \in Admins : b # a => Held(b)' = Held(b)
      BY <1>0, <3>1, <3>2, HeldByOthers
    <3> QED BY <3>1, <3>3, FileAdded
  <2>5. CASE ApplyPublish(a) \/ SavePublish(a)
    BY <2>5, <1>b DEF ApplyPublish, SavePublish, Commit
  <2>6. CASE ElsewhereBegin(a)
    <3>1. PICK S \in Choices : job' = [job EXCEPT ![a] = [at |-> "elsewhere", sources |-> S, copied |-> {}]]
      BY <2>6 DEF ElsewhereBegin
    <3> DEFINE j == [at |-> "elsewhere", sources |-> S, copied |-> {}]
    <3>2. j.at = "elsewhere" /\ job' = [job EXCEPT ![a] = j] BY <3>1
    <3>3. Held(a) = {} /\ UNCHANGED <<fileVars, faults>> BY <2>6 DEF ElsewhereBegin, Idling, Held, Idle
    <3> HIDE DEF j
    <3> QED BY <3>2, <3>3, <1>c
  <2>7. CASE ElsewhereEnd(a)
    <3>1. Held(a) = {} /\ UNCHANGED <<fileVars, faults>> /\ job' = [job EXCEPT ![a] = Idle]
      BY <2>7 DEF ElsewhereEnd, Held
    <3> QED BY <3>1, <1>c DEF Idle
  <2>8. ASSUME NEW c \in Forms, SaveBegin(a, c)
        PROVE  G
    <3> DEFINE j == [at |-> "saving", content |-> c]
    <3>1. j.at = "saving" OBVIOUS
    <3>2. job' = [job EXCEPT ![a] = j] /\ UNCHANGED <<fileVars, faults>> /\ job[a] = Idle
      BY <2>8 DEF SaveBegin, Idling
    <3>3. Held(a) = {} BY <3>2 DEF Held, Idle
    <3> HIDE DEF j
    <3> QED BY <3>1, <3>2, <3>3, <1>c
  <2>9. CASE Fail(a)
    <3>1. PICK kept \in SUBSET Files :
            kept \subseteq Held(a) \union {f \in Files : Uploading(a) /\ f = NewFile} /\ Undo(a, kept)
      BY <2>9, Failing
    <3>2. \A f \in kept : f \in Held(a) \/ f \notin stored BY <3>1, NewFileIsNew DEF Uploading
    <3>3. faults' = faults + 1 /\ faults' # 0 /\ faults' \in 0..MaxFaults
      BY <2>9, PublishingAssumption DEF Fail
    <3>4. /\ stored' = (stored \ Held(a)) \union kept /\ orphans' = orphans \union kept
          /\ recorded' = recorded /\ job' = [job EXCEPT ![a] = Idle]
      BY <3>1 DEF Undo
    <3> QED BY <3>2, <3>3, <3>4, <1>b
  <2> QED BY <1>2, <2>1, <2>2, <2>3, <2>4, <2>5, <2>6, <2>7, <2>8, <2>9 DEF AdminNext, ApplyNext
<1>3. ASSUME NEW revision \in Revisions, Update(revision) \/ Delete(revision)
      PROVE  G
  BY <1>3, <1>a DEF Update, Delete
<1>4. ASSUME NEW t \in Existing, ArchiveCheck(t) \/ ArchiveCommit(t) \/ PublishTask(t)
      PROVE  G
  BY <1>4, <1>a DEF ArchiveCheck, ArchiveCommit, PublishTask, vars
<1>5. ASSUME NEW u \in Users, NEW t \in Tabs, UserNext(u, t)
      PROVE  G
  BY <1>5, <1>a DEF UserNext, Enter, Open, TakeTasks, Begin, Abandon
<1> QED BY <1>1, <1>2, <1>3, <1>4, <1>5 DEF Next

\* The files are accounted for in every run.
THEOREM FiledAlways == Spec => [](Filed /\ faults \in 0..MaxFaults)
<1>1. Init => Filed /\ faults \in 0..MaxFaults
  <2> SUFFICES ASSUME Init PROVE Filed /\ faults \in 0..MaxFaults OBVIOUS
  <2>1. \A a \in Admins : Held(a) = {} BY DEF Init, Held, Idle
  <2> QED BY <2>1, PublishingAssumption DEF Init, Filed, FilesAccounted
<1>2. IInv /\ (Filed /\ faults \in 0..MaxFaults) /\ [Next]_vars => (Filed /\ faults \in 0..MaxFaults)'
  BY FiledInductive
<1> QED BY <1>1, <1>2, PublishingInvariant, PTL DEF Spec

\* Storage has just the images that rows name, those of applications under way and those
\* that a failure left, whose clean-up storage refused or nobody ran; and it has every
\* image that a row names (the stored paths of apply, and its clean-up).
THEOREM FilesNeverForgotten == Spec => []FilesAccounted
<1>1. Filed => FilesAccounted BY DEF Filed
<1> QED BY <1>1, FiledAlways, PTL

\* The variables are what TypeOK says: PublishingInvariant bounds every part of them.
THEOREM PublishingTypes == Spec => []TypeOK
<1>1. IInv /\ Filed /\ faults \in 0..MaxFaults => TypeOK
  <2> SUFFICES ASSUME IInv, Filed, faults \in 0..MaxFaults PROVE TypeOK OBVIOUS
  <2>0. Shape /\ LastDraft /\ Len(drafted) \in 1..MaxRevision /\ Len(plans) \in 1..MaxVersion
        /\ DOMAIN plans = 1..Len(plans) /\ workflow \in [revision : Nat, sources : Choices]
    BY LenProperties DEF IInv, Shape
  <2>1. /\ workflow \in [revision : 0..MaxRevision, sources : Choices] /\ workflow.revision \in {0, Len(drafted)}
        /\ drafted \in Seq(Choices) /\ Len(drafted) \in 1..MaxRevision
        /\ plans \in Seq(PlanType) /\ Len(plans) \in 1..MaxVersion
        /\ lock \in [Rows -> Admins \union {Nobody}]
    <3>1. workflow.revision \in 0..MaxRevision /\ workflow.sources \in Choices
      BY <2>0, PublishingAssumption DEF LastDraft
    <3>2. workflow = [revision |-> workflow.revision, sources |-> workflow.sources] BY <2>0
    <3> QED BY <2>0, <3>1, <3>2 DEF Shape, LastDraft
  <2>2. archived \subseteq Tasks /\ archiving \subseteq Tasks
    <3>1. \A t \in archived \union archiving : t \in (0..Len(plans)) \X Sources BY DEF IInv, Unarchived
    <3>2. (0..Len(plans)) \subseteq 0..MaxVersion BY <2>0, PublishingAssumption
    <3> QED BY <3>1, <3>2 DEF Tasks
  <2>3. ASSUME NEW a \in Admins
        PROVE  \/ job[a] = Idle
               \/ job[a] \in [at : {"group"}, revision : 1..Len(drafted), version : 1..Len(plans), sources : Choices]
               \/ job[a] \in [at : {"copying"}, revision : 1..Len(drafted), version : 1..Len(plans),
                             sources : Choices, copied : SUBSET Sources, files : SUBSET Files]
               \/ job[a] \in [at : {"elsewhere"}, sources : Choices, copied : SUBSET Sources]
               \/ job[a] \in [at : {"saving"}, content : Contents]
    <3>1. Holds(a, job[a], lock) BY DEF IInv, UnderLock
    <3>2. Len(drafted) \in 1..Len(drafted) /\ Len(plans) \in 1..Len(plans) BY <2>0
    <3>3. CASE job[a] \in GroupJobs
      <4>1. job[a].revision \in 1..Len(drafted) /\ job[a].version \in 1..Len(plans)
        BY <3>1, <3>2, <3>3 DEF Holds, GroupJobs
      <4> QED BY <3>3, <4>1 DEF GroupJobs
    <3>4. CASE job[a] \in CopyingJobs
      <4>1. job[a].revision \in 1..Len(drafted) /\ job[a].version \in 1..Len(plans)
        BY <3>1, <3>2, <3>4 DEF Holds, CopyingJobs
      <4> QED BY <3>4, <4>1 DEF CopyingJobs
    <3> QED BY <2>0, <3>3, <3>4, JobKinds DEF Jobs, OtherJobs, SavingJobs
  <2>4. recorded \subseteq stored /\ orphans \subseteq stored /\ stored \subseteq Files /\ faults \in 0..MaxFaults
    BY <2>0 DEF Filed, FilesAccounted, Shape
  <2>5. \A u \in Users : session[u].plan \in 0..Len(plans)
    <3> SUFFICES ASSUME NEW u \in Users PROVE session[u].plan \in 0..Len(plans) OBVIOUS
    <3>1. CASE session[u] = NoSession BY <2>0, <3>1 DEF NoSession
    <3>2. CASE session[u] # NoSession BY <2>0, <3>2 DEF IInv, TakenFromPlans
    <3> QED BY <3>1, <3>2
  <2>6. \A u \in Users, t \in Tabs :
          entry[<<u, t>>].plan \in 0..Len(plans) /\ entry[<<u, t>>].at \in {"none", "read", "opened", "ready"}
    <3> SUFFICES ASSUME NEW u \in Users, NEW t \in Tabs
                 PROVE  /\ entry[<<u, t>>].plan \in 0..Len(plans)
                        /\ entry[<<u, t>>].at \in {"none", "read", "opened", "ready"}
      OBVIOUS
    <3>1. CASE entry[<<u, t>>] = NoEntry BY <2>0, <3>1 DEF NoEntry
    <3>2. CASE entry[<<u, t>>] # NoEntry
      <4>1. entry[<<u, t>>] \in Entries BY <2>0 DEF Shape
      <4> QED BY <2>0, <3>2, <4>1 DEF IInv, TakenFromPlans, Entries
    <3> QED BY <3>1, <3>2
  <2> QED BY <2>1, <2>2, <2>3, <2>4, <2>5, <2>6 DEF TypeOK
<1> QED BY <1>1, PublishingInvariant, FiledAlways, PTL

--------------------------------------------------------------------------------
(* The order of the locks. *)

\* A set of naturals below a bound has a greatest element: else the successor would map
\* the finite set of what is below it into itself, one to one but not onto.
LEMMA Greatest ==
  ASSUME NEW N \in Nat, NEW W, W \subseteq 0..N, W # {}
  PROVE  \E x \in W : \A y \in W : y <= x
<1> SUFFICES ASSUME \A x \in W : \E y \in W : x < y
             PROVE  FALSE
  OBVIOUS
<1> DEFINE D == {x \in 0..N : \E y \in W : x <= y}
           f == [x \in D |-> x + 1]
<1>1. IsFiniteSet(D)
  <2>1. D \in SUBSET Nat /\ \A x \in D : x <= N OBVIOUS
  <2> HIDE DEF D
  <2> QED BY <2>1, FS_BoundedSetOfNaturals
<1>2. \A x \in D : x + 1 \in D
  <2> TAKE x \in D
  <2>1. PICK y \in W : x <= y OBVIOUS
  <2>2. PICK z \in W : y < z OBVIOUS
  <2> QED BY <2>1, <2>2
<1>3. f \in Injection(D, D)
  <2>1. D \subseteq Nat OBVIOUS
  <2> HIDE DEF D
  <2> QED BY <1>2, <2>1 DEF Injection, IsInjective
<1>4. f \in Surjection(D, D)
  <2> HIDE DEF D, f
  <2> QED BY <1>1, <1>3, FS_Injection
<1>5. 0 \in D
  <2>1. PICK y \in W : y \in 0..N OBVIOUS
  <2>2. 0 <= y /\ 0 \in 0..N BY <2>1
  <2> QED BY <2>1, <2>2
<1>6. PICK x \in D : f[x] = 0 BY <1>4, <1>5 DEF Surjection
<1>7. x \in Nat /\ x + 1 = 0 BY <1>6
<1> QED BY <1>7

\* The row an application waits for is above every row it has.
LEMMA Upwards ==
  ASSUME IInv, NEW b \in Admins, NEW r \in Rows, lock[r] = b, NEW q \in Rows, Awaits(b, q)
  PROVE  r < q
<1>0. Holds(b, job[b], lock) /\ Shape BY DEF IInv, UnderLock
<1>1. r = WorkflowRow \/ r = GroupRow \/ r \in Sources BY DEF Rows
<1>2. CASE job[b].at = "group" /\ q = GroupRow
  <2>1. r = WorkflowRow BY <1>0, <1>1, <1>2 DEF Holds
  <2> QED BY <1>2, <2>1 DEF WorkflowRow, GroupRow
<1>3. CASE job[b].at \in {"copying", "elsewhere"} /\ q \in Following(b)
  <2>1. q \in job[b].sources \ job[b].copied BY <1>3 DEF Following, Lacking
  <2>2. q \in Sources
    <3>1. job[b] \in CopyingJobs \/ job[b] \in OtherJobs BY <1>0, <1>3, JobKinds
    <3> QED BY <2>1, <3>1, PublishingAssumption DEF CopyingJobs, OtherJobs
  <2>3. CASE r \in Sources BY <1>0, <1>3, <2>1, <2>3 DEF Holds
  <2>4. CASE r = WorkflowRow \/ r = GroupRow
    BY <2>2, <2>4, PublishingAssumption DEF Sources, WorkflowRow, GroupRow
  <2> QED BY <1>1, <2>3, <2>4
<1> QED BY <1>2, <1>3 DEF Awaits

\* Applications never wait for each other in a circle, however many there are and whatever
\* they share: the one among them that waits for the highest row waits for somebody who
\* waits for none of them (the order in which apply takes its locks).
THEOREM ApplicationsNeverInCircle == Spec => []NoCircle
<1>1. IInv => NoCircle
  <2> SUFFICES ASSUME IInv, NEW A \in SUBSET Admins, A # {}, \A a \in A : \E b \in A : WaitsFor(a, b)
               PROVE  FALSE
    BY DEF NoCircle
  <2> DEFINE W == {r \in Rows : \E a, b \in A : Awaits(a, r) /\ lock[r] = b}
  <2>1. Library + 1 \in Nat BY PublishingAssumption
  <2>2. Rows \subseteq 0..(Library + 1)
    BY PublishingAssumption DEF Rows, WorkflowRow, GroupRow, Sources
  <2>3. W \subseteq 0..(Library + 1) BY <2>2
  <2>4. W # {}
    <3>1. PICK a \in A, b \in A : WaitsFor(a, b) OBVIOUS
    <3> QED BY <3>1 DEF WaitsFor
  <2>5. PICK r \in W : \A q \in W : q <= r
    <3> HIDE DEF W
    <3> QED BY <2>1, <2>3, <2>4, Greatest
  <2>6. PICK b \in A : lock[r] = b OBVIOUS
  <2>7. PICK c \in A : WaitsFor(b, c) OBVIOUS
  <2>8. PICK q \in Rows : Awaits(b, q) /\ lock[q] = c BY <2>7 DEF WaitsFor
  <2>9. q \in W BY <2>6, <2>8
  <2>10. r < q BY <2>6, <2>8, Upwards
  <2>11. r \in Nat /\ q \in Nat BY <2>2
  <2> QED BY <2>5, <2>9, <2>10, <2>11
<1> QED BY <1>1, PublishingInvariant, PTL
=============================================================================
