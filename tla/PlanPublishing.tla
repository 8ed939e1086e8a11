--------------------------- MODULE PlanPublishing ---------------------------
(***************************************************************************)
(* The plans of one group: the workflow they are made from                 *)
(* (models/experiment_workflows.py), the plan editor that replaces them    *)
(* directly, the library whose tasks they refer to                         *)
(* (models/question_tasks.py) and the participants who begin on them       *)
(* (models/experiment_plans.py, models/experiments.py).                    *)
(*                                                                         *)
(* Applying a workflow is one long transaction: it locks the workflow, the *)
(* group and each task it copies, and stores copies of the images, which   *)
(* no rollback takes back.  Locks are row locks as PostgreSQL takes them:  *)
(* an exclusive one waits for every other, a shared one (the foreign key   *)
(* of a new row) for exclusive ones.  A transaction that waits may fail at *)
(* any time, as the database sees to when transactions wait in a circle.   *)
(***************************************************************************)
EXTENDS Naturals, Sequences, FiniteSets

CONSTANTS
  Admins,      \* administrators, each with one request at a time
  Users,       \* participants of the group
  Tabs,        \* tabs in which a participant opens the experiment
  Library,     \* how many tasks the library has
  Choices,     \* what a workflow or a plan may refer to
  First,       \* what the workflow and the plan refer to at first
  Images,      \* images of each task
  Files,       \* names that storage gives to copies
  Nobody,      \* the holder of a lock that is free
  MaxRevision, \* edits of the workflow end at this revision
  MaxVersion,  \* publications, and requests to publish, end at this version
  MaxArchived, \* tasks that are archived or about to be, at one time
  MaxFaults    \* requests of administrators that fail

WorkflowRow == 0
GroupRow    == 1
Sources     == 2..(Library + 1)  \* the tasks' rows, which sort as their ids do
Rows        == {WorkflowRow, GroupRow} \union Sources

ASSUME PublishingAssumption ==
  /\ Nobody \notin Admins
  /\ Choices \subseteq (SUBSET Sources) \ {{}} /\ First \in Choices
  /\ {Library, Images, MaxRevision, MaxVersion, MaxArchived, MaxFaults} \subseteq Nat
  /\ MaxRevision # 0 /\ MaxVersion # 0

VARIABLES
  workflow,  \* its revision, 0 once deleted, and the sources it refers to
  drafted,   \* the sources of each revision of the workflow
  archived,  \* tasks that are archived
  archiving, \* tasks about to be archived: no published plan was found to use them
  plans,     \* the group's plans, a plan's version being its index
  job,       \* the request each administrator waits for
  lock,      \* who has locked which row, for administrators
  stored,    \* the files in storage
  recorded,  \* the files that rows of the database name
  orphans,   \* the files that failures left behind
  entry,     \* the request of each tab and the plan it has read
  session,   \* the session of each participant
  faults     \* requests that failed

libraryVars == <<workflow, drafted, archived, archiving>>
fileVars    == <<stored, recorded, orphans>>
seatVars    == <<entry, session>>
vars == <<libraryVars, plans, job, lock, fileVars, seatVars, faults>>

\* A task of the library has origin 0; its copies have the version they were made for.
Contents == [origin : 0..MaxVersion, sources : Choices]
Tasks    == (0..MaxVersion) \X Sources
TasksOf(c) == {c.origin} \X c.sources

PlanType ==
  [content : Contents, status : {"PUBLISHED", "SUPERSEDED"}, locked : BOOLEAN,
   revision : 0..MaxRevision, reviewed : 0..MaxVersion]
Idle      == [at |-> "idle"]
NoEntry   == [plan |-> 0, at |-> "none"]
NoSession == [plan |-> 0]

TypeOK ==
  /\ workflow \in [revision : 0..MaxRevision, sources : Choices]
  /\ drafted \in Seq(Choices) /\ Len(drafted) \in 1..MaxRevision
  /\ workflow.revision \in {0, Len(drafted)}
  /\ archived \subseteq Tasks /\ archiving \subseteq Tasks
  /\ plans \in Seq(PlanType) /\ Len(plans) \in 1..MaxVersion
  /\ \A a \in Admins :
       \/ job[a] = Idle
       \/ job[a] \in [at : {"group"}, revision : 1..Len(drafted), version : 1..Len(plans), sources : Choices]
       \/ job[a] \in [at : {"copying"}, revision : 1..Len(drafted), version : 1..Len(plans),
                     sources : Choices, copied : SUBSET Sources, files : SUBSET Files]
       \/ job[a] \in [at : {"elsewhere"}, sources : Choices, copied : SUBSET Sources]
       \/ job[a] \in [at : {"saving"}, content : Contents]
  /\ lock \in [Rows -> Admins \union {Nobody}]
  /\ recorded \subseteq stored /\ orphans \subseteq stored /\ stored \subseteq Files
  /\ faults \in 0..MaxFaults
  /\ \A u \in Users : session[u].plan \in 0..Len(plans)
  /\ \A u \in Users, t \in Tabs :
       entry[<<u, t>>].plan \in 0..Len(plans) /\ entry[<<u, t>>].at \in {"none", "read", "opened", "ready"}

\* The current plan of the group: the PUBLISHED one of the highest version.
Current == CHOOSE v \in DOMAIN plans :
  plans[v].status = "PUBLISHED" /\ \A w \in DOMAIN plans : plans[w].status = "PUBLISHED" => w <= v

\* Nobody begins on a plan with an archived task, be it the library's or a copy.
Usable(c) == TasksOf(c) \intersect archived = {}

PublishedPlan(c, revision, reviewed) ==
  [content |-> c, status |-> "PUBLISHED", locked |-> FALSE, revision |-> revision, reviewed |-> reviewed]

\* The group begins with a plan that was saved in the plan editor.
FirstPlan == PublishedPlan([origin |-> 0, sources |-> First], 0, 0)

Init ==
  /\ workflow = [revision |-> 1, sources |-> First]
  /\ drafted = <<First>>
  /\ archived = {} /\ archiving = {}
  /\ plans = <<FirstPlan>>
  /\ job = [a \in Admins |-> Idle]
  /\ lock = [r \in Rows |-> Nobody]
  /\ stored = {} /\ recorded = {} /\ orphans = {} /\ faults = 0
  /\ entry = [c \in Users \X Tabs |-> NoEntry]
  /\ session = [u \in Users |-> NoSession]

--------------------------------------------------------------------------------
(* The workflow and the library. *)

Existing   == ({0} \X Sources) \union UNION {TasksOf(plans[v].content) : v \in DOMAIN plans}
InUse(t)   == \E v \in DOMAIN plans : plans[v].status = "PUBLISHED" /\ t \in TasksOf(plans[v].content)
Unlocked(t) == t[1] = 0 => lock[t[2]] = Nobody

\* A page asks to archive a task, which may be a copy: the request is refused when a
\* published plan refers to it.  Nothing is locked by the question.
ArchiveCheck(t) ==
  \/ /\ InUse(t)
     /\ UNCHANGED vars
  \/ /\ ~InUse(t) /\ Cardinality(archived \union archiving \union {t}) <= MaxArchived
     /\ archiving' = archiving \union {t}
     /\ UNCHANGED <<workflow, drafted, archived, plans, job, lock, fileVars, seatVars, faults>>

\* The update waits for applications that have locked the row.
ArchiveCommit(t) ==
  /\ t \in archiving /\ Unlocked(t)
  /\ archiving' = archiving \ {t} /\ archived' = archived \union {t}
  /\ UNCHANGED <<workflow, drafted, plans, job, lock, fileVars, seatVars, faults>>

PublishTask(t) ==
  /\ t \in archived /\ Unlocked(t)
  /\ archived' = archived \ {t}
  /\ UNCHANGED <<workflow, drafted, archiving, plans, job, lock, fileVars, seatVars, faults>>

\* A request names the revision its page opened, which may be any so far; it is
\* compared once the workflow's row is locked.
Unchanged(revision) == lock[WorkflowRow] = Nobody /\ revision = workflow.revision

Revisions == DOMAIN drafted
Idling(a) == job[a] = Idle /\ Len(plans) < MaxVersion

\* Saving an edit makes the next revision.
Update(revision) ==
  /\ Unchanged(revision) /\ workflow.revision < MaxRevision
  /\ \E S \in Choices :
       /\ workflow' = [revision |-> revision + 1, sources |-> S]
       /\ drafted' = Append(drafted, S)
  /\ UNCHANGED <<archived, archiving, plans, job, lock, fileVars, seatVars, faults>>

Delete(revision) ==
  /\ Unchanged(revision)
  /\ workflow' = [workflow EXCEPT !.revision = 0]
  /\ UNCHANGED <<drafted, archived, archiving, plans, job, lock, fileVars, seatVars, faults>>

--------------------------------------------------------------------------------
(* Rows that are shared, and the end of a transaction. *)

\* A participant whose session is inserted; the plan's row is changed with it, unless
\* somebody has begun on the plan before.
Inserting(c) == entry[c].at \in {"opened", "ready"}

\* The rows that a plan shares with the library.
LibrarySources(c) == IF c.origin = 0 THEN c.sources ELSE {}

\* Rows that no application has locked.
FreeSources(S) == \A s \in S : lock[s] = Nobody

\* Rows that sessions under way refer to, which an exclusive lock waits for.
Shared ==
  UNION {LibrarySources(plans[entry[c].plan].content) : c \in {d \in Users \X Tabs : entry[d].at = "ready"}}

Released(a) == [r \in Rows |-> IF lock[r] = a THEN Nobody ELSE lock[r]]

\* The copies of images an application has made.
Held(a) == IF job[a].at = "copying" THEN job[a].files ELSE {}

\* Seeded defect: nothing is deleted, as if the database could take files back.
UndoKeepsFiles(a, kept) ==
  /\ job' = [job EXCEPT ![a] = Idle] /\ lock' = Released(a)
  /\ orphans' = orphans \union kept
  /\ UNCHANGED <<libraryVars, plans, stored, recorded, seatVars>>

\* The transaction is rolled back and the copies are deleted, but for those that are
\* kept since storage refuses to delete them or nobody is left to do it.
Undo(a, kept) ==
  /\ job' = [job EXCEPT ![a] = Idle] /\ lock' = Released(a)
  /\ stored' = (stored \ Held(a)) \union kept
  /\ orphans' = orphans \union kept
  /\ UNCHANGED <<libraryVars, plans, recorded, seatVars>>

\* Names that no file has: the next copy gets one.
NewFile == CHOOSE f \in Files : f \notin stored

\* Which images are copied: so many of each task.
Complete(a)  == job[a].at = "copying" => Cardinality(job[a].files) = Images * Cardinality(job[a].copied)
Uploading(a) == job[a].at = "copying" /\ ~Complete(a) /\ stored # Files

\* Storage or the database refuses, the request is cancelled, or its worker is lost.
\* Any of the copies may stay behind, and one whose upload was interrupted.
Fail(a) ==
  /\ job[a] # Idle /\ faults < MaxFaults
  /\ faults' = faults + 1
  /\ \E kept \in SUBSET (Held(a) \union {f \in Files : Uploading(a) /\ f = NewFile}) : Undo(a, kept)

\* The commit of a publication: the plan that was read as current is superseded, which
\* waits for participants who change its row, and the new one gets the next version.
Commit(a, old, plan) ==
  /\ Len(plans) < MaxVersion
  /\ \A c \in Users \X Tabs : Inserting(c) /\ entry[c].plan = old => plans[old].locked
  /\ plans' = Append([plans EXCEPT ![old].status = "SUPERSEDED"], plan)
  /\ recorded' = recorded \union Held(a)
  /\ job' = [job EXCEPT ![a] = Idle] /\ lock' = Released(a)
  /\ UNCHANGED <<libraryVars, stored, orphans, seatVars, faults>>

--------------------------------------------------------------------------------
(* Applying the workflow to the group. *)

\* A request names the revision and the version that were reviewed.  The revision is
\* still the workflow's and refers to published sources; the workflow is locked.
ApplyBegin(a, revision, version) ==
  /\ Idling(a) /\ Unchanged(revision) /\ Usable([origin |-> 0, sources |-> workflow.sources])
  /\ lock' = [lock EXCEPT ![WorkflowRow] = a]
  /\ job' = [job EXCEPT ![a] = [at |-> "group", revision |-> revision, version |-> version,
                                sources |-> workflow.sources]]
  /\ UNCHANGED <<libraryVars, plans, fileVars, seatVars, faults>>

CopyingJob(a) ==
  [at |-> "copying", revision |-> job[a].revision, version |-> job[a].version,
   sources |-> job[a].sources, copied |-> {}, files |-> {}]

\* Seeded defect: the version the administrator reviewed is not compared.
ApplyLockGroupUnread(a) ==
  /\ job[a].at = "group" /\ lock[GroupRow] = Nobody
  /\ lock' = [lock EXCEPT ![GroupRow] = a]
  /\ job' = [job EXCEPT ![a] = CopyingJob(a)]
  /\ UNCHANGED <<libraryVars, plans, fileVars, seatVars, faults>>

\* Seeded defect: the group's row is read without locking it.
ApplyLockGroupNever(a) ==
  /\ job[a].at = "group" /\ job[a].version = Current
  /\ job' = [job EXCEPT ![a] = CopyingJob(a)]
  /\ UNCHANGED <<libraryVars, plans, lock, fileVars, seatVars, faults>>

\* The group is locked; a plan published since the review refuses the request.
ApplyLockGroup(a) ==
  /\ job[a].at = "group" /\ lock[GroupRow] = Nobody
  /\ \/ /\ job[a].version # Current
        /\ Undo(a, {}) /\ UNCHANGED faults
     \/ /\ job[a].version = Current
        /\ lock' = [lock EXCEPT ![GroupRow] = a]
        /\ job' = [job EXCEPT ![a] = CopyingJob(a)]
        /\ UNCHANGED <<libraryVars, plans, fileVars, seatVars, faults>>

Lacking(a) == job[a].sources \ job[a].copied

\* Seeded defect: the sources are locked as they come.
FollowingUnsorted(a) == Lacking(a)

\* The source that is locked next: sources are sorted.
Following(a) == {s \in Lacking(a) : \A q \in Lacking(a) : s <= q}

\* The next source is locked and copied, when the images of the last one are; one that
\* was archived since the validation refuses.
ApplyCopySource(a) ==
  /\ job[a].at \in {"copying", "elsewhere"} /\ Complete(a)
  /\ \E s \in Following(a) :
       /\ lock[s] = Nobody /\ s \notin Shared
       /\ \/ /\ <<0, s>> \in archived
             /\ Undo(a, {}) /\ UNCHANGED faults
          \/ /\ <<0, s>> \notin archived
             /\ lock' = [lock EXCEPT ![s] = a]
             /\ job' = [job EXCEPT ![a].copied = @ \union {s}]
             /\ UNCHANGED <<libraryVars, plans, fileVars, seatVars, faults>>

\* An image is copied in storage, under a new name.
ApplyStoreImage(a) ==
  /\ Uploading(a)
  /\ LET f == NewFile IN
       /\ stored' = stored \union {f}
       /\ job' = [job EXCEPT ![a].files = @ \union {f}]
  /\ UNCHANGED <<libraryVars, plans, lock, recorded, orphans, seatVars, faults>>

\* What the workflow asks of a participant, with new copies in place of the sources.
Applied(a) == [origin |-> Len(plans) + 1, sources |-> job[a].sources]

\* With everything copied, the plan is published as one of this workflow's revision;
\* the version reviewed is the one that was read as current.
ApplyPublish(a) ==
  /\ job[a].at = "copying" /\ Complete(a) /\ Lacking(a) = {}
  /\ Commit(a, job[a].version, PublishedPlan(Applied(a), job[a].revision, job[a].version))

\* Another workflow is applied to another group: what it locks in the library is all
\* that it shares with this group.
ElsewhereBegin(a) ==
  /\ Idling(a)
  /\ \E S \in Choices : job' = [job EXCEPT ![a] = [at |-> "elsewhere", sources |-> S, copied |-> {}]]
  /\ UNCHANGED <<libraryVars, plans, lock, fileVars, seatVars, faults>>

ElsewhereEnd(a) ==
  /\ job[a].at = "elsewhere"
  /\ job' = [job EXCEPT ![a] = Idle] /\ lock' = Released(a)
  /\ UNCHANGED <<libraryVars, plans, fileVars, seatVars, faults>>

--------------------------------------------------------------------------------
(* Saving the group's plan in the plan editor. *)

\* A form refers to tasks of the library or repeats what an earlier plan has.
Forms == {c \in Contents : c.origin = 0 \/ \E v \in DOMAIN plans : plans[v].content = c}

\* The group is locked and the tasks are found published.
SaveBegin(a, c) ==
  /\ Idling(a) /\ lock[GroupRow] = Nobody /\ Usable(c)
  /\ lock' = [lock EXCEPT ![GroupRow] = a]
  /\ job' = [job EXCEPT ![a] = [at |-> "saving", content |-> c]]
  /\ UNCHANGED <<libraryVars, plans, fileVars, seatVars, faults>>

\* Seeded defect: a published plan that nobody has begun is edited in place.
SavePublishInPlace(a) ==
  /\ job[a].at = "saving" /\ ~plans[Current].locked
  /\ plans' = [plans EXCEPT ![Current].content = job[a].content]
  /\ job' = [job EXCEPT ![a] = Idle] /\ lock' = Released(a)
  /\ UNCHANGED <<libraryVars, fileVars, seatVars, faults>>

\* A draft would be edited in place, but every plan is published when it is saved:
\* the form becomes a new version.  Its items share the rows of the library's tasks.
SavePublish(a) ==
  /\ job[a].at = "saving" /\ FreeSources(LibrarySources(job[a].content))
  /\ Commit(a, Current, PublishedPlan(job[a].content, 0, 0))

--------------------------------------------------------------------------------
(* Participants. *)

\* A participant without a session: the current plan is read and a condition of it
\* is drawn.
Enter(u, t) ==
  /\ session[u] = NoSession /\ entry[<<u, t>>] = NoEntry
  /\ entry' = [entry EXCEPT ![<<u, t>>] = [plan |-> Current, condition |-> plans[Current].content,
                                           at |-> "read"]]
  /\ UNCHANGED <<libraryVars, plans, job, lock, fileVars, session, faults>>

\* The session is inserted, once no other tab of the participant has inserted one that
\* may still be committed, and the tasks are read.  A session that is there already is
\* returned; an archived task refuses the participant.
Open(u, t) ==
  LET e == entry[<<u, t>>] IN
  /\ e.at = "read" /\ \A x \in Tabs : ~Inserting(<<u, x>>)
  /\ entry' = [entry EXCEPT ![<<u, t>>] =
       IF session[u] # NoSession \/ ~Usable(plans[e.plan].content) THEN NoEntry ELSE [e EXCEPT !.at = "opened"]]
  /\ UNCHANGED <<libraryVars, plans, job, lock, fileVars, session, faults>>

\* The tasks' rows are shared, or changed when nobody has begun on them.  Participants
\* do not wait for each other here, which is more than the database lets them do.
TakeTasks(u, t) ==
  /\ entry[<<u, t>>].at = "opened"
  /\ FreeSources(LibrarySources(plans[entry[<<u, t>>].plan].content))
  /\ entry' = [entry EXCEPT ![<<u, t>>].at = "ready"]
  /\ UNCHANGED <<libraryVars, plans, job, lock, fileVars, session, faults>>

\* The session is committed with its tasks, and the plan is locked.
Begin(u, t) ==
  LET e == entry[<<u, t>>] IN
  /\ e.at = "ready"
  /\ entry' = [entry EXCEPT ![<<u, t>>] = NoEntry]
  /\ session' = [session EXCEPT ![u] = [plan |-> e.plan, condition |-> e.condition,
                                        tasks |-> plans[e.plan].content]]
  /\ plans' = [plans EXCEPT ![e.plan].locked = TRUE]
  /\ UNCHANGED <<libraryVars, job, lock, fileVars, faults>>

\* The transaction is rolled back: an error, a cancelled request, or a circle of waits.
Abandon(u, t) ==
  /\ Inserting(<<u, t>>)
  /\ entry' = [entry EXCEPT ![<<u, t>>] = NoEntry]
  /\ UNCHANGED <<libraryVars, plans, job, lock, fileVars, session, faults>>

--------------------------------------------------------------------------------
ApplyNext(a) ==
  \/ ApplyLockGroup(a) \/ ApplyCopySource(a) \/ ApplyStoreImage(a) \/ ApplyPublish(a)
  \/ ElsewhereBegin(a) \/ ElsewhereEnd(a)

AdminNext(a) ==
  \/ \E revision \in Revisions, version \in DOMAIN plans : ApplyBegin(a, revision, version)
  \/ ApplyNext(a)
  \/ (\E c \in Forms : SaveBegin(a, c)) \/ SavePublish(a)
  \/ Fail(a)

UserNext(u, t) == Enter(u, t) \/ Open(u, t) \/ TakeTasks(u, t) \/ Begin(u, t) \/ Abandon(u, t)

Next ==
  \/ \E a \in Admins : AdminNext(a)
  \/ \E revision \in Revisions : Update(revision) \/ Delete(revision)
  \/ \E t \in Existing : ArchiveCheck(t) \/ ArchiveCommit(t) \/ PublishTask(t)
  \/ \E u \in Users, t \in Tabs : UserNext(u, t)

Spec == Init /\ [][Next]_vars

--------------------------------------------------------------------------------
(* Properties. *)

\* A group has one published plan, the one of its latest version, whatever saves and
\* applications overlap (save_for_group and apply supersede the plan they read under
\* the lock of the group).
OneCurrentPlan ==
  \A v \in DOMAIN plans : plans[v].status = "PUBLISHED" <=> v = Len(plans)

\* A plan made from a workflow replaces the very version its administrator reviewed
\* and has copies of its own of what the reviewed revision said, however many requests
\* waited or published in between (the 409 answers of apply, and the locks under which
\* it decides).
AppliedAsReviewed ==
  \A v \in DOMAIN plans : plans[v].revision # 0 =>
    /\ plans[v].reviewed = v - 1
    /\ plans[v].content = [origin |-> v, sources |-> drafted[plans[v].revision]]

\* Every image in storage is named by a row, belongs to one application under way, or
\* was left by a failure whose clean-up was refused or never ran; and every image that a
\* row names is there.  A refusal of the request itself leaves none (the list of stored
\* paths in apply, and its clean-up).
FilesAccounted ==
  /\ recorded \subseteq stored /\ recorded \intersect orphans = {}
  /\ stored \ (recorded \union orphans) = UNION {Held(a) : a \in Admins}
  /\ \A a, b \in Admins : a # b => Held(a) \intersect Held(b) = {}
  /\ orphans # {} => faults # 0

\* As long as a plan made from the workflow is the current one, none of its tasks is
\* archived, whatever the library's pages archive and however long they take, so nobody
\* who reads it is refused for that (the copies apply makes, and the check of
\* archive_question_task, which commits later than it reads).
CurrentCopiesPublished ==
  LET plan == plans[Len(plans)] IN plan.revision # 0 => Usable(plan.content)

\* Publications add entries to a ledger and participants keep the one they began on,
\* with the condition and the tasks of that one plan (get_current reads the plan
\* twice, and the insertion of a second tab fails).
Ledger == INSTANCE PlanLedger WITH
  ledger <- [v \in DOMAIN plans |-> plans[v].content],
  seats  <- session
ImplementsLedger == Ledger!LedgerSpec

\* Applications never wait for one another in a circle, whichever workflows and groups
\* they are about and however many tasks these share (the order in which apply locks:
\* workflow, group, sources sorted).
Awaits(a, r) ==
  \/ job[a].at = "group" /\ r = GroupRow
  \/ job[a].at \in {"copying", "elsewhere"} /\ Complete(a) /\ r \in Following(a)
WaitsFor(a, b) == \E r \in Rows : Awaits(a, r) /\ lock[r] = b
NoCircle ==
  \A A \in SUBSET Admins : A # {} => \E a \in A : \A b \in A : ~WaitsFor(a, b)
=============================================================================
