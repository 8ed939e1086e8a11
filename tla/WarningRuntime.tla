--------------------------- MODULE WarningRuntime ---------------------------
(***************************************************************************)
(* The warning of one session and the prompts it holds back (the runtime   *)
(* routes of routers/experiments.py and the check in chat_completion,      *)
(* main.py), composed with the numbering of the requests.                  *)
(*                                                                         *)
(* Tabs poll, report activity, display and acknowledge; a prompt passes    *)
(* the same payload before it is numbered in a background task.  Each of   *)
(* these handlers loads the warning row FOR UPDATE, decides, and commits   *)
(* the columns it changed.  A database may ignore the lock (SQLite), the   *)
(* row is inserted without one, and a report of activity locks the row a   *)
(* second time but keeps what it loaded the first time.                    *)
(***************************************************************************)
EXTENDS RequestNumbering, Sequences, FiniteSets

CONSTANTS
  Tabs,        \* the participant's open tabs
  Cadences,    \* the warnings the condition may have
  RowLocks,    \* whether the database honours FOR UPDATE
  OneChat,     \* whether the participant waits for a prompt before the next
  MaxReports,  \* reports of activity end at so many
  MaxTokens    \* tokens issued end at so many

CadenceType == [cadence : {"BEGINNING", "EVERY_N_PROMPTS", "PROMPT_LIST", "ONCE_AFTER_PROMPT",
                           "EVERY_N_ACTIVE_MINUTES", "AFTER_ACTIVE_MINUTES"},
                value : Nat \ {0}, numbers : SUBSET (Nat \ {0}), must_acknowledge : BOOLEAN]

ASSUME WarningAssumption ==
  /\ Cadences \subseteq CadenceType
  /\ RowLocks \in BOOLEAN /\ OneChat \in BOOLEAN
  /\ MaxReports \in Nat /\ MaxTokens \in Nat
  /\ Tabs \intersect Requests = {} /\ "free" \notin Tabs \union Requests

VARIABLES
  warning,  \* the condition's experiment_warning_modal
  fresh,    \* whether the behaviour begins before the row exists
  stored,   \* whether the warning row exists
  warn,     \* experiment_warning_state; token 0 when nothing is pending
  lock,     \* who holds the row
  work,     \* the handler each tab or request is in, with the row it loaded
  modal,    \* the token of the warning each tab shows
  issued,   \* tokens issued so far
  reported, \* units of activity that reports have committed
  journal   \* warning_modal_* telemetry events

runtimeVars == <<warning, fresh, stored, warn, lock, work, modal, issued, reported, journal>>
vars == <<numberingVars, runtimeVars>>

NoTrigger == <<"none", 0>>
NewWarningState == [elapsed |-> 0, last |-> NoTrigger, last_token |-> 0,
                    token |-> 0, trigger |-> NoTrigger, displayed |-> FALSE]
Idle == [op |-> "idle", at |-> "idle", token |-> 0, view |-> NewWarningState]

Callers == Tabs \union Requests

TriggerType == {"none", "beginning", "prompt", "once-prompt", "active-slot", "once-active"} \X Nat
WarningStateType == [elapsed : Nat, last : TriggerType, last_token : Nat,
                     token : Nat, trigger : TriggerType, displayed : BOOLEAN]
WorkType == [op : {"idle", "poll", "activity", "display", "acknowledge", "gate"},
             at : {"idle", "create", "loaded", "reload", "payload"},
             token : Nat, view : WarningStateType]
EntryType == [type : {"displayed", "acknowledged"}, token : Nat, trigger : TriggerType]

TypeOK ==
  /\ NumberingTypeOK
  /\ warning \in Cadences /\ fresh \in BOOLEAN /\ stored \in BOOLEAN /\ (~fresh => stored)
  /\ warn \in WarningStateType /\ work \in [Callers -> WorkType]
  /\ lock \in Callers \union {"free"}
  /\ issued \in 0..MaxTokens /\ modal \in [Tabs -> 0..issued]
  /\ warn.token <= issued /\ \A p \in Callers : work[p].token <= issued /\ work[p].view.token <= issued
  /\ reported \in Nat /\ journal \in Seq(EntryType)

Init ==
  /\ NumberingInit
  /\ warning \in Cadences
  /\ fresh \in BOOLEAN
  /\ stored = ~fresh
  /\ warn = NewWarningState
  /\ lock = "free"
  /\ work = [p \in Callers |-> Idle]
  /\ modal = [t \in Tabs |-> 0]
  /\ issued = 0
  /\ reported = 0
  /\ journal = <<>>

-----------------------------------------------------------------------------
\* _warning_trigger: the key that is due for prompt count n and elapsed time
\* e, whatever was shown last
Trigger(n, e) ==
  CASE warning.cadence = "BEGINNING" -> <<"beginning", 0>>
    [] warning.cadence = "EVERY_N_PROMPTS" /\ n > 0 /\ n % warning.value = 0 -> <<"prompt", n>>
    [] warning.cadence = "PROMPT_LIST" /\ n \in warning.numbers -> <<"prompt", n>>
    [] warning.cadence = "ONCE_AFTER_PROMPT" /\ n >= warning.value -> <<"once-prompt", warning.value>>
    [] warning.cadence = "EVERY_N_ACTIVE_MINUTES" /\ e >= warning.value ->
         <<"active-slot", e \div warning.value>>
    [] warning.cadence = "AFTER_ACTIVE_MINUTES" /\ e >= warning.value -> <<"once-active", warning.value>>
    [] OTHER -> NoTrigger

PromptCount == CHOOSE n \in Prompts \union {0} : Highest(n, Prompts)

Due(v) == LET k == Trigger(PromptCount, v.elapsed) IN k # NoTrigger /\ k # v.last

\* Nobody else holds the row.
Lockable == ~RowLocks \/ lock = "free"
Locked(p) == IF RowLocks THEN p ELSE "free"
Release(p) == IF lock = p THEN "free" ELSE lock

\* The participant sends a prompt, or another model's copy of it, only when
\* the earlier prompts have their number.
MaySend(r) ==
  OneChat => \A q \in Requests \ {r} :
    \/ work[q].op = "idle" /\ att[q].at \in {"waiting", "reserved", "failed", "gone"}
    \/ message[q] = message[r] /\ message[r] # NoMessage

\* What a caller may ask for: a tab what its page does, a request its check.
MayCall(p, op, token) ==
  \/ p \in Requests /\ op = "gate" /\ token = 0 /\ att[p].at = "waiting" /\ MaySend(p)
  \/ p \in Tabs /\ op = "poll" /\ token = 0
  \/ p \in Tabs /\ op = "activity" /\ token = 0
       /\ reported + Cardinality({t \in Tabs : work[t].op = "activity" /\ work[t].at \in {"create", "loaded"}})
            < MaxReports
  \/ p \in Tabs /\ op \in {"display", "acknowledge"} /\ token = modal[p] /\ token # 0

\* Seeded defect: the row is loaded without FOR UPDATE.
LoadUnlocked(p, op, token) ==
  /\ work[p].op = "idle" /\ MayCall(p, op, token)
  /\ work' = [work EXCEPT ![p] = [op |-> op, at |-> IF stored THEN "loaded" ELSE "create",
                                  token |-> token, view |-> warn]]
  /\ UNCHANGED <<numberingVars, warning, fresh, stored, warn, lock, modal, issued, reported, journal>>

\* _active_runtime finds the row, or finds that there is none.
Load(p, op, token) ==
  /\ work[p].op = "idle" /\ MayCall(p, op, token)
  /\ stored => Lockable
  /\ work' = [work EXCEPT ![p] = [op |-> op, at |-> IF stored THEN "loaded" ELSE "create",
                                  token |-> token, view |-> warn]]
  /\ lock' = IF stored THEN Locked(p) ELSE lock
  /\ UNCHANGED <<numberingVars, warning, fresh, stored, warn, modal, issued, reported, journal>>

\* The rest of _active_runtime: insert the row, or after an IntegrityError
\* read the one that another handler inserted; neither leaves it locked.
Create(p) ==
  /\ work[p].at = "create"
  /\ stored' = TRUE
  /\ work' = [work EXCEPT ![p].at = "loaded", ![p].view = warn]
  /\ UNCHANGED <<numberingVars, warning, fresh, warn, lock, modal, issued, reported, journal>>

\* experiment_activity: add to the counter as it was loaded.
AddActivity(p) ==
  /\ work[p].op = "activity" /\ work[p].at = "loaded"
  /\ warn' = [warn EXCEPT !.elapsed = work[p].view.elapsed + 1]
  /\ reported' = reported + 1
  /\ work' = [work EXCEPT ![p].at = "reload", ![p].view.elapsed = @ + 1]
  /\ lock' = Release(p)
  /\ UNCHANGED <<numberingVars, warning, fresh, stored, modal, issued, journal>>

\* _runtime_payload locks the row again; the object loaded before stays as it was.
Reload(p) ==
  /\ work[p].at = "reload" /\ Lockable
  /\ work' = [work EXCEPT ![p].at = "payload"]
  /\ lock' = Locked(p)
  /\ UNCHANGED <<numberingVars, warning, fresh, stored, warn, modal, issued, reported, journal>>

\* Seeded defect: the check before a prompt does not refuse it.
AnswerAlwaysAdmits(p, token) ==
  IF p \in Tabs
  THEN /\ modal' = [modal EXCEPT ![p] = IF token = 0 THEN @ ELSE token]
       /\ UNCHANGED numberingVars
  ELSE Call(p) /\ UNCHANGED modal

\* A payload is answered: a tab shows the warning in it, a prompt is refused
\* when the warning must be acknowledged and goes to its numbering otherwise.
Answer(p, token) ==
  IF p \in Tabs
  THEN /\ modal' = [modal EXCEPT ![p] = IF token = 0 THEN @ ELSE token]
       /\ UNCHANGED numberingVars
  ELSE /\ IF token # 0 /\ warning.must_acknowledge THEN UNCHANGED numberingVars ELSE Call(p)
       /\ UNCHANGED modal

AtPayload(p) ==
  \/ work[p].at = "loaded" /\ work[p].op \in {"poll", "gate"}
  \/ work[p].at = "payload"

\* _runtime_payload: the prompts are counted, a token is issued when one is
\* due and none is pending, and the pending warning is the answer.
Payload(p) ==
  /\ AtPayload(p)
  /\ LET v == work[p].view IN
       IF v.token = 0 /\ Due(v)
       THEN /\ issued < MaxTokens
            /\ issued' = issued + 1
            /\ warn' = [warn EXCEPT !.token = issued + 1, !.displayed = FALSE,
                                    !.trigger = Trigger(PromptCount, v.elapsed)]
            /\ Answer(p, issued + 1)
       ELSE Answer(p, v.token) /\ UNCHANGED <<issued, warn>>
  /\ lock' = Release(p)
  /\ work' = [work EXCEPT ![p] = Idle]
  /\ UNCHANGED <<warning, fresh, stored, reported, journal>>

-----------------------------------------------------------------------------
Logged(type, v) == Append(journal, [type |-> type, token |-> v.token, trigger |-> v.trigger])

\* The pending warning v is over.
Settled(v) == [warn EXCEPT !.last = v.trigger, !.last_token = v.token, !.token = 0, !.trigger = NoTrigger]

Finish(p) ==
  /\ lock' = Release(p)
  /\ work' = [work EXCEPT ![p] = Idle]
  /\ UNCHANGED <<numberingVars, warning, fresh, stored, issued, reported>>

\* warning_display
Display(p) ==
  /\ work[p].op = "display" /\ work[p].at = "loaded"
  /\ LET v == work[p].view IN
       IF v.last_token # work[p].token /\ v.token = work[p].token /\ ~v.displayed
       THEN /\ warn' = IF warning.must_acknowledge THEN [warn EXCEPT !.displayed = TRUE]
                       ELSE [Settled(v) EXCEPT !.displayed = TRUE]
            /\ journal' = Logged("displayed", v)
       ELSE UNCHANGED <<warn, journal>>
  /\ UNCHANGED modal
  /\ Finish(p)

\* Seeded defect: the token of the page is not compared with the pending one.
AcknowledgeAny(p) ==
  /\ work[p].op = "acknowledge" /\ work[p].at = "loaded"
  /\ LET v == work[p].view IN
       /\ warn' = Settled(v)
       /\ journal' = Logged("acknowledged", v)
       /\ modal' = [modal EXCEPT ![p] = 0]
  /\ Finish(p)

\* warning_acknowledge: done before, done now, or refused with 409, after
\* which the page goes on showing the warning.
Acknowledge(p) ==
  /\ work[p].op = "acknowledge" /\ work[p].at = "loaded"
  /\ LET v == work[p].view IN
       \/ /\ v.last_token = work[p].token
          /\ modal' = [modal EXCEPT ![p] = 0]
          /\ UNCHANGED <<warn, journal>>
       \/ /\ v.last_token # work[p].token /\ v.token = work[p].token
          /\ warn' = Settled(v)
          /\ journal' = Logged("acknowledged", v)
          /\ modal' = [modal EXCEPT ![p] = 0]
       \/ /\ work[p].token \notin {v.last_token, v.token}
          /\ UNCHANGED <<warn, journal, modal>>
  /\ Finish(p)

Handle(p) == Create(p) \/ AddActivity(p) \/ Reload(p) \/ Payload(p) \/ Display(p) \/ Acknowledge(p)

Arrive(p) ==
  \E op \in {"poll", "activity", "display", "acknowledge", "gate"}, token \in 0..issued : Load(p, op, token)

NumberRequest(r) == Reserve(r) /\ UNCHANGED runtimeVars

Next ==
  \/ \E p \in Callers : Arrive(p) \/ Handle(p)
  \/ \E r \in Requests : NumberRequest(r)

Spec == Init /\ [][Next]_vars

-----------------------------------------------------------------------------
(***************************************************************************)
(* Properties                                                              *)
(***************************************************************************)
Acknowledged == {journal[i].trigger : i \in {j \in DOMAIN journal : journal[j].type = "acknowledged"}}

\* The triggers that a participant at prompt n has behind him.
DueBefore(n) ==
  CASE warning.cadence = "BEGINNING" -> {<<"beginning", 0>>}
    [] warning.cadence = "EVERY_N_PROMPTS" -> {<<"prompt", k>> : k \in {j \in 1..n - 1 : j % warning.value = 0}}
    [] warning.cadence = "PROMPT_LIST" -> {<<"prompt", k>> : k \in warning.numbers \intersect 1..n - 1}
    [] warning.cadence = "ONCE_AFTER_PROMPT" /\ n > warning.value -> {<<"once-prompt", warning.value>>}
    [] OTHER -> {}

\* A required warning is acknowledged before the next prompt is numbered,
\* whatever the tabs poll, report or acknowledge in between.  It is computed
\* from the number of prompts at the moment of a poll, only the last trigger
\* is remembered and none is computed while one is pending, so it is the check
\* of every single prompt that keeps a trigger from being passed by.
NoPromptUnwarned ==
  warning.must_acknowledge =>
    \A r \in Stored : DueBefore(row[r].prompt) \subseteq Acknowledged

\* Every unit of activity that a report committed is in the counter: two
\* reports that overlap do not both add to the value they loaded.  The row
\* exists beforehand: while it is being inserted nobody can hold it.
ActivityCounted == ~fresh => warn.elapsed = reported

\* A warning (a token) is logged as displayed and as acknowledged once, when
\* two tabs show it and both report it.
LoggedOnce == \A i, j \in DOMAIN journal : journal[i] = journal[j] => i = j
=============================================================================
