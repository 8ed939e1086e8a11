-------------------------- MODULE RequestNumbering --------------------------
(***************************************************************************)
(* The numbers of one session's model requests                             *)
(* (prepare_request in utils/experiment_perturbations.py).                 *)
(*                                                                         *)
(* Requests of several tabs, and the fan-out of one prompt to several      *)
(* models, reserve their numbers at the same time.  Nothing is locked:     *)
(* each query sees what is committed when it runs, and the unique key on   *)
(* (session, request_sequence) refuses the insert of a number that is      *)
(* taken.  A refused request rolls back and reads everything again.        *)
(***************************************************************************)
EXTENDS Integers

CONSTANTS
  Requests,   \* model requests of the session
  Messages,   \* the participant's messages
  NoMessage,  \* user_message_id of a request that has none
  Items,      \* entries of the plan
  NoItem,     \* plan_item_id of a request outside the plan's tasks
  Sendings,   \* which message each request may answer
  Places,     \* in the task of which entry each request may be made
  Rules,      \* how the condition may say when its instruction is added
  Draws,      \* the request numbers whose draw may be below the rule's probability
  Tries       \* attempts before the request fails (3 in the code)

RuleModes == {"EVERY_REQUEST", "FIRST_REQUEST", "AFTER_PROMPT_COUNT", "EVERY_N_PROMPTS", "PROMPT_RANGE"}
RuleType == [enabled : BOOLEAN, mode : RuleModes, count : Nat, from : Nat, to : Nat,
             scope : {"ALL_TASKS", "SELECTED_TASKS"}, items : SUBSET Items]

ASSUME NumberingAssumption ==
  /\ NoMessage \notin Messages /\ NoItem \notin Items
  /\ Sendings \subseteq [Requests -> Messages \union {NoMessage}]
  /\ Places \subseteq [Requests -> Items \union {NoItem}]
  /\ Rules \subseteq RuleType
  /\ Draws \subseteq SUBSET Nat
  /\ Tries \in Nat \ {0}

VARIABLES
  message,  \* user_message_id of each request
  item,     \* plan_item_id of each request's session task
  rule,     \* condition.prompt_injection and its activation
  drawn,    \* the request numbers of this session whose draw is below the probability
  row,      \* experiment_llm_request: the row each request inserted, if any
  att       \* what each request's attempt has read

given == <<message, item, rule, drawn>>
numberingVars == <<given, row, att>>

NoRow == [seq |-> 0, prompt |-> 0, active |-> FALSE]
NewAttempt == [at |-> "sequence", seq |-> 0, prompt |-> 0, active |-> FALSE, tries |-> 0, called |-> 0]
Stages == {"waiting", "sequence", "previous", "prompt", "insert", "reserved", "failed", "gone"}

AttemptType == [at : Stages, seq : Nat, prompt : Nat, active : BOOLEAN, tries : Nat, called : Nat]

NumberingTypeOK ==
  /\ message \in [Requests -> Messages \union {NoMessage}]
  /\ item \in [Requests -> Items \union {NoItem}]
  /\ rule \in RuleType /\ drawn \in SUBSET Nat
  /\ row \in [Requests -> [seq : Nat, prompt : Nat, active : BOOLEAN]]
  /\ att \in [Requests -> AttemptType]

NumberingInit ==
  /\ message \in Sendings /\ item \in Places
  /\ rule \in Rules /\ drawn \in Draws
  /\ row = [r \in Requests |-> NoRow]
  /\ att = [r \in Requests |-> [NewAttempt EXCEPT !.at = "waiting"]]

-----------------------------------------------------------------------------
Stored == {r \in Requests : row[r].seq # 0}

\* func.max over a column, 0 when there is no row
Highest(n, S) == n \in S \union {0} /\ \A k \in S : k <= n

Sequences == {row[r].seq : r \in Stored}
Prompts == {row[r].prompt : r \in Stored}

\* _cadence_matches
CadenceMatches(u, seq, prompt) ==
  \/ u.mode = "EVERY_REQUEST"
  \/ u.mode = "FIRST_REQUEST" /\ seq = 1
  \/ u.mode = "AFTER_PROMPT_COUNT" /\ prompt > u.count
  \/ u.mode = "EVERY_N_PROMPTS" /\ u.count # 0 /\ prompt % u.count = 0
  \/ u.mode = "PROMPT_RANGE" /\ u.from # 0 /\ u.to # 0 /\ u.from <= prompt /\ prompt <= u.to

\* _scope_matches: a request outside the plan's tasks is in no selection.
ScopeMatches(u, i) == u.scope = "ALL_TASKS" \/ i \in u.items

\* Seeded defect: an attempt after a refused one keeps what was decided before.
PromptActiveDecidedOnce(r, seq, prompt) ==
  IF att[r].tries > 0 THEN att[r].active
  ELSE /\ rule.enabled /\ ScopeMatches(rule, item[r])
       /\ CadenceMatches(rule, seq, prompt) /\ seq \in drawn

\* prompt_active, decided before the insert that may be refused.  The draw is
\* a keyed hash of plan, session and number: another for each number, the same
\* for each attempt at a number.
PromptActive(r, seq, prompt) ==
  /\ rule.enabled /\ ScopeMatches(rule, item[r])
  /\ CadenceMatches(rule, seq, prompt) /\ seq \in drawn

-----------------------------------------------------------------------------
\* called only remembers the highest number of the moment, for FailsOnlyWhenCrowded.
Call(r) ==
  /\ att[r].at = "waiting"
  /\ \E n \in Sequences \union {0} :
       /\ Highest(n, Sequences)
       /\ att' = [att EXCEPT ![r] = [NewAttempt EXCEPT !.called = n]]
  /\ UNCHANGED <<given, row>>

ReadSequence(r) ==
  /\ att[r].at = "sequence"
  /\ \E n \in Sequences \union {0} :
       /\ Highest(n, Sequences)
       /\ att' = [att EXCEPT ![r].seq = n + 1, ![r].at = "previous"]
  /\ UNCHANGED <<given, row>>

\* Rows of the same message; a request without one looks for none.
Earlier(r) == {q \in Stored : message[q] = message[r] /\ message[r] # NoMessage}

\* Seeded defect: the prompt number of an earlier request of the message is not looked up.
ReadPreviousNever(r) ==
  /\ att[r].at = "previous"
  /\ att' = [att EXCEPT ![r].at = "prompt"]
  /\ UNCHANGED <<given, row>>

ReadPrevious(r) ==
  /\ att[r].at = "previous"
  /\ \/ /\ Earlier(r) = {}
        /\ att' = [att EXCEPT ![r].at = "prompt"]
     \/ \E q \in Earlier(r) :
          att' = [att EXCEPT ![r].at = "insert", ![r].prompt = row[q].prompt,
                             ![r].active = PromptActive(r, att[r].seq, row[q].prompt)]
  /\ UNCHANGED <<given, row>>

ReadPrompt(r) ==
  /\ att[r].at = "prompt"
  /\ \E n \in Prompts \union {0} :
       /\ Highest(n, Prompts)
       /\ att' = [att EXCEPT ![r].prompt = n + 1, ![r].at = "insert",
                             ![r].active = PromptActive(r, att[r].seq, n + 1)]
  /\ UNCHANGED <<given, row>>

\* Seeded defect: the table has no unique key.
InsertAnyway(r) ==
  /\ att[r].at = "insert"
  /\ row' = [row EXCEPT ![r] = [seq |-> att[r].seq, prompt |-> att[r].prompt, active |-> att[r].active]]
  /\ att' = [att EXCEPT ![r].at = "reserved"]
  /\ UNCHANGED given

Insert(r) ==
  /\ att[r].at = "insert"
  /\ att[r].seq \notin Sequences
  /\ row' = [row EXCEPT ![r] = [seq |-> att[r].seq, prompt |-> att[r].prompt, active |-> att[r].active]]
  /\ att' = [att EXCEPT ![r].at = "reserved"]
  /\ UNCHANGED given

\* Seeded defect: one attempt less than the loop's range.
ConflictOneTryLess(r) ==
  /\ att[r].at = "insert"
  /\ att[r].seq \in Sequences
  /\ att' = [att EXCEPT ![r] = [att[r] EXCEPT !.seq = 0, !.prompt = 0, !.tries = att[r].tries + 1,
                                  !.at = IF att[r].tries + 2 >= Tries THEN "failed" ELSE "sequence"]]
  /\ UNCHANGED <<given, row>>

\* IntegrityError: roll back and start over, Tries times in all.  The numbers
\* are read again before they are used; the decision stands until it is taken again.
Conflict(r) ==
  /\ att[r].at = "insert"
  /\ att[r].seq \in Sequences
  /\ att' = [att EXCEPT ![r] = [att[r] EXCEPT !.seq = 0, !.prompt = 0, !.tries = att[r].tries + 1,
                                  !.at = IF att[r].tries + 1 = Tries THEN "failed" ELSE "sequence"]]
  /\ UNCHANGED <<given, row>>

\* The chat task is cancelled or the server stops before the insert commits.
Vanish(r) ==
  /\ att[r].at \in {"sequence", "previous", "prompt", "insert"}
  /\ att' = [att EXCEPT ![r].at = "gone"]
  /\ UNCHANGED <<given, row>>

Reserve(r) ==
  ReadSequence(r) \/ ReadPrevious(r) \/ ReadPrompt(r) \/ Insert(r) \/ Conflict(r) \/ Vanish(r)

NumberingNext == \E r \in Requests : Call(r) \/ Reserve(r)

NumberingSpec == NumberingInit /\ [][NumberingNext]_numberingVars

-----------------------------------------------------------------------------
(***************************************************************************)
(* Properties                                                              *)
(***************************************************************************)
\* The rows of a session are numbered 1, 2, ... without a gap or a repetition,
\* however many requests reserve at once and wherever they are cut off: the
\* unique key turns the unlocked max + 1 of prepare_request into a counter.
NumberedInOrder ==
  /\ \A r, q \in Stored : row[r].seq = row[q].seq => r = q
  /\ \A r \in Stored : \A k \in 1..row[r].seq : k \in Sequences

\* Requests of one message share a prompt number (regeneration, several
\* models) and different messages never do, although the prompt number itself
\* has no key: only the key on the sequence notices that it is out of date.
OnePromptPerMessage ==
  \A r, q \in Stored :
    row[r].prompt = row[q].prompt <=> (r = q \/ (message[r] = message[q] /\ message[r] # NoMessage))

\* Prompt numbers have no gaps, so a cadence of every n prompts, or a list of
\* prompt numbers, meets every number it names.
PromptsWithoutGaps ==
  \A r \in Stored : row[r].prompt >= 1 /\ \A k \in 1..row[r].prompt : k \in Prompts

\* A request is given up with "Unable to reserve an experiment request
\* sequence" only when, since it was called, as many other requests got their
\* number as it has tries: every refusal is somebody else's success.
FailsOnlyWhenCrowded ==
  \A r \in Requests : att[r].at = "failed" => \A k \in 1..Tries : att[r].called + k \in Sequences

\* The stored decision is the one of the numbers it is stored with, although it
\* was taken before the insert that settles them and may have been taken before
\* for other numbers.  So FIRST_REQUEST never reaches two requests, and under a
\* rule on prompts the requests of a message differ only by task or draw.
InjectedAsRuled ==
  /\ \A r \in Stored :
       row[r].active <=> /\ rule.enabled
                         /\ rule.scope = "ALL_TASKS" \/ item[r] \in rule.items
                         /\ row[r].seq \in drawn
                         /\ CadenceMatches(rule, row[r].seq, row[r].prompt)
  /\ rule.mode = "FIRST_REQUEST" =>
       \A r, q \in Stored : row[r].active /\ row[q].active => r = q
  /\ rule.mode # "FIRST_REQUEST" =>
       \A r, q \in Stored :
         /\ message[r] = message[q] /\ message[r] # NoMessage
         /\ item[r] = item[q] /\ {row[r].seq, row[q].seq} \subseteq drawn
         => row[r].active = row[q].active
=============================================================================
