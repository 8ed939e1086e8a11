------------------------- MODULE WarningRuntimeProofs -------------------------
(***************************************************************************)
(* The numbers of model requests are right for any number of requests,     *)
(* messages and tries; and no prompt gets one before the warnings due      *)
(* until then were acknowledged, no activity is lost and no warning is     *)
(* logged twice, for any number of tabs, reports and tokens.               *)
(***************************************************************************)
EXTENDS WarningRuntime, SequenceTheorems, TLAPS

-----------------------------------------------------------------------------
(***************************************************************************)
(* The numbering.  What an attempt has read may be out of date.  The       *)
(* argument is that a sequence number which is still free proves the       *)
(* opposite: the numbers below it are taken and it is not, so no row was   *)
(* inserted since it was read, and the prompt number read after it is      *)
(* right as well.                                                          *)
(***************************************************************************)
Reading(r) == att[r].at \in {"previous", "prompt", "insert"}

\* No row was inserted since r read its sequence number.
Current(r) == att[r].seq \notin Sequences

\* Every number below the one r read is taken.
NumbersBelow ==
  \A r \in Requests : Reading(r) => att[r].seq >= 1 /\ \A k \in 1..att[r].seq - 1 : k \in Sequences

NoneEarlier ==
  \A r \in Requests : att[r].at = "prompt" /\ Current(r) => Earlier(r) = {}

PromptRead ==
  \A r \in Requests : att[r].at = "insert" /\ Current(r) =>
    \/ \E q \in Earlier(r) : att[r].prompt = row[q].prompt
    \/ Earlier(r) = {} /\ \E n \in Prompts \union {0} : Highest(n, Prompts) /\ att[r].prompt = n + 1

RowsOfReserved == \A r \in Requests : att[r].at # "reserved" => row[r] = NoRow

\* The decision of an attempt is of the numbers it is about to insert, that of
\* a row of the numbers it has.
Decided == \A r \in Requests : att[r].at = "insert" => att[r].active = PromptActive(r, att[r].seq, att[r].prompt)

RowsActive == \A r \in Stored : row[r].active = PromptActive(r, row[r].seq, row[r].prompt)

\* A request that was refused so often saw so many numbers taken since it was called.
TriesLost ==
  \A r \in Requests :
    /\ att[r].called \in Sequences \union {0}
    /\ \A k \in 1..att[r].tries : att[r].called + k \in Sequences
    /\ Reading(r) => att[r].seq > att[r].called + att[r].tries
    /\ att[r].at = "failed" => att[r].tries = Tries

IInv ==
  /\ NumberingTypeOK /\ NumberedInOrder /\ OnePromptPerMessage /\ PromptsWithoutGaps
  /\ NumbersBelow /\ NoneEarlier /\ PromptRead /\ RowsOfReserved /\ Decided /\ RowsActive /\ TriesLost

-----------------------------------------------------------------------------
\* The initial states have no rows and no attempt that has read anything.
LEMMA InitIInv == NumberingInit => IInv
  <1> SUFFICES ASSUME NumberingInit PROVE IInv
    OBVIOUS
  <1>1. NumberingTypeOK
    BY NumberingAssumption DEF NumberingInit, NumberingTypeOK, AttemptType, NoRow, NewAttempt, Stages
  <1>2. Stored = {}
    BY DEF NumberingInit, Stored, NoRow
  <1>3. NumberedInOrder /\ OnePromptPerMessage /\ PromptsWithoutGaps /\ RowsActive
    BY <1>2 DEF NumberedInOrder, OnePromptPerMessage, PromptsWithoutGaps, RowsActive
  <1>4. \A r \in Requests : /\ att[r].at = "waiting" /\ att[r].tries = 0 /\ att[r].called = 0
                            /\ row[r] = NoRow
    BY DEF NumberingInit, NewAttempt
  <1>5. NumbersBelow /\ NoneEarlier /\ PromptRead /\ RowsOfReserved /\ Decided /\ TriesLost
    BY <1>4 DEF NumbersBelow, NoneEarlier, PromptRead, RowsOfReserved, Decided, TriesLost, Reading
  <1> QED
    BY <1>1, <1>3, <1>5 DEF IInv

\* A step that only reads leaves everything that is said of the rows.
LEMMA RowsUnchanged ==
  ASSUME IInv, UNCHANGED <<given, row>>
  PROVE  /\ Stored' = Stored /\ Sequences' = Sequences /\ Prompts' = Prompts
         /\ \A r \in Requests : Earlier(r)' = Earlier(r)
         /\ NumberedInOrder' /\ OnePromptPerMessage' /\ PromptsWithoutGaps' /\ RowsActive'
  <1>1. Stored' = Stored
    BY DEF Stored
  <1>2. Sequences' = Sequences /\ Prompts' = Prompts
    BY <1>1 DEF Sequences, Prompts
  <1>3. \A r \in Requests : Earlier(r)' = Earlier(r)
    BY <1>1 DEF Earlier, given
  <1>4. NumberedInOrder'
    BY <1>1, <1>2 DEF IInv, NumberedInOrder
  <1>5. OnePromptPerMessage'
    BY <1>1 DEF IInv, OnePromptPerMessage, given
  <1>6. PromptsWithoutGaps'
    BY <1>1, <1>2 DEF IInv, PromptsWithoutGaps
  <1>7. RowsActive'
    BY <1>1 DEF IInv, RowsActive, PromptActive, given
  <1> QED
    BY <1>1, <1>2, <1>3, <1>4, <1>5, <1>6, <1>7

\* Of such a step by r only what the invariant says of r's own attempt is left
\* to show.
LEMMA ReadStep ==
  ASSUME IInv, UNCHANGED <<given, row>>, NEW r \in Requests,
         att' \in [Requests -> AttemptType],
         \A q \in Requests \ {r} : att'[q] = att[q],
         att[r].at # "reserved", att'[r].at # "reserved",
         Reading(r)' => att'[r].seq >= 1 /\ \A k \in 1..att'[r].seq - 1 : k \in Sequences,
         att'[r].at = "prompt" /\ att'[r].seq \notin Sequences => Earlier(r) = {},
         att'[r].at = "insert" /\ att'[r].seq \notin Sequences =>
           \/ \E q \in Earlier(r) : att'[r].prompt = row[q].prompt
           \/ /\ Earlier(r) = {}
              /\ \E n \in Prompts \union {0} : Highest(n, Prompts) /\ att'[r].prompt = n + 1,
         att'[r].at = "insert" => att'[r].active = PromptActive(r, att'[r].seq, att'[r].prompt),
         att'[r].called \in Sequences \union {0},
         \A k \in 1..att'[r].tries : att'[r].called + k \in Sequences,
         Reading(r)' => att'[r].seq > att'[r].called + att'[r].tries,
         att'[r].at = "failed" => att'[r].tries = Tries
  PROVE  IInv'
  <1>1. /\ Stored' = Stored /\ Sequences' = Sequences /\ Prompts' = Prompts
        /\ \A q \in Requests : Earlier(q)' = Earlier(q)
        /\ NumberedInOrder' /\ OnePromptPerMessage' /\ PromptsWithoutGaps' /\ RowsActive'
    BY RowsUnchanged
  <1>2. NumberingTypeOK'
    BY DEF IInv, NumberingTypeOK, given
  <1>3. NumbersBelow'
    <2> SUFFICES ASSUME NEW q \in Requests, Reading(q)'
                 PROVE  att'[q].seq >= 1 /\ \A k \in 1..att'[q].seq - 1 : k \in Sequences
      BY <1>1 DEF NumbersBelow
    <2>1. CASE q = r
      BY <2>1
    <2>2. CASE q # r
      BY <2>2 DEF IInv, NumbersBelow, Reading
    <2> QED
      BY <2>1, <2>2
  <1>4. NoneEarlier'
    <2> SUFFICES ASSUME NEW q \in Requests, att'[q].at = "prompt", att'[q].seq \notin Sequences
                 PROVE  Earlier(q) = {}
      BY <1>1 DEF NoneEarlier, Current
    <2>1. CASE q = r
      BY <2>1
    <2>2. CASE q # r
      BY <2>2 DEF IInv, NoneEarlier, Current
    <2> QED
      BY <2>1, <2>2
  <1>5. PromptRead'
    <2> SUFFICES ASSUME NEW q \in Requests, att'[q].at = "insert", att'[q].seq \notin Sequences
                 PROVE  \/ \E p \in Earlier(q) : att'[q].prompt = row[p].prompt
                        \/ /\ Earlier(q) = {}
                           /\ \E n \in Prompts \union {0} : Highest(n, Prompts) /\ att'[q].prompt = n + 1
      BY <1>1 DEF PromptRead, Current, Highest
    <2>1. CASE q = r
      BY <2>1
    <2>2. CASE q # r
      BY <2>2 DEF IInv, PromptRead, Current
    <2> QED
      BY <2>1, <2>2
  <1>6. RowsOfReserved'
    BY DEF IInv, RowsOfReserved
  <1>7. TriesLost'
    <2> SUFFICES ASSUME NEW q \in Requests
                 PROVE  /\ att'[q].called \in Sequences \union {0}
                        /\ \A k \in 1..att'[q].tries : att'[q].called + k \in Sequences
                        /\ Reading(q)' => att'[q].seq > att'[q].called + att'[q].tries
                        /\ att'[q].at = "failed" => att'[q].tries = Tries
      BY <1>1 DEF TriesLost
    <2>1. CASE q = r
      BY <2>1
    <2>2. CASE q # r
      BY <2>2 DEF IInv, TriesLost, Reading
    <2> QED
      BY <2>1, <2>2
  <1>8. Decided'
    <2> SUFFICES ASSUME NEW q \in Requests, att'[q].at = "insert"
                 PROVE  att'[q].active = PromptActive(q, att'[q].seq, att'[q].prompt)
      BY DEF Decided, PromptActive, given
    <2>1. CASE q = r
      BY <2>1
    <2>2. CASE q # r
      BY <2>2 DEF IInv, Decided
    <2> QED
      BY <2>1, <2>2
  <1> QED
    BY <1>1, <1>2, <1>3, <1>4, <1>5, <1>6, <1>7, <1>8 DEF IInv

LEMMA CallStep == ASSUME IInv, NEW r \in Requests, Call(r) PROVE IInv'
  <1>1. PICK n \in Sequences \union {0} : att' = [att EXCEPT ![r] = [NewAttempt EXCEPT !.called = n]]
    BY DEF Call
  <1>2. n \in Nat
    BY DEF Sequences, Stored, IInv, NumberingTypeOK
  <1>3. att' \in [Requests -> AttemptType]
    BY <1>1, <1>2 DEF IInv, NumberingTypeOK, AttemptType, NewAttempt, Stages
  <1>4. /\ att'[r] = [NewAttempt EXCEPT !.called = n]
        /\ \A q \in Requests \ {r} : att'[q] = att[q]
    BY <1>1 DEF IInv, NumberingTypeOK
  <1> QED
    BY <1>1, <1>3, <1>4, ReadStep, NumberingAssumption DEF Call, NewAttempt, Reading

LEMMA ReadSequenceStep == ASSUME IInv, NEW r \in Requests, ReadSequence(r) PROVE IInv'
  <1>1. PICK n \in Sequences \union {0} :
          Highest(n, Sequences) /\ att' = [att EXCEPT ![r].seq = n + 1, ![r].at = "previous"]
    BY DEF ReadSequence
  <1>2. Sequences \subseteq Nat
    BY DEF Sequences, Stored, IInv, NumberingTypeOK, AttemptType
  <1>3. n \in Nat /\ n + 1 \in Nat
    BY <1>2
  <1> DEFINE new == [att[r] EXCEPT !.seq = n + 1, !.at = "previous"]
  <1>4. att' \in [Requests -> AttemptType]
    <2>1. att[r] \in AttemptType
      BY DEF IInv, NumberingTypeOK, AttemptType
    <2>2. new \in AttemptType
      BY <1>3, <2>1 DEF Stages, AttemptType
    <2>3. att' = [att EXCEPT ![r] = new]
      BY <1>1 DEF IInv, NumberingTypeOK, AttemptType
    <2> HIDE DEF new
    <2> QED
      BY <2>2, <2>3 DEF IInv, NumberingTypeOK, AttemptType
  <1>5. \A q \in Requests \ {r} : att'[q] = att[q]
    BY <1>1 DEF IInv, NumberingTypeOK, AttemptType
  <1>6. att'[r] = [att[r] EXCEPT !.seq = n + 1, !.at = "previous"]
    BY <1>1 DEF IInv, NumberingTypeOK, AttemptType
  <1>6a. /\ att'[r].at = "previous" /\ att'[r].seq = n + 1
         /\ att'[r].tries = att[r].tries /\ att'[r].called = att[r].called
    BY <1>6 DEF IInv, NumberingTypeOK, AttemptType
  <1>7. \A k \in 1..n : k \in Sequences
    <2>1. CASE n = 0
      BY <2>1
    <2>2. CASE n \in Sequences
      BY <2>2 DEF Sequences, IInv, NumberedInOrder
    <2> QED
      BY <1>1, <2>1, <2>2
  <1>8. /\ att[r].called \in Sequences \union {0}
        /\ \A k \in 1..att[r].tries : att[r].called + k \in Sequences
    BY DEF IInv, TriesLost
  <1>9. n + 1 > att[r].called + att[r].tries
    <2>1. att[r].called \in Nat /\ att[r].tries \in Nat
      BY DEF IInv, NumberingTypeOK, AttemptType
    <2>2. att[r].called + att[r].tries \in Sequences \union {0}
      BY <1>8, <2>1
    <2> QED
      BY <1>1, <1>3, <2>1, <2>2 DEF Highest
  <1>10. (n + 1) - 1 = n /\ n + 1 >= 1
    BY <1>3
  <1>11. att[r].at = "sequence" /\ UNCHANGED <<given, row>>
    BY DEF ReadSequence
  <1> QED
    BY <1>4, <1>5, <1>6a, <1>7, <1>8, <1>9, <1>10, <1>11, ReadStep

LEMMA ReadPreviousStep == ASSUME IInv, NEW r \in Requests, ReadPrevious(r) PROVE IInv'
  <1>1. att[r].at = "previous" /\ UNCHANGED <<given, row>>
    BY DEF ReadPrevious
  <1>2. /\ att[r].seq >= 1 /\ \A k \in 1..att[r].seq - 1 : k \in Sequences
        /\ att[r].seq > att[r].called + att[r].tries
        /\ att[r].called \in Sequences \union {0}
        /\ \A k \in 1..att[r].tries : att[r].called + k \in Sequences
    BY <1>1 DEF IInv, NumbersBelow, TriesLost, Reading
  <1>3. CASE Earlier(r) = {} /\ att' = [att EXCEPT ![r].at = "prompt"]
    <2>1. att' \in [Requests -> AttemptType]
      BY <1>3 DEF IInv, NumberingTypeOK, AttemptType, Stages
    <2>2. /\ \A q \in Requests \ {r} : att'[q] = att[q]
          /\ att'[r].at = "prompt" /\ att'[r].seq = att[r].seq
          /\ att'[r].tries = att[r].tries /\ att'[r].called = att[r].called
      BY <1>3 DEF IInv, NumberingTypeOK, AttemptType
    <2> QED
      BY <1>1, <1>2, <1>3, <2>1, <2>2, ReadStep
  <1>4. ASSUME NEW q \in Earlier(r),
               att' = [att EXCEPT ![r].at = "insert", ![r].prompt = row[q].prompt,
                                  ![r].active = PromptActive(r, att[r].seq, row[q].prompt)]
        PROVE  IInv'
    <2>1. q \in Requests /\ row[q].prompt \in Nat
      BY DEF Earlier, Stored, IInv, NumberingTypeOK, AttemptType
    <2> DEFINE new == [att[r] EXCEPT !.at = "insert", !.prompt = row[q].prompt,
                                     !.active = PromptActive(r, att[r].seq, row[q].prompt)]
    <2>2. att' \in [Requests -> AttemptType]
      <3>1. att[r] \in AttemptType /\ PromptActive(r, att[r].seq, row[q].prompt) \in BOOLEAN
        BY DEF IInv, NumberingTypeOK, PromptActive
      <3>2. new \in AttemptType
        BY <2>1, <3>1 DEF AttemptType, Stages
      <3>3. att' = [att EXCEPT ![r] = new]
        BY <1>4 DEF IInv, NumberingTypeOK
      <3> HIDE DEF new
      <3> QED
        BY <3>2, <3>3 DEF IInv, NumberingTypeOK
    <2>3. /\ \A p \in Requests \ {r} : att'[p] = att[p]
          /\ att'[r].at = "insert" /\ att'[r].seq = att[r].seq
          /\ att'[r].tries = att[r].tries /\ att'[r].called = att[r].called
          /\ att'[r].prompt = row[q].prompt
          /\ att'[r].active = PromptActive(r, att[r].seq, row[q].prompt)
      BY <1>4 DEF IInv, NumberingTypeOK, AttemptType
    <2> QED
      BY <1>1, <1>2, <2>2, <2>3, ReadStep
  <1> QED
    BY <1>3, <1>4 DEF ReadPrevious

LEMMA ReadPromptStep == ASSUME IInv, NEW r \in Requests, ReadPrompt(r) PROVE IInv'
  <1>1. att[r].at = "prompt" /\ UNCHANGED <<given, row>>
    BY DEF ReadPrompt
  <1>2. PICK n \in Prompts \union {0} :
          /\ Highest(n, Prompts)
          /\ att' = [att EXCEPT ![r].prompt = n + 1, ![r].at = "insert",
                                ![r].active = PromptActive(r, att[r].seq, n + 1)]
    BY DEF ReadPrompt
  <1>3. n \in Nat /\ n + 1 \in Nat
    BY DEF Prompts, Stored, IInv, NumberingTypeOK
  <1> DEFINE new == [att[r] EXCEPT !.prompt = n + 1, !.at = "insert",
                                   !.active = PromptActive(r, att[r].seq, n + 1)]
  <1>4. att' \in [Requests -> AttemptType]
    <2>1. att[r] \in AttemptType /\ PromptActive(r, att[r].seq, n + 1) \in BOOLEAN
      BY DEF IInv, NumberingTypeOK, PromptActive
    <2>2. new \in AttemptType
      BY <1>3, <2>1 DEF AttemptType, Stages
    <2>3. att' = [att EXCEPT ![r] = new]
      BY <1>2 DEF IInv, NumberingTypeOK
    <2> HIDE DEF new
    <2> QED
      BY <2>2, <2>3 DEF IInv, NumberingTypeOK
  <1>5. /\ \A p \in Requests \ {r} : att'[p] = att[p]
        /\ att'[r].at = "insert" /\ att'[r].seq = att[r].seq
        /\ att'[r].tries = att[r].tries /\ att'[r].called = att[r].called
        /\ att'[r].prompt = n + 1
        /\ att'[r].active = PromptActive(r, att[r].seq, n + 1)
    BY <1>2 DEF IInv, NumberingTypeOK, AttemptType
  <1>6. /\ att[r].seq >= 1 /\ \A k \in 1..att[r].seq - 1 : k \in Sequences
        /\ att[r].seq > att[r].called + att[r].tries
        /\ att[r].called \in Sequences \union {0}
        /\ \A k \in 1..att[r].tries : att[r].called + k \in Sequences
        /\ att[r].seq \notin Sequences => Earlier(r) = {}
    BY <1>1 DEF IInv, NumbersBelow, TriesLost, NoneEarlier, Reading, Current
  <1> QED
    BY <1>1, <1>2, <1>4, <1>5, <1>6, ReadStep

LEMMA ConflictStep == ASSUME IInv, NEW r \in Requests, Conflict(r) PROVE IInv'
  <1>1. att[r].at = "insert" /\ att[r].seq \in Sequences /\ UNCHANGED <<given, row>>
    BY DEF Conflict
  <1>2. /\ att[r] \in AttemptType
        /\ att[r].tries \in Nat /\ att[r].seq \in Nat /\ att[r].called \in Nat
        /\ att[r].seq > att[r].called + att[r].tries
    BY <1>1 DEF IInv, NumberingTypeOK, AttemptType, TriesLost, Reading
  <1> DEFINE next == IF att[r].tries + 1 = Tries THEN "failed" ELSE "sequence"
  <1> DEFINE new == [att[r] EXCEPT !.seq = 0, !.prompt = 0, !.tries = att[r].tries + 1, !.at = next]
  <1>3. att' \in [Requests -> AttemptType]
    <2>1. new \in AttemptType
      <3>1. next \in Stages /\ att[r].tries + 1 \in Nat
        BY <1>2 DEF Stages
      <3> HIDE DEF next
      <3> QED
        BY <1>2, <3>1 DEF AttemptType
    <2>2. att' = [att EXCEPT ![r] = new]
      BY DEF Conflict
    <2> HIDE DEF new
    <2> QED
      BY <2>1, <2>2 DEF IInv, NumberingTypeOK
  <1>4. /\ \A p \in Requests \ {r} : att'[p] = att[p]
        /\ att'[r].at = next /\ att'[r].tries = att[r].tries + 1 /\ att'[r].called = att[r].called
    BY <1>2 DEF Conflict, IInv, NumberingTypeOK, AttemptType
  <1>5. PICK q \in Stored : row[q].seq = att[r].seq
    BY <1>1 DEF Sequences
  <1>6. /\ att[r].called \in Sequences \union {0}
        /\ \A k \in 1..att[r].tries : att[r].called + k \in Sequences
    BY DEF IInv, TriesLost
  <1>7. \A k \in 1..att[r].tries + 1 : att[r].called + k \in Sequences
    <2> SUFFICES ASSUME NEW k \in 1..att[r].tries + 1 PROVE att[r].called + k \in Sequences
      OBVIOUS
    <2>1. att[r].called + k \in 1..row[q].seq
      BY <1>2, <1>5
    <2> QED
      BY <2>1 DEF IInv, NumberedInOrder
  <1>8. next \in {"failed", "sequence"} /\ (next = "failed" => att[r].tries + 1 = Tries)
    OBVIOUS
  <1> QED
    BY <1>1, <1>3, <1>4, <1>6, <1>7, <1>8, ReadStep DEF Reading

LEMMA VanishStep == ASSUME IInv, NEW r \in Requests, Vanish(r) PROVE IInv'
  <1>1. UNCHANGED <<given, row>> /\ att[r].at # "reserved"
    BY DEF Vanish
  <1>2. att' \in [Requests -> AttemptType]
    BY DEF Vanish, IInv, NumberingTypeOK, AttemptType, Stages
  <1>3. /\ \A p \in Requests \ {r} : att'[p] = att[p]
        /\ att'[r].at = "gone" /\ att'[r].tries = att[r].tries /\ att'[r].called = att[r].called
    BY DEF Vanish, IInv, NumberingTypeOK, AttemptType
  <1>4. /\ att[r].called \in Sequences \union {0}
        /\ \A k \in 1..att[r].tries : att[r].called + k \in Sequences
    BY DEF IInv, TriesLost
  <1> QED
    BY <1>1, <1>2, <1>3, <1>4, ReadStep DEF Reading
-----------------------------------------------------------------------------
\* Two attempts whose number is free read the same number: each finds all
\* smaller numbers taken.
LEMMA FreeNumbersAgree ==
  ASSUME IInv, NEW r \in Requests, NEW q \in Requests,
         Reading(r), Reading(q), Current(r), Current(q)
  PROVE  att[r].seq = att[q].seq
  <1>1. att[r].seq \in Nat /\ att[q].seq \in Nat
    BY DEF IInv, NumberingTypeOK, AttemptType
  <1>2. ~(att[r].seq < att[q].seq)
    BY <1>1 DEF IInv, NumbersBelow, Current
  <1>3. ~(att[q].seq < att[r].seq)
    BY <1>1 DEF IInv, NumbersBelow, Current
  <1> QED
    BY <1>1, <1>2, <1>3

\* Insert: the number is free, so what r read is current, and r's row keeps
\* the rows in order.  Every other free number was r's and is free no more.
LEMMA InsertStep == ASSUME IInv, NEW r \in Requests, Insert(r) PROVE IInv'
  <1> DEFINE n == att[r].seq
             p == att[r].prompt
  <1>1. /\ att[r].at = "insert" /\ n \notin Sequences
        /\ UNCHANGED given
    BY DEF Insert
  <1>2. Reading(r) /\ Current(r)
    BY <1>1 DEF Reading, Current
  <1>3. n \in Nat /\ p \in Nat /\ n >= 1 /\ \A k \in 1..n - 1 : k \in Sequences
    BY <1>2 DEF IInv, NumberingTypeOK, AttemptType, NumbersBelow
  <1>4. r \notin Stored
    BY <1>1 DEF IInv, RowsOfReserved, Stored, NoRow
  <1>5. /\ row'[r].seq = n /\ row'[r].prompt = p
        /\ row'[r].active = PromptActive(r, n, p)
        /\ \A q \in Requests \ {r} : row'[q] = row[q]
        /\ att'[r].at = "reserved" /\ att'[r].tries = att[r].tries /\ att'[r].called = att[r].called
        /\ \A q \in Requests \ {r} : att'[q] = att[q]
    BY <1>1 DEF Insert, IInv, NumberingTypeOK, AttemptType, Decided
  <1>6. Stored' = Stored \union {r}
    BY <1>3, <1>5 DEF Stored
  <1>7. Sequences' = Sequences \union {n}
    BY <1>4, <1>5, <1>6 DEF Sequences, Stored
  <1>8. Prompts' = Prompts \union {p}
    BY <1>4, <1>5, <1>6 DEF Prompts, Stored
  <1>9. Stored \subseteq Requests
    BY DEF Stored
  <1>10. NumberingTypeOK'
    <2>2. [seq |-> n, prompt |-> p, active |-> att[r].active] \in [seq : Nat, prompt : Nat, active : BOOLEAN]
      BY <1>3 DEF IInv, NumberingTypeOK, AttemptType
    <2>3. row' \in [Requests -> [seq : Nat, prompt : Nat, active : BOOLEAN]]
      BY <2>2 DEF Insert, IInv, NumberingTypeOK, AttemptType
    <2>4. att' \in [Requests -> AttemptType]
      BY DEF Insert, IInv, NumberingTypeOK, AttemptType, Stages
    <2> QED
      BY <1>1, <2>3, <2>4 DEF IInv, NumberingTypeOK, given
  <1>11. NumberedInOrder'
    <2>1. \A q \in Stored : row[q].seq # n
      BY <1>1 DEF Sequences
    <2>2. ASSUME NEW a \in Stored', NEW b \in Stored', row'[a].seq = row'[b].seq
          PROVE  a = b
      BY <1>4, <1>5, <1>6, <1>9, <2>1, <2>2 DEF IInv, NumberedInOrder
    <2>3. ASSUME NEW a \in Stored', NEW k \in 1..row'[a].seq
          PROVE  k \in Sequences'
      <3>1. CASE a = r
        BY <1>3, <1>5, <1>7, <2>3, <3>1
      <3>2. CASE a # r
        BY <1>5, <1>6, <1>7, <1>9, <2>3, <3>2 DEF IInv, NumberedInOrder
      <3> QED
        BY <3>1, <3>2
    <2> QED
      BY <2>2, <2>3 DEF NumberedInOrder
  <1>12. \/ \E q \in Earlier(r) : p = row[q].prompt
         \/ Earlier(r) = {} /\ \E m \in Prompts \union {0} : Highest(m, Prompts) /\ p = m + 1
    BY <1>1, <1>2 DEF IInv, PromptRead
  <1>13. \A q \in Stored : row[q].prompt \in Nat /\ row[q].prompt >= 1
    BY <1>9 DEF IInv, NumberingTypeOK, AttemptType, PromptsWithoutGaps
  <1>14. \A q \in Stored :
           row[q].prompt = p <=> (message[q] = message[r] /\ message[r] # NoMessage)
    <2>1. ASSUME NEW e \in Earlier(r), p = row[e].prompt, NEW q \in Stored
          PROVE  row[q].prompt = p <=> (message[q] = message[r] /\ message[r] # NoMessage)
      BY <2>1 DEF Earlier, IInv, OnePromptPerMessage
    <2>2. ASSUME Earlier(r) = {}, NEW m \in Prompts \union {0}, Highest(m, Prompts), p = m + 1,
                 NEW q \in Stored
          PROVE  row[q].prompt = p <=> (message[q] = message[r] /\ message[r] # NoMessage)
      <3>1. row[q].prompt \in Prompts
        BY DEF Prompts
      <3>2. m \in Nat
        BY <1>13 DEF Prompts
      <3>3. row[q].prompt # p
        BY <1>13, <2>2, <3>1, <3>2 DEF Highest
      <3> QED
        BY <2>2, <3>3 DEF Earlier
    <2> QED
      BY <1>12, <2>1, <2>2
  <1>15. OnePromptPerMessage'
    <2> SUFFICES ASSUME NEW a \in Stored', NEW b \in Stored'
                 PROVE  row'[a].prompt = row'[b].prompt
                          <=> (a = b \/ (message[a] = message[b] /\ message[a] # NoMessage))
      BY <1>1 DEF OnePromptPerMessage, given
    <2>1. CASE a = r /\ b = r
      BY <2>1
    <2>2. CASE a = r /\ b # r
      BY <1>5, <1>6, <1>9, <1>14, <2>2
    <2>3. CASE a # r /\ b = r
      BY <1>5, <1>6, <1>9, <1>14, <2>3
    <2>4. CASE a # r /\ b # r
      BY <1>5, <1>6, <1>9, <2>4 DEF IInv, OnePromptPerMessage
    <2> QED
      BY <2>1, <2>2, <2>3, <2>4
  <1>16. PromptsWithoutGaps'
    <2>1. p >= 1 /\ \A k \in 1..p : k \in Prompts \union {p}
      <3>1. ASSUME NEW e \in Earlier(r), p = row[e].prompt
            PROVE  p >= 1 /\ \A k \in 1..p : k \in Prompts
        BY <3>1 DEF Earlier, IInv, PromptsWithoutGaps
      <3>2. ASSUME NEW m \in Prompts \union {0}, p = m + 1
            PROVE  p >= 1 /\ \A k \in 1..p : k \in Prompts \union {p}
        <4>1. m \in Nat
          BY <1>13 DEF Prompts
        <4>2. \A k \in 1..m : k \in Prompts
          <5>1. CASE m = 0
            BY <5>1
          <5>2. CASE m \in Prompts
            BY <5>2 DEF Prompts, IInv, PromptsWithoutGaps
          <5> QED
            BY <5>1, <5>2
        <4>3. \A k \in 1..m + 1 : k \in 1..m \/ k = m + 1
          BY <4>1
        <4> QED
          BY <3>2, <4>1, <4>2, <4>3
      <3> QED
        BY <1>12, <3>1, <3>2
    <2> SUFFICES ASSUME NEW a \in Stored'
                 PROVE  row'[a].prompt >= 1 /\ \A k \in 1..row'[a].prompt : k \in Prompts \union {p}
      BY <1>8 DEF PromptsWithoutGaps
    <2>2. CASE a = r
      BY <1>5, <2>1, <2>2
    <2>3. CASE a # r
      BY <1>5, <1>6, <1>9, <2>3 DEF IInv, PromptsWithoutGaps
    <2> QED
      BY <2>2, <2>3
  <1>17. RowsActive'
    <2> SUFFICES ASSUME NEW a \in Stored'
                 PROVE  row'[a].active = PromptActive(a, row'[a].seq, row'[a].prompt)
      BY <1>1 DEF RowsActive, PromptActive, given
    <2>1. CASE a = r
      BY <1>5, <2>1
    <2>2. CASE a # r
      BY <1>5, <1>6, <1>9, <2>2 DEF IInv, RowsActive
    <2> QED
      BY <2>1, <2>2
  <1>18. NumbersBelow'
    BY <1>5, <1>7 DEF IInv, NumbersBelow, Reading
  <1>19. ASSUME NEW q \in Requests, Reading(q)'
         PROVE  att'[q].seq \in Sequences'
    <2>1. q # r /\ att'[q] = att[q]
      BY <1>5, <1>19 DEF Reading
    <2>2. Reading(q)
      BY <1>19, <2>1 DEF Reading
    <2>3. CASE Current(q)
      BY <1>2, <1>7, <2>1, <2>2, <2>3, FreeNumbersAgree
    <2>4. CASE ~Current(q)
      BY <1>7, <2>1, <2>4 DEF Current
    <2> QED
      BY <2>3, <2>4
  <1>20. NoneEarlier' /\ PromptRead'
    BY <1>19 DEF NoneEarlier, PromptRead, Current, Reading
  <1>21. RowsOfReserved'
    BY <1>5 DEF IInv, RowsOfReserved
  <1>22. TriesLost'
    <2> SUFFICES ASSUME NEW q \in Requests
                 PROVE  /\ att'[q].called \in Sequences' \union {0}
                        /\ \A k \in 1..att'[q].tries : att'[q].called + k \in Sequences'
                        /\ Reading(q)' => att'[q].seq > att'[q].called + att'[q].tries
                        /\ att'[q].at = "failed" => att'[q].tries = Tries
      BY DEF TriesLost
    <2>1. att'[q].tries = att[q].tries /\ att'[q].called = att[q].called
      BY <1>5
    <2>2. /\ att'[q].called \in Sequences' \union {0}
          /\ \A k \in 1..att'[q].tries : att'[q].called + k \in Sequences'
      BY <1>7, <2>1 DEF IInv, TriesLost
    <2>3. Reading(q)' => att'[q].seq > att'[q].called + att'[q].tries
      BY <1>5 DEF IInv, TriesLost, Reading
    <2>4. att'[q].at = "failed" => att'[q].tries = Tries
      BY <1>5 DEF IInv, TriesLost
    <2> QED
      BY <2>2, <2>3, <2>4
  <1>23. Decided'
    <2> SUFFICES ASSUME NEW q \in Requests, att'[q].at = "insert"
                 PROVE  att'[q].active = PromptActive(q, att'[q].seq, att'[q].prompt)
      BY <1>1 DEF Decided, PromptActive, given
    <2> QED
      BY <1>5 DEF IInv, Decided
  <1> QED
    BY <1>10, <1>11, <1>15, <1>16, <1>17, <1>18, <1>20, <1>21, <1>22, <1>23 DEF IInv

\* The invariant is inductive.
LEMMA NextIInv == ASSUME IInv, [NumberingNext]_numberingVars PROVE IInv'
  <1>1. ASSUME NEW r \in Requests, Call(r) \/ Reserve(r)
        PROVE  IInv'
    BY <1>1, CallStep, ReadSequenceStep, ReadPreviousStep, ReadPromptStep, InsertStep,
       ConflictStep, VanishStep DEF Reserve
  <1>2. CASE UNCHANGED numberingVars
    <2>1. UNCHANGED <<given, row, att>>
      BY <1>2 DEF numberingVars, given
    <2>2. /\ Stored' = Stored /\ Sequences' = Sequences /\ Prompts' = Prompts
          /\ \A r \in Requests : Earlier(r)' = Earlier(r)
          /\ NumberedInOrder' /\ OnePromptPerMessage' /\ PromptsWithoutGaps' /\ RowsActive'
      BY <2>1, RowsUnchanged
    <2>3. NumberingTypeOK' /\ RowsOfReserved' /\ Decided'
      BY <2>1 DEF IInv, NumberingTypeOK, RowsOfReserved, Decided, PromptActive, given
    <2>4. NumbersBelow' /\ NoneEarlier' /\ TriesLost'
      BY <2>1, <2>2 DEF IInv, NumbersBelow, NoneEarlier, TriesLost, Reading, Current
    <2>5. PromptRead'
      BY <2>1, <2>2 DEF IInv, PromptRead, Current, Highest
    <2> QED
      BY <2>2, <2>3, <2>4, <2>5 DEF IInv
  <1> QED
    BY <1>1, <1>2 DEF NumberingNext

LEMMA Invariance == NumberingSpec => []IInv
  BY InitIInv, NextIInv, PTL DEF NumberingSpec

-----------------------------------------------------------------------------
\* The unlocked max + 1 of prepare_request numbers the requests of a session
\* 1, 2, ... whatever their number and wherever they are interrupted.
THEOREM RequestsNumbered == NumberingSpec => [](NumberingTypeOK /\ NumberedInOrder)
  <1>1. IInv => NumberingTypeOK /\ NumberedInOrder
    BY DEF IInv
  <1> QED
    BY <1>1, Invariance, PTL

\* Prompt numbers, which no key protects, are those of the messages and have
\* no gaps.
THEOREM PromptsNumbered == NumberingSpec => [](OnePromptPerMessage /\ PromptsWithoutGaps)
  <1>1. IInv => OnePromptPerMessage /\ PromptsWithoutGaps
    BY DEF IInv
  <1> QED
    BY <1>1, Invariance, PTL

\* Every refusal was somebody else's success: a request that is given up saw as
\* many other requests numbered since it was called as it has tries.
THEOREM FailuresExplained == NumberingSpec => []FailsOnlyWhenCrowded
  <1>1. IInv => FailsOnlyWhenCrowded
    BY NumberingAssumption DEF IInv, TriesLost, FailsOnlyWhenCrowded
  <1> QED
    BY <1>1, Invariance, PTL

\* The stored decision to add the instruction is that of the rule, the scope and
\* the draw for the numbers it is stored with, whatever was decided and refused
\* before.
THEOREM InstructionsPlaced == NumberingSpec => []InjectedAsRuled
  <1>1. ASSUME IInv PROVE InjectedAsRuled
    <2>1. ASSUME NEW r \in Stored
          PROVE  row[r].active <=> /\ rule.enabled
                                   /\ rule.scope = "ALL_TASKS" \/ item[r] \in rule.items
                                   /\ row[r].seq \in drawn
                                   /\ CadenceMatches(rule, row[r].seq, row[r].prompt)
      BY <1>1 DEF IInv, RowsActive, PromptActive, ScopeMatches
    <2>2. ASSUME rule.mode = "FIRST_REQUEST", NEW r \in Stored, NEW q \in Stored,
                 row[r].active, row[q].active
          PROVE  r = q
      <3>1. row[r].seq = 1 /\ row[q].seq = 1
        BY <2>1, <2>2 DEF CadenceMatches
      <3> QED
        BY <1>1, <3>1 DEF IInv, NumberedInOrder
    <2>3. ASSUME rule.mode # "FIRST_REQUEST", NEW r \in Stored, NEW q \in Stored,
                 message[r] = message[q], message[r] # NoMessage,
                 item[r] = item[q], {row[r].seq, row[q].seq} \subseteq drawn
          PROVE  row[r].active = row[q].active
      <3>1. row[r].prompt = row[q].prompt
        BY <1>1, <2>3 DEF IInv, OnePromptPerMessage
      <3>2. CadenceMatches(rule, row[r].seq, row[r].prompt)
              <=> CadenceMatches(rule, row[q].seq, row[q].prompt)
        BY <2>3, <3>1 DEF CadenceMatches
      <3>3. row[r].active \in BOOLEAN /\ row[q].active \in BOOLEAN
        BY <1>1 DEF IInv, NumberingTypeOK, Stored
      <3>4. row[r].active <=> row[q].active
        BY <2>1, <2>3, <3>2
      <3> QED
        BY <3>3, <3>4
    <2> QED
      BY <2>1, <2>2, <2>3 DEF InjectedAsRuled
  <1> QED
    BY <1>1, Invariance, PTL

-----------------------------------------------------------------------------
(***************************************************************************)
(* The warnings.  The check of a prompt, its number and the                *)
(* acknowledgement are separate transactions.  That nothing passes between *)
(* them rests on the numbering: while a message is being numbered no other *)
(* message is (the participant waits), so that the number its request gets *)
(* is the one after the prompts that its check counted, or that of the     *)
(* message itself.                                                         *)
(***************************************************************************)
\* A request is busy from its check until its number is reserved or given up.
Active == {"sequence", "previous", "prompt", "insert"}
Busy(r) == work[r].op # "idle" \/ att[r].at \in Active

\* Which handler can be at which step.
WorkShape ==
  /\ issued > 0 => stored
  /\ \A p \in Callers :
       /\ work[p].op = "idle" <=> work[p].at = "idle"
       /\ work[p].at \in {"loaded", "reload", "payload"} => stored
       /\ work[p].at = "create" => fresh
       /\ work[p].at \in {"reload", "payload"} => work[p].op = "activity"
       /\ work[p].op \in {"display", "acknowledge"} => work[p].at = "loaded" /\ work[p].token # 0
       /\ p \in Requests => work[p].op \in {"idle", "gate"}

\* Whoever reports that a warning was shown or acknowledged holds the row; and
\* when the row existed beforehand, so does everyone who loaded it.
RowHeld ==
  RowLocks => \A p \in Callers :
    /\ work[p].op \in {"display", "acknowledge"} => lock = p
    /\ ~fresh /\ work[p].at \in {"loaded", "payload"} => lock = p
    /\ ~fresh /\ work[p].at = "loaded" => work[p].view = warn

\* The log does not have what the row, as it is or as its holder loaded it,
\* says is still to be logged.
NotYetLogged(v) ==
  \A i \in DOMAIN journal : journal[i].token = v.token =>
    journal[i].type = "displayed" /\ v.displayed
LogAgrees ==
  RowLocks =>
    /\ \A i \in DOMAIN journal : journal[i].token \in 1..issued
    /\ \A i, j \in DOMAIN journal :
         journal[i].token = journal[j].token /\ journal[i].type = journal[j].type => i = j
    /\ NotYetLogged(warn)
    /\ \A p \in Callers : work[p].op \in {"display", "acknowledge"} => NotYetLogged(work[p].view)

\* What a row remembers as its last trigger was acknowledged.
LastAcknowledged ==
  warning.must_acknowledge =>
    /\ warn.last # NoTrigger => warn.last \in Acknowledged
    /\ \A p \in Callers : work[p].view.last # NoTrigger => work[p].view.last \in Acknowledged

\* The prompts that are numbered at one time belong to one message, and one
\* that will get the next number has nothing left to acknowledge.
OneMessage ==
  OneChat => \A r, q \in Requests : r # q /\ Busy(r) /\ Busy(q) =>
    message[r] = message[q] /\ message[r] # NoMessage
Admitted ==
  OneChat /\ warning.must_acknowledge => \A r \in Requests :
    att[r].at \in Active /\ Earlier(r) = {} => DueBefore(PromptCount + 1) \subseteq Acknowledged

Counted == \E n \in Prompts \union {0} : Highest(n, Prompts)

WarningInv ==
  /\ IInv /\ TypeOK /\ WorkShape /\ RowHeld /\ LogAgrees /\ LastAcknowledged /\ OneMessage /\ Admitted /\ Counted
  /\ OneChat => NoPromptUnwarned
  /\ RowLocks => ActivityCounted

------------------------------------------------------------------------------
(***************************************************************************)
(* What the step of a handler leaves as it was.                            *)
(***************************************************************************)

\* The requests are numbered as RequestNumbering says.
LEMMA NumbersAsBefore == Next => [NumberingNext]_numberingVars
  <1> SUFFICES ASSUME Next PROVE [NumberingNext]_numberingVars
    OBVIOUS
  <1>1. ASSUME NEW p \in Callers, Arrive(p) PROVE UNCHANGED numberingVars
    BY <1>1 DEF Arrive, Load
  <1>2. ASSUME NEW p \in Callers, Handle(p) PROVE [NumberingNext]_numberingVars
    <2>1. ASSUME NEW token, Answer(p, token) PROVE [NumberingNext]_numberingVars
      BY <2>1 DEF Answer, NumberingNext, Callers
    <2>2. CASE Payload(p)
      BY <2>1, <2>2 DEF Payload
    <2> QED
      BY <1>2, <2>2 DEF Handle, Create, AddActivity, Reload, Display, Acknowledge, Finish
  <1>3. ASSUME NEW r \in Requests, NumberRequest(r) PROVE NumberingNext
    BY <1>3 DEF NumberRequest, NumberingNext
  <1> QED
    BY <1>1, <1>2, <1>3 DEF Next

LEMMA SameNumbers ==
  ASSUME UNCHANGED numberingVars
  PROVE  /\ UNCHANGED <<given, row, att>>
         /\ Stored' = Stored /\ Prompts' = Prompts /\ PromptCount' = PromptCount
         /\ \A r \in Requests : Earlier(r)' = Earlier(r)
  <1>1. UNCHANGED <<given, row, att>>
    BY DEF numberingVars, given
  <1>2. Stored' = Stored
    BY <1>1 DEF Stored
  <1>3. Prompts' = Prompts
    BY <1>1, <1>2 DEF Prompts
  <1>4. PromptCount' = PromptCount
    BY <1>3 DEF PromptCount, Highest
  <1>5. \A r \in Requests : Earlier(r)' = Earlier(r)
    BY <1>1, <1>2 DEF Earlier, given
  <1> QED
    BY <1>1, <1>2, <1>3, <1>4, <1>5

\* What an acknowledgement may add changes nothing for prompts that are numbered.
LEMMA PromptsStay ==
  ASSUME WarningInv, UNCHANGED numberingVars, warning' = warning, Acknowledged \subseteq Acknowledged'
  PROVE  /\ Admitted' /\ Counted' /\ (OneChat => NoPromptUnwarned)'
  <1>1. /\ UNCHANGED <<given, row, att>>
        /\ Stored' = Stored /\ Prompts' = Prompts /\ PromptCount' = PromptCount
        /\ \A r \in Requests : Earlier(r)' = Earlier(r)
    BY SameNumbers
  <1>2. \A n : DueBefore(n)' = DueBefore(n)
    BY DEF DueBefore
  <1>3. Admitted'
    <2>1. DueBefore(PromptCount + 1)' = DueBefore(PromptCount + 1)
      BY <1>1 DEF DueBefore
    <2> QED
      BY <1>1, <2>1 DEF WarningInv, Admitted
  <1>4. Counted'
    BY <1>1 DEF WarningInv, Counted, Highest
  <1>5. (OneChat => NoPromptUnwarned)'
    <2> SUFFICES ASSUME OneChat, warning.must_acknowledge, NEW r \in Stored
                 PROVE  DueBefore(row[r].prompt)' \subseteq Acknowledged'
      BY <1>1 DEF NoPromptUnwarned
    <2>1. DueBefore(row[r].prompt)' = DueBefore(row[r].prompt)
      BY <1>1 DEF DueBefore
    <2> QED
      BY <2>1 DEF WarningInv, NoPromptUnwarned
  <1> QED
    BY <1>3, <1>4, <1>5

LEMMA SameLog ==
  ASSUME journal' = journal
  PROVE  Acknowledged' = Acknowledged /\ \A v : NotYetLogged(v)' = NotYetLogged(v)
  BY DEF Acknowledged, NotYetLogged

\* Types of what is read.
LEMMA Types ==
  ASSUME WarningInv
  PROVE  /\ NumberingTypeOK /\ warning \in CadenceType /\ warn \in WarningStateType
         /\ work \in [Callers -> WorkType] /\ \A p \in Callers : work[p] \in WorkType
         /\ \A p \in Callers : work[p].view \in WarningStateType /\ work[p].token \in Nat
         /\ issued \in 0..MaxTokens /\ MaxTokens \in Nat /\ issued \in Nat
         /\ modal \in [Tabs -> 0..issued]
         /\ warn.token <= issued /\ reported \in Nat /\ journal \in Seq(EntryType)
         /\ \A p \in Callers : work[p].token <= issued /\ work[p].view.token <= issued
         /\ lock \in Callers \union {"free"} /\ "free" \notin Callers
         /\ NewWarningState \in WarningStateType /\ Idle \in WorkType /\ Idle.op = "idle" /\ Idle.at = "idle"
         /\ Idle.token = 0 /\ Idle.view.token = 0 /\ Idle.view.last = NoTrigger
  <1>1. NoTrigger \in TriggerType
    BY DEF NoTrigger, TriggerType
  <1>2. NewWarningState \in WarningStateType
    BY <1>1 DEF NewWarningState, WarningStateType
  <1>3. Idle \in WorkType /\ Idle.op = "idle" /\ Idle.at = "idle"
        /\ Idle.token = 0 /\ Idle.view.token = 0 /\ Idle.view.last = NoTrigger
    BY <1>2 DEF Idle, WorkType, NewWarningState
  <1>4. /\ NumberingTypeOK /\ warning \in Cadences /\ warn \in WarningStateType
        /\ work \in [Callers -> WorkType]
        /\ issued \in 0..MaxTokens /\ modal \in [Tabs -> 0..issued]
        /\ warn.token <= issued /\ reported \in Nat /\ journal \in Seq(EntryType)
        /\ \A p \in Callers : work[p].token <= issued /\ work[p].view.token <= issued
        /\ lock \in Callers \union {"free"}
    BY DEF WarningInv, TypeOK
  <1>5. \A p \in Callers : work[p] \in WorkType /\ work[p].view \in WarningStateType /\ work[p].token \in Nat
    BY <1>4 DEF WorkType
  <1> QED
    BY <1>2, <1>3, <1>4, <1>5, WarningAssumption DEF Callers


------------------------------------------------------------------------------
(***************************************************************************)
(* The handlers.                                                           *)
(***************************************************************************)

\* A caller that holds the row is alone with it.
LEMMA Alone ==
  ASSUME WarningInv, RowLocks, NEW p \in Callers, lock \in {p, "free"}, NEW q \in Callers \ {p}
  PROVE  /\ work[q].op \notin {"display", "acknowledge"}
         /\ ~fresh => work[q].at \notin {"loaded", "payload"}
  <1>1. lock # q
    BY Types
  <1> QED
    BY <1>1 DEF WarningInv, RowHeld

\* The two parts of the invariant that look at the requests, when a step is p's.
LEMMA BusyStays ==
  ASSUME WarningInv, UNCHANGED <<message, att>>, NEW p \in Callers,
         \A q \in Callers \ {p} : work'[q] = work[q],
         p \in Requests => (work'[p].op # "idle" => Busy(p))
  PROVE  OneMessage'
  <1>1. \A r \in Requests : Busy(r)' => Busy(r)
    BY DEF Busy, Callers
  <1> QED
    BY <1>1 DEF WarningInv, OneMessage

LEMMA LoadStep ==
  ASSUME WarningInv, IInv', NEW p \in Callers, NEW op, NEW token \in 0..issued, Load(p, op, token)
  PROVE  WarningInv'
  <1> DEFINE w == [op |-> op, at |-> IF stored THEN "loaded" ELSE "create", token |-> token, view |-> warn]
  <1>1. /\ work[p].op = "idle" /\ MayCall(p, op, token) /\ (stored => Lockable)
        /\ work' = [work EXCEPT ![p] = w] /\ lock' = IF stored THEN Locked(p) ELSE lock
        /\ UNCHANGED <<numberingVars, warning, fresh, stored, warn, modal, issued, reported, journal>>
    BY DEF Load
  <1>2. /\ op \in {"poll", "activity", "display", "acknowledge", "gate"}
        /\ op \in {"display", "acknowledge"} => token # 0 /\ stored
        /\ p \in Requests => op = "gate" /\ MaySend(p)
    <2>1. op \in {"display", "acknowledge"} => token # 0 /\ p \in Tabs
      BY <1>1 DEF MayCall
    <2>2. token # 0 => stored
      BY Types DEF WarningInv, WorkShape
    <2>3. p \in Requests => p \notin Tabs
      BY WarningAssumption
    <2> QED
      BY <1>1, <2>1, <2>2, <2>3 DEF MayCall
  <1>3. /\ w \in WorkType /\ w.op = op /\ w.token = token /\ w.view = warn
        /\ w.at = (IF stored THEN "loaded" ELSE "create")
    BY <1>2, Types DEF WorkType
  <1> HIDE DEF w
  <1>4. work' \in [Callers -> WorkType] /\ work'[p] = w /\ \A q \in Callers \ {p} : work'[q] = work[q]
    BY <1>1, <1>3, Types
  <1>5. TypeOK'
    <2>1. lock' \in Callers \union {"free"}
      BY <1>1, Types DEF Locked
    <2>2. \A q \in Callers : work'[q].token <= issued /\ work'[q].view.token <= issued
      <3>1. w.token <= issued /\ w.view.token <= issued
        BY <1>3, Types
      <3> QED
        BY <1>4, <3>1, Types
    <2>3. NumberingTypeOK'
      BY DEF IInv
    <2> QED
      BY <1>1, <1>4, <2>1, <2>2, <2>3 DEF WarningInv, TypeOK
  <1>6. WorkShape'
    BY <1>1, <1>2, <1>3, <1>4 DEF WarningInv, WorkShape, TypeOK
  <1>7. RowHeld'
    <2> SUFFICES ASSUME RowLocks, NEW q \in Callers
                 PROVE  /\ work'[q].op \in {"display", "acknowledge"} => lock' = q
                        /\ ~fresh /\ work'[q].at \in {"loaded", "payload"} => lock' = q
                        /\ ~fresh /\ work'[q].at = "loaded" => work'[q].view = warn
      BY <1>1 DEF RowHeld
    <2>1. CASE q = p
      BY <1>1, <1>2, <1>3, <1>4, <2>1 DEF Locked, WarningInv, TypeOK
    <2>2. CASE q # p
      <3>1. CASE stored
        BY <1>1, <1>4, <2>2, <3>1, Alone DEF Lockable
      <3>2. CASE ~stored
        BY <1>1, <1>4, <2>2, <3>2 DEF WarningInv, RowHeld
      <3> QED
        BY <3>1, <3>2
    <2> QED
      BY <2>1, <2>2
  <1>8. LogAgrees'
    <2>1. NotYetLogged(warn)' = NotYetLogged(warn)
      BY <1>1 DEF NotYetLogged
    <2>2. \A q \in Callers : NotYetLogged(work[q].view) /\ work'[q] = work[q] => NotYetLogged(work[q].view)'
      BY <1>1 DEF NotYetLogged
    <2>3. NotYetLogged(warn) => NotYetLogged(work[p].view)'
      BY <1>1, <1>3, <1>4 DEF NotYetLogged
    <2> QED
      BY <1>1, <1>4, <2>1, <2>2, <2>3 DEF WarningInv, LogAgrees
  <1>9. LastAcknowledged'
    BY <1>1, <1>3, <1>4, SameLog DEF WarningInv, LastAcknowledged
  <1>10. OneMessage'
    <2> SUFFICES ASSUME OneChat, NEW r \in Requests, NEW q \in Requests, r # q, Busy(r)', Busy(q)'
                 PROVE  message'[r] = message'[q] /\ message'[r] # NoMessage
      BY DEF OneMessage
    <2>1. UNCHANGED <<message, att>>
      BY <1>1 DEF numberingVars, given
    <2>2. \A t \in Requests \ {p} : Busy(t)' => Busy(t)
      BY <1>4, <2>1 DEF Busy, Callers
    <2>3. \A t \in Requests \ {p} : p \in Requests /\ Busy(t) =>
             message[t] = message[p] /\ message[p] # NoMessage
      BY <1>2 DEF MaySend, Busy, Active
    <2> QED
      BY <2>1, <2>2, <2>3 DEF WarningInv, OneMessage
  <1>11. Admitted' /\ Counted' /\ (OneChat => NoPromptUnwarned)'
    BY <1>1, SameLog, PromptsStay
  <1>12. (RowLocks => ActivityCounted)'
    BY <1>1 DEF WarningInv, ActivityCounted
  <1> QED
    BY <1>5, <1>6, <1>7, <1>8, <1>9, <1>10, <1>11, <1>12 DEF WarningInv

LEMMA CreateStep == ASSUME WarningInv, IInv', NEW p \in Callers, Create(p) PROVE WarningInv'
  <1>1. /\ work[p].at = "create" /\ stored' = TRUE
        /\ work' = [work EXCEPT ![p].at = "loaded", ![p].view = warn]
        /\ UNCHANGED <<numberingVars, warning, fresh, warn, lock, modal, issued, reported, journal>>
    BY DEF Create
  <1>2. /\ work'[p] = [work[p] EXCEPT !.at = "loaded", !.view = warn]
        /\ \A q \in Callers \ {p} : work'[q] = work[q]
    BY <1>1, Types
  <1>3. /\ work'[p] \in WorkType /\ work'[p].op = work[p].op /\ work'[p].token = work[p].token
        /\ work'[p].view = warn /\ work'[p].at = "loaded"
        /\ work' \in [Callers -> WorkType]
    <2>1. work \in [Callers -> WorkType] /\ work[p] \in WorkType /\ warn \in WarningStateType
      BY Types
    <2>2. /\ work'[p] \in WorkType /\ work'[p].op = work[p].op /\ work'[p].token = work[p].token
          /\ work'[p].view = warn /\ work'[p].at = "loaded"
      BY <1>2, <2>1 DEF WorkType
    <2>3. work' \in [Callers -> WorkType]
      BY <1>1, <2>1, <2>2
    <2> QED
      BY <2>2, <2>3
  <1>4. TypeOK'
    <2>1. NumberingTypeOK'
      BY DEF IInv
    <2>2. \A q \in Callers : work'[q].token <= issued /\ work'[q].view.token <= issued
      BY <1>2, <1>3, Types
    <2> QED
      BY <1>1, <1>3, <2>1, <2>2 DEF WarningInv, TypeOK
  <1>5. work[p].op \notin {"idle", "display", "acknowledge"}
    BY <1>1 DEF WarningInv, WorkShape
  <1>6. WorkShape'
    BY <1>1, <1>2, <1>3, <1>5 DEF WarningInv, WorkShape
  <1>7. RowHeld'
    BY <1>1, <1>2, <1>3, <1>5 DEF WarningInv, WorkShape, RowHeld
  <1>8. LogAgrees'
    <2>1. \A q \in Callers : work'[q].op \in {"display", "acknowledge"} => work'[q] = work[q]
      BY <1>2, <1>3, <1>5
    <2> QED
      BY <1>1, <2>1 DEF WarningInv, LogAgrees, NotYetLogged
  <1>9. LastAcknowledged'
    BY <1>1, <1>2, <1>3, SameLog DEF WarningInv, LastAcknowledged
  <1>10. OneMessage'
    BY <1>1, <1>2, <1>5, BusyStays DEF numberingVars, given, Busy
  <1>11. Admitted' /\ Counted' /\ (OneChat => NoPromptUnwarned)'
    BY <1>1, SameLog, PromptsStay
  <1>12. (RowLocks => ActivityCounted)'
    BY <1>1 DEF WarningInv, ActivityCounted
  <1> QED
    BY <1>4, <1>6, <1>7, <1>8, <1>9, <1>10, <1>11, <1>12 DEF WarningInv

LEMMA AddActivityStep == ASSUME WarningInv, IInv', NEW p \in Callers, AddActivity(p) PROVE WarningInv'
  <1>1. /\ work[p].op = "activity" /\ work[p].at = "loaded"
        /\ warn' = [warn EXCEPT !.elapsed = work[p].view.elapsed + 1] /\ reported' = reported + 1
        /\ work' = [work EXCEPT ![p].at = "reload", ![p].view.elapsed = @ + 1]
        /\ lock' = Release(p)
        /\ UNCHANGED <<numberingVars, warning, fresh, stored, modal, issued, journal>>
    BY DEF AddActivity
  <1> DEFINE v == work[p].view
             added == [v EXCEPT !.elapsed = v.elapsed + 1]
  <1>2. /\ work'[p] = [work[p] EXCEPT !.at = "reload", !.view = added]
        /\ \A q \in Callers \ {p} : work'[q] = work[q]
    BY <1>1, Types
  <1>3. /\ added \in WarningStateType /\ added.token = v.token /\ added.last = v.last
        /\ warn' \in WarningStateType /\ warn'.token = warn.token /\ warn'.last = warn.last
        /\ warn'.displayed = warn.displayed /\ warn'.elapsed = work[p].view.elapsed + 1
    <2>1. v \in WarningStateType /\ v.elapsed + 1 \in Nat /\ warn \in WarningStateType
      BY Types DEF WarningStateType
    <2> QED
      BY <1>1, <2>1 DEF WarningStateType
  <1> HIDE DEF added
  <1>4. /\ work'[p] \in WorkType /\ work'[p].op = "activity" /\ work'[p].at = "reload"
        /\ work'[p].token = work[p].token /\ work'[p].view.token = work[p].view.token
        /\ work'[p].view.last = work[p].view.last
    <2> DEFINE done == [work[p] EXCEPT !.at = "reload", !.view = added]
    <2>1. work[p] \in WorkType
      BY Types
    <2>2. /\ done \in WorkType /\ done.op = work[p].op /\ done.at = "reload"
          /\ done.token = work[p].token /\ done.view = added
      BY <1>3, <2>1 DEF WorkType
    <2>3. work'[p] = done
      BY <1>2
    <2> QED
      BY <1>1, <1>3, <2>2, <2>3
  <1>5. work' \in [Callers -> WorkType]
    BY <1>1, <1>2, <1>4, Types
  <1>6. lock' \in {lock, "free"} /\ (lock # p => lock' = lock)
    BY <1>1 DEF Release
  <1>7. TypeOK'
    <2>1. NumberingTypeOK'
      BY DEF IInv
    <2>2. \A q \in Callers : work'[q].token <= issued /\ work'[q].view.token <= issued
      BY <1>2, <1>4, Types
    <2>3. reported' \in Nat /\ lock' \in Callers \union {"free"}
      BY <1>1, <1>6, Types
    <2> QED
      BY <1>1, <1>3, <1>5, <2>1, <2>2, <2>3 DEF WarningInv, TypeOK
  <1>8. WorkShape'
    <2>1. WorkShape /\ UNCHANGED <<issued, stored, fresh>>
      BY <1>1 DEF WarningInv
    <2>2. work[p].op = "activity" /\ p \notin Requests /\ stored
      BY <1>1, <2>1 DEF WorkShape
    <2>3. /\ work'[p].op = "activity" /\ work'[p].at = "reload"
          /\ \A q \in Callers \ {p} : work'[q] = work[q]
      BY <1>2, <1>4
    <2> QED
      BY <2>1, <2>2, <2>3 DEF WorkShape
  <1>9. RowHeld'
    <2> SUFFICES ASSUME RowLocks PROVE RowHeld'
      BY DEF RowHeld
    <2>1. ~fresh => lock = p
      BY <1>1 DEF WarningInv, RowHeld
    <2>2. \A q \in Callers \ {p} :
            /\ work[q].op \in {"display", "acknowledge"} => lock' = q
            /\ ~fresh => work[q].at \notin {"loaded", "payload"}
      BY <1>6, <2>1, Alone DEF WarningInv, RowHeld
    <2>3. fresh' = fresh
      BY <1>1
    <2> QED
      BY <1>2, <1>4, <2>2, <2>3 DEF RowHeld
  <1>10. LogAgrees'
    <2>1. \A q \in Callers : work'[q].op \in {"display", "acknowledge"} => work'[q] = work[q]
      BY <1>2, <1>4
    <2>2. journal' = journal /\ issued' = issued
      BY <1>1
    <2>3. NotYetLogged(warn)' <=> NotYetLogged(warn)
      BY <1>3, <2>2 DEF NotYetLogged
    <2>4. ASSUME RowLocks, NEW q \in Callers, work'[q].op \in {"display", "acknowledge"}
          PROVE  NotYetLogged(work[q].view)'
      <3>1. work'[q] = work[q] /\ NotYetLogged(work[q].view)
        BY <2>1, <2>4 DEF WarningInv, LogAgrees
      <3> QED
        BY <2>2, <3>1 DEF NotYetLogged
    <2> QED
      BY <2>2, <2>3, <2>4 DEF WarningInv, LogAgrees
  <1>11. LastAcknowledged'
    <2>1. \A q \in Callers : work'[q].view.last = work[q].view.last
      BY <1>2, <1>4
    <2> QED
      BY <1>1, <1>3, <2>1, SameLog DEF WarningInv, LastAcknowledged
  <1>12. OneMessage'
    BY <1>1, <1>2, BusyStays DEF numberingVars, given, Busy
  <1>13. Admitted' /\ Counted' /\ (OneChat => NoPromptUnwarned)'
    BY <1>1, SameLog, PromptsStay
  <1>14. (RowLocks => ActivityCounted)'
    <2>1. RowLocks /\ ~fresh => work[p].view = warn
      BY <1>1 DEF WarningInv, RowHeld
    <2> QED
      BY <1>1, <1>3, <2>1 DEF WarningInv, ActivityCounted
  <1> QED
    BY <1>7, <1>8, <1>9, <1>10, <1>11, <1>12, <1>13, <1>14 DEF WarningInv

LEMMA ReloadStep == ASSUME WarningInv, IInv', NEW p \in Callers, Reload(p) PROVE WarningInv'
  <1>1. /\ work[p].at = "reload" /\ Lockable /\ work' = [work EXCEPT ![p].at = "payload"]
        /\ lock' = Locked(p)
        /\ UNCHANGED <<numberingVars, warning, fresh, stored, warn, modal, issued, reported, journal>>
    BY DEF Reload
  <1>2. /\ work'[p] = [work[p] EXCEPT !.at = "payload"]
        /\ \A q \in Callers \ {p} : work'[q] = work[q]
    BY <1>1, Types
  <1>3. /\ work'[p] \in WorkType /\ work'[p].op = work[p].op /\ work'[p].at = "payload"
        /\ work'[p].token = work[p].token /\ work'[p].view = work[p].view
        /\ work' \in [Callers -> WorkType] /\ work[p].op = "activity"
    BY <1>1, <1>2, Types DEF WorkType, WarningInv, WorkShape
  <1>4. TypeOK'
    <2>1. NumberingTypeOK'
      BY DEF IInv
    <2>2. \A q \in Callers : work'[q].token <= issued /\ work'[q].view.token <= issued
      BY <1>2, <1>3, Types
    <2>3. lock' \in Callers \union {"free"}
      BY <1>1 DEF Locked
    <2> QED
      BY <1>1, <1>3, <2>1, <2>2, <2>3 DEF WarningInv, TypeOK
  <1>5. WorkShape'
    BY <1>1, <1>2, <1>3 DEF WarningInv, WorkShape
  <1>6. RowHeld'
    <2> SUFFICES ASSUME RowLocks PROVE RowHeld'
      BY DEF RowHeld
    <2>1. lock = "free" /\ lock' = p
      BY <1>1 DEF Lockable, Locked
    <2> QED
      BY <1>1, <1>2, <1>3, <2>1, Alone DEF RowHeld
  <1>7. LogAgrees'
    BY <1>1, <1>2, <1>3 DEF WarningInv, LogAgrees, NotYetLogged
  <1>8. LastAcknowledged'
    BY <1>1, <1>2, <1>3, SameLog DEF WarningInv, LastAcknowledged
  <1>9. OneMessage'
    BY <1>1, <1>2, <1>3, BusyStays DEF numberingVars, given, Busy
  <1>10. Admitted' /\ Counted' /\ (OneChat => NoPromptUnwarned)'
    BY <1>1, SameLog, PromptsStay
  <1>11. (RowLocks => ActivityCounted)'
    BY <1>1 DEF WarningInv, ActivityCounted
  <1> QED
    BY <1>4, <1>5, <1>6, <1>7, <1>8, <1>9, <1>10, <1>11 DEF WarningInv


------------------------------------------------------------------------------
(***************************************************************************)
(* The payload.                                                            *)
(***************************************************************************)

LEMMA PromptsUpTo ==
  ASSUME WarningInv
  PROVE  /\ PromptCount \in Nat /\ PromptCount \in Prompts \union {0}
         /\ \A k \in Prompts : k \in Nat /\ k >= 1 /\ k <= PromptCount
         /\ \A k \in 1..PromptCount : k \in Prompts
  <1>1. PromptCount \in Prompts \union {0} /\ Highest(PromptCount, Prompts)
    BY DEF WarningInv, Counted, PromptCount
  <1>2. \A k \in Prompts : k \in Nat /\ k >= 1 /\ \A j \in 1..k : j \in Prompts
    BY DEF WarningInv, IInv, Prompts, PromptsWithoutGaps, NumberingTypeOK, AttemptType, Stored
  <1> QED
    BY <1>1, <1>2 DEF Highest

\* The key that is due is a key.
LEMMA TriggerTyped ==
  ASSUME WarningInv, NEW e \in Nat
  PROVE  Trigger(PromptCount, e) \in TriggerType
  <1>1. /\ warning.value \in Nat \ {0} /\ PromptCount \in Nat
        /\ warning.cadence \in {"BEGINNING", "EVERY_N_PROMPTS", "PROMPT_LIST", "ONCE_AFTER_PROMPT",
                                "EVERY_N_ACTIVE_MINUTES", "AFTER_ACTIVE_MINUTES"}
    BY Types, PromptsUpTo DEF CadenceType
  <1>2. e \div warning.value \in Nat
    BY <1>1
  <1> QED
    BY <1>1, <1>2 DEF Trigger, TriggerType, NoTrigger

\* When nothing new is due, every trigger behind the next prompt was acknowledged:
\* those behind the last prompt with it, and that of its own number last.
LEMMA NothingDue ==
  ASSUME WarningInv, OneChat, warning.must_acknowledge, NEW e, NEW last,
         Trigger(PromptCount, e) \in {NoTrigger, last}, last # NoTrigger => last \in Acknowledged
  PROVE  DueBefore(PromptCount + 1) \subseteq Acknowledged
  <1> DEFINE N == PromptCount
  <1>1. N \in Nat /\ warning.value \in Nat \ {0} /\ warning.numbers \subseteq Nat
    BY Types, PromptsUpTo DEF CadenceType
  <1>2. N > 0 => DueBefore(N) \subseteq Acknowledged
    <2>1. ASSUME N > 0 PROVE \E r \in Stored : row[r].prompt = N
      BY <2>1, PromptsUpTo DEF Prompts
    <2> QED
      BY <2>1 DEF WarningInv, NoPromptUnwarned
  <1>3. Trigger(N, e) # NoTrigger => Trigger(N, e) \in Acknowledged
    OBVIOUS
  <1> HIDE DEF N
  <1> SUFFICES ASSUME NEW x \in DueBefore(N + 1) PROVE x \in Acknowledged
    BY DEF N
  <1>4. CASE warning.cadence = "BEGINNING"
    BY <1>3, <1>4 DEF DueBefore, Trigger, NoTrigger
  <1>5. CASE warning.cadence = "EVERY_N_PROMPTS"
    <2>1. PICK k \in 1..N : k % warning.value = 0 /\ x = <<"prompt", k>>
      BY <1>1, <1>5 DEF DueBefore
    <2>2. CASE k = N
      <3>1. Trigger(N, e) = x
        BY <1>1, <1>5, <2>1, <2>2 DEF Trigger
      <3> QED
        BY <1>3, <2>1, <3>1 DEF NoTrigger
    <2>3. CASE k # N
      <3>1. k \in 1..N - 1 /\ N > 0
        BY <1>1, <2>1, <2>3
      <3>2. x \in DueBefore(N)
        BY <1>5, <2>1, <3>1 DEF DueBefore
      <3> QED
        BY <1>2, <3>1, <3>2
    <2> QED
      BY <2>2, <2>3
  <1>6. CASE warning.cadence = "PROMPT_LIST"
    <2>1. PICK k \in warning.numbers : k \in 1..N /\ x = <<"prompt", k>>
      BY <1>1, <1>6 DEF DueBefore
    <2>2. CASE k = N
      <3>1. Trigger(N, e) = x
        BY <1>1, <1>6, <2>1, <2>2 DEF Trigger
      <3> QED
        BY <1>3, <2>1, <3>1 DEF NoTrigger
    <2>3. CASE k # N
      <3>1. k \in 1..N - 1 /\ N > 0
        BY <1>1, <2>1, <2>3
      <3>2. x \in DueBefore(N)
        BY <1>6, <2>1, <3>1 DEF DueBefore
      <3> QED
        BY <1>2, <3>1, <3>2
    <2> QED
      BY <2>2, <2>3
  <1>7. CASE warning.cadence = "ONCE_AFTER_PROMPT"
    <2>1. N + 1 > warning.value /\ x = <<"once-prompt", warning.value>>
      BY <1>1, <1>7 DEF DueBefore
    <2>2. Trigger(N, e) = x
      BY <1>1, <1>7, <2>1 DEF Trigger
    <2> QED
      BY <1>3, <2>1, <2>2 DEF NoTrigger
  <1>8. CASE warning.cadence \notin {"BEGINNING", "EVERY_N_PROMPTS", "PROMPT_LIST", "ONCE_AFTER_PROMPT"}
    BY <1>8 DEF DueBefore
  <1> QED
    BY <1>4, <1>5, <1>6, <1>7, <1>8

\* The last step of a handler: it gives the row back.
LEMMA Ending ==
  ASSUME WarningInv, NEW p \in Callers, work[p].op # "idle",
         work' = [work EXCEPT ![p] = Idle], lock' = Release(p), UNCHANGED <<stored, fresh>>,
         issued' >= issued, issued' \in Nat, issued' > 0 => stored,
         RowLocks /\ ~fresh => lock = p
  PROVE  /\ work' \in [Callers -> WorkType] /\ work'[p] = Idle
         /\ \A q \in Callers \ {p} : work'[q] = work[q]
         /\ \A q \in Callers : work'[q].token <= issued' /\ work'[q].view.token <= issued'
         /\ lock' \in Callers \union {"free"}
         /\ WorkShape' /\ RowHeld'
         /\ \A r \in Requests : work'[r].op # "idle" => Busy(r)
  <1>1. /\ work' \in [Callers -> WorkType] /\ work'[p] = Idle
        /\ \A q \in Callers \ {p} : work'[q] = work[q]
    BY Types
  <1>2. \A q \in Callers : work'[q].token <= issued' /\ work'[q].view.token <= issued'
    <2>1. issued \in Nat /\ \A q \in Callers : /\ work[q].token \in Nat /\ work[q].view.token \in Nat
                                               /\ work[q].token <= issued /\ work[q].view.token <= issued
      BY Types DEF WarningStateType
    <2>2. Idle.token <= issued' /\ Idle.view.token <= issued'
      BY Types
    <2>3. \A q \in Callers \ {p} : work'[q].token <= issued' /\ work'[q].view.token <= issued'
      BY <1>1, <2>1
    <2> QED
      BY <1>1, <2>2, <2>3
  <1>3. lock' \in Callers \union {"free"} /\ (lock # p => lock' = lock)
    BY Types DEF Release
  <1>4. WorkShape'
    BY <1>1, Types DEF WarningInv, WorkShape
  <1>5. RowHeld'
    <2> SUFFICES ASSUME RowLocks PROVE RowHeld'
      BY DEF RowHeld
    <2>1. \A q \in Callers \ {p} :
            /\ work[q].op \in {"display", "acknowledge"} => lock' = q
            /\ ~fresh => work[q].at \notin {"loaded", "payload"}
      BY <1>3, Alone DEF WarningInv, RowHeld
    <2> QED
      BY <1>1, <2>1, Types DEF RowHeld
  <1>6. \A r \in Requests : work'[r].op # "idle" => Busy(r)
    BY <1>1, Types DEF Busy, Callers
  <1> QED
    BY <1>1, <1>2, <1>3, <1>4, <1>5, <1>6


\* An answer changes the modal of a tab or lets a prompt go to its numbering.
LEMMA Answering ==
  ASSUME WarningInv, NEW p \in Callers, NEW token \in Nat, issued' \in Nat, issued' >= issued,
         token <= issued', Answer(p, token)
  PROVE  /\ UNCHANGED <<given, row>> /\ modal' \in [Tabs -> 0..issued']
         /\ \/ att' = att
            \/ p \in Requests /\ Call(p) /\ (warning.must_acknowledge => token = 0)
  <1>1. \A t \in Tabs : modal[t] \in 0..issued'
    BY Types
  <1>2. CASE p \in Tabs
    BY <1>1, <1>2, Types DEF Answer, numberingVars, given
  <1>3. CASE p \notin Tabs
    <2>1. p \in Requests /\ modal' = modal
      BY <1>3 DEF Answer, Callers
    <2> QED
      BY <1>1, <1>3, <2>1, Types DEF Answer, numberingVars, given, Call
  <1> QED
    BY <1>2, <1>3

LEMMA PayloadStep == ASSUME WarningInv, IInv', NEW p \in Callers, Payload(p) PROVE WarningInv'
  <1> DEFINE v == work[p].view
             k == Trigger(PromptCount, v.elapsed)
             issue == v.token = 0 /\ Due(v)
             token == IF issue THEN issued + 1 ELSE v.token
  <1>1. /\ AtPayload(p) /\ lock' = Release(p) /\ work' = [work EXCEPT ![p] = Idle]
        /\ UNCHANGED <<warning, fresh, stored, reported, journal>>
        /\ Answer(p, token)
        /\ issue => issued < MaxTokens /\ issued' = issued + 1
                    /\ warn' = [warn EXCEPT !.token = issued + 1, !.displayed = FALSE, !.trigger = k]
        /\ ~issue => UNCHANGED <<issued, warn>>
    BY DEF Payload
  <1>2. /\ v \in WarningStateType /\ v.token \in Nat /\ v.token <= issued /\ issued \in Nat
        /\ v.elapsed \in Nat
    BY Types DEF WarningStateType
  <1>3. k \in TriggerType
    BY <1>2, TriggerTyped
  <1>4. /\ work[p].op # "idle" /\ stored /\ (RowLocks /\ ~fresh => lock = p)
        /\ work[p].at \in {"loaded", "payload"}
    BY <1>1 DEF AtPayload, WarningInv, WorkShape, RowHeld
  <1> HIDE DEF k
  <1>5. /\ warn' \in WarningStateType /\ warn'.last = warn.last /\ warn'.elapsed = warn.elapsed
        /\ warn'.token <= issued' /\ issued' \in 0..MaxTokens /\ issued' >= issued
        /\ warn'.token = issued + 1 \/ warn' = warn
        /\ warn'.token = issued + 1 => issued' = issued + 1
    <2>1. /\ warn \in WarningStateType /\ warn.token \in Nat /\ warn.token <= issued
          /\ issued \in 0..MaxTokens /\ MaxTokens \in Nat
      BY Types DEF WarningStateType
    <2>2. CASE issue
      <3>1. /\ issued' = issued + 1 /\ issued + 1 \in Nat /\ issued + 1 \in 0..MaxTokens
            /\ warn' = [warn EXCEPT !.token = issued + 1, !.displayed = FALSE, !.trigger = k]
        BY <1>1, <2>1, <2>2
      <3>2. /\ warn' \in WarningStateType /\ warn'.last = warn.last /\ warn'.elapsed = warn.elapsed
            /\ warn'.token = issued + 1
        BY <1>3, <2>1, <3>1 DEF WarningStateType
      <3> QED
        BY <2>1, <3>1, <3>2
    <2>3. CASE ~issue
      <3>1. issued' = issued /\ warn' = warn
        BY <1>1, <2>3
      <3> QED
        BY <2>1, <3>1
    <2> QED
      BY <2>2, <2>3
  <1>6. token \in Nat /\ token <= issued' /\ (token = 0 => ~Due(v))
    <2>1. CASE issue
      BY <1>1, <1>2, <2>1
    <2>2. CASE ~issue
      BY <1>1, <1>2, <2>2
    <2> QED
      BY <2>1, <2>2
  <1> HIDE DEF issue, token
  <1>7. /\ UNCHANGED <<given, row>> /\ modal' \in [Tabs -> 0..issued']
        /\ \/ att' = att
           \/ p \in Requests /\ Call(p) /\ (warning.must_acknowledge => token = 0)
    BY <1>1, <1>5, <1>6, Answering
  <1>8. /\ work' \in [Callers -> WorkType] /\ work'[p] = Idle
        /\ \A q \in Callers \ {p} : work'[q] = work[q]
        /\ \A q \in Callers : work'[q].token <= issued' /\ work'[q].view.token <= issued'
        /\ lock' \in Callers \union {"free"}
        /\ WorkShape' /\ RowHeld'
        /\ \A r \in Requests : work'[r].op # "idle" => Busy(r)
    <2>1. issued' \in Nat
      BY <1>5, Types
    <2> QED
      BY <1>1, <1>4, <1>5, <2>1, Ending
  <1>9. TypeOK'
    <2>1. NumberingTypeOK'
      BY DEF IInv
    <2> QED
      BY <1>1, <1>5, <1>7, <1>8, <2>1 DEF WarningInv, TypeOK
  <1>10. LogAgrees'
    <2> SUFFICES ASSUME RowLocks PROVE LogAgrees'
      BY DEF LogAgrees
    <2>1. /\ journal' = journal /\ issued' \in Nat /\ issued' >= issued /\ issued \in Nat
          /\ \A i \in DOMAIN journal : journal[i].token \in 1..issued
      BY <1>1, <1>2, <1>5 DEF WarningInv, LogAgrees
    <2>2. NotYetLogged(warn)'
      <3>1. CASE warn' = warn
        BY <2>1, <3>1 DEF WarningInv, LogAgrees, NotYetLogged
      <3>2. CASE warn'.token = issued + 1
        BY <2>1, <3>2 DEF NotYetLogged
      <3> QED
        BY <1>5, <3>1, <3>2
    <2>3. \A q \in Callers : work'[q].op \in {"display", "acknowledge"} => NotYetLogged(work[q].view)'
      BY <1>8, <2>1, Types DEF WarningInv, LogAgrees, NotYetLogged
    <2> QED
      BY <2>1, <2>2, <2>3 DEF WarningInv, LogAgrees
  <1>11. LastAcknowledged'
    BY <1>1, <1>5, <1>8, SameLog, Types DEF WarningInv, LastAcknowledged
  <1>12. OneMessage'
    <2>1. \A r \in Requests : Busy(r)' => Busy(r)
      <3>1. \A r \in Requests : att'[r].at \in Active => Busy(r)
        BY <1>4, <1>7, Types DEF Call, Busy, NumberingTypeOK, AttemptType
      <3> QED
        BY <1>8, <3>1 DEF Busy
    <2> QED
      BY <1>7, <2>1 DEF WarningInv, OneMessage, given
  <1>13. CASE att' = att
    <2>1. Admitted' /\ Counted' /\ (OneChat => NoPromptUnwarned)'
      BY <1>1, <1>7, <1>13, SameLog, PromptsStay DEF numberingVars, given
    <2> QED
      BY <1>1, <1>5, <1>8, <1>9, <1>10, <1>11, <1>12, <2>1 DEF WarningInv, ActivityCounted
  <1>14. CASE p \in Requests /\ Call(p) /\ (warning.must_acknowledge => token = 0)
    <2>1. /\ Stored' = Stored /\ Prompts' = Prompts /\ PromptCount' = PromptCount
          /\ \A r \in Requests : Earlier(r)' = Earlier(r)
      <3>1. Stored' = Stored
        BY <1>7 DEF Stored
      <3> QED
        BY <1>7, <3>1 DEF Prompts, PromptCount, Earlier, Highest, given
    <2>2. Acknowledged' = Acknowledged
      BY <1>1, SameLog
    <2>3. Admitted'
      <3> SUFFICES ASSUME OneChat, warning.must_acknowledge, NEW r \in Requests,
                          att'[r].at \in Active, Earlier(r) = {}
                   PROVE  DueBefore(PromptCount + 1) \subseteq Acknowledged
        <4>1. DueBefore(PromptCount + 1)' = DueBefore(PromptCount + 1)
          BY <1>1, <2>1 DEF DueBefore
        <4> QED
          BY <1>1, <2>1, <2>2, <4>1 DEF Admitted
      <3>1. CASE r = p
        <4>1. ~Due(v)
          BY <1>6, <1>14
        <4>2. k \in {NoTrigger, v.last} /\ (v.last # NoTrigger => v.last \in Acknowledged)
          BY <4>1 DEF Due, k, WarningInv, LastAcknowledged
        <4> QED
          BY <4>2, NothingDue DEF k
      <3>2. CASE r # p
        <4>1. att'[r] = att[r]
          BY <1>14, <3>2 DEF Call
        <4> QED
          BY <4>1 DEF WarningInv, Admitted
      <3> QED
        BY <3>1, <3>2
    <2>4. Counted'
      BY <2>1 DEF WarningInv, Counted, Highest
    <2>5. (OneChat => NoPromptUnwarned)'
      <3> SUFFICES ASSUME OneChat, warning.must_acknowledge, NEW r \in Stored
                   PROVE  DueBefore(row[r].prompt)' \subseteq Acknowledged
        BY <1>1, <2>1, <2>2 DEF NoPromptUnwarned
      <3>1. DueBefore(row[r].prompt)' = DueBefore(row[r].prompt)
        BY <1>1, <1>7 DEF DueBefore
      <3> QED
        BY <3>1 DEF WarningInv, NoPromptUnwarned
    <2> QED
      BY <1>1, <1>5, <1>8, <1>9, <1>10, <1>11, <1>12, <2>3, <2>4, <2>5 DEF WarningInv, ActivityCounted
  <1> QED
    BY <1>7, <1>13, <1>14

------------------------------------------------------------------------------
(***************************************************************************)
(* The log.                                                                *)
(***************************************************************************)

LEMMA LogGrows ==
  ASSUME journal \in Seq(EntryType), NEW e \in EntryType, journal' = Append(journal, e)
  PROVE  /\ journal' \in Seq(EntryType)
         /\ DOMAIN journal = 1..Len(journal) /\ Len(journal) \in Nat
         /\ DOMAIN journal' = 1..Len(journal) + 1
         /\ \A i \in 1..Len(journal) : journal'[i] = journal[i]
         /\ journal'[Len(journal) + 1] = e
         /\ Acknowledged \subseteq Acknowledged'
         /\ e.type = "acknowledged" => e.trigger \in Acknowledged'
  <1>1. /\ journal' \in Seq(EntryType) /\ Len(journal') = Len(journal) + 1
        /\ \A i \in 1..Len(journal) : journal'[i] = journal[i]
        /\ journal'[Len(journal) + 1] = e
    BY AppendProperties
  <1>2. /\ DOMAIN journal = 1..Len(journal) /\ Len(journal) \in Nat
        /\ DOMAIN journal' = 1..Len(journal) + 1
    BY <1>1, LenProperties
  <1>3. \A i \in 1..Len(journal) : i \in 1..Len(journal) + 1
    BY <1>2
  <1>4. Len(journal) + 1 \in 1..Len(journal) + 1
    BY <1>2
  <1>5. Acknowledged \subseteq Acknowledged'
    BY <1>1, <1>2, <1>3 DEF Acknowledged
  <1>6. e.type = "acknowledged" => e.trigger \in Acknowledged'
    BY <1>1, <1>2, <1>4 DEF Acknowledged
  <1> QED
    BY <1>1, <1>2, <1>5, <1>6

\* What a handler logs while it holds the row is new.
LEMMA Logging ==
  ASSUME WarningInv, NEW p \in Callers, work[p].op \in {"display", "acknowledge"},
         NEW e \in EntryType, journal' = Append(journal, e), e.token = work[p].view.token,
         e.token \in 1..issued, issued' = issued,
         e.type = "displayed" => ~work[p].view.displayed,
         warn'.token \in {0, warn.token},
         warn'.token # 0 => e.type = "displayed" /\ warn'.displayed,
         work'[p] = Idle, \A q \in Callers \ {p} : work'[q] = work[q]
  PROVE  LogAgrees'
  <1> SUFFICES ASSUME RowLocks PROVE LogAgrees'
    BY DEF LogAgrees
  <1> DEFINE n == Len(journal) + 1
  <1>1. /\ DOMAIN journal = 1..Len(journal) /\ Len(journal) \in Nat
        /\ DOMAIN journal' = 1..n
        /\ \A i \in 1..Len(journal) : journal'[i] = journal[i]
        /\ journal'[n] = e
    BY Types, LogGrows
  <1>2. /\ \A i \in 1..Len(journal) : journal[i].token \in 1..issued
        /\ \A i, j \in 1..Len(journal) :
             journal[i].token = journal[j].token /\ journal[i].type = journal[j].type => i = j
        /\ NotYetLogged(warn) /\ NotYetLogged(work[p].view)
    BY <1>1 DEF WarningInv, LogAgrees
  <1>3. \A i \in 1..n : i = n \/ i \in 1..Len(journal)
    BY <1>1
  <1>4. \A i \in 1..Len(journal) : ~(journal[i].token = e.token /\ journal[i].type = e.type)
    BY <1>1, <1>2 DEF NotYetLogged
  <1> HIDE DEF n
  <1>5. \A i \in 1..n : journal'[i].token \in 1..issued
    BY <1>1, <1>2, <1>3
  <1>6. \A i, j \in 1..n :
           journal'[i].token = journal'[j].token /\ journal'[i].type = journal'[j].type => i = j
    BY <1>1, <1>2, <1>3, <1>4
  <1>7. NotYetLogged(warn)'
    <2>1. CASE warn'.token = 0
      <3>1. \A i \in 1..n : journal'[i].token # 0
        <4>1. 0 \notin 1..issued
          OBVIOUS
        <4> QED
          BY <1>5, <4>1
      <3>2. \A i \in DOMAIN journal' : journal'[i].token # warn'.token
        BY <1>1, <2>1, <3>1
      <3> QED
        BY <3>2, Zenon DEF NotYetLogged
    <2>2. CASE warn'.token # 0
      <3>1. warn'.token = warn.token /\ e.type = "displayed" /\ warn'.displayed
        BY <2>2
      <3>2. \A i \in 1..Len(journal) : journal'[i].token = warn'.token => journal'[i].type = "displayed"
        BY <1>1, <1>2, <3>1 DEF NotYetLogged
      <3>3. \A i \in 1..n : journal'[i].token = warn'.token => journal'[i].type = "displayed"
        BY <1>1, <1>3, <3>1, <3>2
      <3>4. \A i \in DOMAIN journal' : journal'[i].token = warn'.token => journal'[i].type = "displayed"
        BY <1>1, <3>3
      <3>5. warn'.displayed
        BY <3>1
      <3> QED
        BY <3>4, <3>5, Zenon DEF NotYetLogged
    <2> QED
      BY <2>1, <2>2
  <1>8. \A q \in Callers : work'[q].op \notin {"display", "acknowledge"}
    <2>1. lock = p
      BY DEF WarningInv, RowHeld
    <2> QED
      BY <2>1, Alone, Types
  <1> QED
    BY <1>1, <1>5, <1>6, <1>7, <1>8 DEF LogAgrees


LEMMA DisplayStep == ASSUME WarningInv, IInv', NEW p \in Callers, Display(p) PROVE WarningInv'
  <1> DEFINE v == work[p].view
             e == [type |-> "displayed", token |-> v.token, trigger |-> v.trigger]
             settled == [[warn EXCEPT !.last = v.trigger, !.last_token = v.token, !.token = 0,
                                      !.trigger = NoTrigger] EXCEPT !.displayed = TRUE]
             shown == [warn EXCEPT !.displayed = TRUE]
  <1>1. /\ work[p].op = "display" /\ work[p].at = "loaded"
        /\ lock' = Release(p) /\ work' = [work EXCEPT ![p] = Idle]
        /\ UNCHANGED <<numberingVars, warning, fresh, stored, issued, reported, modal>>
    BY DEF Display, Finish
  <1>2. \/ UNCHANGED <<warn, journal>>
        \/ /\ v.token = work[p].token /\ ~v.displayed /\ journal' = Append(journal, e)
           /\ warn' = IF warning.must_acknowledge THEN shown ELSE settled
    BY DEF Display, Logged, Settled
  <1>3. /\ v \in WarningStateType /\ v.token \in Nat /\ v.token <= issued /\ issued \in Nat
        /\ v.trigger \in TriggerType /\ NoTrigger \in TriggerType /\ warn \in WarningStateType
        /\ e \in EntryType /\ e.token = v.token /\ e.type = "displayed"
        /\ work[p].token # 0 /\ issued \in 0..MaxTokens
    BY <1>1, Types DEF WarningStateType, EntryType, TriggerType, NoTrigger, WarningInv, WorkShape
  <1>4. /\ shown \in WarningStateType /\ shown.token = warn.token /\ shown.last = warn.last
        /\ shown.elapsed = warn.elapsed /\ shown.displayed
        /\ settled \in WarningStateType /\ settled.token = 0 /\ settled.elapsed = warn.elapsed
    BY <1>3 DEF WarningStateType
  <1> HIDE DEF e, settled, shown
  <1>5. /\ work' \in [Callers -> WorkType] /\ work'[p] = Idle
        /\ \A q \in Callers \ {p} : work'[q] = work[q]
        /\ \A q \in Callers : work'[q].token <= issued' /\ work'[q].view.token <= issued'
        /\ lock' \in Callers \union {"free"}
        /\ WorkShape' /\ RowHeld'
        /\ \A r \in Requests : work'[r].op # "idle" => Busy(r)
    <2>1. issued' \in Nat /\ issued' >= issued /\ (issued' > 0 => stored)
      BY <1>1, <1>3 DEF WarningInv, WorkShape
    <2>2. work[p].op # "idle" /\ (RowLocks /\ ~fresh => lock = p)
      BY <1>1 DEF WarningInv, RowHeld
    <2>3. UNCHANGED <<stored, fresh>> /\ lock' = Release(p) /\ work' = [work EXCEPT ![p] = Idle]
      BY <1>1
    <2> QED
      BY <2>1, <2>2, <2>3, Ending
  <1>6. /\ warn' \in WarningStateType /\ warn'.token \in {0, warn.token} /\ warn'.elapsed = warn.elapsed
        /\ warn'.token <= issued /\ (warning.must_acknowledge => warn'.last = warn.last)
    <2>1. warn.token <= issued /\ 0 <= issued
      BY <1>3, Types
    <2> QED
      BY <1>2, <1>3, <1>4, <2>1
  <1>7. journal' \in Seq(EntryType) /\ Acknowledged \subseteq Acknowledged'
    BY <1>2, <1>3, LogGrows, SameLog, Types
  <1>8. TypeOK'
    <2>1. NumberingTypeOK'
      BY DEF IInv
    <2> QED
      BY <1>1, <1>5, <1>6, <1>7, <2>1 DEF WarningInv, TypeOK
  <1>9. LogAgrees'
    <2>1. CASE UNCHANGED <<warn, journal>>
      <3>1. \A q \in Callers : work'[q].op \in {"display", "acknowledge"} => work'[q] = work[q]
        BY <1>5, Types
      <3> QED
        BY <1>1, <2>1, <3>1 DEF WarningInv, LogAgrees, NotYetLogged
    <2>2. CASE /\ v.token = work[p].token /\ ~v.displayed /\ journal' = Append(journal, e)
               /\ warn' = IF warning.must_acknowledge THEN shown ELSE settled
      <3>1. e.token \in 1..issued
        BY <1>3, <2>2
      <3>2. warn'.token # 0 => warn'.displayed
        BY <1>4, <2>2
      <3> QED
        BY <1>1, <1>3, <1>5, <1>6, <2>2, <3>1, <3>2, Logging
    <2> QED
      BY <1>2, <2>1, <2>2
  <1>10. LastAcknowledged'
    BY <1>1, <1>5, <1>6, <1>7, Types DEF WarningInv, LastAcknowledged
  <1>11. OneMessage'
    BY <1>1, <1>5, BusyStays DEF numberingVars, given
  <1>12. Admitted' /\ Counted' /\ (OneChat => NoPromptUnwarned)'
    BY <1>1, <1>7, PromptsStay
  <1>13. (RowLocks => ActivityCounted)'
    BY <1>1, <1>6 DEF WarningInv, ActivityCounted
  <1> QED
    BY <1>5, <1>8, <1>9, <1>10, <1>11, <1>12, <1>13 DEF WarningInv

LEMMA AcknowledgeStep == ASSUME WarningInv, IInv', NEW p \in Callers, Acknowledge(p) PROVE WarningInv'
  <1> DEFINE v == work[p].view
             e == [type |-> "acknowledged", token |-> v.token, trigger |-> v.trigger]
             settled == [warn EXCEPT !.last = v.trigger, !.last_token = v.token, !.token = 0,
                                     !.trigger = NoTrigger]
  <1>1. /\ work[p].op = "acknowledge" /\ work[p].at = "loaded"
        /\ lock' = Release(p) /\ work' = [work EXCEPT ![p] = Idle]
        /\ UNCHANGED <<numberingVars, warning, fresh, stored, issued, reported>>
        /\ modal' = modal \/ modal' = [modal EXCEPT ![p] = 0]
    BY DEF Acknowledge, Finish
  <1>2. \/ UNCHANGED <<warn, journal>>
        \/ v.token = work[p].token /\ journal' = Append(journal, e) /\ warn' = settled
    BY DEF Acknowledge, Logged, Settled
  <1>3. /\ v \in WarningStateType /\ v.token \in Nat /\ v.token <= issued /\ issued \in Nat
        /\ v.trigger \in TriggerType /\ NoTrigger \in TriggerType /\ warn \in WarningStateType
        /\ e \in EntryType /\ e.token = v.token /\ e.type = "acknowledged" /\ e.trigger = v.trigger
        /\ work[p].token # 0 /\ issued \in 0..MaxTokens
    BY <1>1, Types DEF WarningStateType, EntryType, TriggerType, NoTrigger, WarningInv, WorkShape
  <1>4. /\ settled \in WarningStateType /\ settled.token = 0 /\ settled.elapsed = warn.elapsed
        /\ settled.last = v.trigger
    BY <1>3 DEF WarningStateType
  <1> HIDE DEF e, settled
  <1>5. /\ work' \in [Callers -> WorkType] /\ work'[p] = Idle
        /\ \A q \in Callers \ {p} : work'[q] = work[q]
        /\ \A q \in Callers : work'[q].token <= issued' /\ work'[q].view.token <= issued'
        /\ lock' \in Callers \union {"free"}
        /\ WorkShape' /\ RowHeld'
        /\ \A r \in Requests : work'[r].op # "idle" => Busy(r)
    <2>1. issued' \in Nat /\ issued' >= issued /\ (issued' > 0 => stored)
      BY <1>1, <1>3 DEF WarningInv, WorkShape
    <2>2. work[p].op # "idle" /\ (RowLocks /\ ~fresh => lock = p)
      BY <1>1 DEF WarningInv, RowHeld
    <2>3. UNCHANGED <<stored, fresh>> /\ lock' = Release(p) /\ work' = [work EXCEPT ![p] = Idle]
      BY <1>1
    <2> QED
      BY <2>1, <2>2, <2>3, Ending
  <1>6. /\ warn' \in WarningStateType /\ warn'.token \in {0, warn.token} /\ warn'.elapsed = warn.elapsed
        /\ warn'.token <= issued
    <2>1. warn.token <= issued /\ 0 <= issued
      BY <1>3, Types
    <2> QED
      BY <1>2, <1>3, <1>4, <2>1
  <1>7. /\ journal' \in Seq(EntryType) /\ Acknowledged \subseteq Acknowledged'
        /\ warn'.last = warn.last \/ warn'.last \in Acknowledged'
    BY <1>2, <1>3, <1>4, LogGrows, SameLog, Types
  <1>8. TypeOK'
    <2>1. NumberingTypeOK'
      BY DEF IInv
    <2>2. modal' \in [Tabs -> 0..issued]
      BY <1>1, <1>3, Types
    <2> QED
      BY <1>1, <1>5, <1>6, <1>7, <2>1, <2>2 DEF WarningInv, TypeOK
  <1>9. LogAgrees'
    <2>1. CASE UNCHANGED <<warn, journal>>
      <3>1. \A q \in Callers : work'[q].op \in {"display", "acknowledge"} => work'[q] = work[q]
        BY <1>5, Types
      <3> QED
        BY <1>1, <2>1, <3>1 DEF WarningInv, LogAgrees, NotYetLogged
    <2>2. CASE v.token = work[p].token /\ journal' = Append(journal, e) /\ warn' = settled
      <3>1. e.token \in 1..issued /\ warn'.token = 0
        BY <1>3, <1>4, <2>2
      <3> QED
        BY <1>1, <1>3, <1>5, <1>6, <2>2, <3>1, Logging
    <2> QED
      BY <1>2, <2>1, <2>2
  <1>10. LastAcknowledged'
    BY <1>1, <1>5, <1>7, Types DEF WarningInv, LastAcknowledged
  <1>11. OneMessage'
    BY <1>1, <1>5, BusyStays DEF numberingVars, given
  <1>12. Admitted' /\ Counted' /\ (OneChat => NoPromptUnwarned)'
    BY <1>1, <1>7, PromptsStay
  <1>13. (RowLocks => ActivityCounted)'
    BY <1>1, <1>6 DEF WarningInv, ActivityCounted
  <1> QED
    BY <1>5, <1>8, <1>9, <1>10, <1>11, <1>12, <1>13 DEF WarningInv


------------------------------------------------------------------------------
(***************************************************************************)
(* The numbering.                                                          *)
(***************************************************************************)

\* A step of an attempt other than the insert changes no number.
LEMMA ReadingStep ==
  ASSUME WarningInv, NEW r \in Requests, Reserve(r), ~Insert(r)
  PROVE  /\ UNCHANGED <<given, row>>
         /\ \A q \in Requests : att'[q].at \in Active => att[q].at \in Active
  <1>1. att \in [Requests -> AttemptType]
    BY Types DEF NumberingTypeOK, AttemptType
  <1>2. UNCHANGED <<given, row>> /\ att[r].at \in Active
    BY DEF Reserve, ReadSequence, ReadPrevious, ReadPrompt, Conflict, Vanish, Active
  <1>3. \A q \in Requests \ {r} : att'[q] = att[q]
    BY <1>1 DEF Reserve, ReadSequence, ReadPrevious, ReadPrompt, Conflict, Vanish
  <1> QED
    BY <1>2, <1>3

\* The insert: the request's prompt is one that has a number, or the next one,
\* for which its check found nothing left to acknowledge.
LEMMA InsertPrompt ==
  ASSUME WarningInv, NEW r \in Requests, Insert(r)
  PROVE  /\ Stored' = Stored \union {r} /\ row'[r].prompt = att[r].prompt
         /\ \A q \in Stored \ {r} : row'[q] = row[q]
         /\ att'[r].at = "reserved" /\ att[r].at = "insert"
         /\ \A q \in Requests \ {r} : att'[q] = att[q]
         /\ UNCHANGED message
         /\ Prompts' = Prompts \union {att[r].prompt}
         /\ \/ \E q \in Earlier(r) : att[r].prompt = row[q].prompt
            \/ Earlier(r) = {} /\ att[r].prompt = PromptCount + 1
  <1>1. /\ row \in [Requests -> [seq : Nat, prompt : Nat, active : BOOLEAN]]
        /\ att \in [Requests -> AttemptType]
    BY Types DEF NumberingTypeOK, AttemptType
  <1>2. /\ att[r].at = "insert" /\ att[r].seq \notin Sequences /\ message' = message
        /\ row'[r].seq = att[r].seq /\ row'[r].prompt = att[r].prompt
        /\ \A q \in Requests \ {r} : row'[q] = row[q]
        /\ att'[r].at = "reserved" /\ \A q \in Requests \ {r} : att'[q] = att[q]
    BY <1>1 DEF Insert, given, AttemptType
  <1>3. r \notin Stored /\ att[r].seq # 0
    <2>1. IInv
      BY DEF WarningInv
    <2>2. row[r] = NoRow /\ att[r].seq >= 1
      BY <1>2, <2>1 DEF IInv, RowsOfReserved, NumbersBelow, Reading
    <2>3. att[r].seq \in Nat
      BY <1>1 DEF AttemptType
    <2> QED
      BY <2>2, <2>3 DEF Stored, NoRow
  <1>4. Stored' = Stored \union {r}
    BY <1>2, <1>3 DEF Stored
  <1>5. \A q \in Stored : q \in Requests \ {r} /\ row'[q] = row[q]
    BY <1>2, <1>3 DEF Stored
  <1>6. Prompts' = Prompts \union {att[r].prompt}
    BY <1>2, <1>4, <1>5 DEF Prompts
  <1>7. \/ \E q \in Earlier(r) : att[r].prompt = row[q].prompt
        \/ Earlier(r) = {} /\ att[r].prompt = PromptCount + 1
    <2>1. \/ \E q \in Earlier(r) : att[r].prompt = row[q].prompt
          \/ Earlier(r) = {} /\ \E n \in Prompts \union {0} : Highest(n, Prompts) /\ att[r].prompt = n + 1
      BY <1>2 DEF WarningInv, IInv, PromptRead, Current
    <2>2. ASSUME NEW n \in Prompts \union {0}, Highest(n, Prompts) PROVE n = PromptCount
      <3>1. /\ PromptCount \in Prompts \union {0} /\ Highest(PromptCount, Prompts)
        BY DEF WarningInv, Counted, PromptCount
      <3>2. n \in Nat /\ PromptCount \in Nat /\ \A k \in Prompts : k \in Nat
        BY PromptsUpTo
      <3>3. n <= PromptCount /\ PromptCount <= n
        BY <2>2, <3>1, <3>2 DEF Highest
      <3> QED
        BY <3>2, <3>3
    <2> QED
      BY <2>1, <2>2
  <1> QED
    BY <1>2, <1>4, <1>5, <1>6, <1>7

LEMMA NumberRequestStep == ASSUME WarningInv, IInv', NEW r \in Requests, NumberRequest(r) PROVE WarningInv'
  <1>1. /\ Reserve(r)
        /\ UNCHANGED <<warning, fresh, stored, warn, lock, work, modal, issued, reported, journal>>
    BY DEF NumberRequest, runtimeVars
  <1>2. TypeOK'
    <2>1. NumberingTypeOK'
      BY DEF IInv
    <2> QED
      BY <1>1, <2>1 DEF WarningInv, TypeOK
  <1>3. WorkShape' /\ RowHeld'
    BY <1>1 DEF WarningInv, WorkShape, RowHeld
  <1>4. Acknowledged' = Acknowledged /\ \A v : NotYetLogged(v)' = NotYetLogged(v)
    BY <1>1, SameLog
  <1>5. LogAgrees' /\ LastAcknowledged'
    BY <1>1, <1>4 DEF WarningInv, LogAgrees, LastAcknowledged, NotYetLogged
  <1>6. (RowLocks => ActivityCounted)'
    BY <1>1 DEF WarningInv, ActivityCounted
  <1>7. CASE ~Insert(r)
    <2>1. /\ UNCHANGED <<given, row>>
          /\ \A q \in Requests : att'[q].at \in Active => att[q].at \in Active
      BY <1>1, <1>7, ReadingStep
    <2>2. OneMessage'
      <3>1. \A q \in Requests : Busy(q)' => Busy(q)
        BY <1>1, <2>1 DEF Busy
      <3> QED
        BY <2>1, <3>1 DEF WarningInv, OneMessage, given
    <2>3. /\ Stored' = Stored /\ Prompts' = Prompts /\ PromptCount' = PromptCount
          /\ \A q \in Requests : Earlier(q)' = Earlier(q)
      <3>1. Stored' = Stored
        BY <2>1 DEF Stored
      <3> QED
        BY <2>1, <3>1 DEF Prompts, PromptCount, Earlier, Highest, given
    <2>4. Counted'
      BY <2>3 DEF WarningInv, Counted, Highest
    <2>5. Admitted'
      <3>1. DueBefore(PromptCount + 1)' = DueBefore(PromptCount + 1)
        BY <1>1, <2>3 DEF DueBefore
      <3> QED
        BY <1>1, <1>4, <2>1, <2>3, <3>1 DEF WarningInv, Admitted
    <2>6. (OneChat => NoPromptUnwarned)'
      <3> SUFFICES ASSUME OneChat, warning.must_acknowledge, NEW q \in Stored
                   PROVE  DueBefore(row[q].prompt)' \subseteq Acknowledged
        BY <1>1, <1>4, <2>3 DEF NoPromptUnwarned
      <3>1. DueBefore(row[q].prompt)' = DueBefore(row[q].prompt)
        BY <1>1, <2>1 DEF DueBefore
      <3> QED
        BY <3>1 DEF WarningInv, NoPromptUnwarned
    <2> QED
      BY <1>2, <1>3, <1>5, <1>6, <2>2, <2>4, <2>5, <2>6 DEF WarningInv
  <1>8. CASE Insert(r)
    <2>1. /\ Stored' = Stored \union {r} /\ row'[r].prompt = att[r].prompt
          /\ \A q \in Stored \ {r} : row'[q] = row[q]
          /\ att'[r].at = "reserved" /\ att[r].at = "insert"
          /\ \A q \in Requests \ {r} : att'[q] = att[q]
          /\ UNCHANGED message
          /\ Prompts' = Prompts \union {att[r].prompt}
          /\ \/ \E q \in Earlier(r) : att[r].prompt = row[q].prompt
             \/ Earlier(r) = {} /\ att[r].prompt = PromptCount + 1
      BY <1>8, InsertPrompt
    <2>2. \A q \in Requests : Busy(q)' => Busy(q)
      BY <1>1, <2>1 DEF Busy, Active
    <2>3. OneMessage'
      BY <2>1, <2>2 DEF WarningInv, OneMessage
    <2>4. Counted'
      <3>1. PromptCount \in Nat /\ PromptCount \in Prompts \union {0} /\ \A k \in Prompts : k \in Nat /\ k <= PromptCount
        BY PromptsUpTo
      <3>2. CASE \E q \in Earlier(r) : att[r].prompt = row[q].prompt
        <4>1. att[r].prompt \in Prompts
          BY <3>2 DEF Prompts, Earlier
        <4>2. Prompts' = Prompts
          BY <2>1, <4>1
        <4> QED
          BY <4>2 DEF WarningInv, Counted, Highest
      <3>3. CASE att[r].prompt = PromptCount + 1
        <4>1. /\ PromptCount + 1 \in Prompts'
              /\ \A k \in Prompts' : k <= PromptCount + 1
          BY <2>1, <3>1, <3>3
        <4> QED
          BY <4>1 DEF Counted, Highest
      <3> QED
        BY <2>1, <3>2, <3>3
    <2>5. Admitted'
      <3> SUFFICES ASSUME OneChat, NEW q \in Requests, att'[q].at \in Active
                   PROVE  Earlier(q)' # {}
        BY DEF Admitted
      <3>1. q # r /\ Busy(q) /\ Busy(r)
        BY <2>1 DEF Busy, Active
      <3>2. message[r] = message[q] /\ message[r] # NoMessage
        BY <3>1 DEF WarningInv, OneMessage
      <3> QED
        BY <2>1, <3>2 DEF Earlier
    <2>6. (OneChat => NoPromptUnwarned)'
      <3> SUFFICES ASSUME OneChat, warning.must_acknowledge, NEW q \in Stored'
                   PROVE  DueBefore(row[q].prompt)' \subseteq Acknowledged
        BY <1>1, <1>4 DEF NoPromptUnwarned
      <3>1. \A n : DueBefore(n)' = DueBefore(n)
        BY <1>1 DEF DueBefore
      <3>2. \A a \in Stored : DueBefore(row[a].prompt) \subseteq Acknowledged
        BY DEF WarningInv, NoPromptUnwarned
      <3>3. CASE q # r
        <4>1. DueBefore(row[q].prompt)' = DueBefore(row[q].prompt)
          BY <1>1, <2>1, <3>3 DEF DueBefore
        <4> QED
          BY <2>1, <3>2, <3>3, <4>1
      <3>4. CASE q = r
        <4>1. DueBefore(row[q].prompt)' = DueBefore(att[r].prompt)
          BY <1>1, <2>1, <3>4 DEF DueBefore
        <4>2. DueBefore(att[r].prompt) \subseteq Acknowledged
          <5>1. CASE \E a \in Earlier(r) : att[r].prompt = row[a].prompt
            BY <3>2, <5>1 DEF Earlier
          <5>2. CASE Earlier(r) = {} /\ att[r].prompt = PromptCount + 1
            BY <2>1, <5>2 DEF WarningInv, Admitted, Active
          <5> QED
            BY <2>1, <5>1, <5>2
        <4> QED
          BY <4>1, <4>2
      <3> QED
        BY <3>3, <3>4
    <2> QED
      BY <1>2, <1>3, <1>5, <1>6, <2>3, <2>4, <2>5, <2>6 DEF WarningInv
  <1> QED
    BY <1>7, <1>8

------------------------------------------------------------------------------
(***************************************************************************)
(* The invariant and what follows from it.                                 *)
(***************************************************************************)

LEMMA Initially == Init => WarningInv
  <1> SUFFICES ASSUME Init PROVE WarningInv
    OBVIOUS
  <1>1. IInv
    BY InitIInv DEF Init
  <1>2. NoTrigger \in TriggerType
    BY DEF NoTrigger, TriggerType
  <1>3. NewWarningState \in WarningStateType
    BY <1>2 DEF NewWarningState, WarningStateType
  <1>4. /\ Idle \in WorkType /\ Idle.op = "idle" /\ Idle.at = "idle" /\ Idle.token = 0
        /\ Idle.view = NewWarningState
    BY <1>3 DEF Idle, WorkType
  <1>5. /\ warning \in Cadences /\ fresh \in BOOLEAN /\ stored = ~fresh /\ warn = NewWarningState
        /\ lock = "free" /\ work = [p \in Callers |-> Idle] /\ modal = [t \in Tabs |-> 0]
        /\ issued = 0 /\ reported = 0 /\ journal = <<>>
    BY DEF Init
  <1>6. warn.token = 0 /\ warn.elapsed = 0 /\ warn.last = NoTrigger
    BY <1>5 DEF NewWarningState
  <1>7. \A p \in Callers : work[p] = Idle
    BY <1>5
  <1>8. TypeOK
    <2>1. issued \in 0..MaxTokens /\ modal \in [Tabs -> 0..issued] /\ reported \in Nat
      BY <1>5, WarningAssumption
    <2>2. journal \in Seq(EntryType)
      BY <1>5
    <2>3. \A p \in Callers : work[p].token <= issued /\ work[p].view.token <= issued
      BY <1>4, <1>5, <1>6, <1>7
    <2>4. stored \in BOOLEAN /\ (~fresh => stored)
      BY <1>5
    <2>5. /\ warning \in Cadences /\ fresh \in BOOLEAN /\ warn \in WarningStateType
          /\ work \in [Callers -> WorkType] /\ lock \in Callers \union {"free"} /\ warn.token <= issued
      BY <1>3, <1>4, <1>5, <1>6
    <2>6. NumberingTypeOK
      BY <1>1 DEF IInv
    <2> QED
      BY <2>1, <2>2, <2>3, <2>4, <2>5, <2>6 DEF TypeOK
  <1>9. WorkShape /\ RowHeld
    BY <1>4, <1>5, <1>7 DEF WorkShape, RowHeld
  <1>10. LogAgrees
    <2>1. DOMAIN journal = {}
      BY <1>5
    <2> QED
      BY <1>4, <1>7, <2>1 DEF LogAgrees, NotYetLogged
  <1>11. LastAcknowledged
    BY <1>4, <1>5, <1>6, <1>7 DEF LastAcknowledged
  <1>12. \A r \in Requests : att[r].at = "waiting" /\ row[r] = NoRow
    BY DEF Init, NumberingInit, NewAttempt
  <1>13. Stored = {} /\ Prompts = {}
    BY <1>12 DEF Stored, NoRow, Prompts
  <1>14. OneMessage /\ Admitted
    BY <1>4, <1>7, <1>12 DEF OneMessage, Admitted, Busy, Active, Callers
  <1>15. Counted /\ NoPromptUnwarned
    BY <1>13 DEF Counted, Highest, NoPromptUnwarned
  <1>16. ActivityCounted
    BY <1>5, <1>6 DEF ActivityCounted
  <1> QED
    BY <1>1, <1>8, <1>9, <1>10, <1>11, <1>14, <1>15, <1>16 DEF WarningInv

LEMMA Inductive == ASSUME WarningInv, [Next]_vars PROVE WarningInv'
  <1>1. CASE Next
    <2>1. IInv'
      BY <1>1, NumbersAsBefore, NextIInv DEF WarningInv
    <2>2. ASSUME NEW p \in Callers, Arrive(p) PROVE WarningInv'
      BY <2>1, <2>2, LoadStep DEF Arrive
    <2>3. ASSUME NEW p \in Callers, Handle(p) PROVE WarningInv'
      BY <2>1, <2>3, CreateStep, AddActivityStep, ReloadStep, PayloadStep, DisplayStep, AcknowledgeStep
         DEF Handle
    <2>4. ASSUME NEW r \in Requests, NumberRequest(r) PROVE WarningInv'
      BY <2>1, <2>4, NumberRequestStep
    <2> QED
      BY <1>1, <2>2, <2>3, <2>4 DEF Next
  <1>2. CASE UNCHANGED vars
    <2>1. /\ UNCHANGED numberingVars
          /\ UNCHANGED <<warning, fresh, stored, warn, lock, work, modal, issued, reported, journal>>
      BY <1>2 DEF vars, runtimeVars
    <2>2. IInv'
      BY <2>1, NextIInv DEF WarningInv
    <2>3. Acknowledged' = Acknowledged /\ \A v : NotYetLogged(v)' = NotYetLogged(v)
      BY <2>1, SameLog
    <2>4. Admitted' /\ Counted' /\ (OneChat => NoPromptUnwarned)'
      BY <2>1, <2>3, PromptsStay
    <2>5. TypeOK'
      <3>1. NumberingTypeOK'
        BY <2>2 DEF IInv
      <3> QED
        BY <2>1, <3>1 DEF WarningInv, TypeOK
    <2>6. WorkShape' /\ RowHeld'
      BY <2>1 DEF WarningInv, WorkShape, RowHeld
    <2>7. LogAgrees' /\ LastAcknowledged'
      BY <2>1, <2>3 DEF WarningInv, LogAgrees, LastAcknowledged, NotYetLogged
    <2>8. OneMessage'
      BY <2>1 DEF WarningInv, OneMessage, Busy, numberingVars, given
    <2>9. (RowLocks => ActivityCounted)'
      BY <2>1 DEF WarningInv, ActivityCounted
    <2> QED
      BY <2>2, <2>4, <2>5, <2>6, <2>7, <2>8, <2>9 DEF WarningInv
  <1> QED
    BY <1>1, <1>2

LEMMA WarningInvariance == Spec => []WarningInv
  BY Initially, Inductive, PTL DEF Spec

\* Rows, handlers, modals and the log hold what their columns can hold: a token
\* that a handler or a page names was issued.
THEOREM WarningTypes == Spec => []TypeOK
  <1>1. WarningInv => TypeOK
    BY DEF WarningInv
  <1> QED
    BY <1>1, WarningInvariance, PTL

\* The composition numbers requests as prepare_request alone does: the check
\* before a prompt only decides which requests get as far.
THEOREM NumberedAsAlone == Spec => NumberingSpec
  <1>1. Init => NumberingInit
    BY DEF Init
  <1>2. [Next]_vars => [NumberingNext]_numberingVars
    BY NumbersAsBefore DEF vars
  <1> QED
    BY <1>1, <1>2, PTL DEF Spec, NumberingSpec

\* chat_completion admits a prompt to its numbering only with nothing due, and
\* while the participant waits for one prompt before the next no number passes
\* a required warning by.  No row lock is needed for it.
THEOREM PromptsWarned == OneChat => (Spec => []NoPromptUnwarned)
  <1> SUFFICES ASSUME OneChat PROVE Spec => []NoPromptUnwarned
    OBVIOUS
  <1>1. WarningInv => NoPromptUnwarned
    BY DEF WarningInv
  <1> QED
    BY <1>1, WarningInvariance, PTL

\* A database that honours FOR UPDATE loses no report of experiment_activity,
\* as soon as the row exists.
THEOREM ActivityKept == RowLocks => (Spec => []ActivityCounted)
  <1> SUFFICES ASSUME RowLocks PROVE Spec => []ActivityCounted
    OBVIOUS
  <1>1. WarningInv => ActivityCounted
    BY DEF WarningInv
  <1> QED
    BY <1>1, WarningInvariance, PTL

\* On such a database warning_display and warning_acknowledge log a token once
\* each, however many tabs report it.
THEOREM WarningsLoggedOnce == RowLocks => (Spec => []LoggedOnce)
  <1> SUFFICES ASSUME RowLocks PROVE Spec => []LoggedOnce
    OBVIOUS
  <1>1. WarningInv => LoggedOnce
    BY DEF WarningInv, LogAgrees, LoggedOnce
  <1> QED
    BY <1>1, WarningInvariance, PTL

==============================================================================
