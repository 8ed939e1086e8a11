--------------------------- MODULE ResponseDelivery ---------------------------
(****************************************************************************)
(* How the answer of a language model reaches a participant whose condition *)
(* changes its timing (backend/open_webui/utils/experiment_perturbations.py,*)
(* wrap_streaming_response and the generator of apply_nonstream_timing),    *)
(* and what the row of the request says of it meanwhile, which a reloaded   *)
(* page is shown (routers/experiments.py, response_reveal_snapshot).        *)
(* One request of one chat task.  Every await and every yield is a point at *)
(* which the task may be cancelled or the reader of the stream may fail.    *)
(* Text is a sequence of characters: n is the n-th one, a letter, and -n is *)
(* the n-th one when it is whitespace.  A reveal within a target duration,  *)
(* slow or fast, is the mode SLOW; a fast reveal with a rate is FAST.       *)
(****************************************************************************)
EXTENDS Integers, Sequences, FiniteSets, SequencesExt

CONSTANTS
    Timings,     \* the timings of the conditions to check
    MaxText,     \* bound: characters of the answer,
    MaxWordText, \* and of one that is cut by words
    MaxDelta,    \* bound: characters of one event of the provider
    MaxMarks,    \* bound: terminal events of the provider
    Checkpoint   \* characters between two saved reveal cursors (200)

TimingType == [mode : {"NORMAL", "DELAYED", "SLOW", "FAST"}, unit : {"CHARACTER", "WORD", "CHUNK"},
               quick : BOOLEAN, min : Nat \ {0}, max : Nat \ {0}]

ASSUME DeliveryAssumption ==
    /\ Timings \subseteq TimingType
    /\ \A t \in Timings : t.min <= t.max /\ (t.mode # "SLOW" => t.min = t.max)
    /\ {MaxText, MaxWordText, MaxMarks} \subseteq Nat /\ {MaxDelta, Checkpoint} \subseteq Nat \ {0}

VARIABLES
    timing,    \* context.timing
    whole,     \* the provider answered with one JSON body, not a stream
    pc,        \* where the generator is
    received,  \* the text the provider sent so far
    marks,     \* terminal events the provider sent so far
    pending,   \* pending_text or pending_events of the chunker, as deltas
    size,      \* _target() of the chunker's index
    pieces,    \* texts to emit: slow_buffer, buffered or the parts of a line
    held,      \* events in terminal_buffer
    out,       \* events the participant received
    cursor,    \* reveal_cursor of the generator
    saved,     \* its value (of the text received, while reading) at the last checkpoint
    row        \* the row: status, buffered_output, reveal_cursor

vars == <<timing, whole, pc, received, marks, pending, size, pieces, held, out, cursor, saved, row>>
reading == <<received, marks>>
chunker == <<pending, size>>
reveal == <<cursor, saved>>
fixed == <<timing, whole>>

Nothing == <<0>>                 \* buffered_output is null
Space(c) == c < 0
\* The texts of at most n characters that may follow the first `from' ones:
\* where whitespace is only makes a difference to words.
Texts(from, n) ==
    UNION {{[i \in 1..k |-> IF i \in spaces THEN -(from + i) ELSE from + i] :
              spaces \in (IF timing.unit = "WORD" THEN SUBSET (1..k) ELSE {{}})} : k \in 1..n}

Text(t) == [type |-> "text", text |-> t]
Mark == [type |-> "mark", text |-> <<>>]
Other == [type |-> "other", text |-> <<>>]
Failure == [type |-> "error", text |-> <<>>]
TextOf(events) == FlattenSeq([i \in DOMAIN events |-> events[i].text])
MarksOf(events) == Cardinality({i \in DOMAIN events : events[i].type = "mark"})

\* The modes that keep terminal events until the text is out.
Holding == timing.mode \in {"DELAYED", "SLOW"} \/ whole

Slice(t, k) == [i \in 1..(Len(t) + k - 1) \div k |->
                  SubSeq(t, (i - 1) * k + 1, IF i * k < Len(t) THEN i * k ELSE Len(t))]

-----------------------------------------------------------------------------
(* Words, as re.findall(r'\S+\s*', text) finds them: a word ends where the  *)
(* next one starts, and whitespace before the first one is in none.         *)

Starts(t) == {i \in DOMAIN t : ~Space(t[i]) /\ (i = 1 \/ Space(t[i - 1]))}
StartOf(t, n) == CHOOSE i \in Starts(t) : Cardinality({j \in Starts(t) : j < i}) = n - 1
Words(t, from, to) == SubSeq(t, StartOf(t, from),
                             IF to < Cardinality(Starts(t)) THEN StartOf(t, to + 1) - 1 ELSE Len(t))
Stripped(t) == IF Starts(t) = {} THEN <<>> ELSE SubSeq(t, StartOf(t, 1), Len(t))

\* _split_sse_content in units of words: a line of one part stays as it is.
WordSlices(t, k) ==
    LET n == (Cardinality(Starts(t)) + k - 1) \div k
        last(i) == IF i * k < Cardinality(Starts(t)) THEN i * k ELSE Cardinality(Starts(t))
    IN  IF n <= 1 THEN <<t>> ELSE [i \in 1..n |-> Words(t, (i - 1) * k + 1, last(i))]

Split(t) == IF timing.mode = "NORMAL" THEN <<t>>
            ELSE IF timing.unit = "WORD" THEN WordSlices(t, timing.max)
            ELSE Slice(t, timing.max)

-----------------------------------------------------------------------------
(* The chunker.  `pending' is what was fed and not drained: one entry per   *)
(* event when the unit is CHUNK, the concatenation otherwise.               *)

PendingText == FlattenSeq(pending)
ByEvent == timing.unit = "CHUNK" /\ ~whole
ByWord == timing.unit = "WORD" /\ timing.mode = "SLOW"
Minimum(a, b) == IF a < b THEN a ELSE b

\* How many units may be taken, and the last word only when it is complete.
Complete(final) ==
    IF ByEvent THEN Len(pending)
    ELSE IF ByWord
         THEN LET n == Cardinality(Starts(PendingText))
              IN  IF final \/ (PendingText # <<>> /\ Space(Last(PendingText))) THEN n
                  ELSE IF n = 0 THEN 0 ELSE n - 1
         ELSE Len(PendingText)
Available == IF ByEvent THEN Len(pending)
             ELSE IF ByWord THEN Cardinality(Starts(PendingText)) ELSE Len(PendingText)
\* Seeded defect: the flush takes only full chunks.
CanTakeFull(final) == Available > 0 /\ Complete(final) >= size

CanTake(final) == Available > 0 /\ (final \/ Complete(final) >= size)

Content == LET k == Minimum(size, Available) IN
    IF ByEvent THEN FlattenSeq(SubSeq(pending, 1, k))
    ELSE IF ByWord THEN Words(PendingText, 1, k)
    ELSE SubSeq(PendingText, 1, k)

\* The text is cut by the length of the content that was taken.
\* Seeded defect: the cut takes one character more.
RemainingSkips == IF ByEvent THEN SubSeq(pending, Minimum(size, Available) + 1, Len(pending))
                  ELSE <<SubSeq(PendingText, Len(Content) + 2, Len(PendingText))>>

Remaining == IF ByEvent THEN SubSeq(pending, Minimum(size, Available) + 1, Len(pending))
             ELSE <<SubSeq(PendingText, Len(Content) + 1, Len(PendingText))>>

\* _drain: a chunk of the deterministic size of its index, after the last
\* event of the provider also a shorter one.
Drain == /\ pc \in {"drain", "flush"}
         /\ IF CanTake(pc = "flush")
            THEN /\ pieces' = Append(pieces, Content)
                 /\ pending' = Remaining
                 /\ size' \in timing.min..timing.max
                 /\ UNCHANGED <<pc, saved, row>>
            ELSE /\ UNCHANGED <<pieces, chunker>>
                 /\ IF pc = "flush" THEN pc' = "halve" /\ UNCHANGED <<saved, row>>
                    ELSE /\ pc' = "read"
                         /\ IF Len(received) - saved >= Checkpoint
                            THEN /\ saved' = Len(received)
                                 /\ row' = [row EXCEPT !.content = received, !.cursor = cursor]
                            ELSE UNCHANGED <<saved, row>>
         /\ UNCHANGED <<fixed, reading, held, out, cursor>>

\* A single chunk is cut in two, so that there is something to pace; a body of
\* which no chunk could be made is one.
Halve == /\ pc = "halve"
         /\ pieces' = CASE Len(pieces) = 1 /\ Len(pieces[1]) > 1 ->
                             LET t == pieces[1]  mid == Len(t) \div 2
                             IN  <<SubSeq(t, 1, mid), SubSeq(t, mid + 1, Len(t))>>
                        [] pieces = <<>> /\ whole -> <<received>>
                        [] OTHER -> pieces
         /\ pc' = IF whole \/ pieces = <<>> THEN "store" ELSE "first"
         /\ UNCHANGED <<fixed, reading, chunker, held, out, reveal, row>>

-----------------------------------------------------------------------------
(* The provider.                                                           *)

\* Text arrives: it is buffered, fed to the chunker, or emitted in parts.
ProviderText(t) ==
    /\ pc = "read" /\ ~whole
    /\ received' = received \o t
    /\ IF timing.mode = "SLOW"
       THEN /\ pending' = IF ByEvent THEN Append(pending, t) ELSE <<PendingText \o t>>
            /\ pc' = "drain" /\ UNCHANGED pieces
       ELSE /\ pieces' = IF timing.mode = "DELAYED" THEN Append(pieces, t) ELSE Split(t)
            /\ pc' = IF timing.mode = "DELAYED" THEN "read" ELSE "emit"
            /\ UNCHANGED pending
    /\ UNCHANGED <<fixed, marks, size, held, out, reveal, row>>

\* [DONE], response.completed and the like.
ProviderMark ==
    /\ pc = "read" /\ ~whole /\ marks < MaxMarks
    /\ marks' = marks + 1
    /\ IF Holding THEN held' = held + 1 /\ UNCHANGED out
                  ELSE out' = Append(out, Mark) /\ UNCHANGED held
    /\ UNCHANGED <<fixed, pc, received, chunker, pieces, reveal, row>>

\* Any other event, such as reasoning or a tool call, is passed on at once.
ProviderOther ==
    /\ pc = "read" /\ ~whole /\ Other \notin ToSet(out)
    /\ out' = Append(out, Other)
    /\ UNCHANGED <<fixed, pc, reading, chunker, pieces, held, reveal, row>>

ProviderEnds ==
    /\ pc = "read" /\ ~whole
    /\ pc' = CASE timing.mode = "SLOW" -> "flush"
               [] timing.mode = "DELAYED" -> "store"
               [] OTHER -> "complete"
    /\ UNCHANGED <<fixed, reading, chunker, pieces, held, out, reveal, row>>

\* A JSON body with text: it is cut up and revealed like a stream, with a
\* closing event and [DONE] of its own.
ProviderAnswers(t) ==
    /\ pc = "read" /\ whole
    /\ received' = t /\ marks' = 2 /\ held' = 2
    /\ pending' = <<IF ByWord THEN Stripped(t) ELSE t>>
    /\ pc' = "flush"
    /\ UNCHANGED <<fixed, size, pieces, out, reveal, row>>

\* An error of the provider bypasses the delay and ends the stream.
ProviderError ==
    /\ pc = "read"
    /\ out' = IF whole THEN out ELSE Append(out, Failure)
    /\ row' = [row EXCEPT !.status = "FAILED"]
    /\ pc' = "done"
    /\ UNCHANGED <<fixed, reading, chunker, pieces, held, reveal>>

\* NORMAL and FAST: the parts of a line, with a sleep between them.
Emit == /\ pc = "emit"
        /\ out' = Append(out, Text(Head(pieces)))
        /\ pieces' = Tail(pieces)
        /\ pc' = IF Len(pieces) = 1 THEN "read" ELSE "emit"
        /\ UNCHANGED <<fixed, reading, chunker, held, reveal, row>>

-----------------------------------------------------------------------------
(* The reveal of buffered text.                                            *)

\* SLOW: the first piece goes out before the text is stored.
First == /\ pc = "first"
         /\ out' = Append(out, Text(Head(pieces)))
         /\ pieces' = Tail(pieces)
         /\ cursor' = Len(Head(pieces))
         /\ pc' = "store"
         /\ UNCHANGED <<fixed, reading, chunker, held, saved, row>>

\* The row gets the whole text and what of it was revealed.
\* Seeded defect: all of it counts as revealed.
StoreRevealed ==
    /\ pc = "store"
    /\ row' = [row EXCEPT !.content = received, !.cursor = Len(received)]
    /\ saved' = 0
    /\ pieces' = IF timing.mode = "DELAYED" /\ ~whole /\ timing.quick
                 THEN FlattenSeq([i \in DOMAIN pieces |-> Slice(pieces[i], timing.max)]) ELSE pieces
    /\ pc' = "reveal"
    /\ UNCHANGED <<fixed, reading, chunker, held, out, cursor>>

Store == /\ pc = "store"
         /\ row' = IF timing.mode = "SLOW" /\ received = <<>> THEN row
                   ELSE [row EXCEPT !.content = received, !.cursor = cursor]
         /\ saved' = 0
         /\ pieces' = IF timing.mode = "DELAYED" /\ ~whole /\ timing.quick
                      THEN FlattenSeq([i \in DOMAIN pieces |-> Slice(pieces[i], timing.max)]) ELSE pieces
         /\ pc' = "reveal"
         /\ UNCHANGED <<fixed, reading, chunker, held, out, cursor>>

Reveal == /\ pc = "reveal" /\ pieces # <<>>
          /\ out' = Append(out, Text(Head(pieces)))
          /\ pc' = "shown"
          /\ UNCHANGED <<fixed, reading, chunker, pieces, held, reveal, row>>

\* The reader asked for more: the piece counts as revealed.
DueCheckpoint(at) == IF whole THEN at = Len(received) \/ at % Checkpoint < Len(Head(pieces))
                              ELSE at - saved >= Checkpoint
Shown == /\ pc = "shown"
         /\ cursor' = cursor + Len(Head(pieces))
         /\ pieces' = Tail(pieces)
         /\ IF DueCheckpoint(cursor')
            THEN saved' = cursor' /\ row' = [row EXCEPT !.cursor = cursor']
            ELSE UNCHANGED <<saved, row>>
         /\ pc' = "reveal"
         /\ UNCHANGED <<fixed, reading, chunker, held, out>>

Revealed == /\ pc = "reveal" /\ pieces = <<>>
            /\ row' = IF whole \/ received = <<>> THEN row ELSE [row EXCEPT !.cursor = Len(received)]
            /\ pc' = "marks"
            /\ UNCHANGED <<fixed, reading, chunker, pieces, held, out, reveal>>

Marks == /\ pc = "marks"
         /\ IF held > 0 THEN out' = Append(out, Mark) /\ held' = held - 1 /\ UNCHANGED pc
                        ELSE pc' = "complete" /\ UNCHANGED <<out, held>>
         /\ UNCHANGED <<fixed, reading, chunker, pieces, reveal, row>>

CompleteRow == /\ pc = "complete"
               /\ row' = [row EXCEPT !.status = "COMPLETED", !.content = Nothing]
               /\ pc' = "done"
               /\ UNCHANGED <<fixed, reading, chunker, pieces, held, out, reveal>>

-----------------------------------------------------------------------------
(* The task around the generator.                                          *)

\* Between two awaits nothing else happens.
Interruptible == pc \notin {"drain", "flush", "halve", "ended"}

\* stop_task: the generator and process_chat both record the cancellation.
Cancel == /\ Interruptible
          /\ row' = [row EXCEPT !.status = "CANCELLED"]
          /\ pc' = "ended"
          /\ UNCHANGED <<fixed, reading, chunker, pieces, held, out, reveal>>

\* The provider's connection or what reads the stream raises; only
\* process_chat sees the second.
\* Seeded defect: an error of the reader is not recorded.
FailQuietly == /\ Interruptible
               /\ row' = row
               /\ pc' = "ended"
               /\ UNCHANGED <<fixed, reading, chunker, pieces, held, out, reveal>>

Fail == /\ Interruptible
        /\ row' = [row EXCEPT !.status = "FAILED"]
        /\ pc' = "ended"
        /\ UNCHANGED <<fixed, reading, chunker, pieces, held, out, reveal>>

Finish == /\ pc = "done"
          /\ pc' = "ended"
          /\ UNCHANGED <<fixed, reading, chunker, pieces, held, out, reveal, row>>

-----------------------------------------------------------------------------
Init == /\ timing \in Timings
        /\ whole \in (IF timing.mode = "NORMAL" \/ (timing.mode = "DELAYED" /\ ~timing.quick)
                      THEN {FALSE} ELSE BOOLEAN)
        /\ pc = "read" /\ received = <<>> /\ marks = 0
        /\ pending = <<>> /\ size \in timing.min..timing.max
        /\ pieces = <<>> /\ held = 0 /\ out = <<>>
        /\ cursor = 0 /\ saved = 0
        /\ row = [status |-> "PENDING", content |-> Nothing, cursor |-> 0]

Most == IF timing.unit = "WORD" THEN MaxWordText ELSE MaxText
Delta == Minimum(MaxDelta, Most - Len(received))
Provider == \/ \E t \in Texts(Len(received), Delta) : ProviderText(t)
            \/ \E t \in Texts(0, Most) : ProviderAnswers(t)
            \/ ProviderMark \/ ProviderOther \/ ProviderEnds \/ ProviderError
Generator == \/ Drain \/ Halve \/ Emit \/ First \/ Store \/ Reveal \/ Shown
             \/ Revealed \/ Marks \/ CompleteRow \/ Finish
Next == Provider \/ Generator \/ Cancel \/ Fail

Spec == Init /\ [][Next]_vars

\* The provider ends its answer or fails (its client has a timeout), and the
\* event loop goes on with the generator.
FairSpec == Spec /\ WF_vars(Provider) /\ WF_vars(Generator)

-----------------------------------------------------------------------------
\* What a page that is loaded again gets from response_reveal_snapshot.
Snapshot == IF row.content = Nothing THEN <<>>
            ELSE SubSeq(row.content, 1, Minimum(row.cursor, Len(row.content)))

Letters(t) == SelectSeq(t, LAMBDA c : ~Space(c))

\* No whitespace character begins the text or follows another one.
Tidy(t) == \A i \in DOMAIN t : Space(t[i]) => i > 1 /\ ~Space(t[i - 1])

\* The cut keeps every character.  A reveal at so many words a second, which
\* cuts each line for itself, drops the whitespace before the first word of a
\* line of several parts; words within a target duration are right of tidy texts.
FastWords == timing.mode = "FAST" /\ timing.unit = "WORD" /\ ~whole
Exact == ~FastWords /\ (ByWord => Tidy(received))

\* Types; nothing waits in the chunker once the reveal began, and the cursor is
\* within the text.
TypeOK ==
    /\ timing \in Timings /\ whole \in BOOLEAN
    /\ pc \in {"read", "drain", "flush", "halve", "first", "store", "emit", "reveal", "shown",
               "marks", "complete", "done", "ended"}
    /\ size \in timing.min..timing.max /\ held \in 0..2 + MaxMarks /\ marks \in 0..2 + MaxMarks
    /\ row.status \in {"PENDING", "COMPLETED", "FAILED", "CANCELLED"}
    /\ Exact => /\ cursor <= Len(received) /\ row.cursor <= Len(received)
                /\ pc \in {"reveal", "shown", "marks"} => PendingText = <<>>

\* The participant reads the provider's text, in order and without gaps or
\* repetitions, however the provider cuts it up and the generator cuts it anew,
\* buffers and delays it: to the letter wherever the cut keeps every character,
\* and at words a second with no more than whitespace missing.
TextInOrder ==
    /\ Exact => IsPrefix(TextOf(out), received)
    /\ FastWords => IsPrefix(Letters(TextOf(out)), Letters(received))

\* Whatever happens to whitespace, no letter of the answer is lost or shown twice.
LettersInOrder == IsPrefix(Letters(TextOf(out)), Letters(received))

\* A page that is loaded again never shows more of the answer than the
\* participant already saw, although buffered_output holds all of it.
SnapshotBehind == Exact => IsPrefix(Snapshot, TextOf(out))

\* A request is COMPLETED only when all text and every terminal event are out.
CompletedIsWhole ==
    row.status = "COMPLETED" =>
      /\ MarksOf(out) = marks
      /\ Exact => TextOf(out) = received
      /\ FastWords => Letters(TextOf(out)) = Letters(received)

\* A buffering mode emits terminal events after all text: the chat would close
\* the message at [DONE] and drop what follows.
MarksLast == Holding => \A i, j \in DOMAIN out : out[i].type = "mark" /\ out[j].type = "text" => j < i

\* Every request leaves PENDING, whoever ends it: the provider, an error of
\* either side, or the participant.
Settles == <>[](pc = "ended" /\ row.status # "PENDING")
=============================================================================
