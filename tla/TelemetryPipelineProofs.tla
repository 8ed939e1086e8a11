----------------------- MODULE TelemetryPipelineProofs -----------------------
(***************************************************************************)
(* No telemetry event is lost silently and none is counted twice, for any  *)
(* number of events, faults and requests under way and any limits.         *)
(*                                                                         *)
(* The worker removes a batch from its queue when the answer arrives and   *)
(* not when the server commits.  It can: while it waits nothing else       *)
(* changes the queue, so that the batch is still its beginning, and an     *)
(* answer is "ok" only after every event of the batch was stored, by this  *)
(* request or by an earlier one.                                           *)
(***************************************************************************)
EXTENDS TelemetryPipeline, TLAPS, SequenceTheorems, FiniteSetTheorems, WellFoundedInduction

\* The events that are anywhere.
Batched(s) == ToSet(req[s].batch)
Events == ToSet(pending) \cup ToSet(message) \cup ToSet(queue) \cup ToSet(job.event)
          \cup stored \cup UNION {Batched(s) : s \in Slots}

\* Events are numbered as they are made, and a number names one event.
EventsNumbered ==
  /\ \A e \in Events : e.id <= made /\ e.seq <= made
  /\ \A e, f \in Events : e.id = f.id => e = f
  /\ on.seq <= made

\* The batch that waits for its answer is the beginning of the queue, and an
\* answer says that it is stored.
Underway == SubSeq(queue, 1, job.batch)
BatchAwaited ==
  job.step = "await" =>
    /\ job.slot \in Slots /\ job.batch <= Len(queue)
    /\ req[job.slot].step \in {"sent", "summary", "events"} => req[job.slot].batch = Underway
    /\ req[job.slot].step = "done" /\ req[job.slot].answer = "ok" => ToSet(Underway) \subseteq stored

\* What the server has recognised as stored is stored.
SeenStored == \A s \in Slots : req[s].step = "events" => req[s].seen \subseteq Ids(stored)

\* A flush reports what was shed before it sends anything.
LossReported ==
  /\ job.step = "report" => \E e \in ToSet(job.event) : e.kind = "loss"
  /\ job.step \in {"send", "await", "off"} => dropped = 0

Pages(S) == {e \in S : e.kind = "page"}

\* The sum a request has loaded is not ahead of the events stored.
SumsBehind ==
  /\ IsFiniteSet(stored)
  /\ \A s \in Slots : req[s].sum <= Cardinality(Pages(stored))

IInv ==
  /\ TypeOK /\ EventsNumbered /\ BatchAwaited /\ SeenStored /\ LossReported /\ SumsBehind
  /\ NothingLostSilently /\ LossLeavesTrace /\ SummaryWithin

------------------------------------------------------------------------------
(***************************************************************************)
(* Sequences of events.                                                    *)
(***************************************************************************)

LEMMA ToSetOfEmpty == ToSet(<<>>) = {}
  BY DEF ToSet

LEMMA ToSetOfOne == ASSUME NEW e PROVE ToSet(<<e>>) = {e}
  BY DEF ToSet

\* The elements of a sequence are its elements at all positions.
LEMMA ToSetMembers ==
  ASSUME NEW S, NEW s \in Seq(S)
  PROVE  ToSet(s) \subseteq S /\ IsFiniteSet(ToSet(s))
  <1>1. DOMAIN s = 1..Len(s) /\ Len(s) \in Nat /\ \A i \in 1..Len(s) : s[i] \in S
    BY LenProperties, ElementOfSeq
  <1>2. IsFiniteSet(1..Len(s))
    BY <1>1, FS_Interval
  <1>3. IsFiniteSet({s[i] : i \in 1..Len(s)})
    <2> DEFINE f == [i \in 1..Len(s) |-> s[i]]
               T == {s[i] : i \in 1..Len(s)}
    <2>1. f \in Surjection(1..Len(s), T)
      BY DEF Surjection
    <2> QED
      BY <1>2, <2>1, FS_Surjection
  <1> QED
    BY <1>1, <1>3 DEF ToSet

LEMMA ToSetOfConcat ==
  ASSUME NEW S, NEW s \in Seq(S), NEW t \in Seq(S)
  PROVE  s \o t \in Seq(S) /\ ToSet(s \o t) = ToSet(s) \cup ToSet(t)
  <1>1. /\ s \o t \in Seq(S) /\ Len(s \o t) = Len(s) + Len(t)
        /\ \A i \in 1..Len(s) + Len(t) :
             (s \o t)[i] = IF i <= Len(s) THEN s[i] ELSE t[i - Len(s)]
    BY ConcatProperties
  <1>2. /\ DOMAIN s = 1..Len(s) /\ DOMAIN t = 1..Len(t) /\ DOMAIN (s \o t) = 1..Len(s \o t)
        /\ Len(s) \in Nat /\ Len(t) \in Nat
    BY <1>1, LenProperties
  <1>3. ASSUME NEW i \in 1..Len(s) PROVE s[i] \in ToSet(s \o t)
    BY <1>1, <1>2 DEF ToSet
  <1>4. ASSUME NEW i \in 1..Len(t) PROVE t[i] \in ToSet(s \o t)
    <2>1. Len(s) + i \in 1..Len(s) + Len(t) /\ ~(Len(s) + i <= Len(s)) /\ (Len(s) + i) - Len(s) = i
      BY <1>2
    <2>2. (s \o t)[Len(s) + i] = t[i]
      BY <1>1, <2>1
    <2> QED
      BY <1>1, <1>2, <2>1, <2>2 DEF ToSet
  <1>5. ASSUME NEW i \in 1..Len(s) + Len(t) PROVE (s \o t)[i] \in ToSet(s) \cup ToSet(t)
    <2>1. CASE i <= Len(s)
      BY <1>1, <1>2, <2>1 DEF ToSet
    <2>2. CASE i > Len(s)
      <3>1. i - Len(s) \in 1..Len(t) /\ ~(i <= Len(s))
        BY <1>2, <2>2
      <3> QED
        BY <1>1, <1>2, <3>1 DEF ToSet
    <2> QED
      BY <1>2, <2>1, <2>2
  <1> QED
    BY <1>1, <1>2, <1>3, <1>4, <1>5 DEF ToSet

\* Cutting a sequence in two loses nothing.
LEMMA ToSetOfParts ==
  ASSUME NEW S, NEW s \in Seq(S), NEW n \in 0..Len(s)
  PROVE  /\ SubSeq(s, 1, n) \in Seq(S) /\ Len(SubSeq(s, 1, n)) = n
         /\ SubSeq(s, n + 1, Len(s)) \in Seq(S) /\ Len(SubSeq(s, n + 1, Len(s))) = Len(s) - n
         /\ ToSet(s) = ToSet(SubSeq(s, 1, n)) \cup ToSet(SubSeq(s, n + 1, Len(s)))
         /\ ToSet(SubSeq(s, 1, n)) = {} => n = 0
  <1> DEFINE a == SubSeq(s, 1, n)
             b == SubSeq(s, n + 1, Len(s))
  <1>1. Len(s) \in Nat /\ DOMAIN s = 1..Len(s) /\ \A i \in 1..Len(s) : s[i] \in S
    BY LenProperties, ElementOfSeq
  <1>2. a \in Seq(S) /\ Len(a) = n /\ \A i \in 1..n : a[i] = s[i]
    BY <1>1, SubSeqProperties
  <1>3. b \in Seq(S) /\ Len(b) = Len(s) - n /\ \A i \in 1..Len(s) - n : b[i] = s[n + i]
    <2>1. n + 1 \in 1..Len(s) + 1 /\ Len(s) \in 0..Len(s)
      BY <1>1
    <2>2. /\ b \in Seq(S)
          /\ Len(b) = IF n + 1 <= Len(s) THEN Len(s) - (n + 1) + 1 ELSE 0
          /\ \A i \in 1..Len(s) - (n + 1) + 1 : b[i] = s[(n + 1) + i - 1]
      BY <2>1, SubSeqProperties
    <2> HIDE DEF b
    <2>3. Len(b) = Len(s) - n
      <3>0. Len(s) \in Nat /\ n \in Nat /\ n <= Len(s)
        BY <1>1
      <3>1. CASE n + 1 <= Len(s)
        <4>1. Len(s) - (n + 1) + 1 = Len(s) - n
          BY <1>1
        <4> QED
          BY <2>2, <3>1, <4>1
      <3>2. CASE ~(n + 1 <= Len(s))
        <4>1. 0 = Len(s) - n
          BY <3>0, <3>2
        <4> QED
          BY <2>2, <3>2, <4>1
      <3> QED
        BY <3>1, <3>2
    <2>4. ASSUME NEW i \in 1..Len(s) - n PROVE b[i] = s[n + i]
      <3>1. i \in 1..Len(s) - (n + 1) + 1 /\ (n + 1) + i - 1 = n + i
        BY <1>1
      <3> QED
        BY <2>2, <3>1
    <2> QED
      BY <2>2, <2>3, <2>4
  <1> HIDE DEF a, b
  <1>4. DOMAIN a = 1..n /\ DOMAIN b = 1..Len(s) - n
    BY <1>2, <1>3, LenProperties
  <1>5. ToSet(a) \subseteq ToSet(s) /\ ToSet(b) \subseteq ToSet(s)
    <2>1. ASSUME NEW i \in 1..n PROVE a[i] \in ToSet(s)
      <3>1. i \in 1..Len(s)
        BY <1>1
      <3> QED
        BY <1>1, <1>2, <3>1 DEF ToSet
    <2>2. ASSUME NEW i \in 1..Len(s) - n PROVE b[i] \in ToSet(s)
      <3>1. n + i \in 1..Len(s)
        BY <1>1
      <3> QED
        BY <1>1, <1>3, <3>1 DEF ToSet
    <2> QED
      BY <1>4, <2>1, <2>2 DEF ToSet
  <1>6. ASSUME NEW i \in 1..Len(s) PROVE s[i] \in ToSet(a) \cup ToSet(b)
    <2>1. CASE i <= n
      BY <1>2, <1>4, <2>1 DEF ToSet
    <2>2. CASE i > n
      <3>1. i - n \in 1..Len(s) - n /\ n + (i - n) = i
        BY <1>1, <2>2
      <3> QED
        BY <1>3, <1>4, <3>1 DEF ToSet
    <2> QED
      BY <1>1, <2>1, <2>2
  <1>7. ToSet(a) = {} => n = 0
    <2>1. CASE n = 0
      BY <2>1
    <2>2. CASE n # 0
      <3>1. 1 \in 1..n
        BY <1>1, <2>2
      <3>2. a[1] \in ToSet(a)
        BY <1>4, <3>1 DEF ToSet
      <3> QED
        BY <3>2
    <2> QED
      BY <2>1, <2>2
  <1> QED
    BY <1>1, <1>2, <1>3, <1>5, <1>6, <1>7 DEF ToSet, a, b

\* What remains of a longer list at its end.
LEMMA ToSetOfEnd ==
  ASSUME NEW S, NEW s \in Seq(S), NEW n \in 1..Len(s) + 1
  PROVE  SubSeq(s, n, Len(s)) \in Seq(S) /\ ToSet(SubSeq(s, n, Len(s))) \subseteq ToSet(s)
  <1>1. Len(s) \in Nat
    BY LenProperties
  <1>2. n - 1 \in 0..Len(s) /\ (n - 1) + 1 = n
    BY <1>1
  <1> DEFINE m == n - 1
  <1>3. m \in 0..Len(s)
    BY <1>2
  <1>4. m + 1 = n
    BY <1>2
  <1> HIDE DEF m
  <1>5. /\ SubSeq(s, m + 1, Len(s)) \in Seq(S)
        /\ ToSet(s) = ToSet(SubSeq(s, 1, m)) \cup ToSet(SubSeq(s, m + 1, Len(s)))
    BY <1>3, ToSetOfParts
  <1> QED
    BY <1>4, <1>5

------------------------------------------------------------------------------
(***************************************************************************)
(* The operators of the worker.                                            *)
(***************************************************************************)

\* enforceQueueLimit removes only what it counts.
LEMMA Appending ==
  ASSUME TypeOK, NEW events \in Seq(EventType), AppendToQueue(events)
  PROVE  /\ queue' \in Seq(EventType) /\ dropped' \in Nat /\ dropped' >= dropped
         /\ \E gone \in SUBSET EventType :
              /\ ToSet(queue) \cup ToSet(events) = gone \cup ToSet(queue')
              /\ shed' = shed \cup Ids(gone)
              /\ gone # {} => dropped' > 0
         /\ queued' = queued \cup Ids(ToSet(events))
  <1> DEFINE all == queue \o events
             n == Excess(all)
             gone == ToSet(SubSeq(all, 1, n))
  <1>1. queue \in Seq(EventType) /\ dropped \in Nat
    BY DEF TypeOK
  <1>2. all \in Seq(EventType) /\ ToSet(all) = ToSet(queue) \cup ToSet(events)
    BY <1>1, ToSetOfConcat
  <1> HIDE DEF all
  <1>3. n \in 0..Len(all)
    BY <1>2, LenProperties, PipelineAssumption DEF Excess
  <1> HIDE DEF n
  <1>4. /\ SubSeq(all, 1, n) \in Seq(EventType) /\ SubSeq(all, n + 1, Len(all)) \in Seq(EventType)
        /\ ToSet(all) = gone \cup ToSet(SubSeq(all, n + 1, Len(all)))
    BY <1>2, <1>3, ToSetOfParts
  <1>5. queue' = SubSeq(all, n + 1, Len(all)) /\ dropped' = dropped + n /\ shed' = shed \cup Ids(gone)
    BY DEF AppendToQueue, all, n
  <1>6. gone # {} => n > 0
    <2>1. CASE n = 0
      <3>1. Len(SubSeq(all, 1, n)) = 0
        BY <1>2, <1>3, <2>1, ToSetOfParts
      <3>2. gone = {}
        BY <1>4, <3>1, EmptySeq, ToSetOfEmpty
      <3> QED
        BY <3>2
    <2> QED
      BY <1>3, <2>1
  <1>7. gone \subseteq EventType
    BY <1>4, ToSetMembers
  <1>8. queue' \in Seq(EventType) /\ dropped' \in Nat /\ dropped' >= dropped
    BY <1>1, <1>3, <1>4, <1>5, LenProperties, <1>2
  <1>9. /\ ToSet(queue) \cup ToSet(events) = gone \cup ToSet(queue')
        /\ shed' = shed \cup Ids(gone) /\ (gone # {} => dropped' > 0)
    BY <1>1, <1>2, <1>3, <1>4, <1>5, <1>6, LenProperties
  <1>10. queued' = queued \cup Ids(ToSet(events))
    BY DEF AppendToQueue
  <1> HIDE DEF gone
  <1> QED
    BY <1>7, <1>8, <1>9, <1>10

\* A batch is the beginning of the queue.
LEMMA BatchOfQueue ==
  ASSUME TypeOK, queue # <<>>
  PROVE  /\ Len(Batch) \in 0..BatchLimit /\ Len(Batch) <= Len(queue)
         /\ Batch = SubSeq(queue, 1, Len(Batch)) /\ Batch \in Seq(EventType)
  <1> DEFINE n == IF Len(queue) < BatchLimit THEN Len(queue) ELSE BatchLimit
  <1>1. queue \in Seq(EventType) /\ Len(queue) \in Nat /\ BatchLimit \in Nat
    BY LenProperties, PipelineAssumption DEF TypeOK
  <1>2. n \in 0..Len(queue) /\ n <= BatchLimit
    BY <1>1
  <1>3. SubSeq(queue, 1, n) \in Seq(EventType) /\ Len(SubSeq(queue, 1, n)) = n
    BY <1>1, <1>2, ToSetOfParts
  <1> QED
    BY <1>1, <1>2, <1>3 DEF Batch


------------------------------------------------------------------------------
(***************************************************************************)
(* What a step leaves as it was.                                           *)
(***************************************************************************)

\* Wherever an event is, it is an event, and it is one of Events.
LEMMA EventsTyped ==
  ASSUME TypeOK
  PROVE  /\ Events \subseteq EventType
         /\ ToSet(pending) \subseteq Events /\ ToSet(message) \subseteq Events
         /\ ToSet(queue) \subseteq Events /\ ToSet(job.event) \subseteq Events
         /\ stored \subseteq Events
         /\ \A s \in Slots : ToSet(req[s].batch) \subseteq Events
  <1>1. /\ pending \in Seq(EventType) /\ message \in Seq(EventType) /\ queue \in Seq(EventType)
        /\ job.event \in Seq(EventType) /\ stored \subseteq EventType
        /\ \A s \in Slots : req[s].batch \in Seq(EventType)
    BY DEF TypeOK, JobType, RequestType
  <1>2. /\ ToSet(pending) \subseteq EventType /\ ToSet(message) \subseteq EventType
        /\ ToSet(queue) \subseteq EventType /\ ToSet(job.event) \subseteq EventType
        /\ \A s \in Slots : ToSet(req[s].batch) \subseteq EventType
    BY <1>1, ToSetMembers
  <1>3. UNION {Batched(s) : s \in Slots} \subseteq EventType
    BY <1>2 DEF Batched
  <1>4. \A s \in Slots : ToSet(req[s].batch) \subseteq UNION {Batched(t) : t \in Slots}
    BY DEF Batched
  <1>5. Events \subseteq EventType
    BY <1>1, <1>2, <1>3 DEF Events
  <1> QED
    BY <1>4, <1>5 DEF Events

LEMMA EventsWithin ==
  ASSUME NEW X,
         ToSet(pending') \subseteq X, ToSet(message') \subseteq X, ToSet(queue') \subseteq X,
         ToSet(job'.event) \subseteq X, stored' \subseteq X,
         \A s \in Slots : ToSet(req'[s].batch) \subseteq X
  PROVE  Events' \subseteq X
  <1>1. UNION {ToSet(req'[s].batch) : s \in Slots} \subseteq X
    OBVIOUS
  <1> QED
    BY <1>1 DEF Events, Batched

LEMMA IdsAreNumbers == ASSUME NEW S \in SUBSET EventType PROVE Ids(S) \subseteq Nat
  BY DEF Ids, EventType

\* Events that move keep their numbers, and the next one made has a new number.
LEMMA NothingMade ==
  ASSUME TypeOK, EventsNumbered, Events' \subseteq Events, made' = made, on'.seq <= made
  PROVE  EventsNumbered'
  BY DEF EventsNumbered

LEMMA OneMade ==
  ASSUME TypeOK, EventsNumbered, NEW e, e.id = made + 1, e.seq <= made + 1,
         Events' \subseteq Events \cup {e}, made' = made + 1, on'.seq <= made + 1
  PROVE  EventsNumbered'
  <1>1. made \in Nat /\ \A f \in Events : f.id \in Nat /\ f.seq \in Nat /\ f.id <= made /\ f.seq <= made
    BY EventsTyped DEF TypeOK, EventType, EventsNumbered
  <1>2. \A f \in Events' : f.id <= made' /\ f.seq <= made'
    BY <1>1
  <1>3. \A f, g \in Events' : f.id = g.id => f = g
    BY <1>1 DEF EventsNumbered
  <1> QED
    BY <1>2, <1>3 DEF EventsNumbered

\* A request that is the same as before, freed, or answered.
Lesser(r, q) ==
  /\ ToSet(r.batch) \subseteq ToSet(q.batch)
  /\ r.step = "events" => q.step = "events" /\ r.seen = q.seen
  /\ r.sum \in {q.sum, None}

LEMMA RequestsKept ==
  ASSUME TypeOK, SeenStored, SumsBehind, SummaryWithin,
         UNCHANGED <<stored, summary>>, \A s \in Slots : Lesser(req'[s], req[s])
  PROVE  SeenStored' /\ SumsBehind' /\ SummaryWithin'
  <1>1. SeenStored'
    BY DEF SeenStored, Lesser
  <1>2. Cardinality(Pages(stored)) \in Nat
    <2>1. IsFiniteSet(Pages(stored))
      BY FS_Subset DEF SumsBehind, Pages
    <2> QED
      BY <2>1, FS_CardinalityType
  <1>3. SumsBehind'
    <2>1. stored' = stored
      OBVIOUS
    <2>2. ASSUME NEW s \in Slots PROVE req'[s].sum <= Cardinality(Pages(stored))
      BY <1>2 DEF SumsBehind, Lesser, None
    <2> QED
      BY <2>1, <2>2 DEF SumsBehind, Pages
  <1>4. SummaryWithin'
    BY DEF SummaryWithin
  <1> QED
    BY <1>1, <1>3, <1>4

LEMMA LedgerKept ==
  ASSUME NothingLostSilently, LossLeavesTrace, UNCHANGED <<local, stored, queued, shed, cleared>>
  PROVE  NothingLostSilently' /\ LossLeavesTrace'
  BY DEF NothingLostSilently, LossLeavesTrace, local

\* A free request, and one that answered, send nothing and add nothing.
LEMMA FreeIsLess ==
  ASSUME TypeOK, NEW s \in Slots
  PROVE  /\ Free \in RequestType /\ Lesser(Free, req[s]) /\ Lesser(req[s], req[s])
         /\ \A a \in {"ok", "refused", "error"} :
              /\ [Free EXCEPT !.step = "done", !.answer = a] \in RequestType
              /\ Lesser([Free EXCEPT !.step = "done", !.answer = a], req[s])
  <1>1. <<>> \in Seq(EventType) /\ ToSet(<<>>) = {}
    BY EmptySeq, ToSetOfEmpty
  <1> QED
    BY <1>1 DEF Free, RequestType, Lesser, None

LEMMA AbandonIsLess ==
  ASSUME TypeOK, NEW s \in Slots
  PROVE  Abandon(s) \in [Slots -> RequestType] /\ \A t \in Slots : Lesser(Abandon(s)[t], req[t])
  <1>1. req \in [Slots -> RequestType]
    BY DEF TypeOK
  <1>2. [req[s] EXCEPT !.answer = "unread"] \in RequestType
    BY <1>1 DEF RequestType
  <1>3. Lesser([req[s] EXCEPT !.answer = "unread"], req[s])
    BY <1>1 DEF Lesser, RequestType
  <1> QED
    BY <1>1, <1>2, <1>3, FreeIsLess DEF Abandon

LEMMA AnsweredIsLess ==
  ASSUME TypeOK, NEW s \in Slots, NEW a \in {"ok", "refused", "error"}, Answered(s, a)
  PROVE  /\ req' \in [Slots -> RequestType] /\ \A t \in Slots : Lesser(req'[t], req[t])
         /\ \A t \in Slots \ {s} : req'[t] = req[t]
         /\ req'[s].step \in {"free", "done"} /\ (req'[s].step = "done" => req'[s].answer = a)
  <1>1. req \in [Slots -> RequestType]
    BY DEF TypeOK
  <1>2. [Free EXCEPT !.step = "done", !.answer = a].step = "done" /\ [Free EXCEPT !.step = "done", !.answer = a].answer = a
    BY DEF Free
  <1> QED
    BY <1>1, <1>2, FreeIsLess DEF Answered, Free

\* How a job goes on after an answer that did not come, or was not the wished one.
LEMMA JobAfter ==
  ASSUME TypeOK
  PROVE  /\ Idle \in JobType /\ Idle.step = "idle" /\ Idle.event = <<>>
         /\ AfterFlush \in JobType /\ AfterFlush.step \in {"idle", "off"} /\ AfterFlush.event = <<>>
         /\ Retry \in JobType /\ Retry.step \in {"idle", "off", "send"}
         /\ ToSet(Retry.event) \subseteq ToSet(job.event)
  <1>1. /\ job \in JobType /\ <<>> \in Seq(EventType) /\ ToSet(<<>>) = {} /\ MaxAttempts \in Nat \ {0}
        /\ BatchLimit \in Nat
    BY EmptySeq, ToSetOfEmpty, PipelineAssumption DEF TypeOK
  <1>2. Idle \in JobType /\ Idle.step = "idle" /\ Idle.event = <<>>
    BY <1>1 DEF Idle, JobType, Ends, None
  <1>3. AfterFlush \in JobType /\ AfterFlush.step \in {"idle", "off"} /\ AfterFlush.event = <<>>
    BY <1>1, <1>2 DEF AfterFlush, Idle, JobType, Ends, None
  <1>4. /\ Retry \in JobType /\ Retry.step \in {"idle", "off", "send"}
        /\ ToSet(Retry.event) \subseteq ToSet(job.event)
    <2>1. CASE job.try + 1 < MaxAttempts
      <3>1. job.try + 1 \in 0..MaxAttempts - 1
        BY <1>1, <2>1 DEF JobType
      <3>2. Retry = [job EXCEPT !.step = "send", !.slot = None, !.try = @ + 1]
        BY <2>1 DEF Retry
      <3> QED
        BY <1>1, <3>1, <3>2 DEF JobType
    <2>2. CASE ~(job.try + 1 < MaxAttempts)
      BY <1>1, <1>3, <2>2 DEF Retry
    <2> QED
      BY <2>1, <2>2
  <1> QED
    BY <1>2, <1>3, <1>4


------------------------------------------------------------------------------
(***************************************************************************)
(* The page and the worker.                                                *)
(***************************************************************************)

\* What the queue and the ledger need of a step that leaves the queue alone.
LEMMA AwaitedKept ==
  ASSUME TypeOK, job'.step # "await"
  PROVE  BatchAwaited'
  BY DEF BatchAwaited

LEMMA PressStep == ASSUME IInv, Press PROVE IInv'
  <1> DEFINE e == Event("page", 0, 0)
  <1>1. e \in EventType /\ e.id = made + 1 /\ e.seq = 0 /\ made \in Nat
    BY DEF IInv, TypeOK, Event, EventType, Kinds
  <1>2. /\ pending' \in Seq(EventType) /\ ToSet(pending') = ToSet(pending) \cup {e}
    <2>1. pending' = Append(pending, e)
      BY DEF Press
    <2> HIDE DEF e
    <2>2. pending \in Seq(EventType) /\ <<e>> \in Seq(EventType)
      BY <1>1 DEF IInv, TypeOK
    <2>3. pending' = pending \o <<e>>
      BY <2>1, <2>2, <1>1, AppendIsConcat
    <2>4. /\ pending \o <<e>> \in Seq(EventType)
          /\ ToSet(pending \o <<e>>) = ToSet(pending) \cup ToSet(<<e>>)
      BY <2>2, ToSetOfConcat
    <2>5. ToSet(<<e>>) = {e}
      BY ToSetOfOne
    <2> QED
      BY <2>3, <2>4, <2>5
  <1> HIDE DEF e
  <1>3. TypeOK'
    BY <1>2 DEF IInv, TypeOK, Press, server, bounds, local
  <1>4. EventsNumbered'
    <2>1. /\ message' = message /\ queue' = queue /\ job' = job /\ req' = req /\ stored' = stored
          /\ made' = made + 1 /\ on' = on
      BY DEF Press, server, local
    <2>2. Events' \subseteq Events \cup {e}
      <3>1. /\ ToSet(pending') \subseteq Events \cup {e} /\ ToSet(message') \subseteq Events \cup {e}
            /\ ToSet(queue') \subseteq Events \cup {e} /\ ToSet(job'.event) \subseteq Events \cup {e}
            /\ stored' \subseteq Events \cup {e}
            /\ \A s \in Slots : ToSet(req'[s].batch) \subseteq Events \cup {e}
        BY <1>2, <2>1, EventsTyped DEF IInv
      <3> QED
        BY <3>1, EventsWithin
    <2>3. on'.seq <= made + 1
      BY <2>1 DEF IInv, TypeOK, EventsNumbered
    <2> QED
      BY <1>1, <2>1, <2>2, <2>3, OneMade DEF IInv
  <1>5. BatchAwaited' /\ SeenStored' /\ LossReported' /\ SumsBehind' /\ SummaryWithin'
    BY DEF IInv, Press, server, local, BatchAwaited, SeenStored, LossReported, SumsBehind,
           SummaryWithin, Underway, Pages
  <1>6. NothingLostSilently' /\ LossLeavesTrace'
    BY LedgerKept DEF IInv, Press, server
  <1> QED
    BY <1>3, <1>4, <1>5, <1>6 DEF IInv

LEMMA SendPendingStep == ASSUME IInv, SendPending PROVE IInv'
  <1>1. <<>> \in Seq(EventType) /\ ToSet(<<>>) = {}
    BY EmptySeq, ToSetOfEmpty
  <1>2. TypeOK'
    BY <1>1 DEF IInv, TypeOK, SendPending, server, bounds, history, local
  <1>3. EventsNumbered'
    <2>1. Events' \subseteq Events
      BY <1>1, EventsTyped, EventsWithin DEF IInv, SendPending, server, local
    <2> QED
      BY <2>1, NothingMade DEF IInv, EventsNumbered, SendPending, history
  <1>4. BatchAwaited' /\ SeenStored' /\ LossReported' /\ SumsBehind' /\ SummaryWithin'
    BY DEF IInv, SendPending, server, local, BatchAwaited, SeenStored, LossReported, SumsBehind,
           SummaryWithin, Underway, Pages
  <1>5. NothingLostSilently' /\ LossLeavesTrace'
    BY LedgerKept DEF IInv, SendPending, server, history
  <1> QED
    BY <1>2, <1>3, <1>4, <1>5 DEF IInv

\* Events that enter the queue are in it or shed and counted.
LEMMA LedgerAppended ==
  ASSUME IInv, NEW events \in Seq(EventType), AppendToQueue(events), UNCHANGED <<stored, cleared>>
  PROVE  NothingLostSilently' /\ LossLeavesTrace'
  <1>1. PICK gone \in SUBSET EventType :
              /\ ToSet(queue) \cup ToSet(events) = gone \cup ToSet(queue')
              /\ shed' = shed \cup Ids(gone)
              /\ gone # {} => dropped' > 0
    BY Appending DEF IInv
  <1>2. queued' = queued \cup Ids(ToSet(events)) /\ dropped \in Nat /\ dropped' \in Nat /\ dropped' >= dropped
    BY Appending DEF IInv, TypeOK
  <1>3. Ids(ToSet(queue)) \cup Ids(ToSet(events)) = Ids(gone) \cup Ids(ToSet(queue'))
    BY <1>1 DEF Ids
  <1>4. NothingLostSilently'
    BY <1>1, <1>2, <1>3 DEF IInv, NothingLostSilently
  <1>5. LossLeavesTrace'
    <2>1. CASE gone = {}
      <3>1. shed' = shed /\ ToSet(queue) \subseteq ToSet(queue')
        BY <1>1, <2>1 DEF Ids
      <3> QED
        BY <1>2, <3>1 DEF IInv, LossLeavesTrace
    <2>2. CASE gone # {}
      BY <1>1, <2>2 DEF LossLeavesTrace
    <2> QED
      BY <2>1, <2>2
  <1> QED
    BY <1>4, <1>5

LEMMA ReceiveStep == ASSUME IInv, Receive PROVE IInv'
  <1>1. /\ job.step = "idle" /\ job \in JobType /\ message \in Seq(EventType)
        /\ job' = [job EXCEPT !.step = "reply"]
    BY DEF IInv, TypeOK, Receive, Idle
  <1>2. job' \in JobType /\ job'.step = "reply" /\ job'.event = job.event
    BY <1>1 DEF JobType
  <1>3. /\ queue' \in Seq(EventType) /\ dropped' \in Nat /\ queued' \subseteq Nat /\ shed' \subseteq Nat
        /\ ToSet(queue') \subseteq Events
        /\ NothingLostSilently' /\ LossLeavesTrace'
    <2>1. CASE IsOn
      <3>1. AppendToQueue(message) /\ UNCHANGED <<stored, cleared>>
        BY <2>1 DEF Receive, server
      <3>2. PICK gone \in SUBSET EventType :
                /\ ToSet(queue) \cup ToSet(message) = gone \cup ToSet(queue')
                /\ shed' = shed \cup Ids(gone)
        BY <1>1, <3>1, Appending DEF IInv
      <3>3. queue' \in Seq(EventType) /\ dropped' \in Nat /\ queued' = queued \cup Ids(ToSet(message))
        BY <1>1, <3>1, Appending DEF IInv
      <3>4. Ids(gone) \subseteq Nat /\ Ids(ToSet(message)) \subseteq Nat
        BY <1>1, ToSetMembers, IdsAreNumbers
      <3>5. queued' \subseteq Nat /\ shed' \subseteq Nat
        BY <3>2, <3>3, <3>4 DEF IInv, TypeOK
      <3>6. ToSet(queue') \subseteq Events
        BY <3>2, EventsTyped DEF IInv
      <3> QED
        BY <1>1, <3>1, <3>3, <3>5, <3>6, LedgerAppended
    <2>2. CASE ~IsOn
      BY <2>2, LedgerKept, EventsTyped DEF IInv, TypeOK, Receive, server, local
    <2> QED
      BY <2>1, <2>2
  <1>4. TypeOK'
    BY <1>2, <1>3 DEF IInv, TypeOK, Receive, page, server, bounds
  <1>5. EventsNumbered'
    <2>1. Events' \subseteq Events
      BY <1>2, <1>3, EventsTyped, EventsWithin DEF IInv, Receive, server, page
    <2> QED
      BY <2>1, NothingMade DEF IInv, EventsNumbered, Receive
  <1>6. BatchAwaited' /\ LossReported'
    BY <1>2 DEF BatchAwaited, LossReported
  <1>7. SeenStored' /\ SumsBehind' /\ SummaryWithin'
    BY DEF IInv, Receive, server, SeenStored, SumsBehind, SummaryWithin, Pages
  <1> QED
    BY <1>3, <1>4, <1>5, <1>6, <1>7 DEF IInv

\* A step that only moves the job on: to a state that waits for no answer and
\* reports nothing.
LEMMA JobMoves ==
  ASSUME IInv, UNCHANGED <<local, server, history>>,
         job' \in JobType, ToSet(job'.event) \subseteq Events,
         job'.step \notin {"await", "report"}, job'.step \in {"send", "off"} => dropped = 0,
         req' \in [Slots -> RequestType], \A s \in Slots : Lesser(req'[s], req[s]),
         pending' \in Seq(EventType), ToSet(pending') \subseteq Events,
         message' \in Seq(EventType), ToSet(message') \subseteq Events,
         on' \in [life : Nat, seq : Nat], on'.seq <= made,
         stops' \in 0..MaxStops, faults' \in 0..MaxFaults
  PROVE  IInv'
  <1>1. TypeOK'
    BY DEF IInv, TypeOK, server, history, local
  <1>2. EventsNumbered'
    <2>1. \A s \in Slots : ToSet(req'[s].batch) \subseteq Events
      BY EventsTyped DEF IInv, Lesser
    <2>2. queue' = queue /\ stored' = stored /\ made' = made
      BY DEF local, server, history
    <2>3. Events' \subseteq Events
      BY <2>1, <2>2, EventsTyped, EventsWithin DEF IInv
    <2> QED
      BY <2>2, <2>3, NothingMade DEF IInv
  <1>3. BatchAwaited' /\ LossReported'
    BY DEF BatchAwaited, LossReported, local
  <1>4. SeenStored' /\ SumsBehind' /\ SummaryWithin'
    BY RequestsKept DEF IInv, server
  <1>5. NothingLostSilently' /\ LossLeavesTrace'
    BY LedgerKept DEF IInv, server, history
  <1> QED
    BY <1>1, <1>2, <1>3, <1>4, <1>5 DEF IInv

\* What JobMoves asks of the parts a step does not touch.
LEMMA AsBefore ==
  ASSUME IInv
  PROVE  /\ job \in JobType /\ ToSet(job.event) \subseteq Events /\ made \in Nat /\ dropped \in Nat
         /\ req \in [Slots -> RequestType] /\ \A s \in Slots : Lesser(req[s], req[s])
         /\ pending \in Seq(EventType) /\ ToSet(pending) \subseteq Events
         /\ message \in Seq(EventType) /\ ToSet(message) \subseteq Events
         /\ on \in [life : Nat, seq : Nat] /\ on.seq <= made
         /\ stops \in 0..MaxStops /\ faults \in 0..MaxFaults
         /\ <<>> \in Seq(EventType) /\ ToSet(<<>>) = {} /\ ToSet(Idle.event) \subseteq Events
         /\ ToSet(AfterFlush.event) \subseteq Events /\ ToSet(Retry.event) \subseteq Events
         /\ Off \in [life : Nat, seq : Nat] /\ Off.seq <= made
         /\ MaxStops \in Nat /\ MaxFaults \in Nat
  <1>1. /\ job \in JobType /\ req \in [Slots -> RequestType] /\ made \in Nat /\ dropped \in Nat
        /\ pending \in Seq(EventType) /\ message \in Seq(EventType)
        /\ on \in [life : Nat, seq : Nat] /\ on.seq <= made
        /\ stops \in 0..MaxStops /\ faults \in 0..MaxFaults
        /\ MaxStops \in Nat /\ MaxFaults \in Nat
    BY PipelineAssumption DEF IInv, TypeOK, EventsNumbered
  <1>2. \A s \in Slots : Lesser(req[s], req[s])
    BY FreeIsLess DEF IInv
  <1>3. <<>> \in Seq(EventType) /\ ToSet(<<>>) = {}
    BY EmptySeq, ToSetOfEmpty
  <1>4. /\ ToSet(job.event) \subseteq Events /\ ToSet(pending) \subseteq Events /\ ToSet(message) \subseteq Events
    BY EventsTyped DEF IInv
  <1>5. /\ ToSet(Idle.event) \subseteq Events /\ ToSet(AfterFlush.event) \subseteq Events
        /\ ToSet(Retry.event) \subseteq Events
    BY <1>3, <1>4, JobAfter DEF IInv
  <1>6. Off \in [life : Nat, seq : Nat] /\ Off.seq <= made
    BY <1>1 DEF Off
  <1> QED
    BY <1>1, <1>2, <1>3, <1>4, <1>5, <1>6

LEMMA FlushStep == ASSUME IInv, Flush PROVE IInv'
  <1>1. job' \in JobType /\ job'.step = "flush" /\ job'.event = job.event
    BY AsBefore DEF Flush, JobType, Ends
  <1> QED
    BY <1>1, AsBefore, JobMoves DEF Flush, page, bounds

LEMMA StopStep == ASSUME IInv, NEW then \in {"stop", "clear"}, Stop(then) PROVE IInv'
  <1>1. job' \in JobType /\ job'.step = "snapshot" /\ job'.event = job.event
    BY AsBefore DEF Stop, JobType, Ends
  <1>2. stops' \in 0..MaxStops
    BY AsBefore DEF Stop
  <1> QED
    BY <1>1, <1>2, AsBefore, JobMoves DEF Stop, page

LEMMA FlushDoneStep == ASSUME IInv, FlushDone PROVE IInv'
  <1>1. dropped = 0
    BY DEF IInv, LossReported, FlushDone
  <1>2. job' \in JobType /\ job'.step \in {"idle", "off"} /\ job' = AfterFlush
    BY JobAfter DEF IInv, FlushDone
  <1> QED
    BY <1>1, <1>2, AsBefore, JobMoves DEF FlushDone, page, bounds

\* The reply and the message of the page.
LEMMA ReplyStep == ASSUME IInv, Reply PROVE IInv'
  <1>1. job' = Idle /\ job' \in JobType /\ job'.step = "idle"
    BY JobAfter DEF IInv, Reply
  <1> QED
    BY <1>1, AsBefore, JobMoves DEF Reply, bounds

LEMMA TimeoutStep == ASSUME IInv, Timeout PROVE IInv'
  <1>1. dropped = 0 /\ job.slot \in Slots
    BY DEF IInv, LossReported, BatchAwaited, Timeout
  <1>2. job' = Retry /\ job' \in JobType /\ job'.step \notin {"await", "report"}
    BY JobAfter DEF IInv, Timeout
  <1>3. req' \in [Slots -> RequestType] /\ \A s \in Slots : Lesser(req'[s], req[s])
    <2>1. req \in [Slots -> RequestType] /\ \A s \in Slots : Lesser(req[s], req[s])
      BY AsBefore
    <2>2. TypeOK
      BY DEF IInv
    <2> QED
      BY <1>1, <2>1, <2>2, AbandonIsLess, FreeIsLess DEF Timeout
  <1>4. faults' \in 0..MaxFaults
    BY AsBefore DEF Timeout
  <1> QED
    BY <1>1, <1>2, <1>3, <1>4, AsBefore, JobMoves DEF Timeout, page

\* What a page puts back after a failed message is what it had.
LEMMA UnreadIsLess ==
  ASSUME IInv
  PROVE  Unread \in [Slots -> RequestType] /\ \A s \in Slots : Lesser(Unread[s], req[s])
  BY AsBefore, AbandonIsLess DEF IInv, Unread, BatchAwaited

LEMMA KeptOfPage ==
  ASSUME IInv, MessageFails
  PROVE  /\ pending' \in Seq(EventType) /\ ToSet(pending') \subseteq Events
         /\ message' \in Seq(EventType) /\ ToSet(message') \subseteq Events
  <1> DEFINE both == message \o pending
             n == IF Len(both) > PendingLimit THEN Len(both) - PendingLimit + 1 ELSE 1
  <1>1. both \in Seq(EventType) /\ ToSet(both) \subseteq Events
    BY AsBefore, ToSetOfConcat
  <1> HIDE DEF both
  <1>2. n \in 1..Len(both) + 1
    BY <1>1, LenProperties, PipelineAssumption
  <1>3. pending' = SubSeq(both, n, Len(both))
    BY DEF MessageFails, Kept, both
  <1> HIDE DEF n
  <1>4. pending' \in Seq(EventType) /\ ToSet(pending') \subseteq ToSet(both)
    BY <1>1, <1>2, <1>3, ToSetOfEnd
  <1> QED
    BY <1>1, <1>4, AsBefore DEF MessageFails

LEMMA WorkerEndsStep == ASSUME IInv, WorkerEnds PROVE IInv'
  <1>1. job' = Idle /\ job' \in JobType /\ job'.step = "idle"
    BY JobAfter DEF IInv, WorkerEnds
  <1>2. faults' \in 0..MaxFaults
    BY AsBefore DEF WorkerEnds
  <1>3. /\ pending' \in Seq(EventType) /\ ToSet(pending') \subseteq Events
        /\ message' \in Seq(EventType) /\ ToSet(message') \subseteq Events
    BY AsBefore, KeptOfPage DEF WorkerEnds, page
  <1> QED
    BY <1>1, <1>2, <1>3, UnreadIsLess, AsBefore, JobMoves DEF WorkerEnds

LEMMA BrowserRestartsStep == ASSUME IInv, BrowserRestarts PROVE IInv'
  <1>1. job' = Idle /\ job' \in JobType /\ job'.step = "idle"
    BY JobAfter DEF IInv, BrowserRestarts
  <1>2. faults' \in 0..MaxFaults
    BY AsBefore DEF BrowserRestarts
  <1> QED
    BY <1>1, <1>2, UnreadIsLess, AsBefore, JobMoves DEF BrowserRestarts


\* The event a job makes for itself gets the next number of the browser session.
LEMMA NextEventMakes ==
  ASSUME IInv, NEW kind \in {"tab", "loss"}, NextEvent(kind),
         UNCHANGED <<page, local, req, server, lives, queued, shed, cleared, bounds>>
  PROVE  IInv'
  <1> DEFINE e == Event(kind, on.life, on.seq + 1)
             next == IF kind = "tab" THEN "enqueue" ELSE "report"
  <1>1. e \in EventType /\ e.id = made + 1 /\ e.kind = kind /\ e.seq <= made + 1 /\ e.seq = on.seq + 1
    BY AsBefore DEF Event, EventType, Kinds
  <1>2. made' = made + 1 /\ on' = [on EXCEPT !.seq = @ + 1] /\ job' = [job EXCEPT !.event = <<e>>, !.step = next]
    BY DEF NextEvent
  <1>3. next \in {"enqueue", "report"} /\ (next = "report" => kind = "loss")
    OBVIOUS
  <1> HIDE DEF e, next
  <1>4. on' \in [life : Nat, seq : Nat] /\ on'.seq <= made + 1
    <2>1. on \in [life : Nat, seq : Nat] /\ made \in Nat /\ on.seq <= made
      BY AsBefore
    <2> QED
      BY <1>2, <2>1
  <1>5. <<e>> \in Seq(EventType) /\ ToSet(<<e>>) = {e}
    BY <1>1, ToSetOfOne
  <1>6. job' \in JobType /\ job'.step = next /\ job'.event = <<e>>
    BY <1>2, <1>3, <1>5, AsBefore DEF JobType
  <1>7. TypeOK'
    <2>1. TypeOK /\ made' \in Nat
      BY <1>2 DEF IInv, TypeOK
    <2>2. UNCHANGED <<page, local, req, server, lives, queued, shed, cleared, bounds>>
      OBVIOUS
    <2> QED
      BY <1>4, <1>6, <2>1, <2>2 DEF TypeOK, page, local, server, bounds
  <1>8. EventsNumbered'
    <2>1. Events' \subseteq Events \cup {e}
      <3>1. /\ pending' = pending /\ message' = message /\ queue' = queue /\ req' = req /\ stored' = stored
            /\ ToSet(job'.event) = {e}
        BY <1>5, <1>6 DEF page, local, server
      <3>2. /\ ToSet(pending') \subseteq Events \cup {e} /\ ToSet(message') \subseteq Events \cup {e}
            /\ ToSet(queue') \subseteq Events \cup {e} /\ ToSet(job'.event) \subseteq Events \cup {e}
            /\ stored' \subseteq Events \cup {e}
            /\ \A s \in Slots : ToSet(req'[s].batch) \subseteq Events \cup {e}
        BY <3>1, EventsTyped DEF IInv
      <3> QED
        BY <3>2, EventsWithin
    <2> QED
      BY <1>1, <1>2, <1>4, <2>1, OneMade DEF IInv
  <1>9. BatchAwaited' /\ LossReported'
    <2>1. job'.step = "report" => \E f \in ToSet(job'.event) : f.kind = "loss"
      BY <1>1, <1>3, <1>5, <1>6
    <2> QED
      BY <1>3, <1>6, <2>1 DEF BatchAwaited, LossReported
  <1>10. SeenStored' /\ SumsBehind' /\ SummaryWithin'
    BY AsBefore, RequestsKept DEF IInv, server
  <1>11. NothingLostSilently' /\ LossLeavesTrace'
    BY LedgerKept DEF IInv, server
  <1> QED
    BY <1>7, <1>8, <1>9, <1>10, <1>11 DEF IInv

LEMMA TabEventStep == ASSUME IInv, TabEvent PROVE IInv'
  BY NextEventMakes DEF TabEvent

LEMMA StartFlushStep == ASSUME IInv, StartFlush PROVE IInv'
  <1>1. CASE dropped > 0
    BY <1>1, NextEventMakes DEF StartFlush
  <1>2. CASE ~(dropped > 0)
    <2>1. dropped = 0
      BY <1>2, AsBefore
    <2>2. job' \in JobType /\ job'.step = "send" /\ job'.event = job.event
      BY <1>2, AsBefore DEF StartFlush, JobType
    <2>3. UNCHANGED <<page, on, local, req, server, history, bounds>>
      BY <1>2 DEF StartFlush, history
    <2> QED
      BY <2>1, <2>2, <2>3, AsBefore, JobMoves DEF page, bounds
  <1> QED
    BY <1>1, <1>2

\* What a job put into the queue stays in it or is shed and counted.
LEMMA EnqueueStep == ASSUME IInv, Enqueue PROVE IInv'
  <1>1. /\ job.event \in Seq(EventType) /\ AppendToQueue(job.event)
        /\ UNCHANGED <<page, on, req, server, made, lives, cleared, bounds>>
    BY AsBefore DEF Enqueue, JobType
  <1>2. job' \in JobType /\ job'.step \in {"idle", "flush"} /\ job'.event = <<>>
    BY AsBefore DEF Enqueue, JobType
  <1>3. PICK gone \in SUBSET EventType :
            /\ ToSet(queue) \cup ToSet(job.event) = gone \cup ToSet(queue')
            /\ shed' = shed \cup Ids(gone)
    BY <1>1, Appending DEF IInv
  <1>4. queue' \in Seq(EventType) /\ dropped' \in Nat /\ queued' = queued \cup Ids(ToSet(job.event))
    BY <1>1, Appending DEF IInv
  <1>5. queued' \subseteq Nat /\ shed' \subseteq Nat
    <2>1. Ids(gone) \subseteq Nat /\ Ids(ToSet(job.event)) \subseteq Nat
      BY <1>1, ToSetMembers, IdsAreNumbers
    <2> QED
      BY <1>3, <1>4, <2>1 DEF IInv, TypeOK
  <1>6. TypeOK'
    BY <1>1, <1>2, <1>4, <1>5 DEF IInv, TypeOK, page, server, bounds
  <1>7. EventsNumbered'
    <2>1. ToSet(queue') \subseteq Events /\ ToSet(job'.event) \subseteq Events
      BY <1>2, <1>3, AsBefore, EventsTyped DEF IInv
    <2>2. Events' \subseteq Events
      BY <1>1, <2>1, EventsTyped, EventsWithin DEF IInv, server, page
    <2> QED
      BY <1>1, <2>2, AsBefore, NothingMade DEF IInv
  <1>8. BatchAwaited' /\ LossReported'
    BY <1>2 DEF BatchAwaited, LossReported
  <1>9. SeenStored' /\ SumsBehind' /\ SummaryWithin'
    BY <1>1, AsBefore, RequestsKept DEF IInv, server
  <1>10. NothingLostSilently' /\ LossLeavesTrace'
    BY <1>1, LedgerAppended DEF server
  <1> QED
    BY <1>6, <1>7, <1>8, <1>9, <1>10 DEF IInv

\* The report of a loss is a trace of it.
LEMMA ReportLossStep == ASSUME IInv, ReportLoss PROVE IInv'
  <1>1. /\ job.event \in Seq(EventType) /\ queue \in Seq(EventType)
        /\ queue' = job.event \o queue /\ dropped' = 0
        /\ queued' = queued \cup Ids(ToSet(job.event))
        /\ UNCHANGED <<page, on, req, server, made, lives, shed, cleared, bounds>>
    BY AsBefore DEF ReportLoss, JobType, IInv, TypeOK
  <1>2. job' \in JobType /\ job'.step = "send" /\ job'.event = <<>>
    BY AsBefore DEF ReportLoss, JobType
  <1>3. queue' \in Seq(EventType) /\ ToSet(queue') = ToSet(job.event) \cup ToSet(queue)
    BY <1>1, ToSetOfConcat
  <1>4. queued' \subseteq Nat
    <2>1. Ids(ToSet(job.event)) \subseteq Nat
      BY <1>1, ToSetMembers, IdsAreNumbers
    <2> QED
      BY <1>1, <2>1 DEF IInv, TypeOK
  <1>5. TypeOK'
    BY <1>1, <1>2, <1>3, <1>4 DEF IInv, TypeOK, page, server, bounds
  <1>6. EventsNumbered'
    <2>1. ToSet(queue') \subseteq Events /\ ToSet(job'.event) \subseteq Events
      BY <1>2, <1>3, AsBefore, EventsTyped DEF IInv
    <2>2. Events' \subseteq Events
      BY <1>1, <2>1, EventsTyped, EventsWithin DEF IInv, server, page
    <2> QED
      BY <1>1, <2>2, AsBefore, NothingMade DEF IInv
  <1>7. BatchAwaited' /\ LossReported'
    BY <1>1, <1>2 DEF BatchAwaited, LossReported
  <1>8. SeenStored' /\ SumsBehind' /\ SummaryWithin'
    BY <1>1, AsBefore, RequestsKept DEF IInv, server
  <1>9. NothingLostSilently'
    BY <1>1, <1>3 DEF IInv, NothingLostSilently, server, Ids
  <1>10. LossLeavesTrace'
    <2>1. \E e \in ToSet(job.event) : e.kind = "loss"
      BY DEF IInv, LossReported, ReportLoss
    <2> QED
      BY <1>3, <2>1 DEF LossLeavesTrace
  <1> QED
    BY <1>5, <1>6, <1>7, <1>8, <1>9, <1>10 DEF IInv

LEMMA SendStep == ASSUME IInv, Send PROVE IInv'
  <1>1. PICK s \in Slots :
            /\ req[s] = Free
            /\ req' = [req EXCEPT ![s].step = "sent", ![s].batch = Batch]
            /\ job' = [job EXCEPT !.step = "await", !.slot = s, !.batch = Len(Batch)]
    BY DEF Send
  <1>2. /\ job.step = "send" /\ queue # <<>> /\ UNCHANGED <<page, on, local, server, history, bounds>>
    BY DEF Send
  <1>3. /\ Len(Batch) \in 0..BatchLimit /\ Len(Batch) <= Len(queue)
        /\ Batch = SubSeq(queue, 1, Len(Batch)) /\ Batch \in Seq(EventType)
    BY <1>2, BatchOfQueue DEF IInv
  <1>4. /\ job' \in JobType /\ job'.step = "await" /\ job'.event = job.event
        /\ job'.slot = s /\ job'.batch = Len(Batch)
    BY <1>1, <1>3, AsBefore DEF JobType
  <1>5. req'[s] = [Free EXCEPT !.step = "sent", !.batch = Batch] /\ \A t \in Slots \ {s} : req'[t] = req[t]
    BY <1>1, AsBefore DEF Free
  <1>6. /\ req' \in [Slots -> RequestType] /\ req'[s].step = "sent" /\ req'[s].batch = Batch
        /\ req'[s].sum = None
    <2>1. [Free EXCEPT !.step = "sent", !.batch = Batch] \in RequestType
      BY <1>3 DEF Free, RequestType, None
    <2> QED
      BY <1>1, <1>5, <2>1, AsBefore DEF Free
  <1>7. TypeOK'
    BY <1>2, <1>4, <1>6 DEF IInv, TypeOK, page, local, server, history, bounds
  <1>8. ToSet(Batch) \subseteq ToSet(queue)
    <2>1. queue \in Seq(EventType) /\ Len(Batch) \in 0..Len(queue)
      BY <1>3, LenProperties DEF IInv, TypeOK
    <2>2. ToSet(SubSeq(queue, 1, Len(Batch))) \subseteq ToSet(queue)
      BY <2>1, ToSetOfParts
    <2> QED
      BY <1>3, <2>2
  <1>9. EventsNumbered'
    <2>1. \A t \in Slots : ToSet(req'[t].batch) \subseteq Events
      BY <1>5, <1>6, <1>8, EventsTyped DEF IInv
    <2>2. Events' \subseteq Events
      BY <1>2, <1>4, <2>1, EventsTyped, EventsWithin DEF IInv, server, page, local
    <2> QED
      BY <1>2, <2>2, AsBefore, NothingMade DEF IInv, history
  <1>10. BatchAwaited'
    <2>1. queue' = queue /\ stored' = stored
      BY <1>2 DEF local, server
    <2> QED
      BY <1>3, <1>4, <1>6, <2>1 DEF BatchAwaited, Underway
  <1>11. SeenStored' /\ SumsBehind' /\ SummaryWithin'
    <2>1. stored' = stored /\ summary' = summary
      BY <1>2 DEF server
    <2>2. SeenStored'
      BY <1>5, <1>6, <2>1 DEF IInv, SeenStored
    <2>3. SumsBehind'
      BY <1>1, <1>5, <1>6, <2>1 DEF IInv, SumsBehind, Free, Pages
    <2> QED
      BY <2>1, <2>2, <2>3 DEF IInv, SummaryWithin
  <1>12. LossReported'
    BY <1>2, <1>4 DEF IInv, LossReported, local
  <1>13. NothingLostSilently' /\ LossLeavesTrace'
    BY <1>2, LedgerKept DEF IInv, server, history
  <1> QED
    BY <1>7, <1>9, <1>10, <1>11, <1>12, <1>13 DEF IInv


\* The answer to a batch: its events leave the queue once they are stored.
LEMMA ReadAnswerStep == ASSUME IInv, ReadAnswer PROVE IInv'
  <1>1. /\ job.step = "await" /\ job.slot \in Slots /\ dropped = 0 /\ req[job.slot].step = "done"
        /\ req' = [req EXCEPT ![job.slot] = Free]
        /\ UNCHANGED <<page, dropped, server, history, bounds>>
    BY DEF IInv, LossReported, BatchAwaited, ReadAnswer
  <1>2. req' \in [Slots -> RequestType] /\ \A t \in Slots : Lesser(req'[t], req[t])
    BY <1>1, AsBefore, FreeIsLess DEF IInv
  <1>3. CASE req[job.slot].answer = "ok" /\ Accepted
    <2>1. /\ queue \in Seq(EventType) /\ job.batch \in 0..Len(queue)
          /\ ToSet(Underway) \subseteq stored
      BY <1>1, <1>3, AsBefore DEF IInv, TypeOK, BatchAwaited, JobType
    <2>2. /\ queue' = SubSeq(queue, job.batch + 1, Len(queue))
          /\ job' = [job EXCEPT !.step = "send", !.slot = None, !.try = 0]
          /\ on' = on
      BY <1>3 DEF Accepted
    <2>3. /\ queue' \in Seq(EventType)
          /\ ToSet(queue) = ToSet(Underway) \cup ToSet(queue')
      BY <2>1, <2>2, ToSetOfParts DEF Underway
    <2>4. job' \in JobType /\ job'.step = "send" /\ job'.event = job.event
      <3>1. 0 \in 0..MaxAttempts - 1
        BY PipelineAssumption
      <3> QED
        BY <2>2, <3>1, AsBefore DEF JobType
    <2>5. TypeOK'
      BY <1>1, <1>2, <2>2, <2>3, <2>4 DEF IInv, TypeOK, page, server, history, bounds
    <2>6. EventsNumbered'
      <3>1. \A t \in Slots : ToSet(req'[t].batch) \subseteq Events
        BY <1>2, EventsTyped DEF IInv, Lesser
      <3>2. /\ pending' = pending /\ message' = message /\ stored' = stored /\ made' = made
            /\ ToSet(queue') \subseteq Events /\ ToSet(job'.event) \subseteq Events
        BY <1>1, <2>3, <2>4, EventsTyped DEF IInv, page, server, history
      <3>3. Events' \subseteq Events
        BY <3>1, <3>2, EventsTyped, EventsWithin DEF IInv
      <3> QED
        BY <2>2, <3>2, <3>3, AsBefore, NothingMade DEF IInv
    <2>7. BatchAwaited' /\ LossReported'
      BY <1>1, <2>4 DEF BatchAwaited, LossReported
    <2>8. SeenStored' /\ SumsBehind' /\ SummaryWithin'
      BY <1>1, <1>2, RequestsKept DEF IInv, server
    <2>9. /\ queued' = queued /\ shed' = shed /\ cleared' = cleared /\ stored' = stored
          /\ dropped' = dropped
      BY <1>1 DEF history, server
    <2>10. NothingLostSilently'
      BY <2>1, <2>3, <2>9 DEF IInv, NothingLostSilently, Ids
    <2>11. LossLeavesTrace'
      BY <2>1, <2>3, <2>9 DEF IInv, LossLeavesTrace
    <2> QED
      BY <2>5, <2>6, <2>7, <2>8, <2>10, <2>11 DEF IInv
  <1>4. CASE Refused
    <2>1. job' \in JobType /\ job'.step \in {"idle", "off"} /\ job' = AfterFlush /\ on' = Off /\ queue' = queue
      BY <1>4, JobAfter DEF IInv, Refused
    <2> QED
      BY <1>1, <1>2, <2>1, AsBefore, JobMoves DEF page, local, bounds
  <1>5. CASE job' = Retry /\ UNCHANGED <<on, queue>>
    <2>1. job' \in JobType /\ job'.step \in {"idle", "off", "send"}
      BY <1>5, JobAfter DEF IInv
    <2> QED
      BY <1>1, <1>2, <1>5, <2>1, AsBefore, JobMoves DEF page, local, bounds
  <1> QED
    BY <1>3, <1>4, <1>5 DEF ReadAnswer

\* The numbers go on after the largest one that waits: it exists because no
\* number is larger than the events made.
LEMMA StateOfStartIsState ==
  ASSUME IInv
  PROVE  StateOfStart \in [life : Nat, seq : Nat] /\ StateOfStart.seq <= made
  <1>1. made \in Nat /\ lives \in Nat
    BY DEF IInv, TypeOK
  <1>2. CASE Numbered = {}
    BY <1>1, <1>2 DEF StateOfStart
  <1>3. CASE Numbered # {}
    <2> DEFINE Seqs == {e.seq : e \in Numbered}
               Below == {made - n : n \in Seqs}
    <2>1. \A e \in Numbered : e.life \in Nat /\ e.seq \in Nat /\ e.seq <= made
      BY EventsTyped DEF IInv, EventsNumbered, Numbered, EventType
    <2>2. \E n \in Seqs : \A e \in Numbered : e.seq <= n
      <3>1. Below \subseteq Nat /\ Below # {}
        BY <1>1, <1>3, <2>1
      <3>2. IsWellFoundedOn(OpToRel(<, Nat), Nat)
        BY NatLessThanWellFounded
      <3>3. \E x \in Below : \A y \in Below : ~(<<y, x>> \in OpToRel(<, Nat))
        BY <3>1, <3>2, WFMin
      <3>4. PICK x \in Below : \A y \in Below : ~(y < x)
        BY <3>1, <3>3 DEF OpToRel
      <3>5. PICK n \in Seqs : x = made - n
        BY <3>4
      <3>6. ASSUME NEW e \in Numbered PROVE e.seq <= n
        <4>1. ~(made - e.seq < made - n)
          BY <3>4, <3>5
        <4> QED
          BY <1>1, <2>1, <3>5, <4>1
      <3> QED
        BY <3>5, <3>6
    <2>3. (CHOOSE n \in Seqs : \A e \in Numbered : e.seq <= n) \in Seqs
      BY <2>2
    <2>4. (CHOOSE e \in Numbered : TRUE) \in Numbered
      BY <1>3
    <2> QED
      BY <1>3, <2>1, <2>3, <2>4 DEF StateOfStart
  <1> QED
    BY <1>2, <1>3

LEMMA StartStep == ASSUME IInv, Start PROVE IInv'
  <1>1. /\ job.step = "idle" /\ on' = StateOfStart /\ lives' \in Nat
        /\ UNCHANGED <<page, local, job, req, server, made, queued, shed, cleared, bounds>>
    BY DEF IInv, TypeOK, Start, Idle
  <1>2. on' \in [life : Nat, seq : Nat] /\ on'.seq <= made
    BY <1>1, StateOfStartIsState
  <1>3. TypeOK'
    BY <1>1, <1>2 DEF IInv, TypeOK, page, local, server, bounds
  <1>4. EventsNumbered'
    <2>1. Events' \subseteq Events
      BY <1>1, EventsTyped, EventsWithin DEF IInv, page, local, server
    <2> QED
      BY <1>1, <1>2, <2>1, NothingMade DEF IInv
  <1>5. BatchAwaited' /\ LossReported'
    BY <1>1 DEF BatchAwaited, LossReported
  <1>6. SeenStored' /\ SumsBehind' /\ SummaryWithin'
    BY <1>1, AsBefore, RequestsKept DEF IInv, server
  <1>7. NothingLostSilently' /\ LossLeavesTrace'
    BY <1>1, LedgerKept DEF IInv, server
  <1> QED
    BY <1>3, <1>4, <1>5, <1>6, <1>7 DEF IInv

\* What a sign-out removes from the queue is on the list of what was cleared.
LEMMA FinishStep == ASSUME IInv, Finish PROVE IInv'
  <1>1. job.step = "off" /\ dropped = 0 /\ on' = Off /\ job' = Idle /\ UNCHANGED <<page, req, server, made, lives, queued, shed, bounds>>
    BY DEF IInv, LossReported, Finish
  <1>2. job' \in JobType /\ job'.step = "idle" /\ job'.event = <<>>
    BY <1>1, JobAfter DEF IInv
  <1>3. CASE job.then = "clear"
    <2>1. queue' = <<>> /\ dropped' = 0 /\ cleared' = cleared \cup Ids(ToSet(queue))
      BY <1>3 DEF Finish
    <2>2. cleared' \subseteq Nat
      <3>1. Ids(ToSet(queue)) \subseteq Nat
        BY ToSetMembers, IdsAreNumbers DEF IInv, TypeOK
      <3> QED
        BY <2>1, <3>1 DEF IInv, TypeOK
    <2>3. TypeOK'
      BY <1>1, <1>2, <2>1, <2>2, AsBefore DEF IInv, TypeOK, page, server, bounds
    <2>4. EventsNumbered'
      <3>1. ToSet(queue') \subseteq Events /\ ToSet(job'.event) \subseteq Events
        BY <1>2, <2>1, AsBefore
      <3>2. Events' \subseteq Events
        BY <1>1, <3>1, EventsTyped, EventsWithin DEF IInv, page, server
      <3> QED
        BY <1>1, <3>2, AsBefore, NothingMade DEF IInv
    <2>5. BatchAwaited' /\ LossReported'
      BY <1>2 DEF BatchAwaited, LossReported
    <2>6. SeenStored' /\ SumsBehind' /\ SummaryWithin'
      BY <1>1, AsBefore, RequestsKept DEF IInv, server
    <2>7. NothingLostSilently'
      BY <1>1, <2>1 DEF IInv, NothingLostSilently, server, Ids
    <2>8. LossLeavesTrace'
      <3>1. shed' = shed /\ stored' = stored
        BY <1>1 DEF server
      <3>2. CASE ToSet(queue) = {}
        BY <1>1, <2>1, <3>1, <3>2, AsBefore DEF IInv, LossLeavesTrace
      <3>3. CASE ToSet(queue) # {}
        <4>1. cleared' # {}
          BY <2>1, <3>3 DEF Ids
        <4> QED
          BY <4>1 DEF LossLeavesTrace
      <3> QED
        BY <3>2, <3>3
    <2> QED
      BY <2>3, <2>4, <2>5, <2>6, <2>7, <2>8 DEF IInv
  <1>4. CASE job.then # "clear"
    <2>1. UNCHANGED <<local, server, history>>
      BY <1>1, <1>4 DEF Finish, history
    <2> QED
      BY <1>1, <1>2, <2>1, AsBefore, JobMoves DEF page, bounds
  <1> QED
    BY <1>3, <1>4


------------------------------------------------------------------------------
(***************************************************************************)
(* The server.                                                             *)
(***************************************************************************)

\* A step of the server: it stores events of a batch, moves a request on, and
\* answers "ok" only when the batch is stored.
LEMMA ServerMoves ==
  ASSUME IInv, UNCHANGED <<page, on, local, job, history, bounds>>, open' \in BOOLEAN,
         req' \in [Slots -> RequestType], summary' \in Nat \cup {None},
         stored \subseteq stored', stored' \subseteq Events,
         SeenStored', SumsBehind', SummaryWithin',
         \A t \in Slots : ToSet(req'[t].batch) \subseteq ToSet(req[t].batch),
         \A t \in Slots : req'[t].step \in {"sent", "summary", "events"} =>
              req[t].step \in {"sent", "summary", "events"} /\ req'[t].batch = req[t].batch,
         \A t \in Slots : req'[t].step = "done" /\ req'[t].answer = "ok" =>
              \/ req[t].step = "done" /\ req[t].answer = "ok"
              \/ req[t].step \in {"sent", "summary", "events"} /\ ToSet(req[t].batch) \subseteq stored'
  PROVE  IInv'
  <1>1. /\ queue' = queue /\ job' = job /\ made' = made /\ on' = on /\ dropped' = dropped
        /\ queued' = queued /\ shed' = shed /\ cleared' = cleared
    BY DEF local, history
  <1>2. TypeOK'
    BY EventsTyped DEF IInv, TypeOK, page, local, history, bounds
  <1>3. EventsNumbered'
    <2>1. \A t \in Slots : ToSet(req'[t].batch) \subseteq Events
      BY EventsTyped DEF IInv
    <2>2. Events' \subseteq Events
      BY <1>1, <2>1, EventsTyped, EventsWithin DEF IInv, page
    <2> QED
      BY <1>1, <2>2, AsBefore, NothingMade DEF IInv
  <1>4. BatchAwaited'
    <2>1. CASE job.step = "await"
      BY <1>1, <2>1 DEF IInv, BatchAwaited, Underway
    <2>2. CASE job.step # "await"
      BY <1>1, <2>2 DEF BatchAwaited
    <2> QED
      BY <2>1, <2>2
  <1>5. LossReported'
    BY <1>1 DEF IInv, LossReported
  <1>6. NothingLostSilently'
    BY <1>1 DEF IInv, NothingLostSilently, Ids
  <1>7. LossLeavesTrace'
    BY <1>1 DEF IInv, LossLeavesTrace
  <1> QED
    BY <1>2, <1>3, <1>4, <1>5, <1>6, <1>7 DEF IInv

\* An answer that stores nothing.
LEMMA AnsweredOnly ==
  ASSUME IInv, NEW s \in Slots, NEW a \in {"refused", "error"}, Answered(s, a),
         UNCHANGED <<page, on, local, job, server, history, bounds>>
  PROVE  IInv'
  <1>1. /\ req' \in [Slots -> RequestType] /\ \A t \in Slots : Lesser(req'[t], req[t])
        /\ \A t \in Slots \ {s} : req'[t] = req[t]
        /\ req'[s].step \in {"free", "done"} /\ (req'[s].step = "done" => req'[s].answer = a)
    BY AnsweredIsLess DEF IInv
  <1>2. SeenStored' /\ SumsBehind' /\ SummaryWithin'
    BY <1>1, RequestsKept DEF IInv, server
  <1>3. open' = open /\ stored' = stored /\ summary' = summary
    BY DEF server
  <1>4. \A t \in Slots : ToSet(req'[t].batch) \subseteq ToSet(req[t].batch)
    BY <1>1 DEF Lesser
  <1> QED
    BY <1>1, <1>2, <1>3, <1>4, EventsTyped, ServerMoves DEF IInv, TypeOK

LEMMA CloseStep == ASSUME IInv, Close PROVE IInv'
  <1>1. /\ UNCHANGED <<page, on, local, job, req, stored, summary, history, bounds>> /\ open' = FALSE
    BY DEF Close
  <1>2. SeenStored' /\ SumsBehind' /\ SummaryWithin'
    BY <1>1, AsBefore, RequestsKept DEF IInv
  <1> QED
    BY <1>1, <1>2, EventsTyped, ServerMoves DEF IInv, TypeOK

LEMMA LoadSummaryStep == ASSUME IInv, NEW s \in Slots, LoadSummary(s) PROVE IInv'
  <1>1. CASE open
    <2>1. /\ req[s].step = "sent" /\ req' = [req EXCEPT ![s].step = "summary", ![s].sum = summary]
          /\ UNCHANGED <<page, on, local, job, server, history, bounds>>
      BY <1>1 DEF LoadSummary
    <2>2. req[s] \in RequestType /\ summary \in Nat \cup {None}
      BY AsBefore DEF IInv, TypeOK
    <2>3. /\ req'[s] = [req[s] EXCEPT !.step = "summary", !.sum = summary]
          /\ \A t \in Slots \ {s} : req'[t] = req[t]
      BY <2>1, AsBefore
    <2>4. /\ [req[s] EXCEPT !.step = "summary", !.sum = summary] \in RequestType
          /\ req'[s].step = "summary" /\ req'[s].sum = summary /\ req'[s].batch = req[s].batch
      BY <2>2, <2>3 DEF RequestType
    <2>5. req' \in [Slots -> RequestType]
      BY <2>1, <2>3, <2>4, AsBefore
    <2>6. stored' = stored /\ summary' = summary /\ open' = open
      BY <2>1 DEF server
    <2>7. SeenStored'
      BY <2>3, <2>4, <2>6 DEF IInv, SeenStored
    <2>8. SumsBehind' /\ SummaryWithin'
      BY <2>3, <2>4, <2>6 DEF IInv, SumsBehind, SummaryWithin, Pages
    <2>9. \A t \in Slots : req'[t].batch = req[t].batch
      BY <2>3, <2>4
    <2>10. /\ \A t \in Slots : req'[t].step \in {"sent", "summary", "events"} =>
                req[t].step \in {"sent", "summary", "events"}
           /\ \A t \in Slots : req'[t].step = "done" => req'[t] = req[t]
      BY <2>1, <2>3, <2>4
    <2> QED
      BY <2>1, <2>2, <2>5, <2>6, <2>7, <2>8, <2>9, <2>10, EventsTyped, ServerMoves DEF IInv, TypeOK
  <1>2. CASE ~open
    BY <1>2, AnsweredOnly DEF LoadSummary
  <1> QED
    BY <1>1, <1>2

LEMMA LoadExistingStep == ASSUME IInv, NEW s \in Slots, LoadExisting(s) PROVE IInv'
  <1> DEFINE found == Ids(stored) \cap Ids(ToSet(req[s].batch))
  <1>1. /\ req[s].step = "summary" /\ req' = [req EXCEPT ![s].step = "events", ![s].seen = found]
        /\ UNCHANGED <<page, on, local, job, server, history, bounds>>
    BY DEF LoadExisting
  <1>2. req[s] \in RequestType
    BY AsBefore
  <1>3. found \subseteq Ids(stored) /\ found \subseteq Nat
    BY IdsAreNumbers DEF IInv, TypeOK
  <1> HIDE DEF found
  <1>4. /\ req'[s] = [req[s] EXCEPT !.step = "events", !.seen = found]
        /\ \A t \in Slots \ {s} : req'[t] = req[t]
    BY <1>1, AsBefore
  <1>5. /\ [req[s] EXCEPT !.step = "events", !.seen = found] \in RequestType
        /\ req'[s].step = "events" /\ req'[s].seen = found /\ req'[s].sum = req[s].sum
        /\ req'[s].batch = req[s].batch
    BY <1>2, <1>3, <1>4 DEF RequestType
  <1>6. req' \in [Slots -> RequestType]
    BY <1>1, <1>4, <1>5, AsBefore
  <1>7. stored' = stored /\ summary' = summary /\ open' = open
    BY <1>1 DEF server
  <1>8. SeenStored'
    BY <1>3, <1>4, <1>5, <1>7 DEF IInv, SeenStored
  <1>9. SumsBehind' /\ SummaryWithin'
    BY <1>4, <1>5, <1>7 DEF IInv, SumsBehind, SummaryWithin, Pages
  <1>10. \A t \in Slots : req'[t].batch = req[t].batch
    BY <1>4, <1>5
  <1>11. /\ \A t \in Slots : req'[t].step \in {"sent", "summary", "events"} =>
              req[t].step \in {"sent", "summary", "events"}
         /\ \A t \in Slots : req'[t].step = "done" => req'[t] = req[t]
    BY <1>1, <1>4, <1>5
  <1> QED
    BY <1>1, <1>6, <1>7, <1>8, <1>9, <1>10, <1>11, EventsTyped, ServerMoves DEF IInv, TypeOK

\* The commit adds events that were not stored, and the sum that was loaded
\* before is not ahead of those that were.
LEMMA CommitStep == ASSUME IInv, NEW s \in Slots, Commit(s) PROVE IInv'
  <1>1. CASE Conflict(s)
    BY <1>1, AnsweredOnly DEF Commit, server
  <1>2. CASE ~Conflict(s)
    <2>1. /\ req[s].step = "events" /\ Answered(s, "ok") /\ stored' = stored \cup New(s)
          /\ summary' = IF req[s].sum = None THEN Cardinality(Counted(s))
                        ELSE IF Counted(s) = {} THEN summary ELSE req[s].sum + Cardinality(Counted(s))
          /\ UNCHANGED <<page, on, local, job, open, history, bounds>>
          /\ Ids(New(s)) \cap Ids(stored) = {}
      BY <1>2 DEF Commit, Conflict
    <2>2. /\ req' \in [Slots -> RequestType] /\ \A t \in Slots : Lesser(req'[t], req[t])
          /\ \A t \in Slots \ {s} : req'[t] = req[t]
          /\ req'[s].step \in {"free", "done"}
      BY <2>1, AnsweredIsLess DEF IInv
    <2>3. /\ ToSet(req[s].batch) \subseteq Events /\ IsFiniteSet(ToSet(req[s].batch))
          /\ req[s].batch \in Seq(EventType) /\ req[s].sum \in Nat \cup {None} /\ summary \in Nat \cup {None}
      BY AsBefore, EventsTyped, ToSetMembers DEF IInv, TypeOK, RequestType
    <2>4. stored \subseteq stored' /\ stored' \subseteq Events
      BY <2>1, <2>3, EventsTyped DEF IInv, New
    <2>5. ToSet(req[s].batch) \subseteq stored'
      <3>1. ASSUME NEW e \in ToSet(req[s].batch), e.id \in req[s].seen PROVE e \in stored
        <4>1. PICK f \in stored : f.id = e.id
          BY <2>1, <3>1 DEF IInv, SeenStored, Ids
        <4> QED
          BY <2>3, <4>1, EventsTyped DEF IInv, EventsNumbered
      <3> QED
        BY <2>1, <3>1 DEF New
    <2>6. /\ IsFiniteSet(stored) /\ IsFiniteSet(Pages(stored)) /\ IsFiniteSet(Counted(s)) /\ IsFiniteSet(New(s))
      <3>1. New(s) \subseteq ToSet(req[s].batch) /\ Counted(s) \subseteq ToSet(req[s].batch)
            /\ Pages(stored) \subseteq stored
        BY DEF New, Counted, Pages
      <3> QED
        BY <2>3, <3>1, FS_Subset DEF IInv, SumsBehind
    <2>7. Pages(stored') = Pages(stored) \cup Counted(s) /\ Pages(stored) \cap Counted(s) = {}
      BY <2>1 DEF Pages, Counted, Ids
    <2>8. IsFiniteSet(stored')
      BY <2>1, <2>6, FS_Union
    <2>9. /\ Cardinality(Pages(stored)) \in Nat /\ Cardinality(Counted(s)) \in Nat
          /\ Cardinality(Pages(stored')) = Cardinality(Pages(stored)) + Cardinality(Counted(s))
      <3>1. Cardinality(Pages(stored) \cup Counted(s)) =
              Cardinality(Pages(stored)) + Cardinality(Counted(s)) - Cardinality({})
        BY <2>6, <2>7, FS_Union
      <3>2. Cardinality(Pages(stored)) \in Nat /\ Cardinality(Counted(s)) \in Nat /\ Cardinality({}) = 0
        BY <2>6, FS_CardinalityType, FS_EmptySet
      <3> QED
        BY <2>7, <3>1, <3>2
    <2>10. /\ \A t \in Slots : req[t].sum <= Cardinality(Pages(stored)) /\ req[t].sum \in Nat \cup {None}
           /\ summary <= Cardinality(Pages(stored))
      BY AsBefore DEF IInv, SumsBehind, SummaryWithin, Pages, RequestType
    <2>11. SumsBehind'
      <3>1. ASSUME NEW t \in Slots PROVE req'[t].sum <= Cardinality(Pages(stored'))
        BY <2>2, <2>9, <2>10 DEF Lesser, None
      <3> QED
        BY <2>8, <3>1 DEF SumsBehind, Pages
    <2>12. summary' \in Nat \cup {None} /\ summary' <= Cardinality(Pages(stored'))
      BY <2>1, <2>3, <2>9, <2>10 DEF None
    <2>13. SummaryWithin'
      BY <2>12 DEF SummaryWithin, Pages
    <2>14. SeenStored'
      <3>1. Ids(stored) \subseteq Ids(stored')
        BY <2>4 DEF Ids
      <3> QED
        BY <2>2, <3>1 DEF IInv, SeenStored
    <2>15. /\ \A t \in Slots : ToSet(req'[t].batch) \subseteq ToSet(req[t].batch)
           /\ \A t \in Slots : req'[t].step \in {"sent", "summary", "events"} =>
                req[t].step \in {"sent", "summary", "events"} /\ req'[t].batch = req[t].batch
      BY <2>2 DEF Lesser
    <2>16. \A t \in Slots : req'[t].step = "done" /\ req'[t].answer = "ok" =>
              \/ req[t].step = "done" /\ req[t].answer = "ok"
              \/ req[t].step \in {"sent", "summary", "events"} /\ ToSet(req[t].batch) \subseteq stored'
      BY <2>1, <2>2, <2>5
    <2>17. open' \in BOOLEAN
      BY <2>1 DEF IInv, TypeOK
    <2> QED
      BY <2>1, <2>2, <2>4, <2>11, <2>12, <2>13, <2>14, <2>15, <2>16, <2>17, ServerMoves
  <1> QED
    BY <1>1, <1>2

------------------------------------------------------------------------------
(***************************************************************************)
(* The results.                                                            *)
(***************************************************************************)

LEMMA Initially == ASSUME Init PROVE IInv
  <1>1. <<>> \in Seq(EventType) /\ ToSet(<<>>) = {} /\ MaxStops \in Nat /\ MaxFaults \in Nat
    BY EmptySeq, ToSetOfEmpty, PipelineAssumption
  <1>2. Idle \in JobType /\ Idle.event = <<>> /\ Idle.step = "idle"
    BY <1>1, PipelineAssumption DEF Idle, JobType, Ends, None
  <1>3. Free \in RequestType /\ Free.batch = <<>> /\ Free.step = "free" /\ Free.sum = None
    BY <1>1 DEF Free, RequestType, None
  <1>4. TypeOK
    BY <1>1, <1>2, <1>3 DEF Init, TypeOK, Off, None
  <1>5. Events = {}
    <2>1. \A s \in Slots : Batched(s) = {}
      BY <1>1, <1>3 DEF Init, Batched
    <2> QED
      BY <1>1, <1>2, <2>1 DEF Init, Events
  <1>6. EventsNumbered
    BY <1>5 DEF EventsNumbered, Init, Off
  <1>7. BatchAwaited /\ SeenStored /\ LossReported
    BY <1>2, <1>3 DEF Init, BatchAwaited, SeenStored, LossReported
  <1>8. Pages(stored) = {} /\ stored = {} /\ Cardinality({}) = 0 /\ IsFiniteSet({})
    BY FS_EmptySet DEF Init, Pages
  <1>9. SumsBehind
    <2>1. \A s \in Slots : req[s].sum = -1
      BY <1>3 DEF Init, None
    <2>2. Cardinality(Pages(stored)) = 0
      BY <1>8
    <2>3. \A s \in Slots : req[s].sum <= Cardinality(Pages(stored))
      BY <2>1, <2>2
    <2> QED
      BY <1>8, <2>3 DEF SumsBehind
  <1>10. NothingLostSilently /\ LossLeavesTrace
    BY DEF Init, NothingLostSilently, LossLeavesTrace
  <1>11. SummaryWithin
    BY <1>8 DEF Init, SummaryWithin, Pages, None
  <1> QED
    BY <1>4, <1>6, <1>7, <1>9, <1>10, <1>11 DEF IInv

LEMMA Inductive == IInv /\ [Next]_vars => IInv'
  <1> SUFFICES ASSUME IInv, [Next]_vars PROVE IInv'
    OBVIOUS
  <1>1. CASE Press
    BY <1>1, PressStep
  <1>2. CASE SendPending
    BY <1>2, SendPendingStep
  <1>3. CASE TabEvent
    BY <1>3, TabEventStep
  <1>4. CASE Worker
    <2>1. CASE Receive
      BY <2>1, ReceiveStep
    <2>2. CASE Reply
      BY <2>2, ReplyStep
    <2>3. CASE Enqueue
      BY <2>3, EnqueueStep
    <2>4. CASE StartFlush
      BY <2>4, StartFlushStep
    <2>5. CASE ReportLoss
      BY <2>5, ReportLossStep
    <2>6. CASE Send
      BY <2>6, SendStep
    <2>7. CASE FlushDone
      BY <2>7, FlushDoneStep
    <2>8. CASE ReadAnswer
      BY <2>8, ReadAnswerStep
    <2>9. CASE Finish
      BY <2>9, FinishStep
    <2> QED
      BY <1>4, <2>1, <2>2, <2>3, <2>4, <2>5, <2>6, <2>7, <2>8, <2>9 DEF Worker
  <1>5. CASE Flush
    BY <1>5, FlushStep
  <1>6. CASE Start
    BY <1>6, StartStep
  <1>7. CASE Stop("stop") \/ Stop("clear")
    BY <1>7, StopStep
  <1>8. CASE Timeout
    BY <1>8, TimeoutStep
  <1>9. CASE WorkerEnds
    BY <1>9, WorkerEndsStep
  <1>10. CASE BrowserRestarts
    BY <1>10, BrowserRestartsStep
  <1>11. CASE Close
    BY <1>11, CloseStep
  <1>12. ASSUME NEW s \in Slots, Server(s) PROVE IInv'
    BY <1>12, LoadSummaryStep, LoadExistingStep, CommitStep DEF Server
  <1>13. CASE UNCHANGED vars
    <2>1. UNCHANGED <<local, server, history, page, on, job, req, bounds>>
      BY <1>13 DEF vars, local, server, history, page, bounds
    <2>2. SeenStored' /\ SumsBehind' /\ SummaryWithin'
      BY <2>1, AsBefore, RequestsKept DEF IInv, server
    <2> QED
      BY <2>1, <2>2, EventsTyped, ServerMoves DEF IInv, TypeOK, server
  <1> QED
    BY <1>1, <1>2, <1>3, <1>4, <1>5, <1>6, <1>7, <1>8, <1>9, <1>10, <1>11, <1>12, <1>13 DEF Next

LEMMA Invariance == Spec => []IInv
  BY Initially, Inductive, PTL DEF Spec

\* What the worker keeps in chrome.storage, its job, the requests at the server
\* and the stored rows have the shapes the code gives them.
THEOREM PipelineTypes == Spec => []TypeOK
  <1>1. IInv => TypeOK
    BY DEF IInv
  <1> QED
    BY <1>1, Invariance, PTL

\* An event that entered the queue waits in it, is stored, was shed and counted
\* or was removed at a sign-out: flushUnlocked removes a batch only after
\* telemetry_events has committed all of it.
THEOREM EventsAccountedFor == Spec => []NothingLostSilently
  <1>1. IInv => NothingLostSilently
    BY DEF IInv
  <1> QED
    BY <1>1, Invariance, PTL

\* Events that the queue limit removed leave a count or a report of it
\* (enqueueUnlocked, flushUnlocked).
THEOREM LossIsReported == Spec => []LossLeavesTrace
  <1>1. IInv => LossLeavesTrace
    BY DEF IInv
  <1> QED
    BY <1>1, Invariance, PTL

\* The summary row never counts a keystroke twice, whatever batches are sent
\* again and overtake one another (telemetry_events).
THEOREM KeystrokesCountedOnce == Spec => []SummaryWithin
  <1>1. IInv => SummaryWithin
    BY DEF IInv
  <1> QED
    BY <1>1, Invariance, PTL

==============================================================================
