-------------------------- MODULE ExecutionWatchProofs --------------------------
(***************************************************************************)
(* For any number of steps, attempts, cancels and failures: what a         *)
(* watching client reports as the job's outcome is the job's, or one of    *)
(* two when a cancel crossed the worker; a watch that ends because it      *)
(* observed an outcome has reported one; what the worker did is told in    *)
(* order.                                                                  *)
(***************************************************************************)
EXTENDS ExecutionWatch, SequenceTheorems, TLAPS

InHand == [at : {"idle", "lookup", "update", "append", "publish"}, event : Events]

JobShapes ==
  /\ row \in {"none", "queued", "running"} \union Terminal
  /\ progress \in 0..Steps
  /\ worker \in {"none", "claiming", "working", "done", "failed"}
  /\ emitting \in [Emitters -> InHand]
  /\ crossed \in BOOLEAN

(* What the worker has in hand: an outcome it has not concluded, its last  *)
(* report, or the outcome it concluded with.                               *)
WorkerHas(w) ==
  /\ w.at \in {"lookup", "update"} =>
       worker = "working" /\ \E s \in {"done", "failed"} : w.event = Outcome(s)
  /\ w.at \in {"append", "publish"} =>
       \/ worker = "working" /\ w.event = Report(progress)
       \/ worker \in {"done", "failed"} /\ w.event = Outcome(worker)

(* As long as no cancel crosses the worker, the row says what it does, and *)
(* a cancel is over before it begins or begins with nobody at work.        *)
Uncrossed(c) ==
  /\ worker = "none" => row \in {"none", "queued", "cancelled"}
  /\ worker = "claiming" => row = "queued"
  /\ worker = "working" => row = "running"
  /\ worker \in {"done", "failed"} => row = worker
  /\ worker # "none" => c.at = "idle"
  /\ c.at \in {"lookup", "update"} => row = "queued"
  /\ c.at \in {"append", "publish"} => row = "cancelled"

Stages ==
  /\ emitting["enqueue"].event = Report(0)
  /\ emitting["enqueue"].at \notin {"lookup", "update"}
  /\ emitting["cancel"].at # "idle" => emitting["cancel"].event = Outcome("cancelled")
  /\ WorkerHas(emitting["worker"])
  /\ worker \in {"none", "claiming"} => emitting["worker"].at = "idle"
  /\ worker = "none" => progress = 0 /\ ~crossed
  /\ row = "none" => worker = "none"
  /\ row \in {"done", "failed"} => row = worker
  /\ worker \in {"done", "failed"} => row \in Terminal
  /\ ~crossed => Uncrossed(emitting["cancel"])

JobInv == JobShapes /\ Stages

\* What a watch's fields have to be for an EXCEPT to keep the others.
Shaped(w) ==
  /\ w = [at |-> w.at, attempt |-> w.attempt, failures |-> w.failures,
          terminal |-> w.terminal, seen |-> w.seen, why |-> w.why]
  /\ w.terminal \in BOOLEAN

(* An event that tells an outcome tells one of s.                          *)
Honest(e, s) == IsOutcome(e) => e.type \in s
HonestSeq(q, s) == q \in Seq(Events) /\ \A i \in DOMAIN q : Honest(q[i], s)

(* The outcomes on their way to the client are what the job may be said to *)
(* have come to, wherever they are: in the log, on the wire or reported.   *)
Truthful ==
  /\ HonestSeq(log, Sayable)
  /\ HonestSeq(wire, Sayable)
  /\ HonestSeq(told, Sayable)
  /\ outcomes \subseteq Sayable \intersect Terminal

(* A stream that carried an outcome has reported it.                       *)
Reported == watch.terminal \/ watch.why = "observed" => outcomes # {}

WatchInv == Shaped(watch) /\ Truthful /\ Reported

-----------------------------------------------------------------------------
\* The events that outcomes and reports are told by.
LEMMA EventTypes ==
  /\ Steps \in Nat
  /\ \A s \in Terminal : Outcome(s) \in Events /\ Outcome(s).type = s /\ IsOutcome(Outcome(s))
  /\ \A k \in 0..Steps : Report(k) \in Events
  /\ \A k : ~IsOutcome(Report(k)) /\ Report(k).type = "progress"
BY WatchAssumption DEF Events, Report, Outcome, IsOutcome, Terminal

\* Nobody has anything in hand at first, and afterwards again.
LEMMA SilentInHand == Silent \in InHand /\ Silent.at = "idle" /\ Silent.event = Report(0)
BY EventTypes DEF Silent, InHand

(* The job and its events.                                                 *)

\* Nothing has happened.
LEMMA InitJob == Init => JobInv
<1> SUFFICES ASSUME Init PROVE JobInv
  OBVIOUS
<1>1. /\ row = "none" /\ progress = 0 /\ worker = "none" /\ crossed = FALSE
      /\ \A who \in Emitters : emitting[who] = Silent
      /\ emitting \in [Emitters -> InHand]
  BY SilentInHand DEF Init
<1>2. JobShapes
  <2>1. 0 \in 0..Steps
    BY EventTypes
  <2>2. crossed \in BOOLEAN
    BY <1>1
  <2> QED
    BY <1>1, <2>1, <2>2 DEF JobShapes
<1>3. Stages
  BY <1>1, SilentInHand DEF Stages, WorkerHas, Uncrossed, Emitters
<1> QED
  BY <1>2, <1>3 DEF JobInv

\* A claim, a report and the find of an outcome: the worker's own steps.
LEMMA WorkerKeepsJob ==
  ASSUME JobInv, ClaimQueuedJob \/ WorkerStep
  PROVE  JobInv'
<1>0. /\ emitting \in [Emitters -> InHand] /\ Emitters = {"enqueue", "worker", "cancel"}
      /\ progress \in 0..Steps /\ Steps \in Nat
  BY EventTypes DEF JobInv, JobShapes, Emitters
<1>1. CASE ClaimQueuedJob
  <2>1. JobShapes'
    BY <1>1 DEF ClaimQueuedJob, JobInv, JobShapes
  <2>2. ~crossed' => emitting["cancel"].at = "idle" /\ row = "queued"
    BY <1>1, SilentInHand DEF ClaimQueuedJob
  <2>3. Stages'
    BY <1>1, <2>2 DEF ClaimQueuedJob, JobInv, Stages, WorkerHas, Uncrossed
  <2> QED
    BY <2>1, <2>3 DEF JobInv
<1>2. CASE RecordClaim
  <2>1. JobShapes'
    BY <1>2 DEF RecordClaim, JobInv, JobShapes
  <2>2. Stages'
    BY <1>2 DEF RecordClaim, JobInv, Stages, WorkerHas, Uncrossed
  <2> QED
    BY <2>1, <2>2 DEF JobInv
<1>3. CASE UpdateJobProgress
  <2>1. /\ progress' = progress + 1 /\ progress' \in 0..Steps
        /\ row' = "running" /\ worker' = worker /\ worker = "working" /\ crossed' = crossed
        /\ emitting' = [emitting EXCEPT !["worker"] = [at |-> "append", event |-> Report(progress')]]
    BY <1>0, <1>3 DEF UpdateJobProgress, Emit, Begin
  <2>2. [at |-> "append", event |-> Report(progress')] \in InHand
    BY <2>1, EventTypes DEF InHand
  <2>3. /\ emitting' \in [Emitters -> InHand]
        /\ emitting'["worker"] = [at |-> "append", event |-> Report(progress')]
        /\ emitting'["enqueue"] = emitting["enqueue"] /\ emitting'["cancel"] = emitting["cancel"]
    BY <1>0, <2>1, <2>2
  <2>4. JobShapes'
    BY <2>1, <2>3 DEF JobInv, JobShapes
  <2>5. Stages'
    BY <2>1, <2>3 DEF JobInv, Stages, WorkerHas, Uncrossed
  <2> QED
    BY <2>4, <2>5 DEF JobInv
<1>4. ASSUME NEW status \in {"done", "failed"}, Settle(status)
      PROVE  JobInv'
  <2>1. /\ UNCHANGED <<row, progress, crossed>>
        /\ worker = "working" /\ emitting["worker"] = Silent
    BY <1>4 DEF Settle
  <2>2. CASE row \in Active
    <3>1. /\ worker' = worker
          /\ emitting' = [emitting EXCEPT !["worker"] = [at |-> "lookup", event |-> Outcome(status)]]
      BY <1>4, <2>2 DEF Settle, Begin
    <3>2. [at |-> "lookup", event |-> Outcome(status)] \in InHand
      BY EventTypes DEF InHand, Terminal
    <3>3. /\ emitting' \in [Emitters -> InHand]
          /\ emitting'["worker"] = [at |-> "lookup", event |-> Outcome(status)]
          /\ emitting'["enqueue"] = emitting["enqueue"] /\ emitting'["cancel"] = emitting["cancel"]
      BY <1>0, <3>1, <3>2
    <3>4. JobShapes'
      BY <2>1, <3>1, <3>3 DEF JobInv, JobShapes
    <3>5. Stages'
      BY <2>1, <3>1, <3>3 DEF JobInv, Stages, WorkerHas, Uncrossed
    <3> QED
      BY <3>4, <3>5 DEF JobInv
  <2>3. CASE row \notin Active
    <3>1. worker' = status /\ emitting' = emitting
      BY <1>4, <2>3 DEF Settle
    <3>2. row = "cancelled" /\ crossed
      BY <2>1, <2>3 DEF JobInv, JobShapes, Stages, Uncrossed, Active, Terminal
    <3>3. JobShapes'
      BY <2>1, <3>1 DEF JobInv, JobShapes
    <3>4. Stages'
      BY <2>1, <3>1, <3>2, SilentInHand DEF JobInv, Stages, WorkerHas, Terminal
    <3> QED
      BY <3>3, <3>4 DEF JobInv
  <2> QED
    BY <2>2, <2>3
<1> QED
  BY <1>1, <1>2, <1>3, <1>4 DEF WorkerStep

\* The request that enqueues the job, and the find of one that cancels it.
LEMMA RequestsKeepJob ==
  ASSUME JobInv, Enqueue \/ CancelJob
  PROVE  JobInv'
<1>0. emitting \in [Emitters -> InHand] /\ Emitters = {"enqueue", "worker", "cancel"}
  BY DEF JobInv, JobShapes, Emitters
<1>1. CASE Enqueue
  <2>1. /\ UNCHANGED <<progress, worker, crossed>> /\ row = "none" /\ row' = "queued"
        /\ emitting' = [emitting EXCEPT !["enqueue"] = [at |-> "append", event |-> Report(0)]]
    BY <1>1 DEF Enqueue, Emit, Begin
  <2>2. [at |-> "append", event |-> Report(0)] \in InHand
    BY EventTypes DEF InHand
  <2>3. /\ emitting' \in [Emitters -> InHand]
        /\ emitting'["enqueue"] = [at |-> "append", event |-> Report(0)]
        /\ emitting'["worker"] = emitting["worker"] /\ emitting'["cancel"] = emitting["cancel"]
    BY <1>0, <2>1, <2>2
  <2>4. JobShapes'
    BY <2>1, <2>3 DEF JobInv, JobShapes
  <2>5. worker = "none"
    BY <2>1 DEF JobInv, Stages
  <2>6. Stages'
    BY <2>1, <2>3, <2>5 DEF JobInv, Stages, WorkerHas, Uncrossed
  <2> QED
    BY <2>4, <2>6 DEF JobInv
<1>2. CASE CancelJob
  <2>1. /\ UNCHANGED <<row, progress, worker>> /\ row \in Active
        /\ crossed' = (crossed \/ worker # "none")
        /\ emitting' = [emitting EXCEPT !["cancel"] =
                          [at |-> "lookup", event |-> Outcome("cancelled")]]
    BY <1>2 DEF CancelJob, Begin
  <2>2. [at |-> "lookup", event |-> Outcome("cancelled")] \in InHand
    BY EventTypes DEF InHand, Terminal
  <2>3. /\ emitting' \in [Emitters -> InHand]
        /\ emitting'["cancel"] = [at |-> "lookup", event |-> Outcome("cancelled")]
        /\ emitting'["worker"] = emitting["worker"] /\ emitting'["enqueue"] = emitting["enqueue"]
    BY <1>0, <2>1, <2>2
  <2>4. JobShapes'
    BY <2>1, <2>3 DEF JobInv, JobShapes
  <2>5. /\ ~crossed' => ~crossed /\ worker = "none"
        /\ worker = "none" => ~crossed'
    BY <2>1, Zenon DEF JobInv, Stages
  <2>6. Uncrossed(emitting["cancel"])' \/ crossed'
    BY <2>1, <2>3, <2>5 DEF JobInv, Stages, Uncrossed, Active
  <2>7. Stages'
    BY <2>1, <2>3, <2>5, <2>6 DEF JobInv, Stages, WorkerHas
  <2> QED
    BY <2>4, <2>7 DEF JobInv
<1> QED
  BY <1>1, <1>2

(* An operation that has found the job active reads the row again, and     *)
(* writes it.                                                              *)
LEMMA OperationsKeepJob ==
  ASSUME JobInv, NEW who \in Emitters, Lookup(who) \/ Update(who)
  PROVE  JobInv'
<1>0. emitting \in [Emitters -> InHand] /\ Emitters = {"enqueue", "worker", "cancel"}
  BY DEF JobInv, JobShapes, Emitters
<1>1. /\ UNCHANGED <<progress, crossed>> /\ emitting[who].at \in {"lookup", "update"}
      /\ who \in {"worker", "cancel"}
  BY <1>0 DEF Lookup, Update, JobInv, Stages
<1>2. \E s \in Terminal :
        /\ emitting[who].event = Outcome(s) /\ s = emitting[who].event.type
        /\ who = "worker" => s \in {"done", "failed"} /\ worker = "working"
        /\ who = "cancel" => s = "cancelled"
  BY <1>1, EventTypes DEF JobInv, Stages, WorkerHas, Terminal
<1>3. PICK a \in {"append", "update"} : emitting' = [emitting EXCEPT ![who].at = a]
                                        /\ (Update(who) => a = "append")
  BY DEF Lookup, Update
<1>4. /\ emitting' \in [Emitters -> InHand]
      /\ emitting'[who] = [at |-> a, event |-> emitting[who].event]
      /\ \A other \in Emitters \ {who} : emitting'[other] = emitting[other]
  BY <1>0, <1>3 DEF InHand
<1>5. CASE Lookup(who)
  <2>1. row' = row /\ a = IF row \in Terminal THEN "append" ELSE "update"
    BY <1>0, <1>4, <1>5 DEF Lookup, InHand
  <2>2. worker' = IF who = "worker" /\ row \in Terminal THEN emitting[who].event.type ELSE worker
    BY <1>5 DEF Lookup, Concluded
  <2>3. JobShapes'
    BY <1>1, <1>2, <1>4, <2>1, <2>2 DEF JobInv, JobShapes
  <2>4. CASE who = "worker" /\ row \in Terminal
    <3>1. row = "cancelled" /\ crossed
      BY <1>2, <2>4 DEF JobInv, Stages, Uncrossed, Terminal
    <3> QED
      BY <1>0, <1>1, <1>2, <1>4, <2>1, <2>2, <2>3, <2>4, <3>1
         DEF JobInv, Stages, WorkerHas, Uncrossed, Terminal
  <2>5. CASE who = "worker" /\ row \notin Terminal
    BY <1>0, <1>1, <1>2, <1>4, <2>1, <2>2, <2>3, <2>5 DEF JobInv, Stages, WorkerHas, Uncrossed
  <2>6. CASE who = "cancel"
    <3>1. ~crossed => a = "update"
      BY <1>1, <2>1, <2>6 DEF JobInv, Stages, Uncrossed, Terminal
    <3> QED
      BY <1>0, <1>1, <1>2, <1>4, <2>1, <2>2, <2>3, <2>6, <3>1
         DEF JobInv, Stages, WorkerHas, Uncrossed
  <2> QED
    BY <1>1, <2>4, <2>5, <2>6
<1>6. CASE Update(who)
  <2>1. row' = emitting[who].event.type /\ a = "append"
    BY <1>3, <1>6 DEF Update
  <2>2. worker' = IF who = "worker" THEN emitting[who].event.type ELSE worker
    BY <1>6 DEF Update, Concluded
  <2>3. JobShapes'
    BY <1>1, <1>2, <1>4, <2>1, <2>2 DEF JobInv, JobShapes
  <2>4. CASE who = "worker"
    BY <1>0, <1>1, <1>2, <1>4, <2>1, <2>2, <2>3, <2>4
       DEF JobInv, Stages, WorkerHas, Uncrossed, Terminal
  <2>5. CASE who = "cancel"
    BY <1>0, <1>1, <1>2, <1>4, <2>1, <2>2, <2>3, <2>5
       DEF JobInv, Stages, WorkerHas, Uncrossed, Terminal
  <2> QED
    BY <1>1, <2>4, <2>5
<1> QED
  BY <1>5, <1>6

\* An emitter appends, publishes, or fails to.
LEMMA EmittersKeepJob ==
  ASSUME JobInv, NEW who \in Emitters, AppendEvent(who) \/ PublishEvent(who) \/ EmitFails(who)
  PROVE  JobInv'
<1>0. emitting \in [Emitters -> InHand] /\ Emitters = {"enqueue", "worker", "cancel"}
  BY DEF JobInv, JobShapes, Emitters
<1>1. UNCHANGED <<row, progress, worker, crossed>> /\ emitting[who].at \in {"append", "publish"}
  BY DEF AppendEvent, PublishEvent, EmitFails
<1>2. \/ emitting' = [emitting EXCEPT ![who] = Silent]
      \/ emitting' = [emitting EXCEPT ![who].at = "publish"]
  BY DEF AppendEvent, PublishEvent, EmitFails
<1>3. /\ emitting' \in [Emitters -> InHand]
      /\ emitting'[who] = Silent
           \/ emitting'[who] = [at |-> "publish", event |-> emitting[who].event]
      /\ \A other \in Emitters \ {who} : emitting'[other] = emitting[other]
  BY <1>0, <1>2, SilentInHand DEF InHand
<1>4. JobShapes'
  BY <1>1, <1>3 DEF JobInv, JobShapes
<1>5. Stages'
  <2>1. CASE who = "enqueue"
    BY <1>0, <1>1, <1>3, <2>1, SilentInHand DEF JobInv, Stages, WorkerHas, Uncrossed
  <2>2. CASE who = "worker"
    BY <1>0, <1>1, <1>3, <2>2, SilentInHand DEF JobInv, Stages, WorkerHas, Uncrossed
  <2>3. CASE who = "cancel"
    BY <1>0, <1>1, <1>3, <2>3, SilentInHand DEF JobInv, Stages, WorkerHas, Uncrossed
  <2> QED
    BY <1>0, <2>1, <2>2, <2>3
<1> QED
  BY <1>4, <1>5 DEF JobInv

\* The stream's and the client's steps leave the job alone.
LEMMA OthersKeepJob ==
  ASSUME \/ StreamStep \/ ListFails \/ SubscribeFails
         \/ StartWatch \/ WatchStep \/ TimedOut \/ Stop
         \/ OpenFails \/ ResponseEnds \/ ConnectionBreaks \/ PollFails
  PROVE  UNCHANGED job
BY DEF StreamStep, ListJobEvents, ResolveTerminalReplayEvent, Subscribed, ListFails,
       SubscribeFails, StartWatch, WatchStep, OpenSse, ConsumeSseStream, Poll, PollTerminal,
       TimedOut, Stop, OpenFails, ResponseEnds, ConnectionBreaks, PollFails

\* An unchanged job keeps its invariant.
LEMMA SameJob == JobInv /\ UNCHANGED job => JobInv'
BY DEF job, JobInv, JobShapes, Stages, WorkerHas, Uncrossed

\* Every step keeps the row, the worker and what is announced together.
LEMMA StepKeepsJob == JobInv /\ [Next]_vars => JobInv'
<1> SUFFICES ASSUME JobInv, [Next]_vars PROVE JobInv'
  OBVIOUS
<1>1. CASE UNCHANGED vars
  BY <1>1, SameJob DEF vars, job
<1>2. CASE Enqueue \/ ClaimQueuedJob \/ CancelJob \/ WorkerStep
  BY <1>2, WorkerKeepsJob, RequestsKeepJob
<1>3. CASE \E who \in Emitters : EmitterStep(who) \/ EmitFails(who)
  BY <1>3, OperationsKeepJob, EmittersKeepJob DEF EmitterStep
<1>4. CASE \/ StreamStep \/ ListFails \/ SubscribeFails
           \/ StartWatch \/ WatchStep \/ TimedOut \/ Stop
           \/ OpenFails \/ ResponseEnds \/ ConnectionBreaks \/ PollFails
  BY <1>4, OthersKeepJob, SameJob
<1> QED
  BY <1>1, <1>2, <1>3, <1>4 DEF Next

-----------------------------------------------------------------------------
(* What the job may be said to have come to.                               *)

\* What an emitter announces, and what a row that has settled says.
LEMMA AnnouncedIsSayable ==
  ASSUME JobInv
  PROVE  /\ \A who \in Emitters : emitting[who].at \in {"append", "publish"} =>
              emitting[who].event \in Events /\ Honest(emitting[who].event, Sayable)
         /\ row \in Terminal => row \in Sayable
<1>1. ASSUME NEW who \in Emitters, emitting[who].at \in {"append", "publish"}
      PROVE  emitting[who].event \in Events
  BY <1>1 DEF JobInv, JobShapes, InHand
<1>2. ASSUME NEW who \in Emitters, emitting[who].at \in {"append", "publish"}
      PROVE  Honest(emitting[who].event, Sayable)
  <2>1. CASE who = "enqueue"
    BY <2>1, EventTypes DEF JobInv, Stages, Honest
  <2>2. CASE who = "worker"
    BY <1>2, <2>2, EventTypes
       DEF JobInv, Stages, WorkerHas, Uncrossed, Honest, Sayable, Terminal
  <2>3. CASE who = "cancel"
    BY <1>2, <2>3, EventTypes DEF JobInv, Stages, Uncrossed, Honest, Sayable, Terminal
  <2> QED
    BY <2>1, <2>2, <2>3 DEF Emitters
<1>3. row \in Terminal => row \in Sayable
  BY DEF JobInv, Stages, Sayable, Terminal
<1> QED
  BY <1>1, <1>2, <1>3

\* The steps that write the row or find it: nothing is appended or told.
JobStep ==
  \/ Enqueue \/ ClaimQueuedJob \/ CancelJob \/ WorkerStep
  \/ \E who \in Emitters : Lookup(who) \/ Update(who)

\* What could be said of the job can still be said.
LEMMA SayableStays ==
  ASSUME JobInv, JobStep
  PROVE  Sayable \intersect Terminal \subseteq Sayable'
<1>1. CASE ~crossed /\ row \notin Terminal
  BY <1>1 DEF Sayable
<1>2. CASE ~crossed /\ row \in Terminal
  <2>1. row # "none" /\ row \notin Active /\ worker \notin {"claiming", "working"}
    BY <1>2 DEF JobInv, Stages, Uncrossed, Terminal, Active
  <2>2. ~(Enqueue \/ ClaimQueuedJob \/ CancelJob \/ WorkerStep)
    BY <2>1 DEF Enqueue, ClaimQueuedJob, CancelJob, WorkerStep, RecordClaim, UpdateJobProgress,
                Settle, Active
  <2>3. ASSUME NEW who \in Emitters PROVE emitting[who].at \notin {"lookup", "update"}
    BY <1>2, <2>1 DEF JobInv, Stages, WorkerHas, Uncrossed, Emitters, Terminal
  <2> QED
    BY <2>2, <2>3 DEF JobStep, Lookup, Update
<1>3. CASE crossed
  <2>1. crossed'
    BY <1>3, Zenon DEF JobStep, Enqueue, ClaimQueuedJob, CancelJob, WorkerStep, RecordClaim,
                UpdateJobProgress, Settle, Lookup, Update
  <2>2. worker' = worker \/ worker \in {"none", "claiming", "working"}
    <3>1. CASE Enqueue \/ ClaimQueuedJob \/ CancelJob \/ WorkerStep
      BY <3>1 DEF Enqueue, ClaimQueuedJob, CancelJob, WorkerStep, RecordClaim,
                  UpdateJobProgress, Settle
    <3>2. ASSUME NEW who \in Emitters, Lookup(who) \/ Update(who)
          PROVE  worker' = worker \/ worker \in {"none", "claiming", "working"}
      BY <3>2 DEF Lookup, Update, Concluded, JobInv, Stages, WorkerHas
    <3> QED
      BY <3>1, <3>2 DEF JobStep
  <2> QED
    BY <1>3, <2>1, <2>2 DEF Sayable, Terminal
<1>4. crossed \in BOOLEAN
  BY DEF JobInv, JobShapes
<1> QED
  BY <1>1, <1>2, <1>3, <1>4

-----------------------------------------------------------------------------
(* Sequences of honest events.                                             *)

\* What is honest stays so when more can be said.
LEMMA HonestMore ==
  ASSUME NEW q, NEW s, NEW t, HonestSeq(q, s), s \intersect Terminal \subseteq t
  PROVE  HonestSeq(q, t)
BY DEF HonestSeq, Honest, IsOutcome

\* An honest event may be added to honest ones.
LEMMA HonestAppend ==
  ASSUME NEW q, NEW s, HonestSeq(q, s), NEW e \in Events, Honest(e, s)
  PROVE  HonestSeq(Append(q, e), s)
BY DEF HonestSeq

\* Honest sequences in a row are honest.
LEMMA HonestConcat ==
  ASSUME NEW q, NEW p, NEW s, HonestSeq(q, s), HonestSeq(p, s)
  PROVE  HonestSeq(q \o p, s)
<1>1. q \o p \in Seq(Events)
  BY ConcatProperties DEF HonestSeq
<1>2. ASSUME NEW i \in DOMAIN (q \o p) PROVE Honest((q \o p)[i], s)
  BY <1>2, ConcatProperties DEF HonestSeq
<1> QED
  BY <1>1, <1>2 DEF HonestSeq

\* So are the head and the rest of one.
LEMMA HonestHead ==
  ASSUME NEW q, NEW s, HonestSeq(q, s), q # <<>>
  PROVE  HonestSeq(Tail(q), s) /\ Head(q) \in Events /\ Honest(Head(q), s)
<1>1. /\ q \in Seq(Events) /\ Len(q) > 0
      /\ Head(q) = q[1] /\ 1 \in DOMAIN q
      /\ Tail(q) \in Seq(Events)
      /\ Len(Tail(q)) = Len(q) - 1 /\ \A i \in 1..Len(Tail(q)) : Tail(q)[i] = q[i + 1]
  BY HeadTailProperties, EmptySeq DEF HonestSeq
<1>2. ASSUME NEW i \in DOMAIN Tail(q) PROVE Honest(Tail(q)[i], s)
  BY <1>1 DEF HonestSeq
<1> QED
  BY <1>1, <1>2 DEF HonestSeq

\* Nothing at all is honest.
LEMMA HonestEmpty == \A s : HonestSeq(<<>>, s)
BY DEF HonestSeq

-----------------------------------------------------------------------------
(* The client and what is on its way to it.                                *)

\* Nothing was told.
LEMMA InitWatch == Init => WatchInv
<1> SUFFICES ASSUME Init PROVE WatchInv
  OBVIOUS
<1>1. Shaped(Start) /\ ~Start.terminal /\ Start.why = "none"
  BY DEF Start, Shaped
<1>2. log = <<>> /\ wire = <<>> /\ told = <<>> /\ watch = Start /\ outcomes = {}
  BY DEF Init
<1> QED
  BY <1>1, <1>2, HonestEmpty DEF WatchInv, Truthful, Reported

\* Whatever the job does, what is on its way stays true.
LEMMA JobKeepsWatch ==
  ASSUME JobInv, WatchInv, JobStep
  PROVE  WatchInv'
<1>1. UNCHANGED <<log, wire, watch, told, outcomes>>
  BY DEF JobStep, Enqueue, ClaimQueuedJob, CancelJob, WorkerStep, RecordClaim,
         UpdateJobProgress, Settle, Lookup, Update, client
<1>2. Sayable \intersect Terminal \subseteq Sayable'
  BY SayableStays
<1>3. Truthful'
  BY <1>1, <1>2, HonestMore DEF WatchInv, Truthful
<1> QED
  BY <1>1, <1>3 DEF WatchInv, Reported

(* What the other steps have to leave behind.                              *)
LEMMA WatchFromParts ==
  ASSUME WatchInv, UNCHANGED <<row, worker, crossed>>,
         HonestSeq(log', Sayable), HonestSeq(wire', Sayable), HonestSeq(told', Sayable),
         Shaped(watch'), outcomes \subseteq outcomes', outcomes' \subseteq Sayable \intersect Terminal,
         watch'.terminal \/ watch'.why = "observed"
           => watch.terminal \/ watch.why = "observed" \/ outcomes' # {}
  PROVE  WatchInv'
<1>1. Sayable' = Sayable
  BY DEF Sayable
<1>2. Truthful'
  BY <1>1 DEF Truthful
<1>3. Reported'
  BY DEF WatchInv, Reported
<1> QED
  BY <1>2, <1>3 DEF WatchInv

\* An emitter appends, publishes, or fails to.
LEMMA EmittersKeepWatch ==
  ASSUME JobInv, WatchInv, NEW who \in Emitters,
         AppendEvent(who) \/ PublishEvent(who) \/ EmitFails(who)
  PROVE  WatchInv'
<1> DEFINE e == emitting[who].event
<1>1. e \in Events /\ Honest(e, Sayable)
  BY AnnouncedIsSayable DEF AppendEvent, PublishEvent, EmitFails
<1>2. UNCHANGED <<row, worker, crossed, watch, told, outcomes>>
  BY DEF AppendEvent, PublishEvent, EmitFails, client
<1>3. /\ log' = log \/ log' = Append(log, e)
      /\ wire' = wire \/ wire' = Append(wire, e)
  BY DEF AppendEvent, PublishEvent, EmitFails
<1>4. HonestSeq(log', Sayable) /\ HonestSeq(wire', Sayable)
  BY <1>1, <1>3, HonestAppend DEF WatchInv, Truthful
<1> QED
  BY <1>2, <1>4, WatchFromParts DEF WatchInv, Truthful

\* The stream's handler reads the log, makes up an outcome, subscribes.
LEMMA StreamKeepsWatch ==
  ASSUME JobInv, WatchInv, StreamStep \/ ListFails \/ SubscribeFails
  PROVE  WatchInv'
<1>1. UNCHANGED <<row, worker, crossed, log, watch, told, outcomes>>
  BY DEF StreamStep, ListJobEvents, ResolveTerminalReplayEvent, Subscribed, ListFails,
         SubscribeFails, job, client
<1>2. row \in Terminal => HonestSeq(<<Outcome(row)>>, Sayable)
  BY EventTypes, AnnouncedIsSayable DEF HonestSeq, Honest
<1>3. \E events : HonestSeq(events, Sayable) /\ (wire' = wire \o events \/ wire' = wire)
  BY <1>2, HonestEmpty
     DEF StreamStep, ListJobEvents, ResolveTerminalReplayEvent, Subscribed, ListFails,
         SubscribeFails, Replay, WatchInv, Truthful
<1>4. HonestSeq(wire', Sayable)
  BY <1>3, HonestConcat DEF WatchInv, Truthful
<1> QED
  BY <1>1, <1>4, WatchFromParts DEF WatchInv, Truthful

(* The steps of the client that report nothing and write no why but that   *)
(* of a stream which carried the outcome.                                  *)
LEMMA SilentStepsKeepWatch ==
  ASSUME WatchInv,
         \/ StartWatch \/ OpenSse \/ TimedOut \/ Stop
         \/ OpenFails \/ ResponseEnds \/ ConnectionBreaks \/ PollFails
  PROVE  WatchInv'
<1>1. /\ UNCHANGED <<row, worker, crossed, log, outcomes>>
      /\ wire' = wire \/ wire' = <<>>
      /\ told' = told \/ told' = <<>>
  BY DEF StartWatch, OpenSse, TimedOut, Stop, OpenFails, ResponseEnds, ConnectionBreaks,
         PollFails, NextAttempt, End, Hangup, job
<1>2. HonestSeq(wire', Sayable) /\ HonestSeq(told', Sayable)
  BY <1>1, HonestEmpty DEF WatchInv, Truthful
<1>3. /\ Shaped(watch')
      /\ watch'.terminal \/ watch'.why = "observed" => watch.terminal \/ watch.why = "observed"
  <2>1. Shaped(watch)
    BY DEF WatchInv
  <2>2. ASSUME NEW why, End(why)
        PROVE  Shaped(watch') /\ ~watch'.terminal /\ watch'.why = why
    <3>1. watch' = [at |-> "ended", attempt |-> 0, failures |-> 0, terminal |-> FALSE,
                    seen |-> Steps + 1, why |-> why]
      BY <2>2 DEF End, Start
    <3> QED
      BY <3>1 DEF Shaped
  <2>3. CASE StartWatch \/ OpenSse
    BY <2>1, <2>3 DEF StartWatch, OpenSse, Shaped
  <2>4. CASE TimedOut \/ Stop
    BY <2>2, <2>4 DEF TimedOut, Stop
  <2>5. CASE NextAttempt
    BY <2>1, <2>5 DEF NextAttempt, Shaped
  <2>6. CASE ResponseEnds
    BY <2>2, <2>5, <2>6 DEF ResponseEnds
  <2>7. CASE PollFails
    <3>1. CASE watch.failures + 1 >= MaxPollFailures
      BY <2>2, <2>7, <3>1 DEF PollFails
    <3>2. CASE ~(watch.failures + 1 >= MaxPollFailures)
      BY <2>1, <2>7, <3>2 DEF PollFails, Shaped
    <3> QED
      BY <3>1, <3>2
  <2> QED
    BY <2>3, <2>4, <2>5, <2>6, <2>7 DEF OpenFails, ConnectionBreaks
<1> QED
  BY <1>1, <1>2, <1>3, WatchFromParts DEF WatchInv, Truthful

\* The client takes an event from the wire.
LEMMA StreamedKeepsWatch ==
  ASSUME WatchInv, ConsumeSseStream
  PROVE  WatchInv'
<1> DEFINE e == Head(wire)
<1>1. UNCHANGED <<row, worker, crossed, log>>
  BY DEF ConsumeSseStream, job
<1>2. HonestSeq(wire', Sayable) /\ e \in Events /\ Honest(e, Sayable)
  BY HonestHead DEF ConsumeSseStream, WatchInv, Truthful
<1>3. HonestSeq(told', Sayable)
  BY <1>2, HonestAppend DEF ConsumeSseStream, Tell, WatchInv, Truthful
<1>4. outcomes' = IF IsOutcome(e) THEN outcomes \union {e.type} ELSE outcomes
  BY DEF ConsumeSseStream, Tell
<1>5. outcomes' \subseteq Sayable \intersect Terminal
  BY <1>2, <1>4 DEF WatchInv, Truthful, Honest, IsOutcome
<1>6. Shaped(watch') /\ watch'.terminal = (watch.terminal \/ IsOutcome(e)) /\ watch'.why = watch.why
  BY DEF ConsumeSseStream, WatchInv, Shaped, IsOutcome
<1>7. watch'.terminal => watch.terminal \/ outcomes' # {}
  BY <1>4, <1>6
<1> QED
  BY <1>1, <1>2, <1>3, <1>4, <1>5, <1>6, <1>7, WatchFromParts DEF WatchInv, Truthful

\* The client asks for the row.
LEMMA PollsKeepWatch ==
  ASSUME JobInv, WatchInv, Poll \/ PollTerminal
  PROVE  WatchInv'
<1>1. UNCHANGED <<row, worker, crossed, log, wire>>
  BY DEF Poll, PollTerminal, job
<1>2. CASE Poll
  <2>1. told' = told \/ told' = Append(told, Report(progress))
    BY <1>2 DEF Poll, Tell
  <2>2. Report(progress) \in Events /\ Honest(Report(progress), Sayable)
    BY EventTypes DEF JobInv, JobShapes, Honest
  <2>3. HonestSeq(told', Sayable)
    BY <2>1, <2>2, HonestAppend DEF WatchInv, Truthful
  <2>4. outcomes' = outcomes
    BY <1>2, EventTypes DEF Poll, Tell
  <2>5. Shaped(watch') /\ watch'.terminal = watch.terminal /\ watch'.why = watch.why
    BY <1>2 DEF Poll, WatchInv, Shaped
  <2> QED
    BY <1>1, <2>3, <2>4, <2>5, WatchFromParts DEF WatchInv, Truthful
<1>3. CASE PollTerminal
  <2>1. /\ outcomes' = outcomes \union {row} /\ row \in Terminal /\ told' = <<>>
        /\ watch' = [Start EXCEPT !.at = "ended", !.why = "observed"]
    BY <1>3 DEF PollTerminal, End
  <2>2. Shaped(watch')
    BY <2>1 DEF Start, Shaped
  <2>3. row \in Sayable
    BY <2>1, AnnouncedIsSayable
  <2> QED
    BY <1>1, <2>1, <2>2, <2>3, HonestEmpty, WatchFromParts DEF WatchInv, Truthful
<1> QED
  BY <1>2, <1>3

-----------------------------------------------------------------------------
\* Every step keeps what is on its way honest.
LEMMA StepKeepsWatch == JobInv /\ WatchInv /\ [Next]_vars => WatchInv'
<1> SUFFICES ASSUME JobInv, WatchInv, [Next]_vars PROVE WatchInv'
  OBVIOUS
<1>1. CASE JobStep
  BY <1>1, JobKeepsWatch
<1>2. CASE \E who \in Emitters : AppendEvent(who) \/ PublishEvent(who) \/ EmitFails(who)
  BY <1>2, EmittersKeepWatch
<1>3. CASE StreamStep \/ ListFails \/ SubscribeFails
  BY <1>3, StreamKeepsWatch
<1>4. CASE \/ StartWatch \/ OpenSse \/ TimedOut \/ Stop
           \/ OpenFails \/ ResponseEnds \/ ConnectionBreaks \/ PollFails
  BY <1>4, SilentStepsKeepWatch
<1>5. CASE ConsumeSseStream \/ Poll \/ PollTerminal
  BY <1>5, StreamedKeepsWatch, PollsKeepWatch
<1>6. CASE UNCHANGED vars
  BY <1>6 DEF vars, WatchInv, Truthful, Reported, Sayable
<1> QED
  BY <1>1, <1>2, <1>3, <1>4, <1>5, <1>6 DEF Next, JobStep, EmitterStep, WatchStep

(* Replayed from the log, made up from the row, published or polled, on    *)
(* the first connection or a later one: an outcome the client reports is   *)
(* the job's, or, once a cancel crossed the worker, the cancel or the      *)
(* worker's one outcome; and a watch that says it observed the outcome has *)
(* reported one.                                                           *)
THEOREM OnlyTheOutcomeIsTold == Spec => []OutcomeIsTheJobs
<1>1. WatchInv => OutcomeIsTheJobs
  BY DEF WatchInv, Truthful, Reported, OutcomeIsTheJobs
<1> QED
  BY <1>1, InitJob, StepKeepsJob, InitWatch, StepKeepsWatch, PTL DEF Spec

-----------------------------------------------------------------------------
(* The order of what is told.  The log is in order, and so is what was     *)
(* told on the open connection followed by what is still on the wire; a    *)
(* report or an outcome in the worker's hand is never behind what it has   *)
(* reached, because it begins nothing before it has published the last.    *)
(* The worker's order: a cancel has no place in it.                        *)
WorkerRank(e) == IF e.type = "cancelled" THEN 0 ELSE Rank(e)

\* How far the worker has got.
Reached(w, p) == IF w \in {"done", "failed"} THEN Steps + 1 ELSE p

Ordered(s) ==
  \A i, k \in DOMAIN s :
    i < k /\ WorkerRank(s[i]) > 0 /\ WorkerRank(s[k]) > 0 =>
      WorkerRank(s[i]) <= WorkerRank(s[k])

InOrder(s, m) ==
  /\ s \in Seq(Events)
  /\ Ordered(s)
  /\ \A i \in DOMAIN s : WorkerRank(s[i]) <= m

OrderInv ==
  /\ InOrder(log, Reached(worker, progress))
  /\ told \in Seq(Events)
  /\ InOrder(told \o wire, Reached(worker, progress))
  /\ watch.at # "streaming" => stream = "none" /\ wire = <<>>
  /\ stream = "listing" => told = <<>> /\ wire = <<>>

(* Ranks are numbers; a report's is its step, an outcome of the worker     *)
(* comes last, and a cancel has no place.                                  *)
LEMMA Ranks ==
  /\ Steps \in Nat
  /\ \A e \in Events : WorkerRank(e) \in 0..(Steps + 1)
  /\ \A k \in 0..Steps : WorkerRank(Report(k)) = k
  /\ \A s \in {"done", "failed"} : WorkerRank(Outcome(s)) = Steps + 1
  /\ WorkerRank(Outcome("cancelled")) = 0
<1>1. Steps \in Nat
  BY WatchAssumption
<1>2. \A k \in 0..Steps : WorkerRank(Report(k)) = k
  BY DEF WorkerRank, Rank, Report, IsOutcome, Terminal
<1>3. /\ \A s \in {"done", "failed"} : WorkerRank(Outcome(s)) = Steps + 1
      /\ WorkerRank(Outcome("cancelled")) = 0
  BY DEF WorkerRank, Rank, Outcome, IsOutcome, Terminal
<1> QED
  BY <1>1, <1>2, <1>3 DEF Events, Terminal

(* The empty sequence is in order, whatever has been reached.              *)
LEMMA InOrderEmpty ==
  ASSUME NEW m
  PROVE  InOrder(<<>>, m)
BY EmptySeq DEF InOrder, Ordered

(* An event that is no report, or the last there is, may be added.         *)
LEMMA InOrderAppend ==
  ASSUME NEW m \in Nat, NEW s, InOrder(s, m), NEW e \in Events, WorkerRank(e) \in {0, m}
  PROVE  InOrder(Append(s, e), m)
<1> DEFINE t == Append(s, e)
<1>1. /\ t \in Seq(Events) /\ Len(t) = Len(s) + 1 /\ Len(s) \in Nat
      /\ \A i \in 1..Len(s) : t[i] = s[i]
      /\ t[Len(s) + 1] = e
      /\ DOMAIN t = 1..(Len(s) + 1) /\ DOMAIN s = 1..Len(s)
  BY AppendProperties, LenProperties DEF InOrder
<1> HIDE DEF t
<1>2. ASSUME NEW i \in DOMAIN t PROVE WorkerRank(t[i]) <= m
  <2>1. CASE i \in DOMAIN s
    BY <1>1, <2>1 DEF InOrder
  <2>2. CASE i = Len(s) + 1
    BY <1>1, <2>2
  <2> QED
    BY <1>1, <2>1, <2>2
<1>3. ASSUME NEW i \in DOMAIN t, NEW k \in DOMAIN t, i < k, WorkerRank(t[i]) > 0, WorkerRank(t[k]) > 0
      PROVE  WorkerRank(t[i]) <= WorkerRank(t[k])
  <2>1. CASE k \in DOMAIN s
    <3>1. i \in DOMAIN s
      BY <1>1, <1>3, <2>1
    <3> QED
      BY <1>1, <1>3, <2>1, <3>1 DEF InOrder, Ordered
  <2>2. CASE k = Len(s) + 1
    <3>1. WorkerRank(t[k]) = m
      BY <1>1, <1>3, <2>2
    <3> QED
      BY <1>2, <3>1
  <2> QED
    BY <1>1, <2>1, <2>2
<1> QED
  BY <1>1, <1>2, <1>3 DEF InOrder, Ordered, t

(* What is in order stays so when the job gets further.                    *)
LEMMA InOrderMore ==
  ASSUME NEW m \in Nat, NEW n \in Nat, m <= n, NEW s, InOrder(s, m)
  PROVE  InOrder(s, n)
<1>1. ASSUME NEW i \in DOMAIN s PROVE WorkerRank(s[i]) <= n
  <2>1. s[i] \in Events
    BY LenProperties DEF InOrder
  <2>2. WorkerRank(s[i]) \in Nat /\ WorkerRank(s[i]) <= m
    BY <2>1, Ranks DEF InOrder
  <2> QED
    BY <2>2
<1> QED
  BY <1>1 DEF InOrder

(* The front of a sequence in order is in order.                           *)
LEMMA InOrderPrefix ==
  ASSUME NEW m, NEW s \in Seq(Events), NEW t \in Seq(Events), InOrder(s \o t, m)
  PROVE  InOrder(s, m)
<1>1. /\ \A i \in DOMAIN s : i \in DOMAIN (s \o t) /\ (s \o t)[i] = s[i]
  BY ConcatProperties, LenProperties
<1> QED
  BY <1>1 DEF InOrder, Ordered

(* Reading the wire moves an event from its front to the end of what was   *)
(* told.                                                                   *)
LEMMA ReadingKeepsAll ==
  ASSUME NEW s \in Seq(Events), NEW t \in Seq(Events), t # <<>>
  PROVE  Append(s, Head(t)) \o Tail(t) = s \o t
<1> DEFINE a == Append(s, Head(t)) \o Tail(t)
           b == s \o t
<1>1. /\ Head(t) \in Events /\ Tail(t) \in Seq(Events) /\ Head(t) = t[1]
      /\ Len(Tail(t)) = Len(t) - 1
      /\ \A i \in 1..Len(Tail(t)) : Tail(t)[i] = t[i + 1]
      /\ Len(t) \in Nat \ {0} /\ Len(s) \in Nat
  BY HeadTailProperties, EmptySeq, LenProperties
<1>2. /\ Append(s, Head(t)) \in Seq(Events) /\ Len(Append(s, Head(t))) = Len(s) + 1
      /\ \A i \in 1..Len(s) : Append(s, Head(t))[i] = s[i]
      /\ Append(s, Head(t))[Len(s) + 1] = t[1]
  BY <1>1, AppendProperties
<1>3. /\ a \in Seq(Events) /\ Len(a) = Len(s) + Len(t)
      /\ \A i \in 1..(Len(s) + Len(t)) :
           a[i] = IF i <= Len(s) + 1 THEN Append(s, Head(t))[i] ELSE Tail(t)[i - (Len(s) + 1)]
  BY <1>1, <1>2, ConcatProperties
<1>4. /\ b \in Seq(Events) /\ Len(b) = Len(s) + Len(t)
      /\ \A i \in 1..(Len(s) + Len(t)) : b[i] = IF i <= Len(s) THEN s[i] ELSE t[i - Len(s)]
  BY ConcatProperties
<1>5. ASSUME NEW i \in 1..(Len(s) + Len(t)) PROVE a[i] = b[i]
  <2>1. CASE i <= Len(s)
    BY <1>1, <1>2, <1>3, <1>4, <2>1
  <2>2. CASE i = Len(s) + 1
    BY <1>1, <1>2, <1>3, <1>4, <2>2
  <2>3. CASE i > Len(s) + 1
    <3>1. i - (Len(s) + 1) \in 1..Len(Tail(t))
      BY <1>1, <2>3
    <3>2. Tail(t)[i - (Len(s) + 1)] = t[(i - (Len(s) + 1)) + 1]
      BY <1>1, <3>1
    <3>3. (i - (Len(s) + 1)) + 1 = i - Len(s)
      BY <1>1
    <3> QED
      BY <1>1, <1>3, <1>4, <2>3, <3>2, <3>3
  <2> QED
    BY <1>1, <2>1, <2>2, <2>3
<1> HIDE DEF a, b
<1>6. a = b
  BY <1>3, <1>4, <1>5, SeqEqual
<1> QED
  BY <1>6 DEF a, b

(* What is published goes behind everything told and written.              *)
LEMMA PublishedLast ==
  ASSUME NEW s \in Seq(Events), NEW t \in Seq(Events), NEW e \in Events
  PROVE  s \o Append(t, e) = Append(s \o t, e)
<1>1. Append(t, e) = t \o <<e>> /\ Append(s \o t, e) = (s \o t) \o <<e>>
  BY AppendIsConcat, ConcatProperties
<1>2. <<e>> \in Seq(Events)
  OBVIOUS
<1> QED
  BY <1>1, <1>2, ConcatAssociative

(* What an emitter announces, and a row that has settled, is as far as the *)
(* worker has got, or has no place in its order.                           *)
LEMMA AnnouncedIsReached ==
  ASSUME JobInv
  PROVE  /\ Reached(worker, progress) \in Nat
         /\ \A who \in Emitters : emitting[who].at \in {"append", "publish"} =>
              WorkerRank(emitting[who].event) \in {0, Reached(worker, progress)}
         /\ row \in Terminal => WorkerRank(Outcome(row)) \in {0, Reached(worker, progress)}
         /\ row \notin Terminal => WorkerRank(Report(progress)) = Reached(worker, progress)
<1>1. Reached(worker, progress) \in Nat /\ progress \in 0..Steps
  BY Ranks DEF JobInv, JobShapes, Reached
<1>2. ASSUME NEW who \in Emitters, emitting[who].at \in {"append", "publish"}
      PROVE  WorkerRank(emitting[who].event) \in {0, Reached(worker, progress)}
  <2>1. CASE who = "enqueue"
    <3>1. WorkerRank(Report(0)) = 0
      BY Ranks
    <3> QED
      BY <2>1, <3>1 DEF JobInv, Stages
  <2>2. CASE who = "worker"
    BY <1>1, <1>2, <2>2, Ranks DEF JobInv, Stages, WorkerHas, Reached
  <2>3. CASE who = "cancel"
    BY <1>2, <2>3, Ranks DEF JobInv, Stages
  <2> QED
    BY <2>1, <2>2, <2>3 DEF Emitters
<1>3. row \in Terminal => WorkerRank(Outcome(row)) \in {0, Reached(worker, progress)}
  BY Ranks DEF JobInv, Stages, Terminal, Reached
<1>4. row \notin Terminal => WorkerRank(Report(progress)) = Reached(worker, progress)
  BY <1>1, Ranks DEF JobInv, Stages, Reached
<1> QED
  BY <1>1, <1>2, <1>3, <1>4

(* The job gets further and nothing is told.                               *)
LEMMA JobKeepsOrder ==
  ASSUME JobInv, JobInv', OrderInv, JobStep
  PROVE  OrderInv'
<1> DEFINE m == Reached(worker, progress)
           n == Reached(worker', progress')
<1>1. UNCHANGED <<log, stream, wire, watch, told>>
  BY DEF JobStep, Enqueue, ClaimQueuedJob, CancelJob, WorkerStep, RecordClaim,
         UpdateJobProgress, Settle, Lookup, Update, client
<1>2. m \in Nat /\ n \in Nat
  BY Ranks DEF JobInv, JobShapes, Reached
<1>3. /\ progress' \in {progress, progress + 1}
      /\ worker \in {"done", "failed"} => worker' = worker /\ progress' = progress
  <2>1. CASE Enqueue \/ ClaimQueuedJob \/ CancelJob \/ WorkerStep
    BY <2>1 DEF Enqueue, ClaimQueuedJob, CancelJob, WorkerStep, RecordClaim,
                UpdateJobProgress, Settle
  <2>2. ASSUME NEW who \in Emitters, Lookup(who) \/ Update(who)
        PROVE  progress' = progress /\ (worker \in {"done", "failed"} => worker' = worker)
    BY <2>2 DEF Lookup, Update, Concluded, JobInv, Stages, WorkerHas
  <2> QED
    BY <2>1, <2>2 DEF JobStep
<1>4. m <= n
  BY <1>3, Ranks DEF JobInv, JobShapes, Reached
<1>5. InOrder(log, n) /\ InOrder(told \o wire, n)
  BY <1>2, <1>4, InOrderMore DEF OrderInv
<1> QED
  BY <1>1, <1>5 DEF OrderInv

(* An emitter appends or publishes what it has in hand.                    *)
LEMMA EmittersKeepOrder ==
  ASSUME JobInv, WatchInv, OrderInv, NEW who \in Emitters,
         AppendEvent(who) \/ PublishEvent(who) \/ EmitFails(who)
  PROVE  OrderInv'
<1> DEFINE e == emitting[who].event
           m == Reached(worker, progress)
<1>1. /\ UNCHANGED <<progress, worker, stream, watch, told>>
      /\ log' = log \/ log' = Append(log, e)
      /\ wire' = wire \/ (wire' = Append(wire, e) /\ stream = "live")
  BY DEF AppendEvent, PublishEvent, EmitFails, client
<1>2. e \in Events /\ m \in Nat /\ WorkerRank(e) \in {0, m}
  BY AnnouncedIsSayable, AnnouncedIsReached DEF AppendEvent, PublishEvent, EmitFails
<1>3. InOrder(log, m) /\ InOrder(told \o wire, m) /\ wire \in Seq(Events) /\ told \in Seq(Events)
  BY DEF OrderInv, WatchInv, Truthful, HonestSeq
<1> HIDE DEF e, m
<1>4. InOrder(log', m)
  BY <1>1, <1>2, <1>3, InOrderAppend
<1>5. InOrder(told \o wire', m)
  <2>1. CASE wire' = wire
    BY <1>3, <2>1
  <2>2. CASE wire' = Append(wire, e)
    <3>1. told \o wire' = Append(told \o wire, e)
      BY <1>2, <1>3, <2>2, PublishedLast
    <3> QED
      BY <1>2, <1>3, <3>1, InOrderAppend
  <2> QED
    BY <1>1, <2>1, <2>2
<1>6. /\ watch.at # "streaming" => stream = "none" /\ wire' = <<>>
      /\ stream = "listing" => told = <<>> /\ wire' = <<>>
  BY <1>1 DEF OrderInv
<1> QED
  BY <1>1, <1>3, <1>4, <1>5, <1>6 DEF OrderInv, m

(* The server's stream replays the log and makes up a missing outcome.     *)
LEMMA StreamKeepsOrder ==
  ASSUME JobInv, WatchInv, OrderInv, StreamStep \/ ListFails \/ SubscribeFails
  PROVE  OrderInv'
<1> DEFINE m == Reached(worker, progress)
<1>0. /\ wire \in Seq(Events) /\ told \in Seq(Events) /\ log \in Seq(Events)
      /\ InOrder(log, m) /\ InOrder(told \o wire, m)
  BY DEF WatchInv, Truthful, HonestSeq, OrderInv
<1>1. UNCHANGED <<worker, progress, log, watch, told>>
  BY DEF StreamStep, ListJobEvents, ResolveTerminalReplayEvent, Subscribed, ListFails,
         SubscribeFails, job, client
<1>2. stream # "none" /\ stream' \notin {"none", "listing"} /\ watch.at = "streaming"
  BY DEF StreamStep, ListJobEvents, ResolveTerminalReplayEvent, Subscribed, ListFails,
         SubscribeFails, OrderInv
<1>3. InOrder(told \o wire', m)
  <2>1. CASE ListJobEvents
    <3>1. told = <<>> /\ wire = <<>> /\ wire' = wire \o log
      BY <2>1 DEF ListJobEvents, Replay, OrderInv
    <3>2. told \o wire' = log
      BY <1>0, <3>1, ConcatEmptySeq
    <3> QED
      BY <1>0, <3>2
  <2>2. CASE ResolveTerminalReplayEvent
    <3>1. CASE row \in Terminal
      <4>1. wire' = wire \o <<Outcome(row)>> /\ Outcome(row) \in Events
        BY <2>2, <3>1, EventTypes DEF ResolveTerminalReplayEvent, Replay
      <4>2. wire' = Append(wire, Outcome(row))
        BY <1>0, <4>1, AppendIsConcat
      <4>3. told \o wire' = Append(told \o wire, Outcome(row))
        BY <1>0, <4>1, <4>2, PublishedLast
      <4>4. WorkerRank(Outcome(row)) \in {0, m} /\ m \in Nat
        BY <3>1, AnnouncedIsReached
      <4> HIDE DEF m
      <4> QED
        BY <1>0, <4>1, <4>3, <4>4, InOrderAppend
    <3>2. CASE row \notin Terminal
      <4>1. wire' = wire
        BY <1>0, <2>2, <3>2, ConcatEmptySeq DEF ResolveTerminalReplayEvent, Replay
      <4> QED
        BY <1>0, <4>1
    <3> QED
      BY <3>1, <3>2
  <2>3. CASE Subscribed \/ ListFails \/ SubscribeFails
    BY <1>0, <2>3 DEF Subscribed, ListFails, SubscribeFails
  <2> QED
    BY <2>1, <2>2, <2>3 DEF StreamStep
<1> QED
  BY <1>0, <1>1, <1>2, <1>3 DEF OrderInv

(* The client.                                                             *)
LEMMA ClientKeepsOrder ==
  ASSUME JobInv, WatchInv, OrderInv,
         \/ StartWatch \/ WatchStep \/ TimedOut \/ Stop
         \/ OpenFails \/ ResponseEnds \/ ConnectionBreaks \/ PollFails
  PROVE  OrderInv'
<1> DEFINE m == Reached(worker, progress)
<1>0. /\ wire \in Seq(Events) /\ told \in Seq(Events) /\ Shaped(watch)
      /\ InOrder(log, m) /\ InOrder(told \o wire, m)
  BY DEF WatchInv, Truthful, HonestSeq, OrderInv
<1>1. UNCHANGED <<worker, progress, log>>
  BY OthersKeepJob DEF job
<1>2. <<>> \in Seq(Events) /\ <<>> \o <<>> = <<>> /\ told \o <<>> = told
  BY <1>0, EmptySeq, ConcatEmptySeq
<1>3. InOrder(<<>>, m) /\ InOrder(told, m)
  BY <1>0, InOrderEmpty, InOrderPrefix
\* what is left to show of a step
<1>Q. ASSUME told' \in Seq(Events), InOrder(told' \o wire', m),
             watch'.at # "streaming" => stream' = "none" /\ wire' = <<>>,
             stream' = "listing" => told' = <<>> /\ wire' = <<>>
      PROVE  OrderInv'
  BY <1>0, <1>1, <1>Q DEF OrderInv
<1>4. CASE StartWatch
  <2>1. watch.at # "streaming" /\ UNCHANGED <<stream, wire, told>>
    BY <1>4 DEF StartWatch
  <2> QED
    BY <1>0, <1>Q, <2>1 DEF OrderInv
<1>5. CASE OpenSse
  <2>1. /\ watch.at = "attempt" /\ watch'.at = "streaming"
        /\ told' = <<>> /\ wire' = wire
    BY <1>0, <1>5 DEF OpenSse, Shaped
  <2>2. wire = <<>>
    BY <2>1 DEF OrderInv
  <2> QED
    BY <1>2, <1>3, <1>Q, <2>1, <2>2
<1>6. CASE ConsumeSseStream
  <2>1. /\ watch.at = "streaming" /\ wire # <<>> /\ stream' = stream
        /\ stream \in {"subscribing", "live", "deaf"}
        /\ told' = Append(told, Head(wire)) /\ wire' = Tail(wire)
    BY <1>6 DEF ConsumeSseStream, Tell
  <2>2. watch'.at = "streaming"
    BY <1>0, <1>6, <2>1 DEF ConsumeSseStream, Shaped
  <2>3. told' \o wire' = told \o wire
    BY <1>0, <2>1, ReadingKeepsAll
  <2>4. told' \in Seq(Events)
    BY <1>0, <2>1, HeadTailProperties, AppendProperties
  <2> QED
    BY <1>0, <1>Q, <2>1, <2>2, <2>3, <2>4
<1>7. CASE Poll
  <2>1. watch.at = "polling" /\ UNCHANGED <<stream, wire>>
    BY <1>7 DEF Poll
  <2>2. stream = "none" /\ wire = <<>>
    BY <2>1 DEF OrderInv
  <2>3. told' = told \/ told' = Append(told, Report(progress))
    BY <1>7 DEF Poll, Tell
  <2>4. Report(progress) \in Events /\ WorkerRank(Report(progress)) = m /\ m \in Nat
    BY <1>7, EventTypes, AnnouncedIsReached DEF Poll, JobInv, JobShapes
  <2>5. told' \in Seq(Events) /\ InOrder(told', m)
    <3> HIDE DEF m
    <3>1. InOrder(Append(told, Report(progress)), m)
      BY <1>0, <1>3, <2>4, InOrderAppend
    <3>2. InOrder(told', m)
      BY <1>3, <2>3, <3>1
    <3> QED
      BY <3>2 DEF InOrder
  <2>6. told' \o wire' = told'
    BY <2>1, <2>2, <2>5, ConcatEmptySeq
  <2> QED
    BY <1>Q, <2>1, <2>2, <2>5, <2>6
<1>8. CASE TimedOut \/ PollFails \/ OpenFails \/ PollTerminal
  <2>1. watch.at # "streaming" /\ UNCHANGED <<stream, wire>> /\ (told' = told \/ told' = <<>>)
    BY <1>8 DEF TimedOut, PollFails, OpenFails, PollTerminal, NextAttempt, End
  <2>2. stream = "none" /\ wire = <<>>
    BY <2>1 DEF OrderInv
  <2> QED
    BY <1>0, <1>2, <1>3, <1>Q, <2>1, <2>2
<1>9. CASE Stop \/ ResponseEnds \/ ConnectionBreaks
  <2>1. stream' = "none" /\ wire' = <<>> /\ (told' = told \/ told' = <<>>)
    BY <1>9 DEF Stop, ResponseEnds, ConnectionBreaks, Hangup, NextAttempt, End
  <2> QED
    BY <1>0, <1>2, <1>3, <1>Q, <2>1
<1> QED
  BY <1>4, <1>5, <1>6, <1>7, <1>8, <1>9 DEF WatchStep

(* The worker's order of what was told is the order the client sees, and a *)
(* cancel stands before something of the worker's only if it crossed it.   *)
LEMMA OrderIsWorkers ==
  ASSUME JobInv, WatchInv, OrderInv
  PROVE  WorkerInOrder
<1>1. InOrder(told, Reached(worker, progress)) /\ HonestSeq(told, Sayable)
  BY InOrderPrefix DEF WatchInv, Truthful, HonestSeq, OrderInv
<1> SUFFICES ASSUME NEW i \in DOMAIN told, NEW k \in DOMAIN told, i < k,
                    NotQueued(told[i]), NotQueued(told[k]),
                    ~(crossed /\ told[i] = Outcome("cancelled"))
             PROVE  Rank(told[i]) <= Rank(told[k])
  BY DEF WorkerInOrder
<1>2. told[i] \in Events /\ told[k] \in Events
  BY <1>1, LenProperties DEF HonestSeq
<1>3. /\ Rank(told[i]) \in 0..(Steps + 1) /\ Rank(told[k]) \in 0..(Steps + 1)
      /\ \A e \in Events : e.type = "cancelled" => e = Outcome("cancelled") /\ Rank(e) = Steps + 1
  BY <1>2, EventTypes DEF Events, Rank, Report, Outcome, IsOutcome, Terminal
<1>4. CASE told[k].type = "cancelled"
  BY <1>2, <1>3, <1>4
<1>5. CASE told[k].type # "cancelled" /\ told[i].type # "cancelled"
  <2>1. Rank(told[i]) = WorkerRank(told[i]) /\ Rank(told[k]) = WorkerRank(told[k])
    BY <1>5 DEF WorkerRank
  <2> QED
    BY <1>1, <2>1 DEF InOrder, Ordered, NotQueued
<1>6. CASE told[k].type # "cancelled" /\ told[i].type = "cancelled"
  <2>1. ~crossed
    BY <1>2, <1>3, <1>6
  <2>2. row = "cancelled"
    BY <1>1, <1>6, <2>1 DEF HonestSeq, Honest, IsOutcome, Sayable, Terminal
  <2>3. Reached(worker, progress) = 0
    BY <2>1, <2>2 DEF JobInv, JobShapes, Stages, Uncrossed, Reached
  <2>4. WorkerRank(told[k]) <= 0 /\ WorkerRank(told[k]) = Rank(told[k])
    BY <1>1, <1>6, <2>3 DEF InOrder, WorkerRank
  <2> QED
    BY <1>3, <2>4 DEF NotQueued
<1> QED
  BY <1>4, <1>5, <1>6

(* Although the log is replayed, outcomes are made up and published events *)
(* are missed or come twice, on one connection no step of the worker is    *)
(* told after a later one or after the outcome, unless that is the outcome *)
(* of a cancel that crossed the worker.                                    *)
THEOREM WorkerToldInOrder == Spec => []WorkerInOrder
<1>1. Init => OrderInv
  <2> SUFFICES ASSUME Init PROVE OrderInv
    OBVIOUS
  <2>1. log = <<>> /\ wire = <<>> /\ told = <<>> /\ stream = "none"
    BY DEF Init
  <2>2. told \o wire = <<>> /\ told \in Seq(Events)
    BY <2>1, EmptySeq, ConcatEmptySeq
  <2> QED
    BY <2>1, <2>2, InOrderEmpty DEF OrderInv
<1>2. JobInv /\ JobInv' /\ WatchInv /\ OrderInv /\ [Next]_vars => OrderInv'
  <2> SUFFICES ASSUME JobInv, JobInv', WatchInv, OrderInv, [Next]_vars PROVE OrderInv'
    OBVIOUS
  <2>1. CASE JobStep
    BY <2>1, JobKeepsOrder
  <2>2. CASE \E who \in Emitters : AppendEvent(who) \/ PublishEvent(who) \/ EmitFails(who)
    BY <2>2, EmittersKeepOrder
  <2>3. CASE StreamStep \/ ListFails \/ SubscribeFails
    BY <2>3, StreamKeepsOrder
  <2>4. CASE \/ StartWatch \/ WatchStep \/ TimedOut \/ Stop
             \/ OpenFails \/ ResponseEnds \/ ConnectionBreaks \/ PollFails
    BY <2>4, ClientKeepsOrder
  <2>5. CASE UNCHANGED vars
    BY <2>5 DEF vars, OrderInv
  <2> QED
    BY <2>1, <2>2, <2>3, <2>4, <2>5 DEF Next, JobStep, EmitterStep
<1>3. JobInv /\ WatchInv /\ OrderInv => WorkerInOrder
  BY OrderIsWorkers
<1> QED
  BY <1>1, <1>2, <1>3, InitJob, StepKeepsJob, InitWatch, StepKeepsWatch, PTL DEF Spec

=============================================================================
