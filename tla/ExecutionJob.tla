---------------------------- MODULE ExecutionJob ----------------------------
(***************************************************************************)
(* The durable execution runtime: the job row and the outbox event that    *)
(* one transaction inserts, the relays that carry the event to BullMQ, the *)
(* worker slots that take deliveries, claim the row and run the pipeline,  *)
(* and the cancel handler of the API.                                      *)
(*                                                                         *)
(* Every operation on the row is a lookup and a later update by id, with   *)
(* no lock or version between them, so a fiber is a sequence of steps:     *)
(*   find    the job store reads the row and keeps its status (before)     *)
(*   lookup  the repository reads it again and decides whether to write    *)
(*   update  it writes the whole record                                    *)
(*   remove  a cancel takes the job off the queue                          *)
(*   publish the job store announces the outcome                           *)
(* What a worker reports goes through two fibers at once: the job store    *)
(* ("store") and the persistence service that writes the audit ("audit").  *)
(*                                                                         *)
(* Abstractions.  The record is its status.  Progress events are not       *)
(* kept, nor the order of a relay's batch.  Redis keeps what it is told    *)
(* (a publish that fails loses the event, as does a fault).  A slot that   *)
(* stops is a process that stopped; the credits are in BillingService.     *)
(***************************************************************************)
EXTENDS Naturals, FiniteSets

CONSTANTS
  Jobs,
  NoJob,        \* what an idle slot works on
  Workers,      \* processing slots of the worker processes
  Relays,       \* outbox relays: the API's and the worker's
  Steps,        \* progress reports of one pipeline run
  Cancellable,  \* jobs whose user may ask to cancel them
  MaxFaults,    \* bound: statements that may fail
  MaxStops,     \* bound: slots that stop or lose their lock
  MaxRelayStops,\* bound: relays that stop inside a tick
  MaxEvictions  \* bound: finished queue entries Redis may drop

ASSUME ExecutionAssumption ==
  /\ NoJob \notin Jobs
  /\ "cancel" \notin Workers  \* fibers are named after their slot or after the cancel
  /\ Steps \in Nat
  /\ Cancellable \subseteq Jobs
  /\ {MaxFaults, MaxRelayStops, MaxEvictions} \subseteq Nat
  /\ MaxStops \in {0, 1}  \* BullMQ redelivers a stalled job once (maxStalledCount)

VARIABLES
  row,        \* status of the job row
  outbox,     \* its ExecutionEnqueued event: "pending" or "published"
  relay,      \* what each relay's tick still has to do for a job
  bull,       \* the queue's entry for the job
  worker,     \* what each slot is doing
  fiber,      \* the operations in progress on the row
  announced,  \* terminal events published
  runs,       \* pipeline runs begun
  spent       \* faults, stops and evictions so far

vars == <<row, outbox, relay, bull, worker, fiber, announced, runs, spent>>

Lifecycle == INSTANCE JobLifecycle WITH Jobs <- Jobs, row <- row, announced <- announced
Active == Lifecycle!Active
Terminal == Lifecycle!Terminal

Fibers == (Workers \X {"store", "audit"}) \union ({"cancel"} \X Jobs)
Store(w) == <<w, "store">>
Audit(w) == <<w, "audit">>
Cancel(j) == <<"cancel", j>>
JobOf(f) == IF f[1] = "cancel" THEN f[2] ELSE worker[f[1]].job

Idle == [at |-> "idle", job |-> NoJob, locked |-> FALSE, left |-> 0]
NoFiber == [op |-> "none", at |-> "ended", before |-> "none"]
Begin(op, at) == [op |-> op, at |-> at, before |-> "none"]
Ended(f) == fiber[f].at = "ended"

Init ==
  /\ row = [j \in Jobs |-> "none"]
  /\ outbox = [j \in Jobs |-> "none"]
  /\ relay = [r \in Relays |-> [j \in Jobs |-> "idle"]]
  /\ bull = [j \in Jobs |-> "absent"]
  /\ worker = [w \in Workers |-> Idle]
  /\ fiber = [f \in Fibers |-> NoFiber]
  /\ announced = [j \in Jobs |-> {}]
  /\ runs = [j \in Jobs |-> 0]
  /\ spent = [faults |-> 0, stops |-> 0, relayStops |-> 0, evictions |-> 0]

Spend(what, max) ==
  /\ spent[what] < max
  /\ spent' = [spent EXCEPT ![what] = @ + 1]

-----------------------------------------------------------------------------
(* Enqueue and relay.                                                      *)

(* One transaction inserts the row and the event; a failed one inserts     *)
(* neither.                                                                *)
EnqueueAtomic(j) ==
  /\ row[j] = "none"
  /\ row' = [row EXCEPT ![j] = "queued"]
  /\ outbox' = [outbox EXCEPT ![j] = "pending"]
  /\ UNCHANGED <<relay, bull, worker, fiber, announced, runs, spent>>

(* A tick lists the unpublished events; the row locks its select takes end *)
(* with the statement, so two relays may hold the same event.              *)
RelayLists(r) ==
  /\ \A j \in Jobs : relay[r][j] = "idle"
  /\ \E j \in Jobs : outbox[j] = "pending"
  /\ relay' = [relay EXCEPT ![r] = [j \in Jobs |->
                 IF outbox[j] = "pending" THEN "listed" ELSE "idle"]]
  /\ UNCHANGED <<row, outbox, bull, worker, fiber, announced, runs, spent>>

(* queue.add with the execution's id does nothing when the id is there.    *)
RelayEnqueues(r, j) ==
  /\ relay[r][j] = "listed"
  /\ relay' = [relay EXCEPT ![r][j] = "sent"]
  /\ bull' = [bull EXCEPT ![j] = IF @ = "absent" THEN "waiting" ELSE @]
  /\ UNCHANGED <<row, outbox, worker, fiber, announced, runs, spent>>

\* Mutant: the event is marked before the job is on the queue.
MarksBeforeEnqueue(r, j) ==
  /\ relay[r][j] = "listed"
  /\ relay' = [relay EXCEPT ![r][j] = "idle"]
  /\ outbox' = [outbox EXCEPT ![j] = "published"]
  /\ UNCHANGED <<row, bull, worker, fiber, announced, runs, spent>>

RelayMarks(r, j) ==
  /\ relay[r][j] = "sent"
  /\ relay' = [relay EXCEPT ![r][j] = "idle"]
  /\ outbox' = [outbox EXCEPT ![j] = "published"]
  /\ UNCHANGED <<row, bull, worker, fiber, announced, runs, spent>>

(* A tick that throws, or whose process stops, leaves the rest of its      *)
(* batch unpublished.                                                      *)
RelayStops(r) ==
  /\ \E j \in Jobs : relay[r][j] # "idle"
  /\ Spend("relayStops", MaxRelayStops)
  /\ relay' = [relay EXCEPT ![r] = [j \in Jobs |-> "idle"]]
  /\ UNCHANGED <<row, outbox, bull, worker, fiber, announced, runs>>

-----------------------------------------------------------------------------
(* BullMQ.                                                                 *)

LockHeld(j) == \E w \in Workers : worker[w].job = j /\ worker[w].locked

(* The processor of a delivery begins with claimQueuedJob.                 *)
Deliver(w, j) ==
  /\ worker[w].at = "idle"
  /\ bull[j] = "waiting"
  /\ bull' = [bull EXCEPT ![j] = "active"]
  /\ worker' = [worker EXCEPT ![w] =
                  [at |-> "claiming", job |-> j, locked |-> TRUE, left |-> Steps]]
  /\ fiber' = [fiber EXCEPT ![Store(w)] = Begin("claim", "find")]
  /\ UNCHANGED <<row, outbox, relay, announced, runs, spent>>

RequeueStalled(j) ==
  /\ bull[j] = "active"
  /\ ~LockHeld(j)
  /\ bull' = [bull EXCEPT ![j] = "waiting"]
  /\ UNCHANGED <<row, outbox, relay, worker, fiber, announced, runs, spent>>

EvictFinished(j) ==
  /\ bull[j] = "finished"
  /\ Spend("evictions", MaxEvictions)
  /\ bull' = [bull EXCEPT ![j] = "absent"]
  /\ UNCHANGED <<row, outbox, relay, worker, fiber, announced, runs>>

\* What the queue records when the processor of slot w returns.
Returned(w) ==
  IF worker[w].locked THEN [bull EXCEPT ![worker[w].job] = "finished"] ELSE bull

-----------------------------------------------------------------------------
(* One operation on the row.                                               *)

OutcomeOf == [claim |-> "running", progress |-> "running", complete |-> "done",
              fail |-> "failed", cancel |-> "cancelled"]

\* Mutant: an outcome is only recorded while the job is still queued.
WritesWhileQueued(op, status) ==
  op \in {"complete", "fail", "cancel"} => status = "queued"

MayWrite(op, status) ==
  CASE op \in {"complete", "fail"} -> status \notin Terminal
    [] op = "cancel"               -> status \in Active
    [] OTHER                       -> TRUE

Step(f, at) == fiber' = [fiber EXCEPT ![f].at = at]

\* Mutant: a claim goes on whatever status it finds.
FindAnyStatus(f) ==
  /\ fiber[f].at = "find"
  /\ fiber' = [fiber EXCEPT ![f] = [op |-> @.op, at |-> "lookup", before |-> row[JobOf(f)]]]
  /\ UNCHANGED <<row, outbox, relay, bull, worker, announced, runs, spent>>

Find(f) ==
  /\ fiber[f].at = "find"
  /\ LET status == row[JobOf(f)]
         stops == fiber[f].op = "claim" /\ status # "queued"
     IN  fiber' = [fiber EXCEPT ![f] =
           [op |-> @.op, at |-> IF stops THEN "ended" ELSE "lookup", before |-> status]]
  /\ UNCHANGED <<row, outbox, relay, bull, worker, announced, runs, spent>>

AfterWrite(op) ==
  CASE op = "cancel"               -> "remove"
    [] op \in {"complete", "fail"} -> "publish"
    [] OTHER                       -> "ended"

Lookup(f) ==
  /\ fiber[f].at = "lookup"
  /\ Step(f, IF MayWrite(fiber[f].op, row[JobOf(f)])
             THEN "update" ELSE AfterWrite(fiber[f].op))
  /\ UNCHANGED <<row, outbox, relay, bull, worker, announced, runs, spent>>

Update(f) ==
  /\ fiber[f].at = "update"
  /\ row' = [row EXCEPT ![JobOf(f)] = OutcomeOf[fiber[f].op]]
  /\ Step(f, AfterWrite(fiber[f].op))
  /\ UNCHANGED <<outbox, relay, bull, worker, announced, runs, spent>>

(* A cancel that found the job queued removes it from the queue; an entry  *)
(* some slot holds the lock of stays.                                      *)
RemoveFromQueue(f) ==
  /\ fiber[f].at = "remove"
  /\ LET j == JobOf(f) IN
     bull' = IF fiber[f].before = "queued" /\ ~LockHeld(j)
             THEN [bull EXCEPT ![j] = "absent"] ELSE bull
  /\ Step(f, "publish")
  /\ UNCHANGED <<row, outbox, relay, worker, announced, runs, spent>>

RemoveFails(f) ==
  /\ fiber[f].at = "remove"
  /\ Spend("faults", MaxFaults)
  /\ Step(f, "publish")
  /\ UNCHANGED <<row, outbox, relay, bull, worker, announced, runs>>

(* The event is sent when the job was active at the find, whatever the     *)
(* lookup and the update saw; the audit fiber and the claim never found    *)
(* it active and end without one.                                          *)
Publish(f) ==
  /\ fiber[f].at = "publish"
  /\ LET j == JobOf(f)
         event == Lifecycle!EventOf[OutcomeOf[fiber[f].op]]
     IN  announced' = IF fiber[f].before \in Active
                      THEN [announced EXCEPT ![j] = @ \union {event}] ELSE announced
  /\ Step(f, "ended")
  /\ UNCHANGED <<row, outbox, relay, bull, worker, runs, spent>>

(* A statement that fails ends the operation; the job store's catchAll     *)
(* answers false or undefined, so nobody hears of it.                      *)
StatementFails(f) ==
  /\ fiber[f].at \in {"find", "lookup", "update", "publish"}
  /\ Spend("faults", MaxFaults)
  /\ fiber' = [fiber EXCEPT ![f] = NoFiber]
  /\ UNCHANGED <<row, outbox, relay, bull, worker, announced, runs>>

-----------------------------------------------------------------------------
(* The processor of a delivery.                                            *)

ReportBoth(w, op, at) ==
  fiber' = [fiber EXCEPT ![Store(w)] = Begin(op, at), ![Audit(w)] = Begin(op, "lookup")]

\* Mutant: what the claim answers is ignored.
ClaimIgnored(w) ==
  /\ worker[w].at = "claiming"
  /\ Ended(Store(w))
  /\ worker' = [worker EXCEPT ![w].at = "loading"]
  /\ UNCHANGED <<row, outbox, relay, bull, fiber, announced, runs, spent>>

Claimed(w) ==
  /\ worker[w].at = "claiming"
  /\ Ended(Store(w))
  /\ fiber[Store(w)].before = "queued"
  /\ worker' = [worker EXCEPT ![w].at = "loading"]
  /\ UNCHANGED <<row, outbox, relay, bull, fiber, announced, runs, spent>>

NotClaimed(w) ==
  /\ worker[w].at = "claiming"
  /\ Ended(Store(w))
  /\ fiber[Store(w)].before # "queued"
  /\ worker' = [worker EXCEPT ![w] = Idle]
  /\ bull' = Returned(w)
  /\ UNCHANGED <<row, outbox, relay, fiber, announced, runs, spent>>

(* The payload and the user's billing slice are read, and the pipeline     *)
(* begins.                                                                 *)
BeginPipeline(w) ==
  /\ worker[w].at = "loading"
  /\ worker' = [worker EXCEPT ![w].at = "generating"]
  /\ runs' = [runs EXCEPT ![worker[w].job] = @ + 1]
  /\ UNCHANGED <<row, outbox, relay, bull, fiber, announced, spent>>

(* A read that fails there makes the processor throw: BullMQ puts the job  *)
(* back for its next attempt.                                              *)
LoadFails(w) ==
  /\ worker[w].at = "loading"
  /\ Spend("faults", MaxFaults)
  /\ worker' = [worker EXCEPT ![w] = Idle]
  /\ bull' = [bull EXCEPT ![worker[w].job] = "waiting"]
  /\ UNCHANGED <<row, outbox, relay, fiber, announced, runs>>

PublishJobProgress(w) ==
  /\ worker[w].at = "generating"
  /\ worker[w].left > 0
  /\ worker' = [worker EXCEPT ![w] =
                  [at |-> "reporting", job |-> @.job, locked |-> @.locked, left |-> @.left - 1]]
  /\ ReportBoth(w, "progress", "lookup")
  /\ UNCHANGED <<row, outbox, relay, bull, announced, runs, spent>>

ProgressPublished(w) ==
  /\ worker[w].at = "reporting"
  /\ Ended(Store(w)) /\ Ended(Audit(w))
  /\ worker' = [worker EXCEPT ![w].at = "generating"]
  /\ UNCHANGED <<row, outbox, relay, bull, fiber, announced, runs, spent>>

CompleteQueuedJob(w) ==
  /\ worker[w].at = "generating"
  /\ worker[w].left = 0
  /\ worker' = [worker EXCEPT ![w].at = "finishing"]
  /\ ReportBoth(w, "complete", "find")
  /\ UNCHANGED <<row, outbox, relay, bull, announced, runs, spent>>

FailQueuedJob(w) ==
  /\ worker[w].at = "generating"
  /\ worker' = [worker EXCEPT ![w].at = "finishing"]
  /\ ReportBoth(w, "fail", "find")
  /\ UNCHANGED <<row, outbox, relay, bull, announced, runs, spent>>

ProcessorReturns(w) ==
  /\ worker[w].at = "finishing"
  /\ Ended(Store(w)) /\ Ended(Audit(w))
  /\ worker' = [worker EXCEPT ![w] = Idle]
  /\ bull' = Returned(w)
  /\ UNCHANGED <<row, outbox, relay, fiber, announced, runs, spent>>

(* The process is killed: its memory is gone, its lock expires.            *)
WorkerStops(w) ==
  /\ worker[w].at # "idle"
  /\ Spend("stops", MaxStops)
  /\ worker' = [worker EXCEPT ![w] = Idle]
  /\ fiber' = [fiber EXCEPT ![Store(w)] = NoFiber, ![Audit(w)] = NoFiber]
  /\ UNCHANGED <<row, outbox, relay, bull, announced, runs>>

(* A slot that could not renew its lock while it generated goes on, and    *)
(* the job is delivered again beside it.                                   *)
LockExpires(w) ==
  /\ worker[w].at \in {"generating", "reporting", "finishing"}
  /\ worker[w].locked
  /\ Spend("stops", MaxStops)
  /\ worker' = [worker EXCEPT ![w].locked = FALSE]
  /\ UNCHANGED <<row, outbox, relay, bull, fiber, announced, runs>>

-----------------------------------------------------------------------------
(* The route only calls cancelJob for a job it read as active.             *)
CancelJob(j) ==
  /\ j \in Cancellable
  /\ row[j] \in Active
  /\ Ended(Cancel(j))
  /\ fiber' = [fiber EXCEPT ![Cancel(j)] = Begin("cancel", "find")]
  /\ UNCHANGED <<row, outbox, relay, bull, worker, announced, runs, spent>>

-----------------------------------------------------------------------------
FiberStep(f) == Find(f) \/ Lookup(f) \/ Update(f) \/ RemoveFromQueue(f) \/ Publish(f)

RelayStep(r) ==
  \/ RelayLists(r)
  \/ \E j \in Jobs : RelayEnqueues(r, j) \/ RelayMarks(r, j)

WorkerStep(w) ==
  \/ Claimed(w) \/ NotClaimed(w) \/ BeginPipeline(w)
  \/ PublishJobProgress(w) \/ ProgressPublished(w)
  \/ CompleteQueuedJob(w) \/ FailQueuedJob(w) \/ ProcessorReturns(w)

Next ==
  \/ \E j \in Jobs : EnqueueAtomic(j) \/ RequeueStalled(j) \/ EvictFinished(j) \/ CancelJob(j)
  \/ \E r \in Relays : RelayStep(r) \/ RelayStops(r)
  \/ \E w \in Workers, j \in Jobs : Deliver(w, j)
  \/ \E w \in Workers : WorkerStep(w) \/ LoadFails(w) \/ WorkerStops(w) \/ LockExpires(w)
  \/ \E f \in Fibers : FiberStep(f) \/ StatementFails(f) \/ RemoveFails(f)

Spec == Init /\ [][Next]_vars

(* The relays tick, BullMQ delivers and redelivers, and what a process has *)
(* begun it goes on with.  Nothing obliges a user to enqueue or cancel, a  *)
(* statement to fail or a process to stop.                                 *)
Fairness ==
  /\ \A r \in Relays : WF_vars(RelayStep(r))
  /\ \A j \in Jobs : WF_vars(RequeueStalled(j)) /\ WF_vars(\E w \in Workers : Deliver(w, j))
  /\ \A w \in Workers : WF_vars(WorkerStep(w))
  /\ \A f \in Fibers : WF_vars(FiberStep(f))

FairSpec == Spec /\ Fairness

-----------------------------------------------------------------------------
(* Properties.                                                             *)

(* The values the row, the queue and the fibers can have.                  *)
TypeOK ==
  /\ row \in [Jobs -> Lifecycle!Statuses]
  /\ outbox \in [Jobs -> {"none", "pending", "published"}]
  /\ relay \in [Relays -> [Jobs -> {"idle", "listed", "sent"}]]
  /\ bull \in [Jobs -> {"absent", "waiting", "active", "finished"}]
  /\ worker \in [Workers ->
       [at: {"idle", "claiming", "loading", "generating", "reporting", "finishing"},
        job: Jobs \union {NoJob}, locked: BOOLEAN, left: 0..Steps]]
  /\ fiber \in [Fibers ->
       [op: {"none", "claim", "progress", "complete", "fail", "cancel"},
        at: {"ended", "find", "lookup", "update", "remove", "publish"},
        before: Lifecycle!Statuses]]
  /\ announced \in [Jobs -> SUBSET Lifecycle!TerminalEvents]
  /\ runs \in [Jobs -> Nat]

(* However often the outbox is relayed, the entry evicted and the delivery *)
(* repeated after a stall or a failed attempt, claimQueuedJob lets one     *)
(* delivery through: the providers are paid for one run of a job.          *)
PipelineRunsOnce == \A j \in Jobs : runs[j] <= 1

(* Until it is claimed, an accepted job is always somewhere it will be     *)
(* picked up from: its event is unpublished or its queue entry is alive,   *)
(* whichever of relay, worker and cancel stopped or ran in between.        *)
QueuedIsReachable ==
  spent.faults = 0 =>
    \A j \in Jobs : row[j] = "queued" => outbox[j] = "pending" \/ bull[j] \in {"waiting", "active"}

(* A job cancelled while no worker has it is never run: whatever delivery  *)
(* of it is still under way finds it cancelled, and the row stays so.      *)
UntouchedCancelIsFinal ==
  \A j \in Jobs :
    []((row[j] = "cancelled" /\ \A w \in Workers : worker[w].job # j)
         => [](row[j] = "cancelled"))

(* Without a cancel the split operations still give every client the       *)
(* lifecycle of JobLifecycle: one way through the statuses, one settled    *)
(* status, and no event but that status's.                                 *)
ImplementsLifecycle == Lifecycle!Spec

(* Unless a statement fails or a slot stops, an accepted job settles for   *)
(* good, even if a user's cancel races the worker at any step, a relay     *)
(* stops inside a tick and Redis drops finished entries.                   *)
EveryJobSettles ==
  \A j \in Jobs :
    row[j] = "queued" ~> ([](row[j] \in Terminal) \/ spent.faults + spent.stops > 0)

=============================================================================
