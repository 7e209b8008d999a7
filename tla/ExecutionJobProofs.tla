-------------------------- MODULE ExecutionJobProofs --------------------------
(***************************************************************************)
(* For any jobs, slots and relays, however many slots stop or lose their   *)
(* lock, relays stop and entries are evicted: the pipeline runs at most    *)
(* once for a job, an accepted job stays within reach of the slots, and a  *)
(* job cancelled while no slot has it stays cancelled.  Two things make    *)
(* the first so: a delivery in its claim holds the queue's lock, of which  *)
(* a job has one, and a row that a claim has written is never queued       *)
(* again.                                                                  *)
(***************************************************************************)
EXTENDS ExecutionJob, TLAPS

Slots == [at : {"idle", "claiming", "loading", "generating", "reporting", "finishing"},
          job : Jobs \union {NoJob}, locked : BOOLEAN, left : 0..Steps]
FiberStates == [op : {"none", "claim", "progress", "complete", "fail", "cancel"},
                at : {"ended", "find", "lookup", "update", "remove", "publish"},
                before : Lifecycle!Statuses]

(* What a slot does, its job and its two fibers belong together.           *)
SlotsInStep ==
  \A w \in Workers :
    /\ worker[w].at # "idle" => worker[w].job \in Jobs
    /\ worker[w].at = "idle" => worker[w].job = NoJob
    /\ worker[w].at \in {"claiming", "loading"} => worker[w].locked
    /\ worker[w].at \notin {"claiming", "reporting", "finishing"} => Ended(Store(w))
    /\ worker[w].at \notin {"reporting", "finishing"} => Ended(Audit(w))
    /\ worker[w].at = "claiming" /\ ~Ended(Store(w)) => fiber[Store(w)].op = "claim"

(* What a fiber does, and that only an outcome is announced.               *)
FibersNamed ==
  \A f \in Fibers :
    /\ ~Ended(f) => fiber[f].op # "none"
    /\ fiber[f].at \in {"remove", "publish"} => fiber[f].op \in {"complete", "fail", "cancel"}

(* An entry has one lock, and is active while it is held.                  *)
OneLock ==
  \A j \in Jobs, w \in Workers : worker[w].job = j /\ worker[w].locked =>
    /\ bull[j] = "active"
    /\ \A v \in Workers : worker[v].job = j /\ worker[v].locked => v = w

Unclaimed(j) == row[j] \in {"none", "queued"}
PastClaim(w, j) ==
  worker[w].job = j /\ worker[w].at \in {"loading", "generating", "reporting", "finishing"}
Admitted(w, j) ==
  /\ worker[w].job = j
  /\ \/ worker[w].at = "claiming" /\ fiber[Store(w)].before = "queued"
     \/ worker[w].at = "loading"

(* A delivery whose claim found the row queued is the first to get past it *)
(* and has left the row claimed when its claim is over.                    *)
ClaimsAdmitOne ==
  /\ \A w \in Workers : worker[w].at = "claiming" /\ Ended(Store(w))
                          /\ fiber[Store(w)].before = "queued" => ~Unclaimed(worker[w].job)
  /\ \A j \in Jobs : Unclaimed(j) => runs[j] = 0 /\ \A w \in Workers : ~PastClaim(w, j)
  /\ \A j \in Jobs, w \in Workers : Admitted(w, j) =>
       runs[j] = 0 /\ \A v \in Workers : v # w => ~PastClaim(v, j)

IInv == TypeOK /\ SlotsInStep /\ FibersNamed /\ OneLock /\ ClaimsAdmitOne /\ PipelineRunsOnce

-----------------------------------------------------------------------------
(* A slot's two fibers are its own, and a cancel's is no slot's.           *)
LEMMA FiberNames ==
  ASSUME NEW w \in Workers
  PROVE  /\ Store(w) \in Fibers /\ Audit(w) \in Fibers /\ Store(w) # Audit(w)
         /\ \A v \in Workers : v # w => Store(v) # Store(w) /\ Audit(v) # Audit(w)
         /\ \A v \in Workers : Store(v) # Audit(w)
         /\ \A j \in Jobs : Cancel(j) # Store(w) /\ Cancel(j) # Audit(w)
         /\ JobOf(Store(w)) = worker[w].job /\ JobOf(Audit(w)) = worker[w].job
BY ExecutionAssumption DEF Fibers, Store, Audit, Cancel, JobOf

\* A fiber is a slot's store fiber, its audit fiber, or a cancel.
LEMMA FiberKinds ==
  ASSUME NEW f \in Fibers
  PROVE  \/ \E w \in Workers : f = Store(w)
         \/ \E w \in Workers : f = Audit(w)
         \/ \E j \in Jobs : f = Cancel(j) /\ JobOf(f) = j
BY DEF Fibers, Store, Audit, Cancel, JobOf

(* What a step that moves one fiber leaves of its record, and of the       *)
(* others'.                                                                *)
LEMMA FiberSteps ==
  ASSUME TypeOK, NEW f \in Fibers, NEW x, fiber' = [fiber EXCEPT ![f].at = x]
  PROVE  /\ fiber[f]' = [op |-> fiber[f].op, at |-> x, before |-> fiber[f].before]
         /\ fiber[f].op' = fiber[f].op /\ fiber[f].at' = x /\ fiber[f].before' = fiber[f].before
         /\ \A g \in Fibers : g # f => fiber[g]' = fiber[g]
BY DEF TypeOK

(* What a step that moves one slot leaves of its record, and of the        *)
(* others'.                                                                *)
LEMMA SlotSteps ==
  ASSUME TypeOK, NEW w \in Workers, NEW x, worker' = [worker EXCEPT ![w].at = x]
  PROVE  /\ worker[w]' = [at |-> x, job |-> worker[w].job, locked |-> worker[w].locked,
                          left |-> worker[w].left]
         /\ worker[w].at' = x /\ worker[w].job' = worker[w].job
         /\ worker[w].locked' = worker[w].locked
         /\ \A v \in Workers : v # w => worker[v]' = worker[v]
BY DEF TypeOK

\* Nothing is stored, delivered or running.
THEOREM InitIInv == Init => IInv
<1> SUFFICES ASSUME Init PROVE IInv
  OBVIOUS
<1>1. /\ \A w \in Workers : worker[w] = Idle
      /\ \A f \in Fibers : fiber[f] = NoFiber
      /\ \A j \in Jobs : runs[j] = 0 /\ row[j] = "none" /\ bull[j] = "absent"
  BY DEF Init
<1>2. TypeOK
  BY ExecutionAssumption DEF Init, TypeOK, Idle, NoFiber, Lifecycle!Statuses
<1>3. SlotsInStep /\ FibersNamed
  BY <1>1, FiberNames DEF SlotsInStep, FibersNamed, Ended, Idle, NoFiber
<1>4. OneLock /\ PipelineRunsOnce
  BY <1>1 DEF OneLock, PipelineRunsOnce, Idle
<1>5. ClaimsAdmitOne
  BY <1>1 DEF ClaimsAdmitOne, PastClaim, Admitted, Idle
<1> QED
  BY <1>2, <1>3, <1>4, <1>5 DEF IInv

-----------------------------------------------------------------------------
(* Steps that move no slot and no fiber.                                   *)
LEMMA NothingMoves ==
  ASSUME IInv, UNCHANGED <<worker, fiber, runs>>,
         \A j \in Jobs : Unclaimed(j)' => Unclaimed(j)
  PROVE  SlotsInStep' /\ FibersNamed' /\ ClaimsAdmitOne' /\ PipelineRunsOnce'
<1>1. SlotsInStep' /\ FibersNamed'
  BY DEF IInv, SlotsInStep, FibersNamed, Ended
<1>2. PipelineRunsOnce'
  BY DEF IInv, PipelineRunsOnce
<1>3. ClaimsAdmitOne'
  BY DEF IInv, SlotsInStep, ClaimsAdmitOne, PastClaim, Admitted, Ended
<1> QED
  BY <1>1, <1>2, <1>3

(* Steps that move one fiber: a claim stays a claim, one that ends having  *)
(* found the row queued leaves it claimed, and one that finds the row      *)
(* queued finds it unclaimed.                                              *)
LEMMA FiberMoves ==
  ASSUME IInv, NEW f \in Fibers, ~Ended(f), UNCHANGED <<worker, runs>>,
         \A g \in Fibers : g # f => fiber[g]' = fiber[g],
         Ended(f)' \/ fiber[f].op' = fiber[f].op,
         Ended(f)' \/ fiber[f].at' \notin {"remove", "publish"}
                  \/ fiber[f].op \in {"complete", "fail", "cancel"},
         \A j \in Jobs : Unclaimed(j)' => Unclaimed(j),
         fiber[f].op = "claim" /\ Ended(f)' /\ fiber[f].before' = "queued" => ~Unclaimed(JobOf(f))',
         fiber[f].op = "claim" /\ fiber[f].before' = "queued" =>
           fiber[f].before = "queued" \/ row[JobOf(f)] = "queued"
  PROVE  SlotsInStep' /\ FibersNamed' /\ ClaimsAdmitOne' /\ PipelineRunsOnce'
<1> USE DEF IInv
<1>1. PipelineRunsOnce'
  BY DEF PipelineRunsOnce
<1>2. FibersNamed'
  BY DEF FibersNamed, Ended
<1>3. \A w \in Workers : Ended(Store(w)) /\ Store(w) # f => Ended(Store(w))'
  BY FiberNames DEF Ended
<1>4. \A w \in Workers : Ended(Audit(w)) => Ended(Audit(w))'
  BY FiberNames DEF Ended
<1>5. \A w \in Workers : Ended(Store(w)) => Ended(Store(w))'
  BY FiberNames DEF Ended
<1>6. SlotsInStep'
  <2> SUFFICES ASSUME NEW w \in Workers, worker[w].at = "claiming", ~Ended(Store(w))'
               PROVE  fiber[Store(w)].op' = "claim"
    BY <1>4, <1>5 DEF SlotsInStep
  <2>1. ~Ended(Store(w)) /\ fiber[Store(w)].op = "claim"
    BY <1>5 DEF SlotsInStep
  <2> QED
    BY <2>1, FiberNames DEF Ended
<1>7. ASSUME NEW w \in Workers, worker[w].at = "claiming", Store(w) = f
      PROVE  fiber[f].op = "claim" /\ JobOf(f) = worker[w].job /\ JobOf(f) \in Jobs
  BY <1>7, FiberNames DEF SlotsInStep
<1>8. \A w \in Workers, j \in Jobs : PastClaim(w, j)' <=> PastClaim(w, j)
  BY DEF PastClaim
<1>9. ASSUME NEW w \in Workers, NEW j \in Jobs, Admitted(w, j)'
      PROVE  Admitted(w, j) \/ Unclaimed(j)
  <2>1. CASE Store(w) = f
    BY <2>1, <1>7, <1>9, FiberNames DEF Admitted, Unclaimed
  <2>2. CASE Store(w) # f
    BY <2>2, <1>9, FiberNames DEF Admitted
  <2> QED
    BY <2>1, <2>2
<1>10. ASSUME NEW w \in Workers, worker[w].at = "claiming", Ended(Store(w))',
              fiber[Store(w)].before' = "queued"
       PROVE  ~Unclaimed(worker[w].job)'
  <2>1. CASE Store(w) = f
    BY <2>1, <1>7, <1>10 DEF JobOf
  <2>2. CASE Store(w) # f
    <3>1. Ended(Store(w)) /\ fiber[Store(w)].before = "queued" /\ worker[w].job \in Jobs
      BY <2>2, <1>10, FiberNames DEF Ended, SlotsInStep
    <3> QED
      BY <3>1, <1>10 DEF ClaimsAdmitOne
  <2> QED
    BY <2>1, <2>2
<1>11. ClaimsAdmitOne'
  BY <1>8, <1>9, <1>10 DEF ClaimsAdmitOne
<1> QED
  BY <1>1, <1>2, <1>6, <1>11

(* Steps that free a slot.                                                 *)
LEMMA SlotReturns ==
  ASSUME IInv, NEW w \in Workers, worker' = [worker EXCEPT ![w] = Idle],
         UNCHANGED <<row, runs>>,
         \A f \in Fibers : fiber[f]' = fiber[f] \/ (f \in {Store(w), Audit(w)} /\ fiber[f]' = NoFiber),
         Ended(Store(w))', Ended(Audit(w))',
         \A v \in Workers : v # w /\ worker[v].locked /\ worker[v].job \in Jobs
            => bull[worker[v].job]' = bull[worker[v].job]
  PROVE  SlotsInStep' /\ FibersNamed' /\ OneLock' /\ ClaimsAdmitOne' /\ PipelineRunsOnce'
<1> USE DEF IInv
<1>1. PipelineRunsOnce'
  BY DEF PipelineRunsOnce
<1>2. FibersNamed'
  BY DEF FibersNamed, Ended, NoFiber
<1>3. worker[w]' = Idle /\ \A v \in Workers : v # w => worker[v]' = worker[v]
  BY DEF TypeOK
<1>4. \A v \in Workers : v # w => fiber[Store(v)]' = fiber[Store(v)] /\ fiber[Audit(v)]' = fiber[Audit(v)]
  BY FiberNames
<1>5. SlotsInStep'
  BY <1>3, <1>4 DEF SlotsInStep, Ended, Idle
<1>6. OneLock'
  BY <1>3 DEF OneLock, Idle
<1>7. \A v \in Workers, j \in Jobs : v = w => ~PastClaim(v, j)' /\ ~Admitted(v, j)'
  BY <1>3 DEF PastClaim, Admitted, Idle
<1>8. \A v \in Workers, j \in Jobs : v # w =>
        /\ PastClaim(v, j)' <=> PastClaim(v, j)
        /\ Admitted(v, j)' <=> Admitted(v, j)
  BY <1>3, <1>4 DEF PastClaim, Admitted
<1>9. \A j \in Jobs : Unclaimed(j)' <=> Unclaimed(j)
  BY DEF Unclaimed
<1>10. ASSUME NEW v \in Workers, worker[v].at' = "claiming", Ended(Store(v))',
              fiber[Store(v)].before' = "queued"
       PROVE  ~Unclaimed(worker[v].job)'
  <2>1. v # w
    BY <1>3, <1>10 DEF Idle
  <2> QED
    BY <2>1, <1>3, <1>4, <1>10 DEF ClaimsAdmitOne, Ended, Unclaimed
<1>11. ClaimsAdmitOne'
  BY <1>7, <1>8, <1>9, <1>10 DEF ClaimsAdmitOne
<1> QED
  BY <1>1, <1>2, <1>5, <1>6, <1>11

(* Steps of a slot past its claim that keeps its job.                      *)
LEMMA SlotGoesOn ==
  ASSUME IInv, NEW w \in Workers, UNCHANGED <<row, runs, bull>>,
         worker[w].at \in {"generating", "reporting", "finishing"},
         worker[w].at' \in {"generating", "reporting", "finishing"},
         worker[w].job' = worker[w].job, worker[w].locked' => worker[w].locked,
         \A v \in Workers : v # w => worker[v]' = worker[v],
         \A f \in Fibers : fiber[f]' = fiber[f] \/ f \in {Store(w), Audit(w)},
         FibersNamed',
         worker[w].at' = "generating" => Ended(Store(w))' /\ Ended(Audit(w))'
  PROVE  SlotsInStep' /\ OneLock' /\ ClaimsAdmitOne' /\ PipelineRunsOnce'
<1> USE DEF IInv
<1>1. PipelineRunsOnce'
  BY DEF PipelineRunsOnce
<1>2. \A v \in Workers : v # w => fiber[Store(v)]' = fiber[Store(v)] /\ fiber[Audit(v)]' = fiber[Audit(v)]
  BY FiberNames
<1>3. SlotsInStep'
  BY <1>2 DEF SlotsInStep, Ended
<1>4. OneLock'
  BY DEF OneLock
<1>5. \A v \in Workers, j \in Jobs :
        /\ PastClaim(v, j)' <=> PastClaim(v, j)
        /\ Admitted(v, j)' <=> Admitted(v, j)
  BY <1>2 DEF PastClaim, Admitted
<1>6. \A j \in Jobs : Unclaimed(j)' <=> Unclaimed(j)
  BY DEF Unclaimed
<1>7. ASSUME NEW v \in Workers, worker[v].at' = "claiming", Ended(Store(v))',
             fiber[Store(v)].before' = "queued"
      PROVE  ~Unclaimed(worker[v].job)'
  <2>1. v # w
    BY <1>7
  <2> QED
    BY <2>1, <1>2, <1>7 DEF ClaimsAdmitOne, Ended, Unclaimed
<1>8. ClaimsAdmitOne'
  BY <1>5, <1>6, <1>7 DEF ClaimsAdmitOne
<1> QED
  BY <1>1, <1>3, <1>4, <1>8

-----------------------------------------------------------------------------
(* The queue and the relays.                                               *)
LEMMA QueueSteps ==
  ASSUME IInv, NEW j \in Jobs,
         EnqueueAtomic(j) \/ RequeueStalled(j) \/ EvictFinished(j)
  PROVE  IInv'
<1> USE DEF IInv
<1>1. TypeOK'
  <2>1. CASE EnqueueAtomic(j)
    BY <2>1 DEF TypeOK, EnqueueAtomic, Lifecycle!Statuses, Lifecycle!Active
  <2>2. CASE RequeueStalled(j)
    BY <2>2 DEF TypeOK, RequeueStalled
  <2>3. CASE EvictFinished(j)
    BY <2>3 DEF TypeOK, EvictFinished
  <2> QED
    BY <2>1, <2>2, <2>3
<1>2. UNCHANGED <<worker, fiber, runs>>
  BY DEF EnqueueAtomic, RequeueStalled, EvictFinished
<1>3. \A i \in Jobs : Unclaimed(i)' => Unclaimed(i)
  BY DEF EnqueueAtomic, RequeueStalled, EvictFinished, Unclaimed, TypeOK
<1>4. \A i \in Jobs : bull[i]' = bull[i] \/ ~LockHeld(i)
  BY DEF EnqueueAtomic, RequeueStalled, EvictFinished, OneLock, LockHeld, TypeOK
<1>5. OneLock'
  BY <1>2, <1>4 DEF OneLock, LockHeld
<1> QED
  BY <1>1, <1>2, <1>3, <1>5, NothingMoves

\* A relay inserts an entry that the queue did not hold, or none.
LEMMA RelaySteps ==
  ASSUME IInv, NEW r \in Relays, RelayStep(r) \/ RelayStops(r)
  PROVE  IInv'
<1> USE DEF IInv
<1>1. CASE RelayLists(r) \/ RelayStops(r)
  <2>1. TypeOK'
    BY <1>1 DEF TypeOK, RelayLists, RelayStops
  <2>2. UNCHANGED <<worker, fiber, runs, row, bull>>
    BY <1>1 DEF RelayLists, RelayStops
  <2>3. OneLock' /\ \A i \in Jobs : Unclaimed(i)' => Unclaimed(i)
    BY <2>2 DEF OneLock, Unclaimed
  <2> QED
    BY <2>1, <2>2, <2>3, NothingMoves
<1>2. ASSUME NEW j \in Jobs, RelayEnqueues(r, j) \/ RelayMarks(r, j)
      PROVE  IInv'
  <2>1. TypeOK'
    <3>1. CASE RelayEnqueues(r, j)
      BY <3>1 DEF TypeOK, RelayEnqueues
    <3>2. CASE RelayMarks(r, j)
      BY <3>2 DEF TypeOK, RelayMarks
    <3> QED
      BY <1>2, <3>1, <3>2
  <2>2. UNCHANGED <<worker, fiber, runs, row>>
    BY <1>2 DEF RelayEnqueues, RelayMarks
  <2>3. \A i \in Jobs : bull[i] = "active" => bull[i]' = "active"
    BY <1>2 DEF RelayEnqueues, RelayMarks, TypeOK
  <2>4. OneLock' /\ \A i \in Jobs : Unclaimed(i)' => Unclaimed(i)
    BY <2>2, <2>3 DEF OneLock, Unclaimed
  <2> QED
    BY <2>1, <2>2, <2>4, NothingMoves
<1> QED
  BY <1>1, <1>2 DEF RelayStep

-----------------------------------------------------------------------------
(* Fibers.                                                                 *)
LEMMA JobOfFiber ==
  ASSUME IInv, NEW f \in Fibers, ~Ended(f)
  PROVE  JobOf(f) \in Jobs
BY FiberKinds, FiberNames DEF IInv, SlotsInStep

\* A cancel starts a fiber of its own.
LEMMA CancelBegins ==
  ASSUME IInv, NEW j \in Jobs, CancelJob(j)
  PROVE  IInv'
<1> USE DEF IInv
<1> DEFINE f == Cancel(j)
<1>1. f \in Fibers
  BY DEF Fibers, Cancel
<1>2. /\ fiber[f]' = Begin("cancel", "find")
      /\ \A g \in Fibers : g # f => fiber[g]' = fiber[g]
      /\ UNCHANGED <<row, outbox, relay, bull, worker, announced, runs, spent>>
  BY <1>1 DEF CancelJob, TypeOK
<1>3. TypeOK'
  BY <1>1 DEF TypeOK, CancelJob, Begin, Lifecycle!Statuses
<1>4. \A w \in Workers : fiber[Store(w)]' = fiber[Store(w)] /\ fiber[Audit(w)]' = fiber[Audit(w)]
  BY <1>2, FiberNames
<1>5. SlotsInStep' /\ FibersNamed'
  BY <1>2, <1>4 DEF SlotsInStep, FibersNamed, Ended, Begin
<1>6. OneLock' /\ PipelineRunsOnce'
  BY <1>2 DEF OneLock, PipelineRunsOnce
<1>7. ClaimsAdmitOne'
  BY <1>2, <1>4 DEF ClaimsAdmitOne, PastClaim, Admitted, Unclaimed, Ended
<1> QED
  BY <1>3, <1>5, <1>6, <1>7

\* A fiber reads the row it is about.
LEMMA Finds ==
  ASSUME IInv, NEW f \in Fibers, Find(f)
  PROVE  IInv'
<1> USE DEF IInv
<1> DEFINE stops == fiber[f].op = "claim" /\ row[JobOf(f)] # "queued"
<1>1. ~Ended(f) /\ JobOf(f) \in Jobs
  BY JobOfFiber DEF Find, Ended
<1>2. /\ fiber' = [fiber EXCEPT ![f] =
           [op |-> @.op, at |-> IF stops THEN "ended" ELSE "lookup", before |-> row[JobOf(f)]]]
      /\ UNCHANGED <<row, outbox, relay, bull, worker, announced, runs, spent>>
  BY DEF Find
<1>3. /\ fiber[f].op' = fiber[f].op /\ fiber[f].before' = row[JobOf(f)]
      /\ fiber[f].at' = IF stops THEN "ended" ELSE "lookup"
      /\ \A g \in Fibers : g # f => fiber[g]' = fiber[g]
  BY <1>2 DEF TypeOK
<1>4. TypeOK'
  BY <1>1, <1>2 DEF TypeOK
<1>5. OneLock' /\ \A j \in Jobs : Unclaimed(j)' => Unclaimed(j)
  BY <1>2 DEF OneLock, Unclaimed
<1>6. fiber[f].op = "claim" /\ Ended(f)' /\ fiber[f].before' = "queued" => ~Unclaimed(JobOf(f))'
  BY <1>3 DEF Ended
<1>7. fiber[f].op = "claim" /\ fiber[f].before' = "queued" => row[JobOf(f)] = "queued"
  BY <1>3
<1>8. SlotsInStep' /\ FibersNamed' /\ ClaimsAdmitOne' /\ PipelineRunsOnce'
  BY <1>1, <1>2, <1>3, <1>5, <1>6, <1>7, FiberMoves
<1> QED
  BY <1>4, <1>5, <1>8

\* Where a fiber goes once its row is written.
LEMMA AfterWriteTyped ==
  ASSUME NEW op \in {"claim", "progress", "complete", "fail", "cancel"}
  PROVE  /\ AfterWrite(op) \in {"remove", "publish", "ended"}
         /\ AfterWrite(op) # "ended" => op \in {"complete", "fail", "cancel"}
BY DEF AfterWrite

\* A fiber reads the row again for the event it will publish.
LEMMA Lookups ==
  ASSUME IInv, NEW f \in Fibers, Lookup(f)
  PROVE  IInv'
<1> USE DEF IInv
<1> DEFINE x == IF MayWrite(fiber[f].op, row[JobOf(f)]) THEN "update" ELSE AfterWrite(fiber[f].op)
<1>1. /\ fiber' = [fiber EXCEPT ![f].at = x] /\ ~Ended(f)
      /\ UNCHANGED <<row, outbox, relay, bull, worker, announced, runs, spent>>
  BY DEF Lookup, Step, Ended
<1>2. fiber[f].op \in {"claim", "progress", "complete", "fail", "cancel"}
  BY <1>1 DEF FibersNamed, TypeOK
<1>3. /\ x \in {"update", "remove", "publish", "ended"}
      /\ x \in {"remove", "publish"} => fiber[f].op \in {"complete", "fail", "cancel"}
  BY <1>2, AfterWriteTyped
<1>4. fiber[f].op = "claim" => x = "update"
  BY DEF MayWrite
<1> HIDE DEF x
<1>5. /\ fiber[f].op' = fiber[f].op /\ fiber[f].at' = x /\ fiber[f].before' = fiber[f].before
      /\ fiber[f]' = [op |-> fiber[f].op, at |-> x, before |-> fiber[f].before]
      /\ \A g \in Fibers : g # f => fiber[g]' = fiber[g]
  BY <1>1, FiberSteps
<1>6. TypeOK'
  BY <1>1, <1>3, <1>5 DEF TypeOK
<1>7. OneLock' /\ \A j \in Jobs : Unclaimed(j)' => Unclaimed(j)
  BY <1>1 DEF OneLock, Unclaimed
<1>8. SlotsInStep' /\ FibersNamed' /\ ClaimsAdmitOne' /\ PipelineRunsOnce'
  BY <1>1, <1>3, <1>4, <1>5, <1>7, FiberMoves DEF Ended
<1> QED
  BY <1>6, <1>7, <1>8

\* A fiber writes the row: only a claim admits a slot.
LEMMA Updates ==
  ASSUME IInv, NEW f \in Fibers, Update(f)
  PROVE  IInv'
<1> USE DEF IInv
<1> DEFINE x == AfterWrite(fiber[f].op)
<1> DEFINE status == OutcomeOf[fiber[f].op]
<1>1. /\ fiber' = [fiber EXCEPT ![f].at = x] /\ ~Ended(f)
      /\ row' = [row EXCEPT ![JobOf(f)] = status]
      /\ UNCHANGED <<outbox, relay, bull, worker, announced, runs, spent>>
  BY DEF Update, Step, Ended
<1>2. fiber[f].op \in {"claim", "progress", "complete", "fail", "cancel"}
  BY <1>1 DEF FibersNamed, TypeOK
<1>3. /\ x \in {"remove", "publish", "ended"}
      /\ x # "ended" => fiber[f].op \in {"complete", "fail", "cancel"}
  BY <1>2, AfterWriteTyped
<1>4. status \in Lifecycle!Statuses \ {"none", "queued"}
  BY <1>2 DEF OutcomeOf, Lifecycle!Statuses, Lifecycle!Active, Lifecycle!Terminal
<1> HIDE DEF x, status
<1>5. JobOf(f) \in Jobs /\ JobOf(f)' = JobOf(f)
  BY <1>1, JobOfFiber DEF JobOf
<1>6. row[JobOf(f)]' = status /\ \A j \in Jobs : j # JobOf(f) => row[j]' = row[j]
  BY <1>1, <1>5 DEF TypeOK
<1>7. /\ fiber[f].op' = fiber[f].op /\ fiber[f].at' = x /\ fiber[f].before' = fiber[f].before
      /\ fiber[f]' = [op |-> fiber[f].op, at |-> x, before |-> fiber[f].before]
      /\ \A g \in Fibers : g # f => fiber[g]' = fiber[g]
  BY <1>1, FiberSteps
<1>8. TypeOK'
  <2>1. fiber' \in [Fibers -> FiberStates]
    BY <1>1, <1>3, <1>7 DEF TypeOK, FiberStates
  <2>2. row' \in [Jobs -> Lifecycle!Statuses]
    BY <1>1, <1>4, <1>5 DEF TypeOK
  <2> QED
    BY <1>1, <2>1, <2>2 DEF TypeOK, FiberStates
<1>9. OneLock' /\ (\A j \in Jobs : Unclaimed(j)' => Unclaimed(j)) /\ ~Unclaimed(JobOf(f))'
  BY <1>1, <1>4, <1>5, <1>6 DEF OneLock, Unclaimed
<1>10. SlotsInStep' /\ FibersNamed' /\ ClaimsAdmitOne' /\ PipelineRunsOnce'
  BY <1>1, <1>3, <1>7, <1>9, FiberMoves DEF Ended
<1> QED
  BY <1>8, <1>9, <1>10

\* A cancel takes the queue's entry away, or fails to.
LEMMA Removals ==
  ASSUME IInv, NEW f \in Fibers, RemoveFromQueue(f) \/ RemoveFails(f)
  PROVE  IInv'
<1> USE DEF IInv
<1>1. /\ fiber' = [fiber EXCEPT ![f].at = "publish"]
      /\ fiber[f].at = "remove"
      /\ UNCHANGED <<row, outbox, relay, worker, announced, runs>>
  BY DEF RemoveFromQueue, RemoveFails, Step
<1>2. /\ fiber[f].op' = fiber[f].op /\ fiber[f].at' = "publish"
      /\ fiber[f].before' = fiber[f].before
      /\ fiber[f]' = [op |-> fiber[f].op, at |-> "publish", before |-> fiber[f].before]
      /\ \A g \in Fibers : g # f => fiber[g]' = fiber[g]
  BY <1>1, FiberSteps
<1>3. fiber[f].op \in {"complete", "fail", "cancel"} /\ ~Ended(f)
  BY <1>1 DEF FibersNamed, Ended
<1>4. \/ bull' = bull
      \/ ~LockHeld(JobOf(f)) /\ bull' = [bull EXCEPT ![JobOf(f)] = "absent"]
  BY DEF RemoveFromQueue, RemoveFails
<1>5. JobOf(f) \in Jobs
  BY <1>3, JobOfFiber
<1>6. TypeOK'
  <2>1. fiber' \in [Fibers -> FiberStates]
    BY <1>1, <1>2 DEF TypeOK, FiberStates
  <2>2. bull' \in [Jobs -> {"absent", "waiting", "active", "finished"}]
    BY <1>4, <1>5 DEF TypeOK
  <2> QED
    BY <1>1, <2>1, <2>2 DEF TypeOK, FiberStates
<1>7. \A j \in Jobs : bull[j]' = bull[j] \/ ~LockHeld(j)
  BY <1>4 DEF TypeOK
<1>8. OneLock' /\ \A j \in Jobs : Unclaimed(j)' => Unclaimed(j)
  BY <1>1, <1>7 DEF OneLock, LockHeld, Unclaimed
<1>9. SlotsInStep' /\ FibersNamed' /\ ClaimsAdmitOne' /\ PipelineRunsOnce'
  BY <1>1, <1>2, <1>3, <1>8, FiberMoves DEF Ended
<1> QED
  BY <1>6, <1>8, <1>9

\* A fiber publishes and ends.
LEMMA Publishes ==
  ASSUME IInv, NEW f \in Fibers, Publish(f)
  PROVE  IInv'
<1> USE DEF IInv
<1> DEFINE event == Lifecycle!EventOf[OutcomeOf[fiber[f].op]]
<1>1. /\ fiber' = [fiber EXCEPT ![f].at = "ended"]
      /\ fiber[f].at = "publish"
      /\ announced' = IF fiber[f].before \in Active
           THEN [announced EXCEPT ![JobOf(f)] = @ \union {event}] ELSE announced
      /\ UNCHANGED <<row, outbox, relay, bull, worker, runs, spent>>
  BY DEF Publish, Step
<1>2. /\ fiber[f].op' = fiber[f].op /\ fiber[f].at' = "ended"
      /\ fiber[f].before' = fiber[f].before
      /\ fiber[f]' = [op |-> fiber[f].op, at |-> "ended", before |-> fiber[f].before]
      /\ \A g \in Fibers : g # f => fiber[g]' = fiber[g]
  BY <1>1, FiberSteps
<1>3. fiber[f].op \in {"complete", "fail", "cancel"} /\ ~Ended(f)
  BY <1>1 DEF FibersNamed, Ended
<1>4. event \in Lifecycle!TerminalEvents
  BY <1>3 DEF OutcomeOf, Lifecycle!EventOf, Lifecycle!TerminalEvents
<1> HIDE DEF event
<1>5. JobOf(f) \in Jobs
  BY <1>3, JobOfFiber
<1>6. TypeOK'
  <2>1. fiber' \in [Fibers -> FiberStates]
    BY <1>1, <1>2 DEF TypeOK, FiberStates
  <2>2. announced' \in [Jobs -> SUBSET Lifecycle!TerminalEvents]
    BY <1>1, <1>4, <1>5 DEF TypeOK
  <2> QED
    BY <1>1, <2>1, <2>2 DEF TypeOK, FiberStates
<1>7. OneLock' /\ \A j \in Jobs : Unclaimed(j)' => Unclaimed(j)
  BY <1>1 DEF OneLock, Unclaimed
<1>8. SlotsInStep' /\ FibersNamed' /\ ClaimsAdmitOne' /\ PipelineRunsOnce'
  BY <1>1, <1>2, <1>3, <1>7, FiberMoves DEF Ended
<1> QED
  BY <1>6, <1>7, <1>8

\* A fiber's statement fails, and the fiber with it.
LEMMA Statements ==
  ASSUME IInv, NEW f \in Fibers, StatementFails(f)
  PROVE  IInv'
<1> USE DEF IInv
<1>1. /\ fiber' = [fiber EXCEPT ![f] = NoFiber] /\ ~Ended(f)
      /\ UNCHANGED <<row, outbox, relay, bull, worker, announced, runs>>
  BY DEF StatementFails, Ended
<1>2. fiber[f]' = NoFiber /\ \A g \in Fibers : g # f => fiber[g]' = fiber[g]
  BY <1>1 DEF TypeOK
<1>3. TypeOK'
  BY <1>1 DEF TypeOK, NoFiber, Lifecycle!Statuses
<1>4. OneLock' /\ \A j \in Jobs : Unclaimed(j)' => Unclaimed(j)
  BY <1>1 DEF OneLock, Unclaimed
<1>5. Ended(f)' /\ fiber[f].before' # "queued"
  BY <1>2 DEF Ended, NoFiber
<1>6. SlotsInStep' /\ FibersNamed' /\ ClaimsAdmitOne' /\ PipelineRunsOnce'
  BY <1>1, <1>2, <1>4, <1>5, FiberMoves
<1> QED
  BY <1>3, <1>4, <1>6

-----------------------------------------------------------------------------
(* Slots.                                                                  *)

(* A delivery takes the lock nobody holds, and no claim of it has begun.   *)
LEMMA Delivers ==
  ASSUME IInv, NEW w \in Workers, NEW j \in Jobs, Deliver(w, j)
  PROVE  IInv'
<1> USE DEF IInv
<1> DEFINE slot == [at |-> "claiming", job |-> j, locked |-> TRUE, left |-> Steps]
<1>1. /\ worker[w].at = "idle" /\ bull[j] = "waiting"
      /\ bull' = [bull EXCEPT ![j] = "active"]
      /\ worker' = [worker EXCEPT ![w] = slot]
      /\ fiber' = [fiber EXCEPT ![Store(w)] = Begin("claim", "find")]
      /\ UNCHANGED <<row, outbox, relay, announced, runs, spent>>
  BY DEF Deliver
<1>2. Store(w) \in Fibers /\ Audit(w) \in Fibers /\ Store(w) # Audit(w)
  BY FiberNames
<1>3. /\ worker[w]' = slot /\ \A v \in Workers : v # w => worker[v]' = worker[v]
      /\ bull[j]' = "active" /\ \A i \in Jobs : i # j => bull[i]' = bull[i]
  BY <1>1 DEF TypeOK
<1>4. /\ fiber[Store(w)]' = Begin("claim", "find")
      /\ \A g \in Fibers : g # Store(w) => fiber[g]' = fiber[g]
  BY <1>1, <1>2 DEF TypeOK
<1>5. \A v \in Workers : v # w => fiber[Store(v)]' = fiber[Store(v)]
  BY <1>4, FiberNames
<1>6. \A v \in Workers : fiber[Audit(v)]' = fiber[Audit(v)]
  BY <1>4, FiberNames
<1>7. TypeOK'
  <2>1. worker' \in [Workers -> Slots]
    BY <1>1, ExecutionAssumption DEF TypeOK, Slots
  <2>2. fiber' \in [Fibers -> FiberStates]
    BY <1>1, <1>2 DEF TypeOK, FiberStates, Begin, Lifecycle!Statuses
  <2>3. bull' \in [Jobs -> {"absent", "waiting", "active", "finished"}]
    BY <1>1 DEF TypeOK
  <2> QED
    BY <1>1, <2>1, <2>2, <2>3 DEF TypeOK, Slots, FiberStates
<1>8. SlotsInStep'
  <2>1. Ended(Audit(w))'
    BY <1>1, <1>6 DEF SlotsInStep, Ended
  <2> QED
    BY <1>3, <1>4, <1>5, <1>6, <2>1 DEF SlotsInStep, Ended, Begin
<1>9. FibersNamed'
  BY <1>4 DEF FibersNamed, Ended, Begin
<1>10. OneLock'
  BY <1>1, <1>3 DEF OneLock
<1>11. PipelineRunsOnce'
  BY <1>1 DEF PipelineRunsOnce
<1>12. \A v \in Workers, i \in Jobs :
         /\ PastClaim(v, i)' => PastClaim(v, i)
         /\ Admitted(v, i)' => Admitted(v, i)
         /\ Unclaimed(i)' <=> Unclaimed(i)
  BY <1>1, <1>3, <1>4, <1>5 DEF PastClaim, Admitted, Unclaimed, Begin
<1>13. ASSUME NEW v \in Workers, worker[v].at' = "claiming", Ended(Store(v))',
              fiber[Store(v)].before' = "queued"
       PROVE  ~Unclaimed(worker[v].job)'
  <2>1. v # w
    BY <1>4, <1>13 DEF Begin
  <2> QED
    BY <2>1, <1>1, <1>3, <1>5, <1>13 DEF ClaimsAdmitOne, Ended, Unclaimed
<1>14. ClaimsAdmitOne'
  BY <1>1, <1>12, <1>13 DEF ClaimsAdmitOne
<1> QED
  BY <1>7, <1>8, <1>9, <1>10, <1>11, <1>14

(* Of the deliveries of a job one is admitted: its lock is its own.        *)
LEMMA ClaimGoesOn ==
  ASSUME IInv, NEW w \in Workers, Claimed(w)
  PROVE  IInv'
<1> USE DEF IInv
<1> DEFINE j == worker[w].job
<1>1. /\ worker[w].at = "claiming" /\ Ended(Store(w)) /\ fiber[Store(w)].before = "queued"
      /\ worker' = [worker EXCEPT ![w].at = "loading"]
      /\ UNCHANGED <<row, outbox, relay, bull, fiber, announced, runs, spent>>
  BY DEF Claimed
<1>2. /\ worker[w]' = [at |-> "loading", job |-> j, locked |-> worker[w].locked,
                       left |-> worker[w].left]
      /\ worker[w].at' = "loading" /\ worker[w].job' = j /\ worker[w].locked' = worker[w].locked
      /\ \A v \in Workers : v # w => worker[v]' = worker[v]
  BY <1>1, SlotSteps
<1>3. j \in Jobs /\ worker[w].locked /\ Ended(Audit(w)) /\ ~Unclaimed(j) /\ Admitted(w, j)
  BY <1>1 DEF SlotsInStep, ClaimsAdmitOne, Admitted
<1>4. TypeOK'
  <2>1. worker' \in [Workers -> Slots]
    BY <1>1, <1>2 DEF TypeOK, Slots
  <2> QED
    BY <1>1, <2>1 DEF TypeOK, Slots
<1>5. SlotsInStep'
  BY <1>1, <1>2, <1>3 DEF SlotsInStep, Ended
<1>6. FibersNamed' /\ OneLock' /\ PipelineRunsOnce'
  BY <1>1, <1>2 DEF FibersNamed, Ended, OneLock, PipelineRunsOnce
<1>7. \A v \in Workers, i \in Jobs :
        /\ PastClaim(v, i)' => PastClaim(v, i) \/ (v = w /\ i = j)
        /\ Admitted(v, i)' => Admitted(v, i)
        /\ Unclaimed(i)' <=> Unclaimed(i)
  BY <1>1, <1>2, <1>3 DEF PastClaim, Admitted, Unclaimed
<1>8. \A v \in Workers : Admitted(v, j) => v = w
  BY <1>3 DEF Admitted, SlotsInStep, OneLock
<1>9. ASSUME NEW v \in Workers, worker[v].at' = "claiming", Ended(Store(v))',
             fiber[Store(v)].before' = "queued"
      PROVE  ~Unclaimed(worker[v].job)'
  BY <1>1, <1>2, <1>9 DEF ClaimsAdmitOne, Ended, Unclaimed
<1>10. ClaimsAdmitOne'
  BY <1>1, <1>3, <1>7, <1>8, <1>9 DEF ClaimsAdmitOne
<1> QED
  BY <1>4, <1>5, <1>6, <1>10

(* The run that begins is the job's first.                                 *)
LEMMA PipelineBegins ==
  ASSUME IInv, NEW w \in Workers, BeginPipeline(w)
  PROVE  IInv'
<1> USE DEF IInv
<1> DEFINE j == worker[w].job
<1>1. /\ worker[w].at = "loading"
      /\ worker' = [worker EXCEPT ![w].at = "generating"]
      /\ runs' = [runs EXCEPT ![j] = @ + 1]
      /\ UNCHANGED <<row, outbox, relay, bull, fiber, announced, spent>>
  BY DEF BeginPipeline
<1>2. /\ worker[w]' = [at |-> "generating", job |-> j, locked |-> worker[w].locked,
                       left |-> worker[w].left]
      /\ worker[w].at' = "generating" /\ worker[w].job' = j
      /\ worker[w].locked' = worker[w].locked
      /\ \A v \in Workers : v # w => worker[v]' = worker[v]
  BY <1>1, SlotSteps
<1>3. j \in Jobs /\ worker[w].locked /\ Ended(Store(w)) /\ Ended(Audit(w))
  BY <1>1 DEF SlotsInStep
<1>4. Admitted(w, j) /\ PastClaim(w, j) /\ runs[j] = 0 /\ ~Unclaimed(j)
  BY <1>1, <1>3 DEF Admitted, PastClaim, ClaimsAdmitOne
<1>5. runs[j]' = 1 /\ \A i \in Jobs : i # j => runs[i]' = runs[i]
  BY <1>1, <1>3, <1>4 DEF TypeOK
<1>6. TypeOK'
  <2>1. worker' \in [Workers -> Slots]
    BY <1>1, <1>2 DEF TypeOK, Slots
  <2>2. runs' \in [Jobs -> Nat]
    BY <1>1, <1>3, <1>5 DEF TypeOK
  <2> QED
    BY <1>1, <2>1, <2>2 DEF TypeOK, Slots
<1>7. SlotsInStep'
  BY <1>1, <1>2, <1>3 DEF SlotsInStep, Ended
<1>8. FibersNamed' /\ OneLock'
  BY <1>1, <1>2 DEF FibersNamed, Ended, OneLock
<1>9. PipelineRunsOnce'
  BY <1>2, <1>5 DEF PipelineRunsOnce
<1>10. \A v \in Workers, i \in Jobs :
         /\ PastClaim(v, i)' <=> PastClaim(v, i)
         /\ Admitted(v, i)' => Admitted(v, i) /\ v # w
         /\ Unclaimed(i)' <=> Unclaimed(i)
  BY <1>1, <1>2 DEF PastClaim, Admitted, Unclaimed
<1>11. \A v \in Workers : Admitted(v, j) => v = w
  BY <1>3 DEF Admitted, SlotsInStep, OneLock
<1>12. ASSUME NEW v \in Workers, worker[v].at' = "claiming", Ended(Store(v))',
              fiber[Store(v)].before' = "queued"
       PROVE  ~Unclaimed(worker[v].job)'
  BY <1>1, <1>2, <1>12 DEF ClaimsAdmitOne, Ended, Unclaimed
<1>13. ClaimsAdmitOne'
  BY <1>4, <1>5, <1>10, <1>11, <1>12 DEF ClaimsAdmitOne
<1> QED
  BY <1>6, <1>7, <1>8, <1>9, <1>13

(* What the queue records when a processor returns concerns the lock's     *)
(* holder only.                                                            *)
LEMMA ReturnedBull ==
  ASSUME IInv, NEW w \in Workers, worker[w].at # "idle"
  PROVE  /\ Returned(w) \in [Jobs -> {"absent", "waiting", "active", "finished"}]
         /\ \A v \in Workers : v # w /\ worker[v].locked /\ worker[v].job \in Jobs
              => Returned(w)[worker[v].job] = bull[worker[v].job]
<1> USE DEF IInv
<1>1. worker[w].job \in Jobs
  BY DEF SlotsInStep
<1>2. Returned(w) \in [Jobs -> {"absent", "waiting", "active", "finished"}]
  BY <1>1 DEF Returned, TypeOK
<1>3. ASSUME NEW v \in Workers, v # w, worker[v].locked, worker[v].job \in Jobs, worker[w].locked
      PROVE  worker[v].job # worker[w].job
  BY <1>1, <1>3 DEF OneLock
<1> QED
  BY <1>1, <1>2, <1>3 DEF Returned, TypeOK

\* A slot that lets its job go.
LEMMA FreedSlots ==
  ASSUME TypeOK, NEW w \in Workers, worker' = [worker EXCEPT ![w] = Idle]
  PROVE  worker' \in [Workers -> Slots]
BY ExecutionAssumption DEF TypeOK, Slots, Idle

\* The ways a slot lets its job go.
LEMMA SlotFrees ==
  ASSUME IInv, NEW w \in Workers,
         NotClaimed(w) \/ LoadFails(w) \/ ProcessorReturns(w) \/ WorkerStops(w)
  PROVE  IInv'
<1> USE DEF IInv
<1>1. /\ worker[w].at # "idle" /\ worker' = [worker EXCEPT ![w] = Idle]
      /\ UNCHANGED <<row, outbox, relay, announced, runs>>
  BY DEF NotClaimed, LoadFails, ProcessorReturns, WorkerStops
<1>2. worker[w].job \in Jobs
  BY <1>1 DEF SlotsInStep
<1>3. /\ bull' \in [Jobs -> {"absent", "waiting", "active", "finished"}]
      /\ \A v \in Workers : v # w /\ worker[v].locked /\ worker[v].job \in Jobs
           => bull[worker[v].job]' = bull[worker[v].job]
  <2>1. CASE NotClaimed(w) \/ ProcessorReturns(w)
    <3>1. bull' = Returned(w) /\ \A v \in Workers : v # w => worker[v]' = worker[v]
      BY <2>1, <1>1 DEF NotClaimed, ProcessorReturns, TypeOK
    <3> QED
      BY <3>1, <1>1, ReturnedBull
  <2>2. CASE LoadFails(w)
    <3>1. bull' = [bull EXCEPT ![worker[w].job] = "waiting"] /\ worker[w].locked
      BY <2>2 DEF LoadFails, SlotsInStep
    <3>2. \A v \in Workers : v # w /\ worker[v].locked => worker[v].job # worker[w].job
      BY <3>1, <1>2 DEF OneLock
    <3>3. \A v \in Workers : v # w => worker[v]' = worker[v]
      BY <1>1 DEF TypeOK
    <3> QED
      BY <3>1, <3>2, <3>3, <1>2 DEF TypeOK
  <2>3. CASE WorkerStops(w)
    <3>1. bull' = bull /\ \A v \in Workers : v # w => worker[v]' = worker[v]
      BY <2>3, <1>1 DEF WorkerStops, TypeOK
    <3> QED
      BY <3>1 DEF TypeOK
  <2> QED
    BY <2>1, <2>2, <2>3
<1>4. /\ fiber' \in [Fibers -> FiberStates]
      /\ \A f \in Fibers :
           fiber[f]' = fiber[f] \/ (f \in {Store(w), Audit(w)} /\ fiber[f]' = NoFiber)
      /\ Ended(Store(w))' /\ Ended(Audit(w))'
  <2>1. CASE NotClaimed(w) \/ ProcessorReturns(w) \/ LoadFails(w)
    <3>1. fiber' = fiber
      BY <2>1 DEF NotClaimed, ProcessorReturns, LoadFails
    <3>2. Ended(Store(w)) /\ Ended(Audit(w))
      BY <2>1 DEF NotClaimed, ProcessorReturns, LoadFails, SlotsInStep
    <3> QED
      BY <3>1, <3>2 DEF TypeOK, FiberStates, Ended
  <2>2. CASE WorkerStops(w)
    <3>1. fiber' = [fiber EXCEPT ![Store(w)] = NoFiber, ![Audit(w)] = NoFiber]
      BY <2>2 DEF WorkerStops
    <3>2. NoFiber \in FiberStates /\ NoFiber.at = "ended"
      BY DEF FiberStates, NoFiber, Lifecycle!Statuses
    <3>3. fiber \in [Fibers -> FiberStates]
      BY DEF TypeOK, FiberStates
    <3>4. /\ fiber' \in [Fibers -> FiberStates]
          /\ fiber[Store(w)]' = NoFiber /\ fiber[Audit(w)]' = NoFiber
          /\ \A f \in Fibers : f \notin {Store(w), Audit(w)} => fiber[f]' = fiber[f]
      BY <3>1, <3>2, <3>3, FiberNames
    <3> QED
      BY <3>2, <3>4 DEF Ended
  <2> QED
    BY <2>1, <2>2
<1>5. TypeOK'
  <2>1. worker' \in [Workers -> Slots]
    BY <1>1, FreedSlots
  <2> QED
    BY <2>1, <1>1, <1>3, <1>4 DEF TypeOK, Slots, FiberStates
<1>6. SlotsInStep' /\ FibersNamed' /\ OneLock' /\ ClaimsAdmitOne' /\ PipelineRunsOnce'
  BY <1>1, <1>3, <1>4, SlotReturns
<1> QED
  BY <1>5, <1>6

\* Both fibers of a report start together.
LEMMA Reports ==
  ASSUME IInv, NEW w \in Workers, NEW op \in {"progress", "complete", "fail"},
         NEW at \in {"find", "lookup"}, ReportBoth(w, op, at)
  PROVE  /\ fiber' \in [Fibers -> FiberStates]
         /\ \A f \in Fibers : fiber[f]' = fiber[f] \/ f \in {Store(w), Audit(w)}
         /\ FibersNamed'
<1> USE DEF IInv
<1>1. fiber' = [fiber EXCEPT ![Store(w)] = Begin(op, at), ![Audit(w)] = Begin(op, "lookup")]
  BY DEF ReportBoth
<1>2. fiber \in [Fibers -> FiberStates] /\ {Begin(op, at), Begin(op, "lookup")} \subseteq FiberStates
  BY DEF TypeOK, FiberStates, Begin, Lifecycle!Statuses
<1>3. /\ fiber' \in [Fibers -> FiberStates]
      /\ fiber[Store(w)]' = Begin(op, at) /\ fiber[Audit(w)]' = Begin(op, "lookup")
      /\ \A f \in Fibers : f \notin {Store(w), Audit(w)} => fiber[f]' = fiber[f]
  BY <1>1, <1>2, FiberNames
<1>4. FibersNamed'
  BY <1>3 DEF FibersNamed, Ended, Begin
<1> QED
  BY <1>3, <1>4

\* A slot that has its job reports, waits or loses its lock.
LEMMA SlotReports ==
  ASSUME IInv, NEW w \in Workers,
         \/ PublishJobProgress(w) \/ ProgressPublished(w)
         \/ CompleteQueuedJob(w) \/ FailQueuedJob(w) \/ LockExpires(w)
  PROVE  IInv'
<1> USE DEF IInv
<1> DEFINE running == {"generating", "reporting", "finishing"}
<1>1. UNCHANGED <<row, outbox, relay, bull, announced, runs>>
  BY DEF PublishJobProgress, ProgressPublished, CompleteQueuedJob, FailQueuedJob, LockExpires
<1>2. /\ fiber' \in [Fibers -> FiberStates] /\ FibersNamed'
      /\ \A f \in Fibers : fiber[f]' = fiber[f] \/ f \in {Store(w), Audit(w)}
  <2>1. CASE ProgressPublished(w) \/ LockExpires(w)
    BY <2>1 DEF ProgressPublished, LockExpires, TypeOK, FiberStates, FibersNamed, Ended
  <2>2. CASE PublishJobProgress(w)
    BY <2>2, Reports DEF PublishJobProgress
  <2>3. CASE CompleteQueuedJob(w)
    BY <2>3, Reports DEF CompleteQueuedJob
  <2>4. CASE FailQueuedJob(w)
    BY <2>4, Reports DEF FailQueuedJob
  <2> QED
    BY <2>1, <2>2, <2>3, <2>4
<1>3. /\ worker' \in [Workers -> Slots]
      /\ worker[w].at \in running /\ worker[w].at' \in running
      /\ worker[w].job' = worker[w].job /\ (worker[w].locked' => worker[w].locked)
      /\ \A v \in Workers : v # w => worker[v]' = worker[v]
  <2>1. CASE PublishJobProgress(w)
    <3>1. /\ worker' = [worker EXCEPT ![w] =
               [at |-> "reporting", job |-> @.job, locked |-> @.locked, left |-> @.left - 1]]
          /\ worker[w].at = "generating" /\ worker[w].left > 0
      BY <2>1 DEF PublishJobProgress
    <3>2. worker[w].left - 1 \in 0..Steps
      BY <3>1, ExecutionAssumption DEF TypeOK
    <3> QED
      BY <3>1, <3>2 DEF TypeOK, Slots
  <2>2. ASSUME NEW x \in running, worker[w].at \in running, worker' = [worker EXCEPT ![w].at = x]
        PROVE  <1>3!:
    <3>1. /\ worker[w]' = [at |-> x, job |-> worker[w].job, locked |-> worker[w].locked,
                           left |-> worker[w].left]
          /\ worker[w].at' = x /\ worker[w].job' = worker[w].job
          /\ worker[w].locked' = worker[w].locked
          /\ \A v \in Workers : v # w => worker[v]' = worker[v]
      BY <2>2, SlotSteps
    <3>2. worker' \in [Workers -> Slots]
      BY <2>2, <3>1 DEF TypeOK, Slots
    <3> QED
      BY <2>2, <3>1, <3>2
  <2>3. CASE ProgressPublished(w) \/ CompleteQueuedJob(w) \/ FailQueuedJob(w)
    BY <2>2, <2>3 DEF ProgressPublished, CompleteQueuedJob, FailQueuedJob
  <2>4. CASE LockExpires(w)
    <3>1. worker' = [worker EXCEPT ![w].locked = FALSE] /\ worker[w].at \in running
          /\ worker[w].locked
      BY <2>4 DEF LockExpires
    <3>2. worker[w]' = [at |-> worker[w].at, job |-> worker[w].job, locked |-> FALSE,
                       left |-> worker[w].left]
      BY <3>1, ZenonT(45) DEF TypeOK
    <3>3. /\ worker[w] \in Slots /\ worker \in [Workers -> Slots]
          /\ \A v \in Workers : v # w => worker[v]' = worker[v]
      BY <3>1 DEF TypeOK, Slots
    <3>4. worker[w]' \in Slots
      BY <3>2, <3>3 DEF Slots
    <3>5. worker' = [worker EXCEPT ![w] = worker'[w]]
      BY <3>1, <3>3
    <3>6. worker' \in [Workers -> Slots]
      BY <3>3, <3>4, <3>5
    <3> QED
      BY <3>1, <3>2, <3>3, <3>6 DEF TypeOK
  <2> QED
    BY <2>1, <2>3, <2>4
<1>4. worker[w].at' = "generating" => Ended(Store(w))' /\ Ended(Audit(w))'
  <2>1. CASE ProgressPublished(w)
    BY <2>1 DEF ProgressPublished, Ended
  <2>2. CASE LockExpires(w)
    <3>1. worker[w].at' = worker[w].at
      BY <2>2 DEF LockExpires, TypeOK
    <3> QED
      BY <2>2, <3>1 DEF LockExpires, SlotsInStep, Ended
  <2>3. CASE PublishJobProgress(w) \/ CompleteQueuedJob(w) \/ FailQueuedJob(w)
    <3>1. worker[w].at' # "generating"
      BY <2>3 DEF PublishJobProgress, CompleteQueuedJob, FailQueuedJob, TypeOK
    <3> QED
      BY <3>1
  <2> QED
    BY <2>1, <2>2, <2>3
<1>5. TypeOK'
  BY <1>1, <1>2, <1>3 DEF TypeOK, Slots, FiberStates
<1>6. SlotsInStep' /\ OneLock' /\ ClaimsAdmitOne' /\ PipelineRunsOnce'
  BY <1>1, <1>2, <1>3, <1>4, SlotGoesOn
<1> QED
  BY <1>2, <1>5, <1>6

-----------------------------------------------------------------------------
\* Types, locks, claims and the one run of each job, in every state.
THEOREM Inductive == Spec => []IInv
<1>1. ASSUME IInv, [Next]_vars PROVE IInv'
  <2>1. CASE Next
    <3>1. CASE \E j \in Jobs : EnqueueAtomic(j) \/ RequeueStalled(j) \/ EvictFinished(j) \/ CancelJob(j)
      BY <1>1, <3>1, QueueSteps, CancelBegins
    <3>2. CASE \E r \in Relays : RelayStep(r) \/ RelayStops(r)
      BY <1>1, <3>2, RelaySteps
    <3>3. CASE \E w \in Workers, j \in Jobs : Deliver(w, j)
      BY <1>1, <3>3, Delivers
    <3>4. CASE \E w \in Workers : WorkerStep(w) \/ LoadFails(w) \/ WorkerStops(w) \/ LockExpires(w)
      BY <1>1, <3>4, ClaimGoesOn, PipelineBegins, SlotFrees, SlotReports DEF WorkerStep
    <3>5. CASE \E f \in Fibers : FiberStep(f) \/ StatementFails(f) \/ RemoveFails(f)
      BY <1>1, <3>5, Finds, Lookups, Updates, Removals, Publishes, Statements DEF FiberStep
    <3> QED
      BY <2>1, <3>1, <3>2, <3>3, <3>4, <3>5 DEF Next
  <2>2. CASE UNCHANGED vars
    BY <1>1, <2>2 DEF vars, IInv, TypeOK, SlotsInStep, FibersNamed, Ended, OneLock,
                      ClaimsAdmitOne, Unclaimed, PastClaim, Admitted, PipelineRunsOnce
  <2> QED
    BY <1>1, <2>1, <2>2
<1> QED
  BY <1>1, InitIInv, PTL DEF Spec

(* The row, the queue, the slots and their fibers keep their types.        *)
THEOREM ExecutionTypeCorrect == Spec => []TypeOK
<1>1. IInv => TypeOK
  BY DEF IInv
<1> QED
  BY <1>1, Inductive, PTL

(* However often a job is relayed, delivered again after a stall, a lost   *)
(* lock or a failed attempt, or evicted and relayed again, its pipeline    *)
(* runs at most once.                                                      *)
THEOREM OneRunPerJob == Spec => []PipelineRunsOnce
<1>1. IInv => PipelineRunsOnce
  BY DEF IInv
<1> QED
  BY <1>1, Inductive, PTL

-----------------------------------------------------------------------------
(* An accepted job is within reach.  A job without a row has left no trace *)
(* anywhere; while no statement has failed, an unclaimed row has a live    *)
(* queue entry, or an unpublished event whose relay has not sent it yet,   *)
(* and no slot is past a claim of it, nor a cancel at the queue with it.   *)
SpentTyped == spent \in [faults : Nat, stops : Nat, relayStops : Nat, evictions : Nat]

\* A cancel's fiber cancels.
CancelsNamed == \A j \in Jobs : ~Ended(Cancel(j)) => fiber[Cancel(j)].op = "cancel"

Fresh ==
  \A j \in Jobs : row[j] = "none" =>
    /\ outbox[j] = "none" /\ bull[j] = "absent"
    /\ \A r \in Relays : relay[r][j] = "idle"
    /\ Ended(Cancel(j))
    /\ \A w \in Workers : worker[w].job # j

Alive(j) == bull[j] \in {"waiting", "active"}
Unsent(j) == bull[j] = "absent" /\ outbox[j] = "pending" /\ \A r \in Relays : relay[r][j] # "sent"

Within(j) ==
  /\ Alive(j) \/ Unsent(j)
  /\ \A f \in Fibers : fiber[f].at = "remove" => JobOf(f) # j
  /\ \A w \in Workers : worker[w].job = j /\ worker[w].at = "claiming" => ~Ended(Store(w))

Live == spent.faults = 0 => \A j \in Jobs : row[j] = "queued" => Within(j)

ReachInv == SpentTyped /\ CancelsNamed /\ Fresh /\ Live

(* A bound that is spent stays spent, and a statement that fails is counted. *)
LEMMA SpentMoves ==
  ASSUME SpentTyped, [Next]_vars
  PROVE  SpentTyped' /\ (spent.faults' = 0 => spent.faults = 0)
<1>1. ASSUME NEW max, Spend("faults", max)
      PROVE  SpentTyped' /\ spent.faults' = spent.faults + 1
  BY <1>1 DEF Spend, SpentTyped
<1>2. ASSUME NEW max, Spend("stops", max)
      PROVE  SpentTyped' /\ spent.faults' = spent.faults
  BY <1>2 DEF Spend, SpentTyped
<1>3. ASSUME NEW max, Spend("relayStops", max)
      PROVE  SpentTyped' /\ spent.faults' = spent.faults
  BY <1>3 DEF Spend, SpentTyped
<1>4. ASSUME NEW max, Spend("evictions", max)
      PROVE  SpentTyped' /\ spent.faults' = spent.faults
  BY <1>4 DEF Spend, SpentTyped
<1>5. ASSUME spent' = spent PROVE SpentTyped' /\ spent.faults' = spent.faults
  BY <1>5 DEF SpentTyped
<1>6. spent.faults \in Nat
  BY DEF SpentTyped
<1>7. CASE \E j \in Jobs : EnqueueAtomic(j) \/ RequeueStalled(j) \/ EvictFinished(j) \/ CancelJob(j)
  BY <1>4, <1>5, <1>7 DEF EnqueueAtomic, RequeueStalled, EvictFinished, CancelJob
<1>8. CASE \E r \in Relays : RelayStep(r) \/ RelayStops(r)
  BY <1>3, <1>5, <1>8 DEF RelayStep, RelayLists, RelayEnqueues, RelayMarks, RelayStops
<1>9. CASE \E w \in Workers, j \in Jobs : Deliver(w, j)
  BY <1>5, <1>9 DEF Deliver
<1>10. CASE \E w \in Workers : WorkerStep(w)
  BY <1>5, <1>10 DEF WorkerStep, Claimed, NotClaimed, BeginPipeline, PublishJobProgress,
       ProgressPublished, CompleteQueuedJob, FailQueuedJob, ProcessorReturns
<1>11. CASE \E w \in Workers : LoadFails(w) \/ WorkerStops(w) \/ LockExpires(w)
  BY <1>1, <1>2, <1>6, <1>11 DEF LoadFails, WorkerStops, LockExpires
<1>12. CASE \E f \in Fibers : FiberStep(f)
  BY <1>5, <1>12 DEF FiberStep, Find, Lookup, Update, RemoveFromQueue, Publish
<1>13. CASE \E f \in Fibers : StatementFails(f) \/ RemoveFails(f)
  BY <1>1, <1>6, <1>13 DEF StatementFails, RemoveFails
<1>14. CASE UNCHANGED vars
  BY <1>5, <1>14 DEF vars
<1> QED
  BY <1>7, <1>8, <1>9, <1>10, <1>11, <1>12, <1>13, <1>14 DEF Next

(* A fiber that is under way is a job's that has a row.                    *)
LEMMA FiberHasRow ==
  ASSUME IInv, Fresh, NEW f \in Fibers, ~Ended(f)
  PROVE  JobOf(f) \in Jobs /\ row[JobOf(f)] # "none"
<1>1. JobOf(f) \in Jobs
  BY JobOfFiber
<1> QED
  BY <1>1, FiberKinds, FiberNames DEF Fresh

(* The queue and the relays.                                               *)
LEMMA QueueReach ==
  ASSUME IInv, ReachInv, SpentTyped', spent.faults' = 0 => spent.faults = 0,
         NEW j \in Jobs, EnqueueAtomic(j) \/ RequeueStalled(j) \/ EvictFinished(j)
  PROVE  ReachInv'
<1>1. /\ UNCHANGED <<relay, worker, fiber>>
      /\ \A i \in Jobs : i # j => row[i]' = row[i] /\ outbox[i]' = outbox[i] /\ bull[i]' = bull[i]
  BY DEF EnqueueAtomic, RequeueStalled, EvictFinished, IInv, TypeOK
<1>2. CancelsNamed'
  BY <1>1 DEF ReachInv, CancelsNamed, Ended
<1>3. \A f \in Fibers : JobOf(f)' = JobOf(f)
  BY <1>1 DEF JobOf
<1>4. \A i \in Jobs : i # j /\ Within(i) => Within(i)'
  BY <1>1, <1>3 DEF Within, Alive, Unsent, Ended
<1>5. CASE EnqueueAtomic(j)
  <2>1. /\ row[j] = "none" /\ row[j]' = "queued" /\ outbox[j]' = "pending" /\ bull[j]' = bull[j]
    BY <1>5 DEF EnqueueAtomic, IInv, TypeOK
  <2>2. Within(j)'
    <3>1. \A f \in Fibers : fiber[f].at = "remove" => JobOf(f) # j
      BY <2>1, FiberHasRow DEF ReachInv, Ended
    <3> QED
      BY <1>1, <1>3, <2>1, <3>1 DEF Within, Unsent, ReachInv, Fresh
  <2>3. Fresh'
    BY <1>1, <2>1 DEF ReachInv, Fresh, Ended
  <2>4. Live'
    BY <1>1, <1>4, <2>2 DEF ReachInv, Live
  <2> QED
    BY <1>2, <2>3, <2>4 DEF ReachInv
<1>6. CASE RequeueStalled(j) \/ EvictFinished(j)
  <2>1. /\ row' = row /\ outbox' = outbox
        /\ \/ bull[j] = "active" /\ bull[j]' = "waiting"
           \/ bull[j] = "finished" /\ bull[j]' = "absent"
    BY <1>6 DEF RequeueStalled, EvictFinished, IInv, TypeOK
  <2>2. Within(j) => Within(j)'
    BY <1>1, <1>3, <2>1 DEF Within, Alive, Unsent, Ended
  <2>3. Fresh'
    BY <1>1, <2>1 DEF ReachInv, Fresh, Ended
  <2>4. Live'
    BY <1>1, <1>4, <2>1, <2>2 DEF ReachInv, Live
  <2> QED
    BY <1>2, <2>3, <2>4 DEF ReachInv
<1> QED
  BY <1>5, <1>6

\* What a relay does to the reach of a job.
LEMMA RelayReach ==
  ASSUME IInv, ReachInv, SpentTyped', spent.faults' = 0 => spent.faults = 0,
         NEW r \in Relays, RelayStep(r) \/ RelayStops(r)
  PROVE  ReachInv'
<1>1. UNCHANGED <<row, worker, fiber>>
  BY DEF RelayStep, RelayLists, RelayEnqueues, RelayMarks, RelayStops
<1>2. CancelsNamed'
  BY <1>1 DEF ReachInv, CancelsNamed, Ended
<1>3. \A f \in Fibers : JobOf(f)' = JobOf(f)
  BY <1>1 DEF JobOf
<1>4. ASSUME NEW i \in Jobs, Alive(i) \/ Unsent(i) => Alive(i)' \/ Unsent(i)', Within(i)
      PROVE  Within(i)'
  BY <1>1, <1>3, <1>4 DEF Within, Ended
<1>5. CASE RelayLists(r) \/ RelayStops(r)
  <2>1. /\ UNCHANGED <<outbox, bull>>
        /\ \A q \in Relays, i \in Jobs :
             \/ relay[q][i]' \in {relay[q][i], "idle"}
             \/ relay[q][i]' = "listed" /\ outbox[i] = "pending"
    BY <1>5 DEF RelayLists, RelayStops, IInv, TypeOK
  <2>2. Fresh'
    BY <1>1, <2>1 DEF ReachInv, Fresh, Ended
  <2>3. \A i \in Jobs : Alive(i) \/ Unsent(i) => Alive(i)' \/ Unsent(i)'
    BY <2>1 DEF Alive, Unsent
  <2>4. Live'
    BY <1>1, <1>4, <2>3 DEF ReachInv, Live
  <2> QED
    BY <1>2, <2>2, <2>4 DEF ReachInv
<1>6. ASSUME NEW j \in Jobs, RelayEnqueues(r, j) PROVE ReachInv'
  <2>1. /\ relay[r][j] = "listed" /\ outbox' = outbox
        /\ bull[j]' = IF bull[j] = "absent" THEN "waiting" ELSE bull[j]
        /\ \A i \in Jobs : i # j => bull[i]' = bull[i]
        /\ \A q \in Relays, i \in Jobs : i # j => relay[q][i]' = relay[q][i]
    BY <1>6 DEF RelayEnqueues, IInv, TypeOK
  <2>2. Fresh'
    BY <1>1, <2>1 DEF ReachInv, Fresh, Ended
  <2>3. \A i \in Jobs : Alive(i) \/ Unsent(i) => Alive(i)' \/ Unsent(i)'
    BY <2>1 DEF Alive, Unsent
  <2>4. Live'
    BY <1>1, <1>4, <2>3 DEF ReachInv, Live
  <2> QED
    BY <1>2, <2>2, <2>4 DEF ReachInv
<1>7. ASSUME NEW j \in Jobs, RelayMarks(r, j) PROVE ReachInv'
  <2>1. /\ relay[r][j] = "sent" /\ bull' = bull
        /\ \A i \in Jobs : i # j => outbox[i]' = outbox[i]
        /\ \A q \in Relays, i \in Jobs : relay[q][i]' \in {relay[q][i], "idle"}
    BY <1>7 DEF RelayMarks, IInv, TypeOK
  <2>2. Fresh'
    BY <1>1, <2>1 DEF ReachInv, Fresh, Ended
  <2>3. \A i \in Jobs : Alive(i) \/ Unsent(i) => Alive(i)' \/ Unsent(i)'
    BY <2>1 DEF Alive, Unsent
  <2>4. Live'
    BY <1>1, <1>4, <2>3 DEF ReachInv, Live
  <2> QED
    BY <1>2, <2>2, <2>4 DEF ReachInv
<1> QED
  BY <1>5, <1>6, <1>7 DEF RelayStep

(* A user asks to cancel a job that has a row.                             *)
LEMMA CancelReach ==
  ASSUME IInv, ReachInv, SpentTyped', spent.faults' = 0 => spent.faults = 0,
         NEW j \in Jobs, CancelJob(j)
  PROVE  ReachInv'
<1>1. /\ Cancel(j) \in Fibers /\ row[j] \in Active /\ Ended(Cancel(j))
      /\ fiber[Cancel(j)]' = Begin("cancel", "find")
      /\ \A g \in Fibers : g # Cancel(j) => fiber[g]' = fiber[g]
      /\ UNCHANGED <<row, outbox, relay, bull, worker>>
  BY DEF CancelJob, IInv, TypeOK, Fibers, Cancel
<1>2. /\ \A i \in Jobs : i # j => Cancel(i) # Cancel(j) /\ Cancel(i) \in Fibers
      /\ \A w \in Workers : Store(w) # Cancel(j) /\ Store(w) \in Fibers
  BY FiberNames DEF Cancel, Fibers
<1>3. CancelsNamed'
  BY <1>1, <1>2 DEF ReachInv, CancelsNamed, Ended, Begin
<1>4. \A f \in Fibers : JobOf(f)' = JobOf(f)
  BY <1>1 DEF JobOf
<1>5. Fresh'
  <2>1. \A i \in Jobs : row[i] = "none" => i # j
    BY <1>1 DEF Active, Lifecycle!Active
  <2>2. \A i \in Jobs : i # j => fiber[Cancel(i)]' = fiber[Cancel(i)]
    BY <1>1, <1>2
  <2> QED
    BY <1>1, <2>1, <2>2 DEF ReachInv, Fresh, Ended
<1>6. \A i \in Jobs : Within(i) => Within(i)'
  BY <1>1, <1>2, <1>4 DEF Within, Alive, Unsent, Ended, Begin
<1>7. Live'
  BY <1>1, <1>6 DEF ReachInv, Live
<1> QED
  BY <1>3, <1>5, <1>7 DEF ReachInv

(* A step of one fiber.  A cancel is at the queue only when the row is no  *)
(* longer queued, and a claim ends only when it has found it so.           *)
LEMMA FiberReach ==
  ASSUME IInv, ReachInv, SpentTyped', spent.faults' = 0 => spent.faults = 0,
         NEW f \in Fibers, NEW j \in Jobs, j = JobOf(f), ~Ended(f),
         UNCHANGED <<outbox, relay, worker>>,
         \A g \in Fibers : g # f => fiber[g]' = fiber[g],
         Ended(f)' \/ fiber[f].op' = fiber[f].op,
         \A i \in Jobs : i # j => row[i]' = row[i] /\ bull[i]' = bull[i],
         row[j]' \in {row[j], "running", "done", "failed", "cancelled"},
         spent.faults' = 0 /\ row[j]' = "queued" =>
           /\ bull[j]' = bull[j]
           /\ fiber[f].at' # "remove"
           /\ fiber[f].op = "claim" => ~Ended(f)'
  PROVE  ReachInv'
<1>1. row[j] # "none" /\ row[j]' # "none"
  BY FiberHasRow DEF ReachInv
<1>2. \A g \in Fibers : JobOf(g)' = JobOf(g)
  BY DEF JobOf
<1>3. \A i \in Jobs : Cancel(i) \in Fibers
  BY DEF Cancel, Fibers
<1>4. CancelsNamed'
  BY <1>3 DEF ReachInv, CancelsNamed, Ended
<1>5. Fresh'
  <2> SUFFICES ASSUME NEW i \in Jobs, row[i]' = "none"
               PROVE  /\ outbox[i] = "none" /\ bull[i]' = "absent" /\ Ended(Cancel(i))'
                      /\ \A r \in Relays : relay[r][i] = "idle"
                      /\ \A w \in Workers : worker[w].job # i
    BY DEF Fresh
  <2>1. i # j /\ row[i] = "none" /\ bull[i]' = bull[i]
    BY <1>1
  <2>2. Ended(Cancel(i))
    BY <2>1 DEF ReachInv, Fresh
  <2>3. Ended(Cancel(i))'
    BY <1>3, <2>2 DEF Ended
  <2> QED
    BY <2>1, <2>3 DEF ReachInv, Fresh
<1>6. ASSUME NEW i \in Jobs, spent.faults' = 0, row[i]' = "queued" PROVE Within(i)'
  <2>1. row[i] = "queued" /\ bull[i]' = bull[i]
    BY <1>6
  <2>2. Within(i)
    BY <1>6, <2>1 DEF ReachInv, Live
  <2>3. Alive(i)' \/ Unsent(i)'
    BY <2>1, <2>2 DEF Within, Alive, Unsent
  <2>4. \A g \in Fibers : fiber[g].at' = "remove" => JobOf(g) # i
    <3> SUFFICES ASSUME NEW g \in Fibers, fiber[g].at' = "remove", JobOf(g) = i PROVE FALSE
      OBVIOUS
    <3>1. CASE g = f
      BY <1>6, <3>1
    <3>2. CASE g # f
      BY <2>2, <3>2 DEF Within
    <3> QED
      BY <3>1, <3>2
  <2>5. ASSUME NEW w \in Workers, worker[w].job = i, worker[w].at = "claiming"
        PROVE  ~Ended(Store(w))'
    <3>1. ~Ended(Store(w))
      BY <2>2, <2>5 DEF Within
    <3>2. fiber[Store(w)].op = "claim" /\ Store(w) \in Fibers /\ JobOf(Store(w)) = i
      BY <2>5, <3>1, FiberNames DEF IInv, SlotsInStep
    <3>3. CASE Store(w) = f
      BY <1>6, <3>2, <3>3
    <3>4. CASE Store(w) # f
      BY <3>1, <3>2, <3>4 DEF Ended
    <3> QED
      BY <3>3, <3>4
  <2> QED
    BY <1>2, <2>3, <2>4, <2>5 DEF Within
<1> QED
  BY <1>4, <1>5, <1>6 DEF ReachInv, Live

\* What a fiber does to the reach of a job.
LEMMA FibersReach ==
  ASSUME IInv, ReachInv, SpentTyped', spent.faults' = 0 => spent.faults = 0,
         NEW f \in Fibers, FiberStep(f) \/ StatementFails(f) \/ RemoveFails(f)
  PROVE  ReachInv'
<1>1. ~Ended(f) /\ UNCHANGED <<outbox, relay, worker>>
  BY DEF FiberStep, Find, Lookup, Update, RemoveFromQueue, Publish, StatementFails, RemoveFails, Ended
<1>2. PICK j \in Jobs : j = JobOf(f) /\ row[j] # "none" /\ row[j] \in Lifecycle!Statuses
  BY <1>1, FiberHasRow DEF ReachInv, IInv, TypeOK
<1>3. fiber[f].op \in {"claim", "progress", "complete", "fail", "cancel"}
  BY <1>1 DEF IInv, FibersNamed, TypeOK
<1>4. spent.faults \in Nat
  BY DEF ReachInv, SpentTyped
<1>5. CASE Find(f)
  <2>1. /\ fiber[f].op' = fiber[f].op /\ fiber[f].at' \in {"ended", "lookup"}
        /\ fiber[f].at' = "ended" => fiber[f].op = "claim" /\ row[j] # "queued"
        /\ \A g \in Fibers : g # f => fiber[g]' = fiber[g]
        /\ UNCHANGED <<row, bull>>
    BY <1>2, <1>5 DEF Find, IInv, TypeOK
  <2> QED
    BY <1>1, <1>2, <2>1, FiberReach DEF Ended
<1>6. CASE Lookup(f)
  <2> DEFINE x == IF MayWrite(fiber[f].op, row[j]) THEN "update" ELSE AfterWrite(fiber[f].op)
  <2>1. fiber' = [fiber EXCEPT ![f].at = x] /\ UNCHANGED <<row, bull>>
    BY <1>2, <1>6 DEF Lookup, Step
  <2>2. row[j] = "queued" => x = "update"
    BY <1>3 DEF MayWrite, Active, Terminal, Lifecycle!Active, Lifecycle!Terminal
  <2> HIDE DEF x
  <2>3. /\ fiber[f].op' = fiber[f].op /\ fiber[f].at' = x
        /\ \A g \in Fibers : g # f => fiber[g]' = fiber[g]
    BY <2>1, FiberSteps DEF IInv
  <2> QED
    BY <1>1, <1>2, <2>1, <2>2, <2>3, FiberReach DEF Ended
<1>7. CASE Update(f)
  <2> DEFINE x == AfterWrite(fiber[f].op)
             status == OutcomeOf[fiber[f].op]
  <2>1. /\ fiber' = [fiber EXCEPT ![f].at = x] /\ bull' = bull
        /\ row' = [row EXCEPT ![j] = status]
    BY <1>2, <1>7 DEF Update, Step
  <2>2. status \in {"running", "done", "failed", "cancelled"}
    BY <1>3 DEF OutcomeOf
  <2> HIDE DEF x, status
  <2>3. /\ fiber[f].op' = fiber[f].op /\ fiber[f].at' = x
        /\ \A g \in Fibers : g # f => fiber[g]' = fiber[g]
    BY <2>1, FiberSteps DEF IInv
  <2>4. row[j]' = status /\ \A i \in Jobs : i # j => row[i]' = row[i]
    BY <1>2, <2>1 DEF IInv, TypeOK
  <2> QED
    BY <1>1, <1>2, <2>1, <2>2, <2>3, <2>4, FiberReach
<1>8. CASE RemoveFromQueue(f) \/ RemoveFails(f)
  <2>1. /\ fiber' = [fiber EXCEPT ![f].at = "publish"] /\ fiber[f].at = "remove" /\ row' = row
        /\ \A i \in Jobs : i # j => bull[i]' = bull[i]
    BY <1>2, <1>8 DEF RemoveFromQueue, RemoveFails, Step, IInv, TypeOK
  <2>2. /\ fiber[f].op' = fiber[f].op
        /\ \A g \in Fibers : g # f => fiber[g]' = fiber[g]
    BY <2>1, FiberSteps DEF IInv
  <2>3. spent.faults' = 0 => row[j]' # "queued"
    BY <1>2, <2>1 DEF ReachInv, Live, Within
  <2> QED
    BY <1>1, <1>2, <2>1, <2>2, <2>3, FiberReach
<1>9. CASE Publish(f)
  <2>1. fiber' = [fiber EXCEPT ![f].at = "ended"] /\ fiber[f].at = "publish" /\ UNCHANGED <<row, bull>>
    BY <1>9 DEF Publish, Step
  <2>2. /\ fiber[f].op' = fiber[f].op /\ fiber[f].at' = "ended"
        /\ \A g \in Fibers : g # f => fiber[g]' = fiber[g]
    BY <2>1, FiberSteps DEF IInv
  <2>3. fiber[f].op # "claim"
    BY <2>1 DEF IInv, FibersNamed
  <2> QED
    BY <1>1, <1>2, <2>1, <2>2, <2>3, FiberReach
<1>10. CASE StatementFails(f)
  <2>1. /\ fiber' = [fiber EXCEPT ![f] = NoFiber] /\ UNCHANGED <<row, bull>>
        /\ spent.faults' # 0
    BY <1>4, <1>10 DEF StatementFails, Spend, ReachInv, SpentTyped
  <2>2. Ended(f)' /\ \A g \in Fibers : g # f => fiber[g]' = fiber[g]
    BY <2>1 DEF Ended, NoFiber, IInv, TypeOK
  <2> QED
    BY <1>1, <1>2, <2>1, <2>2, FiberReach
<1> QED
  BY <1>5, <1>6, <1>7, <1>8, <1>9, <1>10 DEF FiberStep

(* A delivery: the claim that begins has not ended.                        *)
LEMMA DeliverReach ==
  ASSUME IInv, ReachInv, SpentTyped', spent.faults' = 0 => spent.faults = 0,
         NEW w \in Workers, NEW j \in Jobs, Deliver(w, j)
  PROVE  ReachInv'
<1>1. /\ worker[w].at = "idle" /\ bull[j] = "waiting" /\ bull[j]' = "active"
      /\ \A i \in Jobs : i # j => bull[i]' = bull[i]
      /\ worker[w].at' = "claiming" /\ worker[w].job' = j
      /\ \A v \in Workers : v # w => worker[v]' = worker[v]
      /\ UNCHANGED <<row, outbox, relay>>
  BY DEF Deliver, IInv, TypeOK
<1>2. /\ fiber[Store(w)]' = Begin("claim", "find")
      /\ \A g \in Fibers : g # Store(w) => fiber[g]' = fiber[g]
  BY FiberNames DEF Deliver, IInv, TypeOK
<1>3. \A i \in Jobs : Cancel(i) \in Fibers /\ Cancel(i) # Store(w)
  BY FiberNames DEF Cancel, Fibers
<1>4. CancelsNamed'
  BY <1>2, <1>3 DEF ReachInv, CancelsNamed, Ended
<1>5. row[j] # "none"
  BY <1>1 DEF ReachInv, Fresh
<1>6. Fresh'
  <2> SUFFICES ASSUME NEW i \in Jobs, row[i] = "none"
               PROVE  /\ outbox[i] = "none" /\ bull[i]' = "absent" /\ Ended(Cancel(i))'
                      /\ \A r \in Relays : relay[r][i] = "idle"
                      /\ \A v \in Workers : worker[v].job' # i
    BY <1>1 DEF Fresh
  <2>1. i # j
    BY <1>5
  <2>2. /\ outbox[i] = "none" /\ bull[i] = "absent" /\ Ended(Cancel(i))
        /\ \A r \in Relays : relay[r][i] = "idle"
        /\ \A v \in Workers : worker[v].job # i
    BY DEF ReachInv, Fresh
  <2> QED
    BY <1>1, <1>2, <1>3, <2>1, <2>2 DEF Ended
<1>7. ASSUME NEW i \in Jobs, Within(i) PROVE Within(i)'
  <2>1. Alive(i)' \/ Unsent(i)'
    BY <1>1, <1>7 DEF Within, Alive, Unsent
  <2>2. ASSUME NEW f \in Fibers, fiber[f].at' = "remove" PROVE JobOf(f)' # i
    <3>1. f # Store(w) /\ fiber[f].at = "remove" /\ JobOf(f) # i
      BY <1>2, <1>7, <2>2 DEF Begin, Within
    <3>2. f # Audit(w)
      BY <1>1, <3>1 DEF IInv, SlotsInStep, Ended
    <3>3. JobOf(f)' = JobOf(f)
      BY <1>1, <3>1, <3>2, FiberKinds, FiberNames DEF JobOf, Store, Audit, Cancel
    <3> QED
      BY <3>1, <3>3
  <2>3. ASSUME NEW v \in Workers, worker[v].job' = i, worker[v].at' = "claiming"
        PROVE  ~Ended(Store(v))'
    <3>1. CASE v = w
      BY <1>2, <3>1 DEF Ended, Begin
    <3>2. CASE v # w
      BY <1>1, <1>2, <1>7, <2>3, <3>2, FiberNames DEF Within, Ended
    <3> QED
      BY <3>1, <3>2
  <2> QED
    BY <2>1, <2>2, <2>3 DEF Within
<1>8. Live'
  BY <1>1, <1>7 DEF ReachInv, Live
<1> QED
  BY <1>4, <1>6, <1>8 DEF ReachInv

(* A slot that goes on or is freed.  One that is freed and leaves the      *)
(* entry finished had a row that was claimed or had been settled.          *)
LEMMA SlotReach ==
  ASSUME IInv, ReachInv, SpentTyped', spent.faults' = 0 => spent.faults = 0,
         NEW w \in Workers, UNCHANGED <<row, outbox, relay>>,
         NEW j \in Jobs, j = worker[w].job, worker[w].job' \in {j, NoJob}, worker[w].at' # "claiming",
         \A v \in Workers : v # w => worker[v]' = worker[v],
         \A f \in Fibers : \/ fiber[f]' = fiber[f] /\ JobOf(f)' = JobOf(f)
                           \/ f \in {Store(w), Audit(w)} /\ fiber[f].at' # "remove",
         \A i \in Jobs : i # j => bull[i]' = bull[i],
         spent.faults' = 0 /\ row[j] = "queued" => Alive(j)' \/ bull' = bull
  PROVE  ReachInv'
<1>1. \A i \in Jobs : /\ Cancel(i) \in Fibers /\ Cancel(i) \notin {Store(w), Audit(w)}
                      /\ fiber[Cancel(i)]' = fiber[Cancel(i)]
  <2>1. \A i \in Jobs : Cancel(i) \in Fibers /\ Cancel(i) \notin {Store(w), Audit(w)}
    BY FiberNames DEF Cancel, Fibers
  <2> QED
    BY <2>1
<1>2. CancelsNamed'
  BY <1>1 DEF ReachInv, CancelsNamed, Ended
<1>3. Fresh'
  <2> SUFFICES ASSUME NEW i \in Jobs, row[i] = "none"
               PROVE  /\ outbox[i] = "none" /\ bull[i]' = "absent" /\ Ended(Cancel(i))'
                      /\ \A r \in Relays : relay[r][i] = "idle"
                      /\ \A v \in Workers : worker[v].job' # i
    BY DEF Fresh
  <2>1. /\ outbox[i] = "none" /\ bull[i] = "absent" /\ Ended(Cancel(i))
        /\ \A r \in Relays : relay[r][i] = "idle"
        /\ \A v \in Workers : worker[v].job # i
    BY DEF ReachInv, Fresh
  <2> QED
    BY <1>1, <2>1, ExecutionAssumption DEF Ended
<1>4. ASSUME NEW i \in Jobs, Within(i), spent.faults' = 0, row[i] = "queued" PROVE Within(i)'
  <2>1. Alive(i)' \/ Unsent(i)'
    <3>1. CASE i = j
      <4>1. CASE bull' = bull
        BY <1>4, <4>1 DEF Within, Alive, Unsent
      <4>2. CASE bull' # bull
        BY <1>4, <3>1, <4>2 DEF Alive
      <4> QED
        BY <4>1, <4>2
    <3>2. CASE i # j
      BY <1>4, <3>2 DEF Within, Alive, Unsent
    <3> QED
      BY <3>1, <3>2
  <2>2. \A f \in Fibers : fiber[f].at' = "remove" => JobOf(f)' # i
    BY <1>4 DEF Within
  <2>3. ASSUME NEW v \in Workers, worker[v].job' = i, worker[v].at' = "claiming"
        PROVE  ~Ended(Store(v))'
    <3>1. v # w /\ worker[v].job = i /\ worker[v].at = "claiming"
      BY <2>3
    <3>2. Store(v) \in Fibers /\ Store(v) \notin {Store(w), Audit(w)}
      BY <3>1, FiberNames
    <3> QED
      BY <1>4, <3>1, <3>2 DEF Within, Ended
  <2> QED
    BY <2>1, <2>2, <2>3 DEF Within
<1>5. Live'
  BY <1>4 DEF ReachInv, Live
<1> QED
  BY <1>2, <1>3, <1>5 DEF ReachInv

\* What a slot does to the reach of a job.
LEMMA SlotsReach ==
  ASSUME IInv, ReachInv, SpentTyped', spent.faults' = 0 => spent.faults = 0, NEW w \in Workers,
         WorkerStep(w) \/ LoadFails(w) \/ WorkerStops(w) \/ LockExpires(w)
  PROVE  ReachInv'
<1>1. worker[w].at # "idle" /\ UNCHANGED <<row, outbox, relay>>
  BY DEF WorkerStep, Claimed, NotClaimed, BeginPipeline, PublishJobProgress, ProgressPublished,
         CompleteQueuedJob, FailQueuedJob, ProcessorReturns, LoadFails, WorkerStops, LockExpires
<1>2. PICK j \in Jobs : j = worker[w].job
  BY <1>1 DEF IInv, SlotsInStep
<1>3. CASE Claimed(w) \/ BeginPipeline(w) \/ ProgressPublished(w) \/ LockExpires(w)
  <2>1. UNCHANGED <<bull, fiber>>
    BY <1>3 DEF Claimed, BeginPipeline, ProgressPublished, LockExpires
  <2>2. /\ worker[w].job' = j /\ worker[w].at' # "claiming"
        /\ \A v \in Workers : v # w => worker[v]' = worker[v]
    BY <1>2, <1>3 DEF Claimed, BeginPipeline, ProgressPublished, LockExpires, IInv, TypeOK
  <2>3. \A f \in Fibers : JobOf(f)' = JobOf(f)
    BY <1>2, <2>2, FiberKinds, FiberNames DEF JobOf, Store, Audit, Cancel
  <2> QED
    BY <1>1, <1>2, <2>1, <2>2, <2>3, SlotReach
<1>4. CASE PublishJobProgress(w) \/ CompleteQueuedJob(w) \/ FailQueuedJob(w)
  <2>1. /\ bull' = bull
        /\ \E op \in {"progress", "complete", "fail"}, at \in {"find", "lookup"} :
             ReportBoth(w, op, at)
    BY <1>4 DEF PublishJobProgress, CompleteQueuedJob, FailQueuedJob
  <2>2. /\ worker[w].job' = j /\ worker[w].at' # "claiming"
        /\ \A v \in Workers : v # w => worker[v]' = worker[v]
    BY <1>2, <1>4 DEF PublishJobProgress, CompleteQueuedJob, FailQueuedJob, IInv, TypeOK
  <2>3. \A f \in Fibers : JobOf(f)' = JobOf(f)
    BY <1>2, <2>2, FiberKinds, FiberNames DEF JobOf, Store, Audit, Cancel
  <2>4. \A f \in Fibers : \/ fiber[f]' = fiber[f]
                          \/ f \in {Store(w), Audit(w)} /\ fiber[f].at' # "remove"
    <3>1. PICK op \in {"progress", "complete", "fail"}, at \in {"find", "lookup"} :
            fiber' = [fiber EXCEPT ![Store(w)] = Begin(op, at), ![Audit(w)] = Begin(op, "lookup")]
      BY <2>1 DEF ReportBoth
    <3>2. Begin(op, at).at # "remove" /\ Begin(op, "lookup").at # "remove"
      BY DEF Begin
    <3>3. /\ fiber[Store(w)]' = Begin(op, at) /\ fiber[Audit(w)]' = Begin(op, "lookup")
          /\ \A f \in Fibers : f \notin {Store(w), Audit(w)} => fiber[f]' = fiber[f]
      BY <3>1, FiberNames DEF IInv, TypeOK
    <3> QED
      BY <3>2, <3>3
  <2> QED
    BY <1>1, <1>2, <2>1, <2>2, <2>3, <2>4, SlotReach
<1>5. CASE NotClaimed(w) \/ LoadFails(w) \/ ProcessorReturns(w) \/ WorkerStops(w)
  <2>1. /\ worker[w]' = Idle
        /\ \A v \in Workers : v # w => worker[v]' = worker[v]
    BY <1>5 DEF NotClaimed, LoadFails, ProcessorReturns, WorkerStops, IInv, TypeOK
  <2>2. worker[w].job' = NoJob /\ worker[w].at' # "claiming"
    BY <2>1 DEF Idle
  <2>3. \A f \in Fibers : \/ fiber[f]' = fiber[f] /\ JobOf(f)' = JobOf(f)
                          \/ f \in {Store(w), Audit(w)} /\ fiber[f].at' # "remove"
    <3>1. \A f \in Fibers : f \notin {Store(w), Audit(w)} => JobOf(f)' = JobOf(f)
      BY <2>1, FiberKinds, FiberNames DEF JobOf, Store, Audit, Cancel
    <3>2. \A f \in Fibers : f \notin {Store(w), Audit(w)} => fiber[f]' = fiber[f]
      BY <1>5 DEF NotClaimed, LoadFails, ProcessorReturns, WorkerStops, IInv, TypeOK
    <3>3. fiber[Store(w)].at' # "remove" /\ fiber[Audit(w)].at' # "remove"
      <4>1. CASE WorkerStops(w)
        BY <4>1, FiberNames DEF WorkerStops, NoFiber, IInv, TypeOK
      <4>2. CASE NotClaimed(w) \/ LoadFails(w) \/ ProcessorReturns(w)
        BY <4>2 DEF NotClaimed, LoadFails, ProcessorReturns, IInv, SlotsInStep, Ended
      <4> QED
        BY <1>5, <4>1, <4>2
    <3> QED
      BY <3>1, <3>2, <3>3
  <2>4. /\ \A i \in Jobs : i # j => bull[i]' = bull[i]
        /\ spent.faults' = 0 /\ row[j] = "queued" => Alive(j)' \/ bull' = bull
    <3>1. CASE LoadFails(w)
      BY <1>2, <3>1 DEF LoadFails, Alive, IInv, TypeOK
    <3>2. CASE WorkerStops(w)
      BY <3>2 DEF WorkerStops
    <3>3. CASE NotClaimed(w)
      <4>1. /\ worker[w].at = "claiming" /\ Ended(Store(w))
            /\ \A i \in Jobs : i # j => bull[i]' = bull[i]
        BY <1>2, <3>3 DEF NotClaimed, Returned, IInv, TypeOK
      <4> QED
        BY <1>2, <4>1 DEF ReachInv, Live, Within
    <3>4. CASE ProcessorReturns(w)
      <4>1. /\ PastClaim(w, j)
            /\ \A i \in Jobs : i # j => bull[i]' = bull[i]
        BY <1>2, <3>4 DEF ProcessorReturns, PastClaim, Returned, IInv, TypeOK
      <4> QED
        BY <4>1 DEF IInv, ClaimsAdmitOne, Unclaimed
    <3> QED
      BY <1>5, <3>1, <3>2, <3>3, <3>4
  <2> QED
    BY <1>1, <1>2, <2>1, <2>2, <2>3, <2>4, SlotReach
<1> QED
  BY <1>3, <1>4, <1>5 DEF WorkerStep

\* While no statement fails, a queued row is within reach, in every state.
THEOREM ReachInductive == Spec => []ReachInv
<1>1. Init => ReachInv
  <2> SUFFICES ASSUME Init PROVE ReachInv
    OBVIOUS
  <2>1. /\ \A w \in Workers : worker[w] = Idle
        /\ \A f \in Fibers : fiber[f] = NoFiber
        /\ \A j \in Jobs : row[j] = "none" /\ outbox[j] = "none" /\ bull[j] = "absent"
        /\ \A r \in Relays, j \in Jobs : relay[r][j] = "idle"
        /\ \A j \in Jobs : Cancel(j) \in Fibers
    BY DEF Init, Fibers, Cancel
  <2>2. SpentTyped
    BY DEF Init, SpentTyped
  <2>3. CancelsNamed /\ Fresh
    BY <2>1, ExecutionAssumption DEF CancelsNamed, Fresh, Ended, Idle, NoFiber
  <2>4. Live
    BY <2>1 DEF Live
  <2> QED
    BY <2>2, <2>3, <2>4 DEF ReachInv
<1>2. IInv /\ ReachInv /\ [Next]_vars => ReachInv'
  <2> SUFFICES ASSUME IInv, ReachInv, [Next]_vars PROVE ReachInv'
    OBVIOUS
  <2>0. SpentTyped' /\ (spent.faults' = 0 => spent.faults = 0)
    BY SpentMoves DEF ReachInv
  <2>1. CASE \E j \in Jobs : EnqueueAtomic(j) \/ RequeueStalled(j) \/ EvictFinished(j) \/ CancelJob(j)
    BY <2>0, <2>1, QueueReach, CancelReach
  <2>2. CASE \E r \in Relays : RelayStep(r) \/ RelayStops(r)
    BY <2>0, <2>2, RelayReach
  <2>3. CASE \E w \in Workers, j \in Jobs : Deliver(w, j)
    BY <2>0, <2>3, DeliverReach
  <2>4. CASE \E w \in Workers : WorkerStep(w) \/ LoadFails(w) \/ WorkerStops(w) \/ LockExpires(w)
    BY <2>0, <2>4, SlotsReach
  <2>5. CASE \E f \in Fibers : FiberStep(f) \/ StatementFails(f) \/ RemoveFails(f)
    BY <2>0, <2>5, FibersReach
  <2>6. CASE UNCHANGED vars
    BY <2>6 DEF vars, ReachInv, SpentTyped, CancelsNamed, Fresh, Live, Within, Alive, Unsent,
                Ended, JobOf
  <2> QED
    BY <2>1, <2>2, <2>3, <2>4, <2>5, <2>6 DEF Next
<1> QED
  BY <1>1, <1>2, Inductive, PTL DEF Spec

(* Until it is claimed, an accepted job has an unpublished event or a live *)
(* queue entry: no relay stop, no stall and no cancel of another delivery  *)
(* loses it, unless a statement fails.                                     *)
THEOREM AcceptedJobIsReachable == Spec => []QueuedIsReachable
<1>1. ReachInv => QueuedIsReachable
  BY DEF ReachInv, Live, Within, Alive, Unsent, QueuedIsReachable
<1> QED
  BY <1>1, ReachInductive, PTL

-----------------------------------------------------------------------------
(* A job is out of the slots' hands when it is cancelled and a slot that   *)
(* has it has not found it queued.                                         *)
OutOfHands(j) ==
  /\ row[j] = "cancelled"
  /\ \A w \in Workers : worker[w].job = j =>
       worker[w].at = "claiming" /\ fiber[Store(w)].at \in {"find", "ended"}
         /\ fiber[Store(w)].before # "queued"

\* No step puts a job that is out of their hands back into them.
LEMMA OutOfHandsForGood ==
  ASSUME IInv, CancelsNamed, NEW j \in Jobs, OutOfHands(j), [Next]_vars
  PROVE  OutOfHands(j)'
<1> DEFINE Same == \A w \in Workers : worker[w]' = worker[w] \/ worker[w].job' # j
<1> DEFINE Kept == \A w \in Workers : worker[w].job = j => fiber[Store(w)]' = fiber[Store(w)]
<1>0. ASSUME row[j]' = row[j], Same, Kept PROVE OutOfHands(j)'
  BY <1>0 DEF OutOfHands
<1> HIDE DEF Same, Kept
<1>1. CASE \E i \in Jobs : EnqueueAtomic(i) \/ RequeueStalled(i) \/ EvictFinished(i)
  BY <1>0, <1>1 DEF EnqueueAtomic, RequeueStalled, EvictFinished, OutOfHands, IInv, TypeOK, Same, Kept
<1>2. CASE \E i \in Jobs : CancelJob(i)
  <2>1. PICK i \in Jobs : CancelJob(i)
    BY <1>2
  <2>2. \A w \in Workers : fiber[Store(w)]' = fiber[Store(w)]
    BY <2>1, FiberNames DEF CancelJob, IInv, TypeOK
  <2> QED
    BY <1>0, <2>1, <2>2 DEF CancelJob, Same, Kept
<1>3. CASE \E r \in Relays : RelayStep(r) \/ RelayStops(r)
  BY <1>0, <1>3 DEF RelayStep, RelayLists, RelayEnqueues, RelayMarks, RelayStops, Same, Kept
<1>4. ASSUME NEW w \in Workers, NEW i \in Jobs, Deliver(w, i) PROVE OutOfHands(j)'
  <2>1. /\ row' = row /\ worker[w]'.at = "claiming"
        /\ \A v \in Workers : v # w => worker[v]' = worker[v]
    BY <1>4 DEF Deliver, IInv, TypeOK
  <2>2. /\ fiber[Store(w)]' = Begin("claim", "find")
        /\ \A v \in Workers : v # w => fiber[Store(v)]' = fiber[Store(v)]
    BY <1>4, FiberNames DEF Deliver, IInv, TypeOK
  <2> QED
    BY <2>1, <2>2 DEF OutOfHands, Begin
<1>5. ASSUME NEW w \in Workers, WorkerStep(w) \/ LoadFails(w) \/ WorkerStops(w) \/ LockExpires(w)
      PROVE  OutOfHands(j)'
  <2>1. CASE NotClaimed(w) \/ LoadFails(w) \/ ProcessorReturns(w) \/ WorkerStops(w)
    <3>1. /\ row' = row /\ worker[w]' = Idle
          /\ \A v \in Workers : v # w => worker[v]' = worker[v]
      BY <2>1 DEF NotClaimed, LoadFails, ProcessorReturns, WorkerStops, IInv, TypeOK
    <3>2. \A v \in Workers : v # w => fiber[Store(v)]' = fiber[Store(v)]
      BY <2>1, FiberNames DEF NotClaimed, LoadFails, ProcessorReturns, WorkerStops, IInv, TypeOK
    <3> QED
      BY <3>1, <3>2, ExecutionAssumption DEF OutOfHands, Idle
  <2>2. CASE ~(NotClaimed(w) \/ LoadFails(w) \/ ProcessorReturns(w) \/ WorkerStops(w))
    <3>1. worker[w].job # j
      BY <1>5, <2>2 DEF OutOfHands, WorkerStep, Claimed, BeginPipeline, PublishJobProgress,
           ProgressPublished, CompleteQueuedJob, FailQueuedJob, LockExpires
    <3>2. /\ row' = row /\ worker[w].job' = worker[w].job
          /\ \A v \in Workers : v # w => worker[v]' = worker[v]
      BY <1>5, <2>2 DEF WorkerStep, Claimed, BeginPipeline, PublishJobProgress,
           ProgressPublished, CompleteQueuedJob, FailQueuedJob, LockExpires, IInv, TypeOK
    <3>3. \A v \in Workers : v # w => fiber[Store(v)]' = fiber[Store(v)]
      <4>1. \A v \in Workers : v # w => Store(v) \in Fibers /\ Store(v) \notin {Store(w), Audit(w)}
        BY FiberNames
      <4> QED
        BY <1>5, <2>2, <4>1 DEF WorkerStep, Claimed, BeginPipeline, PublishJobProgress, ReportBoth,
             ProgressPublished, CompleteQueuedJob, FailQueuedJob, LockExpires, IInv, TypeOK
    <3> QED
      BY <1>0, <3>1, <3>2, <3>3 DEF Same, Kept
  <2> QED
    BY <2>1, <2>2
<1>6. ASSUME NEW f \in Fibers, FiberStep(f) \/ StatementFails(f) \/ RemoveFails(f)
      PROVE  OutOfHands(j)'
  <2>1. /\ ~Ended(f) /\ worker' = worker
        /\ \A g \in Fibers : g # f => fiber[g]' = fiber[g]
    BY <1>6 DEF FiberStep, Find, Lookup, Update, RemoveFromQueue, Publish, StatementFails,
                RemoveFails, Step, Ended, IInv, TypeOK
  <2>2. JobOf(f) \in Jobs
    BY <2>1, JobOfFiber
  <2>3. row[j]' = "cancelled"
    <3>1. CASE JobOf(f) # j \/ ~Update(f)
      BY <1>6, <2>2, <3>1 DEF FiberStep, Find, Lookup, Update, RemoveFromQueue, Publish,
           StatementFails, RemoveFails, OutOfHands, IInv, TypeOK
    <3>2. CASE JobOf(f) = j /\ Update(f)
      <4>1. \A w \in Workers : f # Store(w) /\ f # Audit(w)
        BY <2>1, <3>2, FiberNames DEF OutOfHands, Update, IInv, SlotsInStep
      <4>2. f = Cancel(j)
        BY <3>2, <4>1, FiberKinds
      <4>3. fiber[f].op = "cancel"
        BY <2>1, <4>2 DEF CancelsNamed
      <4> QED
        BY <2>2, <3>2, <4>3 DEF Update, OutcomeOf, IInv, TypeOK
    <3> QED
      BY <3>1, <3>2
  <2>4. ASSUME NEW w \in Workers, worker[w].job = j
        PROVE  fiber[Store(w)].at' \in {"find", "ended"} /\ fiber[Store(w)].before' # "queued"
    <3>1. CASE Store(w) # f
      BY <2>1, <2>4, <3>1, FiberNames DEF OutOfHands
    <3>2. CASE Store(w) = f
      <4>1. JobOf(f) = j /\ fiber[f].at = "find" /\ fiber[f].op = "claim"
        BY <2>1, <2>4, <3>2, FiberNames DEF OutOfHands, Ended, IInv, SlotsInStep
      <4>2. CASE Find(f)
        BY <3>2, <4>1, <4>2 DEF Find, OutOfHands, IInv, TypeOK
      <4>3. CASE StatementFails(f)
        BY <3>2, <4>3 DEF StatementFails, NoFiber, IInv, TypeOK
      <4> QED
        BY <1>6, <4>1, <4>2, <4>3 DEF FiberStep, Lookup, Update, RemoveFromQueue, Publish, RemoveFails
    <3> QED
      BY <3>1, <3>2
  <2> QED
    BY <2>1, <2>3, <2>4 DEF OutOfHands
<1>7. CASE UNCHANGED vars
  BY <1>0, <1>7 DEF vars, Same, Kept
<1> QED
  BY <1>1, <1>2, <1>3, <1>4, <1>5, <1>6, <1>7 DEF Next

(* A job cancelled while no slot has it stays cancelled, whatever delivery *)
(* of it comes after.                                                      *)
THEOREM UntouchedCancelStays == Spec => UntouchedCancelIsFinal
<1>1. ASSUME NEW j \in Jobs
      PROVE  Spec => []((row[j] = "cancelled" /\ \A w \in Workers : worker[w].job # j)
                          => [](row[j] = "cancelled"))
  <2>1. (row[j] = "cancelled" /\ \A w \in Workers : worker[w].job # j) => OutOfHands(j)
    BY DEF OutOfHands
  <2>2. OutOfHands(j) => row[j] = "cancelled"
    BY DEF OutOfHands
  <2>3. IInv /\ ReachInv /\ OutOfHands(j) /\ [Next]_vars => OutOfHands(j)'
    BY OutOfHandsForGood DEF ReachInv
  <2> QED
    BY <2>1, <2>2, <2>3, Inductive, ReachInductive, PTL DEF Spec
<1> QED
  BY <1>1 DEF UntouchedCancelIsFinal

-----------------------------------------------------------------------------
(* The split operations of the durable runtime implement JobLifecycle when *)
(* no user cancels: whatever statements fail, slots stop and entries are   *)
(* evicted, a row is written by the one delivery that was admitted, in the *)
(* order of the lifecycle, and only its own outcome is announced.          *)

Quiet == \A j \in Jobs : Ended(Cancel(j))

OneRun == \A j \in Jobs, v, w \in Workers : PastClaim(v, j) /\ PastClaim(w, j) => v = w

Outcomes == {"complete", "fail"}

(* The row of the job a slot was admitted to is where the slot left it.    *)
ClaimFollowed(w) ==
  worker[w].at = "claiming" =>
    /\ fiber[Store(w)].at \in {"lookup", "update"} => fiber[Store(w)].before = "queued"
    /\ fiber[Store(w)].before = "queued" =>
         row[worker[w].job] = IF Ended(Store(w)) THEN "running" ELSE "queued"

RunFollowed(w) ==
  worker[w].at \in {"loading", "generating", "reporting"} => row[worker[w].job] = "running"

ReportFollowed(w) ==
  worker[w].at = "reporting" =>
    \A f \in {Store(w), Audit(w)} : ~Ended(f) => fiber[f].op = "progress"

EndFollowed(w) ==
  worker[w].at = "finishing" =>
    /\ \A f \in {Store(w), Audit(w)} : ~Ended(f) =>
         /\ fiber[f].op \in Outcomes /\ fiber[f].at # "remove"
         /\ row[worker[w].job] \in {"running", OutcomeOf[fiber[f].op]}
         /\ fiber[f].at = "publish" => row[worker[w].job] = OutcomeOf[fiber[f].op]
    /\ ~Ended(Store(w)) /\ ~Ended(Audit(w)) => fiber[Store(w)].op = fiber[Audit(w)].op

RowFollowed(w) == ClaimFollowed(w) /\ RunFollowed(w) /\ ReportFollowed(w) /\ EndFollowed(w)

LInv == Quiet /\ OneRun /\ \A w \in Workers : RowFollowed(w)

-----------------------------------------------------------------------------
\* No slot has a job.
THEOREM InitLInv == Init => LInv
<1> SUFFICES ASSUME Init PROVE LInv
  OBVIOUS
<1>1. /\ \A w \in Workers : worker[w] = Idle
      /\ \A f \in Fibers : fiber[f] = NoFiber
  BY DEF Init
<1>2. Quiet
  BY <1>1 DEF Quiet, Ended, NoFiber, Fibers, Cancel
<1>3. OneRun /\ \A w \in Workers : RowFollowed(w)
  BY <1>1 DEF OneRun, PastClaim, Idle, RowFollowed, ClaimFollowed, RunFollowed, ReportFollowed,
              EndFollowed
<1> QED
  BY <1>2, <1>3 DEF LInv

(* A slot a step does not touch: its row is untouched too, or not its.     *)
LEMMA SlotUntouched ==
  ASSUME IInv, NEW w \in Workers, RowFollowed(w), worker[w]' = worker[w],
         fiber[Store(w)]' = fiber[Store(w)], fiber[Audit(w)]' = fiber[Audit(w)],
         \/ row[worker[w].job]' = row[worker[w].job]
         \/ ~Admitted(w, worker[w].job) /\ ~PastClaim(w, worker[w].job)
  PROVE  RowFollowed(w)'
<1>1. CASE row[worker[w].job]' = row[worker[w].job]
  BY <1>1 DEF RowFollowed, ClaimFollowed, RunFollowed, ReportFollowed, EndFollowed, Ended
<1>2. CASE ~Admitted(w, worker[w].job) /\ ~PastClaim(w, worker[w].job)
  BY <1>2 DEF RowFollowed, ClaimFollowed, RunFollowed, ReportFollowed, EndFollowed, Ended,
              Admitted, PastClaim
<1> QED
  BY <1>1, <1>2

(* A slot whose operation is under way was admitted to its job.            *)
LEMMA WriterIsAdmitted ==
  ASSUME IInv, LInv, NEW w \in Workers, NEW f \in {Store(w), Audit(w)}, ~Ended(f),
         fiber[f].at # "find"
  PROVE  /\ worker[w].job \in Jobs /\ JobOf(f) = worker[w].job
         /\ worker[w].at \in {"claiming", "reporting", "finishing"}
         /\ worker[w].at = "claiming" => f = Store(w) /\ fiber[f].op = "claim"
         /\ Admitted(w, worker[w].job) \/ PastClaim(w, worker[w].job)
<1>1. /\ worker[w].at \in {"claiming", "reporting", "finishing"}
      /\ worker[w].at = "claiming" => f = Store(w) /\ fiber[f].op = "claim"
      /\ worker[w].job \in Jobs
  BY DEF IInv, SlotsInStep, TypeOK
<1>2. worker[w].at = "claiming" => fiber[f].at \in {"lookup", "update"}
  BY <1>1, FiberNames DEF IInv, FibersNamed, TypeOK, Ended
<1>3. worker[w].at = "claiming" => fiber[Store(w)].before = "queued"
  BY <1>1, <1>2 DEF LInv, RowFollowed, ClaimFollowed
<1> QED
  BY <1>1, <1>3, FiberNames DEF Admitted, PastClaim

(* Beside it no other slot is admitted to the job.                         *)
LEMMA OnlyWriter ==
  ASSUME IInv, LInv, NEW w \in Workers, NEW v \in Workers, v # w,
         worker[w].job \in Jobs, worker[v].job = worker[w].job,
         Admitted(w, worker[w].job) \/ PastClaim(w, worker[w].job)
  PROVE  ~Admitted(v, worker[v].job) /\ ~PastClaim(v, worker[v].job)
<1> DEFINE j == worker[w].job
<1>1. ~(Admitted(w, j) /\ Admitted(v, j))
  BY DEF IInv, SlotsInStep, OneLock, Admitted
<1>2. ~(Admitted(w, j) /\ PastClaim(v, j)) /\ ~(PastClaim(w, j) /\ Admitted(v, j))
  BY DEF IInv, ClaimsAdmitOne
<1>3. ~(PastClaim(w, j) /\ PastClaim(v, j))
  BY DEF LInv, OneRun
<1> QED
  BY <1>1, <1>2, <1>3

-----------------------------------------------------------------------------
(* Fibers: one of a slot w moves.                                          *)
LEMMA WithoutCancel ==
  ASSUME LInv, NEW f \in Fibers, ~Ended(f)
  PROVE  \E w \in Workers : f \in {Store(w), Audit(w)}
BY FiberKinds DEF LInv, Quiet

\* One fiber moves on, and still fits its slot.
LEMMA FiberFollowed ==
  ASSUME IInv, LInv, NEW w \in Workers, NEW f \in {Store(w), Audit(w)},
         UNCHANGED worker,
         \A g \in Fibers : g # f => fiber[g]' = fiber[g],
         RowFollowed(w)',
         row' = row \/ (/\ Admitted(w, JobOf(f)) \/ PastClaim(w, JobOf(f))
                        /\ JobOf(f) \in Jobs
                        /\ \A j \in Jobs : j # JobOf(f) => row[j]' = row[j])
  PROVE  LInv'
<1>1. Quiet'
  <2>1. \A j \in Jobs : Cancel(j) \in Fibers /\ Cancel(j) # f
    BY FiberNames DEF Fibers, Cancel
  <2> QED
    BY <2>1 DEF LInv, Quiet, Ended
<1>2. OneRun'
  BY DEF LInv, OneRun, PastClaim
<1>3. ASSUME NEW v \in Workers, v # w
      PROVE  RowFollowed(v)'
  <2>1. fiber[Store(v)]' = fiber[Store(v)] /\ fiber[Audit(v)]' = fiber[Audit(v)]
    BY <1>3, FiberNames
  <2>2. CASE row' = row
    BY <2>1, <2>2, SlotUntouched DEF LInv
  <2>3. CASE row' # row
    <3>1. JobOf(f) = worker[w].job
      BY FiberNames
    <3>2. CASE worker[v].job = worker[w].job
      BY <1>3, <2>1, <2>3, <3>1, <3>2, OnlyWriter, SlotUntouched DEF LInv
    <3>3. CASE worker[v].job # worker[w].job /\ worker[v].job \in Jobs
      BY <2>1, <2>3, <3>1, <3>3, SlotUntouched DEF LInv
    <3>4. CASE worker[v].job \notin Jobs
      BY <2>1, <3>4, SlotUntouched DEF LInv, Admitted, PastClaim, IInv, SlotsInStep
    <3> QED
      BY <3>2, <3>3, <3>4
  <2> QED
    BY <2>2, <2>3
<1> QED
  BY <1>1, <1>2, <1>3 DEF LInv

\* A read changes nothing the lifecycle sees.
LEMMA FindFollowed ==
  ASSUME IInv, LInv, NEW f \in Fibers, Find(f)
  PROVE  LInv' /\ UNCHANGED <<row, announced>>
<1> DEFINE stops == fiber[f].op = "claim" /\ row[JobOf(f)] # "queued"
<1>1. ~Ended(f)
  BY DEF Find, Ended
<1>2. PICK w \in Workers : f \in {Store(w), Audit(w)}
  BY <1>1, WithoutCancel
<1>3. /\ fiber' = [fiber EXCEPT ![f] =
           [op |-> @.op, at |-> IF stops THEN "ended" ELSE "lookup", before |-> row[JobOf(f)]]]
      /\ UNCHANGED <<row, outbox, relay, bull, worker, announced, runs, spent>>
  BY DEF Find
<1>4. /\ fiber[f].op' = fiber[f].op /\ fiber[f].before' = row[JobOf(f)]
      /\ fiber[f].at' = IF stops THEN "ended" ELSE "lookup"
      /\ \A g \in Fibers : g # f => fiber[g]' = fiber[g]
  BY <1>3 DEF IInv, TypeOK
<1>5. JobOf(f) = worker[w].job
  BY <1>2, FiberNames
<1>6. worker[w].at = "claiming" => f = Store(w) /\ fiber[f].op = "claim"
  BY <1>1, <1>2 DEF IInv, SlotsInStep
<1>7. RowFollowed(w) /\ Store(w) \in Fibers /\ Audit(w) \in Fibers
  BY FiberNames DEF LInv
<1>8. ClaimFollowed(w)'
  BY <1>3, <1>4, <1>5, <1>6 DEF ClaimFollowed, Ended
<1>9. RunFollowed(w)' /\ ReportFollowed(w)' /\ EndFollowed(w)'
  BY <1>1, <1>2, <1>3, <1>4, <1>7 DEF RowFollowed, RunFollowed, ReportFollowed, EndFollowed, Ended
<1>10. RowFollowed(w)'
  BY <1>8, <1>9 DEF RowFollowed
<1> QED
  BY <1>2, <1>3, <1>4, <1>10, FiberFollowed

\* Nor does the second read.
LEMMA LookupFollowed ==
  ASSUME IInv, LInv, NEW f \in Fibers, Lookup(f)
  PROVE  LInv' /\ UNCHANGED <<row, announced>>
<1> DEFINE x == IF MayWrite(fiber[f].op, row[JobOf(f)]) THEN "update" ELSE AfterWrite(fiber[f].op)
<1>1. /\ fiber' = [fiber EXCEPT ![f].at = x] /\ fiber[f].at = "lookup" /\ ~Ended(f)
      /\ UNCHANGED <<row, outbox, relay, bull, worker, announced, runs, spent>>
  BY DEF Lookup, Step, Ended
<1>2. PICK w \in Workers : f \in {Store(w), Audit(w)}
  BY <1>1, WithoutCancel
<1>3. /\ JobOf(f) = worker[w].job /\ worker[w].at \in {"claiming", "reporting", "finishing"}
      /\ worker[w].at = "claiming" => f = Store(w) /\ fiber[f].op = "claim"
  BY <1>1, <1>2, WriterIsAdmitted
<1>4. RowFollowed(w) /\ Store(w) \in Fibers /\ Audit(w) \in Fibers
  BY FiberNames DEF LInv
<1>5. worker[w].at \in {"claiming", "reporting"} => x = "update"
  BY <1>1, <1>2, <1>3, <1>4 DEF RowFollowed, ReportFollowed, MayWrite
<1>6. worker[w].at = "finishing" =>
        /\ fiber[f].op \in Outcomes
        /\ x \in {"update", "publish"}
        /\ x = "publish" => row[JobOf(f)] = OutcomeOf[fiber[f].op]
  BY <1>1, <1>2, <1>3, <1>4 DEF RowFollowed, EndFollowed, MayWrite, AfterWrite, Terminal,
                                Lifecycle!Terminal, Outcomes
<1> HIDE DEF x
<1>7. /\ fiber[f].op' = fiber[f].op /\ fiber[f].at' = x /\ fiber[f].before' = fiber[f].before
      /\ \A g \in Fibers : g # f => fiber[g]' = fiber[g]
  BY <1>1, FiberSteps DEF IInv
<1>8. ClaimFollowed(w)'
  BY <1>1, <1>2, <1>3, <1>4, <1>5, <1>7 DEF RowFollowed, ClaimFollowed, Ended
<1>9. RunFollowed(w)' /\ ReportFollowed(w)'
  BY <1>1, <1>2, <1>3, <1>4, <1>7 DEF RowFollowed, RunFollowed, ReportFollowed, Ended
<1>10. EndFollowed(w)'
  BY <1>1, <1>2, <1>3, <1>4, <1>6, <1>7 DEF RowFollowed, EndFollowed, Ended
<1>11. RowFollowed(w)'
  BY <1>8, <1>9, <1>10 DEF RowFollowed
<1> QED
  BY <1>1, <1>2, <1>7, <1>11, FiberFollowed

(* The write a claim makes is the lifecycle's claim, an outcome's is its   *)
(* settlement; every other write changes nothing.                          *)
LEMMA UpdateFollowed ==
  ASSUME IInv, LInv, NEW f \in Fibers, Update(f)
  PROVE  /\ LInv' /\ UNCHANGED announced
         /\ \/ Lifecycle!Claim(JobOf(f))
            \/ \E outcome \in Terminal : Lifecycle!Settle(JobOf(f), outcome)
            \/ UNCHANGED row
         /\ JobOf(f) \in Jobs
<1> DEFINE x == AfterWrite(fiber[f].op)
<1> DEFINE status == OutcomeOf[fiber[f].op]
<1>1. /\ fiber' = [fiber EXCEPT ![f].at = x] /\ fiber[f].at = "update" /\ ~Ended(f)
      /\ row' = [row EXCEPT ![JobOf(f)] = status]
      /\ UNCHANGED <<outbox, relay, bull, worker, announced, runs, spent>>
  BY DEF Update, Step, Ended
<1>2. PICK w \in Workers : f \in {Store(w), Audit(w)}
  BY <1>1, WithoutCancel
<1>3. /\ JobOf(f) = worker[w].job /\ worker[w].at \in {"claiming", "reporting", "finishing"}
      /\ JobOf(f) \in Jobs
      /\ worker[w].at = "claiming" => f = Store(w) /\ fiber[f].op = "claim"
      /\ Admitted(w, JobOf(f)) \/ PastClaim(w, JobOf(f))
  BY <1>1, <1>2, WriterIsAdmitted
<1>4. RowFollowed(w) /\ Store(w) \in Fibers /\ Audit(w) \in Fibers
  BY FiberNames DEF LInv
<1>5. /\ row[JobOf(f)]' = status /\ row[worker[w].job]' = status
      /\ \A j \in Jobs : j # JobOf(f) => row[j]' = row[j]
  <2>1. JobOf(f)' = JobOf(f)
    BY <1>1 DEF JobOf
  <2> HIDE DEF status
  <2> QED
    BY <2>1, <1>1, <1>3 DEF IInv, TypeOK
<1>6. worker[w].at = "claiming" =>
        x = "ended" /\ status = "running" /\ row[JobOf(f)] = "queued" /\ fiber[f].before = "queued"
  BY <1>1, <1>3, <1>4 DEF RowFollowed, ClaimFollowed, AfterWrite, OutcomeOf
<1>7. worker[w].at = "reporting" =>
        x = "ended" /\ status = "running" /\ row[JobOf(f)] = "running"
  BY <1>1, <1>2, <1>3, <1>4 DEF RowFollowed, RunFollowed, ReportFollowed, AfterWrite, OutcomeOf
<1>8. worker[w].at = "finishing" =>
        /\ fiber[f].op \in Outcomes /\ x = "publish" /\ status \in Terminal
        /\ row[JobOf(f)] \in {"running", status}
  BY <1>1, <1>2, <1>3, <1>4 DEF RowFollowed, EndFollowed, AfterWrite, Terminal,
                                Lifecycle!Terminal, Outcomes, OutcomeOf
<1> HIDE DEF x
<1>9. /\ fiber[f].op' = fiber[f].op /\ fiber[f].at' = x /\ fiber[f].before' = fiber[f].before
      /\ \A g \in Fibers : g # f => fiber[g]' = fiber[g]
  BY <1>1, FiberSteps DEF IInv
<1>10. ClaimFollowed(w)'
  BY <1>1, <1>2, <1>3, <1>5, <1>6, <1>9 DEF ClaimFollowed, Ended
<1>11. RunFollowed(w)' /\ ReportFollowed(w)'
  BY <1>1, <1>2, <1>3, <1>4, <1>5, <1>7, <1>9 DEF RowFollowed, RunFollowed, ReportFollowed, Ended
<1>12. EndFollowed(w)'
  <2> SUFFICES ASSUME worker[w].at = "finishing" PROVE EndFollowed(w)'
    BY <1>1 DEF EndFollowed
  <2>1. \A g \in {Store(w), Audit(w)} : ~Ended(g) => fiber[g].op = fiber[f].op /\ fiber[g].at # "remove"
    BY <1>1, <1>2, <1>4 DEF RowFollowed, EndFollowed
  <2> QED
    BY <1>1, <1>2, <1>4, <1>5, <1>8, <1>9, <2>1 DEF EndFollowed, Ended
<1>13. RowFollowed(w)'
  BY <1>10, <1>11, <1>12 DEF RowFollowed
<1>14. LInv'
  BY <1>1, <1>2, <1>3, <1>5, <1>9, <1>13, FiberFollowed
<1>15. CASE worker[w].at = "claiming"
  BY <1>1, <1>3, <1>6, <1>14, <1>15 DEF Lifecycle!Claim
<1>16. CASE worker[w].at = "reporting" \/ row[JobOf(f)] = status
  <2>1. row' = row
    BY <1>1, <1>3, <1>7, <1>16 DEF IInv, TypeOK
  <2> QED
    BY <1>1, <1>3, <1>14, <2>1
<1>17. CASE worker[w].at = "finishing" /\ row[JobOf(f)] = "running"
  <2>1. Lifecycle!Settle(JobOf(f), status)
    BY <1>1, <1>8, <1>17 DEF Lifecycle!Settle, Lifecycle!Active
  <2> QED
    BY <1>1, <1>3, <1>8, <1>14, <1>17, <2>1
<1> QED
  BY <1>3, <1>8, <1>15, <1>16, <1>17

(* What is announced is the status the row has.                            *)
LEMMA PublishFollowed ==
  ASSUME IInv, LInv, NEW f \in Fibers, Publish(f)
  PROVE  /\ LInv' /\ UNCHANGED row /\ JobOf(f) \in Jobs
         /\ Lifecycle!Announce(JobOf(f)) \/ UNCHANGED announced
<1> DEFINE event == Lifecycle!EventOf[OutcomeOf[fiber[f].op]]
<1>1. /\ fiber' = [fiber EXCEPT ![f].at = "ended"] /\ fiber[f].at = "publish" /\ ~Ended(f)
      /\ announced' = IF fiber[f].before \in Active
           THEN [announced EXCEPT ![JobOf(f)] = @ \union {event}] ELSE announced
      /\ UNCHANGED <<row, outbox, relay, bull, worker, runs, spent>>
  BY DEF Publish, Step, Ended
<1>2. PICK w \in Workers : f \in {Store(w), Audit(w)}
  BY <1>1, WithoutCancel
<1>3. /\ JobOf(f) = worker[w].job /\ worker[w].at \in {"claiming", "reporting", "finishing"}
      /\ worker[w].at = "claiming" => f = Store(w) /\ fiber[f].op = "claim"
      /\ JobOf(f) \in Jobs
  BY <1>1, <1>2, WriterIsAdmitted
<1>4. RowFollowed(w) /\ Store(w) \in Fibers /\ Audit(w) \in Fibers
  BY FiberNames DEF LInv
<1>5. fiber[f].op \in {"complete", "fail", "cancel"}
  BY <1>1 DEF IInv, FibersNamed
<1>6. worker[w].at = "finishing" /\ fiber[f].op \in Outcomes
      /\ row[JobOf(f)] = OutcomeOf[fiber[f].op]
  BY <1>1, <1>2, <1>3, <1>4, <1>5 DEF RowFollowed, ReportFollowed, EndFollowed
<1>7. /\ fiber[f].op' = fiber[f].op /\ fiber[f].at' = "ended" /\ fiber[f].before' = fiber[f].before
      /\ \A g \in Fibers : g # f => fiber[g]' = fiber[g]
  BY <1>1, FiberSteps DEF IInv
<1>8. RowFollowed(w)'
  BY <1>1, <1>2, <1>4, <1>6, <1>7 DEF RowFollowed, ClaimFollowed, RunFollowed, ReportFollowed,
                                      EndFollowed, Ended
<1>9. LInv'
  BY <1>1, <1>2, <1>7, <1>8, FiberFollowed
<1>10. Lifecycle!Announce(JobOf(f)) \/ UNCHANGED announced
  BY <1>1, <1>6 DEF Lifecycle!Announce, Outcomes, OutcomeOf, Lifecycle!Terminal
<1> QED
  BY <1>1, <1>3, <1>9, <1>10

\* Nor does a statement that fails.
LEMMA FailureFollowed ==
  ASSUME IInv, LInv, NEW f \in Fibers, StatementFails(f)
  PROVE  LInv' /\ UNCHANGED <<row, announced>>
<1>1. /\ fiber' = [fiber EXCEPT ![f] = NoFiber] /\ ~Ended(f)
      /\ UNCHANGED <<row, outbox, relay, bull, worker, announced, runs>>
  BY DEF StatementFails, Ended
<1>2. PICK w \in Workers : f \in {Store(w), Audit(w)}
  BY <1>1, WithoutCancel
<1>3. /\ fiber[f].at' = "ended" /\ fiber[f].before' = "none"
      /\ \A g \in Fibers : g # f => fiber[g]' = fiber[g]
  BY <1>1 DEF IInv, TypeOK, NoFiber
<1>4. RowFollowed(w) /\ Store(w) \in Fibers /\ Audit(w) \in Fibers
  BY FiberNames DEF LInv
<1>5. worker[w].at = "claiming" => f = Store(w)
  BY <1>1, <1>2 DEF IInv, SlotsInStep
<1>6. RowFollowed(w)'
  BY <1>1, <1>2, <1>3, <1>4, <1>5 DEF RowFollowed, ClaimFollowed, RunFollowed, ReportFollowed,
                                      EndFollowed, Ended
<1> QED
  BY <1>1, <1>2, <1>3, <1>6, FiberFollowed

(* Only a cancel's fiber takes a job off the queue.                        *)
LEMMA NoRemoval ==
  ASSUME IInv, LInv, NEW f \in Fibers
  PROVE  fiber[f].at # "remove"
<1> SUFFICES ASSUME fiber[f].at = "remove" PROVE FALSE
  OBVIOUS
<1>1. ~Ended(f) /\ fiber[f].op \in {"complete", "fail", "cancel"}
  BY DEF Ended, IInv, FibersNamed
<1>2. PICK w \in Workers : f \in {Store(w), Audit(w)}
  BY <1>1, WithoutCancel
<1>3. /\ worker[w].at \in {"claiming", "reporting", "finishing"}
      /\ worker[w].at = "claiming" => f = Store(w) /\ fiber[f].op = "claim"
  BY <1>1, <1>2, WriterIsAdmitted
<1> QED
  BY <1>1, <1>2, <1>3 DEF LInv, RowFollowed, ReportFollowed, EndFollowed

-----------------------------------------------------------------------------
(* Everything else: the row changes with the enqueue only.                 *)
LEMMA QueueFollowed ==
  ASSUME IInv, LInv, UNCHANGED <<worker, fiber, row>>
  PROVE  LInv'
<1>1. Quiet' /\ OneRun'
  BY DEF LInv, Quiet, Ended, OneRun, PastClaim
<1>2. \A w \in Workers : RowFollowed(w)'
  BY SlotUntouched DEF LInv
<1> QED
  BY <1>1, <1>2 DEF LInv

\* The enqueue transaction is the lifecycle's Enqueue.
LEMMA EnqueueFollowed ==
  ASSUME IInv, LInv, NEW j \in Jobs, EnqueueAtomic(j)
  PROVE  LInv' /\ Lifecycle!Enqueue(j)
<1>1. /\ row[j] = "none" /\ row' = [row EXCEPT ![j] = "queued"]
      /\ UNCHANGED <<worker, fiber, announced>>
  BY DEF EnqueueAtomic
<1>2. Quiet' /\ OneRun'
  BY <1>1 DEF LInv, Quiet, Ended, OneRun, PastClaim
<1>3. \A w \in Workers : ~PastClaim(w, j) /\ ~Admitted(w, j)
  BY <1>1 DEF IInv, ClaimsAdmitOne, Unclaimed, LInv, RowFollowed, ClaimFollowed, RunFollowed,
              Admitted, PastClaim
<1>4. ASSUME NEW w \in Workers PROVE RowFollowed(w)'
  <2>1. CASE worker[w].job = j
    BY <1>1, <1>3, <2>1, SlotUntouched DEF LInv
  <2>2. CASE worker[w].job # j /\ worker[w].job \in Jobs
    <3>1. row[worker[w].job]' = row[worker[w].job]
      BY <1>1, <2>2 DEF IInv, TypeOK
    <3> QED
      BY <1>1, <3>1, SlotUntouched DEF LInv
  <2>3. CASE worker[w].job \notin Jobs
    BY <1>1, <2>3, SlotUntouched DEF LInv, Admitted, PastClaim, IInv, SlotsInStep
  <2> QED
    BY <2>1, <2>2, <2>3
<1> QED
  BY <1>1, <1>2, <1>4 DEF LInv, Lifecycle!Enqueue

(* One slot moves and the row stays.                                       *)
LEMMA SlotFollowed ==
  ASSUME IInv, LInv, NEW w \in Workers, UNCHANGED row,
         \A v \in Workers : v # w => worker[v]' = worker[v],
         \A f \in Fibers : fiber[f]' = fiber[f] \/ f \in {Store(w), Audit(w)},
         \A j \in Jobs : PastClaim(w, j)' => Admitted(w, j) \/ PastClaim(w, j),
         RowFollowed(w)'
  PROVE  LInv'
<1>1. Quiet'
  <2>1. \A j \in Jobs : Cancel(j) \in Fibers /\ Cancel(j) \notin {Store(w), Audit(w)}
    BY FiberNames DEF Fibers, Cancel
  <2> QED
    BY <2>1 DEF LInv, Quiet, Ended
<1>2. \A v \in Workers : v # w => fiber[Store(v)]' = fiber[Store(v)] /\ fiber[Audit(v)]' = fiber[Audit(v)]
  BY FiberNames
<1>3. \A v \in Workers : RowFollowed(v)'
  BY <1>2, SlotUntouched DEF LInv
<1>4. OneRun'
  <2>1. \A v \in Workers, j \in Jobs : v # w => (PastClaim(v, j)' <=> PastClaim(v, j))
    BY DEF PastClaim
  <2> QED
    BY <2>1 DEF LInv, OneRun, IInv, ClaimsAdmitOne
<1> QED
  BY <1>1, <1>3, <1>4 DEF LInv

\* A delivery changes nothing the lifecycle sees.
LEMMA DeliverFollowed ==
  ASSUME IInv, LInv, NEW w \in Workers, NEW j \in Jobs, Deliver(w, j)
  PROVE  LInv' /\ UNCHANGED <<row, announced>>
<1>1. /\ worker' = [worker EXCEPT ![w] =
                      [at |-> "claiming", job |-> j, locked |-> TRUE, left |-> Steps]]
      /\ fiber' = [fiber EXCEPT ![Store(w)] = Begin("claim", "find")]
      /\ UNCHANGED <<row, announced>>
  BY DEF Deliver
<1>2. /\ worker[w].at' = "claiming"
      /\ \A v \in Workers : v # w => worker[v]' = worker[v]
  BY <1>1 DEF IInv, TypeOK
<1>3. /\ fiber[Store(w)]' = Begin("claim", "find")
      /\ \A f \in Fibers : fiber[f]' = fiber[f] \/ f \in {Store(w), Audit(w)}
  BY <1>1, FiberNames DEF IInv, TypeOK
<1>4. RowFollowed(w)'
  BY <1>2, <1>3 DEF RowFollowed, ClaimFollowed, RunFollowed, ReportFollowed, EndFollowed, Begin
<1>5. \A i \in Jobs : ~PastClaim(w, i)'
  BY <1>2 DEF PastClaim
<1> QED
  BY <1>1, <1>2, <1>3, <1>4, <1>5, SlotFollowed

\* Nor does what follows an admitted claim.
LEMMA ClaimedFollowed ==
  ASSUME IInv, LInv, NEW w \in Workers, Claimed(w) \/ BeginPipeline(w)
  PROVE  LInv' /\ UNCHANGED <<row, announced>>
<1>1. PICK x \in {"loading", "generating"} : worker' = [worker EXCEPT ![w].at = x]
  BY DEF Claimed, BeginPipeline
<1>2. /\ worker[w].at' = x /\ worker[w].job' = worker[w].job
      /\ \A v \in Workers : v # w => worker[v]' = worker[v]
  BY <1>1, SlotSteps DEF IInv
<1>3. UNCHANGED <<row, fiber, announced>>
  BY DEF Claimed, BeginPipeline
<1>4. row[worker[w].job] = "running"
  BY DEF LInv, RowFollowed, ClaimFollowed, RunFollowed, Claimed, BeginPipeline
<1>5. RowFollowed(w)'
  BY <1>2, <1>3, <1>4 DEF RowFollowed, ClaimFollowed, RunFollowed, ReportFollowed, EndFollowed
<1>6. \A j \in Jobs : PastClaim(w, j)' => Admitted(w, j) \/ PastClaim(w, j)
  BY <1>2 DEF PastClaim, Admitted, Claimed, BeginPipeline
<1> QED
  BY <1>2, <1>3, <1>5, <1>6, SlotFollowed

\* Nor does a slot that lets its job go.
LEMMA FreedFollowed ==
  ASSUME IInv, LInv, NEW w \in Workers,
         NotClaimed(w) \/ LoadFails(w) \/ ProcessorReturns(w) \/ WorkerStops(w)
  PROVE  LInv' /\ UNCHANGED <<row, announced>>
<1>1. worker' = [worker EXCEPT ![w] = Idle] /\ UNCHANGED <<row, announced>>
  BY DEF NotClaimed, LoadFails, ProcessorReturns, WorkerStops
<1>2. worker[w].at' = "idle" /\ \A v \in Workers : v # w => worker[v]' = worker[v]
  BY <1>1 DEF IInv, TypeOK, Idle
<1>3. \A f \in Fibers : fiber[f]' = fiber[f] \/ f \in {Store(w), Audit(w)}
  BY FiberNames DEF IInv, TypeOK, NotClaimed, LoadFails, ProcessorReturns, WorkerStops
<1>4. RowFollowed(w)' /\ \A j \in Jobs : ~PastClaim(w, j)'
  BY <1>2 DEF RowFollowed, ClaimFollowed, RunFollowed, ReportFollowed, EndFollowed, PastClaim
<1> QED
  BY <1>1, <1>2, <1>3, <1>4, SlotFollowed

\* Nor does a report that starts.
LEMMA ReportsFollowed ==
  ASSUME IInv, LInv, NEW w \in Workers, NEW op \in {"progress", "complete", "fail"},
         NEW at \in {"find", "lookup"}, ReportBoth(w, op, at), worker[w].at = "generating",
         worker[w].at' = IF op = "progress" THEN "reporting" ELSE "finishing",
         worker[w].job' = worker[w].job,
         \A v \in Workers : v # w => worker[v]' = worker[v], UNCHANGED row
  PROVE  LInv'
<1>1. /\ fiber[Store(w)]' = Begin(op, at) /\ fiber[Audit(w)]' = Begin(op, "lookup")
      /\ \A f \in Fibers : fiber[f]' = fiber[f] \/ f \in {Store(w), Audit(w)}
  <2>1. fiber' = [fiber EXCEPT ![Store(w)] = Begin(op, at), ![Audit(w)] = Begin(op, "lookup")]
    BY DEF ReportBoth
  <2>2. fiber \in [Fibers -> FiberStates]
    BY DEF IInv, TypeOK, FiberStates
  <2> QED
    BY <2>1, <2>2, FiberNames
<1>2. row[worker[w].job] = "running"
  BY DEF LInv, RowFollowed, RunFollowed
<1>3. RowFollowed(w)'
  BY <1>1, <1>2 DEF RowFollowed, ClaimFollowed, RunFollowed, ReportFollowed, EndFollowed, Begin,
                    Outcomes, Ended
<1>4. \A j \in Jobs : PastClaim(w, j)' => PastClaim(w, j)
  BY DEF PastClaim
<1> QED
  BY <1>1, <1>3, <1>4, SlotFollowed

\* Nor do the steps of a slot between its statements.
LEMMA RunningFollowed ==
  ASSUME IInv, LInv, NEW w \in Workers,
         \/ PublishJobProgress(w) \/ ProgressPublished(w)
         \/ CompleteQueuedJob(w) \/ FailQueuedJob(w) \/ LockExpires(w)
  PROVE  LInv' /\ UNCHANGED <<row, announced>>
<1>1. UNCHANGED <<row, announced>>
  BY DEF PublishJobProgress, ProgressPublished, CompleteQueuedJob, FailQueuedJob, LockExpires
<1>2. CASE PublishJobProgress(w)
  <2>1. worker' = [worker EXCEPT ![w] =
          [at |-> "reporting", job |-> @.job, locked |-> @.locked, left |-> @.left - 1]]
    BY <1>2 DEF PublishJobProgress
  <2>2. /\ worker[w].at' = "reporting" /\ worker[w].job' = worker[w].job
        /\ \A v \in Workers : v # w => worker[v]' = worker[v]
    BY <2>1 DEF IInv, TypeOK
  <2> QED
    BY <1>1, <1>2, <2>2, ReportsFollowed DEF PublishJobProgress
<1>3. CASE CompleteQueuedJob(w) \/ FailQueuedJob(w)
  <2>1. worker' = [worker EXCEPT ![w].at = "finishing"] /\ worker[w].at = "generating"
    BY <1>3 DEF CompleteQueuedJob, FailQueuedJob
  <2>2. /\ worker[w].at' = "finishing" /\ worker[w].job' = worker[w].job
        /\ \A v \in Workers : v # w => worker[v]' = worker[v]
    BY <2>1, SlotSteps DEF IInv
  <2>3. PICK op \in {"complete", "fail"} : ReportBoth(w, op, "find")
    BY <1>3 DEF CompleteQueuedJob, FailQueuedJob
  <2> QED
    BY <1>1, <2>1, <2>2, <2>3, ReportsFollowed
<1>4. CASE ProgressPublished(w) \/ LockExpires(w)
  <2>1. /\ worker[w].at' = worker[w].at \/ (worker[w].at = "reporting" /\ worker[w].at' = "generating")
        /\ worker[w].job' = worker[w].job
        /\ \A v \in Workers : v # w => worker[v]' = worker[v]
    BY <1>4, SlotSteps DEF ProgressPublished, LockExpires, IInv, TypeOK
  <2>2. fiber' = fiber
    BY <1>4 DEF ProgressPublished, LockExpires
  <2>3. RowFollowed(w)'
    BY <1>1, <2>1, <2>2 DEF LInv, RowFollowed, ClaimFollowed, RunFollowed, ReportFollowed,
                            EndFollowed, Ended
  <2>4. \A j \in Jobs : PastClaim(w, j)' => PastClaim(w, j)
    BY <2>1 DEF PastClaim
  <2> QED
    BY <1>1, <2>1, <2>2, <2>3, <2>4, SlotFollowed
<1> QED
  BY <1>2, <1>3, <1>4

-----------------------------------------------------------------------------
(* When no user cancels, every step of the split operations is a step of   *)
(* the lifecycle or changes nothing a client sees: the contract of the     *)
(* in-memory job store holds of the durable runtime.                       *)
THEOREM RuntimeImplementsLifecycle ==
  ASSUME Cancellable = {}
  PROVE  Spec => ImplementsLifecycle
<1>1. Init => Lifecycle!Init
  BY DEF Init, Lifecycle!Init
<1>2. ASSUME IInv, LInv, [Next]_vars
      PROVE  LInv' /\ [Lifecycle!Next]_(Lifecycle!vars)
  <2> DEFINE Goal == LInv' /\ [Lifecycle!Next]_(Lifecycle!vars)
  <2> USE DEF Lifecycle!vars
  <2>1. ASSUME NEW j \in Jobs, EnqueueAtomic(j)
        PROVE  Goal
    BY <1>2, <2>1, EnqueueFollowed DEF Lifecycle!Next
  <2>2. ASSUME NEW j \in Jobs, RequeueStalled(j) \/ EvictFinished(j)
        PROVE  Goal
    <3>1. UNCHANGED <<worker, fiber, row, announced>>
      BY <2>2 DEF RequeueStalled, EvictFinished
    <3> QED
      BY <1>2, <3>1, QueueFollowed
  <2>3. ASSUME NEW j \in Jobs, CancelJob(j)
        PROVE  FALSE
    BY <2>3 DEF CancelJob
  <2>4. ASSUME NEW r \in Relays, RelayStep(r) \/ RelayStops(r)
        PROVE  Goal
    <3>1. UNCHANGED <<worker, fiber, row, announced>>
      BY <2>4 DEF RelayStep, RelayLists, RelayEnqueues, RelayMarks, RelayStops
    <3> QED
      BY <1>2, <3>1, QueueFollowed
  <2>5. ASSUME NEW w \in Workers, NEW j \in Jobs, Deliver(w, j)
        PROVE  Goal
    BY <1>2, <2>5, DeliverFollowed
  <2>6. ASSUME NEW w \in Workers,
               WorkerStep(w) \/ LoadFails(w) \/ WorkerStops(w) \/ LockExpires(w)
        PROVE  Goal
    BY <1>2, <2>6, ClaimedFollowed, FreedFollowed, RunningFollowed DEF WorkerStep
  <2>7. ASSUME NEW f \in Fibers, Update(f)
        PROVE  Goal
    BY <1>2, <2>7, UpdateFollowed DEF Lifecycle!Next, Terminal
  <2>8. ASSUME NEW f \in Fibers, Publish(f)
        PROVE  Goal
    BY <1>2, <2>8, PublishFollowed DEF Lifecycle!Next
  <2>9. ASSUME NEW f \in Fibers, Find(f) \/ Lookup(f) \/ StatementFails(f)
        PROVE  Goal
    BY <1>2, <2>9, FindFollowed, LookupFollowed, FailureFollowed
  <2>10. ASSUME NEW f \in Fibers, RemoveFromQueue(f) \/ RemoveFails(f)
         PROVE  FALSE
    BY <1>2, <2>10, NoRemoval DEF RemoveFromQueue, RemoveFails
  <2>11. CASE UNCHANGED vars
    BY <1>2, <2>11, QueueFollowed DEF vars
  <2> QED
    BY <1>2, <2>1, <2>2, <2>3, <2>4, <2>5, <2>6, <2>7, <2>8, <2>9, <2>10, <2>11
       DEF Next, FiberStep
<1> QED
  BY <1>1, <1>2, InitLInv, Inductive, PTL DEF Spec, ImplementsLifecycle, Lifecycle!Spec

=============================================================================
