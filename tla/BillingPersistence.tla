-------------------------- MODULE BillingPersistence --------------------------
(***************************************************************************)
(* Where the credits of one user live: each process keeps a copy of the    *)
(* billing repository in its memory, runs the operations of BillingService *)
(* on it, and writes the user's slice to PostgreSQL behind them.  The API  *)
(* reloads the slice on every authenticated request, the worker before     *)
(* every job; nothing orders one process's reloads and writes with its own *)
(* operations or with the other's.                                         *)
(*                                                                         *)
(* What an operation does between two awaits is one action.  A request or  *)
(* a job is a sequence of them: the reads of a reload (separate statements *)
(* of a pool), the merge, the operations, the write of the job row.        *)
(*                                                                         *)
(* Abstractions.  Every generation costs one credit.  A job is claimed and *)
(* its row written in one step (ExecutionJob splits those).  Cycles,       *)
(* top-ups and subscriptions are in BillingService; of the slice only the  *)
(* generations' ledger entries and reservations are kept, usage records    *)
(* going with the captures.                                                *)
(***************************************************************************)
EXTENDS Integers, FiniteSets

CONSTANTS
  Jobs,
  ClientKeys,    \* idempotency keys the clients send
  KeyOf,         \* the key each job's request carries
  NoKey,         \* a request without one
  Anonymous,     \* generation:<pipeline>:anonymous
  Requests,      \* authenticated requests the API serves at once
  NoJob,
  NotRead,       \* a select that has not answered
  Credits,       \* what the user has
  Slots,         \* jobs the worker process runs at once
  Cancellable,   \* jobs whose user may cancel them
  MaxFaults,     \* bound: transactions that may fail
  MaxRestarts    \* bound: restarts of a process

ASSUME PersistenceAssumption ==
  /\ KeyOf \in [Jobs -> ClientKeys \union {NoKey}]
  /\ NoKey \notin ClientKeys
  /\ Anonymous \notin Jobs \union ClientKeys
  /\ Jobs \intersect (ClientKeys \union Requests \union {NoJob}) = {}
  /\ {Credits, Slots, MaxFaults, MaxRestarts} \subseteq Nat
  /\ Cancellable \subseteq Jobs

VARIABLES
  db,      \* the ledger and the reservations in PostgreSQL
  row,     \* the job rows
  mem,     \* each process's ledger, reservations and remembered operations
  persist, \* each process's queue of slice writes: scheduled, and the one begun
  load,    \* what the selects of a reload have answered
  request, \* what each request is doing
  work,    \* what the worker does with each job
  spent    \* faults and restarts so far

vars == <<db, row, mem, persist, load, request, work, spent>>

Processes == {"api", "worker"}
Readers == Requests \union Jobs
ProcessOf(x) == IF x \in Jobs THEN "worker" ELSE "api"

\* The generation cycle of a job as the API resolves it at enqueue, and as
\* the worker resolves it again from the stored request.
EnqueueCycle(j) == IF KeyOf[j] = NoKey THEN j ELSE KeyOf[j]
WorkerCycle(j) == IF KeyOf[j] = NoKey THEN Anonymous ELSE KeyOf[j]
Cycles == Jobs \union ClientKeys

\* A ledger entry: its type and idempotency key, and the cycle it is about.
Entry(type, key, c) == [type |-> type, key |-> key, cycle |-> c]
SameKey(d, e) == d.type = e.type /\ d.key = e.key
Of(ledger, type, c) == {e \in ledger : e.type = type /\ e.cycle = c}
Settlements(ledger, c) == Of(ledger, "capture", c) \union Of(ledger, "release", c)
Balance(ledger) == Credits - Cardinality({e \in ledger : e.type = "reserve"})
                           + Cardinality({e \in ledger : e.type = "release"})

NoSlice == [ledger |-> {}, status |-> [c \in Cycles |-> "none"]]
Slice(p) == [ledger |-> mem[p].ledger, status |-> mem[p].status]
Booted == [ledger |-> {}, status |-> [c \in Cycles |-> "none"], known |-> {}]
Quiet == [scheduled |-> 0, writing |-> FALSE, slice |-> NoSlice]
Unread == [ledger |-> NotRead, status |-> NotRead]
Idle == [at |-> "idle", job |-> NoJob, slice |-> NoSlice]

Init ==
  /\ db = NoSlice
  /\ row = [j \in Jobs |-> "none"]
  /\ mem = [p \in Processes |-> Booted]
  /\ persist = [p \in Processes |-> Quiet]
  /\ load = [x \in Readers |-> Unread]
  /\ request = [n \in Requests |-> Idle]
  /\ work = [j \in Jobs |-> "none"]
  /\ spent = [faults |-> 0, restarts |-> 0]

Spend(what, max) ==
  /\ spent[what] < max
  /\ spent' = [spent EXCEPT ![what] = @ + 1]

-----------------------------------------------------------------------------
(* The user's slice: reloading it, writing it.                             *)

Loading(x) ==
  IF x \in Jobs THEN work[x] = "loading" ELSE request[x].at \in {"loading", "undoing"}

ReadLedger(x) ==
  /\ Loading(x) /\ load[x].ledger = NotRead
  /\ load' = [load EXCEPT ![x].ledger = db.ledger]
  /\ UNCHANGED <<db, row, mem, persist, request, work, spent>>

ReadReservations(x) ==
  /\ Loading(x) /\ load[x].status = NotRead
  /\ load' = [load EXCEPT ![x].status = db.status]
  /\ UNCHANGED <<db, row, mem, persist, request, work, spent>>

(* The merge replaces the user's entries and reservations and leaves the   *)
(* remembered operations alone.                                            *)
Merge(x) ==
  /\ Loading(x) /\ load[x].ledger # NotRead /\ load[x].status # NotRead
  /\ mem' = [mem EXCEPT ![ProcessOf(x)].ledger = load[x].ledger,
                        ![ProcessOf(x)].status = load[x].status]
  /\ load' = [load EXCEPT ![x] = Unread]

(* A select that fails is answered with an error to the client, or ends    *)
(* the job, whose row stays as it is; after an enqueue it is swallowed.    *)
ReloadFails(x) ==
  /\ Loading(x)
  /\ Spend("faults", MaxFaults)
  /\ load' = [load EXCEPT ![x] = Unread]
  /\ IF x \in Jobs THEN work' = [work EXCEPT ![x] = "ended"] /\ UNCHANGED request
                   ELSE request' = [request EXCEPT ![x] = Idle] /\ UNCHANGED work
  /\ UNCHANGED <<db, row, mem, persist>>

\* Mutant: an entry whose key is there replaces the one that is.
WrittenOver(slice) ==
  [ledger |-> slice.ledger, status |-> slice.status]

(* What a transaction writes: an entry whose key is there is skipped, a    *)
(* reservation is overwritten.                                             *)
Written(slice) ==
  [ledger |-> db.ledger \union
     {e \in slice.ledger : \A d \in db.ledger : ~SameKey(d, e)},
   status |-> [c \in Cycles |->
     IF slice.status[c] = "none" THEN db.status[c] ELSE slice.status[c]]]

Schedule(p) == persist' = [persist EXCEPT ![p].scheduled = @ + 1]

\* Mutant: the queue runs a task that is not on it.
BeginsUnscheduled(p) ==
  /\ ~persist[p].writing
  /\ persist' = [persist EXCEPT ![p] =
       [scheduled |-> @.scheduled - 1, writing |-> TRUE, slice |-> Slice(p)]]
  /\ UNCHANGED <<db, row, mem, load, request, work, spent>>

(* The queue serves every user of the process, so a write scheduled now    *)
(* begins at any later time; it takes the slice once its transaction is    *)
(* open.                                                                   *)
PersistBegins(p) ==
  /\ persist[p].scheduled > 0 /\ ~persist[p].writing
  /\ persist' = [persist EXCEPT ![p] =
       [scheduled |-> @.scheduled - 1, writing |-> TRUE, slice |-> Slice(p)]]
  /\ UNCHANGED <<db, row, mem, load, request, work, spent>>

Closed(p) == [persist EXCEPT ![p].writing = FALSE, ![p].slice = NoSlice]

PersistCommits(p) ==
  /\ persist[p].writing
  /\ db' = Written(persist[p].slice)
  /\ persist' = Closed(p)
  /\ UNCHANGED <<row, mem, load, request, work, spent>>

(* A write that fails is logged and not tried again.                       *)
PersistFails(p) ==
  /\ persist[p].writing
  /\ Spend("faults", MaxFaults)
  /\ persist' = Closed(p)
  /\ UNCHANGED <<db, row, mem, load, request, work>>

-----------------------------------------------------------------------------
(* The operations on a process's memory.                                   *)

Remembers(p, op, key) == <<op, key>> \in mem[p].known

\* Reserving ends in an error when the user cannot pay.
CanReserve(p, j) ==
  Remembers(p, "reserve", EnqueueCycle(j)) \/ Balance(mem[p].ledger) >= 1

Reserved(j) ==
  LET c == EnqueueCycle(j) m == mem["api"] IN
  IF Remembers("api", "reserve", c) THEN m
  ELSE [ledger |-> m.ledger \union {Entry("reserve", c, c)},
        status |-> [m.status EXCEPT ![c] = "reserved"],
        known  |-> m.known \union {<<"reserve", c>>}]

StatusAfter == [capture |-> "captured", release |-> "released"]

\* Mutant: a reservation that is not there settles like any other.
AlwaysFound(p, op, key, c) == TRUE

CanSettle(p, op, key, c) == Remembers(p, op, key) \/ mem[p].status[c] # "none"

Settled(p, op, key, c) ==
  LET m == mem[p]
      remembered == [m EXCEPT !.known = @ \union {<<op, key>>}]
  IN  IF Remembers(p, op, key) \/ m.status[c] # "reserved" THEN remembered
      ELSE [remembered EXCEPT !.ledger = @ \union {Entry(op, key, c)},
                              !.status[c] = StatusAfter[op]]

\* Mutant: the operation does not schedule the write of its slice.
SettleUnwritten(p, op, key, c) ==
  /\ CanSettle(p, op, key, c)
  /\ mem' = [mem EXCEPT ![p] = Settled(p, op, key, c)]
  /\ UNCHANGED persist

(* The tap that schedules the write looks the reservation up again.        *)
Settle(p, op, key, c) ==
  /\ CanSettle(p, op, key, c)
  /\ mem' = [mem EXCEPT ![p] = Settled(p, op, key, c)]
  /\ IF mem[p].status[c] = "none" THEN UNCHANGED persist ELSE Schedule(p)

-----------------------------------------------------------------------------
(* Requests of the API.                                                    *)

At(n, at) == [request EXCEPT ![n].at = at]

\* Every authenticated request begins by reloading the user's slice.
RequestArrives(n) ==
  /\ request[n].at = "idle"
  /\ request' = At(n, "loading")
  /\ UNCHANGED <<db, row, mem, persist, load, work, spent>>

RequestLoaded(n) ==
  /\ Merge(n)
  /\ request' = IF request[n].at = "undoing" THEN [request EXCEPT ![n] = Idle] ELSE At(n, "ready")
  /\ UNCHANGED <<db, row, persist, work, spent>>

\* A read-only request answers.
RequestEnds(n) ==
  /\ request[n].at = "ready"
  /\ request' = [request EXCEPT ![n] = Idle]
  /\ UNCHANGED <<db, row, mem, persist, load, work, spent>>

\* Mutant: the slice is taken before the credits are reserved.
EnqueueBeforeReserve(n, j) ==
  /\ request[n].at = "ready"
  /\ row[j] = "none" /\ \A m \in Requests : request[m].job # j
  /\ CanReserve("api", j)
  /\ mem' = [mem EXCEPT !["api"] = Reserved(j)]
  /\ request' = [request EXCEPT ![n] = [at |-> "enqueuing", job |-> j, slice |-> Slice("api")]]
  /\ UNCHANGED <<db, row, persist, load, work, spent>>

(* The enqueue transaction opens, reserves in memory and takes the slice   *)
(* in one turn of the event loop.  A key whose first request has been      *)
(* answered gets that answer again.                                        *)
Enqueue(n, j) ==
  /\ request[n].at = "ready"
  /\ row[j] = "none" /\ \A m \in Requests : request[m].job # j
  /\ \A k \in Jobs : KeyOf[k] = KeyOf[j] /\ KeyOf[j] # NoKey => row[k] \in {"none", "refused"}
  /\ CanReserve("api", j)
  /\ mem' = [mem EXCEPT !["api"] = Reserved(j)]
  /\ request' = [request EXCEPT ![n] =
       [at |-> "enqueuing", job |-> j,
        slice |-> [ledger |-> Reserved(j).ledger, status |-> Reserved(j).status]]]
  /\ UNCHANGED <<db, row, persist, load, work, spent>>

EnqueueCommits(n) ==
  /\ request[n].at = "enqueuing"
  /\ db' = Written(request[n].slice)
  /\ row' = [row EXCEPT ![request[n].job] = "queued"]
  /\ request' = [request EXCEPT ![n] = Idle]
  /\ UNCHANGED <<mem, persist, load, work, spent>>

(* A transaction that fails is rolled back and the slice reloaded; what    *)
(* the process remembers of the reserve stays.                             *)
EnqueueFails(n) ==
  /\ request[n].at = "enqueuing"
  /\ Spend("faults", MaxFaults)
  /\ row' = [row EXCEPT ![request[n].job] = "refused"]
  /\ request' = [request EXCEPT ![n] = [Idle EXCEPT !.at = "undoing"]]
  /\ UNCHANGED <<db, mem, persist, load, work>>

CancelJob(n, j) ==
  /\ request[n].at = "ready"
  /\ j \in Cancellable /\ row[j] \in {"queued", "running"}
  /\ row' = [row EXCEPT ![j] = "cancelled"]
  /\ request' = [request EXCEPT ![n].at = "cancelling", ![n].job = j]
  /\ UNCHANGED <<db, mem, persist, load, work, spent>>

CancelReleases(n) ==
  /\ request[n].at = "cancelling"
  /\ LET j == request[n].job IN Settle("api", "release", j, EnqueueCycle(j))
  /\ request' = [request EXCEPT ![n] = Idle]
  /\ UNCHANGED <<db, row, load, work, spent>>

\* A release that does not find the reservation is logged.
CancelReleaseFails(n) ==
  /\ request[n].at = "cancelling"
  /\ LET j == request[n].job IN ~CanSettle("api", "release", j, EnqueueCycle(j))
  /\ request' = [request EXCEPT ![n] = Idle]
  /\ UNCHANGED <<db, row, mem, persist, load, work, spent>>

-----------------------------------------------------------------------------
(* Jobs of the worker.                                                     *)

Busy == {j \in Jobs : work[j] \notin {"none", "ended"}}
Works(j, at) == work' = [work EXCEPT ![j] = at]

Claim(j) ==
  /\ row[j] = "queued"
  /\ Cardinality(Busy) < Slots
  /\ row' = [row EXCEPT ![j] = "running"]
  /\ Works(j, "loading")
  /\ UNCHANGED <<db, mem, persist, load, request, spent>>

JobLoaded(j) ==
  /\ Merge(j)
  /\ Works(j, "generating")
  /\ UNCHANGED <<db, row, persist, request, spent>>

CaptureCredits(j) ==
  /\ work[j] = "generating"
  /\ Settle("worker", "capture", WorkerCycle(j), EnqueueCycle(j))
  /\ Works(j, "completing")
  /\ UNCHANGED <<db, row, load, request, spent>>

ReleaseCredits(j) ==
  /\ work[j] = "generating"
  /\ Settle("worker", "release", WorkerCycle(j), EnqueueCycle(j))
  /\ Works(j, "failing")
  /\ UNCHANGED <<db, row, load, request, spent>>

(* The reservation is not there: the job fails after its pipeline ran.     *)
SettlementFails(j) ==
  /\ work[j] = "generating"
  /\ \E op \in {"capture", "release"} : ~CanSettle("worker", op, WorkerCycle(j), EnqueueCycle(j))
  /\ Works(j, "failing")
  /\ UNCHANGED <<db, row, mem, persist, load, request, spent>>

JobEnds(j) ==
  /\ work[j] \in {"completing", "failing"}
  /\ row' = IF row[j] = "running"
            THEN [row EXCEPT ![j] = IF work[j] = "completing" THEN "done" ELSE "failed"]
            ELSE row
  /\ Works(j, "ended")
  /\ UNCHANGED <<db, mem, persist, load, request, spent>>

-----------------------------------------------------------------------------
(* A process that restarts has lost its memory, its queue of writes and    *)
(* what it was doing; a transaction it had open is rolled back.            *)
Restart(p) ==
  /\ Spend("restarts", MaxRestarts)
  /\ mem' = [mem EXCEPT ![p] = Booted]
  /\ persist' = [persist EXCEPT ![p] = Quiet]
  /\ load' = [x \in Readers |-> IF ProcessOf(x) = p THEN Unread ELSE load[x]]
  /\ request' = IF p = "api" THEN [n \in Requests |-> Idle] ELSE request
  /\ work' = IF p = "worker"
             THEN [j \in Jobs |-> IF j \in Busy THEN "ended" ELSE work[j]] ELSE work
  /\ row' = [j \in Jobs |->
       IF p = "api" /\ \E n \in Requests : request[n].at = "enqueuing" /\ request[n].job = j
       THEN "refused" ELSE row[j]]
  /\ UNCHANGED db

PersistStep(p) == PersistBegins(p) \/ PersistCommits(p)

RequestStep(n) ==
  \/ RequestLoaded(n) \/ EnqueueCommits(n) \/ CancelReleases(n) \/ CancelReleaseFails(n)

WorkerStep(j) ==
  \/ Claim(j) \/ JobLoaded(j) \/ CaptureCredits(j) \/ ReleaseCredits(j)
  \/ SettlementFails(j) \/ JobEnds(j)

Next ==
  \/ \E x \in Readers : ReadLedger(x) \/ ReadReservations(x) \/ ReloadFails(x)
  \/ \E p \in Processes : PersistStep(p) \/ PersistFails(p) \/ Restart(p)
  \/ \E n \in Requests : RequestArrives(n) \/ RequestEnds(n) \/ RequestStep(n) \/ EnqueueFails(n)
  \/ \E n \in Requests, j \in Jobs : Enqueue(n, j) \/ CancelJob(n, j)
  \/ \E j \in Jobs : WorkerStep(j)

Spec == Init /\ [][Next]_vars

(* The queue of writes drains, the database answers and the worker goes on *)
(* with what it took.                                                      *)
Fairness ==
  /\ \A p \in Processes : WF_vars(PersistStep(p))
  /\ \A x \in Readers : WF_vars(ReadLedger(x)) /\ WF_vars(ReadReservations(x))
  /\ \A n \in Requests : WF_vars(RequestStep(n))
  /\ \A j \in Jobs : WF_vars(WorkerStep(j))

FairSpec == Spec /\ Fairness

-----------------------------------------------------------------------------
(* Properties.                                                             *)

SliceType == [ledger: SUBSET [type: {"reserve", "capture", "release"},
                              key: Cycles \union {Anonymous}, cycle: Cycles],
              status: [Cycles -> {"none", "reserved", "captured", "released"}]]

(* The values the copies, the requests and the jobs can have.              *)
TypeOK ==
  /\ db \in SliceType
  /\ row \in [Jobs -> {"none", "refused", "queued", "running", "done", "failed", "cancelled"}]
  /\ \A p \in Processes :
       /\ Slice(p) \in SliceType
       /\ mem[p].known \subseteq
            {"reserve", "capture", "release"} \X (Cycles \union {Anonymous})
       /\ persist[p].scheduled \in Nat
       /\ persist[p].writing \in BOOLEAN
       /\ persist[p].slice \in SliceType
  /\ \A x \in Readers :
       /\ load[x].ledger # NotRead => load[x].ledger \in SUBSET db.ledger
       /\ load[x].status # NotRead =>
            load[x].status \in [Cycles -> {"none", "reserved", "captured", "released"}]
  /\ \A n \in Requests :
       /\ request[n].at \in {"idle", "loading", "ready", "enqueuing", "undoing", "cancelling"}
       /\ request[n].job \in Jobs \union {NoJob}
       /\ request[n].slice \in SliceType
  /\ work \in [Jobs -> {"none", "loading", "generating", "completing", "failing", "ended"}]

Accepted(j) == row[j] \notin {"none", "refused"}

(* Whatever reloads, writes and restarts run beside it, a job that was     *)
(* accepted under a key of its own has its debit in the database: the      *)
(* transaction that inserts the row writes the reserve it made in memory.  *)
AcceptedJobIsDebited ==
  \A j \in Jobs : Accepted(j) => Of(db.ledger, "reserve", EnqueueCycle(j)) # {}

(* A stale copy may take a reservation's status back, but never forward:   *)
(* a status the database holds is one its ledger has the entry of, when at *)
(* most one job carries no key.                                            *)
ReservationBacked ==
  \A c \in Cycles :
    /\ db.status[c] # "none" => Of(db.ledger, "reserve", c) # {}
    /\ db.status[c] = "captured" => Of(db.ledger, "capture", c) # {}
    /\ db.status[c] = "released" => Of(db.ledger, "release", c) # {}

(* Whatever keys the clients send and however they retry, a job is only    *)
(* done when its generation has been debited: a worker that does not find  *)
(* the reservation in the database fails the job.                          *)
DoneIsPaid ==
  \A j \in Jobs : row[j] = "done" => Of(db.ledger, "reserve", EnqueueCycle(j)) # {}

(* A single job's settlement, once the row says how the job ended, is in   *)
(* the database after a while and stays, although the API's copy never     *)
(* hears of it and may be written after it, unless a write failed or a     *)
(* process stopped: the queue of writes neither tries again nor survives.  *)
Undisturbed == spent.faults + spent.restarts = 0
SettlementPersists ==
  \A j \in Jobs :
    /\ row[j] = "done" ~> ~Undisturbed \/ [](Of(db.ledger, "capture", EnqueueCycle(j)) # {})
    /\ row[j] = "failed" ~> ~Undisturbed \/ [](Of(db.ledger, "release", EnqueueCycle(j)) # {})

(* billing-generation-credits.ts says that a released reservation must not *)
(* be captured by a late worker, nor a reservation released twice.         *)
SettledOnce == \A c \in Cycles : Cardinality(Settlements(db.ledger, c)) <= 1

=============================================================================
