----------------------- MODULE BillingPersistenceProofs -----------------------
(***************************************************************************)
(* For any jobs, keys and requests, however reloads, writes, failed        *)
(* transactions and restarts interleave: an accepted job whose key is its  *)
(* own is debited in the database, a job that is done is paid, and the     *)
(* database holds the entry of every status it holds.                      *)
(***************************************************************************)
EXTENDS BillingPersistence, TLAPS

Ops == {"reserve", "capture", "release"}
Statuses == [Cycles -> {"none", "reserved", "captured", "released"}]
Keys == Cycles \union {Anonymous}
Entries == [type : Ops, key : Keys, cycle : Cycles]

Copies == [ledger : SUBSET Entries, status : Statuses, known : SUBSET (Ops \X Keys)]
Queues == [scheduled : Nat, writing : BOOLEAN, slice : SliceType]
Loads == [ledger : (SUBSET Entries) \union {NotRead}, status : Statuses \union {NotRead}]
Points == {"idle", "loading", "ready", "enqueuing", "undoing", "cancelling"}
Asked == [at : Points, job : Jobs \union {NoJob}, slice : SliceType]

(* A ledger that was read is part of the database's, which only grows; a   *)
(* request has a job from its enqueue or cancel to its answer.             *)
TypeInv ==
  /\ db \in SliceType
  /\ row \in [Jobs -> {"none", "refused", "queued", "running", "done", "failed", "cancelled"}]
  /\ mem \in [Processes -> Copies]
  /\ persist \in [Processes -> Queues]
  /\ load \in [Readers -> Loads]
  /\ \A x \in Readers : load[x].ledger # NotRead => load[x].ledger \in SUBSET db.ledger
  /\ request \in [Requests -> Asked]
  /\ \A n \in Requests : request[n].at \in {"enqueuing", "cancelling"} <=> request[n].job \in Jobs
  /\ work \in [Jobs -> {"none", "loading", "generating", "completing", "failing", "ended"}]

-----------------------------------------------------------------------------
(* What the operations do to a copy, a queue, a load, a request.           *)

\* A cycle of a job, as the API and as the worker resolves it, is a key.
LEMMA CycleTyped ==
  ASSUME NEW j \in Jobs
  PROVE  EnqueueCycle(j) \in Cycles /\ WorkerCycle(j) \in Keys
BY PersistenceAssumption DEF EnqueueCycle, WorkerCycle, Cycles, Keys

\* An empty slice is a slice.
LEMMA NoSliceTyped == NoSlice \in SliceType /\ Booted \in Copies
BY DEF NoSlice, Booted, SliceType, Copies, Statuses, Entries, Ops, Keys

\* The slice of a copy, and the copy a slice and remembered operations make.
LEMMA SliceOfCopy ==
  ASSUME NEW m \in Copies
  PROVE  [ledger |-> m.ledger, status |-> m.status] \in SliceType
BY DEF Copies, SliceType, Entries, Statuses, Ops, Keys

\* A transaction writes a slice, and removes nothing from the ledger.
LEMMA WrittenTyped ==
  ASSUME db \in SliceType, NEW s \in SliceType
  PROVE  /\ Written(s) \in SliceType
         /\ db.ledger \subseteq Written(s).ledger
BY DEF SliceType, Written

\* A merge gives the copy of the process what its two selects read.
LEMMA MergedCopy ==
  ASSUME TypeInv, NEW x \in Readers, Merge(x)
  PROVE  /\ ProcessOf(x) \in Processes
         /\ load[x].ledger \in SUBSET Entries /\ load[x].status \in Statuses
         /\ load[x].ledger \in SUBSET db.ledger
         /\ mem' = [mem EXCEPT ![ProcessOf(x)] =
              [ledger |-> load[x].ledger, status |-> load[x].status,
               known |-> mem[ProcessOf(x)].known]]
         /\ load' = [load EXCEPT ![x] = Unread]
<1> DEFINE p == ProcessOf(x)
<1>1. p \in Processes
  BY DEF ProcessOf, Processes
<1>2. load[x].ledger \in SUBSET Entries /\ load[x].status \in Statuses
  <2>1. load[x].ledger # NotRead /\ load[x].status # NotRead
    BY DEF Merge
  <2>2. load[x] \in Loads
    BY DEF TypeInv
  <2> QED
    BY <2>1, <2>2 DEF Loads
<1>3. mem' = [mem EXCEPT ![p].ledger = load[x].ledger, ![p].status = load[x].status]
  BY DEF Merge
<1>4. mem \in [Processes -> Copies]
  BY DEF TypeInv
<1>5. mem' = [mem EXCEPT ![p] =
         [ledger |-> load[x].ledger, status |-> load[x].status, known |-> mem[p].known]]
  <2> HIDE DEF p
  <2> DEFINE L == load[x].ledger
             S == load[x].status
             m1 == [mem EXCEPT ![p].ledger = L]
  <2>1. mem' = [m1 EXCEPT ![p].status = S]
    BY <1>3
  <2> HIDE DEF L, S
  <2>2. m1 \in [Processes -> [ledger : {mem[p].ledger, L} \union (SUBSET Entries),
                              status : Statuses, known : SUBSET (Ops \X Keys)]]
    BY <1>1, <1>4 DEF Copies
  <2>3. m1[p] = [ledger |-> L, status |-> mem[p].status, known |-> mem[p].known]
    BY <1>1, <1>4 DEF Copies
  <2>4. \A q \in Processes : q # p => m1[q] = mem[q]
    BY <1>1, <1>4 DEF Copies
  <2> HIDE DEF m1
  <2>5. mem' = [m1 EXCEPT ![p] = [ledger |-> L, status |-> S, known |-> mem[p].known]]
    <3>1. mem' = [m1 EXCEPT ![p] = [m1[p] EXCEPT !.status = S]]
      BY <2>1
    <3>2. [m1[p] EXCEPT !.status = S] = [ledger |-> L, status |-> S, known |-> mem[p].known]
      BY <2>3
    <3> QED
      BY <3>1, <3>2
  <2> QED
    BY <2>2, <2>4, <2>5, <1>1, <1>4 DEF L, S
<1> QED
  BY <1>1, <1>2, <1>5 DEF Merge, TypeInv

\* Reserving adds the cycle's entry and status, unless the process remembers it.
LEMMA ReservedCopy ==
  ASSUME mem \in [Processes -> Copies], NEW j \in Jobs
  PROVE  /\ Reserved(j) \in Copies
         /\ Reserved(j).known = mem["api"].known \union {<<"reserve", EnqueueCycle(j)>>}
         /\ mem["api"].ledger \subseteq Reserved(j).ledger
         /\ Reserved(j).ledger \subseteq
              mem["api"].ledger \union {Entry("reserve", EnqueueCycle(j), EnqueueCycle(j))}
         /\ \A c \in Cycles : Reserved(j).status[c] = mem["api"].status[c] \/
              /\ c = EnqueueCycle(j)
              /\ Reserved(j).status[c] = "reserved"
              /\ Entry("reserve", c, c) \in Reserved(j).ledger
         /\ ~Remembers("api", "reserve", EnqueueCycle(j)) =>
              Entry("reserve", EnqueueCycle(j), EnqueueCycle(j)) \in Reserved(j).ledger
<1> DEFINE c == EnqueueCycle(j)
           m == mem["api"]
           e == Entry("reserve", c, c)
<1>1. c \in Cycles
  BY CycleTyped
<1>2. m \in Copies
  BY DEF Processes
<1>3. e \in Entries /\ <<"reserve", c>> \in Ops \X Keys
  BY <1>1 DEF Entry, Entries, Ops, Keys
<1>4. CASE Remembers("api", "reserve", c)
  <2>1. Reserved(j) = m
    BY <1>4 DEF Reserved
  <2>2. <<"reserve", c>> \in m.known
    BY <1>4 DEF Remembers
  <2> QED
    BY <2>1, <2>2, <1>2, <1>4
<1>5. CASE ~Remembers("api", "reserve", c)
  <2>1. Reserved(j) = [ledger |-> m.ledger \union {e},
                       status |-> [m.status EXCEPT ![c] = "reserved"],
                       known |-> m.known \union {<<"reserve", c>>}]
    BY <1>5 DEF Reserved
  <2> HIDE DEF c, m, e
  <2>2. m.ledger \in SUBSET Entries /\ m.status \in Statuses /\ m.known \in SUBSET (Ops \X Keys)
    BY <1>2 DEF Copies
  <2>3. [m.status EXCEPT ![c] = "reserved"] \in Statuses
    BY <2>2, <1>1 DEF Statuses
  <2>4. Reserved(j) \in Copies
    BY <2>1, <2>2, <2>3, <1>3 DEF Copies
  <2>5. \A d \in Cycles : Reserved(j).status[d] = IF d = c THEN "reserved" ELSE m.status[d]
    BY <2>1, <2>2, <1>1 DEF Statuses
  <2>6. /\ Reserved(j).ledger = m.ledger \union {e}
        /\ Reserved(j).known = m.known \union {<<"reserve", c>>}
    BY <2>1
  <2> QED
    BY <2>4, <2>5, <2>6 DEF c, m, e
<1> QED
  BY <1>4, <1>5

\* The copy s keeps the money of the copy m, or settles the reservation of cycle c in it.
KeepsOrSettles(m, s, op, key, c) ==
  \/ s.ledger = m.ledger /\ s.status = m.status
  \/ /\ m.status[c] = "reserved"
     /\ s.ledger = m.ledger \union {Entry(op, key, c)}
     /\ s.status = [m.status EXCEPT ![c] = StatusAfter[op]]

\* Settling remembers the operation, and moves a reservation that is still reserved.
LEMMA SettledCopy ==
  ASSUME mem \in [Processes -> Copies], NEW p \in Processes, NEW op \in {"capture", "release"},
         NEW key \in Keys, NEW c \in Cycles
  PROVE  /\ Settled(p, op, key, c) \in Copies
         /\ Settled(p, op, key, c).known = mem[p].known \union {<<op, key>>}
         /\ KeepsOrSettles(mem[p], Settled(p, op, key, c), op, key, c)
<1> DEFINE m == mem[p]
           r == [m EXCEPT !.known = @ \union {<<op, key>>}]
           s == Settled(p, op, key, c)
           e == Entry(op, key, c)
<1>1. m \in Copies
  OBVIOUS
<1>2. e \in Entries /\ <<op, key>> \in Ops \X Keys
  BY DEF Entry, Entries, Ops
<1>3. m.ledger \in SUBSET Entries /\ m.status \in Statuses /\ m.known \in SUBSET (Ops \X Keys)
  BY <1>1 DEF Copies
<1>4. /\ r \in Copies /\ r.known = m.known \union {<<op, key>>}
      /\ r.ledger = m.ledger /\ r.status = m.status
  <2> HIDE DEF m
  <2> QED
    BY <1>1, <1>2 DEF Copies
<1>5. CASE Remembers(p, op, key) \/ m.status[c] # "reserved"
  <2>1. s = r
    BY <1>5 DEF Settled
  <2> HIDE DEF s, r
  <2> QED
    BY <2>1, <1>4 DEF s, KeepsOrSettles
<1>6. CASE ~(Remembers(p, op, key) \/ m.status[c] # "reserved")
  <2>1. s = [r EXCEPT !.ledger = @ \union {e}, !.status[c] = StatusAfter[op]]
    BY <1>6 DEF Settled
  <2> HIDE DEF m, r, s, e
  <2> DEFINE r1 == [r EXCEPT !.ledger = @ \union {e}]
  <2>2. s = [r1 EXCEPT !.status[c] = StatusAfter[op]]
    BY <2>1
  <2>3. /\ r1 \in Copies /\ r1.known = r.known /\ r1.status = r.status
        /\ r1.ledger = m.ledger \union {e}
    BY <1>4, <1>3, <1>2 DEF Copies
  <2> HIDE DEF r1
  <2>4. StatusAfter[op] \in {"captured", "released"}
    BY DEF StatusAfter
  <2>5. [m.status EXCEPT ![c] = StatusAfter[op]] \in Statuses
    BY <1>3, <2>4 DEF Statuses
  <2>6. s = [r1 EXCEPT !.status = [m.status EXCEPT ![c] = StatusAfter[op]]]
    BY <2>2, <2>3, <1>4
  <2>7. /\ s \in Copies /\ s.known = r1.known /\ s.ledger = r1.ledger
        /\ s.status = [m.status EXCEPT ![c] = StatusAfter[op]]
    BY <2>3, <2>5, <2>6 DEF Copies
  <2> QED
    BY <2>7, <2>3, <1>4, <1>6 DEF s, m, e, KeepsOrSettles
<1> QED
  BY <1>5, <1>6

\* A request that moves on keeps its job and its slice.
LEMMA MovedRequest ==
  ASSUME request \in [Requests -> Asked], NEW n \in Requests, NEW at \in Points,
         request' = [request EXCEPT ![n].at = at]
  PROVE  /\ request' \in [Requests -> Asked]
         /\ request'[n].at = at /\ request'[n].job = request[n].job
         /\ request'[n].slice = request[n].slice
         /\ \A m \in Requests : m # n => request'[m] = request[m]
BY DEF Asked

\* A request that is over, or whose enqueue is undone, asks for nothing.
LEMMA IdleAsked ==
  /\ Idle \in Asked /\ Idle.at = "idle" /\ Idle.job \notin Jobs
  /\ [Idle EXCEPT !.at = "undoing"] \in Asked
  /\ [Idle EXCEPT !.at = "undoing"].at = "undoing"
  /\ [Idle EXCEPT !.at = "undoing"].job \notin Jobs
  /\ Idle.slice = NoSlice /\ [Idle EXCEPT !.at = "undoing"].slice = NoSlice
BY NoSliceTyped, PersistenceAssumption DEF Idle, Asked, Points

\* Scheduling, closing: a queue stays a queue, and only a closing changes its slice.
LEMMA QueueMoves ==
  ASSUME persist \in [Processes -> Queues], NEW p \in Processes
  PROVE  /\ Schedule(p) =>
              /\ persist' \in [Processes -> Queues]
              /\ \A q \in Processes : persist'[q].slice = persist[q].slice
         /\ Closed(p) \in [Processes -> Queues]
         /\ Closed(p)[p].slice = NoSlice
         /\ \A q \in Processes : q # p => Closed(p)[q] = persist[q]
<1>1. ASSUME Schedule(p)
      PROVE  /\ persist' \in [Processes -> Queues]
             /\ \A q \in Processes : persist'[q].slice = persist[q].slice
  BY <1>1 DEF Schedule, Queues
<1>2. /\ Closed(p) \in [Processes -> Queues]
      /\ Closed(p)[p].slice = NoSlice
      /\ \A q \in Processes : q # p => Closed(p)[q] = persist[q]
  <2> DEFINE P == [persist EXCEPT ![p].writing = FALSE]
  <2>1. Closed(p) = [P EXCEPT ![p].slice = NoSlice]
    BY DEF Closed
  <2>2. P \in [Processes -> Queues] /\ \A q \in Processes : q # p => P[q] = persist[q]
    BY DEF Queues
  <2> HIDE DEF P
  <2>3. NoSlice \in SliceType
    BY NoSliceTyped
  <2> QED
    BY <2>1, <2>2, <2>3 DEF Queues
<1> QED
  BY <1>1, <1>2

\* The queue that begins a write takes the slice of the copy.
LEMMA QueueBegins ==
  ASSUME persist \in [Processes -> Queues], mem \in [Processes -> Copies],
         NEW p \in Processes, PersistBegins(p)
  PROVE  /\ persist' \in [Processes -> Queues]
         /\ persist'[p].slice = Slice(p) /\ Slice(p) \in SliceType
         /\ \A q \in Processes : q # p => persist'[q] = persist[q]
<1>1. Slice(p) \in SliceType
  BY SliceOfCopy DEF Slice
<1>2. persist' = [persist EXCEPT ![p] =
         [scheduled |-> persist[p].scheduled - 1, writing |-> TRUE, slice |-> Slice(p)]]
  BY DEF PersistBegins
<1>3. persist[p].scheduled - 1 \in Nat
  BY DEF PersistBegins, Queues
<1> HIDE DEF Slice
<1>4. [scheduled |-> persist[p].scheduled - 1, writing |-> TRUE, slice |-> Slice(p)] \in Queues
  BY <1>1, <1>3 DEF Queues
<1> QED
  BY <1>1, <1>2, <1>4

\* The empty load.
LEMMA UnreadLoad ==
  Unread \in Loads /\ Unread.ledger = NotRead /\ Unread.status = NotRead
BY DEF Unread, Loads

-----------------------------------------------------------------------------
(* The types.                                                              *)

\* The empty database, two booted processes and idle requests.
LEMMA InitTypes == Init => TypeInv
<1> SUFFICES ASSUME Init PROVE TypeInv
  OBVIOUS
<1>1. NoSlice \in SliceType /\ Booted \in Copies /\ Quiet \in Queues
  BY NoSliceTyped DEF Quiet, Queues
<1> QED
  BY <1>1, IdleAsked, UnreadLoad DEF Init, TypeInv

\* A select answers from the database, and the reload that failed is dropped.
LEMMA ReadTypes ==
  ASSUME TypeInv, NEW x \in Readers,
         ReadLedger(x) \/ ReadReservations(x) \/ ReloadFails(x)
  PROVE  TypeInv'
<1>1. CASE ReadLedger(x)
  <2>1. db.ledger \in SUBSET Entries
    BY DEF TypeInv, SliceType, Entries, Ops, Keys
  <2>2. /\ load' \in [Readers -> Loads]
        /\ \A y \in Readers : load'[y].ledger = IF y = x THEN db.ledger ELSE load[y].ledger
    BY <1>1, <2>1 DEF ReadLedger, TypeInv, Loads
  <2> QED
    BY <1>1, <2>2 DEF ReadLedger, TypeInv
<1>2. CASE ReadReservations(x)
  <2>1. db.status \in Statuses
    BY DEF TypeInv, SliceType, Statuses
  <2>2. /\ load' \in [Readers -> Loads]
        /\ \A y \in Readers : load'[y].ledger = load[y].ledger
    BY <1>2, <2>1 DEF ReadReservations, TypeInv, Loads
  <2> QED
    BY <1>2, <2>2 DEF ReadReservations, TypeInv
<1>3. CASE ReloadFails(x)
  <2>1. /\ load' \in [Readers -> Loads]
        /\ \A y \in Readers : load'[y] = IF y = x THEN Unread ELSE load[y]
    BY <1>3, UnreadLoad DEF ReloadFails, TypeInv
  <2>2. \A y \in Readers : load'[y].ledger # NotRead => load'[y].ledger \in SUBSET db.ledger
    BY <2>1, UnreadLoad DEF TypeInv
  <2>3. CASE x \in Jobs
    BY <1>3, <2>1, <2>2, <2>3 DEF ReloadFails, TypeInv
  <2>4. CASE x \notin Jobs
    <3>1. x \in Requests /\ request' = [request EXCEPT ![x] = Idle] /\ UNCHANGED work
      BY <1>3, <2>4 DEF ReloadFails, Readers
    <3> QED
      BY <1>3, <2>1, <2>2, <3>1, IdleAsked DEF ReloadFails, TypeInv
  <2> QED
    BY <2>3, <2>4
<1> QED
  BY <1>1, <1>2, <1>3

\* The queue of writes moves.
LEMMA PersistTypes ==
  ASSUME TypeInv, NEW p \in Processes, PersistStep(p) \/ PersistFails(p)
  PROVE  TypeInv'
<1>1. CASE PersistBegins(p)
  BY <1>1, QueueBegins DEF PersistBegins, TypeInv
<1>2. CASE PersistCommits(p)
  <2>1. persist[p].slice \in SliceType
    BY DEF TypeInv, Queues
  <2>2. db' \in SliceType /\ db.ledger \subseteq db'.ledger
    BY <1>2, <2>1, WrittenTyped DEF PersistCommits, TypeInv
  <2>3. persist' \in [Processes -> Queues]
    BY <1>2, QueueMoves DEF PersistCommits, TypeInv
  <2> QED
    BY <1>2, <2>2, <2>3 DEF PersistCommits, TypeInv
<1>3. CASE PersistFails(p)
  BY <1>3, QueueMoves DEF PersistFails, TypeInv
<1> QED
  BY <1>1, <1>2, <1>3 DEF PersistStep

\* A cancel gives the request its job.
LEMMA CancellingRequest ==
  ASSUME request \in [Requests -> Asked], NEW n \in Requests, NEW j \in Jobs,
         request' = [request EXCEPT ![n].at = "cancelling", ![n].job = j]
  PROVE  /\ request' \in [Requests -> Asked]
         /\ request'[n].at = "cancelling" /\ request'[n].job = j
         /\ request'[n].slice = request[n].slice
         /\ \A m \in Requests : m # n => request'[m] = request[m]
<1> DEFINE R == [request EXCEPT ![n].at = "cancelling"]
<1>1. request' = [R EXCEPT ![n].job = j]
  OBVIOUS
<1>2. /\ R \in [Requests -> Asked]
      /\ R[n] = [at |-> "cancelling", job |-> request[n].job, slice |-> request[n].slice]
      /\ \A m \in Requests : m # n => R[m] = request[m]
  BY DEF Asked, Points
<1> HIDE DEF R
<1> DEFINE r == [at |-> "cancelling", job |-> j, slice |-> request[n].slice]
<1>3. [R[n] EXCEPT !.job = j] = r
  BY <1>2
<1>4. request' = [R EXCEPT ![n] = r]
  BY <1>1, <1>3
<1>5. r \in Asked
  BY DEF Asked, Points
<1>6. r.at = "cancelling" /\ r.job = j /\ r.slice = request[n].slice
  OBVIOUS
<1> HIDE DEF r
<1> QED
  BY <1>2, <1>4, <1>5, <1>6, ZenonT(45)

\* A request that takes no credits: it arrives, is loaded, answers.
LEMMA RequestTypes ==
  ASSUME TypeInv, NEW n \in Requests, RequestArrives(n) \/ RequestLoaded(n) \/ RequestEnds(n)
  PROVE  TypeInv'
<1>1. CASE RequestArrives(n)
  <2>1. request' = [request EXCEPT ![n].at = "loading"] /\ request[n].at = "idle"
    BY <1>1 DEF RequestArrives, At
  <2> QED
    BY <1>1, <2>1, MovedRequest DEF RequestArrives, TypeInv, Points
<1>2. CASE RequestLoaded(n)
  <2>1. n \in Readers /\ Merge(n)
    BY <1>2 DEF RequestLoaded, Readers
  <2> DEFINE p == ProcessOf(n)
             m == [ledger |-> load[n].ledger, status |-> load[n].status, known |-> mem[p].known]
  <2>2. /\ p \in Processes
        /\ load[n].ledger \in SUBSET Entries /\ load[n].status \in Statuses
        /\ mem' = [mem EXCEPT ![p] = m]
        /\ load' = [load EXCEPT ![n] = Unread]
    BY <2>1, MergedCopy
  <2>3. m \in Copies
    BY <2>2 DEF TypeInv, Copies
  <2> HIDE DEF p, m
  <2>4. mem' \in [Processes -> Copies]
    BY <2>2, <2>3 DEF TypeInv
  <2>5. load' \in [Readers -> Loads]
    BY <2>1, <2>2, UnreadLoad DEF TypeInv
  <2>6. \A y \in Readers : load'[y].ledger # NotRead => load'[y].ledger \in SUBSET db.ledger
    BY <2>1, <2>2, UnreadLoad DEF TypeInv
  <2>7. request[n].at \in {"loading", "undoing"} /\ n \notin Jobs
    BY <2>1, PersistenceAssumption DEF Merge, Loading
  <2>8. CASE request[n].at = "undoing"
    BY <1>2, <2>4, <2>5, <2>6, <2>8, IdleAsked DEF RequestLoaded, TypeInv
  <2>9. CASE request[n].at # "undoing"
    <3>1. request' = [request EXCEPT ![n].at = "ready"]
      BY <1>2, <2>9 DEF RequestLoaded, At
    <3>2. /\ request' \in [Requests -> Asked]
          /\ \A i \in Requests :
               request'[i].at \in {"enqueuing", "cancelling"} <=> request'[i].job \in Jobs
      <4>1. /\ request' \in [Requests -> Asked]
            /\ request'[n].at = "ready" /\ request'[n].job = request[n].job
            /\ \A k \in Requests : k # n => request'[k] = request[k]
        BY <3>1, MovedRequest DEF TypeInv, Points
      <4> QED
        BY <4>1, <2>7 DEF TypeInv
    <3> QED
      BY <1>2, <2>4, <2>5, <2>6, <3>2 DEF RequestLoaded, TypeInv
  <2> QED
    BY <2>8, <2>9
<1>3. CASE RequestEnds(n)
  BY <1>3, IdleAsked DEF RequestEnds, TypeInv
<1> QED
  BY <1>1, <1>2, <1>3

\* The slice an enqueue takes with it is the API's after the reserve.
LEMMA EnqueuedSlice ==
  ASSUME TypeInv, NEW n \in Requests, NEW j \in Jobs, Enqueue(n, j)
  PROVE  /\ [ledger |-> Reserved(j).ledger, status |-> Reserved(j).status] \in SliceType
         /\ mem' = [mem EXCEPT !["api"] = Reserved(j)]
         /\ mem' \in [Processes -> Copies]
         /\ request' \in [Requests -> Asked]
         /\ request'[n].at = "enqueuing" /\ request'[n].job = j
         /\ request'[n].slice = [ledger |-> Reserved(j).ledger, status |-> Reserved(j).status]
         /\ \A m \in Requests : m # n => request'[m] = request[m]
<1>1. Reserved(j) \in Copies
  BY ReservedCopy DEF TypeInv
<1>2. mem' = [mem EXCEPT !["api"] = Reserved(j)]
  BY DEF Enqueue
<1> DEFINE s == [ledger |-> Reserved(j).ledger, status |-> Reserved(j).status]
<1>3. s \in SliceType
  BY <1>1, SliceOfCopy
<1>4. request' = [request EXCEPT ![n] = [at |-> "enqueuing", job |-> j, slice |-> s]]
  BY DEF Enqueue
<1> HIDE DEF s
<1>5. [at |-> "enqueuing", job |-> j, slice |-> s] \in Asked
  BY <1>3 DEF Asked, Points
<1>6. /\ request' \in [Requests -> Asked]
      /\ request'[n].at = "enqueuing" /\ request'[n].job = j /\ request'[n].slice = s
      /\ \A m \in Requests : m # n => request'[m] = request[m]
  BY <1>4, <1>5 DEF TypeInv
<1> QED
  BY <1>1, <1>2, <1>3, <1>6 DEF TypeInv, s

\* An enqueue, its commit and its rollback.
LEMMA EnqueueTypes ==
  ASSUME TypeInv, NEW n \in Requests,
         EnqueueCommits(n) \/ EnqueueFails(n) \/ \E j \in Jobs : Enqueue(n, j)
  PROVE  TypeInv'
<1>1. ASSUME NEW j \in Jobs, Enqueue(n, j)
      PROVE  TypeInv'
  <2>1. /\ mem' \in [Processes -> Copies]
        /\ request' \in [Requests -> Asked]
        /\ request'[n].at = "enqueuing" /\ request'[n].job = j
        /\ \A m \in Requests : m # n => request'[m] = request[m]
    BY <1>1, EnqueuedSlice
  <2> QED
    BY <1>1, <2>1 DEF Enqueue, TypeInv
<1>2. CASE EnqueueCommits(n)
  <2>1. request[n].slice \in SliceType
    BY DEF TypeInv, Asked
  <2>2. db' \in SliceType /\ db.ledger \subseteq db'.ledger
    BY <1>2, <2>1, WrittenTyped DEF EnqueueCommits, TypeInv
  <2> QED
    BY <1>2, <2>2, IdleAsked DEF EnqueueCommits, TypeInv
<1>3. CASE EnqueueFails(n)
  BY <1>3, IdleAsked DEF EnqueueFails, TypeInv
<1> QED
  BY <1>1, <1>2, <1>3

\* What a settlement leaves of the copies and the queues.
LEMMA SettleMoves ==
  ASSUME TypeInv, NEW p \in Processes, NEW op \in {"capture", "release"}, NEW key \in Keys,
         NEW c \in Cycles, Settle(p, op, key, c)
  PROVE  /\ mem' = [mem EXCEPT ![p] = Settled(p, op, key, c)]
         /\ mem' \in [Processes -> Copies]
         /\ persist' \in [Processes -> Queues]
         /\ \A q \in Processes : persist'[q].slice = persist[q].slice
<1>1. Settled(p, op, key, c) \in Copies
  BY SettledCopy DEF TypeInv
<1>2. mem' = [mem EXCEPT ![p] = Settled(p, op, key, c)]
  BY DEF Settle
<1>3. persist' = persist \/ Schedule(p)
  BY DEF Settle
<1>4. /\ persist' \in [Processes -> Queues]
      /\ \A q \in Processes : persist'[q].slice = persist[q].slice
  BY <1>3, QueueMoves DEF TypeInv
<1> QED
  BY <1>1, <1>2, <1>4 DEF TypeInv

\* The release of a cancel is of the request's job.
LEMMA CancelSettles ==
  ASSUME TypeInv, NEW n \in Requests, CancelReleases(n)
  PROVE  \E j \in Jobs : /\ request[n].job = j /\ EnqueueCycle(j) \in Cycles /\ j \in Keys
                         /\ Settle("api", "release", j, EnqueueCycle(j))
<1>1. request[n].job \in Jobs
  BY DEF CancelReleases, TypeInv
<1> QED
  BY <1>1, CycleTyped DEF CancelReleases, Keys, Cycles

\* A cancel, its release, and a release that does not find the reservation.
LEMMA CancelTypes ==
  ASSUME TypeInv, NEW n \in Requests,
         CancelReleases(n) \/ CancelReleaseFails(n) \/ \E j \in Jobs : CancelJob(n, j)
  PROVE  TypeInv'
<1>1. ASSUME NEW j \in Jobs, CancelJob(n, j)
      PROVE  TypeInv'
  <2>1. request' = [request EXCEPT ![n].at = "cancelling", ![n].job = j]
    BY <1>1 DEF CancelJob
  <2>2. /\ request' \in [Requests -> Asked]
        /\ request'[n].at = "cancelling" /\ request'[n].job = j
        /\ \A m \in Requests : m # n => request'[m] = request[m]
    BY <2>1, CancellingRequest DEF TypeInv
  <2> QED
    BY <1>1, <2>2 DEF CancelJob, TypeInv
<1>2. CASE CancelReleases(n)
  <2>1. PICK j \in Jobs : Settle("api", "release", j, EnqueueCycle(j)) /\ j \in Keys
                          /\ EnqueueCycle(j) \in Cycles
    BY <1>2, CancelSettles
  <2>2. "api" \in Processes
    BY DEF Processes
  <2>3. mem' \in [Processes -> Copies] /\ persist' \in [Processes -> Queues]
    BY <2>1, <2>2, SettleMoves
  <2> QED
    BY <1>2, <2>3, IdleAsked DEF CancelReleases, TypeInv
<1>3. CASE CancelReleaseFails(n)
  BY <1>3, IdleAsked DEF CancelReleaseFails, TypeInv
<1> QED
  BY <1>1, <1>2, <1>3

\* A job of the worker, from its claim to its end.
LEMMA WorkerTypes ==
  ASSUME TypeInv, NEW j \in Jobs, WorkerStep(j)
  PROVE  TypeInv'
<1> USE DEF Works
<1>1. CASE Claim(j)
  BY <1>1 DEF Claim, TypeInv
<1>2. CASE JobLoaded(j)
  <2>1. j \in Readers /\ Merge(j)
    BY <1>2 DEF JobLoaded, Readers
  <2> DEFINE p == ProcessOf(j)
             m == [ledger |-> load[j].ledger, status |-> load[j].status, known |-> mem[p].known]
  <2>2. /\ p \in Processes
        /\ load[j].ledger \in SUBSET Entries /\ load[j].status \in Statuses
        /\ mem' = [mem EXCEPT ![p] = m]
        /\ load' = [load EXCEPT ![j] = Unread]
    BY <2>1, MergedCopy
  <2>3. m \in Copies
    BY <2>2 DEF TypeInv, Copies
  <2> HIDE DEF p, m
  <2>4. mem' \in [Processes -> Copies]
    BY <2>2, <2>3 DEF TypeInv
  <2>5. /\ load' \in [Readers -> Loads]
        /\ \A y \in Readers : load'[y].ledger # NotRead => load'[y].ledger \in SUBSET db.ledger
    BY <2>1, <2>2, UnreadLoad DEF TypeInv
  <2> QED
    BY <1>2, <2>4, <2>5 DEF JobLoaded, TypeInv
<1>3. CASE CaptureCredits(j) \/ ReleaseCredits(j)
  <2>1. PICK op \in {"capture", "release"} :
          Settle("worker", op, WorkerCycle(j), EnqueueCycle(j))
    BY <1>3 DEF CaptureCredits, ReleaseCredits
  <2>2. "worker" \in Processes
    BY DEF Processes
  <2>3. mem' \in [Processes -> Copies] /\ persist' \in [Processes -> Queues]
    BY <2>1, <2>2, CycleTyped, SettleMoves
  <2>4. work' \in [Jobs -> {"none", "loading", "generating", "completing", "failing", "ended"}]
    BY <1>3 DEF CaptureCredits, ReleaseCredits, TypeInv
  <2> QED
    BY <1>3, <2>3, <2>4 DEF CaptureCredits, ReleaseCredits, TypeInv
<1>4. CASE SettlementFails(j)
  BY <1>4 DEF SettlementFails, TypeInv
<1>5. CASE JobEnds(j)
  BY <1>5 DEF JobEnds, TypeInv
<1> QED
  BY <1>1, <1>2, <1>3, <1>4, <1>5 DEF WorkerStep

\* A restart leaves the database and the other process alone.
LEMMA RestartTypes ==
  ASSUME TypeInv, NEW p \in Processes, Restart(p)
  PROVE  TypeInv'
<1>1. /\ mem' \in [Processes -> Copies]
      /\ persist' \in [Processes -> Queues]
  BY NoSliceTyped DEF Restart, TypeInv, Quiet, Queues
<1>2. load' = [x \in Readers |-> IF ProcessOf(x) = p THEN Unread ELSE load[x]]
  BY DEF Restart
<1>3. /\ load' \in [Readers -> Loads]
      /\ \A y \in Readers : load'[y].ledger # NotRead => load'[y].ledger \in SUBSET db.ledger
  BY <1>2, UnreadLoad DEF TypeInv
<1>4. /\ request' \in [Requests -> Asked]
      /\ \A n \in Requests :
           request'[n].at \in {"enqueuing", "cancelling"} <=> request'[n].job \in Jobs
  BY IdleAsked DEF Restart, TypeInv
<1>5. /\ row' \in [Jobs -> {"none", "refused", "queued", "running", "done", "failed", "cancelled"}]
      /\ work' \in [Jobs -> {"none", "loading", "generating", "completing", "failing", "ended"}]
  BY DEF Restart, TypeInv
<1> QED
  BY <1>1, <1>3, <1>4, <1>5 DEF Restart, TypeInv

\* Every step keeps the types.
LEMMA StepTypes == TypeInv /\ [Next]_vars => TypeInv'
<1> SUFFICES ASSUME TypeInv, [Next]_vars PROVE TypeInv'
  OBVIOUS
<1>1. CASE UNCHANGED vars
  BY <1>1 DEF vars, TypeInv
<1>2. CASE Next
  BY <1>2, ReadTypes, PersistTypes, RequestTypes, EnqueueTypes, CancelTypes, WorkerTypes,
     RestartTypes DEF Next, RequestStep
<1> QED
  BY <1>1, <1>2

\* The strengthened types say what the model's type invariant says.
LEMMA TypesSuffice == TypeInv => TypeOK
<1> SUFFICES ASSUME TypeInv PROVE TypeOK
  OBVIOUS
<1>1. \A p \in Processes :
        /\ Slice(p) \in SliceType
        /\ mem[p].known \subseteq Ops \X Keys
        /\ persist[p].scheduled \in Nat
        /\ persist[p].writing \in BOOLEAN
        /\ persist[p].slice \in SliceType
  <2> SUFFICES ASSUME NEW p \in Processes
               PROVE  /\ Slice(p) \in SliceType
                      /\ mem[p].known \subseteq Ops \X Keys
                      /\ persist[p].scheduled \in Nat
                      /\ persist[p].writing \in BOOLEAN
                      /\ persist[p].slice \in SliceType
    OBVIOUS
  <2>1. mem[p] \in Copies /\ persist[p] \in Queues
    BY DEF TypeInv
  <2>2. Slice(p) \in SliceType
    BY <2>1, SliceOfCopy DEF Slice
  <2>3. mem[p].known \subseteq Ops \X Keys
    BY <2>1 DEF Copies
  <2> QED
    BY <2>1, <2>2, <2>3 DEF Queues
<1>2. \A x \in Readers : load[x].status # NotRead =>
        load[x].status \in [Cycles -> {"none", "reserved", "captured", "released"}]
  BY DEF TypeInv, Loads, Statuses
<1>3. \A n \in Requests :
        /\ request[n].at \in {"idle", "loading", "ready", "enqueuing", "undoing", "cancelling"}
        /\ request[n].job \in Jobs \union {NoJob}
        /\ request[n].slice \in SliceType
  BY DEF TypeInv, Asked, Points
<1> QED
  BY <1>1, <1>2, <1>3 DEF TypeInv, TypeOK, Ops, Keys

\* Whatever is loaded, written, lost and restarted, the copies, the queues, the requests
\* and the jobs hold values of their kinds, and a ledger that was read is part of the
\* database's.
THEOREM PersistenceTypeCorrect == Spec => []TypeOK
<1>1. Spec => []TypeInv
  BY InitTypes, StepTypes, PTL DEF Spec
<1> QED
  BY <1>1, TypesSuffice, PTL

-----------------------------------------------------------------------------
(* Every status has its entries.  The key of an entry tells its cycle, but *)
(* for the one key all jobs without a key settle under: a ledger that      *)
(* skips an entry whose key it has keeps what it stands for only if one    *)
(* such job is all there is.                                               *)

OneKeyless == \A i, j \in Jobs : KeyOf[i] = NoKey /\ KeyOf[j] = NoKey => i = j

SettledUnder(key, c) ==
  /\ key \in ClientKeys => c = key
  /\ key \in Jobs => c = EnqueueCycle(key)
  /\ key = Anonymous => c \in Jobs /\ KeyOf[c] = NoKey

Named(ledger) ==
  \A e \in ledger : IF e.type = "reserve" THEN e.key = e.cycle ELSE SettledUnder(e.key, e.cycle)

Backs(ledger, type, c) == \E e \in ledger : e.type = type /\ e.cycle = c

Held(status, ledger) ==
  \A c \in Cycles :
    /\ status[c] # "none" => Backs(ledger, "reserve", c)
    /\ OneKeyless /\ status[c] = "captured" => Backs(ledger, "capture", c)
    /\ OneKeyless /\ status[c] = "released" => Backs(ledger, "release", c)

Sound(slice, ledger) == Named(slice.ledger) /\ Held(slice.status, slice.ledger \union ledger)

(* The entries of a copy's statuses are in the copy or in the database; of *)
(* the worker's reservations, which it never makes, in the database.       *)
SliceInv ==
  /\ Named(db.ledger) /\ Held(db.status, db.ledger)
  /\ \A x \in Readers : load[x].status # NotRead => Held(load[x].status, db.ledger)
  /\ \A p \in Processes : Sound(mem[p], db.ledger) /\ Sound(persist[p].slice, db.ledger)
  /\ \A n \in Requests : Sound(request[n].slice, db.ledger)
  /\ \A c \in Cycles : mem["worker"].status[c] # "none" => Backs(db.ledger, "reserve", c)

\* A larger ledger backs what a smaller one does.
LEMMA HeldGrows ==
  ASSUME NEW status, NEW L, NEW M, L \subseteq M, Held(status, L)
  PROVE  Held(status, M)
BY DEF Held, Backs

\* And so it is with a slice.
LEMMA SoundGrows ==
  ASSUME NEW s, NEW L, NEW M, L \subseteq M, Sound(s, L)
  PROVE  Sound(s, M)
<1>1. s.ledger \union L \subseteq s.ledger \union M
  OBVIOUS
<1> QED
  BY <1>1, HeldGrows DEF Sound

\* Nothing is held where there is nothing.
LEMMA NothingHeld ==
  ASSUME NEW L
  PROVE  Sound(NoSlice, L) /\ Sound(Booted, L) /\ Held(NoSlice.status, L) /\ Named(NoSlice.ledger)
BY DEF Sound, NoSlice, Booted, Named, Held

\* Two entries under one key are about one cycle.
LEMMA KeyTellsCycle ==
  ASSUME NEW e \in Entries, NEW d \in Entries, SameKey(d, e), Named({d, e}),
         e.type = "reserve" \/ OneKeyless
  PROVE  d.cycle = e.cycle
<1>1. d.type = e.type /\ d.key = e.key
  BY DEF SameKey
<1>2. CASE e.type = "reserve"
  BY <1>1, <1>2 DEF Named
<1>3. CASE e.type # "reserve"
  <2>1. SettledUnder(e.key, e.cycle) /\ SettledUnder(e.key, d.cycle) /\ OneKeyless
    BY <1>1, <1>3 DEF Named
  <2>2. e.key \in Jobs \/ e.key \in ClientKeys \/ e.key = Anonymous
    BY DEF Entries, Keys, Cycles
  <2> QED
    BY <2>1, <2>2 DEF SettledUnder, OneKeyless
<1> QED
  BY <1>2, <1>3

\* What a transaction writes is named, and backs what its slice and the database backed.
LEMMA WrittenBacks ==
  ASSUME db \in SliceType, NEW s \in SliceType, Named(db.ledger), Named(s.ledger)
  PROVE  /\ Named(Written(s).ledger)
         /\ \A c \in Cycles, t \in Ops :
              (t = "reserve" \/ OneKeyless) /\ Backs(s.ledger \union db.ledger, t, c) =>
                Backs(Written(s).ledger, t, c)
<1>1. s.ledger \in SUBSET Entries /\ db.ledger \in SUBSET Entries
  BY DEF SliceType, Entries, Ops, Keys
<1>2. Written(s).ledger = db.ledger \union {e \in s.ledger : \A d \in db.ledger : ~SameKey(d, e)}
  BY DEF Written
<1>3. Named(Written(s).ledger)
  BY <1>2 DEF Named
<1>4. ASSUME NEW c \in Cycles, NEW t \in Ops, t = "reserve" \/ OneKeyless,
             Backs(s.ledger \union db.ledger, t, c)
      PROVE  Backs(Written(s).ledger, t, c)
  <2>1. PICK e \in s.ledger \union db.ledger : e.type = t /\ e.cycle = c
    BY <1>4 DEF Backs
  <2>2. CASE e \in Written(s).ledger
    BY <2>1, <2>2 DEF Backs
  <2>3. CASE e \notin Written(s).ledger
    <3>1. PICK d \in db.ledger : SameKey(d, e)
      BY <2>3, <1>2
    <3>2. Named({d, e}) /\ d \in Entries /\ e \in Entries
      BY <2>3, <1>1, <1>2 DEF Named
    <3>3. d.cycle = e.cycle /\ d.type = e.type
      BY <3>1, <3>2, <2>1, <1>4, KeyTellsCycle DEF SameKey
    <3> QED
      BY <3>3, <2>1, <1>2 DEF Backs
  <2> QED
    BY <2>2, <2>3
<1> QED
  BY <1>3, <1>4

\* A transaction leaves a database that holds the entries of its statuses.
LEMMA WrittenHeld ==
  ASSUME db \in SliceType, NEW s \in SliceType, Named(db.ledger), Held(db.status, db.ledger),
         Sound(s, db.ledger)
  PROVE  Named(Written(s).ledger) /\ Held(Written(s).status, Written(s).ledger)
<1>1. /\ Named(Written(s).ledger)
      /\ \A c \in Cycles, t \in Ops :
           (t = "reserve" \/ OneKeyless) /\ Backs(s.ledger \union db.ledger, t, c) =>
             Backs(Written(s).ledger, t, c)
  BY WrittenBacks DEF Sound
<1>2. db.ledger \subseteq Written(s).ledger
  BY WrittenTyped
<1>3. \A c \in Cycles : Written(s).status[c] =
        IF s.status[c] = "none" THEN db.status[c] ELSE s.status[c]
  BY DEF Written
<1>4. Held(db.status, Written(s).ledger)
  BY <1>2, HeldGrows
<1>5. \A c \in Cycles :
        /\ s.status[c] # "none" => Backs(Written(s).ledger, "reserve", c)
        /\ OneKeyless /\ s.status[c] = "captured" => Backs(Written(s).ledger, "capture", c)
        /\ OneKeyless /\ s.status[c] = "released" => Backs(Written(s).ledger, "release", c)
  BY <1>1 DEF Sound, Held, Ops
<1> HIDE DEF Written
<1> QED
  BY <1>1, <1>3, <1>4, <1>5 DEF Held

\* A job settles under its key.
LEMMA SettledUnderKey ==
  ASSUME NEW j \in Jobs
  PROVE  SettledUnder(WorkerCycle(j), EnqueueCycle(j)) /\ SettledUnder(j, EnqueueCycle(j))
BY PersistenceAssumption DEF SettledUnder, WorkerCycle, EnqueueCycle

\* A reserve leaves a sound copy.
LEMMA ReservedSound ==
  ASSUME mem \in [Processes -> Copies], NEW j \in Jobs, NEW L, Sound(mem["api"], L)
  PROVE  Sound(Reserved(j), L)
<1> DEFINE r == Reserved(j)
           m == mem["api"]
           e == Entry("reserve", EnqueueCycle(j), EnqueueCycle(j))
<1>1. /\ m.ledger \subseteq r.ledger /\ r.ledger \subseteq m.ledger \union {e}
      /\ \A c \in Cycles : r.status[c] = m.status[c] \/
           /\ c = EnqueueCycle(j)
           /\ r.status[c] = "reserved"
           /\ Entry("reserve", c, c) \in r.ledger
  BY ReservedCopy
<1> HIDE DEF r, m
<1>2. Named(r.ledger)
  BY <1>1 DEF Named, Sound, Entry, m
<1>3. Held(m.status, r.ledger \union L)
  <2>1. m.ledger \union L \subseteq r.ledger \union L
    BY <1>1
  <2> QED
    BY <2>1, HeldGrows DEF Sound, m
<1>4. \A c \in Cycles : Entry("reserve", c, c) \in r.ledger =>
        Backs(r.ledger \union L, "reserve", c)
  BY DEF Backs, Entry
<1>5. Held(r.status, r.ledger \union L)
  BY <1>1, <1>3, <1>4 DEF Held
<1> QED
  BY <1>2, <1>5 DEF Sound, r

\* A settlement leaves a sound copy, and makes no reservation.
LEMMA SettledSound ==
  ASSUME mem \in [Processes -> Copies], NEW p \in Processes, NEW op \in {"capture", "release"},
         NEW key \in Keys, NEW c \in Cycles, SettledUnder(key, c), NEW L, Sound(mem[p], L)
  PROVE  /\ Sound(Settled(p, op, key, c), L)
         /\ \A d \in Cycles :
              Settled(p, op, key, c).status[d] = "none" <=> mem[p].status[d] = "none"
<1>1. KeepsOrSettles(mem[p], Settled(p, op, key, c), op, key, c)
  BY SettledCopy
<1> DEFINE s == Settled(p, op, key, c)
           m == mem[p]
           e == Entry(op, key, c)
<1>2. m.status \in Statuses
  BY DEF Copies
<1> HIDE DEF s, m
<1>3. CASE s.ledger = m.ledger /\ s.status = m.status
  BY <1>3 DEF Sound, s, m
<1>4. CASE /\ m.status[c] = "reserved" /\ s.ledger = m.ledger \union {e}
           /\ s.status = [m.status EXCEPT ![c] = StatusAfter[op]]
  <2>1. Named(s.ledger)
    BY <1>4 DEF Named, Sound, Entry, m
  <2>2. Held(m.status, s.ledger \union L)
    <3>1. m.ledger \union L \subseteq s.ledger \union L
      BY <1>4
    <3> QED
      BY <3>1, HeldGrows DEF Sound, m
  <2>3. \A d \in Cycles : s.status[d] = IF d = c THEN StatusAfter[op] ELSE m.status[d]
    BY <1>4, <1>2 DEF Statuses
  <2>4. \/ op = "capture" /\ StatusAfter[op] = "captured"
        \/ op = "release" /\ StatusAfter[op] = "released"
    BY DEF StatusAfter
  <2>5. e \in s.ledger /\ e.type = op /\ e.cycle = c
    BY <1>4 DEF Entry
  <2> HIDE DEF e
  <2>6. Backs(s.ledger \union L, op, c)
    BY <2>5 DEF Backs
  <2>7. Held(s.status, s.ledger \union L)
    BY <1>4, <2>2, <2>3, <2>4, <2>6 DEF Held
  <2>8. \A d \in Cycles : s.status[d] = "none" <=> m.status[d] = "none"
    BY <1>4, <2>3, <2>4
  <2> QED
    BY <2>1, <2>7, <2>8 DEF Sound, s, m
<1> QED
  BY <1>1, <1>3, <1>4 DEF s, m, e, KeepsOrSettles

\* What has to be shown of a step: the database's, a new copy, a new slice.
LEMMA SliceFrame ==
  ASSUME SliceInv,
         db.ledger \subseteq db'.ledger, Named(db'.ledger), Held(db'.status, db'.ledger),
         \A x \in Readers : load'[x].status \in {load[x].status, db.status, NotRead},
         \A p \in Processes : mem'[p] = mem[p] \/ Sound(mem'[p], db'.ledger),
         \A c \in Cycles : mem'["worker"].status[c] # "none" =>
           mem["worker"].status[c] # "none" \/ Backs(db.ledger, "reserve", c),
         \A p \in Processes :
           persist'[p].slice = persist[p].slice \/ Sound(persist'[p].slice, db'.ledger),
         \A n \in Requests :
           request'[n].slice = request[n].slice \/ Sound(request'[n].slice, db'.ledger)
  PROVE  SliceInv'
<1>1. \A x \in Readers : load'[x].status # NotRead => Held(load'[x].status, db'.ledger)
  <2> SUFFICES ASSUME NEW x \in Readers, load'[x].status # NotRead
               PROVE  Held(load'[x].status, db'.ledger)
    OBVIOUS
  <2>1. Held(load'[x].status, db.ledger)
    BY DEF SliceInv
  <2> QED
    BY <2>1, HeldGrows
<1>2. \A p \in Processes : Sound(mem'[p], db'.ledger)
  <2> SUFFICES ASSUME NEW p \in Processes PROVE Sound(mem'[p], db'.ledger)
    OBVIOUS
  <2>1. Sound(mem[p], db'.ledger)
    BY SoundGrows DEF SliceInv
  <2> QED
    BY <2>1
<1>3. \A p \in Processes : Sound(persist'[p].slice, db'.ledger)
  <2> SUFFICES ASSUME NEW p \in Processes PROVE Sound(persist'[p].slice, db'.ledger)
    OBVIOUS
  <2>1. Sound(persist[p].slice, db'.ledger)
    BY SoundGrows DEF SliceInv
  <2> QED
    BY <2>1
<1>4. \A n \in Requests : Sound(request'[n].slice, db'.ledger)
  <2> SUFFICES ASSUME NEW n \in Requests PROVE Sound(request'[n].slice, db'.ledger)
    OBVIOUS
  <2>1. Sound(request[n].slice, db'.ledger)
    BY SoundGrows DEF SliceInv
  <2> QED
    BY <2>1
<1>5. \A c \in Cycles : mem'["worker"].status[c] # "none" => Backs(db'.ledger, "reserve", c)
  BY DEF SliceInv, Backs
<1> QED
  BY <1>1, <1>2, <1>3, <1>4, <1>5 DEF SliceInv

\* The database starts empty, and so does everything else.
LEMMA InitSlices == Init => SliceInv
<1> SUFFICES ASSUME Init PROVE SliceInv
  OBVIOUS
<1>1. \A L : /\ Sound(NoSlice, L) /\ Sound(Booted, L)
              /\ Held(NoSlice.status, L) /\ Named(NoSlice.ledger)
  BY NothingHeld
<1>2. db = NoSlice /\ \A n \in Requests : request[n].slice = NoSlice
  BY IdleAsked DEF Init
<1>3. \A p \in Processes : mem[p] = Booted /\ persist[p].slice = NoSlice
  BY DEF Init, Quiet
<1>4. \A c \in Cycles : mem["worker"].status[c] = "none"
  BY <1>3 DEF Processes, Booted
<1>5. \A x \in Readers : load[x].status = NotRead
  BY UnreadLoad DEF Init
<1> HIDE DEF Init
<1> QED
  BY <1>1, <1>2, <1>3, <1>4, <1>5 DEF SliceInv

\* A select answers with what the database holds.
LEMMA ReadSlices ==
  ASSUME TypeInv, SliceInv, NEW x \in Readers,
         ReadLedger(x) \/ ReadReservations(x) \/ ReloadFails(x)
  PROVE  SliceInv'
<1>1. UNCHANGED <<db, mem, persist>>
  BY DEF ReadLedger, ReadReservations, ReloadFails
<1>2. \A y \in Readers : load'[y].status \in {load[y].status, db.status, NotRead}
  BY UnreadLoad DEF ReadLedger, ReadReservations, ReloadFails, TypeInv, Loads
<1>3. \A n \in Requests : request'[n].slice \in {request[n].slice, NoSlice}
  BY IdleAsked DEF ReadLedger, ReadReservations, ReloadFails, TypeInv
<1> QED
  BY <1>1, <1>2, <1>3, SliceFrame, NothingHeld DEF SliceInv

\* A write begins with the process's copy, and ends in the database or nowhere.
LEMMA PersistSlices ==
  ASSUME TypeInv, SliceInv, NEW p \in Processes, PersistStep(p) \/ PersistFails(p)
  PROVE  SliceInv'
<1>1. UNCHANGED <<mem, load, request>>
  BY DEF PersistStep, PersistBegins, PersistCommits, PersistFails
<1>2. CASE PersistBegins(p)
  <2>1. /\ persist'[p].slice = Slice(p)
        /\ \A q \in Processes : q # p => persist'[q] = persist[q]
    BY <1>2, QueueBegins DEF TypeInv
  <2>2. Sound(Slice(p), db.ledger)
    BY DEF SliceInv, Sound, Slice
  <2>3. UNCHANGED db
    BY <1>2 DEF PersistBegins
  <2> QED
    BY <1>1, <2>1, <2>2, <2>3, SliceFrame DEF SliceInv
<1>3. CASE PersistCommits(p) \/ PersistFails(p)
  <2>1. persist' = Closed(p)
    BY <1>3 DEF PersistCommits, PersistFails
  <2>2. \A q \in Processes : persist'[q].slice \in {persist[q].slice, NoSlice}
    BY <2>1, QueueMoves DEF TypeInv
  <2>3. /\ db.ledger \subseteq db'.ledger
        /\ Named(db'.ledger) /\ Held(db'.status, db'.ledger)
    <3>1. CASE PersistCommits(p)
      <4>1. persist[p].slice \in SliceType /\ db' = Written(persist[p].slice)
        BY <3>1 DEF TypeInv, Queues, PersistCommits
      <4>2. db \in SliceType /\ Named(db.ledger) /\ Held(db.status, db.ledger)
            /\ Sound(persist[p].slice, db.ledger)
        BY DEF TypeInv, SliceInv
      <4> QED
        BY <4>1, <4>2, WrittenTyped, WrittenHeld
    <3>2. CASE PersistFails(p)
      BY <3>2 DEF PersistFails, SliceInv
    <3> QED
      BY <1>3, <3>1, <3>2
  <2> QED
    BY <1>1, <2>2, <2>3, SliceFrame, NothingHeld
<1> QED
  BY <1>2, <1>3 DEF PersistStep

\* A merged copy is a part of the database.
LEMMA MergeSlices ==
  ASSUME TypeInv, SliceInv, NEW x \in Readers, Merge(x), UNCHANGED <<db, persist>>,
         \A n \in Requests : request'[n].slice \in {request[n].slice, NoSlice}
  PROVE  SliceInv'
<1> DEFINE p == ProcessOf(x)
           m == [ledger |-> load[x].ledger, status |-> load[x].status, known |-> mem[p].known]
<1>1. /\ p \in Processes /\ load[x].ledger \in SUBSET db.ledger
      /\ mem' = [mem EXCEPT ![p] = m]
      /\ load' = [load EXCEPT ![x] = Unread]
  BY MergedCopy
<1>2. load[x].status # NotRead
  BY DEF Merge
<1>3. Named(load[x].ledger) /\ Held(load[x].status, db.ledger)
  BY <1>1, <1>2 DEF SliceInv, Named
<1>4. Sound(m, db.ledger)
  <2>1. db.ledger \subseteq load[x].ledger \union db.ledger
    OBVIOUS
  <2> QED
    BY <1>3, <2>1, HeldGrows DEF Sound
<1>5. m.status = load[x].status
  OBVIOUS
<1> HIDE DEF p, m
<1>6. \A q \in Processes : mem'[q] = IF q = p THEN m ELSE mem[q]
  BY <1>1 DEF TypeInv
<1>7. \A c \in Cycles : mem'["worker"].status[c] # "none" =>
        mem["worker"].status[c] # "none" \/ Backs(db.ledger, "reserve", c)
  BY <1>3, <1>5, <1>6 DEF Processes, Held
<1>8. \A y \in Readers : load'[y].status \in {load[y].status, db.status, NotRead}
  BY <1>1, UnreadLoad DEF TypeInv
<1> QED
  BY <1>4, <1>6, <1>7, <1>8, SliceFrame, NothingHeld DEF SliceInv

\* A request that takes no credits.
LEMMA RequestSlices ==
  ASSUME TypeInv, SliceInv, NEW n \in Requests,
         RequestArrives(n) \/ RequestLoaded(n) \/ RequestEnds(n)
  PROVE  SliceInv'
<1>1. \A m \in Requests : request'[m].slice \in {request[m].slice, NoSlice}
  BY IdleAsked DEF RequestArrives, RequestLoaded, RequestEnds, At, TypeInv, Asked
<1>2. CASE RequestLoaded(n)
  <2>1. n \in Readers /\ Merge(n) /\ UNCHANGED <<db, persist>>
    BY <1>2 DEF RequestLoaded, Readers
  <2> QED
    BY <1>1, <2>1, MergeSlices
<1>3. CASE RequestArrives(n) \/ RequestEnds(n)
  <2>1. UNCHANGED <<db, mem, persist, load>>
    BY <1>3 DEF RequestArrives, RequestEnds
  <2> QED
    BY <1>1, <2>1, SliceFrame, NothingHeld DEF SliceInv
<1> QED
  BY <1>2, <1>3

\* An enqueue reserves, and takes the slice with the reserve in it.
LEMMA EnqueueSlices ==
  ASSUME TypeInv, SliceInv, NEW n \in Requests,
         EnqueueCommits(n) \/ EnqueueFails(n) \/ \E j \in Jobs : Enqueue(n, j)
  PROVE  SliceInv'
<1>1. ASSUME NEW j \in Jobs, Enqueue(n, j)
      PROVE  SliceInv'
  <2> DEFINE s == [ledger |-> Reserved(j).ledger, status |-> Reserved(j).status]
  <2>1. /\ mem' = [mem EXCEPT !["api"] = Reserved(j)]
        /\ request'[n].slice = s
        /\ \A m \in Requests : m # n => request'[m] = request[m]
    BY <1>1, EnqueuedSlice
  <2>2. Sound(Reserved(j), db.ledger)
    BY ReservedSound DEF TypeInv, SliceInv, Processes
  <2>3. Sound(s, db.ledger)
    BY <2>2 DEF Sound
  <2> HIDE DEF s
  <2>4. mem'["api"] = Reserved(j) /\ mem'["worker"] = mem["worker"]
    BY <2>1 DEF TypeInv, Processes
  <2>5. UNCHANGED <<db, persist, load>>
    BY <1>1 DEF Enqueue
  <2> QED
    BY <2>1, <2>2, <2>3, <2>4, <2>5, SliceFrame DEF SliceInv, Processes
<1>2. CASE EnqueueCommits(n)
  <2>1. request[n].slice \in SliceType /\ db' = Written(request[n].slice)
    BY <1>2 DEF TypeInv, Asked, EnqueueCommits
  <2>2. db \in SliceType /\ Named(db.ledger) /\ Held(db.status, db.ledger)
        /\ Sound(request[n].slice, db.ledger)
    BY DEF TypeInv, SliceInv
  <2>3. /\ db.ledger \subseteq db'.ledger
        /\ Named(db'.ledger) /\ Held(db'.status, db'.ledger)
    BY <2>1, <2>2, WrittenTyped, WrittenHeld
  <2>4. \A m \in Requests : request'[m].slice \in {request[m].slice, NoSlice}
    BY <1>2, IdleAsked DEF EnqueueCommits, TypeInv
  <2>5. UNCHANGED <<mem, persist, load>>
    BY <1>2 DEF EnqueueCommits
  <2> QED
    BY <2>3, <2>4, <2>5, SliceFrame, NothingHeld
<1>3. CASE EnqueueFails(n)
  <2>1. \A m \in Requests : request'[m].slice \in {request[m].slice, NoSlice}
    BY <1>3, IdleAsked DEF EnqueueFails, TypeInv
  <2>2. UNCHANGED <<db, mem, persist, load>>
    BY <1>3 DEF EnqueueFails
  <2> QED
    BY <2>1, <2>2, SliceFrame, NothingHeld DEF SliceInv
<1> QED
  BY <1>1, <1>2, <1>3

\* A settlement under a key of the job.
LEMMA SettleSlices ==
  ASSUME TypeInv, SliceInv, NEW p \in Processes, NEW op \in {"capture", "release"},
         NEW key \in Keys, NEW c \in Cycles, SettledUnder(key, c), Settle(p, op, key, c),
         UNCHANGED <<db, load>>,
         \A n \in Requests : request'[n].slice \in {request[n].slice, NoSlice}
  PROVE  SliceInv'
<1>1. /\ mem' = [mem EXCEPT ![p] = Settled(p, op, key, c)]
      /\ \A q \in Processes : persist'[q].slice = persist[q].slice
  BY SettleMoves
<1>2. mem \in [Processes -> Copies] /\ Sound(mem[p], db.ledger)
  BY DEF TypeInv, SliceInv
<1>3. /\ Sound(Settled(p, op, key, c), db.ledger)
      /\ \A d \in Cycles : Settled(p, op, key, c).status[d] = "none" <=> mem[p].status[d] = "none"
  BY <1>2, SettledSound
<1> DEFINE s == Settled(p, op, key, c)
<1> HIDE DEF s
<1>4. \A q \in Processes : mem'[q] = IF q = p THEN s ELSE mem[q]
  BY <1>1, <1>2 DEF s
<1>5. \A d \in Cycles : mem'["worker"].status[d] # "none" => mem["worker"].status[d] # "none"
  BY <1>3, <1>4 DEF Processes, s
<1>6. \A q \in Processes : mem'[q] = mem[q] \/ Sound(mem'[q], db'.ledger)
  BY <1>3, <1>4 DEF s
<1> QED
  BY <1>1, <1>5, <1>6, SliceFrame, NothingHeld DEF SliceInv

\* A cancel settles under the job.
LEMMA CancelSlices ==
  ASSUME TypeInv, SliceInv, NEW n \in Requests,
         CancelReleases(n) \/ CancelReleaseFails(n) \/ \E j \in Jobs : CancelJob(n, j)
  PROVE  SliceInv'
<1>1. \A m \in Requests : request'[m].slice \in {request[m].slice, NoSlice}
  <2>1. ASSUME NEW j \in Jobs, CancelJob(n, j)
        PROVE  \A m \in Requests : request'[m].slice = request[m].slice
    <3>1. request' = [request EXCEPT ![n].at = "cancelling", ![n].job = j]
      BY <2>1 DEF CancelJob
    <3>2. /\ request'[n].slice = request[n].slice
          /\ \A m \in Requests : m # n => request'[m] = request[m]
      BY <3>1, CancellingRequest DEF TypeInv
    <3> QED
      BY <3>2
  <2>2. CASE CancelReleases(n) \/ CancelReleaseFails(n)
    BY <2>2, IdleAsked DEF CancelReleases, CancelReleaseFails, TypeInv
  <2> QED
    BY <2>1, <2>2
<1>2. CASE CancelReleases(n)
  <2>1. PICK j \in Jobs : Settle("api", "release", j, EnqueueCycle(j)) /\ j \in Keys
                          /\ EnqueueCycle(j) \in Cycles
    BY <1>2, CancelSettles
  <2>2. "api" \in Processes /\ SettledUnder(j, EnqueueCycle(j)) /\ UNCHANGED <<db, load>>
    BY <1>2, SettledUnderKey DEF Processes, CancelReleases
  <2> QED
    BY <1>1, <2>1, <2>2, SettleSlices
<1>3. CASE CancelReleaseFails(n) \/ \E j \in Jobs : CancelJob(n, j)
  <2>1. UNCHANGED <<db, mem, persist, load>>
    BY <1>3 DEF CancelReleaseFails, CancelJob
  <2> QED
    BY <1>1, <2>1, SliceFrame, NothingHeld DEF SliceInv
<1> QED
  BY <1>2, <1>3

\* A job of the worker settles under its key.
LEMMA WorkerSlices ==
  ASSUME TypeInv, SliceInv, NEW j \in Jobs, WorkerStep(j)
  PROVE  SliceInv'
<1>1. UNCHANGED <<db, request>>
  BY DEF WorkerStep, Claim, JobLoaded, CaptureCredits, ReleaseCredits, SettlementFails, JobEnds
<1>2. CASE JobLoaded(j)
  <2>1. j \in Readers /\ Merge(j) /\ UNCHANGED persist
    BY <1>2 DEF JobLoaded, Readers
  <2> QED
    BY <1>1, <2>1, MergeSlices
<1>3. CASE CaptureCredits(j) \/ ReleaseCredits(j)
  <2>1. PICK op \in {"capture", "release"} :
          Settle("worker", op, WorkerCycle(j), EnqueueCycle(j))
    BY <1>3 DEF CaptureCredits, ReleaseCredits
  <2>2. "worker" \in Processes /\ UNCHANGED load
    BY <1>3 DEF Processes, CaptureCredits, ReleaseCredits
  <2>3. /\ WorkerCycle(j) \in Keys /\ EnqueueCycle(j) \in Cycles
        /\ SettledUnder(WorkerCycle(j), EnqueueCycle(j))
    BY CycleTyped, SettledUnderKey
  <2> QED
    BY <1>1, <2>1, <2>2, <2>3, SettleSlices
<1>4. CASE Claim(j) \/ SettlementFails(j) \/ JobEnds(j)
  <2>1. UNCHANGED <<mem, persist, load>>
    BY <1>4 DEF Claim, SettlementFails, JobEnds
  <2> QED
    BY <1>1, <2>1, SliceFrame DEF SliceInv
<1> QED
  BY <1>2, <1>3, <1>4 DEF WorkerStep

\* A restart forgets.
LEMMA RestartSlices ==
  ASSUME TypeInv, SliceInv, NEW p \in Processes, Restart(p)
  PROVE  SliceInv'
<1>1. UNCHANGED db
  BY DEF Restart
<1>2. mem' = [mem EXCEPT ![p] = Booted]
  BY DEF Restart
<1>3. \A q \in Processes : mem'[q] = mem[q] \/ mem'[q] = Booted
  BY <1>2 DEF TypeInv
<1>4. \A c \in Cycles : mem'["worker"].status[c] # "none" => mem["worker"].status[c] # "none"
  BY <1>3 DEF Processes, Booted
<1>5. \A q \in Processes : persist'[q].slice \in {persist[q].slice, NoSlice}
  BY DEF Restart, TypeInv, Quiet
<1>6. \A x \in Readers : load'[x].status \in {load[x].status, db.status, NotRead}
  BY UnreadLoad DEF Restart
<1>7. \A n \in Requests : request'[n].slice \in {request[n].slice, NoSlice}
  BY IdleAsked DEF Restart, TypeInv
<1> QED
  BY <1>1, <1>3, <1>4, <1>5, <1>6, <1>7, SliceFrame, NothingHeld DEF SliceInv

\* Every step keeps the slices sound.
LEMMA StepSlices == TypeInv /\ SliceInv /\ [Next]_vars => SliceInv'
<1> SUFFICES ASSUME TypeInv, SliceInv, [Next]_vars PROVE SliceInv'
  OBVIOUS
<1>1. CASE UNCHANGED vars
  BY <1>1 DEF vars, SliceInv
<1>2. CASE Next
  BY <1>2, ReadSlices, PersistSlices, RequestSlices, EnqueueSlices, CancelSlices, WorkerSlices,
     RestartSlices DEF Next, RequestStep
<1> QED
  BY <1>1, <1>2

\* A ledger that has an entry of a cycle has one of its kind.
LEMMA BackedEntry ==
  ASSUME NEW ledger, NEW type, NEW c
  PROVE  Backs(ledger, type, c) <=> Of(ledger, type, c) # {}
BY DEF Backs, Of

\* Whatever stale copies are written over the database and whatever entries a write
\* skips, the ledger has the reserve of every reservation and the settlement of every
\* settled one, when at most one job carries no key.  Two of them settle under one
\* key, and a worker that restarted between them writes the second's status without
\* its entry.
THEOREM StatusHasItsEntry ==
  ASSUME \A i, j \in Jobs : KeyOf[i] = NoKey /\ KeyOf[j] = NoKey => i = j
  PROVE  Spec => []ReservationBacked
<1>1. SliceInv => ReservationBacked
  BY BackedEntry DEF SliceInv, Held, OneKeyless, ReservationBacked
<1>2. Spec => [](TypeInv /\ SliceInv)
  BY InitTypes, InitSlices, StepTypes, StepSlices, PTL DEF Spec
<1> QED
  BY <1>1, <1>2, PTL

-----------------------------------------------------------------------------
(* A job whose cycle no other job has is enqueued once, so that its        *)
(* process does not remember its reserve when it reserves: the slice the   *)
(* enqueue takes has the entry.                                            *)

Own(j) == \A k \in Jobs : EnqueueCycle(k) = EnqueueCycle(j) => k = j
Debited(ledger, j) == Backs(ledger, "reserve", EnqueueCycle(j))
Owes(n) == request[n].job \in Jobs

DebitInv ==
  /\ \A n \in Requests : request[n].at = "enqueuing" =>
       /\ row[request[n].job] = "none"
       /\ \A m \in Requests : m # n => request[m].job # request[n].job
       /\ Own(request[n].job) => Debited(request[n].slice.ledger, request[n].job)
  /\ \A n \in Requests : request[n].at = "cancelling" => Accepted(request[n].job)
  /\ \A j \in Jobs : Own(j) /\ Accepted(j) => Debited(db.ledger, j)
  /\ \A j \in Jobs : Own(j) /\ <<"reserve", EnqueueCycle(j)>> \in mem["api"].known =>
       row[j] # "none" \/ \E n \in Requests : request[n].job = j

\* Steps after which the rows are accepted that were, and the requests that have a job
\* are the same.
LEMMA DebitFrame ==
  ASSUME TypeInv, TypeInv', DebitInv,
         db.ledger \subseteq db'.ledger,
         \A j \in Jobs : row'[j] = row[j] \/
           (row[j] \notin {"none", "refused"} /\ row'[j] \notin {"none", "refused"}),
         \A c \in Cycles : <<"reserve", c>> \in mem'["api"].known =>
           <<"reserve", c>> \in mem["api"].known,
         \A n \in Requests : request'[n] = request[n] \/
           (request[n].job \notin Jobs /\ request'[n].job \notin Jobs)
  PROVE  DebitInv'
<1>1. \A n \in Requests : request'[n].at \in {"enqueuing", "cancelling"} => request'[n] = request[n]
  BY DEF TypeInv
<1>2. \A n \in Requests : request[n].job \in Jobs => request'[n] = request[n]
  OBVIOUS
<1>3. \A j \in Jobs : /\ row'[j] = "none" <=> row[j] = "none"
                      /\ Accepted(j)' <=> Accepted(j)
  BY DEF Accepted
<1>4. \A n \in Requests : request'[n].at = "enqueuing" =>
        /\ row'[request'[n].job] = "none"
        /\ \A m \in Requests : m # n => request'[m].job # request'[n].job
        /\ Own(request'[n].job) => Debited(request'[n].slice.ledger, request'[n].job)
  <2> SUFFICES ASSUME NEW n \in Requests, request'[n].at = "enqueuing"
               PROVE  /\ row'[request'[n].job] = "none"
                      /\ \A m \in Requests : m # n => request'[m].job # request'[n].job
                      /\ Own(request'[n].job) => Debited(request'[n].slice.ledger, request'[n].job)
    OBVIOUS
  <2>1. request'[n] = request[n] /\ request[n].at = "enqueuing" /\ request[n].job \in Jobs
    BY <1>1 DEF TypeInv
  <2>2. /\ row[request[n].job] = "none"
        /\ \A m \in Requests : m # n => request[m].job # request[n].job
        /\ Own(request[n].job) => Debited(request[n].slice.ledger, request[n].job)
    BY <2>1 DEF DebitInv
  <2>3. \A m \in Requests : request'[m] = request[m] \/ request'[m].job \notin Jobs
    OBVIOUS
  <2> QED
    BY <2>1, <2>2, <2>3, <1>3
<1>5. ASSUME NEW n \in Requests, request'[n].at = "cancelling", NEW j \in Jobs, request'[n].job = j
      PROVE  Accepted(j)'
  BY <1>1, <1>3, <1>5 DEF DebitInv
<1>6. \A j \in Jobs : Own(j) /\ Accepted(j)' => Debited(db'.ledger, j)
  BY <1>3 DEF DebitInv, Debited, Backs
<1>7. \A j \in Jobs : Own(j) /\ <<"reserve", EnqueueCycle(j)>> \in mem'["api"].known =>
        row'[j] # "none" \/ \E n \in Requests : request'[n].job = j
  <2> SUFFICES ASSUME NEW j \in Jobs, Own(j), <<"reserve", EnqueueCycle(j)>> \in mem'["api"].known,
                      row'[j] = "none"
               PROVE  \E n \in Requests : request'[n].job = j
    OBVIOUS
  <2>1. <<"reserve", EnqueueCycle(j)>> \in mem["api"].known
    BY CycleTyped
  <2>2. PICK n \in Requests : request[n].job = j
    BY <2>1, <1>3 DEF DebitInv
  <2> QED
    BY <2>2, <1>2
<1>8. \A n \in Requests : request'[n].at = "cancelling" =>
        row'[request'[n].job] \notin {"none", "refused"}
  BY <1>5 DEF TypeInv, Accepted
<1> QED
  BY <1>4, <1>6, <1>7, <1>8 DEF DebitInv, Accepted

\* No row, no request.
LEMMA InitDebits == Init => DebitInv
BY IdleAsked DEF Init, DebitInv, Accepted, Idle, Booted, Processes

\* A merge leaves what a process remembers.
LEMMA MergeRemembers ==
  ASSUME TypeInv, NEW x \in Readers, Merge(x)
  PROVE  \A p \in Processes : mem'[p].known = mem[p].known
<1>1. /\ ProcessOf(x) \in Processes
      /\ mem' = [mem EXCEPT ![ProcessOf(x)] =
           [ledger |-> load[x].ledger, status |-> load[x].status,
            known |-> mem[ProcessOf(x)].known]]
  BY MergedCopy
<1> QED
  BY <1>1 DEF TypeInv

\* A settlement remembers no reserve.
LEMMA SettleRemembers ==
  ASSUME TypeInv, NEW p \in Processes, NEW op \in {"capture", "release"}, NEW key \in Keys,
         NEW c \in Cycles, Settle(p, op, key, c)
  PROVE  \A q \in Processes : mem'[q].known =
           IF q = p THEN mem[q].known \union {<<op, key>>} ELSE mem[q].known
<1>1. mem' = [mem EXCEPT ![p] = Settled(p, op, key, c)]
  BY SettleMoves
<1>2. mem \in [Processes -> Copies]
  BY DEF TypeInv
<1>3. Settled(p, op, key, c).known = mem[p].known \union {<<op, key>>}
  <2> DEFINE k == <<op, key>>
             m == mem[p]
             r == [m EXCEPT !.known = @ \union {k}]
  <2>1. m \in Copies
    BY <1>2
  <2>2. \/ Settled(p, op, key, c) = r
        \/ Settled(p, op, key, c) =
             [r EXCEPT !.ledger = @ \union {Entry(op, key, c)}, !.status[c] = StatusAfter[op]]
    BY DEF Settled
  <2> HIDE DEF k, m
  <2>3. /\ r.known = m.known \union {k}
        /\ r \in [ledger : SUBSET Entries, status : Statuses, known : {r.known}]
    BY <2>1 DEF Copies
  <2> HIDE DEF r
  <2>4. Settled(p, op, key, c).known = r.known
    BY <2>2, <2>3
  <2> QED
    BY <2>3, <2>4 DEF k, m
<1> QED
  BY <1>1, <1>2, <1>3

\* Reloads, writes and requests that take no credits.
LEMMA QuietDebits ==
  ASSUME TypeInv, TypeInv', DebitInv,
         \/ \E x \in Readers : ReadLedger(x) \/ ReadReservations(x) \/ ReloadFails(x)
         \/ \E p \in Processes : PersistStep(p) \/ PersistFails(p)
         \/ \E n \in Requests : RequestArrives(n) \/ RequestLoaded(n) \/ RequestEnds(n)
  PROVE  DebitInv'
<1>1. ASSUME NEW x \in Readers, ReadLedger(x) \/ ReadReservations(x) \/ ReloadFails(x)
      PROVE  DebitInv'
  <2>1. UNCHANGED <<db, row, mem>>
    BY <1>1 DEF ReadLedger, ReadReservations, ReloadFails
  <2>2. \A n \in Requests : request'[n] = request[n] \/
          (request[n].job \notin Jobs /\ request'[n].job \notin Jobs)
    BY <1>1, IdleAsked DEF ReadLedger, ReadReservations, ReloadFails, Loading, TypeInv
  <2> QED
    BY <2>1, <2>2, DebitFrame
<1>2. ASSUME NEW p \in Processes, PersistStep(p) \/ PersistFails(p)
      PROVE  DebitInv'
  <2>1. UNCHANGED <<row, mem, request>>
    BY <1>2 DEF PersistStep, PersistBegins, PersistCommits, PersistFails
  <2>2. db.ledger \subseteq db'.ledger
    BY <1>2 DEF PersistStep, PersistBegins, PersistCommits, PersistFails, Written
  <2> QED
    BY <2>1, <2>2, DebitFrame
<1>3. ASSUME NEW n \in Requests, RequestArrives(n) \/ RequestLoaded(n) \/ RequestEnds(n)
      PROVE  DebitInv'
  <2>1. UNCHANGED <<db, row>>
    BY <1>3 DEF RequestArrives, RequestLoaded, RequestEnds
  <2>2. \A p \in Processes : mem'[p].known = mem[p].known
    <3>1. CASE RequestLoaded(n)
      BY <3>1, MergeRemembers DEF RequestLoaded, Readers
    <3>2. CASE RequestArrives(n) \/ RequestEnds(n)
      BY <3>2 DEF RequestArrives, RequestEnds
    <3> QED
      BY <1>3, <3>1, <3>2
  <2>3. /\ request[n].at \in {"idle", "loading", "undoing", "ready"}
        /\ request'[n].at \in {"idle", "loading", "ready"}
        /\ \A m \in Requests : m # n => request'[m] = request[m]
    <3>1. CASE RequestArrives(n)
      BY <3>1 DEF RequestArrives, At, TypeInv, Asked
    <3>2. CASE RequestLoaded(n)
      <4>1. request[n].at \in {"loading", "undoing"}
        BY <3>2, PersistenceAssumption DEF RequestLoaded, Merge, Loading
      <4> QED
        BY <3>2, <4>1, IdleAsked DEF RequestLoaded, At, TypeInv, Asked
    <3>3. CASE RequestEnds(n)
      BY <3>3, IdleAsked DEF RequestEnds, TypeInv, Asked
    <3> QED
      BY <1>3, <3>1, <3>2, <3>3
  <2>4. request[n].job \notin Jobs /\ request'[n].job \notin Jobs
    BY <2>3 DEF TypeInv
  <2> QED
    BY <2>1, <2>2, <2>3, <2>4, DebitFrame DEF Processes
<1> QED
  BY <1>1, <1>2, <1>3

\* What the process does not remember it reserves, and the enqueue takes with it.
LEMMA EnqueueDebits ==
  ASSUME TypeInv, TypeInv', DebitInv, NEW n \in Requests, NEW j \in Jobs, Enqueue(n, j)
  PROVE  DebitInv'
<1>1. /\ mem' = [mem EXCEPT !["api"] = Reserved(j)]
      /\ request'[n].at = "enqueuing" /\ request'[n].job = j
      /\ request'[n].slice = [ledger |-> Reserved(j).ledger, status |-> Reserved(j).status]
      /\ \A m \in Requests : m # n => request'[m] = request[m]
  BY EnqueuedSlice
<1>2. /\ UNCHANGED <<db, row>>
      /\ request[n].at = "ready" /\ row[j] = "none" /\ \A m \in Requests : request[m].job # j
  BY DEF Enqueue
<1>3. /\ Reserved(j).known = mem["api"].known \union {<<"reserve", EnqueueCycle(j)>>}
      /\ ~Remembers("api", "reserve", EnqueueCycle(j)) =>
           Entry("reserve", EnqueueCycle(j), EnqueueCycle(j)) \in Reserved(j).ledger
  BY ReservedCopy DEF TypeInv
<1>4. Own(j) => Debited(Reserved(j).ledger, j)
  <2> SUFFICES ASSUME Own(j) PROVE Debited(Reserved(j).ledger, j)
    OBVIOUS
  <2>1. ~Remembers("api", "reserve", EnqueueCycle(j))
    BY <1>2 DEF DebitInv, Remembers
  <2> QED
    BY <2>1, <1>3 DEF Debited, Backs, Entry
<1>5. \A m \in Requests : request'[m].at = "enqueuing" =>
        /\ row[request'[m].job] = "none"
        /\ \A i \in Requests : i # m => request'[i].job # request'[m].job
        /\ Own(request'[m].job) => Debited(request'[m].slice.ledger, request'[m].job)
  <2>1. ASSUME NEW m \in Requests, m # n, request'[m].at = "enqueuing"
        PROVE  /\ row[request'[m].job] = "none"
               /\ \A i \in Requests : i # m => request'[i].job # request'[m].job
               /\ Own(request'[m].job) => Debited(request'[m].slice.ledger, request'[m].job)
    <3>1. request'[m] = request[m] /\ request[m].at = "enqueuing" /\ request[m].job # j
      BY <2>1, <1>1, <1>2
    <3>2. /\ row[request[m].job] = "none"
          /\ \A i \in Requests : i # m => request[i].job # request[m].job
          /\ Own(request[m].job) => Debited(request[m].slice.ledger, request[m].job)
      BY <3>1 DEF DebitInv
    <3> QED
      BY <3>1, <3>2, <1>1
  <2>2. \A i \in Requests : i # n => request'[i].job # j
    BY <1>1, <1>2
  <2> QED
    BY <2>1, <2>2, <1>1, <1>2, <1>4
<1>6. \A m \in Requests : request'[m].at = "cancelling" => Accepted(request'[m].job)
  BY <1>1 DEF DebitInv
<1>7. ASSUME NEW i \in Jobs, Own(i), <<"reserve", EnqueueCycle(i)>> \in mem'["api"].known
      PROVE  row[i] # "none" \/ \E m \in Requests : request'[m].job = i
  <2>1. CASE i = j
    BY <2>1, <1>1
  <2>2. CASE i # j
    <3>1. mem'["api"] = Reserved(j)
      BY <1>1 DEF TypeInv, Processes
    <3>2. EnqueueCycle(i) # EnqueueCycle(j)
      BY <1>7, <2>2 DEF Own
    <3>3. <<"reserve", EnqueueCycle(i)>> \in mem["api"].known
      BY <3>1, <3>2, <1>3, <1>7
    <3>4. row[i] # "none" \/ \E m \in Requests : request[m].job = i
      BY <3>3, <1>7 DEF DebitInv
    <3>5. request[n].job \notin Jobs
      BY <1>2 DEF TypeInv
    <3> QED
      BY <3>4, <3>5, <1>1
  <2> QED
    BY <2>1, <2>2
<1> QED
  BY <1>2, <1>5, <1>6, <1>7 DEF DebitInv, Accepted

\* The transaction that inserts the row writes the entry.
LEMMA CommitDebits ==
  ASSUME TypeInv, TypeInv', SliceInv, DebitInv, NEW n \in Requests, EnqueueCommits(n)
  PROVE  DebitInv'
<1> DEFINE s == request[n].slice
<1>1. PICK j \in Jobs : request[n].job = j
  BY DEF EnqueueCommits, TypeInv
<1>2. /\ s \in SliceType /\ db \in SliceType
      /\ db' = Written(s) /\ UNCHANGED mem
  BY DEF EnqueueCommits, TypeInv, Asked
<1>3. /\ row[j] = "none"
      /\ \A m \in Requests : m # n => request[m].job # j
      /\ Own(j) => Debited(s.ledger, j)
  BY <1>1 DEF EnqueueCommits, DebitInv
<1>4. /\ \A i \in Jobs : row'[i] = IF i = j THEN "queued" ELSE row[i]
      /\ request'[n] = Idle
      /\ \A m \in Requests : m # n => request'[m] = request[m]
  BY <1>1 DEF EnqueueCommits, TypeInv
<1>5. db.ledger \subseteq db'.ledger
  BY <1>2, WrittenTyped
<1>6. Own(j) => Debited(db'.ledger, j)
  <2> SUFFICES ASSUME Own(j) PROVE Debited(db'.ledger, j)
    OBVIOUS
  <2>1. Named(db.ledger) /\ Named(s.ledger)
    BY DEF SliceInv, Sound
  <2>2. Backs(s.ledger \union db.ledger, "reserve", EnqueueCycle(j))
    BY <1>3 DEF Debited, Backs
  <2> HIDE DEF s
  <2>3. EnqueueCycle(j) \in Cycles /\ "reserve" \in Ops
    BY CycleTyped DEF Ops
  <2>4. Backs(Written(s).ledger, "reserve", EnqueueCycle(j))
    BY <1>2, <2>1, <2>2, <2>3, WrittenBacks
  <2> QED
    BY <2>4, <1>2 DEF Debited
<1>7. \A m \in Requests : m # n => request'[m].job # j
  BY <1>3, <1>4
<1>8. \A m \in Requests : request'[m].at = "enqueuing" =>
        /\ row'[request'[m].job] = "none"
        /\ \A i \in Requests : i # m => request'[i].job # request'[m].job
        /\ Own(request'[m].job) => Debited(request'[m].slice.ledger, request'[m].job)
  <2> SUFFICES ASSUME NEW m \in Requests, request'[m].at = "enqueuing"
               PROVE  /\ row'[request'[m].job] = "none"
                      /\ \A i \in Requests : i # m => request'[i].job # request'[m].job
                      /\ Own(request'[m].job) => Debited(request'[m].slice.ledger, request'[m].job)
    OBVIOUS
  <2>1. m # n /\ request'[m] = request[m] /\ request[m].job \in Jobs /\ request[m].job # j
    BY <1>3, <1>4, IdleAsked DEF TypeInv
  <2>2. /\ row[request[m].job] = "none"
        /\ \A i \in Requests : i # m => request[i].job # request[m].job
        /\ Own(request[m].job) => Debited(request[m].slice.ledger, request[m].job)
    BY <2>1 DEF DebitInv
  <2> QED
    BY <2>1, <2>2, <1>4, IdleAsked
<1>9. \A m \in Requests : request'[m].at = "cancelling" =>
        row'[request'[m].job] \notin {"none", "refused"}
  <2> SUFFICES ASSUME NEW m \in Requests, request'[m].at = "cancelling"
               PROVE  row'[request'[m].job] \notin {"none", "refused"}
    OBVIOUS
  <2>1. m # n /\ request'[m] = request[m] /\ request[m].job \in Jobs /\ request[m].job # j
    BY <1>3, <1>4, IdleAsked DEF TypeInv
  <2> QED
    BY <2>1, <1>4 DEF DebitInv, Accepted
<1>10. \A i \in Jobs : Own(i) /\ row'[i] \notin {"none", "refused"} => Debited(db'.ledger, i)
  BY <1>4, <1>5, <1>6 DEF DebitInv, Accepted, Debited, Backs
<1>11. \A i \in Jobs : Own(i) /\ <<"reserve", EnqueueCycle(i)>> \in mem'["api"].known =>
         row'[i] # "none" \/ \E m \in Requests : request'[m].job = i
  <2> SUFFICES ASSUME NEW i \in Jobs, Own(i), <<"reserve", EnqueueCycle(i)>> \in mem["api"].known,
                      i # j, row[i] = "none"
               PROVE  \E m \in Requests : request'[m].job = i
    BY <1>2, <1>4
  <2>1. PICK m \in Requests : request[m].job = i
    BY DEF DebitInv
  <2> QED
    BY <2>1, <1>1, <1>4
<1> QED
  BY <1>8, <1>9, <1>10, <1>11 DEF DebitInv, Accepted

\* A row that is refused was not there.
LEMMA RefusalDebits ==
  ASSUME TypeInv, TypeInv', DebitInv, UNCHANGED db,
         \A c \in Cycles : <<"reserve", c>> \in mem'["api"].known =>
           <<"reserve", c>> \in mem["api"].known,
         NEW R \in SUBSET Requests,
         \A n \in Requests :
           (request'[n] = request[n] /\ n \notin R) \/ (request'[n].job \notin Jobs /\ n \in R),
         \A j \in Jobs : row'[j] = row[j] \/ (row'[j] = "refused" /\ row[j] = "none"),
         \A j \in Jobs : row'[j] # row[j] => \A n \in Requests \ R : request[n].job # j,
         \A n \in R : \A j \in Jobs : request[n].job = j => row'[j] # "none"
  PROVE  DebitInv'
<1>1. \A n \in Requests : request'[n].job \in Jobs => n \notin R /\ request'[n] = request[n]
  OBVIOUS
<1>2. \A n \in Requests : request'[n].at \in {"enqueuing", "cancelling"} =>
        request'[n].job \in Jobs
  BY DEF TypeInv
<1>3. \A n \in Requests : request'[n].at = "enqueuing" =>
        /\ row'[request'[n].job] = "none"
        /\ \A m \in Requests : m # n => request'[m].job # request'[n].job
        /\ Own(request'[n].job) => Debited(request'[n].slice.ledger, request'[n].job)
  <2> SUFFICES ASSUME NEW n \in Requests, request'[n].at = "enqueuing"
               PROVE  /\ row'[request'[n].job] = "none"
                      /\ \A m \in Requests : m # n => request'[m].job # request'[n].job
                      /\ Own(request'[n].job) => Debited(request'[n].slice.ledger, request'[n].job)
    OBVIOUS
  <2>1. request'[n].job \in Jobs /\ n \notin R /\ request'[n] = request[n]
    BY <1>1, <1>2
  <2>2. /\ row[request[n].job] = "none"
        /\ \A m \in Requests : m # n => request[m].job # request[n].job
        /\ Own(request[n].job) => Debited(request[n].slice.ledger, request[n].job)
    BY <2>1 DEF DebitInv
  <2>3. row'[request[n].job] = row[request[n].job]
    BY <2>1
  <2>4. \A m \in Requests : request'[m].job \in Jobs => request'[m] = request[m]
    BY <1>1
  <2> QED
    BY <2>1, <2>2, <2>3, <2>4
<1>4. \A n \in Requests : request'[n].at = "cancelling" =>
        row'[request'[n].job] \notin {"none", "refused"}
  <2> SUFFICES ASSUME NEW n \in Requests, request'[n].at = "cancelling"
               PROVE  row'[request'[n].job] \notin {"none", "refused"}
    OBVIOUS
  <2>1. request'[n].job \in Jobs /\ n \notin R /\ request'[n] = request[n]
    BY <1>1, <1>2
  <2> QED
    BY <2>1 DEF DebitInv, Accepted
<1>5. \A j \in Jobs : Own(j) /\ row'[j] \notin {"none", "refused"} => Debited(db'.ledger, j)
  BY DEF DebitInv, Accepted
<1>6. \A j \in Jobs : Own(j) /\ <<"reserve", EnqueueCycle(j)>> \in mem'["api"].known =>
        row'[j] # "none" \/ \E n \in Requests : request'[n].job = j
  <2> SUFFICES ASSUME NEW j \in Jobs, Own(j), <<"reserve", EnqueueCycle(j)>> \in mem'["api"].known,
                      row'[j] = "none"
               PROVE  \E n \in Requests : request'[n].job = j
    OBVIOUS
  <2>1. <<"reserve", EnqueueCycle(j)>> \in mem["api"].known
    BY CycleTyped
  <2>2. PICK n \in Requests : request[n].job = j
    BY <2>1 DEF DebitInv
  <2> QED
    BY <2>2
<1> QED
  BY <1>3, <1>4, <1>5, <1>6 DEF DebitInv, Accepted

\* An enqueue that is rolled back, a cancel that is answered.
LEMMA AnswerDebits ==
  ASSUME TypeInv, TypeInv', DebitInv, NEW n \in Requests,
         EnqueueFails(n) \/ CancelReleases(n) \/ CancelReleaseFails(n)
  PROVE  DebitInv'
<1>1. PICK j \in Jobs : request[n].job = j
  BY DEF EnqueueFails, CancelReleases, CancelReleaseFails, TypeInv
<1>2. UNCHANGED db
  BY DEF EnqueueFails, CancelReleases, CancelReleaseFails
<1>3. /\ request'[n].job \notin Jobs
      /\ \A m \in Requests : m # n => request'[m] = request[m]
  BY IdleAsked, ZenonT(45) DEF EnqueueFails, CancelReleases, CancelReleaseFails, TypeInv
<1>4. \A c \in Cycles : <<"reserve", c>> \in mem'["api"].known =>
        <<"reserve", c>> \in mem["api"].known
  <2>1. CASE CancelReleases(n)
    <3>1. PICK i \in Jobs : Settle("api", "release", i, EnqueueCycle(i)) /\ i \in Keys
                            /\ EnqueueCycle(i) \in Cycles
      BY <2>1, CancelSettles
    <3>2. mem'["api"].known = mem["api"].known \union {<<"release", i>>}
      BY <3>1, SettleRemembers DEF Processes
    <3> QED
      BY <3>2
  <2>2. CASE EnqueueFails(n) \/ CancelReleaseFails(n)
    BY <2>2 DEF EnqueueFails, CancelReleaseFails
  <2> QED
    BY <2>1, <2>2
<1>5. \/ row' = row /\ Accepted(j)
      \/ /\ row[j] = "none" /\ row'[j] = "refused" /\ \A i \in Jobs : i # j => row'[i] = row[i]
         /\ \A m \in Requests : m # n => request[m].job # j
  <2>1. CASE EnqueueFails(n)
    BY <2>1, <1>1 DEF EnqueueFails, DebitInv, TypeInv
  <2>2. CASE CancelReleases(n) \/ CancelReleaseFails(n)
    BY <2>2, <1>1 DEF CancelReleases, CancelReleaseFails, DebitInv
  <2> QED
    BY <2>1, <2>2
<1> DEFINE R == {n}
<1>6. \A m \in Requests :
        (request'[m] = request[m] /\ m \notin R) \/ (request'[m].job \notin Jobs /\ m \in R)
  BY <1>3
<1>7. /\ \A i \in Jobs : row'[i] = row[i] \/ (row'[i] = "refused" /\ row[i] = "none")
      /\ \A i \in Jobs : row'[i] # row[i] => \A m \in Requests \ R : request[m].job # i
      /\ \A m \in R : \A i \in Jobs : request[m].job = i => row'[i] # "none"
  BY <1>1, <1>5 DEF Accepted
<1>8. R \in SUBSET Requests
  OBVIOUS
<1> HIDE DEF R
<1> QED
  BY <1>2, <1>4, <1>6, <1>7, <1>8, RefusalDebits

\* A request takes the job whose row it has cancelled.
LEMMA CancelDebits ==
  ASSUME TypeInv, TypeInv', DebitInv, NEW n \in Requests, NEW j \in Jobs, CancelJob(n, j)
  PROVE  DebitInv'
<1>1. /\ request'[n].at = "cancelling" /\ request'[n].job = j
      /\ \A m \in Requests : m # n => request'[m] = request[m]
  <2>1. request' = [request EXCEPT ![n].at = "cancelling", ![n].job = j]
    BY DEF CancelJob
  <2> QED
    BY <2>1, CancellingRequest DEF TypeInv
<1>2. /\ UNCHANGED <<db, mem>>
      /\ request[n].at = "ready"
      /\ row[j] \in {"queued", "running"}
      /\ \A i \in Jobs : row'[i] = IF i = j THEN "cancelled" ELSE row[i]
  BY DEF CancelJob, TypeInv
<1>3. request[n].job \notin Jobs
  BY <1>2 DEF TypeInv
<1>4. \A m \in Requests : request'[m].at = "enqueuing" =>
        /\ row'[request'[m].job] = "none"
        /\ \A i \in Requests : i # m => request'[i].job # request'[m].job
        /\ Own(request'[m].job) => Debited(request'[m].slice.ledger, request'[m].job)
  <2> SUFFICES ASSUME NEW m \in Requests, request'[m].at = "enqueuing"
               PROVE  /\ row'[request'[m].job] = "none"
                      /\ \A i \in Requests : i # m => request'[i].job # request'[m].job
                      /\ Own(request'[m].job) => Debited(request'[m].slice.ledger, request'[m].job)
    OBVIOUS
  <2>1. m # n /\ request'[m] = request[m] /\ request[m].job \in Jobs
    BY <1>1 DEF TypeInv
  <2>2. /\ row[request[m].job] = "none"
        /\ \A i \in Requests : i # m => request[i].job # request[m].job
        /\ Own(request[m].job) => Debited(request[m].slice.ledger, request[m].job)
    BY <2>1 DEF DebitInv
  <2> QED
    BY <2>1, <2>2, <1>1, <1>2
<1>5. \A m \in Requests : request'[m].at = "cancelling" =>
        row'[request'[m].job] \notin {"none", "refused"}
  BY <1>1, <1>2 DEF DebitInv, Accepted, TypeInv
<1>6. \A i \in Jobs : Own(i) /\ row'[i] \notin {"none", "refused"} => Debited(db'.ledger, i)
  BY <1>2 DEF DebitInv, Accepted
<1>7. \A i \in Jobs : Own(i) /\ <<"reserve", EnqueueCycle(i)>> \in mem'["api"].known =>
        row'[i] # "none" \/ \E m \in Requests : request'[m].job = i
  <2> SUFFICES ASSUME NEW i \in Jobs, Own(i), <<"reserve", EnqueueCycle(i)>> \in mem["api"].known,
                      row'[i] = "none"
               PROVE  \E m \in Requests : request'[m].job = i
    BY <1>2
  <2>1. PICK m \in Requests : request[m].job = i
    BY <1>2 DEF DebitInv
  <2> QED
    BY <2>1, <1>1, <1>3
<1> QED
  BY <1>4, <1>5, <1>6, <1>7 DEF DebitInv, Accepted

\* A job that ends sets its row if it still runs.
LEMMA EndedRow ==
  ASSUME TypeInv, NEW j \in Jobs, JobEnds(j)
  PROVE  /\ \A i \in Jobs : i # j => row'[i] = row[i]
         /\ row[j] # "running" => row'[j] = row[j]
         /\ row[j] = "running" =>
              row'[j] = IF work[j] = "completing" THEN "done" ELSE "failed"
BY DEF JobEnds, TypeInv

\* The worker reserves nothing, and moves the rows of accepted jobs.
LEMMA WorkerDebits ==
  ASSUME TypeInv, TypeInv', DebitInv, NEW j \in Jobs, WorkerStep(j)
  PROVE  DebitInv'
<1>1. UNCHANGED <<db, request>>
  BY DEF WorkerStep, Claim, JobLoaded, CaptureCredits, ReleaseCredits, SettlementFails, JobEnds
<1>2. \A i \in Jobs : row'[i] = row[i] \/
        (row[i] \notin {"none", "refused"} /\ row'[i] \notin {"none", "refused"})
  <2>1. CASE Claim(j)
    BY <2>1 DEF Claim, TypeInv
  <2>2. CASE JobEnds(j)
    BY <2>2, EndedRow
  <2>3. CASE JobLoaded(j) \/ CaptureCredits(j) \/ ReleaseCredits(j) \/ SettlementFails(j)
    BY <2>3 DEF JobLoaded, CaptureCredits, ReleaseCredits, SettlementFails
  <2> QED
    BY <2>1, <2>2, <2>3 DEF WorkerStep
<1>3. mem'["api"].known = mem["api"].known
  <2>1. CASE JobLoaded(j)
    BY <2>1, MergeRemembers DEF JobLoaded, Readers, Processes
  <2>2. CASE CaptureCredits(j) \/ ReleaseCredits(j)
    <3>1. PICK op \in {"capture", "release"} :
            Settle("worker", op, WorkerCycle(j), EnqueueCycle(j))
      BY <2>2 DEF CaptureCredits, ReleaseCredits
    <3>2. \A q \in Processes : mem'[q].known =
            IF q = "worker" THEN mem[q].known \union {<<op, WorkerCycle(j)>>} ELSE mem[q].known
      BY <3>1, CycleTyped, SettleRemembers DEF Processes
    <3> QED
      BY <3>2 DEF Processes
  <2>3. CASE Claim(j) \/ SettlementFails(j) \/ JobEnds(j)
    BY <2>3 DEF Claim, SettlementFails, JobEnds
  <2> QED
    BY <2>1, <2>2, <2>3 DEF WorkerStep
<1> QED
  BY <1>1, <1>2, <1>3, DebitFrame

\* A restart of the API refuses what was being enqueued and forgets the reserves.
LEMMA RestartDebits ==
  ASSUME TypeInv, TypeInv', DebitInv, NEW p \in Processes, Restart(p)
  PROVE  DebitInv'
<1>1. UNCHANGED db
  BY DEF Restart
<1>2. \A q \in Processes : mem'[q] = mem[q] \/ mem'[q] = Booted
  BY DEF Restart, TypeInv
<1>3. \A c \in Cycles : <<"reserve", c>> \in mem'["api"].known =>
        <<"reserve", c>> \in mem["api"].known
  BY <1>2 DEF Processes, Booted
<1>4. CASE p = "worker"
  <2>1. UNCHANGED request /\ \A j \in Jobs : row'[j] = row[j]
    BY <1>4 DEF Restart
  <2> QED
    BY <1>1, <1>3, <2>1, DebitFrame
<1>5. CASE p = "api"
  <2>1. /\ \A n \in Requests : request'[n].job \notin Jobs
        /\ \A j \in Jobs : row'[j] =
             IF \E n \in Requests : request[n].at = "enqueuing" /\ request[n].job = j
             THEN "refused" ELSE row[j]
    BY <1>5, IdleAsked DEF Restart
  <2>2. \A n \in Requests : request[n].at = "enqueuing" => row[request[n].job] = "none"
    BY DEF DebitInv
  <2>3. \A j \in Jobs : row'[j] = row[j] \/ (row'[j] = "refused" /\ row[j] = "none")
    BY <2>1, <2>2
  <2>4. \A n \in Requests : \A j \in Jobs : request[n].job = j => row'[j] # "none"
    <3> SUFFICES ASSUME NEW n \in Requests, NEW j \in Jobs, request[n].job = j
                 PROVE  row'[j] # "none"
      OBVIOUS
    <3>1. request[n].at = "enqueuing" \/ (request[n].at = "cancelling" /\ Accepted(j))
      BY DEF TypeInv, DebitInv
    <3> QED
      BY <3>1, <2>1 DEF Accepted
  <2> DEFINE R == Requests
  <2>5. /\ \A n \in Requests :
             (request'[n] = request[n] /\ n \notin R) \/ (request'[n].job \notin Jobs /\ n \in R)
        /\ \A j \in Jobs : row'[j] # row[j] => \A n \in Requests \ R : request[n].job # j
        /\ R \in SUBSET Requests
    BY <2>1
  <2>6. \A n \in R : \A j \in Jobs : request[n].job = j => row'[j] # "none"
    BY <2>4
  <2> HIDE DEF R
  <2> QED
    BY <1>1, <1>3, <2>3, <2>5, <2>6, RefusalDebits
<1> QED
  BY <1>4, <1>5 DEF Processes

\* Every step keeps the debits.
LEMMA StepDebits == TypeInv /\ TypeInv' /\ SliceInv /\ DebitInv /\ [Next]_vars => DebitInv'
<1> SUFFICES ASSUME TypeInv, TypeInv', SliceInv, DebitInv, [Next]_vars PROVE DebitInv'
  OBVIOUS
<1>1. CASE UNCHANGED vars
  <2>1. UNCHANGED <<db, row, mem, request>>
    BY <1>1 DEF vars
  <2> QED
    BY <2>1, DebitFrame
<1>2. CASE Next
  BY <1>2, QuietDebits, EnqueueDebits, CommitDebits, AnswerDebits, CancelDebits, WorkerDebits,
     RestartDebits DEF Next, RequestStep
<1> QED
  BY <1>1, <1>2

\* A job that was accepted under a cycle no other job has, with its row in the database,
\* has its debit there: whatever is reloaded between the reserve and the commit, and
\* whatever is written back afterwards.  Two jobs of one key share a cycle, and the
\* second is accepted without a debit when the first was rolled back: the process
\* still remembers its reserve.
THEOREM AcceptedMeansDebited ==
  ASSUME \A j, k \in Jobs : EnqueueCycle(k) = EnqueueCycle(j) => k = j
  PROVE  Spec => []AcceptedJobIsDebited
<1>1. DebitInv => AcceptedJobIsDebited
  BY BackedEntry DEF DebitInv, AcceptedJobIsDebited, Own, Debited
<1>2. Spec => [](TypeInv /\ SliceInv /\ DebitInv)
  BY InitTypes, InitSlices, InitDebits, StepTypes, StepSlices, StepDebits, PTL DEF Spec
<1> QED
  BY <1>1, <1>2, PTL

-----------------------------------------------------------------------------
(* What the worker settles is debited: the reservation it finds is of the  *)
(* database, and so is the one of an operation it remembers; a job without *)
(* a key is its own, and was debited when it was accepted.                 *)

PaidInv ==
  /\ \A j \in Jobs : work[j] \in {"loading", "generating"} => Accepted(j)
  /\ \A k \in ClientKeys :
       <<"capture", k>> \in mem["worker"].known => Backs(db.ledger, "reserve", k)
  /\ \A j \in Jobs : work[j] = "completing" \/ row[j] = "done" => Debited(db.ledger, j)

\* Steps that begin no job, capture nothing and end no job.
LEMMA PaidFrame ==
  ASSUME PaidInv, db.ledger \subseteq db'.ledger,
         \A j \in Jobs : work'[j] = work[j] \/ work'[j] \in {"failing", "ended"},
         \A k \in ClientKeys : <<"capture", k>> \in mem'["worker"].known =>
           <<"capture", k>> \in mem["worker"].known,
         \A j \in Jobs : row'[j] = row[j] \/
           (row'[j] # "done" /\ (Accepted(j) => row'[j] \notin {"none", "refused"}))
  PROVE  PaidInv'
BY DEF PaidInv, Accepted, Debited, Backs

\* Nothing has been generated.
LEMMA InitPaid == Init => PaidInv
BY DEF Init, PaidInv, Booted, Processes

\* A job whose request carries no key shares its cycle with none.
LEMMA KeylessIsOwn ==
  ASSUME NEW j \in Jobs, KeyOf[j] = NoKey
  PROVE  Own(j)
BY PersistenceAssumption DEF Own, EnqueueCycle

\* A capture that succeeds is of a job that is debited.
LEMMA CapturePaid ==
  ASSUME TypeInv, SliceInv, DebitInv, PaidInv, NEW j \in Jobs, work[j] = "generating",
         CanSettle("worker", "capture", WorkerCycle(j), EnqueueCycle(j))
  PROVE  Debited(db.ledger, j)
<1>1. CASE mem["worker"].status[EnqueueCycle(j)] # "none"
  BY <1>1, CycleTyped DEF SliceInv, Debited
<1>2. CASE Remembers("worker", "capture", WorkerCycle(j)) /\ KeyOf[j] # NoKey
  <2>1. /\ WorkerCycle(j) = KeyOf[j] /\ EnqueueCycle(j) = KeyOf[j]
        /\ KeyOf[j] \in ClientKeys
    BY <1>2, PersistenceAssumption DEF WorkerCycle, EnqueueCycle
  <2> QED
    BY <1>2, <2>1 DEF Remembers, PaidInv, Debited
<1>3. CASE KeyOf[j] = NoKey
  BY <1>3, KeylessIsOwn DEF PaidInv, DebitInv
<1> QED
  BY <1>1, <1>2, <1>3 DEF CanSettle

\* The worker.
LEMMA WorkerPaid ==
  ASSUME TypeInv, SliceInv, DebitInv, PaidInv, NEW j \in Jobs, WorkerStep(j)
  PROVE  PaidInv'
<1> USE DEF Works
<1>1. UNCHANGED db
  BY DEF WorkerStep, Claim, JobLoaded, CaptureCredits, ReleaseCredits, SettlementFails, JobEnds
<1>2. CASE Claim(j)
  <2>1. /\ \A i \in Jobs : work'[i] = IF i = j THEN "loading" ELSE work[i]
        /\ \A i \in Jobs : row'[i] = IF i = j THEN "running" ELSE row[i]
        /\ UNCHANGED mem
    BY <1>2 DEF Claim, TypeInv
  <2> QED
    BY <1>1, <2>1 DEF PaidInv, Accepted
<1>3. CASE JobLoaded(j)
  <2>1. \A p \in Processes : mem'[p].known = mem[p].known
    BY <1>3, MergeRemembers DEF JobLoaded, Readers
  <2>2. /\ \A i \in Jobs : work'[i] = IF i = j THEN "generating" ELSE work[i]
        /\ UNCHANGED row /\ work[j] = "loading"
    BY <1>3 DEF JobLoaded, Merge, Loading, TypeInv
  <2> QED
    BY <1>1, <2>1, <2>2 DEF PaidInv, Accepted, Processes
<1>4. CASE CaptureCredits(j)
  <2>1. /\ Settle("worker", "capture", WorkerCycle(j), EnqueueCycle(j))
        /\ work[j] = "generating" /\ UNCHANGED row
        /\ \A i \in Jobs : work'[i] = IF i = j THEN "completing" ELSE work[i]
    BY <1>4 DEF CaptureCredits, TypeInv
  <2>2. Debited(db.ledger, j)
    BY <2>1, CapturePaid DEF Settle
  <2>3. mem'["worker"].known = mem["worker"].known \union {<<"capture", WorkerCycle(j)>>}
    BY <2>1, CycleTyped, SettleRemembers DEF Processes
  <2>4. \A k \in ClientKeys : <<"capture", k>> \in mem'["worker"].known =>
          Backs(db.ledger, "reserve", k)
    <3> SUFFICES ASSUME NEW k \in ClientKeys, <<"capture", k>> \in mem'["worker"].known
                 PROVE  Backs(db.ledger, "reserve", k)
      OBVIOUS
    <3>1. CASE k = WorkerCycle(j)
      <4>1. EnqueueCycle(j) = k
        BY <3>1, PersistenceAssumption DEF WorkerCycle, EnqueueCycle
      <4> QED
        BY <4>1, <2>2 DEF Debited
    <3>2. CASE k # WorkerCycle(j)
      BY <3>2, <2>3 DEF PaidInv
    <3> QED
      BY <3>1, <3>2
  <2> QED
    BY <1>1, <2>1, <2>2, <2>4 DEF PaidInv, Accepted
<1>5. CASE ReleaseCredits(j)
  <2>1. /\ Settle("worker", "release", WorkerCycle(j), EnqueueCycle(j))
        /\ UNCHANGED row
        /\ \A i \in Jobs : work'[i] = work[i] \/ work'[i] \in {"failing", "ended"}
    BY <1>5 DEF ReleaseCredits, TypeInv
  <2>2. mem'["worker"].known = mem["worker"].known \union {<<"release", WorkerCycle(j)>>}
    BY <2>1, CycleTyped, SettleRemembers DEF Processes
  <2> QED
    BY <1>1, <2>1, <2>2, PaidFrame
<1>6. CASE SettlementFails(j)
  BY <1>1, <1>6, PaidFrame DEF SettlementFails, TypeInv
<1>7. CASE JobEnds(j)
  <2>1. /\ work[j] \in {"completing", "failing"} /\ UNCHANGED mem
        /\ \A i \in Jobs : work'[i] = IF i = j THEN "ended" ELSE work[i]
    BY <1>7 DEF JobEnds, TypeInv
  <2>2. /\ \A i \in Jobs : i # j => row'[i] = row[i]
        /\ row'[j] = row[j] \/ row'[j] \in {"done", "failed"}
        /\ row'[j] = "done" => row[j] = "done" \/ work[j] = "completing"
    BY <1>7, EndedRow
  <2> QED
    BY <1>1, <2>1, <2>2 DEF PaidInv, Accepted
<1> QED
  BY <1>2, <1>3, <1>4, <1>5, <1>6, <1>7 DEF WorkerStep

\* The API, the database and the restarts.
LEMMA OthersPaid ==
  ASSUME TypeInv, DebitInv, PaidInv,
         \/ \E x \in Readers : ReadLedger(x) \/ ReadReservations(x) \/ ReloadFails(x)
         \/ \E p \in Processes : PersistStep(p) \/ PersistFails(p) \/ Restart(p)
         \/ \E n \in Requests : \/ RequestArrives(n) \/ RequestEnds(n) \/ RequestStep(n)
                                \/ EnqueueFails(n)
                                \/ \E j \in Jobs : Enqueue(n, j) \/ CancelJob(n, j)
  PROVE  PaidInv'
<1>1. ASSUME NEW x \in Readers, ReadLedger(x) \/ ReadReservations(x) \/ ReloadFails(x)
      PROVE  PaidInv'
  <2>1. UNCHANGED <<db, row, mem>>
    BY <1>1 DEF ReadLedger, ReadReservations, ReloadFails
  <2>2. \A j \in Jobs : work'[j] = work[j] \/ work'[j] \in {"failing", "ended"}
    BY <1>1 DEF ReadLedger, ReadReservations, ReloadFails, TypeInv
  <2> QED
    BY <2>1, <2>2, PaidFrame
<1>2. ASSUME NEW p \in Processes, PersistStep(p) \/ PersistFails(p)
      PROVE  PaidInv'
  <2>1. UNCHANGED <<row, mem, work>> /\ db.ledger \subseteq db'.ledger
    BY <1>2 DEF PersistStep, PersistBegins, PersistCommits, PersistFails, Written
  <2> QED
    BY <2>1, PaidFrame
<1>3. ASSUME NEW p \in Processes, Restart(p)
      PROVE  PaidInv'
  <2>1. UNCHANGED db
    BY <1>3 DEF Restart
  <2>2. \A q \in Processes : mem'[q] = mem[q] \/ mem'[q] = Booted
    BY <1>3 DEF Restart, TypeInv
  <2>3. \A j \in Jobs : work'[j] = work[j] \/ work'[j] \in {"failing", "ended"}
    BY <1>3 DEF Restart
  <2>4. \A n \in Requests : request[n].at = "enqueuing" => row[request[n].job] = "none"
    BY DEF DebitInv
  <2>5. \A j \in Jobs : row'[j] = row[j] \/ (row'[j] = "refused" /\ row[j] = "none")
    BY <1>3, <2>4 DEF Restart
  <2> QED
    BY <2>1, <2>2, <2>3, <2>5, PaidFrame DEF Processes, Booted, Accepted
<1>4. ASSUME NEW n \in Requests,
             \/ RequestArrives(n) \/ RequestEnds(n) \/ RequestStep(n) \/ EnqueueFails(n)
             \/ \E j \in Jobs : Enqueue(n, j) \/ CancelJob(n, j)
      PROVE  PaidInv'
  <2>1. UNCHANGED work
    BY <1>4 DEF RequestArrives, RequestEnds, RequestStep, RequestLoaded, EnqueueCommits,
       CancelReleases, CancelReleaseFails, EnqueueFails, Enqueue, CancelJob
  <2>2. db.ledger \subseteq db'.ledger
    <3>1. CASE EnqueueCommits(n)
      BY <3>1 DEF EnqueueCommits, Written
    <3>2. CASE ~EnqueueCommits(n)
      BY <1>4, <3>2 DEF RequestArrives, RequestEnds, RequestStep, RequestLoaded, CancelReleases,
         CancelReleaseFails, EnqueueFails, Enqueue, CancelJob
    <3> QED
      BY <3>1, <3>2
  <2>3. mem'["worker"].known = mem["worker"].known
    <3>1. CASE RequestLoaded(n)
      BY <3>1, MergeRemembers DEF RequestLoaded, Readers, Processes
    <3>2. CASE CancelReleases(n)
      <4>1. PICK i \in Jobs : Settle("api", "release", i, EnqueueCycle(i)) /\ i \in Keys
                              /\ EnqueueCycle(i) \in Cycles
        BY <3>2, CancelSettles
      <4> QED
        BY <4>1, SettleRemembers DEF Processes
    <3>3. ASSUME NEW j \in Jobs, Enqueue(n, j)
          PROVE  mem'["worker"].known = mem["worker"].known
      BY <3>3 DEF Enqueue, TypeInv, Processes
    <3>4. CASE ~(RequestLoaded(n) \/ CancelReleases(n) \/ \E j \in Jobs : Enqueue(n, j))
      BY <1>4, <3>4 DEF RequestArrives, RequestEnds, RequestStep, EnqueueCommits,
         CancelReleaseFails, EnqueueFails, CancelJob
    <3> QED
      BY <3>1, <3>2, <3>3, <3>4
  <2>4. \A j \in Jobs : row'[j] = row[j] \/
          (row'[j] # "done" /\ (Accepted(j) => row'[j] \notin {"none", "refused"}))
    <3>1. CASE EnqueueCommits(n)
      BY <3>1 DEF EnqueueCommits, TypeInv, Accepted
    <3>2. CASE EnqueueFails(n)
      BY <3>2 DEF EnqueueFails, DebitInv, TypeInv, Accepted
    <3>3. ASSUME NEW j \in Jobs, CancelJob(n, j)
          PROVE  \A i \in Jobs : row'[i] = row[i] \/ row'[i] = "cancelled"
      BY <3>3 DEF CancelJob, TypeInv
    <3>4. CASE ~(EnqueueCommits(n) \/ EnqueueFails(n) \/ \E j \in Jobs : CancelJob(n, j))
      BY <1>4, <3>4 DEF RequestArrives, RequestEnds, RequestStep, RequestLoaded, CancelReleases,
         CancelReleaseFails, Enqueue
    <3> QED
      BY <3>1, <3>2, <3>3, <3>4
  <2> QED
    BY <2>1, <2>2, <2>3, <2>4, PaidFrame
<1> QED
  BY <1>1, <1>2, <1>3, <1>4

\* Every step keeps what is done paid.
LEMMA StepPaid == TypeInv /\ SliceInv /\ DebitInv /\ PaidInv /\ [Next]_vars => PaidInv'
<1> SUFFICES ASSUME TypeInv, SliceInv, DebitInv, PaidInv, [Next]_vars PROVE PaidInv'
  OBVIOUS
<1>1. CASE UNCHANGED vars
  BY <1>1 DEF vars, PaidInv, Accepted
<1>2. CASE Next
  BY <1>2, WorkerPaid, OthersPaid DEF Next
<1> QED
  BY <1>1, <1>2

\* Whatever keys the clients send, however they retry and whatever the worker remembers
\* from another job or forgets with a restart, a job that is done is debited in the
\* database: what the worker finds settles a reserve that was committed.
THEOREM DoneMeansPaid == Spec => []DoneIsPaid
<1>1. PaidInv => DoneIsPaid
  BY BackedEntry DEF PaidInv, DoneIsPaid, Debited
<1>2. Spec => [](TypeInv /\ SliceInv /\ DebitInv /\ PaidInv)
  BY InitTypes, InitSlices, InitDebits, InitPaid, StepTypes, StepSlices, StepDebits, StepPaid,
     PTL DEF Spec
<1> QED
  BY <1>1, <1>2, PTL

=============================================================================
