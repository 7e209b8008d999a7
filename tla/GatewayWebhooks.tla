---------------------------- MODULE GatewayWebhooks ----------------------------
(***************************************************************************)
(* One user's first paid subscription at Stripe: the checkout, the events  *)
(* Stripe delivers at least once and in any order, and what the API makes  *)
(* of them.  Handling an event is a sequence of awaits: dispatch it to the *)
(* billing service (memory, and a slice write scheduled behind it), update *)
(* the checkout intent and the link rows, record the event, answer.        *)
(*                                                                         *)
(* Abstractions.  The user has the trial and may buy one plan; the paid    *)
(* subscription started later.  The reads of a reload are one step         *)
(* (BillingPersistence splits them).  Only the month grants of the ledger  *)
(* are kept: balances, rollover and expiry are in BillingService, and a    *)
(* second entry under a key already in memory is not counted.              *)
(***************************************************************************)
EXTENDS Naturals, FiniteSets

CONSTANTS
  Handlers,    \* webhook requests the API serves at once
  NoEvent,
  NotRead,     \* the reload of an authenticated request that has not begun
  MaxWaiting,  \* bound: slice writes on the queue
  MaxChanges,  \* bound: changes of the subscription after its payment
  MaxFaults,   \* bound: statements that fail, answers that are lost and
               \* restarts of the API process
  MaxTrouble   \* bound: changes and faults together

ASSUME WebhooksAssumption ==
  {MaxWaiting, MaxChanges, MaxFaults, MaxTrouble} \subseteq Nat

VARIABLES
  intent,   \* status of the checkout intent
  stripe,   \* the hosted session, then the subscription
  emitted,  \* events Stripe has to deliver
  acked,    \* those it has a 2xx answer to
  handler,  \* what each webhook request is doing
  mem,      \* the user's subscriptions, open cycles, month grants and the
            \* remembered operations in the process's memory
  db,       \* the same rows in PostgreSQL
  persist,  \* the queue of slice writes: how many wait, and the one begun
  load,     \* what an authenticated request read before its merge
  linked,   \* plans whose subscription has a gateway subscription row
  spent     \* changes and faults so far

memory == <<mem, persist, load>>
vars == <<intent, stripe, emitted, acked, handler, memory, db, linked, spent>>

Plans == {"trial", "paid"}
Events == {"completed", "renewed", "failed", "cancelled"}
Statuses == {"none", "trialing", "active", "past_due", "canceled"}

Slice(m) == [status |-> m.status, cycles |-> m.cycles, months |-> m.months]
Trialing == [status |-> [p \in Plans |-> IF p = "trial" THEN "trialing" ELSE "none"],
             cycles |-> {"trial"}, months |-> {}]
Booted == [status |-> [p \in Plans |-> "none"], cycles |-> {}, months |-> {}, known |-> {}]
Idle == [at |-> "idle", event |-> NoEvent]
NoWrite == [waiting |-> 0, writing |-> NotRead]

Init ==
  /\ intent = "none" /\ stripe = "none"
  /\ emitted = {} /\ acked = {}
  /\ handler = [h \in Handlers |-> Idle]
  /\ mem = [status |-> Trialing.status, cycles |-> Trialing.cycles, months |-> {}, known |-> {}]
  /\ db = Trialing
  /\ persist = NoWrite
  /\ load = NotRead
  /\ linked = {}
  /\ spent = [changes |-> 0, faults |-> 0]

Spend(what, max) ==
  /\ spent[what] < max /\ spent.changes + spent.faults < MaxTrouble
  /\ spent' = [spent EXCEPT ![what] = @ + 1]

-----------------------------------------------------------------------------
(* The checkout, and Stripe.                                               *)

CreateCheckoutIntent ==
  /\ intent = "none"
  /\ intent' = "pending"
  /\ UNCHANGED <<stripe, emitted, acked, handler, memory, db, linked, spent>>

CreateCheckoutSession ==
  /\ intent = "pending" /\ stripe = "none"
  /\ stripe' = "session"
  /\ UNCHANGED <<intent, emitted, acked, handler, memory, db, linked, spent>>

\* The subscription changes at Stripe, which has events to deliver.
Becomes(status, events) ==
  /\ stripe' = status
  /\ emitted' = emitted \union events
  /\ UNCHANGED <<intent, acked, handler, memory, db, linked>>

PayCheckout ==
  /\ stripe = "session"
  /\ Becomes("active", {"completed", "renewed"})
  /\ UNCHANGED spent
ChargeFails ==
  /\ stripe = "active" /\ Spend("changes", MaxChanges)
  /\ Becomes("past_due", {"failed"})
CancelInPortal ==
  /\ stripe \in {"active", "past_due"} /\ Spend("changes", MaxChanges)
  /\ Becomes("cancelled", {"cancelled"})

-----------------------------------------------------------------------------
(* The user's slice: reloading it, writing it.                             *)

\* An authenticated request reads the user's slice, then merges it.
ReadSlice ==
  /\ load = NotRead
  /\ load' = db
  /\ UNCHANGED <<intent, stripe, emitted, acked, handler, mem, persist, db,
                 linked, spent>>

MergeSlice ==
  /\ load # NotRead
  /\ mem' = [status |-> load.status, cycles |-> load.cycles, months |-> load.months,
             known |-> mem.known]
  /\ load' = NotRead
  /\ UNCHANGED <<intent, stripe, emitted, acked, handler, persist, db, linked,
                 spent>>

\* The transaction of a slice write has begun and reads the memory.
BeginWrite ==
  /\ persist.waiting > 0 /\ persist.writing = NotRead
  /\ persist' = [waiting |-> persist.waiting - 1, writing |-> Slice(mem)]
  /\ UNCHANGED <<intent, stripe, emitted, acked, handler, mem, load, db, linked,
                 spent>>

\* Mutant: the ledger's key does not keep a second entry out.
WrittenTwice(slice) ==
  [status |-> [p \in Plans |->
     IF slice.status[p] = "none" THEN db.status[p] ELSE slice.status[p]],
   cycles |-> db.cycles \union slice.cycles,
   months |-> db.months \union slice.months]

(* Rows are upserted; a ledger entry whose idempotency key, made of the    *)
(* event, is there already is skipped.                                     *)
Written(slice) ==
  [status |-> [p \in Plans |->
     IF slice.status[p] = "none" THEN db.status[p] ELSE slice.status[p]],
   cycles |-> db.cycles \union slice.cycles,
   months |-> db.months \union
     {m \in slice.months : \A d \in db.months : d.event # m.event}]

WriteSlice ==
  /\ persist.writing # NotRead
  /\ persist' = [persist EXCEPT !.writing = NotRead]
  /\ UNCHANGED <<intent, stripe, emitted, acked, handler, mem, load, linked>>
  /\ \/ db' = Written(persist.writing) /\ UNCHANGED spent
     \/ Spend("faults", MaxFaults) /\ UNCHANGED db   \* logged, not tried again

-----------------------------------------------------------------------------
(* Handling a delivery.                                                    *)

Goes(h, at) == handler' = [handler EXCEPT ![h].at = at]
Existing == {p \in Plans : mem.status[p] # "none"}
ActivePlans == {p \in Plans : mem.status[p] = "active"}

\* getPrimarySubscriptionPlanId: the latest active subscription, else the
\* latest one.
Primary ==
  LET pool == IF ActivePlans # {} THEN ActivePlans ELSE Existing
  IN IF "paid" \in pool THEN "paid" ELSE "trial"

\* Mutant: the plan of a checkout is looked up like any other's.
ResolvableInMemory(e) == Existing # {}

\* A checkout carries the plan; Stripe's other events are about the primary.
Resolvable(e) == e = "completed" \/ Existing # {}
PlanOf(e) == IF e = "completed" THEN "paid" ELSE Primary

(* Stripe delivers an event until it is answered with success, also while  *)
(* a delivery is being handled; once more counts as a fault.  A checkout's *)
(* intent is read first.                                                   *)
Deliver(h, e) ==
  /\ handler[h].at = "idle" /\ e \in emitted
  /\ IF e \in acked THEN Spend("faults", MaxFaults) ELSE UNCHANGED spent
  /\ handler' = [handler EXCEPT ![h] = [at |-> "dispatch", event |-> e]]
  /\ UNCHANGED <<intent, stripe, emitted, acked, memory, db, linked>>

StatusAfter(e) ==
  CASE e \in {"completed", "renewed"} -> "active"
    [] e = "failed" -> "past_due"
    [] e = "cancelled" -> "canceled"

\* startCycle is called for a renewal, and for a checkout whose plan has no
\* open cycle; it opens nothing for an event whose operation is remembered.
CallsStartCycle(e, p) == e = "renewed" \/ (e = "completed" /\ p \notin mem.cycles)

\* The patch schedules a slice write, and so does startCycle.
Writes(e, p) ==
  IF CallsStartCycle(e, p) THEN 2 ELSE 1

Dispatch(h) ==
  LET e == handler[h].event
      p == PlanOf(e)
  IN /\ handler[h].at = "dispatch" /\ Resolvable(e)
     /\ persist.waiting + Writes(e, p) <= MaxWaiting
     /\ LET patched == [mem EXCEPT !.status[p] = StatusAfter(e)]
        IN mem' = IF CallsStartCycle(e, p) /\ e \notin mem.known
                    THEN [patched EXCEPT !.cycles = @ \union {p},
                                         !.months = @ \union {[plan |-> p, event |-> e]},
                                         !.known = @ \union {e}]
                    ELSE patched
     /\ persist' = [persist EXCEPT !.waiting = @ + Writes(e, p)]
     /\ Goes(h, "complete")
     /\ UNCHANGED <<intent, stripe, emitted, acked, load, db, linked, spent>>

\* No plan in sight: the request is answered with an error.
Refuse(h) ==
  /\ handler[h].at = "dispatch" /\ ~Resolvable(handler[h].event)
  /\ handler' = [handler EXCEPT ![h] = Idle]
  /\ UNCHANGED <<intent, stripe, emitted, acked, memory, db, linked, spent>>

\* Mutant: the event is recorded and the answer sent before the rows are
\* brought up to date.
AnswersEarly(h) ==
  /\ handler[h].at = "complete"
  /\ acked' = acked \union {handler[h].event}
  /\ Goes(h, "link")
  /\ intent' = IF handler[h].event = "completed" THEN "completed" ELSE intent
  /\ UNCHANGED <<stripe, emitted, memory, db, linked, spent>>

CompleteCheckoutIntent(h) ==
  /\ handler[h].at = "complete"
  /\ intent' = IF handler[h].event = "completed" THEN "completed" ELSE intent
  /\ Goes(h, "link")
  /\ UNCHANGED <<stripe, emitted, acked, memory, db, linked, spent>>

\* The plan of an event without one is looked up again.
LinkGatewaySubscription(h) ==
  LET e == handler[h].event
  IN /\ handler[h].at = "link"
     /\ linked' = IF Resolvable(e) THEN linked \union {PlanOf(e)} ELSE linked
     /\ Goes(h, "record")
     /\ UNCHANGED <<intent, stripe, emitted, acked, memory, db, spent>>

\* The event is recorded, which nothing reads, and the request answered.
RecordAndAnswer(h) ==
  /\ handler[h].at = "record"
  /\ acked' = acked \union {handler[h].event}
  /\ handler' = [handler EXCEPT ![h] = Idle]
  /\ UNCHANGED <<intent, stripe, emitted, memory, db, linked, spent>>

\* A statement fails, or the answer is lost: Stripe has no 2xx.
HandlerFails(h) ==
  /\ handler[h].at \in {"dispatch", "complete", "link", "record"}
  /\ Spend("faults", MaxFaults)
  /\ handler' = [handler EXCEPT ![h] = Idle]
  /\ UNCHANGED <<intent, stripe, emitted, acked, memory, db, linked>>

\* The memory, the queue and the requests are gone; only the catalog is
\* read at boot.
Restart ==
  /\ Spend("faults", MaxFaults)
  /\ mem' = Booted /\ persist' = NoWrite /\ load' = NotRead
  /\ handler' = [h \in Handlers |-> Idle]
  /\ UNCHANGED <<intent, stripe, emitted, acked, db, linked>>

Handle(h) ==
  \/ Dispatch(h) \/ Refuse(h) \/ CompleteCheckoutIntent(h)
  \/ LinkGatewaySubscription(h) \/ RecordAndAnswer(h)

Next ==
  \/ CreateCheckoutIntent \/ CreateCheckoutSession
  \/ PayCheckout \/ ChargeFails \/ CancelInPortal
  \/ ReadSlice \/ MergeSlice \/ BeginWrite \/ WriteSlice \/ Restart
  \/ \E h \in Handlers : \/ \E e \in Events : Deliver(h, e)
                         \/ Handle(h)
                         \/ HandlerFails(h)

Spec == Init /\ [][Next]_vars

(* What is begun goes on; Stripe delivers again what has no 2xx answer.    *)
(* Nobody has to sign in, pay or cancel.                                   *)
Redeliver(e) == e \notin acked /\ \E h \in Handlers : Deliver(h, e)
FairSpec ==
  /\ Spec
  /\ WF_vars(BeginWrite) /\ WF_vars(WriteSlice) /\ WF_vars(MergeSlice)
  /\ \A h \in Handlers : WF_vars(Handle(h))
  /\ \A e \in Events : SF_vars(Redeliver(e))

-----------------------------------------------------------------------------
(* Properties.                                                             *)

Months == [plan : Plans, event : {"completed", "renewed"}]
Slices == [status : [Plans -> Statuses], cycles : SUBSET Plans, months : SUBSET Months]
Memories ==
  [status : [Plans -> Statuses], cycles : SUBSET Plans, months : SUBSET Months,
   known : SUBSET {"completed", "renewed"}]

(* The types; a request handles an event Stripe has sent.                  *)
TypeOK ==
  /\ intent \in {"none", "pending", "completed"}
  /\ stripe \in {"none", "session", "active", "past_due", "cancelled"}
  /\ acked \subseteq emitted /\ emitted \subseteq Events
  /\ handler \in [Handlers ->
       [at : {"idle", "dispatch", "complete", "link", "record"}, event : Events \union {NoEvent}]]
  /\ \A h \in Handlers : handler[h].at # "idle" => handler[h].event \in emitted
  /\ mem \in Memories /\ db \in Slices
  /\ persist \in [waiting : 0..MaxWaiting, writing : Slices \union {NotRead}]
  /\ load \in Slices \union {NotRead}
  /\ linked \subseteq Plans
  /\ spent \in [changes : 0..MaxChanges, faults : 0..MaxFaults]

(* A checkout that Stripe will not deliver again has left its intent       *)
(* completed and the plan's link row behind, whatever failed and was tried *)
(* again in between (the order billing-webhook-service.ts argues for).     *)
AcknowledgedIsDone ==
  "completed" \in acked => intent = "completed" /\ "paid" \in linked

(* However often an event is handled, before and after restarts and        *)
(* reloads, by two requests at once, and whichever plan it was resolved    *)
(* to, the ledger in PostgreSQL holds one month for it.                    *)
EventGrantsOneMonth ==
  \A m, n \in db.months : m.event = n.event => m = n

(* Every event of Stripe is in the end answered with success, unless the   *)
(* process has forgotten the user and nobody signs in; a paid checkout,    *)
(* which names its plan, always is.                                        *)
EventsAreAcknowledged ==
  \A e \in Events :
    e \in emitted ~> (e \in acked \/ (e # "completed" /\ Existing = {}))

=============================================================================
