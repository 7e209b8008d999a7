------------------------- MODULE GatewayWebhooksProofs -------------------------
(***************************************************************************)
(* What holds of the webhooks for any number of requests at once, any      *)
(* number of faults, restarts and redeliveries.                            *)
(***************************************************************************)
EXTENDS GatewayWebhooks, TLAPS

(* Only these change what is kept of the slice: the memory, the queue, the *)
(* reload in progress and the database.                                    *)
LEMMA SliceSteps ==
  ASSUME [Next]_vars,
         ~ReadSlice, ~MergeSlice, ~BeginWrite, ~WriteSlice, ~Restart,
         \A h \in Handlers : ~Dispatch(h)
  PROVE  UNCHANGED <<memory, db>>
<1>1. CASE CreateCheckoutIntent \/ CreateCheckoutSession
  BY <1>1 DEF CreateCheckoutIntent, CreateCheckoutSession
<1>2. CASE PayCheckout \/ ChargeFails \/ CancelInPortal
  BY <1>2 DEF PayCheckout, ChargeFails, CancelInPortal, Becomes
<1>3. ASSUME NEW h \in Handlers,
             (\E e \in Events : Deliver(h, e)) \/ Handle(h) \/ HandlerFails(h)
      PROVE  UNCHANGED <<memory, db>>
  BY <1>3 DEF Deliver, Handle, Refuse, CompleteCheckoutIntent, LinkGatewaySubscription,
              RecordAndAnswer, HandlerFails
<1>4. CASE UNCHANGED vars
  BY <1>4 DEF vars
<1> QED
  BY <1>1, <1>2, <1>3, <1>4 DEF Next

-----------------------------------------------------------------------------
(* Types.                                                                  *)

\* A bound is spent one by one.
LEMMA SpendTyped ==
  ASSUME TypeOK, Spend("faults", MaxFaults) \/ Spend("changes", MaxChanges)
  PROVE  spent' \in [changes : 0..MaxChanges, faults : 0..MaxFaults]
BY WebhooksAssumption DEF TypeOK, Spend

(* A request that moves on keeps its event, one that ends has none.        *)
LEMMA HandlerTyped ==
  ASSUME TypeOK, NEW h \in Handlers,
         \/ \E at \in {"dispatch", "complete", "link", "record"} :
              handler[h].at # "idle" /\ Goes(h, at)
         \/ handler' = [handler EXCEPT ![h] = Idle],
         emitted' = emitted
  PROVE  /\ handler' \in [Handlers ->
              [at : {"idle", "dispatch", "complete", "link", "record"},
               event : Events \union {NoEvent}]]
         /\ \A g \in Handlers : handler'[g].at # "idle" => handler'[g].event \in emitted'
<1>1. CASE handler' = [handler EXCEPT ![h] = Idle]
  BY <1>1 DEF TypeOK, Idle
<1>2. ASSUME NEW at \in {"dispatch", "complete", "link", "record"},
             handler[h].at # "idle", Goes(h, at)
      PROVE  /\ handler' \in [Handlers ->
                  [at : {"idle", "dispatch", "complete", "link", "record"},
                   event : Events \union {NoEvent}]]
             /\ \A g \in Handlers : handler'[g].at # "idle" => handler'[g].event \in emitted'
  <2>1. /\ handler'[h].event = handler[h].event
        /\ \A g \in Handlers : g # h => handler'[g] = handler[g]
    BY <1>2 DEF TypeOK, Goes
  <2> QED
    BY <1>2, <2>1 DEF TypeOK, Goes
<1> QED
  BY <1>1, <1>2

\* What the database holds after a slice was written.
LEMMA WrittenTyped ==
  ASSUME TypeOK, NEW slice \in Slices
  PROVE  Written(slice) \in Slices
BY DEF TypeOK, Slices, Written

(* What a dispatch makes of the memory.                                    *)
LEMMA DispatchMemory ==
  ASSUME TypeOK, NEW h \in Handlers, Dispatch(h)
  PROVE  LET e == handler[h].event
             p == PlanOf(e)
         IN /\ e \in Events /\ p \in Plans
            /\ mem' \in Memories
            /\ \/ mem'.months = mem.months /\ mem'.known = mem.known
               \/ /\ e \notin mem.known
                  /\ e \in {"completed", "renewed"}
                  /\ mem'.months = mem.months \union {[plan |-> p, event |-> e]}
                  /\ mem'.known = mem.known \union {e}
<1> DEFINE e == handler[h].event
           p == PlanOf(e)
           patched == [mem EXCEPT !.status[p] = StatusAfter(e)]
<1>1. e \in Events /\ p \in Plans
  BY DEF Dispatch, TypeOK, PlanOf, Primary, Plans
<1>2. StatusAfter(e) \in Statuses
  BY <1>1 DEF StatusAfter, Events, Statuses
<1>3. /\ patched \in Memories
      /\ patched.months = mem.months /\ patched.known = mem.known
  BY <1>1, <1>2 DEF TypeOK, Memories
<1>4. CASE mem' = patched
  BY <1>1, <1>3, <1>4
<1>5. CASE /\ CallsStartCycle(e, p) /\ e \notin mem.known
           /\ mem' = [patched EXCEPT !.cycles = @ \union {p},
                                     !.months = @ \union {[plan |-> p, event |-> e]},
                                     !.known = @ \union {e}]
  <2>1. e \in {"completed", "renewed"}
    BY <1>5 DEF CallsStartCycle
  <2>2. [plan |-> p, event |-> e] \in Months
    BY <1>1, <2>1 DEF Months
  <2> HIDE DEF patched, e, p
  <2>3. /\ mem' \in Memories
        /\ mem'.months = patched.months \union {[plan |-> p, event |-> e]}
        /\ mem'.known = patched.known \union {e}
    BY <1>1, <1>3, <1>5, <2>1, <2>2 DEF Memories
  <2> QED
    BY <1>1, <1>3, <1>5, <2>1, <2>3 DEF e, p
<1>6. mem' = patched \/
      (/\ CallsStartCycle(e, p) /\ e \notin mem.known
       /\ mem' = [patched EXCEPT !.cycles = @ \union {p},
                                 !.months = @ \union {[plan |-> p, event |-> e]},
                                 !.known = @ \union {e}])
  BY DEF Dispatch
<1> QED
  BY <1>4, <1>5, <1>6

\* Every step keeps the types.
LEMMA TypeStep ==
  ASSUME TypeOK, [Next]_vars
  PROVE  TypeOK'
<1>1. CASE CreateCheckoutIntent \/ CreateCheckoutSession
  BY <1>1 DEF CreateCheckoutIntent, CreateCheckoutSession, TypeOK, memory
<1>2. CASE PayCheckout \/ ChargeFails \/ CancelInPortal
  <2>1. spent' \in [changes : 0..MaxChanges, faults : 0..MaxFaults]
    BY <1>2, SpendTyped DEF PayCheckout, ChargeFails, CancelInPortal, TypeOK
  <2> QED
    BY <1>2, <2>1 DEF PayCheckout, ChargeFails, CancelInPortal, Becomes, TypeOK, memory, Events
<1>3. CASE ReadSlice \/ MergeSlice
  <2>1. CASE ReadSlice
    BY <2>1 DEF ReadSlice, TypeOK
  <2>2. CASE MergeSlice
    <3>1. mem' \in Memories
      BY <2>2 DEF MergeSlice, TypeOK, Slices, Memories
    <3> QED
      BY <2>2, <3>1 DEF MergeSlice, TypeOK
  <2> QED
    BY <1>3, <2>1, <2>2
<1>4. CASE BeginWrite
  <2>1. Slice(mem) \in Slices
    BY DEF TypeOK, Memories, Slices, Slice
  <2>2. persist.waiting - 1 \in 0..MaxWaiting
    BY <1>4, WebhooksAssumption DEF BeginWrite, TypeOK
  <2>3. persist' \in [waiting : 0..MaxWaiting, writing : Slices \union {NotRead}]
    BY <1>4, <2>1, <2>2 DEF BeginWrite
  <2> QED
    BY <1>4, <2>3 DEF BeginWrite, TypeOK
<1>5. CASE WriteSlice
  <2>1. db' \in Slices
    BY <1>5, WrittenTyped DEF WriteSlice, TypeOK
  <2>2. spent' \in [changes : 0..MaxChanges, faults : 0..MaxFaults]
    BY <1>5, SpendTyped DEF WriteSlice, TypeOK
  <2>3. persist' \in [waiting : 0..MaxWaiting, writing : Slices \union {NotRead}]
    BY <1>5 DEF WriteSlice, TypeOK
  <2> QED
    BY <1>5, <2>1, <2>2, <2>3 DEF WriteSlice, TypeOK
<1>6. CASE Restart
  <2>1. Booted \in Memories /\ NoWrite \in [waiting : 0..MaxWaiting, writing : Slices \union {NotRead}]
    BY WebhooksAssumption DEF Booted, Memories, NoWrite, Statuses
  <2>2. spent' \in [changes : 0..MaxChanges, faults : 0..MaxFaults]
    BY <1>6, SpendTyped DEF Restart
  <2> QED
    BY <1>6, <2>1, <2>2 DEF Restart, TypeOK, Idle
<1>7. ASSUME NEW h \in Handlers, NEW e \in Events, Deliver(h, e)
      PROVE  TypeOK'
  <2>1. spent' \in [changes : 0..MaxChanges, faults : 0..MaxFaults]
    BY <1>7, SpendTyped DEF Deliver, TypeOK
  <2> QED
    BY <1>7, <2>1 DEF Deliver, TypeOK, memory
<1>8. ASSUME NEW h \in Handlers, Dispatch(h)
      PROVE  TypeOK'
  <2>1. mem' \in Memories
    BY <1>8, DispatchMemory
  <2>2. persist.waiting + Writes(handler[h].event, PlanOf(handler[h].event)) \in 0..MaxWaiting
    BY <1>8, WebhooksAssumption DEF Dispatch, TypeOK, Writes
  <2>3. persist' \in [waiting : 0..MaxWaiting, writing : Slices \union {NotRead}]
    BY <1>8, <2>2 DEF Dispatch, TypeOK
  <2> QED
    BY <1>8, <2>1, <2>3, HandlerTyped DEF Dispatch, TypeOK
<1>9. ASSUME NEW h \in Handlers, Refuse(h) \/ CompleteCheckoutIntent(h)
      PROVE  TypeOK'
  BY <1>9, HandlerTyped DEF Refuse, CompleteCheckoutIntent, TypeOK, memory
<1>10. ASSUME NEW h \in Handlers, LinkGatewaySubscription(h) \/ RecordAndAnswer(h)
       PROVE  TypeOK'
  BY <1>10, HandlerTyped
     DEF LinkGatewaySubscription, RecordAndAnswer, TypeOK, memory, PlanOf, Primary, Plans
<1>11. ASSUME NEW h \in Handlers, HandlerFails(h)
       PROVE  TypeOK'
  <2>1. spent' \in [changes : 0..MaxChanges, faults : 0..MaxFaults]
    BY <1>11, SpendTyped DEF HandlerFails
  <2> QED
    BY <1>11, <2>1, HandlerTyped DEF HandlerFails, TypeOK, memory
<1>12. CASE UNCHANGED vars
  BY <1>12 DEF vars, memory, TypeOK
<1> QED
  BY <1>1, <1>2, <1>3, <1>4, <1>5, <1>6, <1>7, <1>8, <1>9, <1>10, <1>11, <1>12
     DEF Next, Handle

\* The initial state has them.
LEMMA TypeStart ==
  ASSUME Init
  PROVE  TypeOK
BY WebhooksAssumption
   DEF Init, TypeOK, Trialing, Idle, NoWrite, Memories, Slices, Plans, Statuses

(* The types: whatever is restarted, redelivered and reloaded meanwhile, a *)
(* request in progress handles an event of Stripe's, and the queue and the *)
(* counters keep their bounds.                                             *)
THEOREM WebhooksTypeCorrect == Spec => []TypeOK
<1>1. Init => TypeOK
  BY TypeStart
<1>2. TypeOK /\ [Next]_vars => TypeOK'
  BY TypeStep
<1> QED
  BY <1>1, <1>2, PTL DEF Spec

-----------------------------------------------------------------------------
(* One month for an event.                                                 *)

Granted(e) == \E d \in db.months : d.event = e

\* Two months of a slice are about one event only when PostgreSQL has that
\* event's already.
OneEach(months) ==
  \A m, n \in months : m.event = n.event => m = n \/ Granted(m.event)

(* The month of an event is kept apart by the remembered operation until   *)
(* the ledger has it, and by the ledger's key from then on.                *)
MonthsInv ==
  /\ EventGrantsOneMonth
  /\ load # NotRead => load.months \subseteq db.months
  /\ \A m \in mem.months : m.event \in mem.known \/ Granted(m.event)
  /\ OneEach(mem.months)
  /\ persist.writing # NotRead => OneEach(persist.writing.months)

\* No month has been granted.
LEMMA MonthsStart ==
  ASSUME Init
  PROVE  MonthsInv
BY DEF Init, MonthsInv, EventGrantsOneMonth, OneEach, Trialing, NoWrite

\* A step grants an event's month at most once.
LEMMA MonthsStep ==
  ASSUME TypeOK, MonthsInv, [Next]_vars
  PROVE  MonthsInv'
<1>1. CASE ReadSlice
  BY <1>1 DEF ReadSlice, MonthsInv, EventGrantsOneMonth, OneEach, Granted
<1>2. CASE MergeSlice
  <2>1. mem'.months = load.months /\ load.months \subseteq db.months
    BY <1>2 DEF MergeSlice, MonthsInv
  <2>2. \A m \in mem'.months : Granted(m.event)
    BY <2>1 DEF Granted
  <2> QED
    BY <1>2, <2>2 DEF MergeSlice, MonthsInv, EventGrantsOneMonth, OneEach, Granted
<1>3. CASE BeginWrite
  <2>1. persist'.writing = Slice(mem) /\ Slice(mem).months = mem.months
    BY <1>3 DEF BeginWrite, Slice
  <2> QED
    BY <1>3, <2>1 DEF BeginWrite, MonthsInv, EventGrantsOneMonth, OneEach, Granted
<1>4. CASE WriteSlice
  <2>1. persist'.writing = NotRead
    BY <1>4 DEF WriteSlice, TypeOK
  <2>2. CASE db' = Written(persist.writing)
    <3> DEFINE new == {m \in persist.writing.months : \A d \in db.months : d.event # m.event}
    <3>1. db'.months = db.months \union new
      BY <2>2 DEF Written
    <3>2. \A m \in new : ~Granted(m.event)
      BY DEF Granted
    <3>3. \A m, n \in new : m.event = n.event => m = n
      BY <1>4, <3>2 DEF WriteSlice, MonthsInv, OneEach
    <3>4. \A m \in new : \A d \in db.months : d.event # m.event
      OBVIOUS
    <3>5. EventGrantsOneMonth'
      <4> HIDE DEF new
      <4> QED
        BY <3>1, <3>3, <3>4 DEF MonthsInv, EventGrantsOneMonth
    <3>6. \A e : Granted(e) => Granted(e)'
      BY <3>1 DEF Granted
    <3> QED
      BY <1>4, <2>1, <3>1, <3>5, <3>6 DEF WriteSlice, MonthsInv, OneEach
  <2>3. CASE UNCHANGED db
    BY <1>4, <2>1, <2>3 DEF WriteSlice, MonthsInv, EventGrantsOneMonth, OneEach, Granted
  <2> QED
    BY <1>4, <2>2, <2>3 DEF WriteSlice
<1>5. CASE Restart
  BY <1>5 DEF Restart, Booted, NoWrite, MonthsInv, EventGrantsOneMonth, OneEach
<1>6. ASSUME NEW h \in Handlers, Dispatch(h)
      PROVE  MonthsInv'
  <2> DEFINE e == handler[h].event
             m0 == [plan |-> PlanOf(e), event |-> e]
  <2>1. /\ UNCHANGED <<load, db>>
        /\ persist'.writing = persist.writing
    BY <1>6 DEF Dispatch, TypeOK
  <2>2. \A x : Granted(x)' <=> Granted(x)
    BY <2>1 DEF Granted
  <2>3. CASE mem'.months = mem.months /\ mem'.known = mem.known
    BY <2>1, <2>2, <2>3 DEF MonthsInv, EventGrantsOneMonth, OneEach
  <2>4. CASE /\ e \notin mem.known
             /\ mem'.months = mem.months \union {m0}
             /\ mem'.known = mem.known \union {e}
    <3>1. \A m \in mem.months : m.event = e => Granted(e)
      BY <2>4 DEF MonthsInv
    <3>2. m0.event = e
      OBVIOUS
    <3> HIDE DEF m0, e
    <3>3. \A m \in mem'.months : m.event \in mem'.known \/ Granted(m.event)
      BY <2>4, <3>2 DEF MonthsInv
    <3>4. \A m, n \in mem'.months : m.event = n.event => m = n \/ Granted(m.event)
      BY <2>4, <3>1, <3>2 DEF MonthsInv, OneEach
    <3> QED
      BY <2>1, <2>2, <3>3, <3>4 DEF MonthsInv, EventGrantsOneMonth, OneEach
  <2> QED
    BY <1>6, <2>3, <2>4, DispatchMemory
<1>7. CASE UNCHANGED <<memory, db>>
  BY <1>7 DEF memory, MonthsInv, EventGrantsOneMonth, OneEach, Granted
<1> QED
  BY <1>1, <1>2, <1>3, <1>4, <1>5, <1>6, <1>7, SliceSteps

(* However many requests handle an event at once and again, before and     *)
(* after restarts and reloads, and whichever plan it is resolved to, the   *)
(* ledger in PostgreSQL holds one month for it.                            *)
THEOREM OneMonthPerEvent == Spec => []EventGrantsOneMonth
<1>1. Init => TypeOK /\ MonthsInv
  BY TypeStart, MonthsStart
<1>2. TypeOK /\ MonthsInv /\ [Next]_vars => (TypeOK /\ MonthsInv)'
  BY TypeStep, MonthsStep
<1>3. MonthsInv => EventGrantsOneMonth
  BY DEF MonthsInv
<1> QED
  BY <1>1, <1>2, <1>3, PTL DEF Spec

-----------------------------------------------------------------------------
(* What is acknowledged is done.                                           *)

(* How far the handling of a paid checkout has come is seen in the rows.   *)
CheckoutInv ==
  /\ AcknowledgedIsDone
  /\ \A h \in Handlers : handler[h].event = "completed" =>
       /\ handler[h].at \in {"link", "record"} => intent = "completed"
       /\ handler[h].at = "record" => "paid" \in linked

\* Nothing is acknowledged and no delivery is at work.
LEMMA CheckoutStart ==
  ASSUME Init
  PROVE  CheckoutInv
BY DEF Init, CheckoutInv, AcknowledgedIsDone, Idle

(* A completed intent stays so, and so does a link row.                    *)
LEMMA DoneStays ==
  ASSUME [Next]_vars
  PROVE  /\ intent = "completed" => intent' = "completed"
         /\ linked \subseteq linked'
<1>1. CASE CreateCheckoutIntent \/ CreateCheckoutSession
  BY <1>1 DEF CreateCheckoutIntent, CreateCheckoutSession
<1>2. CASE PayCheckout \/ ChargeFails \/ CancelInPortal
  BY <1>2 DEF PayCheckout, ChargeFails, CancelInPortal, Becomes
<1>3. CASE ReadSlice \/ MergeSlice \/ BeginWrite \/ WriteSlice \/ Restart
  BY <1>3 DEF ReadSlice, MergeSlice, BeginWrite, WriteSlice, Restart
<1>4. ASSUME NEW h \in Handlers,
             (\E e \in Events : Deliver(h, e)) \/ Handle(h) \/ HandlerFails(h)
      PROVE  /\ intent = "completed" => intent' = "completed"
             /\ linked \subseteq linked'
  BY <1>4 DEF Deliver, Handle, Dispatch, Refuse, CompleteCheckoutIntent,
              LinkGatewaySubscription, RecordAndAnswer, HandlerFails
<1>5. CASE UNCHANGED vars
  BY <1>5 DEF vars
<1> QED
  BY <1>1, <1>2, <1>3, <1>4, <1>5 DEF Next

\* A delivery leaves behind what its next await relies on.
LEMMA CheckoutStep ==
  ASSUME TypeOK, CheckoutInv, [Next]_vars
  PROVE  CheckoutInv'
<1>1. /\ intent = "completed" => intent' = "completed"
      /\ linked \subseteq linked'
  BY DoneStays
<1>2. ASSUME UNCHANGED <<handler, acked>>
      PROVE  CheckoutInv'
  BY <1>1, <1>2 DEF CheckoutInv, AcknowledgedIsDone
<1>3. ASSUME NEW h \in Handlers, handler' = [handler EXCEPT ![h] = Idle], acked' = acked
      PROVE  CheckoutInv'
  <2>1. handler'[h].at = "idle" /\ \A g \in Handlers : g # h => handler'[g] = handler[g]
    BY <1>3 DEF TypeOK, Idle
  <2> QED
    BY <1>1, <1>3, <2>1 DEF CheckoutInv, AcknowledgedIsDone
<1>4. CASE Restart
  BY <1>1, <1>4 DEF Restart, CheckoutInv, AcknowledgedIsDone, Idle
<1>5. ASSUME NEW h \in Handlers, NEW e \in Events, Deliver(h, e)
      PROVE  CheckoutInv'
  <2>1. handler'[h].at = "dispatch" /\ \A g \in Handlers : g # h => handler'[g] = handler[g]
    BY <1>5 DEF Deliver, TypeOK
  <2> QED
    BY <1>1, <1>5, <2>1 DEF Deliver, CheckoutInv, AcknowledgedIsDone
<1>6. ASSUME NEW h \in Handlers, Dispatch(h)
      PROVE  CheckoutInv'
  <2>1. handler'[h].at = "complete" /\ \A g \in Handlers : g # h => handler'[g] = handler[g]
    BY <1>6 DEF Dispatch, Goes, TypeOK
  <2> QED
    BY <1>1, <1>6, <2>1 DEF Dispatch, CheckoutInv, AcknowledgedIsDone
<1>7. ASSUME NEW h \in Handlers, CompleteCheckoutIntent(h)
      PROVE  CheckoutInv'
  <2>1. /\ handler'[h].at = "link" /\ handler'[h].event = handler[h].event
        /\ \A g \in Handlers : g # h => handler'[g] = handler[g]
    BY <1>7 DEF CompleteCheckoutIntent, Goes, TypeOK
  <2> QED
    BY <1>1, <1>7, <2>1 DEF CompleteCheckoutIntent, CheckoutInv, AcknowledgedIsDone
<1>8. ASSUME NEW h \in Handlers, LinkGatewaySubscription(h)
      PROVE  CheckoutInv'
  <2>1. /\ handler'[h].at = "record" /\ handler'[h].event = handler[h].event
        /\ handler[h].at = "link"
        /\ \A g \in Handlers : g # h => handler'[g] = handler[g]
    BY <1>8 DEF LinkGatewaySubscription, Goes, TypeOK
  <2>2. handler[h].event = "completed" => "paid" \in linked'
    BY <1>8 DEF LinkGatewaySubscription, Resolvable, PlanOf
  <2> QED
    BY <1>1, <1>8, <2>1, <2>2 DEF LinkGatewaySubscription, CheckoutInv, AcknowledgedIsDone
<1>9. ASSUME NEW h \in Handlers, RecordAndAnswer(h)
      PROVE  CheckoutInv'
  <2>1. handler'[h].at = "idle" /\ \A g \in Handlers : g # h => handler'[g] = handler[g]
    BY <1>9 DEF RecordAndAnswer, TypeOK, Idle
  <2>2. handler[h].event = "completed" => intent = "completed" /\ "paid" \in linked
    BY <1>9 DEF RecordAndAnswer, CheckoutInv
  <2> QED
    BY <1>1, <1>9, <2>1, <2>2 DEF RecordAndAnswer, CheckoutInv, AcknowledgedIsDone
<1>10. CASE CreateCheckoutIntent \/ CreateCheckoutSession \/ PayCheckout \/ ChargeFails
            \/ CancelInPortal \/ ReadSlice \/ MergeSlice \/ BeginWrite \/ WriteSlice
  BY <1>2, <1>10 DEF CreateCheckoutIntent, CreateCheckoutSession, PayCheckout, ChargeFails,
                     CancelInPortal, Becomes, ReadSlice, MergeSlice, BeginWrite, WriteSlice
<1>11. ASSUME NEW h \in Handlers, Refuse(h) \/ HandlerFails(h)
       PROVE  CheckoutInv'
  BY <1>3, <1>11 DEF Refuse, HandlerFails
<1>12. CASE UNCHANGED vars
  BY <1>2, <1>12 DEF vars
<1> QED
  BY <1>4, <1>5, <1>6, <1>7, <1>8, <1>9, <1>10, <1>11, <1>12 DEF Next, Handle

(* Stripe is never told that a paid checkout is done with before its       *)
(* intent is completed and the plan's link row is there.                   *)
THEOREM AcknowledgedMeansDone == Spec => []AcknowledgedIsDone
<1>1. Init => TypeOK /\ CheckoutInv
  BY TypeStart, CheckoutStart
<1>2. TypeOK /\ CheckoutInv /\ [Next]_vars => (TypeOK /\ CheckoutInv)'
  BY TypeStep, CheckoutStep
<1>3. CheckoutInv => AcknowledgedIsDone
  BY DEF CheckoutInv
<1> QED
  BY <1>1, <1>2, <1>3, PTL DEF Spec

=============================================================================
