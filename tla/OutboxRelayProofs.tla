--------------------------- MODULE OutboxRelayProofs ---------------------------
(***************************************************************************)
(* What holds of the outbox for any events, any number of relays and any   *)
(* batch, and that the deletion of accounts uses it as it is meant to be   *)
(* used: every step of AccountDeletion is a step of the outbox or leaves   *)
(* it alone.  Then what a deletion promises of the account itself, for any *)
(* number of requests, deletions and resets beside one another.            *)
(***************************************************************************)
EXTENDS AccountDeletion, TLAPS

(* A tick that has acted is about to mark a row whose effect has happened. *)
ActedIsDone ==
  \A r \in Relays : tick[r].done =>
    /\ tick[r].left # {}
    /\ \A i \in DOMAIN outbox : Turn(r, i) => outbox[i] \in sent

IInv == RelayTypeOK /\ ActedIsDone /\ PublishedIsDone

-----------------------------------------------------------------------------
(* A tick without rows, and one with a row less, are ticks.                *)
LEMMA TickTyped ==
  ASSUME RelayTypeOK, NEW r \in Relays, NEW rows \in SUBSET DOMAIN outbox, NEW done \in BOOLEAN
  PROVE  [tick EXCEPT ![r] = [left |-> rows, done |-> done]]
           \in [Relays -> [left : SUBSET DOMAIN outbox, done : BOOLEAN]]
BY DEF RelayTypeOK

(* Listing gives a tick its rows and nothing else.                         *)
LEMMA ListedTick ==
  ASSUME NEW places, NEW t \in [left : SUBSET places, done : BOOLEAN], NEW rows
  PROVE  [t EXCEPT !.left = rows] = [left |-> rows, done |-> t.done]
OBVIOUS

(* Inserting a row keeps what is known of the others.                      *)
LEMMA InsertKeeps ==
  ASSUME IInv, NEW e \in Events, InsertOutboxEvent(e)
  PROVE  IInv'
<1>1. /\ outbox' \in Seq(Events)
      /\ DOMAIN outbox \subseteq DOMAIN outbox'
      /\ \A i \in DOMAIN outbox : outbox'[i] = outbox[i]
  BY DEF IInv, RelayTypeOK, InsertOutboxEvent
<1>2. RelayTypeOK'
  <2>1. tick' \in [Relays -> [left : SUBSET DOMAIN outbox', done : BOOLEAN]]
    BY <1>1 DEF IInv, RelayTypeOK, InsertOutboxEvent
  <2> QED
    BY <1>1, <2>1 DEF IInv, RelayTypeOK, InsertOutboxEvent
<1>3. ActedIsDone'
  <2> SUFFICES ASSUME NEW r \in Relays, tick'[r].done, NEW i \in DOMAIN outbox', Turn(r, i)'
               PROVE  outbox'[i] \in sent'
    BY DEF ActedIsDone, IInv, InsertOutboxEvent
  <2>1. Turn(r, i) /\ tick[r].done
    BY DEF Turn, InsertOutboxEvent
  <2>2. i \in DOMAIN outbox
    BY <2>1 DEF IInv, RelayTypeOK, Turn
  <2> QED
    BY <1>1, <2>1, <2>2 DEF IInv, ActedIsDone, InsertOutboxEvent
<1>4. PublishedIsDone'
  BY <1>1 DEF IInv, RelayTypeOK, PublishedIsDone, InsertOutboxEvent
<1> QED
  BY <1>2, <1>3, <1>4 DEF IInv

(* So does a step that gives one tick fewer rows, none it has acted on.    *)
LEMMA TickKeeps ==
  ASSUME IInv, NEW r \in Relays, NEW rows \in SUBSET DOMAIN outbox,
         tick' = [tick EXCEPT ![r] = [left |-> rows, done |-> FALSE]],
         UNCHANGED <<outbox, sent>>
  PROVE  /\ tick' \in [Relays -> [left : SUBSET DOMAIN outbox, done : BOOLEAN]]
         /\ ActedIsDone'
<1>1. tick' \in [Relays -> [left : SUBSET DOMAIN outbox, done : BOOLEAN]]
  BY TickTyped DEF IInv
<1>2. /\ tick'[r].done = FALSE
      /\ \A q \in Relays : q # r => tick'[q] = tick[q]
  BY DEF IInv, RelayTypeOK
<1>3. ActedIsDone'
  <2> SUFFICES ASSUME NEW q \in Relays, tick'[q].done
               PROVE  /\ tick'[q].left # {}
                      /\ \A i \in DOMAIN outbox : Turn(q, i)' => outbox[i] \in sent
    BY DEF ActedIsDone
  <2>1. tick'[q] = tick[q]
    BY <1>2
  <2> QED
    BY <2>1 DEF IInv, ActedIsDone, Turn
<1> QED
  BY <1>1, <1>3

(* The oldest row of a tick is one.                                        *)
LEMMA OneTurn ==
  ASSUME RelayTypeOK, NEW r \in Relays, NEW i, NEW k, Turn(r, i), Turn(r, k)
  PROVE  i = k
<1>1. tick[r].left \subseteq Nat
  BY DEF RelayTypeOK
<1> QED
  BY <1>1 DEF Turn

\* A relay acts on a row: its effect happens now.
LEMMA ActKeeps ==
  ASSUME IInv, NEW r \in Relays, NEW i \in DOMAIN outbox, Act(r, i)
  PROVE  IInv'
<1>1. /\ tick' = [tick EXCEPT ![r].done = TRUE]
      /\ sent' = sent \union {outbox[i]}
      /\ UNCHANGED <<outbox, published, configured, relayFaults>>
      /\ Turn(r, i)
  BY DEF Act
<1>2. /\ tick' \in [Relays -> [left : SUBSET DOMAIN outbox, done : BOOLEAN]]
      /\ tick'[r].left = tick[r].left
      /\ \A q \in Relays : q # r => tick'[q] = tick[q]
  BY <1>1 DEF IInv, RelayTypeOK
<1>3. outbox[i] \in Events
  BY DEF IInv, RelayTypeOK
<1>4. RelayTypeOK'
  BY <1>1, <1>2, <1>3 DEF IInv, RelayTypeOK
<1>5. ActedIsDone'
  <2> SUFFICES ASSUME NEW q \in Relays, tick'[q].done
               PROVE  /\ tick'[q].left # {}
                      /\ \A k \in DOMAIN outbox : Turn(q, k)' => outbox[k] \in sent'
    BY <1>1 DEF ActedIsDone
  <2>1. CASE q = r
    <3>1. \A k \in DOMAIN outbox : Turn(q, k)' => Turn(r, k)
      BY <1>2, <2>1 DEF Turn
    <3>2. \A k \in DOMAIN outbox : Turn(r, k) => k = i
      BY <1>1, OneTurn DEF IInv
    <3>3. tick'[q].left # {}
      BY <1>1, <1>2, <2>1 DEF Turn
    <3> QED
      BY <1>1, <3>1, <3>2, <3>3
  <2>2. CASE q # r
    BY <1>1, <1>2, <2>2 DEF IInv, ActedIsDone, Turn
  <2> QED
    BY <2>1, <2>2
<1>6. PublishedIsDone'
  BY <1>1 DEF IInv, PublishedIsDone
<1> QED
  BY <1>4, <1>5, <1>6 DEF IInv

(* Every step of the outbox keeps the invariant.                           *)
LEMMA OutboxStep ==
  ASSUME IInv, [OutboxNext]_relayVars
  PROVE  IInv'
<1>1. ASSUME NEW e \in Events, InsertOutboxEvent(e)
      PROVE  IInv'
  BY <1>1, InsertKeeps
<1>2. ASSUME NEW r \in Relays, ListUnpublished(r)
      PROVE  IInv'
  <2>1. Oldest(Unpublished) \in SUBSET DOMAIN outbox
    BY DEF Oldest, Unpublished
  <2>2. tick[r].left = {} /\ tick[r] \in [left : SUBSET DOMAIN outbox, done : BOOLEAN]
    BY <1>2 DEF ListUnpublished, IInv, RelayTypeOK
  <2>3. tick[r].done = FALSE
    BY <2>2 DEF IInv, ActedIsDone
  <2>4. tick' = [tick EXCEPT ![r] = [left |-> Oldest(Unpublished), done |-> FALSE]]
    <3>1. [tick[r] EXCEPT !.left = Oldest(Unpublished)]
            = [left |-> Oldest(Unpublished), done |-> tick[r].done]
      BY <2>2, ListedTick
    <3>2. tick' = [tick EXCEPT ![r] = [tick[r] EXCEPT !.left = Oldest(Unpublished)]]
      BY <1>2 DEF ListUnpublished
    <3> QED
      BY <2>3, <3>1, <3>2
  <2>5. /\ tick' \in [Relays -> [left : SUBSET DOMAIN outbox, done : BOOLEAN]]
        /\ ActedIsDone'
    BY <1>2, <2>1, <2>4, TickKeeps DEF ListUnpublished
  <2> QED
    BY <1>2, <2>5 DEF ListUnpublished, IInv, RelayTypeOK, PublishedIsDone
<1>3. ASSUME NEW r \in Relays, NEW i \in DOMAIN outbox, Act(r, i)
      PROVE  IInv'
  BY <1>3, ActKeeps
<1>4. ASSUME NEW r \in Relays, NEW i \in DOMAIN outbox, SkipUnconfigured(r, i) \/ SkipRefused(r, i)
      PROVE  IInv'
  <2>1. tick[r].left \ {i} \in SUBSET DOMAIN outbox
    BY DEF IInv, RelayTypeOK
  <2>2. /\ tick' = [tick EXCEPT ![r] = [left |-> tick[r].left \ {i}, done |-> FALSE]]
        /\ UNCHANGED <<outbox, sent, published, configured>>
    BY <1>4 DEF SkipUnconfigured, SkipRefused, Advance, IInv, RelayTypeOK
  <2>3. relayFaults' \in [throws : 0..MaxThrows, refusals : 0..MaxRefusals]
    BY <1>4, OutboxAssumption DEF SkipUnconfigured, SkipRefused, IInv, RelayTypeOK
  <2>4. /\ tick' \in [Relays -> [left : SUBSET DOMAIN outbox, done : BOOLEAN]]
        /\ ActedIsDone'
    BY <2>1, <2>2, TickKeeps
  <2> QED
    BY <2>2, <2>3, <2>4 DEF IInv, RelayTypeOK, PublishedIsDone
<1>5. ASSUME NEW r \in Relays, NEW i \in DOMAIN outbox, MarkPublished(r, i)
      PROVE  IInv'
  <2>1. tick[r].left \ {i} \in SUBSET DOMAIN outbox
    BY DEF IInv, RelayTypeOK
  <2>2. /\ tick' = [tick EXCEPT ![r] = [left |-> tick[r].left \ {i}, done |-> FALSE]]
        /\ published' = published \union {i}
        /\ UNCHANGED <<outbox, sent, configured, relayFaults>>
    BY <1>5 DEF MarkPublished, Advance, IInv, RelayTypeOK
  <2>3. /\ tick' \in [Relays -> [left : SUBSET DOMAIN outbox, done : BOOLEAN]]
        /\ ActedIsDone'
    BY <2>1, <2>2, TickKeeps
  <2>4. outbox[i] \in sent
    BY <1>5 DEF MarkPublished, IInv, ActedIsDone
  <2> QED
    BY <2>2, <2>3, <2>4 DEF IInv, RelayTypeOK, PublishedIsDone
<1>6. ASSUME NEW r \in Relays, TickThrows(r)
      PROVE  IInv'
  <2>1. /\ tick' = [tick EXCEPT ![r] = [left |-> {}, done |-> FALSE]]
        /\ UNCHANGED <<outbox, sent, published, configured>>
    BY <1>6 DEF TickThrows, Quiet
  <2>2. relayFaults' \in [throws : 0..MaxThrows, refusals : 0..MaxRefusals]
    BY <1>6, OutboxAssumption DEF TickThrows, IInv, RelayTypeOK
  <2>3. /\ tick' \in [Relays -> [left : SUBSET DOMAIN outbox, done : BOOLEAN]]
        /\ ActedIsDone'
    <3>1. {} \in SUBSET DOMAIN outbox
      OBVIOUS
    <3> QED
      BY <2>1, <3>1, TickKeeps
  <2> QED
    BY <2>1, <2>2, <2>3 DEF IInv, RelayTypeOK, PublishedIsDone
<1>7. CASE ConfigureAuth0
  BY <1>7 DEF ConfigureAuth0, IInv, RelayTypeOK, ActedIsDone, PublishedIsDone, Turn
<1>8. CASE UNCHANGED relayVars
  BY <1>8 DEF relayVars, IInv, RelayTypeOK, ActedIsDone, PublishedIsDone, Turn
<1> QED
  BY <1>1, <1>2, <1>3, <1>4, <1>5, <1>6, <1>7, <1>8
     DEF OutboxNext, RelayNext, RelayStep

(* The outbox starts empty.                                                *)
LEMMA OutboxStart ==
  ASSUME RelayInit
  PROVE  IInv
<1>1. outbox \in Seq(Events) /\ published = {} /\ sent = {} /\ configured = FALSE
  BY DEF RelayInit
<1>2. \A r \in Relays : tick[r].left = {} /\ tick[r].done = FALSE
  BY DEF RelayInit, Quiet
<1>3. tick \in [Relays -> [left : SUBSET DOMAIN outbox, done : BOOLEAN]]
  BY DEF RelayInit, Quiet
<1>4. relayFaults \in [throws : 0..MaxThrows, refusals : 0..MaxRefusals]
  BY OutboxAssumption DEF RelayInit
<1> QED
  BY <1>1, <1>2, <1>3, <1>4 DEF IInv, RelayTypeOK, ActedIsDone, PublishedIsDone

\* What a relay has in hand is what it will mark, in every state.
LEMMA OutboxInvariant == OutboxSpec => []IInv
<1>1. RelayInit => IInv
  BY OutboxStart
<1>2. IInv /\ [OutboxNext]_relayVars => IInv'
  BY OutboxStep
<1> QED
  BY <1>1, <1>2, PTL DEF OutboxSpec

(* The rows, the ticks and the marks are what they should be: a tick only  *)
(* holds places of rows that exist.                                        *)
THEOREM OutboxTypeCorrect == OutboxSpec => []RelayTypeOK
<1>1. IInv => RelayTypeOK
  BY DEF IInv
<1> QED
  BY <1>1, OutboxInvariant, PTL

(* A row that is marked published has had its effect, for any number of    *)
(* relays that hold the same rows, throw and skip beside one another.      *)
THEOREM MarkedOnlyWhenDone == OutboxSpec => []PublishedIsDone
<1>1. IInv => PublishedIsDone
  BY DEF IInv
<1> QED
  BY <1>1, OutboxInvariant, PTL

-----------------------------------------------------------------------------
(* The deletion of accounts beside the outbox.                             *)

\* A step of the deletion inserts, acts, marks or leaves the outbox alone.
LEMMA DeletionStep ==
  ASSUME [Next]_vars
  PROVE  [OutboxNext]_relayVars
<1>1. \A j \in Jobs : Execution(j) \in Events
  BY DeletionAssumption
<1>2. Auth0Delete \in Events
  BY DeletionAssumption
<1>3. CASE RelayNext /\ UNCHANGED accountVars
  BY <1>3 DEF OutboxNext
<1>4. ASSUME NEW j \in Jobs, Generation(j)
      PROVE  [OutboxNext]_relayVars
  <2>1. CASE EnqueueExecution(j)
    BY <1>1, <2>1 DEF EnqueueExecution, OutboxNext
  <2>2. CASE ~EnqueueExecution(j)
    BY <1>4, <2>2 DEF Generation, RequestGeneration, ClaimJob, LoadSlice, SettleCredits,
                      RecordOutcome, relayVars
  <2> QED
    BY <2>1, <2>2
<1>5. ASSUME NEW p \in {"api", "worker"}, PersistSlice(p)
      PROVE  [OutboxNext]_relayVars
  BY <1>5 DEF PersistSlice
<1>6. CASE OpenCheckout \/ PayCheckout \/ CancelInPortal
  BY <1>6 DEF OpenCheckout, PayCheckout, CancelInPortal
<1>7. ASSUME NEW event \in {"completed", "cancelled"}, HandleWebhook(event)
      PROVE  [OutboxNext]_relayVars
  BY <1>7 DEF HandleWebhook
<1>8. ASSUME NEW h \in Handlers, AskDelete(h) \/ AskReset(h) \/ HandlerStep(h)
      PROVE  [OutboxNext]_relayVars
  <2>1. CASE DeleteTransaction(h)
    BY <1>2, <2>1 DEF DeleteTransaction, OutboxNext
  <2>2. CASE \E j \in Jobs : CancelInFlight(h, j) \/ CancelSwallowed(h, j)
    BY <2>2 DEF CancelInFlight, CancelSwallowed
  <2>3. CASE AskDelete(h) \/ AskReset(h) \/ FindUser(h) \/ LookUpSubscription(h)
    BY <2>3 DEF AskDelete, AskReset, FindUser, LookUpSubscription
  <2>4. CASE CancelAtGateway(h) \/ CancelRefused(h) \/ CancelAnswerLost(h) \/ ListJobsForUser(h)
    BY <2>4 DEF CancelAtGateway, CancelRefused, CancelAnswerLost, ListJobsForUser
  <2>5. CASE ResetTransaction(h) \/ TransactionFails(h)
    BY <2>5 DEF ResetTransaction, TransactionFails
  <2> QED
    BY <1>8, <2>1, <2>2, <2>3, <2>4, <2>5 DEF HandlerStep
<1>9. CASE UNCHANGED vars
  BY <1>9 DEF vars
<1> QED
  BY <1>3, <1>4, <1>5, <1>6, <1>7, <1>8, <1>9 DEF Next

(* The deletion and everything beside it use the outbox as OutboxRelay     *)
(* has it: rows are only inserted, and only the relays mark them.          *)
THEOREM DeletionImplementsOutbox == Spec => OutboxSpec
<1>1. Init => RelayInit
  BY DEF Init
<1>2. [Next]_vars => [OutboxNext]_relayVars
  BY DeletionStep
<1> QED
  BY <1>1, <1>2, PTL DEF Spec, OutboxSpec

(* So no event of a deletion or of an accepted execution is marked before  *)
(* it has had its effect.                                                  *)
THEOREM DeletionMarksOnlyWhenDone == Spec => []PublishedIsDone
BY DeletionImplementsOutbox, MarkedOnlyWhenDone, PTL

-----------------------------------------------------------------------------
(* The account.  A handler only has jobs left to cancel when it is about   *)
(* to purge, and one that saw a subscription only gets there when Stripe   *)
(* has cancelled it, which is for good: the checkout was paid once.  A job *)
(* whose request is not answered has no row.                               *)
HandlerStates ==
  [at : {"free", "find", "lookup", "gateway", "list", "purge"},
   op : {NoOp, "delete", "reset"}, saw : BOOLEAN, left : SUBSET Jobs]
RowStates == {"none", "queued", "running", "done", "failed", "cancelled", "removed"}
WorkStates == {"none", "loading", "generating", "unpaid", "settled", "ended"}

AccountTyped ==
  /\ user \in {"active", "deleted"}
  /\ handler \in [Handlers -> HandlerStates]
  /\ checkout \in {"none", "open", "paid"}
  /\ gateway \in {"none", "active", "cancelled"}
  /\ linkRow \in BOOLEAN /\ linked \in BOOLEAN
  /\ plan \in {"trialing", "active", "canceled"}
  /\ webhooks \subseteq {"completed", "cancelled"}
  /\ request \in [Jobs -> {"none", "authenticated", "answered"}]
  /\ row \in [Jobs -> RowStates]
  /\ work \in [Jobs -> WorkStates]
  /\ persist \subseteq {"api", "worker"}
  /\ failures \in 0..MaxFailures

PaidOnce == checkout # "paid" => gateway = "none"

Proper(s, g) ==
  /\ s.at # "purge" => s.left = {}
  /\ s.at \in {"list", "purge"} /\ s.saw => g = "cancelled"
HandlersInStep == \A h \in Handlers : Proper(handler[h], gateway)

UnansweredHasNoRow == \A j \in Jobs : request[j] # "answered" => row[j] = "none"

AccountInv == AccountTyped /\ PaidOnce /\ HandlersInStep /\ UnansweredHasNoRow

(* A step of one handler keeps every handler in step, as long as it leaves *)
(* its own so and a cancelled subscription stays cancelled.                *)
LEMMA OneHandler ==
  ASSUME AccountInv, NEW h \in Handlers, NEW s \in HandlerStates,
         handler' = [handler EXCEPT ![h] = s], Proper(s, gateway'),
         gateway = "cancelled" => gateway' = "cancelled"
  PROVE  handler' \in [Handlers -> HandlerStates] /\ HandlersInStep'
<1>1. handler' \in [Handlers -> HandlerStates]
  BY DEF AccountInv, AccountTyped
<1>2. handler'[h] = s /\ \A i \in Handlers : i # h => handler'[i] = handler[i]
  BY DEF AccountInv, AccountTyped
<1>3. \A i \in Handlers : Proper(handler[i], gateway) => Proper(handler[i], gateway')
  BY DEF Proper
<1>4. HandlersInStep'
  BY <1>2, <1>3 DEF AccountInv, HandlersInStep
<1> QED
  BY <1>1, <1>4

(* A free handler.                                                         *)
LEMMA FreeIsProper == Free \in HandlerStates /\ Proper(Free, gateway')
BY DEF Free, HandlerStates, Proper

\* A handler's record with another place in it.
LEMMA HandlerAt ==
  ASSUME NEW s \in HandlerStates, NEW x
  PROVE  [s EXCEPT !.at = x] = [at |-> x, op |-> s.op, saw |-> s.saw, left |-> s.left]
BY DEF HandlerStates

(* One that has one job less to cancel.                                    *)
LEMMA HandlerLeft ==
  ASSUME NEW s \in HandlerStates, NEW x
  PROVE  [s EXCEPT !.left = x] = [at |-> s.at, op |-> s.op, saw |-> s.saw, left |-> x]
BY DEF HandlerStates

(* One that has listed the jobs and goes on to purge.                      *)
LEMMA HandlerPurges ==
  ASSUME NEW s \in HandlerStates, NEW x \in SUBSET Jobs
  PROVE  [s EXCEPT !.at = "purge", !.left = x] = [at |-> "purge", op |-> s.op, saw |-> s.saw, left |-> x]
<1> DEFINE t == [s EXCEPT !.at = "purge", !.left = x]
<1>1. t \in HandlerStates
  BY DEF HandlerStates
<1>2. t.at = "purge" /\ t.op = s.op /\ t.saw = s.saw /\ t.left = x
  BY DEF HandlerStates
<1> HIDE DEF t
<1>3. t = [at |-> "purge", op |-> s.op, saw |-> s.saw, left |-> x]
  BY <1>1, <1>2 DEF HandlerStates
<1> QED
  BY <1>3 DEF t

(* One that has looked its subscription up.                                *)
LEMMA HandlerSees ==
  ASSUME NEW s \in HandlerStates, NEW x \in BOOLEAN, NEW y \in {"gateway", "list"}
  PROVE  [s EXCEPT !.saw = x, !.at = y] = [at |-> y, op |-> s.op, saw |-> x, left |-> s.left]
<1> DEFINE t == [s EXCEPT !.saw = x, !.at = y]
<1>1. t \in HandlerStates
  BY DEF HandlerStates
<1>2. t.at = y /\ t.op = s.op /\ t.saw = x /\ t.left = s.left
  BY DEF HandlerStates
<1> HIDE DEF t
<1>3. t = [at |-> y, op |-> s.op, saw |-> x, left |-> s.left]
  BY <1>1, <1>2 DEF HandlerStates
<1> QED
  BY <1>3 DEF t

(* One that only goes on.                                                  *)
LEMMA HandlerGoes ==
  ASSUME AccountInv, NEW h \in Handlers, NEW x, Goes(h, x)
  PROVE  handler' = [handler EXCEPT ![h] = [at |-> x, op |-> handler[h].op,
                                            saw |-> handler[h].saw, left |-> handler[h].left]]
<1>1. handler[h] \in HandlerStates
  BY DEF AccountInv, AccountTyped
<1>2. handler' = [handler EXCEPT ![h] = [handler[h] EXCEPT !.at = x]]
  BY DEF Goes
<1> QED
  BY <1>1, <1>2, HandlerAt

(* Generations.                                                            *)
LEMMA GenerationKeeps ==
  ASSUME AccountInv, NEW j \in Jobs, Generation(j)
  PROVE  AccountInv'
<1>1. UNCHANGED <<user, handler, checkout, gateway, linkRow, plan, webhooks, failures>>
  BY DEF Generation, RequestGeneration, EnqueueExecution, ClaimJob, LoadSlice, SettleCredits,
         RecordOutcome
<1>2. PaidOnce' /\ HandlersInStep'
  BY <1>1 DEF AccountInv, PaidOnce, HandlersInStep
<1>3. AccountTyped'
  <2>1. CASE RequestGeneration(j) \/ EnqueueExecution(j)
    BY <1>1, <2>1 DEF AccountInv, AccountTyped, RequestGeneration, EnqueueExecution, RowStates
  <2>2. CASE ClaimJob(j) \/ LoadSlice(j)
    BY <1>1, <2>2, ZenonT(45) DEF AccountInv, AccountTyped, ClaimJob, LoadSlice, RowStates, WorkStates
  <2>3. CASE SettleCredits(j) \/ RecordOutcome(j)
    BY <1>1, <2>3, ZenonT(45) DEF AccountInv, AccountTyped, SettleCredits, RecordOutcome,
              RowStates, WorkStates
  <2> QED
    BY <2>1, <2>2, <2>3 DEF Generation
<1>4. UnansweredHasNoRow'
  BY DEF AccountInv, AccountTyped, UnansweredHasNoRow, Generation, RequestGeneration,
         EnqueueExecution, ClaimJob, LoadSlice, SettleCredits, RecordOutcome, Active
<1> QED
  BY <1>2, <1>3, <1>4 DEF AccountInv

(* Writes of the slice, and the subscription.                              *)
LEMMA BillingKeeps ==
  ASSUME AccountInv,
         \/ \E p \in {"api", "worker"} : PersistSlice(p)
         \/ OpenCheckout \/ PayCheckout \/ CancelInPortal
         \/ \E event \in {"completed", "cancelled"} : HandleWebhook(event)
  PROVE  AccountInv'
<1>1. /\ UNCHANGED <<user, handler, request, row, work, failures>>
      /\ gateway = "cancelled" => gateway' = "cancelled"
      /\ PaidOnce'
  BY DEF PersistSlice, OpenCheckout, PayCheckout, CancelInPortal, HandleWebhook, AccountInv, PaidOnce
<1>2. HandlersInStep' /\ UnansweredHasNoRow'
  BY <1>1 DEF AccountInv, HandlersInStep, Proper, UnansweredHasNoRow
<1>3. AccountTyped'
  BY <1>1, ZenonT(45) DEF PersistSlice, OpenCheckout, PayCheckout, CancelInPortal, HandleWebhook,
              AccountInv, AccountTyped
<1> QED
  BY <1>1, <1>2, <1>3 DEF AccountInv

(* The handlers of account requests.                                       *)
LEMMA HandlerKeeps ==
  ASSUME AccountInv, NEW h \in Handlers, AskDelete(h) \/ AskReset(h) \/ HandlerStep(h)
  PROVE  AccountInv'
<1> DEFINE s == handler[h]
<1>1. s \in HandlerStates /\ Proper(s, gateway) /\ failures \in 0..MaxFailures /\ MaxFailures \in Nat
  BY DeletionAssumption DEF AccountInv, AccountTyped, HandlersInStep
<1>2. /\ UNCHANGED <<checkout, plan, request, work>>
      /\ gateway' = gateway \/ (gateway = "active" /\ gateway' = "cancelled")
  BY DEF AskDelete, AskReset, HandlerStep, FindUser, LookUpSubscription, CancelAtGateway,
         CancelRefused, CancelAnswerLost, ListJobsForUser, CancelInFlight, CancelSwallowed,
         ResetTransaction, DeleteTransaction, TransactionFails
<1>3. PaidOnce'
  BY <1>2 DEF AccountInv, PaidOnce
<1>4. /\ webhooks' \subseteq {"completed", "cancelled"}
      /\ persist' \subseteq {"api", "worker"}
      /\ user' \in {"active", "deleted"} /\ linked' \in BOOLEAN /\ linkRow' \in BOOLEAN
  BY DEF AskDelete, AskReset, HandlerStep, FindUser, LookUpSubscription, CancelAtGateway,
         CancelRefused, CancelAnswerLost, ListJobsForUser, CancelInFlight, CancelSwallowed,
         ResetTransaction, DeleteTransaction, TransactionFails, AccountInv, AccountTyped
<1>9. failures' \in 0..MaxFailures
  <2>1. failures' = failures \/ Fails
    BY DEF AskDelete, AskReset, HandlerStep, FindUser, LookUpSubscription, CancelAtGateway,
           CancelRefused, CancelAnswerLost, ListJobsForUser, CancelInFlight, CancelSwallowed,
           ResetTransaction, DeleteTransaction, TransactionFails
  <2> QED
    BY <1>1, <2>1 DEF Fails
<1>5. row' \in [Jobs -> RowStates] /\ \A j \in Jobs : row[j] = "none" => row'[j] = "none"
  <2>1. CASE \E j \in Jobs : CancelInFlight(h, j)
    BY <2>1 DEF CancelInFlight, AccountInv, AccountTyped, RowStates, Active
  <2>2. CASE ResetTransaction(h) \/ DeleteTransaction(h)
    BY <2>2 DEF ResetTransaction, DeleteTransaction, WithoutJobs, AccountInv, AccountTyped, RowStates
  <2>3. CASE row' = row
    BY <2>3 DEF AccountInv, AccountTyped
  <2> QED
    BY <2>1, <2>2, <2>3 DEF AskDelete, AskReset, HandlerStep, FindUser, LookUpSubscription,
       CancelAtGateway, CancelRefused, CancelAnswerLost, ListJobsForUser, CancelSwallowed,
       TransactionFails
<1>6. handler' \in [Handlers -> HandlerStates] /\ HandlersInStep'
  <2> SUFFICES \E t \in HandlerStates : /\ handler' = [handler EXCEPT ![h] = t]
                                       /\ Proper(t, gateway')
    BY <1>2, OneHandler
  <2> HIDE DEF s
  <2>1. CASE Ends(h)
    BY <2>1, FreeIsProper DEF Ends
  <2>2. CASE AskDelete(h) \/ AskReset(h)
    <3>1. \E at \in {"find", "list"}, op \in {"delete", "reset"} :
            handler' = [handler EXCEPT ![h] = [at |-> at, op |-> op, saw |-> FALSE, left |-> {}]]
      BY <2>2, ZenonT(45) DEF AskDelete, AskReset, Free
    <3>2. ASSUME NEW at \in {"find", "list"}, NEW op \in {"delete", "reset"}
          PROVE  LET t == [at |-> at, op |-> op, saw |-> FALSE, left |-> {}]
                 IN  t \in HandlerStates /\ Proper(t, gateway')
      BY DEF HandlerStates, Proper
    <3> QED
      BY <3>1, <3>2
  <2>3. CASE FindUser(h) /\ ~Ends(h)
    <3> DEFINE t == [at |-> "lookup", op |-> s.op, saw |-> s.saw, left |-> s.left]
    <3>1. s.at = "find" /\ handler' = [handler EXCEPT ![h] = t]
      BY <2>3, HandlerGoes DEF FindUser, s
    <3>2. t \in HandlerStates /\ Proper(t, gateway')
      BY <1>1, <3>1 DEF HandlerStates, Proper
    <3> HIDE DEF t
    <3> QED
      BY <3>1, <3>2
  <2>4. CASE LookUpSubscription(h)
    <3>1. s.at = "lookup"
      BY <2>4 DEF LookUpSubscription, s
    <3>2. PICK live \in BOOLEAN, x \in {"gateway", "list"} :
            /\ handler' = [handler EXCEPT ![h] = [handler[h] EXCEPT !.saw = live, !.at = x]]
            /\ x = "list" => live = FALSE
      BY <2>4 DEF LookUpSubscription, AccountInv, AccountTyped
    <3> DEFINE t == [at |-> x, op |-> s.op, saw |-> live, left |-> s.left]
    <3>3. handler' = [handler EXCEPT ![h] = t]
      BY <1>1, <3>2, HandlerSees DEF s
    <3>4. t \in HandlerStates /\ Proper(t, gateway')
      BY <1>1, <3>1, <3>2 DEF HandlerStates, Proper
    <3> HIDE DEF t
    <3> QED
      BY <3>3, <3>4
  <2>5. CASE CancelAtGateway(h)
    <3> DEFINE t == [at |-> "list", op |-> s.op, saw |-> s.saw, left |-> s.left]
    <3>1. s.at = "gateway" /\ gateway' = "cancelled" /\ handler' = [handler EXCEPT ![h] = t]
      BY <2>5, HandlerGoes DEF CancelAtGateway, s
    <3>2. t \in HandlerStates /\ Proper(t, gateway')
      BY <1>1, <3>1 DEF HandlerStates, Proper
    <3> HIDE DEF t
    <3> QED
      BY <3>1, <3>2
  <2>6. CASE ListJobsForUser(h)
    <3> DEFINE left == {j \in Jobs : row[j] \in Active}
    <3> DEFINE t == [at |-> "purge", op |-> s.op, saw |-> s.saw, left |-> left]
    <3>1. s.at = "list" /\ gateway' = gateway /\ left \subseteq Jobs
      BY <2>6 DEF ListJobsForUser, s
    <3>2. handler' = [handler EXCEPT ![h] = [handler[h] EXCEPT !.at = "purge", !.left = left]]
      BY <2>6 DEF ListJobsForUser
    <3> HIDE DEF left
    <3>3. handler' = [handler EXCEPT ![h] = t]
      <4>1. [s EXCEPT !.at = "purge", !.left = left] = t
        BY <1>1, <3>1, HandlerPurges
      <4> QED
        BY <3>2, <4>1 DEF s
    <3>4. t \in HandlerStates /\ Proper(t, gateway')
      BY <1>1, <3>1 DEF HandlerStates, Proper
    <3> HIDE DEF t
    <3> QED
      BY <3>3, <3>4
  <2>7. ASSUME NEW j \in Jobs, CancelInFlight(h, j) \/ CancelSwallowed(h, j)
        PROVE  \E t \in HandlerStates : /\ handler' = [handler EXCEPT ![h] = t]
                                       /\ Proper(t, gateway')
    <3> DEFINE left == s.left \ {j}
    <3> DEFINE t == [at |-> s.at, op |-> s.op, saw |-> s.saw, left |-> left]
    <3>1. j \in s.left /\ gateway' = gateway /\ left \subseteq s.left
      BY <2>7 DEF CancelInFlight, CancelSwallowed, s
    <3>2. handler' = [handler EXCEPT ![h] = [handler[h] EXCEPT !.left = left]]
      BY <2>7 DEF CancelInFlight, CancelSwallowed, s, AccountInv, AccountTyped
    <3> HIDE DEF left
    <3>3. handler' = [handler EXCEPT ![h] = t]
      BY <1>1, <3>2, HandlerLeft DEF s
    <3>4. t \in HandlerStates /\ Proper(t, gateway')
      BY <1>1, <3>1 DEF HandlerStates, Proper
    <3> HIDE DEF t
    <3> QED
      BY <3>3, <3>4
  <2> QED
    BY <2>1, <2>2, <2>3, <2>4, <2>5, <2>6, <2>7 DEF HandlerStep, FindUser, CancelRefused,
       CancelAnswerLost, ResetTransaction, DeleteTransaction, TransactionFails
<1>7. UnansweredHasNoRow'
  BY <1>2, <1>5 DEF AccountInv, UnansweredHasNoRow
<1>8. AccountTyped'
  BY <1>2, <1>4, <1>5, <1>6, <1>9 DEF AccountInv, AccountTyped
<1> QED
  BY <1>3, <1>6, <1>7, <1>8 DEF AccountInv

\* Handlers, rows and the gateway stay in step, in every state.
LEMMA AccountInvariant == Spec => []AccountInv
<1>1. Init => AccountInv
  <2> SUFFICES ASSUME Init PROVE AccountInv
    OBVIOUS
  <2>1. Free \in HandlerStates /\ Proper(Free, gateway)
    BY DEF Free, HandlerStates, Proper
  <2>2. handler \in [Handlers -> HandlerStates] /\ \A h \in Handlers : Proper(handler[h], gateway)
    BY <2>1 DEF Init
  <2>3. failures \in 0..MaxFailures
    BY DeletionAssumption DEF Init
  <2>4. /\ request \in [Jobs -> {"none", "authenticated", "answered"}]
        /\ row \in [Jobs -> RowStates] /\ work \in [Jobs -> WorkStates]
    BY DEF Init, RowStates, WorkStates
  <2>5. AccountTyped
    BY <2>2, <2>3, <2>4 DEF Init, AccountTyped
  <2> QED
    BY <2>2, <2>5 DEF Init, AccountInv, PaidOnce, HandlersInStep, UnansweredHasNoRow
<1>2. AccountInv /\ [Next]_vars => AccountInv'
  <2> SUFFICES ASSUME AccountInv, [Next]_vars PROVE AccountInv'
    OBVIOUS
  <2>1. CASE UNCHANGED accountVars
    BY <2>1 DEF accountVars, AccountInv, AccountTyped, PaidOnce, HandlersInStep, UnansweredHasNoRow
  <2>2. CASE ~UNCHANGED accountVars
    BY <2>2, GenerationKeeps, BillingKeeps, HandlerKeeps DEF Next, vars
  <2> QED
    BY <2>1, <2>2
<1> QED
  BY <1>1, <1>2, PTL DEF Spec

(* The account, its requests and its jobs keep their types, and the outbox *)
(* it shares with the relays too.                                          *)
THEOREM DeletionTypeCorrect == Spec => []TypeOK
<1>1. AccountInv /\ RelayTypeOK => TypeOK
  BY DEF AccountInv, AccountTyped, TypeOK, HandlerStates, RowStates, WorkStates
<1> QED
  BY <1>1, AccountInvariant, DeletionImplementsOutbox, OutboxTypeCorrect, PTL

(* However many deletions and resets run beside one another, beside the    *)
(* webhooks and the customer portal: one that saw a subscription only      *)
(* touches a job or a row when Stripe has cancelled it.                    *)
THEOREM NothingTouchedBeforeTheGateway == Spec => []IntactUntilCancelled
<1>1. AccountInv => IntactUntilCancelled
  BY DEF AccountInv, HandlersInStep, Proper, IntactUntilCancelled
<1> QED
  BY <1>1, AccountInvariant, PTL

(* No step of a worker, a cancel or a request that began before a purge    *)
(* writes a row that the purge has removed.                                *)
THEOREM PurgeIsFinal == Spec => PurgedStaysPurged
<1>1. ASSUME AccountInv, [Next]_vars, NEW j \in Jobs, row[j] = "removed"
      PROVE  row'[j] = "removed"
  <2>1. ASSUME NEW i \in Jobs, Generation(i) PROVE row'[j] = "removed"
    BY <1>1, <2>1 DEF AccountInv, AccountTyped, UnansweredHasNoRow, Generation, RequestGeneration,
       EnqueueExecution, ClaimJob, LoadSlice, SettleCredits, RecordOutcome, Active
  <2>2. ASSUME NEW h \in Handlers, AskDelete(h) \/ AskReset(h) \/ HandlerStep(h)
        PROVE  row'[j] = "removed"
    BY <1>1, <2>2 DEF AccountInv, AccountTyped, AskDelete, AskReset, HandlerStep, FindUser,
       LookUpSubscription, CancelAtGateway, CancelRefused, CancelAnswerLost, ListJobsForUser,
       CancelInFlight, CancelSwallowed, ResetTransaction, DeleteTransaction, TransactionFails,
       WithoutJobs, Active
  <2>3. CASE row' = row
    BY <1>1, <2>3
  <2> QED
    BY <1>1, <2>1, <2>2, <2>3 DEF Next, vars, accountVars, PersistSlice, OpenCheckout,
       PayCheckout, CancelInPortal, HandleWebhook
<1>2. AccountInv /\ [Next]_vars =>
        [\A j \in Jobs : row[j] = "removed" => row'[j] = "removed"]_vars
  BY <1>1
<1> QED
  BY <1>2, AccountInvariant, PTL DEF Spec, PurgedStaysPurged

(* Nothing that needs an authenticated request begins for a deleted user,  *)
(* and nothing else begins by itself.                                      *)
LEMMA QuietStays ==
  ASSUME AccountInv, user = "deleted", ~InFlight, [Next]_vars
  PROVE  ~InFlight' /\ (~linked => ~linked')
<1>1. /\ persist = {} /\ webhooks = {} /\ checkout # "open" /\ gateway # "active"
      /\ \A h \in Handlers : handler[h].at = "free" /\ handler[h].left = {}
      /\ \A j \in Jobs : /\ request[j] # "authenticated" /\ work[j] \in {"none", "ended"}
                         /\ row[j] \notin Active
  BY DEF InFlight, AccountInv, HandlersInStep, Proper
<1>2. UNCHANGED accountVars
  <2>1. \A j \in Jobs : ~Generation(j)
    BY <1>1 DEF Generation, RequestGeneration, EnqueueExecution, ClaimJob, LoadSlice,
                SettleCredits, RecordOutcome, Authenticated, Active
  <2>2. \A h \in Handlers : ~(AskDelete(h) \/ AskReset(h) \/ HandlerStep(h))
    BY <1>1 DEF AskDelete, AskReset, HandlerStep, FindUser, LookUpSubscription, CancelAtGateway,
       CancelRefused, CancelAnswerLost, ListJobsForUser, CancelInFlight, CancelSwallowed,
       ResetTransaction, DeleteTransaction, TransactionFails, Purged, Authenticated
  <2>3. /\ \A p \in {"api", "worker"} : ~PersistSlice(p)
        /\ ~(OpenCheckout \/ PayCheckout \/ CancelInPortal)
        /\ \A event \in {"completed", "cancelled"} : ~HandleWebhook(event)
    BY <1>1 DEF PersistSlice, OpenCheckout, PayCheckout, CancelInPortal, HandleWebhook, Authenticated
  <2> QED
    BY <2>1, <2>2, <2>3 DEF Next, vars
<1> QED
  BY <1>2 DEF accountVars, InFlight

(* A deleted account stays deleted; once what was under way for it is over *)
(* nothing begins again, and no billing row takes the user's id back.      *)
THEOREM TombstoneIsFinal == Spec => DeletedStaysQuiet
<1>1. user = "deleted" /\ [Next]_vars => (user = "deleted")'
  BY DEF Next, vars, accountVars, Generation, RequestGeneration, EnqueueExecution, ClaimJob,
         LoadSlice, SettleCredits, RecordOutcome, PersistSlice, OpenCheckout, PayCheckout,
         CancelInPortal, HandleWebhook, AskDelete, AskReset, HandlerStep, FindUser,
         LookUpSubscription, CancelAtGateway, CancelRefused, CancelAnswerLost, ListJobsForUser,
         CancelInFlight, CancelSwallowed, ResetTransaction, DeleteTransaction, TransactionFails
<1>2. AccountInv /\ user = "deleted" /\ ~InFlight /\ [Next]_vars => ~InFlight'
  BY QuietStays
<1>3. AccountInv /\ user = "deleted" /\ ~InFlight /\ ~linked /\ [Next]_vars => ~linked'
  BY QuietStays
<1> QED
  BY <1>1, <1>2, <1>3, AccountInvariant, PTL DEF Spec, DeletedStaysQuiet

=============================================================================
