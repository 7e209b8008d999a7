---------------------------- MODULE AccountDeletion ----------------------------
(***************************************************************************)
(* Deleting and resetting an account, beside everything of that user that  *)
(* is still under way: requests that were authenticated before, jobs a     *)
(* worker runs, slice writes the billing persist queues hold, a checkout   *)
(* open at Stripe, and the webhooks of the cancellation itself.            *)
(*                                                                         *)
(* A deletion is a sequence of awaits: find the user, look the gateway     *)
(* subscription up, cancel it, list the jobs, cancel each, and the one     *)
(* transaction that purges, pseudonymizes billing, writes the tombstone    *)
(* and inserts the outbox event.  A reset is its second half without them. *)
(*                                                                         *)
(* Abstractions.  One user with one paid plan; the statements of a cancel  *)
(* or a claim are split in ExecutionJob, those of a slice write in         *)
(* BillingPersistence, a webhook's in GatewayWebhooks.  Voice artifacts    *)
(* (VoiceTraining), memories and reactions go with the purge.  The job     *)
(* scan takes 500 rows, more than a model has.                             *)
(***************************************************************************)
EXTENDS OutboxRelay

CONSTANTS
  Jobs,
  NoOp,       \* a handler that is free
  Handlers,   \* account requests the API serves at once
  MaxFailures \* bound: gateway calls, cancels and transactions that fail

Execution(j) == [type |-> "execution", of |-> j]
Auth0Delete == [type |-> "identity", of |-> "user"]

ASSUME DeletionAssumption ==
  /\ Events = {Execution(j) : j \in Jobs} \union {Auth0Delete}
  /\ MaxFailures \in Nat

VARIABLES
  user,     \* status of the application user
  handler,  \* what each account request is doing
  checkout, \* the hosted page: "none", "open" or "paid"
  gateway,  \* the subscription at Stripe
  linkRow,  \* a gateway subscription row names the user
  plan,     \* status of the subscription in the API's memory
  webhooks, \* events Stripe has still to deliver
  request,  \* the enqueue request of each job
  row,      \* status of each job row
  work,     \* what the worker does with each job
  persist,  \* processes with a write of the user's slice on their queue
  linked,   \* billing rows carry the user's id
  failures

accountVars == <<user, handler, checkout, gateway, linkRow, plan, webhooks,
                 request, row, work, persist, linked, failures>>
vars == <<relayVars, accountVars>>

Free == [at |-> "free", op |-> NoOp, saw |-> FALSE, left |-> {}]
Active == {"queued", "running"}
LiveCancelStatuses == {"trialing", "active"}

Init ==
  /\ RelayInit
  /\ user = "active"
  /\ handler = [h \in Handlers |-> Free]
  /\ checkout = "none" /\ gateway = "none" /\ linkRow = FALSE
  /\ plan = "trialing" /\ webhooks = {}
  /\ request = [j \in Jobs |-> "none"]
  /\ row = [j \in Jobs |-> "none"]
  /\ work = [j \in Jobs |-> "none"]
  /\ persist = {}
  /\ linked = TRUE
  /\ failures = 0

Fails ==
  /\ failures < MaxFailures
  /\ failures' = failures + 1

-----------------------------------------------------------------------------
(* Generations of the user.                                                *)

\* Mutant: a tombstoned user is let in.
LetsAnyoneIn == TRUE

\* The guard of every authenticated request, asked once when it begins.
Authenticated == user # "deleted"

RequestGeneration(j) ==
  /\ request[j] = "none"
  /\ Authenticated
  /\ request' = [request EXCEPT ![j] = "authenticated"]
  /\ UNCHANGED <<relayVars, user, handler, checkout, gateway, linkRow, plan, webhooks,
                 row, work, persist, linked, failures>>

(* One transaction reserves, writes the user's slice, inserts the row and  *)
(* the event.                                                              *)
EnqueueExecution(j) ==
  /\ request[j] = "authenticated"
  /\ request' = [request EXCEPT ![j] = "answered"]
  /\ row' = [row EXCEPT ![j] = "queued"]
  /\ linked' = TRUE
  /\ InsertOutboxEvent(Execution(j))
  /\ UNCHANGED <<user, handler, checkout, gateway, linkRow, plan, webhooks,
                 work, persist, failures>>

\* The claim of a delivery, then the reload of the slice.
ClaimJob(j) ==
  /\ Execution(j) \in sent
  /\ work[j] = "none" /\ row[j] = "queued"
  /\ row' = [row EXCEPT ![j] = "running"]
  /\ work' = [work EXCEPT ![j] = "loading"]
  /\ UNCHANGED <<relayVars, user, handler, checkout, gateway, linkRow, plan, webhooks,
                 request, persist, linked, failures>>

(* Only a slice that still carries the user's id brings the reservation.   *)
LoadSlice(j) ==
  /\ work[j] = "loading"
  /\ work' = [work EXCEPT ![j] = IF linked THEN "generating" ELSE "unpaid"]
  /\ UNCHANGED <<relayVars, user, handler, checkout, gateway, linkRow, plan, webhooks,
                 request, row, persist, linked, failures>>

(* A capture or a release of a reservation the worker's memory has         *)
(* schedules the write of its slice, whatever became of the row.           *)
SettleCredits(j) ==
  /\ work[j] \in {"generating", "unpaid"}
  /\ persist' = IF work[j] = "generating" THEN persist \union {"worker"} ELSE persist
  /\ work' = [work EXCEPT ![j] = "settled"]
  /\ UNCHANGED <<relayVars, user, handler, checkout, gateway, linkRow, plan, webhooks,
                 request, row, linked, failures>>

\* Mutant: the outcome is written whether or not the row is there.
RecordAnyway(j) ==
  /\ work[j] = "settled"
  /\ work' = [work EXCEPT ![j] = "ended"]
  /\ row' = [row EXCEPT ![j] = "done"]
  /\ UNCHANGED <<relayVars, user, handler, checkout, gateway, linkRow, plan, webhooks,
                 request, persist, linked, failures>>

\* A row that is gone, or settled, stays so.
RecordOutcome(j) ==
  /\ work[j] = "settled"
  /\ work' = [work EXCEPT ![j] = "ended"]
  /\ \E outcome \in {"done", "failed"} :
       row' = IF row[j] \in Active THEN [row EXCEPT ![j] = outcome] ELSE row
  /\ UNCHANGED <<relayVars, user, handler, checkout, gateway, linkRow, plan, webhooks,
                 request, persist, linked, failures>>

(* A write of the slice a process has in its memory; neither process       *)
(* forgets a user whose account is deleted.                                *)
PersistSlice(p) ==
  /\ p \in persist
  /\ persist' = persist \ {p}
  /\ linked' = TRUE
  /\ UNCHANGED <<relayVars, user, handler, checkout, gateway, linkRow, plan, webhooks,
                 request, row, work, failures>>

-----------------------------------------------------------------------------
(* The subscription.                                                       *)

OpenCheckout ==
  /\ checkout = "none" /\ Authenticated
  /\ checkout' = "open"
  /\ UNCHANGED <<relayVars, user, handler, gateway, linkRow, plan, webhooks,
                 request, row, work, persist, linked, failures>>

\* On Stripe's page, which knows nothing of the account.
PayCheckout ==
  /\ checkout = "open"
  /\ checkout' = "paid" /\ gateway' = "active"
  /\ webhooks' = webhooks \union {"completed"}
  /\ UNCHANGED <<relayVars, user, handler, linkRow, plan, request, row, work,
                 persist, linked, failures>>

\* In Stripe's customer portal.
CancelInPortal ==
  /\ gateway = "active"
  /\ gateway' = "cancelled"
  /\ webhooks' = webhooks \union {"cancelled"}
  /\ UNCHANGED <<relayVars, user, handler, checkout, linkRow, plan, request, row, work,
                 persist, linked, failures>>

(* The metadata of the event names the user, and the API's memory still    *)
(* has the plan: no webhook asks for the user's status.                    *)
HandleWebhook(event) ==
  /\ event \in webhooks
  /\ webhooks' = webhooks \ {event}
  /\ plan' = IF event = "completed" THEN "active" ELSE "canceled"
  /\ persist' = persist \union {"api"}
  /\ linkRow' = TRUE
  /\ linked' = TRUE
  /\ UNCHANGED <<relayVars, user, handler, checkout, gateway, request, row, work, failures>>

-----------------------------------------------------------------------------
(* The account requests.                                                   *)

Goes(h, at) == handler' = [handler EXCEPT ![h].at = at]
Ends(h) == handler' = [handler EXCEPT ![h] = Free]

AskDelete(h) ==
  /\ handler[h].at = "free" /\ Authenticated
  /\ handler' = [handler EXCEPT ![h] = [Free EXCEPT !.at = "find", !.op = "delete"]]
  /\ UNCHANGED <<relayVars, user, checkout, gateway, linkRow, plan, webhooks,
                 request, row, work, persist, linked, failures>>

AskReset(h) ==
  /\ handler[h].at = "free" /\ Authenticated
  /\ handler' = [handler EXCEPT ![h] = [Free EXCEPT !.at = "list", !.op = "reset"]]
  /\ UNCHANGED <<relayVars, user, checkout, gateway, linkRow, plan, webhooks,
                 request, row, work, persist, linked, failures>>

\* A second call on a tombstoned account does nothing.
FindUser(h) ==
  /\ handler[h].at = "find"
  /\ IF user = "deleted" THEN Ends(h) ELSE Goes(h, "lookup")
  /\ UNCHANGED <<relayVars, user, checkout, gateway, linkRow, plan, webhooks,
                 request, row, work, persist, linked, failures>>

(* Nothing is live without a live status in memory and a gateway row.      *)
LookUpSubscription(h) ==
  /\ handler[h].at = "lookup"
  /\ LET live == plan \in LiveCancelStatuses /\ linkRow
     IN  handler' = [handler EXCEPT ![h].saw = live,
                                    ![h].at = IF live THEN "gateway" ELSE "list"]
  /\ UNCHANGED <<relayVars, user, checkout, gateway, linkRow, plan, webhooks,
                 request, row, work, persist, linked, failures>>

CancelAtGateway(h) ==
  /\ handler[h].at = "gateway" /\ gateway = "active"
  /\ gateway' = "cancelled"
  /\ webhooks' = webhooks \union {"cancelled"}
  /\ Goes(h, "list")
  /\ UNCHANGED <<relayVars, user, checkout, linkRow, plan, request, row, work,
                 persist, linked, failures>>

\* Mutant: what the gateway answers does not matter.
CancelRefusedGoesOn(h) ==
  /\ handler[h].at = "gateway"
  /\ IF gateway = "cancelled" THEN UNCHANGED failures ELSE Fails
  /\ Goes(h, "list")
  /\ UNCHANGED <<relayVars, user, checkout, gateway, linkRow, plan, webhooks,
                 request, row, work, persist, linked>>

(* Stripe refuses a subscription that is cancelled, and may be out of      *)
(* reach: the deletion ends before anything of the account is touched.     *)
CancelRefused(h) ==
  /\ handler[h].at = "gateway"
  /\ IF gateway = "cancelled" THEN UNCHANGED failures ELSE Fails
  /\ Ends(h)
  /\ UNCHANGED <<relayVars, user, checkout, gateway, linkRow, plan, webhooks,
                 request, row, work, persist, linked>>

\* Stripe cancelled, and the answer is lost.
CancelAnswerLost(h) ==
  /\ handler[h].at = "gateway" /\ gateway = "active"
  /\ Fails
  /\ gateway' = "cancelled"
  /\ webhooks' = webhooks \union {"cancelled"}
  /\ Ends(h)
  /\ UNCHANGED <<relayVars, user, checkout, linkRow, plan, request, row, work, persist, linked>>

ListJobsForUser(h) ==
  /\ handler[h].at = "list"
  /\ handler' = [handler EXCEPT ![h].at = "purge",
                                ![h].left = {j \in Jobs : row[j] \in Active}]
  /\ UNCHANGED <<relayVars, user, checkout, gateway, linkRow, plan, webhooks,
                 request, row, work, persist, linked, failures>>

(* cancelJob releases the credits, which schedules the write of the slice. *)
CancelInFlight(h, j) ==
  /\ j \in handler[h].left
  /\ handler' = [handler EXCEPT ![h].left = @ \ {j}]
  /\ IF row[j] \in Active
     THEN row' = [row EXCEPT ![j] = "cancelled"] /\ persist' = persist \union {"api"}
     ELSE UNCHANGED <<row, persist>>
  /\ UNCHANGED <<relayVars, user, checkout, gateway, linkRow, plan, webhooks,
                 request, work, linked, failures>>

\* cancelJob answers undefined for any error, so the purge goes on.
CancelSwallowed(h, j) ==
  /\ j \in handler[h].left
  /\ Fails
  /\ handler' = [handler EXCEPT ![h].left = @ \ {j}]
  /\ UNCHANGED <<relayVars, user, checkout, gateway, linkRow, plan, webhooks,
                 request, row, work, persist, linked>>

Purged(h) == handler[h].at = "purge" /\ handler[h].left = {}
WithoutJobs == [j \in Jobs |-> IF row[j] = "none" THEN "none" ELSE "removed"]

ResetTransaction(h) ==
  /\ Purged(h) /\ handler[h].op = "reset"
  /\ row' = WithoutJobs
  /\ Ends(h)
  /\ UNCHANGED <<relayVars, user, checkout, gateway, linkRow, plan, webhooks,
                 request, work, persist, linked, failures>>

\* Mutant: the outbox event is not part of the transaction.
DeleteWithoutEvent(h) ==
  /\ Purged(h) /\ handler[h].op = "delete"
  /\ row' = WithoutJobs
  /\ linked' = FALSE /\ linkRow' = FALSE
  /\ user' = "deleted"
  /\ Ends(h)
  /\ UNCHANGED <<relayVars, checkout, gateway, plan, webhooks, request, work, persist, failures>>

DeleteTransaction(h) ==
  /\ Purged(h) /\ handler[h].op = "delete"
  /\ row' = WithoutJobs
  /\ linked' = FALSE /\ linkRow' = FALSE
  /\ user' = "deleted"
  /\ InsertOutboxEvent(Auth0Delete)
  /\ Ends(h)
  /\ UNCHANGED <<checkout, gateway, plan, webhooks, request, work, persist, failures>>

TransactionFails(h) ==
  /\ Purged(h)
  /\ Fails
  /\ Ends(h)
  /\ UNCHANGED <<relayVars, user, checkout, gateway, linkRow, plan, webhooks,
                 request, row, work, persist, linked>>

-----------------------------------------------------------------------------
Generation(j) ==
  \/ RequestGeneration(j) \/ EnqueueExecution(j)
  \/ ClaimJob(j) \/ LoadSlice(j) \/ SettleCredits(j) \/ RecordOutcome(j)

WorkerStep(j) == LoadSlice(j) \/ SettleCredits(j) \/ RecordOutcome(j)

HandlerStep(h) ==
  \/ FindUser(h) \/ LookUpSubscription(h) \/ CancelAtGateway(h) \/ CancelRefused(h)
  \/ CancelAnswerLost(h) \/ ListJobsForUser(h)
  \/ \E j \in Jobs : CancelInFlight(h, j) \/ CancelSwallowed(h, j)
  \/ ResetTransaction(h) \/ DeleteTransaction(h) \/ TransactionFails(h)

Next ==
  \/ RelayNext /\ UNCHANGED accountVars
  \/ \E j \in Jobs : Generation(j)
  \/ \E p \in {"api", "worker"} : PersistSlice(p)
  \/ OpenCheckout \/ PayCheckout \/ CancelInPortal
  \/ \E event \in {"completed", "cancelled"} : HandleWebhook(event)
  \/ \E h \in Handlers : AskDelete(h) \/ AskReset(h) \/ HandlerStep(h)

Spec == Init /\ [][Next]_vars

(* The relays tick, a handler and the worker go on with what they began,   *)
(* the queues of writes drain and Stripe delivers.                         *)
FairSpec ==
  /\ Spec
  /\ \A r \in Relays : WF_vars(RelayStep(r) /\ UNCHANGED accountVars)
  /\ \A h \in Handlers : WF_vars(HandlerStep(h))
  /\ \A j \in Jobs : WF_vars(WorkerStep(j))
  /\ \A p \in {"api", "worker"} : WF_vars(PersistSlice(p))
  /\ \A event \in {"completed", "cancelled"} : WF_vars(HandleWebhook(event))

-----------------------------------------------------------------------------
(* Properties.                                                             *)

(* The values the account, its requests and its jobs can have.             *)
TypeOK ==
  /\ RelayTypeOK
  /\ user \in {"active", "deleted"}
  /\ handler \in [Handlers ->
       [at: {"free", "find", "lookup", "gateway", "list", "purge"},
        op: {NoOp, "delete", "reset"}, saw: BOOLEAN, left: SUBSET Jobs]]
  /\ checkout \in {"none", "open", "paid"}
  /\ gateway \in {"none", "active", "cancelled"}
  /\ linkRow \in BOOLEAN /\ linked \in BOOLEAN
  /\ plan \in {"trialing", "active", "canceled"}
  /\ webhooks \subseteq {"completed", "cancelled"}
  /\ request \in [Jobs -> {"none", "authenticated", "answered"}]
  /\ row \in [Jobs -> {"none", "queued", "running", "done", "failed", "cancelled", "removed"}]
  /\ work \in [Jobs -> {"none", "loading", "generating", "unpaid", "settled", "ended"}]
  /\ persist \subseteq {"api", "worker"}
  /\ failures \in 0..MaxFailures

(* A failure at the gateway leaves the account fully intact: no job is     *)
(* cancelled and nothing is purged for a deletion that saw a subscription  *)
(* until that subscription is cancelled at Stripe.                         *)
IntactUntilCancelled ==
  \A h \in Handlers :
    handler[h].at \in {"list", "purge"} /\ handler[h].saw => gateway = "cancelled"

(* A worker, a cancel or an earlier request that goes on after a purge     *)
(* never brings a purged job back.                                         *)
PurgedStaysPurged ==
  [][\A j \in Jobs : row[j] = "removed" => row'[j] = "removed"]_vars

InFlight ==
  \/ persist # {} \/ webhooks # {} \/ checkout = "open" \/ gateway = "active"
  \/ \E h \in Handlers : handler[h].at # "free"
  \/ \E j \in Jobs : request[j] = "authenticated" \/ work[j] \notin {"none", "ended"}
                     \/ row[j] \in Active

(* The tombstone is final: once an account is deleted and what was under   *)
(* way is over, nothing of it begins again and its rows stay as they are.  *)
DeletedStaysQuiet ==
  /\ [](user = "deleted" => [](user = "deleted"))
  /\ [](user = "deleted" /\ ~InFlight => []~InFlight)
  /\ [](user = "deleted" /\ ~InFlight /\ ~linked => []~linked)

(* A deleted account's identity is deleted at Auth0 once the credentials   *)
(* are there, however often a tick threw or Auth0 refused before: the      *)
(* event commits with the tombstone.                                       *)
IdentityIsDeleted ==
  user = "deleted" /\ configured ~> Auth0Delete \in sent

=============================================================================
