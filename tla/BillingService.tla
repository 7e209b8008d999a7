--------------------------- MODULE BillingService ---------------------------
(***************************************************************************)
(* The payments package as one process runs it: subscriptions, the credit  *)
(* ledger, the generation reservations and the map of remembered           *)
(* operations, all in the memory of a BillingRepository.  Every operation  *)
(* is synchronous there, so each is one step.  (purchaseTopUp can await a  *)
(* gateway charge; nothing in the backend calls it that way.)              *)
(*                                                                         *)
(* Abstractions.  An account is one (user, plan) pair.  Credits are        *)
(* integers in tenths, the unit roundCredits("ceil_1_decimal") rounds to;  *)
(* the error of its floating-point sums is not modelled.  The ledger array *)
(* is kept as the sum of its deltas per entry type (posted) and, for each  *)
(* generation cycle, the number of its entries per type (entries).  The    *)
(* calendar is the two deadlines of a subscription, open or over.          *)
(***************************************************************************)
EXTENDS Integers, FiniteSets, FiniteSetsExt

CONSTANTS
  Accounts,        \* (user, plan) pairs
  Generations,     \* generation cycle ids, each with its reservation
  Owner,           \* the account a generation is charged to
  Events,          \* gateway event ids
  EventAccount,    \* the account an event is about
  EventKind,       \* what the event announces
  Prices,          \* debits a generation can have
  UsageAmounts,    \* debits of consumeCredits
  MonthlyCredits,  \* plan.monthlyCredits
  TopUpCredits,    \* credits of the top-up package
  RolloverCap      \* creditPolicy.rolloverCap

EventKinds == {"checkout.completed", "subscription.renewed",
               "subscription.cancelled", "chargeback", "payment.failed", "topup"}

ASSUME BillingAssumption ==
  /\ Owner \in [Generations -> Accounts]
  /\ EventAccount \in [Events -> Accounts]
  /\ EventKind \in [Events -> EventKinds]
  /\ Events \intersect Accounts = {}  \* gateway:<id> and <namespace>:<user>:<plan> keys
  /\ Prices \subseteq Nat
  /\ UsageAmounts \subseteq Nat
  /\ MonthlyCredits \in Nat
  /\ TopUpCredits \in Nat
  /\ RolloverCap \in Nat

VARIABLES
  status,        \* subscription status per account, "none" without one
  trialWindow,   \* trialEndsAt: "none", still ahead ("open") or "over"
  accessWindow,  \* expiresAt, the same way
  cycleOpen,     \* whether the account has a cycle state (closedAt stays null)
  posted,        \* sum of the ledger's deltas per account and entry type
  entries,       \* number of ledger entries per generation cycle and type
  reservation,   \* status and debit of each generation's reservation
  usage,         \* credits of the usage records per account
  remembered     \* keys of repository.idempotency

vars == <<status, trialWindow, accessWindow, cycleOpen, posted, entries,
          reservation, usage, remembered>>
subscriptionVars == <<status, trialWindow, accessWindow>>
creditVars == <<posted, entries, reservation, usage>>

Statuses == {"none", "trialing", "active", "past_due", "canceled", "lapsed"}
Windows == {"none", "open", "over"}
Postings == [reserve: Int, release: Int, capture: Int, expire: Int,
             grant_rollover: Int, grant_cycle: Int, grant_topup: Int]
EntryCounts == [reserve: Nat, capture: Nat, release: Nat]
Reservations == [state: {"none", "reserved", "captured", "released"}, debit: Nat]
ReleaseCallers == {"runtime", "cancel"}  \* key release:<cycle> or release:<jobId>
OperationKeys ==
  ({"reserve", "capture"} \X Generations)
    \union ({"release"} \X Generations \X ReleaseCallers)
    \union ({"startCycle"} \X (Events \union Accounts))
    \union ({"topup"} \X Events)

NoPostings == [reserve |-> 0, release |-> 0, capture |-> 0, expire |-> 0,
               grant_rollover |-> 0, grant_cycle |-> 0, grant_topup |-> 0]
NoReservation == [state |-> "none", debit |-> 0]

Init ==
  /\ status = [a \in Accounts |-> "none"]
  /\ trialWindow = [a \in Accounts |-> "none"]
  /\ accessWindow = [a \in Accounts |-> "none"]
  /\ cycleOpen = [a \in Accounts |-> FALSE]
  /\ posted = [a \in Accounts |-> NoPostings]
  /\ entries = [g \in Generations |-> [reserve |-> 0, capture |-> 0, release |-> 0]]
  /\ reservation = [g \in Generations |-> NoReservation]
  /\ usage = [a \in Accounts |-> 0]
  /\ remembered = {}

-----------------------------------------------------------------------------
(* The wallet and the lazy clock.                                          *)

SumLedger(a) ==
  posted[a].reserve + posted[a].release + posted[a].capture + posted[a].expire
    + posted[a].grant_rollover + posted[a].grant_cycle + posted[a].grant_topup

BaselineCredits(a) == IF cycleOpen[a] THEN 0 ELSE MonthlyCredits

AvailableCredits(a) == BaselineCredits(a) + SumLedger(a)

ReservedCredits(a) ==
  LET held == {g \in Generations : Owner[g] = a /\ reservation[g].state = "reserved"}
  IN  MapThenSumSet(LAMBDA g : reservation[g].debit, held)

\* A deadline that was never set does not expire anything.
BeforeDeadline(window) == window # "over"

EffectiveStatus(a) ==
  IF \/ status[a] = "trialing" /\ (~BeforeDeadline(trialWindow[a]) \/ AvailableCredits(a) <= 0)
     \/ status[a] = "canceled" /\ ~BeforeDeadline(accessWindow[a])
  THEN "lapsed"
  ELSE status[a]

HasLiveAccess(a) ==
  \/ status[a] \in {"active", "past_due"}
  \/ status[a] = "trialing" /\ BeforeDeadline(trialWindow[a])
  \/ status[a] = "canceled" /\ BeforeDeadline(accessWindow[a])

\* Mutant: the cap is rolled over whatever was left.
CapRolledOver(remaining) == RolloverCap

\* min(remaining * 25%, cap), rounded up to the tenth
RolloverCredits(remaining) ==
  LET quarter == (remaining + 3) \div 4
  IN  IF quarter < RolloverCap THEN quarter ELSE RolloverCap

-----------------------------------------------------------------------------
(* rememberOperation: an operation whose key is remembered answers from    *)
(* the map and changes nothing, so each operation below asks for a fresh   *)
(* key and a retry of it is a stuttering step.                             *)

FreshOperation(key) ==
  /\ key \notin remembered
  /\ remembered' = remembered \union {key}

(* startCycle: the credits left in an open cycle expire, a quarter of them *)
(* rolls over, and the plan's monthly credits are granted.                 *)
StartCyclePostings(a) ==
  LET remaining == IF cycleOpen[a] /\ AvailableCredits(a) > 0 THEN AvailableCredits(a) ELSE 0
  IN  [posted[a] EXCEPT !.expire = @ - remaining,
                        !.grant_rollover = @ + RolloverCredits(remaining),
                        !.grant_cycle = @ + MonthlyCredits]

\* Mutant: the operation's key is not looked up.
StartCycleAgain(a, key) ==
  /\ remembered' = remembered \union {<<"startCycle", key>>}
  /\ posted' = [posted EXCEPT ![a] = StartCyclePostings(a)]
  /\ cycleOpen' = [cycleOpen EXCEPT ![a] = TRUE]

StartCycle(a, key) ==
  IF <<"startCycle", key>> \in remembered
  THEN UNCHANGED <<posted, cycleOpen, remembered>>
  ELSE /\ FreshOperation(<<"startCycle", key>>)
       /\ posted' = [posted EXCEPT ![a] = StartCyclePostings(a)]
       /\ cycleOpen' = [cycleOpen EXCEPT ![a] = TRUE]

StartCycleUnlessOpen(a, key) ==
  IF cycleOpen[a]
  THEN UNCHANGED <<posted, cycleOpen, remembered>>
  ELSE StartCycle(a, key)

-----------------------------------------------------------------------------
(* Reserve, capture and release of one generation's credits.               *)

\* Mutant: the balance is not checked.
ReserveUnchecked(g, debit) ==
  LET a == Owner[g] IN
  /\ status[a] # "none"
  /\ HasLiveAccess(a)
  /\ FreshOperation(<<"reserve", g>>)
  /\ posted' = [posted EXCEPT ![a].reserve = @ - debit]
  /\ entries' = [entries EXCEPT ![g].reserve = @ + 1]
  /\ reservation' = [reservation EXCEPT ![g] = [state |-> "reserved", debit |-> debit]]
  /\ UNCHANGED <<subscriptionVars, cycleOpen, usage>>

ReserveGenerationCredits(g, debit) ==
  LET a == Owner[g] IN
  /\ status[a] # "none"
  /\ HasLiveAccess(a)
  /\ AvailableCredits(a) >= debit
  /\ FreshOperation(<<"reserve", g>>)
  /\ posted' = [posted EXCEPT ![a].reserve = @ - debit]
  /\ entries' = [entries EXCEPT ![g].reserve = @ + 1]
  /\ reservation' = [reservation EXCEPT ![g] = [state |-> "reserved", debit |-> debit]]
  /\ UNCHANGED <<subscriptionVars, cycleOpen, usage>>

\* Mutant: the capture debits what the reserve has debited already.
CaptureDebitsAgain(g) ==
  /\ reservation[g].state = "reserved"
  /\ FreshOperation(<<"capture", g>>)
  /\ reservation' = [reservation EXCEPT ![g].state = "captured"]
  /\ entries' = [entries EXCEPT ![g].capture = @ + 1]
  /\ usage' = [usage EXCEPT ![Owner[g]] = @ + reservation[g].debit]
  /\ posted' = [posted EXCEPT ![Owner[g]].capture = @ - reservation[g].debit]
  /\ UNCHANGED <<subscriptionVars, cycleOpen>>

CaptureReservedCredits(g) ==
  /\ reservation[g].state # "none"
  /\ FreshOperation(<<"capture", g>>)
  /\ IF reservation[g].state # "reserved"
     THEN UNCHANGED creditVars
     ELSE /\ reservation' = [reservation EXCEPT ![g].state = "captured"]
          /\ entries' = [entries EXCEPT ![g].capture = @ + 1]
          /\ usage' = [usage EXCEPT ![Owner[g]] = @ + reservation[g].debit]
          /\ UNCHANGED posted   \* the capture entry has delta 0
  /\ UNCHANGED <<subscriptionVars, cycleOpen>>

\* Mutant: a reservation is released whatever its status.
ReleaseAnyStatus(g, caller) ==
  /\ reservation[g].state # "none"
  /\ FreshOperation(<<"release", g, caller>>)
  /\ reservation' = [reservation EXCEPT ![g].state = "released"]
  /\ entries' = [entries EXCEPT ![g].release = @ + 1]
  /\ posted' = [posted EXCEPT ![Owner[g]].release = @ + reservation[g].debit]
  /\ UNCHANGED <<subscriptionVars, cycleOpen, usage>>

ReleaseReservedCredits(g, caller) ==
  /\ reservation[g].state # "none"
  /\ FreshOperation(<<"release", g, caller>>)
  /\ IF reservation[g].state # "reserved"
     THEN UNCHANGED creditVars
     ELSE /\ reservation' = [reservation EXCEPT ![g].state = "released"]
          /\ entries' = [entries EXCEPT ![g].release = @ + 1]
          /\ posted' = [posted EXCEPT ![Owner[g]].release = @ + reservation[g].debit]
          /\ UNCHANGED usage
  /\ UNCHANGED <<subscriptionVars, cycleOpen>>

(* consumeCredits has no key of its own: each call debits.                 *)
ConsumeCredits(a, amount) ==
  /\ status[a] # "none"
  /\ HasLiveAccess(a)
  /\ AvailableCredits(a) >= amount
  /\ posted' = [posted EXCEPT ![a].capture = @ - amount]
  /\ usage' = [usage EXCEPT ![a] = @ + amount]
  /\ UNCHANGED <<subscriptionVars, cycleOpen, entries, reservation, remembered>>

(* The backend only buys a top-up for a webhook, which was paid already.   *)
PurchaseTopUp(a, key) ==
  /\ status[a] # "none"
  /\ FreshOperation(<<"topup", key>>)
  /\ posted' = [posted EXCEPT ![a].grant_topup = @ + TopUpCredits]
  /\ UNCHANGED <<subscriptionVars, cycleOpen, entries, reservation, usage>>

-----------------------------------------------------------------------------
(* The life of a subscription.                                             *)

(* A new user, or one whose entitlement is read before a subscription      *)
(* exists, gets the trial and its cycle; an active subscription without a  *)
(* cycle gets the cycle.                                                   *)
EnsureDefaultFreeSubscription(a) ==
  /\ \/ /\ status[a] = "none"
        /\ status' = [status EXCEPT ![a] = "trialing"]
        /\ trialWindow' = [trialWindow EXCEPT ![a] = "open"]
        /\ UNCHANGED accessWindow
     \/ /\ EffectiveStatus(a) = "active"
        /\ UNCHANGED subscriptionVars
  /\ StartCycleUnlessOpen(a, a)
  /\ UNCHANGED <<entries, reservation, usage>>

(* A run for an account without billing records makes it active, and opens *)
(* no cycle.                                                               *)
EnsureBackendBillingSubscription(a) ==
  /\ status[a] = "none"
  /\ status' = [status EXCEPT ![a] = "active"]
  /\ UNCHANGED <<trialWindow, accessWindow, cycleOpen, creditVars, remembered>>

PatchStatus(a, next) ==
  /\ status' = [status EXCEPT ![a] = next]
  /\ UNCHANGED <<trialWindow, accessWindow>>

CheckoutCompleted(a, e) ==
  /\ PatchStatus(a, "active")
  /\ StartCycleUnlessOpen(a, e)
  /\ UNCHANGED <<entries, reservation, usage>>

SubscriptionRenewed(a, e) ==
  /\ PatchStatus(a, "active")
  /\ StartCycle(a, e)
  /\ UNCHANGED <<entries, reservation, usage>>

(* The access ends with the paid period the event names, which may be over *)
(* when the event is delivered late, or in 30 days.                        *)
SubscriptionCancelled(a) ==
  /\ status' = [status EXCEPT ![a] = "canceled"]
  /\ \E window \in {"open", "over"} : accessWindow' = [accessWindow EXCEPT ![a] = window]
  /\ UNCHANGED <<trialWindow, cycleOpen, creditVars, remembered>>

PaymentFailed(a) ==
  /\ PatchStatus(a, "past_due")
  /\ UNCHANGED <<cycleOpen, creditVars, remembered>>

(* The gateway delivers an event at least once and in any order, so an     *)
(* event stays deliverable after it was handled.  The code resolves the    *)
(* plan of an event at each delivery (GatewayWebhooks models that); here   *)
(* an account has one plan.                                                *)
DispatchGatewayEvent(e) ==
  LET a == EventAccount[e] IN
  \/ EventKind[e] = "checkout.completed" /\ CheckoutCompleted(a, e)
  \/ EventKind[e] = "subscription.renewed" /\ SubscriptionRenewed(a, e)
  \/ EventKind[e] = "subscription.cancelled" /\ SubscriptionCancelled(a)
  \/ EventKind[e] \in {"chargeback", "payment.failed"} /\ PaymentFailed(a)
  \/ EventKind[e] = "topup" /\ PurchaseTopUp(a, e)

(* One pass of the sweeper writes the lapse the lazy clock derives now.    *)
SweepLapsedSubscriptions ==
  /\ status' = [a \in Accounts |-> EffectiveStatus(a)]
  /\ UNCHANGED <<trialWindow, accessWindow, cycleOpen, creditVars, remembered>>

(* Time passes: a deadline that lies ahead is reached.                     *)
TrialDeadline(a) ==
  /\ trialWindow[a] = "open"
  /\ trialWindow' = [trialWindow EXCEPT ![a] = "over"]
  /\ UNCHANGED <<status, accessWindow, cycleOpen, creditVars, remembered>>

AccessDeadline(a) ==
  /\ accessWindow[a] = "open"
  /\ accessWindow' = [accessWindow EXCEPT ![a] = "over"]
  /\ UNCHANGED <<status, trialWindow, cycleOpen, creditVars, remembered>>

Next ==
  \/ \E g \in Generations, debit \in Prices : ReserveGenerationCredits(g, debit)
  \/ \E g \in Generations : CaptureReservedCredits(g)
  \/ \E g \in Generations, caller \in ReleaseCallers : ReleaseReservedCredits(g, caller)
  \/ \E a \in Accounts, amount \in UsageAmounts : ConsumeCredits(a, amount)
  \/ \E a \in Accounts : EnsureDefaultFreeSubscription(a)
  \/ \E a \in Accounts : EnsureBackendBillingSubscription(a)
  \/ \E e \in Events : DispatchGatewayEvent(e)
  \/ SweepLapsedSubscriptions
  \/ \E a \in Accounts : TrialDeadline(a)
  \/ \E a \in Accounts : AccessDeadline(a)

Spec == Init /\ [][Next]_vars

-----------------------------------------------------------------------------
(* Properties.                                                             *)

(* The values the repository's maps can hold.                              *)
TypeOK ==
  /\ status \in [Accounts -> Statuses]
  /\ trialWindow \in [Accounts -> Windows]
  /\ accessWindow \in [Accounts -> Windows]
  /\ cycleOpen \in [Accounts -> BOOLEAN]
  /\ posted \in [Accounts -> Postings]
  /\ entries \in [Generations -> EntryCounts]
  /\ reservation \in [Generations -> Reservations]
  /\ usage \in [Accounts -> Nat]
  /\ remembered \subseteq OperationKeys

(* No sequence of debits, refunds, renewals and top-ups, in whatever order *)
(* the gateway and the runs produce them, leaves a wallet below zero: the  *)
(* baseline a first cycle replaces, the expiry of a renewal and the check  *)
(* of a reserve agree on what is available.                                *)
NonNegativeWallet == \A a \in Accounts : AvailableCredits(a) >= 0

(* A generation is charged once and settled at most once, whichever of the *)
(* worker's capture, the worker's release and the release of a cancel come *)
(* and in whatever order, although each has an idempotency key of its own; *)
(* and the ledger's entries say what the reservation's status says.        *)
SettledOnce ==
  \A g \in Generations :
    LET n == entries[g] IN
    /\ n.reserve = (IF reservation[g].state = "none" THEN 0 ELSE 1)
    /\ n.capture = (IF reservation[g].state = "captured" THEN 1 ELSE 0)
    /\ n.release = (IF reservation[g].state = "released" THEN 1 ELSE 0)

(* The credits the ledger has debited and not given back are exactly the   *)
(* holds of open reservations plus what captured generations cost, and the *)
(* usage records add up to what was captured or consumed: no refund is     *)
(* lost, doubled or paid at another price than the one reserved.           *)
CapturedCredits(a) ==
  LET done == {g \in Generations : Owner[g] = a /\ reservation[g].state = "captured"}
  IN  MapThenSumSet(LAMBDA g : reservation[g].debit, done)

LedgerMatchesReservations ==
  \A a \in Accounts :
    /\ -(posted[a].reserve + posted[a].release) = ReservedCredits(a) + CapturedCredits(a)
    /\ usage[a] = CapturedCredits(a) - posted[a].capture

(* Renewals never create credits beyond the plan's grant: over any number  *)
(* of cycles what was rolled over is covered by what had expired.          *)
RolloverBacked ==
  \A a \in Accounts : posted[a].grant_rollover <= -posted[a].expire

(* A billing event redelivered any number of times grants its month once:  *)
(* the months granted are the remembered startCycle operations.            *)
MonthsGranted(a) ==
  {k \in Events \union Accounts :
     <<"startCycle", k>> \in remembered /\ (k = a \/ (k \in Events /\ EventAccount[k] = a))}

MonthGrantedOncePerEvent ==
  \A a \in Accounts :
    posted[a].grant_cycle = MonthlyCredits * Cardinality(MonthsGranted(a))

=============================================================================
