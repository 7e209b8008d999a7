------------------------ MODULE BillingServiceProofs ------------------------
(***************************************************************************)
(* What holds of BillingService for every set of accounts, generations and *)
(* events, every price and every plan.                                     *)
(***************************************************************************)
EXTENDS BillingService, FiniteSetTheorems, TLAPS

(* A renewal rolls over no more than what is left in the closing cycle.    *)
LEMMA RolloverBounded ==
  ASSUME NEW remaining \in Nat
  PROVE  RolloverCredits(remaining) \in 0..remaining
BY BillingAssumption DEF RolloverCredits

(* The wallet's balance is an integer.                                     *)
LEMMA AvailableIsInt ==
  ASSUME TypeOK, NEW a \in Accounts
  PROVE  AvailableCredits(a) \in Int
BY BillingAssumption DEF TypeOK, Postings, AvailableCredits, BaselineCredits, SumLedger

(* Posting an entry keeps the ledger's sums integers.                      *)
LEMMA PostEntry ==
  ASSUME NEW p \in [Accounts -> Postings], NEW a \in Accounts, NEW n \in Int
  PROVE  /\ [p EXCEPT ![a].reserve = n] \in [Accounts -> Postings]
         /\ [p EXCEPT ![a].release = n] \in [Accounts -> Postings]
         /\ [p EXCEPT ![a].capture = n] \in [Accounts -> Postings]
         /\ [p EXCEPT ![a].grant_topup = n] \in [Accounts -> Postings]
<1>1. p[a] \in Postings
  OBVIOUS
<1>2. /\ [p[a] EXCEPT !.reserve = n] \in Postings
      /\ [p[a] EXCEPT !.release = n] \in Postings
      /\ [p[a] EXCEPT !.capture = n] \in Postings
      /\ [p[a] EXCEPT !.grant_topup = n] \in Postings
  BY <1>1 DEF Postings
<1> QED
  BY <1>2

(* A new cycle's postings differ from the old ones by the expiry of what   *)
(* was left, a rollover of at most that, and the monthly grant.            *)
LEMMA CyclePostings ==
  ASSUME TypeOK, NEW a \in Accounts
  PROVE  \E left \in Nat, kept \in Nat :
           /\ kept <= left
           /\ cycleOpen[a] /\ AvailableCredits(a) > 0 => left = AvailableCredits(a)
           /\ ~(cycleOpen[a] /\ AvailableCredits(a) > 0) => left = 0
           /\ StartCyclePostings(a) =
                [posted[a] EXCEPT !.expire = posted[a].expire - left,
                                  !.grant_rollover = posted[a].grant_rollover + kept,
                                  !.grant_cycle = posted[a].grant_cycle + MonthlyCredits]
           /\ StartCyclePostings(a) \in Postings
<1> DEFINE left == IF cycleOpen[a] /\ AvailableCredits(a) > 0 THEN AvailableCredits(a) ELSE 0
           kept == RolloverCredits(left)
<1>1. left \in Nat
  BY AvailableIsInt
<1>2. kept \in Nat /\ kept <= left
  BY <1>1, RolloverBounded
<1>3. StartCyclePostings(a) =
        [posted[a] EXCEPT !.expire = posted[a].expire - left,
                          !.grant_rollover = posted[a].grant_rollover + kept,
                          !.grant_cycle = posted[a].grant_cycle + MonthlyCredits]
  BY DEF StartCyclePostings
<1>4. StartCyclePostings(a) \in Postings
  <2>1. posted[a] \in Postings
    BY DEF TypeOK
  <2>2. posted[a].expire - left \in Int
    BY <2>1, <1>1 DEF Postings
  <2>3. posted[a].grant_rollover + kept \in Int
    BY <2>1, <1>2 DEF Postings
  <2>4. posted[a].grant_cycle + MonthlyCredits \in Int
    BY <2>1, BillingAssumption DEF Postings
  <2> HIDE DEF left, kept
  <2> QED
    BY <2>1, <2>2, <2>3, <2>4, <1>3 DEF Postings
<1> QED
  BY <1>1, <1>2, <1>3, <1>4

(* Opening a cycle keeps the types, leaves no wallet below zero that was   *)
(* not, and keeps the rollovers covered by the expiries.                   *)
LEMMA StartCycleStep ==
  ASSUME TypeOK, NEW a \in Accounts, NEW k \in Events \union Accounts,
         StartCycle(a, k) \/ StartCycleUnlessOpen(a, k)
  PROVE  /\ posted' \in [Accounts -> Postings]
         /\ cycleOpen' \in [Accounts -> BOOLEAN]
         /\ remembered' \subseteq OperationKeys
         /\ NonNegativeWallet => \A b \in Accounts : (AvailableCredits(b) >= 0)'
         /\ RolloverBacked => RolloverBacked'
<1>1. CASE UNCHANGED <<posted, cycleOpen, remembered>>
  BY <1>1 DEF TypeOK, NonNegativeWallet, RolloverBacked, AvailableCredits,
              BaselineCredits, SumLedger
<1>2. CASE /\ FreshOperation(<<"startCycle", k>>)
           /\ posted' = [posted EXCEPT ![a] = StartCyclePostings(a)]
           /\ cycleOpen' = [cycleOpen EXCEPT ![a] = TRUE]
  <2>1. PICK left \in Nat, kept \in Nat :
           /\ kept <= left
           /\ cycleOpen[a] /\ AvailableCredits(a) > 0 => left = AvailableCredits(a)
           /\ ~(cycleOpen[a] /\ AvailableCredits(a) > 0) => left = 0
           /\ StartCyclePostings(a) =
                [posted[a] EXCEPT !.expire = posted[a].expire - left,
                                  !.grant_rollover = posted[a].grant_rollover + kept,
                                  !.grant_cycle = posted[a].grant_cycle + MonthlyCredits]
           /\ StartCyclePostings(a) \in Postings
    BY CyclePostings
  <2>2. posted' \in [Accounts -> Postings] /\ cycleOpen' \in [Accounts -> BOOLEAN]
    BY <1>2, <2>1 DEF TypeOK
  <2>3. remembered' \subseteq OperationKeys
    BY <1>2 DEF FreshOperation, TypeOK, OperationKeys
  <2>4. ASSUME NEW b \in Accounts, b # a
        PROVE  posted'[b] = posted[b] /\ cycleOpen'[b] = cycleOpen[b]
    BY <1>2, <2>4 DEF TypeOK
  <2>5. /\ posted'[a].reserve = posted[a].reserve
        /\ posted'[a].release = posted[a].release
        /\ posted'[a].capture = posted[a].capture
        /\ posted'[a].expire = posted[a].expire - left
        /\ posted'[a].grant_rollover = posted[a].grant_rollover + kept
        /\ posted'[a].grant_cycle = posted[a].grant_cycle + MonthlyCredits
        /\ posted'[a].grant_topup = posted[a].grant_topup
    <3>1. posted'[a] = StartCyclePostings(a) /\ posted[a] \in Postings
      BY <1>2 DEF TypeOK
    <3> QED
      BY <2>1, <3>1 DEF Postings
  <2>6. ASSUME NonNegativeWallet, NEW b \in Accounts
        PROVE  (AvailableCredits(b) >= 0)'
    <3>1. CASE b # a
      BY <2>4, <2>6, <3>1 DEF NonNegativeWallet, AvailableCredits, BaselineCredits, SumLedger
    <3>2. CASE b = a
      <4>1. posted[a] \in Postings /\ cycleOpen'[a] = TRUE
        BY <1>2 DEF TypeOK
      <4>2. AvailableCredits(a) >= 0
        BY <2>6 DEF NonNegativeWallet
      <4> QED
        BY <2>1, <2>5, <3>2, <4>1, <4>2, BillingAssumption
           DEF AvailableCredits, BaselineCredits, SumLedger, Postings
    <3> QED
      BY <3>1, <3>2
  <2>7. RolloverBacked => RolloverBacked'
    <3>1. ASSUME RolloverBacked, NEW b \in Accounts
          PROVE  posted'[b].grant_rollover <= -posted'[b].expire
      <4>1. posted[b] \in Postings /\ posted[b].grant_rollover <= -posted[b].expire
        BY <3>1 DEF TypeOK, RolloverBacked
      <4> QED
        BY <2>1, <2>4, <2>5, <4>1 DEF Postings
    <3> QED
      BY <3>1 DEF RolloverBacked
  <2> QED
    BY <2>2, <2>3, <2>6, <2>7
<1> QED
  BY <1>1, <1>2 DEF StartCycle, StartCycleUnlessOpen

-----------------------------------------------------------------------------
(* The maps of the repository only ever hold what TypeOK says, for every   *)
(* number of accounts, generations and events.                             *)
THEOREM TypeCorrect == Spec => []TypeOK
<1>1. Init => TypeOK
  BY BillingAssumption DEF Init, TypeOK, Statuses, Windows, Postings, EntryCounts,
     Reservations, NoPostings, NoReservation
<1>2. TypeOK /\ [Next]_vars => TypeOK'
  <2> SUFFICES ASSUME TypeOK, [Next]_vars PROVE TypeOK'
    OBVIOUS
  <2> USE DEF subscriptionVars, creditVars
  <2>1. ASSUME NEW g \in Generations, NEW debit \in Prices, ReserveGenerationCredits(g, debit)
        PROVE  TypeOK'
    <3>1. Owner[g] \in Accounts /\ debit \in Nat
      BY BillingAssumption
    <3>2. posted' \in [Accounts -> Postings]
      <4>1. posted[Owner[g]].reserve - debit \in Int
        BY <3>1 DEF TypeOK, Postings
      <4> QED
        BY <2>1, <3>1, <4>1, PostEntry DEF ReserveGenerationCredits, TypeOK
    <3>3. entries' \in [Generations -> EntryCounts]
      BY <2>1 DEF ReserveGenerationCredits, TypeOK, EntryCounts
    <3>4. reservation' \in [Generations -> Reservations]
      BY <2>1, <3>1 DEF ReserveGenerationCredits, TypeOK, Reservations
    <3>5. remembered' \subseteq OperationKeys
      BY <2>1 DEF ReserveGenerationCredits, FreshOperation, TypeOK, OperationKeys
    <3> QED
      BY <2>1, <3>2, <3>3, <3>4, <3>5 DEF ReserveGenerationCredits, TypeOK
  <2>2. ASSUME NEW g \in Generations, CaptureReservedCredits(g)
        PROVE  TypeOK'
    <3>1. Owner[g] \in Accounts /\ reservation[g].debit \in Nat
      BY BillingAssumption DEF TypeOK, Reservations
    <3>2. posted' \in [Accounts -> Postings]
      BY <2>2 DEF CaptureReservedCredits, TypeOK
    <3>3. entries' \in [Generations -> EntryCounts]
      BY <2>2 DEF CaptureReservedCredits, TypeOK, EntryCounts
    <3>4. reservation' \in [Generations -> Reservations]
      BY <2>2 DEF CaptureReservedCredits, TypeOK, Reservations
    <3>5. remembered' \subseteq OperationKeys
      BY <2>2 DEF CaptureReservedCredits, FreshOperation, TypeOK, OperationKeys
    <3>6. usage' \in [Accounts -> Nat]
      BY <2>2, <3>1 DEF CaptureReservedCredits, TypeOK
    <3> QED
      BY <2>2, <3>2, <3>3, <3>4, <3>5, <3>6 DEF CaptureReservedCredits, TypeOK
  <2>3. ASSUME NEW g \in Generations, NEW caller \in ReleaseCallers,
               ReleaseReservedCredits(g, caller)
        PROVE  TypeOK'
    <3>1. Owner[g] \in Accounts /\ reservation[g].debit \in Nat
      BY BillingAssumption DEF TypeOK, Reservations
    <3>2. posted' \in [Accounts -> Postings]
      <4>1. posted[Owner[g]].release + reservation[g].debit \in Int
        BY <3>1 DEF TypeOK, Postings
      <4>2. [posted EXCEPT ![Owner[g]].release = posted[Owner[g]].release + reservation[g].debit]
              \in [Accounts -> Postings]
        BY <3>1, <4>1, PostEntry DEF TypeOK
      <4> QED
        BY <2>3, <4>2 DEF ReleaseReservedCredits, TypeOK
    <3>3. entries' \in [Generations -> EntryCounts]
      BY <2>3 DEF ReleaseReservedCredits, TypeOK, EntryCounts
    <3>4. reservation' \in [Generations -> Reservations]
      BY <2>3 DEF ReleaseReservedCredits, TypeOK, Reservations
    <3>5. remembered' \subseteq OperationKeys
      BY <2>3 DEF ReleaseReservedCredits, FreshOperation, TypeOK, OperationKeys
    <3> QED
      BY <2>3, <3>2, <3>3, <3>4, <3>5 DEF ReleaseReservedCredits, TypeOK
  <2>4. ASSUME NEW a \in Accounts, NEW amount \in UsageAmounts, ConsumeCredits(a, amount)
        PROVE  TypeOK'
    <3>1. amount \in Nat
      BY BillingAssumption
    <3>2. posted' \in [Accounts -> Postings]
      <4>1. posted[a].capture - amount \in Int
        BY <3>1 DEF TypeOK, Postings
      <4> QED
        BY <2>4, <4>1, PostEntry DEF ConsumeCredits, TypeOK
    <3> QED
      BY <2>4, <3>1, <3>2 DEF ConsumeCredits, TypeOK
  <2>5. ASSUME NEW a \in Accounts, NEW e \in Events, PurchaseTopUp(a, e)
        PROVE  TypeOK'
    <3>1. posted' \in [Accounts -> Postings]
      <4>1. posted[a].grant_topup + TopUpCredits \in Int
        BY BillingAssumption DEF TypeOK, Postings
      <4> QED
        BY <2>5, <4>1, PostEntry DEF PurchaseTopUp, TypeOK
    <3>2. remembered' \subseteq OperationKeys
      BY <2>5 DEF PurchaseTopUp, FreshOperation, TypeOK, OperationKeys
    <3> QED
      BY <2>5, <3>1, <3>2 DEF PurchaseTopUp, TypeOK
  <2>6. ASSUME NEW a \in Accounts, EnsureDefaultFreeSubscription(a)
        PROVE  TypeOK'
    <3>1. StartCycleUnlessOpen(a, a)
      BY <2>6 DEF EnsureDefaultFreeSubscription
    <3>2. posted' \in [Accounts -> Postings] /\ cycleOpen' \in [Accounts -> BOOLEAN]
          /\ remembered' \subseteq OperationKeys
      BY <3>1, StartCycleStep
    <3> QED
      BY <2>6, <3>2 DEF EnsureDefaultFreeSubscription, TypeOK, Statuses, Windows
  <2>7. ASSUME NEW a \in Accounts, EnsureBackendBillingSubscription(a)
        PROVE  TypeOK'
    BY <2>7 DEF EnsureBackendBillingSubscription, TypeOK, Statuses
  <2>8. ASSUME NEW e \in Events, DispatchGatewayEvent(e)
        PROVE  TypeOK'
    <3> DEFINE a == EventAccount[e]
    <3>0. a \in Accounts
      BY BillingAssumption
    <3>1. ASSUME CheckoutCompleted(a, e) \/ SubscriptionRenewed(a, e) PROVE TypeOK'
      <4>1. StartCycle(a, e) \/ StartCycleUnlessOpen(a, e)
        BY <3>1 DEF CheckoutCompleted, SubscriptionRenewed
      <4>2. posted' \in [Accounts -> Postings] /\ cycleOpen' \in [Accounts -> BOOLEAN]
            /\ remembered' \subseteq OperationKeys
        BY <3>0, <4>1, StartCycleStep
      <4> QED
        BY <3>1, <4>2 DEF CheckoutCompleted, SubscriptionRenewed, PatchStatus, TypeOK, Statuses
    <3>2. ASSUME SubscriptionCancelled(a) \/ PaymentFailed(a) PROVE TypeOK'
      BY <3>2 DEF SubscriptionCancelled, PaymentFailed, PatchStatus, TypeOK, Statuses, Windows
    <3> QED
      BY <2>5, <2>8, <3>0, <3>1, <3>2 DEF DispatchGatewayEvent
  <2>9. ASSUME SweepLapsedSubscriptions
        PROVE  TypeOK'
    BY <2>9 DEF SweepLapsedSubscriptions, EffectiveStatus, TypeOK, Statuses
  <2>10. ASSUME NEW a \in Accounts, TrialDeadline(a) \/ AccessDeadline(a)
         PROVE  TypeOK'
    BY <2>10 DEF TrialDeadline, AccessDeadline, TypeOK, Windows
  <2>11. CASE UNCHANGED vars
    BY <2>11 DEF vars, TypeOK
  <2> QED
    BY <2>1, <2>2, <2>3, <2>4, <2>6, <2>7, <2>8, <2>9, <2>10, <2>11,
       BillingAssumption DEF Next
<1> QED
  BY <1>1, <1>2, PTL DEF Spec

(* For every plan, price and order of debits, refunds, renewals and        *)
(* top-ups: no wallet is ever below zero, and the credits rolled over      *)
(* never exceed the credits that expired.                                  *)
WalletInv == TypeOK /\ NonNegativeWallet /\ RolloverBacked

\* Types, wallet and rollover, in every state.
LEMMA WalletInvariant == Spec => []WalletInv
<1>1. Init => NonNegativeWallet /\ RolloverBacked
  BY BillingAssumption DEF Init, NonNegativeWallet, RolloverBacked, AvailableCredits,
     BaselineCredits, SumLedger, NoPostings
<1>2. TypeOK /\ NonNegativeWallet /\ RolloverBacked /\ [Next]_vars
        => NonNegativeWallet' /\ RolloverBacked'
  <2> SUFFICES ASSUME TypeOK, NonNegativeWallet, RolloverBacked, [Next]_vars
               PROVE  NonNegativeWallet' /\ RolloverBacked'
    OBVIOUS
  <2> USE DEF subscriptionVars, creditVars
  <2>0. ASSUME UNCHANGED <<posted, cycleOpen>>
        PROVE  NonNegativeWallet' /\ RolloverBacked'
    BY <2>0 DEF NonNegativeWallet, RolloverBacked, AvailableCredits, BaselineCredits, SumLedger
  \* one posting that no wallet goes negative by, and no cycle or rollover
  <2>P. ASSUME NEW a \in Accounts, NEW n \in Int, UNCHANGED cycleOpen,
               \/ /\ posted' = [posted EXCEPT ![a].reserve = posted[a].reserve + n]
               \/ /\ posted' = [posted EXCEPT ![a].release = posted[a].release + n]
               \/ /\ posted' = [posted EXCEPT ![a].capture = posted[a].capture + n]
               \/ /\ posted' = [posted EXCEPT ![a].grant_topup = posted[a].grant_topup + n],
               AvailableCredits(a) + n >= 0
        PROVE  NonNegativeWallet' /\ RolloverBacked'
    <3>1. posted[a] \in Postings
      BY DEF TypeOK
    <3>2. ASSUME NEW b \in Accounts, b # a PROVE posted'[b] = posted[b]
      BY <2>P, <3>2 DEF TypeOK
    <3>3. /\ posted'[a].reserve + posted'[a].release + posted'[a].capture + posted'[a].grant_topup
               = posted[a].reserve + posted[a].release + posted[a].capture + posted[a].grant_topup + n
          /\ posted'[a].reserve \in Int /\ posted'[a].release \in Int
          /\ posted'[a].capture \in Int /\ posted'[a].grant_topup \in Int
          /\ posted'[a].expire = posted[a].expire
          /\ posted'[a].grant_rollover = posted[a].grant_rollover
          /\ posted'[a].grant_cycle = posted[a].grant_cycle
      <4>1. CASE posted' = [posted EXCEPT ![a].reserve = posted[a].reserve + n]
        BY <3>1, <4>1 DEF TypeOK, Postings
      <4>2. CASE posted' = [posted EXCEPT ![a].release = posted[a].release + n]
        BY <3>1, <4>2 DEF TypeOK, Postings
      <4>3. CASE posted' = [posted EXCEPT ![a].capture = posted[a].capture + n]
        BY <3>1, <4>3 DEF TypeOK, Postings
      <4>4. CASE posted' = [posted EXCEPT ![a].grant_topup = posted[a].grant_topup + n]
        BY <3>1, <4>4 DEF TypeOK, Postings
      <4> QED
        BY <2>P, <4>1, <4>2, <4>3, <4>4
    <3>4. ASSUME NEW b \in Accounts PROVE (AvailableCredits(b) >= 0)'
      <4>1. CASE b # a
        BY <2>P, <3>2, <4>1 DEF NonNegativeWallet, AvailableCredits, BaselineCredits, SumLedger
      <4>2. CASE b = a
        BY <2>P, <3>1, <3>3, <4>2, BillingAssumption
           DEF AvailableCredits, BaselineCredits, SumLedger, Postings
      <4> QED
        BY <4>1, <4>2
    <3> QED
      BY <3>2, <3>3, <3>4 DEF NonNegativeWallet, RolloverBacked
  <2>1. ASSUME NEW g \in Generations, NEW debit \in Prices, ReserveGenerationCredits(g, debit)
        PROVE  NonNegativeWallet' /\ RolloverBacked'
    <3>1. Owner[g] \in Accounts /\ debit \in Nat /\ AvailableCredits(Owner[g]) \in Int
      BY BillingAssumption, AvailableIsInt
    <3>2. posted[Owner[g]].reserve - debit = posted[Owner[g]].reserve + (-debit)
      BY <3>1 DEF TypeOK, Postings
    <3>3. -debit \in Int /\ AvailableCredits(Owner[g]) + (-debit) >= 0
      BY <2>1, <3>1 DEF ReserveGenerationCredits
    <3>4. /\ posted' = [posted EXCEPT ![Owner[g]].reserve = posted[Owner[g]].reserve - debit]
          /\ UNCHANGED cycleOpen
      BY <2>1 DEF ReserveGenerationCredits
    <3>5. posted' = [posted EXCEPT ![Owner[g]].reserve = posted[Owner[g]].reserve + (-debit)]
      BY <3>2, <3>4, Zenon
    <3> DEFINE m == -debit
    <3> HIDE DEF m
    <3>6. m \in Int /\ AvailableCredits(Owner[g]) + m >= 0
      BY <3>3 DEF m
    <3>7. posted' = [posted EXCEPT ![Owner[g]].reserve = posted[Owner[g]].reserve + m]
      BY <3>5, Zenon DEF m
    <3> QED
      BY <2>P, <3>1, <3>4, <3>6, <3>7
  <2>2. ASSUME NEW g \in Generations, CaptureReservedCredits(g)
        PROVE  NonNegativeWallet' /\ RolloverBacked'
    BY <2>0, <2>2 DEF CaptureReservedCredits
  <2>3. ASSUME NEW g \in Generations, NEW caller \in ReleaseCallers,
               ReleaseReservedCredits(g, caller)
        PROVE  NonNegativeWallet' /\ RolloverBacked'
    <3>1. /\ Owner[g] \in Accounts /\ reservation[g].debit \in Nat
          /\ AvailableCredits(Owner[g]) \in Int
      BY BillingAssumption, AvailableIsInt DEF TypeOK, Reservations
    <3>2. AvailableCredits(Owner[g]) + reservation[g].debit >= 0
      BY <3>1 DEF NonNegativeWallet
    <3>3. CASE reservation[g].state # "reserved"
      BY <2>0, <2>3, <3>3 DEF ReleaseReservedCredits
    <3>4. CASE reservation[g].state = "reserved"
      BY <2>P, <2>3, <3>1, <3>2, <3>4 DEF ReleaseReservedCredits
    <3> QED
      BY <3>3, <3>4
  <2>4. ASSUME NEW a \in Accounts, NEW amount \in UsageAmounts, ConsumeCredits(a, amount)
        PROVE  NonNegativeWallet' /\ RolloverBacked'
    <3>1. amount \in Nat /\ AvailableCredits(a) \in Int
      BY BillingAssumption, AvailableIsInt
    <3>2. posted[a].capture - amount = posted[a].capture + (-amount)
      BY <3>1 DEF TypeOK, Postings
    <3>3. -amount \in Int /\ AvailableCredits(a) + (-amount) >= 0
      BY <2>4, <3>1 DEF ConsumeCredits
    <3>4. /\ posted' = [posted EXCEPT ![a].capture = posted[a].capture - amount]
          /\ UNCHANGED cycleOpen
      BY <2>4 DEF ConsumeCredits
    <3>5. posted' = [posted EXCEPT ![a].capture = posted[a].capture + (-amount)]
      BY <3>2, <3>4, Zenon
    <3> DEFINE m == -amount
    <3> HIDE DEF m
    <3>6. m \in Int /\ AvailableCredits(a) + m >= 0
      BY <3>3 DEF m
    <3>7. posted' = [posted EXCEPT ![a].capture = posted[a].capture + m]
      BY <3>5, Zenon DEF m
    <3> QED
      BY <2>P, <3>4, <3>6, <3>7
  <2>5. ASSUME NEW a \in Accounts, NEW e \in Events, PurchaseTopUp(a, e)
        PROVE  NonNegativeWallet' /\ RolloverBacked'
    <3>1. AvailableCredits(a) + TopUpCredits >= 0
      BY AvailableIsInt, BillingAssumption DEF NonNegativeWallet
    <3>2. /\ posted' = [posted EXCEPT ![a].grant_topup = posted[a].grant_topup + TopUpCredits]
          /\ UNCHANGED cycleOpen
      BY <2>5 DEF PurchaseTopUp
    <3>3. TopUpCredits \in Int
      BY BillingAssumption
    <3> QED
      BY <2>P, <3>1, <3>2, <3>3
  <2>6. ASSUME NEW a \in Accounts, NEW k \in Events \union Accounts,
               StartCycle(a, k) \/ StartCycleUnlessOpen(a, k)
        PROVE  NonNegativeWallet' /\ RolloverBacked'
    BY <2>6, StartCycleStep DEF NonNegativeWallet
  <2>7. ASSUME NEW e \in Events, DispatchGatewayEvent(e)
        PROVE  NonNegativeWallet' /\ RolloverBacked'
    <3> DEFINE a == EventAccount[e]
    <3>0. a \in Accounts
      BY BillingAssumption
    <3>1. ASSUME CheckoutCompleted(a, e) \/ SubscriptionRenewed(a, e)
          PROVE  NonNegativeWallet' /\ RolloverBacked'
      BY <2>6, <3>0, <3>1 DEF CheckoutCompleted, SubscriptionRenewed
    <3>2. ASSUME SubscriptionCancelled(a) \/ PaymentFailed(a)
          PROVE  NonNegativeWallet' /\ RolloverBacked'
      BY <2>0, <3>2 DEF SubscriptionCancelled, PaymentFailed
    <3> QED
      BY <2>5, <2>7, <3>0, <3>1, <3>2 DEF DispatchGatewayEvent
  <2>8. ASSUME NEW a \in Accounts,
               \/ EnsureBackendBillingSubscription(a)
               \/ TrialDeadline(a) \/ AccessDeadline(a) \/ SweepLapsedSubscriptions
        PROVE  NonNegativeWallet' /\ RolloverBacked'
    BY <2>0, <2>8 DEF EnsureBackendBillingSubscription, TrialDeadline, AccessDeadline,
       SweepLapsedSubscriptions
  <2>9. CASE SweepLapsedSubscriptions \/ UNCHANGED vars
    BY <2>0, <2>9 DEF SweepLapsedSubscriptions, vars
  <2>10. ASSUME NEW a \in Accounts, EnsureDefaultFreeSubscription(a)
         PROVE  NonNegativeWallet' /\ RolloverBacked'
    BY <2>6, <2>10 DEF EnsureDefaultFreeSubscription
  <2> QED
    BY <2>1, <2>2, <2>3, <2>4, <2>7, <2>8, <2>9, <2>10, BillingAssumption DEF Next
<1> QED
  BY <1>1, <1>2, TypeCorrect, PTL DEF Spec, WalletInv

(* No order of the operations overdraws an account.                        *)
THEOREM WalletNeverOverdrawn == Spec => []NonNegativeWallet
<1>1. WalletInv => NonNegativeWallet
  BY DEF WalletInv
<1> QED
  BY <1>1, WalletInvariant, PTL

(* Over any number of renewals rollover is covered by expiry.              *)
THEOREM RolloverNeverMints == Spec => []RolloverBacked
<1>1. WalletInv => RolloverBacked
  BY DEF WalletInv
<1> QED
  BY <1>1, WalletInvariant, PTL

-----------------------------------------------------------------------------
(* A generation is charged once and settled at most once.  The step that   *)
(* could break it is a reserve: it overwrites the reservation, so it must  *)
(* find none.  Its guard only asks for a fresh key; that the key of a      *)
(* reservation is always remembered is the strengthening.                  *)
ReservedIsRemembered ==
  \A g \in Generations : reservation[g].state # "none" => <<"reserve", g>> \in remembered

SettlementInv == TypeOK /\ SettledOnce /\ ReservedIsRemembered

\* Types, reservations and their entries, in every state.
LEMMA SettlementInvariant == Spec => []SettlementInv
<1>1. Init => SettledOnce /\ ReservedIsRemembered
  BY DEF Init, SettledOnce, ReservedIsRemembered, NoReservation
<1>2. TypeOK /\ SettledOnce /\ ReservedIsRemembered /\ [Next]_vars
        => SettledOnce' /\ ReservedIsRemembered'
  <2> SUFFICES ASSUME TypeOK, SettledOnce, ReservedIsRemembered, [Next]_vars
               PROVE  SettledOnce' /\ ReservedIsRemembered'
    OBVIOUS
  <2> USE DEF subscriptionVars, creditVars
  <2>0. ASSUME UNCHANGED <<entries, reservation>>, remembered \subseteq remembered'
        PROVE  SettledOnce' /\ ReservedIsRemembered'
    BY <2>0 DEF SettledOnce, ReservedIsRemembered
  <2>1. ASSUME NEW g \in Generations, NEW debit \in Prices, ReserveGenerationCredits(g, debit)
        PROVE  SettledOnce' /\ ReservedIsRemembered'
    <3>1. reservation[g].state = "none"
      BY <2>1 DEF ReserveGenerationCredits, FreshOperation, ReservedIsRemembered
    <3>2. /\ entries[g] \in EntryCounts
          /\ entries[g].reserve = 0 /\ entries[g].capture = 0 /\ entries[g].release = 0
      BY <3>1 DEF SettledOnce, TypeOK
    <3>3. /\ entries' = [entries EXCEPT ![g].reserve = entries[g].reserve + 1]
          /\ reservation' = [reservation EXCEPT ![g] = [state |-> "reserved", debit |-> debit]]
          /\ remembered' = remembered \union {<<"reserve", g>>}
      BY <2>1 DEF ReserveGenerationCredits, FreshOperation
    <3>4. /\ entries'[g].reserve = 1 /\ entries'[g].capture = 0 /\ entries'[g].release = 0
          /\ reservation'[g].state = "reserved"
      BY <3>2, <3>3 DEF TypeOK, EntryCounts
    <3>5. ASSUME NEW h \in Generations, h # g
          PROVE  entries'[h] = entries[h] /\ reservation'[h] = reservation[h]
      BY <3>3, <3>5 DEF TypeOK
    <3>6. SettledOnce'
      BY <3>4, <3>5 DEF SettledOnce
    <3>7. ReservedIsRemembered'
      BY <3>3, <3>5 DEF ReservedIsRemembered
    <3> QED
      BY <3>6, <3>7
  <2>2. ASSUME NEW g \in Generations, CaptureReservedCredits(g)
        PROVE  SettledOnce' /\ ReservedIsRemembered'
    <3>1. CASE reservation[g].state # "reserved"
      BY <2>0, <2>2, <3>1 DEF CaptureReservedCredits, FreshOperation
    <3>2. CASE reservation[g].state = "reserved"
      <4>1. /\ entries' = [entries EXCEPT ![g].capture = entries[g].capture + 1]
            /\ reservation' = [reservation EXCEPT ![g].state = "captured"]
            /\ remembered \subseteq remembered'
        BY <2>2, <3>2 DEF CaptureReservedCredits, FreshOperation
      <4>2. /\ entries[g] \in EntryCounts /\ reservation[g] \in Reservations
            /\ entries[g].reserve = 1 /\ entries[g].capture = 0 /\ entries[g].release = 0
        BY <3>2 DEF SettledOnce, TypeOK
      <4>3. /\ entries'[g].reserve = 1 /\ entries'[g].capture = 1 /\ entries'[g].release = 0
            /\ reservation'[g].state = "captured"
        BY <4>1, <4>2 DEF TypeOK, EntryCounts, Reservations
      <4>4. ASSUME NEW h \in Generations, h # g
            PROVE  entries'[h] = entries[h] /\ reservation'[h] = reservation[h]
        BY <4>1, <4>4 DEF TypeOK
      <4>5. SettledOnce'
        BY <4>3, <4>4 DEF SettledOnce
      <4>6. ReservedIsRemembered'
        BY <3>2, <4>1, <4>4 DEF ReservedIsRemembered
      <4> QED
        BY <4>5, <4>6
    <3> QED
      BY <3>1, <3>2
  <2>3. ASSUME NEW g \in Generations, NEW caller \in ReleaseCallers,
               ReleaseReservedCredits(g, caller)
        PROVE  SettledOnce' /\ ReservedIsRemembered'
    <3>1. CASE reservation[g].state # "reserved"
      BY <2>0, <2>3, <3>1 DEF ReleaseReservedCredits, FreshOperation
    <3>2. CASE reservation[g].state = "reserved"
      <4>1. /\ entries' = [entries EXCEPT ![g].release = entries[g].release + 1]
            /\ reservation' = [reservation EXCEPT ![g].state = "released"]
            /\ remembered \subseteq remembered'
        BY <2>3, <3>2 DEF ReleaseReservedCredits, FreshOperation
      <4>2. /\ entries[g] \in EntryCounts /\ reservation[g] \in Reservations
            /\ entries[g].reserve = 1 /\ entries[g].capture = 0 /\ entries[g].release = 0
        BY <3>2 DEF SettledOnce, TypeOK
      <4>3. /\ entries'[g].reserve = 1 /\ entries'[g].capture = 0 /\ entries'[g].release = 1
            /\ reservation'[g].state = "released"
        BY <4>1, <4>2 DEF TypeOK, EntryCounts, Reservations
      <4>4. ASSUME NEW h \in Generations, h # g
            PROVE  entries'[h] = entries[h] /\ reservation'[h] = reservation[h]
        BY <4>1, <4>4 DEF TypeOK
      <4>5. SettledOnce'
        BY <4>3, <4>4 DEF SettledOnce
      <4>6. ReservedIsRemembered'
        BY <3>2, <4>1, <4>4 DEF ReservedIsRemembered
      <4> QED
        BY <4>5, <4>6
    <3> QED
      BY <3>1, <3>2
  <2>4. ASSUME NEW a \in Accounts, NEW amount \in UsageAmounts, ConsumeCredits(a, amount)
        PROVE  SettledOnce' /\ ReservedIsRemembered'
    BY <2>0, <2>4 DEF ConsumeCredits
  <2>5. ASSUME NEW a \in Accounts, NEW e \in Events, PurchaseTopUp(a, e)
        PROVE  SettledOnce' /\ ReservedIsRemembered'
    BY <2>0, <2>5 DEF PurchaseTopUp, FreshOperation
  <2>6. ASSUME NEW a \in Accounts, NEW k \in Events \union Accounts,
               StartCycle(a, k) \/ StartCycleUnlessOpen(a, k)
        PROVE  remembered \subseteq remembered'
    BY <2>6 DEF StartCycle, StartCycleUnlessOpen, FreshOperation
  <2>7. ASSUME NEW e \in Events, DispatchGatewayEvent(e)
        PROVE  SettledOnce' /\ ReservedIsRemembered'
    <3> DEFINE a == EventAccount[e]
    <3>0. a \in Accounts
      BY BillingAssumption
    <3>1. ASSUME CheckoutCompleted(a, e) \/ SubscriptionRenewed(a, e)
          PROVE  SettledOnce' /\ ReservedIsRemembered'
      BY <2>0, <2>6, <3>0, <3>1 DEF CheckoutCompleted, SubscriptionRenewed
    <3>2. ASSUME SubscriptionCancelled(a) \/ PaymentFailed(a)
          PROVE  SettledOnce' /\ ReservedIsRemembered'
      BY <2>0, <3>2 DEF SubscriptionCancelled, PaymentFailed
    <3> QED
      BY <2>5, <2>7, <3>0, <3>1, <3>2 DEF DispatchGatewayEvent
  <2>8. ASSUME NEW a \in Accounts,
               \/ EnsureBackendBillingSubscription(a)
               \/ TrialDeadline(a) \/ AccessDeadline(a)
        PROVE  SettledOnce' /\ ReservedIsRemembered'
    BY <2>0, <2>8 DEF EnsureBackendBillingSubscription, TrialDeadline, AccessDeadline
  <2>9. CASE SweepLapsedSubscriptions \/ UNCHANGED vars
    BY <2>0, <2>9 DEF SweepLapsedSubscriptions, vars
  <2>10. ASSUME NEW a \in Accounts, EnsureDefaultFreeSubscription(a)
         PROVE  SettledOnce' /\ ReservedIsRemembered'
    BY <2>0, <2>6, <2>10 DEF EnsureDefaultFreeSubscription
  <2> QED
    BY <2>1, <2>2, <2>3, <2>4, <2>7, <2>8, <2>9, <2>10, BillingAssumption DEF Next
<1> QED
  BY <1>1, <1>2, TypeCorrect, PTL DEF Spec, SettlementInv

(* However a capture, a failure's release and a cancel's release are       *)
(* ordered, one generation has one debit and at most one settlement.       *)
THEOREM GenerationSettledOnce == Spec => []SettledOnce
<1>1. SettlementInv => SettledOnce
  BY DEF SettlementInv
<1> QED
  BY <1>1, SettlementInvariant, PTL

-----------------------------------------------------------------------------
(* A month is granted once per event.  The grant is counted against the    *)
(* set of remembered startCycle keys, so the proof follows one element at  *)
(* a time: a cycle that starts adds a fresh key to the months of its own   *)
(* account and to no other's, which needs the key of an account never to   *)
(* be an event's, and every other operation remembers a key of another     *)
(* kind.  That the months are finitely many is part of the invariant.      *)
MonthKeys(a, keys) ==
  {k \in Events \union Accounts :
     <<"startCycle", k>> \in keys /\ (k = a \/ (k \in Events /\ EventAccount[k] = a))}

MonthsFit(p, keys) ==
  \A a \in Accounts : /\ IsFiniteSet(MonthKeys(a, keys))
                      /\ p[a].grant_cycle = MonthlyCredits * Cardinality(MonthKeys(a, keys))

(* It is the property, with the months finite.                             *)
LEMMA MonthsFitIsMonthGranted ==
  MonthsFit(posted, remembered) => MonthGrantedOncePerEvent
BY DEF MonthsFit, MonthKeys, MonthGrantedOncePerEvent, MonthsGranted

(* One more key of an account is one more month.                           *)
LEMMA OneMoreMonth ==
  ASSUME NEW keys, NEW a \in Accounts, NEW k \in Events \union Accounts,
         k = a \/ (k \in Events /\ EventAccount[k] = a),
         <<"startCycle", k>> \notin keys,
         IsFiniteSet(MonthKeys(a, keys))
  PROVE  LET more == keys \union {<<"startCycle", k>>}
         IN  /\ IsFiniteSet(MonthKeys(a, more))
             /\ MonthlyCredits * Cardinality(MonthKeys(a, more))
                  = MonthlyCredits * Cardinality(MonthKeys(a, keys)) + MonthlyCredits
<1> DEFINE more == keys \union {<<"startCycle", k>>}
           before == MonthKeys(a, keys)
<1>1. MonthKeys(a, more) = before \union {k} /\ k \notin before
  BY DEF MonthKeys
<1>2. IsFiniteSet(before \union {k}) /\ Cardinality(before \union {k}) = Cardinality(before) + 1
  BY <1>1, FS_AddElement
<1>3. Cardinality(before) \in Nat
  BY FS_CardinalityType
<1> DEFINE n == Cardinality(before)
<1> HIDE DEF n
<1>4. MonthlyCredits * (n + 1) = MonthlyCredits * n + MonthlyCredits
  BY <1>3, BillingAssumption DEF n
<1> QED
  BY <1>1, <1>2, <1>4 DEF n

(* The months of another account do not move.                              *)
LEMMA SameMonths ==
  ASSUME NEW keys, NEW a \in Accounts, NEW b \in Accounts, a # b,
         NEW k \in Events \union Accounts,
         k = a \/ (k \in Events /\ EventAccount[k] = a)
  PROVE  MonthKeys(b, keys \union {<<"startCycle", k>>}) = MonthKeys(b, keys)
BY BillingAssumption DEF MonthKeys

(* Opening a cycle grants the one month its key stands for.                *)
LEMMA MonthOfStartCycle ==
  ASSUME TypeOK, MonthsFit(posted, remembered),
         NEW a \in Accounts, NEW k \in Events \union Accounts,
         k = a \/ (k \in Events /\ EventAccount[k] = a),
         StartCycle(a, k) \/ StartCycleUnlessOpen(a, k)
  PROVE  MonthsFit(posted', remembered')
<1>1. CASE UNCHANGED <<posted, cycleOpen, remembered>>
  BY <1>1
<1>2. CASE /\ FreshOperation(<<"startCycle", k>>)
           /\ posted' = [posted EXCEPT ![a] = StartCyclePostings(a)]
  <2>1. /\ <<"startCycle", k>> \notin remembered
        /\ remembered' = remembered \union {<<"startCycle", k>>}
    BY <1>2 DEF FreshOperation
  <2>2. posted'[a].grant_cycle = posted[a].grant_cycle + MonthlyCredits
    <3>1. posted'[a] = StartCyclePostings(a) /\ posted[a] \in Postings
      BY <1>2 DEF TypeOK
    <3>2. PICK left \in Nat, kept \in Nat :
             StartCyclePostings(a) =
                [posted[a] EXCEPT !.expire = posted[a].expire - left,
                                  !.grant_rollover = posted[a].grant_rollover + kept,
                                  !.grant_cycle = posted[a].grant_cycle + MonthlyCredits]
      BY CyclePostings
    <3> QED
      BY <3>1, <3>2 DEF Postings
  <2>3. ASSUME NEW b \in Accounts
        PROVE  /\ IsFiniteSet(MonthKeys(b, remembered'))
               /\ posted'[b].grant_cycle = MonthlyCredits * Cardinality(MonthKeys(b, remembered'))
    <3>1. CASE b = a
      BY <2>1, <2>2, <3>1, OneMoreMonth DEF MonthsFit
    <3>2. CASE b # a
      <4>1. posted'[b] = posted[b]
        BY <1>2, <3>2 DEF TypeOK
      <4> QED
        BY <2>1, <3>2, <4>1, SameMonths DEF MonthsFit
    <3> QED
      BY <3>1, <3>2
  <2> QED
    BY <2>3 DEF MonthsFit
<1> QED
  BY <1>1, <1>2 DEF StartCycle, StartCycleUnlessOpen

(* An operation of another kind grants no month.                           *)
LEMMA NoMonthOtherwise ==
  ASSUME MonthsFit(posted, remembered),
         \A a \in Accounts : posted'[a].grant_cycle = posted[a].grant_cycle,
         \A k \in Events \union Accounts :
            <<"startCycle", k>> \in remembered' <=> <<"startCycle", k>> \in remembered
  PROVE  MonthsFit(posted', remembered')
<1>1. ASSUME NEW a \in Accounts PROVE MonthKeys(a, remembered') = MonthKeys(a, remembered)
  BY DEF MonthKeys
<1> QED
  BY <1>1 DEF MonthsFit

(* However often and in whatever order the gateway redelivers its events,  *)
(* the months an account was granted are the events that start a cycle,    *)
(* each counted once, and its own first cycle.                             *)
THEOREM EachEventGrantsOneMonth == Spec => []MonthGrantedOncePerEvent
<1> DEFINE Fit == MonthsFit(posted, remembered)
<1>1. Init => Fit
  <2> SUFFICES ASSUME Init, NEW a \in Accounts
               PROVE  /\ IsFiniteSet(MonthKeys(a, remembered))
                      /\ posted[a].grant_cycle = MonthlyCredits * Cardinality(MonthKeys(a, remembered))
    BY DEF MonthsFit
  <2>1. MonthKeys(a, remembered) = {}
    BY DEF Init, MonthKeys
  <2>2. posted[a].grant_cycle = 0
    BY DEF Init, NoPostings
  <2> QED
    BY <2>1, <2>2, FS_EmptySet, BillingAssumption
<1>2. TypeOK /\ Fit /\ [Next]_vars => Fit'
  <2> SUFFICES ASSUME TypeOK, Fit, [Next]_vars PROVE MonthsFit(posted', remembered')
    OBVIOUS
  <2> USE DEF subscriptionVars, creditVars
  <2>0. ASSUME UNCHANGED <<posted, remembered>> PROVE MonthsFit(posted', remembered')
    BY <2>0
  <2>1. ASSUME NEW g \in Generations, NEW debit \in Prices, ReserveGenerationCredits(g, debit)
        PROVE  MonthsFit(posted', remembered')
    <3>1. \A a \in Accounts : posted'[a].grant_cycle = posted[a].grant_cycle
      BY <2>1, BillingAssumption DEF ReserveGenerationCredits, TypeOK, Postings
    <3>2. remembered' = remembered \union {<<"reserve", g>>}
      BY <2>1 DEF ReserveGenerationCredits, FreshOperation
    <3> QED
      BY <3>1, <3>2, NoMonthOtherwise
  <2>2. ASSUME NEW g \in Generations, CaptureReservedCredits(g)
        PROVE  MonthsFit(posted', remembered')
    <3>1. posted' = posted /\ remembered' = remembered \union {<<"capture", g>>}
      BY <2>2 DEF CaptureReservedCredits, FreshOperation
    <3> QED
      BY <3>1, NoMonthOtherwise
  <2>3. ASSUME NEW g \in Generations, NEW caller \in ReleaseCallers,
               ReleaseReservedCredits(g, caller)
        PROVE  MonthsFit(posted', remembered')
    <3>1. \A a \in Accounts : posted'[a].grant_cycle = posted[a].grant_cycle
      <4>1. CASE reservation[g].state # "reserved"
        BY <2>3, <4>1 DEF ReleaseReservedCredits
      <4>2. CASE reservation[g].state = "reserved"
        <5> DEFINE m == posted[Owner[g]].release + reservation[g].debit
        <5>1. posted' = [posted EXCEPT ![Owner[g]].release = m]
          BY <2>3, <4>2 DEF ReleaseReservedCredits
        <5> HIDE DEF m
        <5> QED
          BY <5>1, BillingAssumption DEF TypeOK, Postings
      <4> QED
        BY <4>1, <4>2
    <3>2. remembered' = remembered \union {<<"release", g, caller>>}
      BY <2>3 DEF ReleaseReservedCredits, FreshOperation
    <3> QED
      BY <3>1, <3>2, NoMonthOtherwise
  <2>4. ASSUME NEW a \in Accounts, NEW amount \in UsageAmounts, ConsumeCredits(a, amount)
        PROVE  MonthsFit(posted', remembered')
    <3>1. \A b \in Accounts : posted'[b].grant_cycle = posted[b].grant_cycle
      BY <2>4 DEF ConsumeCredits, TypeOK, Postings
    <3> QED
      BY <2>4, <3>1, NoMonthOtherwise DEF ConsumeCredits
  <2>5. ASSUME NEW a \in Accounts, NEW e \in Events, PurchaseTopUp(a, e)
        PROVE  MonthsFit(posted', remembered')
    <3>1. \A b \in Accounts : posted'[b].grant_cycle = posted[b].grant_cycle
      BY <2>5 DEF PurchaseTopUp, TypeOK, Postings
    <3>2. remembered' = remembered \union {<<"topup", e>>}
      BY <2>5 DEF PurchaseTopUp, FreshOperation
    <3> QED
      BY <3>1, <3>2, NoMonthOtherwise
  <2>6. ASSUME NEW a \in Accounts, EnsureDefaultFreeSubscription(a)
        PROVE  MonthsFit(posted', remembered')
    BY <2>6, MonthOfStartCycle DEF EnsureDefaultFreeSubscription
  <2>7. ASSUME NEW e \in Events, DispatchGatewayEvent(e)
        PROVE  MonthsFit(posted', remembered')
    <3> DEFINE a == EventAccount[e]
    <3>0. a \in Accounts
      BY BillingAssumption
    <3>1. ASSUME CheckoutCompleted(a, e) \/ SubscriptionRenewed(a, e)
          PROVE  MonthsFit(posted', remembered')
      <4>1. StartCycle(a, e) \/ StartCycleUnlessOpen(a, e)
        BY <3>1 DEF CheckoutCompleted, SubscriptionRenewed
      <4> QED
        BY <3>0, <4>1, MonthOfStartCycle
    <3>2. ASSUME SubscriptionCancelled(a) \/ PaymentFailed(a)
          PROVE  MonthsFit(posted', remembered')
      BY <2>0, <3>2 DEF SubscriptionCancelled, PaymentFailed
    <3> QED
      BY <2>5, <2>7, <3>0, <3>1, <3>2 DEF DispatchGatewayEvent
  <2>8. ASSUME NEW a \in Accounts,
               \/ EnsureBackendBillingSubscription(a)
               \/ TrialDeadline(a) \/ AccessDeadline(a)
        PROVE  MonthsFit(posted', remembered')
    BY <2>0, <2>8 DEF EnsureBackendBillingSubscription, TrialDeadline, AccessDeadline
  <2>9. CASE SweepLapsedSubscriptions \/ UNCHANGED vars
    BY <2>0, <2>9 DEF SweepLapsedSubscriptions, vars
  <2> QED
    BY <2>1, <2>2, <2>3, <2>4, <2>6, <2>7, <2>8, <2>9, BillingAssumption DEF Next
<1>3. Fit => MonthGrantedOncePerEvent
  BY MonthsFitIsMonthGranted
<1> QED
  BY <1>1, <1>2, <1>3, TypeCorrect, PTL DEF Spec

-----------------------------------------------------------------------------
(* Sums of debits over a finite set of generations, MapThenSumSet of the   *)
(* community modules.  What its recursion computes is shown here for every *)
(* finite set: the recursion has a solution, any two agree, and so the sum *)
(* of a set is any of its elements' debit and the sum of the rest.  Each   *)
(* proof takes a smallest set for which the fact would fail.               *)

(* A non-empty set of subsets of a finite set has a smallest one: what     *)
(* induction over a set's elements rests on below.                         *)
LEMMA SmallestSubset ==
  ASSUME NEW S, IsFiniteSet(S), NEW Bad \in SUBSET (SUBSET S), Bad # {}
  PROVE  \E T \in Bad : \A U \in Bad : ~(U \subseteq T /\ U # T)
<1>1. IsWellFoundedOn(StrictSubsetOrdering(S), SUBSET S)
  BY FS_StrictSubsetOrderingWellFounded, FS_FiniteSubsetsOfFinite
<1>2. PICK T \in Bad : \A U \in Bad : ~(<<U, T>> \in StrictSubsetOrdering(S))
  <2> HIDE DEF StrictSubsetOrdering
  <2> QED
    BY <1>1, WFMin
<1> QED
  BY <1>2 DEF StrictSubsetOrdering

Pick(s) == CHOOSE x \in s : TRUE

SumStep(r, h, s) == IF s = {} THEN 0 ELSE r[Pick(s)].debit + h[s \ {Pick(s)}]

Sums(r, S, h) == h = [s \in SUBSET S |-> SumStep(r, h, s)]

DebitSum(r, S) == (CHOOSE h : Sums(r, S, h))[S]

(* The sum the model takes is this one.                                    *)
LEMMA DebitSumIsSum ==
  ASSUME NEW r, NEW S
  PROVE  MapThenSumSet(LAMBDA g : r[g].debit, S) = DebitSum(r, S)
BY DEF MapThenSumSet, MapThenFoldSet, DebitSum, Sums, SumStep, Pick

(* Two solutions of the recursion agree where both are defined.            *)
LEMMA SumsAgree ==
  ASSUME NEW r, NEW S, IsFiniteSet(S), NEW h, Sums(r, S, h), NEW T, NEW k, Sums(r, T, k)
  PROVE  \A U \in SUBSET S : U \in SUBSET T => h[U] = k[U]
<1> DEFINE Bad == {U \in SUBSET S : U \in SUBSET T /\ h[U] # k[U]}
<1> SUFFICES ASSUME Bad # {} PROVE FALSE
  OBVIOUS
<1>1. PICK U \in Bad : \A V \in Bad : ~(V \subseteq U /\ V # U)
  <2> HIDE DEF Bad
  <2>1. Bad \in SUBSET (SUBSET S)
    BY DEF Bad
  <2> QED
    BY <2>1, SmallestSubset
<1>2. h[U] = SumStep(r, h, U) /\ k[U] = SumStep(r, k, U)
  BY DEF Sums
<1>3. U # {}
  BY <1>1, <1>2 DEF SumStep
<1>4. Pick(U) \in U
  BY <1>3 DEF Pick
<1>5. h[U \ {Pick(U)}] = k[U \ {Pick(U)}]
  BY <1>1, <1>4
<1> QED
  BY <1>1, <1>2, <1>3, <1>5 DEF SumStep

(* The sum is one step of the solution CHOOSE takes.                       *)
LEMMA SumOfSolution ==
  ASSUME NEW r, NEW U, NEW h, Sums(r, U, h)
  PROVE  DebitSum(r, U) = SumStep(r, CHOOSE k : Sums(r, U, k), U)
<1> DEFINE k == CHOOSE k : Sums(r, U, k)
<1>1. Sums(r, U, k)
  OBVIOUS
<1>2. DebitSum(r, U) = k[U]
  BY DEF DebitSum
<1> HIDE DEF k
<1>3. k[U] = SumStep(r, k, U)
  BY <1>1 DEF Sums
<1> QED
  BY <1>2, <1>3 DEF k

\* The recursion of a sum has a solution on every finite set.
LEMMA SumsExist ==
  ASSUME NEW r, NEW S, IsFiniteSet(S)
  PROVE  \E h : Sums(r, S, h)
<1> DEFINE Bad == {T \in SUBSET S : ~ \E h : Sums(r, T, h)}
<1> SUFFICES ASSUME Bad # {} PROVE FALSE
  OBVIOUS
<1>1. PICK T \in Bad : \A V \in Bad : ~(V \subseteq T /\ V # T)
  <2> HIDE DEF Bad
  <2>1. Bad \in SUBSET (SUBSET S)
    BY DEF Bad
  <2> QED
    BY <2>1, SmallestSubset
<1> DEFINE sol(U) == CHOOSE h : Sums(r, U, h)
<1>2. ASSUME NEW U \in SUBSET T, U # T PROVE Sums(r, U, sol(U)) /\ IsFiniteSet(U)
  <2>1. \E h : Sums(r, U, h)
    BY <1>1, <1>2
  <2> QED
    BY <2>1, FS_Subset
<1> DEFINE k == [s \in SUBSET T |->
                   IF s = {} THEN 0 ELSE r[Pick(s)].debit + DebitSum(r, s \ {Pick(s)})]
<1>3. ASSUME NEW U \in SUBSET T, U # T PROVE k[U] = DebitSum(r, U)
  <2>1. DebitSum(r, U) = SumStep(r, sol(U), U)
    BY <1>2, <1>3, SumOfSolution
  <2>2. CASE U = {}
    BY <2>1, <2>2 DEF SumStep
  <2>3. CASE U # {}
    <3> DEFINE V == U \ {Pick(U)}
    <3>1. Pick(U) \in U
      BY <2>3 DEF Pick
    <3>2. V \in SUBSET T /\ V # T /\ V \in SUBSET U
      BY <3>1
    <3>3. sol(U)[V] = sol(V)[V]
      BY <1>2, <1>3, <3>2, SumsAgree
    <3> QED
      BY <2>1, <2>3, <3>3 DEF SumStep, DebitSum
  <2> QED
    BY <2>2, <2>3
<1>4. ASSUME NEW s \in SUBSET T PROVE k[s] = SumStep(r, k, s)
  <2>1. CASE s = {}
    BY <2>1 DEF SumStep
  <2>2. CASE s # {}
    <3> DEFINE V == s \ {Pick(s)}
    <3>1. Pick(s) \in s
      BY <2>2 DEF Pick
    <3>2. V \in SUBSET T /\ V # T
      BY <3>1
    <3>3. k[V] = DebitSum(r, V)
      BY <1>3, <3>2
    <3> QED
      BY <2>2, <3>3 DEF SumStep
  <2> QED
    BY <2>1, <2>2
<1>5. Sums(r, T, k)
  <2>1. k = [s \in SUBSET T |-> k[s]]
    OBVIOUS
  <2> HIDE DEF k
  <2> QED
    BY <1>4, <2>1 DEF Sums
<1> QED
  BY <1>1, <1>5

(* So the sum can be taken apart at the element CHOOSE picks.              *)
LEMMA SumUnfolds ==
  ASSUME NEW r, NEW S, IsFiniteSet(S)
  PROVE  DebitSum(r, S) =
           IF S = {} THEN 0 ELSE r[Pick(S)].debit + DebitSum(r, S \ {Pick(S)})
<1> DEFINE sol(U) == CHOOSE h : Sums(r, U, h)
<1>1. ASSUME NEW U, IsFiniteSet(U) PROVE Sums(r, U, sol(U))
  BY <1>1, SumsExist
<1>2. DebitSum(r, S) = SumStep(r, sol(S), S)
  BY <1>1, SumOfSolution
<1>3. CASE S = {}
  BY <1>2, <1>3 DEF SumStep
<1>4. CASE S # {}
  <2> DEFINE V == S \ {Pick(S)}
  <2>1. IsFiniteSet(V) /\ V \in SUBSET S
    BY FS_RemoveElement
  <2>2. Sums(r, S, sol(S)) /\ Sums(r, V, sol(V))
    BY <1>1, <2>1
  <2>3. sol(S)[V] = sol(V)[V]
    <3> HIDE DEF sol
    <3> QED
      BY <2>1, <2>2, SumsAgree
  <2> QED
    BY <1>2, <1>4, <2>3 DEF SumStep, DebitSum
<1> QED
  BY <1>3, <1>4

(* A finite sum of integers is one.                                        *)
LEMMA SumIsInt ==
  ASSUME NEW r, NEW S, IsFiniteSet(S), \A x \in S : r[x].debit \in Int
  PROVE  DebitSum(r, S) \in Int
<1> DEFINE Bad == {T \in SUBSET S : DebitSum(r, T) \notin Int}
<1> SUFFICES ASSUME Bad # {} PROVE FALSE
  OBVIOUS
<1>1. PICK T \in Bad : \A V \in Bad : ~(V \subseteq T /\ V # T)
  <2> HIDE DEF Bad
  <2>1. Bad \in SUBSET (SUBSET S)
    BY DEF Bad
  <2> QED
    BY <2>1, SmallestSubset
<1>2. IsFiniteSet(T)
  BY FS_Subset
<1>3. T # {}
  <2>1. DebitSum(r, {}) = 0
    BY FS_EmptySet, SumUnfolds
  <2>2. DebitSum(r, {}) \in Int
    BY <2>1
  <2>3. DebitSum(r, T) \notin Int
    BY <1>1
  <2> QED
    BY <2>2, <2>3, Zenon
<1>4. Pick(T) \in T
  BY <1>3 DEF Pick
<1>5. DebitSum(r, T \ {Pick(T)}) \in Int
  BY <1>1, <1>4
<1>6. DebitSum(r, T) = r[Pick(T)].debit + DebitSum(r, T \ {Pick(T)})
  BY <1>2, <1>3, SumUnfolds
<1> QED
  BY <1>4, <1>5, <1>6

(* And at any other element, whichever CHOOSE picks.                       *)
LEMMA SumTakesApart ==
  ASSUME NEW r, NEW S, IsFiniteSet(S), \A x \in S : r[x].debit \in Int, NEW e \in S
  PROVE  DebitSum(r, S) = r[e].debit + DebitSum(r, S \ {e})
<1> DEFINE Bad == {T \in SUBSET S :
                     \E x \in T : DebitSum(r, T) # r[x].debit + DebitSum(r, T \ {x})}
<1> SUFFICES ASSUME Bad # {} PROVE FALSE
  OBVIOUS
<1>1. PICK T \in Bad : \A V \in Bad : ~(V \subseteq T /\ V # T)
  <2> HIDE DEF Bad
  <2>1. Bad \in SUBSET (SUBSET S)
    BY DEF Bad
  <2> QED
    BY <2>1, SmallestSubset
<1>2. PICK x \in T : DebitSum(r, T) # r[x].debit + DebitSum(r, T \ {x})
  OBVIOUS
<1> DEFINE c == Pick(T)
<1>3. c \in T /\ IsFiniteSet(T)
  BY <1>2, FS_Subset DEF Pick
<1>4. DebitSum(r, T) = r[c].debit + DebitSum(r, T \ {c})
  BY <1>3, SumUnfolds
<1>5. c # x
  BY <1>2, <1>4
<1> HIDE DEF c
<1> DEFINE W == T \ {c, x}
<1>6. DebitSum(r, T \ {c}) = r[x].debit + DebitSum(r, W)
  <2>1. T \ {c} \in SUBSET S /\ T \ {c} \notin Bad /\ x \in T \ {c}
    BY <1>1, <1>2, <1>3, <1>5
  <2>2. (T \ {c}) \ {x} = W
    OBVIOUS
  <2> QED
    BY <2>1, <2>2
<1>7. DebitSum(r, T \ {x}) = r[c].debit + DebitSum(r, W)
  <2>1. T \ {x} \in SUBSET S /\ T \ {x} \notin Bad /\ c \in T \ {x}
    BY <1>1, <1>2, <1>3, <1>5
  <2>2. (T \ {x}) \ {c} = W
    OBVIOUS
  <2> QED
    BY <2>1, <2>2
<1>8. DebitSum(r, W) \in Int
  <2>1. IsFiniteSet(W) /\ W \in SUBSET S
    BY FS_Subset
  <2> QED
    BY <2>1, SumIsInt
<1>9. r[c].debit \in Int /\ r[x].debit \in Int
  BY <1>2, <1>3
<1> QED
  BY <1>2, <1>4, <1>6, <1>7, <1>8, <1>9

(* One more element adds its debit.                                        *)
LEMMA SumAdds ==
  ASSUME NEW r, NEW S, IsFiniteSet(S), NEW e, e \notin S,
         \A x \in S \union {e} : r[x].debit \in Int
  PROVE  DebitSum(r, S \union {e}) = r[e].debit + DebitSum(r, S)
<1>1. IsFiniteSet(S \union {e})
  BY FS_AddElement
<1>2. (S \union {e}) \ {e} = S /\ e \in S \union {e}
  OBVIOUS
<1> HIDE DEF DebitSum
<1> QED
  BY <1>1, <1>2, SumTakesApart

(* The sum only depends on the debits of the set's elements.               *)
LEMMA SumCongruent ==
  ASSUME NEW r, NEW q, NEW S, IsFiniteSet(S), \A x \in S : r[x].debit = q[x].debit
  PROVE  DebitSum(r, S) = DebitSum(q, S)
<1> DEFINE Bad == {T \in SUBSET S : DebitSum(r, T) # DebitSum(q, T)}
<1> SUFFICES ASSUME Bad # {} PROVE FALSE
  OBVIOUS
<1>1. PICK T \in Bad : \A V \in Bad : ~(V \subseteq T /\ V # T)
  <2> HIDE DEF Bad
  <2>1. Bad \in SUBSET (SUBSET S)
    BY DEF Bad
  <2> QED
    BY <2>1, SmallestSubset
<1>2. IsFiniteSet(T)
  BY FS_Subset
<1>3. T # {}
  BY <1>1, <1>2, SumUnfolds
<1>4. Pick(T) \in T
  BY <1>3 DEF Pick
<1>5. DebitSum(r, T \ {Pick(T)}) = DebitSum(q, T \ {Pick(T)})
  BY <1>1, <1>4
<1>6. /\ DebitSum(r, T) = r[Pick(T)].debit + DebitSum(r, T \ {Pick(T)})
      /\ DebitSum(q, T) = q[Pick(T)].debit + DebitSum(q, T \ {Pick(T)})
  BY <1>2, <1>3, SumUnfolds
<1> QED
  BY <1>1, <1>4, <1>5, <1>6

-----------------------------------------------------------------------------
(* What the ledger owes and what the usage records say, as a formula over  *)
(* the postings, the usage and the reservations it relates.                *)
InState(a, r, s) == {g \in Generations : Owner[g] = a /\ r[g].state = s}

LedgerFits(p, u, r) ==
  \A a \in Accounts :
    /\ IsFiniteSet(InState(a, r, "reserved"))
    /\ IsFiniteSet(InState(a, r, "captured"))
    /\ -(p[a].reserve + p[a].release)
         = DebitSum(r, InState(a, r, "reserved")) + DebitSum(r, InState(a, r, "captured"))
    /\ u[a] = DebitSum(r, InState(a, r, "captured")) - p[a].capture

(* It is the property, with the sets finite.                               *)
LEMMA LedgerFitsIsLedgerMatches ==
  LedgerFits(posted, usage, reservation) => LedgerMatchesReservations
<1>1. ASSUME NEW a \in Accounts
      PROVE  /\ ReservedCredits(a) = DebitSum(reservation, InState(a, reservation, "reserved"))
             /\ CapturedCredits(a) = DebitSum(reservation, InState(a, reservation, "captured"))
  <2>1. ReservedCredits(a) =
          MapThenSumSet(LAMBDA g : reservation[g].debit, InState(a, reservation, "reserved"))
    BY DEF ReservedCredits, InState
  <2>2. CapturedCredits(a) =
          MapThenSumSet(LAMBDA g : reservation[g].debit, InState(a, reservation, "captured"))
    BY DEF CapturedCredits, InState
  <2> QED
    BY <2>1, <2>2, DebitSumIsSum
<1> QED
  BY <1>1 DEF LedgerFits, LedgerMatchesReservations

(* A generation that changes state leaves one set and enters another.      *)
LEMMA StateMoves ==
  ASSUME NEW r, NEW q, NEW a \in Accounts, NEW g \in Generations, NEW s,
         \A h \in Generations : h # g => q[h] = r[h],
         \A h \in Generations : r[h].debit \in Int /\ q[h].debit \in Int,
         IsFiniteSet(InState(a, r, s))
  PROVE  /\ IsFiniteSet(InState(a, q, s))
         /\ DebitSum(r, InState(a, r, s)) \in Int
         /\ Owner[g] # a => DebitSum(q, InState(a, q, s)) = DebitSum(r, InState(a, r, s))
         /\ r[g].state # s /\ q[g].state # s
              => DebitSum(q, InState(a, q, s)) = DebitSum(r, InState(a, r, s))
         /\ Owner[g] = a /\ r[g].state # s /\ q[g].state = s
              => DebitSum(q, InState(a, q, s)) = DebitSum(r, InState(a, r, s)) + q[g].debit
         /\ Owner[g] = a /\ r[g].state = s /\ q[g].state # s
              => DebitSum(q, InState(a, q, s)) = DebitSum(r, InState(a, r, s)) - r[g].debit
<1> DEFINE before == InState(a, r, s)
           after == InState(a, q, s)
           rest == before \ {g}
<1>1. before \subseteq Generations /\ after \subseteq Generations
  BY DEF InState
<1>2. after = rest \/ after = rest \union {g}
  BY DEF InState
<1>3. before = rest \/ before = rest \union {g}
  BY DEF InState
<1>4. IsFiniteSet(rest) /\ IsFiniteSet(before) /\ g \notin rest
  BY FS_RemoveElement
<1>5. IsFiniteSet(after)
  <2>1. IsFiniteSet(rest \union {g})
    <3> HIDE DEF rest
    <3> QED
      BY <1>4, FS_AddElement
  <2> HIDE DEF after, rest
  <2> QED
    BY <1>2, <1>4, <2>1
<1>6. DebitSum(r, rest) \in Int /\ DebitSum(r, before) \in Int
  BY <1>1, <1>4, SumIsInt
<1>7. DebitSum(q, rest) = DebitSum(r, rest)
  BY <1>1, <1>4, SumCongruent
<1>8. /\ DebitSum(r, rest \union {g}) = r[g].debit + DebitSum(r, rest)
      /\ DebitSum(q, rest \union {g}) = q[g].debit + DebitSum(q, rest)
  <2>1. \A x \in rest \union {g} : r[x].debit \in Int /\ q[x].debit \in Int
    BY <1>1
  <2> HIDE DEF rest
  <2> QED
    BY <1>4, <2>1, SumAdds
<1>9. /\ g \in before <=> Owner[g] = a /\ r[g].state = s
      /\ g \in after <=> Owner[g] = a /\ q[g].state = s
  BY DEF InState
<1> HIDE DEF before, after, rest
<1>10. /\ g \in before => DebitSum(r, before) = r[g].debit + DebitSum(r, rest)
       /\ g \notin before => DebitSum(r, before) = DebitSum(r, rest)
       /\ g \in after => DebitSum(q, after) = q[g].debit + DebitSum(r, rest)
       /\ g \notin after => DebitSum(q, after) = DebitSum(r, rest)
  BY <1>2, <1>3, <1>4, <1>7, <1>8
<1>11. r[g].debit \in Int /\ q[g].debit \in Int
  OBVIOUS
<1>12. /\ g \notin before /\ g \notin after => DebitSum(q, after) = DebitSum(r, before)
       /\ g \notin before /\ g \in after
            => DebitSum(q, after) = DebitSum(r, before) + q[g].debit
       /\ g \in before /\ g \notin after
            => DebitSum(q, after) = DebitSum(r, before) - r[g].debit
  BY <1>6, <1>10, <1>11
<1> QED
  BY <1>5, <1>6, <1>9, <1>12 DEF before, after

(* No refund is lost, doubled or paid at another price than the one that   *)
(* was reserved: in every state the credits debited and not given back are *)
(* the debits of the open reservations and of the captured generations.    *)
(* It needs that a reserve finds no reservation it would overwrite.        *)
THEOREM LedgerAccountsForReservations == Spec => []LedgerMatchesReservations
<1> DEFINE Fit == LedgerFits(posted, usage, reservation)
<1>1. Init => Fit
  <2> SUFFICES ASSUME Init PROVE LedgerFits(posted, usage, reservation)
    OBVIOUS
  <2>1. ASSUME NEW a \in Accounts
        PROVE  InState(a, reservation, "reserved") = {} /\ InState(a, reservation, "captured") = {}
    BY DEF Init, NoReservation, InState
  <2>2. IsFiniteSet({}) /\ DebitSum(reservation, {}) = 0
    BY FS_EmptySet, SumUnfolds
  <2>3. ASSUME NEW a \in Accounts
        PROVE  posted[a].reserve = 0 /\ posted[a].release = 0 /\ posted[a].capture = 0 /\ usage[a] = 0
    BY DEF Init, NoPostings
  <2> QED
    BY <2>1, <2>2, <2>3 DEF LedgerFits
<1>2. SettlementInv /\ Fit /\ [Next]_vars => Fit'
  <2> SUFFICES ASSUME SettlementInv, Fit, [Next]_vars
               PROVE  LedgerFits(posted', usage', reservation')
    OBVIOUS
  <2> USE DEF subscriptionVars, creditVars
  <2>T. TypeOK /\ ReservedIsRemembered
    BY DEF SettlementInv
  <2>0. ASSUME UNCHANGED <<usage, reservation>>,
               \A a \in Accounts : /\ posted'[a].reserve = posted[a].reserve
                                   /\ posted'[a].release = posted[a].release
                                   /\ posted'[a].capture = posted[a].capture
        PROVE  LedgerFits(posted', usage', reservation')
    BY <2>0 DEF LedgerFits
  <2>D. \A h \in Generations : reservation[h].debit \in Int
    BY <2>T DEF TypeOK, Reservations
  <2>1. ASSUME NEW g \in Generations, NEW debit \in Prices, ReserveGenerationCredits(g, debit)
        PROVE  LedgerFits(posted', usage', reservation')
    <3>1. reservation[g].state = "none"
      BY <2>1, <2>T DEF ReserveGenerationCredits, FreshOperation, ReservedIsRemembered
    <3>2. /\ reservation'[g].state = "reserved" /\ reservation'[g].debit = debit
          /\ debit \in Int
          /\ \A h \in Generations : h # g => reservation'[h] = reservation[h]
      BY <2>1, <2>T, BillingAssumption DEF ReserveGenerationCredits, TypeOK
    <3>3. \A h \in Generations : reservation'[h].debit \in Int
      BY <3>2, <2>D
    <3>4. ASSUME NEW a \in Accounts
          PROVE  /\ posted'[a].reserve =
                      IF a = Owner[g] THEN posted[a].reserve - debit ELSE posted[a].reserve
                 /\ posted'[a].release = posted[a].release
                 /\ posted'[a].capture = posted[a].capture
                 /\ posted[a].reserve \in Int /\ posted[a].release \in Int
                 /\ usage'[a] = usage[a]
      BY <2>1, <2>T DEF ReserveGenerationCredits, TypeOK, Postings
    <3>5. ASSUME NEW a \in Accounts
          PROVE  /\ IsFiniteSet(InState(a, reservation', "reserved"))
                 /\ IsFiniteSet(InState(a, reservation', "captured"))
                 /\ DebitSum(reservation, InState(a, reservation, "reserved")) \in Int
                 /\ DebitSum(reservation, InState(a, reservation, "captured")) \in Int
                 /\ DebitSum(reservation', InState(a, reservation', "captured"))
                      = DebitSum(reservation, InState(a, reservation, "captured"))
                 /\ DebitSum(reservation', InState(a, reservation', "reserved"))
                      = IF a = Owner[g]
                        THEN DebitSum(reservation, InState(a, reservation, "reserved")) + debit
                        ELSE DebitSum(reservation, InState(a, reservation, "reserved"))
      BY <2>D, <3>1, <3>2, <3>3, StateMoves, SMTT(30) DEF LedgerFits
    <3> QED
      BY <3>2, <3>4, <3>5 DEF LedgerFits
  <2>2. ASSUME NEW g \in Generations, CaptureReservedCredits(g)
        PROVE  LedgerFits(posted', usage', reservation')
    <3>1. CASE reservation[g].state # "reserved"
      BY <2>0, <2>2, <3>1 DEF CaptureReservedCredits
    <3>2. CASE reservation[g].state = "reserved"
      <4>1. /\ reservation' = [reservation EXCEPT ![g].state = "captured"]
            /\ usage' = [usage EXCEPT ![Owner[g]] = usage[Owner[g]] + reservation[g].debit]
            /\ posted' = posted
        BY <2>2, <3>2 DEF CaptureReservedCredits
      <4>2. /\ reservation'[g].state = "captured" /\ reservation'[g].debit = reservation[g].debit
            /\ \A h \in Generations : h # g => reservation'[h] = reservation[h]
        BY <4>1, <2>T DEF TypeOK, Reservations
      <4>3. \A h \in Generations : reservation'[h].debit \in Int
        BY <4>2, <2>D
      <4>4. ASSUME NEW a \in Accounts
            PROVE  /\ posted'[a] = posted[a]
                   /\ posted[a].capture \in Int
                   /\ usage'[a] = IF a = Owner[g] THEN usage[a] + reservation[g].debit ELSE usage[a]
        BY <4>1, <2>T DEF TypeOK, Postings
      <4>5. ASSUME NEW a \in Accounts
            PROVE  /\ IsFiniteSet(InState(a, reservation', "reserved"))
                   /\ IsFiniteSet(InState(a, reservation', "captured"))
                   /\ DebitSum(reservation, InState(a, reservation, "reserved")) \in Int
                   /\ DebitSum(reservation, InState(a, reservation, "captured")) \in Int
                   /\ a = Owner[g] =>
                        /\ DebitSum(reservation', InState(a, reservation', "reserved"))
                             = DebitSum(reservation, InState(a, reservation, "reserved"))
                                 - reservation[g].debit
                        /\ DebitSum(reservation', InState(a, reservation', "captured"))
                             = DebitSum(reservation, InState(a, reservation, "captured"))
                                 + reservation[g].debit
                   /\ a # Owner[g] =>
                        /\ DebitSum(reservation', InState(a, reservation', "reserved"))
                             = DebitSum(reservation, InState(a, reservation, "reserved"))
                        /\ DebitSum(reservation', InState(a, reservation', "captured"))
                             = DebitSum(reservation, InState(a, reservation, "captured"))
        BY <2>D, <3>2, <4>2, <4>3, StateMoves DEF LedgerFits
      <4> QED
        BY <2>D, <4>4, <4>5 DEF LedgerFits
    <3> QED
      BY <3>1, <3>2
  <2>3. ASSUME NEW g \in Generations, NEW caller \in ReleaseCallers,
               ReleaseReservedCredits(g, caller)
        PROVE  LedgerFits(posted', usage', reservation')
    <3>1. CASE reservation[g].state # "reserved"
      BY <2>0, <2>3, <3>1 DEF ReleaseReservedCredits
    <3>2. CASE reservation[g].state = "reserved"
      <4>1. /\ reservation' = [reservation EXCEPT ![g].state = "released"]
            /\ usage' = usage
        BY <2>3, <3>2 DEF ReleaseReservedCredits
      <4>2. /\ reservation'[g].state = "released" /\ reservation'[g].debit = reservation[g].debit
            /\ \A h \in Generations : h # g => reservation'[h] = reservation[h]
        BY <4>1, <2>T DEF TypeOK, Reservations
      <4>3. \A h \in Generations : reservation'[h].debit \in Int
        BY <4>2, <2>D
      <4>4. ASSUME NEW a \in Accounts
            PROVE  /\ posted'[a].reserve = posted[a].reserve
                   /\ posted'[a].capture = posted[a].capture
                   /\ posted[a].reserve \in Int /\ posted[a].release \in Int
                   /\ posted'[a].release =
                        IF a = Owner[g] THEN posted[a].release + reservation[g].debit
                                        ELSE posted[a].release
        <5> DEFINE m == posted[Owner[g]].release + reservation[g].debit
        <5>1. posted' = [posted EXCEPT ![Owner[g]].release = m]
          BY <2>3, <3>2 DEF ReleaseReservedCredits
        <5> HIDE DEF m
        <5>2. /\ posted'[a].reserve = posted[a].reserve
              /\ posted'[a].capture = posted[a].capture
              /\ posted[a].reserve \in Int /\ posted[a].release \in Int
              /\ posted'[a].release = IF a = Owner[g] THEN m ELSE posted[a].release
          BY <5>1, <2>T DEF TypeOK, Postings
        <5> QED
          BY <5>2 DEF m
      <4>5. ASSUME NEW a \in Accounts
            PROVE  /\ IsFiniteSet(InState(a, reservation', "reserved"))
                   /\ IsFiniteSet(InState(a, reservation', "captured"))
                   /\ DebitSum(reservation, InState(a, reservation, "reserved")) \in Int
                   /\ DebitSum(reservation, InState(a, reservation, "captured")) \in Int
                   /\ DebitSum(reservation', InState(a, reservation', "captured"))
                        = DebitSum(reservation, InState(a, reservation, "captured"))
                   /\ DebitSum(reservation', InState(a, reservation', "reserved"))
                        = IF a = Owner[g]
                          THEN DebitSum(reservation, InState(a, reservation, "reserved"))
                                 - reservation[g].debit
                          ELSE DebitSum(reservation, InState(a, reservation, "reserved"))
        BY <2>D, <3>2, <4>2, <4>3, StateMoves DEF LedgerFits
      <4>6. ASSUME NEW a \in Accounts
            PROVE  -(posted'[a].reserve + posted'[a].release)
                     = DebitSum(reservation', InState(a, reservation', "reserved"))
                         + DebitSum(reservation', InState(a, reservation', "captured"))
        <5>1. -(posted[a].reserve + posted[a].release)
                = DebitSum(reservation, InState(a, reservation, "reserved"))
                    + DebitSum(reservation, InState(a, reservation, "captured"))
          BY DEF LedgerFits
        <5>2. CASE a = Owner[g]
          BY <2>D, <4>4, <4>5, <5>1, <5>2
        <5>3. CASE a # Owner[g]
          BY <4>4, <4>5, <5>1, <5>3
        <5> QED
          BY <5>2, <5>3
      <4>7. ASSUME NEW a \in Accounts
            PROVE  usage'[a] = DebitSum(reservation', InState(a, reservation', "captured"))
                                 - posted'[a].capture
        BY <4>1, <4>4, <4>5 DEF LedgerFits
      <4> QED
        BY <4>5, <4>6, <4>7 DEF LedgerFits
    <3> QED
      BY <3>1, <3>2
  <2>4. ASSUME NEW a \in Accounts, NEW amount \in UsageAmounts, ConsumeCredits(a, amount)
        PROVE  LedgerFits(posted', usage', reservation')
    <3>1. reservation' = reservation /\ amount \in Nat
      BY <2>4, BillingAssumption DEF ConsumeCredits
    <3>2. ASSUME NEW b \in Accounts
          PROVE  /\ posted'[b].reserve = posted[b].reserve
                 /\ posted'[b].release = posted[b].release
                 /\ posted[b].capture \in Int
                 /\ posted'[b].capture =
                      IF b = a THEN posted[b].capture - amount ELSE posted[b].capture
                 /\ usage'[b] = IF b = a THEN usage[b] + amount ELSE usage[b]
      BY <2>4, <2>T DEF ConsumeCredits, TypeOK, Postings
    <3>3. ASSUME NEW b \in Accounts
          PROVE  DebitSum(reservation, InState(b, reservation, "captured")) \in Int
      BY <2>D, SumIsInt DEF LedgerFits, InState
    <3> QED
      BY <3>1, <3>2, <3>3 DEF LedgerFits
  <2>5. ASSUME NEW a \in Accounts, NEW e \in Events, PurchaseTopUp(a, e)
        PROVE  LedgerFits(posted', usage', reservation')
    <3>1. \A b \in Accounts : /\ posted'[b].reserve = posted[b].reserve
                              /\ posted'[b].release = posted[b].release
                              /\ posted'[b].capture = posted[b].capture
      BY <2>5, <2>T DEF PurchaseTopUp, TypeOK, Postings
    <3> QED
      BY <2>0, <2>5, <3>1 DEF PurchaseTopUp
  <2>6. ASSUME NEW a \in Accounts, NEW k \in Events \union Accounts,
               StartCycle(a, k) \/ StartCycleUnlessOpen(a, k)
        PROVE  \A b \in Accounts : /\ posted'[b].reserve = posted[b].reserve
                                   /\ posted'[b].release = posted[b].release
                                   /\ posted'[b].capture = posted[b].capture
    <3>1. CASE posted' = posted
      BY <3>1
    <3>2. CASE posted' = [posted EXCEPT ![a] = StartCyclePostings(a)]
      <4>1. PICK left \in Nat, kept \in Nat :
               StartCyclePostings(a) =
                  [posted[a] EXCEPT !.expire = posted[a].expire - left,
                                    !.grant_rollover = posted[a].grant_rollover + kept,
                                    !.grant_cycle = posted[a].grant_cycle + MonthlyCredits]
        BY <2>T, CyclePostings
      <4>2. posted[a] \in Postings
        BY <2>T DEF TypeOK
      <4>3. /\ StartCyclePostings(a).reserve = posted[a].reserve
            /\ StartCyclePostings(a).release = posted[a].release
            /\ StartCyclePostings(a).capture = posted[a].capture
        BY <4>1, <4>2 DEF Postings
      <4> QED
        BY <3>2, <4>3, <2>T DEF TypeOK
    <3> QED
      BY <2>6, <3>1, <3>2 DEF StartCycle, StartCycleUnlessOpen
  <2>7. ASSUME NEW e \in Events, DispatchGatewayEvent(e)
        PROVE  LedgerFits(posted', usage', reservation')
    <3> DEFINE a == EventAccount[e]
    <3>0. a \in Accounts
      BY BillingAssumption
    <3>1. ASSUME CheckoutCompleted(a, e) \/ SubscriptionRenewed(a, e)
          PROVE  LedgerFits(posted', usage', reservation')
      <4>1. StartCycle(a, e) \/ StartCycleUnlessOpen(a, e)
        BY <3>1 DEF CheckoutCompleted, SubscriptionRenewed
      <4>2. UNCHANGED <<usage, reservation>>
        BY <3>1 DEF CheckoutCompleted, SubscriptionRenewed
      <4> HIDE DEF a
      <4> QED
        BY <2>0, <2>6, <3>0, <4>1, <4>2
    <3>2. ASSUME SubscriptionCancelled(a) \/ PaymentFailed(a)
          PROVE  LedgerFits(posted', usage', reservation')
      BY <2>0, <3>2 DEF SubscriptionCancelled, PaymentFailed
    <3> QED
      BY <2>5, <2>7, <3>0, <3>1, <3>2 DEF DispatchGatewayEvent
  <2>8. ASSUME NEW a \in Accounts,
               \/ EnsureBackendBillingSubscription(a)
               \/ TrialDeadline(a) \/ AccessDeadline(a)
        PROVE  LedgerFits(posted', usage', reservation')
    BY <2>0, <2>8 DEF EnsureBackendBillingSubscription, TrialDeadline, AccessDeadline
  <2>9. CASE SweepLapsedSubscriptions \/ UNCHANGED vars
    BY <2>0, <2>9 DEF SweepLapsedSubscriptions, vars
  <2>10. ASSUME NEW a \in Accounts, EnsureDefaultFreeSubscription(a)
         PROVE  LedgerFits(posted', usage', reservation')
    BY <2>0, <2>6, <2>10 DEF EnsureDefaultFreeSubscription
  <2> QED
    BY <2>1, <2>2, <2>3, <2>4, <2>7, <2>8, <2>9, <2>10, BillingAssumption DEF Next
<1>3. Fit => LedgerMatchesReservations
  BY LedgerFitsIsLedgerMatches
<1> QED
  BY <1>1, <1>2, <1>3, SettlementInvariant, PTL DEF Spec

=============================================================================
