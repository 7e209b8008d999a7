------------------------- MODULE MCBillingService -------------------------
(***************************************************************************)
(* Small instances of BillingService: one account, two generations at two  *)
(* prices, and an event of every kind, each of them deliverable again      *)
(* after any other.                                                        *)
(***************************************************************************)
EXTENDS BillingService, TLC

CONSTANTS a1, g1, g2, checkout, renewal, cancellation, overdue, topup

Interchangeable == Permutations({g1, g2})

MCOwner == [g \in Generations |-> a1]
MCEventAccount == [e \in Events |-> a1]
MCEventKind ==
  [e \in Events |->
     CASE e = checkout     -> "checkout.completed"
       [] e = renewal      -> "subscription.renewed"
       [] e = cancellation -> "subscription.cancelled"
       [] e = overdue      -> "payment.failed"
       [] e = topup        -> "topup"]

=============================================================================
