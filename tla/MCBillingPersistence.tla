------------------------ MODULE MCBillingPersistence ------------------------
(***************************************************************************)
(* Small instances of BillingPersistence: one job of a request that        *)
(* carries no key, or two jobs whose requests carry one key (what a client *)
(* that retries sends).                                                    *)
(***************************************************************************)
EXTENDS BillingPersistence, TLC

CONSTANT k1

SharedKey == [j \in Jobs |-> k1]
Keyless == [j \in Jobs |-> NoKey]

Interchangeable == Permutations(Requests)

=============================================================================
