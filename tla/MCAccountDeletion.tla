--------------------------- MODULE MCAccountDeletion ---------------------------
(***************************************************************************)
(* Small instances of AccountDeletion: the events are the jobs' executions *)
(* and the deletion of the user's identity.                                *)
(***************************************************************************)
EXTENDS AccountDeletion

AccountEvents == {Execution(j) : j \in Jobs} \union {Auth0Delete}

=============================================================================
