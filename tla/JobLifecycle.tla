---------------------------- MODULE JobLifecycle ----------------------------
(***************************************************************************)
(* What a client of the job store is promised: a job is queued, then runs, *)
(* then settles once in one of its terminal statuses, and the event stream *)
(* announces that status and no other.                                     *)
(***************************************************************************)
CONSTANT Jobs

VARIABLES
  row,        \* status of each job, "none" before it is enqueued
  announced   \* terminal events published for each job

vars == <<row, announced>>

Active == {"queued", "running"}
Terminal == {"done", "failed", "cancelled"}
Statuses == {"none"} \union Active \union Terminal
TerminalEvents == {"done", "error", "cancelled"}

EventOf == [done |-> "done", failed |-> "error", cancelled |-> "cancelled"]

Init ==
  /\ row = [j \in Jobs |-> "none"]
  /\ announced = [j \in Jobs |-> {}]

Enqueue(j) ==
  /\ row[j] = "none"
  /\ row' = [row EXCEPT ![j] = "queued"]
  /\ UNCHANGED announced

Claim(j) ==
  /\ row[j] = "queued"
  /\ row' = [row EXCEPT ![j] = "running"]
  /\ UNCHANGED announced

Settle(j, outcome) ==
  /\ row[j] \in Active
  /\ row' = [row EXCEPT ![j] = outcome]
  /\ UNCHANGED announced

Announce(j) ==
  /\ row[j] \in Terminal
  /\ announced' = [announced EXCEPT ![j] = @ \union {EventOf[row[j]]}]
  /\ UNCHANGED row

Next ==
  \E j \in Jobs :
    \/ Enqueue(j)
    \/ Claim(j)
    \/ \E outcome \in Terminal : Settle(j, outcome)
    \/ Announce(j)

Spec == Init /\ [][Next]_vars

=============================================================================
