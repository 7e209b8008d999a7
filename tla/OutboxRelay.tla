------------------------------ MODULE OutboxRelay ------------------------------
(***************************************************************************)
(* The transactional outbox: a row of outbox_events commits with the       *)
(* change it is about, and a relay in every process that runs the durable  *)
(* runtime lists the oldest unpublished rows, does what each asks for (put *)
(* an execution on the queue, delete an identity at Auth0) and then marks  *)
(* it published.  The row locks of the list's select end with the          *)
(* statement, so two relays may hold the same row.                         *)
(*                                                                         *)
(* Abstractions.  occurred_at orders the rows as they were inserted.  The  *)
(* effects are remembered, not undone: queue.add of an id that is there    *)
(* and the deletion of an identity that is gone (404) change nothing.  A   *)
(* process that dies in a tick is a tick that throws.                      *)
(***************************************************************************)
EXTENDS Naturals, Sequences, FiniteSets

CONSTANTS
  Events,     \* what the rows ask for
  Relays,     \* one per process with the durable runtime
  Batch,      \* rows one tick lists (25)
  MaxThrows,  \* bound: ticks that end in an error
  MaxRefusals \* bound: deletions Auth0 refuses

ASSUME OutboxAssumption ==
  /\ \A e \in Events : e.type \in {"execution", "identity"}
  /\ Batch \in Nat \ {0}
  /\ {MaxThrows, MaxRefusals} \subseteq Nat

VARIABLES
  outbox,     \* the rows, oldest first
  published,  \* the places of those that are marked
  tick,       \* the rows each relay's tick has left, and whether it has acted on the oldest
  sent,       \* the events whose effect has happened
  configured, \* the Auth0 management credentials are deployed
  relayFaults \* throws and refusals so far

relayVars == <<outbox, published, tick, sent, configured, relayFaults>>

Quiet == [left |-> {}, done |-> FALSE]

RelayInit ==
  /\ outbox = <<>>
  /\ published = {}
  /\ tick = [r \in Relays |-> Quiet]
  /\ sent = {}
  /\ configured = FALSE
  /\ relayFaults = [throws |-> 0, refusals |-> 0]

Unpublished == DOMAIN outbox \ published
Oldest(rows) == {i \in rows : Cardinality({k \in rows : k <= i}) <= Batch}
Turn(r, i) == i \in tick[r].left /\ \A k \in tick[r].left : i <= k
Advance(r, i) == tick' = [tick EXCEPT ![r] = [left |-> @.left \ {i}, done |-> FALSE]]

(* The insert of a transaction that changes something else too.            *)
InsertOutboxEvent(e) ==
  /\ outbox' = Append(outbox, e)
  /\ UNCHANGED <<published, tick, sent, configured, relayFaults>>

\* One tick of a relay at a time: the next waits until this one is through.
ListUnpublished(r) ==
  /\ tick[r].left = {}
  /\ Unpublished # {}
  /\ tick' = [tick EXCEPT ![r].left = Oldest(Unpublished)]
  /\ UNCHANGED <<outbox, published, sent, configured, relayFaults>>

(* What the row asks for: queue.add, or the deletion at Auth0.             *)
Act(r, i) ==
  /\ Turn(r, i) /\ ~tick[r].done
  /\ outbox[i].type = "identity" => configured
  /\ sent' = sent \union {outbox[i]}
  /\ tick' = [tick EXCEPT ![r].done = TRUE]
  /\ UNCHANGED <<outbox, published, configured, relayFaults>>

\* Mutant: a row without credentials is done with.
MarkUnconfigured(r, i) ==
  /\ Turn(r, i) /\ ~tick[r].done
  /\ outbox[i].type = "identity" /\ ~configured
  /\ Advance(r, i)
  /\ published' = published \union {i}
  /\ UNCHANGED <<outbox, sent, configured, relayFaults>>

\* Mutant: the tick ends there.
BreakUnconfigured(r, i) ==
  /\ Turn(r, i) /\ ~tick[r].done
  /\ outbox[i].type = "identity" /\ ~configured
  /\ tick' = [tick EXCEPT ![r] = Quiet]
  /\ UNCHANGED <<outbox, published, sent, configured, relayFaults>>

(* Without credentials the row is passed over and stays unpublished.       *)
SkipUnconfigured(r, i) ==
  /\ Turn(r, i) /\ ~tick[r].done
  /\ outbox[i].type = "identity" /\ ~configured
  /\ Advance(r, i)
  /\ UNCHANGED <<outbox, published, sent, configured, relayFaults>>

(* So it is when Auth0 refuses; the next tick tries again.                 *)
SkipRefused(r, i) ==
  /\ Turn(r, i) /\ ~tick[r].done
  /\ outbox[i].type = "identity" /\ configured
  /\ relayFaults.refusals < MaxRefusals
  /\ relayFaults' = [relayFaults EXCEPT !.refusals = @ + 1]
  /\ Advance(r, i)
  /\ UNCHANGED <<outbox, published, sent, configured>>

MarkPublished(r, i) ==
  /\ Turn(r, i) /\ tick[r].done
  /\ published' = published \union {i}
  /\ Advance(r, i)
  /\ UNCHANGED <<outbox, sent, configured, relayFaults>>

(* A statement or the queue throws: the tick is over, its rows unmarked.   *)
TickThrows(r) ==
  /\ tick[r].left # {}
  /\ relayFaults.throws < MaxThrows
  /\ relayFaults' = [relayFaults EXCEPT !.throws = @ + 1]
  /\ tick' = [tick EXCEPT ![r] = Quiet]
  /\ UNCHANGED <<outbox, published, sent, configured>>

\* A deploy brings the credentials.
ConfigureAuth0 ==
  /\ ~configured
  /\ configured' = TRUE
  /\ UNCHANGED <<outbox, published, tick, sent, relayFaults>>

RelayStep(r) ==
  \/ ListUnpublished(r)
  \/ \E i \in DOMAIN outbox : Act(r, i) \/ SkipUnconfigured(r, i) \/ MarkPublished(r, i)

RelayNext ==
  \/ \E r \in Relays : RelayStep(r) \/ TickThrows(r)
  \/ \E r \in Relays, i \in DOMAIN outbox : SkipRefused(r, i)
  \/ ConfigureAuth0

OutboxNext == (\E e \in Events : InsertOutboxEvent(e)) \/ RelayNext

OutboxSpec == RelayInit /\ [][OutboxNext]_relayVars

-----------------------------------------------------------------------------
(* Properties.                                                             *)

(* The values the rows and the ticks can have.                             *)
RelayTypeOK ==
  /\ outbox \in Seq(Events)
  /\ published \subseteq DOMAIN outbox
  /\ tick \in [Relays -> [left: SUBSET DOMAIN outbox, done: BOOLEAN]]
  /\ sent \subseteq Events
  /\ configured \in BOOLEAN
  /\ relayFaults \in [throws: 0..MaxThrows, refusals: 0..MaxRefusals]

(* Whichever relays hold a row, throw or skip beside it, a row is only     *)
(* marked when its effect has happened: nothing committed is lost.         *)
PublishedIsDone == \A i \in published : outbox[i] \in sent

Inserted(e) == \E i \in DOMAIN outbox : outbox[i] = e

(* Every accepted execution comes to the queue, although identities that   *)
(* cannot be deleted yet stay in front of it: as long as fewer of them are *)
(* stuck than a tick lists.                                                *)
ExecutionsAreRelayed ==
  \A e \in Events : e.type = "execution" => (Inserted(e) ~> e \in sent)

=============================================================================
