--------------------------- MODULE ExecutionWatch ---------------------------
(***************************************************************************)
(* One client watching one job: the job's row, the Redis event log and     *)
(* channel its events go through, the server's event stream, and the watch *)
(* loop of the client SDK (event stream attempts, then polling, within a   *)
(* total timeout).                                                         *)
(*                                                                         *)
(* An event is appended to the log and then published, by three emitters   *)
(* that do not wait for one another: the request that enqueued the job,    *)
(* the worker, and a request that cancels it, queued or running.  An       *)
(* outcome is announced when the job was active at its find, whatever its  *)
(* lookup and its update saw afterwards; a report of progress is written   *)
(* and announced whatever the row says.  A stream reads the log, then the  *)
(* row, and only then subscribes.                                          *)
(*                                                                         *)
(* Abstractions.  A progress report is its step, 0 the report that the job *)
(* is queued; backoff sleeps and the server's pings are left out; the      *)
(* total timeout may have passed whenever it is looked at.  The client     *)
(* knows the job from the answer to its enqueue, which follows that        *)
(* request's event; one request to cancel runs at a time.  Of what an      *)
(* update writes back from its lookup, only the status matters here: a     *)
(* cancel's stale progress is on a cancelled row, whose progress no poll   *)
(* shows.  One delivery claims the job (ExecutionJob's PipelineRunsOnce),  *)
(* the statements on the row do not fail, and the worker's second writer,  *)
(* the audit, is left to ExecutionJob.                                     *)
(***************************************************************************)
EXTENDS Naturals, Sequences

CONSTANTS
  Steps,           \* progress reports of the worker
  MaxReconnects,   \* maxSseReconnectAttempts
  MaxPollFailures, \* maxPollingFailures
  MaxCancels,      \* bound: requests to cancel
  MaxFaults        \* bound: calls to Redis or the API that fail

ASSUME WatchAssumption ==
  /\ {Steps, MaxReconnects, MaxCancels, MaxFaults} \subseteq Nat
  /\ MaxPollFailures \in Nat \ {0}

VARIABLES
  row,       \* status of the job
  progress,  \* last progress report stored in it
  worker,    \* what the worker does with it, in the end its outcome
  emitting,  \* the event each emitter has still to write, append or publish
  log,       \* the persisted events
  stream,    \* how far the server's handler of the open stream is
  wire,      \* what it has written and the client has not read
  watch,     \* the client's loop
  told,      \* transitions reported on this connection
  outcomes,  \* terminal transitions reported so far
  crossed,   \* history: a cancel found the job active while a worker had it
  cancels,
  faults

vars == <<row, progress, worker, emitting, log, stream, wire, watch, told, outcomes, crossed,
          cancels, faults>>
job == <<row, progress, worker, emitting, log, crossed, cancels>>
client == <<watch, told, outcomes>>

Active == {"queued", "running"}
Terminal == {"done", "failed", "cancelled"}
Emitters == {"enqueue", "worker", "cancel"}
Report(k) == [type |-> "progress", step |-> k]
Outcome(status) == [type |-> status, step |-> 0]
IsOutcome(e) == e.type \in Terminal
Events == {Report(k) : k \in 0..Steps} \union {Outcome(s) : s \in Terminal}

Silent == [at |-> "idle", event |-> Report(0)]
Begin(who, at, e) == emitting' = [emitting EXCEPT ![who] = [at |-> at, event |-> e]]
Emit(who, e) == Begin(who, "append", e)

Start == [at |-> "off", attempt |-> 0, failures |-> 0, terminal |-> FALSE,
          seen |-> Steps + 1, why |-> "none"]

Init ==
  /\ row = "none"
  /\ progress = 0
  /\ worker = "none"
  /\ emitting = [who \in Emitters |-> Silent]
  /\ log = <<>>
  /\ stream = "none"
  /\ wire = <<>>
  /\ watch = Start
  /\ told = <<>>
  /\ outcomes = {}
  /\ crossed = FALSE
  /\ cancels = 0
  /\ faults = 0

Fault == faults < MaxFaults /\ faults' = faults + 1

-----------------------------------------------------------------------------
(* The job and its events.                                                 *)

Enqueue ==
  /\ row = "none"
  /\ row' = "queued"
  /\ Emit("enqueue", Report(0))
  /\ UNCHANGED <<progress, worker, log, stream, wire, client, crossed, cancels, faults>>

(* A claim reads the row and writes it later, like every operation on it:  *)
(* a cancel that has found the job and not yet written it is crossed.      *)
ClaimQueuedJob ==
  /\ row = "queued" /\ worker = "none"
  /\ worker' = "claiming"
  /\ crossed' = (crossed \/ emitting["cancel"] # Silent)
  /\ UNCHANGED <<row, progress, emitting, log, stream, wire, client, cancels, faults>>

RecordClaim ==
  /\ worker = "claiming"
  /\ row' = "running"
  /\ worker' = "working"
  /\ UNCHANGED <<progress, emitting, log, stream, wire, client, crossed, cancels, faults>>

(* A report makes the row running again if it was cancelled meanwhile.     *)
UpdateJobProgress ==
  /\ worker = "working" /\ emitting["worker"] = Silent
  /\ progress < Steps
  /\ progress' = progress + 1
  /\ row' = "running"
  /\ Emit("worker", Report(progress + 1))
  /\ UNCHANGED <<worker, log, stream, wire, client, crossed, cancels, faults>>

(* The find of completeJob and failJob; a job that is not active keeps its *)
(* status and is not announced.                                            *)
Settle(status) ==
  /\ worker = "working" /\ emitting["worker"] = Silent
  /\ status = "done" => progress = Steps
  /\ IF row \in Active
     THEN Begin("worker", "lookup", Outcome(status)) /\ UNCHANGED worker
     ELSE worker' = status /\ UNCHANGED emitting
  /\ UNCHANGED <<row, progress, log, stream, wire, client, crossed, cancels, faults>>

(* The find of cancelJob, which takes queued and running jobs alike.       *)
CancelJob ==
  /\ row \in Active /\ emitting["cancel"] = Silent
  /\ cancels < MaxCancels /\ cancels' = cancels + 1
  /\ Begin("cancel", "lookup", Outcome("cancelled"))
  /\ crossed' = (crossed \/ worker # "none")
  /\ UNCHANGED <<row, progress, worker, log, stream, wire, client, faults>>

\* What the worker's outcome is known as once its operation has written or given up.
Concluded(who) == worker' = IF who = "worker" THEN emitting[who].event.type ELSE worker

(* The operation reads the row again and leaves a settled job alone.       *)
Lookup(who) ==
  /\ emitting[who].at = "lookup"
  /\ emitting' = [emitting EXCEPT ![who].at = IF row \in Terminal THEN "append" ELSE "update"]
  /\ IF row \in Terminal THEN Concluded(who) ELSE UNCHANGED worker
  /\ UNCHANGED <<row, progress, log, stream, wire, client, crossed, cancels, faults>>

Update(who) ==
  /\ emitting[who].at = "update"
  /\ row' = emitting[who].event.type
  /\ emitting' = [emitting EXCEPT ![who].at = "append"]
  /\ Concluded(who)
  /\ UNCHANGED <<progress, log, stream, wire, client, crossed, cancels, faults>>

\* Mutant: the log is a stack.
PushEvent(who) ==
  /\ emitting[who].at = "append"
  /\ log' = <<emitting[who].event>> \o log
  /\ emitting' = [emitting EXCEPT ![who].at = "publish"]
  /\ UNCHANGED <<row, progress, worker, stream, wire, client, crossed, cancels, faults>>

AppendEvent(who) ==
  /\ emitting[who].at = "append"
  /\ log' = Append(log, emitting[who].event)
  /\ emitting' = [emitting EXCEPT ![who].at = "publish"]
  /\ UNCHANGED <<row, progress, worker, stream, wire, client, crossed, cancels, faults>>

(* Redis delivers to whoever is subscribed now.                            *)
PublishEvent(who) ==
  /\ emitting[who].at = "publish"
  /\ wire' = IF stream = "live" THEN Append(wire, emitting[who].event) ELSE wire
  /\ emitting' = [emitting EXCEPT ![who] = Silent]
  /\ UNCHANGED <<row, progress, worker, log, stream, client, crossed, cancels, faults>>

(* A failed append or publish is swallowed.                                *)
EmitFails(who) ==
  /\ emitting[who].at \in {"append", "publish"}
  /\ Fault
  /\ emitting' = [emitting EXCEPT ![who] = Silent]
  /\ UNCHANGED <<row, progress, worker, log, stream, wire, client, crossed, cancels>>

-----------------------------------------------------------------------------
(* createJobEventStream on the server.                                     *)

Replay(events) == wire' = wire \o events

(* What the handler read goes out once it has looked for a missing         *)
(* outcome: until then the client cannot read the wire.                    *)
ListJobEvents ==
  /\ stream = "listing"
  /\ Replay(log)
  /\ stream' = IF \E i \in DOMAIN log : IsOutcome(log[i]) THEN "subscribing" ELSE "checking"
  /\ UNCHANGED <<job, client, faults>>

(* listJobEvents answers an empty list when the read fails.                *)
ListFails ==
  /\ stream = "listing"
  /\ Fault
  /\ stream' = "checking"
  /\ UNCHANGED <<job, wire, client>>

\* Mutant: only a finished job's outcome is made up.
ReplaysDoneOnly ==
  /\ stream = "checking"
  /\ Replay(IF row = "done" THEN <<Outcome(row)>> ELSE <<>>)
  /\ stream' = "subscribing"
  /\ UNCHANGED <<job, client, faults>>

ResolveTerminalReplayEvent ==
  /\ stream = "checking"
  /\ Replay(IF row \in Terminal THEN <<Outcome(row)>> ELSE <<>>)
  /\ stream' = "subscribing"
  /\ UNCHANGED <<job, client, faults>>

Subscribed ==
  /\ stream = "subscribing"
  /\ stream' = "live"
  /\ UNCHANGED <<job, wire, client, faults>>

(* A failed SUBSCRIBE is swallowed: the stream pings and never says more.  *)
SubscribeFails ==
  /\ stream = "subscribing"
  /\ Fault
  /\ stream' = "deaf"
  /\ UNCHANGED <<job, wire, client>>

-----------------------------------------------------------------------------
(* startExecutionWatch in the client.                                      *)

Tell(e) ==
  /\ told' = Append(told, e)
  /\ outcomes' = IF IsOutcome(e) THEN outcomes \union {e.type} ELSE outcomes

\* The loop is over: what it counted is gone with it, and so is the connection.
End(why) == watch' = [Start EXCEPT !.at = "ended", !.why = why] /\ told' = <<>>
Hangup == stream' = "none" /\ wire' = <<>>

StartWatch ==
  /\ watch.at = "off" /\ row # "none" /\ emitting["enqueue"] = Silent
  /\ watch' = [watch EXCEPT !.at = "attempt"]
  /\ UNCHANGED <<job, stream, wire, told, outcomes, faults>>

OpenSse ==
  /\ watch.at = "attempt"
  /\ stream' = "listing"
  /\ watch' = [watch EXCEPT !.at = "streaming"]
  /\ told' = <<>>
  /\ UNCHANGED <<job, wire, outcomes, faults>>

(* The next attempt, or the polling once they are used up.                 *)
NextAttempt ==
  /\ watch' = IF watch.attempt < MaxReconnects
              THEN [watch EXCEPT !.at = "attempt", !.attempt = @ + 1, !.terminal = FALSE]
              ELSE [watch EXCEPT !.at = "polling", !.terminal = FALSE]
  /\ told' = <<>>

OpenFails ==
  /\ watch.at = "attempt"
  /\ Fault
  /\ NextAttempt
  /\ UNCHANGED <<job, stream, wire, outcomes>>

ConsumeSseStream ==
  /\ watch.at = "streaming" /\ wire # <<>>
  /\ stream \in {"subscribing", "live", "deaf"}
  /\ Tell(Head(wire))
  /\ wire' = Tail(wire)
  /\ watch' = [watch EXCEPT !.terminal = @ \/ IsOutcome(Head(wire))]
  /\ UNCHANGED <<job, stream, faults>>

\* Mutant: the end of the response counts as the end of the job.
EndsWithResponse ==
  /\ watch.at = "streaming" /\ stream \in {"live", "deaf"} /\ wire = <<>>
  /\ Hangup
  /\ End("observed")
  /\ UNCHANGED <<job, outcomes, faults>>

(* The response ends: the watch is over if it carried an outcome.          *)
ResponseEnds ==
  /\ watch.at = "streaming" /\ stream \in {"live", "deaf"} /\ wire = <<>>
  /\ Hangup
  /\ IF watch.terminal THEN End("observed") ELSE NextAttempt
  /\ UNCHANGED <<job, outcomes, faults>>

(* The connection breaks: what it carried is forgotten with the error.     *)
ConnectionBreaks ==
  /\ watch.at = "streaming"
  /\ Hangup
  /\ NextAttempt
  /\ UNCHANGED <<job, outcomes, faults>>

(* A poll answers with the status view; a report is told when it is new.   *)
Poll ==
  /\ watch.at = "polling" /\ row \notin Terminal
  /\ IF watch.seen # progress THEN Tell(Report(progress)) ELSE UNCHANGED <<told, outcomes>>
  /\ watch' = [watch EXCEPT !.failures = 0, !.seen = progress]
  /\ UNCHANGED <<job, stream, wire, faults>>

PollTerminal ==
  /\ watch.at = "polling" /\ row \in Terminal
  /\ outcomes' = outcomes \union {row}
  /\ End("observed")
  /\ UNCHANGED <<job, stream, wire, faults>>

PollFails ==
  /\ watch.at = "polling"
  /\ Fault
  /\ IF watch.failures + 1 >= MaxPollFailures
     THEN End("poll_fallback_exhausted")
     ELSE watch' = [watch EXCEPT !.failures = @ + 1] /\ UNCHANGED told
  /\ UNCHANGED <<job, stream, wire, outcomes>>

\* Mutant: the timeout is not looked at while polling.
TimedOutOnce ==
  /\ watch.at = "attempt"
  /\ End("timeout")
  /\ UNCHANGED <<job, stream, wire, outcomes, faults>>

(* The timeout is looked at before an attempt and before a poll only, and  *)
(* may have passed whenever it is.                                         *)
TimedOut ==
  /\ watch.at \in {"attempt", "polling"}
  /\ End("timeout")
  /\ UNCHANGED <<job, stream, wire, outcomes, faults>>

Stop ==
  /\ watch.at \in {"attempt", "streaming", "polling"}
  /\ End("stopped")
  /\ Hangup
  /\ UNCHANGED <<job, outcomes, faults>>

-----------------------------------------------------------------------------
WorkerStep ==
  \/ RecordClaim \/ UpdateJobProgress
  \/ \E status \in {"done", "failed"} : Settle(status)
EmitterStep(who) == Lookup(who) \/ Update(who) \/ AppendEvent(who) \/ PublishEvent(who)
StreamStep == ListJobEvents \/ ResolveTerminalReplayEvent \/ Subscribed
WatchStep == OpenSse \/ ConsumeSseStream \/ Poll \/ PollTerminal

Next ==
  \/ Enqueue \/ ClaimQueuedJob \/ CancelJob \/ WorkerStep
  \/ \E who \in Emitters : EmitterStep(who) \/ EmitFails(who)
  \/ StreamStep \/ ListFails \/ SubscribeFails
  \/ StartWatch \/ WatchStep \/ TimedOut \/ Stop
  \/ OpenFails \/ ResponseEnds \/ ConnectionBreaks \/ PollFails

Spec == Init /\ [][Next]_vars

(* The worker, the handler and the client go on with what they began, and  *)
(* time passes.  A job may wait in the queue for ever, and a connection    *)
(* stay open for ever: the server pings it and never closes it.            *)
Fairness ==
  /\ WF_vars(WorkerStep)
  /\ \A who \in Emitters : WF_vars(EmitterStep(who))
  /\ WF_vars(StreamStep) /\ WF_vars(WatchStep) /\ WF_vars(TimedOut)

FairSpec == Spec /\ Fairness

-----------------------------------------------------------------------------
(* Properties.                                                             *)

(* The values of the job's, the stream's and the client's state.           *)
TypeOK ==
  /\ row \in {"none", "queued", "running"} \union Terminal
  /\ progress \in 0..Steps
  /\ worker \in {"none", "claiming", "working", "done", "failed"} /\ crossed \in BOOLEAN
  /\ emitting \in [Emitters ->
       [at: {"idle", "lookup", "update", "append", "publish"}, event: Events]]
  /\ log \in Seq(Events) /\ wire \in Seq(Events) /\ told \in Seq(Events)
  /\ stream \in {"none", "listing", "checking", "subscribing", "live", "deaf"}
  /\ watch \in [at: {"off", "attempt", "streaming", "polling", "ended"},
                attempt: 0..MaxReconnects, failures: 0..(MaxPollFailures - 1),
                terminal: BOOLEAN, seen: 0..(Steps + 1),
                why: {"none", "observed", "poll_fallback_exhausted", "timeout", "stopped"}]
  /\ outcomes \subseteq Terminal
  /\ cancels \in 0..MaxCancels /\ faults \in 0..MaxFaults

\* What the job may be said to have come to.
Sayable == IF crossed THEN {"cancelled", worker} ELSE {row}

(* Whatever path an outcome took to the client (replayed, made up from the *)
(* row, published or polled), it is the row's, unless a cancel found the   *)
(* job while a worker had it: then the row may change after it was told,   *)
(* but what is told is still the cancel or the worker's one outcome.  A    *)
(* watch that says it observed the outcome has reported one.               *)
OutcomeIsTheJobs ==
  /\ outcomes \subseteq Sayable
  /\ watch.why = "observed" => outcomes # {}

Rank(e) == IF IsOutcome(e) THEN Steps + 1 ELSE e.step
NotQueued(e) == Rank(e) > 0

(* On one connection, although the log is replayed, an outcome may be made *)
(* up and published events may be missed or repeated, what happened to the *)
(* job is reported in order: no step after a later one or after the        *)
(* outcome.  The one exception is the outcome of a cancel that a worker    *)
(* crossed: what the worker goes on to report is told behind it.           *)
WorkerInOrder ==
  \A i, k \in DOMAIN told :
    i < k /\ NotQueued(told[i]) /\ NotQueued(told[k]) =>
      \/ Rank(told[i]) <= Rank(told[k])
      \/ crossed /\ told[i] = Outcome("cancelled")

(* If every connection ends some day, so does the watch: the attempts are  *)
(* counted and the polling is timed.                                       *)
WatchEnds ==
  (watch.at = "streaming" ~> watch.at # "streaming") =>
    (watch.at = "attempt" ~> watch.at = "ended")

(* A client that connects or reconnects to a job that has settled for good *)
(* is told an outcome, or its watch ends: whatever Redis lost, the row is  *)
(* asked.  (A cancelled row that a report makes running again has not.)    *)
SettledJobIsTold ==
  [](row \in Terminal) /\ watch.at = "attempt" ~> outcomes # {} \/ watch.at = "ended"

=============================================================================
