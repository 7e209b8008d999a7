----------------------------- MODULE GenerationRun -----------------------------
(***************************************************************************)
(* One generation, from the worker's call of executeSyncRun to the credits *)
(* it settles: the ladder of quality modes, the lanes that run the         *)
(* pipeline side by side, the retries of a step, the providers tried in    *)
(* turn, the judge, and the capture or the release of the reservation.     *)
(*                                                                         *)
(* Abstractions.  Texts are not kept: a score is "met" or "missed" against *)
(* the target of the mode, and any of the two may come out.  A provider    *)
(* request is in flight between two actions; the awaits that only read     *)
(* memory are part of the action before them.  The statements on the job's *)
(* row are in ExecutionJob, those on the wallet in BillingService.         *)
(***************************************************************************)
EXTENDS Naturals, Sequences, FiniteSets

CONSTANTS
  Pipelines,    \* the planned pipelines: the kinds of their steps, in order
  Offers,       \* provider and model pairs configured for a step
  MaxRefusals,  \* bound: provider requests of the lanes that fail
  MaxFaults     \* bound: everything else that fails

Kinds == {"llm", "local", "sanitize"}

ASSUME RunAssumption ==
  /\ Pipelines \subseteq Seq(Kinds) \ {<<>>}
  /\ Offers \in Nat \ {0}
  /\ {MaxRefusals, MaxFaults} \subseteq Nat

VARIABLES
  run,      \* the request, the place in the ladder, the result so far
  lane,     \* what each lane is doing
  calls,    \* provider requests made, by each lane
  judged,   \* provider requests made by the judge
  credits,  \* the reservation of the job
  spent     \* refusals and faults so far

vars == <<run, lane, calls, judged, credits, spent>>

Modes == {"fast", "balanced", "strict"}
Rank == [fast |-> 1, balanced |-> 2, strict |-> 3]
Lanes == 1..3
NoResult == "none"

LaneCount(mode) == Rank[mode]

\* Lane l is conservative, balanced or creative, and retries a step as the
\* mode of that name does: 1, 2 or 3 attempts.
MaxAttempts(l) == l

\* The pipeline a lane runs ends with "sanitize" whatever was planned.
RuntimeSteps(pipeline) ==
  IF \E i \in 1..Len(pipeline) : pipeline[i] = "sanitize"
    THEN pipeline
    ELSE Append(pipeline, "sanitize")
LLMSteps(pipeline) == {i \in 1..Len(pipeline) : pipeline[i] = "llm"}

\* The modes a run may go through: at most maxIterations of them, from the
\* requested one up.
Ladder(mode) ==
  IF mode = "balanced" THEN <<"balanced", "strict">> ELSE <<mode>>

\* Mutant: the budget is relaxed until balanced can escalate.
CallsOfTheLadder(mode, pipeline) ==
  Len(pipeline) * (IF mode = "balanced" THEN 8 ELSE Rank[mode])

MaxLLMCalls(mode, pipeline) == Len(pipeline) * Rank[mode]

Steps == RuntimeSteps(run.pipeline)
Current == Ladder(run.mode)[run.at]
Used == 1..LaneCount(Current)

Unused == [at |-> "unused", step |-> 1, attempt |-> 1, offer |-> 1]
Ready == [Unused EXCEPT !.at = "ready"]
InFlight(l) == lane[l].at \in {"ready", "asking", "told"}

Init ==
  /\ run \in [phase : {"called"}, mode : Modes, pipeline : Pipelines,
              at : {1}, rounds : {0}, executed : {0}, score : {"missed"},
              result : {NoResult}, finalists : {0}, offer : {1}]
  /\ lane = [l \in Lanes |-> Unused]
  /\ calls = [l \in Lanes |-> 0]
  /\ judged = 0
  /\ credits = "held"
  /\ spent = [refusals |-> 0, faults |-> 0]

Fault ==
  /\ spent.faults < MaxFaults
  /\ spent' = [spent EXCEPT !.faults = @ + 1]

-----------------------------------------------------------------------------
(* The ladder.                                                             *)

Resolve ==
  /\ run.phase = "called"
  /\ run' = [run EXCEPT !.phase = "ladder"]
  /\ UNCHANGED <<lane, calls, judged, credits, spent>>

\* The price, the voice or the plan cannot be resolved: the job fails before
\* the code that releases the reservation is reached.
ResolveFails ==
  /\ run.phase = "called" /\ Fault
  /\ run' = [run EXCEPT !.phase = "failed"]
  /\ UNCHANGED <<lane, calls, judged, credits>>

OnLadder == run.phase = "ladder" /\ run.at <= Len(Ladder(run.mode))
Satisfied == run.result # NoResult /\ run.score = "met"
Affordable ==
  run.executed + Len(run.pipeline) * LaneCount(Current)
    <= MaxLLMCalls(run.mode, run.pipeline)

\* Mutant: the loop looks at the same mode again.
SkipRoundAgain ==
  /\ OnLadder /\ (Satisfied \/ ~Affordable)
  /\ UNCHANGED vars

SkipRound ==
  /\ OnLadder /\ (Satisfied \/ ~Affordable)
  /\ run' = [run EXCEPT !.at = @ + 1]
  /\ UNCHANGED <<lane, calls, judged, credits, spent>>

BeginRound ==
  /\ OnLadder /\ ~Satisfied /\ Affordable
  /\ run' = [run EXCEPT !.phase = "lanes", !.rounds = @ + 1]
  /\ lane' = [l \in Lanes |-> IF l \in Used THEN Ready ELSE Unused]
  /\ UNCHANGED <<calls, judged, credits, spent>>

EndLadder ==
  /\ run.phase = "ladder" /\ run.at > Len(Ladder(run.mode))
  /\ run' = [run EXCEPT !.phase = IF run.result = NoResult THEN "release"
                                                           ELSE "capture"]
  /\ UNCHANGED <<lane, calls, judged, credits, spent>>

-----------------------------------------------------------------------------
(* A lane.                                                                 *)

\* Mutant: the other lanes go on.
LaneFailsAlone(l) ==
  /\ lane' = [lane EXCEPT ![l].at = "failed"]
  /\ run' = [run EXCEPT !.phase = "release"]

\* A lane that fails interrupts those still running, and with them their
\* provider requests; the run fails.
LaneFails(l) ==
  /\ lane' = [k \in Lanes |->
                CASE k = l -> [lane[k] EXCEPT !.at = "failed"]
                  [] k # l /\ InFlight(k) -> [lane[k] EXCEPT !.at = "interrupted"]
                  [] OTHER -> lane[k]]
  /\ run' = [run EXCEPT !.phase = "release"]

\* Mutant: the pipeline is run again, not the step.
AttemptFailsToTheStart(l) ==
  IF lane[l].attempt < MaxAttempts(l)
    THEN /\ lane' = [lane EXCEPT ![l] = [Ready EXCEPT !.attempt = lane[l].attempt + 1]]
         /\ UNCHANGED run
    ELSE LaneFails(l)

\* An attempt of a step fails: another one, or the lane fails.
AttemptFails(l) ==
  IF lane[l].attempt < MaxAttempts(l)
    THEN /\ lane' = [lane EXCEPT ![l].at = "ready", ![l].attempt = @ + 1, ![l].offer = 1]
         /\ UNCHANGED run
    ELSE LaneFails(l)

\* An attempt of a step: its skill runs, and what it returns is the output of
\* the step or, for an LLM step, the prompt of a provider request.
StartAttempt(l) ==
  /\ lane[l].at = "ready"
  /\ IF Steps[lane[l].step] = "llm"
       THEN /\ lane' = [lane EXCEPT ![l].at = "asking", ![l].offer = 1]
            /\ calls' = [calls EXCEPT ![l] = @ + 1]
       ELSE /\ lane' = [lane EXCEPT ![l].at = "told"]
            /\ UNCHANGED calls
  /\ UNCHANGED <<run, judged, credits, spent>>

\* The skill misses an input or throws, or no provider is configured.
SkillFails(l) ==
  /\ lane[l].at = "ready" /\ Fault
  /\ AttemptFails(l)
  /\ UNCHANGED <<calls, judged, credits>>

Answer(l) ==
  /\ lane[l].at = "asking"
  /\ lane' = [lane EXCEPT ![l].at = "told"]
  /\ UNCHANGED <<run, calls, judged, credits, spent>>

\* The request fails: the next provider is asked, or the attempt has failed.
Refuse(l) ==
  /\ lane[l].at = "asking"
  /\ spent.refusals < MaxRefusals
  /\ spent' = [spent EXCEPT !.refusals = @ + 1]
  /\ IF lane[l].offer < Offers
       THEN /\ lane' = [lane EXCEPT ![l].offer = @ + 1]
            /\ calls' = [calls EXCEPT ![l] = @ + 1]
            /\ UNCHANGED run
       ELSE /\ AttemptFails(l)
            /\ UNCHANGED calls
  /\ UNCHANGED <<judged, credits>>

\* The output passes the language gate, its progress is written, and the lane
\* goes on.
NextStep(l) ==
  /\ lane[l].at = "told"
  /\ lane' = [lane EXCEPT
       ![l] = IF @.step = Len(Steps) THEN [@ EXCEPT !.at = "done"]
                                     ELSE [Ready EXCEPT !.step = lane[l].step + 1]]
  /\ UNCHANGED <<run, calls, judged, credits, spent>>

\* The language gate blocks the output, or the progress cannot be written:
\* neither is retried.
StepIsLost(l) ==
  /\ lane[l].at = "told" /\ Fault
  /\ LaneFails(l)
  /\ UNCHANGED <<calls, judged, credits>>

-----------------------------------------------------------------------------
(* The candidates.                                                         *)

\* Every lane has its candidate: the best one is selected.  In strict mode,
\* and in balanced mode when the scores are close, the judge is asked first if
\* the voice has a signature to be judged by.
Select ==
  /\ run.phase = "lanes"
  /\ \A l \in Used : lane[l].at = "done"
  /\ \E score \in {"met", "missed"} :
       \/ run' = [run EXCEPT !.phase = "remember", !.score = score]
       \/ /\ Current # "fast"
          /\ run' = [run EXCEPT !.phase = "judge", !.score = score,
                                !.finalists = 2, !.offer = 1]
  /\ UNCHANGED <<lane, calls, judged, credits, spent>>

\* The judge is done with a finalist; after the last one the best candidate is
\* selected again.
Judged ==
  IF run.finalists > 1
    THEN run' = [run EXCEPT !.finalists = @ - 1, !.offer = 1]
    ELSE \E score \in {"met", "missed"} :
           run' = [run EXCEPT !.finalists = 0, !.phase = "remember", !.score = score]

AskJudge ==
  /\ run.phase = "judge"
  /\ judged' = judged + 1
  /\ \/ Judged
     \/ IF run.offer < Offers THEN run' = [run EXCEPT !.offer = @ + 1] ELSE Judged
  /\ UNCHANGED <<lane, calls, credits, spent>>

\* The selected candidate is written to the memory and is the result.
Remember ==
  /\ run.phase = "remember"
  /\ run' = [run EXCEPT !.phase = "ladder", !.at = @ + 1, !.result = Current,
                        !.executed = @ + LaneCount(Current) * Len(Steps)]
  /\ UNCHANGED <<lane, calls, judged, credits, spent>>

\* The policy of the judge cannot be read, or the memory cannot be written.
CandidateIsLost ==
  /\ run.phase \in {"judge", "remember"} /\ Fault
  /\ run' = [run EXCEPT !.phase = "release"]
  /\ UNCHANGED <<lane, calls, judged, credits>>

-----------------------------------------------------------------------------
(* The reservation.                                                        *)

Capture ==
  /\ run.phase = "capture"
  /\ credits' = "captured"
  /\ run' = [run EXCEPT !.phase = "completed"]
  /\ UNCHANGED <<lane, calls, judged, spent>>

Release ==
  /\ run.phase = "release"
  /\ credits' = "released"
  /\ run' = [run EXCEPT !.phase = "failed"]
  /\ UNCHANGED <<lane, calls, judged, spent>>

\* Mutant: a capture that fails goes unnoticed.
SettleFailsQuietly ==
  /\ run.phase \in {"capture", "release"} /\ Fault
  /\ run' = [run EXCEPT !.phase = IF @ = "capture" THEN "completed" ELSE "failed"]
  /\ UNCHANGED <<lane, calls, judged, credits>>

\* The reservation cannot be settled: the job fails and the credits stay held.
SettleFails ==
  /\ run.phase \in {"capture", "release"} /\ Fault
  /\ run' = [run EXCEPT !.phase = "failed"]
  /\ UNCHANGED <<lane, calls, judged, credits>>

-----------------------------------------------------------------------------
Ended == run.phase \in {"completed", "failed"}
Stop == Ended /\ UNCHANGED vars

LaneStep(l) ==
  \/ StartAttempt(l) \/ SkillFails(l) \/ Answer(l) \/ Refuse(l)
  \/ NextStep(l) \/ StepIsLost(l)

Next ==
  \/ Resolve \/ ResolveFails \/ SkipRound \/ BeginRound \/ EndLadder
  \/ \E l \in Lanes : LaneStep(l)
  \/ Select \/ AskJudge \/ Remember \/ CandidateIsLost
  \/ Capture \/ Release \/ SettleFails
  \/ Stop

Spec == Init /\ [][Next]_vars

\* A provider request ends: Node's fetch gives up on a provider that is silent
\* for five minutes.  Every other step is the worker's own.
FairSpec == Spec /\ WF_vars(Next)

-----------------------------------------------------------------------------
(* Properties.                                                             *)

Phases == {"called", "ladder", "lanes", "judge", "remember", "capture",
           "release", "completed", "failed"}
Runs == [phase : Phases, mode : Modes, pipeline : Pipelines, at : 1..3,
         rounds : Nat, executed : Nat, score : {"met", "missed"},
         result : Modes \union {NoResult}, finalists : 0..2, offer : 1..Offers]
LaneStates == [at : {"unused", "ready", "asking", "told", "done", "failed",
                     "interrupted"},
               step : Nat \ {0}, attempt : Lanes, offer : 1..Offers]

TypeOK ==
  /\ run \in Runs
  /\ lane \in [Lanes -> LaneStates]
  /\ \A l \in Lanes : lane[l].attempt <= MaxAttempts(l) /\ lane[l].step <= Len(Steps)
  /\ calls \in [Lanes -> Nat]
  /\ judged \in Nat
  /\ credits \in {"held", "captured", "released"}
  /\ spent \in [refusals : 0..MaxRefusals, faults : 0..MaxFaults]

\* The escalation the ladder declares never runs: the first round uses up the
\* budget of calls, whatever the pipeline and the score, and a planned pipeline
\* that sanitizes uses no more than the budget.
LadderStaysInBudget ==
  /\ run.rounds <= 1
  /\ RuntimeSteps(run.pipeline) = run.pipeline =>
       run.executed <= MaxLLMCalls(run.mode, run.pipeline)

\* What a completed run asked of the providers is what its price stands for:
\* one request for every LLM step of every lane of the mode, and one more for
\* each request that failed.  Beside them the judge asked at most twice per
\* provider, and never in fast mode.
CallsArePriced ==
  run.phase = "completed" =>
    /\ calls[1] + calls[2] + calls[3] =
         LaneCount(run.mode) * Cardinality(LLMSteps(run.pipeline)) + spent.refusals
    /\ judged <= IF run.mode = "fast" THEN 0 ELSE 2 * Offers

\* Nothing of the run is left running when its credits are settled: a lane
\* that fails takes the others and their requests with it.
QuietOnceSettled ==
  run.phase # "lanes" => \A l \in Lanes : ~InFlight(l)

\* Credits are captured for a result to which every lane of the mode
\* contributed and released for a run without one; they stay held at the end
\* only where resolving or settling failed.
SettlementFollowsOutcome ==
  /\ credits = "captured" =>
       /\ run.phase = "completed" /\ run.result = run.mode
       /\ \A l \in 1..LaneCount(run.mode) : lane[l].at = "done"
  /\ credits = "released" => run.phase = "failed"
  /\ (Ended /\ credits = "held") => run.phase = "failed" /\ spent.faults > 0

\* Every run ends, whatever the providers answer.
RunEnds == <>Ended
=============================================================================
