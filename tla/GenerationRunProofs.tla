-------------------------- MODULE GenerationRunProofs --------------------------
(***************************************************************************)
(* What holds of a generation for every pipeline, any number of providers  *)
(* and any number of failures.                                             *)
(***************************************************************************)
EXTENDS GenerationRun, FiniteSetTheorems, TLAPS

(* A run works through one round of lanes at most: it is at the first mode *)
(* of the ladder until that round has used up the budget.                  *)
LadderInv ==
  /\ run.rounds \in {0, 1}
  /\ run.phase = "called" => run.rounds = 0
  /\ run.rounds = 0 =>
       /\ run.at = 1 /\ run.result = NoResult
       /\ run.phase \in {"called", "ladder", "failed"}
  /\ run.phase \in {"lanes", "judge", "remember"} => run.at = 1 /\ run.result = NoResult
  /\ run.phase \in {"ladder", "capture", "completed"} /\ run.rounds = 1 =>
       run.result = run.mode
  /\ run.executed = IF run.result = NoResult THEN 0
                    ELSE LaneCount(run.mode) * Len(Steps)

(* Lanes run in the phase of that name only, and only those of the mode; a *)
(* candidate is selected from lanes that are all done.                     *)
LaneInv ==
  /\ \A l \in Lanes : InFlight(l) => l <= LaneCount(run.mode)
  /\ run.phase # "lanes" => \A l \in Lanes : ~InFlight(l)
  /\ run.phase \in {"judge", "remember", "capture", "completed"}
       \/ (run.phase = "ladder" /\ run.rounds = 1)
     => \A l \in 1..LaneCount(run.mode) : lane[l].at = "done"

(* The credits are settled by the step that ends the run.                  *)
CreditInv ==
  /\ credits = "captured" <=> run.phase = "completed"
  /\ credits = "released" => run.phase = "failed"
  /\ run.phase = "failed" /\ credits = "held" => spent.faults > 0

IInv == TypeOK /\ LadderInv /\ LaneInv /\ CreditInv

-----------------------------------------------------------------------------
(* A lane's pipeline is the planned one, or one step longer.               *)
LEMMA StepsAtLeastPlanned ==
  ASSUME NEW p \in Pipelines
  PROVE  /\ Len(p) \in Nat \ {0}
         /\ Len(RuntimeSteps(p)) \in Nat
         /\ Len(RuntimeSteps(p)) >= Len(p)
<1>1. p \in Seq(Kinds) /\ p # <<>>
  BY RunAssumption
<1>2. Len(p) \in Nat \ {0}
  BY <1>1
<1>3. Len(Append(p, "sanitize")) = Len(p) + 1
  BY <1>1 DEF Kinds
<1> QED
  BY <1>2, <1>3 DEF RuntimeSteps

(* The first mode of the ladder is the requested one and its round fits in *)
(* the budget; after it no other does.                                     *)
LEMMA OneRoundFits ==
  ASSUME TypeOK, LadderInv, OnLadder
  PROVE  /\ run.rounds = 0 => Affordable /\ ~Satisfied /\ Current = run.mode
         /\ run.rounds = 1 => ~Affordable
<1>1. /\ Len(run.pipeline) \in Nat \ {0}
      /\ Len(Steps) \in Nat /\ Len(Steps) >= Len(run.pipeline)
  BY StepsAtLeastPlanned DEF TypeOK, Runs, Steps
<1>2. Ladder(run.mode)[1] = run.mode /\ run.mode \in Modes
  BY DEF Ladder, TypeOK, Runs
<1>3. Current \in Modes /\ Rank[Current] \in 1..3 /\ Rank[run.mode] \in 1..3
  BY <1>2 DEF OnLadder, Current, Ladder, Modes, Rank, TypeOK, Runs
<1>4. ASSUME run.rounds = 0
      PROVE  Affordable /\ ~Satisfied /\ Current = run.mode
  BY <1>1, <1>2, <1>3, <1>4 DEF LadderInv, Affordable, Satisfied, Current, LaneCount,
                                MaxLLMCalls, NoResult
<1>5. ASSUME run.rounds = 1
      PROVE  ~Affordable
  <2>1. run.executed = Rank[run.mode] * Len(Steps)
    BY <1>2, <1>5 DEF LadderInv, OnLadder, LaneCount, NoResult, Modes
  <2>2. Rank[run.mode] * Len(Steps) >= Len(run.pipeline) * Rank[run.mode]
    BY <1>1, <1>3
  <2>3. Len(run.pipeline) * Rank[Current] > 0
    BY <1>1, <1>3
  <2> QED
    BY <1>1, <1>3, <2>1, <2>2, <2>3, SMTT(30) DEF Affordable, LaneCount, MaxLLMCalls
<1> QED
  BY <1>4, <1>5

-----------------------------------------------------------------------------
(* The steps of a lane.                                                    *)

\* A lane that fails takes its siblings out of flight with it.
LEMMA LaneFailsKeeps ==
  ASSUME TypeOK, NEW l \in Lanes, LaneFails(l)
  PROVE  /\ lane' \in [Lanes -> LaneStates]
         /\ \A k \in Lanes : /\ lane'[k].attempt = lane[k].attempt
                             /\ lane'[k].step = lane[k].step
                             /\ ~InFlight(k)'
         /\ run' = [run EXCEPT !.phase = "release"]
<1>1. ASSUME NEW k \in Lanes
      PROVE  /\ lane'[k] \in LaneStates
             /\ lane'[k].attempt = lane[k].attempt
             /\ lane'[k].step = lane[k].step
             /\ ~InFlight(k)'
  <2>1. lane[k] \in LaneStates
    BY DEF TypeOK
  <2>2. CASE k = l
    <3>1. lane'[k] = [lane[k] EXCEPT !.at = "failed"]
      BY <2>2 DEF LaneFails
    <3> QED
      BY <2>1, <3>1 DEF LaneStates, InFlight
  <2>3. CASE k # l /\ InFlight(k)
    <3>1. lane'[k] = [lane[k] EXCEPT !.at = "interrupted"]
      BY <2>3 DEF LaneFails
    <3> QED
      BY <2>1, <3>1 DEF LaneStates, InFlight
  <2>4. CASE k # l /\ ~InFlight(k)
    <3>1. lane'[k] = lane[k]
      BY <2>4 DEF LaneFails
    <3> QED
      BY <2>1, <2>4, <3>1 DEF InFlight
  <2> QED
    BY <2>2, <2>3, <2>4
<1> QED
  BY <1>1 DEF LaneFails

(* What the steps make of a lane's state.                                  *)
Moved(s, at) == [s EXCEPT !.at = at]
Asking(s) == [s EXCEPT !.at = "asking", !.offer = 1]
NextOffer(s) == [s EXCEPT !.offer = @ + 1]
Retried(s) == [s EXCEPT !.at = "ready", !.attempt = @ + 1, !.offer = 1]
Forward(s) == [Ready EXCEPT !.step = s.step + 1]

Keeps(s, t) == t \in LaneStates /\ t.attempt = s.attempt /\ t.step = s.step

\* The ways a lane's state moves.
LEMMA LaneStateSteps ==
  ASSUME NEW s \in LaneStates
  PROVE  /\ \A at \in {"told", "done"} : Keeps(s, Moved(s, at))
         /\ Keeps(s, Asking(s))
         /\ s.offer < Offers => Keeps(s, NextOffer(s))
         /\ s.attempt < 3 =>
              /\ Retried(s) \in LaneStates
              /\ Retried(s).attempt = s.attempt + 1 /\ Retried(s).step = s.step
         /\ /\ Forward(s) \in LaneStates
            /\ Forward(s).attempt = 1 /\ Forward(s).step = s.step + 1
<1>1. 1 \in 1..Offers /\ Offers \in Nat
  BY RunAssumption
<1>2. \A at \in {"told", "done"} : Keeps(s, Moved(s, at))
  BY DEF LaneStates, Keeps, Moved
<1>3. Keeps(s, Asking(s))
  BY <1>1 DEF LaneStates, Keeps, Asking
<1>4. ASSUME s.offer < Offers
      PROVE  Keeps(s, NextOffer(s))
  <2>1. s.offer + 1 \in 1..Offers
    BY <1>1, <1>4 DEF LaneStates
  <2> QED
    BY <2>1 DEF LaneStates, Keeps, NextOffer
<1>5. ASSUME s.attempt < 3
      PROVE  /\ Retried(s) \in LaneStates
             /\ Retried(s).attempt = s.attempt + 1 /\ Retried(s).step = s.step
  <2>1. s.attempt + 1 \in Lanes
    BY <1>5 DEF LaneStates, Lanes
  <2> QED
    BY <1>1, <2>1 DEF LaneStates, Retried
<1>6. /\ Forward(s) \in LaneStates
      /\ Forward(s).attempt = 1 /\ Forward(s).step = s.step + 1
  <2>1. s.step + 1 \in Nat \ {0} /\ 1 \in Lanes
    BY DEF LaneStates, Lanes
  <2> QED
    BY <1>1, <2>1 DEF LaneStates, Forward, Ready, Unused
<1> QED
  BY <1>2, <1>3, <1>4, <1>5, <1>6

(* A lane that goes on, and one that fails: what each step of a lane comes *)
(* down to.                                                                *)
LaneGoesOn(l) ==
  /\ \E s \in LaneStates :
       /\ s.attempt <= MaxAttempts(l) /\ s.step <= Len(Steps)
       /\ lane' = [lane EXCEPT ![l] = s]
  /\ UNCHANGED run

\* A lane that moves is in flight, and stays the lane of its run.
LEMMA LaneStepCases ==
  ASSUME TypeOK, NEW l \in Lanes, LaneStep(l)
  PROVE  /\ InFlight(l)
         /\ LaneGoesOn(l) \/ LaneFails(l)
         /\ calls' \in [Lanes -> Nat]
         /\ spent' \in [refusals : 0..MaxRefusals, faults : 0..MaxFaults]
         /\ UNCHANGED <<judged, credits>>
<1> DEFINE s == lane[l]
<1>1. s \in LaneStates /\ s.attempt <= MaxAttempts(l) /\ s.step <= Len(Steps)
  BY DEF TypeOK
<1>2. Len(Steps) \in Nat
  BY StepsAtLeastPlanned DEF Steps, TypeOK, Runs
<1>3. [calls EXCEPT ![l] = @ + 1] \in [Lanes -> Nat]
  BY DEF TypeOK
<1>4. ASSUME Fault
      PROVE  spent' \in [refusals : 0..MaxRefusals, faults : 0..MaxFaults]
  BY <1>4, RunAssumption DEF Fault, TypeOK
<1>5. ASSUME NEW t, Keeps(s, t), lane' = [lane EXCEPT ![l] = t], UNCHANGED run
      PROVE  LaneGoesOn(l)
  BY <1>1, <1>5 DEF LaneGoesOn, Keeps
<1>6. ASSUME AttemptFails(l)
      PROVE  LaneGoesOn(l) \/ LaneFails(l)
  <2>1. CASE s.attempt < MaxAttempts(l)
    <3>1. /\ lane' = [lane EXCEPT ![l] = Retried(s)]
          /\ UNCHANGED run
      BY <1>6, <2>1 DEF AttemptFails, TypeOK, Retried
    <3>2. s.attempt < 3 /\ s.attempt + 1 <= MaxAttempts(l)
      BY <1>1, <2>1 DEF LaneStates, Lanes, MaxAttempts
    <3>3. /\ Retried(s) \in LaneStates
          /\ Retried(s).attempt <= MaxAttempts(l) /\ Retried(s).step <= Len(Steps)
      BY <1>1, <3>2, LaneStateSteps
    <3> QED
      BY <3>1, <3>3 DEF LaneGoesOn
  <2>2. CASE ~(s.attempt < MaxAttempts(l))
    BY <1>6, <2>2 DEF AttemptFails
  <2> QED
    BY <2>1, <2>2
<1>7. CASE StartAttempt(l)
  <2>1. /\ \/ lane' = [lane EXCEPT ![l] = Asking(s)]
           \/ lane' = [lane EXCEPT ![l] = Moved(s, "told")]
        /\ UNCHANGED run
    BY <1>7 DEF StartAttempt, TypeOK, Asking, Moved
  <2>2. LaneGoesOn(l)
    BY <1>1, <1>5, <2>1, LaneStateSteps
  <2> QED
    BY <1>3, <1>7, <2>2 DEF StartAttempt, TypeOK, InFlight
<1>8. CASE SkillFails(l)
  BY <1>4, <1>6, <1>8 DEF SkillFails, TypeOK, InFlight
<1>9. CASE Answer(l)
  <2>1. lane' = [lane EXCEPT ![l] = Moved(s, "told")] /\ UNCHANGED run
    BY <1>9 DEF Answer, TypeOK, Moved
  <2>2. LaneGoesOn(l)
    BY <1>1, <1>5, <2>1, LaneStateSteps
  <2> QED
    BY <1>9, <2>2 DEF Answer, TypeOK, InFlight
<1>10. CASE Refuse(l)
  <2>1. spent' \in [refusals : 0..MaxRefusals, faults : 0..MaxFaults]
    BY <1>10, RunAssumption DEF Refuse, TypeOK
  <2>2. CASE s.offer < Offers
    <3>1. /\ lane' = [lane EXCEPT ![l] = NextOffer(s)]
          /\ calls' = [calls EXCEPT ![l] = @ + 1] /\ UNCHANGED run
      BY <1>10, <2>2 DEF Refuse, TypeOK, NextOffer
    <3>2. LaneGoesOn(l)
      BY <1>1, <1>5, <2>2, <3>1, LaneStateSteps
    <3> QED
      BY <1>3, <1>10, <2>1, <3>1, <3>2 DEF Refuse, InFlight
  <2>3. CASE ~(s.offer < Offers)
    BY <1>6, <1>10, <2>1, <2>3 DEF Refuse, TypeOK, InFlight
  <2> QED
    BY <2>2, <2>3
<1>11. CASE NextStep(l)
  <2>1. LaneGoesOn(l)
    <3>1. CASE s.step = Len(Steps)
      <4>1. lane' = [lane EXCEPT ![l] = Moved(s, "done")] /\ UNCHANGED run
        BY <1>11, <3>1 DEF NextStep, TypeOK, Moved
      <4> QED
        BY <1>1, <1>5, <4>1, LaneStateSteps
    <3>2. CASE s.step # Len(Steps)
      <4>1. lane' = [lane EXCEPT ![l] = Forward(s)] /\ UNCHANGED run
        BY <1>11, <3>2 DEF NextStep, TypeOK, Forward
      <4>2. s.step + 1 <= Len(Steps) /\ 1 <= MaxAttempts(l)
        BY <1>1, <1>2, <3>2 DEF LaneStates, MaxAttempts, Lanes
      <4>3. /\ Forward(s) \in LaneStates
            /\ Forward(s).attempt <= MaxAttempts(l) /\ Forward(s).step <= Len(Steps)
        BY <1>1, <4>2, LaneStateSteps
      <4> QED
        BY <4>1, <4>3 DEF LaneGoesOn
    <3> QED
      BY <3>1, <3>2
  <2> QED
    BY <1>11, <2>1 DEF NextStep, TypeOK, InFlight
<1>12. CASE StepIsLost(l)
  BY <1>4, <1>12 DEF StepIsLost, TypeOK, InFlight
<1> QED
  BY <1>7, <1>8, <1>9, <1>10, <1>11, <1>12 DEF LaneStep

(* A run has the types of its fields and keeps its request.                *)
LEMMA RunTyped ==
  ASSUME run \in Runs
  PROVE  /\ run.at \in 1..3 /\ run.mode \in Modes /\ run.pipeline \in Pipelines
         /\ run.rounds \in Nat /\ run.executed \in Nat
         /\ run.at <= Len(Ladder(run.mode)) => run.at + 1 \in 1..3
         /\ run.at = 1 => Current = run.mode /\ run.at <= Len(Ladder(run.mode))
         /\ Len(Steps) \in Nat
         /\ \A m \in Modes : LaneCount(m) \in Lanes
<1>1. run.mode \in Modes /\ run.at \in 1..3
  BY DEF Runs
<1>2. run.at <= Len(Ladder(run.mode)) => run.at + 1 \in 1..3
  BY <1>1 DEF Ladder
<1>3. run.at = 1 => Current = run.mode /\ run.at <= Len(Ladder(run.mode))
  BY <1>1 DEF Ladder, Current
<1>4. Len(Steps) \in Nat
  BY StepsAtLeastPlanned DEF Steps, Runs
<1> QED
  BY <1>1, <1>2, <1>3, <1>4 DEF Runs, LaneCount, Rank, Modes, Lanes

\* A fault is counted.
LEMMA FaultTyped ==
  ASSUME TypeOK, Fault
  PROVE  /\ spent' \in [refusals : 0..MaxRefusals, faults : 0..MaxFaults]
         /\ spent'.faults > 0
BY RunAssumption DEF Fault, TypeOK

(* A change of a run that keeps its request.                               *)
Scores == {"met", "missed"}
SameRequest(r, t) == t \in Runs /\ t.mode = r.mode /\ t.pipeline = r.pipeline

\* The ways a run's record is updated keep the request it is about.
LEMMA RunPhase ==
  ASSUME NEW r \in Runs, NEW phase \in Phases
  PROVE  SameRequest(r, [r EXCEPT !.phase = phase])
BY RunAssumption DEF Runs, SameRequest, Phases

\* Its place in the ladder.
LEMMA RunAt ==
  ASSUME NEW r \in Runs, NEW at \in 1..3
  PROVE  SameRequest(r, [r EXCEPT !.at = at])
BY RunAssumption DEF Runs, SameRequest

\* The provider it is at.
LEMMA RunOffer ==
  ASSUME NEW r \in Runs, NEW offer \in 1..Offers
  PROVE  SameRequest(r, [r EXCEPT !.offer = offer])
BY RunAssumption DEF Runs, SameRequest

\* Another round of lanes.
LEMMA RunRound ==
  ASSUME NEW r \in Runs, NEW rounds \in Nat
  PROVE  SameRequest(r, [r EXCEPT !.phase = "lanes", !.rounds = rounds])
BY RunAssumption DEF Runs, SameRequest, Phases

\* A candidate is picked without a judge.
LEMMA RunPicked ==
  ASSUME NEW r \in Runs, NEW score \in Scores
  PROVE  SameRequest(r, [r EXCEPT !.phase = "remember", !.score = score])
BY RunAssumption DEF Runs, SameRequest, Phases, Scores

\* Two candidates go to the judge.
LEMMA RunToJudge ==
  ASSUME NEW r \in Runs, NEW score \in Scores
  PROVE  SameRequest(r, [r EXCEPT !.phase = "judge", !.score = score, !.finalists = 2, !.offer = 1])
<1> /\ 1 \in 1..Offers /\ 0 \in 0..2 /\ 2 \in 0..2 /\ 2 \in 1..3
  BY RunAssumption
<1> QED
  BY DEF Runs, SameRequest, Phases, Scores

\* The candidates that are left.
LEMMA RunFinalists ==
  ASSUME NEW r \in Runs, NEW finalists \in 0..2
  PROVE  SameRequest(r, [r EXCEPT !.finalists = finalists, !.offer = 1])
<1> /\ 1 \in 1..Offers /\ 0 \in 0..2 /\ 2 \in 0..2 /\ 2 \in 1..3
  BY RunAssumption
<1> QED
  BY DEF Runs, SameRequest

\* The judge has picked one.
LEMMA RunJudged ==
  ASSUME NEW r \in Runs, NEW score \in Scores
  PROVE  SameRequest(r, [r EXCEPT !.finalists = 0, !.phase = "remember", !.score = score])
<1> /\ 1 \in 1..Offers /\ 0 \in 0..2 /\ 2 \in 0..2 /\ 2 \in 1..3
  BY RunAssumption
<1> QED
  BY DEF Runs, SameRequest, Phases, Scores

\* The round's result is remembered.
LEMMA RunRemembered ==
  ASSUME NEW r \in Runs, NEW result \in Modes, NEW executed \in Nat
  PROVE  SameRequest(r, [r EXCEPT !.phase = "ladder", !.at = 2, !.result = result, !.executed = executed])
<1> /\ 1 \in 1..Offers /\ 0 \in 0..2 /\ 2 \in 0..2 /\ 2 \in 1..3
  BY RunAssumption
<1> QED
  BY DEF Runs, SameRequest, Phases

\* A run stays about its request.
LEMMA RunStep ==
  ASSUME TypeOK, LadderInv, [Next]_vars
  PROVE  SameRequest(run, run')
<1>1. run \in Runs
  BY DEF TypeOK
<1>2. CASE Resolve \/ ResolveFails \/ EndLadder \/ CandidateIsLost
           \/ Capture \/ Release \/ SettleFails
  <2>1. \E phase \in Phases : run' = [run EXCEPT !.phase = phase]
    BY <1>2 DEF Resolve, ResolveFails, EndLadder, CandidateIsLost, Capture, Release,
                SettleFails, Phases
  <2> QED
    BY <1>1, <2>1, RunPhase
<1>3. CASE SkipRound
  <2>1. run' = [run EXCEPT !.at = run.at + 1]
    BY <1>3 DEF SkipRound
  <2>2. run.at <= Len(Ladder(run.mode))
    BY <1>3 DEF SkipRound, OnLadder
  <2>3. run.at + 1 \in 1..3
    BY <1>1, <2>2, RunTyped
  <2> QED
    BY <1>1, <2>1, <2>3, RunAt
<1>4. CASE BeginRound
  <2>1. run' = [run EXCEPT !.phase = "lanes", !.rounds = run.rounds + 1]
    BY <1>4 DEF BeginRound
  <2>2. run.rounds + 1 \in Nat
    BY <1>1, RunTyped
  <2> QED
    BY <1>1, <2>1, <2>2, RunRound
<1>5. ASSUME NEW l \in Lanes, LaneStep(l)
      PROVE  SameRequest(run, run')
  <2>1. run' = run \/ run' = [run EXCEPT !.phase = "release"]
    BY <1>5, LaneStepCases, LaneFailsKeeps DEF LaneGoesOn
  <2>2. "release" \in Phases /\ SameRequest(run, run)
    BY <1>1 DEF Phases, SameRequest
  <2> QED
    BY <1>1, <2>1, <2>2, RunPhase
<1>6. CASE Select
  <2>1. \E score \in Scores :
          \/ run' = [run EXCEPT !.phase = "remember", !.score = score]
          \/ run' = [run EXCEPT !.phase = "judge", !.score = score,
                                !.finalists = 2, !.offer = 1]
    BY <1>6 DEF Select, Scores
  <2> QED
    BY <1>1, <2>1, RunPicked, RunToJudge
<1>7. CASE AskJudge
  <2>1. run.finalists \in 0..2 /\ run.offer \in 1..Offers
    BY <1>1 DEF Runs
  <2>2. CASE run.offer < Offers /\ run' = [run EXCEPT !.offer = @ + 1]
    <3>1. run' = [run EXCEPT !.offer = run.offer + 1]
      BY <2>2
    <3>2. run.offer + 1 \in 1..Offers
      BY <2>1, <2>2, RunAssumption, SMTT(30)
    <3> QED
      BY <1>1, <3>1, <3>2, RunOffer
  <2>3. CASE Judged
    <3>1. CASE run.finalists > 1
      <4>1. run' = [run EXCEPT !.finalists = run.finalists - 1, !.offer = 1]
        BY <2>3, <3>1 DEF Judged
      <4>2. run.finalists - 1 \in 0..2
        BY <2>1, <3>1
      <4> QED
        BY <1>1, <4>1, <4>2, RunFinalists
    <3>2. CASE ~(run.finalists > 1)
      <4>1. \E score \in Scores :
              run' = [run EXCEPT !.finalists = 0, !.phase = "remember", !.score = score]
        BY <2>3, <3>2 DEF Judged, Scores
      <4> QED
        BY <1>1, <4>1, RunJudged
    <3> QED
      BY <3>1, <3>2
  <2> QED
    BY <1>7, <2>2, <2>3 DEF AskJudge
<1>8. CASE Remember
  <2>1. run.at = 1
    BY <1>8 DEF Remember, LadderInv
  <2>2. Current \in Modes
    BY <1>1, <2>1, RunTyped
  <2>3. LaneCount(Current) \in Nat /\ Len(Steps) \in Nat
    BY <1>1, <2>2, RunTyped DEF Lanes
  <2>4. run.executed + LaneCount(Current) * Len(Steps) \in Nat
    BY <1>1, <2>3, RunTyped
  <2>5. run' = [run EXCEPT !.phase = "ladder", !.at = 2, !.result = Current,
                           !.executed = run.executed + LaneCount(Current) * Len(Steps)]
    BY <1>8, <2>1 DEF Remember
  <2> QED
    BY <1>1, <2>2, <2>4, <2>5, RunRemembered
<1>9. CASE Stop \/ UNCHANGED vars
  BY <1>1, <1>9 DEF Stop, vars, SameRequest
<1> QED
  BY <1>2, <1>3, <1>4, <1>5, <1>6, <1>7, <1>8, <1>9 DEF Next

(* Steps that are not a lane's: the lanes keep their state, or all begin.  *)
LEMMA OtherSteps ==
  ASSUME TypeOK, [Next]_vars, \A l \in Lanes : ~LaneStep(l)
  PROVE  /\ UNCHANGED lane \/ BeginRound
         /\ UNCHANGED calls
         /\ judged' \in Nat
         /\ credits' \in {"held", "captured", "released"}
         /\ spent' \in [refusals : 0..MaxRefusals, faults : 0..MaxFaults]
<1>1. CASE Resolve \/ SkipRound \/ BeginRound \/ EndLadder \/ Select \/ Remember
  BY <1>1 DEF Resolve, SkipRound, BeginRound, EndLadder, Select, Remember, TypeOK
<1>2. CASE ResolveFails \/ CandidateIsLost \/ SettleFails
  BY <1>2, FaultTyped DEF ResolveFails, CandidateIsLost, SettleFails, TypeOK
<1>3. CASE AskJudge
  BY <1>3 DEF AskJudge, TypeOK
<1>4. CASE Capture \/ Release
  BY <1>4 DEF Capture, Release, TypeOK
<1>5. CASE Stop \/ UNCHANGED vars
  BY <1>5 DEF Stop, vars, TypeOK
<1> QED
  BY <1>1, <1>2, <1>3, <1>4, <1>5 DEF Next

\* Every step keeps the types.
LEMMA TypeStep ==
  ASSUME TypeOK, LadderInv, [Next]_vars
  PROVE  TypeOK'
<1>1. run' \in Runs /\ Steps' = Steps
  BY RunStep DEF Steps, SameRequest
<1>2. ASSUME NEW l \in Lanes, LaneStep(l)
      PROVE  TypeOK'
  <2>1. CASE LaneFails(l)
    BY <1>1, <1>2, <2>1, LaneStepCases, LaneFailsKeeps DEF TypeOK
  <2>2. CASE LaneGoesOn(l)
    <3>1. /\ lane' \in [Lanes -> LaneStates]
          /\ \A k \in Lanes : lane'[k].attempt <= MaxAttempts(k)
                              /\ lane'[k].step <= Len(Steps)
      BY <2>2 DEF LaneGoesOn, TypeOK
    <3> QED
      BY <1>1, <1>2, <3>1, LaneStepCases DEF TypeOK
  <2> QED
    BY <1>2, <2>1, <2>2, LaneStepCases
<1>3. ASSUME \A l \in Lanes : ~LaneStep(l)
      PROVE  TypeOK'
  <2>1. /\ lane' \in [Lanes -> LaneStates]
        /\ \A k \in Lanes : lane'[k].attempt <= MaxAttempts(k)
                            /\ lane'[k].step <= Len(Steps)
    <3>1. CASE UNCHANGED lane
      BY <3>1 DEF TypeOK
    <3>2. CASE BeginRound
      <4>1. 1 \in 1..Offers /\ 1 <= Len(Steps)
        BY RunAssumption, StepsAtLeastPlanned DEF TypeOK, Runs, Steps
      <4>2. \A s \in {Ready, Unused} :
              s \in LaneStates /\ s.attempt = 1 /\ s.step = 1
        BY <4>1 DEF Ready, Unused, LaneStates, Lanes
      <4>3. \A k \in Lanes : lane'[k] \in {Ready, Unused} /\ 1 <= MaxAttempts(k)
        BY <3>2 DEF BeginRound, MaxAttempts, Lanes
      <4>4. lane' = [k \in Lanes |-> lane'[k]]
        BY <3>2 DEF BeginRound
      <4> QED
        BY <4>1, <4>2, <4>3, <4>4
    <3> QED
      BY <1>3, <3>1, <3>2, OtherSteps
  <2> QED
    BY <1>1, <1>3, <2>1, OtherSteps DEF TypeOK
<1> QED
  BY <1>2, <1>3

-----------------------------------------------------------------------------
(* The inductive invariant.                                                *)

\* Every step keeps the ladder's single round.
LEMMA LadderStep ==
  ASSUME TypeOK, LadderInv, LaneInv, [Next]_vars
  PROVE  LadderInv'
<1>1. /\ run \in Runs /\ run' \in Runs
      /\ run'.mode = run.mode /\ Steps' = Steps
  BY RunStep DEF TypeOK, SameRequest, Steps
<1>2. run.mode # NoResult
  BY <1>1 DEF Runs, Modes, NoResult
<1>3. ASSUME NEW phase \in {"release", "failed"}, run' = [run EXCEPT !.phase = phase],
             phase = "release" => run.rounds = 1
      PROVE  LadderInv'
  BY <1>1, <1>3 DEF LadderInv, Runs
<1>4. CASE Resolve \/ ResolveFails
  BY <1>1, <1>4 DEF LadderInv, Runs, Resolve, ResolveFails
<1>5. CASE SkipRound
  <2>1. run.rounds = 1
    BY <1>5, OneRoundFits DEF SkipRound, LadderInv
  <2> QED
    BY <1>1, <1>5, <2>1 DEF LadderInv, Runs, SkipRound, OnLadder
<1>6. CASE BeginRound
  <2>1. run.rounds = 0 /\ run.phase = "ladder"
    BY <1>6, OneRoundFits DEF BeginRound, LadderInv, OnLadder
  <2> QED
    BY <1>1, <1>6, <2>1 DEF LadderInv, Runs, BeginRound
<1>7. CASE EndLadder
  <2>1. run.at # 1
    BY <1>1, <1>7, RunTyped DEF EndLadder
  <2>2. run.rounds = 1 /\ run.phase = "ladder" /\ run.result = run.mode
    BY <1>7, <2>1 DEF LadderInv, EndLadder
  <2>3. run' = [run EXCEPT !.phase = "capture"]
    BY <1>2, <1>7, <2>2 DEF EndLadder
  <2> QED
    BY <1>1, <2>2, <2>3 DEF LadderInv, Runs
<1>8. ASSUME NEW l \in Lanes, LaneStep(l)
      PROVE  LadderInv'
  <2>1. run' = run \/ run' = [run EXCEPT !.phase = "release"]
    BY <1>8, LaneStepCases, LaneFailsKeeps DEF LaneGoesOn
  <2>2. run.rounds = 1
    BY <1>8, LaneStepCases DEF LaneInv, LadderInv
  <2> QED
    BY <1>1, <1>3, <2>1, <2>2 DEF LadderInv
<1>9. CASE Select \/ AskJudge
  <2>1. /\ run.phase \in {"lanes", "judge"} /\ run'.phase \in {"judge", "remember"}
        /\ run'.at = run.at /\ run'.rounds = run.rounds
        /\ run'.result = run.result /\ run'.executed = run.executed
    BY <1>1, <1>9, ZenonT(45) DEF Select, AskJudge, Judged, Runs
  <2> QED
    BY <1>1, <2>1 DEF LadderInv
<1>10. CASE Remember
  <2>1. run.at = 1 /\ run.rounds = 1 /\ run.executed = 0 /\ run.phase = "remember"
    BY <1>10 DEF LadderInv, Remember
  <2>2. Current = run.mode /\ LaneCount(Current) * Len(Steps) \in Nat
    BY <1>1, <2>1, RunTyped DEF Lanes
  <2>3. /\ run'.phase = "ladder" /\ run'.rounds = 1 /\ run'.result = run.mode
        /\ run'.executed = LaneCount(run.mode) * Len(Steps)
    BY <1>1, <1>10, <2>1, <2>2 DEF Remember, Runs
  <2> QED
    BY <1>1, <1>2, <2>3 DEF LadderInv
<1>11. CASE CandidateIsLost
  BY <1>3, <1>11 DEF CandidateIsLost, LadderInv
<1>12. CASE Capture
  BY <1>1, <1>2, <1>12 DEF LadderInv, Capture, Runs
<1>13. CASE Release \/ SettleFails
  BY <1>3, <1>13 DEF Release, SettleFails
<1>14. CASE Stop \/ UNCHANGED vars
  BY <1>1, <1>14 DEF LadderInv, Stop, vars
<1> QED
  BY <1>4, <1>5, <1>6, <1>7, <1>8, <1>9, <1>10, <1>11, <1>12, <1>13, <1>14 DEF Next

\* Every step keeps lanes inside the phase that runs them.
LEMMA LaneInvStep ==
  ASSUME TypeOK, LadderInv, LaneInv, [Next]_vars
  PROVE  LaneInv'
<1>1. run \in Runs /\ run' \in Runs /\ run'.mode = run.mode
  BY RunStep DEF TypeOK, SameRequest
<1>2. LaneCount(run.mode) \in Lanes /\ run.rounds \in {0, 1}
  BY <1>1, RunTyped DEF LadderInv
<1>3. ASSUME NEW l \in Lanes, LaneStep(l)
      PROVE  LaneInv'
  <2>1. run.phase = "lanes" /\ l <= LaneCount(run.mode)
    BY <1>3, LaneStepCases DEF LaneInv
  <2>2. CASE LaneFails(l)
    <3>1. \A k \in Lanes : ~InFlight(k)'
      BY <2>2, LaneFailsKeeps
    <3>2. run'.phase = "release"
      BY <1>1, <2>2, LaneFailsKeeps DEF Runs
    <3> QED
      BY <3>1, <3>2 DEF LaneInv
  <2>3. CASE LaneGoesOn(l)
    <3>1. run' = run /\ \A k \in Lanes : k # l => lane'[k] = lane[k]
      BY <2>3 DEF LaneGoesOn, TypeOK
    <3>2. \A k \in Lanes : InFlight(k)' => k <= LaneCount(run'.mode)
      BY <2>1, <3>1 DEF LaneInv, InFlight
    <3> QED
      BY <2>1, <3>1, <3>2 DEF LaneInv
  <2> QED
    BY <1>3, <2>2, <2>3, LaneStepCases
<1>4. CASE BeginRound
  <2>1. run'.phase = "lanes"
    BY <1>1, <1>4 DEF BeginRound, Runs
  <2>2. Used = 1..LaneCount(run.mode)
    BY <1>2, <1>4, OneRoundFits DEF BeginRound, Used
  <2>3. ASSUME NEW l \in Lanes, InFlight(l)'
        PROVE  l <= LaneCount(run'.mode)
    BY <1>1, <1>2, <1>4, <2>2, <2>3 DEF BeginRound, InFlight, Unused, Lanes
  <2> QED
    BY <2>1, <2>3 DEF LaneInv
<1>5. CASE Select
  <2>1. run.phase = "lanes" /\ run'.phase \in {"judge", "remember"} /\ UNCHANGED lane
    BY <1>1, <1>5 DEF Select, Runs
  <2>2. Used = 1..LaneCount(run.mode)
    BY <1>1, <2>1, RunTyped DEF Used, LadderInv
  <2>3. \A l \in 1..LaneCount(run.mode) : lane[l].at = "done"
    BY <1>5, <2>2 DEF Select
  <2>4. ASSUME NEW l \in Lanes
        PROVE  ~InFlight(l)
    <3>1. CASE l <= LaneCount(run.mode)
      <4>1. l \in 1..LaneCount(run.mode)
        BY <1>2, <3>1 DEF Lanes
      <4> QED
        BY <2>3, <4>1 DEF InFlight
    <3>2. CASE ~(l <= LaneCount(run.mode))
      BY <3>2 DEF LaneInv
    <3> QED
      BY <3>1, <3>2
  <2> QED
    BY <1>1, <2>1, <2>3, <2>4 DEF LaneInv, InFlight
<1>6. ASSUME UNCHANGED lane, run.phase # "lanes", run'.phase # "lanes",
             \/ run'.phase \in {"release", "failed"}
             \/ run'.phase \in {"judge", "remember", "capture", "completed", "ladder"}
                  /\ run'.rounds = run.rounds
                  /\ (run'.phase = "ladder" /\ run.phase = "called" => run.rounds = 0)
                  /\ (run'.phase = "capture" => run.rounds = 1 /\ run.phase = "ladder")
                  /\ (run'.phase \notin {"ladder", "capture"} =>
                       run.phase \in {"judge", "remember", "capture", "completed"})
                  /\ run.phase \in {"called", "ladder", "judge", "remember", "capture",
                                    "completed"}
      PROVE  LaneInv'
  BY <1>1, <1>6 DEF LaneInv, InFlight
<1>7. CASE Resolve \/ ResolveFails \/ SkipRound \/ CandidateIsLost
           \/ Capture \/ Release \/ SettleFails
  <2>1. CASE Resolve \/ ResolveFails \/ SkipRound
    BY <1>1, <1>6, <2>1 DEF Resolve, ResolveFails, SkipRound, OnLadder, LadderInv, Runs
  <2>2. CASE CandidateIsLost \/ Capture \/ Release \/ SettleFails
    BY <1>1, <1>6, <2>2 DEF CandidateIsLost, Capture, Release, SettleFails, Runs
  <2> QED
    BY <1>7, <2>1, <2>2
<1>8. CASE EndLadder
  <2>1. run.at # 1
    BY <1>1, <1>8, RunTyped DEF EndLadder
  <2>2. run.rounds = 1 /\ run.phase = "ladder" /\ run'.phase \in {"capture", "release"}
    BY <1>1, <1>8, <2>1 DEF LadderInv, EndLadder, Runs
  <2> QED
    BY <1>1, <1>6, <1>8, <2>2 DEF EndLadder, Runs
<1>9. CASE AskJudge
  BY <1>1, <1>6, <1>9 DEF AskJudge, Judged, Runs
<1>10. CASE Remember
  <2>1. run'.phase = "ladder" /\ run'.rounds = run.rounds /\ UNCHANGED lane
    BY <1>1, <1>10 DEF Remember, Runs
  <2> QED
    BY <1>1, <1>6, <1>10, <2>1 DEF Remember
<1>11. CASE Stop \/ UNCHANGED vars
  BY <1>11 DEF LaneInv, InFlight, Stop, vars
<1> QED
  BY <1>3, <1>4, <1>5, <1>7, <1>8, <1>9, <1>10, <1>11 DEF Next

\* Every step keeps the credits in step with the result.
LEMMA CreditStep ==
  ASSUME TypeOK, CreditInv, LaneInv, [Next]_vars
  PROVE  CreditInv'
<1>1. /\ run \in Runs /\ credits \in {"held", "captured", "released"}
      /\ spent.faults \in Nat
  BY DEF TypeOK
<1>2. ASSUME NEW l \in Lanes, LaneStep(l)
      PROVE  CreditInv'
  <2>1. run.phase = "lanes" /\ UNCHANGED credits
    BY <1>2, LaneStepCases DEF LaneInv
  <2>2. run' = run \/ run' = [run EXCEPT !.phase = "release"]
    BY <1>2, LaneStepCases, LaneFailsKeeps DEF LaneGoesOn
  <2> QED
    BY <1>1, <2>1, <2>2 DEF CreditInv, Runs
<1>3. CASE ResolveFails \/ CandidateIsLost \/ SettleFails
  <2>1. spent'.faults > 0
    BY <1>3, FaultTyped DEF ResolveFails, CandidateIsLost, SettleFails
  <2> QED
    BY <1>1, <1>3, <2>1 DEF ResolveFails, CandidateIsLost, SettleFails, CreditInv, Runs
<1>4. CASE Resolve \/ SkipRound \/ BeginRound \/ EndLadder
  BY <1>1, <1>4 DEF Resolve, SkipRound, OnLadder, BeginRound, EndLadder, CreditInv, Runs
<1>5. CASE Select \/ AskJudge \/ Remember
  BY <1>1, <1>5 DEF Select, AskJudge, Judged, Remember, CreditInv, Runs
<1>6. CASE Capture \/ Release
  BY <1>1, <1>6 DEF Capture, Release, CreditInv, Runs
<1>7. CASE Stop \/ UNCHANGED vars
  BY <1>7 DEF Stop, vars, CreditInv
<1> QED
  BY <1>2, <1>3, <1>4, <1>5, <1>6, <1>7 DEF Next

\* The run has not begun.
LEMMA InitHolds ==
  Init => IInv
<1> SUFFICES ASSUME Init
             PROVE  IInv
  OBVIOUS
<1>1. run \in Runs
  BY RunAssumption DEF Init, Runs, Phases, Modes, NoResult
<1>2. 1 <= Len(Steps)
  BY <1>1, StepsAtLeastPlanned DEF Steps, Runs
<1>3. TypeOK
  <2>1. Unused \in LaneStates /\ Unused.attempt = 1 /\ Unused.step = 1
    BY RunAssumption DEF Unused, LaneStates, Lanes
  <2>2. \A l \in Lanes : lane[l] = Unused /\ 1 <= MaxAttempts(l)
    BY DEF Init, MaxAttempts, Lanes
  <2>3. lane \in [Lanes -> LaneStates] /\ calls \in [Lanes -> Nat]
    BY <2>1 DEF Init
  <2> QED
    BY <1>1, <1>2, <2>1, <2>2, <2>3, RunAssumption DEF Init, TypeOK
<1>4. LadderInv
  BY DEF Init, LadderInv, NoResult
<1>5. LaneInv
  BY DEF Init, LaneInv, InFlight, Unused
<1>6. CreditInv
  BY DEF Init, CreditInv
<1> QED
  BY <1>3, <1>4, <1>5, <1>6 DEF IInv

\* All of it, in every state.
LEMMA Inductive ==
  Spec => []IInv
<1>1. IInv /\ [Next]_vars => IInv'
  BY TypeStep, LadderStep, LaneInvStep, CreditStep DEF IInv
<1> QED
  BY <1>1, InitHolds, PTL DEF Spec

-----------------------------------------------------------------------------
(* The theorems.                                                           *)

\* The run, its lanes and its counters keep their types, whatever fails.
THEOREM RunTypeCorrect == Spec => []TypeOK
<1>1. IInv => TypeOK
  BY DEF IInv
<1> QED
  BY <1>1, Inductive, PTL

\* For every pipeline the ladder's second mode is never run, and the round
\* that is run uses no more than the budget if the pipeline sanitizes.
THEOREM EscalationNeverRuns == Spec => []LadderStaysInBudget
<1>1. IInv => LadderStaysInBudget
  <2> SUFFICES ASSUME IInv
               PROVE  LadderStaysInBudget
    OBVIOUS
  <2>1. run \in Runs
    BY DEF IInv, TypeOK
  <2>2. /\ Len(run.pipeline) \in Nat
        /\ LaneCount(run.mode) \in Lanes /\ LaneCount(run.mode) = Rank[run.mode]
    BY <2>1, RunTyped, StepsAtLeastPlanned DEF LaneCount
  <2>3. RuntimeSteps(run.pipeline) = run.pipeline =>
          run.executed \in {0, Rank[run.mode] * Len(run.pipeline)}
    BY <2>2 DEF IInv, LadderInv, Steps
  <2>4. /\ 0 <= Len(run.pipeline) * Rank[run.mode]
        /\ Rank[run.mode] * Len(run.pipeline) <= Len(run.pipeline) * Rank[run.mode]
    BY <2>2 DEF Lanes
  <2> QED
    BY <2>3, <2>4 DEF IInv, LadderInv, LadderStaysInBudget, MaxLLMCalls
<1> QED
  BY <1>1, Inductive, PTL

\* No lane works and no request is in flight outside the phase of the lanes:
\* the credits are settled by a run that is at rest.
THEOREM SettledAtRest == Spec => []QuietOnceSettled
<1>1. IInv => QuietOnceSettled
  BY DEF IInv, LaneInv, QuietOnceSettled
<1> QED
  BY <1>1, Inductive, PTL

\* Credits are captured for a whole result and released for none; they stay
\* held only where resolving or settling failed.
THEOREM CreditsFollowTheResult == Spec => []SettlementFollowsOutcome
<1>1. IInv => SettlementFollowsOutcome
  <2> SUFFICES ASSUME IInv
               PROVE  SettlementFollowsOutcome
    OBVIOUS
  <2>1. run.phase = "completed" =>
          /\ run.result = run.mode
          /\ \A l \in 1..LaneCount(run.mode) : lane[l].at = "done"
    BY DEF IInv, LadderInv, LaneInv
  <2> QED
    BY <2>1 DEF IInv, CreditInv, SettlementFollowsOutcome, Ended
<1> QED
  BY <1>1, Inductive, PTL

-----------------------------------------------------------------------------
(* What a run asked for.  The LLM steps a lane has paid for are the ones   *)
(* behind it and the one it is asking about or was told: a retry gives the *)
(* step of the failed attempt back, and the refusal that made it fail is   *)
(* counted apart, so that requests = paid steps + refusals at every step.  *)
Paid(s, steps) ==
  {i \in 1..Len(steps) :
     /\ steps[i] = "llm"
     /\ i < s.step \/ (i = s.step /\ s.at \in {"asking", "told", "done"})}

PaidCount(l) == Cardinality(Paid(lane[l], Steps))

Counted ==
  \/ run.phase \in {"lanes", "judge", "remember", "capture", "completed"}
  \/ run.phase = "ladder" /\ run.rounds = 1

(* What is true of one lane whatever happened to the others.               *)
LanePlaced(s, steps) ==
  /\ s.at = "done" => s.step = Len(steps)
  /\ s.at = "unused" => s.step = 1
  /\ s.at = "asking" => steps[s.step] = "llm"

CallInv ==
  /\ \A l \in Lanes : LanePlaced(lane[l], Steps)
  /\ run.rounds = 0 => spent.refusals = 0 /\ \A l \in Lanes : calls[l] = 0
  /\ Counted =>
       /\ \A l \in Lanes : l > LaneCount(run.mode) => lane[l].at = "unused"
       /\ calls[1] + calls[2] + calls[3] =
            PaidCount(1) + PaidCount(2) + PaidCount(3) + spent.refusals

(* Paid steps are finitely many.                                           *)
LEMMA PaidIsFinite ==
  ASSUME NEW s, NEW steps, Len(steps) \in Nat
  PROVE  IsFiniteSet(Paid(s, steps)) /\ Cardinality(Paid(s, steps)) \in Nat
<1>1. IsFiniteSet(1..Len(steps))
  BY FS_Interval
<1>2. Paid(s, steps) \in SUBSET (1..Len(steps))
  BY DEF Paid
<1> QED
  BY <1>1, <1>2, FS_Subset, FS_CardinalityType

(* What each step of a lane does to the steps it has paid for.             *)
LEMMA PaidMoves ==
  ASSUME NEW steps, Len(steps) \in Nat, NEW s \in LaneStates, s.step <= Len(steps)
  PROVE  /\ s.at = "ready" /\ steps[s.step] = "llm" =>
              Cardinality(Paid(Asking(s), steps)) = Cardinality(Paid(s, steps)) + 1
         /\ s.at = "ready" /\ steps[s.step] # "llm" =>
              Paid(Moved(s, "told"), steps) = Paid(s, steps)
         /\ s.at = "asking" => Paid(Moved(s, "told"), steps) = Paid(s, steps)
         /\ Paid(NextOffer(s), steps) = Paid(s, steps)
         /\ s.at = "ready" => Paid(Retried(s), steps) = Paid(s, steps)
         /\ s.at = "asking" /\ steps[s.step] = "llm" =>
              Cardinality(Paid(s, steps)) = Cardinality(Paid(Retried(s), steps)) + 1
         /\ s.at = "told" => /\ Paid(Moved(s, "done"), steps) = Paid(s, steps)
                             /\ Paid(Forward(s), steps) = Paid(s, steps)
<1>1. s.step \in 1..Len(steps)
  BY DEF LaneStates
<1>2. ASSUME s.at = "ready", steps[s.step] = "llm"
      PROVE  Cardinality(Paid(Asking(s), steps)) = Cardinality(Paid(s, steps)) + 1
  <2>1. Asking(s).at = "asking" /\ Asking(s).step = s.step
    BY DEF Asking, LaneStates
  <2>2. Paid(Asking(s), steps) = Paid(s, steps) \union {s.step} /\ s.step \notin Paid(s, steps)
    BY <1>1, <1>2, <2>1 DEF Paid
  <2> QED
    BY <2>2, PaidIsFinite, FS_AddElement
<1>3. ASSUME s.at = "ready", steps[s.step] # "llm"
      PROVE  Paid(Moved(s, "told"), steps) = Paid(s, steps)
  <2>1. Moved(s, "told").at = "told" /\ Moved(s, "told").step = s.step
    BY DEF Moved, LaneStates
  <2> QED
    BY <1>3, <2>1 DEF Paid
<1>4. ASSUME s.at = "asking"
      PROVE  Paid(Moved(s, "told"), steps) = Paid(s, steps)
  <2>1. Moved(s, "told").at = "told" /\ Moved(s, "told").step = s.step
    BY DEF Moved, LaneStates
  <2> QED
    BY <1>4, <2>1 DEF Paid
<1>5. Paid(NextOffer(s), steps) = Paid(s, steps)
  <2>1. NextOffer(s).at = s.at /\ NextOffer(s).step = s.step
    BY DEF NextOffer, LaneStates
  <2> QED
    BY <2>1 DEF Paid
<1>6. Retried(s).at = "ready" /\ Retried(s).step = s.step
  BY DEF Retried, LaneStates
<1>7. ASSUME s.at = "ready"
      PROVE  Paid(Retried(s), steps) = Paid(s, steps)
  BY <1>6, <1>7 DEF Paid
<1>8. ASSUME s.at = "asking", steps[s.step] = "llm"
      PROVE  Cardinality(Paid(s, steps)) = Cardinality(Paid(Retried(s), steps)) + 1
  <2>1. /\ Paid(s, steps) = Paid(Retried(s), steps) \union {s.step}
        /\ s.step \notin Paid(Retried(s), steps)
    BY <1>1, <1>6, <1>8 DEF Paid
  <2> QED
    BY <2>1, PaidIsFinite, FS_AddElement
<1>9. ASSUME s.at = "told"
      PROVE  /\ Paid(Moved(s, "done"), steps) = Paid(s, steps)
             /\ Paid(Forward(s), steps) = Paid(s, steps)
  <2>1. Moved(s, "done").at = "done" /\ Moved(s, "done").step = s.step
    BY DEF Moved, LaneStates
  <2>2. Forward(s).at = "ready" /\ Forward(s).step = s.step + 1
    BY DEF Forward, Ready, Unused
  <2>3. s.step \in Nat
    BY DEF LaneStates
  <2>4. \A i \in 1..Len(steps) : i < s.step + 1 <=> i < s.step \/ i = s.step
    BY <2>3
  <2>5. Paid(Forward(s), steps) = Paid(s, steps)
    BY <1>9, <2>2, <2>4 DEF Paid
  <2> QED
    BY <1>9, <2>1, <2>5 DEF Paid
<1> QED
  BY <1>2, <1>3, <1>4, <1>5, <1>7, <1>8, <1>9

(* A lane that goes on moves its requests, its paid steps and the refusals *)
(* together.                                                               *)
LaneAsks(l) ==
  \E t \in LaneStates :
    /\ t.step <= Len(Steps) /\ t.at # "unused" /\ LanePlaced(t, Steps)
    /\ lane' = [lane EXCEPT ![l] = t]
    /\ \A k \in Lanes : k # l => calls'[k] = calls[k]
    /\ calls'[l] + Cardinality(Paid(lane[l], Steps)) + spent.refusals
         = calls[l] + Cardinality(Paid(t, Steps)) + spent'.refusals

(* Every step of a lane is such a move, or fails the run.                  *)
LEMMA LaneCallStep ==
  ASSUME TypeOK, CallInv, NEW l \in Lanes, LaneStep(l)
  PROVE  LaneAsks(l) \/ LaneFails(l)
<1> DEFINE s == lane[l]
           more == [calls EXCEPT ![l] = @ + 1]
<1>1. /\ s \in LaneStates /\ s.attempt <= MaxAttempts(l) /\ s.step <= Len(Steps)
      /\ LanePlaced(s, Steps)
      /\ calls[l] \in Nat /\ spent.refusals \in Nat
  BY DEF TypeOK, CallInv
<1>2. Len(Steps) \in Nat
  BY StepsAtLeastPlanned DEF Steps, TypeOK, Runs
<1>3. \A t : Cardinality(Paid(t, Steps)) \in Nat
  BY <1>2, PaidIsFinite
<1>4. more[l] = calls[l] + 1 /\ \A k \in Lanes : k # l => more[k] = calls[k]
  BY DEF TypeOK
<1> HIDE DEF more
<1>5. ASSUME Fault PROVE spent'.refusals = spent.refusals
  BY <1>5 DEF Fault, TypeOK
\* an attempt that fails, from a request refused or before one
<1>6. ASSUME AttemptFails(l), UNCHANGED calls,
             \/ s.at = "ready" /\ spent'.refusals = spent.refusals
             \/ s.at = "asking" /\ spent'.refusals = spent.refusals + 1
      PROVE  LaneAsks(l) \/ LaneFails(l)
  <2>1. CASE s.attempt < MaxAttempts(l)
    <3>1. lane' = [lane EXCEPT ![l] = Retried(s)]
      BY <1>6, <2>1 DEF AttemptFails, TypeOK, Retried
    <3>2. s.attempt < 3
      BY <1>1, <2>1 DEF LaneStates, Lanes, MaxAttempts
    <3>3. Retried(s) \in LaneStates /\ Retried(s).step = s.step /\ Retried(s).at = "ready"
      BY <1>1, <3>2, LaneStateSteps DEF Retried, LaneStates
    <3>4. \/ /\ spent'.refusals = spent.refusals
             /\ Cardinality(Paid(Retried(s), Steps)) = Cardinality(Paid(s, Steps))
          \/ /\ spent'.refusals = spent.refusals + 1
             /\ Cardinality(Paid(s, Steps)) = Cardinality(Paid(Retried(s), Steps)) + 1
      BY <1>1, <1>2, <1>6, PaidMoves DEF LanePlaced
    <3>5. calls'[l] + Cardinality(Paid(s, Steps)) + spent.refusals
            = calls[l] + Cardinality(Paid(Retried(s), Steps)) + spent'.refusals
      BY <1>1, <1>3, <1>6, <3>4
    <3>6. LanePlaced(Retried(s), Steps)
      BY <3>3 DEF LanePlaced
    <3> QED
      BY <1>1, <1>6, <3>1, <3>3, <3>5, <3>6 DEF LaneAsks
  <2>2. CASE ~(s.attempt < MaxAttempts(l))
    BY <1>6, <2>2 DEF AttemptFails
  <2> QED
    BY <2>1, <2>2
<1>7. CASE StartAttempt(l)
  <2>1. CASE Steps[s.step] = "llm"
    <3>1. lane' = [lane EXCEPT ![l] = Asking(s)] /\ calls' = more /\ spent' = spent
      BY <1>7, <2>1 DEF StartAttempt, TypeOK, Asking, more
    <3>2. Asking(s) \in LaneStates /\ Asking(s).step = s.step /\ Asking(s).at = "asking"
      BY <1>1, LaneStateSteps DEF Asking, LaneStates, Keeps
    <3>3. Cardinality(Paid(Asking(s), Steps)) = Cardinality(Paid(s, Steps)) + 1
      BY <1>1, <1>2, <1>7, <2>1, PaidMoves DEF StartAttempt
    <3>4. calls'[l] + Cardinality(Paid(s, Steps)) + spent.refusals
            = calls[l] + Cardinality(Paid(Asking(s), Steps)) + spent'.refusals
      BY <1>1, <1>3, <1>4, <3>1, <3>3
    <3>5. LanePlaced(Asking(s), Steps)
      BY <2>1, <3>2 DEF LanePlaced
    <3> QED
      BY <1>1, <1>4, <3>1, <3>2, <3>4, <3>5 DEF LaneAsks
  <2>2. CASE Steps[s.step] # "llm"
    <3>1. lane' = [lane EXCEPT ![l] = Moved(s, "told")] /\ calls' = calls /\ spent' = spent
      BY <1>7, <2>2 DEF StartAttempt, TypeOK, Moved
    <3>2. /\ Moved(s, "told") \in LaneStates
          /\ Moved(s, "told").step = s.step /\ Moved(s, "told").at = "told"
      BY <1>1, LaneStateSteps DEF Moved, LaneStates, Keeps
    <3>3. Paid(Moved(s, "told"), Steps) = Paid(s, Steps)
      BY <1>1, <1>2, <1>7, <2>2, PaidMoves DEF StartAttempt
    <3>4. LanePlaced(Moved(s, "told"), Steps)
      BY <3>2 DEF LanePlaced
    <3> QED
      BY <1>1, <3>1, <3>2, <3>3, <3>4 DEF LaneAsks
  <2> QED
    BY <2>1, <2>2
<1>8. CASE SkillFails(l)
  BY <1>5, <1>6, <1>8 DEF SkillFails
<1>9. CASE Answer(l)
  <2>1. lane' = [lane EXCEPT ![l] = Moved(s, "told")] /\ calls' = calls /\ spent' = spent
    BY <1>9 DEF Answer, TypeOK, Moved
  <2>2. /\ Moved(s, "told") \in LaneStates
        /\ Moved(s, "told").step = s.step /\ Moved(s, "told").at = "told"
    BY <1>1, LaneStateSteps DEF Moved, LaneStates, Keeps
  <2>3. Paid(Moved(s, "told"), Steps) = Paid(s, Steps)
    BY <1>1, <1>2, <1>9, PaidMoves DEF Answer
  <2>4. LanePlaced(Moved(s, "told"), Steps)
    BY <2>2 DEF LanePlaced
  <2> QED
    BY <1>1, <2>1, <2>2, <2>3, <2>4 DEF LaneAsks
<1>10. CASE Refuse(l)
  <2>1. s.at = "asking" /\ spent'.refusals = spent.refusals + 1
    BY <1>10 DEF Refuse, TypeOK
  <2>2. CASE s.offer < Offers
    <3>1. lane' = [lane EXCEPT ![l] = NextOffer(s)] /\ calls' = more
      BY <1>10, <2>2 DEF Refuse, TypeOK, NextOffer, more
    <3>2. /\ NextOffer(s) \in LaneStates
          /\ NextOffer(s).step = s.step /\ NextOffer(s).at = "asking"
      BY <1>1, <2>1, <2>2, LaneStateSteps DEF NextOffer, LaneStates, Keeps
    <3>3. Paid(NextOffer(s), Steps) = Paid(s, Steps)
      BY <1>1, <1>2, PaidMoves
    <3>4. calls'[l] + Cardinality(Paid(s, Steps)) + spent.refusals
            = calls[l] + Cardinality(Paid(NextOffer(s), Steps)) + spent'.refusals
      BY <1>1, <1>3, <1>4, <2>1, <3>1, <3>3, SMTT(30)
    <3>5. LanePlaced(NextOffer(s), Steps)
      BY <1>1, <2>1, <3>2 DEF LanePlaced
    <3> QED
      BY <1>1, <1>4, <3>1, <3>2, <3>4, <3>5 DEF LaneAsks
  <2>3. CASE ~(s.offer < Offers)
    BY <1>6, <1>10, <2>1, <2>3 DEF Refuse
  <2> QED
    BY <2>2, <2>3
<1>11. CASE NextStep(l)
  <2>1. calls' = calls /\ spent' = spent /\ s.at = "told"
    BY <1>11 DEF NextStep
  <2>2. CASE s.step = Len(Steps)
    <3>1. lane' = [lane EXCEPT ![l] = Moved(s, "done")]
      BY <1>11, <2>2 DEF NextStep, TypeOK, Moved
    <3>2. /\ Moved(s, "done") \in LaneStates
          /\ Moved(s, "done").step = s.step /\ Moved(s, "done").at = "done"
      BY <1>1, LaneStateSteps DEF Moved, LaneStates, Keeps
    <3>3. Paid(Moved(s, "done"), Steps) = Paid(s, Steps)
      BY <1>1, <1>2, <2>1, PaidMoves
    <3>4. LanePlaced(Moved(s, "done"), Steps)
      BY <2>2, <3>2 DEF LanePlaced
    <3> QED
      BY <1>1, <2>1, <3>1, <3>2, <3>3, <3>4 DEF LaneAsks
  <2>3. CASE s.step # Len(Steps)
    <3>1. lane' = [lane EXCEPT ![l] = Forward(s)]
      BY <1>11, <2>3 DEF NextStep, TypeOK, Forward
    <3>2. /\ Forward(s) \in LaneStates
          /\ Forward(s).step = s.step + 1 /\ Forward(s).at = "ready"
      BY <1>1, LaneStateSteps DEF Forward, Ready, Unused
    <3>3. s.step + 1 <= Len(Steps)
      BY <1>1, <1>2, <2>3 DEF LaneStates
    <3>4. Paid(Forward(s), Steps) = Paid(s, Steps)
      BY <1>1, <1>2, <2>1, PaidMoves
    <3>5. LanePlaced(Forward(s), Steps)
      BY <3>2 DEF LanePlaced
    <3> QED
      BY <1>1, <2>1, <3>1, <3>2, <3>3, <3>4, <3>5 DEF LaneAsks
  <2> QED
    BY <2>2, <2>3
<1>12. CASE StepIsLost(l)
  BY <1>12 DEF StepIsLost
<1> QED
  BY <1>7, <1>8, <1>9, <1>10, <1>11, <1>12 DEF LaneStep

(* No step loses a request or counts one that was not made.                *)
LEMMA CallStep ==
  ASSUME IInv, CallInv, [Next]_vars
  PROVE  CallInv'
<1>0. TypeOK /\ LadderInv /\ LaneInv
  BY DEF IInv
<1>1. /\ run \in Runs /\ run' \in Runs
      /\ run'.mode = run.mode /\ Steps' = Steps
  BY <1>0, RunStep DEF TypeOK, SameRequest, Steps
<1>2. Len(Steps) \in Nat /\ LaneCount(run.mode) \in Lanes
  BY <1>1, RunTyped
<1>3. \A t : Cardinality(Paid(t, Steps)) \in Nat
  BY <1>2, PaidIsFinite
<1>4. ASSUME NEW l \in Lanes, LaneStep(l)
      PROVE  CallInv'
  <2>1. run.phase = "lanes" /\ l <= LaneCount(run.mode) /\ run.rounds # 0
    BY <1>0, <1>4, LaneStepCases DEF LaneInv, LadderInv
  <2>2. CASE LaneFails(l)
    <3>1. run'.phase = "release" /\ run'.rounds = run.rounds
      BY <1>0, <1>1, <2>2, LaneFailsKeeps DEF Runs
    <3>2. ASSUME NEW k \in Lanes
          PROVE  LanePlaced(lane'[k], Steps)
      <4>1. lane[k] \in LaneStates /\ LanePlaced(lane[k], Steps)
        BY <1>0 DEF TypeOK, CallInv
      <4>2. \/ lane'[k] = [lane[k] EXCEPT !.at = "failed"]
            \/ lane'[k] = [lane[k] EXCEPT !.at = "interrupted"]
            \/ lane'[k] = lane[k]
        BY <2>2 DEF LaneFails
      <4> QED
        BY <4>1, <4>2 DEF LanePlaced, LaneStates
    <3> QED
      BY <1>1, <2>1, <3>1, <3>2 DEF CallInv, Counted
  <2>3. CASE LaneAsks(l) /\ ~LaneFails(l)
    <3>1. run' = run
      BY <1>0, <1>4, <2>3, LaneStepCases DEF LaneGoesOn
    <3>2. PICK t \in LaneStates :
             /\ t.step <= Len(Steps) /\ t.at # "unused" /\ LanePlaced(t, Steps)
             /\ lane' = [lane EXCEPT ![l] = t]
             /\ \A k \in Lanes : k # l => calls'[k] = calls[k]
             /\ calls'[l] + Cardinality(Paid(lane[l], Steps)) + spent.refusals
                  = calls[l] + Cardinality(Paid(t, Steps)) + spent'.refusals
      BY <2>3 DEF LaneAsks
    <3>3. lane'[l] = t /\ \A k \in Lanes : k # l => lane'[k] = lane[k]
      BY <1>0, <3>2 DEF TypeOK
    <3>4. calls \in [Lanes -> Nat] /\ calls' \in [Lanes -> Nat]
          /\ spent.refusals \in Nat /\ spent'.refusals \in Nat
      BY <1>0, <1>4, LaneStepCases DEF TypeOK
    <3>5. calls[1] + calls[2] + calls[3] =
            Cardinality(Paid(lane[1], Steps)) + Cardinality(Paid(lane[2], Steps))
              + Cardinality(Paid(lane[3], Steps)) + spent.refusals
      BY <2>1 DEF CallInv, Counted, PaidCount
    <3>6. calls'[1] + calls'[2] + calls'[3] =
            Cardinality(Paid(lane'[1], Steps)) + Cardinality(Paid(lane'[2], Steps))
              + Cardinality(Paid(lane'[3], Steps)) + spent'.refusals
      <4>0. 1 \in Lanes /\ 2 \in Lanes /\ 3 \in Lanes /\ l \in {1, 2, 3}
        BY DEF Lanes
      <4> DEFINE before == [k \in Lanes |-> Cardinality(Paid(lane[k], Steps))]
                 after == Cardinality(Paid(t, Steps))
      <4>N. after \in Nat /\ before[1] \in Nat /\ before[2] \in Nat /\ before[3] \in Nat
        BY <1>3, <4>0
      <4>5. calls[1] + calls[2] + calls[3] = before[1] + before[2] + before[3] + spent.refusals
        BY <3>5, <4>0
      <4> HIDE DEF before, after
      <4>1. CASE l = 1
        <5>1. /\ lane'[1] = t /\ lane'[2] = lane[2] /\ lane'[3] = lane[3]
              /\ calls'[2] = calls[2] /\ calls'[3] = calls[3]
          BY <3>2, <3>3, <4>0, <4>1
        <5>2. calls'[1] + before[1] + spent.refusals = calls[1] + after + spent'.refusals
          BY <3>2, <4>1 DEF before, after
        <5>3. calls'[1] + calls'[2] + calls'[3] = after + before[2] + before[3] + spent'.refusals
          BY <3>4, <4>0, <4>N, <4>5, <5>1, <5>2
        <5> QED
          BY <4>0, <5>1, <5>3 DEF before, after
      <4>2. CASE l = 2
        <5>1. /\ lane'[2] = t /\ lane'[1] = lane[1] /\ lane'[3] = lane[3]
              /\ calls'[1] = calls[1] /\ calls'[3] = calls[3]
          BY <3>2, <3>3, <4>0, <4>2
        <5>2. calls'[2] + before[2] + spent.refusals = calls[2] + after + spent'.refusals
          BY <3>2, <4>2 DEF before, after
        <5>3. calls'[1] + calls'[2] + calls'[3] = before[1] + after + before[3] + spent'.refusals
          BY <3>4, <4>0, <4>N, <4>5, <5>1, <5>2
        <5> QED
          BY <4>0, <5>1, <5>3 DEF before, after
      <4>3. CASE l = 3
        <5>1. /\ lane'[3] = t /\ lane'[1] = lane[1] /\ lane'[2] = lane[2]
              /\ calls'[1] = calls[1] /\ calls'[2] = calls[2]
          BY <3>2, <3>3, <4>0, <4>3
        <5>2. calls'[3] + before[3] + spent.refusals = calls[3] + after + spent'.refusals
          BY <3>2, <4>3 DEF before, after
        <5>3. calls'[1] + calls'[2] + calls'[3] = before[1] + before[2] + after + spent'.refusals
          BY <3>4, <4>0, <4>N, <4>5, <5>1, <5>2
        <5> QED
          BY <4>0, <5>1, <5>3 DEF before, after
      <4> QED
        BY <4>0, <4>1, <4>2, <4>3
    <3>7. \A k \in Lanes : LanePlaced(lane'[k], Steps)
      BY <3>2, <3>3 DEF CallInv
    <3>8. \A k \in Lanes : k > LaneCount(run.mode) => lane'[k].at = "unused"
      BY <1>2, <2>1, <3>3 DEF CallInv, Counted, Lanes
    <3> QED
      BY <1>1, <2>1, <3>1, <3>6, <3>7, <3>8 DEF CallInv, PaidCount
  <2> QED
    BY <1>0, <1>4, <2>2, <2>3, LaneCallStep
<1>5. CASE BeginRound
  <2>1. run.rounds = 0 /\ run'.rounds = 1 /\ run'.phase = "lanes" /\ Current = run.mode
    BY <1>0, <1>1, <1>5, OneRoundFits DEF BeginRound, LadderInv, OnLadder, Runs
  <2>2. UNCHANGED <<calls, spent>> /\ spent.refusals = 0 /\ \A l \in Lanes : calls[l] = 0
    BY <1>5, <2>1 DEF BeginRound, CallInv
  <2>3. ASSUME NEW l \in Lanes
        PROVE  /\ lane'[l].step = 1 /\ lane'[l].at \in {"ready", "unused"}
               /\ l > LaneCount(run.mode) => lane'[l].at = "unused"
    BY <1>2, <1>5, <2>1, <2>3 DEF BeginRound, Used, Ready, Unused, Lanes
  <2>4. ASSUME NEW l \in Lanes
        PROVE  Cardinality(Paid(lane'[l], Steps)) = 0
    <3>1. Paid(lane'[l], Steps) = {}
      BY <2>3 DEF Paid
    <3> QED
      BY <3>1, FS_EmptySet
  <2>5. 1 \in Lanes /\ 2 \in Lanes /\ 3 \in Lanes
    BY DEF Lanes
  <2>6. calls'[1] + calls'[2] + calls'[3] =
            Cardinality(Paid(lane'[1], Steps)) + Cardinality(Paid(lane'[2], Steps))
              + Cardinality(Paid(lane'[3], Steps)) + spent'.refusals
    BY <2>2, <2>4, <2>5
  <2>7. \A l \in Lanes : LanePlaced(lane'[l], Steps)
    BY <2>3 DEF LanePlaced
  <2> QED
    BY <1>1, <2>1, <2>3, <2>6, <2>7 DEF CallInv, PaidCount
\* the other steps move no lane: a counted state follows a counted one
<1>6. ASSUME UNCHANGED <<lane, calls>>, spent'.refusals = spent.refusals,
             run'.rounds = run.rounds, Counted' => Counted
      PROVE  CallInv'
  <2>1. \A l \in Lanes : lane'[l] = lane[l] /\ calls'[l] = calls[l]
    BY <1>6
  <2>2. 1 \in Lanes /\ 2 \in Lanes /\ 3 \in Lanes
    BY DEF Lanes
  <2>3. PaidCount(1)' = PaidCount(1) /\ PaidCount(2)' = PaidCount(2) /\ PaidCount(3)' = PaidCount(3)
    BY <1>1, <1>6 DEF PaidCount
  <2> QED
    BY <1>1, <1>6, <2>3 DEF CallInv
<1>7. CASE Resolve \/ SkipRound \/ Select \/ Remember \/ AskJudge
  <2>1. CASE Resolve
    BY <1>0, <1>1, <1>6, <2>1 DEF Resolve, Counted, LadderInv, Runs
  <2>2. CASE SkipRound
    BY <1>1, <1>6, <2>2 DEF SkipRound, OnLadder, Counted, Runs
  <2>3. CASE Select
    BY <1>1, <1>6, <2>3 DEF Select, Counted, Runs
  <2>4. CASE Remember
    BY <1>1, <1>6, <2>4 DEF Remember, Counted, Runs
  <2>5. CASE AskJudge
    BY <1>1, <1>6, <2>5 DEF AskJudge, Judged, Counted, Runs
  <2> QED
    BY <1>7, <2>1, <2>2, <2>3, <2>4, <2>5
<1>8. CASE EndLadder
  <2>1. run.at # 1
    BY <1>1, <1>8, RunTyped DEF EndLadder
  <2>2. run.rounds = 1
    BY <1>0, <2>1 DEF LadderInv
  <2> QED
    BY <1>1, <1>6, <1>8, <2>2 DEF EndLadder, Counted, Runs
<1>9. CASE ResolveFails \/ CandidateIsLost \/ SettleFails
  <2>1. spent'.refusals = spent.refusals
    BY <1>0, <1>9 DEF ResolveFails, CandidateIsLost, SettleFails, Fault, TypeOK
  <2> QED
    BY <1>1, <1>6, <1>9, <2>1 DEF ResolveFails, CandidateIsLost, SettleFails, Counted, Runs
<1>10. CASE Capture \/ Release
  BY <1>1, <1>6, <1>10 DEF Capture, Release, Counted, Runs
<1>11. CASE Stop \/ UNCHANGED vars
  BY <1>6, <1>11 DEF Stop, vars, Counted
<1> QED
  BY <1>4, <1>5, <1>7, <1>8, <1>9, <1>10, <1>11 DEF Next

(* The judge asks each provider once per finalist, and there are two.      *)
JudgeInv ==
  /\ run.mode = "fast" => judged = 0 /\ run.phase # "judge"
  /\ run.phase = "called" \/ run.rounds = 0 \/ run.phase = "lanes" => judged = 0
  /\ run.phase = "judge" =>
       \/ run.finalists = 2 /\ judged < run.offer
       \/ run.finalists = 1 /\ judged < Offers + run.offer
  /\ judged <= 2 * Offers

(* No step lets the judge ask more.                                        *)
LEMMA JudgeStep ==
  ASSUME IInv, JudgeInv, [Next]_vars
  PROVE  JudgeInv'
<1>0. TypeOK /\ LadderInv /\ LaneInv
  BY DEF IInv
<1>1. /\ run \in Runs /\ run' \in Runs /\ run'.mode = run.mode
      /\ run.offer \in 1..Offers /\ Offers \in Nat \ {0} /\ judged \in Nat
  BY <1>0, RunStep, RunAssumption DEF TypeOK, SameRequest, Runs
<1>2. ASSUME judged' = judged, run'.rounds = run.rounds \/ run'.phase = "lanes",
             run'.phase # "judge", run'.phase # "called",
             run'.phase = "lanes" => run.phase = "lanes" \/ run.rounds = 0
      PROVE  JudgeInv'
  BY <1>1, <1>2 DEF JudgeInv
<1>3. ASSUME NEW l \in Lanes, LaneStep(l)
      PROVE  JudgeInv'
  <2>1. run.phase = "lanes" /\ judged' = judged
    BY <1>0, <1>3, LaneStepCases DEF LaneInv
  <2>2. run' = run \/ run' = [run EXCEPT !.phase = "release"]
    BY <1>0, <1>3, LaneStepCases, LaneFailsKeeps DEF LaneGoesOn
  <2> QED
    BY <1>1, <1>2, <2>1, <2>2 DEF Runs
<1>4. CASE BeginRound
  <2>1. run.rounds = 0
    BY <1>0, <1>4, OneRoundFits DEF BeginRound, LadderInv, OnLadder
  <2> QED
    BY <1>1, <1>2, <1>4, <2>1 DEF BeginRound, Runs
<1>5. CASE Resolve \/ SkipRound \/ EndLadder \/ Remember
  BY <1>1, <1>2, <1>5 DEF Resolve, SkipRound, OnLadder, EndLadder, Remember, Runs
<1>6. CASE Select
  <2>1. run.phase = "lanes" /\ judged = 0 /\ judged' = judged
    BY <1>6 DEF Select, JudgeInv
  <2>2. Current = run.mode
    BY <1>0, <1>1, <2>1, RunTyped DEF LadderInv
  <2>3. PICK score \in Scores :
          \/ run' = [run EXCEPT !.phase = "remember", !.score = score]
          \/ /\ Current # "fast"
             /\ run' = [run EXCEPT !.phase = "judge", !.score = score,
                                   !.finalists = 2, !.offer = 1]
    BY <1>6 DEF Select, Scores
  <2>4. CASE run' = [run EXCEPT !.phase = "remember", !.score = score]
    BY <1>1, <1>2, <2>1, <2>4 DEF Runs
  <2>5. CASE /\ Current # "fast"
             /\ run' = [run EXCEPT !.phase = "judge", !.score = score,
                                   !.finalists = 2, !.offer = 1]
    <3>1. run'.phase = "judge" /\ run'.finalists = 2 /\ run'.offer = 1
      BY <1>1, <2>5 DEF Runs
    <3> QED
      BY <1>1, <2>1, <2>2, <2>5, <3>1 DEF JudgeInv
  <2> QED
    BY <2>3, <2>4, <2>5
<1>7. CASE AskJudge
  <2>0. run.phase = "judge" /\ judged' = judged + 1 /\ run.mode # "fast"
    BY <1>7 DEF AskJudge, JudgeInv
  <2>1. run.rounds # 0
    BY <1>0, <2>0 DEF LadderInv
  <2>2. CASE run.offer < Offers /\ run' = [run EXCEPT !.offer = @ + 1]
    <3>1. /\ run'.phase = "judge" /\ run'.finalists = run.finalists
          /\ run'.offer = run.offer + 1 /\ run'.rounds = run.rounds
      BY <1>1, <2>0, <2>2 DEF Runs
    <3>2. judged + 1 <= 2 * Offers
      BY <1>1, <2>0 DEF JudgeInv
    <3>3. \/ run.finalists = 2 /\ judged + 1 < run.offer + 1
          \/ run.finalists = 1 /\ judged + 1 < Offers + (run.offer + 1)
      BY <1>1, <2>0 DEF JudgeInv
    <3> QED
      BY <1>1, <2>0, <2>1, <3>1, <3>2, <3>3 DEF JudgeInv
  <2>3. CASE Judged
    <3>1. CASE run.finalists > 1
      <4>1. run.finalists = 2 /\ judged + 1 <= Offers
        BY <1>1, <2>0, <3>1 DEF JudgeInv
      <4>2. run' = [run EXCEPT !.finalists = 1, !.offer = 1]
        BY <2>3, <3>1, <4>1 DEF Judged
      <4>3. /\ run'.phase = "judge" /\ run'.finalists = 1 /\ run'.offer = 1
            /\ run'.rounds = run.rounds
        BY <1>1, <2>0, <4>2 DEF Runs
      <4>4. judged + 1 < Offers + 1 /\ judged + 1 <= 2 * Offers
        BY <1>1, <4>1
      <4> QED
        BY <1>1, <2>0, <2>1, <4>3, <4>4 DEF JudgeInv
    <3>2. CASE ~(run.finalists > 1)
      <4>1. judged + 1 <= 2 * Offers
        BY <1>1, <2>0, <3>2 DEF JudgeInv
      <4>2. run'.phase = "remember" /\ run'.rounds = run.rounds
        BY <1>1, <2>3, <3>2 DEF Judged, Runs
      <4> QED
        BY <1>1, <2>0, <2>1, <4>1, <4>2 DEF JudgeInv
    <3> QED
      BY <3>1, <3>2
  <2> QED
    BY <1>7, <2>2, <2>3 DEF AskJudge
<1>8. CASE ResolveFails \/ CandidateIsLost \/ SettleFails \/ Capture \/ Release
  BY <1>1, <1>2, <1>8 DEF ResolveFails, CandidateIsLost, SettleFails, Capture, Release, Runs
<1>9. CASE Stop \/ UNCHANGED vars
  BY <1>9 DEF Stop, vars, JudgeInv
<1> QED
  BY <1>3, <1>4, <1>5, <1>6, <1>7, <1>8, <1>9 DEF Next

(* Both counts, with the run's own invariant.                              *)
LEMMA CallsCounted == Spec => [](IInv /\ CallInv /\ JudgeInv)
<1>1. Init => CallInv /\ JudgeInv
  <2> SUFFICES ASSUME Init PROVE CallInv /\ JudgeInv
    OBVIOUS
  <2>1. \A l \in Lanes : LanePlaced(lane[l], Steps)
    BY DEF Init, LanePlaced, Unused
  <2>2. CallInv
    BY <2>1 DEF Init, CallInv, Counted
  <2>3. JudgeInv
    BY RunAssumption DEF Init, JudgeInv
  <2> QED
    BY <2>2, <2>3
<1>2. IInv /\ CallInv /\ JudgeInv /\ [Next]_vars => CallInv' /\ JudgeInv'
  BY CallStep, JudgeStep
<1> QED
  BY <1>1, <1>2, Inductive, PTL DEF Spec

(* Planned or appended, the pipeline a lane runs has the same LLM steps.   *)
LEMMA SanitizingAddsNoCall ==
  ASSUME NEW p \in Pipelines
  PROVE  LLMSteps(RuntimeSteps(p)) = LLMSteps(p)
<1>1. p \in Seq(Kinds)
  BY RunAssumption
<1>2. /\ Len(Append(p, "sanitize")) = Len(p) + 1
      /\ Append(p, "sanitize")[Len(p) + 1] = "sanitize"
      /\ \A i \in 1..Len(p) : Append(p, "sanitize")[i] = p[i]
      /\ Len(p) \in Nat
  BY <1>1 DEF Kinds
<1>3. LLMSteps(Append(p, "sanitize")) = LLMSteps(p)
  BY <1>2 DEF LLMSteps
<1> QED
  BY <1>3 DEF RuntimeSteps

\* A completed run has asked for every LLM step of every lane of the mode once,
\* and once more for each refusal, however its lanes were interleaved and
\* retried; the judge asked each provider at most once per finalist.
THEOREM EveryCallIsPriced == Spec => []CallsArePriced
<1>1. IInv /\ CallInv /\ JudgeInv => CallsArePriced
  <2> SUFFICES ASSUME IInv, CallInv, JudgeInv, run.phase = "completed"
               PROVE  /\ calls[1] + calls[2] + calls[3] =
                           LaneCount(run.mode) * Cardinality(LLMSteps(run.pipeline))
                             + spent.refusals
                      /\ judged <= IF run.mode = "fast" THEN 0 ELSE 2 * Offers
    BY DEF CallsArePriced
  <2>1. run \in Runs /\ run.mode \in Modes /\ run.pipeline \in Pipelines
    BY DEF IInv, TypeOK, Runs
  <2>2. /\ LLMSteps(Steps) = LLMSteps(run.pipeline)
        /\ Len(Steps) \in Nat
    BY <2>1, SanitizingAddsNoCall, RunTyped DEF Steps
  <2>3. ASSUME NEW l \in Lanes
        PROVE  Paid(lane[l], Steps) = IF l <= LaneCount(run.mode) THEN LLMSteps(Steps) ELSE {}
    <3>1. LanePlaced(lane[l], Steps)
      BY DEF CallInv
    <3>2. CASE l <= LaneCount(run.mode)
      <4>1. l \in 1..LaneCount(run.mode) /\ LaneCount(run.mode) \in Lanes
        BY <2>1, <3>2, RunTyped DEF Lanes
      <4>2. lane[l].at = "done"
        BY <4>1 DEF IInv, LaneInv
      <4> QED
        BY <2>2, <3>1, <3>2, <4>2 DEF LanePlaced, Paid, LLMSteps
    <3>3. CASE ~(l <= LaneCount(run.mode))
      <4>1. LaneCount(run.mode) \in Lanes
        BY <2>1, RunTyped
      <4>2. lane[l].at = "unused"
        BY <3>3, <4>1 DEF CallInv, Counted, Lanes
      <4> QED
        BY <3>1, <3>3, <4>2 DEF LanePlaced, Paid
    <3> QED
      BY <3>2, <3>3
  <2>4. Cardinality({}) = 0
    BY FS_EmptySet
  <2>5. Cardinality(LLMSteps(Steps)) \in Nat
    <3>1. LLMSteps(Steps) \in SUBSET (1..Len(Steps))
      BY DEF LLMSteps
    <3>2. IsFiniteSet(1..Len(Steps))
      BY <2>2, FS_Interval
    <3> QED
      BY <3>1, <3>2, FS_Subset, FS_CardinalityType
  <2>6. calls[1] + calls[2] + calls[3] =
          PaidCount(1) + PaidCount(2) + PaidCount(3) + spent.refusals
    BY DEF CallInv, Counted
  <2>7. 1 \in Lanes /\ 2 \in Lanes /\ 3 \in Lanes /\ spent.refusals \in Nat
    BY DEF Lanes, IInv, TypeOK
  <2> DEFINE n == Cardinality(LLMSteps(Steps))
  <2>8. PaidCount(1) + PaidCount(2) + PaidCount(3) = LaneCount(run.mode) * n
    <3>1. LaneCount(run.mode) \in {1, 2, 3}
      BY <2>1, RunTyped DEF Lanes
    <3>2. ASSUME NEW l \in Lanes
          PROVE  PaidCount(l) = IF l <= LaneCount(run.mode) THEN n ELSE 0
      BY <2>3, <2>4 DEF PaidCount
    <3> HIDE DEF n
    <3>3. PaidCount(1) + PaidCount(2) + PaidCount(3)
            = IF LaneCount(run.mode) = 1 THEN n
              ELSE IF LaneCount(run.mode) = 2 THEN n + n ELSE n + n + n
      BY <2>5, <2>7, <3>1, <3>2 DEF n
    <3>4. n \in Nat
      BY <2>5 DEF n
    <3> QED
      BY <3>1, <3>3, <3>4
  <2>9. judged <= IF run.mode = "fast" THEN 0 ELSE 2 * Offers
    BY DEF JudgeInv
  <2> QED
    BY <2>2, <2>6, <2>8, <2>9
<1> QED
  BY <1>1, CallsCounted, PTL

=============================================================================
