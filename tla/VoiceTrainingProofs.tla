-------------------------- MODULE VoiceTrainingProofs --------------------------
(***************************************************************************)
(* What holds of the voice for any submissions, revocations, sessions and  *)
(* bounds: a profile is replaced by a later version only, a text a rebuild *)
(* was asked for is in its material once the queue is at rest, and a row   *)
(* whose flag is cleared was learned, or the diagnostics do not claim that *)
(* all is well.  The second half is about the wizard, whose behaviours are *)
(* shown to be behaviours of the training: no step is jumped over and a    *)
(* completed wizard is learned.                                            *)
(***************************************************************************)
EXTENDS VoiceCalibration, FiniteSetTheorems, TLAPS

Shown == [active : Nat, pending : Nat, status : {"absent", "idle", "in_progress", "failed"}]

Shapes ==
  /\ profile.version \in Nat
  /\ diagnostics \in Shown
  /\ confirming \in [Confirmations ->
                      [at : {"new", "putting", "done", "overwrote"}, shown : Shown]]
  /\ run = [version |-> run.version, active |-> run.active, learned |-> run.learned,
            examples |-> run.examples, stale |-> run.stale, fresh |-> run.fresh]
  /\ run.version \in Nat /\ run.active \in Nat
  /\ marks \in [1..MaxSchedules -> [at : {"free", "reading", "putting"}, active : Nat, pending : Nat]]
  /\ schedules \in Nat
  /\ runner \in RunnerStates
  /\ queued \in BOOLEAN
  /\ storing \in [Requests -> {"new", "asserting", "creating", "created", "done", "refused"}]

(* A run has read the active version, or it is gone, and then has a later  *)
(* one to write.                                                           *)
VersionAhead ==
  /\ runner = "readDiagnostics" => run.version = profile.version \/ profile.version = 0
  /\ runner \in {"readExamples", "putProfile"} => run.version > profile.version

VersionInv == Shapes /\ VersionAhead

USE DEF Shown

-----------------------------------------------------------------------------
\* The version a rebuild takes is later than the one it read.
LEMMA NextIsLater ==
  ASSUME NEW version \in Nat, Shapes
  PROVE  /\ NextVersion(version, diagnostics) \in Nat
         /\ NextVersion(version, diagnostics) > version
         /\ NextVersion(version, diagnostics) > 0
         /\ ActiveVersion(version) \in Nat
BY DEF NextVersion, Larger, ActiveVersion, Shapes

\* There is no profile and no run.
THEOREM InitVersion == Init => VersionInv
<1> SUFFICES ASSUME Init PROVE VersionInv
  OBVIOUS
<1>1. /\ profile.version \in Nat /\ diagnostics \in Shown
      /\ confirming \in [Confirmations ->
                          [at : {"new", "putting", "done", "overwrote"}, shown : Shown]]
      /\ schedules \in Nat /\ queued \in BOOLEAN /\ runner = "idle" /\ runner \in RunnerStates
  BY DEF Init, NoProfile, NoDiagnostics, RunnerStates
<1>2. /\ run = [version |-> run.version, active |-> run.active, learned |-> run.learned,
                examples |-> run.examples, stale |-> run.stale, fresh |-> run.fresh]
      /\ run.version \in Nat /\ run.active \in Nat
  BY DEF Init, NoRun
<1>3. /\ marks \in [1..MaxSchedules ->
                     [at : {"free", "reading", "putting"}, active : Nat, pending : Nat]]
      /\ storing \in [Requests -> {"new", "asserting", "creating", "created", "done", "refused"}]
  BY DEF Init, NoMark
<1> QED
  BY <1>1, <1>2, <1>3 DEF VersionInv, Shapes, VersionAhead

\* A schedule fits the types.
LEMMA Scheduled ==
  ASSUME Shapes, Schedule
  PROVE  /\ marks' \in [1..MaxSchedules ->
                         [at : {"free", "reading", "putting"}, active : Nat, pending : Nat]]
         /\ schedules' \in Nat /\ queued' \in BOOLEAN
         /\ runner' \in {runner, "consent"} /\ runner' \in RunnerStates
<1>1. marks' \in [1..MaxSchedules ->
                   [at : {"free", "reading", "putting"}, active : Nat, pending : Nat]]
  BY DEF Shapes, Schedule
<1> QED
  BY <1>1 DEF Shapes, Schedule, Busy, RunnerStates

(* Steps of the run.                                                       *)
LEMMA RunKeepsVersion ==
  ASSUME VersionInv, Rebuild
  PROVE  VersionInv' /\ (profile' # profile => profile'.version > profile.version)
<1> USE DEF VersionInv
<1>1. CASE CheckConsent
  BY <1>1 DEF CheckConsent, EndRun, Shapes, VersionAhead, RunnerStates, NoRun, database
<1>2. CASE ReadProfile
  BY <1>2 DEF ReadProfile, Shapes, VersionAhead, RunnerStates, database, bounds
<1>3. CASE ReadDiagnostics
  <2>1. run'.version = NextVersion(run.version, diagnostics)
    BY <1>3 DEF ReadDiagnostics, Shapes
  <2>2. run'.version \in Nat /\ run'.version > run.version /\ run'.version > 0
    BY <2>1, NextIsLater DEF Shapes
  <2> QED
    BY <1>3, <2>2 DEF ReadDiagnostics, Shapes, VersionAhead, RunnerStates, database, bounds
<1>4. CASE ReadExamples
  <2>1. run' = [version |-> run.version, active |-> run.active, learned |-> run.learned,
                examples |-> run'.examples, stale |-> run'.stale, fresh |-> run.fresh]
    BY <1>4 DEF ReadExamples, Shapes
  <2>2. run'.version = run.version /\ run'.active = run.active
    BY <2>1
  <2> QED
    BY <1>4, <2>1, <2>2 DEF ReadExamples, Shapes, VersionAhead, RunnerStates, database, bounds
<1>5. CASE PutProfile
  <2>1. run' = [version |-> run.version, active |-> run.active, learned |-> run'.learned,
                examples |-> run'.examples, stale |-> run.stale, fresh |-> run'.fresh]
    BY <1>5 DEF PutProfile, Shapes
  <2>2. run'.version = run.version /\ run'.active = run.active
    BY <2>1
  <2>3. profile'.version = run.version
    BY <1>5 DEF PutProfile
  <2>4. /\ runner = "putProfile" /\ runner' = "putDiagnostics"
        /\ UNCHANGED <<diagnostics, queued, marks, storing, confirming, schedules>>
    BY <1>5 DEF PutProfile
  <2> QED
    BY <2>1, <2>2, <2>3, <2>4 DEF Shapes, VersionAhead, RunnerStates
<1>6. CASE PutDiagnostics
  <2>1. /\ diagnostics' \in Shown
        /\ runner' = "clear"
        /\ UNCHANGED <<profile, queued, run, marks, storing, confirming, schedules>>
    BY <1>6 DEF PutDiagnostics, Shapes, bounds
  <2> QED
    BY <2>1 DEF Shapes, VersionAhead, RunnerStates
<1>7. CASE ClearFlag
  <2>1. /\ UNCHANGED <<profile, diagnostics, queued, marks, storing, confirming, schedules>>
        /\ runner' \in {"clear", "failing"}
        /\ run' = NoRun \/ \E row : run' = [run EXCEPT !.stale = @ \ {row}]
    BY <1>7 DEF ClearFlag, bounds
  <2> QED
    BY <2>1 DEF Shapes, VersionAhead, RunnerStates, NoRun
<1>8. CASE FlagsCleared
  BY <1>8 DEF FlagsCleared, EndRun, Shapes, VersionAhead, RunnerStates, NoRun, database, bounds
<1>9. CASE ReadForFailure
  BY <1>9, NextIsLater DEF ReadForFailure, Shapes, VersionAhead, RunnerStates, NoRun, database, bounds
<1>10. CASE PutFailure
  BY <1>10 DEF PutFailure, EndRun, Shapes, VersionAhead, RunnerStates, NoRun
<1>11. CASE ReadForMark
  BY <1>11, NextIsLater DEF ReadForMark, Shapes, VersionAhead, RunnerStates, database, bounds
<1>12. CASE PutMark
  BY <1>12 DEF PutMark, Shapes, VersionAhead, RunnerStates, NoRun, bounds
<1> QED
  BY <1>1, <1>2, <1>3, <1>4, <1>5, <1>6, <1>7, <1>8, <1>9, <1>10, <1>11, <1>12 DEF Rebuild

(* Submissions, grants and revocations beside it.                          *)
LEMMA SubmissionsKeepVersion ==
  ASSUME VersionInv, NEW r \in Requests,
         Submit(r) \/ Submitted(r) \/ AssertConsent(r) \/ CreateExample(r) \/ CreateFails(r)
  PROVE  VersionInv' /\ profile' = profile
<1> USE DEF VersionInv
<1>1. CASE Submitted(r)
  <2>1. storing' = [storing EXCEPT ![r] = "done"] /\ UNCHANGED <<database, confirming>>
    BY <1>1 DEF Submitted
  <2>2. CASE Schedule /\ UNCHANGED run
    BY <2>1, <2>2, Scheduled DEF Shapes, VersionAhead, database
  <2>3. CASE UNCHANGED <<runner, queued, run, marks, bounds>>
    BY <2>1, <2>3 DEF Shapes, VersionAhead, database, bounds
  <2> QED
    BY <1>1, <2>2, <2>3 DEF Submitted
<1>2. CASE Submit(r) \/ AssertConsent(r) \/ CreateExample(r) \/ CreateFails(r)
  <2>1. UNCHANGED <<profile, diagnostics, runner, queued, run, marks, confirming, schedules>>
    BY <1>2 DEF Submit, AssertConsent, CreateExample, CreateFails, database, bounds
  <2>2. storing' \in [Requests -> {"new", "asserting", "creating", "created", "done", "refused"}]
    BY <1>2 DEF Submit, AssertConsent, CreateExample, CreateFails, Shapes
  <2> QED
    BY <2>1, <2>2 DEF Shapes, VersionAhead
<1> QED
  BY <1>1, <1>2

\* A grant leaves profile and run alone.
LEMMA GrantsKeepVersion ==
  ASSUME VersionInv, BeginGrant \/ PutGrant
  PROVE  VersionInv' /\ profile' = profile
BY DEF BeginGrant, PutGrant, database, bounds, VersionInv, Shapes, VersionAhead

\* A revocation takes the profile away: any version is then later.
LEMMA RevocationsKeepVersion ==
  ASSUME VersionInv, NEW v \in Revocations,
         \/ BeginRevoke(v) \/ Suspend(v) \/ RemoveExamples(v) \/ RemoveProfile(v)
         \/ RemoveDiagnostics(v) \/ CloseRevocation(v) \/ RevokeFails(v)
  PROVE  VersionInv' /\ (profile' # profile => profile'.version = 0)
<1> USE DEF VersionInv
<1>1. UNCHANGED <<runner, queued, run, marks, schedules, storing, confirming>>
  BY DEF BeginRevoke, Suspend, RemoveExamples, RemoveProfile, RemoveDiagnostics, CloseRevocation,
         RevokeFails, RevokeStep, bounds
<1>2. /\ profile' = profile \/ profile' = [version |-> 0, covers |-> {}, learned |-> {}]
      /\ diagnostics' = diagnostics
           \/ diagnostics' = [active |-> 0, pending |-> 0, status |-> "absent"]
  BY DEF BeginRevoke, Suspend, RemoveExamples, RemoveProfile, RemoveDiagnostics, CloseRevocation,
         RevokeFails, database, NoProfile, NoDiagnostics
<1>3. runner \in {"readExamples", "putProfile"} => run.version > 0
  BY DEF Shapes, VersionAhead
<1> QED
  BY <1>1, <1>2, <1>3 DEF Shapes, VersionAhead

\* A late mark writes no profile.
LEMMA MarksKeepVersion ==
  ASSUME VersionInv, NEW s \in 1..MaxSchedules, ReadLateMark(s) \/ PutLateMark(s) \/ LoseLateMark(s)
  PROVE  VersionInv' /\ profile' = profile
<1> USE DEF VersionInv
<1>1. UNCHANGED <<profile, runner, queued, run, schedules, storing, confirming>>
  BY DEF ReadLateMark, PutLateMark, LoseLateMark, database, bounds
<1>2. CASE ReadLateMark(s)
  BY <1>1, <1>2, NextIsLater DEF ReadLateMark, Shapes, VersionAhead, database
<1>3. CASE PutLateMark(s)
  BY <1>1, <1>3 DEF PutLateMark, Shapes, VersionAhead, NoMark
<1>4. CASE LoseLateMark(s)
  BY <1>1, <1>4 DEF LoseLateMark, Shapes, VersionAhead, NoMark, database
<1> QED
  BY <1>2, <1>3, <1>4

\* A confirmation puts diagnostics back that it has read.
LEMMA ConfirmationsKeepVersion ==
  ASSUME VersionInv, NEW c \in Confirmations, ReadForConfirmation(c) \/ PutConfirmation(c)
  PROVE  VersionInv' /\ profile' = profile
<1> USE DEF VersionInv
<1>1. UNCHANGED <<profile, runner, queued, run, marks, schedules, storing>>
  BY DEF ReadForConfirmation, PutConfirmation, database, bounds
<1>2. CASE ReadForConfirmation(c)
  BY <1>1, <1>2 DEF ReadForConfirmation, Shapes, VersionAhead, database
<1>3. CASE PutConfirmation(c)
  BY <1>1, <1>3 DEF PutConfirmation, NoDiagnostics, Shapes, VersionAhead
<1> QED
  BY <1>2, <1>3

\* A failure or a stop ends the run.
LEMMA TroubleKeepsVersion ==
  ASSUME VersionInv, AskRebuild \/ RunFails \/ Stop
  PROVE  VersionInv' /\ profile' = profile
<1> USE DEF VersionInv
<1>1. CASE AskRebuild
  <2>1. Schedule /\ UNCHANGED <<database, run, storing, confirming>>
    BY <1>1 DEF AskRebuild
  <2> QED
    BY <2>1, Scheduled DEF Shapes, VersionAhead, database
<1>2. CASE RunFails
  <2>1. /\ UNCHANGED <<profile, diagnostics, marks, schedules, storing, confirming>>
        /\ run' = run \/ run' = [version |-> 0, active |-> 0, learned |-> {}, examples |-> {},
                              stale |-> {}, fresh |-> TRUE]
        /\ queued' \in BOOLEAN
    BY <1>2 DEF RunFails, EndRun, NoRun, database, Shapes
  <2>2. runner' \in {"failing", "consent", "idle", "marking"}
    BY <1>2 DEF RunFails, EndRun
  <2>3. Shapes'
    BY <2>1, <2>2 DEF Shapes, RunnerStates
  <2> QED
    BY <2>1, <2>2, <2>3 DEF VersionAhead
<1>3. CASE Stop
  <2>1. confirming' \in [Confirmations ->
                           [at : {"new", "putting", "done", "overwrote"}, shown : Shown]]
    BY <1>3 DEF Stop, Shapes, NoDiagnostics
  <2> QED
    BY <1>3, <2>1 DEF Stop, Shapes, VersionAhead, RunnerStates, NoRun, NoMark, database
<1> QED
  BY <1>1, <1>2, <1>3

\* Every step keeps a run ahead of the profile it replaces.
LEMMA StepKeepsVersion ==
  ASSUME VersionInv, [Next]_vars
  PROVE  VersionInv' /\ (profile' # profile => profile'.version = 0 \/ profile'.version > profile.version)
<1>1. CASE Next
  BY <1>1, RunKeepsVersion, SubmissionsKeepVersion, GrantsKeepVersion, RevocationsKeepVersion,
     MarksKeepVersion, ConfirmationsKeepVersion, TroubleKeepsVersion
     DEF Next, Background
<1>2. CASE UNCHANGED vars
  <2>1. UNCHANGED <<profile, diagnostics, run, marks, schedules, runner, queued, storing, confirming>>
    BY <1>2 DEF vars, database, process, bounds
  <2> QED
    BY <2>1 DEF VersionInv, Shapes, VersionAhead
<1> QED
  BY <1>1, <1>2

(* Whatever is marked late, revoked, granted again or fails under a        *)
(* rebuild, the profile it writes has a later version than the one it      *)
(* replaces.                                                               *)
THEOREM VersionsOnlyGrow == Spec => VersionsGrow
<1>1. VersionInv /\ [Next]_vars
        => VersionInv' /\ [profile'.version # 0 /\ profile' # profile
                            => profile'.version > profile.version]_profile
  BY StepKeepsVersion
<1> QED
  BY <1>1, InitVersion, PTL DEF Spec, VersionsGrow

-----------------------------------------------------------------------------
(* A text nobody has stored yet is in no row, no run and no debt.          *)
Fresh(r) == storing[r] \in {"new", "asserting", "creating"}
Known == Texts(examples) \union due \union Texts(run.examples) \union Texts(run.stale)

(* The texts a rebuild may have to answer for: those stored, and those     *)
(* that clearing a flag may put back.                                      *)
Owed == due \intersect (Texts(examples) \union Texts(run.stale))

(* The runner at rest owes nothing; a run nobody will follow has read what *)
(* is owed before it reaches the profile.                                  *)
CoverInv ==
  /\ \A r \in Requests : Fresh(r) => r \notin Known
  /\ ~Busy => ~queued /\ due \intersect Texts(examples) \subseteq profile.covers
  /\ ~queued /\ runner = "putProfile" => Owed \subseteq Texts(run.examples)
  /\ ~queued /\ runner \in {"putDiagnostics", "clear"} => Owed \subseteq profile.covers

\* Nothing is stored or asked for.
THEOREM InitCover == Init => CoverInv
BY DEF Init, CoverInv, Fresh, Known, Texts, NoRun, Busy, NoProfile

\* A run that is over has no text in hand.
LEMMA NoRunKnowsNothing ==
  Texts(NoRun.examples) = {} /\ Texts(NoRun.stale) = {}
BY DEF Texts, NoRun

(* The end of a run, with its debt paid or released.                       *)
LEMMA RunEnds ==
  ASSUME Shapes, CoverInv, EndRun, UNCHANGED <<examples, profile, storing, queued>>,
         \/ Release
         \/ due' = due /\ (~queued => due \intersect Texts(examples) \subseteq profile.covers)
  PROVE  CoverInv'
<1>1. run' = NoRun /\ Texts(run'.examples) = {} /\ Texts(run'.stale) = {}
  BY NoRunKnowsNothing DEF EndRun
<1>2. due' \subseteq due
  BY DEF Release
<1>3. runner' \in {"marking", "idle"} /\ (runner' = "idle" <=> ~queued)
  BY DEF EndRun
<1>4. ~queued => due' \intersect Texts(examples) \subseteq profile.covers
  BY DEF Release
<1> QED
  BY <1>1, <1>2, <1>3, <1>4 DEF CoverInv, Fresh, Known, Busy, Texts

\* The steps of a run: what is owed is read, then written.
LEMMA RunKeepsCover ==
  ASSUME Shapes, CoverInv, Rebuild
  PROVE  CoverInv'
<1>1. CASE CheckConsent
  <2>1. CASE Consented
    BY <1>1, <2>1 DEF CheckConsent, CoverInv, Fresh, Known, Owed, Texts, Busy, database
  <2>2. CASE ~Consented
    BY <1>1, <2>2, RunEnds DEF CheckConsent, database
  <2> QED
    BY <2>1, <2>2
<1>2. CASE ReadProfile \/ ReadDiagnostics
  <2>1. /\ run'.examples = run.examples /\ run'.stale = run.stale
        /\ runner' \in {"readDiagnostics", "readExamples"}
        /\ UNCHANGED <<examples, profile, queued, storing, due>>
        /\ Busy
    BY <1>2 DEF ReadProfile, ReadDiagnostics, Shapes, database, bounds, Busy
  <2> QED
    BY <2>1 DEF CoverInv, Fresh, Known, Busy, Texts
<1>3. CASE ReadExamples
  <2>1. /\ run'.examples = examples /\ run'.stale \subseteq examples /\ runner' = "putProfile"
        /\ UNCHANGED <<examples, profile, queued, storing, due>>
    BY <1>3 DEF ReadExamples, Flagged, database, bounds
  <2> QED
    BY <2>1 DEF CoverInv, Fresh, Known, Owed, Busy, Texts
<1>4. CASE PutProfile
  <2>1. /\ profile'.covers = Texts(run.examples) /\ runner = "putProfile"
        /\ runner' = "putDiagnostics" /\ UNCHANGED <<examples, queued, storing, due>>
        /\ run'.examples = {} /\ run'.stale = run.stale
    BY <1>4 DEF PutProfile, Shapes
  <2>2. Texts(run'.examples) = {}
    BY <2>1 DEF Texts
  <2> QED
    BY <2>1, <2>2 DEF CoverInv, Fresh, Known, Owed, Busy
<1>5. CASE PutDiagnostics
  <2>1. /\ runner = "putDiagnostics" /\ runner' = "clear"
        /\ UNCHANGED <<examples, profile, queued, storing, due, run>>
    BY <1>5 DEF PutDiagnostics, bounds
  <2> QED
    BY <2>1 DEF CoverInv, Fresh, Known, Owed, Busy, Texts
<1>6. CASE ClearFlag
  <2>1. PICK row \in run.stale :
          \/ /\ examples' = {stored \in examples : stored.id # row.id}
                              \union {[row EXCEPT !.dirty = FALSE, !.target = run.version]}
             /\ run' = [run EXCEPT !.stale = @ \ {row}]
             /\ runner' = runner
          \/ runner' = "failing" /\ run' = NoRun /\ UNCHANGED examples
    BY <1>6 DEF ClearFlag
  <2>2. runner = "clear" /\ UNCHANGED <<profile, queued, storing, due>>
    BY <1>6 DEF ClearFlag, bounds
  <2>3. [row EXCEPT !.dirty = FALSE, !.target = run.version].text = row.text
    OBVIOUS
  <2>4. CASE runner' = "failing" /\ run' = NoRun /\ UNCHANGED examples
    BY <2>2, <2>4, NoRunKnowsNothing DEF CoverInv, Fresh, Known, Busy
  <2>5. CASE /\ examples' = {stored \in examples : stored.id # row.id}
                              \union {[row EXCEPT !.dirty = FALSE, !.target = run.version]}
             /\ run' = [run EXCEPT !.stale = @ \ {row}]
             /\ runner' = runner
    <3>1. run'.examples = run.examples /\ run'.stale \subseteq run.stale
      BY <2>5 DEF Shapes
    <3>2. Texts(examples') \subseteq Texts(examples) \union Texts(run.stale)
      BY <2>3, <2>5 DEF Texts
    <3>3. Texts(run'.stale) \subseteq Texts(run.stale)
      BY <3>1 DEF Texts
    <3> QED
      BY <2>2, <2>5, <3>1, <3>2, <3>3 DEF CoverInv, Fresh, Known, Owed, Busy
  <2> QED
    BY <2>1, <2>4, <2>5
<1>7. CASE FlagsCleared
  <2>1. ~queued => due \intersect Texts(examples) \subseteq profile.covers
    BY <1>7 DEF FlagsCleared, CoverInv, Owed
  <2> QED
    BY <1>7, <2>1, RunEnds DEF FlagsCleared, database, bounds
<1>8. CASE ReadForFailure \/ ReadForMark
  <2>1. /\ run'.examples = run.examples /\ run'.stale = run.stale
        /\ runner' \in {"failingDiagnostics", "putFailure", "markingDiagnostics", "putMark"}
        /\ UNCHANGED <<examples, profile, queued, storing, due>>
    BY <1>8 DEF ReadForFailure, ReadForMark, Shapes, database, bounds
  <2> QED
    BY <2>1 DEF CoverInv, Fresh, Known, Busy, Texts
<1>9. CASE PutFailure
  BY <1>9, RunEnds DEF PutFailure
<1>10. CASE PutMark
  <2>1. /\ Texts(run'.examples) = {} /\ Texts(run'.stale) = {} /\ runner' = "consent"
        /\ UNCHANGED <<examples, profile, storing, due>>
    BY <1>10, NoRunKnowsNothing DEF PutMark, bounds
  <2> QED
    BY <2>1 DEF CoverInv, Fresh, Known, Busy
<1> QED
  BY <1>1, <1>2, <1>3, <1>4, <1>5, <1>6, <1>7, <1>8, <1>9, <1>10 DEF Rebuild

(* What is stored by now is what a schedule asks for.                      *)
LEMMA ScheduleKeepsCover ==
  ASSUME Shapes, CoverInv, Schedule, UNCHANGED <<database, run>>,
         \A r \in Requests : Fresh(r)' => Fresh(r)
  PROVE  CoverInv'
<1>1. /\ due' = Texts(examples) /\ queued' = Busy
      /\ runner' = (IF Busy THEN runner ELSE "consent") /\ UNCHANGED <<examples, profile, run>>
  BY DEF Schedule, database
<1>2. \A r \in Requests : Fresh(r)' => r \notin Known'
  BY <1>1 DEF CoverInv, Known
<1>3. Busy' /\ (~queued' => runner' = "consent")
  BY <1>1 DEF Busy
<1> QED
  BY <1>2, <1>3 DEF CoverInv

\* A submission's text is in no row, run or debt before its insert.
LEMMA SubmissionsKeepCover ==
  ASSUME Shapes, CoverInv, NEW r \in Requests,
         Submit(r) \/ Submitted(r) \/ AssertConsent(r) \/ CreateExample(r) \/ CreateFails(r)
  PROVE  CoverInv'
<1>1. CASE Submitted(r)
  <2>1. \A q \in Requests : Fresh(q)' => Fresh(q)
    BY <1>1 DEF Submitted, Fresh, Shapes
  <2>2. CASE Schedule /\ UNCHANGED run
    BY <1>1, <2>1, <2>2, ScheduleKeepsCover DEF Submitted
  <2>3. CASE UNCHANGED <<runner, queued, run, marks, bounds>>
    <3>1. UNCHANGED <<examples, profile, runner, queued, run, due>>
      BY <1>1, <2>3 DEF Submitted, database, bounds
    <3> QED
      BY <2>1, <3>1 DEF CoverInv, Known, Owed, Busy, Texts
  <2> QED
    BY <1>1, <2>2, <2>3 DEF Submitted
<1>2. CASE CreateExample(r)
  <2>1. PICK n, d, t : examples' = examples \union {[id |-> n, text |-> r, dirty |-> d, target |-> t]}
    BY <1>2 DEF CreateExample
  <2>2. Texts(examples') = Texts(examples) \union {r}
    <3> DEFINE row == [id |-> n, text |-> r, dirty |-> d, target |-> t]
    <3>1. row.text = r
      OBVIOUS
    <3>2. examples' = examples \union {row}
      BY <2>1
    <3> HIDE DEF row
    <3>3. {e.text : e \in examples \union {row}} = {e.text : e \in examples} \union {r}
      BY <3>1
    <3> QED
      BY <3>2, <3>3 DEF Texts
  <2>3. /\ UNCHANGED <<profile, runner, queued, run, due>> /\ ~Fresh(r)' /\ r \notin due
        /\ \A q \in Requests : Fresh(q)' => Fresh(q)
    BY <1>2 DEF CreateExample, bounds, Fresh, Shapes, CoverInv, Known
  <2> QED
    BY <2>2, <2>3 DEF CoverInv, Known, Owed, Busy
<1>3. CASE Submit(r) \/ AssertConsent(r) \/ CreateFails(r)
  <2>1. /\ UNCHANGED <<examples, profile, runner, queued, run, due>>
        /\ \A q \in Requests : Fresh(q)' => Fresh(q)
    BY <1>3 DEF Submit, AssertConsent, CreateFails, database, bounds, Fresh, Shapes
  <2> QED
    BY <2>1 DEF CoverInv, Known, Owed, Busy, Texts
<1> QED
  BY <1>1, <1>2, <1>3

\* A revocation takes the rows and what was owed for them.
LEMMA RevocationsKeepCover ==
  ASSUME Shapes, CoverInv, NEW v \in Revocations,
         \/ BeginRevoke(v) \/ Suspend(v) \/ RemoveExamples(v) \/ RemoveProfile(v)
         \/ RemoveDiagnostics(v) \/ CloseRevocation(v) \/ RevokeFails(v)
  PROVE  CoverInv'
<1>1. UNCHANGED <<runner, queued, run, storing>>
  BY DEF BeginRevoke, Suspend, RemoveExamples, RemoveProfile, RemoveDiagnostics, CloseRevocation,
         RevokeFails, RevokeStep, bounds
<1>2. \/ UNCHANGED <<examples, profile, due>>
      \/ due' = {} /\ (examples' = examples \/ examples' = {})
  BY DEF BeginRevoke, Suspend, RemoveExamples, RemoveProfile, RemoveDiagnostics, CloseRevocation,
         RevokeFails, database, bounds
<1>3. Texts({}) = {}
  BY DEF Texts
<1> QED
  BY <1>1, <1>2, <1>3 DEF CoverInv, Fresh, Known, Owed, Busy

\* Requests for a rebuild, failures, stops, grants and marks.
LEMMA BackgroundKeepsCover ==
  ASSUME Shapes, CoverInv,
         \/ AskRebuild \/ RunFails \/ Stop \/ BeginGrant \/ PutGrant
         \/ \E s \in 1..MaxSchedules : ReadLateMark(s) \/ PutLateMark(s) \/ LoseLateMark(s)
         \/ \E c \in Confirmations : ReadForConfirmation(c) \/ PutConfirmation(c)
  PROVE  CoverInv'
<1>1. CASE AskRebuild
  BY <1>1, ScheduleKeepsCover DEF AskRebuild, Fresh
<1>2. CASE RunFails
  <2>1. UNCHANGED <<examples, profile, storing>>
    BY <1>2 DEF RunFails, database
  <2>2. CASE runner' = "failing" /\ run' = NoRun /\ UNCHANGED <<queued, due>>
    BY <2>1, <2>2, NoRunKnowsNothing DEF CoverInv, Fresh, Known, Busy
  <2>3. CASE /\ runner' = IF queued THEN "consent" ELSE "idle"
             /\ queued' = FALSE /\ run' = NoRun /\ Release
    <3>1. /\ Texts(run'.examples) = {} /\ Texts(run'.stale) = {} /\ due' \subseteq due
          /\ ~queued => due' = {}
      BY <2>3, NoRunKnowsNothing DEF Release
    <3>2. runner' \in {"consent", "idle"} /\ (runner' = "idle" => ~queued) /\ ~queued'
      BY <2>3
    <3> QED
      BY <2>1, <3>1, <3>2 DEF CoverInv, Fresh, Known, Busy
  <2>4. CASE EndRun /\ Release /\ UNCHANGED queued
    BY <2>1, <2>4, RunEnds
  <2> QED
    BY <1>2, <2>2, <2>3, <2>4 DEF RunFails
<1>3. CASE Stop
  <2>1. /\ runner' = "idle" /\ queued' = FALSE /\ run' = NoRun /\ due' = {}
        /\ UNCHANGED <<examples, profile>>
        /\ \A r \in Requests : Fresh(r)' => Fresh(r)
    BY <1>3 DEF Stop, database, Fresh
  <2> QED
    BY <2>1, NoRunKnowsNothing DEF CoverInv, Known, Busy
<1>4. CASE \/ BeginGrant \/ PutGrant
           \/ \E s \in 1..MaxSchedules : ReadLateMark(s) \/ PutLateMark(s) \/ LoseLateMark(s)
           \/ \E c \in Confirmations : ReadForConfirmation(c) \/ PutConfirmation(c)
  <2>1. UNCHANGED <<examples, profile, runner, queued, run, due, storing>>
    BY <1>4 DEF BeginGrant, PutGrant, ReadLateMark, PutLateMark, LoseLateMark, ReadForConfirmation,
       PutConfirmation, database, bounds
  <2> QED
    BY <2>1 DEF CoverInv, Fresh, Known, Owed, Busy, Texts
<1> QED
  BY <1>1, <1>2, <1>3, <1>4

\* Every step keeps what is owed read or flagged.
LEMMA StepKeepsCover == VersionInv /\ CoverInv /\ [Next]_vars => CoverInv'
<1> SUFFICES ASSUME VersionInv, CoverInv, [Next]_vars PROVE CoverInv'
  OBVIOUS
<1>1. Shapes
  BY DEF VersionInv
<1>2. CASE Next
  BY <1>1, <1>2, RunKeepsCover, SubmissionsKeepCover, RevocationsKeepCover, BackgroundKeepsCover
     DEF Next, Background
<1>3. CASE UNCHANGED vars
  <2>1. UNCHANGED <<examples, profile, runner, queued, run, due, storing>>
    BY <1>3 DEF vars, database, process, bounds
  <2> QED
    BY <2>1 DEF CoverInv, Fresh, Known, Owed, Busy, Texts
<1> QED
  BY <1>2, <1>3

(* A text that was stored when a rebuild was asked for is in the material  *)
(* once the queue is at rest, unless the run was skipped, failed or its    *)
(* rows revoked: the flag never loses what came in during a run.           *)
THEOREM EveryRequestIsCovered == Spec => []RequestsAreCovered
<1>1. VersionInv /\ [Next]_vars => VersionInv'
  BY StepKeepsVersion
<1>2. CoverInv => RequestsAreCovered
  BY DEF CoverInv, RequestsAreCovered
<1> QED
  BY <1>1, <1>2, InitVersion, InitCover, StepKeepsCover, PTL DEF Spec

-----------------------------------------------------------------------------
(* The rows are numbered by their count: only all of them are ever         *)
(* removed, so that the next number is free.                               *)
Rows == [id : Nat \ {0}, text : Requests, dirty : BOOLEAN, target : Nat \ {0}]
Moments == {"new", "suspend", "examples", "profile", "diagnostics", "close", "done", "blocked"}

Numbered ==
  /\ examples \subseteq Rows
  /\ IsFiniteSet(examples)
  /\ \A row \in examples : row.id <= Cardinality(examples)
  /\ \A a, b \in examples : a.id = b.id => a = b

RunTyped ==
  /\ run.examples \subseteq Rows /\ run.stale \subseteq Rows /\ run.learned \subseteq Requests
  /\ runner \in {"readExamples", "putProfile", "putDiagnostics", "clear"} => run.version # 0

RowInv ==
  /\ consent \in [granted : BOOLEAN, ever : BOOLEAN, revoked : BOOLEAN]
  /\ revoking \in [Revocations -> [at : Moments, ever : BOOLEAN]]
  /\ diagnostics.status \in {"absent", "idle", "in_progress", "failed"}
  /\ Numbered
  /\ profile.covers \subseteq Requests /\ profile.learned \subseteq Requests
  /\ due \subseteq Requests
  /\ RunTyped

\* The texts of rows are submissions.
LEMMA TextsTyped ==
  ASSUME NEW rows, rows \subseteq Rows
  PROVE  Texts(rows) \subseteq Requests
BY DEF Texts, Rows

\* Nothing is stored and nothing runs.
LEMMA InitRows == Init => RowInv
<1> SUFFICES ASSUME Init PROVE RowInv
  OBVIOUS
<1>1. IsFiniteSet({})
  BY FS_EmptySet
<1> QED
  BY <1>1 DEF Init, RowInv, Numbered, RunTyped, NoDiagnostics, NoProfile, NoRun, Moments

\* A schedule asks for what is stored.
LEMMA ScheduleRows ==
  ASSUME Shapes, RowInv, Schedule, UNCHANGED <<database, run, revoking>>
  PROVE  RowInv'
<1>1. due' \subseteq Requests
  BY TextsTyped DEF Schedule, RowInv, Numbered
<1>2. UNCHANGED <<consent, examples, profile, diagnostics>>
  BY DEF database
<1>3. runner' \in {runner, "consent"}
  BY DEF Schedule
<1> QED
  BY <1>1, <1>2, <1>3 DEF RowInv, Numbered, RunTyped

\* A flag that is cleared leaves the numbers as they are.
LEMMA ClearKeepsNumbers ==
  ASSUME Numbered, NEW new \in Rows, NEW old \in examples, old.id = new.id,
         examples' = {stored \in examples : stored.id # new.id} \union {new}
  PROVE  Numbered'
<1> DEFINE rest == examples \ {old}
<1>1. {stored \in examples : stored.id # new.id} = rest
  BY DEF Numbered
<1>2. examples' = rest \union {new} /\ new \notin rest
  BY <1>1
<1>3. /\ IsFiniteSet(rest)
      /\ Cardinality(rest) = Cardinality(examples) - 1
      /\ Cardinality(examples) \in Nat
  BY FS_RemoveElement, FS_CardinalityType DEF Numbered
<1> HIDE DEF rest
<1>4. /\ IsFiniteSet(rest \union {new})
      /\ Cardinality(rest \union {new}) = Cardinality(rest) + 1
  BY <1>2, <1>3, FS_AddElement
<1>5. IsFiniteSet(examples') /\ Cardinality(examples') = Cardinality(examples)
  <2>1. Cardinality(rest \union {new}) = Cardinality(examples)
    BY <1>3, <1>4
  <2>2. examples' = rest \union {new}
    BY <1>2
  <2> QED
    BY <1>4, <2>1, <2>2, Zenon
<1>6. examples' \subseteq Rows
  BY <1>1, <1>2 DEF Numbered
<1>7. \A row \in examples' : row.id <= Cardinality(examples)
  BY DEF Numbered
<1>8. \A a, b \in examples' : a.id = b.id => a = b
  BY DEF Numbered
<1> QED
  BY <1>5, <1>6, <1>7, <1>8 DEF Numbered

\* Another row takes the next number.
LEMMA CreateKeepsNumbers ==
  ASSUME Numbered, NEW new \in Rows, new.id = Cardinality(examples) + 1,
         examples' = examples \union {new}
  PROVE  Numbered'
<1>1. Cardinality(examples) \in Nat
  BY FS_CardinalityType DEF Numbered
<1>2. new \notin examples
  BY <1>1 DEF Numbered, Rows
<1>3. IsFiniteSet(examples') /\ Cardinality(examples') = Cardinality(examples) + 1
  BY <1>2, FS_AddElement DEF Numbered
<1>4. examples' \subseteq Rows
  BY DEF Numbered
<1>5. \A row \in examples : row.id \in Nat /\ row.id <= Cardinality(examples)
  BY DEF Numbered, Rows
<1>6. \A row \in examples' : row.id <= Cardinality(examples')
  <2>1. \A row \in examples' : row.id <= Cardinality(examples) + 1
    BY <1>1, <1>5
  <2> QED
    BY <1>3, <2>1, Zenon
<1>7. \A a, b \in examples' : a.id = b.id => a = b
  BY <1>1, <1>5 DEF Numbered
<1> QED
  BY <1>3, <1>4, <1>6, <1>7 DEF Numbered

\* The end of a run reads nothing more.
LEMMA EndKeepsRows ==
  ASSUME RowInv, run' = NoRun, runner' \in {"marking", "idle", "consent"},
         UNCHANGED <<consent, examples, profile, revoking>>, due' \subseteq due,
         diagnostics'.status \in {"absent", "idle", "in_progress", "failed"}
  PROVE  RowInv'
BY DEF RowInv, Numbered, RunTyped, NoRun

\* The steps of a run.
LEMMA RunKeepsRows ==
  ASSUME VersionInv, RowInv, Rebuild
  PROVE  RowInv'
<1> USE DEF VersionInv
<1>1. CASE CheckConsent
  <2>1. CASE Consented
    BY <1>1, <2>1 DEF CheckConsent, RowInv, Numbered, RunTyped, database
  <2>2. CASE ~Consented
    BY <1>1, <2>2, EndKeepsRows DEF CheckConsent, EndRun, Release, database, RowInv
  <2> QED
    BY <2>1, <2>2
<1>2. CASE ReadProfile
  <2>1. /\ run'.examples = run.examples /\ run'.stale = run.stale
        /\ run'.learned = profile.learned
    BY <1>2 DEF ReadProfile, Shapes
  <2> QED
    BY <1>2, <2>1 DEF ReadProfile, RowInv, Numbered, RunTyped, database, bounds
<1>3. CASE ReadDiagnostics
  <2>1. /\ run'.version = NextVersion(run.version, diagnostics)
        /\ run'.examples = run.examples /\ run'.stale = run.stale
        /\ run'.learned = run.learned
    BY <1>3 DEF ReadDiagnostics, Shapes
  <2>2. run'.version # 0
    BY <2>1, NextIsLater DEF Shapes
  <2> QED
    BY <1>3, <2>1, <2>2 DEF ReadDiagnostics, RowInv, Numbered, RunTyped, database, bounds
<1>4. CASE ReadExamples
  <2>1. /\ run'.version = run.version /\ run'.learned = run.learned
        /\ run'.examples = examples /\ run'.stale \subseteq examples
    BY <1>4 DEF ReadExamples, Flagged, Shapes
  <2> QED
    BY <1>4, <2>1 DEF ReadExamples, RowInv, Numbered, RunTyped, database, bounds
<1>5. CASE PutProfile
  <2>1. profile'.covers \subseteq Requests /\ profile'.learned \subseteq Requests
    BY <1>5, TextsTyped DEF PutProfile, RowInv, RunTyped
  <2>2. /\ run'.version = run.version /\ run'.stale = run.stale
        /\ run'.examples = {} /\ run'.learned = {}
    BY <1>5 DEF PutProfile, Shapes
  <2> QED
    BY <1>5, <2>1, <2>2 DEF PutProfile, RowInv, Numbered, RunTyped
<1>6. CASE PutDiagnostics
  BY <1>6 DEF PutDiagnostics, RowInv, Numbered, RunTyped, bounds
<1>7. CASE ClearFlag
  <2>1. PICK row \in run.stale :
          IF \E stored \in examples : stored.id = row.id
          THEN /\ examples' = {stored \in examples : stored.id # row.id}
                                \union {[row EXCEPT !.dirty = FALSE, !.target = run.version]}
               /\ run' = [run EXCEPT !.stale = @ \ {row}]
               /\ UNCHANGED runner
          ELSE runner' = "failing" /\ run' = NoRun /\ UNCHANGED examples
    BY <1>7 DEF ClearFlag
  <2>2. UNCHANGED <<consent, profile, diagnostics, revoking, due>>
    BY <1>7 DEF ClearFlag, bounds
  <2>3. CASE \E stored \in examples : stored.id = row.id
    <3> DEFINE new == [row EXCEPT !.dirty = FALSE, !.target = run.version]
    <3>1. /\ row \in Rows /\ run.version \in Nat \ {0}
          /\ examples' = {stored \in examples : stored.id # row.id} \union {new}
      BY <1>7, <2>1, <2>3 DEF RowInv, RunTyped, ClearFlag, Shapes
    <3>2. new \in Rows /\ new.id = row.id
      <4> DEFINE clean == [row EXCEPT !.dirty = FALSE]
      <4>1. clean \in Rows /\ clean.id = row.id
        BY <3>1 DEF Rows
      <4>2. new = [clean EXCEPT !.target = run.version]
        OBVIOUS
      <4> HIDE DEF new, clean
      <4> QED
        BY <3>1, <4>1, <4>2 DEF Rows
    <3> HIDE DEF new
    <3>3. PICK old \in examples : old.id = new.id
      BY <2>3, <3>2
    <3>4. examples' = {stored \in examples : stored.id # new.id} \union {new}
      BY <3>1, <3>2
    <3>5. Numbered'
      BY <3>2, <3>3, <3>4, ClearKeepsNumbers DEF RowInv
    <3>6. /\ run'.version = run.version /\ run'.examples = run.examples
          /\ run'.learned = run.learned
          /\ run'.stale \subseteq run.stale /\ UNCHANGED runner
      BY <2>1, <2>3 DEF Shapes
    <3> QED
      BY <2>2, <3>5, <3>6 DEF RowInv, RunTyped
  <2>4. CASE ~\E stored \in examples : stored.id = row.id
    BY <2>1, <2>2, <2>4 DEF RowInv, Numbered, RunTyped, NoRun
  <2> QED
    BY <2>3, <2>4
<1>8. CASE FlagsCleared
  BY <1>8, EndKeepsRows DEF FlagsCleared, EndRun, database, bounds, RowInv
<1>9. CASE ReadForFailure \/ ReadForMark
  <2>1. /\ run'.examples = run.examples /\ run'.stale = run.stale
        /\ run'.learned = run.learned
        /\ runner' \in {"failingDiagnostics", "putFailure", "markingDiagnostics", "putMark"}
    BY <1>9 DEF ReadForFailure, ReadForMark, Shapes
  <2> QED
    BY <1>9, <2>1 DEF ReadForFailure, ReadForMark, RowInv, Numbered, RunTyped, database, bounds
<1>10. CASE PutFailure
  BY <1>10, EndKeepsRows DEF PutFailure, EndRun, Release
<1>11. CASE PutMark
  BY <1>11, EndKeepsRows DEF PutMark, bounds
<1> QED
  BY <1>1, <1>2, <1>3, <1>4, <1>5, <1>6, <1>7, <1>8, <1>9, <1>10, <1>11 DEF Rebuild

\* A submission adds at most one row, under the next number.
LEMMA SubmissionsKeepRows ==
  ASSUME VersionInv, RowInv, NEW r \in Requests,
         Submit(r) \/ Submitted(r) \/ AssertConsent(r) \/ CreateExample(r) \/ CreateFails(r)
  PROVE  RowInv'
<1>1. CASE Submitted(r)
  <2>1. CASE Schedule /\ UNCHANGED run
    BY <1>1, <2>1, ScheduleRows DEF Submitted, VersionInv
  <2>2. CASE UNCHANGED <<runner, queued, run, marks, bounds>>
    BY <1>1, <2>2 DEF Submitted, database, bounds, RowInv, Numbered, RunTyped
  <2> QED
    BY <1>1, <2>1, <2>2 DEF Submitted
<1>2. CASE CreateExample(r)
  <2> DEFINE new == [id |-> Cardinality(examples) + 1, text |-> r, dirty |-> TRUE,
                     target |-> TargetVersion]
  <2>1. TargetVersion \in Nat \ {0}
    BY SMTT(30) DEF TargetVersion, VersionInv, Shapes
  <2>2. Cardinality(examples) + 1 \in Nat \ {0}
    BY FS_CardinalityType DEF RowInv, Numbered
  <2>3. new \in Rows /\ new.id = Cardinality(examples) + 1
    BY <2>1, <2>2 DEF Rows
  <2>4. examples' = examples \union {new}
    BY <1>2 DEF CreateExample
  <2> HIDE DEF new
  <2>5. Numbered'
    BY <2>3, <2>4, CreateKeepsNumbers DEF RowInv
  <2> QED
    BY <1>2, <2>5 DEF CreateExample, bounds, RowInv, RunTyped
<1>3. CASE Submit(r) \/ AssertConsent(r) \/ CreateFails(r)
  BY <1>3 DEF Submit, AssertConsent, CreateFails, database, bounds, RowInv, Numbered, RunTyped
<1> QED
  BY <1>1, <1>2, <1>3

\* A consent that is written whole.
LEMMA ConsentTyped ==
  ASSUME NEW g \in BOOLEAN, NEW e \in BOOLEAN, NEW d \in BOOLEAN
  PROVE  [granted |-> g, ever |-> e, revoked |-> d]
           \in [granted : BOOLEAN, ever : BOOLEAN, revoked : BOOLEAN]
OBVIOUS

\* A revocation removes all the rows or none.
LEMMA RevocationsKeepRows ==
  ASSUME RowInv, NEW v \in Revocations,
         \/ BeginRevoke(v) \/ Suspend(v) \/ RemoveExamples(v) \/ RemoveProfile(v)
         \/ RemoveDiagnostics(v) \/ CloseRevocation(v) \/ RevokeFails(v)
  PROVE  RowInv'
<1>1. UNCHANGED <<runner, run>>
  BY DEF BeginRevoke, Suspend, RemoveExamples, RemoveProfile, RemoveDiagnostics, CloseRevocation,
         RevokeFails, RevokeStep, bounds
<1>2. revoking' \in [Revocations -> [at : Moments, ever : BOOLEAN]]
  <2>1. /\ revoking \in [Revocations -> [at : Moments, ever : BOOLEAN]]
        /\ consent.ever \in BOOLEAN
    BY DEF RowInv
  <2>2. CASE BeginRevoke(v)
    BY <2>1, <2>2 DEF BeginRevoke, Moments
  <2>3. CASE Suspend(v)
    BY <2>1, <2>3 DEF Suspend, RevokeStep, Moments
  <2>4. CASE RemoveExamples(v)
    BY <2>1, <2>4 DEF RemoveExamples, RevokeStep, Moments
  <2>5. CASE RemoveProfile(v)
    BY <2>1, <2>5 DEF RemoveProfile, RevokeStep, Moments
  <2>6. CASE RemoveDiagnostics(v)
    BY <2>1, <2>6 DEF RemoveDiagnostics, RevokeStep, Moments
  <2>7. CASE CloseRevocation(v)
    BY <2>1, <2>7 DEF CloseRevocation, RevokeStep, Moments
  <2>8. CASE RevokeFails(v)
    BY <2>1, <2>8 DEF RevokeFails, Moments
  <2> QED
    BY <2>2, <2>3, <2>4, <2>5, <2>6, <2>7, <2>8
<1>3. /\ consent' \in [granted : BOOLEAN, ever : BOOLEAN, revoked : BOOLEAN]
      /\ diagnostics'.status \in {"absent", "idle", "in_progress", "failed"}
  <2>1. revoking[v].ever \in BOOLEAN
    BY DEF RowInv
  <2>2. \/ consent' = consent
        \/ consent' = [granted |-> FALSE, ever |-> revoking[v].ever, revoked |-> FALSE]
        \/ consent' = [granted |-> FALSE, ever |-> revoking[v].ever, revoked |-> TRUE]
    BY DEF BeginRevoke, Suspend, RemoveExamples, RemoveProfile, RemoveDiagnostics, CloseRevocation,
           RevokeFails, database
  <2>3. diagnostics' = diagnostics \/ diagnostics'.status = "absent"
    BY DEF BeginRevoke, Suspend, RemoveExamples, RemoveProfile, RemoveDiagnostics, CloseRevocation,
           RevokeFails, database, NoDiagnostics
  <2>4. consent' \in [granted : BOOLEAN, ever : BOOLEAN, revoked : BOOLEAN]
    BY <2>1, <2>2, ConsentTyped, ZenonT(45) DEF RowInv
  <2> QED
    BY <2>3, <2>4 DEF RowInv
<1>4. /\ examples' = examples \/ examples' = {}
      /\ profile'.covers \subseteq Requests /\ profile'.learned \subseteq Requests
      /\ due' \subseteq Requests
  BY DEF BeginRevoke, Suspend, RemoveExamples, RemoveProfile, RemoveDiagnostics, CloseRevocation,
         RevokeFails, database, bounds, NoProfile, RowInv
<1>5. Numbered'
  <2>1. IsFiniteSet({})
    BY FS_EmptySet
  <2>2. CASE examples' = examples
    BY <2>2 DEF RowInv, Numbered
  <2>3. CASE examples' = {}
    BY <2>1, <2>3 DEF Numbered
  <2> QED
    BY <1>4, <2>2, <2>3
<1> QED
  BY <1>1, <1>2, <1>3, <1>4, <1>5 DEF RowInv, RunTyped

\* What happens beside a run, and its failure.
LEMMA BackgroundKeepsRows ==
  ASSUME VersionInv, RowInv,
         \/ AskRebuild \/ RunFails \/ Stop \/ BeginGrant \/ PutGrant
         \/ \E s \in 1..MaxSchedules : ReadLateMark(s) \/ PutLateMark(s) \/ LoseLateMark(s)
         \/ \E c \in Confirmations : ReadForConfirmation(c) \/ PutConfirmation(c)
  PROVE  RowInv'
<1>1. CASE AskRebuild
  BY <1>1, ScheduleRows DEF AskRebuild, VersionInv
<1>2. CASE RunFails
  <2>1. UNCHANGED <<consent, examples, profile, diagnostics, revoking>>
    BY <1>2 DEF RunFails, database
  <2>2. CASE runner' = "failing" /\ run' = NoRun /\ UNCHANGED <<queued, due>>
    BY <2>1, <2>2 DEF RowInv, Numbered, RunTyped, NoRun
  <2>3. CASE run' = NoRun /\ runner' \in {"marking", "idle", "consent"} /\ Release
    BY <2>1, <2>3, EndKeepsRows DEF Release, RowInv
  <2> QED
    BY <1>2, <2>2, <2>3 DEF RunFails, EndRun
<1>3. CASE Stop
  <2>1. revoking' \in [Revocations -> [at : Moments, ever : BOOLEAN]]
    BY <1>3 DEF Stop, RowInv, Moments
  <2>2. /\ UNCHANGED <<consent, examples, profile, diagnostics>>
        /\ due' = {} /\ run' = NoRun /\ runner' = "idle"
    BY <1>3 DEF Stop, database
  <2> QED
    BY <2>1, <2>2 DEF RowInv, Numbered, RunTyped, NoRun
<1>4. CASE BeginGrant \/ PutGrant
  <2>1. consent' = consent \/ consent' = [granted |-> TRUE, ever |-> TRUE, revoked |-> FALSE]
    BY <1>4 DEF BeginGrant, PutGrant, database
  <2>2. consent' \in [granted : BOOLEAN, ever : BOOLEAN, revoked : BOOLEAN]
    BY <2>1, ConsentTyped, Zenon DEF RowInv
  <2>3. UNCHANGED <<examples, profile, diagnostics, runner, run, revoking, due>>
    BY <1>4 DEF BeginGrant, PutGrant, database, bounds
  <2> QED
    BY <2>2, <2>3 DEF RowInv, Numbered, RunTyped
<1>5. CASE \/ \E s \in 1..MaxSchedules : ReadLateMark(s) \/ PutLateMark(s) \/ LoseLateMark(s)
           \/ \E c \in Confirmations : ReadForConfirmation(c) \/ PutConfirmation(c)
  <2>1. UNCHANGED <<consent, examples, profile, runner, run, revoking, due>>
    BY <1>5 DEF ReadLateMark, PutLateMark, LoseLateMark, ReadForConfirmation,
       PutConfirmation, database, bounds
  <2>2. \A c \in Confirmations : confirming[c].shown \in Shown
    BY DEF VersionInv, Shapes
  <2>3. \/ diagnostics' = diagnostics \/ diagnostics'.status = "in_progress"
        \/ \E c \in Confirmations : diagnostics' = confirming[c].shown
    BY <1>5 DEF ReadLateMark, PutLateMark, LoseLateMark, ReadForConfirmation,
       PutConfirmation, database
  <2>4. diagnostics'.status \in {"absent", "idle", "in_progress", "failed"}
    BY <2>2, <2>3 DEF RowInv
  <2> QED
    BY <2>1, <2>4 DEF RowInv, Numbered, RunTyped
<1> QED
  BY <1>1, <1>2, <1>3, <1>4, <1>5

\* Every step keeps the rows numbered and typed.
LEMMA StepKeepsRows == VersionInv /\ RowInv /\ [Next]_vars => RowInv'
<1> SUFFICES ASSUME VersionInv, RowInv, [Next]_vars PROVE RowInv'
  OBVIOUS
<1>1. CASE Next
  BY <1>1, RunKeepsRows, SubmissionsKeepRows, RevocationsKeepRows, BackgroundKeepsRows
     DEF Next, Background
<1>2. CASE UNCHANGED vars
  BY <1>2 DEF vars, database, process, bounds, RowInv, Numbered, RunTyped
<1> QED
  BY <1>1, <1>2

(* The voice's state keeps its types, and no number is given to two rows:  *)
(* the count of rows is a free number because rows only go all together.   *)
THEOREM TrainingTypeCorrect == Spec => []TypeOK
<1>1. VersionInv /\ [Next]_vars => VersionInv'
  BY StepKeepsVersion
<1>2. VersionInv /\ RowInv => TypeOK
  BY DEF VersionInv, Shapes, RowInv, Numbered, RunTyped, Rows, TypeOK
<1> QED
  BY <1>1, <1>2, InitVersion, InitRows, StepKeepsRows, PTL DEF Spec

-----------------------------------------------------------------------------
(* A flag is cleared on the copy that the run read, after the profile that *)
(* this run wrote: the cleared row and the written texts come from one     *)
(* read.  What a run holds while it writes is what makes that inductive.   *)
(* A run whose extraction failed keeps what was learned before, and tells  *)
(* of it before it clears; the marks that come later tell of a rebuild.    *)
AllNew == \A v \in Revocations : revoking[v].at = "new"
Covers(texts) == \A row \in examples : ~row.dirty => row.text \in texts

Told == diagnostics.status \in {"failed", "in_progress"}

Read ==
  /\ runner \in {"readDiagnostics", "readExamples", "putProfile"} => run.learned = profile.learned
  /\ runner = "putProfile" => Covers(Texts(run.examples)) /\ run.stale \subseteq run.examples
  /\ runner \in {"putDiagnostics", "clear"} =>
       /\ Texts(run.stale) \subseteq profile.covers
       /\ run.fresh => profile.learned = profile.covers
  /\ runner = "clear" => run.fresh \/ Told

Kept == Covers(profile.covers) /\ (Told \/ Covers(profile.learned))

NoneOverwritten == \A c \in Confirmations : confirming[c].at # "overwrote"

FlagsKept == Kept /\ Read
FlagInv == AllNew /\ NoneOverwritten => FlagsKept

\* A revocation that has begun stays begun.
LEMMA RevocationsStayBegun ==
  ASSUME RowInv, [Next]_vars, AllNew'
  PROVE  AllNew /\ UNCHANGED revoking
<1>1. revoking \in [Revocations -> [at : Moments, ever : BOOLEAN]]
  BY DEF RowInv
<1>2. CASE UNCHANGED revoking
  BY <1>2 DEF AllNew
<1>3. CASE Stop
  <2>1. \A v \in Revocations : revoking'[v] =
          IF revoking[v].at \in {"new", "done"} THEN revoking[v]
                                                ELSE [revoking[v] EXCEPT !.at = "blocked"]
    BY <1>3 DEF Stop
  <2>2. \A v \in Revocations : revoking[v].at = "new"
    BY <1>1, <2>1, ZenonT(45) DEF AllNew, Moments
  <2>3. revoking' = [v \in Revocations |-> revoking[v]]
    BY <1>3, <2>2 DEF Stop
  <2>4. UNCHANGED revoking
    BY <1>1, <2>3
  <2> QED
    BY <2>2, <2>4 DEF AllNew
<1>4. ASSUME NEW v \in Revocations,
             \/ BeginRevoke(v) \/ Suspend(v) \/ RemoveExamples(v) \/ RemoveProfile(v)
             \/ RemoveDiagnostics(v) \/ CloseRevocation(v) \/ RevokeFails(v)
      PROVE  FALSE
  <2>1. revoking'[v].at \in {"suspend", "examples", "profile", "diagnostics", "close", "done",
                             "blocked"}
    BY <1>1, <1>4 DEF BeginRevoke, Suspend, RemoveExamples, RemoveProfile, RemoveDiagnostics,
                      CloseRevocation, RevokeFails, RevokeStep
  <2> QED
    BY <2>1 DEF AllNew
<1>5. CASE Rebuild
  BY <1>2, <1>5 DEF Rebuild, CheckConsent, ReadProfile, ReadDiagnostics, ReadExamples, PutProfile,
     PutDiagnostics, ClearFlag, FlagsCleared, ReadForFailure, PutFailure, ReadForMark, PutMark
<1>6. CASE AskRebuild \/ RunFails \/ BeginGrant \/ PutGrant \/ UNCHANGED vars
  BY <1>2, <1>6 DEF AskRebuild, RunFails, BeginGrant, PutGrant, vars, process
<1>7. CASE \/ \E s \in 1..MaxSchedules : ReadLateMark(s) \/ PutLateMark(s) \/ LoseLateMark(s)
           \/ \E c \in Confirmations : ReadForConfirmation(c) \/ PutConfirmation(c)
  BY <1>2, <1>7 DEF ReadLateMark, PutLateMark, LoseLateMark, ReadForConfirmation,
       PutConfirmation
<1>8. CASE \E r \in Requests :
             Submit(r) \/ Submitted(r) \/ AssertConsent(r) \/ CreateExample(r) \/ CreateFails(r)
  BY <1>2, <1>8 DEF Submit, Submitted, AssertConsent, CreateExample, CreateFails
<1> QED
  BY <1>3, <1>4, <1>5, <1>6, <1>7, <1>8 DEF Next, Background

\* While every revocation is new, none of them takes a step.
LEMMA NothingRevoked ==
  ASSUME RowInv, AllNew, UNCHANGED revoking, NEW v \in Revocations,
         \/ BeginRevoke(v) \/ Suspend(v) \/ RemoveExamples(v) \/ RemoveProfile(v)
         \/ RemoveDiagnostics(v) \/ CloseRevocation(v) \/ RevokeFails(v)
  PROVE  FALSE
<1>1. revoking'[v].at \in {"suspend", "examples", "profile", "diagnostics", "close", "done",
                           "blocked"}
  BY DEF BeginRevoke, Suspend, RemoveExamples, RemoveProfile, RemoveDiagnostics, CloseRevocation,
         RevokeFails, RevokeStep, RowInv
<1> QED
  BY <1>1 DEF AllNew

\* A step that neither stores nor clears, and leaves what the run holds or drops it.
LEMMA ElsewhereKeepsFlags ==
  ASSUME AllNew, FlagsKept, UNCHANGED <<examples, profile>>, UNCHANGED diagnostics \/ Told',
         \/ UNCHANGED <<runner, run>>
         \/ runner' \notin {"readDiagnostics", "readExamples", "putProfile", "putDiagnostics",
                           "clear"}
  PROVE  FlagsKept'
<1>1. Kept'
  BY DEF FlagsKept, Kept, Covers, Told
<1>2. Read'
  BY DEF FlagsKept, Read, Covers, Texts, Told
<1> QED
  BY <1>1, <1>2 DEF FlagsKept

\* The steps of a run.
LEMMA RunKeepsFlags ==
  ASSUME VersionInv, RowInv, AllNew, FlagsKept, Rebuild
  PROVE  FlagsKept'
<1> USE DEF VersionInv
<1>1. CASE ReadExamples
  <2>1. /\ UNCHANGED <<examples, profile, diagnostics>> /\ runner' = "putProfile"
        /\ runner = "readExamples" /\ run'.learned = run.learned
        /\ run'.examples = examples /\ run'.stale \subseteq examples
    BY <1>1 DEF ReadExamples, Flagged, database, Shapes
  <2>2. \A row \in examples : row.text \in Texts(examples)
    BY DEF Texts
  <2>3. Read'
    BY <2>1, <2>2 DEF FlagsKept, Covers, Read
  <2>4. Kept'
    BY <2>1 DEF FlagsKept, Kept, Covers, Told
  <2> QED
    BY <2>3, <2>4 DEF FlagsKept
<1>2. CASE PutProfile
  <2>1. /\ UNCHANGED <<examples, diagnostics>> /\ runner' = "putDiagnostics"
        /\ profile'.covers = Texts(run.examples) /\ runner = "putProfile"
        /\ run'.stale = run.stale
        /\ \/ run'.fresh = TRUE /\ profile'.learned = Texts(run.examples)
           \/ run'.fresh = FALSE /\ profile'.learned = run.learned
    BY <1>2 DEF PutProfile, Shapes
  <2>2. /\ Covers(Texts(run.examples)) /\ run.stale \subseteq run.examples
        /\ run.learned = profile.learned
    BY <2>1 DEF FlagsKept, Read
  <2>3. Texts(run.stale) \subseteq Texts(run.examples)
    BY <2>2 DEF Texts
  <2>4. Read'
    BY <2>1, <2>3 DEF Read, Texts
  <2>5. Kept'
    BY <2>1, <2>2 DEF FlagsKept, Kept, Covers, Told
  <2> QED
    BY <2>4, <2>5 DEF FlagsKept
<1>3. CASE PutDiagnostics
  <2>1. /\ UNCHANGED <<examples, profile, run>>
        /\ runner = "putDiagnostics" /\ runner' = "clear"
        /\ diagnostics'.status = IF run.fresh THEN "idle" ELSE "failed"
    BY <1>3 DEF PutDiagnostics
  <2>2. /\ Texts(run.stale) \subseteq profile.covers
        /\ run.fresh => profile.learned = profile.covers
        /\ Covers(profile.covers)
    BY <2>1 DEF FlagsKept, Read, Kept
  <2>3. run.fresh \/ Told'
    BY <2>1 DEF Told
  <2>4. Read'
    BY <2>1, <2>2, <2>3 DEF Read, Texts
  <2>5. Kept'
    BY <2>1, <2>2, <2>3 DEF Kept, Covers
  <2> QED
    BY <2>4, <2>5 DEF FlagsKept
<1>4. CASE ClearFlag
  <2>1. PICK row \in run.stale :
          IF \E stored \in examples : stored.id = row.id
          THEN /\ examples' = {stored \in examples : stored.id # row.id}
                                \union {[row EXCEPT !.dirty = FALSE, !.target = run.version]}
               /\ run' = [run EXCEPT !.stale = @ \ {row}]
               /\ UNCHANGED runner
          ELSE runner' = "failing" /\ run' = NoRun /\ UNCHANGED examples
    BY <1>4 DEF ClearFlag
  <2>2. UNCHANGED <<profile, diagnostics>> /\ runner = "clear"
    BY <1>4 DEF ClearFlag
  <2>3. CASE \E stored \in examples : stored.id = row.id
    <3> DEFINE new == [row EXCEPT !.dirty = FALSE, !.target = run.version]
    <3>1. /\ Texts(run.stale) \subseteq profile.covers /\ Kept
          /\ run.fresh => profile.learned = profile.covers
          /\ run.fresh \/ Told
      BY <2>2 DEF FlagsKept, Read
    <3>2. row \in Rows
      BY DEF RowInv, RunTyped
    <3>3. new.text = row.text
      BY <3>2 DEF Rows
    <3>4. row.text \in profile.covers
      BY <3>1 DEF Texts
    <3>5. /\ examples' = {stored \in examples : stored.id # row.id} \union {new}
          /\ run'.stale \subseteq run.stale /\ UNCHANGED runner
          /\ run'.fresh = run.fresh
      BY <2>1, <2>3 DEF Shapes
    <3> HIDE DEF new
    <3>6. ASSUME NEW texts, Covers(texts), row.text \in texts
          PROVE  \A kept \in examples' : ~kept.dirty => kept.text \in texts
      BY <3>3, <3>5, <3>6 DEF Covers
    <3>7. Texts(run'.stale) \subseteq profile.covers
      BY <3>1, <3>5 DEF Texts
    <3>8. Kept'
      <4>1. Covers(profile.covers)'
        BY <2>2, <3>1, <3>4, <3>6 DEF Covers, Kept
      <4>2. CASE Told
        BY <2>2, <4>1, <4>2 DEF Kept, Told
      <4>3. CASE ~Told
        BY <2>2, <3>1, <4>1, <4>3 DEF Kept, Covers
      <4> QED
        BY <4>2, <4>3
    <3>9. Read'
      BY <2>2, <3>1, <3>5, <3>7 DEF Read, Told
    <3> QED
      BY <3>8, <3>9 DEF FlagsKept
  <2>4. CASE ~\E stored \in examples : stored.id = row.id
    BY <2>1, <2>2, <2>4, ElsewhereKeepsFlags
  <2> QED
    BY <2>3, <2>4
<1>5. CASE ReadProfile \/ ReadDiagnostics
  <2>1. /\ UNCHANGED <<examples, profile, diagnostics>>
        /\ runner' \in {"readDiagnostics", "readExamples"}
        /\ \/ run'.learned = profile.learned
           \/ runner = "readDiagnostics" /\ run'.learned = run.learned
    BY <1>5 DEF ReadProfile, ReadDiagnostics, Shapes, database
  <2>2. Read'
    BY <2>1 DEF FlagsKept, Read
  <2>3. Kept'
    BY <2>1 DEF FlagsKept, Kept, Covers, Told
  <2> QED
    BY <2>2, <2>3 DEF FlagsKept
<1>6. CASE CheckConsent \/ FlagsCleared \/ ReadForFailure \/ PutFailure \/ ReadForMark \/ PutMark
  <2>1. /\ UNCHANGED <<examples, profile>>
        /\ runner' \notin {"readDiagnostics", "readExamples", "putProfile", "putDiagnostics",
                           "clear"}
    BY <1>6 DEF CheckConsent, FlagsCleared, ReadForFailure, PutFailure, ReadForMark, PutMark,
                EndRun, database
  <2>2. UNCHANGED diagnostics \/ Told'
    BY <1>6 DEF CheckConsent, FlagsCleared, ReadForFailure, PutFailure, ReadForMark, PutMark,
                database, Told
  <2> QED
    BY <2>1, <2>2, ElsewhereKeepsFlags
<1> QED
  BY <1>1, <1>2, <1>3, <1>4, <1>5, <1>6 DEF Rebuild

\* Everything else: a new row is flagged.
LEMMA OthersKeepFlags ==
  ASSUME AllNew, FlagsKept, UNCHANGED revoking,
         \/ AskRebuild \/ RunFails \/ Stop \/ BeginGrant \/ PutGrant \/ UNCHANGED vars
         \/ \E s \in 1..MaxSchedules : ReadLateMark(s) \/ PutLateMark(s) \/ LoseLateMark(s)
         \/ \E r \in Requests :
              Submit(r) \/ Submitted(r) \/ AssertConsent(r) \/ CreateExample(r) \/ CreateFails(r)
  PROVE  FlagsKept'
<1>1. ASSUME NEW r \in Requests, CreateExample(r)
      PROVE  FlagsKept'
  <2> DEFINE new == [id |-> Cardinality(examples) + 1, text |-> r, dirty |-> TRUE,
                     target |-> TargetVersion]
  <2>1. examples' = examples \union {new} /\ UNCHANGED <<profile, diagnostics, runner, run>>
    BY <1>1 DEF CreateExample
  <2>2. new.dirty
    OBVIOUS
  <2> HIDE DEF new
  <2>3. ASSUME NEW texts, Covers(texts) PROVE \A row \in examples' : ~row.dirty => row.text \in texts
    BY <2>1, <2>2, <2>3 DEF Covers
  <2>4. Kept'
    BY <2>1, <2>3 DEF FlagsKept, Kept, Covers, Told
  <2>5. Read'
    BY <2>1, <2>3 DEF FlagsKept, Read, Covers, Told
  <2> QED
    BY <2>4, <2>5 DEF FlagsKept
<1>2. ASSUME NEW r \in Requests, Submit(r) \/ AssertConsent(r) \/ CreateFails(r)
      PROVE  FlagsKept'
  <2>1. UNCHANGED <<examples, profile, diagnostics, runner, run>>
    BY <1>2 DEF Submit, AssertConsent, CreateFails, database
  <2> QED
    BY <2>1, ElsewhereKeepsFlags
<1>3. ASSUME NEW r \in Requests, Submitted(r)
      PROVE  FlagsKept'
  <2>1. /\ UNCHANGED <<examples, profile, diagnostics>>
        /\ UNCHANGED <<runner, run>> \/ runner' = "consent"
    BY <1>3 DEF Submitted, Schedule, database
  <2> QED
    BY <2>1, ElsewhereKeepsFlags
<1>4. CASE AskRebuild
  <2>1. /\ UNCHANGED <<examples, profile, diagnostics>>
        /\ UNCHANGED <<runner, run>> \/ runner' = "consent"
    BY <1>4 DEF AskRebuild, Schedule, database
  <2> QED
    BY <2>1, ElsewhereKeepsFlags
<1>5. CASE RunFails \/ Stop
  <2>1. UNCHANGED <<examples, profile, diagnostics>>
        /\ runner' \in {"failing", "consent", "idle", "marking"}
    BY <1>5 DEF RunFails, Stop, EndRun, database
  <2> QED
    BY <2>1, ElsewhereKeepsFlags
<1>6. CASE \/ BeginGrant \/ PutGrant \/ UNCHANGED vars
           \/ \E s \in 1..MaxSchedules : ReadLateMark(s) \/ PutLateMark(s) \/ LoseLateMark(s)
  <2>1. UNCHANGED <<examples, profile, runner, run>> /\ (UNCHANGED diagnostics \/ Told')
    BY <1>6 DEF BeginGrant, PutGrant, ReadLateMark, PutLateMark, LoseLateMark, Told, vars, database,
                process
  <2> QED
    BY <2>1, ElsewhereKeepsFlags
<1> QED
  BY <1>1, <1>2, <1>3, <1>4, <1>5, <1>6

\* A confirmation that puts back what is there changes nothing.
LEMMA ConfirmationsKeepFlags ==
  ASSUME VersionInv, AllNew, NoneOverwritten', FlagsKept,
         NEW c \in Confirmations, ReadForConfirmation(c) \/ PutConfirmation(c)
  PROVE  FlagsKept'
<1>1. UNCHANGED <<examples, profile, runner, run>>
  BY DEF ReadForConfirmation, PutConfirmation, database
<1>2. UNCHANGED diagnostics
  <2>1. CASE PutConfirmation(c)
    <3>1. confirming'[c].at # "overwrote" => diagnostics = confirming[c].shown
      BY <2>1 DEF PutConfirmation, VersionInv, Shapes
    <3> QED
      BY <2>1, <3>1 DEF PutConfirmation, NoneOverwritten
  <2>2. CASE ReadForConfirmation(c)
    BY <2>2 DEF ReadForConfirmation, database
  <2> QED
    BY <2>1, <2>2
<1> QED
  BY <1>1, <1>2, ElsewhereKeepsFlags

\* What a confirmation has overwritten stays recorded.
LEMMA OverwrittenStays ==
  ASSUME VersionInv, [Next]_vars, NoneOverwritten'
  PROVE  NoneOverwritten
<1>1. confirming \in [Confirmations ->
                       [at : {"new", "putting", "done", "overwrote"}, shown : Shown]]
  BY DEF VersionInv, Shapes
<1>2. CASE UNCHANGED confirming
  BY <1>2 DEF NoneOverwritten
<1>3. CASE Stop
  <2>1. \A c \in Confirmations : confirming[c].at = "overwrote" => confirming'[c] = confirming[c]
    BY <1>3 DEF Stop
  <2> QED
    BY <2>1 DEF NoneOverwritten
<1>4. ASSUME NEW c \in Confirmations, ReadForConfirmation(c) \/ PutConfirmation(c)
      PROVE  NoneOverwritten
  <2>1. confirming[c].at \in {"new", "putting"}
    BY <1>4 DEF ReadForConfirmation, PutConfirmation
  <2>2. \A d \in Confirmations : d # c => confirming'[d] = confirming[d]
    BY <1>1, <1>4 DEF ReadForConfirmation, PutConfirmation
  <2> QED
    BY <2>1, <2>2 DEF NoneOverwritten
<1>5. CASE Rebuild
  BY <1>2, <1>5 DEF Rebuild, CheckConsent, ReadProfile, ReadDiagnostics, ReadExamples, PutProfile,
     PutDiagnostics, ClearFlag, FlagsCleared, ReadForFailure, PutFailure, ReadForMark, PutMark
<1>6. CASE AskRebuild \/ RunFails \/ BeginGrant \/ PutGrant \/ UNCHANGED vars
  BY <1>2, <1>6 DEF AskRebuild, RunFails, BeginGrant, PutGrant, vars, process
<1>7. CASE \E s \in 1..MaxSchedules : ReadLateMark(s) \/ PutLateMark(s) \/ LoseLateMark(s)
  BY <1>2, <1>7 DEF ReadLateMark, PutLateMark, LoseLateMark
<1>8. CASE \E r \in Requests :
             Submit(r) \/ Submitted(r) \/ AssertConsent(r) \/ CreateExample(r) \/ CreateFails(r)
  BY <1>2, <1>8 DEF Submit, Submitted, AssertConsent, CreateExample, CreateFails
<1>9. CASE \E v \in Revocations :
             \/ BeginRevoke(v) \/ Suspend(v) \/ RemoveExamples(v) \/ RemoveProfile(v)
             \/ RemoveDiagnostics(v) \/ CloseRevocation(v) \/ RevokeFails(v)
  BY <1>2, <1>9 DEF BeginRevoke, Suspend, RemoveExamples, RemoveProfile, RemoveDiagnostics,
     CloseRevocation, RevokeFails, RevokeStep
<1> QED
  BY <1>3, <1>4, <1>5, <1>6, <1>7, <1>8, <1>9 DEF Next, Background

\* Every step keeps cleared rows covered, and learned or told of, while nothing is revoked
\* and no newer diagnostics are overwritten.
LEMMA StepKeepsFlags == VersionInv /\ RowInv /\ FlagInv /\ [Next]_vars => FlagInv'
<1> SUFFICES ASSUME VersionInv, RowInv, FlagInv, [Next]_vars, AllNew', NoneOverwritten'
             PROVE  FlagsKept'
  BY DEF FlagInv
<1>1. AllNew /\ UNCHANGED revoking
  BY RevocationsStayBegun
<1>2. FlagsKept
  BY <1>1, OverwrittenStays DEF FlagInv
<1> QED
  BY <1>1, <1>2, NothingRevoked, RunKeepsFlags, OthersKeepFlags, ConfirmationsKeepFlags
     DEF Next, Background

(* As long as nothing is revoked, a row whose flag is cleared is in the    *)
(* material of the profile, and the signatures have learned it unless the  *)
(* diagnostics speak of a failed or a running rebuild: a rebuild that      *)
(* began before the row was stored cannot clear its flag, and one that     *)
(* learned nothing says so first.                                          *)
THEOREM ClearedFlagsAreLearned == Spec => []ClearedMeansLearned
<1>1. Init => FlagInv
  <2> SUFFICES ASSUME Init PROVE FlagInv
    OBVIOUS
  <2>1. examples = {} /\ runner = "idle"
    BY DEF Init
  <2> QED
    BY <2>1 DEF FlagInv, FlagsKept, Kept, Covers, Read
<1>2. VersionInv /\ [Next]_vars => VersionInv'
  BY StepKeepsVersion
<1>3. FlagInv => ClearedMeansLearned
  BY DEF FlagInv, FlagsKept, AllNew, NoneOverwritten, Kept, Covers, Told, ClearedMeansLearned
<1> QED
  BY <1>1, <1>2, <1>3, InitVersion, InitRows, StepKeepsRows, StepKeepsFlags, PTL DEF Spec

-----------------------------------------------------------------------------
(* The wizard adds a session to every submission and nothing else: what is *)
(* proved of the training holds behind the wizard.                         *)
LEMMA WizardStepTrains ==
  ASSUME [WizardNext]_wvars
  PROVE  [Next]_vars
<1>1. CASE \E w \in Sessions :
             StartSession(w) \/ BeginContext(w) \/ FinishContext(w) \/ SkipStep(w)
  BY <1>1 DEF StartSession, BeginContext, FinishContext, SkipStep
<1>2. ASSUME NEW w \in Sessions, CompleteReview(w)
      PROVE  AskRebuild
  BY <1>2 DEF CompleteReview, AskRebuild
<1>3. ASSUME NEW w \in Sessions, NEW r \in Requests, SubmitStep(r, w)
      PROVE  Submit(r)
  BY <1>3 DEF SubmitStep, Submit
<1>4. ASSUME NEW r \in Requests, FinishSubmit(r)
      PROVE  Submitted(r)
  BY <1>4 DEF FinishSubmit, Submitted
<1>5. CASE WizardStop
  BY <1>5 DEF WizardStop, Next
<1>6. CASE UNCHANGED wvars
  BY <1>6 DEF wvars
<1> QED
  BY <1>1, <1>2, <1>3, <1>4, <1>5, <1>6 DEF WizardNext, Wizard, Next, Background

(* Every behaviour of the wizard is one of the training: the abstract      *)
(* submissions stand for the wizard's, and its review for a rebuild asked  *)
(* for from the profile screen.                                            *)
THEOREM WizardTrains == WizardSpec => Spec
<1>1. WizardInit => Init
  BY DEF WizardInit
<1>2. [WizardNext]_wvars => [Next]_vars
  BY WizardStepTrains
<1> QED
  BY <1>1, <1>2, PTL DEF WizardSpec, Spec

\* The wizard has a step to write between the context and the review.
LEMMA ReviewIsLast == Review \in Nat /\ Review > 2
BY StepsAssumption DEF Review

\* The step after the one a session waits for is a step of the wizard.
LEMMA AdvanceTyped ==
  ASSUME NEW w \in Sessions, current \in [Sessions -> 1..Review]
  PROVE  /\ Advanced(w) \in 1..Review
         /\ Advanced(w) = current[w] \/ Advanced(w) = current[w] + 1
BY ReviewIsLast DEF Advanced

(* Only a submission that has not begun has no session.                    *)
Asks == [session : Sessions, step : Writable]
Asked == \A r \in Requests : storing[r] # "new" => asks[r] \in Asks
SessionInv == WizardTypeOK /\ Asked

InHand == {"asserting", "creating", "created"}
Sent(r, w) == asks[r].session = w /\ storing[r] \in InHand

\* The training moves a submission on or refuses it, and never begins or ends one.
LEMMA BackgroundSubmissions ==
  ASSUME Shapes, Background, NEW r \in Requests
  PROVE  \/ storing'[r] = storing[r]
         \/ storing[r] = "asserting" /\ storing'[r] = "creating" /\ Consented /\ UNCHANGED consent
         \/ storing[r] = "creating" /\ storing'[r] = "created"
              /\ \E n, t : examples' = examples \union
                                         {[id |-> n, text |-> r, dirty |-> TRUE, target |-> t]}
         \/ storing[r] \in {"asserting", "creating"} /\ storing'[r] = "refused"
<1>1. CASE AskRebuild \/ RunFails \/ BeginGrant \/ PutGrant
  BY <1>1 DEF AskRebuild, RunFails, BeginGrant, PutGrant
<1>2. CASE Rebuild
  BY <1>2 DEF Rebuild, CheckConsent, ReadProfile, ReadDiagnostics, ReadExamples, PutProfile,
     PutDiagnostics, ClearFlag, FlagsCleared, ReadForFailure, PutFailure, ReadForMark, PutMark
<1>3. CASE \/ \E s \in 1..MaxSchedules : ReadLateMark(s) \/ PutLateMark(s) \/ LoseLateMark(s)
           \/ \E c \in Confirmations : ReadForConfirmation(c) \/ PutConfirmation(c)
  BY <1>3 DEF ReadLateMark, PutLateMark, LoseLateMark, ReadForConfirmation,
       PutConfirmation
<1>4. ASSUME NEW q \in Requests, AssertConsent(q) \/ CreateFails(q)
      PROVE  \/ storing'[r] = storing[r]
             \/ /\ storing[r] = "asserting" /\ storing'[r] = "creating"
                /\ Consented /\ UNCHANGED consent
             \/ storing[r] \in {"asserting", "creating"} /\ storing'[r] = "refused"
  BY <1>4 DEF AssertConsent, CreateFails, Shapes, database
<1>5. ASSUME NEW q \in Requests, CreateExample(q)
      PROVE  \/ storing'[r] = storing[r]
             \/ /\ storing[r] = "creating" /\ storing'[r] = "created"
                /\ \E n, t : examples' = examples \union
                                           {[id |-> n, text |-> r, dirty |-> TRUE, target |-> t]}
  <2>1. CASE q = r
    BY <1>5, <2>1 DEF CreateExample, Shapes
  <2>2. CASE q # r
    BY <1>5, <2>2 DEF CreateExample, Shapes
  <2> QED
    BY <2>1, <2>2
<1>6. ASSUME NEW v \in Revocations,
             \/ BeginRevoke(v) \/ Suspend(v) \/ RemoveExamples(v) \/ RemoveProfile(v)
             \/ RemoveDiagnostics(v) \/ CloseRevocation(v) \/ RevokeFails(v)
      PROVE  UNCHANGED storing
  BY <1>6 DEF BeginRevoke, Suspend, RemoveExamples, RemoveProfile, RemoveDiagnostics,
              CloseRevocation, RevokeFails, RevokeStep
<1> QED
  BY <1>1, <1>2, <1>3, <1>4, <1>5, <1>6 DEF Background

\* The wizard's own steps.
LEMMA WizardKeepsTypes ==
  ASSUME Shapes, SessionInv, Wizard
  PROVE  SessionInv'
<1> USE DEF SessionInv
<1>1. ASSUME NEW w \in Sessions, StartSession(w)
      PROVE  SessionInv'
  BY <1>1 DEF StartSession, WizardTypeOK, Asked, vars, process
<1>2. ASSUME NEW w \in Sessions, BeginContext(w)
      PROVE  SessionInv'
  BY <1>2 DEF BeginContext, NoteOverlap, WizardTypeOK, Asked, vars, process
<1>3. ASSUME NEW w \in Sessions, FinishContext(w)
      PROVE  SessionInv'
  BY <1>3, AdvanceTyped DEF FinishContext, WizardTypeOK, Asked, vars, process
<1>4. ASSUME NEW w \in Sessions, SkipStep(w)
      PROVE  SessionInv'
  BY <1>4, AdvanceTyped DEF SkipStep, NoteOverlap, WizardTypeOK, Asked, vars, process
<1>5. ASSUME NEW w \in Sessions, CompleteReview(w)
      PROVE  SessionInv'
  BY <1>5 DEF CompleteReview, NoteOverlap, WizardTypeOK, Asked, vars, process
<1>6. ASSUME NEW w \in Sessions, NEW r \in Requests, SubmitStep(r, w)
      PROVE  SessionInv'
  <2> DEFINE ask == [session |-> w, step |-> current[w]]
  <2>1. ask \in [session : Sessions, step : Writable]
    BY <1>6 DEF SubmitStep
  <2>2. asks' = [asks EXCEPT ![r] = ask]
    BY <1>6 DEF SubmitStep
  <2> HIDE DEF ask
  <2>3. asks' \in [Requests -> [session : Sessions, step : Writable] \union {NoAsk}]
    BY <2>1, <2>2 DEF WizardTypeOK
  <2>4. Asked'
    BY <1>6, <2>1, <2>2 DEF SubmitStep, WizardTypeOK, Asked, Asks, Shapes
  <2> QED
    BY <1>6, <2>3, <2>4 DEF SubmitStep, NoteOverlap, WizardTypeOK
<1>7. ASSUME NEW r \in Requests, FinishSubmit(r)
      PROVE  SessionInv'
  <2> DEFINE w == asks[r].session
  <2>1. asks[r] \in Asks
    BY <1>7 DEF FinishSubmit, Asked
  <2>2. w \in Sessions /\ asks[r].step \in Writable
    BY <2>1 DEF Asks
  <2>3. /\ answered' = [answered EXCEPT ![w] = @ \union {asks[r].step}]
        /\ current' = [current EXCEPT ![w] = Advanced(w)]
        /\ UNCHANGED <<status, deriving, asks, overlapped>>
        /\ storing' = [storing EXCEPT ![r] = "done"]
    BY <1>7 DEF FinishSubmit
  <2> HIDE DEF w
  <2>4. WizardTypeOK'
    BY <2>2, <2>3, AdvanceTyped DEF WizardTypeOK
  <2>5. Asked'
    BY <2>1, <2>3 DEF Asked, Shapes
  <2> QED
    BY <2>4, <2>5
<1>8. CASE WizardStop
  BY <1>8 DEF WizardStop, Stop, WizardTypeOK, Asked
<1> QED
  BY <1>1, <1>2, <1>3, <1>4, <1>5, <1>6, <1>7, <1>8 DEF Wizard

\* Every step keeps sessions, answers and submissions in step.
LEMMA StepKeepsSessions == Shapes /\ SessionInv /\ [WizardNext]_wvars => SessionInv'
<1> SUFFICES ASSUME Shapes, SessionInv, [WizardNext]_wvars PROVE SessionInv'
  OBVIOUS
<1>1. CASE Background /\ UNCHANGED wizard
  <2>1. \A r \in Requests : storing'[r] # "new" => storing[r] # "new"
    BY <1>1, BackgroundSubmissions
  <2> QED
    BY <1>1, <2>1 DEF SessionInv, WizardTypeOK, Asked, wizard
<1>2. CASE UNCHANGED wvars
  BY <1>2 DEF wvars, vars, process, wizard, SessionInv, WizardTypeOK, Asked
<1> QED
  BY <1>1, <1>2, WizardKeepsTypes DEF WizardNext

\* No session has begun and nothing was submitted.
LEMMA InitSessions == WizardInit => SessionInv
BY ReviewIsLast DEF WizardInit, Init, SessionInv, WizardTypeOK, Asked

(* A session stays between its first step and the review, however late an  *)
(* answer comes, and is only ever answered where the wizard takes a text.  *)
THEOREM WizardTypeCorrect == WizardSpec => []WizardTypeOK
<1>1. VersionInv /\ [WizardNext]_wvars => VersionInv'
  BY StepKeepsVersion, WizardStepTrains
<1>2. WizardInit => VersionInv
  BY InitVersion DEF WizardInit
<1>3. VersionInv /\ SessionInv /\ [WizardNext]_wvars => SessionInv'
  BY StepKeepsSessions DEF VersionInv
<1>4. SessionInv => WizardTypeOK
  BY DEF SessionInv
<1> QED
  BY <1>1, <1>2, <1>3, <1>4, InitSessions, PTL DEF WizardSpec

-----------------------------------------------------------------------------
(* A session whose requests come one at a time has at most one submission  *)
(* in hand, which answers the step the session still waits for.            *)
OneAtATime(w) ==
  /\ Earlier(w) \subseteq answered[w]
  /\ \A r \in Requests : Sent(r, w) => asks[r].step = current[w] /\ w \notin deriving
  /\ \A q, r \in Requests : Sent(q, w) /\ Sent(r, w) => q = r

StepInv == \A w \in Sessions \ overlapped : OneAtATime(w)

\* What the invariant says of one session.
LEMMA StepOneAtATime ==
  ASSUME StepInv, NEW w \in Sessions \ overlapped
  PROVE  OneAtATime(w)
BY DEF StepInv

\* Answering the step a session waits for leaves no earlier step unanswered.
LEMMA AnswerKeepsEarlier ==
  ASSUME SessionInv, NEW w \in Sessions, Earlier(w) \subseteq answered[w],
         current[w] \in answered[w]' \/ current[w] \notin Writable,
         answered[w] \subseteq answered[w]', current'[w] = Advanced(w)
  PROVE  Earlier(w)' \subseteq answered[w]'
BY AdvanceTyped, ReviewIsLast DEF Earlier, Writable, SessionInv, WizardTypeOK, Advanced

\* A step that leaves a session alone and begins none of its submissions.
LEMMA ElsewhereKeepsSteps ==
  ASSUME SessionInv, NEW w \in Sessions, OneAtATime(w),
         current'[w] = current[w], answered[w] \subseteq answered'[w],
         w \in deriving' => w \in deriving,
         \A r \in Requests : Sent(r, w)' => Sent(r, w) /\ asks'[r] = asks[r]
  PROVE  OneAtATime(w)'
BY DEF OneAtATime, Earlier, Writable, Review

\* The wizard's own steps.
LEMMA WizardKeepsSteps ==
  ASSUME Shapes, SessionInv, StepInv, Wizard, NEW x \in Sessions, x \notin overlapped'
  PROVE  OneAtATime(x)'
<1>1. ASSUME NEW w \in Sessions, StartSession(w)
      PROVE  OneAtATime(x)'
  <2>1. UNCHANGED <<storing, current, answered, deriving, asks, overlapped>>
    BY <1>1 DEF StartSession, vars, process
  <2> QED
    BY <2>1, StepOneAtATime, ElsewhereKeepsSteps DEF Sent
<1>2. ASSUME NEW w \in Sessions, BeginContext(w)
      PROVE  OneAtATime(x)'
  <2>1. /\ UNCHANGED <<storing, current, answered, asks>>
        /\ deriving' = deriving \union {w} /\ x \notin overlapped
        /\ InFlight(w) => overlapped' = overlapped \union {w}
    BY <1>2 DEF BeginContext, NoteOverlap, vars, process
  <2>2. OneAtATime(x)
    BY <2>1, StepOneAtATime
  <2>3. CASE w = x
    <3>1. ~InFlight(x)
      BY <2>1, <2>3
    <3>2. \A r \in Requests : ~Sent(r, x)'
      BY <2>1, <3>1 DEF InFlight, Sent, InHand
    <3> QED
      BY <2>1, <2>2, <3>2 DEF OneAtATime, Earlier
  <2>4. CASE w # x
    BY <2>1, <2>2, <2>4, ElsewhereKeepsSteps DEF Sent
  <2> QED
    BY <2>3, <2>4
<1>3. ASSUME NEW w \in Sessions, FinishContext(w)
      PROVE  OneAtATime(x)'
  <2>1. /\ UNCHANGED <<storing, answered, asks, overlapped>>
        /\ deriving' = deriving \ {w} /\ w \in deriving
        /\ \/ current' = [current EXCEPT ![w] = IF @ = 1 THEN Advanced(w) ELSE @]
           \/ UNCHANGED current
    BY <1>3 DEF FinishContext, vars, process
  <2>2. OneAtATime(x)
    BY <2>1, StepOneAtATime
  <2>3. CASE w = x
    <3>1. \A r \in Requests : ~Sent(r, x)'
      BY <2>1, <2>2, <2>3 DEF OneAtATime, Sent
    <3>2. current'[x] = current[x] \/ (current[x] = 1 /\ current'[x] = Advanced(x))
      BY <2>1, <2>3 DEF SessionInv, WizardTypeOK
    <3>3. Earlier(x)' \subseteq answered[x]'
      <4>1. CASE current'[x] = current[x]
        BY <2>1, <2>2, <4>1 DEF OneAtATime, Earlier
      <4>2. CASE current[x] = 1 /\ current'[x] = Advanced(x)
        BY <2>1, <2>2, <4>2, AnswerKeepsEarlier DEF OneAtATime, Writable
      <4> QED
        BY <3>2, <4>1, <4>2
    <3> QED
      BY <3>1, <3>3 DEF OneAtATime
  <2>4. CASE w # x
    <3>1. current'[x] = current[x]
      BY <2>1, <2>4 DEF SessionInv, WizardTypeOK
    <3> QED
      BY <2>1, <2>2, <3>1, ElsewhereKeepsSteps DEF Sent
  <2> QED
    BY <2>3, <2>4
<1>4. ASSUME NEW w \in Sessions, SkipStep(w)
      PROVE  OneAtATime(x)'
  <2>1. /\ UNCHANGED <<storing, deriving, asks>>
        /\ answered' = [answered EXCEPT ![w] = @ \union {current[w]}]
        /\ current' = [current EXCEPT ![w] = Advanced(w)] /\ x \notin overlapped
        /\ InFlight(w) => overlapped' = overlapped \union {w}
    BY <1>4 DEF SkipStep, NoteOverlap, vars, process
  <2>2. OneAtATime(x)
    BY <2>1, StepOneAtATime
  <2>3. CASE w = x
    <3>1. ~InFlight(x)
      BY <2>1, <2>3
    <3>2. \A r \in Requests : ~Sent(r, x)'
      BY <2>1, <3>1 DEF InFlight, Sent, InHand
    <3>3. /\ answered[x]' = answered[x] \union {current[x]}
          /\ current'[x] = Advanced(x)
      BY <2>1, <2>3 DEF SessionInv, WizardTypeOK
    <3>4. Earlier(x)' \subseteq answered[x]'
      BY <2>2, <3>3, AnswerKeepsEarlier DEF OneAtATime
    <3> QED
      BY <3>2, <3>4 DEF OneAtATime
  <2>4. CASE w # x
    <3>1. current'[x] = current[x] /\ answered'[x] = answered[x]
      BY <2>1, <2>4 DEF SessionInv, WizardTypeOK
    <3> QED
      BY <2>1, <2>2, <3>1, ElsewhereKeepsSteps DEF Sent
  <2> QED
    BY <2>3, <2>4
<1>5. ASSUME NEW w \in Sessions, CompleteReview(w)
      PROVE  OneAtATime(x)'
  <2>1. UNCHANGED <<storing, current, answered, deriving, asks>> /\ x \notin overlapped
    BY <1>5 DEF CompleteReview, NoteOverlap
  <2> QED
    BY <2>1, StepOneAtATime, ElsewhereKeepsSteps DEF Sent
<1>6. ASSUME NEW w \in Sessions, NEW r \in Requests, SubmitStep(r, w)
      PROVE  OneAtATime(x)'
  <2>1. /\ UNCHANGED <<current, answered, deriving>> /\ x \notin overlapped
        /\ storing' = [storing EXCEPT ![r] = "asserting"]
        /\ asks' = [asks EXCEPT ![r] = [session |-> w, step |-> current[w]]]
        /\ InFlight(w) => overlapped' = overlapped \union {w}
    BY <1>6 DEF SubmitStep, NoteOverlap
  <2>2. OneAtATime(x)
    BY <2>1, StepOneAtATime
  <2>3. \A q \in Requests \ {r} : asks'[q] = asks[q] /\ storing'[q] = storing[q]
    BY <2>1 DEF SessionInv, WizardTypeOK, Shapes
  <2>4. asks'[r].session = w /\ asks'[r].step = current[w]
    BY <2>1 DEF SessionInv, WizardTypeOK
  <2>5. CASE w = x
    <3>1. ~InFlight(x)
      BY <2>1, <2>5
    <3>2. x \notin deriving /\ \A q \in Requests : ~Sent(q, x)
      BY <3>1 DEF InFlight, Sent, InHand
    <3>3. \A q \in Requests : Sent(q, x)' => q = r
      BY <2>3, <3>2 DEF Sent
    <3> QED
      BY <2>1, <2>2, <2>4, <2>5, <3>2, <3>3 DEF OneAtATime, Earlier
  <2>6. CASE w # x
    <3>1. \A q \in Requests : Sent(q, x)' => Sent(q, x) /\ asks'[q] = asks[q]
      BY <2>3, <2>4, <2>6 DEF Sent
    <3> QED
      BY <2>1, <2>2, <3>1, ElsewhereKeepsSteps
  <2> QED
    BY <2>5, <2>6
<1>7. ASSUME NEW r \in Requests, FinishSubmit(r)
      PROVE  OneAtATime(x)'
  <2> DEFINE w == asks[r].session
  <2>1. /\ UNCHANGED <<deriving, asks, overlapped>> /\ x \notin overlapped
        /\ storing[r] = "created" /\ storing' = [storing EXCEPT ![r] = "done"]
        /\ answered' = [answered EXCEPT ![w] = @ \union {asks[r].step}]
        /\ current' = [current EXCEPT ![w] = Advanced(w)]
    BY <1>7 DEF FinishSubmit
  <2>2. OneAtATime(x)
    BY <2>1, StepOneAtATime
  <2>3. /\ ~Sent(r, x)'
        /\ \A q \in Requests : Sent(q, x)' => q # r /\ Sent(q, x)
    BY <2>1 DEF Sent, InHand, Shapes
  <2>4. CASE w = x
    <3>1. Sent(r, x)
      BY <2>1, <2>4 DEF Sent, InHand
    <3>2. asks[r].step = current[x] /\ \A q \in Requests : ~Sent(q, x)'
      BY <2>2, <2>3, <3>1 DEF OneAtATime
    <3>3. /\ answered[x]' = answered[x] \union {current[x]}
          /\ current'[x] = Advanced(x)
      BY <2>1, <2>4, <3>2 DEF SessionInv, WizardTypeOK
    <3>4. Earlier(x)' \subseteq answered[x]'
      BY <2>2, <3>3, AnswerKeepsEarlier DEF OneAtATime
    <3> QED
      BY <3>2, <3>4 DEF OneAtATime
  <2>5. CASE w # x
    <3>1. current'[x] = current[x] /\ answered'[x] = answered[x]
      BY <2>1, <2>5 DEF SessionInv, WizardTypeOK
    <3> QED
      BY <2>1, <2>2, <2>3, <3>1, ElsewhereKeepsSteps
  <2> QED
    BY <2>4, <2>5
<1>8. CASE WizardStop
  <2>1. UNCHANGED <<current, answered, asks, overlapped>> /\ deriving' = {}
    BY <1>8 DEF WizardStop
  <2>2. \A r \in Requests : ~Sent(r, x)'
    BY <1>8 DEF WizardStop, Stop, Sent, InHand
  <2> QED
    BY <2>1, <2>2, StepOneAtATime, ElsewhereKeepsSteps
<1> QED
  BY <1>1, <1>2, <1>3, <1>4, <1>5, <1>6, <1>7, <1>8 DEF Wizard

\* Every step keeps sessions without an overlap in order.
LEMMA StepKeepsSteps == Shapes /\ SessionInv /\ StepInv /\ [WizardNext]_wvars => StepInv'
<1> SUFFICES ASSUME Shapes, SessionInv, StepInv, [WizardNext]_wvars,
                    NEW x \in Sessions, x \notin overlapped'
             PROVE  OneAtATime(x)'
  BY DEF StepInv
<1>1. CASE Background /\ UNCHANGED wizard
  <2>1. \A r \in Requests : storing'[r] \in InHand => storing[r] \in InHand
    BY <1>1, BackgroundSubmissions DEF InHand
  <2>2. \A r \in Requests : Sent(r, x)' => Sent(r, x)
    BY <1>1, <2>1 DEF Sent, wizard
  <2> QED
    BY <1>1, <2>2, StepOneAtATime, ElsewhereKeepsSteps DEF wizard
<1>2. CASE UNCHANGED wvars
  <2>1. UNCHANGED <<storing, current, answered, deriving, asks, overlapped>>
    BY <1>2 DEF wvars, vars, process, wizard
  <2> QED
    BY <2>1, StepOneAtATime, ElsewhereKeepsSteps DEF Sent
<1> QED
  BY <1>1, <1>2, WizardKeepsSteps DEF WizardNext

(* No step is jumped over in a session whose requests come one at a time:  *)
(* an answer that is recorded late still answers the step the session is   *)
(* at, since nothing else moved it meanwhile.                              *)
THEOREM NoStepIsJumped == WizardSpec => []NoStepJumped
<1>1. VersionInv /\ [WizardNext]_wvars => VersionInv'
  BY StepKeepsVersion, WizardStepTrains
<1>2. WizardInit => VersionInv
  BY InitVersion DEF WizardInit
<1>3. VersionInv /\ SessionInv /\ StepInv /\ [WizardNext]_wvars => SessionInv' /\ StepInv'
  BY StepKeepsSessions, StepKeepsSteps DEF VersionInv
<1>4. StepInv => NoStepJumped
  BY DEF StepInv, OneAtATime, NoStepJumped
<1>5. WizardInit => StepInv
  <2> SUFFICES ASSUME WizardInit, NEW w \in Sessions PROVE OneAtATime(w)
    BY DEF StepInv
  <2>1. Earlier(w) = {}
    BY DEF WizardInit, Earlier, Writable
  <2>2. \A r \in Requests : ~Sent(r, w)
    BY DEF WizardInit, Init, Sent, InHand
  <2> QED
    BY <2>1, <2>2 DEF OneAtATime
<1> QED
  BY <1>1, <1>2, <1>3, <1>4, <1>5, InitSessions, PTL DEF WizardSpec

-----------------------------------------------------------------------------
(* In calm, that is with no failure, no stop and no revocation so far, a   *)
(* stored text stays stored, the consent stays given, no run is skipped    *)
(* no row a run wants to clear is missing, and the signatures have learned *)
(* all of the profile's material.                                          *)
Calm == faults = 0 /\ stops = 0 /\ AllNew

Stored(r) == storing[r] \in {"created", "done"} => r \in Texts(examples)
Allowed(r) == storing[r] \in {"creating", "created", "done"} => Consented
Clearable(row) == \E stored \in examples : stored.id = row.id /\ stored.text = row.text

Quiet(at) == at \notin {"failing", "failingDiagnostics", "putFailure"}

CalmInv ==
  /\ faults \in Nat /\ stops \in Nat
  /\ Calm => /\ \A r \in Requests : Stored(r) /\ Allowed(r)
             /\ Quiet(runner)
             /\ \A row \in run.stale : Clearable(row)
             /\ profile.learned = profile.covers

\* A step counts at most one failure and one stop.
LEMMA TroubleCounted ==
  ASSUME [Next]_vars
  PROVE  /\ faults' = faults \/ faults' = faults + 1
         /\ stops' = stops \/ stops' = stops + 1
<1>1. CASE Rebuild
  BY <1>1 DEF Rebuild, CheckConsent, ReadProfile, ReadDiagnostics, ReadExamples, PutProfile,
     PutDiagnostics, ClearFlag, FlagsCleared, ReadForFailure, PutFailure, ReadForMark, PutMark,
     bounds
<1>2. CASE \/ \E s \in 1..MaxSchedules : ReadLateMark(s) \/ PutLateMark(s) \/ LoseLateMark(s)
           \/ \E c \in Confirmations : ReadForConfirmation(c) \/ PutConfirmation(c)
  BY <1>2 DEF ReadLateMark, PutLateMark, LoseLateMark, ReadForConfirmation,
       PutConfirmation, bounds
<1>3. CASE \E r \in Requests :
             Submit(r) \/ Submitted(r) \/ AssertConsent(r) \/ CreateExample(r) \/ CreateFails(r)
  BY <1>3 DEF Submit, Submitted, AssertConsent, CreateExample, CreateFails, bounds
<1>4. CASE \E v \in Revocations :
             \/ BeginRevoke(v) \/ Suspend(v) \/ RemoveExamples(v) \/ RemoveProfile(v)
             \/ RemoveDiagnostics(v) \/ CloseRevocation(v) \/ RevokeFails(v)
  BY <1>4 DEF BeginRevoke, Suspend, RemoveExamples, RemoveProfile, RemoveDiagnostics,
              CloseRevocation, RevokeFails, RevokeStep, bounds
<1>5. CASE AskRebuild \/ RunFails \/ Stop \/ BeginGrant \/ PutGrant \/ UNCHANGED vars
  BY <1>5 DEF AskRebuild, RunFails, Stop, BeginGrant, PutGrant, vars, bounds
<1> QED
  BY <1>1, <1>2, <1>3, <1>4, <1>5 DEF Next, Background

\* Calm that has lasted until after a step lasted until before it.
LEMMA CalmBefore ==
  ASSUME RowInv, CalmInv, [Next]_vars, Calm'
  PROVE  /\ Calm /\ UNCHANGED <<revoking, faults, stops>>
         /\ ~RunFails /\ ~Stop
<1>1. AllNew /\ UNCHANGED revoking
  BY RevocationsStayBegun DEF Calm
<1>2. ~RunFails /\ ~Stop
  BY DEF RunFails, Stop, CalmInv, Calm
<1>3. UNCHANGED <<faults, stops>>
  BY TroubleCounted DEF CalmInv, Calm
<1> QED
  BY <1>1, <1>2, <1>3 DEF Calm

\* A step that leaves the rows and the consent, and what the run has still to clear.
LEMMA ElsewhereKeepsCalm ==
  ASSUME CalmInv, Calm, UNCHANGED <<consent, examples, faults, stops>>,
         UNCHANGED profile \/ profile'.learned = profile'.covers,
         Quiet(runner'), run'.stale \subseteq run.stale,
         \A r \in Requests :
           \/ storing'[r] = storing[r]
           \/ storing'[r] \in {"asserting", "refused"}
           \/ storing[r] = "created" /\ storing'[r] = "done"
           \/ storing'[r] = "creating" /\ Consented
  PROVE  CalmInv'
BY DEF CalmInv, Stored, Allowed, Clearable, Consented, Texts

\* The steps of a run.
LEMMA RunKeepsCalm ==
  ASSUME VersionInv, RowInv, CalmInv, Calm, Rebuild, UNCHANGED <<faults, stops>>
  PROVE  CalmInv'
<1> USE DEF VersionInv
<1>1. UNCHANGED storing
  BY DEF Rebuild, CheckConsent, ReadProfile, ReadDiagnostics, ReadExamples, PutProfile,
     PutDiagnostics, ClearFlag, FlagsCleared, ReadForFailure, PutFailure, ReadForMark, PutMark
<1>2. CASE ReadExamples
  <2>1. /\ UNCHANGED <<consent, examples, profile>> /\ runner' = "putProfile"
        /\ run'.stale \subseteq examples
    BY <1>2 DEF ReadExamples, Flagged, database, Shapes
  <2>2. \A row \in run'.stale : Clearable(row)'
    BY <2>1 DEF Clearable
  <2> QED
    BY <1>1, <2>1, <2>2 DEF CalmInv, Quiet, Stored, Allowed, Consented, Texts
<1>3. CASE ClearFlag
  <2>1. PICK row \in run.stale :
          IF \E stored \in examples : stored.id = row.id
          THEN /\ examples' = {stored \in examples : stored.id # row.id}
                                \union {[row EXCEPT !.dirty = FALSE, !.target = run.version]}
               /\ run' = [run EXCEPT !.stale = @ \ {row}]
               /\ UNCHANGED runner
          ELSE runner' = "failing" /\ run' = NoRun /\ UNCHANGED examples
    BY <1>3 DEF ClearFlag
  <2>2. UNCHANGED <<consent, profile>> /\ runner = "clear"
    BY <1>3 DEF ClearFlag
  <2>3. PICK old \in examples : old.id = row.id /\ old.text = row.text
    BY DEF CalmInv, Clearable
  <2> DEFINE new == [row EXCEPT !.dirty = FALSE, !.target = run.version]
  <2>4. new.id = row.id /\ new.text = row.text
    BY DEF RowInv, RunTyped, Rows
  <2>5. /\ examples' = {stored \in examples : stored.id # row.id} \union {new}
        /\ run'.stale \subseteq run.stale /\ UNCHANGED runner
    BY <2>1, <2>3 DEF Shapes
  <2> HIDE DEF new
  <2>6. \A stored \in examples : stored.id = row.id => stored.text = row.text
    BY <2>3 DEF RowInv, Numbered
  <2>7. \A stored \in examples :
          \E kept \in examples' : kept.id = stored.id /\ kept.text = stored.text
    BY <2>4, <2>5, <2>6
  <2>8. \A r \in Texts(examples) : r \in Texts(examples')
    BY <2>7 DEF Texts
  <2>9. \A other \in run'.stale : Clearable(other)'
    BY <2>5, <2>7 DEF CalmInv, Clearable
  <2> QED
    BY <1>1, <2>2, <2>5, <2>8, <2>9 DEF CalmInv, Stored, Allowed, Consented
<1>4. CASE \/ CheckConsent \/ FlagsCleared \/ PutFailure \/ PutMark
  <2>1. /\ UNCHANGED <<consent, examples, profile>> /\ Quiet(runner')
        /\ run' = run \/ run' = NoRun
    BY <1>4 DEF CheckConsent, FlagsCleared, PutFailure, PutMark, EndRun, database, Quiet
  <2>2. run'.stale \subseteq run.stale
    BY <2>1 DEF NoRun
  <2> QED
    BY <1>1, <2>1, <2>2, ElsewhereKeepsCalm
<1>5. CASE ReadProfile \/ ReadDiagnostics
  <2>1. /\ UNCHANGED <<consent, examples, profile>> /\ Quiet(runner')
        /\ run'.stale = run.stale
    BY <1>5 DEF ReadProfile, ReadDiagnostics, database, Shapes, Quiet
  <2> QED
    BY <1>1, <2>1, ElsewhereKeepsCalm
<1>6. CASE PutProfile \/ PutDiagnostics \/ ReadForMark
  <2>1. /\ UNCHANGED <<consent, examples>> /\ Quiet(runner')
        /\ run'.stale = run.stale
        /\ UNCHANGED profile \/ profile'.learned = profile'.covers
    <3>1. CASE PutProfile
      <4>1. PICK fresh \in BOOLEAN :
              /\ faults' = IF fresh THEN faults ELSE faults + 1
              /\ profile' = [version |-> run.version, covers |-> Texts(run.examples),
                             learned |-> IF fresh THEN Texts(run.examples) ELSE run.learned]
        BY <3>1 DEF PutProfile
      <4>2. fresh
        BY <4>1 DEF Calm
      <4> QED
        BY <3>1, <4>1, <4>2 DEF PutProfile, Shapes, Quiet
    <3>2. CASE PutDiagnostics \/ ReadForMark
      BY <3>2 DEF PutDiagnostics, ReadForMark, database, Shapes, Quiet
    <3> QED
      BY <1>6, <3>1, <3>2
  <2> QED
    BY <1>1, <2>1, ElsewhereKeepsCalm
<1>7. ~ReadForFailure
  BY DEF ReadForFailure, CalmInv, Quiet
<1> QED
  BY <1>2, <1>3, <1>4, <1>5, <1>6, <1>7 DEF Rebuild

\* Submissions, grants and marks.
LEMMA OthersKeepCalm ==
  ASSUME Shapes, CalmInv, Calm, UNCHANGED <<faults, stops>>,
         \/ AskRebuild \/ BeginGrant \/ PutGrant \/ UNCHANGED vars
         \/ \E s \in 1..MaxSchedules : ReadLateMark(s) \/ PutLateMark(s) \/ LoseLateMark(s)
         \/ \E c \in Confirmations : ReadForConfirmation(c) \/ PutConfirmation(c)
         \/ \E r \in Requests :
              Submit(r) \/ Submitted(r) \/ AssertConsent(r) \/ CreateExample(r) \/ CreateFails(r)
  PROVE  CalmInv'
<1>1. CASE AskRebuild
  <2>1. /\ UNCHANGED <<consent, examples, profile, run, storing>>
        /\ runner' = runner \/ runner' = "consent"
    BY <1>1 DEF AskRebuild, Schedule, database
  <2> QED
    BY <2>1, ElsewhereKeepsCalm DEF CalmInv, Quiet
<1>2. CASE \/ BeginGrant \/ UNCHANGED vars
           \/ \E s \in 1..MaxSchedules : ReadLateMark(s) \/ PutLateMark(s) \/ LoseLateMark(s)
           \/ \E c \in Confirmations : ReadForConfirmation(c) \/ PutConfirmation(c)
  <2>1. UNCHANGED <<consent, examples, profile, run, storing, runner>>
    BY <1>2 DEF BeginGrant, ReadLateMark, PutLateMark, LoseLateMark, ReadForConfirmation,
       PutConfirmation, vars, database, process
  <2> QED
    BY <2>1, ElsewhereKeepsCalm DEF CalmInv, Quiet
<1>3. CASE PutGrant
  <2>1. UNCHANGED <<examples, profile, run, storing, runner>> /\ Consented'
    BY <1>3 DEF PutGrant, Consented
  <2> QED
    BY <2>1 DEF CalmInv, Stored, Allowed, Clearable, Texts
<1>4. ASSUME NEW r \in Requests, Submitted(r)
      PROVE  CalmInv'
  <2>1. /\ UNCHANGED <<consent, examples, profile, run>> /\ storing[r] = "created"
        /\ storing' = [storing EXCEPT ![r] = "done"]
        /\ runner' = runner \/ runner' = "consent"
    BY <1>4 DEF Submitted, Schedule, database
  <2>2. \A q \in Requests : storing'[q] = storing[q]
                              \/ (storing[q] = "created" /\ storing'[q] = "done")
    BY <2>1 DEF Shapes
  <2> QED
    BY <2>1, <2>2, ElsewhereKeepsCalm DEF CalmInv, Quiet
<1>5. ASSUME NEW r \in Requests, Submit(r) \/ AssertConsent(r) \/ CreateFails(r)
      PROVE  CalmInv'
  <2>1. UNCHANGED <<consent, examples, profile, run, runner>>
    BY <1>5 DEF Submit, AssertConsent, CreateFails, database
  <2>2. \A q \in Requests : storing'[q] = storing[q] \/ storing'[q] \in {"asserting", "refused"}
                              \/ (storing'[q] = "creating" /\ Consented)
    BY <1>5 DEF Submit, AssertConsent, CreateFails, Shapes
  <2> QED
    BY <2>1, <2>2, ElsewhereKeepsCalm DEF CalmInv, Quiet
<1>6. ASSUME NEW r \in Requests, CreateExample(r)
      PROVE  CalmInv'
  <2> DEFINE new == [id |-> Cardinality(examples) + 1, text |-> r, dirty |-> TRUE,
                     target |-> TargetVersion]
  <2>1. /\ examples' = examples \union {new} /\ UNCHANGED <<consent, profile, run, runner>>
        /\ storing[r] = "creating" /\ storing' = [storing EXCEPT ![r] = "created"]
    BY <1>6 DEF CreateExample
  <2>2. new.text = r
    OBVIOUS
  <2> HIDE DEF new
  <2>3. Texts(examples') = Texts(examples) \union {r}
    <3>1. {e.text : e \in examples \union {new}} = {e.text : e \in examples} \union {r}
      BY <2>2
    <3> QED
      BY <2>1, <3>1 DEF Texts
  <2>4. /\ storing'[r] = "created"
        /\ \A q \in Requests : q # r => storing'[q] = storing[q]
    BY <2>1 DEF Shapes
  <2>5. \A row \in run'.stale : Clearable(row) => Clearable(row)'
    BY <2>1 DEF Clearable
  <2> QED
    BY <2>1, <2>3, <2>4, <2>5 DEF CalmInv, Stored, Allowed, Consented
<1> QED
  BY <1>1, <1>2, <1>3, <1>4, <1>5, <1>6

\* Every step keeps calm what was calm.
LEMMA StepKeepsCalm == VersionInv /\ RowInv /\ CalmInv /\ [Next]_vars => CalmInv'
<1> SUFFICES ASSUME VersionInv, RowInv, CalmInv, [Next]_vars PROVE CalmInv'
  OBVIOUS
<1>1. faults' \in Nat /\ stops' \in Nat
  <2>1. faults \in Nat /\ stops \in Nat
    BY DEF CalmInv
  <2> QED
    BY <2>1, TroubleCounted
<1>2. CASE ~Calm'
  BY <1>1, <1>2 DEF CalmInv
<1>3. CASE Calm'
  <2>1. Calm /\ UNCHANGED <<revoking, faults, stops>> /\ ~RunFails /\ ~Stop
    BY <1>3, CalmBefore
  <2> QED
    BY <2>1, NothingRevoked, RunKeepsCalm, OthersKeepCalm DEF Next, Background, VersionInv, Calm
<1> QED
  BY <1>2, <1>3

-----------------------------------------------------------------------------
(* Once the review is done, what the session stored stays asked for.       *)
Learned(w) ==
  \A r \in Requests : asks[r].session = w =>
    ~Sent(r, w) /\ (storing[r] = "done" => r \in due)

LearnInv ==
  Calm => \A w \in Sessions \ overlapped : status[w] = "completed" => Learned(w)

\* In calm, what is asked for and was stored stays asked for.
LEMMA StillDue ==
  ASSUME RowInv, CalmInv, Calm, Background, UNCHANGED revoking, ~RunFails,
         NEW r \in Requests, storing[r] = "done", r \in due
  PROVE  r \in due'
<1>1. r \in Texts(examples) /\ Consented
  BY DEF CalmInv, Stored, Allowed
<1>2. CASE AskRebuild
  BY <1>1, <1>2 DEF AskRebuild, Schedule
<1>3. CASE Rebuild
  <2>1. ~PutFailure
    BY DEF PutFailure, CalmInv, Quiet
  <2>2. UNCHANGED due
    BY <1>1, <1>3, <2>1 DEF Rebuild, CheckConsent, ReadProfile, ReadDiagnostics, ReadExamples,
       PutProfile, PutDiagnostics, ClearFlag, FlagsCleared, ReadForFailure, ReadForMark, PutMark,
       bounds
  <2> QED
    BY <2>2
<1>4. CASE \/ BeginGrant \/ PutGrant
           \/ \E s \in 1..MaxSchedules : ReadLateMark(s) \/ PutLateMark(s) \/ LoseLateMark(s)
           \/ \E c \in Confirmations : ReadForConfirmation(c) \/ PutConfirmation(c)
           \/ \E q \in Requests : AssertConsent(q) \/ CreateExample(q) \/ CreateFails(q)
  BY <1>4 DEF BeginGrant, PutGrant, ReadLateMark, PutLateMark, LoseLateMark, ReadForConfirmation,
       PutConfirmation, AssertConsent,
              CreateExample, CreateFails, bounds
<1> QED
  BY <1>2, <1>3, <1>4, NothingRevoked DEF Background, Calm

\* The wizard's own steps.
LEMMA WizardKeepsLearned ==
  ASSUME Shapes, SessionInv, CalmInv, Calm, LearnInv, Wizard, ~Stop,
         NEW x \in Sessions, x \notin overlapped', status'[x] = "completed"
  PROVE  Learned(x)'
<1>1. \A r \in Requests : storing[r] = "done" => r \in Texts(examples)
  BY DEF CalmInv, Stored
<1>2. ASSUME NEW w \in Sessions,
             StartSession(w) \/ BeginContext(w) \/ FinishContext(w) \/ SkipStep(w)
      PROVE  Learned(x)'
  <2>1. UNCHANGED <<storing, due, asks>> /\ x \notin overlapped
    BY <1>2 DEF StartSession, BeginContext, FinishContext, SkipStep, NoteOverlap, vars, process,
                bounds
  <2>2. status[x] = "completed"
    BY <1>2 DEF StartSession, BeginContext, FinishContext, SkipStep, SessionInv, WizardTypeOK
  <2> QED
    BY <2>1, <2>2 DEF LearnInv, Learned, Sent
<1>3. ASSUME NEW w \in Sessions, CompleteReview(w)
      PROVE  Learned(x)'
  <2>1. /\ UNCHANGED <<storing, asks>> /\ due' = Texts(examples) /\ x \notin overlapped
        /\ InFlight(w) => overlapped' = overlapped \union {w}
        /\ status' = [status EXCEPT ![w] = "completed"]
    BY <1>3 DEF CompleteReview, NoteOverlap, Schedule
  <2>2. CASE w = x
    <3>1. \A r \in Requests : ~Sent(r, x)
      BY <2>1, <2>2 DEF InFlight, Sent, InHand
    <3> QED
      BY <1>1, <2>1, <3>1 DEF Learned, Sent
  <2>3. CASE w # x
    <3>1. status[x] = "completed"
      BY <2>1, <2>3 DEF SessionInv, WizardTypeOK
    <3> QED
      BY <1>1, <2>1, <3>1 DEF LearnInv, Learned, Sent
  <2> QED
    BY <2>2, <2>3
<1>4. ASSUME NEW w \in Sessions, NEW q \in Requests, SubmitStep(q, w)
      PROVE  Learned(x)'
  <2>1. /\ UNCHANGED <<status, due>> /\ x \notin overlapped /\ w # x
        /\ storing' = [storing EXCEPT ![q] = "asserting"]
        /\ asks' = [asks EXCEPT ![q] = [session |-> w, step |-> current[w]]]
    BY <1>4 DEF SubmitStep, NoteOverlap, bounds
  <2>2. asks'[q].session = w
    BY <2>1 DEF SessionInv, WizardTypeOK
  <2>3. \A r \in Requests \ {q} : asks'[r] = asks[r] /\ storing'[r] = storing[r]
    BY <2>1 DEF SessionInv, WizardTypeOK, Shapes
  <2> QED
    BY <2>1, <2>2, <2>3 DEF LearnInv, Learned, Sent
<1>5. ASSUME NEW q \in Requests, FinishSubmit(q)
      PROVE  Learned(x)'
  <2>1. /\ UNCHANGED <<status, asks, overlapped>> /\ storing[q] = "created"
        /\ storing' = [storing EXCEPT ![q] = "done"]
        /\ due' = due \/ due' = Texts(examples)
    BY <1>5 DEF FinishSubmit, Schedule, bounds
  <2>2. \A r \in Requests \ {q} : storing'[r] = storing[r]
    BY <2>1 DEF Shapes
  <2>3. Learned(x)
    BY <2>1 DEF LearnInv
  <2>4. asks[q].session # x
    BY <2>1, <2>3 DEF Learned, Sent, InHand
  <2> QED
    BY <1>1, <2>1, <2>2, <2>3, <2>4 DEF Learned, Sent
<1> QED
  BY <1>2, <1>3, <1>4, <1>5 DEF Wizard, WizardStop

\* Every step keeps asked for what a completed session stored.
LEMMA StepKeepsLearned ==
  VersionInv /\ RowInv /\ SessionInv /\ CalmInv /\ LearnInv /\ [WizardNext]_wvars => LearnInv'
<1> SUFFICES ASSUME VersionInv, RowInv, SessionInv, CalmInv, LearnInv, [WizardNext]_wvars, Calm',
                    NEW x \in Sessions, x \notin overlapped', status'[x] = "completed"
             PROVE  Learned(x)'
  BY DEF LearnInv
<1>1. [Next]_vars
  BY WizardStepTrains
<1>2. Calm /\ UNCHANGED revoking /\ ~RunFails /\ ~Stop
  BY <1>1, CalmBefore
<1>3. CASE Background /\ UNCHANGED wizard
  <2>1. Learned(x) /\ UNCHANGED asks
    BY <1>2, <1>3 DEF LearnInv, wizard
  <2>2. \A r \in Requests : /\ storing'[r] \in InHand => storing[r] \in InHand
                            /\ storing'[r] = "done" => storing[r] = "done"
    BY <1>3, BackgroundSubmissions DEF InHand, VersionInv
  <2>3. \A r \in Requests : storing[r] = "done" /\ r \in due => r \in due'
    BY <1>2, <1>3, StillDue
  <2> QED
    BY <2>1, <2>2, <2>3 DEF Learned, Sent
<1>4. CASE UNCHANGED wvars
  <2>1. UNCHANGED <<storing, due, asks, status, overlapped>>
    BY <1>4 DEF wvars, vars, process, bounds, wizard
  <2> QED
    BY <1>2, <2>1 DEF LearnInv, Learned, Sent
<1> QED
  BY <1>2, <1>3, <1>4, WizardKeepsLearned DEF WizardNext, VersionInv

(* A completed wizard is learned: the review asks for a rebuild of all the *)
(* session stored, that is still asked for when the queue comes to rest,   *)
(* the queue's flag loses nothing, and no extraction failed.               *)
THEOREM WizardIsLearned == WizardSpec => []CompletedWizardIsLearned
<1>1. WizardInit => VersionInv /\ RowInv /\ CoverInv /\ SessionInv /\ CalmInv /\ LearnInv
  <2> SUFFICES ASSUME WizardInit
               PROVE  VersionInv /\ RowInv /\ CoverInv /\ SessionInv /\ CalmInv /\ LearnInv
    OBVIOUS
  <2>1. Init
    BY DEF WizardInit
  <2>2. CalmInv
    BY <2>1 DEF Init, CalmInv, Quiet, Stored, Allowed, NoRun, NoProfile
  <2>3. LearnInv
    BY DEF WizardInit, LearnInv
  <2> QED
    BY <2>1, <2>2, <2>3, InitVersion, InitRows, InitCover, InitSessions
<1>2. VersionInv /\ RowInv /\ CoverInv /\ SessionInv /\ CalmInv /\ LearnInv /\ [WizardNext]_wvars
        => VersionInv' /\ RowInv' /\ CoverInv' /\ SessionInv' /\ CalmInv' /\ LearnInv'
  BY WizardStepTrains, StepKeepsVersion, StepKeepsRows, StepKeepsCover, StepKeepsSessions,
     StepKeepsCalm, StepKeepsLearned DEF VersionInv
<1>3. CoverInv /\ CalmInv /\ LearnInv => CompletedWizardIsLearned
  <2> SUFFICES ASSUME CoverInv, CalmInv, LearnInv, Calm, ~Busy,
                      NEW w \in Sessions \ overlapped, status[w] = "completed",
                      NEW r \in Requests, asks[r].session = w, storing[r] = "done"
               PROVE  r \in profile.learned
    BY DEF CompletedWizardIsLearned, Calm, AllNew
  <2>1. r \in due /\ r \in Texts(examples)
    BY DEF LearnInv, Learned, CalmInv, Stored
  <2>2. profile.learned = profile.covers
    BY DEF CalmInv
  <2> QED
    BY <2>1, <2>2 DEF CoverInv
<1> QED
  BY <1>1, <1>2, <1>3, PTL DEF WizardSpec

================================================================================
