---------------------------- MODULE VoiceTraining ----------------------------
(***************************************************************************)
(* One author's voice: the consent record, the stored examples, the        *)
(* derived profile and its diagnostics in Postgres, and the rebuild queue  *)
(* that one backend process keeps in memory.  Each read and each write of  *)
(* a row is an action of its own, because nothing locks a row between      *)
(* them: a rebuild, an un-awaited "queued" mark, an example being stored,  *)
(* a trait being confirmed and a revocation all interleave.  Two things    *)
(* are a single step although they are several statements: the two reads   *)
(* of an un-awaited mark, and the transaction that counts the author's     *)
(* rows, reads the version to aim at and inserts an example.               *)
(*                                                                         *)
(* A rebuild counts and samples every text it read, and asks a model for   *)
(* the author's reasoning and development signatures.  When one of those   *)
(* extractions or their reconciliation fails, the profile is written all   *)
(* the same with the previous signatures, the diagnostics say "failed",    *)
(* and the flags of the texts are cleared.  The feature flag of the        *)
(* signatures is taken to be on.                                           *)
(***************************************************************************)
EXTENDS Naturals, FiniteSets

CONSTANTS
  Requests,      \* submissions of one text each
  Revocations,   \* calls of revokeConsent
  Confirmations, \* calls of recordTraitConfirmation
  MaxSchedules,  \* bound on the calls of schedule
  MaxGrants,     \* bound on the calls of grantConsent
  MaxFaults,     \* bound on failed statements and failed extractions
  MaxStops,      \* bound on stops of the process
  MaxTrouble,    \* bound on both together
  MaxVisits      \* bound on the revocations and the confirmations together

ASSUME BoundsAssumption ==
  /\ MaxSchedules \in Nat
  /\ MaxGrants \in Nat
  /\ MaxFaults \in Nat
  /\ MaxStops \in Nat
  /\ MaxTrouble \in Nat
  /\ MaxVisits \in Nat

VARIABLES
  \* the database
  consent,       \* [granted, ever, revoked]: granted, grantedAt is set, revokedAt is set
  examples,      \* rows [id, text, dirty, target]; dirty is pendingProfileImpact
  profile,       \* [version, covers, learned], version 0 when there is no row: the texts of
                 \* its material, and those of the last rebuild whose extractions succeeded
  diagnostics,   \* [active, pending, status], or NoDiagnostics
  \* the process
  runner,        \* where the queue's runner is
  queued,        \* the queue's flag: somebody asked since the run began
  run,           \* what the run has read: [version, active, learned, examples, stale],
                 \* and whether its extractions succeeded: fresh
  marks,         \* un-awaited markRebuildQueued calls, one slot per schedule
  storing,       \* where each submission is
  revoking,      \* where each revocation is, and the grantedAt it read
  granting,      \* a grant has read the consent and has not written it
  confirming,    \* where each confirmation is, and the diagnostics it read; "overwrote" is
                 \* history: they were no longer the stored ones when it put them back
  \* history and bounds
  due,           \* texts a rebuild was asked for, until a run is skipped or fails
  schedules, grants, faults, stops

database == <<consent, examples, profile, diagnostics>>
process == <<runner, queued, run, marks, storing, revoking, granting, confirming>>
bounds == <<due, schedules, grants, faults, stops>>
vars == <<database, process, bounds>>

NoDiagnostics == [active |-> 0, pending |-> 0, status |-> "absent"]
NoRun == [version |-> 0, active |-> 0, learned |-> {}, examples |-> {}, stale |-> {},
          fresh |-> TRUE]
NoProfile == [version |-> 0, covers |-> {}, learned |-> {}]
NoMark == [at |-> "free", active |-> 0, pending |-> 0]

Larger(a, b) == IF a > b THEN a ELSE b
Texts(rows) == {row.text : row \in rows}
Busy == runner # "idle"
Consented == consent.granted /\ ~consent.revoked
RevocationPending == ~consent.granted /\ consent.ever /\ ~consent.revoked

\* Mutant: the next version is told from the diagnostics alone.
ShownVersion(version, shown) == Larger(shown.active + 1, shown.pending)

\* the version after the active one, or the one already announced
NextVersion(version, shown) ==
  Larger((IF version # 0 THEN version ELSE shown.active) + 1, shown.pending)

TargetVersion ==
  CASE diagnostics.pending # 0 -> diagnostics.pending
    [] diagnostics.pending = 0 /\ diagnostics.status # "absent" -> diagnostics.active + 1
    [] OTHER -> profile.version + 1

\* the version the diagnostics keep calling active when a rebuild is announced or fails
ActiveVersion(version) ==
  IF diagnostics.status # "absent" THEN diagnostics.active ELSE version

Init ==
  /\ consent = [granted |-> FALSE, ever |-> FALSE, revoked |-> FALSE]
  /\ examples = {}
  /\ profile = NoProfile
  /\ diagnostics = NoDiagnostics
  /\ runner = "idle"
  /\ queued = FALSE
  /\ run = NoRun
  /\ marks = [s \in 1..MaxSchedules |-> NoMark]
  /\ storing = [r \in Requests |-> "new"]
  /\ revoking = [v \in Revocations |-> [at |-> "new", ever |-> FALSE]]
  /\ granting = FALSE
  /\ confirming = [c \in Confirmations |-> [at |-> "new", shown |-> NoDiagnostics]]
  /\ due = {}
  /\ schedules = 0
  /\ grants = 0
  /\ faults = 0
  /\ stops = 0

\* a statement or an extraction may fail
MayFail == faults < MaxFaults /\ faults + stops < MaxTrouble

\* the revocations and confirmations that have begun
Visits == Cardinality({v \in Revocations : revoking[v].at # "new"})
            + Cardinality({c \in Confirmations : confirming[c].at # "new"})

-----------------------------------------------------------------------------
(* The queue: one runner per author, a flag for what came in meanwhile.    *)

\* Mutant: a schedule during a run is taken to be served by that run.
ScheduleOnce ==
  /\ schedules < MaxSchedules
  /\ schedules' = schedules + 1
  /\ marks' = [marks EXCEPT ![schedules + 1].at = "reading"]
  /\ due' = Texts(examples)
  /\ queued' = FALSE
  /\ runner' = IF Busy THEN runner ELSE "consent"

\* schedule: sets the flag, fires a mark nobody awaits, starts the runner if idle
Schedule ==
  /\ schedules < MaxSchedules
  /\ schedules' = schedules + 1
  /\ marks' = [marks EXCEPT ![schedules + 1].at = "reading"]
  /\ due' = Texts(examples)
  /\ queued' = Busy
  /\ runner' = IF Busy THEN runner ELSE "consent"

\* a retry asked for from the profile screen
AskRebuild ==
  /\ Schedule
  /\ UNCHANGED <<database, run, storing, revoking, granting, confirming, grants, faults, stops>>

\* Mutant: the runner looks for more whether it was asked or not.
EndRunAgain ==
  /\ runner' = "marking"
  /\ run' = NoRun

\* the loop's test once a run is over: go on after a mark, or become idle
EndRun ==
  /\ runner' = IF queued THEN "marking" ELSE "idle"
  /\ run' = NoRun

\* a run that was skipped or failed owes nothing, unless another follows
Release == due' = IF queued THEN due ELSE {}

-----------------------------------------------------------------------------
(* One run of the rebuild.                                                 *)

CheckConsent ==
  /\ runner = "consent"
  /\ IF Consented THEN runner' = "readProfile" /\ UNCHANGED <<run, due>> ELSE EndRun /\ Release
  /\ UNCHANGED <<database, queued, marks, storing, revoking, granting, confirming, schedules,
                 grants, faults, stops>>

ReadProfile ==
  /\ runner = "readProfile"
  /\ run' = [run EXCEPT !.version = profile.version, !.learned = profile.learned]
  /\ runner' = "readDiagnostics"
  /\ UNCHANGED <<database, queued, marks, storing, revoking, granting, confirming, bounds>>

ReadDiagnostics ==
  /\ runner = "readDiagnostics"
  /\ run' = [run EXCEPT !.version = NextVersion(@, diagnostics)]
  /\ runner' = "readExamples"
  /\ UNCHANGED <<database, queued, marks, storing, revoking, granting, confirming, bounds>>

Flagged(rows, version) == {row \in rows : row.dirty /\ row.target <= version}

ReadExamples ==
  /\ runner = "readExamples"
  /\ run' = [run EXCEPT !.examples = examples, !.stale = Flagged(examples, run.version)]
  /\ runner' = "putProfile"
  /\ UNCHANGED <<database, queued, marks, storing, revoking, granting, confirming, bounds>>

\* after the extractions' long calls: the profile is written from what was read, with the
\* signatures it had before when one of the extractions failed
PutProfile ==
  /\ runner = "putProfile"
  /\ \E fresh \in BOOLEAN :
       /\ ~fresh => MayFail
       /\ faults' = IF fresh THEN faults ELSE faults + 1
       /\ profile' = [version |-> run.version, covers |-> Texts(run.examples),
                      learned |-> IF fresh THEN Texts(run.examples) ELSE run.learned]
       /\ run' = [run EXCEPT !.learned = {}, !.examples = {}, !.fresh = fresh]
  /\ runner' = "putDiagnostics"
  /\ UNCHANGED <<consent, examples, diagnostics, queued, marks, storing, revoking, granting,
                 confirming, due, schedules, grants, stops>>

\* Mutant: a failed extraction is not told.
PutDiagnosticsIdle ==
  /\ runner = "putDiagnostics"
  /\ diagnostics' = [active |-> run.version, pending |-> 0, status |-> "idle"]
  /\ runner' = "clear"
  /\ UNCHANGED <<consent, examples, profile, queued, run, marks, storing, revoking, granting,
                 confirming, bounds>>

\* the profile is refreshed whatever the extractions did; the diagnostics tell
PutDiagnostics ==
  /\ runner = "putDiagnostics"
  /\ diagnostics' = [active |-> run.version, pending |-> 0,
                     status |-> IF run.fresh THEN "idle" ELSE "failed"]
  /\ runner' = "clear"
  /\ UNCHANGED <<consent, examples, profile, queued, run, marks, storing, revoking, granting,
                 confirming, bounds>>

\* Mutant: the flags are cleared on what is stored by now.
ClearStoredFlag ==
  /\ runner = "clear"
  /\ \E row \in Flagged(examples, run.version) :
       examples' = (examples \ {row}) \union
                     {[row EXCEPT !.dirty = FALSE, !.target = run.version]}
  /\ run' = [run EXCEPT !.stale = {}]
  /\ UNCHANGED <<consent, profile, diagnostics, runner, queued, marks, storing, revoking,
                 granting, confirming, bounds>>

\* each flagged example is saved whole, as it was read; a missing row fails the run
ClearFlag ==
  /\ runner = "clear"
  /\ \E row \in run.stale :
       IF \E stored \in examples : stored.id = row.id
         THEN /\ examples' = {stored \in examples : stored.id # row.id}
                               \union {[row EXCEPT !.dirty = FALSE, !.target = run.version]}
              /\ run' = [run EXCEPT !.stale = @ \ {row}]
              /\ UNCHANGED runner
         ELSE runner' = "failing" /\ run' = NoRun /\ UNCHANGED examples
  /\ UNCHANGED <<consent, profile, diagnostics, queued, marks, storing, revoking, granting,
                 confirming, bounds>>

FlagsCleared ==
  /\ runner = "clear"
  /\ run.stale = {}
  /\ EndRun
  /\ UNCHANGED <<database, queued, marks, storing, revoking, granting, confirming, bounds>>

\* markRebuildFailure: reads the profile and the diagnostics, then replaces the latter
ReadForFailure ==
  /\ \/ /\ runner = "failing"
        /\ run' = [run EXCEPT !.version = profile.version]
        /\ runner' = "failingDiagnostics"
     \/ /\ runner = "failingDiagnostics"
        /\ run' = [run EXCEPT !.version = ActiveVersion(@)]
        /\ runner' = "putFailure"
  /\ UNCHANGED <<database, queued, marks, storing, revoking, granting, confirming, bounds>>

PutFailure ==
  /\ runner = "putFailure"
  /\ diagnostics' = [active |-> run.version, pending |-> 0, status |-> "failed"]
  /\ EndRun
  /\ Release
  /\ UNCHANGED <<consent, examples, profile, queued, marks, storing, revoking, granting,
                 confirming, schedules, grants, faults, stops>>

\* a statement of the run fails: it is recorded as failed, and if that fails too
\* the runner stops and starts over when somebody asked meanwhile
RunFails ==
  /\ MayFail
  /\ faults' = faults + 1
  /\ \/ /\ runner \in {"readProfile", "readDiagnostics", "readExamples", "putProfile",
                       "putDiagnostics", "clear"}
        /\ runner' = "failing"
        /\ run' = NoRun
        /\ UNCHANGED <<queued, due>>
     \/ /\ runner \in {"failing", "failingDiagnostics", "putFailure", "marking",
                       "markingDiagnostics", "putMark"}
        /\ runner' = IF queued THEN "consent" ELSE "idle"
        /\ queued' = FALSE
        /\ run' = NoRun
        /\ Release
     \/ runner = "consent" /\ EndRun /\ Release /\ UNCHANGED queued
  /\ UNCHANGED <<database, marks, storing, revoking, granting, confirming, schedules, grants,
                 stops>>

\* between two runs the runner awaits a mark of its own, which reads the two rows in turn
ReadForMark ==
  /\ \/ /\ runner = "marking"
        /\ run' = [run EXCEPT !.version = profile.version]
        /\ runner' = "markingDiagnostics"
     \/ /\ runner = "markingDiagnostics"
        /\ run' = [run EXCEPT !.version = NextVersion(@, diagnostics),
                             !.active = ActiveVersion(run.version)]
        /\ runner' = "putMark"
  /\ UNCHANGED <<database, queued, marks, storing, revoking, granting, confirming, bounds>>

PutMark ==
  /\ runner = "putMark"
  /\ diagnostics' = [active |-> run.active, pending |-> run.version, status |-> "in_progress"]
  /\ runner' = "consent"
  /\ queued' = FALSE
  /\ run' = NoRun
  /\ UNCHANGED <<consent, examples, profile, marks, storing, revoking, granting, confirming,
                 bounds>>

-----------------------------------------------------------------------------
(* The marks nobody awaits: they may land before, inside or after a run.   *)

\* both rows are read in this one step
ReadLateMark(s) ==
  /\ marks[s].at = "reading"
  /\ marks' = [marks EXCEPT ![s] = [at |-> "putting", active |-> ActiveVersion(profile.version),
                                    pending |-> NextVersion(profile.version, diagnostics)]]
  /\ UNCHANGED <<database, runner, queued, run, storing, revoking, granting, confirming,
                 bounds>>

PutLateMark(s) ==
  /\ marks[s].at = "putting"
  /\ diagnostics' = [active |-> marks[s].active, pending |-> marks[s].pending,
                     status |-> "in_progress"]
  /\ marks' = [marks EXCEPT ![s] = NoMark]
  /\ UNCHANGED <<consent, examples, profile, runner, queued, run, storing, revoking, granting,
                 confirming, bounds>>

\* its failure is swallowed
LoseLateMark(s) ==
  /\ MayFail
  /\ marks[s].at # "free"
  /\ marks' = [marks EXCEPT ![s] = NoMark]
  /\ faults' = faults + 1
  /\ UNCHANGED <<database, runner, queued, run, storing, revoking, granting, confirming, due,
                 schedules, grants, stops>>

-----------------------------------------------------------------------------
(* Storing an example: the consent is asserted, then a transaction counts  *)
(* the author's rows and inserts under the next number.                    *)

AssertConsent(r) ==
  /\ storing[r] = "asserting"
  /\ storing' = [storing EXCEPT ![r] = IF Consented THEN "creating" ELSE "refused"]
  /\ UNCHANGED <<database, runner, queued, run, marks, revoking, granting, confirming, bounds>>

\* Mutant: rows are numbered from zero.
CreateExampleFromZero(r) ==
  /\ storing[r] = "creating"
  /\ examples' = examples \union
       {[id |-> Cardinality(examples), text |-> r, dirty |-> TRUE, target |-> TargetVersion]}
  /\ storing' = [storing EXCEPT ![r] = "created"]
  /\ UNCHANGED <<consent, profile, diagnostics, runner, queued, run, marks, revoking, granting,
                 confirming, bounds>>

CreateExample(r) ==
  /\ storing[r] = "creating"
  /\ examples' = examples \union
       {[id |-> Cardinality(examples) + 1, text |-> r, dirty |-> TRUE, target |-> TargetVersion]}
  /\ storing' = [storing EXCEPT ![r] = "created"]
  /\ UNCHANGED <<consent, profile, diagnostics, runner, queued, run, marks, revoking, granting,
                 confirming, bounds>>

\* three attempts of the transaction failed
CreateFails(r) ==
  /\ MayFail
  /\ storing[r] = "creating"
  /\ storing' = [storing EXCEPT ![r] = "refused"]
  /\ faults' = faults + 1
  /\ UNCHANGED <<database, runner, queued, run, marks, revoking, granting, confirming, due,
                 schedules, grants, stops>>

-----------------------------------------------------------------------------
(* Consent.                                                                *)

\* a revocation whose cleanup is unfinished blocks a new grant
BeginGrant ==
  /\ grants < MaxGrants
  /\ ~granting
  /\ ~RevocationPending
  /\ grants' = grants + 1
  /\ granting' = TRUE
  /\ UNCHANGED <<database, runner, queued, run, marks, storing, revoking, confirming, due,
                 schedules, faults, stops>>

PutGrant ==
  /\ granting
  /\ consent' = [granted |-> TRUE, ever |-> TRUE, revoked |-> FALSE]
  /\ granting' = FALSE
  /\ UNCHANGED <<examples, profile, diagnostics, runner, queued, run, marks, storing, revoking,
                 confirming, bounds>>

\* the rows go one statement after the other, the consent is closed last
RevokeStep(v, from, to) ==
  /\ revoking[v].at = from
  /\ revoking' = [revoking EXCEPT ![v].at = to]
  /\ UNCHANGED <<runner, queued, run, marks, storing, granting, confirming, schedules, grants,
                 faults, stops>>

BeginRevoke(v) ==
  /\ revoking[v].at = "new" /\ Visits < MaxVisits
  /\ revoking' = [revoking EXCEPT ![v] = [at |-> "suspend", ever |-> consent.ever]]
  /\ UNCHANGED <<database, runner, queued, run, marks, storing, granting, confirming, bounds>>

Suspend(v) ==
  /\ RevokeStep(v, "suspend", "examples")
  /\ consent' = [granted |-> FALSE, ever |-> revoking[v].ever, revoked |-> FALSE]
  /\ UNCHANGED <<examples, profile, diagnostics, due>>

RemoveExamples(v) ==
  /\ RevokeStep(v, "examples", "profile")
  /\ examples' = {}
  /\ due' = {}
  /\ UNCHANGED <<consent, profile, diagnostics>>

RemoveProfile(v) ==
  /\ RevokeStep(v, "profile", "diagnostics")
  /\ profile' = NoProfile
  /\ due' = {}
  /\ UNCHANGED <<consent, examples, diagnostics>>

RemoveDiagnostics(v) ==
  /\ RevokeStep(v, "diagnostics", "close")
  /\ diagnostics' = NoDiagnostics
  /\ UNCHANGED <<consent, examples, profile, due>>

CloseRevocation(v) ==
  /\ RevokeStep(v, "close", "done")
  /\ consent' = [granted |-> FALSE, ever |-> revoking[v].ever, revoked |-> TRUE]
  /\ UNCHANGED <<examples, profile, diagnostics, due>>

\* a failed statement leaves the revocation pending; only another call resumes it
RevokeFails(v) ==
  /\ MayFail
  /\ revoking[v].at \in {"suspend", "examples", "profile", "diagnostics", "close"}
  /\ revoking' = [revoking EXCEPT ![v].at = "blocked"]
  /\ faults' = faults + 1
  /\ UNCHANGED <<database, runner, queued, run, marks, storing, granting, confirming, due,
                 schedules, grants, stops>>

-----------------------------------------------------------------------------
(* Confirming a trait: the diagnostics are read and put back whole, with   *)
(* the confirmation in them.                                               *)

ReadForConfirmation(c) ==
  /\ confirming[c].at = "new" /\ Visits < MaxVisits
  /\ diagnostics.status # "absent"
  /\ confirming' = [confirming EXCEPT ![c] = [at |-> "putting", shown |-> diagnostics]]
  /\ UNCHANGED <<database, runner, queued, run, marks, storing, revoking, granting, bounds>>

PutConfirmation(c) ==
  /\ confirming[c].at = "putting"
  /\ diagnostics' = confirming[c].shown
  /\ confirming' = [confirming EXCEPT ![c] =
                      [at |-> IF diagnostics = confirming[c].shown THEN "done" ELSE "overwrote",
                       shown |-> NoDiagnostics]]
  /\ UNCHANGED <<consent, examples, profile, runner, queued, run, marks, storing, revoking,
                 granting, bounds>>

-----------------------------------------------------------------------------
\* the process stops: the queue, the marks and the requests were only in memory
Stop ==
  /\ stops < MaxStops /\ faults + stops < MaxTrouble
  /\ stops' = stops + 1
  /\ runner' = "idle"
  /\ queued' = FALSE
  /\ run' = NoRun
  /\ marks' = [s \in 1..MaxSchedules |-> NoMark]
  /\ storing' = [r \in Requests |-> IF storing[r] = "new" THEN "new" ELSE "refused"]
  /\ revoking' = [v \in Revocations |->
                    IF revoking[v].at \in {"new", "done"} THEN revoking[v]
                                                          ELSE [revoking[v] EXCEPT !.at = "blocked"]]
  /\ granting' = FALSE
  /\ confirming' = [c \in Confirmations |->
                      IF confirming[c].at = "putting"
                        THEN [at |-> "done", shown |-> NoDiagnostics] ELSE confirming[c]]
  /\ due' = {}
  /\ UNCHANGED <<database, schedules, grants, faults>>

Rebuild ==
  \/ CheckConsent \/ ReadProfile \/ ReadDiagnostics \/ ReadExamples
  \/ PutProfile \/ PutDiagnostics \/ ClearFlag \/ FlagsCleared
  \/ ReadForFailure \/ PutFailure \/ ReadForMark \/ PutMark

\* a submission as the training sees it: it begins, and ends with or without a schedule
Submit(r) ==
  /\ storing[r] = "new"
  /\ storing' = [storing EXCEPT ![r] = "asserting"]
  /\ UNCHANGED <<database, runner, queued, run, marks, revoking, granting, confirming, bounds>>

Submitted(r) ==
  /\ storing[r] = "created"
  /\ storing' = [storing EXCEPT ![r] = "done"]
  /\ \/ Schedule /\ UNCHANGED <<run, grants, faults, stops>>
     \/ UNCHANGED <<runner, queued, run, marks, bounds>>
  /\ UNCHANGED <<database, revoking, granting, confirming>>

\* everything but the beginning and the end of a submission, which the wizard refines
Background ==
  \/ AskRebuild
  \/ Rebuild
  \/ RunFails
  \/ \E s \in 1..MaxSchedules : ReadLateMark(s) \/ PutLateMark(s) \/ LoseLateMark(s)
  \/ \E r \in Requests : AssertConsent(r) \/ CreateExample(r) \/ CreateFails(r)
  \/ BeginGrant \/ PutGrant
  \/ \E v \in Revocations :
       \/ BeginRevoke(v) \/ Suspend(v) \/ RemoveExamples(v) \/ RemoveProfile(v)
       \/ RemoveDiagnostics(v) \/ CloseRevocation(v) \/ RevokeFails(v)
  \/ \E c \in Confirmations : ReadForConfirmation(c) \/ PutConfirmation(c)

Next ==
  \/ Background
  \/ \E r \in Requests : Submit(r) \/ Submitted(r)
  \/ Stop

Spec == Init /\ [][Next]_vars

\* the process runs its own continuations; nobody has to ask, grant or revoke anything
FairSpec == Spec /\ WF_vars(Rebuild)

-----------------------------------------------------------------------------
RunnerStates ==
  {"idle", "consent", "readProfile", "readDiagnostics", "readExamples", "putProfile",
   "putDiagnostics", "clear", "failing", "failingDiagnostics", "putFailure", "marking",
   "markingDiagnostics", "putMark"}

TypeOK ==
  /\ consent \in [granted : BOOLEAN, ever : BOOLEAN, revoked : BOOLEAN]
  /\ \A row \in examples : row.text \in Requests /\ row.id \in Nat \ {0} /\ row.target \in Nat \ {0}
  /\ \A a, b \in examples : a.id = b.id => a = b
  /\ profile.version \in Nat
  /\ profile.covers \subseteq Requests /\ profile.learned \subseteq Requests
  /\ diagnostics.active \in Nat /\ diagnostics.pending \in Nat
  /\ diagnostics.status \in {"absent", "idle", "in_progress", "failed"}
  /\ runner \in RunnerStates
  /\ queued \in BOOLEAN
  /\ run.examples \subseteq [id : Nat \ {0}, text : Requests, dirty : BOOLEAN, target : Nat \ {0}]
  /\ due \subseteq Requests
  /\ \A c \in Confirmations : confirming[c].at \in {"new", "putting", "done", "overwrote"}

\* What a schedule asked for is never lost by the queue's flag: once the runner is idle
\* again, every text that was stored when a rebuild was asked for is in the material of the
\* profile, unless the run that had to read it was skipped or reported as failed.
RequestsAreCovered == ~Busy => (due \intersect Texts(examples)) \subseteq profile.covers

\* An example whose pendingProfileImpact was cleared is in the material of the profile that
\* the author sees, and its signatures have learned it unless the diagnostics speak of a
\* rebuild that failed or is under way: the flag is cleared after a failed extraction too,
\* and then only the diagnostics tell that the text was not learned.  So it is as long as
\* no revocation has removed rows under a running rebuild, and no confirmation has put the
\* diagnostics of before over newer ones.
ClearedMeansLearned ==
  /\ \A v \in Revocations : revoking[v].at = "new"
  /\ \A c \in Confirmations : confirming[c].at # "overwrote"
  =>
    \A row \in examples : ~row.dirty =>
      /\ row.text \in profile.covers
      /\ row.text \in profile.learned \/ diagnostics.status \in {"failed", "in_progress"}

\* A profile never replaces one of the same or a later version.  This does not say that a
\* version names one profile: once a revocation has removed the profile and the diagnostics
\* the numbers start again at 1, and so do the snapshot ids.
VersionsGrow ==
  [][profile'.version # 0 /\ profile' # profile => profile'.version > profile.version]_profile

\* The runner comes to rest, whatever failed or was asked meanwhile.
QueueDrains == []<>~Busy

=============================================================================
