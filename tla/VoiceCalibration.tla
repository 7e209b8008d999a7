-------------------------- MODULE VoiceCalibration --------------------------
(***************************************************************************)
(* The calibration wizard in front of the author's voice: sessions kept in *)
(* the memory of the process, whose submitted texts become the examples of *)
(* VoiceTraining.  A handler reads the session before it waits (for the    *)
(* derivation of the prompts, for the consent, for the insert) and writes  *)
(* it after, and nothing serialises two requests of one session.           *)
(***************************************************************************)
EXTENDS VoiceTraining, Sequences

CONSTANTS
  Sessions,    \* the wizard sessions the author may start
  Steps,       \* the wizard's steps in order; the first sets the context, the last reviews
  Triggers,    \* the steps whose submission schedules a rebuild
  MaxWizards   \* the plan's limit of completed sessions

ASSUME StepsAssumption ==
  /\ Steps \in Seq(STRING) /\ Len(Steps) > 2
  /\ Triggers \subseteq {Steps[i] : i \in 2..(Len(Steps) - 1)}
  /\ MaxWizards \in Nat

VARIABLES
  status,      \* of each session
  current,     \* number of the step each session waits for
  answered,    \* steps each session has a submission or a skip for
  deriving,    \* sessions whose context is being derived
  asks,        \* what each submission answers: [session, step]
  overlapped   \* history: sessions that had two requests in flight at once

wizard == <<status, current, answered, deriving, asks, overlapped>>
wvars == <<vars, wizard>>

NoAsk == [session |-> "none", step |-> 0]
Review == Len(Steps)
Writable == 2..(Review - 1)

WizardInit ==
  /\ Init
  /\ status = [w \in Sessions |-> "none"]
  /\ current = [w \in Sessions |-> 1]
  /\ answered = [w \in Sessions |-> {}]
  /\ deriving = {}
  /\ asks = [r \in Requests |-> NoAsk]
  /\ overlapped = {}

InFlight(w) ==
  \/ w \in deriving
  \/ \E r \in Requests : asks[r].session = w /\ storing[r] \in {"asserting", "creating", "created"}

\* history: another request of the session is between its reads and its writes
NoteOverlap(w) == overlapped' = IF InFlight(w) THEN overlapped \union {w} ELSE overlapped

\* one step further than the session is when the answer is recorded
Advanced(w) == IF current[w] < Review THEN current[w] + 1 ELSE current[w]

\* the limit looks at the completed sessions only
StartSession(w) ==
  /\ status[w] = "none"
  /\ Cardinality({x \in Sessions : status[x] = "completed"}) < MaxWizards
  /\ status' = [status EXCEPT ![w] = "in_progress"]
  /\ UNCHANGED <<vars, current, answered, deriving, asks, overlapped>>

BeginContext(w) ==
  /\ status[w] = "in_progress"
  /\ current[w] \in {1, 2}
  /\ w \notin deriving
  /\ deriving' = deriving \union {w}
  /\ NoteOverlap(w)
  /\ UNCHANGED <<vars, status, current, answered, asks>>

\* a failed or late derivation leaves the session as it was
FinishContext(w) ==
  /\ w \in deriving
  /\ deriving' = deriving \ {w}
  /\ \/ current' = [current EXCEPT ![w] = IF @ = 1 THEN Advanced(w) ELSE @]
     \/ UNCHANGED current
  /\ UNCHANGED <<vars, status, answered, asks, overlapped>>

SubmitStep(r, w) ==
  /\ storing[r] = "new"
  /\ status[w] = "in_progress"
  /\ current[w] \in Writable
  /\ storing' = [storing EXCEPT ![r] = "asserting"]
  /\ asks' = [asks EXCEPT ![r] = [session |-> w, step |-> current[w]]]
  /\ NoteOverlap(w)
  /\ UNCHANGED <<database, runner, queued, run, marks, revoking, granting, confirming, bounds, status,
                 current, answered, deriving>>

\* the insert has returned: schedule, record the answer, and leave the step the
\* session is at now
FinishSubmit(r) ==
  LET w == asks[r].session IN
  /\ storing[r] = "created"
  /\ storing' = [storing EXCEPT ![r] = "done"]
  /\ IF Steps[asks[r].step] \in Triggers
       THEN Schedule /\ UNCHANGED <<run, grants, faults, stops>>
       ELSE UNCHANGED <<runner, queued, run, marks, bounds>>
  /\ answered' = [answered EXCEPT ![w] = @ \union {asks[r].step}]
  /\ current' = [current EXCEPT ![w] = Advanced(w)]
  /\ UNCHANGED <<database, revoking, granting, confirming, status, deriving, asks, overlapped>>

\* Mutant: a skip leaves nothing behind.
SkipStepForgets(w) ==
  /\ status[w] = "in_progress"
  /\ current[w] \in Writable
  /\ current' = [current EXCEPT ![w] = Advanced(w)]
  /\ NoteOverlap(w)
  /\ UNCHANGED <<vars, status, answered, deriving, asks>>

SkipStep(w) ==
  /\ status[w] = "in_progress"
  /\ current[w] \in Writable
  /\ answered' = [answered EXCEPT ![w] = @ \union {current[w]}]
  /\ current' = [current EXCEPT ![w] = Advanced(w)]
  /\ NoteOverlap(w)
  /\ UNCHANGED <<vars, status, deriving, asks>>

\* Mutant: the review does not schedule a rebuild.
CompleteReviewOnly(w) ==
  /\ status[w] = "in_progress"
  /\ current[w] = Review
  /\ status' = [status EXCEPT ![w] = "completed"]
  /\ NoteOverlap(w)
  /\ UNCHANGED <<vars, current, answered, deriving, asks>>

CompleteReview(w) ==
  /\ status[w] = "in_progress"
  /\ current[w] = Review
  /\ status' = [status EXCEPT ![w] = "completed"]
  /\ Schedule
  /\ NoteOverlap(w)
  /\ UNCHANGED <<database, run, storing, revoking, granting, confirming, grants, faults, stops, current,
                 answered, deriving, asks>>

\* the sessions were in the memory of the process
WizardStop ==
  /\ Stop
  /\ status' = [w \in Sessions |-> IF status[w] = "none" THEN "none" ELSE "lost"]
  /\ deriving' = {}
  /\ UNCHANGED <<current, answered, asks, overlapped>>

Wizard ==
  \/ \E w \in Sessions :
       \/ StartSession(w) \/ BeginContext(w) \/ FinishContext(w) \/ SkipStep(w)
       \/ CompleteReview(w)
       \/ \E r \in Requests : SubmitStep(r, w)
  \/ \E r \in Requests : FinishSubmit(r)
  \/ WizardStop

WizardNext == Wizard \/ (Background /\ UNCHANGED wizard)

WizardSpec == WizardInit /\ [][WizardNext]_wvars
-----------------------------------------------------------------------------
\* The wizard's state: a session never leaves the review, whatever answers come late
\* (advanceSessionStep stops there), and its answers are to steps that take one.
WizardTypeOK ==
  /\ status \in [Sessions -> {"none", "in_progress", "completed", "lost"}]
  /\ current \in [Sessions -> 1..Review]
  /\ answered \in [Sessions -> SUBSET Writable]
  /\ deriving \subseteq Sessions /\ overlapped \subseteq Sessions
  /\ asks \in [Requests -> [session : Sessions, step : Writable] \union {NoAsk}]

Earlier(w) == Writable \intersect 1..(current[w] - 1)

\* A session whose requests came one at a time has an answer or a skip for every step
\* it has left behind: no step is jumped over.
NoStepJumped ==
  \A w \in Sessions \ overlapped :
    status[w] \in {"in_progress", "completed"} => Earlier(w) \subseteq answered[w]

\* A completed wizard is learned: when the runner is idle again the signatures of the
\* profile were extracted with the texts of the session, unless requests overlapped, a
\* statement or an extraction failed, the process stopped or a revocation began.
CompletedWizardIsLearned ==
  (faults = 0 /\ stops = 0 /\ ~Busy /\ \A v \in Revocations : revoking[v].at = "new") =>
    \A w \in Sessions \ overlapped : status[w] = "completed" =>
      {r \in Requests : asks[r].session = w /\ storing[r] = "done"} \subseteq profile.learned

=============================================================================
