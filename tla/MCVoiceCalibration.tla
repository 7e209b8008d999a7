------------------------ MODULE MCVoiceCalibration ------------------------
(***************************************************************************)
(* Small instances of VoiceCalibration: a wizard of four steps, the last   *)
(* written one of which schedules a rebuild, and two submissions.          *)
(***************************************************************************)
EXTENDS VoiceCalibration, TLC

FourSteps == <<"context_setup", "micro_opinion", "format_adaptation", "review_confirm">>

Interchangeable == Permutations(Requests)

=============================================================================
