----------------------------- MODULE EvalLessons -----------------------------
(***************************************************************************)
(* What evals teach: the brain overlays beside the suites. BrainOverlays   *)
(* and EvalSuites share no state, but both are the evals of one server, so *)
(* this module instantiates the first under names that EvalSuites leaves   *)
(* free: the run of the overlays and the proofs of the evals use it.       *)
(***************************************************************************)
CONSTANTS
    Edits, TweakCap, MaxExps, MaxRuns, MaxVersions, MaxChanges,
    MaxSetbacks     \* bound: failed reloads and restarts

VARIABLES versions, active, loaded, artifact, inbox, exps, run, changes, runs,
          setbacks  \* failed reloads and restarts so far

Brain == INSTANCE BrainOverlays WITH MaxMishaps <- MaxSetbacks, mishaps <- setbacks

BrainSpec == Brain!Spec

\* A lesson an experiment filed and an administrator accepted extends exactly
\* the snapshot that all arms of the experiment ran under (create_proposals,
\* apply_proposal).
ExperimentEvidence == Brain!ExperimentEvidence

\* A proposal the inbox marks accepted is in the brain's history, wherever a
\* restart cut an accept (apply_proposal, then set_proposal_status) short.
AcceptedIsStored == Brain!AcceptedIsStored
=============================================================================
