--------------------------- MODULE MCOrchestrator ---------------------------
(***************************************************************************)
(* The orchestrator for TLC.  Bot names are small integers, tasks model    *)
(* values; the configurations differ in who may interfere.                 *)
(***************************************************************************)
EXTENDS Orchestrator, TLC

\* Nothing tells one stop-bot call from another.
AlikeStops == Permutations(Stops)
=============================================================================
