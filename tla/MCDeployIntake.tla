--------------------------- MODULE MCDeployIntake ---------------------------
(***************************************************************************)
(* The intake for TLC: more requests than the channel holds, one of them   *)
(* unreadable, and more log lines than a ring keeps.                       *)
(***************************************************************************)
EXTENDS DeployIntake
=============================================================================
