----------------------------- MODULE MCWarmPool -----------------------------
(***************************************************************************)
(* The pool and its bots for TLC.  A bot obeys, loses or ends on its own   *)
(* in every run; the configurations differ in stops, restarts and clients. *)
(***************************************************************************)
EXTENDS WarmPool, TLC

\* Nothing tells one stop call from another.
AlikeStops == Permutations(Stops)
=============================================================================
