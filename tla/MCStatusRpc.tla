---------------------------- MODULE MCStatusRpc ----------------------------
(***************************************************************************)
(* Status polling for TLC: two bots, one poll for each of them to run and, *)
(* where there is a third poll, one for the first to stop.                 *)
(***************************************************************************)
EXTENDS StatusRpc

CONSTANTS a, b, p, q, r

MCTarget == [x \in Polls |-> IF x = q /\ b \in Bots THEN b ELSE a]
MCExpected == [x \in Polls |-> IF x = r THEN "stopped" ELSE "running"]
=============================================================================
