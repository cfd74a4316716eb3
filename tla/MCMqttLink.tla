----------------------------- MODULE MCMqttLink -----------------------------
(***************************************************************************)
(* The broker connection for TLC: a few topics and publishers, and a       *)
(* channel that holds both sets of subscriptions with room to spare, and   *)
(* that an outage can fill.                                                *)
(***************************************************************************)
EXTENDS MqttLink
=============================================================================
