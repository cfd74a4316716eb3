------------------------------ MODULE MCR2Keys ------------------------------
(***************************************************************************)
(* The keys for TLC: every bucket over a profile, its namesake, a script,  *)
(* a controller, a runtime folder, a stray file and one whose name the     *)
(* sidecar refuses, and requests that spell folders with and without the   *)
(* slash and a controller with a slash too many, here or there.            *)
(***************************************************************************)
EXTENDS R2Keys

Master == <<"bots", "credentials", "master">>
Run == <<"bots", "conf", "scripts", "run.yml">>
Grid == <<"bots", "conf", "controllers", "grid.yml">>
Runtime == <<"bots", "conf", "scripts", "runtime">>
Stray == <<"bots", "conf", "grid.yml">>

MCR2Prefixes == {<<"bots">>, <<>>, <<"env", "bots">>}

MCBuckets ==
  SUBSET {Master \o <<"conf_client.yml">>, Master \o <<"connectors", "binance.yml">>,
          <<"bots", "credentials", "master2", "conf_client.yml">>,
          Run, Grid, Runtime \o <<"lib.py">>, Stray, Master \o <<"v1..2">>}

MCDotted == {"..", "v1..2"}
MCPart == UNION {Range(path) : path \in (UNION MCBuckets) \cup MCR2Prefixes} \cup MCDotted

Slashed(path) == [parts |-> path, gaps |-> {Len(path)}]

\* bots//conf/grid.yml
Rooted == [parts |-> Stray, gaps |-> {1}]

\* bots/conf//controllers/grid.yml
Doubled == [parts |-> Grid, gaps |-> {2}]

MCRequested ==
  [credential_profile : {Listed(Master), Slashed(Master)},
   script_config : {{}, {Listed(Run)}},
   controllers : {{}, {Listed(Grid)}, {Doubled}, {Rooted}},
   scripts_runtime : {{}, {Listed(Runtime)}, {Slashed(Runtime)}},
   controllers_runtime : {{}}]
=============================================================================
