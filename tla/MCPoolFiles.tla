---------------------------- MODULE MCPoolFiles ----------------------------
(***************************************************************************)
(* The files for TLC: a profile that two requests share, one with another  *)
(* set of connectors and a directory that clashes with the strategies',    *)
(* and one for the HTTP endpoint, which uses the controller a request      *)
(* downloads and otherwise needs its files put there by hand.              *)
(***************************************************************************)
EXTENDS PoolFiles, TLC

\* Nothing tells one bot from another.
Alike == Permutations(Bots)

Yml(base) == <<base, "yml">>

MCProfileTree ==
  [master |-> {Client, <<"connectors", Yml("binance")>>},
   second |-> {Client, <<"connectors", Yml("kucoin")>>, <<"controllers", Yml("stray")>>},
   manual |-> {Client}]

\* Two requests after each other: another profile, another way to name things.
MCProfileOf == [o1 |-> "master", o2 |-> "second", h1 |-> "manual"]
MCScriptOf == [o1 |-> Yml("run"), o2 |-> NoScript, h1 |-> Yml("generated")]
MCControllersOf == [o1 |-> {<<"grid", "">>}, o2 |-> {Yml("grid")}, h1 |-> {<<"grid", "">>}]

\* The directories of the stash hold old files, but for one that is missing or
\* cut short throughout; or all of them are.
Dirs == {"master", "second", "manual", "conf"}
MCStashes ==
  {[k \in Keys |-> IF k \in Rendered THEN "absent" ELSE IF k[1] \in odd THEN kind ELSE "old"] :
     odd \in {{}, Dirs} \cup {{dir} : dir \in Dirs}, kind \in {"absent", "torn"}}
EmptyStash == {[k \in Keys |-> "absent"]}

\* A bot is new, or has files of every profile from an earlier day.
EmptyConf == {[path \in Paths |-> "absent"]}
UsedConf == {[path \in Paths |-> IF path[1] \in Skipped THEN "absent" ELSE "old"]}

\* Two requests with the same profile.
MCSharedProfileOf == [o1 |-> "master", o2 |-> "master"]
=============================================================================
