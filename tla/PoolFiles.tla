----------------------------- MODULE PoolFiles -----------------------------
(***************************************************************************)
(* The files of a deployment, src/src/r2.rs and src/src/fs_ops.rs: objects *)
(* come from R2 into one stash that all deployments share, and from there  *)
(* into the conf directory of the bot.  The slot table lends a bot to one  *)
(* deployment at a time; nothing lends the stash.                          *)
(*                                                                         *)
(* A path is <<directory, name>> and a name <<base, extension>>; "." is    *)
(* the conf directory itself.  tokio::fs::write truncates a file and then  *)
(* fills it, and a copy made in between is short: a file is absent, torn,  *)
(* old (a version of an earlier day) or whole.  Copies into a conf         *)
(* directory are read by its bot only after the start command and are one  *)
(* step each.  Both directories are on disk: what the process finds there  *)
(* when it starts is up to its predecessors, crashes included, and to      *)
(* whoever puts files there by hand.                                       *)
(***************************************************************************)
EXTENDS FiniteSets, Naturals

CONSTANTS
  Bots, NoBot,
  Orch,           \* deployments requested over MQTT
  Http,           \* deployments requested over HTTP
  ProfileOf,      \* the credentials profile each deployment names
  ProfileTree,    \* the paths in each profile
  ScriptOf,       \* the script config of each deployment, or NoScript
  ControllersOf,  \* the controller names of each deployment, as requested
  NoScript,
  R2Modes,        \* the values R2_ENABLED may have
  Stashes,        \* what the stash may hold when the process starts
  Confs,          \* what a conf directory may hold then
  Overlap         \* may requests that download the same objects run at once?

Deploys == Orch \cup Http
Profiles == DOMAIN ProfileTree

ASSUME FilesAssumption ==
  /\ Orch \cap Http = {} /\ NoBot \notin Bots
  /\ ProfileOf \in [Deploys -> Profiles] /\ "conf" \notin Profiles
  /\ \A h \in Http : ScriptOf[h] # NoScript
  /\ R2Modes \subseteq BOOLEAN /\ Overlap \in BOOLEAN

VARIABLES
  r2,     \* R2_ENABLED
  stash,  \* bots/credentials and bots/conf
  conf,   \* bots/instances/<bot>/conf
  named,  \* the bots whose conf_client.yml says who they are
  pc, bot,
  left,   \* the objects or files the current step has yet to handle
  key     \* the object whose file is open for writing

vars == <<r2, stash, conf, named, pc, bot, left, key>>

-----------------------------------------------------------------------------
(***************************************************************************)
(* Names and keys.                                                         *)
(***************************************************************************)

Client == <<".", <<"conf_client", "yml">>>>

\* The entries of a profile that sync_credentials_profile_to_pool passes over.
Skipped == {"scripts", "controllers"}

\* normalize_controllers.
Normalize(name) == <<name[1], "yml">>

IsScripted(d) == ScriptOf[d] # NoScript
ScriptPaths(d) == IF IsScripted(d) THEN {<<"scripts", ScriptOf[d]>>} ELSE {}
ControllerPaths(d) == {<<"controllers", Normalize(name)>> : name \in ControllersOf[d]}
RunPaths(d) == ScriptPaths(d) \cup ControllerPaths(d)

InProfile(p, path) == <<p, path>>
Shared(path) == <<"conf", path>>

\* OrchestrationR2Keys::flatten, the credentials prefix listed: what a request
\* has hydrated.
R2Keys(d) ==
  {InProfile(ProfileOf[d], path) : path \in ProfileTree[ProfileOf[d]]}
    \cup {Shared(path) : path \in RunPaths(d)}

Rendered == {Shared(path) : path \in UNION {ScriptPaths(h) : h \in Http}}

Keys == UNION {R2Keys(d) : d \in Deploys}
Paths == (UNION {ProfileTree[p] : p \in Profiles}) \cup (UNION {RunPaths(d) : d \in Deploys})

Preparing == {"hydrate", "write", "profile", "sync", "controllers", "script", "copy"}
Holding == Preparing \cup {"started"}
\* A deployment is littered if its slot was released with files still there.
Ended == {"idle", "failed", "stopped", "littered"}
Free(b) == \A d \in Deploys : bot[d] = b => pc[d] \notin Holding

Content == {"absent", "torn", "old", "whole"}

\* The scripts of the HTTP path carry the time and are new, and the bots'
\* strategy directories are looked at from an empty start.
ASSUME DisksAssumption ==
  /\ Stashes \subseteq [Keys -> Content]
  /\ \A s \in Stashes, k \in Rendered : s[k] = "absent"
  /\ Confs \subseteq [Paths -> Content]
  /\ \A c \in Confs, path \in Paths : path[1] \in Skipped => c[path] = "absent"

TypeOK ==
  /\ r2 \in BOOLEAN
  /\ stash \in [Keys -> Content] /\ conf \in [Bots -> [Paths -> Content]]
  /\ named \subseteq Bots
  /\ pc \in [Deploys -> Holding \cup Ended]
  /\ bot \in [Deploys -> Bots \cup {NoBot}]
  /\ \A d \in Deploys : pc[d] \in Holding => bot[d] \in Bots
  /\ \A d \in Deploys : pc[d] = "write" => key[d] \in left[d]
  /\ left \in [Deploys -> SUBSET (Keys \cup Paths)]

Init ==
  /\ r2 \in R2Modes
  /\ stash \in Stashes
  /\ conf \in [Bots -> Confs]
  /\ named = {}
  /\ pc = [d \in Deploys |-> "idle"]
  /\ bot = [d \in Deploys |-> NoBot]
  /\ left = [d \in Deploys |-> {}]
  /\ key = [d \in Deploys |-> <<>>]

Goto(d, from, to) == pc[d] = from /\ pc' = [pc EXCEPT ![d] = to]

\* Mutant of Begin: the deployment goes on without a bot.
BeginWithoutBot(d, b) ==
  /\ Free(b)
  /\ Goto(d, "idle", IF d \in Orch THEN "hydrate" ELSE "profile")
  /\ left' = [left EXCEPT ![d] = IF r2 /\ d \in Orch THEN R2Keys(d) ELSE {}]
  /\ UNCHANGED <<r2, stash, conf, named, bot, key>>

\* A deployment gets a bot of its own (Orchestrator!Reserve).
Begin(d, b) ==
  /\ Free(b)
  /\ r2 /\ d \in Orch /\ ~Overlap =>
       \A e \in Orch : pc[e] \in Preparing => R2Keys(e) \cap R2Keys(d) = {}
  /\ Goto(d, "idle", IF d \in Orch THEN "hydrate" ELSE "profile")
  /\ bot' = [bot EXCEPT ![d] = b]
  /\ left' = [left EXCEPT ![d] = IF r2 /\ d \in Orch THEN R2Keys(d) ELSE {}]
  /\ UNCHANGED <<r2, stash, conf, named, key>>

-----------------------------------------------------------------------------
(***************************************************************************)
(* hydrate_keys and download_key.  With R2 off there is nothing to do.     *)
(***************************************************************************)

\* The profile's prefix comes first, then the script config, then controllers.
Turn(k) == IF k[1] # "conf" THEN 1 ELSE IF k[2][1] = "scripts" THEN 2 ELSE 3

\* The object is there; its file is opened and truncated.
Fetch(d, k) ==
  /\ k \in left[d] /\ \A j \in left[d] : Turn(k) <= Turn(j)
  /\ Goto(d, "hydrate", "write")
  /\ key' = [key EXCEPT ![d] = k]
  /\ stash' = [stash EXCEPT ![k] = "torn"]
  /\ UNCHANGED <<r2, conf, named, bot, left>>

Fill(d) ==
  /\ Goto(d, "write", "hydrate")
  /\ stash' = [stash EXCEPT ![key[d]] = "whole"]
  /\ left' = [left EXCEPT ![d] = @ \ {key[d]}]
  /\ key' = [key EXCEPT ![d] = <<>>]
  /\ UNCHANGED <<r2, conf, named, bot>>

\* Mutant of HydrateFails: the deployment makes do with what there is.
HydrateFailsQuietly(d) ==
  /\ r2
  /\ Goto(d, "write", "profile")
  /\ left' = [left EXCEPT ![d] = {}]
  /\ key' = [key EXCEPT ![d] = <<>>]
  /\ UNCHANGED <<r2, stash, conf, named, bot>>

\* The object cannot be read, or its file cannot be filled: it stays as it is.
HydrateFails(d) ==
  /\ r2
  /\ Goto(d, "hydrate", "failed") \/ Goto(d, "write", "failed")
  /\ left' = [left EXCEPT ![d] = {}]
  /\ key' = [key EXCEPT ![d] = <<>>]
  /\ UNCHANGED <<r2, stash, conf, named, bot>>

Hydrated(d) ==
  /\ left[d] = {}
  /\ Goto(d, "hydrate", "profile")
  /\ UNCHANGED <<r2, stash, conf, named, bot, left, key>>

-----------------------------------------------------------------------------
(***************************************************************************)
(* prepare_existing_deployment and prepare_controller_deployment.  Each    *)
(* step has what it needs or the deployment ends there (FileFails), and    *)
(* any file operation may fail besides.                                    *)
(***************************************************************************)

InStash(k) == stash[k] # "absent"
Readable == {"old", "whole"}

\* validate_profile wants the directory to be there, if empty; then the listing
\* that sync_credentials_profile_to_pool works through.
ValidateProfile(d) ==
  LET p == ProfileOf[d]
      found == {path \in ProfileTree[p] : InStash(InProfile(p, path))}
  IN  /\ Goto(d, "profile", "sync")
      /\ left' = [left EXCEPT ![d] = {path \in found : path[1] \notin Skipped}]
      /\ UNCHANGED <<r2, stash, conf, named, bot, key>>

\* A file of the profile.
SyncFile(d, path) ==
  /\ pc[d] = "sync" /\ path \in left[d] /\ path[1] = "."
  /\ conf' = [conf EXCEPT ![bot[d]][path] = stash[InProfile(ProfileOf[d], path)]]
  /\ named' = IF path = Client THEN named \ {bot[d]} ELSE named
  /\ left' = [left EXCEPT ![d] = @ \ {path}]
  /\ UNCHANGED <<r2, stash, pc, bot, key>>

\* Mutant of SyncDirectory: the old directory is not removed.
SyncDirectoryOver(d, dir) ==
  LET p == ProfileOf[d]
      copied == {path \in left[d] : path[1] = dir}
  IN  /\ pc[d] = "sync" /\ copied # {} /\ dir # "."
      /\ conf' = [conf EXCEPT ![bot[d]] = [path \in Paths |->
                    IF path \in copied THEN stash[InProfile(p, path)] ELSE @[path]]]
      /\ left' = [left EXCEPT ![d] = @ \ copied]
      /\ UNCHANGED <<r2, stash, named, pc, bot, key>>

\* A directory of the profile takes the place of the bot's.
SyncDirectory(d, dir) ==
  LET p == ProfileOf[d]
      copied == {path \in left[d] : path[1] = dir}
  IN  /\ pc[d] = "sync" /\ copied # {} /\ dir # "."
      /\ conf' = [conf EXCEPT ![bot[d]] = [path \in Paths |->
                    IF path \in copied THEN stash[InProfile(p, path)]
                    ELSE IF path[1] = dir THEN "absent" ELSE @[path]]]
      /\ left' = [left EXCEPT ![d] = @ \ copied]
      /\ UNCHANGED <<r2, stash, named, pc, bot, key>>

\* Mutant of NameBot: the profile's file is left as it is.
NameNobody(d) ==
  /\ left[d] = {}
  /\ Goto(d, "sync", "controllers")
  /\ UNCHANGED <<r2, stash, conf, named, bot, left, key>>

\* The bot's conf_client.yml gets its instance_id.  A torn file may not parse
\* (FileFails), or parse as nothing, which has no place for an instance_id.
NameBot(d) ==
  /\ left[d] = {}
  /\ Goto(d, "sync", "controllers")
  /\ named' = IF conf[bot[d]][Client] \in Readable THEN named \cup {bot[d]} ELSE named
  /\ UNCHANGED <<r2, stash, conf, bot, left, key>>

ValidateControllers(d) ==
  /\ \A path \in ControllerPaths(d) : InStash(Shared(path))
  /\ Goto(d, "controllers", "script")
  /\ UNCHANGED <<r2, stash, conf, named, bot, left, key>>

\* The script config of a request is copied from the stash, where it must be.
CopyScript(d) ==
  /\ d \in Orch /\ \A path \in ScriptPaths(d) : InStash(Shared(path))
  /\ Goto(d, "script", "copy")
  /\ conf' = [conf EXCEPT ![bot[d]] = [path \in Paths |->
                IF path \in ScriptPaths(d) THEN stash[Shared(path)] ELSE @[path]]]
  /\ left' = [left EXCEPT ![d] = ControllerPaths(d)]
  /\ UNCHANGED <<r2, stash, named, bot, key>>

\* The HTTP path renders the script config itself, into both places.
WriteScript(d) ==
  /\ d \in Http
  /\ Goto(d, "script", "copy")
  /\ stash' = [k \in Keys |-> IF \E path \in ScriptPaths(d) : k = Shared(path)
                              THEN "whole" ELSE stash[k]]
  /\ conf' = [conf EXCEPT ![bot[d]] = [path \in Paths |->
                IF path \in ScriptPaths(d) THEN "whole" ELSE @[path]]]
  /\ left' = [left EXCEPT ![d] = ControllerPaths(d)]
  /\ UNCHANGED <<r2, named, bot, key>>

CopyController(d, path) ==
  /\ pc[d] = "copy" /\ path \in left[d]
  /\ conf' = [conf EXCEPT ![bot[d]][path] = stash[Shared(path)]]
  /\ left' = [left EXCEPT ![d] = @ \ {path}]
  /\ UNCHANGED <<r2, stash, named, pc, bot, key>>

Start(d) ==
  /\ left[d] = {}
  /\ Goto(d, "copy", "started")
  /\ UNCHANGED <<r2, stash, conf, named, bot, left, key>>

\* The profile, the bot's conf directory or a config is missing, a file does not
\* parse, or something cannot be read, made, copied or written.
FileFails(d) ==
  /\ \E at \in {"profile", "sync", "controllers", "script", "copy"} : Goto(d, at, "failed")
  /\ left' = [left EXCEPT ![d] = {}]
  /\ UNCHANGED <<r2, stash, conf, named, bot, key>>

-----------------------------------------------------------------------------

\* Mutant of Recorded: the names of the request, as it wrote them.
RecordedAsRequested(d) == {<<"controllers", name>> : name \in ControllersOf[d]}

\* DeploymentFiles.controllers, which the slot table keeps for cleanup_assignment.
Recorded(d) == ControllerPaths(d)

\* cleanup_assignment, which stop_bot calls only for a slot with a script config.
\* A removal that fails is passed over and the slot is released all the same.
Stop(d) ==
  LET files == IF IsScripted(d) THEN ScriptPaths(d) \cup Recorded(d) ELSE {}
  IN  \E kept \in SUBSET files :
        /\ Goto(d, "started", IF kept = {} THEN "stopped" ELSE "littered")
        /\ conf' = [conf EXCEPT ![bot[d]] = [path \in Paths |->
                      IF path \in files \ kept THEN "absent" ELSE @[path]]]
        /\ UNCHANGED <<r2, stash, named, bot, left, key>>

DeployStep(d) ==
  \/ \E b \in Bots : Begin(d, b)
  \/ \E k \in Keys : Fetch(d, k)
  \/ Fill(d) \/ HydrateFails(d) \/ Hydrated(d)
  \/ ValidateProfile(d) \/ NameBot(d) \/ ValidateControllers(d)
  \/ \E path \in Paths :
       SyncFile(d, path) \/ SyncDirectory(d, path[1]) \/ CopyController(d, path)
  \/ CopyScript(d) \/ WriteScript(d) \/ Start(d) \/ FileFails(d) \/ Stop(d)

Next == \E d \in Deploys : DeployStep(d)

Spec == Init /\ [][Next]_vars

-----------------------------------------------------------------------------
(***************************************************************************)
(* Properties.                                                             *)
(***************************************************************************)

\* The objects that requests download; only R2 does.
Downloads(d) == r2 /\ d \in Orch
Downloaded == UNION {R2Keys(d) : d \in {o \in Orch : Downloads(o)}}

\* "Once files are successfully hydrated" (src/docs/bot_deployment.md:95): no bot
\* is started without a config its deployment runs from; one that downloads is
\* started with every file of its request whole, whatever an earlier process, a
\* failure or an HTTP deployment left in the stash; and one that does not gets
\* what is in the stash, as far as no request writes the same files.
StartedComplete ==
  \A d \in Deploys :
    LET brought == {path \in ProfileTree[ProfileOf[d]] : path[1] \notin Skipped}
    IN  pc[d] = "started" =>
          /\ \A path \in RunPaths(d) : conf[bot[d]][path] # "absent"
          /\ Downloads(d) =>
               \A path \in RunPaths(d) \cup brought : conf[bot[d]][path] = "whole"
          /\ \A path \in RunPaths(d) :
               Shared(path) \notin Downloaded => conf[bot[d]][path] = stash[Shared(path)]
          /\ \A path \in brought :
               LET k == InProfile(ProfileOf[d], path)
               IN  k \notin Downloaded /\ InStash(k) => conf[bot[d]][path] = stash[k]

\* A started bot that has a readable conf_client.yml goes by its own name, not
\* by the one in the profile, whoever had the bot before.
StartedUnderOwnName ==
  \A d \in Deploys :
    pc[d] = "started" /\ conf[bot[d]][Client] \in Readable => bot[d] \in named

\* A directory the profile has is the bot's directory: no file of an earlier
\* profile is left in it.
DirectoriesMirrored ==
  \A d \in Deploys :
    pc[d] = "started" =>
      \A path \in Paths, other \in ProfileTree[ProfileOf[d]] :
        /\ path[1] = other[1] /\ path[1] \notin Skipped \cup {"."}
        /\ InStash(InProfile(ProfileOf[d], other))
        /\ conf[bot[d]][path] # "absent"
        => path \in ProfileTree[ProfileOf[d]]

\* Whatever script or controller config a free bot still has comes from a
\* deployment of that bot that failed on the way, that named no script config,
\* or whose files could not be removed: any other stop leaves none, and a
\* profile brings none.
LeftoversExplained ==
  \A b \in Bots, path \in Paths :
    /\ Free(b) /\ path[1] \in Skipped /\ conf[b][path] # "absent"
    => \E d \in Deploys :
         /\ bot[d] = b /\ path \in RunPaths(d)
         /\ pc[d] \in {"failed", "littered"} \/ (pc[d] = "stopped" /\ ~IsScripted(d))
=============================================================================
