----------------------------- MODULE FileProofs -----------------------------
(***************************************************************************)
(* Theorems about the files of deployments, for any pool, any requests and *)
(* any profiles: types, the name a started bot goes by and whose files a   *)
(* free bot may still have, with the stash shared and the requests         *)
(* overlapping as they like; where requests with objects in common come    *)
(* one after the other, that a bot is started with all its files; and      *)
(* where HTTP deployments have profiles of their own, that nothing of an   *)
(* earlier profile stays in a directory of the next.                       *)
(***************************************************************************)
EXTENDS PoolFiles, TLAPS

KeyTypeOK == key \in [Deploys -> Keys \cup Paths \cup {<<>>}]

LEMMA PathsAndKeys ==
  ASSUME NEW d \in Deploys
  PROVE  /\ \A path \in ProfileTree[ProfileOf[d]] : path \in Paths /\ InProfile(ProfileOf[d], path) \in Keys
         /\ \A path \in RunPaths(d) : path \in Paths /\ Shared(path) \in Keys
         /\ ScriptPaths(d) \subseteq RunPaths(d) /\ ControllerPaths(d) \subseteq RunPaths(d)
         /\ R2Keys(d) \subseteq Keys
         /\ ProfileOf[d] \in Profiles
<1>1. ProfileOf[d] \in Profiles  BY FilesAssumption
<1>2. R2Keys(d) \subseteq Keys  BY DEF Keys
<1>3. \A path \in ProfileTree[ProfileOf[d]] : path \in Paths  BY <1>1 DEF Paths
<1>4. \A path \in RunPaths(d) : path \in Paths  BY DEF Paths
<1>5. \A path \in ProfileTree[ProfileOf[d]] : InProfile(ProfileOf[d], path) \in R2Keys(d)
  BY DEF R2Keys
<1>6. \A path \in RunPaths(d) : Shared(path) \in R2Keys(d)  BY DEF R2Keys
<1> QED  BY <1>1, <1>2, <1>3, <1>4, <1>5, <1>6 DEF RunPaths

\* The paths a deployment runs from are no file of the conf directory itself.
LEMMA RunPathsApart ==
  ASSUME NEW d \in Deploys, NEW path \in RunPaths(d)
  PROVE  path[1] \in Skipped /\ path # Client /\ Client[1] = "."
BY DEF RunPaths, ScriptPaths, ControllerPaths, Skipped, Client

LEMMA GotoTyping ==
  ASSUME TypeOK, NEW d \in Deploys, NEW from, NEW to \in Holding \cup Ended,
         Goto(d, from, to)
  PROVE  /\ pc' \in [Deploys -> Holding \cup Ended]
         /\ pc[d] = from /\ pc'[d] = to
         /\ \A e \in Deploys : e # d => pc'[e] = pc[e]
BY DEF TypeOK, Goto

\* What a step does to the places and the lists of the deployments.
Placed ==
  /\ pc \in [Deploys -> Holding \cup Ended]
  /\ bot \in [Deploys -> Bots \cup {NoBot}]
  /\ \A d \in Deploys : pc[d] \in Holding => bot[d] \in Bots
  /\ \A d \in Deploys : pc[d] = "write" => key[d] \in left[d]
  /\ left \in [Deploys -> SUBSET (Keys \cup Paths)]
  /\ KeyTypeOK

LEMMA PlacesTyping ==
  ASSUME Placed, NEW d \in Deploys, DeployStep(d)
  PROVE  Placed'
<1> USE DEF Placed, KeyTypeOK, Goto, Holding, Preparing, Ended
<1>1. ASSUME NEW b \in Bots, Begin(d, b) PROVE Placed'
  BY <1>1, PathsAndKeys DEF Begin
<1>2. ASSUME NEW k \in Keys, Fetch(d, k) PROVE Placed'
  BY <1>2 DEF Fetch
<1>3. CASE Fill(d)  BY <1>3 DEF Fill
<1>4. CASE HydrateFails(d) \/ Hydrated(d)  BY <1>4 DEF HydrateFails, Hydrated
<1>5. CASE ValidateProfile(d)
  <2>1. \A path \in ProfileTree[ProfileOf[d]] : path \in Paths  BY PathsAndKeys
  <2> QED  BY <1>5, <2>1 DEF ValidateProfile
<1>6. CASE NameBot(d) \/ ValidateControllers(d) \/ FileFails(d) \/ Stop(d) \/ Start(d)
  BY <1>6 DEF NameBot, ValidateControllers, FileFails, Stop, Start
<1>7. CASE CopyScript(d) \/ WriteScript(d)
  <2>1. ControllerPaths(d) \subseteq Paths  BY PathsAndKeys
  <2> QED  BY <1>7, <2>1 DEF CopyScript, WriteScript
<1>8. ASSUME NEW path \in Paths,
             SyncFile(d, path) \/ SyncDirectory(d, path[1]) \/ CopyController(d, path)
      PROVE  Placed'
  BY <1>8 DEF SyncFile, SyncDirectory, CopyController
<1> QED  BY <1>1, <1>2, <1>3, <1>4, <1>5, <1>6, <1>7, <1>8 DEF DeployStep

\* The files themselves.
Filed ==
  /\ r2 \in BOOLEAN
  /\ stash \in [Keys -> Content] /\ conf \in [Bots -> [Paths -> Content]]
  /\ named \subseteq Bots

\* What a deployment still has to copy lies in the directories that a profile is
\* copied to or, later, among its controllers.
Listed(d) ==
  /\ pc[d] = "sync" =>
       \A path \in left[d] : path \in ProfileTree[ProfileOf[d]] /\ path[1] \notin Skipped
  /\ pc[d] = "copy" => left[d] \subseteq ControllerPaths(d)

LEMMA ListSteps ==
  ASSUME Placed, \A e \in Deploys : Listed(e), NEW d \in Deploys, DeployStep(d)
  PROVE  \A e \in Deploys : Listed(e)'
<1> USE DEF Placed, Goto
<1>1. \A e \in Deploys : e # d => pc'[e] = pc[e] /\ left'[e] = left[e]
  BY DEF DeployStep, Begin, Fetch, Fill, HydrateFails, Hydrated, ValidateProfile, SyncFile,
     SyncDirectory, NameBot, ValidateControllers, CopyScript, WriteScript, CopyController, Start,
     FileFails, Stop
<1>2. Listed(d)'
  <2>1. CASE ValidateProfile(d)  BY <2>1 DEF ValidateProfile, Listed
  <2>2. ASSUME NEW path \in Paths, SyncFile(d, path) \/ SyncDirectory(d, path[1]) \/ CopyController(d, path)
        PROVE  Listed(d)'
    BY <2>2 DEF SyncFile, SyncDirectory, CopyController, Listed
  <2>3. CASE CopyScript(d) \/ WriteScript(d)
    BY <2>3 DEF CopyScript, WriteScript, Listed
  <2>4. CASE ~(ValidateProfile(d) \/ CopyScript(d) \/ WriteScript(d)
               \/ \E path \in Paths : SyncFile(d, path) \/ SyncDirectory(d, path[1])
                                      \/ CopyController(d, path))
    <3>1. pc'[d] \notin {"sync", "copy"}
      BY <2>4 DEF DeployStep, Begin, Fetch, Fill, HydrateFails, Hydrated, NameBot,
         ValidateControllers, Start, FileFails, Stop
    <3> QED  BY <3>1 DEF Listed
  <2> QED  BY <2>1, <2>2, <2>3, <2>4
<1>3. ASSUME NEW e \in Deploys, e # d PROVE Listed(e)'
  BY <1>1, <1>3 DEF Listed
<1> QED  BY <1>2, <1>3

\* A write into the conf directory of one bot.
LEMMA ConfTyping ==
  ASSUME conf \in [Bots -> [Paths -> Content]], NEW b \in Bots, NEW files \in [Paths -> Content]
  PROVE  [conf EXCEPT ![b] = files] \in [Bots -> [Paths -> Content]]
OBVIOUS

LEMMA FilesTyping ==
  ASSUME Placed, Filed, \A e \in Deploys : Listed(e), NEW d \in Deploys, DeployStep(d)
  PROVE  Filed'
<1> USE DEF Placed, Filed, Goto, Holding, Preparing
<1>a. {"absent", "torn", "whole"} \subseteq Content  BY DEF Content
<1>1. CASE UNCHANGED <<r2, stash, conf, named>>  BY <1>1
<1>2. ASSUME NEW k \in Keys, Fetch(d, k) PROVE Filed'
  BY <1>2, <1>a DEF Fetch
<1>3. CASE Fill(d)  BY <1>3, <1>a DEF Fill
<1>4. CASE NameBot(d)  BY <1>4 DEF NameBot
<1>5. ASSUME NEW path \in Paths, SyncFile(d, path) PROVE Filed'
  <2>1. /\ bot[d] \in Bots /\ path \in ProfileTree[ProfileOf[d]]
        /\ conf' = [conf EXCEPT ![bot[d]] =
                      [conf[bot[d]] EXCEPT ![path] = stash[InProfile(ProfileOf[d], path)]]]
        /\ named' \subseteq Bots /\ UNCHANGED <<r2, stash>>
    BY <1>5 DEF SyncFile, Listed
  <2>2. stash[InProfile(ProfileOf[d], path)] \in Content  BY <2>1, PathsAndKeys
  <2>3. [conf[bot[d]] EXCEPT ![path] = stash[InProfile(ProfileOf[d], path)]] \in [Paths -> Content]
    BY <2>1, <2>2
  <2> QED  BY <2>1, <2>3, ConfTyping
<1>6. ASSUME NEW dir, SyncDirectory(d, dir) PROVE Filed'
  <2> DEFINE files == [path \in Paths |->
                         IF path \in {q \in left[d] : q[1] = dir}
                         THEN stash[InProfile(ProfileOf[d], path)]
                         ELSE IF path[1] = dir THEN "absent" ELSE conf[bot[d]][path]]
  <2>1. /\ bot[d] \in Bots /\ conf' = [conf EXCEPT ![bot[d]] = files]
        /\ UNCHANGED <<r2, stash, named>>
    BY <1>6 DEF SyncDirectory
  <2>2. \A path \in left[d] : stash[InProfile(ProfileOf[d], path)] \in Content
    BY <1>6, PathsAndKeys DEF SyncDirectory, Listed
  <2>3. files \in [Paths -> Content]  BY <1>a, <2>1, <2>2
  <2> QED  BY <2>1, <2>3, ConfTyping
<1>7. CASE CopyScript(d)
  <2> DEFINE files == [path \in Paths |->
                         IF path \in ScriptPaths(d)
                         THEN stash[Shared(path)] ELSE conf[bot[d]][path]]
  <2>1. /\ bot[d] \in Bots /\ conf' = [conf EXCEPT ![bot[d]] = files]
        /\ UNCHANGED <<r2, stash, named>>
    BY <1>7 DEF CopyScript
  <2>2. \A path \in ScriptPaths(d) : stash[Shared(path)] \in Content  BY PathsAndKeys
  <2>3. files \in [Paths -> Content]  BY <2>1, <2>2
  <2> QED  BY <2>1, <2>3, ConfTyping
<1>8. CASE WriteScript(d)
  <2> DEFINE files == [path \in Paths |->
                         IF path \in ScriptPaths(d) THEN "whole" ELSE conf[bot[d]][path]]
  <2>1. /\ bot[d] \in Bots /\ conf' = [conf EXCEPT ![bot[d]] = files]
        /\ UNCHANGED <<r2, named>>
        /\ stash' \in [Keys -> Content]
    BY <1>8, <1>a DEF WriteScript
  <2>2. files \in [Paths -> Content]  BY <1>a, <2>1
  <2> QED  BY <2>1, <2>2, ConfTyping
<1>9. ASSUME NEW path \in Paths, CopyController(d, path) PROVE Filed'
  <2>1. /\ bot[d] \in Bots /\ path \in ControllerPaths(d)
        /\ conf' = [conf EXCEPT ![bot[d]] = [conf[bot[d]] EXCEPT ![path] = stash[Shared(path)]]]
        /\ UNCHANGED <<r2, stash, named>>
    BY <1>9 DEF CopyController, Listed
  <2>2. stash[Shared(path)] \in Content  BY <2>1, PathsAndKeys
  <2>3. [conf[bot[d]] EXCEPT ![path] = stash[Shared(path)]] \in [Paths -> Content]
    BY <2>1, <2>2
  <2> QED  BY <2>1, <2>3, ConfTyping
<1>10. CASE Stop(d)
  <2> DEFINE removable == IF IsScripted(d) THEN ScriptPaths(d) \cup Recorded(d) ELSE {}
             files(kept) == [path \in Paths |->
                               IF path \in removable \ kept THEN "absent" ELSE conf[bot[d]][path]]
  <2>1. PICK kept \in SUBSET removable : conf' = [conf EXCEPT ![bot[d]] = files(kept)]
    BY <1>10 DEF Stop
  <2>2. bot[d] \in Bots /\ UNCHANGED <<r2, stash, named>>  BY <1>10 DEF Stop
  <2>3. files(kept) \in [Paths -> Content]
    BY <1>a, <2>2
  <2> QED  BY <2>1, <2>2, <2>3, ConfTyping
<1> QED
  BY <1>1, <1>2, <1>3, <1>4, <1>5, <1>6, <1>7, <1>8, <1>9, <1>10
  DEF DeployStep, Begin, HydrateFails, Hydrated, ValidateProfile, ValidateControllers, Start,
      FileFails

TypeInv == Placed /\ Filed /\ \A d \in Deploys : Listed(d)

LEMMA FilesTyped == Spec => []TypeInv
<1>1. Init => TypeInv
  <2> SUFFICES ASSUME Init PROVE TypeInv
    OBVIOUS
  <2>1. Placed  BY DEF Init, Placed, KeyTypeOK, Holding, Preparing, Ended
  <2>2. Filed  BY FilesAssumption, DisksAssumption DEF Init, Filed
  <2>3. \A d \in Deploys : Listed(d)  BY DEF Init, Listed
  <2> QED  BY <2>1, <2>2, <2>3 DEF TypeInv
<1>2. TypeInv /\ [Next]_vars => TypeInv'
  <2>1. ASSUME TypeInv, NEW d \in Deploys, DeployStep(d) PROVE TypeInv'
    <3>1. Placed'  BY <2>1, PlacesTyping DEF TypeInv
    <3>2. Filed'  BY <2>1, FilesTyping DEF TypeInv
    <3>3. \A e \in Deploys : Listed(e)'  BY <2>1, ListSteps DEF TypeInv
    <3> QED  BY <3>1, <3>2, <3>3 DEF TypeInv
  <2>2. TypeInv /\ UNCHANGED vars => TypeInv'
    BY DEF vars, TypeInv, Placed, KeyTypeOK, Filed, Listed
  <2> QED  BY <2>1, <2>2 DEF Next
<1> QED  BY <1>1, <1>2, PTL DEF Spec

\* Every reachable state of the stash, the conf directories and the deployments is
\* well typed.
THEOREM FilesTypeCorrect == Spec => []TypeOK
<1>1. TypeInv => TypeOK  BY DEF TypeInv, Placed, Filed, TypeOK
<1> QED  BY <1>1, FilesTyped, PTL

-----------------------------------------------------------------------------
(***************************************************************************)
(* Whose bot it is.                                                        *)
(***************************************************************************)

OneHolder ==
  \A d, e \in Deploys :
    pc[d] \in Holding /\ pc[e] \in Holding /\ bot[d] = bot[e] => d = e

\* What a step of d leaves of the others.
LEMMA OthersKept ==
  ASSUME TypeInv, NEW d \in Deploys, DeployStep(d)
  PROVE  /\ \A e \in Deploys : e # d => pc'[e] = pc[e] /\ bot'[e] = bot[e]
         /\ \/ \E b \in Bots : Begin(d, b)
            \/ /\ pc[d] \in Holding /\ bot[d] \in Bots /\ UNCHANGED bot
               /\ \A b \in Bots : b # bot[d] => conf'[b] = conf[b] /\ (b \in named' <=> b \in named)
               /\ pc'[d] \in Holding \cup (Ended \ {"idle"})
<1> USE DEF TypeInv, Placed, Filed, Goto, Holding, Preparing, Ended
<1>1. ASSUME NEW b \in Bots, Begin(d, b)
      PROVE  \A e \in Deploys : e # d => pc'[e] = pc[e] /\ bot'[e] = bot[e]
  BY <1>1 DEF Begin
<1>2. ASSUME ~\E b \in Bots : Begin(d, b)
      PROVE  /\ pc[d] \in Holding /\ UNCHANGED bot
             /\ \A e \in Deploys : e # d => pc'[e] = pc[e]
             /\ \A b \in Bots : b # bot[d] => conf'[b] = conf[b] /\ (b \in named' <=> b \in named)
             /\ pc'[d] \in Holding \cup (Ended \ {"idle"})
  BY <1>2 DEF DeployStep, Fetch, Fill, HydrateFails, Hydrated, ValidateProfile, SyncFile,
     SyncDirectory, NameBot, ValidateControllers, CopyScript, WriteScript, CopyController, Start,
     FileFails, Stop
<1> QED  BY <1>1, <1>2

LEMMA HolderSteps ==
  ASSUME TypeInv, OneHolder, NEW d \in Deploys, DeployStep(d)
  PROVE  OneHolder'
<1>1. ASSUME NEW b \in Bots, Begin(d, b) PROVE OneHolder'
  <2>1. /\ bot'[d] = b /\ \A e \in Deploys : e # d => pc'[e] = pc[e] /\ bot'[e] = bot[e]
        /\ \A e \in Deploys : bot[e] = b => pc[e] \notin Holding
    BY <1>1 DEF Begin, Free, Goto, TypeInv, Placed
  <2> QED  BY <2>1 DEF OneHolder
<1>2. CASE ~\E b \in Bots : Begin(d, b)
  BY <1>2, OthersKept DEF OneHolder
<1> QED  BY <1>1, <1>2

-----------------------------------------------------------------------------
(***************************************************************************)
(* The name of a bot.                                                      *)
(***************************************************************************)

\* A bot past the copying of its profile is named, if its file can be read.
GoesByName(d) ==
  pc[d] \in {"controllers", "script", "copy", "started"} /\ conf[bot[d]][Client] \in Readable
  => bot[d] \in named

LEMMA NameSteps ==
  ASSUME Client \in Paths, TypeInv, OneHolder, \A e \in Deploys : GoesByName(e),
         NEW d \in Deploys, DeployStep(d)
  PROVE  \A e \in Deploys : GoesByName(e)'
<1> USE DEF Holding, Preparing
<1>1. ASSUME NEW e \in Deploys, e # d PROVE GoesByName(e)'
  <2>1. CASE pc[e] \notin Holding  BY <1>1, <2>1, OthersKept DEF GoesByName
  <2>2. CASE pc[e] \in Holding
    <3>1. bot[e] \in Bots /\ bot'[e] = bot[e] /\ pc'[e] = pc[e]
      BY <1>1, <2>2, OthersKept DEF TypeInv, Placed
    <3>2. conf'[bot[e]] = conf[bot[e]] /\ (bot[e] \in named' <=> bot[e] \in named)
      <4>1. CASE \E b \in Bots : Begin(d, b)  BY <4>1 DEF Begin
      <4>2. CASE ~\E b \in Bots : Begin(d, b)
        BY <1>1, <2>2, <3>1, <4>2, OthersKept DEF OneHolder
      <4> QED  BY <4>1, <4>2
    <3> QED  BY <3>1, <3>2 DEF GoesByName
  <2> QED  BY <2>1, <2>2
<1>2. GoesByName(d)'
  <2> USE DEF Goto, TypeInv, Placed, Filed
  <2>1. CASE NameBot(d)  BY <2>1 DEF NameBot, GoesByName
  <2>2. CASE ValidateControllers(d) \/ Start(d)
    BY <2>2 DEF ValidateControllers, Start, GoesByName
  <2>3. CASE CopyScript(d) \/ WriteScript(d)
    <3>1. Client \notin ScriptPaths(d)  BY PathsAndKeys, RunPathsApart
    <3> QED  BY <2>3, <3>1 DEF CopyScript, WriteScript, GoesByName
  <2>4. ASSUME NEW path \in Paths, CopyController(d, path) PROVE GoesByName(d)'
    <3>1. path \in ControllerPaths(d)  BY <2>4 DEF CopyController, Listed
    <3>2. path # Client  BY <3>1, PathsAndKeys, RunPathsApart
    <3> QED  BY <2>4, <3>2 DEF CopyController, GoesByName
  <2>5. CASE ~(NameBot(d) \/ ValidateControllers(d) \/ Start(d) \/ CopyScript(d) \/ WriteScript(d)
               \/ \E path \in Paths : CopyController(d, path))
    <3>1. pc'[d] \notin {"controllers", "script", "copy", "started"}
      BY <2>5 DEF DeployStep, Begin, Fetch, Fill, HydrateFails, Hydrated, ValidateProfile,
         SyncFile, SyncDirectory, FileFails, Stop
    <3> QED  BY <3>1 DEF GoesByName
  <2> QED  BY <2>1, <2>2, <2>3, <2>4, <2>5
<1> QED  BY <1>1, <1>2

\* instance_id is written after the profile and before the start: a started bot
\* goes by its own name, whoever had it before, whatever files are cut short and
\* whatever other deployments do to the stash.
THEOREM StartedBotsAreNamed ==
  ASSUME Client \in Paths
  PROVE  Spec => []StartedUnderOwnName
<1> DEFINE NameInv == OneHolder /\ \A d \in Deploys : GoesByName(d)
<1>1. Init => NameInv
  BY DEF Init, OneHolder, GoesByName, Holding, Preparing
<1>2. TypeInv /\ NameInv /\ [Next]_vars => NameInv'
  <2>1. ASSUME TypeInv, NameInv, NEW d \in Deploys, DeployStep(d) PROVE NameInv'
    BY <2>1, HolderSteps, NameSteps
  <2>2. NameInv /\ UNCHANGED vars => NameInv'  BY DEF vars, OneHolder, GoesByName
  <2> QED  BY <2>1, <2>2 DEF Next
<1>3. NameInv => StartedUnderOwnName
  BY DEF GoesByName, StartedUnderOwnName
<1> QED  BY <1>1, <1>2, <1>3, FilesTyped, PTL DEF Spec

-----------------------------------------------------------------------------
(***************************************************************************)
(* What is left in a conf directory.                                       *)
(***************************************************************************)

\* The deployments whose files may be on a bot.
Explains(d, b, path) ==
  /\ bot[d] = b /\ path \in RunPaths(d)
  /\ pc[d] \in Holding \cup {"failed", "littered"} \/ (pc[d] = "stopped" /\ ~IsScripted(d))

Explained ==
  \A b \in Bots, path \in Paths :
    path[1] \in Skipped /\ conf[b][path] # "absent" => \E d \in Deploys : Explains(d, b, path)

LEMMA ExplainedSteps ==
  ASSUME TypeInv, Explained, NEW d \in Deploys, DeployStep(d)
  PROVE  Explained'
<1> SUFFICES ASSUME NEW b \in Bots, NEW path \in Paths, path[1] \in Skipped,
                    conf'[b][path] # "absent"
             PROVE  \E e \in Deploys : Explains(e, b, path)'
  BY DEF Explained
<1> USE DEF Holding, Preparing, Goto
<1>1. CASE conf[b][path] # "absent"
  <2>1. PICK e \in Deploys : Explains(e, b, path)  BY <1>1 DEF Explained
  <2>2. CASE e # d  BY <2>1, <2>2, OthersKept DEF Explains
  <2>3. CASE e = d
    <3>1. /\ pc[d] \in Holding /\ bot[d] = b /\ bot'[d] = b
          /\ pc'[d] \in Holding \cup (Ended \ {"idle"})
      <4>1. ~\E c \in Bots : Begin(d, c)  BY <2>1, <2>3 DEF Explains, Begin
      <4> QED  BY <2>1, <2>3, <4>1, OthersKept DEF Explains
    <3>2. pc'[d] = "stopped" => ~IsScripted(d)
      <4> SUFFICES ASSUME pc'[d] = "stopped", IsScripted(d) PROVE FALSE
        OBVIOUS
      <4>1. Stop(d)
        BY <3>1 DEF TypeInv, Placed, DeployStep, Begin, Fetch, Fill, HydrateFails, Hydrated,
           ValidateProfile, SyncFile, SyncDirectory, NameBot, ValidateControllers, CopyScript,
           WriteScript, CopyController, Start, FileFails
      <4>2. path \in ScriptPaths(d) \cup Recorded(d)
        BY <2>1, <2>3 DEF Explains, RunPaths, Recorded
      <4>3. conf' = [conf EXCEPT ![bot[d]] = [q \in Paths |->
                      IF q \in ScriptPaths(d) \cup Recorded(d) THEN "absent" ELSE @[q]]]
        BY <4>1 DEF Stop, TypeInv, Placed
      <4> QED  BY <3>1, <4>2, <4>3 DEF TypeInv, Filed
    <3> QED  BY <2>1, <2>3, <3>1, <3>2 DEF Explains, Ended
  <2> QED  BY <2>2, <2>3
\* A file that was not there was copied or written for d.
<1>2. CASE conf[b][path] = "absent"
  <2> USE DEF TypeInv, Placed, Filed
  <2>1. /\ bot[d] = b /\ bot'[d] = b /\ path \in RunPaths(d)
        /\ pc'[d] \in Holding \cup {"failed"}
    <3>1. CASE CopyScript(d) \/ WriteScript(d)
      <4>1. bot[d] = b /\ path \in ScriptPaths(d)
        BY <1>2, <3>1 DEF CopyScript, WriteScript
      <4> QED  BY <3>1, <4>1 DEF CopyScript, WriteScript, RunPaths
    <3>2. ASSUME NEW q \in Paths, CopyController(d, q) PROVE <2>1
      <4>1. q \in ControllerPaths(d)  BY <3>2 DEF CopyController, Listed
      <4>2. bot[d] = b /\ q = path  BY <1>2, <3>2 DEF CopyController
      <4> QED  BY <3>2, <4>1, <4>2 DEF CopyController, RunPaths
    <3>3. ASSUME NEW q \in Paths, SyncFile(d, q) PROVE FALSE
      <4>1. path # q  BY <3>3 DEF SyncFile, Skipped
      <4> QED  BY <1>2, <3>3, <4>1 DEF SyncFile
    <3>4. ASSUME NEW q \in Paths, SyncDirectory(d, q[1]) PROVE FALSE
      <4>1. path \notin left[d]  BY <3>4 DEF SyncDirectory, Listed
      <4> QED  BY <1>2, <3>4, <4>1 DEF SyncDirectory
    <3>5. ~Stop(d)  BY <1>2 DEF Stop
    <3>6. CASE ~(CopyScript(d) \/ WriteScript(d)
                 \/ \E q \in Paths : CopyController(d, q))
      <4>1. UNCHANGED conf
        BY <3>3, <3>4, <3>5, <3>6 DEF DeployStep, Begin, Fetch, Fill, HydrateFails, Hydrated,
           ValidateProfile, NameBot, ValidateControllers, Start, FileFails
      <4> QED  BY <1>2, <4>1
    <3> QED  BY <3>1, <3>2, <3>6
  <2> QED  BY <2>1 DEF Explains
<1> QED  BY <1>1, <1>2

\* A script or controller config that outlives its deployment is that of one
\* which failed on the way, named no script config, or had a removal fail: a
\* stop leaves no other, and no profile brings one.
THEOREM LeftoversAreExplained == Spec => []LeftoversExplained
<1>1. Init => Explained  BY DisksAssumption DEF Init, Explained
<1>2. TypeInv /\ Explained /\ [Next]_vars => Explained'
  <2>1. Explained /\ UNCHANGED vars => Explained'  BY DEF vars, Explained, Explains
  <2> QED  BY <2>1, ExplainedSteps DEF Next
<1>3. Explained => LeftoversExplained
  BY DEF Explained, Explains, LeftoversExplained, Free, Skipped
<1> QED  BY <1>1, <1>2, <1>3, FilesTyped, PTL DEF Spec

-----------------------------------------------------------------------------
(***************************************************************************)
(* Complete files.  Requests that download the same objects come one after *)
(* the other; HTTP deployments use the stash whenever they like, and it    *)
(* starts with whatever an earlier process left in it.                     *)
(***************************************************************************)

Ahead == {"profile", "sync", "controllers", "script", "copy"}

\* Downloading: what is no longer to be done is there.
Fetching(d) ==
  pc[d] \in {"hydrate", "write"} =>
    /\ d \in Orch /\ left[d] \subseteq R2Keys(d) /\ (~r2 => left[d] = {})
    /\ r2 => \A k \in R2Keys(d) \ left[d] : stash[k] = "whole"

\* Preparing: what was downloaded is whole.
Fetched(d) ==
  Downloads(d) /\ pc[d] \in Ahead => \A k \in R2Keys(d) : stash[k] = "whole"

StashInv ==
  /\ \A d \in Deploys : Fetching(d) /\ Fetched(d)
  /\ \A d, e \in Orch :
       r2 /\ d # e /\ pc[d] \in Preparing /\ pc[e] \in Preparing => R2Keys(d) \cap R2Keys(e) = {}
  /\ \A k \in Rendered : k \notin Downloaded => stash[k] \in {"absent", "whole"}

LEMMA RenderedKeys ==
  /\ Rendered \subseteq Keys
  /\ \A h \in Http : \A path \in ScriptPaths(h) : Shared(path) \in Rendered
<1>1. \A h \in Http : h \in Deploys  BY DEF Deploys
<1>2. \A h \in Http : \A path \in ScriptPaths(h) : path \in RunPaths(h)  BY <1>1, PathsAndKeys
<1>3. \A h \in Http : \A path \in ScriptPaths(h) : Shared(path) \in Keys
  BY <1>1, <1>2, PathsAndKeys
<1> QED  BY <1>3 DEF Rendered

LEMMA StashWrites ==
  ASSUME TypeInv, StashInv, NEW d \in Deploys, DeployStep(d)
  PROVE  /\ r2' = r2
         /\ \A k \in Keys : stash'[k] # stash[k] =>
              \/ stash'[k] = "whole" /\ ((Downloads(d) /\ k \in R2Keys(d)) \/ k \in Rendered)
              \/ stash'[k] = "torn" /\ Downloads(d) /\ k \in R2Keys(d) /\ pc[d] = "hydrate"
         /\ \A k \in Keys : InStash(k) => InStash(k)'
<1> USE DEF TypeInv, Placed, Filed, Goto
<1>1. ASSUME NEW k \in Keys, Fetch(d, k)
      PROVE  /\ r2' = r2 /\ Downloads(d) /\ k \in R2Keys(d) /\ pc[d] = "hydrate"
             /\ stash'[k] = "torn" /\ \A j \in Keys : j # k => stash'[j] = stash[j]
  BY <1>1 DEF Fetch, StashInv, Fetching, Downloads
<1>2. CASE Fill(d)
  <2>1. Downloads(d) /\ key[d] \in R2Keys(d) /\ r2' = r2
    BY <1>2 DEF Fill, StashInv, Fetching, Downloads
  <2>2. \A k \in Keys : stash'[k] = IF k = key[d] THEN "whole" ELSE stash[k]
    BY <1>2 DEF Fill
  <2> QED  BY <2>1, <2>2 DEF InStash
<1>3. CASE WriteScript(d)
  <2>1. r2' = r2 /\ d \in Http
        /\ \A k \in Keys : stash'[k] = IF \E path \in ScriptPaths(d) : k = Shared(path)
                                       THEN "whole" ELSE stash[k]
    BY <1>3 DEF WriteScript
  <2> QED  BY <2>1, RenderedKeys DEF InStash
<1>4. CASE ~(Fill(d) \/ WriteScript(d) \/ \E k \in Keys : Fetch(d, k))
  <2>1. UNCHANGED <<r2, stash>>
    BY <1>4 DEF DeployStep, Begin, HydrateFails, Hydrated, ValidateProfile, SyncFile,
       SyncDirectory, NameBot, ValidateControllers, CopyScript, CopyController, Start,
       FileFails, Stop
  <2> QED  BY <2>1 DEF InStash
<1>5. ASSUME NEW k \in Keys, Fetch(d, k)
      PROVE  \A j \in Keys : InStash(j) => InStash(j)'
  BY <1>1, <1>5 DEF InStash
<1> QED  BY <1>1, <1>2, <1>3, <1>4, <1>5

\* What no request downloads is written by nobody but the HTTP path, under a new
\* name.
LEMMA StashRests ==
  ASSUME TypeInv, StashInv, NEW d \in Deploys, DeployStep(d)
  PROVE  /\ \A e \in Deploys : Downloads(e)' = Downloads(e)
         /\ Downloaded' = Downloaded
         /\ \A k \in Keys \ Downloaded : InStash(k) \/ k \notin Rendered => stash'[k] = stash[k]
         /\ \A k \in Rendered \ Downloaded : stash'[k] \in {"absent", "whole"}
<1>1. r2' = r2  BY StashWrites
<1>2. \A e : Downloads(e)' = Downloads(e)  BY <1>1 DEF Downloads
<1>3. Downloaded' = Downloaded  BY <1>1 DEF Downloaded, Downloads
<1>4. \A k \in Keys \ Downloaded : ~(Downloads(d) /\ k \in R2Keys(d))
  BY DEF Downloaded, Downloads
<1>5. \A k \in Keys \ Downloaded : stash'[k] # stash[k] => stash'[k] = "whole" /\ k \in Rendered
  BY <1>4, StashWrites
<1>6. \A k \in Keys \ Downloaded : InStash(k) \/ k \notin Rendered => stash'[k] = stash[k]
  BY <1>5 DEF StashInv, InStash
<1>7. \A k \in Rendered \ Downloaded : stash'[k] \in {"absent", "whole"}
  BY <1>5, RenderedKeys DEF StashInv
<1> QED  BY <1>2, <1>3, <1>6, <1>7

LEMMA StashSteps ==
  ASSUME ~Overlap, TypeInv, StashInv, NEW d \in Deploys, DeployStep(d)
  PROVE  StashInv'
<1> USE DEF Preparing
<1>1. \A e \in Deploys : e # d => pc'[e] = pc[e] /\ left'[e] = left[e]
  BY DEF TypeInv, Placed, DeployStep, Begin, Fetch, Fill, HydrateFails, Hydrated, ValidateProfile,
     SyncFile, SyncDirectory, NameBot, ValidateControllers, CopyScript, WriteScript,
     CopyController, Start, FileFails, Stop, Goto
<1>2. \A e \in Deploys : R2Keys(e) \subseteq Keys  BY PathsAndKeys
<1>3. r2' = r2 /\ \A e \in Deploys : Downloads(e)' = Downloads(e)
  BY StashWrites, StashRests
<1>4. \A x, e \in Orch :
        (r2 /\ x # e /\ pc[x] \in Preparing /\ pc[e] \in Preparing => R2Keys(x) \cap R2Keys(e) = {})'
  <2>0. Orch \subseteq Deploys  BY DEF Deploys
  <2>1. ASSUME NEW b \in Bots, Begin(d, b), d \in Orch, NEW e \in Orch, e # d,
               pc[e] \in Preparing, r2
        PROVE  R2Keys(d) \cap R2Keys(e) = {}
    BY <2>1 DEF Begin
  <2>2. CASE \E b \in Bots : Begin(d, b)
    BY <1>1, <1>3, <2>0, <2>1, <2>2 DEF StashInv
  <2>3. CASE ~\E b \in Bots : Begin(d, b)
    <3>1. pc'[d] \in Preparing => pc[d] \in Preparing
      BY <2>3 DEF TypeInv, Placed, DeployStep, Fetch, Fill, HydrateFails, Hydrated,
         ValidateProfile, SyncFile, SyncDirectory, NameBot, ValidateControllers, CopyScript,
         WriteScript, CopyController, Start, FileFails, Stop, Goto
    <3> QED  BY <1>1, <1>3, <2>0, <3>1 DEF StashInv
  <2> QED  BY <2>2, <2>3
<1>5. (\A k \in Rendered : k \notin Downloaded => stash[k] \in {"absent", "whole"})'
  BY StashRests
<1>6. ASSUME NEW e \in Deploys, e # d PROVE Fetching(e)' /\ Fetched(e)'
  <2>1. r2 /\ e \in Orch /\ pc[e] \in Preparing
          => \A k \in R2Keys(e) : stash'[k] = stash[k] \/ stash'[k] = "whole"
    BY <1>2, <1>6, StashWrites DEF StashInv, Downloads
  <2>2. Fetching(e)'
    BY <1>1, <1>3, <1>6, <2>1 DEF StashInv, Fetching
  <2>3. Fetched(e)'
    BY <1>1, <1>3, <1>6, <2>1 DEF StashInv, Fetched, Ahead, Downloads
  <2> QED  BY <2>2, <2>3
<1>7. Fetching(d)'
  <2> USE DEF TypeInv, Placed, Filed, Goto, StashInv, Fetching
  <2>1. ASSUME NEW b \in Bots, Begin(d, b) PROVE Fetching(d)'
    BY <2>1 DEF Begin
  <2>2. ASSUME NEW k \in Keys, Fetch(d, k) PROVE Fetching(d)'
    BY <1>2, <2>2 DEF Fetch
  <2>3. CASE Fill(d)  BY <1>2, <2>3 DEF Fill
  <2>4. CASE ~(Fill(d) \/ (\E b \in Bots : Begin(d, b)) \/ \E k \in Keys : Fetch(d, k))
    <3>1. pc'[d] \notin {"hydrate", "write"}
      BY <2>4 DEF DeployStep, HydrateFails, Hydrated, ValidateProfile, SyncFile, SyncDirectory,
         NameBot, ValidateControllers, CopyScript, WriteScript, CopyController, Start, FileFails,
         Stop
    <3> QED  BY <3>1
  <2> QED  BY <2>1, <2>2, <2>3, <2>4
<1>8. Fetched(d)'
  <2> SUFFICES ASSUME Downloads(d), pc'[d] \in Ahead
               PROVE  \A k \in R2Keys(d) : stash'[k] = "whole"
    BY <1>3 DEF Fetched
  <2>1. CASE Hydrated(d)
    <3>1. UNCHANGED <<r2, stash>> /\ left[d] = {} /\ pc[d] = "hydrate"
      BY <2>1 DEF Hydrated, Goto
    <3> QED  BY <1>2, <3>1 DEF StashInv, Fetching, Downloads
  <2>2. CASE ~Hydrated(d)
    <3>1. pc[d] \in Ahead
      <4>1. ~\E b \in Bots : Begin(d, b)
        BY DEF Begin, Goto, TypeInv, Placed, Ahead, Downloads
      <4> QED
        BY <2>2, <4>1 DEF TypeInv, Placed, DeployStep, Fetch, Fill, HydrateFails,
           ValidateProfile, SyncFile, SyncDirectory, NameBot, ValidateControllers, CopyScript,
           WriteScript, CopyController, Start, FileFails, Stop, Goto, Ahead
    <3> QED  BY <1>2, <3>1, StashWrites DEF StashInv, Fetched, Ahead
  <2> QED  BY <2>1, <2>2
<1> QED  BY <1>4, <1>5, <1>6, <1>7, <1>8 DEF StashInv

\* The files a bot has to get from the profile of its deployment.
Due(d) ==
  {path \in ProfileTree[ProfileOf[d]] :
     /\ path[1] \notin Skipped
     /\ \/ Downloads(d)
        \/ InProfile(ProfileOf[d], path) \notin Downloaded /\ InStash(InProfile(ProfileOf[d], path))}

AsBrought(d, path) ==
  conf[bot[d]][path] = IF Downloads(d) THEN "whole" ELSE stash[InProfile(ProfileOf[d], path)]

AsRun(d, path) ==
  /\ conf[bot[d]][path] # "absent"
  /\ Downloads(d) => conf[bot[d]][path] = "whole"
  /\ Shared(path) \notin Downloaded => conf[bot[d]][path] = stash[Shared(path)]

\* While the profile is copied: every file is still listed or there, and a
\* directory is listed as a whole.
Syncing(d) ==
  pc[d] = "sync" =>
    /\ \A path \in Due(d) : path \in left[d] \/ AsBrought(d, path)
    /\ \A path \in Due(d), other \in left[d] :
         path[1] = other[1] /\ path[1] # "." => path \in left[d]

Synced(d) ==
  pc[d] \in {"controllers", "script", "copy", "started"} =>
    \A path \in Due(d) : AsBrought(d, path)

Equipped(d) ==
  /\ pc[d] \in {"script", "copy"} => \A path \in ControllerPaths(d) : InStash(Shared(path))
  /\ pc[d] = "copy" =>
       /\ \A path \in ScriptPaths(d) : AsRun(d, path)
       /\ \A path \in ControllerPaths(d) : path \in left[d] \/ AsRun(d, path)
  /\ pc[d] = "started" => \A path \in RunPaths(d) : AsRun(d, path)

Complete == \A d \in Deploys : Syncing(d) /\ Synced(d) /\ Equipped(d)

LEMMA ProfileKeys ==
  ASSUME NEW d \in Deploys, NEW path \in ProfileTree[ProfileOf[d]]
  PROVE  /\ path \in Paths /\ InProfile(ProfileOf[d], path) \in Keys \ Rendered
         /\ InProfile(ProfileOf[d], path) \in R2Keys(d)
<1>1. ProfileOf[d] # "conf"  BY PathsAndKeys, FilesAssumption
<1>2. \A q : InProfile(ProfileOf[d], path) # Shared(q)  BY <1>1 DEF InProfile, Shared
<1> QED  BY <1>2, PathsAndKeys DEF Rendered, R2Keys

\* No step changes what a profile owes its deployments.
LEMMA DueStays ==
  ASSUME TypeInv, StashInv, NEW d \in Deploys, DeployStep(d), NEW e \in Deploys
  PROVE  Due(e)' = Due(e)
<1>1. Downloads(e)' = Downloads(e) /\ Downloaded' = Downloaded  BY StashRests
<1>2. \A path \in ProfileTree[ProfileOf[e]] :
        InProfile(ProfileOf[e], path) \notin Downloaded =>
          stash'[InProfile(ProfileOf[e], path)] = stash[InProfile(ProfileOf[e], path)]
  BY ProfileKeys, StashRests
<1> QED  BY <1>1, <1>2 DEF Due, InStash

\* A file nobody writes to in the conf directory stays as good as it was.
LEMMA GoodStays ==
  ASSUME TypeInv, StashInv, NEW d \in Deploys, DeployStep(d), NEW e \in Deploys,
         bot'[e] = bot[e], NEW path, conf'[bot[e]][path] = conf[bot[e]][path]
  PROVE  /\ path \in Due(e) /\ AsBrought(e, path) => AsBrought(e, path)'
         /\ path \in RunPaths(e) /\ AsRun(e, path) => AsRun(e, path)'
<1>1. Downloads(e)' = Downloads(e) /\ Downloaded' = Downloaded  BY StashRests
<1>2. ASSUME path \in Due(e), AsBrought(e, path) PROVE AsBrought(e, path)'
  <2>1. ~Downloads(e) => stash'[InProfile(ProfileOf[e], path)] = stash[InProfile(ProfileOf[e], path)]
    BY <1>2, ProfileKeys, StashRests DEF Due
  <2> QED  BY <1>1, <1>2, <2>1 DEF AsBrought
<1>3. ASSUME path \in RunPaths(e), AsRun(e, path) PROVE AsRun(e, path)'
  <2>1. Shared(path) \in Keys  BY <1>3, PathsAndKeys
  <2>2. Shared(path) \notin Downloaded => stash'[Shared(path)] = stash[Shared(path)]
    BY <1>3, <2>1, StashRests DEF AsRun, InStash
  <2> QED  BY <1>1, <1>3, <2>2 DEF AsRun
<1> QED  BY <1>2, <1>3

LEMMA CompleteForOthers ==
  ASSUME TypeInv, StashInv, OneHolder, Complete, NEW d \in Deploys, DeployStep(d),
         NEW e \in Deploys, e # d
  PROVE  Syncing(e)' /\ Synced(e)' /\ Equipped(e)'
<1>1. pc'[e] = pc[e] /\ bot'[e] = bot[e] /\ left'[e] = left[e]
  BY DEF TypeInv, Placed, DeployStep, Begin, Fetch, Fill, HydrateFails, Hydrated, ValidateProfile,
     SyncFile, SyncDirectory, NameBot, ValidateControllers, CopyScript, WriteScript,
     CopyController, Start, FileFails, Stop, Goto
<1>2. CASE pc[e] \notin Ahead \cup {"started"}
  BY <1>1, <1>2 DEF Syncing, Synced, Equipped, Ahead
<1>3. CASE pc[e] \in Ahead \cup {"started"}
  <2>1. Due(e)' = Due(e)  BY DueStays
  <2>2. pc[e] \in Holding /\ bot[e] \in Bots
    BY <1>3 DEF Ahead, Holding, Preparing, TypeInv, Placed
  <2>3. conf'[bot[e]] = conf[bot[e]]
    <3>1. CASE \E b \in Bots : Begin(d, b)  BY <3>1 DEF Begin
    <3>2. CASE ~\E b \in Bots : Begin(d, b)  BY <2>2, <3>2, OthersKept DEF OneHolder
    <3> QED  BY <3>1, <3>2
  <2>4. \A path \in Due(e) : AsBrought(e, path) => AsBrought(e, path)'
    BY <1>1, <2>3, GoodStays
  <2>5. \A path \in RunPaths(e) : AsRun(e, path) => AsRun(e, path)'
    BY <1>1, <2>3, GoodStays
  <2>6. \A path \in RunPaths(e) : InStash(Shared(path)) => InStash(Shared(path))'
    BY PathsAndKeys, StashWrites
  <2>7. Syncing(e)' /\ Synced(e)'
    BY <1>1, <2>1, <2>4 DEF Complete, Syncing, Synced
  <2>8. Equipped(e)'
    BY <1>1, <2>5, <2>6 DEF Complete, Equipped, RunPaths
  <2> QED  BY <2>7, <2>8
<1> QED  BY <1>2, <1>3

\* What a deployment copies while it prepares.
LEMMA CopiesGood ==
  ASSUME TypeInv, StashInv, NEW d \in Deploys, pc[d] \in Ahead
  PROVE  /\ \A path \in ProfileTree[ProfileOf[d]] :
              Downloads(d) => stash[InProfile(ProfileOf[d], path)] = "whole"
         /\ \A path \in RunPaths(d) : Downloads(d) => stash[Shared(path)] = "whole"
<1>1. Downloads(d) => \A k \in R2Keys(d) : stash[k] = "whole"  BY DEF StashInv, Fetched
<1> QED  BY <1>1, ProfileKeys DEF R2Keys

\* The step of the deployment itself.
LEMMA CompleteForItself ==
  ASSUME TypeInv, StashInv, Complete, NEW d \in Deploys, DeployStep(d)
  PROVE  Syncing(d)' /\ Synced(d)' /\ Equipped(d)'
<1> USE DEF TypeInv, Placed, Filed, Goto, Holding, Preparing
<1>1. \A path \in Due(d) : path \in ProfileTree[ProfileOf[d]] /\ path[1] \notin Skipped /\ path \in Paths
  BY ProfileKeys DEF Due
<1>2. \A path \in RunPaths(d) : path[1] \in Skipped /\ path \in Paths
  BY RunPathsApart, PathsAndKeys
<1>3. ScriptPaths(d) \subseteq RunPaths(d) /\ ControllerPaths(d) \subseteq RunPaths(d)
  BY PathsAndKeys
<1>4. Due(d)' = Due(d)  BY DueStays
<1>5. Downloads(d)' = Downloads(d) /\ Downloaded' = Downloaded  BY StashRests
<1>6. \A path \in RunPaths(d) : InStash(Shared(path)) => InStash(Shared(path))'
  BY PathsAndKeys, StashWrites
<1>7. CASE ValidateProfile(d)
  <2>1. pc[d] = "profile" /\ pc'[d] = "sync"
        /\ left'[d] = {path \in ProfileTree[ProfileOf[d]] :
                         InStash(InProfile(ProfileOf[d], path)) /\ path[1] \notin Skipped}
    BY <1>7 DEF ValidateProfile
  <2>2. Due(d) \subseteq left'[d]
    BY <2>1, CopiesGood DEF Due, InStash, Ahead
  <2> QED  BY <1>4, <2>1, <2>2 DEF Syncing, Synced, Equipped
<1>8. ASSUME NEW path \in Paths, SyncFile(d, path)
      PROVE  Syncing(d)' /\ Synced(d)' /\ Equipped(d)'
  <2>1. /\ pc[d] = "sync" /\ pc'[d] = "sync" /\ bot[d] \in Bots /\ bot'[d] = bot[d]
        /\ path \in left[d] /\ path[1] = "." /\ left'[d] = left[d] \ {path}
        /\ stash' = stash
    BY <1>8 DEF SyncFile
  <2>2. conf'[bot[d]][path] = stash[InProfile(ProfileOf[d], path)]
        /\ \A q \in Paths : q # path => conf'[bot[d]][q] = conf[bot[d]][q]
    BY <1>8, <2>1 DEF SyncFile
  <2>3. path \in Due(d) => AsBrought(d, path)'
    BY <1>1, <1>5, <2>1, <2>2, CopiesGood DEF AsBrought, Ahead
  <2>4. \A q \in Due(d) : q # path /\ AsBrought(d, q) => AsBrought(d, q)'
    BY <1>1, <2>1, <2>2, GoodStays
  <2> QED  BY <1>4, <2>1, <2>3, <2>4 DEF Complete, Syncing, Synced, Equipped
<1>9. ASSUME NEW dir, SyncDirectory(d, dir)
      PROVE  Syncing(d)' /\ Synced(d)' /\ Equipped(d)'
  <2> DEFINE copied == {path \in left[d] : path[1] = dir}
  <2>1. /\ pc[d] = "sync" /\ pc'[d] = "sync" /\ bot[d] \in Bots /\ bot'[d] = bot[d]
        /\ copied # {} /\ dir # "." /\ left'[d] = left[d] \ copied
        /\ stash' = stash
    BY <1>9 DEF SyncDirectory
  <2>2. \A path \in Due(d) : path[1] = dir => path \in copied
    BY <2>1 DEF Complete, Syncing
  <2>3. \A path \in Paths :
          conf'[bot[d]][path] = IF path \in copied THEN stash[InProfile(ProfileOf[d], path)]
                                ELSE IF path[1] = dir THEN "absent" ELSE conf[bot[d]][path]
    BY <1>9, <2>1 DEF SyncDirectory
  <2>4. \A path \in Due(d) : path \in copied => AsBrought(d, path)'
    BY <1>1, <1>5, <2>1, <2>3, CopiesGood DEF AsBrought, Ahead
  <2>5. \A path \in Due(d) : path \notin copied /\ AsBrought(d, path) => AsBrought(d, path)'
    BY <1>1, <2>1, <2>2, <2>3, GoodStays
  <2>6. \A path \in Due(d), other \in left'[d] :
          path[1] = other[1] /\ path[1] # "." => path \in left'[d]
    BY <2>1 DEF Complete, Syncing
  <2> HIDE DEF copied
  <2> QED  BY <1>4, <2>1, <2>4, <2>5, <2>6 DEF Complete, Syncing, Synced, Equipped
<1>10. CASE NameBot(d)
  <2>1. pc[d] = "sync" /\ left[d] = {} /\ pc'[d] = "controllers" /\ UNCHANGED <<conf, bot>>
    BY <1>10 DEF NameBot
  <2>2. \A path \in Due(d) : AsBrought(d, path)'
    BY <2>1, GoodStays DEF Complete, Syncing
  <2> QED  BY <1>4, <2>1, <2>2 DEF Syncing, Synced, Equipped
<1>11. CASE ValidateControllers(d)
  <2>1. /\ pc[d] = "controllers" /\ pc'[d] = "script" /\ UNCHANGED <<conf, bot>>
        /\ \A path \in ControllerPaths(d) : InStash(Shared(path))
    BY <1>11 DEF ValidateControllers
  <2>2. \A path \in Due(d) : AsBrought(d, path)'
    BY <2>1, GoodStays DEF Complete, Synced
  <2> QED  BY <1>3, <1>4, <1>6, <2>1, <2>2 DEF Syncing, Synced, Equipped
<1>12. CASE CopyScript(d) \/ WriteScript(d)
  <2>1. /\ pc[d] = "script" /\ pc'[d] = "copy" /\ bot[d] \in Bots /\ bot'[d] = bot[d]
        /\ left'[d] = ControllerPaths(d)
        /\ \A path \in Paths : path \notin ScriptPaths(d) => conf'[bot[d]][path] = conf[bot[d]][path]
    BY <1>12 DEF CopyScript, WriteScript
  <2>2. \A path \in Due(d) : AsBrought(d, path)'
    <3>1. \A path \in Due(d) : path \notin ScriptPaths(d)  BY <1>1, <1>2, <1>3
    <3> QED  BY <1>1, <2>1, <3>1, GoodStays DEF Complete, Synced
  <2>3. \A path \in ControllerPaths(d) : InStash(Shared(path))'
    BY <1>3, <1>6, <2>1 DEF Complete, Equipped
  <2>4. \A path \in ScriptPaths(d) : AsRun(d, path)'
    <3>1. CASE CopyScript(d)
      <4>1. \A path \in ScriptPaths(d) :
              /\ conf'[bot[d]][path] = stash[Shared(path)] /\ stash[Shared(path)] # "absent"
              /\ stash' = stash
        BY <1>2, <1>3, <2>1, <3>1 DEF CopyScript, InStash
      <4> QED  BY <1>3, <1>5, <2>1, <4>1, CopiesGood DEF AsRun, Ahead
    <3>2. CASE WriteScript(d)
      <4>1. \A path \in ScriptPaths(d) :
              conf'[bot[d]][path] = "whole" /\ stash'[Shared(path)] = "whole"
        BY <1>2, <1>3, <2>1, <3>2, PathsAndKeys DEF WriteScript
      <4> QED  BY <2>1, <4>1 DEF AsRun
    <3> QED  BY <1>12, <3>1, <3>2
  <2> QED  BY <1>4, <2>1, <2>2, <2>3, <2>4 DEF Syncing, Synced, Equipped
<1>13. ASSUME NEW path \in Paths, CopyController(d, path)
       PROVE  Syncing(d)' /\ Synced(d)' /\ Equipped(d)'
  <2>1. /\ pc[d] = "copy" /\ pc'[d] = "copy" /\ bot[d] \in Bots /\ UNCHANGED <<bot, stash>>
        /\ path \in left[d] /\ path \in ControllerPaths(d) /\ left'[d] = left[d] \ {path}
        /\ conf'[bot[d]][path] = stash[Shared(path)]
        /\ \A q \in Paths : q # path => conf'[bot[d]][q] = conf[bot[d]][q]
    BY <1>13 DEF CopyController, Listed
  <2>2. AsRun(d, path)'
    BY <1>3, <1>5, <2>1, CopiesGood DEF AsRun, Complete, Equipped, InStash, Ahead
  <2>3. \A q \in RunPaths(d) : q # path /\ AsRun(d, q) => AsRun(d, q)'
    BY <1>2, <2>1, GoodStays
  <2>4. \A q \in Due(d) : AsBrought(d, q)'
    <3>1. \A q \in Due(d) : q # path  BY <1>1, <1>2, <1>3, <2>1
    <3> QED  BY <1>1, <2>1, <3>1, GoodStays DEF Complete, Synced
  <2>5. Equipped(d)'
    <3>1. \A q \in ControllerPaths(d) : InStash(Shared(q))'
      BY <1>3, <1>6, <2>1 DEF Complete, Equipped
    <3>2. \A q \in ScriptPaths(d) : AsRun(d, q)'
      BY <1>3, <2>1, <2>2, <2>3 DEF Complete, Equipped
    <3>3. \A q \in ControllerPaths(d) : q \in left'[d] \/ AsRun(d, q)'
      BY <1>3, <2>1, <2>2, <2>3 DEF Complete, Equipped
    <3> QED  BY <2>1, <3>1, <3>2, <3>3 DEF Equipped
  <2> QED  BY <1>4, <2>1, <2>4, <2>5 DEF Syncing, Synced
<1>14. CASE Start(d)
  <2>1. pc[d] = "copy" /\ left[d] = {} /\ pc'[d] = "started" /\ UNCHANGED <<conf, bot>>
    BY <1>14 DEF Start
  <2>2. \A path \in Due(d) : AsBrought(d, path)'
    BY <2>1, GoodStays DEF Complete, Synced
  <2>3. \A path \in RunPaths(d) : AsRun(d, path)'
    BY <2>1, GoodStays DEF Complete, Equipped, RunPaths
  <2> QED  BY <1>4, <2>1, <2>2, <2>3 DEF Syncing, Synced, Equipped
<1>15. CASE (\E b \in Bots : Begin(d, b)) \/ (\E k \in Keys : Fetch(d, k)) \/ Fill(d)
            \/ HydrateFails(d) \/ Hydrated(d) \/ FileFails(d) \/ Stop(d)
  <2>1. pc'[d] \in {"hydrate", "profile", "write"} \cup Ended
    BY <1>15 DEF Begin, Fetch, Fill, HydrateFails, Hydrated, FileFails, Stop, Ended
  <2> QED  BY <2>1 DEF Syncing, Synced, Equipped, Ended
<1> QED
  BY <1>7, <1>8, <1>9, <1>10, <1>11, <1>12, <1>13, <1>14, <1>15 DEF DeployStep

\* Where requests that download the same objects come one after the other, a bot
\* is started with every file its request downloads whole, whatever an earlier
\* process left in the stash, whatever fails or is cut short and whatever HTTP
\* deployments do meanwhile; and a deployment that downloads nothing has what the
\* stash has, but for files that requests write.
THEOREM StartedWithAllFiles ==
  ASSUME ~Overlap
  PROVE  Spec => []StartedComplete
<1> DEFINE CompleteInv == StashInv /\ OneHolder /\ Complete
<1>1. Init => CompleteInv
  <2> SUFFICES ASSUME Init PROVE CompleteInv
    OBVIOUS
  <2>1. \A d \in Deploys : pc[d] = "idle"  BY DEF Init
  <2>2. \A k \in Rendered : stash[k] = "absent"  BY DisksAssumption DEF Init
  <2>3. StashInv
    BY <2>1, <2>2 DEF StashInv, Fetching, Fetched, Ahead, Preparing, Deploys
  <2> QED
    BY <2>1, <2>3 DEF OneHolder, Complete, Syncing, Synced, Equipped, Holding, Preparing
<1>2. TypeInv /\ CompleteInv /\ [Next]_vars => CompleteInv'
  <2>1. ASSUME TypeInv, CompleteInv, NEW d \in Deploys, DeployStep(d) PROVE CompleteInv'
    <3>1. StashInv'  BY <2>1, StashSteps
    <3>2. OneHolder'  BY <2>1, HolderSteps
    <3>3. Complete'  BY <2>1, CompleteForItself, CompleteForOthers DEF Complete
    <3> QED  BY <3>1, <3>2, <3>3
  <2>2. CompleteInv /\ UNCHANGED vars => CompleteInv'
    BY DEF vars, StashInv, Fetching, Fetched, Downloaded, Downloads, InStash, OneHolder, Complete,
       Syncing, Synced, Equipped, Due, AsBrought, AsRun
  <2> QED  BY <2>1, <2>2 DEF Next
<1>3. CompleteInv => StartedComplete
  <2> SUFFICES ASSUME Complete PROVE StartedComplete
    OBVIOUS
  <2> DEFINE brought(d) == {path \in ProfileTree[ProfileOf[d]] : path[1] \notin Skipped}
  <2>1. ASSUME NEW d \in Deploys, pc[d] = "started"
        PROVE  /\ \A path \in RunPaths(d) : AsRun(d, path)
               /\ \A path \in Due(d) : AsBrought(d, path)
    BY <2>1 DEF Complete, Synced, Equipped
  <2>2. ASSUME NEW d \in Deploys, pc[d] = "started", Downloads(d),
               NEW path \in RunPaths(d) \cup brought(d)
        PROVE  conf[bot[d]][path] = "whole"
    BY <2>1, <2>2 DEF AsRun, AsBrought, Due
  <2>3. ASSUME NEW d \in Deploys, pc[d] = "started", NEW path \in brought(d),
               InProfile(ProfileOf[d], path) \notin Downloaded,
               InStash(InProfile(ProfileOf[d], path))
        PROVE  conf[bot[d]][path] = stash[InProfile(ProfileOf[d], path)]
    <3>1. InProfile(ProfileOf[d], path) \in R2Keys(d)  BY <2>3, ProfileKeys
    <3>2. ~Downloads(d)  BY <2>3, <3>1 DEF Downloaded, Downloads
    <3> QED  BY <2>1, <2>3, <3>2 DEF AsBrought, Due
  <2>4. ASSUME NEW d \in Deploys, pc[d] = "started", NEW path \in RunPaths(d)
        PROVE  /\ conf[bot[d]][path] # "absent"
               /\ Shared(path) \notin Downloaded => conf[bot[d]][path] = stash[Shared(path)]
    BY <2>1, <2>4 DEF AsRun
  <2> QED  BY <2>2, <2>3, <2>4 DEF StartedComplete
<1> QED  BY <1>1, <1>2, <1>3, FilesTyped, PTL DEF Spec

-----------------------------------------------------------------------------
(***************************************************************************)
(* The directories of a profile.  Requests may overlap; only the profile   *)
(* of an HTTP deployment, which downloads nothing, has to stay as it is.   *)
(***************************************************************************)

ProfilesApart == \A h \in Http, o \in Orch : ProfileOf[h] # ProfileOf[o]

Copying == {"sync", "controllers", "script", "copy", "started"}

\* What has been downloaded is in the stash, if perhaps cut short by others.
Brought(d) ==
  /\ pc[d] \in {"hydrate", "write"} =>
       /\ d \in Orch /\ left[d] \subseteq R2Keys(d) /\ (~r2 => left[d] = {})
       /\ r2 => \A k \in R2Keys(d) \ left[d] : InStash(k)
  /\ r2 /\ d \in Orch /\ pc[d] \in Ahead \cup {"started"} => \A k \in R2Keys(d) : InStash(k)

\* The files a profile has in the stash, and those no longer to be copied.
ProfileFiles(d) ==
  {path \in ProfileTree[ProfileOf[d]] :
     path[1] \notin Skipped /\ InStash(InProfile(ProfileOf[d], path))}

Settled(d) == IF pc[d] = "sync" THEN ProfileFiles(d) \ left[d] ELSE ProfileFiles(d)

Mirrored(d) ==
  pc[d] \in Copying =>
    \A path \in Paths, other \in Settled(d) :
      path[1] = other[1] /\ path[1] # "." /\ conf[bot[d]][path] # "absent"
      => path \in ProfileTree[ProfileOf[d]]

LEMMA DownloadSteps ==
  ASSUME TypeInv, \A e \in Deploys : Brought(e), NEW d \in Deploys, DeployStep(d)
  PROVE  /\ \A e \in Deploys : Brought(e)'
         /\ r2' = r2
         /\ \A k \in Keys : InStash(k) => InStash(k)'
         /\ \A k \in Keys : ~InStash(k) /\ InStash(k)' =>
              \/ r2 /\ d \in Orch /\ k \in R2Keys(d)
              \/ \E path : k = Shared(path)
<1> USE DEF TypeInv, Placed, Filed, Goto
<1>1. \A e \in Deploys : e # d => pc'[e] = pc[e] /\ left'[e] = left[e]
  BY DEF DeployStep, Begin, Fetch, Fill, HydrateFails, Hydrated, ValidateProfile, SyncFile,
     SyncDirectory, NameBot, ValidateControllers, CopyScript, WriteScript, CopyController, Start,
     FileFails, Stop
<1>2. \A e \in Deploys : R2Keys(e) \subseteq Keys  BY PathsAndKeys
<1> DEFINE Grows ==
      /\ r2' = r2
      /\ \A k \in Keys : InStash(k) => InStash(k)'
      /\ \A k \in Keys : ~InStash(k) /\ InStash(k)' =>
           (r2 /\ d \in Orch /\ k \in R2Keys(d)) \/ \E path : k = Shared(path)
<1>3. Grows
  <2>1. ASSUME NEW k \in Keys, Fetch(d, k) PROVE Grows
    BY <2>1 DEF Fetch, Brought, InStash
  <2>2. CASE Fill(d)
    BY <2>2 DEF Fill, Brought, InStash
  <2>3. CASE WriteScript(d)  BY <2>3 DEF WriteScript, InStash
  <2>4. CASE ~(Fill(d) \/ WriteScript(d) \/ \E k \in Keys : Fetch(d, k))
    <3>1. UNCHANGED <<r2, stash>>
      BY <2>4 DEF DeployStep, Begin, HydrateFails, Hydrated, ValidateProfile, SyncFile,
         SyncDirectory, NameBot, ValidateControllers, CopyScript, CopyController, Start,
         FileFails, Stop
    <3> QED  BY <3>1 DEF InStash
  <2> QED  BY <2>1, <2>2, <2>3, <2>4
<1>4. ASSUME NEW e \in Deploys, e # d PROVE Brought(e)'
  BY <1>1, <1>2, <1>3, <1>4 DEF Brought
<1>5. Brought(d)'
  <2>1. ASSUME NEW b \in Bots, Begin(d, b) PROVE Brought(d)'
    BY <2>1 DEF Begin, Brought, Ahead, Deploys
  <2>2. ASSUME NEW k \in Keys, Fetch(d, k) PROVE Brought(d)'
    BY <1>2, <1>3, <2>2 DEF Fetch, Brought, Ahead
  <2>3. CASE Fill(d)
    <3>1. /\ d \in Orch /\ left[d] \subseteq R2Keys(d) /\ (~r2 => left[d] = {})
          /\ r2 => \A k \in R2Keys(d) \ left[d] : InStash(k)
      BY <2>3 DEF Fill, Brought
    <3>2. /\ pc'[d] = "hydrate" /\ left'[d] = left[d] \ {key[d]}
          /\ stash' = [stash EXCEPT ![key[d]] = "whole"]
      BY <2>3 DEF Fill
    <3>3. \A k \in Keys : stash'[k] = "whole" \/ k # key[d]  BY <3>2
    <3>4. r2 => \A k \in R2Keys(d) \ left'[d] : InStash(k)'
      <4> SUFFICES ASSUME r2, NEW k \in R2Keys(d) \ left'[d] PROVE InStash(k)'
        OBVIOUS
      <4>1. CASE k = key[d]  BY <1>2, <3>3, <4>1 DEF InStash
      <4>2. CASE k # key[d]  BY <1>2, <1>3, <3>1, <3>2, <4>2
      <4> QED  BY <4>1, <4>2
    <3> QED  BY <1>3, <3>1, <3>2, <3>4 DEF Brought, Ahead
  <2>4. CASE Hydrated(d)
    BY <2>4 DEF Hydrated, Brought, Ahead, InStash
  <2>5. CASE ~(Fill(d) \/ Hydrated(d) \/ (\E b \in Bots : Begin(d, b)) \/ \E k \in Keys : Fetch(d, k))
    <3>1. /\ pc'[d] \notin {"hydrate", "write"}
          /\ pc'[d] \in Ahead \cup {"started"} => pc[d] \in Ahead \cup {"started"}
      BY <2>5 DEF DeployStep, HydrateFails, ValidateProfile, SyncFile, SyncDirectory, NameBot,
         ValidateControllers, CopyScript, WriteScript, CopyController, Start, FileFails, Stop, Ahead
    <3> QED  BY <1>2, <1>3, <3>1 DEF Brought
  <2> QED  BY <2>1, <2>2, <2>3, <2>4, <2>5
<1> QED  BY <1>3, <1>4, <1>5

\* While its deployment works with it, a profile gains no file and loses none.
LEMMA ProfileStays ==
  ASSUME ProfilesApart, TypeInv, \A x \in Deploys : Brought(x), NEW d \in Deploys, DeployStep(d),
         NEW e \in Deploys, pc[e] \in Ahead \cup {"started"}
  PROVE  ProfileFiles(e)' = ProfileFiles(e)
<1>1. ASSUME NEW path \in ProfileTree[ProfileOf[e]],
             ~InStash(InProfile(ProfileOf[e], path)), InStash(InProfile(ProfileOf[e], path))'
      PROVE  FALSE
  <2>1. /\ InProfile(ProfileOf[e], path) \in Keys /\ InProfile(ProfileOf[e], path) \in R2Keys(e)
        /\ ProfileOf[e] \in Profiles
    BY PathsAndKeys DEF R2Keys
  <2>2. \A q : InProfile(ProfileOf[e], path) # Shared(q)
    BY <2>1, FilesAssumption DEF InProfile, Shared
  <2>3. r2 /\ d \in Orch /\ InProfile(ProfileOf[e], path) \in R2Keys(d)
    BY <1>1, <2>1, <2>2, DownloadSteps
  <2>4. ProfileOf[d] = ProfileOf[e]
    BY <2>2, <2>3 DEF R2Keys, InProfile
  <2>5. e \in Orch  BY <2>3, <2>4 DEF ProfilesApart, Deploys
  <2> QED  BY <1>1, <2>1, <2>3, <2>5 DEF Brought
<1>2. \A path \in ProfileTree[ProfileOf[e]] :
        InStash(InProfile(ProfileOf[e], path)) => InStash(InProfile(ProfileOf[e], path))'
  BY PathsAndKeys, DownloadSteps
<1> QED  BY <1>1, <1>2 DEF ProfileFiles

LEMMA MirrorForOthers ==
  ASSUME ProfilesApart, TypeInv, OneHolder, \A x \in Deploys : Brought(x) /\ Mirrored(x),
         NEW d \in Deploys, DeployStep(d), NEW e \in Deploys, e # d
  PROVE  Mirrored(e)'
<1>1. pc'[e] = pc[e] /\ bot'[e] = bot[e] /\ left'[e] = left[e]
  BY DEF TypeInv, Placed, DeployStep, Begin, Fetch, Fill, HydrateFails, Hydrated, ValidateProfile,
     SyncFile, SyncDirectory, NameBot, ValidateControllers, CopyScript, WriteScript,
     CopyController, Start, FileFails, Stop, Goto
<1>2. SUFFICES ASSUME pc[e] \in Copying PROVE Mirrored(e)'
  BY <1>1 DEF Mirrored
<1>3. ProfileFiles(e)' = ProfileFiles(e)
  BY <1>2, ProfileStays DEF Copying, Ahead
<1>4. pc[e] \in Holding /\ bot[e] \in Bots
  BY <1>2 DEF Copying, Holding, Preparing, TypeInv, Placed
<1>5. conf'[bot[e]] = conf[bot[e]]
  <2>1. CASE \E b \in Bots : Begin(d, b)  BY <2>1 DEF Begin
  <2>2. CASE ~\E b \in Bots : Begin(d, b)  BY <1>4, <2>2, OthersKept DEF OneHolder
  <2> QED  BY <2>1, <2>2
<1> QED  BY <1>1, <1>3, <1>5 DEF Mirrored, Settled

LEMMA MirrorForItself ==
  ASSUME ProfilesApart, TypeInv, \A x \in Deploys : Brought(x) /\ Mirrored(x),
         NEW d \in Deploys, DeployStep(d)
  PROVE  Mirrored(d)'
<1> USE DEF TypeInv, Placed, Filed, Goto, Holding, Preparing
<1>1. pc[d] \in Ahead \cup {"started"} => ProfileFiles(d)' = ProfileFiles(d)
  BY ProfileStays
<1>2. \A path \in ProfileFiles(d) : path[1] \notin Skipped /\ path \in ProfileTree[ProfileOf[d]]
  BY DEF ProfileFiles
<1>3. \A path \in RunPaths(d) : path[1] \in Skipped  BY RunPathsApart
<1>4. ScriptPaths(d) \subseteq RunPaths(d) /\ ControllerPaths(d) \subseteq RunPaths(d)
  BY PathsAndKeys
<1>5. CASE ValidateProfile(d)
  BY <1>1, <1>5 DEF ValidateProfile, ProfileFiles, Mirrored, Settled, Ahead, Copying
<1>6. ASSUME NEW path \in Paths, SyncFile(d, path) PROVE Mirrored(d)'
  <2>1. /\ pc[d] = "sync" /\ pc'[d] = "sync" /\ bot[d] \in Bots /\ bot'[d] = bot[d]
        /\ path[1] = "." /\ left'[d] = left[d] \ {path}
        /\ \A q \in Paths : q # path => conf'[bot[d]][q] = conf[bot[d]][q]
    BY <1>6 DEF SyncFile
  <2> QED  BY <1>1, <2>1 DEF Mirrored, Settled, Ahead, Copying
<1>7. ASSUME NEW dir, SyncDirectory(d, dir) PROVE Mirrored(d)'
  <2> DEFINE copied == {path \in left[d] : path[1] = dir}
  <2>1. /\ pc[d] = "sync" /\ pc'[d] = "sync" /\ bot[d] \in Bots /\ bot'[d] = bot[d]
        /\ left'[d] = left[d] \ copied
        /\ \A q \in Paths : q[1] # dir => conf'[bot[d]][q] = conf[bot[d]][q]
        /\ \A q \in Paths : q[1] = dir /\ conf'[bot[d]][q] # "absent" => q \in left[d]
    BY <1>7 DEF SyncDirectory
  <2>2. left[d] \subseteq ProfileTree[ProfileOf[d]]  BY <2>1 DEF Listed
  <2> QED  BY <1>1, <2>1, <2>2 DEF Mirrored, Settled, Ahead, Copying
<1>8. CASE NameBot(d)
  BY <1>1, <1>8 DEF NameBot, Mirrored, Settled, Ahead, Copying
<1>9. CASE ValidateControllers(d) \/ Start(d)
  BY <1>1, <1>9 DEF ValidateControllers, Start, Mirrored, Settled, Ahead, Copying
<1>10. CASE CopyScript(d) \/ WriteScript(d)
  <2>1. /\ pc[d] = "script" /\ pc'[d] \in {"copy", "failed"} /\ bot[d] \in Bots /\ bot'[d] = bot[d]
        /\ \A q \in Paths : q \notin ScriptPaths(d) => conf'[bot[d]][q] = conf[bot[d]][q]
    BY <1>10 DEF CopyScript, WriteScript
  <2> QED  BY <1>1, <1>2, <1>3, <1>4, <2>1 DEF Mirrored, Settled, Ahead, Copying
<1>11. ASSUME NEW path \in Paths, CopyController(d, path) PROVE Mirrored(d)'
  <2>1. /\ pc[d] = "copy" /\ pc'[d] = "copy" /\ bot[d] \in Bots /\ bot'[d] = bot[d]
        /\ path[1] \in Skipped
        /\ \A q \in Paths : q # path => conf'[bot[d]][q] = conf[bot[d]][q]
    BY <1>3, <1>4, <1>11 DEF CopyController, Listed
  <2> QED  BY <1>1, <1>2, <2>1 DEF Mirrored, Settled, Ahead, Copying
<1>12. CASE (\E b \in Bots : Begin(d, b)) \/ (\E k \in Keys : Fetch(d, k)) \/ Fill(d)
            \/ HydrateFails(d) \/ Hydrated(d) \/ FileFails(d) \/ Stop(d)
  <2>1. pc'[d] \notin Copying
    BY <1>12 DEF Begin, Fetch, Fill, HydrateFails, Hydrated, FileFails, Stop, Copying
  <2> QED  BY <2>1 DEF Mirrored
<1> QED  BY <1>5, <1>6, <1>7, <1>8, <1>9, <1>10, <1>11, <1>12 DEF DeployStep

\* A directory that the profile of a started bot has holds nothing of an earlier
\* profile, however many requests share the stash at once and whichever fail.
\* Only a profile that an HTTP deployment uses may not be one that a request
\* downloads: its directory could come after the copy was made.
THEOREM DirectoriesAreMirrored ==
  ASSUME ProfilesApart
  PROVE  Spec => []DirectoriesMirrored
<1> DEFINE MirrorInv == OneHolder /\ \A d \in Deploys : Brought(d) /\ Mirrored(d)
<1>1. Init => MirrorInv
  BY DEF Init, OneHolder, Brought, Mirrored, Holding, Preparing, Ahead, Copying
<1>2. TypeInv /\ MirrorInv /\ [Next]_vars => MirrorInv'
  <2>1. ASSUME TypeInv, MirrorInv, NEW d \in Deploys, DeployStep(d) PROVE MirrorInv'
    <3>1. OneHolder'  BY <2>1, HolderSteps
    <3>2. \A e \in Deploys : Brought(e)'  BY <2>1, DownloadSteps
    <3>3. \A e \in Deploys : Mirrored(e)'  BY <2>1, MirrorForItself, MirrorForOthers
    <3> QED  BY <3>1, <3>2, <3>3
  <2>2. MirrorInv /\ UNCHANGED vars => MirrorInv'
    BY DEF vars, OneHolder, Brought, Mirrored, Settled, ProfileFiles, InStash
  <2> QED  BY <2>1, <2>2 DEF Next
<1>3. MirrorInv => DirectoriesMirrored
  BY DEF Mirrored, Settled, ProfileFiles, Copying, DirectoriesMirrored, Skipped
<1> QED  BY <1>1, <1>2, <1>3, FilesTyped, PTL DEF Spec
=============================================================================
