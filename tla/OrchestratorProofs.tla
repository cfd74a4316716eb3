------------------------- MODULE OrchestratorProofs -------------------------
(***************************************************************************)
(* Theorems about the orchestrator, for any pool, any number of tasks and  *)
(* any interference the assumptions of each theorem allow.                 *)
(***************************************************************************)
EXTENDS Orchestrator, TLAPS

\* What an operation of the store keeps.
LEMMA StoreTyping ==
  ASSUME StoreTypeOK, NEW b \in Bots, NEW t \in Deploys, NEW s \in SlotStatus
  PROVE  /\ UNCHANGED storeVars => StoreTypeOK'
         /\ ReserveIdle(b) => StoreTypeOK'
         /\ MarkHeartbeat(b) => StoreTypeOK'
         /\ MarkStatus(b, s) => StoreTypeOK'
         /\ MarkError(b) => StoreTypeOK'
         /\ Assign(b, s, t) => StoreTypeOK'
         /\ ReleaseIdle(b) => StoreTypeOK'
         /\ MarkStaleOffline => StoreTypeOK'
         /\ HeartbeatExpires(b) => StoreTypeOK'
BY DEF StoreTypeOK, SlotStatus, storeVars, Known, ReserveIdle, MarkHeartbeat,
       MarkStatus, MarkError, Assign, ReleaseIdle, MarkStaleOffline,
       HeartbeatExpires, Exempt

\* The task half of TypeOK.
TaskTypeOK ==
  /\ pc \in [Tasks -> DeployPCs \cup StopPCs]
  /\ \A t \in Deploys : pc[t] \in DeployPCs
  /\ \A s \in Stops : pc[s] \in StopPCs
  /\ slot \in [Tasks -> Bots \cup {NoBot}]
  /\ \A t \in Deploys : pc[t] \in Deploying \cup {"pubRunning", "giveUp"} => slot[t] \in Bots
  /\ \A s \in Stops : pc[s] \notin {"idle", "done", "lost"} => slot[s] \in Bots

Events == {"reserved", "hydrating", "configuring", "running", "failed"}

\* Publishing keeps the type of the feed, whoever publishes.
LEMMA FeedTyping ==
  ASSUME TypeOK, NEW t \in Deploys, NEW e \in Events, Published(t, e)
  PROVE  feed' \in [Orch -> Seq(Events)]
<1>1. CASE t \in Orch  BY <1>1 DEF TypeOK, Published, Events
<1>2. CASE t \notin Orch  BY <1>2 DEF TypeOK, Published, Events
<1> QED  BY <1>1, <1>2

\* Moving a deployment's counter keeps the task types if the target still has a
\* slot where it needs one.
LEMMA DeployGoto ==
  ASSUME TypeOK, NEW t \in Deploys, NEW from, NEW to \in DeployPCs, Goto(t, from, to),
         UNCHANGED slot, to \in Deploying \cup {"pubRunning", "giveUp"} => slot[t] \in Bots
  PROVE  TaskTypeOK'
BY TasksAssumption DEF TypeOK, TaskTypeOK, Goto, Tasks

LEMMA StopGoto ==
  ASSUME TypeOK, NEW s \in Stops, NEW from, NEW to \in StopPCs, Goto(s, from, to),
         UNCHANGED slot, to \notin {"idle", "done", "lost"} => slot[s] \in Bots
  PROVE  TaskTypeOK'
BY TasksAssumption DEF TypeOK, TaskTypeOK, Goto, Tasks

LEMMA Assemble ==
  ASSUME StoreTypeOK', TaskTypeOK', snap' \in [Stops -> Deploys \cup {NoDeploy}],
         feed' \in [Orch -> Seq(Events)], busOpen' \in BOOLEAN
  PROVE  TypeOK'
BY DEF TypeOK, TaskTypeOK, Events

LEMMA PublishTyping ==
  ASSUME TypeOK, NEW t \in Deploys, NEW from \in DeployPCs, NEW e \in Events,
         NEW to \in DeployPCs, PublishOrGiveUp(t, from, e, to), slot[t] \in Bots
  PROVE  TypeOK'
<1>1. StoreTypeOK'  BY DEF TypeOK, StoreTypeOK, PublishOrGiveUp, storeVars
<1>2. TaskTypeOK'
  BY DeployGoto DEF PublishOrGiveUp, DeployPCs, Lost
<1>3. feed' \in [Orch -> Seq(Events)]  BY FeedTyping DEF PublishOrGiveUp
<1> QED  BY <1>1, <1>2, <1>3, Assemble DEF PublishOrGiveUp, TypeOK

LEMMA DeployTyping ==
  ASSUME TypeOK, NEW t \in Deploys, Arrive(t) \/ DeployStep(t)
  PROVE  TypeOK'
<1> USE DEF DeployPCs, Deploying, BeforeAssign, AfterAssign, Lost
<1> DEFINE Frame == UNCHANGED <<slot, snap, feed, busOpen>>
<1>a. UNCHANGED storeVars => StoreTypeOK'  BY DEF TypeOK, StoreTypeOK, storeVars
<1>b. Frame => /\ UNCHANGED slot
               /\ snap' \in [Stops -> Deploys \cup {NoDeploy}]
               /\ feed' \in [Orch -> Seq(Events)]
               /\ busOpen' \in BOOLEAN
  BY DEF TypeOK, Events
<1>c. pc[t] \in Deploying \cup {"pubRunning", "giveUp"} => slot[t] \in Bots  BY DEF TypeOK
<1>d. \A b \in Bots, s \in SlotStatus :
        /\ Assign(b, s, t) => StoreTypeOK'
        /\ MarkError(b) => StoreTypeOK'
        /\ ReserveIdle(b) => StoreTypeOK'
  BY StoreTyping DEF TypeOK
<1>e. \A from, to : /\ to \in DeployPCs
                    /\ Goto(t, from, to)
                    /\ UNCHANGED slot
                    /\ to \in Deploying \cup {"pubRunning", "giveUp"} => slot[t] \in Bots
                    => TaskTypeOK'
  BY DeployGoto
<1>f. \A from \in DeployPCs, e \in Events, to \in DeployPCs :
        PublishOrGiveUp(t, from, e, to) /\ slot[t] \in Bots => TypeOK'
  BY PublishTyping
<1>1. CASE Receive(t)  BY <1>1, <1>a, <1>b, <1>e, Assemble DEF Receive, storeVars
<1>2. CASE Skip(t)  BY <1>2, <1>a, <1>b, <1>e, Assemble DEF Skip, storeVars
<1>3. CASE Post(t)  BY <1>3, <1>a, <1>b, <1>e, Assemble DEF Post, storeVars
<1>4. CASE Reserve(t)
  <2>1. PICK b \in Bots : ReserveIdle(b) /\ slot' = [slot EXCEPT ![t] = b]
    BY <1>4 DEF Reserve
  <2>2. StoreTypeOK'  BY <2>1, <1>d DEF SlotStatus
  <2>3. TaskTypeOK'
    BY <1>4, <2>1, TasksAssumption DEF Reserve, Goto, TypeOK, TaskTypeOK, Tasks, StopPCs, Stopping
  <2> QED  BY <1>4, <2>2, <2>3, Assemble DEF Reserve, TypeOK, Events
<1>5. CASE Refuse(t)  BY <1>5, <1>a, <1>b, <1>e, Assemble DEF Refuse, storeVars
<1>6. CASE PublishReserved(t)
  BY <1>6, <1>c, <1>f DEF PublishReserved, PublishOrGiveUp, Goto, Events
<1>7. CASE PublishHydrating(t)
  BY <1>7, <1>c, <1>f DEF PublishHydrating, PublishOrGiveUp, Goto, Events
<1>8. CASE PublishConfiguring(t)
  BY <1>8, <1>c, <1>f DEF PublishConfiguring, PublishOrGiveUp, Goto, Events
<1>9. CASE PublishRunning(t)
  BY <1>9, <1>c, <1>f DEF PublishRunning, PublishOrGiveUp, Goto, Events
<1>10. CASE Hydrate(t)
  BY <1>10, <1>a, <1>b, <1>c, <1>e, Assemble DEF Hydrate, storeVars, Goto
<1>11. CASE Prepare(t)
  BY <1>11, <1>a, <1>b, <1>c, <1>e, Assemble DEF Prepare, storeVars, Goto
<1>12. CASE AssignConfiguring(t)
  BY <1>12, <1>b, <1>c, <1>d, <1>e, Assemble DEF AssignConfiguring, Goto, SlotStatus
<1>13. CASE SendStart(t)
  BY <1>13, <1>a, <1>b, <1>c, <1>e, Assemble DEF SendStart, OnStartError, storeVars, Goto
<1>14. CASE AwaitRunning(t)
  BY <1>14, <1>a, <1>b, <1>c, <1>e, Assemble DEF AwaitRunning, OnStartError, storeVars, Goto
<1>15. CASE AssignRunning(t)
  BY <1>15, <1>b, <1>c, <1>d, <1>e, Assemble DEF AssignRunning, Goto, SlotStatus
<1>16. CASE Diagnose(t)
  BY <1>16, <1>b, <1>c, <1>d, <1>e, Assemble DEF Diagnose, Goto, SlotStatus
<1>17. CASE MarkFailed(t)
  BY <1>17, <1>b, <1>c, <1>d, <1>e, Assemble DEF MarkFailed, Goto, SlotStatus
<1>18. CASE ReportFailed(t)
  <2>1. feed' \in [Orch -> Seq(Events)]
    BY <1>18, FeedTyping DEF ReportFailed, Events
  <2> QED  BY <1>18, <2>1, <1>a, <1>e, Assemble DEF ReportFailed, storeVars, TypeOK
<1>19. CASE ReportError(t)
  <2>1. feed' \in [Orch -> Seq(Events)]
    BY <1>19, FeedTyping DEF ReportError, Events
  <2> QED  BY <1>19, <2>1, <1>a, <1>e, Assemble DEF ReportError, storeVars, TypeOK
<1> QED
  BY <1>1, <1>2, <1>3, <1>4, <1>5, <1>6, <1>7, <1>8, <1>9, <1>10, <1>11, <1>12, <1>13,
     <1>14, <1>15, <1>16, <1>17, <1>18, <1>19 DEF Arrive, DeployStep

LEMMA StopTyping ==
  ASSUME TypeOK, NEW s \in Stops, NEW b \in Bots, StopStep(s) \/ LookUp(s, b)
  PROVE  TypeOK'
<1> USE DEF StopPCs, Stopping
<1> DEFINE Frame == UNCHANGED <<slot, snap, feed, busOpen>>
<1>a. UNCHANGED storeVars => StoreTypeOK'  BY DEF TypeOK, StoreTypeOK, storeVars
<1>b. Frame => /\ UNCHANGED slot
               /\ snap' \in [Stops -> Deploys \cup {NoDeploy}]
               /\ feed' \in [Orch -> Seq(Events)]
               /\ busOpen' \in BOOLEAN
  BY DEF TypeOK, Events
<1>c. pc[s] \notin {"idle", "done", "lost"} => slot[s] \in Bots  BY DEF TypeOK
<1>d. \A c \in Bots, st \in SlotStatus : MarkStatus(c, st) => StoreTypeOK'
  BY DEF TypeOK, StoreTypeOK, MarkStatus
<1>e. \A from, to : /\ to \in StopPCs
                    /\ Goto(s, from, to)
                    /\ UNCHANGED slot
                    /\ to \notin {"idle", "done", "lost"} => slot[s] \in Bots
                    => TaskTypeOK'
  BY StopGoto
<1>1. CASE MarkStopping(s)
  BY <1>1, <1>b, <1>c, <1>d, <1>e, Assemble DEF MarkStopping, Goto, SlotStatus
<1>2. CASE SendStop(s)
  BY <1>2, <1>a, <1>b, <1>c, <1>e, Assemble DEF SendStop, Goto, storeVars
<1>3. CASE AwaitStopped(s)
  BY <1>3, <1>a, <1>b, <1>c, <1>e, Assemble DEF AwaitStopped, Goto, storeVars
<1>4. CASE MarkCleanup(s)
  BY <1>4, <1>b, <1>c, <1>d, <1>e, Assemble DEF MarkCleanup, Goto, SlotStatus
<1>5. CASE Cleanup(s)
  BY <1>5, <1>a, <1>b, <1>c, <1>e, Assemble DEF Cleanup, Goto, storeVars
<1>6. CASE Release(s)
  <2>1. StoreTypeOK'
    BY <1>6, <1>c DEF Release, Goto, ReleaseIdle, TypeOK, StoreTypeOK, SlotStatus
  <2> QED  BY <1>6, <2>1, <1>b, <1>e, Assemble DEF Release
<1>7. CASE LookUp(s, b)
  <2>1. StoreTypeOK'  BY <1>7, <1>a DEF LookUp
  <2>2. TaskTypeOK'
    BY <1>7, TasksAssumption DEF LookUp, Goto, TypeOK, TaskTypeOK, Tasks
  <2>3. snap' \in [Stops -> Deploys \cup {NoDeploy}]
    BY <1>7 DEF LookUp, TypeOK, StoreTypeOK
  <2> QED  BY <1>7, <2>1, <2>2, <2>3, Assemble DEF LookUp, TypeOK, Events
<1> QED  BY <1>1, <1>2, <1>3, <1>4, <1>5, <1>6, <1>7 DEF StopStep

LEMMA WorldTyping ==
  ASSUME TypeOK, World
  PROVE  TypeOK'
<1>a. ASSUME StoreTypeOK', UNCHANGED taskVars
      PROVE  TypeOK'
  BY <1>a DEF TypeOK, taskVars
<1>1. ASSUME NEW b \in Bots, Heartbeat(b) \/ Expire(b)
      PROVE  TypeOK'
  <2>1. StoreTypeOK'
    BY <1>1 DEF Heartbeat, Expire, MarkHeartbeat, HeartbeatExpires, TypeOK, StoreTypeOK,
                SlotStatus
  <2> QED  BY <1>1, <2>1, <1>a DEF Heartbeat, Expire
<1>2. ASSUME NEW b \in Bots, NEW kind \in Updates, StatusUpdate(b, kind)
      PROVE  TypeOK'
  <2>1. kind \in UpdateKinds  BY <1>2, TasksAssumption
  <2>2. StoreTypeOK'
    BY <1>2, <2>1 DEF StatusUpdate, MarkError, MarkStatus, UpdateKinds, TypeOK, StoreTypeOK,
                      SlotStatus
  <2> QED  BY <1>2, <2>2, <1>a DEF StatusUpdate
<1>3. ASSUME NEW t \in Tasks, Disconnect(t)
      PROVE  TypeOK'
  <2>1. StoreTypeOK'  BY <1>3 DEF Disconnect, storeVars, TypeOK, StoreTypeOK
  <2>2. TaskTypeOK'
    BY <1>3 DEF Disconnect, TypeOK, TaskTypeOK, DeployPCs, StopPCs, Lost, Deploying,
                BeforeAssign, AfterAssign
  <2> QED  BY <1>3, <2>1, <2>2, Assemble DEF Disconnect, TypeOK, Events
<1>4. CASE Reap
  BY <1>4, <1>a DEF Reap, MarkStaleOffline, TypeOK, StoreTypeOK, SlotStatus
<1>5. CASE CloseBus
  BY <1>5 DEF CloseBus, TypeOK, StoreTypeOK, storeVars
<1> QED  BY <1>1, <1>2, <1>3, <1>4, <1>5 DEF World

LEMMA NextTyping ==
  ASSUME TypeOK, [Next]_vars
  PROVE  TypeOK'
<1>1. ASSUME NEW t \in Deploys, Arrive(t) \/ DeployStep(t) PROVE TypeOK'
  BY <1>1, DeployTyping
<1>2. ASSUME NEW s \in Stops, StopStep(s) \/ \E b \in Bots : LookUp(s, b) PROVE TypeOK'
  <2>1. CASE StopStep(s)
    <3>1. CASE Bots = {}
      BY <2>1, <3>1 DEF StopStep, MarkStopping, SendStop, AwaitStopped, MarkCleanup,
         Cleanup, Release, Goto, TypeOK
    <3>2. CASE Bots # {}  BY <2>1, <3>2, StopTyping
    <3> QED  BY <3>1, <3>2
  <2>2. CASE \E b \in Bots : LookUp(s, b)  BY <2>2, StopTyping
  <2> QED  BY <1>2, <2>1, <2>2
<1>3. CASE World  BY <1>3, WorldTyping
<1>4. CASE UNCHANGED vars
  BY <1>4 DEF vars, storeVars, taskVars, TypeOK, StoreTypeOK
<1> QED  BY <1>1, <1>2, <1>3, <1>4 DEF Next

\* Type correctness: whatever the interleaving of requests, stops, messages,
\* reaper passes, disconnects and a closing bus, every slot and every task stays
\* in its type, and a task that works on a slot has one.
THEOREM TypeCorrect == Spec => []TypeOK
<1>1. Init => TypeOK
  BY BotsAssumption, TasksAssumption
  DEF Init, StoreInit, TypeOK, StoreTypeOK, SlotStatus, DeployPCs, StopPCs, Deploying,
      BeforeAssign, AfterAssign, Lost, Tasks
<1>2. TypeOK /\ [Next]_vars => TypeOK'  BY NextTyping
<1> QED  BY <1>1, <1>2, PTL DEF Spec
-----------------------------------------------------------------------------

\* One slot of OrphansOnlyByLoss.
Accounted(b) ==
  /\ status[b] \in {"reserved", "configuring"} =>
       \E t \in Deploys : slot[t] = b /\ pc[t] \in Deploying \cup Lost
  /\ status[b] = "stopping" =>
       \E s \in Stops : slot[s] = b /\ pc[s] \in Stopping \cup {"lost"}

\* A step that leaves the table alone, and takes nobody out of the places that
\* account for a slot.
LEMMA AccountedStays ==
  ASSUME OrphansOnlyByLoss, NEW b \in Bots, status'[b] = status[b],
         \A t \in Deploys : slot[t] = b /\ pc[t] \in Deploying \cup Lost
                            => slot'[t] = b /\ pc'[t] \in Deploying \cup Lost,
         \A s \in Stops : slot[s] = b /\ pc[s] \in Stopping \cup {"lost"}
                            => slot'[s] = b /\ pc'[s] \in Stopping \cup {"lost"}
  PROVE  Accounted(b)'
<1>1. CASE status[b] = "stopping"
  <2>1. PICK s \in Stops : slot[s] = b /\ pc[s] \in Stopping \cup {"lost"}
    BY <1>1 DEF OrphansOnlyByLoss
  <2> QED  BY <1>1, <2>1 DEF Accounted
<1>2. CASE status[b] \in {"reserved", "configuring"}
  <2>1. PICK t \in Deploys : slot[t] = b /\ pc[t] \in Deploying \cup Lost
    BY <1>2 DEF OrphansOnlyByLoss
  <2> QED  BY <1>2, <2>1 DEF Accounted
<1>3. CASE status[b] \notin {"stopping", "reserved", "configuring"}
  BY <1>3 DEF Accounted
<1> QED  BY <1>1, <1>2, <1>3

LEMMA DeployAccounted ==
  ASSUME TypeOK, OrphansOnlyByLoss, NEW t \in Deploys, Arrive(t) \/ DeployStep(t),
         NEW b \in Bots
  PROVE  Accounted(b)'
<1> USE DEF Goto, Deploying, BeforeAssign, AfterAssign, Lost
<1>a. /\ pc \in [Tasks -> DeployPCs \cup StopPCs]
      /\ slot \in [Tasks -> Bots \cup {NoBot}]
      /\ status \in [Bots -> SlotStatus \cup {"absent"}]
      /\ Deploys \subseteq Tasks /\ Stops \subseteq Tasks /\ Deploys \cap Stops = {}
      /\ pc[t] \in Deploying \cup {"pubRunning", "giveUp"} => slot[t] \in Bots
      /\ t \notin Stops
  BY TasksAssumption DEF TypeOK, StoreTypeOK, Tasks
<1>b. \A u \in Tasks : u # t => pc'[u] = pc[u]
  BY <1>a DEF Arrive, Receive, Skip, Post, DeployStep, Reserve, Refuse,
     PublishReserved, PublishHydrating, PublishConfiguring, PublishRunning,
     PublishOrGiveUp, Hydrate, Prepare, AssignConfiguring, SendStart, AwaitRunning,
     AssignRunning, Diagnose, MarkFailed, ReportFailed, ReportError
<1>1. CASE Reserve(t)
  <2>1. PICK c \in Bots : ReserveIdle(c) /\ slot' = [slot EXCEPT ![t] = c]
    BY <1>1 DEF Reserve
  <2>2. CASE b = c
    BY <1>1, <1>a, <2>1, <2>2 DEF Accounted, Reserve, ReserveIdle
  <2>3. CASE b # c
    <3>1. status'[b] = status[b]  BY <1>a, <2>1, <2>3 DEF ReserveIdle
    <3>2. pc[t] \notin Deploying \cup Lost  BY <1>1 DEF Reserve
    <3>3. \A u \in Tasks : u # t => slot'[u] = slot[u]  BY <1>a, <2>1
    <3> QED  BY <1>a, <1>b, <3>1, <3>2, <3>3, AccountedStays
  <2> QED  BY <2>2, <2>3
\* The steps that write the status of the task's own slot.
<1>2. CASE AssignConfiguring(t) \/ Diagnose(t) \/ AssignRunning(t) \/ MarkFailed(t)
  <2>1. UNCHANGED slot /\ slot[t] \in Bots
    BY <1>2, <1>a DEF AssignConfiguring, Diagnose, AssignRunning, MarkFailed
  <2>2. CASE b # slot[t]
    <3>1. status'[b] = status[b]
      BY <1>2, <1>a, <2>2 DEF AssignConfiguring, Diagnose, AssignRunning, MarkFailed, Assign,
         MarkError, MarkStatus
    <3> QED  BY <1>a, <1>b, <2>1, <2>2, <3>1, AccountedStays
  <2>3. CASE b = slot[t]
    <3>1. CASE AssignConfiguring(t)
      <4>1. pc'[t] \in Deploying  BY <3>1, <1>a DEF AssignConfiguring
      <4>2. status'[b] # "stopping"  BY <3>1, <1>a, <2>3 DEF AssignConfiguring, Assign
      <4> QED  BY <4>1, <4>2, <2>1, <2>3 DEF Accounted
    <3>2. CASE Diagnose(t) \/ AssignRunning(t) \/ MarkFailed(t)
      <4>1. status'[b] \in {"error", "running", "absent"}
        BY <3>2, <1>a, <2>3 DEF Diagnose, AssignRunning, MarkFailed, Assign, MarkError, MarkStatus
      <4> QED  BY <4>1 DEF Accounted
    <3> QED  BY <1>2, <3>1, <3>2
  <2> QED  BY <2>2, <2>3
\* The others leave the table alone, and a task that has a slot keeps its place.
<1>3. CASE ~(Reserve(t) \/ AssignConfiguring(t) \/ Diagnose(t) \/ AssignRunning(t) \/ MarkFailed(t))
  <2>1. UNCHANGED <<status, slot>>
    BY <1>3 DEF Arrive, Receive, Skip, Post, DeployStep, Refuse,
       PublishReserved, PublishHydrating, PublishConfiguring, PublishRunning,
       PublishOrGiveUp, Hydrate, Prepare, SendStart, AwaitRunning,
       ReportFailed, ReportError, storeVars
  <2>2. pc[t] \in Deploying \cup Lost => pc'[t] \in Deploying \cup Lost
    BY <1>3, <1>a DEF Arrive, Receive, Skip, Post, DeployStep, Refuse,
       PublishReserved, PublishHydrating, PublishConfiguring, PublishRunning,
       PublishOrGiveUp, Hydrate, Prepare, SendStart, AwaitRunning,
       ReportFailed, ReportError, OnStartError
  <2> QED  BY <1>a, <1>b, <2>1, <2>2, AccountedStays
<1> QED  BY <1>1, <1>2, <1>3

LEMMA StopAccounted ==
  ASSUME TypeOK, OrphansOnlyByLoss, NEW s \in Stops,
         StopStep(s) \/ \E c \in Bots : LookUp(s, c), NEW b \in Bots
  PROVE  Accounted(b)'
<1> USE DEF Goto, Stopping
<1>a. /\ pc \in [Tasks -> DeployPCs \cup StopPCs]
      /\ slot \in [Tasks -> Bots \cup {NoBot}]
      /\ status \in [Bots -> SlotStatus \cup {"absent"}]
      /\ Deploys \subseteq Tasks /\ Stops \subseteq Tasks /\ Deploys \cap Stops = {}
      /\ pc[s] \notin {"idle", "done", "lost"} => slot[s] \in Bots
      /\ s \notin Deploys
  BY TasksAssumption DEF TypeOK, StoreTypeOK, Tasks
<1>b. \A u \in Tasks : u # s => pc'[u] = pc[u] /\ slot'[u] = slot[u]
  BY <1>a DEF StopStep, LookUp, MarkStopping, SendStop, AwaitStopped, MarkCleanup, Cleanup,
     Release
<1>1. CASE \E c \in Bots : LookUp(s, c)
  <2>1. status'[b] = status[b]  BY <1>1, <1>a DEF LookUp, storeVars
  <2>2. pc[s] \notin Stopping \cup {"lost"}  BY <1>1 DEF LookUp
  <2> QED  BY <1>a, <1>b, <2>1, <2>2, AccountedStays
<1>2. CASE MarkStopping(s) \/ MarkCleanup(s) \/ Release(s)
  <2>1. UNCHANGED slot /\ slot[s] \in Bots
    BY <1>2, <1>a DEF MarkStopping, MarkCleanup, Release
  <2>2. CASE b # slot[s]
    <3>1. status'[b] = status[b]
      BY <1>2, <1>a, <2>2 DEF MarkStopping, MarkCleanup, Release, MarkStatus, ReleaseIdle
    <3> QED  BY <1>a, <1>b, <2>1, <2>2, <3>1, AccountedStays
  <2>3. CASE b = slot[s]
    <3>1. CASE MarkStopping(s)
      <4>1. pc'[s] \in Stopping  BY <3>1, <1>a DEF MarkStopping
      <4>2. status'[b] \in {"stopping", "absent"}
        BY <3>1, <1>a, <2>3 DEF MarkStopping, MarkStatus
      <4> QED  BY <4>1, <4>2, <2>1, <2>3 DEF Accounted
    <3>2. CASE MarkCleanup(s) \/ Release(s)
      <4>1. status'[b] \in {"cleanup", "idle", "absent"}
        BY <3>2, <1>a, <2>3 DEF MarkCleanup, Release, MarkStatus, ReleaseIdle
      <4> QED  BY <4>1 DEF Accounted
    <3> QED  BY <1>2, <3>1, <3>2
  <2> QED  BY <2>2, <2>3
<1>3. CASE SendStop(s) \/ AwaitStopped(s) \/ Cleanup(s)
  <2>1. UNCHANGED <<status, slot>>
    BY <1>3 DEF SendStop, AwaitStopped, Cleanup, storeVars
  <2>2. pc[s] \in Stopping \cup {"lost"} => pc'[s] \in Stopping \cup {"lost"}
    BY <1>3, <1>a DEF SendStop, AwaitStopped, Cleanup
  <2> QED  BY <1>a, <1>b, <2>1, <2>2, AccountedStays
<1> QED  BY <1>1, <1>2, <1>3 DEF StopStep

LEMMA WorldAccounted ==
  ASSUME TypeOK, OrphansOnlyByLoss, World, NEW b \in Bots
  PROVE  Accounted(b)'
<1>a. /\ pc \in [Tasks -> DeployPCs \cup StopPCs]
      /\ status \in [Bots -> SlotStatus \cup {"absent"}]
      /\ Deploys \subseteq Tasks /\ Stops \subseteq Tasks
  BY TasksAssumption DEF TypeOK, StoreTypeOK, Tasks
\* Messages and the reaper never write a protected status.
<1>1. CASE UNCHANGED taskVars
  <2>1. status'[b] \in {status[b], "idle", "running", "bootstrapping", "error", "offline"}
    BY <1>1, <1>a, TasksAssumption DEF World, Heartbeat, Expire, StatusUpdate, Reap, Disconnect, CloseBus,
       MarkHeartbeat, HeartbeatExpires, MarkStatus, MarkError, MarkStaleOffline, UpdateKinds,
       storeVars
  <2>2. CASE status'[b] = status[b]
    BY <1>1, <2>2, <1>a, AccountedStays DEF taskVars
  <2>3. CASE status'[b] \in {"idle", "running", "bootstrapping", "error", "offline"}
    BY <2>3 DEF Accounted
  <2> QED  BY <2>1, <2>2, <2>3
<1>2. ASSUME NEW t \in Tasks, Disconnect(t)
      PROVE  Accounted(b)'
  <2>1. UNCHANGED <<status, slot>>  BY <1>2 DEF Disconnect, storeVars
  <2>2. \A u \in Tasks : pc'[u] = pc[u] \/ pc'[u] = "lost"  BY <1>2, <1>a DEF Disconnect
  <2> QED  BY <1>a, <2>1, <2>2, AccountedStays DEF Lost
<1>3. CASE CloseBus
  BY <1>3, <1>a, AccountedStays DEF CloseBus, storeVars
<1> QED
  BY <1>1, <1>2, <1>3 DEF World, Heartbeat, Expire, StatusUpdate, Reap

LEMMA OrphanSteps ==
  ASSUME TypeOK, OrphansOnlyByLoss, [Next]_vars
  PROVE  OrphansOnlyByLoss'
<1> SUFFICES ASSUME NEW b \in Bots
             PROVE  Accounted(b)'
  BY DEF OrphansOnlyByLoss, Accounted
<1>1. CASE \E t \in Deploys : Arrive(t) \/ DeployStep(t)  BY <1>1, DeployAccounted
<1>2. CASE \E s \in Stops : StopStep(s) \/ \E c \in Bots : LookUp(s, c)
  BY <1>2, StopAccounted
<1>3. CASE World  BY <1>3, WorldAccounted
<1>4. CASE UNCHANGED vars
  BY <1>4, AccountedStays DEF vars, storeVars, taskVars
<1> QED  BY <1>1, <1>2, <1>3, <1>4 DEF Next

\* No stranded slot: for every pool, any number of requests and stops and every
\* message the bots may send, a slot the reaper spares either has an operation
\* that will move it on or had one that was cut short by a closed bus or a client
\* that hung up.
THEOREM NoOtherOrphans == Spec => []OrphansOnlyByLoss
<1>1. Init => OrphansOnlyByLoss
  BY DEF Init, StoreInit, OrphansOnlyByLoss
<1>2. TypeOK /\ OrphansOnlyByLoss /\ [Next]_vars => OrphansOnlyByLoss'
  BY OrphanSteps
<1> QED  BY <1>1, <1>2, TypeCorrect, PTL DEF Spec

\* While the bus is open and no client hangs up, every task runs to its end.
NobodyLost == busOpen /\ \A t \in Tasks : pc[t] \notin Lost

LEMMA LossNeedsFault ==
  ASSUME ~ClientsDisconnect, ~BusMayClose
  PROVE  TypeOK /\ NobodyLost /\ [Next]_vars => NobodyLost'
<1> SUFFICES ASSUME TypeOK, NobodyLost, [Next]_vars
             PROVE  NobodyLost'
  OBVIOUS
<1> USE DEF NobodyLost, Lost
<1>a. pc \in [Tasks -> DeployPCs \cup StopPCs]  BY DEF TypeOK
<1>1. ASSUME NEW t \in Deploys, Arrive(t) \/ DeployStep(t)
      PROVE  NobodyLost'
  BY <1>1, <1>a DEF Goto, Arrive, Receive, Skip, Post, DeployStep, Reserve, Refuse,
     PublishReserved, PublishHydrating, PublishConfiguring, PublishRunning,
     PublishOrGiveUp, Hydrate, Prepare, AssignConfiguring, SendStart, AwaitRunning,
     AssignRunning, Diagnose, MarkFailed, ReportFailed, ReportError, OnStartError
<1>2. ASSUME NEW s \in Stops, StopStep(s) \/ \E b \in Bots : LookUp(s, b)
      PROVE  NobodyLost'
  BY <1>2, <1>a DEF Goto, StopStep, LookUp, MarkStopping, SendStop, AwaitStopped,
     MarkCleanup, Cleanup, Release
<1>3. CASE World
  BY <1>3 DEF World, Heartbeat, Expire, StatusUpdate, Reap, Disconnect, CloseBus, taskVars
<1>4. CASE UNCHANGED vars
  BY <1>4 DEF vars, taskVars
<1> QED  BY <1>1, <1>2, <1>3, <1>4 DEF Next

\* With a bus that stays open and clients that wait, no interleaving of workers,
\* handlers, messages and reaper passes leaves a reserved, configuring or
\* stopping slot without the operation that will move it on.
THEOREM EverySlotHasItsTask ==
  ASSUME ~ClientsDisconnect, ~BusMayClose
  PROVE  Spec => []HeldByLiveTask
<1>1. Init => NobodyLost
  BY DEF Init, NobodyLost, Lost
<1>2. TypeOK /\ NobodyLost /\ [Next]_vars => NobodyLost'
  BY LossNeedsFault
<1>3. OrphansOnlyByLoss /\ NobodyLost => HeldByLiveTask
  BY TasksAssumption DEF OrphansOnlyByLoss, NobodyLost, HeldByLiveTask, Lost, Tasks
<1> QED  BY <1>1, <1>2, <1>3, TypeCorrect, NoOtherOrphans, PTL DEF Spec

-----------------------------------------------------------------------------

\* What one slot may go through in a step: it stays, it gets a status that says
\* nothing about assignments, or status and assignment change together.
SlotMoves(b) ==
  \/ status'[b] = status[b] /\ assigned'[b] = assigned[b]
  \/ /\ status'[b] \notin {"idle", "running", "configuring"} \/ status'[b] \in Updates
     /\ status'[b] # "configuring"
  \/ status'[b] = "idle" /\ assigned'[b] = NoDeploy
  \/ status'[b] \in {"running", "configuring"} /\ assigned'[b] # NoDeploy

LEMMA DeployMovesSlots ==
  ASSUME TypeOK, NEW t \in Deploys, Arrive(t) \/ DeployStep(t), NEW b \in Bots
  PROVE  SlotMoves(b)
<1> USE DEF SlotMoves
<1>a. /\ status \in [Bots -> SlotStatus \cup {"absent"}]
      /\ assigned \in [Bots -> Deploys \cup {NoDeploy}]
      /\ t # NoDeploy
  BY NoDeployAssumption DEF TypeOK, StoreTypeOK
<1>1. CASE Reserve(t)  BY <1>1, <1>a DEF Reserve, ReserveIdle
<1>2. CASE AssignConfiguring(t)
  BY <1>2, <1>a DEF AssignConfiguring, Assign, Known
<1>3. CASE AssignRunning(t)
  BY <1>3, <1>a DEF AssignRunning, Assign, Known
<1>4. CASE Diagnose(t) \/ MarkFailed(t)
  BY <1>4, <1>a DEF Diagnose, MarkFailed, MarkError, MarkStatus
<1>5. CASE ~(Reserve(t) \/ AssignConfiguring(t) \/ AssignRunning(t) \/ Diagnose(t) \/ MarkFailed(t))
  <2>1. UNCHANGED storeVars
    BY <1>5 DEF Arrive, Receive, Skip, Post, DeployStep, Refuse,
       PublishReserved, PublishHydrating, PublishConfiguring, PublishRunning,
       PublishOrGiveUp, Hydrate, Prepare, SendStart, AwaitRunning, ReportFailed, ReportError
  <2> QED  BY <2>1 DEF storeVars
<1> QED  BY <1>1, <1>2, <1>3, <1>4, <1>5

LEMMA OthersMoveSlots ==
  ASSUME TypeOK, NEW b \in Bots,
         \/ \E s \in Stops : StopStep(s) \/ \E c \in Bots : LookUp(s, c)
         \/ World
         \/ UNCHANGED vars
  PROVE  SlotMoves(b)
<1> USE DEF SlotMoves
<1>a. /\ status \in [Bots -> SlotStatus \cup {"absent"}]
      /\ assigned \in [Bots -> Deploys \cup {NoDeploy}]
  BY DEF TypeOK, StoreTypeOK
<1>1. ASSUME NEW s \in Stops, StopStep(s)
      PROVE  SlotMoves(b)
  BY <1>1, <1>a DEF StopStep, MarkStopping, SendStop, AwaitStopped, MarkCleanup, Cleanup,
     Release, MarkStatus, ReleaseIdle, storeVars
<1>2. CASE \E s \in Stops : \E c \in Bots : LookUp(s, c)
  BY <1>2 DEF LookUp, storeVars
<1>3. ASSUME NEW c \in Bots, Heartbeat(c) \/ Expire(c)
      PROVE  SlotMoves(b)
  BY <1>3, <1>a DEF Heartbeat, Expire, MarkHeartbeat, HeartbeatExpires
<1>4. ASSUME NEW c \in Bots, NEW kind \in Updates, StatusUpdate(c, kind)
      PROVE  SlotMoves(b)
  BY <1>4, <1>a, TasksAssumption DEF StatusUpdate, MarkError, MarkStatus, UpdateKinds
<1>5. CASE Reap  BY <1>5, <1>a DEF Reap, MarkStaleOffline
<1>6. CASE \/ \E t \in Tasks : Disconnect(t)
           \/ CloseBus
           \/ UNCHANGED vars
  BY <1>6 DEF Disconnect, CloseBus, vars, storeVars
<1> QED  BY <1>1, <1>2, <1>3, <1>4, <1>5, <1>6 DEF World

LEMMA AgreementSteps ==
  ASSUME TypeOK, AssignmentMatchesStatus, [Next]_vars
  PROVE  AssignmentMatchesStatus'
<1>1. \A b \in Bots : SlotMoves(b)
  BY DeployMovesSlots, OthersMoveSlots DEF Next
<1> QED  BY <1>1 DEF SlotMoves, AssignmentMatchesStatus

\* For any pool, tasks and interference: unless bots announce "idle" or
\* "running" themselves, no interleaving offers a slot that carries an
\* assignment, or shows one as running or configuring that carries none.
THEOREM StatusAndAssignmentAgree == Spec => []AssignmentMatchesStatus
<1>1. Init => AssignmentMatchesStatus
  BY DEF Init, StoreInit, AssignmentMatchesStatus
<1> QED  BY <1>1, AgreementSteps, TypeCorrect, PTL DEF Spec

-----------------------------------------------------------------------------
(***************************************************************************)
(* Who holds a bot when nobody calls stop-bot and no bot sends a status    *)
(* update: the deployment code alone, racing itself, the heartbeats, the   *)
(* reaper, disconnecting clients and a closing bus, books every bot once.  *)
(***************************************************************************)

\* What a deployment that is still at work knows of its slot.
BookedSlot(t) ==
  /\ pc[t] \in BeforeAssign =>
       status[slot[t]] = "reserved" /\ assigned[slot[t]] = NoDeploy
  /\ pc[t] \in AfterAssign =>
       status[slot[t]] = "configuring" /\ assigned[slot[t]] = t
  /\ pc[t] = "markError" =>
       \/ status[slot[t]] = "reserved" /\ assigned[slot[t]] = NoDeploy
       \/ /\ status[slot[t]] \in {"configuring", "error", "offline", "running"}
          /\ assigned[slot[t]] = t
  /\ pc[t] = "pubRunning" => assigned[slot[t]] = t

IdleIsFree == \A b \in Bots : status[b] = "idle" => assigned[b] = NoDeploy

\* The last event of a request is "running" only when its worker is done; the
\* slot is gone if the process that reserved it is.
ReportedRunning(t) ==
  feed[t] # <<>> /\ feed[t][Len(feed[t])] = "running" =>
    /\ pc[t] = "done"
    /\ slot[t] = NoBot \/ (slot[t] \in Bots /\ assigned[slot[t]] = t)

\* A request that was told "running", by a process that lives.
Reported(t) ==
  t \in Orch /\ feed[t] # <<>> /\ feed[t][Len(feed[t])] = "running" /\ slot[t] # NoBot

BookingInv ==
  /\ ExclusiveBooking
  /\ IdleIsFree
  /\ \A t \in Deploys : BookedSlot(t)
  /\ \A t \in Orch : ReportedRunning(t)

-----------------------------------------------------------------------------

\* What is left to show of a step once TypeOK is known.
LEMMA Typing ==
  ASSUME TypeOK
  PROVE  /\ pc \in [Tasks -> DeployPCs \cup StopPCs]
         /\ slot \in [Tasks -> Bots \cup {NoBot}]
         /\ status \in [Bots -> SlotStatus \cup {"absent"}]
         /\ assigned \in [Bots -> Deploys \cup {NoDeploy}]
         /\ feed \in [Orch -> Seq(Events)]
         /\ Deploys \subseteq Tasks /\ Orch \subseteq Deploys
         /\ \A t \in Deploys : pc[t] \in Deploying \cup {"pubRunning", "giveUp"}
                               => slot[t] \in Bots
BY TasksAssumption DEF TypeOK, StoreTypeOK, Tasks, Events

\* A deployment that is at work shares its slot with nobody who has a claim to
\* it: at work as well, about to report "running", or reported.
LEMMA OneClaim ==
  ASSUME TypeOK, BookingInv, NEW t \in Deploys, NEW u \in Deploys, t # u,
         pc[t] \in Deploying,
         \/ pc[u] \in Deploying \cup {"pubRunning"}
         \/ Reported(u)
  PROVE  slot[t] # slot[u]
<1>1. BookedSlot(t) /\ BookedSlot(u)  BY DEF BookingInv
<1>2. CASE pc[u] \in Deploying  BY <1>2 DEF BookingInv, ExclusiveBooking
<1>3. assigned[slot[t]] \in {NoDeploy, t}
  BY <1>1 DEF BookedSlot, Deploying
<1>4. CASE pc[u] = "pubRunning"
  BY <1>1, <1>3, <1>4, NoDeployAssumption DEF BookedSlot
<1>5. CASE Reported(u)
  <2>1. assigned[slot[u]] = u  BY <1>5 DEF BookingInv, ReportedRunning, Reported
  <2> QED  BY <1>3, <2>1, NoDeployAssumption
<1> QED  BY <1>2, <1>4, <1>5

\* A deployment whose slot and progress a step leaves alone keeps what it knows.
LEMMA BystanderBooking ==
  ASSUME BookingInv, NEW u \in Deploys, pc'[u] = pc[u], slot'[u] = slot[u],
         u \in Orch => feed'[u] = feed[u],
         \/ /\ status'[slot[u]] = status[slot[u]]
            /\ assigned'[slot[u]] = assigned[slot[u]]
         \/ /\ pc[u] \notin Deploying \cup {"pubRunning"}
            /\ ~Reported(u)
  PROVE  /\ BookedSlot(u)'
         /\ u \in Orch => ReportedRunning(u)'
<1>1. BookedSlot(u)'
  BY DEF BookingInv, BookedSlot, Deploying
<1>2. u \in Orch => ReportedRunning(u)'
  BY DEF BookingInv, ReportedRunning, Reported
<1> QED  BY <1>1, <1>2

\* A step of a deployment that writes nothing but its own slot.
LEMMA OwnSlotBooking ==
  ASSUME TypeOK, BookingInv, NEW t \in Deploys, UNCHANGED slot,
         \A u \in Deploys : u # t => pc'[u] = pc[u],
         \A u \in Orch : u # t => feed'[u] = feed[u],
         \A b \in Bots : b # slot[t] => status'[b] = status[b] /\ assigned'[b] = assigned[b],
         \/ pc[t] \in Deploying
         \/ UNCHANGED <<status, assigned>>,
         pc'[t] \in Deploying => pc[t] \in Deploying,
         slot[t] \in Bots /\ status'[slot[t]] = "idle" => assigned'[slot[t]] = NoDeploy,
         BookedSlot(t)',
         t \in Orch => ReportedRunning(t)'
  PROVE  BookingInv'
<1>a. /\ Orch \subseteq Deploys
      /\ \A u \in Deploys : pc[u] \in Deploying \cup {"pubRunning", "giveUp"}
                            => slot[u] \in Bots
  BY Typing
<1>1. ExclusiveBooking'
  BY DEF ExclusiveBooking, BookingInv
<1>2. IdleIsFree'
  BY DEF IdleIsFree, BookingInv
<1>3. ASSUME NEW u \in Deploys
      PROVE  BookedSlot(u)' /\ (u \in Orch => ReportedRunning(u)')
  <2>1. CASE u = t  BY <2>1
  <2>2. CASE u # t
    <3>1. CASE UNCHANGED <<status, assigned>>
      BY <2>2, <3>1, BystanderBooking
    <3>2. CASE pc[t] \in Deploying
      <4>1. CASE pc[u] \in Deploying \cup {"pubRunning"} \/ Reported(u)
        <5>1. slot[t] # slot[u]  BY <2>2, <3>2, <4>1, OneClaim
        <5>2. slot[u] \in Bots
          BY <1>a, <4>1 DEF BookingInv, ReportedRunning, Reported
        <5> QED  BY <2>2, <5>1, <5>2, BystanderBooking
      <4>2. CASE ~(pc[u] \in Deploying \cup {"pubRunning"} \/ Reported(u))
        BY <2>2, <4>2, BystanderBooking
      <4> QED  BY <4>1, <4>2
    <3> QED  BY <3>1, <3>2
  <2> QED  BY <2>1, <2>2
<1> QED  BY <1>1, <1>2, <1>3, <1>a DEF BookingInv


LEMMA ReserveBooking ==
  ASSUME TypeOK, BookingInv, NEW t \in Deploys, Reserve(t)
  PROVE  BookingInv'
<1> USE DEF Deploying, BeforeAssign, AfterAssign
<1>a. /\ pc \in [Tasks -> DeployPCs \cup StopPCs]
      /\ slot \in [Tasks -> Bots \cup {NoBot}]
      /\ status \in [Bots -> SlotStatus \cup {"absent"}]
      /\ Deploys \subseteq Tasks /\ Orch \subseteq Deploys
      /\ \A u \in Deploys : pc[u] \in Deploying \cup {"pubRunning", "giveUp"}
                            => slot[u] \in Bots
  BY Typing
<1>1. PICK b \in Bots : ReserveIdle(b) /\ slot' = [slot EXCEPT ![t] = b]
  BY DEF Reserve
<1>2. /\ pc[t] = "reserve" /\ pc'[t] \in BeforeAssign
      /\ slot'[t] = b
      /\ status[b] = "idle" /\ assigned[b] = NoDeploy
      /\ status'[b] = "reserved"
      /\ \A c \in Bots : c # b => status'[c] = status[c]
      /\ UNCHANGED <<assigned, feed>>
      /\ \A u \in Deploys : u # t => pc'[u] = pc[u] /\ slot'[u] = slot[u]
  BY <1>1, <1>a DEF Reserve, ReserveIdle, Goto, BookingInv, IdleIsFree
<1>3. \A u \in Deploys : pc[u] \in Deploying => slot[u] # b
  BY <1>2, NoDeployAssumption DEF BookingInv, BookedSlot
<1>4. ExclusiveBooking'
  BY <1>2, <1>3 DEF ExclusiveBooking, BookingInv
<1>5. IdleIsFree'
  BY <1>2 DEF IdleIsFree, BookingInv
<1>6. ASSUME NEW u \in Deploys
      PROVE  BookedSlot(u)' /\ (u \in Orch => ReportedRunning(u)')
  <2>1. CASE u = t
    BY <1>2, <2>1 DEF BookedSlot, BookingInv, ReportedRunning
  <2>2. CASE u # t /\ slot[u] # b
    <3>1. CASE slot[u] \in Bots  BY <1>2, <2>2, <3>1, BystanderBooking
    <3>2. CASE slot[u] \notin Bots
      <4>1. pc[u] \notin Deploying \cup {"pubRunning"} /\ ~Reported(u)
        BY <1>a, <3>2 DEF BookingInv, ReportedRunning, Reported
      <4> QED  BY <1>2, <2>2, <4>1, BystanderBooking
    <3> QED  BY <3>1, <3>2
  <2>3. CASE u # t /\ slot[u] = b
    <3>1. pc[u] \notin Deploying \cup {"pubRunning"} /\ ~Reported(u)
      BY <1>2, <1>3, <2>3, NoDeployAssumption
      DEF BookingInv, BookedSlot, ReportedRunning, Reported
    <3> QED  BY <1>2, <2>3, <3>1, BystanderBooking
  <2> QED  BY <2>1, <2>2, <2>3
<1> QED  BY <1>4, <1>5, <1>6, <1>a DEF BookingInv

\* The last of a feed after one more event.
LEMMA LastEvent ==
  ASSUME TypeOK, NEW t \in Orch, NEW e \in Events, Published(t, e)
  PROVE  /\ \A u \in Orch : u # t => feed'[u] = feed[u]
         /\ feed'[t] = feed[t] \/ feed'[t][Len(feed'[t])] = e
<1>1. feed \in [Orch -> Seq(Events)]  BY DEF TypeOK, Events
<1>2. CASE busOpen
  <2>1. feed'[t] = Append(feed[t], e)  BY <1>1, <1>2 DEF Published
  <2>2. feed[t] \in Seq(Events)  BY <1>1
  <2> QED  BY <1>1, <1>2, <2>1, <2>2 DEF Published
<1>3. CASE ~busOpen  BY <1>3 DEF Published
<1> QED  BY <1>2, <1>3

LEMMA DeployBooking ==
  ASSUME TypeOK, BookingInv, NEW t \in Deploys, Arrive(t) \/ DeployStep(t)
  PROVE  BookingInv'
<1> USE DEF Goto, Deploying, BeforeAssign, AfterAssign
<1>a. /\ pc \in [Tasks -> DeployPCs \cup StopPCs]
      /\ slot \in [Tasks -> Bots \cup {NoBot}]
      /\ status \in [Bots -> SlotStatus \cup {"absent"}]
      /\ assigned \in [Bots -> Deploys \cup {NoDeploy}]
      /\ Deploys \subseteq Tasks /\ Orch \subseteq Deploys
      /\ pc[t] \in Deploying \cup {"pubRunning", "giveUp"} => slot[t] \in Bots
      /\ BookedSlot(t)
      /\ t \in Orch => ReportedRunning(t)
      /\ IdleIsFree
  BY Typing DEF BookingInv
<1>b. \A u \in Deploys : u # t => pc'[u] = pc[u]
  BY <1>a DEF Arrive, Receive, Skip, Post, DeployStep, Reserve, Refuse,
     PublishReserved, PublishHydrating, PublishConfiguring, PublishRunning,
     PublishOrGiveUp, Hydrate, Prepare, AssignConfiguring, SendStart, AwaitRunning,
     AssignRunning, Diagnose, MarkFailed, ReportFailed, ReportError
<1>1. CASE Reserve(t)  BY <1>1, ReserveBooking
\* The steps that write the task's own slot.
<1>2. CASE AssignConfiguring(t) \/ AssignRunning(t) \/ Diagnose(t) \/ MarkFailed(t)
  <2>1. /\ UNCHANGED <<slot, feed>>
        /\ pc[t] \in Deploying /\ pc[t] # "done" /\ slot[t] \in Bots
    BY <1>2, <1>a DEF AssignConfiguring, AssignRunning, Diagnose, MarkFailed
  <2>2. \A b \in Bots : b # slot[t] => status'[b] = status[b] /\ assigned'[b] = assigned[b]
    BY <1>2, <1>a DEF AssignConfiguring, AssignRunning, Diagnose, MarkFailed, Assign,
       MarkError, MarkStatus
  <2>3. status'[slot[t]] # "idle"
    BY <1>2, <1>a, <2>1 DEF AssignConfiguring, AssignRunning, Diagnose, MarkFailed, Assign,
       MarkError, MarkStatus
  <2>4. BookedSlot(t)'
    <3>1. CASE AssignConfiguring(t)
      BY <1>a, <2>1, <3>1 DEF BookedSlot, AssignConfiguring, Assign, Known
    <3>2. CASE AssignRunning(t)
      BY <1>a, <2>1, <3>2 DEF BookedSlot, AssignRunning, Assign, Known
    <3>3. CASE Diagnose(t)
      BY <1>a, <2>1, <3>3 DEF BookedSlot, Diagnose, MarkError, MarkStatus
    <3>4. CASE MarkFailed(t)
      BY <1>a, <2>1, <3>4 DEF BookedSlot, MarkFailed, MarkError, MarkStatus
    <3> QED  BY <1>2, <3>1, <3>2, <3>3, <3>4
  <2>5. t \in Orch => ReportedRunning(t)'
    BY <1>a, <2>1 DEF ReportedRunning
  <2> QED  BY <1>b, <2>1, <2>2, <2>3, <2>4, <2>5, OwnSlotBooking
\* The steps that leave the table alone and publish nothing.
<1>3. CASE \/ Receive(t) \/ Skip(t) \/ Post(t) \/ Refuse(t) \/ Hydrate(t) \/ Prepare(t)
           \/ SendStart(t) \/ AwaitRunning(t)
  <2>1. /\ UNCHANGED <<status, assigned, slot, feed>>
        /\ pc[t] # "done"
        /\ pc'[t] \in Deploying => pc[t] \in Deploying
        /\ pc'[t] # "pubRunning"
    BY <1>3, <1>a DEF Receive, Skip, Post, Refuse, Hydrate, Prepare, SendStart, AwaitRunning,
       OnStartError, storeVars
  <2>2. BookedSlot(t)'
    BY <1>3, <1>a, <2>1 DEF BookedSlot, Receive, Skip, Post, Refuse, Hydrate, Prepare,
       SendStart, AwaitRunning, OnStartError
  <2>3. t \in Orch => ReportedRunning(t)'
    BY <1>a, <2>1 DEF ReportedRunning
  <2> QED  BY <1>a, <1>b, <2>1, <2>2, <2>3, OwnSlotBooking DEF IdleIsFree
\* The steps that publish something short of "running".
<1>4. CASE \/ PublishReserved(t) \/ PublishHydrating(t) \/ PublishConfiguring(t)
           \/ ReportFailed(t) \/ ReportError(t)
  <2>1. PICK e \in Events \ {"running"} : Published(t, e)
    BY <1>4 DEF PublishReserved, PublishHydrating, PublishConfiguring, ReportFailed,
       ReportError, PublishOrGiveUp, Events
  <2>2. /\ UNCHANGED <<status, assigned, slot>>
        /\ pc[t] # "done"
        /\ pc'[t] \in Deploying => pc[t] \in Deploying
        /\ pc'[t] # "pubRunning"
    BY <1>4, <1>a DEF PublishReserved, PublishHydrating, PublishConfiguring, ReportFailed,
       ReportError, PublishOrGiveUp, storeVars
  <2>3. BookedSlot(t)'
    BY <1>4, <1>a, <2>2 DEF BookedSlot, PublishReserved, PublishHydrating, PublishConfiguring,
       ReportFailed, ReportError, PublishOrGiveUp
  <2>4. \A u \in Orch : u # t => feed'[u] = feed[u]
    BY <2>1, Typing DEF Published
  <2>5. t \in Orch => ReportedRunning(t)'
    BY <1>a, <2>1, <2>2, LastEvent DEF ReportedRunning
  <2> QED  BY <1>a, <1>b, <2>2, <2>3, <2>4, <2>5, OwnSlotBooking DEF IdleIsFree
<1>5. CASE PublishRunning(t)
  <2>1. Published(t, "running")  BY <1>5 DEF PublishRunning, PublishOrGiveUp
  <2>2. /\ UNCHANGED <<status, assigned, slot>>
        /\ pc[t] = "pubRunning" /\ pc'[t] \in {"done", "giveUp"}
        /\ busOpen => pc'[t] = "done"
    BY <1>5, <1>a DEF PublishRunning, PublishOrGiveUp, storeVars
  <2>3. assigned[slot[t]] = t /\ slot[t] \in Bots  BY <1>a, <2>2 DEF BookedSlot
  <2>4. BookedSlot(t)'  BY <2>2 DEF BookedSlot
  <2>5. \A u \in Orch : u # t => feed'[u] = feed[u]
    BY <2>1, Typing DEF Published
  <2>6. t \in Orch => ReportedRunning(t)'
    <3>1. CASE busOpen  BY <2>2, <2>3, <3>1 DEF ReportedRunning
    <3>2. CASE ~busOpen
      BY <1>a, <2>1, <2>2, <3>2 DEF ReportedRunning, Published
    <3> QED  BY <3>1, <3>2
  <2> QED  BY <1>a, <1>b, <2>2, <2>4, <2>5, <2>6, OwnSlotBooking DEF IdleIsFree
<1> QED  BY <1>1, <1>2, <1>3, <1>4, <1>5 DEF Arrive, DeployStep


\* A pass over the table that no message of a bot and no stop takes part in: it
\* wakes and puts to sleep slots nobody is at work on.
LEMMA WorldBooking ==
  ASSUME TypeOK, BookingInv, World, Updates = {}
  PROVE  BookingInv'
<1> USE DEF Deploying, BeforeAssign, AfterAssign
<1>a. /\ pc \in [Tasks -> DeployPCs \cup StopPCs]
      /\ status \in [Bots -> SlotStatus \cup {"absent"}]
      /\ assigned \in [Bots -> Deploys \cup {NoDeploy}]
      /\ Deploys \subseteq Tasks /\ Orch \subseteq Deploys
      /\ \A u \in Deploys : pc[u] \in Deploying \cup {"pubRunning", "giveUp"}
                            => slot[u] \in Bots
  BY Typing
<1>1. CASE UNCHANGED taskVars
  <2>1. /\ UNCHANGED <<pc, slot, feed, assigned>>
        /\ \A b \in Bots :
             /\ status[b] \in {"reserved", "configuring"} => status'[b] = status[b]
             /\ status'[b] \in {status[b], "offline"} \cup
                                 (IF assigned[b] = NoDeploy THEN {"idle"} ELSE {"running"})
    BY <1>1, <1>a DEF World, taskVars, storeVars, Disconnect, CloseBus,
       Heartbeat, Expire, StatusUpdate, Reap, MarkHeartbeat, HeartbeatExpires,
       MarkStaleOffline, Exempt
  <2>2. ExclusiveBooking'  BY <2>1 DEF BookingInv, ExclusiveBooking
  <2>3. IdleIsFree'  BY <2>1 DEF BookingInv, IdleIsFree
  <2>4. ASSUME NEW u \in Deploys PROVE BookedSlot(u)'
    BY <1>a, <2>1, NoDeployAssumption DEF BookingInv, BookedSlot
  <2>5. ASSUME NEW u \in Orch PROVE ReportedRunning(u)'
    BY <2>1 DEF BookingInv, ReportedRunning
  <2> QED  BY <2>2, <2>3, <2>4, <2>5 DEF BookingInv
<1>2. ASSUME NEW t \in Tasks, Disconnect(t)
      PROVE  BookingInv'
  <2>1. /\ UNCHANGED <<status, assigned, slot, feed>>
        /\ \A u \in Deploys : pc'[u] = pc[u] \/ (pc'[u] = "lost" /\ u \notin Orch)
    BY <1>2, <1>a, TasksAssumption DEF Disconnect, storeVars, Http
  <2>2. ExclusiveBooking'  BY <2>1 DEF BookingInv, ExclusiveBooking
  <2>3. IdleIsFree'  BY <2>1 DEF BookingInv, IdleIsFree
  <2>4. ASSUME NEW u \in Deploys PROVE BookedSlot(u)'
    BY <2>1 DEF BookingInv, BookedSlot
  <2>5. ASSUME NEW u \in Orch PROVE ReportedRunning(u)'
    BY <1>a, <2>1 DEF BookingInv, ReportedRunning
  <2> QED  BY <2>2, <2>3, <2>4, <2>5 DEF BookingInv
<1>3. CASE CloseBus
  BY <1>3 DEF CloseBus, storeVars, BookingInv, ExclusiveBooking, IdleIsFree, BookedSlot,
     ReportedRunning
<1> QED  BY <1>1, <1>2, <1>3 DEF World, Heartbeat, Expire, StatusUpdate, Reap

LEMMA QuietStart ==
  ASSUME Init
  PROVE  BookingInv
BY TasksAssumption DEF Init, StoreInit, BookingInv, ExclusiveBooking, IdleIsFree, BookedSlot,
   ReportedRunning, Deploying, BeforeAssign, AfterAssign, Tasks

LEMMA QuietSteps ==
  ASSUME Stops = {}, Updates = {}, TypeOK, BookingInv, [Next]_vars
  PROVE  BookingInv'
<1>1. ASSUME NEW t \in Deploys, Arrive(t) \/ DeployStep(t)
      PROVE  BookingInv'
  BY <1>1, DeployBooking
<1>2. CASE World  BY <1>2, WorldBooking
<1>3. UNCHANGED vars => BookingInv'
  BY DEF vars, taskVars, storeVars, BookingInv, ExclusiveBooking, IdleIsFree, BookedSlot,
     ReportedRunning
<1> QED  BY <1>1, <1>2, <1>3 DEF Next

LEMMA QuietIsInductive ==
  ASSUME Stops = {}, Updates = {}
  PROVE  Spec => []BookingInv
<1>1. Init => BookingInv  BY QuietStart
<1>2. TypeOK /\ BookingInv /\ [Next]_vars => BookingInv'  BY QuietSteps
<1> QED  BY <1>1, <1>2, TypeCorrect, PTL DEF Spec

\* While nobody stops a bot and no bot announces a status, no two deployments,
\* however many race over however many bots, are ever at work on one bot, with
\* clients hanging up and the bus closing at any moment.
THEOREM QuietBooksOnce ==
  ASSUME Stops = {}, Updates = {}
  PROVE  Spec => []ExclusiveBooking
<1>1. BookingInv => ExclusiveBooking  BY DEF BookingInv
<1> QED  BY <1>1, QuietIsInductive, PTL

\* Under the same conditions a deployment reported as running still owns the
\* slot it was given, whatever other deployments, heartbeats and reaper passes
\* follow.
THEOREM QuietReportHolds ==
  ASSUME Stops = {}, Updates = {}
  PROVE  Spec => []RunningReportHolds
<1>1. BookingInv => RunningReportHolds
  BY DEF BookingInv, ReportedRunning, RunningReportHolds
<1> QED  BY <1>1, QuietIsInductive, PTL

=============================================================================
