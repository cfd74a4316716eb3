----------------------------- MODULE PoolProofs -----------------------------
(***************************************************************************)
(* Theorems about the sidecar and its bots together: what a restart cannot *)
(* break, for any pool and any tasks; that bots are booked once and kept   *)
(* until stopped when requests come over MQTT, bots announce no status and *)
(* running bots are stopped once at a time; and that the sidecar then      *)
(* implements BotLease if stops are confirmed and the process lives.       *)
(***************************************************************************)
EXTENDS WarmPool, OrchestratorProofs

\* Every step of the pool is a step of the orchestrator, a step of the bots
\* alone, or a restart.
LEMMA PoolSteps == [PoolNext]_poolVars => [Next]_vars \/ RestartSidecar
<1>1. ASSUME NEW t \in Deploys, PoolDeployStep(t)
      PROVE  Arrive(t) \/ DeployStep(t)
  BY <1>1 DEF PoolDeployStep, StartCommand, ConfirmRunning, DeployStep
<1>2. ASSUME NEW s \in Stops, PoolStopStep(s)
      PROVE  StopStep(s) \/ \E b \in Bots : LookUp(s, b)
  BY <1>2 DEF PoolStopStep, StopCall, StopCommand, ConfirmStopped, StopStep
<1>3. ASSUME NEW b \in Bots, BotStep(b)
      PROVE  UNCHANGED vars
  BY <1>3 DEF BotStep, ObeyStart, ObeyStop, LoseCommand, StrategyEnds
<1>4. UNCHANGED poolVars => UNCHANGED vars  BY DEF poolVars
<1> QED  BY <1>1, <1>2, <1>3, <1>4 DEF PoolNext, Next

-----------------------------------------------------------------------------
(***************************************************************************)
(* Restarts.                                                               *)
(***************************************************************************)

LEMMA RestartTyping ==
  ASSUME TypeOK, RestartSidecar
  PROVE  TypeOK'
BY BotsAssumption DEF TypeOK, StoreTypeOK, RestartSidecar, SlotStatus, DeployPCs, StopPCs,
   Deploying, BeforeAssign, AfterAssign, Lost, Tasks

\* Types survive restarts.
LEMMA PoolTableTyped == PoolSpec => []TypeOK
<1>1. PoolInit => TypeOK
  BY BotsAssumption, TasksAssumption
  DEF PoolInit, Init, StoreInit, TypeOK, StoreTypeOK, SlotStatus, DeployPCs, StopPCs, Deploying,
      BeforeAssign, AfterAssign, Lost, Tasks
<1>2. TypeOK /\ [PoolNext]_poolVars => TypeOK'
  BY PoolSteps, NextTyping, RestartTyping
<1> QED  BY <1>1, <1>2, PTL DEF PoolSpec

\* However often the process ends and starts again, and whatever commands are
\* then still on their way, no slot is left to an operation that died with an
\* earlier process.
THEOREM RestartsStrandNothing == PoolSpec => []OrphansOnlyByLoss
<1>1. PoolInit => OrphansOnlyByLoss
  BY DEF PoolInit, Init, StoreInit, OrphansOnlyByLoss
<1>2. TypeOK /\ OrphansOnlyByLoss /\ [PoolNext]_poolVars => OrphansOnlyByLoss'
  <2>1. RestartSidecar => OrphansOnlyByLoss'
    BY DEF RestartSidecar, OrphansOnlyByLoss
  <2> QED  BY <2>1, PoolSteps, OrphanSteps
<1> QED  BY <1>1, <1>2, PoolTableTyped, PTL DEF PoolSpec

LEMMA RestartBooking ==
  ASSUME TypeOK, BookingInv, RestartSidecar
  PROVE  BookingInv'
<1>1. /\ status' = [b \in Bots |-> IF b \in Pool THEN "offline" ELSE "absent"]
      /\ assigned' = [b \in Bots |-> NoDeploy]
      /\ slot' = [t \in Tasks |-> NoBot]
      /\ pc' = [t \in Tasks |-> IF pc[t] = "idle" THEN "idle" ELSE "done"]
      /\ feed' = feed
  BY DEF RestartSidecar
<1>2. \A t \in Deploys : pc'[t] \in {"idle", "done"} /\ slot'[t] = NoBot
  BY <1>1 DEF Tasks
<1>3. ExclusiveBooking' /\ IdleIsFree'
  BY <1>1, <1>2 DEF ExclusiveBooking, IdleIsFree, Deploying, BeforeAssign, AfterAssign
<1>4. \A t \in Deploys : BookedSlot(t)'
  BY <1>2 DEF BookedSlot, BeforeAssign, AfterAssign
<1>5. ASSUME NEW t \in Orch PROVE ReportedRunning(t)'
  <2>1. t \in Tasks /\ t \in Deploys  BY TasksAssumption DEF Tasks
  <2>2. pc[t] = "done" => pc'[t] = "done"  BY <1>1, <2>1
  <2> QED  BY <1>1, <1>2, <2>1, <2>2 DEF BookingInv, ReportedRunning
<1> QED  BY <1>3, <1>4, <1>5 DEF BookingInv

LEMMA BookingAcrossRestarts ==
  ASSUME Stops = {}, Updates = {}
  PROVE  PoolSpec => []BookingInv
<1>1. PoolInit => BookingInv  BY QuietStart DEF PoolInit
<1>2. TypeOK /\ BookingInv /\ [PoolNext]_poolVars => BookingInv'
  BY PoolSteps, QuietSteps, RestartBooking
<1> QED  BY <1>1, <1>2, PoolTableTyped, PTL DEF PoolSpec

\* Without stops and announcements, restarts at any moment included, no two
\* deployments are at work on one bot.
THEOREM RestartsBookOnce ==
  ASSUME Stops = {}, Updates = {}
  PROVE  PoolSpec => []ExclusiveBooking
<1>1. BookingInv => ExclusiveBooking  BY DEF BookingInv
<1> QED  BY <1>1, BookingAcrossRestarts, PTL

\* Under the same conditions a request reported as running keeps its slot as long
\* as the process that reported it lives.
THEOREM RestartsKeepReports ==
  ASSUME Stops = {}, Updates = {}
  PROVE  PoolSpec => []RunningReportHolds
<1>1. BookingInv => RunningReportHolds
  BY DEF BookingInv, ReportedRunning, RunningReportHolds
<1> QED  BY <1>1, BookingAcrossRestarts, PTL

-----------------------------------------------------------------------------
(***************************************************************************)
(* The bots' types.                                                        *)
(***************************************************************************)

BotTypeOK ==
  /\ strategy \in [Bots -> Deploys \cup {NoDeploy}]
  /\ inbox \in [Bots -> Seq(Tasks)]

LEMMA CommandTyping ==
  ASSUME TypeOK, BotTypeOK, NEW t \in Tasks, slot[t] \in Bots, Commanded(t)
  PROVE  BotTypeOK'
<1>1. inbox[slot[t]] \in Seq(Tasks)  BY DEF BotTypeOK
<1>2. Append(inbox[slot[t]], t) \in Seq(Tasks)  BY <1>1
<1> QED  BY <1>2 DEF BotTypeOK, Commanded

LEMMA BotTyping ==
  ASSUME BotTypeOK, NEW b \in Bots, BotStep(b)
  PROVE  BotTypeOK'
<1>1. inbox[b] \in Seq(Tasks)  BY DEF BotTypeOK
<1>2. inbox[b] # <<>> => Tail(inbox[b]) \in Seq(Tasks) /\ Head(inbox[b]) \in Tasks
  BY <1>1
<1>3. CASE ObeyStart(b)  BY <1>2, <1>3 DEF ObeyStart, BotTypeOK
<1>4. CASE ObeyStop(b)  BY <1>2, <1>4 DEF ObeyStop, BotTypeOK
<1>5. CASE LoseCommand(b)  BY <1>2, <1>5 DEF LoseCommand, BotTypeOK
<1>6. CASE StrategyEnds(b)  BY <1>6 DEF StrategyEnds, BotTypeOK
<1> QED  BY <1>3, <1>4, <1>5, <1>6 DEF BotStep

\* Every reachable state of the sidecar with its bots is well typed, restarts
\* included.
THEOREM PoolTypeCorrect == PoolSpec => []PoolTypeOK
<1>1. PoolInit => BotTypeOK
  BY DEF PoolInit, BotTypeOK
<1>2. TypeOK /\ BotTypeOK /\ [PoolNext]_poolVars => BotTypeOK'
  <2> SUFFICES ASSUME TypeOK, BotTypeOK, [PoolNext]_poolVars
               PROVE  BotTypeOK'
    OBVIOUS
  <2>1. UNCHANGED botVars => BotTypeOK'  BY DEF botVars, BotTypeOK
  <2>2. ASSUME NEW t \in Deploys, PoolDeployStep(t)
        PROVE  BotTypeOK'
    <3>1. CASE StartCommand(t)
      <4>1. slot[t] \in Bots /\ t \in Tasks
        BY <3>1 DEF StartCommand, SendStart, Goto, TypeOK, Deploying, AfterAssign, Tasks
      <4> QED  BY <3>1, <4>1, CommandTyping DEF StartCommand
    <3> QED  BY <2>1, <2>2, <3>1 DEF PoolDeployStep, ConfirmRunning
  <2>3. ASSUME NEW s \in Stops, PoolStopStep(s)
        PROVE  BotTypeOK'
    <3>1. CASE StopCommand(s)
      <4>1. slot[s] \in Bots /\ s \in Tasks
        BY <3>1 DEF StopCommand, SendStop, Goto, TypeOK, Tasks
      <4> QED  BY <3>1, <4>1, CommandTyping DEF StopCommand
    <3> QED  BY <2>1, <2>3, <3>1 DEF PoolStopStep, ConfirmStopped, StopCall
  <2>4. ASSUME NEW b \in Bots, BotStep(b)
        PROVE  BotTypeOK'
    BY <2>4, BotTyping
  <2>5. RestartSidecar => BotTypeOK'  BY <2>1 DEF RestartSidecar
  <2>6. UNCHANGED poolVars => BotTypeOK'  BY <2>1 DEF poolVars
  <2> QED  BY <2>1, <2>2, <2>3, <2>4, <2>5, <2>6 DEF PoolNext
<1>3. TypeOK /\ BotTypeOK <=> PoolTypeOK  BY DEF PoolTypeOK, BotTypeOK
<1> QED  BY <1>1, <1>2, <1>3, PoolTableTyped, PTL DEF PoolSpec

-----------------------------------------------------------------------------
(***************************************************************************)
(* Stops.  Who holds which slot while stops are careful, whether or not    *)
(* they are confirmed and however often the process restarts.              *)
(***************************************************************************)

\* Requests come over MQTT, bots announce no status, and running bots are
\* stopped, once at a time.
Careful == Http = {} /\ Updates = {} /\ CarefulStops

\* The conditions of the lease: stops are confirmed, too, and the process lives.
Calm == Careful /\ ~StopsTimeOut /\ ~MayRestart

Early == {"idle", "reserve", "refused"} \cup BeforeAssign

\* What a deployment that is at work knows of its slot.
HeldSlot(t) ==
  /\ pc[t] # "diagnose"
  /\ pc[t] \in BeforeAssign =>
       status[slot[t]] = "reserved" /\ assigned[slot[t]] = NoDeploy
  /\ pc[t] \in AfterAssign =>
       status[slot[t]] = "configuring" /\ assigned[slot[t]] = t
  /\ pc[t] = "markError" =>
       \/ status[slot[t]] = "reserved" /\ assigned[slot[t]] = NoDeploy
       \/ status[slot[t]] = "configuring" /\ assigned[slot[t]] = t

\* An assignment is that of a deployment which got as far as writing it there.
Written(b) ==
  assigned[b] # NoDeploy => slot[assigned[b]] = b /\ pc[assigned[b]] \notin Early

\* A stop under way has a slot that carries an assignment and is not given to
\* anybody; one that was cut short keeps it so.
StopHolds(s) ==
  pc[s] \notin {"idle", "done"} =>
    /\ slot[s] \in Bots
    /\ assigned[slot[s]] # NoDeploy
    /\ status[slot[s]] \notin {"absent", "idle", "reserved", "configuring"}

OneStop ==
  \A s, r \in Stops :
    /\ pc[s] \notin {"idle", "done"} /\ pc[r] \notin {"idle", "done"}
    /\ slot[s] = slot[r]
    => s = r

TableInv ==
  /\ ExclusiveBooking
  /\ \A t \in Deploys : HeldSlot(t)
  /\ \A b \in Bots : Written(b)
  /\ \A s \in Stops : StopHolds(s)
  /\ OneStop

\* Idle and running as AssignmentMatchesStatus has them without updates.
LEMMA CarefulStatus ==
  ASSUME Careful, AssignmentMatchesStatus, NEW b \in Bots
  PROVE  /\ status[b] = "idle" => assigned[b] = NoDeploy
         /\ status[b] = "running" => assigned[b] # NoDeploy
BY DEF Careful, AssignmentMatchesStatus

LEMMA TableTyping ==
  ASSUME TypeOK
  PROVE  /\ pc \in [Tasks -> DeployPCs \cup StopPCs]
         /\ slot \in [Tasks -> Bots \cup {NoBot}]
         /\ status \in [Bots -> SlotStatus \cup {"absent"}]
         /\ assigned \in [Bots -> Deploys \cup {NoDeploy}]
         /\ Deploys \subseteq Tasks /\ Stops \subseteq Tasks /\ Deploys \cap Stops = {}
         /\ \A t \in Deploys : pc[t] \in Deploying \cup {"pubRunning", "giveUp"}
                               => slot[t] \in Bots
         /\ NoBot \notin Bots /\ NoDeploy \notin Deploys
BY TasksAssumption, NoDeployAssumption DEF TypeOK, StoreTypeOK, Tasks

LEMMA ReserveTable ==
  ASSUME Careful, TypeOK, AssignmentMatchesStatus, TableInv, NEW t \in Deploys, Reserve(t)
  PROVE  TableInv'
<1> USE DEF Deploying, BeforeAssign, AfterAssign
<1>1. PICK b \in Bots : ReserveIdle(b) /\ slot' = [slot EXCEPT ![t] = b]
  BY DEF Reserve
<1>2. /\ pc[t] = "reserve" /\ pc'[t] \in BeforeAssign
      /\ slot'[t] = b
      /\ status[b] = "idle" /\ assigned[b] = NoDeploy
      /\ status'[b] = "reserved"
      /\ \A c \in Bots : c # b => status'[c] = status[c]
      /\ UNCHANGED assigned
      /\ \A u \in Tasks : u # t => pc'[u] = pc[u] /\ slot'[u] = slot[u]
  BY <1>1, TableTyping, CarefulStatus DEF Reserve, ReserveIdle, Goto
<1>3. \A u \in Deploys : pc[u] \in Deploying => slot[u] # b
  BY <1>2 DEF TableInv, HeldSlot
<1>4. ExclusiveBooking'
  BY <1>2, <1>3, TableTyping DEF ExclusiveBooking, TableInv
<1>5. ASSUME NEW u \in Deploys PROVE HeldSlot(u)'
  BY <1>2, <1>3, TableTyping DEF TableInv, HeldSlot
<1>6. ASSUME NEW c \in Bots PROVE Written(c)'
  BY <1>2, TableTyping DEF TableInv, Written, Early
<1>7. ASSUME NEW s \in Stops PROVE StopHolds(s)'
  BY <1>2, TableTyping DEF TableInv, StopHolds
<1>8. OneStop'  BY <1>2, TableTyping DEF TableInv, OneStop
<1> QED  BY <1>4, <1>5, <1>6, <1>7, <1>8 DEF TableInv

\* A step of a deployment that writes nothing but its own slot.
OwnStep(t) ==
  /\ UNCHANGED slot
  /\ \A u \in Tasks : u # t => pc'[u] = pc[u]
  /\ \A b \in Bots : b # slot[t] => status'[b] = status[b] /\ assigned'[b] = assigned[b]
  /\ pc[t] \in Deploying \/ UNCHANGED <<status, assigned>>
  /\ pc'[t] \in Deploying => pc[t] \in Deploying
  /\ pc'[t] \in Early => pc[t] \in Early
  /\ slot[t] \in Bots => \/ assigned'[slot[t]] = assigned[slot[t]]
                         \/ assigned'[slot[t]] = t /\ pc'[t] \notin Early

LEMMA OwnSlotTable ==
  ASSUME TypeOK, TableInv, NEW t \in Deploys, OwnStep(t), HeldSlot(t)'
  PROVE  TableInv'
<1> USE DEF OwnStep
<1> USE DEF Deploying, BeforeAssign, AfterAssign
<1>1. ExclusiveBooking'
  BY TableTyping DEF ExclusiveBooking, TableInv
<1>2. ASSUME NEW u \in Deploys PROVE HeldSlot(u)'
  <2>1. CASE u = t  BY <2>1
  <2>2. CASE u # t /\ pc[u] \in Deploying /\ pc[t] \in Deploying
    <3>1. slot[u] # slot[t] /\ slot[u] \in Bots
      BY <2>2, TableTyping DEF TableInv, ExclusiveBooking
    <3> QED  BY <2>2, <3>1, TableTyping DEF TableInv, HeldSlot
  <2>3. CASE u # t /\ UNCHANGED <<status, assigned>>
    BY <2>3, TableTyping DEF TableInv, HeldSlot
  <2>4. CASE u # t /\ pc[u] \notin Deploying
    BY <2>4, TableTyping DEF TableInv, HeldSlot
  <2> QED  BY <2>1, <2>2, <2>3, <2>4
<1>3. ASSUME NEW b \in Bots PROVE Written(b)'
  BY TableTyping DEF TableInv, Written
<1>4. ASSUME NEW s \in Stops PROVE StopHolds(s)'
  <2>1. CASE UNCHANGED <<status, assigned>>
    BY <2>1, TableTyping DEF TableInv, StopHolds
  <2>2. CASE pc[t] \in Deploying
    <3>1. status[slot[t]] \in {"reserved", "configuring"}
      BY <2>2 DEF TableInv, HeldSlot
    <3>2. pc[s] \notin {"idle", "done"} => slot[s] # slot[t]
      BY <3>1 DEF TableInv, StopHolds
    <3> QED  BY <3>2, TableTyping DEF TableInv, StopHolds
  <2> QED  BY <2>1, <2>2
<1>5. OneStop'  BY TableTyping DEF TableInv, OneStop
<1> QED  BY <1>1, <1>2, <1>3, <1>4, <1>5 DEF TableInv

LEMMA DeployTable ==
  ASSUME Careful, TypeOK, AssignmentMatchesStatus, TableInv,
         NEW t \in Deploys, Arrive(t) \/ DeployStep(t)
  PROVE  TableInv'
<1> USE DEF Goto, Deploying, BeforeAssign, AfterAssign, Early
<1>a. /\ pc \in [Tasks -> DeployPCs \cup StopPCs]
      /\ slot \in [Tasks -> Bots \cup {NoBot}]
      /\ status \in [Bots -> SlotStatus \cup {"absent"}]
      /\ assigned \in [Bots -> Deploys \cup {NoDeploy}]
      /\ pc[t] \in Deploying \cup {"pubRunning", "giveUp"} => slot[t] \in Bots
      /\ t \in Tasks /\ t \in Orch
      /\ HeldSlot(t)
  BY TableTyping DEF Careful, Http, TableInv
<1>b. \A u \in Tasks : u # t => pc'[u] = pc[u]
  BY <1>a DEF Arrive, Receive, Skip, Post, DeployStep, Reserve, Refuse,
     PublishReserved, PublishHydrating, PublishConfiguring, PublishRunning,
     PublishOrGiveUp, Hydrate, Prepare, AssignConfiguring, SendStart, AwaitRunning,
     AssignRunning, Diagnose, MarkFailed, ReportFailed, ReportError
<1>1. CASE Reserve(t)  BY <1>1, ReserveTable
<1>2. CASE AssignConfiguring(t) \/ AssignRunning(t) \/ MarkFailed(t)
  <2>1. UNCHANGED slot /\ pc[t] \in Deploying /\ slot[t] \in Bots
    BY <1>2, <1>a DEF AssignConfiguring, AssignRunning, MarkFailed
  <2>2. \A b \in Bots : b # slot[t] => status'[b] = status[b] /\ assigned'[b] = assigned[b]
    BY <1>2, <1>a DEF AssignConfiguring, AssignRunning, MarkFailed, Assign, MarkError, MarkStatus
  <2>3. pc'[t] \notin Early /\ assigned'[slot[t]] \in {assigned[slot[t]], t}
    BY <1>2, <1>a, <2>1 DEF AssignConfiguring, AssignRunning, MarkFailed, Assign, Known,
       MarkError, MarkStatus
  <2>4. HeldSlot(t)' /\ (pc'[t] \in Deploying => pc[t] \in Deploying)
    <3>1. CASE AssignConfiguring(t)
      BY <1>a, <2>1, <3>1 DEF HeldSlot, AssignConfiguring, Assign, Known
    <3>2. CASE AssignRunning(t)
      BY <1>a, <2>1, <3>2 DEF HeldSlot, AssignRunning
    <3>3. CASE MarkFailed(t)
      BY <1>a, <2>1, <3>3 DEF HeldSlot, MarkFailed
    <3> QED  BY <1>2, <3>1, <3>2, <3>3
  <2>5. OwnStep(t)  BY <1>b, <2>1, <2>2, <2>3, <2>4 DEF OwnStep
  <2> QED  BY <2>4, <2>5, OwnSlotTable
<1>3. CASE ~(Reserve(t) \/ AssignConfiguring(t) \/ AssignRunning(t) \/ MarkFailed(t))
  <2>1. ~Diagnose(t)  BY <1>a DEF HeldSlot, Diagnose
  <2>2. /\ UNCHANGED <<status, assigned, slot>>
        /\ pc'[t] \in Deploying => pc[t] \in Deploying
        /\ pc'[t] \in Early => pc[t] \in Early
    BY <1>3, <1>a, <2>1 DEF Arrive, Receive, Skip, Post, DeployStep, Refuse,
       PublishReserved, PublishHydrating, PublishConfiguring, PublishRunning,
       PublishOrGiveUp, Hydrate, Prepare, SendStart, AwaitRunning, OnStartError,
       ReportFailed, ReportError, storeVars
  <2>3. HeldSlot(t)'
    BY <1>3, <1>a, <2>1, <2>2 DEF HeldSlot, Arrive, Receive, Skip, Post, DeployStep, Refuse,
       PublishReserved, PublishHydrating, PublishConfiguring, PublishRunning,
       PublishOrGiveUp, Hydrate, Prepare, SendStart, AwaitRunning, OnStartError,
       ReportFailed, ReportError
  <2>4. OwnStep(t)  BY <1>b, <2>2 DEF OwnStep
  <2> QED  BY <2>3, <2>4, OwnSlotTable
<1> QED  BY <1>1, <1>2, <1>3

\* stop_bot: only the slot of the stop is written, and only that stop has it.
LEMMA StopTable ==
  ASSUME Careful, TypeOK, TableInv, NEW s \in Stops, StopStep(s)
  PROVE  TableInv'
<1> USE DEF Goto, Deploying, BeforeAssign, AfterAssign
<1>1. /\ pc[s] \notin {"idle", "done", "lost"} /\ slot[s] \in Bots
      /\ UNCHANGED slot
      /\ \A u \in Tasks : u # s => pc'[u] = pc[u]
      /\ pc'[s] # "idle"
      /\ \A b \in Bots : b # slot[s] => status'[b] = status[b] /\ assigned'[b] = assigned[b]
  BY TableTyping DEF TypeOK, StopStep, MarkStopping, SendStop, AwaitStopped, MarkCleanup, Cleanup,
     Release, MarkStatus, ReleaseIdle, storeVars
<1>2. /\ assigned[slot[s]] # NoDeploy
      /\ status[slot[s]] \notin {"absent", "idle", "reserved", "configuring"}
  BY <1>1 DEF TableInv, StopHolds
<1>3. assigned'[slot[s]] \in {assigned[slot[s]], NoDeploy}
  BY <1>1, TableTyping DEF StopStep, MarkStopping, SendStop, AwaitStopped, MarkCleanup, Cleanup,
     Release, MarkStatus, ReleaseIdle, storeVars
<1>4. pc'[s] # "done" =>
        /\ assigned'[slot[s]] = assigned[slot[s]]
        /\ status'[slot[s]] \notin {"absent", "idle", "reserved", "configuring"}
  BY <1>1, <1>2, TableTyping
  DEF StopStep, MarkStopping, SendStop, AwaitStopped, MarkCleanup, Cleanup, Release, MarkStatus,
      ReleaseIdle, storeVars
<1>5. ExclusiveBooking'
  BY <1>1, TableTyping DEF ExclusiveBooking, TableInv
<1>6. ASSUME NEW u \in Deploys PROVE HeldSlot(u)'
  <2>1. pc[u] \in Deploying => slot[u] # slot[s] /\ slot[u] \in Bots
    BY <1>2, TableTyping DEF TableInv, HeldSlot
  <2>2. pc'[u] = pc[u] /\ slot'[u] = slot[u]  BY <1>1, TableTyping
  <2> QED  BY <1>1, <2>1, <2>2 DEF TableInv, HeldSlot
<1>7. ASSUME NEW b \in Bots PROVE Written(b)'
  BY <1>1, <1>3, TableTyping DEF TableInv, Written, Early
<1>8. ASSUME NEW r \in Stops PROVE StopHolds(r)'
  <2>1. CASE r = s  BY <1>1, <1>2, <1>4, <2>1 DEF StopHolds
  <2>2. CASE r # s /\ slot[r] = slot[s]
    <3>1. pc[r] \in {"idle", "done"}  BY <1>1, <2>2 DEF TableInv, OneStop
    <3> QED  BY <1>1, <2>2, <3>1, TableTyping DEF StopHolds
  <2>3. CASE r # s /\ slot[r] # slot[s]
    BY <1>1, <2>3, TableTyping DEF TableInv, StopHolds
  <2> QED  BY <2>1, <2>2, <2>3
<1>9. OneStop'  BY <1>1, TableTyping DEF TableInv, OneStop
<1> QED  BY <1>5, <1>6, <1>7, <1>8, <1>9 DEF TableInv

\* A careful stop starts on a running slot, so on one that carries an assignment
\* and that no deployment is at work on.
LEMMA StopCallTable ==
  ASSUME Careful, TypeOK, AssignmentMatchesStatus, TableInv,
         NEW s \in Stops, NEW b \in Bots, StopCall(s, b)
  PROVE  TableInv'
<1>1. /\ pc[s] = "idle" /\ slot'[s] = b
      /\ \A u \in Tasks : u # s => pc'[u] = pc[u] /\ slot'[u] = slot[u]
      /\ UNCHANGED <<status, assigned>>
      /\ status[b] = "running" /\ \A r \in Stops : slot[r] = b => pc[r] = "done"
  BY TableTyping DEF Careful, StopCall, LookUp, Goto, storeVars
<1>2. assigned[b] # NoDeploy  BY <1>1, CarefulStatus
<1>3. ExclusiveBooking'  BY <1>1, TableTyping DEF ExclusiveBooking, TableInv, Deploying
<1>4. ASSUME NEW u \in Deploys PROVE HeldSlot(u)'
  BY <1>1, TableTyping DEF TableInv, HeldSlot
<1>5. ASSUME NEW c \in Bots PROVE Written(c)'
  BY <1>1, TableTyping DEF TableInv, Written, Early
<1>6. ASSUME NEW r \in Stops PROVE StopHolds(r)'
  BY <1>1, <1>2, TableTyping DEF TableInv, StopHolds
<1>7. OneStop'  BY <1>1, TableTyping DEF TableInv, OneStop
<1> QED  BY <1>3, <1>4, <1>5, <1>6, <1>7 DEF TableInv

\* Heartbeats and the reaper move no slot that somebody is deploying to, and
\* offer none that carries an assignment.
LEMMA WorldTable ==
  ASSUME Careful, TypeOK, TableInv, World
  PROVE  TableInv'
<1> USE DEF Deploying, BeforeAssign, AfterAssign
<1>1. ASSUME NEW t \in Tasks, Disconnect(t) PROVE TableInv'
  <2>1. /\ t \in Stops /\ pc[t] \notin {"idle", "done"} /\ pc'[t] = "lost"
        /\ \A u \in Tasks : u # t => pc'[u] = pc[u]
        /\ UNCHANGED <<status, assigned, slot>>
    BY <1>1, TableTyping DEF Disconnect, Careful, storeVars
  <2>2. ExclusiveBooking'  BY <2>1, TableTyping DEF ExclusiveBooking, TableInv
  <2>3. ASSUME NEW u \in Deploys PROVE HeldSlot(u)'
    BY <2>1, TableTyping DEF TableInv, HeldSlot
  <2>4. ASSUME NEW b \in Bots PROVE Written(b)'
    BY <2>1, TableTyping DEF TableInv, Written, Early
  <2>5. ASSUME NEW s \in Stops PROVE StopHolds(s)'
    BY <2>1, TableTyping DEF TableInv, StopHolds
  <2>6. OneStop'  BY <2>1, TableTyping DEF TableInv, OneStop
  <2> QED  BY <2>2, <2>3, <2>4, <2>5, <2>6 DEF TableInv
<1>2. CASE ~\E t \in Tasks : Disconnect(t)
  <2>1. /\ UNCHANGED <<pc, slot, assigned>>
        /\ \A b \in Bots :
             \/ status'[b] = status[b]
             \/ /\ status[b] \notin {"reserved", "configuring"}
                /\ \/ status'[b] \in {"offline", "running"}
                   \/ status'[b] = "idle" /\ assigned[b] = NoDeploy
    <3>1. ASSUME NEW c \in Bots, Heartbeat(c) PROVE <2>1
      BY <3>1, TableTyping DEF Heartbeat, MarkHeartbeat, taskVars
    <3>2. ASSUME NEW c \in Bots, Expire(c) PROVE <2>1
      BY <3>2 DEF Expire, HeartbeatExpires, taskVars
    <3>3. CASE Reap
      BY <3>3, TableTyping DEF Reap, MarkStaleOffline, Exempt, taskVars
    <3>4. CASE CloseBus  BY <3>4 DEF CloseBus, storeVars
    <3> QED  BY <1>2, <3>1, <3>2, <3>3, <3>4 DEF World, Careful
  <2>2. ExclusiveBooking'  BY <2>1, TableTyping DEF ExclusiveBooking, TableInv
  <2>3. ASSUME NEW u \in Deploys PROVE HeldSlot(u)'
    BY <2>1, TableTyping DEF TableInv, HeldSlot
  <2>4. ASSUME NEW b \in Bots PROVE Written(b)'
    BY <2>1 DEF TableInv, Written
  <2>5. ASSUME NEW s \in Stops PROVE StopHolds(s)'
    BY <2>1 DEF TableInv, StopHolds
  <2>6. OneStop'  BY <2>1 DEF TableInv, OneStop
  <2> QED  BY <2>2, <2>3, <2>4, <2>5, <2>6 DEF TableInv
<1> QED  BY <1>1, <1>2

LEMMA TableSame ==
  ASSUME TableInv, UNCHANGED vars
  PROVE  TableInv'
BY DEF TableInv, ExclusiveBooking, HeldSlot, Written, StopHolds, OneStop, vars, taskVars, storeVars

\* A new process starts with an empty table and no task.
LEMMA RestartTable ==
  ASSUME TypeOK, RestartSidecar
  PROVE  TableInv' /\ AssignmentMatchesStatus'
<1>1. /\ \A t \in Tasks : pc'[t] \in {"idle", "done"}
      /\ \A b \in Bots : assigned'[b] = NoDeploy /\ status'[b] \in {"offline", "absent"}
  BY DEF RestartSidecar
<1>2. TableInv'
  BY <1>1, TableTyping DEF TableInv, ExclusiveBooking, HeldSlot, Written, StopHolds, OneStop,
     Deploying, BeforeAssign, AfterAssign
<1>3. AssignmentMatchesStatus'  BY <1>1 DEF AssignmentMatchesStatus
<1> QED  BY <1>2, <1>3

\* Every step keeps the table, given what a step of the sidecar needs to know.
LEMMA TableSteps ==
  ASSUME Careful, TypeOK, AssignmentMatchesStatus, TableInv, [PoolNext]_poolVars
  PROVE  TableInv'
<1>1. ASSUME NEW t \in Deploys, PoolDeployStep(t) PROVE TableInv'
  <2>1. Arrive(t) \/ DeployStep(t)
    BY <1>1 DEF PoolDeployStep, StartCommand, ConfirmRunning, DeployStep
  <2> QED  BY <2>1, DeployTable
<1>2. ASSUME NEW s \in Stops, PoolStopStep(s) PROVE TableInv'
  <2>1. StopStep(s) \/ \E b \in Bots : StopCall(s, b)
    BY <1>2 DEF PoolStopStep, StopCommand, ConfirmStopped, StopStep
  <2> QED  BY <2>1, StopTable, StopCallTable
<1>3. ASSUME NEW b \in Bots, BotStep(b) PROVE TableInv'
  <2>1. UNCHANGED vars
    BY <1>3 DEF BotStep, ObeyStart, ObeyStop, LoseCommand, StrategyEnds
  <2> QED  BY <2>1, TableSame
<1>4. CASE World  BY <1>4, WorldTable
<1>5. CASE RestartSidecar  BY <1>5, RestartTable
<1>6. CASE UNCHANGED poolVars  BY <1>6, TableSame DEF poolVars
<1> QED  BY <1>1, <1>2, <1>3, <1>4, <1>5, <1>6 DEF PoolNext

LEMMA CarefulTable ==
  ASSUME Careful
  PROVE  PoolSpec => [](TypeOK /\ AssignmentMatchesStatus /\ TableInv)
<1>1. PoolInit => AssignmentMatchesStatus /\ TableInv
  <2> SUFFICES ASSUME PoolInit PROVE AssignmentMatchesStatus /\ TableInv
    OBVIOUS
  <2>1. /\ pc = [t \in Tasks |-> "idle"]
        /\ assigned = [b \in Bots |-> NoDeploy]
        /\ \A b \in Bots : status[b] \in {"offline", "absent"}
    BY DEF PoolInit, Init, StoreInit
  <2> QED
    BY <2>1 DEF AssignmentMatchesStatus, TableInv, ExclusiveBooking, HeldSlot, Written, StopHolds,
       OneStop, Deploying, BeforeAssign, AfterAssign, Tasks
<1>2. TypeOK /\ AssignmentMatchesStatus /\ TableInv /\ [PoolNext]_poolVars
      => AssignmentMatchesStatus' /\ TableInv'
  BY TableSteps, PoolSteps, AgreementSteps, RestartTable
<1> QED  BY <1>1, <1>2, PoolTableTyped, PTL DEF PoolSpec

\* "Assigns an idle warm bot": while running bots are stopped, once at a time, and
\* bots announce nothing, no two deployments are at work on one bot, although
\* stops give up waiting, connections are lost and the process restarts.
THEOREM CarefulBooksOnce == Careful => (PoolSpec => []ExclusiveBooking)
<1> SUFFICES ASSUME Careful PROVE PoolSpec => []ExclusiveBooking
  OBVIOUS
<1>1. TableInv => ExclusiveBooking  BY DEF TableInv
<1> QED  BY <1>1, CarefulTable, PTL

LEMMA KeptByDeploy ==
  ASSUME Careful, TypeOK, TableInv, NEW t \in Deploys, Arrive(t) \/ DeployStep(t),
         NEW b \in Bots, assigned[b] # NoDeploy
  PROVE  assigned'[b] = assigned[b]
<1>1. CASE AssignConfiguring(t) \/ AssignRunning(t)
  <2>1. HeldSlot(t) /\ slot[t] \in Bots /\ pc[t] \in {"assign", "assignRunning"}
    BY <1>1, TableTyping
    DEF TableInv, AssignConfiguring, AssignRunning, Goto, Deploying, BeforeAssign, AfterAssign
  <2>2. assigned[slot[t]] \in {NoDeploy, t}
    BY <2>1 DEF HeldSlot, BeforeAssign, AfterAssign
  <2>3. assigned'[slot[t]] \in {assigned[slot[t]], t}
        /\ \A c \in Bots : c # slot[t] => assigned'[c] = assigned[c]
    BY <1>1, <2>1, TableTyping DEF AssignConfiguring, AssignRunning, Assign
  <2> QED  BY <2>2, <2>3
<1>2. CASE ~(AssignConfiguring(t) \/ AssignRunning(t))
  BY <1>2 DEF Arrive, Receive, Skip, Post, DeployStep, Reserve, Refuse,
     PublishReserved, PublishHydrating, PublishConfiguring, PublishRunning,
     PublishOrGiveUp, Hydrate, Prepare, SendStart, AwaitRunning, ReserveIdle, MarkError,
     MarkStatus, Diagnose, MarkFailed, ReportFailed, ReportError, storeVars
<1> QED  BY <1>1, <1>2

\* Under the same conditions an assignment is never overwritten, and leaves its
\* slot only with the release of the stop that works on the slot or with the
\* process.
THEOREM CarefulKeepsUntilStopped == Careful => (PoolSpec => KeptUntilStopped)
<1> SUFFICES ASSUME Careful PROVE PoolSpec => KeptUntilStopped
  OBVIOUS
<1> DEFINE Kept(b) ==
      assigned[b] \notin {NoDeploy, assigned'[b]} =>
        \/ RestartSidecar
        \/ assigned'[b] = NoDeploy /\ \E s \in Stops : slot[s] = b /\ Release(s)
<1>1. ASSUME TypeOK, TableInv, PoolNext, NEW b \in Bots
      PROVE  Kept(b)
  <2> SUFFICES ASSUME assigned[b] # NoDeploy, assigned'[b] # assigned[b], ~RestartSidecar
               PROVE  assigned'[b] = NoDeploy /\ \E s \in Stops : slot[s] = b /\ Release(s)
    OBVIOUS
  <2>1. ASSUME NEW t \in Deploys, PoolDeployStep(t) PROVE FALSE
    <3>1. Arrive(t) \/ DeployStep(t)
      BY <2>1 DEF PoolDeployStep, StartCommand, ConfirmRunning, DeployStep
    <3> QED  BY <1>1, <3>1, KeptByDeploy
  <2>2. ASSUME NEW s \in Stops, PoolStopStep(s)
        PROVE  assigned'[b] = NoDeploy /\ slot[s] = b /\ Release(s)
    <3>1. StopStep(s) \/ UNCHANGED assigned
      BY <2>2 DEF PoolStopStep, StopCall, LookUp, StopCommand, ConfirmStopped, StopStep, storeVars
    <3>2. Release(s)
      BY <3>1 DEF StopStep, MarkStopping, SendStop, AwaitStopped, MarkCleanup, Cleanup, MarkStatus,
         storeVars
    <3>3. pc[s] = "release" /\ slot[s] \in Bots
      BY <1>1, <3>2, TableTyping DEF TypeOK, Release, Goto
    <3>4. assigned' = [assigned EXCEPT ![slot[s]] = NoDeploy] \/ UNCHANGED assigned
      BY <3>2 DEF Release, ReleaseIdle, storeVars
    <3> QED  BY <1>1, <3>2, <3>3, <3>4, TableTyping
  <2>3. ASSUME NEW c \in Bots, BotStep(c) PROVE FALSE
    BY <2>3 DEF BotStep, ObeyStart, ObeyStop, LoseCommand, StrategyEnds, vars, storeVars
  <2>4. CASE World
    BY <2>4 DEF World, Heartbeat, MarkHeartbeat, Expire, HeartbeatExpires, StatusUpdate, MarkError,
       MarkStatus, Disconnect, Reap, MarkStaleOffline, CloseBus, taskVars, storeVars
  <2> QED  BY <1>1, <2>1, <2>2, <2>3, <2>4 DEF PoolNext
<1>2. TypeOK /\ TableInv /\ [PoolNext]_poolVars => [\A b \in Bots : Kept(b)]_poolVars
  BY <1>1
<1> QED  BY <1>2, CarefulTable, PTL DEF PoolSpec, KeptUntilStopped

-----------------------------------------------------------------------------
(***************************************************************************)
(* The lease.  To the table come the bots: what runs, and what is on its   *)
(* way.                                                                    *)
(***************************************************************************)

\* Nothing but the strategy of the assignment runs or will be started.
OwnOnly(b) ==
  /\ strategy[b] \in {NoDeploy, assigned[b]}
  /\ \A i \in 1..Len(inbox[b]) : inbox[b][i] \in Deploys => inbox[b][i] = assigned[b]

\* Every start on its way to the bot of a stop has the stop command behind it.
StartsAreFollowed(s) ==
  \A i \in 1..Len(inbox[slot[s]]) :
    inbox[slot[s]][i] \in Deploys =>
      \E j \in 1..Len(inbox[slot[s]]) : j > i /\ inbox[slot[s]][j] = s

\* The bot runs nothing and no start is on its way.
Silent(b) ==
  /\ strategy[b] = NoDeploy
  /\ \A i \in 1..Len(inbox[b]) : inbox[b][i] \notin Deploys

StopTold(s) ==
  /\ pc[s] = "awaitStop" => StartsAreFollowed(s)
  /\ pc[s] \in {"markCleanup", "cleanup", "release"} => Silent(slot[s])

BotInv ==
  /\ \A b \in Bots : OwnOnly(b)
  /\ \A s \in Stops : StopTold(s)

LEMMA AppendItems ==
  ASSUME NEW S, NEW q \in Seq(S), NEW e \in S
  PROVE  /\ Len(Append(q, e)) = Len(q) + 1 /\ Len(q) \in Nat
         /\ \A i \in 1..Len(q) : Append(q, e)[i] = q[i]
         /\ Append(q, e)[Len(q) + 1] = e
OBVIOUS

LEMMA TailItems ==
  ASSUME NEW S, NEW q \in Seq(S), q # <<>>
  PROVE  /\ Len(q) \in Nat /\ Len(q) >= 1 /\ Head(q) = q[1]
         /\ Len(Tail(q)) = Len(q) - 1
         /\ \A i \in 1..Len(Tail(q)) : i + 1 \in 1..Len(q) /\ Tail(q)[i] = q[i + 1]
<1>1. Len(q) \in Nat /\ Len(q) >= 1 /\ Head(q) = q[1] /\ Len(Tail(q)) = Len(q) - 1
  OBVIOUS
<1>2. \A i \in 1..(Len(q) - 1) : i + 1 \in 1..Len(q) /\ Tail(q)[i] = q[i + 1]
  OBVIOUS
<1> QED  BY <1>1, <1>2

\* The head of a queue goes; the starts still in it keep what is behind them.
LEMMA Dequeued ==
  ASSUME BotTypeOK, BotInv, TypeOK, NEW b \in Bots, inbox[b] # <<>>,
         inbox' = [inbox EXCEPT ![b] = Tail(@)], UNCHANGED <<pc, slot, assigned>>,
         \A c \in Bots : strategy'[c] \in {strategy[c], NoDeploy, assigned[c]},
         \A s \in Stops : pc[s] \in {"markCleanup", "cleanup", "release"} =>
                            strategy'[slot[s]] = NoDeploy
  PROVE  BotInv'
<1>1. /\ inbox[b] \in Seq(Tasks) /\ inbox'[b] = Tail(inbox[b])
      /\ \A c \in Bots : c # b => inbox'[c] = inbox[c]
  BY DEF BotTypeOK
<1>2. /\ Len(inbox[b]) \in Nat /\ Len(inbox'[b]) = Len(inbox[b]) - 1
      /\ \A i \in 1..Len(inbox'[b]) :
           i + 1 \in 1..Len(inbox[b]) /\ inbox'[b][i] = inbox[b][i + 1]
  <2>1. /\ Len(inbox[b]) \in Nat /\ Len(Tail(inbox[b])) = Len(inbox[b]) - 1
        /\ \A i \in 1..Len(Tail(inbox[b])) :
             i + 1 \in 1..Len(inbox[b]) /\ Tail(inbox[b])[i] = inbox[b][i + 1]
    BY <1>1, TailItems
  <2> QED  BY <1>1, <2>1, Zenon
<1>3. ASSUME NEW c \in Bots PROVE OwnOnly(c)'
  <2>1. strategy'[c] \in {NoDeploy, assigned'[c]}  BY DEF BotInv, OwnOnly
  <2>2. ASSUME NEW i \in 1..Len(inbox'[c]), inbox'[c][i] \in Deploys
        PROVE  inbox'[c][i] = assigned'[c]
    BY <1>1, <1>2, <2>2 DEF BotInv, OwnOnly
  <2> QED  BY <2>1, <2>2 DEF OwnOnly
<1>4. ASSUME NEW s \in Stops PROVE StopTold(s)'
  <2>1. ASSUME pc[s] = "awaitStop" PROVE StartsAreFollowed(s)'
    <3>1. StartsAreFollowed(s) /\ slot'[s] = slot[s] /\ slot[s] \in Bots
      BY <2>1 DEF BotInv, StopTold, TypeOK
    <3>2. CASE slot[s] # b
      <4>1. inbox'[slot'[s]] = inbox[slot[s]]  BY <1>1, <3>1, <3>2
      <4> QED  BY <3>1, <4>1 DEF StartsAreFollowed
    <3>3. CASE slot[s] = b
      <4>0. slot'[s] = b  BY <3>1, <3>3
      <4> SUFFICES ASSUME NEW i \in 1..Len(inbox'[b]), inbox'[b][i] \in Deploys
                   PROVE  \E j \in 1..Len(inbox'[b]) : j > i /\ inbox'[b][j] = s
        BY <4>0 DEF StartsAreFollowed
      <4>1. PICK j \in 1..Len(inbox[b]) : j > i + 1 /\ inbox[b][j] = s
        BY <1>2, <3>1, <3>3 DEF StartsAreFollowed
      <4>2. j - 1 \in 1..Len(inbox'[b]) /\ j - 1 > i /\ inbox'[b][j - 1] = inbox[b][j]
        BY <1>2, <4>1
      <4> QED  BY <4>1, <4>2
    <3> QED  BY <3>2, <3>3
  <2>2. ASSUME pc[s] \in {"markCleanup", "cleanup", "release"} PROVE Silent(slot[s])'
    <3>1. Silent(slot[s]) /\ slot'[s] = slot[s] /\ slot[s] \in Bots
      BY <2>2 DEF BotInv, StopTold, TypeOK
    <3>2. \A i \in 1..Len(inbox'[slot[s]]) : inbox'[slot[s]][i] \notin Deploys
      BY <1>1, <1>2, <3>1 DEF Silent
    <3> QED  BY <2>2, <3>1, <3>2 DEF Silent
  <2> QED  BY <2>1, <2>2 DEF StopTold
<1> QED  BY <1>3, <1>4 DEF BotInv

LEMMA BotStepInv ==
  ASSUME TypeOK, BotTypeOK, BotInv, NEW b \in Bots, BotStep(b)
  PROVE  BotInv'
<1>0. UNCHANGED <<pc, slot, assigned>>
  BY DEF BotStep, ObeyStart, ObeyStop, LoseCommand, StrategyEnds, vars, taskVars, storeVars
<1>1. CASE ObeyStart(b)
  <2>1. /\ inbox[b] # <<>> /\ inbox[b] \in Seq(Tasks) /\ Head(inbox[b]) \in Deploys
        /\ inbox' = [inbox EXCEPT ![b] = Tail(@)]
    BY <1>1 DEF ObeyStart, BotTypeOK
  <2>2. 1 \in 1..Len(inbox[b]) /\ Head(inbox[b]) = inbox[b][1]
    BY <2>1, TailItems
  <2>3. Head(inbox[b]) = assigned[b]  BY <2>1, <2>2 DEF BotInv, OwnOnly
  <2>4. \A c \in Bots : strategy'[c] \in {strategy[c], assigned[c]} /\ (c # b => strategy'[c] = strategy[c])
    BY <1>1, <2>3 DEF ObeyStart, BotTypeOK
  <2>5. ASSUME NEW s \in Stops, pc[s] \in {"markCleanup", "cleanup", "release"}
        PROVE  strategy'[slot[s]] = NoDeploy
    <3>1. Silent(slot[s]) /\ slot[s] \in Bots  BY <2>5 DEF BotInv, StopTold, TypeOK
    <3>2. slot[s] # b  BY <2>1, <2>2, <3>1 DEF Silent
    <3> QED  BY <2>4, <3>1, <3>2 DEF Silent
  <2> QED  BY <1>0, <2>1, <2>4, <2>5, Dequeued
<1>2. CASE ObeyStop(b) \/ LoseCommand(b)
  <2>1. /\ inbox[b] # <<>> /\ inbox' = [inbox EXCEPT ![b] = Tail(@)]
        /\ \A c \in Bots : strategy'[c] \in {strategy[c], NoDeploy}
    BY <1>2 DEF ObeyStop, LoseCommand, BotTypeOK
  <2>2. ASSUME NEW s \in Stops, pc[s] \in {"markCleanup", "cleanup", "release"}
        PROVE  strategy'[slot[s]] = NoDeploy
    BY <2>1, <2>2 DEF BotInv, StopTold, Silent, TypeOK
  <2> QED  BY <1>0, <2>1, <2>2, Dequeued
<1>3. CASE StrategyEnds(b)
  <2>1. UNCHANGED inbox /\ \A c \in Bots : strategy'[c] \in {strategy[c], NoDeploy}
    BY <1>3 DEF StrategyEnds, BotTypeOK
  <2>2. ASSUME NEW c \in Bots PROVE OwnOnly(c)'
    BY <1>0, <2>1 DEF BotInv, OwnOnly
  <2>3. ASSUME NEW s \in Stops PROVE StopTold(s)'
    <3>1. /\ pc'[s] = pc[s] /\ slot'[s] = slot[s] /\ inbox'[slot'[s]] = inbox[slot[s]]
          /\ pc[s] \in StopPCs \ {"idle", "done", "lost"} => slot[s] \in Bots
          /\ StopTold(s)
      BY <1>0, <2>1 DEF BotInv, TypeOK
    <3>2. pc[s] = "awaitStop" => StartsAreFollowed(s)'
      BY <3>1 DEF StopTold, StartsAreFollowed
    <3>3. pc[s] \in {"markCleanup", "cleanup", "release"} => Silent(slot[s])'
      BY <2>1, <3>1 DEF StopTold, Silent, StopPCs, Stopping
    <3> QED  BY <3>1, <3>2, <3>3 DEF StopTold
  <2> QED  BY <2>2, <2>3 DEF BotInv
<1> QED  BY <1>1, <1>2, <1>3 DEF BotStep

\* A step of the sidecar that sends no command: assignments are written to slots
\* without one, or cleared on silent bots.
LEMMA NothingSent ==
  ASSUME BotInv, UNCHANGED botVars,
         \A b \in Bots : \/ assigned'[b] = assigned[b]
                         \/ assigned[b] = NoDeploy
                         \/ Silent(b),
         \A s \in Stops : \/ pc'[s] = pc[s] /\ slot'[s] = slot[s]
                          \/ pc'[s] \notin {"awaitStop", "markCleanup", "cleanup", "release"}
                          \/ /\ pc'[s] # "awaitStop" /\ slot'[s] = slot[s]
                             /\ Silent(slot[s])
  PROVE  BotInv'
<1>1. strategy' = strategy /\ inbox' = inbox  BY DEF botVars
<1>2. ASSUME NEW b \in Bots PROVE OwnOnly(b)'
  BY <1>1, NoDeployAssumption DEF BotInv, OwnOnly, Silent
<1>3. ASSUME NEW s \in Stops PROVE StopTold(s)'
  BY <1>1 DEF BotInv, StopTold, StartsAreFollowed, Silent
<1> QED  BY <1>2, <1>3 DEF BotInv

\* A command goes to the end of one queue.
LEMMA Enqueued ==
  ASSUME BotTypeOK, TypeOK, NEW t \in Tasks, slot[t] \in Bots, busOpen, Commanded(t)
  PROVE  /\ UNCHANGED strategy
         /\ \A c \in Bots : c # slot[t] => inbox'[c] = inbox[c]
         /\ Len(inbox[slot[t]]) \in Nat /\ Len(inbox'[slot[t]]) = Len(inbox[slot[t]]) + 1
         /\ \A i \in 1..Len(inbox[slot[t]]) : inbox'[slot[t]][i] = inbox[slot[t]][i]
         /\ inbox'[slot[t]][Len(inbox[slot[t]]) + 1] = t
<1>1. inbox[slot[t]] \in Seq(Tasks) /\ inbox'[slot[t]] = Append(inbox[slot[t]], t)
  BY DEF Commanded, BotTypeOK
<1>2. /\ Len(Append(inbox[slot[t]], t)) = Len(inbox[slot[t]]) + 1
      /\ Len(inbox[slot[t]]) \in Nat
      /\ \A i \in 1..Len(inbox[slot[t]]) : Append(inbox[slot[t]], t)[i] = inbox[slot[t]][i]
      /\ Append(inbox[slot[t]], t)[Len(inbox[slot[t]]) + 1] = t
  BY <1>1, AppendItems
<1>3. UNCHANGED strategy /\ \A c \in Bots : c # slot[t] => inbox'[c] = inbox[c]
  BY DEF Commanded, BotTypeOK
<1> QED  BY <1>1, <1>2, <1>3, Zenon

\* The stops a command of another task cannot disturb.
LEMMA OthersTold ==
  ASSUME BotInv, TypeOK, NEW s \in Stops, UNCHANGED <<slot, strategy>>,
         pc'[s] = pc[s],
         slot[s] \in Bots => inbox'[slot[s]] = inbox[slot[s]]
  PROVE  StopTold(s)'
<1>1. pc[s] \in {"awaitStop", "markCleanup", "cleanup", "release"} =>
        slot'[s] = slot[s] /\ inbox'[slot'[s]] = inbox[slot[s]]
  BY DEF TypeOK
<1>2. pc[s] = "awaitStop" => StartsAreFollowed(s)'
  BY <1>1 DEF BotInv, StopTold, StartsAreFollowed
<1>3. pc[s] \in {"markCleanup", "cleanup", "release"} => Silent(slot[s])'
  BY <1>1 DEF BotInv, StopTold, Silent
<1> QED  BY <1>2, <1>3 DEF StopTold

LEMMA StartCommandInv ==
  ASSUME TypeOK, BotTypeOK, TableInv, BotInv, NEW t \in Deploys, StartCommand(t)
  PROVE  BotInv'
<1>1. /\ t \in Tasks /\ pc[t] = "start" /\ slot[t] \in Bots
      /\ UNCHANGED <<slot, assigned, busOpen>>
      /\ \A s \in Stops : pc'[s] = pc[s]
  BY TableTyping DEF StartCommand, SendStart, Goto, Deploying, AfterAssign, storeVars
<1>2. assigned[slot[t]] = t /\ status[slot[t]] = "configuring"
  BY <1>1 DEF TableInv, HeldSlot, AfterAssign
<1>3. CASE busOpen
  <2>1. /\ UNCHANGED strategy
        /\ \A c \in Bots : c # slot[t] => inbox'[c] = inbox[c]
        /\ Len(inbox[slot[t]]) \in Nat /\ Len(inbox'[slot[t]]) = Len(inbox[slot[t]]) + 1
        /\ \A i \in 1..Len(inbox[slot[t]]) : inbox'[slot[t]][i] = inbox[slot[t]][i]
        /\ inbox'[slot[t]][Len(inbox[slot[t]]) + 1] = t
    BY <1>1, <1>3, Enqueued DEF StartCommand
  <2>2. ASSUME NEW b \in Bots PROVE OwnOnly(b)'
    <3>1. CASE b # slot[t]  BY <1>1, <2>1, <3>1 DEF BotInv, OwnOnly
    <3>2. CASE b = slot[t]
      <4>1. strategy'[b] \in {NoDeploy, assigned'[b]}
        BY <1>1, <2>1, <3>2 DEF BotInv, OwnOnly
      <4>2. ASSUME NEW i \in 1..Len(inbox'[b]), inbox'[b][i] \in Deploys
            PROVE  inbox'[b][i] = assigned'[b]
        <5>1. i \in 1..Len(inbox[b]) \/ i = Len(inbox[b]) + 1  BY <2>1, <3>2
        <5> QED  BY <1>1, <1>2, <2>1, <3>2, <4>2, <5>1 DEF BotInv, OwnOnly
      <4> QED  BY <4>1, <4>2 DEF OwnOnly
    <3> QED  BY <3>1, <3>2
  <2>3. ASSUME NEW s \in Stops PROVE StopTold(s)'
    <3>1. slot[s] = slot[t] => pc[s] \in {"idle", "done"}
      BY <1>2 DEF TableInv, StopHolds
    <3>2. CASE slot[s] = slot[t]  BY <1>1, <3>1, <3>2 DEF StopTold
    <3>3. CASE slot[s] # slot[t]  BY <1>1, <2>1, <3>3, OthersTold
    <3> QED  BY <3>2, <3>3
  <2> QED  BY <2>2, <2>3 DEF BotInv
<1>4. CASE ~busOpen
  <2>1. UNCHANGED botVars  BY <1>4 DEF StartCommand, Commanded, botVars
  <2> QED  BY <1>1, <2>1, NothingSent
<1> QED  BY <1>3, <1>4

LEMMA StopCommandInv ==
  ASSUME TypeOK, BotTypeOK, TableInv, BotInv, NEW s \in Stops, StopCommand(s)
  PROVE  BotInv'
<1>1. /\ s \in Tasks /\ s \notin Deploys /\ pc[s] = "sendStop" /\ slot[s] \in Bots
      /\ UNCHANGED <<slot, assigned, busOpen>>
      /\ \A r \in Stops : r # s => pc'[r] = pc[r]
      /\ pc'[s] = IF busOpen THEN "awaitStop" ELSE "lost"
  BY TableTyping DEF TypeOK, StopCommand, SendStop, Goto, storeVars
<1>2. CASE busOpen
  <2>1. /\ UNCHANGED strategy
        /\ \A c \in Bots : c # slot[s] => inbox'[c] = inbox[c]
        /\ Len(inbox[slot[s]]) \in Nat /\ Len(inbox'[slot[s]]) = Len(inbox[slot[s]]) + 1
        /\ \A i \in 1..Len(inbox[slot[s]]) : inbox'[slot[s]][i] = inbox[slot[s]][i]
        /\ inbox'[slot[s]][Len(inbox[slot[s]]) + 1] = s
    BY <1>1, <1>2, Enqueued DEF StopCommand
  <2>2. ASSUME NEW b \in Bots PROVE OwnOnly(b)'
    <3>1. CASE b # slot[s]  BY <1>1, <2>1, <3>1 DEF BotInv, OwnOnly
    <3>2. CASE b = slot[s]
      <4>1. strategy'[b] \in {NoDeploy, assigned'[b]}
        BY <1>1, <2>1, <3>2 DEF BotInv, OwnOnly
      <4>2. ASSUME NEW i \in 1..Len(inbox'[b]), inbox'[b][i] \in Deploys
            PROVE  inbox'[b][i] = assigned'[b]
        <5>1. i \in 1..Len(inbox[b]) \/ i = Len(inbox[b]) + 1  BY <2>1, <3>2
        <5> QED  BY <1>1, <2>1, <3>2, <4>2, <5>1 DEF BotInv, OwnOnly
      <4> QED  BY <4>1, <4>2 DEF OwnOnly
    <3> QED  BY <3>1, <3>2
  <2>3. StopTold(s)'
    <3>1. pc'[s] = "awaitStop" /\ slot'[s] = slot[s]  BY <1>1, <1>2
    <3>2. StartsAreFollowed(s)'
      <4> SUFFICES ASSUME NEW i \in 1..Len(inbox'[slot[s]]), inbox'[slot[s]][i] \in Deploys
                   PROVE  \E j \in 1..Len(inbox'[slot[s]]) : j > i /\ inbox'[slot[s]][j] = s
        BY <3>1 DEF StartsAreFollowed
      <4>1. i # Len(inbox[slot[s]]) + 1  BY <1>1, <2>1
      <4>2. /\ Len(inbox[slot[s]]) + 1 \in 1..Len(inbox'[slot[s]])
            /\ Len(inbox[slot[s]]) + 1 > i
        BY <2>1, <4>1
      <4> QED  BY <2>1, <4>2
    <3> QED  BY <3>1, <3>2 DEF StopTold
  <2>4. ASSUME NEW r \in Stops, r # s PROVE StopTold(r)'
    <3>1. slot[r] = slot[s] => pc[r] \in {"idle", "done"}
      BY <1>1, <2>4 DEF TableInv, OneStop
    <3>2. CASE slot[r] = slot[s]  BY <1>1, <2>4, <3>1, <3>2 DEF StopTold
    <3>3. CASE slot[r] # slot[s]  BY <1>1, <2>1, <2>4, <3>3, OthersTold
    <3> QED  BY <3>2, <3>3
  <2> QED  BY <2>2, <2>3, <2>4 DEF BotInv
<1>3. CASE ~busOpen
  <2>1. UNCHANGED botVars  BY <1>3 DEF StopCommand, Commanded, botVars
  <2> QED  BY <1>1, <1>3, <2>1, NothingSent
<1> QED  BY <1>2, <1>3

LEMMA DeployBots ==
  ASSUME Calm, TypeOK, BotTypeOK, TableInv, BotInv,
         NEW t \in Deploys, PoolDeployStep(t)
  PROVE  BotInv'
<1>1. CASE StartCommand(t)  BY <1>1, StartCommandInv
<1>2. CASE ~StartCommand(t)
  <2>1. UNCHANGED botVars /\ (Arrive(t) \/ DeployStep(t))
    BY <1>2 DEF PoolDeployStep, ConfirmRunning, DeployStep
  <2>2. \A s \in Stops : pc'[s] = pc[s] /\ slot'[s] = slot[s]
    <3>1. \A u \in Tasks : u # t => pc'[u] = pc[u] /\ slot'[u] = slot[u]
      BY <2>1, TableTyping DEF Arrive, Receive, Skip, Post, DeployStep, Reserve, Refuse,
         PublishReserved, PublishHydrating, PublishConfiguring, PublishRunning,
         PublishOrGiveUp, Hydrate, Prepare, AssignConfiguring, SendStart, AwaitRunning,
         AssignRunning, Diagnose, MarkFailed, ReportFailed, ReportError, Goto
    <3> QED  BY <3>1, TableTyping
  <2>3. \A b \in Bots : assigned'[b] = assigned[b] \/ assigned[b] = NoDeploy
    BY <2>1, KeptByDeploy DEF Calm
  <2> QED  BY <2>1, <2>2, <2>3, NothingSent
<1> QED  BY <1>1, <1>2

LEMMA StopBots ==
  ASSUME Calm, TypeOK, BotTypeOK, TableInv, BotInv, NEW s \in Stops, PoolStopStep(s)
  PROVE  BotInv'
<1> USE DEF Goto
<1>1. CASE StopCommand(s)  BY <1>1, StopCommandInv
<1>2. ASSUME NEW b \in Bots, StopCall(s, b) PROVE BotInv'
  <2>1. /\ UNCHANGED <<botVars, assigned>> /\ pc'[s] \in {"markStopping", "done"}
        /\ \A u \in Tasks : u # s => pc'[u] = pc[u] /\ slot'[u] = slot[u]
    BY <1>2, TableTyping DEF StopCall, LookUp, storeVars
  <2> QED  BY <2>1, NothingSent, TableTyping
<1>3. CASE ConfirmStopped(s)
  <2>1. /\ UNCHANGED <<botVars, assigned, slot>> /\ pc[s] = "awaitStop"
        /\ \A u \in Tasks : u # s => pc'[u] = pc[u]
        /\ pc'[s] \in {"markCleanup", "lost"}
        /\ pc'[s] = "markCleanup" => SeesStopped(s)
    BY <1>3, TableTyping DEF Calm, ConfirmStopped, AwaitStopped, storeVars
  <2>2. slot[s] \in Bots /\ inbox[slot[s]] \in Seq(Tasks)
    BY <2>1 DEF TypeOK, BotTypeOK
  <2>3. SeesStopped(s) => Silent(slot[s])
    <3> SUFFICES ASSUME SeesStopped(s) PROVE Silent(slot[s])
      OBVIOUS
    <3>1. DOMAIN inbox[slot[s]] = 1..Len(inbox[slot[s]])  BY <2>2
    <3>2. strategy[slot[s]] = NoDeploy /\ \A j \in 1..Len(inbox[slot[s]]) : inbox[slot[s]][j] # s
      BY <3>1 DEF SeesStopped, Settled
    <3> QED  BY <2>1, <3>2 DEF BotInv, StopTold, StartsAreFollowed, Silent
  <2>4. \A r \in Stops : r # s => pc'[r] = pc[r]  BY <2>1, TableTyping
  <2> QED  BY <2>1, <2>3, <2>4, NothingSent
<1>4. CASE StopStep(s) /\ pc[s] \notin {"sendStop", "awaitStop"} /\ UNCHANGED botVars
  <2>1. /\ UNCHANGED slot /\ slot[s] \in Bots
        /\ \A r \in Stops : r # s => pc'[r] = pc[r]
        /\ pc'[s] # "awaitStop"
        /\ pc'[s] \in {"markCleanup", "cleanup", "release"} => pc[s] \in {"markCleanup", "cleanup", "release"}
        /\ pc[s] = "release" => pc'[s] = "done"
        /\ \A b \in Bots : b # slot[s] \/ pc[s] # "release" => assigned'[b] = assigned[b]
    BY <1>4, TableTyping DEF TypeOK, StopStep, MarkStopping, SendStop, AwaitStopped, MarkCleanup,
       Cleanup, Release, MarkStatus, ReleaseIdle, storeVars
  <2>2. pc[s] \in {"markCleanup", "cleanup", "release"} => Silent(slot[s])
    BY DEF BotInv, StopTold
  <2> QED  BY <1>4, <2>1, <2>2, NothingSent
<1> QED  BY <1>1, <1>2, <1>3, <1>4 DEF PoolStopStep

LEMMA WorldBots ==
  ASSUME Calm, TypeOK, BotInv, World, UNCHANGED botVars
  PROVE  BotInv'
<1>1. UNCHANGED <<slot, assigned>>
  BY DEF World, Heartbeat, MarkHeartbeat, Expire, HeartbeatExpires, StatusUpdate, MarkError,
     MarkStatus, Disconnect, Reap, MarkStaleOffline, CloseBus, taskVars, storeVars
<1>2. \A s \in Stops : pc'[s] = pc[s] \/ pc'[s] = "lost"
  BY TableTyping DEF World, Heartbeat, Expire, StatusUpdate, Disconnect, Reap, CloseBus, taskVars
<1> QED  BY <1>1, <1>2, NothingSent

-----------------------------------------------------------------------------

LeaseInv == TypeOK /\ BotTypeOK /\ AssignmentMatchesStatus /\ TableInv /\ BotInv

LEMMA BotSteps ==
  ASSUME Calm, LeaseInv, [PoolNext]_poolVars
  PROVE  BotInv'
<1> USE DEF LeaseInv
<1>1. ASSUME NEW t \in Deploys, PoolDeployStep(t) PROVE BotInv'
  BY <1>1, DeployBots
<1>2. ASSUME NEW s \in Stops, PoolStopStep(s) PROVE BotInv'
  BY <1>2, StopBots
<1>3. ASSUME NEW b \in Bots, BotStep(b) PROVE BotInv'
  BY <1>3, BotStepInv
<1>4. CASE World /\ UNCHANGED botVars  BY <1>4, WorldBots
<1>5. ~RestartSidecar  BY DEF Calm, RestartSidecar
<1>6. CASE UNCHANGED poolVars
  BY <1>6 DEF poolVars, botVars, vars, taskVars, storeVars, BotInv, OwnOnly, StopTold,
     StartsAreFollowed, Silent
<1> QED  BY <1>1, <1>2, <1>3, <1>4, <1>5, <1>6 DEF PoolNext

LEMMA LeaseInvHolds ==
  ASSUME Calm
  PROVE  PoolSpec => []LeaseInv
<1>1. PoolSpec => [](TypeOK /\ AssignmentMatchesStatus /\ TableInv)
  BY CarefulTable DEF Calm
<1>2. PoolInit => BotInv
  <2> SUFFICES ASSUME PoolInit PROVE BotInv
    OBVIOUS
  <2>1. /\ pc = [t \in Tasks |-> "idle"]
        /\ strategy = [b \in Bots |-> NoDeploy]
        /\ inbox = [b \in Bots |-> <<>>]
    BY DEF PoolInit, Init
  <2> QED
    BY <2>1 DEF BotInv, OwnOnly, StopTold, StartsAreFollowed, Silent, Tasks
<1>3. LeaseInv /\ [PoolNext]_poolVars => BotInv'  BY BotSteps
<1>4. PoolTypeOK <=> TypeOK /\ BotTypeOK  BY DEF PoolTypeOK, BotTypeOK
<1> QED  BY <1>1, <1>2, <1>3, <1>4, PoolTypeCorrect, PTL DEF PoolSpec, LeaseInv

\* "Assigns an idle warm bot": in a calm pool, whatever its size, a deployment
\* /status confirmed has its own strategy on its bot.
THEOREM CalmConfirmsItsOwn == Calm => (PoolSpec => []ConfirmedRunsItsOwn)
<1> SUFFICES ASSUME Calm PROVE PoolSpec => []ConfirmedRunsItsOwn
  OBVIOUS
<1>1. LeaseInv => ConfirmedRunsItsOwn
  BY TableTyping DEF LeaseInv, TableInv, BotInv, OwnOnly, HeldSlot, ConfirmedRunsItsOwn, AfterAssign,
     Deploying
<1> QED  BY <1>1, LeaseInvHolds, PTL

\* "Release the warm bot back to idle": a calm pool offers no bot that still runs
\* something.
THEOREM CalmIdleBotsAreIdle == Calm => (PoolSpec => []IdleBotsAreIdle)
<1> SUFFICES ASSUME Calm PROVE PoolSpec => []IdleBotsAreIdle
  OBVIOUS
<1>1. LeaseInv => IdleBotsAreIdle
  BY CarefulStatus DEF Calm, LeaseInv, BotInv, OwnOnly, IdleBotsAreIdle
<1> QED  BY <1>1, LeaseInvHolds, PTL

-----------------------------------------------------------------------------
(***************************************************************************)
(* The refinement.                                                         *)
(***************************************************************************)

HolderFacts ==
  /\ HolderOf \in [Bots -> Deploys \cup {NoDeploy}]
  /\ \A b \in Bots :
       /\ assigned[b] # NoDeploy => HolderOf[b] = assigned[b]
       /\ assigned[b] = NoDeploy => \A t \in Deploys : Claims(t, b) => HolderOf[b] = t
       /\ assigned[b] = NoDeploy /\ (\A t \in Deploys : ~Claims(t, b)) => HolderOf[b] = NoDeploy

LEMMA HolderIsKnown ==
  ASSUME LeaseInv
  PROVE  HolderFacts
<1>1. \A t, u \in Deploys, b \in Bots : Claims(t, b) /\ Claims(u, b) => t = u
  BY DEF LeaseInv, TableInv, ExclusiveBooking, Claims, Deploying
<1>2. assigned \in [Bots -> Deploys \cup {NoDeploy}]
  BY DEF LeaseInv, TypeOK, StoreTypeOK
<1>3. ASSUME NEW b \in Bots
      PROVE  /\ HolderOf[b] \in Deploys \cup {NoDeploy}
             /\ assigned[b] # NoDeploy => HolderOf[b] = assigned[b]
             /\ assigned[b] = NoDeploy => \A t \in Deploys : Claims(t, b) => HolderOf[b] = t
             /\ assigned[b] = NoDeploy /\ (\A t \in Deploys : ~Claims(t, b)) => HolderOf[b] = NoDeploy
  <2>1. CASE assigned[b] # NoDeploy  BY <1>2, <2>1 DEF HolderOf
  <2>2. CASE assigned[b] = NoDeploy /\ \E t \in Deploys : Claims(t, b)
    <3>1. HolderOf[b] = CHOOSE t \in Deploys : Claims(t, b)  BY <2>2 DEF HolderOf
    <3>2. HolderOf[b] \in Deploys /\ Claims(HolderOf[b], b)  BY <2>2, <3>1
    <3> QED  BY <1>1, <2>2, <3>2
  <2>3. CASE assigned[b] = NoDeploy /\ ~\E t \in Deploys : Claims(t, b)
    BY <2>3 DEF HolderOf
  <2> QED  BY <2>1, <2>2, <2>3
<1>4. HolderOf = [b \in Bots |-> HolderOf[b]]  BY DEF HolderOf
<1> QED  BY <1>3, <1>4 DEF HolderFacts

\* A holder changes with the assignment or with a claim, and only then.
LEMMA SameHolder ==
  ASSUME HolderFacts, HolderFacts', NEW b \in Bots,
         assigned'[b] = assigned[b],
         assigned[b] = NoDeploy => \A t \in Deploys : Claims(t, b)' <=> Claims(t, b)
  PROVE  HolderOf'[b] = HolderOf[b]
<1>1. CASE assigned[b] # NoDeploy  BY <1>1 DEF HolderFacts
<1>2. CASE assigned[b] = NoDeploy /\ \E t \in Deploys : Claims(t, b)
  BY <1>2 DEF HolderFacts
<1>3. CASE assigned[b] = NoDeploy /\ \A t \in Deploys : ~Claims(t, b)
  BY <1>3 DEF HolderFacts
<1> QED  BY <1>1, <1>2, <1>3

LEMMA SameHolders ==
  ASSUME HolderFacts, HolderFacts', \A b \in Bots : HolderOf'[b] = HolderOf[b]
  PROVE  UNCHANGED HolderOf
BY DEF HolderFacts

LEMMA OneHolderMoves ==
  ASSUME HolderFacts, HolderFacts', NEW b \in Bots, NEW t \in Deploys \cup {NoDeploy},
         HolderOf'[b] = t, \A c \in Bots : c # b => HolderOf'[c] = HolderOf[c]
  PROVE  HolderOf' = [HolderOf EXCEPT ![b] = t]
BY DEF HolderFacts

LEMMA GivesBack ==
  ASSUME HolderFacts, HolderFacts', NEW b \in Bots, strategy[b] = NoDeploy, UNCHANGED strategy,
         HolderOf'[b] = NoDeploy, \A c \in Bots : c # b => HolderOf'[c] = HolderOf[c]
  PROVE  Lease!Next
<1>1. HolderOf' = [HolderOf EXCEPT ![b] = NoDeploy]  BY OneHolderMoves
<1>2. Lease!Give(b)  BY <1>1 DEF Lease!Give, Lease!Empty
<1> QED  BY <1>2 DEF Lease!Next

LEMMA ReserveTakes ==
  ASSUME Calm, LeaseInv, HolderFacts, HolderFacts', NEW t \in Deploys, Reserve(t),
         UNCHANGED botVars
  PROVE  Lease!Next
<1> USE DEF LeaseInv
<1>1. PICK b \in Bots : ReserveIdle(b) /\ slot' = [slot EXCEPT ![t] = b]
  BY DEF Reserve
<1>2. /\ pc[t] = "reserve" /\ pc'[t] \in BeforeAssign /\ slot'[t] = b
      /\ status[b] = "idle" /\ assigned[b] = NoDeploy /\ UNCHANGED <<assigned, strategy>>
      /\ \A u \in Tasks : u # t => pc'[u] = pc[u] /\ slot'[u] = slot[u]
  BY <1>1, TableTyping, CarefulStatus DEF Calm, Reserve, ReserveIdle, Goto, BeforeAssign, botVars
<1>3. \A u \in Deploys : ~Claims(u, b)
  BY <1>2 DEF TableInv, HeldSlot, Claims
<1>4. \A c \in Bots : ~Claims(t, c) /\ assigned[c] # t
  BY <1>2, NoDeployAssumption DEF Claims, BeforeAssign, TableInv, Written, Early
<1>5. HolderOf[b] = NoDeploy /\ strategy[b] = NoDeploy
  BY <1>2, <1>3 DEF HolderFacts, BotInv, OwnOnly
<1>6. \A c \in Bots : HolderOf[c] # t
  BY <1>4, NoDeployAssumption, TableTyping DEF HolderOf
<1>7. HolderOf'[b] = t
  BY <1>2 DEF HolderFacts, Claims
<1>8. ASSUME NEW c \in Bots, c # b PROVE HolderOf'[c] = HolderOf[c]
  <2>1. \A u \in Deploys : Claims(u, c)' <=> Claims(u, c)
    BY <1>2, <1>4, <1>8, TableTyping DEF Claims
  <2> QED  BY <1>2, <2>1, SameHolder
<1>9. HolderOf' = [HolderOf EXCEPT ![b] = t]  BY <1>7, <1>8, OneHolderMoves
<1>10. Lease!Take(b, t)  BY <1>2, <1>5, <1>6, <1>9 DEF Lease!Take, Lease!Empty
<1> QED  BY <1>10 DEF Lease!Next

\* The other steps of a deployment: the assignment replaces the claim, and a
\* deployment that ends without an assignment gives its empty bot back.
LEMMA DeployHolds ==
  ASSUME Calm, LeaseInv, HolderFacts, HolderFacts', NEW t \in Deploys,
         Arrive(t) \/ DeployStep(t), ~Reserve(t), UNCHANGED strategy
  PROVE  [Lease!Next]_Lease!vars
<1> USE DEF LeaseInv
<1>1. /\ UNCHANGED slot
      /\ \A u \in Tasks : u # t => pc'[u] = pc[u]
      /\ \A b \in Bots : b # slot[t] => assigned'[b] = assigned[b]
      /\ slot[t] \in Bots =>
           \/ assigned'[slot[t]] = assigned[slot[t]]
           \/ /\ pc[t] \in BeforeAssign \cup AfterAssign
              /\ assigned'[slot[t]] = t
      /\ pc'[t] \in BeforeAssign \cup {"markError"} => pc[t] \in BeforeAssign \cup AfterAssign
    BY TableTyping
    DEF Arrive, Receive, Skip, Post, DeployStep, Refuse, PublishReserved, PublishHydrating,
        PublishConfiguring, PublishRunning, PublishOrGiveUp, Hydrate, Prepare, AssignConfiguring,
        Assign, SendStart, AwaitRunning, AssignRunning, OnStartError, Diagnose, MarkFailed,
        MarkError, MarkStatus, ReportFailed, ReportError, Goto, BeforeAssign, AfterAssign, storeVars
<1>2. HeldSlot(t)  BY DEF TableInv
<1>3. ASSUME NEW c \in Bots, c # slot[t] PROVE HolderOf'[c] = HolderOf[c]
  <2>1. \A u \in Deploys : Claims(u, c)' <=> Claims(u, c)
    BY <1>1, <1>3, TableTyping DEF Claims
  <2> QED  BY <1>1, <1>3, <2>1, SameHolder
<1>4. CASE slot[t] \notin Bots
  BY <1>3, <1>4, SameHolders DEF Lease!vars
<1>5. CASE slot[t] \in Bots
  <2>0. PICK b \in Bots : b = slot[t]  BY <1>5
  <2>1. CASE HolderOf'[b] = HolderOf[b]
    BY <1>3, <2>0, <2>1, SameHolders DEF Lease!vars
  <2>2. CASE HolderOf'[b] # HolderOf[b]
    <3>1. assigned'[b] = assigned[b]
      <4> SUFFICES ASSUME pc[t] \in BeforeAssign \cup AfterAssign, assigned'[b] = t PROVE FALSE
        BY <1>1, <2>0, <2>2
      <4>1. HolderOf'[b] = t  BY <2>0, NoDeployAssumption DEF HolderFacts
      <4>2. HolderOf[b] = t
        BY <1>2, <2>0, NoDeployAssumption DEF HolderFacts, HeldSlot, Claims
      <4> QED  BY <2>2, <4>1, <4>2
    <3>2. assigned[b] = NoDeploy
      BY <2>0, <2>2, <3>1 DEF HolderFacts
    <3>3. Claims(t, b) /\ ~Claims(t, b)'
      <4>1. ~(Claims(t, b)' <=> Claims(t, b))
        <5> SUFFICES ASSUME Claims(t, b)' <=> Claims(t, b) PROVE FALSE
          OBVIOUS
        <5>1. \A u \in Deploys : Claims(u, b)' <=> Claims(u, b)
          BY <1>1, TableTyping DEF Claims
        <5> QED  BY <2>0, <2>2, <3>1, <5>1, SameHolder
      <4>2. Claims(t, b)' => Claims(t, b)
        BY <1>1, <1>2, <2>0, <3>2, NoDeployAssumption DEF Claims, HeldSlot
      <4> QED  BY <4>1, <4>2
    <3>4. \A u \in Deploys : ~Claims(u, b)'
      <4>1. \A u \in Deploys : Claims(u, b) => u = t
        BY <2>0, <3>2, <3>3 DEF HolderFacts
      <4>2. \A u \in Deploys : u # t => (Claims(u, b)' <=> Claims(u, b))
        BY <1>1, TableTyping DEF Claims
      <4> QED  BY <3>3, <4>1, <4>2
    <3>5. HolderOf'[b] = NoDeploy  BY <2>0, <3>1, <3>2, <3>4 DEF HolderFacts
    <3>6. strategy[b] = NoDeploy  BY <2>0, <3>2 DEF BotInv, OwnOnly
    <3> QED  BY <1>3, <2>0, <3>5, <3>6, GivesBack
  <2> QED  BY <2>1, <2>2
<1> QED  BY <1>4, <1>5

\* A stop gives back the bot it has silenced.
LEMMA StopGives ==
  ASSUME Calm, LeaseInv, HolderFacts, HolderFacts', NEW s \in Stops, StopStep(s),
         UNCHANGED strategy
  PROVE  [Lease!Next]_Lease!vars
<1> USE DEF LeaseInv
<1>1. /\ UNCHANGED slot /\ slot[s] \in Bots /\ pc[s] \notin {"idle", "done"}
      /\ \A u \in Deploys : pc'[u] = pc[u]
      /\ \A b \in Bots : b # slot[s] \/ pc[s] # "release" => assigned'[b] = assigned[b]
      /\ pc[s] = "release" => assigned'[slot[s]] = NoDeploy
  BY TableTyping DEF TypeOK, StopStep, MarkStopping, SendStop, AwaitStopped, MarkCleanup, Cleanup,
     Release, MarkStatus, ReleaseIdle, Goto, storeVars
<1>2. \A u \in Deploys, b \in Bots : Claims(u, b)' <=> Claims(u, b)
  BY <1>1 DEF Claims
<1>3. \A b \in Bots : b # slot[s] \/ pc[s] # "release" => HolderOf'[b] = HolderOf[b]
  BY <1>1, <1>2, SameHolder
<1>4. CASE pc[s] # "release"  BY <1>3, <1>4, SameHolders DEF Lease!vars
<1>5. CASE pc[s] = "release"
  <2>1. \A u \in Deploys : ~Claims(u, slot[s])
    <3>1. status[slot[s]] \notin {"reserved", "configuring"}
      BY <1>1 DEF TableInv, StopHolds
    <3> QED  BY <3>1 DEF TableInv, HeldSlot, Claims
  <2>2. HolderOf'[slot[s]] = NoDeploy  BY <1>1, <1>2, <1>5, <2>1 DEF HolderFacts
  <2>3. strategy[slot[s]] = NoDeploy  BY <1>5 DEF BotInv, StopTold, Silent
  <2> QED  BY <1>1, <1>3, <2>2, <2>3, GivesBack
<1> QED  BY <1>4, <1>5

\* Bots begin nothing but the strategy of their holder.
LEMMA BotsBeginAndEnd ==
  ASSUME LeaseInv, HolderFacts, HolderFacts', NEW b \in Bots, BotStep(b)
  PROVE  [Lease!Next]_Lease!vars
<1>1. UNCHANGED HolderOf
  <2>1. UNCHANGED <<assigned, slot, pc>>
    BY DEF BotStep, ObeyStart, ObeyStop, LoseCommand, StrategyEnds, vars, taskVars, storeVars
  <2>2. \A t \in Deploys, c \in Bots : Claims(t, c)' <=> Claims(t, c)  BY <2>1 DEF Claims
  <2>3. \A c \in Bots : HolderOf'[c] = HolderOf[c]  BY <2>1, <2>2, SameHolder
  <2> QED  BY <2>3, SameHolders
<1>2. CASE UNCHANGED strategy  BY <1>1, <1>2 DEF Lease!vars
<1>3. CASE strategy' = [strategy EXCEPT ![b] = NoDeploy]
  BY <1>1, <1>3 DEF Lease!Next, Lease!End
<1>4. CASE ObeyStart(b) /\ strategy' = [strategy EXCEPT ![b] = Head(inbox[b])]
  <2>1. inbox[b] # <<>> /\ inbox[b] \in Seq(Tasks) /\ Head(inbox[b]) \in Deploys
    BY <1>4 DEF ObeyStart, LeaseInv, BotTypeOK
  <2>2. 1 \in 1..Len(inbox[b]) /\ Head(inbox[b]) = inbox[b][1]
    BY <2>1, TailItems
  <2>3. Head(inbox[b]) = assigned[b]  BY <2>1, <2>2 DEF LeaseInv, BotInv, OwnOnly
  <2>4. HolderOf[b] = Head(inbox[b]) /\ HolderOf[b] # NoDeploy
    BY <2>1, <2>3, NoDeployAssumption DEF HolderFacts
  <2>5. Lease!Begin(b)  BY <1>1, <1>4, <2>4 DEF Lease!Begin
  <2> QED  BY <2>5 DEF Lease!Next
<1> QED  BY <1>2, <1>3, <1>4 DEF BotStep, ObeyStart, ObeyStop, LoseCommand, StrategyEnds

LEMMA LeaseSteps ==
  ASSUME Calm, LeaseInv, HolderFacts, HolderFacts', [PoolNext]_poolVars
  PROVE  [Lease!Next]_Lease!vars
<1>1. ASSUME NEW t \in Deploys, PoolDeployStep(t) PROVE [Lease!Next]_Lease!vars
  <2>1. (Arrive(t) \/ DeployStep(t)) /\ UNCHANGED strategy
    BY <1>1 DEF PoolDeployStep, StartCommand, Commanded, ConfirmRunning, DeployStep, botVars
  <2>2. Reserve(t) => UNCHANGED botVars
    BY <1>1 DEF PoolDeployStep, StartCommand, SendStart, ConfirmRunning, Reserve, Goto
  <2> QED  BY <2>1, <2>2, ReserveTakes, DeployHolds
<1>2. ASSUME NEW s \in Stops, PoolStopStep(s) PROVE [Lease!Next]_Lease!vars
  <2>1. UNCHANGED strategy
    BY <1>2 DEF PoolStopStep, StopCall, StopCommand, Commanded, ConfirmStopped, botVars
  <2>2. CASE StopStep(s)  BY <2>1, <2>2, StopGives
  <2>3. ASSUME NEW b \in Bots, StopCall(s, b) PROVE UNCHANGED HolderOf
    <3>1. /\ UNCHANGED assigned
          /\ \A u \in Tasks : u # s => pc'[u] = pc[u] /\ slot'[u] = slot[u]
      BY <2>3, TableTyping DEF LeaseInv, StopCall, LookUp, Goto, storeVars
    <3>2. \A u \in Deploys, c \in Bots : Claims(u, c)' <=> Claims(u, c)
      BY <3>1, TableTyping DEF LeaseInv, Claims
    <3>3. \A c \in Bots : HolderOf'[c] = HolderOf[c]  BY <3>1, <3>2, SameHolder
    <3> QED  BY <3>3, SameHolders
  <2> QED  BY <1>2, <2>1, <2>2, <2>3
           DEF PoolStopStep, StopCommand, ConfirmStopped, StopStep, Lease!vars
<1>3. ASSUME NEW b \in Bots, BotStep(b) PROVE [Lease!Next]_Lease!vars
  BY <1>3, BotsBeginAndEnd
<1>4. CASE World /\ UNCHANGED botVars
  <2>1. UNCHANGED <<slot, assigned>>
    BY <1>4 DEF World, Heartbeat, MarkHeartbeat, Expire, HeartbeatExpires, StatusUpdate, MarkError,
       MarkStatus, Disconnect, Reap, MarkStaleOffline, CloseBus, taskVars, storeVars
  <2>2. \A u \in Deploys : pc'[u] = pc[u]
    BY <1>4, TableTyping
    DEF LeaseInv, Calm, Careful, World, Heartbeat, Expire, StatusUpdate, Disconnect, Reap, CloseBus, taskVars
  <2>3. \A u \in Deploys, c \in Bots : Claims(u, c)' <=> Claims(u, c)
    BY <2>1, <2>2 DEF Claims
  <2>4. \A c \in Bots : HolderOf'[c] = HolderOf[c]  BY <2>1, <2>3, SameHolder
  <2> QED  BY <1>4, <2>4, SameHolders DEF botVars, Lease!vars
<1>5. CASE UNCHANGED poolVars
  <2>1. UNCHANGED <<slot, assigned, pc, strategy>>
    BY <1>5 DEF poolVars, botVars, vars, taskVars, storeVars
  <2>2. \A u \in Deploys, c \in Bots : Claims(u, c)' <=> Claims(u, c)  BY <2>1 DEF Claims
  <2>3. \A c \in Bots : HolderOf'[c] = HolderOf[c]  BY <2>1, <2>2, SameHolder
  <2> QED  BY <2>1, <2>3, SameHolders DEF Lease!vars
<1>6. ~RestartSidecar  BY DEF Calm, RestartSidecar
<1> QED  BY <1>1, <1>2, <1>3, <1>4, <1>5, <1>6 DEF PoolNext

\* A calm sidecar lends its bots as BotLease promises, whatever the number of
\* bots, requests and stops, and whatever is lost, closed or delayed on the way.
THEOREM CalmImplementsLease == Calm => (PoolSpec => LeaseContract)
<1> SUFFICES ASSUME Calm PROVE PoolSpec => LeaseContract
  OBVIOUS
<1>1. LeaseInv => HolderFacts  BY HolderIsKnown
<1>2. PoolInit /\ HolderFacts => Lease!Init
  <2> SUFFICES ASSUME PoolInit, HolderFacts PROVE Lease!Init
    OBVIOUS
  <2>1. /\ \A b \in Bots : assigned[b] = NoDeploy /\ \A t \in Deploys : ~Claims(t, b)
        /\ strategy = [b \in Bots |-> NoDeploy]
    BY DEF PoolInit, Init, StoreInit, Claims, BeforeAssign, Tasks
  <2>2. HolderOf = [b \in Bots |-> NoDeploy]  BY <2>1 DEF HolderFacts
  <2> QED  BY <2>1, <2>2 DEF Lease!Init
<1>3. LeaseInv /\ HolderFacts /\ HolderFacts' /\ [PoolNext]_poolVars => [Lease!Next]_Lease!vars
  BY LeaseSteps
<1> QED  BY <1>1, <1>2, <1>3, LeaseInvHolds, PTL DEF PoolSpec, LeaseContract, Lease!Spec
=============================================================================
