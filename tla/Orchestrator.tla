---------------------------- MODULE Orchestrator ----------------------------
(***************************************************************************)
(* The orchestrator, src/src/orchestrator.rs, over the slot table.  Four   *)
(* kinds of task share the table, and every .await lets another one run:   *)
(*                                                                         *)
(*   - a worker per request from orchestrate/deploy (Orch), spawned by the *)
(*     listener: deploy_from_orchestration_request;                        *)
(*   - an HTTP handler per deploy-v2-controllers call (Http):              *)
(*     deploy_v2_controllers;                                              *)
(*   - an HTTP handler per stop-bot call (Stops): stop_bot;                *)
(*   - the MQTT event loop and the heartbeat reaper, which write the table *)
(*     whenever a message or the timer comes.                              *)
(*                                                                         *)
(* pc names the await a task is at.  The R2 download, the copying of files *)
(* and the /status polling are one step each with the outcomes the caller  *)
(* distinguishes; StatusRpc opens up the polling.                          *)
(***************************************************************************)
EXTENDS SlotStore, Sequences

CONSTANTS
  Orch,               \* deployments requested over MQTT, one per delivery
  Stops,              \* stop-bot calls
  Scripted,           \* deployments that name a script config
  Updates,            \* what status_updates messages may say
  ClientsDisconnect,  \* may an HTTP client go away before its answer?
  BusMayClose,        \* may the MQTT client's event loop end?
  NoBot

Http == Deploys \ Orch
Tasks == Deploys \cup Stops
UpdateKinds == {"bootstrapping", "idle", "running", "failed"}

ASSUME TasksAssumption ==
  /\ Orch \subseteq Deploys
  /\ Http \subseteq Scripted /\ Scripted \subseteq Deploys
  /\ Deploys \cap Stops = {}
  /\ Updates \subseteq UpdateKinds
  /\ ClientsDisconnect \in BOOLEAN /\ BusMayClose \in BOOLEAN
  /\ NoBot \notin Bots

VARIABLES
  pc,       \* where each task is
  slot,     \* the slot a deployment reserved, or a stop names
  snap,     \* what stop_bot read of the assignment before it stopped anything
  feed,     \* orchestrate/status events of each MQTT request
  busOpen   \* the event loop still takes requests from AsyncClient

taskVars == <<pc, slot, snap, feed, busOpen>>
vars == <<storeVars, taskVars>>

\* Points at which a deployment has its slot and has yet to record its outcome.
BeforeAssign == {"pubReserved", "pubHydrating", "hydrate", "prepare", "assign"}
AfterAssign == {"pubConfiguring", "start", "await", "assignRunning", "diagnose"}
Deploying == BeforeAssign \cup AfterAssign \cup {"markError"}

\* Points at which a stop has marked its slot and has yet to move it on.
Stopping == {"sendStop", "awaitStop", "markCleanup"}

\* A task that ended without recording anything about its slot.
Lost == {"giveUp", "lost"}

DeployPCs == {"idle", "reserve", "refused", "pubRunning", "pubError", "done"}
               \cup Deploying \cup Lost
StopPCs == {"idle", "markStopping", "cleanup", "release", "done", "lost"}
             \cup Stopping

TypeOK ==
  /\ StoreTypeOK
  /\ pc \in [Tasks -> DeployPCs \cup StopPCs]
  /\ \A t \in Deploys : pc[t] \in DeployPCs
  /\ \A s \in Stops : pc[s] \in StopPCs
  /\ slot \in [Tasks -> Bots \cup {NoBot}]
  /\ \A t \in Deploys : pc[t] \in Deploying \cup {"pubRunning", "giveUp"} => slot[t] \in Bots
  /\ \A s \in Stops : pc[s] \notin {"idle", "done", "lost"} => slot[s] \in Bots
  /\ snap \in [Stops -> Deploys \cup {NoDeploy}]
  /\ feed \in [Orch -> Seq({"reserved", "hydrating", "configuring", "running", "failed"})]
  /\ busOpen \in BOOLEAN

Init ==
  /\ StoreInit
  /\ pc = [t \in Tasks |-> "idle"]
  /\ slot = [t \in Tasks |-> NoBot]
  /\ snap = [s \in Stops |-> NoDeploy]
  /\ feed = [t \in Orch |-> <<>>]
  /\ busOpen = TRUE

-----------------------------------------------------------------------------
(***************************************************************************)
(* Helpers.                                                                *)
(***************************************************************************)

Goto(t, from, to) == pc[t] = from /\ pc' = [pc EXCEPT ![t] = to]

\* AsyncClient::publish fails once the event loop is gone, and only then.
Published(t, event) ==
  feed' = IF busOpen THEN [feed EXCEPT ![t] = Append(@, event)] ELSE feed

\* A publish whose failure ends the request through `?`.
PublishOrGiveUp(t, from, event, to) ==
  /\ Goto(t, from, IF busOpen THEN to ELSE "giveUp")
  /\ Published(t, event)
  /\ UNCHANGED <<storeVars, slot, snap, busOpen>>

\* Mutant of OnStartError: a failed start is reported and the slot is not marked.
OnStartErrorReportOnly(t) == IF t \in Orch THEN "pubError" ELSE "done"

\* Where a deployment goes when start_strategy fails.
OnStartError(t) == IF t \in Orch THEN "markError" ELSE "diagnose"

-----------------------------------------------------------------------------
(***************************************************************************)
(* Deployments.                                                            *)
(***************************************************************************)

\* The listener gets a well-formed request and spawns its worker.
Receive(t) ==
  /\ t \in Orch
  /\ Goto(t, "idle", "reserve")
  /\ UNCHANGED <<storeVars, slot, snap, feed, busOpen>>

\* The listener skips a payload that does not parse, or one it lagged behind.
Skip(t) ==
  /\ t \in Orch
  /\ Goto(t, "idle", "done")
  /\ UNCHANGED <<storeVars, slot, snap, feed, busOpen>>

\* deploy-v2-controllers; an empty controllers_config is a 400.
Post(t) ==
  /\ t \in Http
  /\ \E next \in {"reserve", "done"} : Goto(t, "idle", next)
  /\ UNCHANGED <<storeVars, slot, snap, feed, busOpen>>

Reserve(t) ==
  /\ \E b \in Bots :
       /\ ReserveIdle(b)
       /\ slot' = [slot EXCEPT ![t] = b]
  /\ Goto(t, "reserve", IF t \in Orch THEN "pubReserved" ELSE "prepare")
  /\ UNCHANGED <<snap, feed, busOpen>>

\* Mutants of Refuse: the worker ends without a word, or goes on without a slot.
RefuseSilently(t) ==
  /\ NoneIdle
  /\ Goto(t, "reserve", "done")
  /\ UNCHANGED <<storeVars, slot, snap, feed, busOpen>>

RefuseAndGoOn(t) ==
  /\ NoneIdle
  /\ Goto(t, "reserve", IF t \in Orch THEN "pubReserved" ELSE "prepare")
  /\ UNCHANGED <<storeVars, slot, snap, feed, busOpen>>

\* No idle slot: a 409 over HTTP, a "failed" without a bot name over MQTT.
Refuse(t) ==
  /\ NoneIdle
  /\ Goto(t, "reserve", IF t \in Orch THEN "refused" ELSE "done")
  /\ UNCHANGED <<storeVars, slot, snap, feed, busOpen>>

PublishReserved(t) == PublishOrGiveUp(t, "pubReserved", "reserved", "pubHydrating")
PublishHydrating(t) == PublishOrGiveUp(t, "pubHydrating", "hydrating", "hydrate")
PublishConfiguring(t) == PublishOrGiveUp(t, "pubConfiguring", "configuring", "start")
PublishRunning(t) == PublishOrGiveUp(t, "pubRunning", "running", "done")

\* R2 hydration, then the copy into the bot's conf directory; both may fail.
Hydrate(t) ==
  /\ \E next \in {"prepare", "markError"} : Goto(t, "hydrate", next)
  /\ UNCHANGED <<storeVars, slot, snap, feed, busOpen>>

Prepare(t) ==
  /\ \E next \in {"assign", "markError"} : Goto(t, "prepare", next)
  /\ UNCHANGED <<storeVars, slot, snap, feed, busOpen>>

AssignConfiguring(t) ==
  /\ Goto(t, "assign", IF t \in Orch THEN "pubConfiguring" ELSE "start")
  /\ Assign(slot[t], "configuring", t)
  /\ UNCHANGED <<slot, snap, feed, busOpen>>

\* start_strategy: the start command, then polling until the strategy runs or
\* the command timeout passes.
SendStart(t) ==
  /\ Goto(t, "start", IF busOpen THEN "await" ELSE OnStartError(t))
  /\ UNCHANGED <<storeVars, slot, snap, feed, busOpen>>

AwaitRunning(t) ==
  /\ \E next \in {"assignRunning", OnStartError(t)} : Goto(t, "await", next)
  /\ UNCHANGED <<storeVars, slot, snap, feed, busOpen>>

AssignRunning(t) ==
  /\ Goto(t, "assignRunning", IF t \in Orch THEN "pubRunning" ELSE "done")
  /\ Assign(slot[t], "running", t)
  /\ UNCHANGED <<slot, snap, feed, busOpen>>

\* The HTTP path collects container logs, marks the slot, and marks it again in
\* deploy_v2_controllers.
Diagnose(t) ==
  /\ Goto(t, "diagnose", "markError")
  /\ MarkError(slot[t])
  /\ UNCHANGED <<slot, snap, feed, busOpen>>

\* Mutant of MarkFailed: the slot is left as it was.
FailUnmarked(t) ==
  /\ Goto(t, "markError", IF t \in Orch THEN "pubError" ELSE "done")
  /\ UNCHANGED <<storeVars, slot, snap, feed, busOpen>>

MarkFailed(t) ==
  /\ Goto(t, "markError", IF t \in Orch THEN "pubError" ELSE "done")
  /\ MarkError(slot[t])
  /\ UNCHANGED <<slot, snap, feed, busOpen>>

\* Mutant of ReportFailed: the error is returned as well, and reported again.
ReportFailedAndReturnErr(t) ==
  /\ Goto(t, "pubError", "refused")
  /\ Published(t, "failed")
  /\ UNCHANGED <<storeVars, slot, snap, busOpen>>

\* "failed" with the bot's name; its own failure is ignored.
ReportFailed(t) ==
  /\ Goto(t, "pubError", "done")
  /\ Published(t, "failed")
  /\ UNCHANGED <<storeVars, slot, snap, busOpen>>

\* handle_orchestration_request reports every request that ended in Err.  A
\* request that gave up has left its slot as it was.
ReportError(t) ==
  /\ \/ Goto(t, "refused", "done")
     \/ Goto(t, "giveUp", "lost")
  /\ Published(t, "failed")
  /\ UNCHANGED <<storeVars, slot, snap, busOpen>>

-----------------------------------------------------------------------------
(***************************************************************************)
(* stop_bot.  It looks at no status: any known slot can be stopped.        *)
(***************************************************************************)

\* get_slot, and what the later cleanup will work from; unknown bots are a 404.
LookUp(s, b) ==
  /\ Goto(s, "idle", IF Known(b) THEN "markStopping" ELSE "done")
  /\ slot' = [slot EXCEPT ![s] = b]
  /\ snap' = [snap EXCEPT ![s] = assigned[b]]
  /\ UNCHANGED <<storeVars, feed, busOpen>>

MarkStopping(s) ==
  /\ Goto(s, "markStopping", "sendStop")
  /\ MarkStatus(slot[s], "stopping")
  /\ UNCHANGED <<slot, snap, feed, busOpen>>

\* A publish error is a 503 and leaves the slot stopping.
SendStop(s) ==
  /\ Goto(s, "sendStop", IF busOpen THEN "awaitStop" ELSE "lost")
  /\ UNCHANGED <<storeVars, slot, snap, feed, busOpen>>

\* Mutant of AwaitStopped: the wait for a confirmation has no limit.
AwaitStoppedForever(s) ==
  /\ ~busOpen /\ Goto(s, "awaitStop", "lost")
  /\ UNCHANGED <<storeVars, slot, snap, feed, busOpen>>

\* Confirmed or timed out, stop_bot goes on; only a failed poll ends it.
AwaitStopped(s) ==
  /\ \/ Goto(s, "awaitStop", "markCleanup")
     \/ ~busOpen /\ Goto(s, "awaitStop", "lost")
  /\ UNCHANGED <<storeVars, slot, snap, feed, busOpen>>

MarkCleanup(s) ==
  /\ Goto(s, "markCleanup", "cleanup")
  /\ MarkStatus(slot[s], "cleanup")
  /\ UNCHANGED <<slot, snap, feed, busOpen>>

\* cleanup_assignment runs when the snapshot had a config, and refuses a name
\* that leads out of the directory: an error, with the slot left in cleanup.
Cleanup(s) ==
  /\ \/ Goto(s, "cleanup", "release")
     \/ snap[s] \in Scripted /\ Goto(s, "cleanup", "done")
  /\ UNCHANGED <<storeVars, slot, snap, feed, busOpen>>

Release(s) ==
  /\ Goto(s, "release", "done")
  /\ ReleaseIdle(slot[s])
  /\ UNCHANGED <<slot, snap, feed, busOpen>>

-----------------------------------------------------------------------------
(***************************************************************************)
(* The event loop, the reaper, and the world.                              *)
(***************************************************************************)

\* handle_publish on hbot/<bot>/hb.
Heartbeat(b) ==
  /\ busOpen
  /\ MarkHeartbeat(b)
  /\ UNCHANGED taskVars

\* handle_publish on hbot/<bot>/status_updates.
StatusUpdate(b, kind) ==
  /\ busOpen
  /\ IF kind = "failed" THEN MarkError(b) ELSE MarkStatus(b, kind)
  /\ UNCHANGED taskVars

Reap == MarkStaleOffline /\ UNCHANGED taskVars

Expire(b) == HeartbeatExpires(b) /\ UNCHANGED taskVars

\* axum drops the handler of a client that hung up, at whatever await it is.
Disconnect(t) ==
  /\ ClientsDisconnect
  /\ t \in Http \cup Stops
  /\ pc[t] \notin {"idle", "done", "lost"}
  /\ pc' = [pc EXCEPT ![t] = "lost"]
  /\ UNCHANGED <<storeVars, slot, snap, feed, busOpen>>

CloseBus ==
  /\ BusMayClose /\ busOpen
  /\ busOpen' = FALSE
  /\ UNCHANGED <<storeVars, pc, slot, snap, feed>>

-----------------------------------------------------------------------------

Arrive(t) == Receive(t) \/ Skip(t) \/ Post(t)

DeployStep(t) ==
  \/ Reserve(t) \/ Refuse(t)
  \/ PublishReserved(t) \/ PublishHydrating(t) \/ Hydrate(t) \/ Prepare(t)
  \/ AssignConfiguring(t) \/ PublishConfiguring(t) \/ SendStart(t)
  \/ AwaitRunning(t) \/ AssignRunning(t) \/ PublishRunning(t)
  \/ Diagnose(t) \/ MarkFailed(t) \/ ReportFailed(t) \/ ReportError(t)

StopStep(s) ==
  \/ MarkStopping(s) \/ SendStop(s) \/ AwaitStopped(s)
  \/ MarkCleanup(s) \/ Cleanup(s) \/ Release(s)

World ==
  \/ \E b \in Bots : Heartbeat(b) \/ Expire(b)
  \/ \E b \in Bots, kind \in Updates : StatusUpdate(b, kind)
  \/ \E t \in Tasks : Disconnect(t)
  \/ Reap
  \/ CloseBus

Next ==
  \/ \E t \in Deploys : Arrive(t) \/ DeployStep(t)
  \/ \E s \in Stops : StopStep(s) \/ \E b \in Bots : LookUp(s, b)
  \/ World

Spec == Init /\ [][Next]_vars

\* tokio keeps polling a task that can go on, and the reaper's timer; nobody owes
\* a request, a message or a heartbeat.
Fairness ==
  /\ \A t \in Deploys : WF_vars(DeployStep(t))
  /\ \A s \in Stops : WF_vars(StopStep(s))
  /\ WF_vars(Reap)

FairSpec == Spec /\ Fairness

-----------------------------------------------------------------------------
(***************************************************************************)
(* Properties.                                                             *)
(***************************************************************************)

\* A slot the reaper spares because an operation has it either has a live
\* operation that will move it on, or lost one to a closed bus or a client that
\* hung up: no interleaving of workers, stops, messages and the reaper strands a
\* slot in any other way.
OrphansOnlyByLoss ==
  \A b \in Bots :
    /\ status[b] \in {"reserved", "configuring"} =>
         \E t \in Deploys : slot[t] = b /\ pc[t] \in Deploying \cup Lost
    /\ status[b] = "stopping" =>
         \E s \in Stops : slot[s] = b /\ pc[s] \in Stopping \cup {"lost"}

\* The same without the excuse: a slot the reaper spares has a live operation.
HeldByLiveTask ==
  \A b \in Bots :
    /\ status[b] \in {"reserved", "configuring"} =>
         \E t \in Deploys : slot[t] = b /\ pc[t] \in Deploying
    /\ status[b] = "stopping" =>
         \E s \in Stops : slot[s] = b /\ pc[s] \in Stopping

\* Unless a bot says so itself, a slot is never offered as idle while it carries
\* someone's assignment and never shown as running while it carries none.
AssignmentMatchesStatus ==
  \A b \in Bots :
    /\ status[b] = "idle" /\ "idle" \notin Updates => assigned[b] = NoDeploy
    /\ status[b] = "running" /\ "running" \notin Updates => assigned[b] # NoDeploy
    /\ status[b] = "configuring" => assigned[b] # NoDeploy

\* "Assigns an idle warm bot": no two deployments are at work on one bot.
ExclusiveBooking ==
  \A t, u \in Deploys :
    pc[t] \in Deploying /\ pc[u] \in Deploying /\ slot[t] = slot[u] => t = u

\* A request reported as running keeps its slot until somebody stops it or the
\* process, and every task's slot with it, is gone.
RunningReportHolds ==
  \A t \in Orch :
    /\ slot[t] # NoBot
    /\ feed[t] # <<>> /\ feed[t][Len(feed[t])] = "running"
    => assigned[slot[t]] = t

\* The events of every request obey the contract hummingbot-api relies on.
Feed == INSTANCE StatusFeed WITH Requests <- Orch
FeedContract == Feed!Spec

\* Every request a worker was spawned for is answered, with "running" or
\* "failed".
RequestAnswered == \A t \in Orch : pc[t] = "reserve" ~> Feed!Closed(t)

\* "Stop a running strategy and release the warm bot" (src/README.md:126): a slot is
\* not left stopping, a status only its own stop can take it out of when the bot
\* says nothing.
StopMovesOn ==
  \A s \in Stops : pc[s] = "sendStop" ~> slot[s] \in Bots /\ status[slot[s]] # "stopping"

\* A bot that falls silent for good is shown as offline, however often a delayed
\* message says otherwise: no operation keeps its slot from the reaper for ever.
SilentBotNoticed ==
  \A b \in Pool : <>[]~fresh[b] => []<>(status[b] = "offline")
=============================================================================
