------------------------------ MODULE WarmPool ------------------------------
(***************************************************************************)
(* The orchestrator with the bots it commands.  The slot table is what the *)
(* sidecar believes; here stands beside it what every bot really runs, the *)
(* start and stop commands on their way to it, and the end of the sidecar  *)
(* process, which keeps nothing on disk.                                   *)
(*                                                                         *)
(* The bots are external: they obey the commands of one MQTT topic tree in *)
(* order, over one connection, or lose them, and their strategies end by   *)
(* themselves.  A /status answer tells of the moment at which every        *)
(* command sent before it has been obeyed or lost.                         *)
(***************************************************************************)
EXTENDS Orchestrator

CONSTANTS
  StopsTimeOut,  \* may stop_bot give up waiting for the strategy to stop?
  CarefulStops,  \* does the operator stop running bots only, once at a time?
  MayRestart     \* may the sidecar process end and be started again?

ASSUME WarmPoolAssumption ==
  /\ StopsTimeOut \in BOOLEAN /\ CarefulStops \in BOOLEAN /\ MayRestart \in BOOLEAN

VARIABLES
  strategy,   \* the deployment whose strategy each bot runs
  inbox       \* the commands on their way to each bot, by the task that sent them

botVars == <<strategy, inbox>>
poolVars == <<vars, botVars>>

PoolTypeOK ==
  /\ TypeOK
  /\ strategy \in [Bots -> Deploys \cup {NoDeploy}]
  /\ inbox \in [Bots -> Seq(Tasks)]

PoolInit ==
  /\ Init
  /\ strategy = [b \in Bots |-> NoDeploy]
  /\ inbox = [b \in Bots |-> <<>>]

-----------------------------------------------------------------------------
(***************************************************************************)
(* The steps of a task that involve its bot.                               *)
(***************************************************************************)

\* publish_command: the command waits for the bot, behind those sent earlier.
Commanded(t) ==
  /\ inbox' = IF busOpen THEN [inbox EXCEPT ![slot[t]] = Append(@, t)] ELSE inbox
  /\ UNCHANGED strategy

\* The bot has obeyed the task's command, or never will.
Settled(t) == t \notin {inbox[slot[t]][i] : i \in DOMAIN inbox[slot[t]]}

\* /status answers with the text of some strategy; it does not say whose.
SeesRunning(t) == Settled(t) /\ strategy[slot[t]] # NoDeploy

\* Mutant of SeesStopped: the acknowledged command is taken for its effect.
SeesStopSent(s) == TRUE

SeesStopped(s) == Settled(s) /\ strategy[slot[s]] = NoDeploy

StartCommand(t) == SendStart(t) /\ Commanded(t)

ConfirmRunning(t) ==
  /\ AwaitRunning(t)
  /\ pc'[t] = "assignRunning" => SeesRunning(t)
  /\ UNCHANGED botVars

StopCommand(s) == SendStop(s) /\ Commanded(s)

ConfirmStopped(s) ==
  /\ AwaitStopped(s)
  /\ pc'[s] = "markCleanup" => SeesStopped(s) \/ StopsTimeOut
  /\ UNCHANGED botVars

\* stop_bot looks at no status and at no other stop; a careful operator does.
StopCall(s, b) ==
  /\ LookUp(s, b)
  /\ CarefulStops =>
       /\ status[b] = "running"
       /\ \A r \in Stops : slot[r] = b => pc[r] = "done"
  /\ UNCHANGED botVars

-----------------------------------------------------------------------------
(***************************************************************************)
(* The bots.                                                               *)
(***************************************************************************)

\* A start; what a bot that already trades makes of it is its own affair.
ObeyStart(b) ==
  /\ inbox[b] # <<>> /\ Head(inbox[b]) \in Deploys
  /\ strategy' = [strategy EXCEPT ![b] = Head(inbox[b])] \/ UNCHANGED strategy
  /\ inbox' = [inbox EXCEPT ![b] = Tail(@)]
  /\ UNCHANGED vars

ObeyStop(b) ==
  /\ inbox[b] # <<>> /\ Head(inbox[b]) \in Stops
  /\ strategy' = [strategy EXCEPT ![b] = NoDeploy]
  /\ inbox' = [inbox EXCEPT ![b] = Tail(@)]
  /\ UNCHANGED vars

\* The connection or the bot drops a command.
LoseCommand(b) ==
  /\ inbox[b] # <<>>
  /\ inbox' = [inbox EXCEPT ![b] = Tail(@)]
  /\ UNCHANGED <<vars, strategy>>

StrategyEnds(b) ==
  /\ strategy[b] # NoDeploy
  /\ strategy' = [strategy EXCEPT ![b] = NoDeploy]
  /\ UNCHANGED <<vars, inbox>>

-----------------------------------------------------------------------------
(***************************************************************************)
(* The process.                                                            *)
(***************************************************************************)

\* Mutant of RestartSidecar: the table is kept and the tasks that moved it on
\* are not.
RestartKeepsTable ==
  /\ MayRestart
  /\ pc' = [t \in Tasks |-> IF pc[t] = "idle" THEN "idle" ELSE "done"]
  /\ slot' = [t \in Tasks |-> NoBot]
  /\ busOpen' = TRUE
  /\ UNCHANGED <<storeVars, snap, feed, botVars>>

\* The process ends and main runs again: SlotStore::new makes the table of
\* StoreInit, and tasks and their slots are gone.  What was sent may still
\* arrive, and the bots go on as they were.
RestartSidecar ==
  /\ MayRestart
  /\ status' = [b \in Bots |-> IF b \in Pool THEN "offline" ELSE "absent"]
  /\ assigned' = [b \in Bots |-> NoDeploy]
  /\ fresh' = [b \in Bots |-> FALSE]
  /\ pc' = [t \in Tasks |-> IF pc[t] = "idle" THEN "idle" ELSE "done"]
  /\ slot' = [t \in Tasks |-> NoBot]
  /\ busOpen' = TRUE
  /\ UNCHANGED <<snap, feed, botVars>>

-----------------------------------------------------------------------------

PoolDeployStep(t) ==
  \/ StartCommand(t)
  \/ ConfirmRunning(t)
  \/ /\ Arrive(t) \/ DeployStep(t)
     /\ pc[t] \notin {"start", "await"}
     /\ UNCHANGED botVars

PoolStopStep(s) ==
  \/ \E b \in Bots : StopCall(s, b)
  \/ StopCommand(s)
  \/ ConfirmStopped(s)
  \/ /\ StopStep(s)
     /\ pc[s] \notin {"sendStop", "awaitStop"}
     /\ UNCHANGED botVars

BotStep(b) == ObeyStart(b) \/ ObeyStop(b) \/ LoseCommand(b) \/ StrategyEnds(b)

PoolNext ==
  \/ \E t \in Deploys : PoolDeployStep(t)
  \/ \E s \in Stops : PoolStopStep(s)
  \/ \E b \in Bots : BotStep(b)
  \/ World /\ UNCHANGED botVars
  \/ RestartSidecar

PoolSpec == PoolInit /\ [][PoolNext]_poolVars

-----------------------------------------------------------------------------
(***************************************************************************)
(* Properties.                                                             *)
(***************************************************************************)

\* Who has a bot: the deployment its slot is assigned to or, before the
\* assignment is written, the one that reserved it.
Claims(t, b) == slot[t] = b /\ pc[t] \in BeforeAssign \cup {"markError"}

HolderOf ==
  [b \in Bots |->
     IF assigned[b] # NoDeploy THEN assigned[b]
     ELSE IF \E t \in Deploys : Claims(t, b) THEN CHOOSE t \in Deploys : Claims(t, b)
     ELSE NoDeploy]

\* While stops are careful and confirmed and the process lives, the sidecar
\* implements the lease: bots are lent out empty, to one deployment at a time,
\* and run nothing but its strategy.
Lease == INSTANCE BotLease WITH holder <- HolderOf
LeaseContract == Lease!Spec

\* "Assigns an idle warm bot": a deployment /status confirmed is the one its
\* bot runs, unless the strategy has ended since.
ConfirmedRunsItsOwn ==
  \A t \in Deploys :
    pc[t] = "assignRunning" => strategy[slot[t]] \in {t, NoDeploy}

\* "Release the warm bot back to idle": a slot offered as idle has a bot that
\* runs nothing.
IdleBotsAreIdle == \A b \in Bots : status[b] = "idle" => strategy[b] = NoDeploy

\* A bot is another's only after a stop: no deployment overwrites an assignment,
\* and one leaves its slot only with the release of the stop that works on the
\* slot, or with the process.
KeptUntilStopped ==
  [][\A b \in Bots :
       assigned[b] \notin {NoDeploy, assigned'[b]} =>
         \/ RestartSidecar
         \/ assigned'[b] = NoDeploy /\ \E s \in Stops : slot[s] = b /\ Release(s)]_poolVars
=============================================================================
