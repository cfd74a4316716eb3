# Verification of principia-aves

TLA+ models of the `principia-aves` sidecar, the TLC configurations that check
them on small instances, and theorems TLAPS proves about them for every
instance. Paths below are relative to the directory that holds `src/` and
`tla/`; the Rust sources are `src/src/*.rs`.

## 1. The system

The sidecar owns a pool of warm Hummingbot containers. A deployment (an MQTT
`orchestrate/deploy` message, or a `deploy-v2-controllers` call) reserves an
idle bot, downloads files from R2 into a stash (MQTT only), copies them into the
bot's conf directory, starts the strategy over MQTT and waits until the bot's
`/status` answer shows it running. `stop-bot` undoes this.

| Component | State | Operations | Hard behaviour |
|---|---|---|---|
| Slot store (`slot_store.rs`, `types.rs`) | table bot -> status, assignment, last heartbeat; one mutex | reserve, heartbeat, mark status/error, assign, release, reap | every operation but reserve is unconditional: it writes whoever holds the slot by then |
| Orchestrator (`orchestrator.rs`) | none beside the table; each task's progress | deploy over MQTT, deploy over HTTP, stop, reaper, listener | tasks interleave at every await; errors leave through `?`; HTTP handlers are dropped when the client hangs up; a restart forgets the table |
| Status polling (`mqtt.rs`) | pending map reply topic -> one-shot sender | request, reply, time-out, deadline | topics from a millisecond clock; replies late, repeated, lost; time-out against reply |
| MQTT dispatch (`mqtt.rs`) | broadcast channel (256), log ring (100) per bot | heartbeat, status update, deploy, response, log | messages write the table at any moment; both buffers drop their oldest entry |
| MQTT connection (`mqtt.rs`) | request channel (100), backoff, health flag | connect, subscribe, reconnect | the event loop alone drains the channel it subscribes through |
| Pool files (`fs_ops.rs`) | the bots' conf directories, the stash | prepare, mirror a profile, clean up | half-done preparations; directories that outlive deployments |
| R2 hydration (`r2.rs`, `types.rs`) | the stash | expand keys, list, download | one stash for all deployments; truncate and fill are two steps; folders spelled two ways |
| Docker, routes, settings, start-up | none that changes | queries, wrappers | the order of start-up |

Interactions: HTTP handlers and MQTT workers call the store, the files and the
bus; the event loop calls the store (heartbeats, updates), feeds the listener
through the broadcast channel, and completes polls through the pending map; the
reaper calls the store every five seconds.

What makes it correct: a bot is lent to one deployment at a time, empty, and runs
only its strategy; a slot held by an operation is moved on by it; the table does
not contradict its assignments; the requester is told the progress in order and
exactly one outcome; a confirmation is about the bot that was asked and about
now; a bot starts with all its files; every wait ends. `PROJECT.json` lists the
hazards behind each of these at their lines.

## 2. The modules

| Module | Models |
|---|---|
| `SlotStore` | the store's methods as actions over `status`, `assigned`, `fresh` |
| `Orchestrator` | the tasks that call the store, over `pc`, `slot`, `snap`, `feed`, `busOpen`; extends `SlotStore` |
| `StatusFeed` | abstract: the events on `orchestrate/status` |
| `WarmPool` | `Orchestrator` composed with the bots, the commands on their way to them and the end of the process |
| `BotLease` | abstract: who a bot is lent to and what it runs |
| `StatusRpc` | the pending map and the polls that use it |
| `StatusPoll` | abstract: the outcome of a poll, as its callers take it |
| `MqttLink` | event loop, request channel, subscriptions, backoff, health flag, broker |
| `DeployIntake` | the broadcast channel with its listener, and the log rings |
| `PoolFiles` | hydration, preparation and cleanup over the stash and the conf directories |
| `R2Keys` | expansion and dispatch of keys, local paths |
| `MC*` | the constants of the runs |
| `*Proofs` | theorems (section 5) |

**SlotStore.** Each method holds the mutex for its whole body, so each is one
action. A slot is one entry of three functions. The four assignment fields are
written and cleared together and are one value, the deployment that wrote them.
`fresh[b]` abstracts `last_heartbeat` against the time-out; `HeartbeatExpires`
is the clock passing it. A key the table does not have is the status `absent`.
A bot is an integer, its rank in the name order `reserve_idle` sorts by.

**Orchestrator.** A task's `pc` is the await it is at, named for what it does
next. `PublishX`, `Hydrate`, `Prepare`, `AssignConfiguring`, `SendStart`,
`AwaitRunning`, `AssignRunning`, `MarkFailed`, `ReportFailed` are the steps of
`deploy_from_orchestration_request`; `Post`, `Prepare`, ..., `Diagnose`,
`MarkFailed` those of `deploy_v2_controllers`, which marks an error twice and
publishes nothing; `LookUp` to `Release` those of `stop_bot`. `giveUp` is a
worker that left through `?` and is about to be reported by
`handle_orchestration_request`; `lost` is a task that ended without recording
anything. Hydration and file preparation succeed or fail, polling confirms or
not (`PoolFiles` and `StatusRpc` open these up). `Disconnect` is axum dropping a
handler; `CloseBus` is the end of the event-loop task, after which `AsyncClient`
fails. The loop has no exit of its own, so this stands for its task dying.

**WarmPool.** `inbox[b]` holds the commands not yet obeyed, in order;
`strategy[b]` is what the bot really runs. A bot obeys a command or loses it,
and a start at a bot that trades may or may not take effect. The confirming
steps of `Orchestrator` are bound to what the bot runs: a `/status` answer
tells that some strategy runs, not whose. `RestartSidecar` resets the table and
the tasks and leaves bots and commands alone. `HolderOf` maps to `BotLease`: a
bot is lent to the deployment its slot is assigned to or, before that, to the
one that reserved it.

**StatusFeed.** A feed is a growing prefix of reserved, hydrating, configuring,
running, which `failed` may cut short and which is final after `running` or
`failed`. The refinement is the identity on `feed`.

**StatusRpc.** A reply topic is the millisecond of its request. A oneshot is
`chan[p]`: open, dropped, or a value. `Park` reads the clock and inserts, which
drops the sender another poll parked under the same topic; `Forget` removes by
topic. The network never takes a message back: requests and replies may be
delivered late, again, in any order or never. Timers fire at any time, with
one rule the code gives: `timeout` looks at the receiver before the timer.
Bots are external and assumed honest (`Wording`): a running strategy is never
reported as absent nor the reverse; what an answer means is left to `Classify`.

**StatusPoll.** A poll is idle, polling or has its outcome: the three results of
`wait_for_strategy_status_content` or the end of the handler that waited for it.
The refinement hides requests, the map and the network; `AwaitRunning` and
`AwaitStopped` of `Orchestrator` are the steps to an outcome.

**MqttLink.** `poll` of rumqttc is external: `OnConnAck`, `Take`, `Incoming`,
`ConnectionLost`, `ConnectFails` are what it may return and what the loop makes
of it. `Resubscribe` is a send from inside the loop into the channel only the
loop drains. The channel is the queue it is. A publish returns as soon as its
request is in the channel and its task may publish again at once, as a worker
does with `reserved` and `hydrating` (`orchestrator.rs:220`, `224`): only the
capacity bounds what is waiting, and an outage can fill the channel. Then a
publish waits, without a time-out, and a loop that has just reconnected waits
for itself: it is `Stuck`. One publication is like another here (`Publication`).

**DeployIntake.** `Subscribe` is `main` building the orchestrator after the
event loop has started. `DeliverOver` takes the oldest value's place, `HearLag`
is `Lagged`. `delivered`, `dropped` and `lines` are history variables.

**PoolFiles.** A file is absent, torn, old (a version of an earlier day) or whole:
`Fetch` truncates, `Fill` completes. The stash and the conf directories are on
disk and outlive the process, so `Init` lets the stash be any of `Stashes` and a
bot's directory any of `Confs`. A deployment's `pc` is its stage, `left` the
objects or files of the stage still to be handled; a request downloads its
profile, its script config and its controllers in that order (`Turn`), and the
objects under a prefix in any. `HydrateFails` and `FileFails` may end a
deployment at any of its steps. `SyncDirectory` removes and copies a directory
as one step, `SyncFile` copies a file, `NameBot` writes `instance_id`, `Stop` is
`cleanup_assignment`: a removal that fails is passed over (`fs_ops.rs:146`,
`151`), and a deployment whose files stay is `littered`. A deployment gets a bot
nobody else has, as `LeaseContract` says it does. `Overlap` says
whether requests that need the same objects may prepare at once; HTTP
deployments may do as they like.

**R2Keys.** A key is the sequence of its parts between slashes, without the empty
ones, and the places where the spelling has an empty one (a slash too many,
before, between or after the parts). Objects have paths, which have no empty
parts, as object_store has them. A request is hydrated key by key, a key with a
trailing slash by listing. Each hydration may also fail for no reason of the
request: listing, reading, making a directory and writing all can (`r2.rs:72`,
`84`, `87`, `88`), with some objects already written. Properties compare what was written with the table of
`src/docs/bot_deployment.md`.

Operators called *mutant* in a comment are broken variants of the definition
below them; no specification uses them. They document that the properties
notice the mistake.

## 3. The runs

| Run | Instance | Shows |
|---|---|---|
| `core` | 1 bot, 1 MQTT and 1 HTTP deployment, 1 stop, every update | `TypeOK`; `HeldByLiveTask`: a slot the reaper spares has a live operation; `RequestAnswered`, `StopMovesOn`, `SilentBotNoticed` |
| `faults` | 1 unlisted bot, 1+1 deployments, 2 stops, disconnects, bus closes | `OrphansOnlyByLoss`: these two faults are the only way to strand a slot; `AssignmentMatchesStatus`; `FeedContract`: refinement of `StatusFeed` |
| `restarts` | 2 bots, 2+1 deployments, disconnects, restarts, lost commands; no stop, no update | `ExclusiveBooking`, `RunningReportHolds`, `OrphansOnlyByLoss` |
| `pool` | 2 bots, 2 requests, 2 careful stops, lost commands, disconnects, bus closes | `PoolTypeOK`, `ConfirmedRunsItsOwn`, `IdleBotsAreIdle`, `KeptUntilStopped`; `LeaseContract`: refinement of `BotLease` |
| `rpc` | 2 bots, 2 polls, 3 distinct milliseconds, one droppable poll | `TypeOK`, `ConfirmedWasTrue`, `PendingHasWaiter`; `PollContract`: refinement of `StatusPoll` |
| `rpc_shared` | 1 bot, 2 polls, 2 milliseconds that may be shared, bus closes | `WaiterInformed`, `PollEnds` |
| `link` | 2 topics, 2 publishers, a channel of 5, backoff 1 to 30 | `TypeOK`, `StuckBehindOthers`, `BackoffStartsOver`, `StuckForGood`, `SubscriptionsEnsured`, `HealthFollows`, `PublishersGoOn` |
| `intake` | 5 requests, one unreadable, a channel of 2; 1 bot, a ring of 2, 4 lines | `TypeOK`, `EachSpawnedOnce`, `LatestLogs`, `ListenerGoesOn` |
| `files` | 2 bots with old files, 2 requests, 1 HTTP deployment that uses a controller of one of them, 3 profiles, R2 on and off, 11 stashes | `TypeOK`, `StartedComplete`, `StartedUnderOwnName`, `DirectoriesMirrored`, `LeftoversExplained` |
| `keys` | every bucket over 8 objects, folders with and without their slash, keys with a slash too many, 3 prefixes | `HydratesAsDocumented`, `StaysInBots` |
| `overbook_stop` | 1 bot, 2 requests, 1 stop | **violated**: `ExclusiveBooking` |
| `torn_stash` | 2 bots, 2 requests with one profile at once | **violated**: `StartedComplete` |

*Bounds.* Tasks and deployments are finite sets, each used once, so the
orchestrator needs no counter bound. One bot is enough to make operations
collide on a slot; two are used where a deployment must have a choice. Two
deployments and a stop are enough for one to act on the slot after it went to
the second. The milliseconds (`MaxStamp`) let two polls make three requests with
a retry. In `link` two topics fit into a channel of five with room to spare, so
that a loop can reconnect over an empty, a half full and a full channel; two
publishers compete for the last place; the doubling from 1 to 30 meets its cap.
The intake overruns its channel and its ring. In `files` one profile clashes with
the strategy directories and two deployments name one controller differently;
the directories of the stash hold old files to begin with, but for one that is
missing or cut short, or all of them are. The theorems remove these bounds where
they apply. `CHECK_DEADLOCK FALSE` stands where all tasks ended and nothing
arriving is a legal end; `link`, where publishers and broker always may go on, and
`intake` are checked for deadlock.

*Scope.* `restarts` has no stops and no updates, `pool` only careful and
confirmed stops and no restart; what stops and updates can do to a booking is in
section 4. `rpc` has no shared milliseconds and no failing publish; the second is
covered by `MapHoldsWaiters`, and of the two kinds of poll TLC has the one for a
running strategy. In `Orchestrator` and `StatusRpc` publishing is a step that
succeeds or fails: `RequestAnswered`, `StopMovesOn` and `PollEnds` hold as long as
the channel has room, and are put off by an outage that fills it, since neither
the command time-out nor the deadline of a poll covers the publish
(`mqtt.rs:118`, `167`); `PublishersGoOn` says when that ends.

*Fairness.* `WF` of each task's own steps and of the reaper: tokio polls a
ready task again, and its timers fire. `AwaitRunning` and `AwaitStopped` are
fair because polls end (`PollEnds`, for which only the poll's own steps and its
deadline are fair). In `link` the loop is fair, keep-alive finds a broken
connection out, and a call that waits for room is strongly fair: the channel
(flume) serves the calls that wait in the order they came, so none is passed
over for ever while room comes and goes. In `intake` `main` and the listener are fair.
Requests, heartbeats, updates, answers, deliveries, disconnects, the broker and
the end of the bus are never owed anything or by anyone.

## 4. The findings

1. `stop_bot` has no guard on the status (`orchestrator.rs:376`): stopping a
   bot under deployment releases it to a second deployment (`overbook_stop`).
2. The stash is shared and a download truncates the file it replaces
   (`r2.rs:88`): a deployment that copies it at that moment starts with a
   cut-off file (`torn_stash`).

3. On every ConnAck the event loop sends seven subscriptions into the channel of
   100 that it alone drains (`mqtt.rs:245`). If publishers have put 94 requests
   there during an outage, or while it was subscribing, it waits for itself for
   ever: nothing is sent or received any more, `/health` goes on saying
   connected, and only a restart helps. No document says otherwise, so no run is
   named for it; `link` shows that this can be, `StuckForGood` that it is for
   good, `StuckBehindOthers` that it takes so many, and the liveness properties
   of `link` name it as their only exception.
4. A download that is cut off stays in the stash. The next request for it
   downloads it anew, but an HTTP deployment, which downloads nothing, copies
   it: in `files` the HTTP deployment does start with a cut-off controller.
   `StartedComplete` claims no more for it than that the file is there.

Changing one constant of a passing run shows what its assumption is for:

| Change | Then violated (first, and what follows) | Because |
|---|---|---|
| `core`: `ClientsDisconnect = TRUE` | `HeldByLiveTask`, `StopMovesOn` | a client that hangs up leaves the slot stopping |
| `restarts`: `Updates = {"bootstrapping"}` | `ExclusiveBooking` | an update overwrites `reserved` (`mqtt.rs:351`), the next heartbeat makes it idle |
| `pool`: `StopsTimeOut = TRUE` | `IdleBotsAreIdle` | a stop that timed out releases the slot all the same (`orchestrator.rs:401`) |
| `pool`: `MayRestart = TRUE` | `LeaseContract`, `ConfirmedRunsItsOwn` | after a restart the heartbeat of a bot that trades makes it available |
| `rpc`: `DistinctStamps = FALSE` | `ConfirmedWasTrue` | reply topics collide within a millisecond (`mqtt.rs:143`) |
| `files`: `h1` names the profile of `o1` | `DirectoriesMirrored` | a request brings a directory to the profile after the HTTP deployment has listed it |

Beyond these, the models show: a deploy request that arrives before the
listener has subscribed, or is overtaken, is lost without an answer
(`dropped`); a message delivered twice is two requests; a start whose
confirmation timed out may still take effect later, on a bot marked as an error.

## 5. The proofs

Theorems hold for every value of the constants that satisfies the named
assumptions of the modules, which only say that the sets are what they are meant
to be. Each follows from an inductive invariant, one step per action.

| Module | Theorems | Condition |
|---|---|---|
| `OrchestratorProofs` | `TypeCorrect`, `NoOtherOrphans`, `StatusAndAssignmentAgree` | none |
| | `EverySlotHasItsTask` | reliable clients and bus |
| | `QuietBooksOnce`, `QuietReportHolds` | no stops, no updates |
| `FeedProofs` | `ImplementsStatusFeed` | none |
| `PoolProofs` | `PoolTypeCorrect`, `RestartsStrandNothing` | none |
| | `RestartsBookOnce`, `RestartsKeepReports` | no stops, no updates |
| | `CarefulBooksOnce`, `CarefulKeepsUntilStopped` | `Careful` |
| | `CalmConfirmsItsOwn`, `CalmIdleBotsAreIdle`, `CalmImplementsLease` | `Calm` |
| `StatusRpcProofs` | `RpcTypeCorrect`, `MapHoldsWaiters`, `WaitersAreServed` | none |
| | `ConfirmationsAreTrue`, `PollsKeepTheirPromise` | no shared millisecond |
| `LinkProofs` | `LinkTypeCorrect`, `OutagesStartGently` | none |
| | `StuckOnlyBehindOthers`, `StuckIsForGood` | none |
| `FileProofs` | `FilesTypeCorrect`, `LeftoversAreExplained` | none |
| | `StartedBotsAreNamed` | some request or profile has a `conf_client.yml` |
| | `StartedWithAllFiles` | `~Overlap`: requests with objects in common come one after the other |
| | `DirectoriesAreMirrored` | `ProfilesApart` |
| `IntakeProofs` | `IntakeTypeCorrect`, `RingsQuoteTheLatest`, `RequestsAreSpawnedOnce` | none |
| `KeysProofs` | `FilesStayInBots`, `HydrationIsAsDocumented` | none |

- *Types.* One lemma types the store's operations, one a moved task; then a case
  per action. `TypeOK` carries that a task at work on a slot has one.
- *Orphans.* `OrphansOnlyByLoss` is inductive beside `TypeOK`: a step keeps the
  task that accounts for a slot in its place, or writes the slot out of the
  protected statuses. `HeldByLiveTask` adds that nobody is lost. A restart
  writes every slot out of them.
- *Booking.* `ExclusiveBooking` is not inductive. `BookingInv` adds what a
  deployment at work knows of its slot (reserved and free of assignments before
  `assign_configuring`, configuring and its own after it, not idle when it
  failed) and that an idle slot is free. It survives restarts because they end
  every deployment and forget every assignment together.
- *Stops.* `Careful` is: requests over MQTT only, no updates, stops of running
  bots only, one at a time; they may give up waiting, clients may hang up, and
  the process may restart. `TableInv` says what each deployment and each stop
  knows of its slot and that no slot is shared, and with it goes
  `AssignmentMatchesStatus`: a careful stop begins on a slot that carries an
  assignment, so on none that a deployment is at work on. HTTP deployments are
  excluded because their second error mark may hit a slot that has been lent
  again (`orchestrator.rs:129`); `overbook_stop` and the table above show the
  other two conditions at work.
- *The lease.* `Calm` adds that stops are confirmed and that there is one
  process. `LeaseInv` has `TableInv`; `BotInv`, that a bot which runs something, or has a
  command on its way, is held by the deployment whose strategy or command it
  is, and that a confirmed stop found the bot empty with nothing on its way; and
  `HolderFacts`, which identifies `HolderOf`. Then every step of `PoolNext` is a
  step of `BotLease` or leaves it alone.
- *Feed.* `FeedInv` says how far a feed is at each `pc`.
- *Polling.* `ParkingInv` relates map, topics and channels and holds with shared
  milliseconds too; without them topics belong to one poll, so requests and
  replies under its topic are of its bot. Then each step of a poll is a step of
  `StatusPoll` or leaves it alone, and the one to `confirmed` is one because
  `ConfirmedWasTrue` holds after it.
- *Link.* `OwnOnce` says that the channel holds each of the loop's subscriptions at
  most once and only those it has asked for since its last ConnAck: poll connects
  only after an outage emptied the channel, or before anything of the loop was in
  it. So a loop that finds the channel full while it still has a topic to ask for
  has fewer than one set of its own requests in it. That it is stuck for good
  follows from each action's guard: only the loop takes requests out.
- *Files.* A bot has one holder, and other deployments leave its files alone.
  `StartedUnderOwnName` needs only that. `LeftoversExplained` follows each file
  from the deployment that wrote it. For `StartedComplete`, `StashInv` says that
  while a request prepares no other request prepares with any of its objects, so
  what it has downloaded stays whole, and that what no request downloads rests as
  it is; `Complete` says what a conf directory has at each stage. HTTP
  deployments write to the stash under new names only, so they may share files
  with requests. With `Overlap` it is false, as `torn_stash` shows. For
  `DirectoriesMirrored` overlapping requests do no harm: one that copies a profile
  has downloaded it, and what it has put in place already is still what the stash
  has (`Mirrored`), since no later download changes which files a profile has.
  `ProfilesApart`, that no HTTP deployment names a profile a request downloads,
  is needed for that, as the table shows.
- *Intake.* A ring of n lines is a function of n alone. What was spawned for,
  followed by what the channel still holds for the listener, is ordered by
  delivery and is everything readable delivered and not dropped.
- *Keys.* `KeysInv` follows a request key by key: what is written is what the keys
  handled so far name. Both spellings of a folder come to the same prefix, because
  a key's parts do not depend on its gaps.

Every invariant, action property and refinement the runs check is stated by a
theorem. Only model-checked is liveness (`RequestAnswered`, `StopMovesOn`,
`SilentBotNoticed`, `PollEnds`, `SubscriptionsEnsured`, `HealthFollows`,
`PublishersGoOn`, `ListenerGoesOn`), because fairness and ENABLED are outside the
prover.

## 6. Not modelled

- *Settings* (`config.rs`): read once; its values are the constants of the models.
- *Docker health* (`docker.rs`), *HTTP routes and errors* (`routes.rs`,
  `error.rs`), the read-only endpoints: they keep and change no state.
- *Start-up* (`main.rs`): only its order, where it matters (`DeployIntake`,
  `MqttLink`, `RestartSidecar`); the HTTP server and its shutdown are left out.
- Heartbeats and status updates are free inputs, not tied to what a bot runs:
  the sidecar does not check either.
- rumqttc keeps unacknowledged publishes over a reconnect; `MqttLink` takes them
  for lost, which only makes fewer of them arrive.
- `ensure_inside` and names that lead out of a directory appear only as an error
  of `Cleanup`; a blocking copy that outlives its HTTP handler is not modelled.
- A bucket may hold an object whose key has an empty part; object_store has no
  path for it, so `R2Keys` has no such object.
- The files of an earlier profile at the top of a conf directory stay there; no
  document promises otherwise.
