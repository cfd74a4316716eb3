----------------------------- MODULE StatusRpc -----------------------------
(***************************************************************************)
(* Confirming a strategy's state over MQTT, src/src/mqtt.rs:               *)
(* wait_for_strategy_status_content polls publish_command_and_wait, which  *)
(* parks a oneshot sender in the shared pending map under a reply topic,   *)
(* and handle_publish hands a reply on that topic to whoever is parked     *)
(* there.  Orchestrator's AwaitRunning and AwaitStopped are one poll each. *)
(*                                                                         *)
(* A reply topic is "response/status-" and the wall clock in milliseconds, *)
(* so it is a number here, and two requests made in one millisecond share  *)
(* it.  Timers fire at any time: the 5 s of one request and the deadline   *)
(* of the whole poll are only ordered by the code that looks at them.      *)
(***************************************************************************)
EXTENDS Integers

CONSTANTS
  Bots,
  Polls,        \* calls of wait_for_strategy_status_content
  Target,       \* the bot each of them asks
  Expected,     \* what each of them waits for: "running" or "stopped"
  Droppable,    \* polls made for an HTTP client, dropped when it hangs up
  MaxStamp,     \* bound: the clock is read with at most this many values
  DistinctStamps,  \* no two requests are made in the same millisecond
  BusMayClose,
  Nobody

ASSUME RpcAssumption ==
  /\ Target \in [Polls -> Bots]
  /\ Expected \in [Polls -> {"running", "stopped"}]
  /\ Droppable \subseteq Polls
  /\ MaxStamp \in Nat
  /\ DistinctStamps \in BOOLEAN /\ BusMayClose \in BOOLEAN
  /\ Nobody \notin Polls

Stamps == 1 .. MaxStamp

VARIABLES
  strategy,  \* what each bot's strategy really does
  pc,        \* where each poll is
  key,       \* the reply topic of its latest request
  chan,      \* the receiving end of its latest oneshot
  late,      \* its deadline has passed
  pending,   \* reply topic -> the poll whose sender is parked there
  clock,     \* the latest millisecond a request was made in
  requests,  \* status requests published; any may be delivered again
  replies,   \* replies published, in the same sense
  busOpen,
  seen       \* history: what the target's strategy did since the poll began

pollVars == <<pc, key, chan, late, pending, clock>>
vars == <<strategy, pollVars, requests, replies, busOpen, seen>>

StrategyState == {"running", "stopped"}

\* What a bot can put into a reply, as far as classify looks at it.
Contents == {[status |-> 200, msg |-> "text"], [status |-> 200, msg |-> "empty"],
             [status |-> 400, msg |-> "noStrategy"]}

Request == [key : Stamps, bot : Bots]
Reply == [key : Stamps, bot : Bots, content : Contents]

Closed == {"confirmed", "timedOut", "failed", "lost"}
Parked == {"send", "wait", "expired"}
Polling == {"top", "sleep"} \cup Parked

TypeOK ==
  /\ strategy \in [Bots -> StrategyState]
  /\ pc \in [Polls -> {"idle"} \cup Polling \cup Closed]
  /\ key \in [Polls -> Stamps \cup {0}]
  /\ \A p \in Polls : pc[p] \in Parked => key[p] # 0
  /\ chan \in [Polls -> {[open |-> TRUE], [open |-> FALSE]}
                          \cup [content : Contents]]
  /\ late \in [Polls -> BOOLEAN]
  /\ pending \in [Stamps -> Polls \cup {Nobody}]
  /\ clock \in Stamps \cup {0}
  /\ requests \subseteq Request
  /\ replies \subseteq Reply
  /\ busOpen \in BOOLEAN
  /\ seen \in [Polls -> SUBSET StrategyState]

Open == [open |-> TRUE]      \* the sender is still somewhere
Dropped == [open |-> FALSE]  \* the sender is gone

Init ==
  /\ strategy \in [Bots -> StrategyState]
  /\ pc = [p \in Polls |-> "idle"]
  /\ key = [p \in Polls |-> 0]
  /\ chan = [p \in Polls |-> Dropped]
  /\ late = [p \in Polls |-> FALSE]
  /\ pending = [k \in Stamps |-> Nobody]
  /\ clock = 0
  /\ requests = {} /\ replies = {}
  /\ busOpen = TRUE
  /\ seen = [p \in Polls |-> {}]

-----------------------------------------------------------------------------

\* Mutant of Classify: an empty status text counts as a running strategy.
ClassifyByStatus(content) ==
  IF content.msg = "noStrategy" THEN "stopped"
  ELSE IF content.status = 200 THEN "running"
  ELSE "unknown"

\* classify_strategy_status_response.
Classify(content) ==
  IF content.msg = "noStrategy" THEN "stopped"
  ELSE IF content.status = 200 /\ content.msg # "empty" THEN "running"
  ELSE "unknown"

Goto(p, from, to) == pc[p] = from /\ pc' = [pc EXCEPT ![p] = to]

\* The channel of the poll whose sender leaves the map, whatever put it there.
DropSender(k, ch) ==
  IF pending[k] = Nobody THEN ch ELSE [ch EXCEPT ![pending[k]] = Dropped]

\* A start or stop command is out and its sender begins to poll.
Begin(p) ==
  /\ Goto(p, "idle", "top")
  /\ seen' = [seen EXCEPT ![p] = {strategy[Target[p]]}]
  /\ UNCHANGED <<strategy, key, chan, late, pending, clock, requests, replies, busOpen>>

\* The head of the loop: no time is left.
GiveUp(p) ==
  /\ late[p]
  /\ Goto(p, "top", "timedOut")
  /\ UNCHANGED <<strategy, key, chan, late, pending, clock, requests, replies, busOpen, seen>>

\* Mutant of Park: the poll does not keep the topic it parked under.
ParkUnkept(p) ==
  /\ ~late[p]
  /\ Goto(p, "top", "send")
  /\ \E k \in Stamps :
       /\ IF DistinctStamps THEN k > clock ELSE k >= clock
       /\ clock' = k
       /\ chan' = [DropSender(k, chan) EXCEPT ![p] = Open]
       /\ pending' = [pending EXCEPT ![k] = p]
  /\ UNCHANGED <<strategy, key, late, requests, replies, busOpen, seen>>

\* The head of the loop: some time is left.  The map's insert throws out a
\* sender that another poll parked in the same millisecond.
Park(p) ==
  /\ ~late[p]
  /\ Goto(p, "top", "send")
  /\ \E k \in Stamps :
       /\ IF DistinctStamps THEN k > clock ELSE k >= clock
       /\ clock' = k
       /\ key' = [key EXCEPT ![p] = k]
       /\ chan' = [DropSender(k, chan) EXCEPT ![p] = Open]
       /\ pending' = [pending EXCEPT ![k] = p]
  /\ UNCHANGED <<strategy, late, requests, replies, busOpen, seen>>

\* A failed publish ends the poll and leaves its sender parked.
Send(p) ==
  /\ Goto(p, "send", IF busOpen THEN "wait" ELSE "failed")
  /\ requests' = IF busOpen THEN requests \cup {[key |-> key[p], bot |-> Target[p]]}
                 ELSE requests
  /\ UNCHANGED <<strategy, key, chan, late, pending, clock, replies, busOpen, seen>>

\* The receiver has a value, or has lost its sender.
Wake(p) ==
  /\ chan[p] # Open
  /\ Goto(p, "wait", IF chan[p] # Dropped /\ Classify(chan[p].content) = Expected[p]
                     THEN "confirmed" ELSE "sleep")
  /\ UNCHANGED <<strategy, key, chan, late, pending, clock, requests, replies, busOpen, seen>>

\* Mutant of TimeOut: rx is awaited without a timeout.
NeverTimesOut(p) ==
  /\ chan[p] = Dropped
  /\ Goto(p, "wait", "expired")
  /\ UNCHANGED <<strategy, key, chan, late, pending, clock, requests, replies, busOpen, seen>>

\* timeout looks at the receiver before it looks at the timer.
TimeOut(p) ==
  /\ chan[p] = Open
  /\ Goto(p, "wait", "expired")
  /\ UNCHANGED <<strategy, key, chan, late, pending, clock, requests, replies, busOpen, seen>>

\* Mutant of Forget: the entry stays in the map.
ForgetNothing(p) ==
  /\ Goto(p, "expired", "sleep")
  /\ UNCHANGED <<strategy, key, chan, late, pending, clock, requests, replies, busOpen, seen>>

\* Mutant of Forget: one request without an answer ends the poll.
ForgetAndGiveUp(p) ==
  /\ Goto(p, "expired", "timedOut")
  /\ pending' = [pending EXCEPT ![key[p]] = Nobody]
  /\ chan' = DropSender(key[p], chan)
  /\ UNCHANGED <<strategy, key, late, clock, requests, replies, busOpen, seen>>

\* The timed-out request takes away what is parked under its topic by now.
Forget(p) ==
  /\ Goto(p, "expired", "sleep")
  /\ pending' = [pending EXCEPT ![key[p]] = Nobody]
  /\ chan' = DropSender(key[p], chan)
  /\ UNCHANGED <<strategy, key, late, clock, requests, replies, busOpen, seen>>

Slept(p) ==
  /\ Goto(p, "sleep", "top")
  /\ UNCHANGED <<strategy, key, chan, late, pending, clock, requests, replies, busOpen, seen>>

Deadline(p) ==
  /\ pc[p] \notin {"idle"} \cup Closed /\ ~late[p]
  /\ late' = [late EXCEPT ![p] = TRUE]
  /\ UNCHANGED <<strategy, pc, key, chan, pending, clock, requests, replies, busOpen, seen>>

\* The client hangs up: the poll is gone, its sender stays in the map.
Drop(p) ==
  /\ p \in Droppable
  /\ pc[p] \notin {"idle"} \cup Closed
  /\ pc' = [pc EXCEPT ![p] = "lost"]
  /\ UNCHANGED <<strategy, key, chan, late, pending, clock, requests, replies, busOpen, seen>>

-----------------------------------------------------------------------------

\* What a bot writes when its strategy is in a state; an empty text says nothing.
Wording(state) ==
  IF state = "running" THEN {"text", "empty"} ELSE {"noStrategy", "empty"}

\* A bot answers a status request with what its strategy does at that moment.  A
\* request that is delivered again is answered again; as one answer at most finds
\* a sender under the topic, it stands for them all.
Answer(r) ==
  /\ r \in requests
  /\ ~\E reply \in replies : reply.key = r.key /\ reply.bot = r.bot
  /\ \E content \in Contents :
       /\ content.msg \in Wording(strategy[r.bot])
       /\ replies' = replies \cup {[key |-> r.key, bot |-> r.bot, content |-> content]}
  /\ UNCHANGED <<strategy, pollVars, requests, busOpen, seen>>

\* Mutant of Deliver: a reply without a text is not passed on.
DeliverTextOnly(r) ==
  /\ busOpen /\ r \in replies
  /\ pending[r.key] # Nobody
  /\ chan' = IF r.content.msg = "empty" THEN chan
             ELSE [chan EXCEPT ![pending[r.key]] = [content |-> r.content]]
  /\ pending' = [pending EXCEPT ![r.key] = Nobody]
  /\ UNCHANGED <<strategy, pc, key, late, clock, requests, replies, busOpen, seen>>

\* handle_publish on hummingbot-api/response/+; a reply nobody waits for is
\* logged.  It takes the sender that is parked there and looks no further.
Deliver(r) ==
  /\ busOpen /\ r \in replies
  /\ pending[r.key] # Nobody
  /\ chan' = [chan EXCEPT ![pending[r.key]] = [content |-> r.content]]
  /\ pending' = [pending EXCEPT ![r.key] = Nobody]
  /\ UNCHANGED <<strategy, pc, key, late, clock, requests, replies, busOpen, seen>>

\* The strategy starts or stops, because of a command or by itself.
Turn(b) ==
  /\ \E s \in StrategyState \ {strategy[b]} :
       /\ strategy' = [strategy EXCEPT ![b] = s]
       /\ seen' = [p \in Polls |-> IF Target[p] = b /\ pc[p] # "idle"
                                   THEN seen[p] \cup {s} ELSE seen[p]]
  /\ UNCHANGED <<pollVars, requests, replies, busOpen>>

CloseBus ==
  /\ BusMayClose /\ busOpen
  /\ busOpen' = FALSE
  /\ UNCHANGED <<strategy, pollVars, requests, replies, seen>>

PollStep(p) ==
  \/ GiveUp(p) \/ Park(p) \/ Send(p) \/ Wake(p) \/ TimeOut(p) \/ Forget(p) \/ Slept(p)

Next ==
  \/ \E p \in Polls : Begin(p) \/ PollStep(p) \/ Deadline(p) \/ Drop(p)
  \/ \E r \in requests : Answer(r)
  \/ \E r \in replies : Deliver(r)
  \/ \E b \in Bots : Turn(b)
  \/ CloseBus

Spec == Init /\ [][Next]_vars

\* A poll that can go on does, and timers fire; no bot owes an answer and the
\* broker owes no delivery.
FairSpec ==
  Spec /\ \A p \in Polls : WF_vars(PollStep(p)) /\ WF_vars(Deadline(p))

-----------------------------------------------------------------------------

\* A confirmation is worth something: the bot that was asked was in the
\* expected state at some moment of the poll, however replies are delayed,
\* repeated, reordered or late.
ConfirmedWasTrue ==
  \A p \in Polls : pc[p] = "confirmed" => Expected[p] \in seen[p]

\* Seen from its caller, a poll of requests, parked senders and late replies is
\* one StatusPoll: AwaitRunning and AwaitStopped of Orchestrator are its steps.
Outcome == [p \in Polls |-> IF pc[p] \in Polling THEN "polling" ELSE pc[p]]

Poll == INSTANCE StatusPoll WITH outcome <- Outcome
PollContract == Poll!Spec

\* Nothing is left behind in the map but by a poll that was dropped or whose
\* publish failed, and then one entry at most.
PendingHasWaiter ==
  \A k \in Stamps :
    pending[k] # Nobody =>
      /\ key[pending[k]] = k
      /\ pc[pending[k]] \in Parked \cup {"lost", "failed"}

\* A poll that waits for a reply can still get one: nobody takes its sender away
\* without waking it.
WaiterInformed ==
  \A p \in Polls : pc[p] = "wait" /\ chan[p] = Open => pending[key[p]] = p

\* Every poll ends, answered or not.
PollEnds == \A p \in Polls : pc[p] = "top" ~> pc[p] \in Closed
=============================================================================
