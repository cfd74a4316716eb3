------------------------------ MODULE MqttLink ------------------------------
(***************************************************************************)
(* The connection to the broker, src/src/mqtt.rs: the event-loop task, the *)
(* bounded channel of requests it alone drains, the subscriptions it asks  *)
(* for again on every ConnAck, the reconnect backoff and the health flag.  *)
(*                                                                         *)
(* rumqttc is external: poll connects when there is no connection, takes   *)
(* the oldest request from the channel when there is one, and on an error  *)
(* of a connection throws the connection away and empties the channel; an  *)
(* attempt to connect that fails leaves the channel alone.  The session is *)
(* clean, so the broker forgets the subscriptions with the connection.     *)
(*                                                                         *)
(* A publish returns as soon as its request is in the channel, and its     *)
(* task may publish again: nothing but the channel's capacity bounds what  *)
(* one task can have waiting, and during an outage the channel can fill.   *)
(***************************************************************************)
EXTENDS Naturals, Sequences, FiniteSets

CONSTANTS
  Topics,         \* the default subscriptions
  Publishers,     \* the tasks that publish
  Capacity,       \* of the request channel, 100 in the code
  InitialBackoff, \* MQTT_RECONNECT_BACKOFF_INITIAL
  MaxBackoff      \* MQTT_RECONNECT_BACKOFF_MAX

ASSUME LinkAssumption ==
  /\ IsFiniteSet(Topics) /\ Topics # {}
  /\ Capacity \in Nat
  /\ InitialBackoff \in Nat /\ MaxBackoff \in Nat /\ InitialBackoff <= MaxBackoff

VARIABLES
  broker,      \* the broker can be reached
  network,     \* "none", "live", or "dead": broken, and poll does not know yet
  loop,        \* where the event-loop task is
  todo,        \* the topics it has yet to ask for since the last ConnAck
  startup,     \* the topics MqttBus::connect has yet to ask for
  sending,     \* the publishers inside a publish that has not returned
  queue,       \* the request channel, oldest request first
  subscribed,  \* the topics the broker delivers to this connection
  backoff,     \* reconnect_backoff
  connected    \* the flag /health reports

vars == <<broker, network, loop, todo, startup, sending, queue, subscribed,
          backoff, connected>>

\* A subscription is asked for by connect() or by the event loop; one publish
\* is like another to the link.
Publication == <<"publish", "message">>
Requests == ({"connect", "loop"} \X Topics) \cup {Publication}

TypeOK ==
  /\ broker \in BOOLEAN /\ connected \in BOOLEAN
  /\ network \in {"none", "live", "dead"}
  /\ loop \in {"poll", "subscribing", "backoff"}
  /\ todo \subseteq Topics /\ startup \subseteq Topics /\ subscribed \subseteq Topics
  /\ sending \subseteq Publishers
  /\ queue \in Seq(Requests) /\ Len(queue) <= Capacity
  /\ backoff \in InitialBackoff .. MaxBackoff

Init ==
  /\ broker \in BOOLEAN
  /\ network = "none" /\ loop = "poll"
  /\ todo = {} /\ startup = Topics
  /\ sending = {} /\ queue = <<>> /\ subscribed = {}
  /\ backoff = InitialBackoff
  /\ connected = FALSE

-----------------------------------------------------------------------------
(***************************************************************************)
(* AsyncClient: a request is in the channel when the call returns; while   *)
(* the channel is full the call waits, without a time-out.                 *)
(***************************************************************************)

HasRoom == Len(queue) < Capacity

\* connect() asks for the default subscriptions once, whether or not there is
\* a connection yet.
StartupSubscribe(topic) ==
  /\ topic \in startup /\ HasRoom
  /\ startup' = startup \ {topic}
  /\ queue' = Append(queue, <<"connect", topic>>)
  /\ UNCHANGED <<broker, network, loop, todo, sending, subscribed, backoff, connected>>

\* publish_command, publish_raw.
Publish(p) ==
  /\ p \notin sending
  /\ sending' = sending \cup {p}
  /\ UNCHANGED <<broker, network, loop, todo, startup, queue, subscribed, backoff, connected>>

PublishReturns(p) ==
  /\ p \in sending /\ HasRoom
  /\ sending' = sending \ {p}
  /\ queue' = Append(queue, Publication)
  /\ UNCHANGED <<broker, network, loop, todo, startup, subscribed, backoff, connected>>

-----------------------------------------------------------------------------
(***************************************************************************)
(* The event loop.                                                         *)
(***************************************************************************)

\* Mutant of OnConnAck: the subscriptions of connect() are taken to last.
ConnAckOnly ==
  /\ loop = "poll" /\ network = "none" /\ broker
  /\ network' = "live"
  /\ connected' = TRUE
  /\ backoff' = InitialBackoff
  /\ UNCHANGED <<broker, loop, todo, startup, sending, queue, subscribed>>

\* Mutant of OnConnAck: the backoff goes on where the outage left it.
ConnAckKeepsBackoff ==
  /\ loop = "poll" /\ network = "none" /\ broker
  /\ network' = "live"
  /\ connected' = TRUE
  /\ loop' = "subscribing" /\ todo' = Topics
  /\ UNCHANGED <<broker, startup, sending, queue, subscribed, backoff>>

\* Mutant of OnConnAck: only a message sets the flag.
ConnAckUnshown ==
  /\ loop = "poll" /\ network = "none" /\ broker
  /\ network' = "live"
  /\ backoff' = InitialBackoff
  /\ loop' = "subscribing" /\ todo' = Topics
  /\ UNCHANGED <<broker, startup, sending, queue, subscribed, connected>>

\* poll connects: the flag, the backoff, and the default subscriptions again.
OnConnAck ==
  /\ loop = "poll" /\ network = "none" /\ broker
  /\ network' = "live"
  /\ connected' = TRUE
  /\ backoff' = InitialBackoff
  /\ loop' = "subscribing" /\ todo' = Topics
  /\ UNCHANGED <<broker, startup, sending, queue, subscribed>>

\* Mutant of Resubscribe: a subscription that finds no room is skipped.
ResubscribeOrSkip(topic) ==
  /\ loop = "subscribing" /\ topic \in todo
  /\ todo' = todo \ {topic}
  /\ loop' = IF todo' = {} THEN "poll" ELSE "subscribing"
  /\ queue' = IF HasRoom THEN Append(queue, <<"loop", topic>>) ELSE queue
  /\ UNCHANGED <<broker, network, startup, sending, subscribed, backoff, connected>>

\* subscribe_defaults, inside the loop: a send into the channel the loop itself
\* drains.  After the last topic the loop polls again.
Resubscribe(topic) ==
  /\ loop = "subscribing" /\ topic \in todo /\ HasRoom
  /\ todo' = todo \ {topic}
  /\ loop' = IF todo' = {} THEN "poll" ELSE "subscribing"
  /\ queue' = Append(queue, <<"loop", topic>>)
  /\ UNCHANGED <<broker, network, startup, sending, subscribed, backoff, connected>>

\* poll takes the oldest request and writes it; on a broken connection nobody
\* reads it.  Every event that is not an error resets the backoff.
Take ==
  /\ loop = "poll" /\ network # "none" /\ queue # <<>>
  /\ queue' = Tail(queue)
  /\ subscribed' = IF network = "live" /\ Head(queue) # Publication
                   THEN subscribed \cup {Head(queue)[2]} ELSE subscribed
  /\ backoff' = InitialBackoff
  /\ UNCHANGED <<broker, network, loop, todo, startup, sending, connected>>

\* poll brings a message of a subscribed topic; what handle_publish makes of it
\* touches nothing of the link.
Incoming ==
  /\ loop = "poll" /\ network = "live" /\ subscribed # {}
  /\ connected' = TRUE
  /\ backoff' = InitialBackoff
  /\ UNCHANGED <<broker, network, loop, todo, startup, sending, queue, subscribed>>

\* Mutant of ConnectionLost: an error of the connection ends the task.
ConnectionLostForGood ==
  /\ loop = "poll" /\ network = "dead"
  /\ network' = "none"
  /\ queue' = <<>>
  /\ connected' = FALSE
  /\ loop' = "ended"
  /\ UNCHANGED <<broker, todo, startup, sending, subscribed, backoff>>

\* poll finds the connection broken and gives it up with what is in the channel.
ConnectionLost ==
  /\ loop = "poll" /\ network = "dead"
  /\ network' = "none"
  /\ queue' = <<>>
  /\ connected' = FALSE
  /\ loop' = "backoff"
  /\ UNCHANGED <<broker, todo, startup, sending, subscribed, backoff>>

\* poll cannot connect.
ConnectFails ==
  /\ loop = "poll" /\ network = "none" /\ ~broker
  /\ connected' = FALSE
  /\ loop' = "backoff"
  /\ UNCHANGED <<broker, network, todo, startup, sending, queue, subscribed, backoff>>

\* Mutant of NextBackoff: no cap.
DoubleBackoff == 2 * backoff

\* next_reconnect_backoff.
NextBackoff == IF 2 * backoff > MaxBackoff THEN MaxBackoff ELSE 2 * backoff

\* Mutant of Retry: the default subscriptions are asked for after every wait.
RetrySubscribes ==
  /\ loop = "backoff"
  /\ backoff' = NextBackoff
  /\ loop' = "subscribing" /\ todo' = Topics
  /\ UNCHANGED <<broker, network, startup, sending, queue, subscribed, connected>>

Retry ==
  /\ loop = "backoff"
  /\ backoff' = NextBackoff
  /\ loop' = "poll"
  /\ UNCHANGED <<broker, network, todo, startup, sending, queue, subscribed, connected>>

-----------------------------------------------------------------------------
(***************************************************************************)
(* The broker.                                                             *)
(***************************************************************************)

BrokerGoes ==
  /\ broker
  /\ broker' = FALSE
  /\ network' = IF network = "live" THEN "dead" ELSE network
  /\ subscribed' = {}
  /\ UNCHANGED <<loop, todo, startup, sending, queue, backoff, connected>>

BrokerComes ==
  /\ ~broker
  /\ broker' = TRUE
  /\ UNCHANGED <<network, loop, todo, startup, sending, queue, subscribed, backoff, connected>>

-----------------------------------------------------------------------------

LoopStep ==
  \/ OnConnAck \/ ConnectFails \/ ConnectionLost \/ Retry \/ Take
  \/ \E topic \in Topics : Resubscribe(topic)

Next ==
  \/ LoopStep \/ Incoming
  \/ \E topic \in Topics : StartupSubscribe(topic)
  \/ \E p \in Publishers : Publish(p) \/ PublishReturns(p)
  \/ BrokerGoes \/ BrokerComes

Spec == Init /\ [][Next]_vars

\* tokio polls the event loop, main and every publisher that can go on, timers
\* fire, and keep-alive finds a broken connection out.  The channel serves the
\* calls that wait for room in the order they came, so that one of them cannot
\* be passed over for ever while room comes and goes.
Fairness ==
  /\ WF_vars(LoopStep) /\ WF_vars(ConnectionLost)
  /\ \A topic \in Topics : SF_vars(StartupSubscribe(topic))
  /\ \A p \in Publishers : SF_vars(PublishReturns(p))

FairSpec == Spec /\ Fairness

-----------------------------------------------------------------------------
(***************************************************************************)
(* Properties.                                                             *)
(***************************************************************************)

\* The event loop waits for room in the channel only the event loop empties.
Stuck == loop = "subscribing" /\ ~HasRoom

\* The requests in the channel that are not the loop's own.
OfOthers == {i \in DOMAIN queue : queue[i][1] # "loop"}

\* The loop never fills the channel for itself, however often it reconnects:
\* it is stuck only behind more requests of others than the channel has
\* places beyond one set of subscriptions (94 of 100 in the code).
StuckBehindOthers ==
  Stuck => Cardinality(OfOthers) > Capacity - Cardinality(Topics)

\* An outage that follows a good connection is retried at the initial pace.
BackoffStartsOver == network # "none" => backoff = InitialBackoff

\* A loop that is stuck stays so whatever the broker and the others do: no
\* request leaves any more, and /health goes on reporting a connection.
StuckForGood == [][Stuck => Stuck' /\ queue' = queue /\ connected']_vars

\* "Ensuring subscriptions" (src/src/mqtt.rs:243): once the broker can be
\* reached for good, every default topic is and stays subscribed, unless the
\* loop gets stuck while it asks for them.
SubscriptionsEnsured ==
  <>[]broker => <>[](subscribed = Topics) \/ <>[]Stuck

\* /health ends up telling the truth about a broker that stays, and about one
\* that stays away unless the loop is stuck.
HealthFollows ==
  /\ <>[]broker => <>[]connected
  /\ <>[]~broker => <>[]~connected \/ <>[]Stuck

\* Once the broker stays, a publish returns, however full an outage left the
\* channel; only a stuck loop keeps it waiting.
PublishersGoOn ==
  <>[]broker => \A p \in Publishers : p \in sending ~> p \notin sending \/ Stuck
=============================================================================
