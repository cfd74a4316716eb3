---------------------------- MODULE DeployIntake ----------------------------
(***************************************************************************)
(* What handle_publish (src/src/mqtt.rs) hands on rather than writes: a    *)
(* deploy request to the broadcast channel, which the orchestration        *)
(* listener (src/src/orchestrator.rs) reads, and a bot's log line to the   *)
(* ring that failure reports quote.  Both buffers drop their oldest entry  *)
(* when they are full.                                                     *)
(*                                                                         *)
(* main starts the event loop first and the listener later, and nothing    *)
(* holds the event loop back in between.  tokio's channel is external: a   *)
(* send with no receiver fails, a receiver that was overtaken learns so    *)
(* once and goes on with the oldest value still there.                     *)
(***************************************************************************)
EXTENDS Naturals, SequencesExt

CONSTANTS
  Requests,   \* the payloads of orchestrate/deploy, each delivered at most once
  Valid,      \* those that parse as an OrchestrationRequest
  Capacity,   \* of the broadcast channel, 256 in the code
  Bots,
  RingSize,   \* log lines kept of each bot, 100 in the code
  MaxLines    \* bound: log lines a bot writes between two clearings

ASSUME IntakeAssumption ==
  /\ Valid \subseteq Requests
  /\ Capacity \in Nat \ {0} /\ RingSize \in Nat \ {0} /\ MaxLines \in Nat

VARIABLES
  listening,  \* the listener has subscribed
  backlog,    \* the values the channel holds for the listener
  overtaken,  \* the listener is to be told that it lagged
  spawned,    \* the requests workers were spawned for, in order
  delivered,  \* the requests the broker delivered, in order (history)
  dropped,    \* those the channel lost (history)
  logs,       \* the ring of each bot, a line being its number
  lines       \* the lines of each bot since its ring was cleared (history)

intakeVars == <<listening, backlog, overtaken, spawned, delivered, dropped>>
logVars == <<logs, lines>>
vars == <<intakeVars, logVars>>

TypeOK ==
  /\ listening \in BOOLEAN /\ overtaken \in BOOLEAN
  /\ backlog \in Seq(Requests) /\ Len(backlog) <= Capacity
  /\ spawned \in Seq(Valid) /\ delivered \in Seq(Requests)
  /\ dropped \subseteq Requests
  /\ logs \in [Bots -> Seq(1 .. MaxLines)] /\ lines \in [Bots -> 0 .. MaxLines]

Init ==
  /\ listening = FALSE /\ overtaken = FALSE
  /\ backlog = <<>> /\ spawned = <<>> /\ delivered = <<>> /\ dropped = {}
  /\ logs = [b \in Bots |-> <<>>] /\ lines = [b \in Bots |-> 0]

-----------------------------------------------------------------------------
(***************************************************************************)
(* Deploy requests.                                                        *)
(***************************************************************************)

\* main has a connected bus and builds the Orchestrator.
Subscribe ==
  /\ ~listening
  /\ listening' = TRUE
  /\ UNCHANGED <<backlog, overtaken, spawned, delivered, dropped, logVars>>

Fresh(r) == r \notin Range(delivered)

\* Nobody has subscribed: send fails, and its error is ignored.
DeliverUnheard(r) ==
  /\ Fresh(r) /\ ~listening
  /\ delivered' = Append(delivered, r)
  /\ dropped' = dropped \cup {r}
  /\ UNCHANGED <<listening, backlog, overtaken, spawned, logVars>>

Deliver(r) ==
  /\ Fresh(r) /\ listening /\ Len(backlog) < Capacity
  /\ delivered' = Append(delivered, r)
  /\ backlog' = Append(backlog, r)
  /\ UNCHANGED <<listening, overtaken, spawned, dropped, logVars>>

\* Mutant of DeliverOver: a channel without a limit.
DeliverMore(r) ==
  /\ Fresh(r) /\ listening /\ Len(backlog) >= Capacity
  /\ delivered' = Append(delivered, r)
  /\ backlog' = Append(backlog, r)
  /\ UNCHANGED <<listening, overtaken, spawned, dropped, logVars>>

\* The new value takes the place of the oldest.
DeliverOver(r) ==
  /\ Fresh(r) /\ listening /\ Len(backlog) = Capacity
  /\ delivered' = Append(delivered, r)
  /\ backlog' = Append(Tail(backlog), r)
  /\ dropped' = dropped \cup {Head(backlog)}
  /\ overtaken' = TRUE
  /\ UNCHANGED <<listening, spawned, logVars>>

\* Mutant of HearLag: the listener subscribes again.
ResubscribeOnLag ==
  /\ listening /\ overtaken
  /\ overtaken' = FALSE
  /\ backlog' = <<>>
  /\ UNCHANGED <<listening, spawned, delivered, dropped, logVars>>

\* recv returns Lagged: a warning, and the loop goes on.
HearLag ==
  /\ listening /\ overtaken
  /\ overtaken' = FALSE
  /\ UNCHANGED <<listening, backlog, spawned, delivered, dropped, logVars>>

\* recv returns r.
AtHead(r) == listening /\ ~overtaken /\ backlog # <<>> /\ r = Head(backlog)

Spawn(r) ==
  /\ AtHead(r) /\ r \in Valid
  /\ backlog' = Tail(backlog)
  /\ spawned' = Append(spawned, r)
  /\ UNCHANGED <<listening, overtaken, delivered, dropped, logVars>>

\* Mutant of Discard: the listener ends at a payload it cannot read.
DiscardAndEnd(r) ==
  /\ AtHead(r) /\ r \notin Valid
  /\ UNCHANGED vars

\* A payload that does not parse is logged and forgotten.
Discard(r) ==
  /\ AtHead(r) /\ r \notin Valid
  /\ backlog' = Tail(backlog)
  /\ UNCHANGED <<listening, overtaken, spawned, delivered, dropped, logVars>>

-----------------------------------------------------------------------------
(***************************************************************************)
(* Log lines.                                                              *)
(***************************************************************************)

\* Mutant of Kept: one line too many.
KeptOffByOne(ring) == IF Len(ring) > RingSize THEN Tail(ring) ELSE ring

\* What stays of a ring when a line is about to be added.
Kept(ring) == IF Len(ring) >= RingSize THEN Tail(ring) ELSE ring

Log(b) ==
  /\ lines[b] < MaxLines
  /\ lines' = [lines EXCEPT ![b] = @ + 1]
  /\ logs' = [logs EXCEPT ![b] = Append(Kept(@), lines[b] + 1)]
  /\ UNCHANGED intakeVars

\* clear_logs, when stop_bot has cleaned up.
ClearLogs(b) ==
  /\ lines' = [lines EXCEPT ![b] = 0]
  /\ logs' = [logs EXCEPT ![b] = <<>>]
  /\ UNCHANGED intakeVars

-----------------------------------------------------------------------------

Listen ==
  \/ HearLag
  \/ \E r \in Requests : Spawn(r) \/ Discard(r)

Next ==
  \/ Subscribe \/ Listen
  \/ \E r \in Requests : DeliverUnheard(r) \/ Deliver(r) \/ DeliverOver(r)
  \/ \E b \in Bots : Log(b) \/ ClearLogs(b)

Spec == Init /\ [][Next]_vars

\* tokio polls main and the listener while they can go on.
FairSpec == Spec /\ WF_vars(Subscribe) /\ WF_vars(Listen)

-----------------------------------------------------------------------------
(***************************************************************************)
(* Properties.                                                             *)
(***************************************************************************)

\* The broker delivered q before r.
Before(q, r) ==
  \E i, j \in DOMAIN delivered : i < j /\ delivered[i] = q /\ delivered[j] = r

\* Every readable request the channel did not lose has its worker or is about
\* to have it: none twice, none out of order, none missed, however the listener
\* and the deliveries interleave.
EachSpawnedOnce ==
  LET queue == spawned \o backlog
  IN  /\ \A i, j \in DOMAIN queue : i < j => Before(queue[i], queue[j])
      /\ Range(queue) \cap Valid = (Range(delivered) \cap Valid) \ dropped

\* The ring quotes the latest lines since it was cleared, as many as it holds.
LatestLogs ==
  \A b \in Bots :
    LET kept == IF lines[b] < RingSize THEN lines[b] ELSE RingSize
    IN  logs[b] = [i \in 1 .. kept |-> lines[b] - kept + i]

\* Nothing stops the listener: every readable request in the channel gets its
\* worker or is overtaken.
ListenerGoesOn ==
  \A r \in Valid : r \in Range(backlog) ~> r \in Range(spawned) \cup dropped
=============================================================================
