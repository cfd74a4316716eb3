----------------------------- MODULE StatusPoll -----------------------------
(***************************************************************************)
(* What a deployment and stop_bot take a poll of /status for               *)
(* (src/src/mqtt.rs, wait_for_strategy_status_content): one outcome, and   *)
(* never another.  Ok(Some) tells that the bot was in the expected state   *)
(* since the poll began, Ok(None) that the time given is over, and an      *)
(* error that the bus is closed; a poll made for a client may go with it.  *)
(***************************************************************************)
CONSTANTS Bots, Polls, Target, Expected, Droppable

VARIABLES
  strategy,  \* what each bot's strategy does
  outcome,   \* of each poll, or "idle", or "polling"
  seen,      \* what the strategy of its bot did since each poll began
  late,      \* the time given to the poll is over
  busOpen

vars == <<strategy, outcome, seen, late, busOpen>>

Init ==
  /\ strategy \in [Bots -> {"running", "stopped"}]
  /\ outcome = [p \in Polls |-> "idle"]
  /\ seen = [p \in Polls |-> {}]
  /\ late = [p \in Polls |-> FALSE]
  /\ busOpen = TRUE

Begin(p) ==
  /\ outcome[p] = "idle"
  /\ outcome' = [outcome EXCEPT ![p] = "polling"]
  /\ seen' = [seen EXCEPT ![p] = {strategy[Target[p]]}]
  /\ UNCHANGED <<strategy, late, busOpen>>

Deadline(p) ==
  /\ outcome[p] = "polling" /\ ~late[p]
  /\ late' = [late EXCEPT ![p] = TRUE]
  /\ UNCHANGED <<strategy, outcome, seen, busOpen>>

Returns(p, result) ==
  /\ outcome[p] = "polling"
  /\ outcome' = [outcome EXCEPT ![p] = result]
  /\ UNCHANGED <<strategy, seen, late, busOpen>>

Confirm(p) == Expected[p] \in seen[p] /\ Returns(p, "confirmed")
GiveUp(p) == late[p] /\ Returns(p, "timedOut")
Fail(p) == ~busOpen /\ Returns(p, "failed")
Drop(p) == p \in Droppable /\ Returns(p, "lost")

Turn(b) ==
  /\ strategy'[b] # strategy[b]
  /\ \E s \in {"running", "stopped"} : strategy' = [strategy EXCEPT ![b] = s]
  /\ seen' = [p \in Polls |-> IF Target[p] = b /\ outcome[p] # "idle"
                               THEN seen[p] \cup {strategy'[b]} ELSE seen[p]]
  /\ UNCHANGED <<outcome, late, busOpen>>

CloseBus ==
  /\ busOpen /\ busOpen' = FALSE
  /\ UNCHANGED <<strategy, outcome, seen, late>>

Next ==
  \/ \E p \in Polls : Begin(p) \/ Deadline(p) \/ Confirm(p) \/ GiveUp(p) \/ Fail(p) \/ Drop(p)
  \/ \E b \in Bots : Turn(b)
  \/ CloseBus

Spec == Init /\ [][Next]_vars
=============================================================================
