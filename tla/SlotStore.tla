----------------------------- MODULE SlotStore -----------------------------
(***************************************************************************)
(* The in-memory warm-pool slot table, src/src/slot_store.rs.  Every       *)
(* method takes the one mutex for its whole body, so every method is one   *)
(* atomic action here; this module is the vocabulary the callers use.      *)
(*                                                                         *)
(* A slot is split over one function per field.  The four fields that are  *)
(* always written and cleared together (assigned_instance_name,            *)
(* account_name, current_config_name, current_controller_ids) are one      *)
(* value: the deployment that wrote them.  updated_at and last_error are   *)
(* never read back by the program and are left out.                        *)
(***************************************************************************)
EXTENDS Integers

CONSTANTS
  Bots,      \* bot names; a name is its rank in the order reserve_idle sorts by
  Pool,      \* the names listed in POOL_BOTS
  Deploys,   \* the deployments that can write a slot's assignment
  NoDeploy   \* an assignment that is not there (None)

ASSUME BotsAssumption == Bots \subseteq Int /\ Pool \subseteq Bots
ASSUME NoDeployAssumption == NoDeploy \notin Deploys

VARIABLES
  status,    \* status of each slot, "absent" while the table has no such key
  assigned,  \* whose assignment the slot carries
  fresh      \* last_heartbeat is there and younger than the heartbeat timeout

storeVars == <<status, assigned, fresh>>

SlotStatus == {"offline", "bootstrapping", "idle", "reserved", "configuring",
               "running", "stopping", "cleanup", "error"}

\* Mutants of Exempt: a list without "reserved", and one that also spares errors.
ExemptNotReserved == {"configuring", "stopping"}
ExemptWithError == {"reserved", "configuring", "stopping", "error"}

\* The statuses mark_stale_offline skips whatever the heartbeat says: a slot
\* in one of them is taken to be in the hands of a running operation.
Exempt == {"reserved", "configuring", "stopping"}

Known(b) == status[b] # "absent"

StoreTypeOK ==
  /\ status \in [Bots -> SlotStatus \cup {"absent"}]
  /\ assigned \in [Bots -> Deploys \cup {NoDeploy}]
  /\ fresh \in [Bots -> BOOLEAN]

StoreInit ==
  /\ status = [b \in Bots |-> IF b \in Pool THEN "offline" ELSE "absent"]
  /\ assigned = [b \in Bots |-> NoDeploy]
  /\ fresh = [b \in Bots |-> FALSE]

-----------------------------------------------------------------------------
(***************************************************************************)
(* The methods.                                                            *)
(***************************************************************************)

NoneIdle == \A b \in Bots : status[b] # "idle"

\* reserve_idle: the first idle slot in name order; a stale assignment stays.
ReserveIdle(b) ==
  /\ status[b] = "idle"
  /\ \A c \in Bots : status[c] = "idle" => b <= c
  /\ status' = [status EXCEPT ![b] = "reserved"]
  /\ UNCHANGED <<assigned, fresh>>

\* Mutant of MarkHeartbeat: the assignment is not looked at.
HeartbeatMeansIdle(b) ==
  /\ status' = [status EXCEPT ![b] =
                  IF @ \in {"absent", "offline", "bootstrapping"} THEN "idle" ELSE @]
  /\ fresh' = [fresh EXCEPT ![b] = TRUE]
  /\ UNCHANGED assigned

\* mark_heartbeat: the only method that inserts a missing key.  A slot that was
\* believed offline comes back as what its assignment suggests.
MarkHeartbeat(b) ==
  /\ status' = [status EXCEPT ![b] =
                  IF @ \notin {"absent", "offline", "bootstrapping"} THEN @
                  ELSE IF assigned[b] # NoDeploy THEN "running" ELSE "idle"]
  /\ fresh' = [fresh EXCEPT ![b] = TRUE]
  /\ UNCHANGED assigned

\* mark_status and mark_error: unconditional on a known slot.
MarkStatus(b, s) ==
  /\ status' = [status EXCEPT ![b] = IF @ = "absent" THEN @ ELSE s]
  /\ UNCHANGED <<assigned, fresh>>

MarkError(b) == MarkStatus(b, "error")

\* assign_configuring (s = "configuring") and assign_running (s = "running").
Assign(b, s, t) ==
  /\ status' = [status EXCEPT ![b] = IF @ = "absent" THEN @ ELSE s]
  /\ assigned' = [assigned EXCEPT ![b] = IF Known(b) THEN t ELSE @]
  /\ UNCHANGED fresh

\* Mutant of ReleaseIdle: the assignment is not cleared.
ReleaseStatusOnly(b) == MarkStatus(b, "idle")

\* release_idle: unconditional as well, whoever holds the slot by now.
ReleaseIdle(b) ==
  /\ status' = [status EXCEPT ![b] = IF @ = "absent" THEN @ ELSE "idle"]
  /\ assigned' = [assigned EXCEPT ![b] = NoDeploy]
  /\ UNCHANGED fresh

\* mark_stale_offline: one pass over the whole table under one lock.
MarkStaleOffline ==
  /\ status' = [b \in Bots |->
                  IF status[b] \in Exempt \cup {"absent"} \/ fresh[b]
                  THEN status[b] ELSE "offline"]
  /\ UNCHANGED <<assigned, fresh>>

\* The clock passes a slot's last_heartbeat + timeout.
HeartbeatExpires(b) ==
  /\ fresh[b]
  /\ fresh' = [fresh EXCEPT ![b] = FALSE]
  /\ UNCHANGED <<status, assigned>>
=============================================================================
