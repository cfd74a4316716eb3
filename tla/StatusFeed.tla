----------------------------- MODULE StatusFeed -----------------------------
(***************************************************************************)
(* What hummingbot-api may rely on: the orchestrate/status events of one   *)
(* request.  The sidecar has no other channel back (src/README.md:7), so this  *)
(* is its contract: the progress events come in order, none is skipped or  *)
(* repeated, a request ends with exactly one "running" or one "failed",    *)
(* and nothing follows either.                                             *)
(***************************************************************************)
EXTENDS Naturals, Sequences

CONSTANT Requests

VARIABLE feed   \* the events published for each request so far

Progress == <<"reserved", "hydrating", "configuring", "running">>

\* Every event so far was a progress event and the last one is not out.
Open(r) == feed[r] \in {SubSeq(Progress, 1, n) : n \in 0 .. Len(Progress) - 1}

Closed(r) == feed[r] # <<>> /\ feed[r][Len(feed[r])] \in {"running", "failed"}

Init == feed = [r \in Requests |-> <<>>]

Advance(r) ==
  /\ Open(r)
  /\ feed' = [feed EXCEPT ![r] = Append(@, Progress[Len(@) + 1])]

Fail(r) ==
  /\ Open(r)
  /\ feed' = [feed EXCEPT ![r] = Append(@, "failed")]

Next == \E r \in Requests : Advance(r) \/ Fail(r)

Spec == Init /\ [][Next]_feed
=============================================================================
