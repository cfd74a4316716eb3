----------------------------- MODULE FeedProofs -----------------------------
(***************************************************************************)
(* The orchestrator implements StatusFeed: whatever stops, messages,       *)
(* reaper passes, disconnects and a closing bus do meanwhile, the events   *)
(* of each request come in order, none twice, and end with one outcome.    *)
(***************************************************************************)
EXTENDS OrchestratorProofs, SequenceTheorems

r0 == <<>>
r1 == <<"reserved">>
r2 == <<"reserved", "hydrating">>
r3 == <<"reserved", "hydrating", "configuring">>

\* How far the feed of a request is, at each point of its worker.
FeedAt(t) ==
  /\ pc[t] \in {"idle", "reserve", "refused", "pubReserved"} => feed[t] = r0
  /\ pc[t] = "pubHydrating" => feed[t] = r1
  /\ pc[t] \in {"hydrate", "prepare", "assign", "pubConfiguring"} => feed[t] = r2
  /\ pc[t] \in {"start", "await", "assignRunning", "pubRunning"} => feed[t] = r3
  /\ pc[t] \in {"markError", "pubError", "giveUp"} => feed[t] \in {r0, r1, r2, r3}
  /\ pc[t] # "diagnose"

FeedInv == \A t \in Orch : FeedAt(t)

LEMMA Lengths ==
  /\ r0 \in Seq(Events) /\ Len(r0) = 0
  /\ r1 \in Seq(Events) /\ Len(r1) = 1
  /\ r2 \in Seq(Events) /\ Len(r2) = 2
  /\ r3 \in Seq(Events) /\ Len(r3) = 3
BY DEF r0, r1, r2, r3, Events

LEMMA Extensions ==
  /\ Append(r0, "reserved") = r1
  /\ Append(r1, "hydrating") = r2
  /\ Append(r2, "configuring") = r3
<1>1. Append(r0, "reserved") = r1  BY DEF r0, r1
<1>2. Append(r1, "hydrating") = r2
  <2>1. /\ Append(r1, "hydrating") \in Seq(Events)
        /\ Len(Append(r1, "hydrating")) = 2
        /\ \A i \in 1 .. 2 : Append(r1, "hydrating")[i] = r2[i]
    BY Lengths, AppendProperties DEF r1, r2, Events
  <2> QED  BY <2>1, Lengths, SeqEqual
<1>3. Append(r2, "configuring") = r3
  <2>1. /\ Append(r2, "configuring") \in Seq(Events)
        /\ Len(Append(r2, "configuring")) = 3
        /\ \A i \in 1 .. 3 : Append(r2, "configuring")[i] = r3[i]
    BY Lengths, AppendProperties DEF r2, r3, Events
  <2> QED  BY <2>1, Lengths, SeqEqual
<1> QED  BY <1>1, <1>2, <1>3

\* A prefix of Progress, and what Progress continues it with.
LEMMA Prefixes ==
  /\ SubSeq(Feed!Progress, 1, 0) = r0
  /\ SubSeq(Feed!Progress, 1, 1) = r1
  /\ SubSeq(Feed!Progress, 1, 2) = r2
  /\ SubSeq(Feed!Progress, 1, 3) = r3
<1> DEFINE P == Feed!Progress
<1>1. \A i \in 1 .. 4 : P[i] \in Events  BY DEF Feed!Progress, Events
<1>2. ASSUME NEW n \in 0 .. 3
      PROVE  /\ SubSeq(P, 1, n) \in Seq(Events)
             /\ Len(SubSeq(P, 1, n)) = n
             /\ \A i \in 1 .. n : SubSeq(P, 1, n)[i] = P[i]
  <2>1. \A i \in 1 .. n : P[i] \in Events  BY <1>1
  <2> HIDE DEF P
  <2>2. /\ SubSeq(P, 1, n) \in Seq(Events)
        /\ Len(SubSeq(P, 1, n)) = IF 1 <= n THEN n - 1 + 1 ELSE 0
        /\ \A i \in 1 .. n - 1 + 1 : SubSeq(P, 1, n)[i] = P[1 + i - 1]
    BY <2>1, SubSeqProperties
  <2> QED  BY <2>2
<1> HIDE DEF P
<1>3. P[1] = "reserved" /\ P[2] = "hydrating" /\ P[3] = "configuring"
  BY DEF P, Feed!Progress
<1>4. SubSeq(P, 1, 0) = r0  BY <1>2, Lengths, SeqEqual
<1>5. SubSeq(P, 1, 1) = r1
  <2>1. \A i \in 1 .. 1 : SubSeq(P, 1, 1)[i] = r1[i]  BY <1>2, <1>3 DEF r1
  <2> QED  BY <1>2, <2>1, Lengths, SeqEqual
<1>6. SubSeq(P, 1, 2) = r2
  <2>1. \A i \in 1 .. 2 : SubSeq(P, 1, 2)[i] = r2[i]  BY <1>2, <1>3 DEF r2
  <2> QED  BY <1>2, <2>1, Lengths, SeqEqual
<1>7. SubSeq(P, 1, 3) = r3
  <2>1. \A i \in 1 .. 3 : SubSeq(P, 1, 3)[i] = r3[i]  BY <1>2, <1>3 DEF r3
  <2> QED  BY <1>2, <2>1, Lengths, SeqEqual
<1> QED  BY <1>4, <1>5, <1>6, <1>7 DEF P

LEMMA OpenFeeds ==
  ASSUME NEW t \in Orch
  PROVE  /\ Feed!Open(t) <=> feed[t] \in {r0, r1, r2, r3}
         /\ feed[t] = r0 => Feed!Progress[Len(feed[t]) + 1] = "reserved"
         /\ feed[t] = r1 => Feed!Progress[Len(feed[t]) + 1] = "hydrating"
         /\ feed[t] = r2 => Feed!Progress[Len(feed[t]) + 1] = "configuring"
         /\ feed[t] = r3 => Feed!Progress[Len(feed[t]) + 1] = "running"
<1>1. Len(Feed!Progress) = 4  BY DEF Feed!Progress
<1>2. 0 .. Len(Feed!Progress) - 1 = {0, 1, 2, 3}  BY <1>1
<1>3. Feed!Open(t) <=> feed[t] \in {SubSeq(Feed!Progress, 1, n) : n \in {0, 1, 2, 3}}
  BY <1>2 DEF Feed!Open
<1>4. Feed!Open(t) <=> feed[t] \in {r0, r1, r2, r3}
  BY <1>3, Prefixes
<1>5. /\ Feed!Progress[1] = "reserved" /\ Feed!Progress[2] = "hydrating"
      /\ Feed!Progress[3] = "configuring" /\ Feed!Progress[4] = "running"
  BY DEF Feed!Progress
<1>6. feed[t] = r0 => Feed!Progress[Len(feed[t]) + 1] = "reserved"
  <2> HAVE feed[t] = r0
  <2>1. Len(feed[t]) + 1 = 1  BY Lengths
  <2> QED  BY <1>5, <2>1
<1>7. feed[t] = r1 => Feed!Progress[Len(feed[t]) + 1] = "hydrating"
  <2> HAVE feed[t] = r1
  <2>1. Len(feed[t]) + 1 = 2  BY Lengths
  <2> QED  BY <1>5, <2>1
<1>8. feed[t] = r2 => Feed!Progress[Len(feed[t]) + 1] = "configuring"
  <2> HAVE feed[t] = r2
  <2>1. Len(feed[t]) + 1 = 3  BY Lengths
  <2> QED  BY <1>5, <2>1
<1>9. feed[t] = r3 => Feed!Progress[Len(feed[t]) + 1] = "running"
  <2> HAVE feed[t] = r3
  <2>1. Len(feed[t]) + 1 = 4  BY Lengths
  <2> QED  BY <1>5, <2>1
<1> QED  BY <1>4, <1>6, <1>7, <1>8, <1>9

-----------------------------------------------------------------------------

\* What a publish of e does to the abstract feed.
LEMMA PublishedFeed ==
  ASSUME TypeOK, NEW t \in Orch, NEW e \in Events, Published(t, e), Feed!Open(t),
         e = "failed" \/ e = Feed!Progress[Len(feed[t]) + 1]
  PROVE  [Feed!Next]_feed
<1>1. CASE busOpen
  <2>1. feed' = [feed EXCEPT ![t] = Append(@, e)]  BY <1>1 DEF Published
  <2>2. CASE e = "failed"
    BY <2>1, <2>2 DEF Feed!Fail, Feed!Next
  <2>3. CASE e = Feed!Progress[Len(feed[t]) + 1]
    BY <2>1, <2>3 DEF Feed!Advance, Feed!Next
  <2> QED  BY <2>2, <2>3
<1>2. CASE ~busOpen  BY <1>2 DEF Published
<1> QED  BY <1>1, <1>2

\* Every step of a worker keeps its feed where its counter says, and is a step
\* of the abstract feed or none.
LEMMA WorkerFeed ==
  ASSUME TypeOK, FeedInv, NEW t \in Orch, Arrive(t) \/ DeployStep(t)
  PROVE  FeedAt(t)' /\ [Feed!Next]_feed /\ \A u \in Orch : u # t => feed'[u] = feed[u]
<1> USE DEF Goto
<1>a. /\ pc \in [Tasks -> DeployPCs \cup StopPCs]
      /\ feed \in [Orch -> Seq(Events)]
      /\ Orch \subseteq Deploys /\ Deploys \subseteq Tasks
      /\ t \notin Http
      /\ FeedAt(t)
  BY TasksAssumption DEF TypeOK, Tasks, FeedInv, Events, Http
<1>b. r0 \in {r0, r1, r2, r3} /\ r1 \in {r0, r1, r2, r3}
      /\ r2 \in {r0, r1, r2, r3} /\ r3 \in {r0, r1, r2, r3}
  OBVIOUS
\* The steps that publish nothing.
<1>1. CASE \/ Receive(t) \/ Skip(t) \/ Post(t) \/ Reserve(t) \/ Refuse(t) \/ Hydrate(t)
           \/ Prepare(t) \/ AssignConfiguring(t) \/ SendStart(t) \/ AwaitRunning(t)
           \/ AssignRunning(t) \/ Diagnose(t) \/ MarkFailed(t)
  <2>1. UNCHANGED feed
    BY <1>1 DEF Receive, Skip, Post, Reserve, Refuse, Hydrate, Prepare,
       AssignConfiguring, SendStart, AwaitRunning, AssignRunning, Diagnose, MarkFailed
  <2>2. FeedAt(t)'
    BY <1>1, <1>a, <1>b, <2>1 DEF FeedAt, Receive, Skip, Post, Reserve, Refuse, Hydrate, Prepare,
       AssignConfiguring, SendStart, AwaitRunning, AssignRunning, Diagnose, MarkFailed,
       OnStartError
  <2> QED  BY <2>1, <2>2
\* The steps that publish progress; a failed publish makes the worker give up.
<1>2. ASSUME NEW from, NEW e \in Events, NEW to,
             PublishOrGiveUp(t, from, e, to), feed[t] \in {r0, r1, r2, r3},
             e = Feed!Progress[Len(feed[t]) + 1],
             to # "giveUp"
      PROVE  /\ [Feed!Next]_feed
             /\ \A u \in Orch : u # t => feed'[u] = feed[u]
             /\ \/ pc'[t] = to /\ feed'[t] = Append(feed[t], e)
                \/ pc'[t] = "giveUp" /\ feed'[t] = feed[t]
  <2>1. Published(t, e)  BY <1>2 DEF PublishOrGiveUp
  <2>2. Feed!Open(t)  BY <1>2, OpenFeeds
  <2>3. [Feed!Next]_feed  BY <1>2, <2>1, <2>2, PublishedFeed
  <2>4. \A u \in Orch : u # t => feed'[u] = feed[u]  BY <1>a, <2>1 DEF Published
  <2>5. \/ pc'[t] = to /\ feed'[t] = Append(feed[t], e)
        \/ pc'[t] = "giveUp" /\ feed'[t] = feed[t]
    <3>1. CASE busOpen
      <4>1. pc'[t] = to  BY <1>2, <1>a, <3>1 DEF PublishOrGiveUp
      <4>2. feed'[t] = Append(feed[t], e)  BY <1>a, <2>1, <3>1 DEF Published
      <4> QED  BY <1>2, <4>1, <4>2
    <3>2. CASE ~busOpen
      <4>1. pc'[t] = "giveUp"  BY <1>2, <1>a, <3>2 DEF PublishOrGiveUp
      <4>2. feed'[t] = feed[t]  BY <2>1, <3>2 DEF Published
      <4> QED  BY <1>2, <4>1, <4>2
    <3> QED  BY <3>1, <3>2
  <2> QED  BY <2>3, <2>4, <2>5
<1>3. CASE PublishReserved(t)
  <2>1. feed[t] = r0  BY <1>3, <1>a DEF PublishReserved, PublishOrGiveUp, FeedAt
  <2>2. "reserved" = Feed!Progress[Len(feed[t]) + 1]  BY <2>1, OpenFeeds
  <2>3. "reserved" \in Events  BY DEF Events
  <2>4. /\ [Feed!Next]_feed
        /\ \A u \in Orch : u # t => feed'[u] = feed[u]
        /\ \/ pc'[t] = "pubHydrating" /\ feed'[t] = Append(feed[t], "reserved")
           \/ pc'[t] = "giveUp" /\ feed'[t] = feed[t]
    <3>1. PublishOrGiveUp(t, "pubReserved", "reserved", "pubHydrating")
      BY <1>3 DEF PublishReserved
    <3> QED  BY <1>2, <1>b, <2>1, <2>2, <2>3, <3>1
  <2> QED  BY <1>b, <2>1, <2>4, Extensions DEF FeedAt
<1>4. CASE PublishHydrating(t)
  <2>1. feed[t] = r1  BY <1>4, <1>a DEF PublishHydrating, PublishOrGiveUp, FeedAt
  <2>2. "hydrating" = Feed!Progress[Len(feed[t]) + 1]  BY <2>1, OpenFeeds
  <2>3. "hydrating" \in Events  BY DEF Events
  <2>4. /\ [Feed!Next]_feed
        /\ \A u \in Orch : u # t => feed'[u] = feed[u]
        /\ \/ pc'[t] = "hydrate" /\ feed'[t] = Append(feed[t], "hydrating")
           \/ pc'[t] = "giveUp" /\ feed'[t] = feed[t]
    BY <1>2, <1>4, <1>b, <2>1, <2>2, <2>3 DEF PublishHydrating
  <2> QED  BY <1>b, <2>1, <2>4, Extensions DEF FeedAt
<1>5. CASE PublishConfiguring(t)
  <2>1. feed[t] = r2  BY <1>5, <1>a DEF PublishConfiguring, PublishOrGiveUp, FeedAt
  <2>2. "configuring" = Feed!Progress[Len(feed[t]) + 1]  BY <2>1, OpenFeeds
  <2>3. "configuring" \in Events  BY DEF Events
  <2>4. /\ [Feed!Next]_feed
        /\ \A u \in Orch : u # t => feed'[u] = feed[u]
        /\ \/ pc'[t] = "start" /\ feed'[t] = Append(feed[t], "configuring")
           \/ pc'[t] = "giveUp" /\ feed'[t] = feed[t]
    BY <1>2, <1>5, <1>b, <2>1, <2>2, <2>3 DEF PublishConfiguring
  <2> QED  BY <1>b, <2>1, <2>4, Extensions DEF FeedAt
<1>6. CASE PublishRunning(t)
  <2>1. feed[t] = r3  BY <1>6, <1>a DEF PublishRunning, PublishOrGiveUp, FeedAt
  <2>2. "running" = Feed!Progress[Len(feed[t]) + 1]  BY <2>1, OpenFeeds
  <2>3. "running" \in Events  BY DEF Events
  <2>4. /\ [Feed!Next]_feed
        /\ \A u \in Orch : u # t => feed'[u] = feed[u]
        /\ \/ pc'[t] = "done"
           \/ pc'[t] = "giveUp" /\ feed'[t] = feed[t]
    BY <1>2, <1>6, <1>b, <2>1, <2>2, <2>3 DEF PublishRunning
  <2> QED  BY <1>b, <2>1, <2>4 DEF FeedAt
\* The steps that report a failure.
<1>7. CASE ReportFailed(t) \/ ReportError(t)
  <2>1. Published(t, "failed") /\ "failed" \in Events
    BY <1>7 DEF ReportFailed, ReportError, Events
  <2>2. feed[t] \in {r0, r1, r2, r3}
    BY <1>7, <1>a, <1>b DEF ReportFailed, ReportError, FeedAt
  <2>3. Feed!Open(t)  BY <2>2, OpenFeeds
  <2>4. [Feed!Next]_feed  BY <2>1, <2>3, PublishedFeed
  <2>5. pc'[t] \in {"done", "lost"}
    BY <1>7, <1>a DEF ReportFailed, ReportError
  <2> QED  BY <1>a, <2>1, <2>4, <2>5 DEF FeedAt, Published
<1> QED
  BY <1>1, <1>3, <1>4, <1>5, <1>6, <1>7 DEF Arrive, DeployStep

\* Nobody else touches a worker's counter or its feed.
LEMMA OthersFeed ==
  ASSUME TypeOK, FeedInv,
         \/ \E t \in Http : Arrive(t) \/ DeployStep(t)
         \/ \E s \in Stops : StopStep(s) \/ \E b \in Bots : LookUp(s, b)
         \/ World
         \/ UNCHANGED vars
  PROVE  FeedInv' /\ UNCHANGED feed
<1> USE DEF Goto
<1>a. /\ pc \in [Tasks -> DeployPCs \cup StopPCs]
      /\ Orch \subseteq Tasks
      /\ Orch \cap Http = {} /\ Orch \cap Stops = {}
  BY TasksAssumption DEF TypeOK, Tasks, Http
<1>b. feed \in [Orch -> Seq(Events)]  BY DEF TypeOK, Events
<1>0. SUFFICES UNCHANGED feed /\ \A u \in Orch : pc'[u] = pc[u]
  BY DEF FeedInv, FeedAt
<1>1. ASSUME NEW t \in Http, Arrive(t) \/ DeployStep(t)
      PROVE  UNCHANGED feed /\ \A u \in Orch : pc'[u] = pc[u]
  <2>1. t \notin Orch  BY <1>a
  <2>2. \A e : Published(t, e) => UNCHANGED feed
    BY <1>b, <2>1 DEF Published
  <2> QED
    BY <1>1, <1>a, <2>1, <2>2 DEF Arrive, Receive, Skip, Post, DeployStep, Reserve, Refuse,
       PublishReserved, PublishHydrating, PublishConfiguring, PublishRunning,
       PublishOrGiveUp, Hydrate, Prepare, AssignConfiguring, SendStart, AwaitRunning,
       AssignRunning, Diagnose, MarkFailed, ReportFailed, ReportError
<1>2. CASE \E s \in Stops : StopStep(s) \/ \E b \in Bots : LookUp(s, b)
  BY <1>2, <1>a DEF StopStep, LookUp, MarkStopping, SendStop, AwaitStopped, MarkCleanup,
     Cleanup, Release
<1>3. CASE World
  BY <1>3, <1>a DEF World, Heartbeat, Expire, StatusUpdate, Reap, Disconnect, CloseBus, taskVars
<1>4. CASE UNCHANGED vars
  BY <1>4 DEF vars, taskVars
<1> QED  BY <1>1, <1>2, <1>3, <1>4

\* What hummingbot-api is told of a request is a run of StatusFeed: the progress
\* events in order and without repetition, then one "running" or one "failed",
\* and nothing after it.
THEOREM ImplementsStatusFeed == Spec => FeedContract
<1>1. Init => FeedInv
  BY TasksAssumption DEF Init, FeedInv, FeedAt, Tasks, r0
<1>2. Init => Feed!Init
  BY DEF Init, Feed!Init
<1>3. TypeOK /\ FeedInv /\ [Next]_vars => FeedInv' /\ [Feed!Next]_feed
  <2> SUFFICES ASSUME TypeOK, FeedInv, [Next]_vars
               PROVE  FeedInv' /\ [Feed!Next]_feed
    OBVIOUS
  <2>1. ASSUME NEW t \in Orch, Arrive(t) \/ DeployStep(t)
        PROVE  FeedInv' /\ [Feed!Next]_feed
    <3>1. FeedAt(t)' /\ [Feed!Next]_feed /\ \A u \in Orch : u # t => feed'[u] = feed[u]
      BY <2>1, WorkerFeed
    <3>2. \A u \in Orch : u # t => pc'[u] = pc[u]
      BY <2>1, TasksAssumption DEF TypeOK, Tasks, Goto, Arrive, Receive, Skip, Post, DeployStep, Reserve, Refuse,
         PublishReserved, PublishHydrating, PublishConfiguring, PublishRunning,
         PublishOrGiveUp, Hydrate, Prepare, AssignConfiguring, SendStart, AwaitRunning,
         AssignRunning, Diagnose, MarkFailed, ReportFailed, ReportError
    <3> QED  BY <3>1, <3>2 DEF FeedInv, FeedAt
  <2>2. CASE \/ \E t \in Http : Arrive(t) \/ DeployStep(t)
             \/ \E s \in Stops : StopStep(s) \/ \E b \in Bots : LookUp(s, b)
             \/ World
             \/ UNCHANGED vars
    BY <2>2, OthersFeed
  <2> QED  BY <2>1, <2>2 DEF Next, Http
<1> QED  BY <1>1, <1>2, <1>3, TypeCorrect, PTL DEF Spec, FeedContract, Feed!Spec

=============================================================================
