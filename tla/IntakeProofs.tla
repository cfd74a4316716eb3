---------------------------- MODULE IntakeProofs ----------------------------
(***************************************************************************)
(* Theorems about the two buffers of the intake, for channels and rings of *)
(* any size and any number of requests, bots and lines: types, what a      *)
(* failure report quotes, and that every request the channel does not lose *)
(* is spawned once and in order.                                           *)
(***************************************************************************)
EXTENDS DeployIntake, TLAPS

\* What the ring of a bot holds when it has written n lines since a clearing.
Latest(n) ==
  LET kept == IF n < RingSize THEN n ELSE RingSize
  IN  [i \in 1 .. kept |-> n - kept + i]

\* One more line leaves the latest lines, one of them the new one.
LEMMA LatestGrows ==
  ASSUME NEW n \in Nat
  PROVE  Append(Kept(Latest(n)), n + 1) = Latest(n + 1)
<1>1. RingSize \in Nat \ {0}  BY IntakeAssumption
<1>2. CASE n < RingSize
  <2>1. Latest(n) = [i \in 1 .. n |-> i] /\ Latest(n) \in Seq(Nat) /\ Len(Latest(n)) = n
    BY <1>1, <1>2 DEF Latest
  <2>2. Kept(Latest(n)) = Latest(n)  BY <1>1, <1>2, <2>1 DEF Kept
  <2>3. Latest(n + 1) = [i \in 1 .. n + 1 |-> i]  BY <1>1, <1>2 DEF Latest
  <2> QED  BY <2>1, <2>2, <2>3
<1>3. CASE n >= RingSize
  <2>1. /\ Latest(n) = [i \in 1 .. RingSize |-> n - RingSize + i]
        /\ Latest(n) \in Seq(Nat) /\ Len(Latest(n)) = RingSize
    BY <1>1, <1>3 DEF Latest
  <2>2. Kept(Latest(n)) = Tail(Latest(n))  BY <1>1, <1>3, <2>1 DEF Kept
  <2>3. Tail(Latest(n)) = [i \in 1 .. RingSize - 1 |-> n - RingSize + i + 1]
    BY <1>1, <1>3, <2>1
  <2>4. Latest(n + 1) = [i \in 1 .. RingSize |-> n + 1 - RingSize + i]
    BY <1>1, <1>3 DEF Latest
  <2> DEFINE short == [i \in 1 .. RingSize - 1 |-> n - RingSize + i + 1]
             grown == Append(short, n + 1)
  <2>5. short \in Seq(Int) /\ Len(short) = RingSize - 1  BY <1>1, <1>3
  <2>6. /\ grown \in Seq(Int) /\ Len(grown) = RingSize
        /\ \A i \in 1 .. RingSize : grown[i] = n + 1 - RingSize + i
    BY <1>1, <1>3, <2>5
  <2> HIDE DEF grown
  <2>7. grown = [i \in 1 .. RingSize |-> n + 1 - RingSize + i]  BY <1>1, <2>6
  <2> QED  BY <2>2, <2>3, <2>4, <2>7 DEF grown
<1> QED  BY <1>1, <1>2, <1>3

RingsInv ==
  /\ lines \in [Bots -> 0 .. MaxLines] /\ DOMAIN logs = Bots
  /\ logs = [b \in Bots |-> logs[b]]
  /\ \A b \in Bots : logs[b] = Latest(lines[b])

LEMMA RingSteps == RingsInv /\ [Next]_vars => RingsInv'
<1> SUFFICES ASSUME RingsInv, [Next]_vars PROVE RingsInv'
  OBVIOUS
<1>1. MaxLines \in Nat /\ RingSize \in Nat \ {0}  BY IntakeAssumption
<1>2. ASSUME NEW b \in Bots, Log(b) PROVE RingsInv'
  <2>1. lines[b] \in 0 .. MaxLines /\ lines[b] < MaxLines /\ logs[b] = Latest(lines[b])
    BY <1>2 DEF Log, RingsInv
  <2>2. lines[b] \in Nat /\ lines[b] + 1 \in 0 .. MaxLines  BY <1>1, <2>1
  <2>3. /\ lines' = [lines EXCEPT ![b] = lines[b] + 1]
        /\ logs' = [logs EXCEPT ![b] = Append(Kept(logs[b]), lines[b] + 1)]
    BY <1>2 DEF Log
  <2>4. Append(Kept(logs[b]), lines[b] + 1) = Latest(lines[b] + 1)
    BY <2>1, <2>2, LatestGrows
  <2> QED  BY <2>2, <2>3, <2>4 DEF RingsInv
<1>3. ASSUME NEW b \in Bots, ClearLogs(b) PROVE RingsInv'
  <2>1. Latest(0) = << >>
    <3>1. Latest(0) = [i \in 1 .. 0 |-> 0 - 0 + i]  BY <1>1 DEF Latest
    <3> QED  BY <3>1
  <2>2. 0 \in 0 .. MaxLines  BY <1>1
  <2>3. lines' = [lines EXCEPT ![b] = 0] /\ logs' = [logs EXCEPT ![b] = << >>]
    BY <1>3 DEF ClearLogs
  <2> QED  BY <2>1, <2>2, <2>3 DEF RingsInv
<1>4. CASE UNCHANGED logVars  BY <1>4 DEF logVars, RingsInv
<1> QED
  BY <1>2, <1>3, <1>4 DEF Next, vars, Subscribe, Listen, HearLag, Spawn, Discard, DeliverUnheard,
     Deliver, DeliverOver

LEMMA InitRings == Init => RingsInv
<1> SUFFICES ASSUME Init PROVE RingsInv
  OBVIOUS
<1>1. RingSize \in Nat \ {0} /\ MaxLines \in Nat  BY IntakeAssumption
<1>2. Latest(0) = [i \in 1 .. 0 |-> 0 - 0 + i]  BY <1>1 DEF Latest
<1>3. Latest(0) = << >>  BY <1>2
<1> QED  BY <1>1, <1>3 DEF Init, RingsInv

\* The ring of a bot holds its latest lines, in their order, and as many as it
\* can, whenever it was cleared.
THEOREM RingsQuoteTheLatest == Spec => []LatestLogs
<1>1. RingsInv => LatestLogs  BY DEF RingsInv, LatestLogs, Latest
<1> QED  BY <1>1, InitRings, RingSteps, PTL DEF Spec

-----------------------------------------------------------------------------

ChannelTypeOK ==
  /\ listening \in BOOLEAN /\ overtaken \in BOOLEAN
  /\ backlog \in Seq(Requests) /\ Len(backlog) <= Capacity
  /\ spawned \in Seq(Valid) /\ delivered \in Seq(Requests)
  /\ dropped \subseteq Requests

LEMMA ChannelSteps == ChannelTypeOK /\ [Next]_vars => ChannelTypeOK'
<1> SUFFICES ASSUME ChannelTypeOK, [Next]_vars PROVE ChannelTypeOK'
  OBVIOUS
<1> USE IntakeAssumption DEF ChannelTypeOK
<1>1. CASE Subscribe  BY <1>1 DEF Subscribe
<1>2. ASSUME NEW r \in Requests, DeliverUnheard(r) PROVE ChannelTypeOK'
  BY <1>2 DEF DeliverUnheard
<1>3. ASSUME NEW r \in Requests, Deliver(r) PROVE ChannelTypeOK'
  BY <1>3 DEF Deliver
<1>4. ASSUME NEW r \in Requests, DeliverOver(r) PROVE ChannelTypeOK'
  <2>1. backlog # << >> /\ Head(backlog) \in Requests
    BY <1>4 DEF DeliverOver
  <2>2. Tail(backlog) \in Seq(Requests) /\ Len(Tail(backlog)) = Capacity - 1
    BY <1>4, <2>1 DEF DeliverOver
  <2>3. backlog' \in Seq(Requests) /\ Len(backlog') = Capacity
    BY <1>4, <2>2 DEF DeliverOver
  <2> QED  BY <1>4, <2>1, <2>3 DEF DeliverOver
<1>5. CASE HearLag  BY <1>5 DEF HearLag
<1>6. ASSUME NEW r \in Requests, Spawn(r) \/ Discard(r) PROVE ChannelTypeOK'
  <2>1. backlog # << >> /\ backlog' = Tail(backlog)
    BY <1>6 DEF Spawn, Discard, AtHead
  <2>2. backlog' \in Seq(Requests) /\ Len(backlog') <= Capacity  BY <2>1
  <2>3. spawned' \in Seq(Valid)
    <3>1. CASE r \in Valid /\ spawned' = Append(spawned, r)  BY <3>1
    <3>2. CASE spawned' = spawned  BY <3>2
    <3> QED  BY <1>6, <3>1, <3>2 DEF Spawn, Discard
  <2> QED  BY <1>6, <2>2, <2>3 DEF Spawn, Discard
<1>7. CASE UNCHANGED intakeVars  BY <1>7 DEF intakeVars
<1> QED
  BY <1>1, <1>2, <1>3, <1>4, <1>5, <1>6, <1>7 DEF Next, Listen, vars, Log, ClearLogs

\* The channel, the listener and the rings are well typed and the channel holds
\* no more than it may.
THEOREM IntakeTypeCorrect == Spec => []TypeOK
<1>1. Init => ChannelTypeOK
  <2> SUFFICES ASSUME Init PROVE ChannelTypeOK
    OBVIOUS
  <2>1. Capacity \in Nat /\ Len(<< >>) = 0  BY IntakeAssumption
  <2>2. /\ listening \in BOOLEAN /\ overtaken \in BOOLEAN /\ dropped \subseteq Requests
        /\ backlog = << >> /\ spawned = << >> /\ delivered = << >>
    BY DEF Init
  <2>3. << >> \in Seq(Requests) /\ << >> \in Seq(Valid)  OBVIOUS
  <2> QED  BY <2>1, <2>2, <2>3 DEF ChannelTypeOK
<1>2. ChannelTypeOK /\ RingsInv => TypeOK
  <2> SUFFICES ASSUME ChannelTypeOK, RingsInv PROVE TypeOK
    OBVIOUS
  <2>1. ASSUME NEW n \in 0 .. MaxLines PROVE Latest(n) \in Seq(1 .. MaxLines)
    BY IntakeAssumption DEF Latest
  <2>2. \A b \in Bots : logs[b] \in Seq(1 .. MaxLines)  BY <2>1 DEF RingsInv
  <2> QED  BY <2>2 DEF TypeOK, ChannelTypeOK, RingsInv
<1> QED  BY <1>1, <1>2, InitRings, ChannelSteps, RingSteps, PTL DEF Spec

-----------------------------------------------------------------------------
(***************************************************************************)
(* What becomes of a request.  The channel holds the latest deliveries; of *)
(* those before, a readable one has its worker or was lost, never both.    *)
(***************************************************************************)

\* The deliveries that have left the channel, or never were in it.
Past == Len(delivered) - Len(backlog)

\* The requests spawned lie at rising places before those in the channel.
QueueInv ==
  /\ \A i, j \in DOMAIN delivered : delivered[i] = delivered[j] => i = j
  /\ Len(backlog) <= Len(delivered)
  /\ \A i \in 1 .. Len(backlog) : backlog[i] = delivered[Past + i]
  /\ ~listening => backlog = << >>

SpawnedInv ==
  /\ \A k \in DOMAIN spawned : \E i \in 1 .. Past : spawned[k] = delivered[i]
  /\ \A k, l \in DOMAIN spawned : k < l => Before(spawned[k], spawned[l])

FateInv ==
  /\ \A r \in dropped : \E i \in 1 .. Past : r = delivered[i]
  /\ \A i \in 1 .. Past :
       /\ delivered[i] \in Valid => delivered[i] \in dropped \/ delivered[i] \in Range(spawned)
       /\ delivered[i] \in dropped => delivered[i] \notin Range(spawned)

ChannelInv == ChannelTypeOK /\ QueueInv /\ SpawnedInv /\ FateInv

\* What delivering a request does to the history.
LEMMA DeliveredGrows ==
  ASSUME ChannelInv, NEW r \in Requests, Fresh(r), delivered' = Append(delivered, r)
  PROVE  /\ delivered' \in Seq(Requests) /\ Len(delivered') = Len(delivered) + 1
         /\ delivered'[Len(delivered) + 1] = r
         /\ \A i \in 1 .. Len(delivered) : delivered'[i] = delivered[i] /\ delivered[i] # r
         /\ \A i, j \in DOMAIN delivered' : delivered'[i] = delivered'[j] => i = j
         /\ \A q, s : Before(q, s) => Before(q, s)'
<1> USE DEF ChannelInv, ChannelTypeOK
<1>1. /\ delivered' \in Seq(Requests) /\ Len(delivered') = Len(delivered) + 1
      /\ delivered'[Len(delivered) + 1] = r
      /\ \A i \in 1 .. Len(delivered) : delivered'[i] = delivered[i]
  OBVIOUS
<1>2. \A i \in 1 .. Len(delivered) : delivered[i] # r  BY DEF Fresh, Range
<1>3. \A i, j \in DOMAIN delivered' : delivered'[i] = delivered'[j] => i = j
  BY <1>1, <1>2 DEF QueueInv
<1>4. ASSUME NEW q, NEW s, Before(q, s) PROVE Before(q, s)'
  <2>1. PICK i, j \in DOMAIN delivered : i < j /\ delivered[i] = q /\ delivered[j] = s
    BY <1>4 DEF Before
  <2>2. i \in DOMAIN delivered' /\ j \in DOMAIN delivered'  BY <1>1
  <2>3. delivered'[i] = q /\ delivered'[j] = s  BY <1>1, <2>1
  <2> QED  BY <2>1, <2>2, <2>3 DEF Before
<1> QED  BY <1>1, <1>2, <1>3, <1>4

\* Taking the oldest value out of the channel.
LEMMA OldestTaken ==
  ASSUME ChannelInv, backlog # << >>
  PROVE  /\ Past \in Nat /\ Past + 1 \in 1 .. Len(delivered) /\ Head(backlog) = delivered[Past + 1]
         /\ Tail(backlog) \in Seq(Requests) /\ Len(Tail(backlog)) = Len(backlog) - 1
         /\ \A i \in 1 .. Len(Tail(backlog)) : Tail(backlog)[i] = delivered[Past + 1 + i]
<1> USE DEF ChannelInv, ChannelTypeOK, QueueInv
<1>1. Len(backlog) \in Nat /\ Len(backlog) > 0 /\ Len(delivered) \in Nat  OBVIOUS
<1>2. Past \in Nat /\ Past + 1 \in 1 .. Len(delivered)  BY <1>1 DEF Past
<1>3. Head(backlog) = backlog[1]  BY <1>1
<1>4. backlog[1] = delivered[Past + 1]  BY <1>1
<1>5. /\ Tail(backlog) \in Seq(Requests) /\ Len(Tail(backlog)) = Len(backlog) - 1
      /\ \A i \in 1 .. Len(Tail(backlog)) : Tail(backlog)[i] = backlog[i + 1]
  BY <1>1
<1>6. \A i \in 1 .. Len(Tail(backlog)) : backlog[i + 1] = delivered[Past + (i + 1)]
  BY <1>1, <1>5
<1>7. \A i \in 1 .. Len(Tail(backlog)) : Past + (i + 1) = Past + 1 + i  BY <1>1, <1>2, <1>5
<1> QED  BY <1>1, <1>2, <1>3, <1>4, <1>5, <1>6, <1>7

LEMMA QueueSteps == ChannelInv /\ [Next]_vars => QueueInv'
<1> SUFFICES ASSUME ChannelInv, [Next]_vars PROVE QueueInv'
  OBVIOUS
<1> USE DEF ChannelInv, ChannelTypeOK
<1>1. CASE Subscribe  BY <1>1 DEF Subscribe, QueueInv, Past
<1>2. ASSUME NEW r \in Requests, DeliverUnheard(r) PROVE QueueInv'
  <2>1. backlog' = << >> /\ ~listening'  BY <1>2 DEF DeliverUnheard, QueueInv
  <2>2. Len(backlog') = 0  BY <2>1
  <2> QED  BY <1>2, <2>1, <2>2, DeliveredGrows DEF DeliverUnheard, QueueInv
<1>3. ASSUME NEW r \in Requests, Deliver(r) PROVE QueueInv'
  <2>1. /\ delivered' = Append(delivered, r) /\ Fresh(r) /\ listening' /\ backlog' = Append(backlog, r)
    BY <1>3 DEF Deliver
  <2>2. /\ Len(backlog') = Len(backlog) + 1 /\ backlog'[Len(backlog) + 1] = r
        /\ \A i \in 1 .. Len(backlog) : backlog'[i] = backlog[i]
    BY <2>1
  <2>3. Past' = Past  BY <2>1, <2>2, DeliveredGrows DEF Past
  <2>4. ASSUME NEW i \in 1 .. Len(backlog') PROVE backlog'[i] = delivered'[Past + i]
    <3>1. CASE i = Len(backlog) + 1
      <4>1. Past + i = Len(delivered) + 1  BY <3>1 DEF Past
      <4> QED  BY <2>1, <2>2, <3>1, <4>1, DeliveredGrows
    <3>2. CASE i # Len(backlog) + 1
      <4>1. i \in 1 .. Len(backlog) /\ Past + i \in 1 .. Len(delivered)
        BY <2>2, <2>4, <3>2 DEF Past, QueueInv
      <4> QED  BY <2>1, <2>2, <4>1, DeliveredGrows DEF QueueInv
    <3> QED  BY <3>1, <3>2
  <2>5. Len(backlog') <= Len(delivered')  BY <2>1, <2>2, DeliveredGrows DEF QueueInv
  <2> QED  BY <2>1, <2>3, <2>4, <2>5, DeliveredGrows DEF QueueInv
<1>4. ASSUME NEW r \in Requests, DeliverOver(r) PROVE QueueInv'
  <2>1. /\ delivered' = Append(delivered, r) /\ Fresh(r) /\ listening'
        /\ backlog' = Append(Tail(backlog), r) /\ backlog # << >>
    BY <1>4, IntakeAssumption DEF DeliverOver
  <2>2. /\ Tail(backlog) \in Seq(Requests) /\ Len(Tail(backlog)) = Len(backlog) - 1
        /\ \A i \in 1 .. Len(Tail(backlog)) : Tail(backlog)[i] = delivered[Past + 1 + i]
        /\ Past \in Nat /\ Past + 1 \in 1 .. Len(delivered)
    BY <2>1, OldestTaken
  <2>3. /\ Len(backlog') = Len(backlog) /\ backlog'[Len(backlog)] = r
        /\ \A i \in 1 .. Len(backlog) - 1 : backlog'[i] = Tail(backlog)[i]
    BY <2>1, <2>2
  <2>4. Past' = Past + 1  BY <2>1, <2>3, DeliveredGrows DEF Past
  <2>5. ASSUME NEW i \in 1 .. Len(backlog') PROVE backlog'[i] = delivered'[Past + 1 + i]
    <3>1. CASE i = Len(backlog)
      <4>1. Past + 1 + i = Len(delivered) + 1  BY <3>1 DEF Past
      <4> QED  BY <2>1, <2>3, <3>1, <4>1, DeliveredGrows
    <3>2. CASE i # Len(backlog)
      <4>1. i \in 1 .. Len(backlog) - 1 /\ Past + 1 + i \in 1 .. Len(delivered)
        BY <2>3, <2>5, <3>2 DEF Past, QueueInv
      <4> QED  BY <2>1, <2>2, <2>3, <4>1, DeliveredGrows
    <3> QED  BY <3>1, <3>2
  <2>6. Len(backlog') <= Len(delivered')  BY <2>1, <2>3, DeliveredGrows DEF QueueInv
  <2> QED  BY <2>1, <2>4, <2>5, <2>6, DeliveredGrows DEF QueueInv
<1>5. CASE HearLag  BY <1>5 DEF HearLag, QueueInv, Past
<1>6. ASSUME NEW r \in Requests, Spawn(r) \/ Discard(r) PROVE QueueInv'
  <2>1. backlog # << >> /\ backlog' = Tail(backlog) /\ listening' /\ delivered' = delivered
    BY <1>6 DEF Spawn, Discard, AtHead
  <2>2. Past' = Past + 1  BY <2>1, OldestTaken DEF Past
  <2> QED  BY <2>1, <2>2, OldestTaken DEF QueueInv
<1>7. CASE UNCHANGED intakeVars  BY <1>7 DEF intakeVars, QueueInv, Past
<1> QED
  BY <1>1, <1>2, <1>3, <1>4, <1>5, <1>6, <1>7 DEF Next, Listen, vars, Log, ClearLogs

LEMMA SpawnedSteps == ChannelInv /\ [Next]_vars => SpawnedInv'
<1> SUFFICES ASSUME ChannelInv, [Next]_vars PROVE SpawnedInv'
  OBVIOUS
<1> USE DEF ChannelInv, ChannelTypeOK
<1>1. CASE Subscribe \/ HearLag \/ UNCHANGED intakeVars
  BY <1>1 DEF Subscribe, HearLag, intakeVars, SpawnedInv, Past, Before
<1>2. ASSUME NEW r \in Requests, DeliverUnheard(r) \/ Deliver(r) \/ DeliverOver(r)
      PROVE  SpawnedInv'
  <2>1. delivered' = Append(delivered, r) /\ Fresh(r) /\ spawned' = spawned
    BY <1>2 DEF DeliverUnheard, Deliver, DeliverOver
  <2>2. Past' \in Nat /\ Past <= Past' /\ Past <= Len(delivered)
    <3>1. CASE DeliverUnheard(r)
      BY <2>1, <3>1, DeliveredGrows DEF DeliverUnheard, Past, QueueInv
    <3>2. CASE Deliver(r)
      <4>1. Len(backlog') = Len(backlog) + 1  BY <3>2 DEF Deliver
      <4> QED  BY <2>1, <4>1, DeliveredGrows DEF Past, QueueInv
    <3>3. CASE DeliverOver(r)
      <4>1. backlog # << >>  BY <3>3, IntakeAssumption DEF DeliverOver
      <4>2. Len(backlog') = Len(backlog)  BY <3>3, <4>1, OldestTaken DEF DeliverOver
      <4> QED  BY <2>1, <4>2, DeliveredGrows DEF Past, QueueInv
    <3> QED  BY <1>2, <3>1, <3>2, <3>3
  <2>3. ASSUME NEW k \in DOMAIN spawned PROVE \E i \in 1 .. Past' : spawned[k] = delivered'[i]
    <3>1. PICK i \in 1 .. Past : spawned[k] = delivered[i]  BY DEF SpawnedInv
    <3>2. i \in 1 .. Past' /\ i \in 1 .. Len(delivered)  BY <2>2, <3>1 DEF Past
    <3> QED  BY <2>1, <3>1, <3>2, DeliveredGrows
  <2>4. \A k, l \in DOMAIN spawned : k < l => Before(spawned[k], spawned[l])'
    BY <2>1, DeliveredGrows DEF SpawnedInv
  <2> QED  BY <2>1, <2>3, <2>4 DEF SpawnedInv
<1>3. ASSUME NEW r \in Requests, Discard(r) PROVE SpawnedInv'
  <2>1. /\ delivered' = delivered /\ spawned' = spawned /\ backlog # << >>
        /\ backlog' = Tail(backlog)
    BY <1>3 DEF Discard, AtHead
  <2>2. Past' = Past + 1 /\ Past \in Nat  BY <2>1, OldestTaken DEF Past
  <2> QED  BY <2>1, <2>2 DEF SpawnedInv, Before
<1>4. ASSUME NEW r \in Requests, Spawn(r) PROVE SpawnedInv'
  <2>1. /\ delivered' = delivered /\ spawned' = Append(spawned, r) /\ backlog # << >>
        /\ backlog' = Tail(backlog) /\ r = Head(backlog) /\ r \in Valid
    BY <1>4 DEF Spawn, AtHead
  <2>2. /\ Past' = Past + 1 /\ Past \in Nat /\ r = delivered[Past + 1]
        /\ Past + 1 \in 1 .. Len(delivered)
    BY <2>1, OldestTaken DEF Past
  <2>3. /\ DOMAIN spawned = 1 .. Len(spawned) /\ DOMAIN spawned' = 1 .. Len(spawned) + 1
        /\ spawned'[Len(spawned) + 1] = r
        /\ \A k \in DOMAIN spawned : spawned'[k] = spawned[k]
    BY <2>1
  <2>4. ASSUME NEW k \in DOMAIN spawned' PROVE \E i \in 1 .. Past' : spawned'[k] = delivered'[i]
    BY <2>1, <2>2, <2>3 DEF SpawnedInv
  <2>5. ASSUME NEW k \in DOMAIN spawned', NEW l \in DOMAIN spawned', k < l
        PROVE  Before(spawned[k], spawned[l])'
    <3>1. k \in DOMAIN spawned  BY <2>3, <2>5
    <3>2. CASE l \in DOMAIN spawned
      BY <2>1, <2>3, <2>5, <3>1, <3>2 DEF SpawnedInv, Before
    <3>3. CASE l = Len(spawned) + 1
      <4>1. PICK i \in 1 .. Past : spawned[k] = delivered[i]  BY <3>1 DEF SpawnedInv
      <4>2. i \in DOMAIN delivered /\ Past + 1 \in DOMAIN delivered /\ i < Past + 1
        BY <2>2, <4>1
      <4> QED  BY <2>1, <2>2, <2>3, <3>1, <3>3, <4>1, <4>2 DEF Before
    <3> QED  BY <2>3, <3>2, <3>3
  <2> QED  BY <2>4, <2>5 DEF SpawnedInv
<1> QED
  BY <1>1, <1>2, <1>3, <1>4 DEF Next, Listen, vars, intakeVars, Log, ClearLogs

LEMMA FateSteps == ChannelInv /\ [Next]_vars => FateInv'
<1> SUFFICES ASSUME ChannelInv, [Next]_vars PROVE FateInv'
  OBVIOUS
<1> USE DEF ChannelInv, ChannelTypeOK
<1>1. CASE Subscribe \/ HearLag \/ UNCHANGED intakeVars
  BY <1>1 DEF Subscribe, HearLag, intakeVars, FateInv, Past
\* A worker has been spawned only for what was delivered.
<1>2. ASSUME NEW r \in Requests, Fresh(r) PROVE r \notin Range(spawned)
  <2>1. SUFFICES ASSUME NEW k \in DOMAIN spawned, spawned[k] = r PROVE FALSE
    BY DEF Range
  <2>2. PICK i \in 1 .. Past : spawned[k] = delivered[i]  BY <2>1 DEF SpawnedInv
  <2>3. i \in DOMAIN delivered  BY <2>2 DEF Past, QueueInv
  <2> QED  BY <1>2, <2>1, <2>2, <2>3 DEF Fresh, Range
<1>3. ASSUME NEW r \in Requests, DeliverUnheard(r) PROVE FateInv'
  <2>1. /\ delivered' = Append(delivered, r) /\ Fresh(r) /\ spawned' = spawned
        /\ dropped' = dropped \cup {r} /\ backlog = << >> /\ backlog' = << >>
    BY <1>3 DEF DeliverUnheard, QueueInv
  <2>2. Past = Len(delivered) /\ Past' = Len(delivered) + 1
    BY <2>1, DeliveredGrows DEF Past
  <2>3. ASSUME NEW i \in 1 .. Past' PROVE
          /\ delivered'[i] \in Valid => delivered'[i] \in dropped' \/ delivered'[i] \in Range(spawned)
          /\ delivered'[i] \in dropped' => delivered'[i] \notin Range(spawned)
    <3>1. CASE i = Len(delivered) + 1
      BY <1>2, <2>1, <3>1, DeliveredGrows
    <3>2. CASE i # Len(delivered) + 1
      <4>1. i \in 1 .. Past  BY <2>2, <3>2
      <4>2. delivered'[i] = delivered[i] /\ delivered[i] # r
        BY <2>1, <2>2, <4>1, DeliveredGrows
      <4> QED  BY <2>1, <4>1, <4>2 DEF FateInv
    <3> QED  BY <3>1, <3>2
  <2>4. ASSUME NEW q \in dropped' PROVE \E i \in 1 .. Past' : q = delivered'[i]
    <3>1. CASE q = r
      <4>1. Len(delivered) + 1 \in 1 .. Past'  BY <2>2
      <4> QED  BY <2>1, <3>1, <4>1, DeliveredGrows
    <3>2. CASE q # r
      <4>1. PICK i \in 1 .. Past : q = delivered[i]  BY <2>1, <2>4, <3>2 DEF FateInv
      <4> QED  BY <2>1, <2>2, <4>1, DeliveredGrows
    <3> QED  BY <3>1, <3>2
  <2>5. spawned' = spawned  BY <2>1
  <2> QED  BY <2>3, <2>4, <2>5 DEF FateInv
<1>4. ASSUME NEW r \in Requests, Deliver(r) PROVE FateInv'
  <2>1. /\ delivered' = Append(delivered, r) /\ Fresh(r) /\ spawned' = spawned
        /\ dropped' = dropped /\ backlog' = Append(backlog, r)
    BY <1>4 DEF Deliver
  <2>2. Len(backlog') = Len(backlog) + 1  BY <2>1
  <2>3. Past' = Past  BY <2>1, <2>2, DeliveredGrows DEF Past
  <2>4. \A i \in 1 .. Past : delivered'[i] = delivered[i]
    BY <2>1, DeliveredGrows DEF Past, QueueInv
  <2>5. ASSUME NEW i \in 1 .. Past' PROVE
          /\ delivered'[i] \in Valid => delivered'[i] \in dropped' \/ delivered'[i] \in Range(spawned)
          /\ delivered'[i] \in dropped' => delivered'[i] \notin Range(spawned)
    <3>1. i \in 1 .. Past /\ delivered'[i] = delivered[i]  BY <2>3, <2>4
    <3> QED  BY <2>1, <3>1 DEF FateInv
  <2>6. ASSUME NEW q \in dropped' PROVE \E i \in 1 .. Past' : q = delivered'[i]
    <3>1. PICK i \in 1 .. Past : q = delivered[i]  BY <2>1, <2>6 DEF FateInv
    <3> QED  BY <2>3, <2>4, <3>1
  <2>7. spawned' = spawned  BY <2>1
  <2> QED  BY <2>5, <2>6, <2>7 DEF FateInv
\* The oldest value leaves the channel: the place it was delivered at is past.
<1>5. ASSUME backlog # << >>
      PROVE  /\ Past \in Nat /\ Past + 1 \in 1 .. Len(delivered)
             /\ Head(backlog) = delivered[Past + 1]
             /\ Head(backlog) \notin Range(spawned) /\ Head(backlog) \notin dropped
             /\ \A i \in 1 .. Past : delivered[i] # Head(backlog)
  <2>1. /\ Past \in Nat /\ Past + 1 \in 1 .. Len(delivered) /\ Head(backlog) = delivered[Past + 1]
    BY <1>5, OldestTaken
  <2>2. \A i \in 1 .. Past : delivered[i] # delivered[Past + 1]
    <3>1. \A i \in 1 .. Past : i \in DOMAIN delivered /\ i # Past + 1  BY <2>1
    <3>2. Past + 1 \in DOMAIN delivered  BY <2>1
    <3> QED  BY <3>1, <3>2 DEF QueueInv
  <2>3. Head(backlog) \notin dropped  BY <2>1, <2>2 DEF FateInv
  <2>4. Head(backlog) \notin Range(spawned)
    <3> SUFFICES ASSUME NEW k \in DOMAIN spawned, spawned[k] = Head(backlog) PROVE FALSE
      BY DEF Range
    <3> QED  BY <2>1, <2>2 DEF SpawnedInv
  <2> QED  BY <2>1, <2>2, <2>3, <2>4
<1>6. ASSUME NEW r \in Requests, DeliverOver(r) PROVE FateInv'
  <2>1. /\ delivered' = Append(delivered, r) /\ Fresh(r) /\ spawned' = spawned
        /\ dropped' = dropped \cup {Head(backlog)} /\ backlog' = Append(Tail(backlog), r)
        /\ backlog # << >>
    BY <1>6, IntakeAssumption DEF DeliverOver
  <2>2. Len(backlog') = Len(backlog)  BY <2>1, OldestTaken
  <2>3. Past' = Past + 1  BY <2>1, <2>2, DeliveredGrows DEF Past
  <2>4. \A i \in 1 .. Past + 1 : delivered'[i] = delivered[i]
    BY <1>5, <2>1, DeliveredGrows
  <2>5. ASSUME NEW i \in 1 .. Past + 1 PROVE
          /\ delivered[i] \in Valid => delivered[i] \in dropped' \/ delivered[i] \in Range(spawned)
          /\ delivered[i] \in dropped' => delivered[i] \notin Range(spawned)
    <3>1. CASE i = Past + 1  BY <1>5, <2>1, <3>1
    <3>2. CASE i # Past + 1
      <4>1. i \in 1 .. Past  BY <1>5, <2>1, <3>2
      <4> QED  BY <1>5, <2>1, <4>1 DEF FateInv
    <3> QED  BY <3>1, <3>2
  <2>6. ASSUME NEW q \in dropped' PROVE \E i \in 1 .. Past + 1 : q = delivered[i]
    <3>1. CASE q = Head(backlog)  BY <1>5, <2>1, <3>1
    <3>2. CASE q # Head(backlog)
      <4>1. PICK i \in 1 .. Past : q = delivered[i]  BY <2>1, <2>6, <3>2 DEF FateInv
      <4> QED  BY <1>5, <2>1, <4>1
    <3> QED  BY <3>1, <3>2
  <2>7. ASSUME NEW i \in 1 .. Past' PROVE
          /\ delivered'[i] \in Valid => delivered'[i] \in dropped' \/ delivered'[i] \in Range(spawned)
          /\ delivered'[i] \in dropped' => delivered'[i] \notin Range(spawned)
    <3>1. i \in 1 .. Past + 1 /\ delivered'[i] = delivered[i]  BY <2>3, <2>4
    <3> QED  BY <2>5, <3>1
  <2>8. ASSUME NEW q \in dropped' PROVE \E i \in 1 .. Past' : q = delivered'[i]
    <3>1. PICK i \in 1 .. Past + 1 : q = delivered[i]  BY <2>6, <2>8
    <3> QED  BY <2>3, <2>4, <3>1
  <2>9. spawned' = spawned  BY <2>1
  <2> QED  BY <2>7, <2>8, <2>9 DEF FateInv
<1>7. ASSUME NEW r \in Requests, Spawn(r) \/ Discard(r) PROVE FateInv'
  <2>1. /\ delivered' = delivered /\ dropped' = dropped /\ backlog # << >>
        /\ backlog' = Tail(backlog) /\ r = Head(backlog)
    BY <1>7 DEF Spawn, Discard, AtHead
  <2>2. Past' = Past + 1  BY <2>1, OldestTaken DEF Past
  <2>3. /\ r \in Valid => Range(spawned') = Range(spawned) \cup {r}
        /\ r \notin Valid => Range(spawned') = Range(spawned)
    <3>1. CASE Spawn(r)
      <4>1. r \in Valid /\ spawned' = Append(spawned, r)  BY <3>1 DEF Spawn
      <4>2. /\ DOMAIN spawned' = DOMAIN spawned \cup {Len(spawned) + 1}
            /\ spawned'[Len(spawned) + 1] = r
            /\ \A k \in DOMAIN spawned : spawned'[k] = spawned[k]
        BY <4>1
      <4> QED  BY <4>1, <4>2 DEF Range
    <3>2. CASE Discard(r)  BY <3>2 DEF Discard
    <3> QED  BY <1>7, <3>1, <3>2
  <2>4. ASSUME NEW i \in 1 .. Past + 1 PROVE
          /\ delivered[i] \in Valid => delivered[i] \in dropped \/ delivered[i] \in Range(spawned')
          /\ delivered[i] \in dropped => delivered[i] \notin Range(spawned')
    <3>1. CASE i = Past + 1  BY <1>5, <2>1, <2>3, <3>1
    <3>2. CASE i # Past + 1
      <4>1. i \in 1 .. Past  BY <1>5, <2>1, <3>2
      <4> QED  BY <1>5, <2>1, <2>3, <4>1 DEF FateInv
    <3> QED  BY <3>1, <3>2
  <2>5. ASSUME NEW q \in dropped PROVE \E i \in 1 .. Past + 1 : q = delivered[i]
    <3>1. PICK i \in 1 .. Past : q = delivered[i]  BY <2>5 DEF FateInv
    <3> QED  BY <1>5, <2>1, <3>1
  <2>6. delivered' = delivered /\ dropped' = dropped  BY <2>1
  <2> QED  BY <2>2, <2>4, <2>5, <2>6 DEF FateInv
<1> QED
  BY <1>1, <1>3, <1>4, <1>6, <1>7 DEF Next, Listen, vars, intakeVars, Log, ClearLogs

\* What was spawned, followed by what the channel holds, is in the order of
\* delivery and is every readable request that was not lost.
LEMMA FateOfRequests == ChannelInv => EachSpawnedOnce
<1> SUFFICES ASSUME ChannelInv PROVE EachSpawnedOnce
  OBVIOUS
<1> USE DEF ChannelInv, ChannelTypeOK
<1> DEFINE queue == spawned \o backlog
<1>1. spawned \in Seq(Requests)  BY IntakeAssumption
<1>2. /\ DOMAIN queue = 1 .. Len(spawned) + Len(backlog)
      /\ \A k \in 1 .. Len(spawned) : queue[k] = spawned[k]
      /\ \A k \in 1 .. Len(backlog) : queue[Len(spawned) + k] = backlog[k]
  BY <1>1
<1> HIDE DEF queue
<1>3. Past \in Nat /\ Past + Len(backlog) = Len(delivered)  BY DEF Past, QueueInv
<1>4. ASSUME NEW k \in DOMAIN queue, k \notin DOMAIN spawned
      PROVE  /\ k - Len(spawned) \in 1 .. Len(backlog)
             /\ Past + (k - Len(spawned)) \in (Past + 1) .. Len(delivered)
             /\ queue[k] = delivered[Past + (k - Len(spawned))]
  <2>1. k - Len(spawned) \in 1 .. Len(backlog) /\ k = Len(spawned) + (k - Len(spawned))
    BY <1>2, <1>4
  <2>2. queue[k] = backlog[k - Len(spawned)]  BY <1>2, <2>1
  <2> QED  BY <1>3, <2>1, <2>2 DEF QueueInv
<1>5. ASSUME NEW k \in DOMAIN queue, NEW l \in DOMAIN queue, k < l
      PROVE  Before(queue[k], queue[l])
  <2>1. CASE l \in DOMAIN spawned
    <3>1. k \in DOMAIN spawned  BY <1>2, <1>5, <2>1
    <3>2. queue[k] = spawned[k] /\ queue[l] = spawned[l]  BY <1>2, <2>1, <3>1
    <3> QED  BY <1>5, <2>1, <3>1, <3>2 DEF SpawnedInv
  <2>2. CASE l \notin DOMAIN spawned
    <3>1. PICK j \in (Past + 1) .. Len(delivered) :
            queue[l] = delivered[j] /\ j = Past + (l - Len(spawned))
      BY <1>4, <2>2
    <3>2. CASE k \in DOMAIN spawned
      <4>1. PICK i \in 1 .. Past : spawned[k] = delivered[i]  BY <3>2 DEF SpawnedInv
      <4>2. k \in 1 .. Len(spawned)  BY <1>1, <3>2
      <4>3. queue[k] = delivered[i]  BY <1>2, <4>1, <4>2
      <4>4. DOMAIN delivered = 1 .. Len(delivered) /\ Len(delivered) \in Nat /\ Len(backlog) \in Nat
        OBVIOUS
      <4>5. i \in DOMAIN delivered /\ j \in DOMAIN delivered /\ i < j
        BY <1>3, <3>1, <4>1, <4>4
      <4> QED  BY <3>1, <4>3, <4>5 DEF Before
    <3>3. CASE k \notin DOMAIN spawned
      <4>1. PICK i \in (Past + 1) .. Len(delivered) :
              queue[k] = delivered[i] /\ i = Past + (k - Len(spawned))
        BY <1>4, <3>3
      <4>2. i < j  BY <1>2, <1>3, <1>5, <3>1, <4>1
      <4>3. i \in DOMAIN delivered /\ j \in DOMAIN delivered  BY <1>3, <3>1, <4>1
      <4> QED  BY <3>1, <4>1, <4>2, <4>3 DEF Before
    <3> QED  BY <3>2, <3>3
  <2> QED  BY <2>1, <2>2
<1>6. Range(queue) \cap Valid \subseteq (Range(delivered) \cap Valid) \ dropped
  <2> SUFFICES ASSUME NEW k \in DOMAIN queue
               PROVE  queue[k] \in Range(delivered) /\ queue[k] \notin dropped
    BY DEF Range
  <2>1. CASE k \in DOMAIN spawned
    <3>1. PICK i \in 1 .. Past : spawned[k] = delivered[i]  BY <2>1 DEF SpawnedInv
    <3>2. k \in 1 .. Len(spawned)  BY <1>1, <2>1
    <3>3. queue[k] = delivered[i]  BY <1>2, <3>1, <3>2
    <3>4. i \in DOMAIN delivered  BY <1>3, <3>1
    <3>5. delivered[i] \in Range(spawned)  BY <2>1, <3>1 DEF Range
    <3> QED  BY <3>3, <3>4, <3>5 DEF FateInv, Range
  <2>2. CASE k \notin DOMAIN spawned
    <3>1. PICK i \in (Past + 1) .. Len(delivered) : queue[k] = delivered[i]  BY <1>4, <2>2
    <3>2. i \in DOMAIN delivered /\ \A j \in 1 .. Past : j \in DOMAIN delivered /\ j # i
      BY <1>3, <3>1
    <3>3. \A j \in 1 .. Past : delivered[j] # delivered[i]  BY <3>2 DEF QueueInv
    <3>4. delivered[i] \notin dropped  BY <3>3 DEF FateInv
    <3> QED  BY <3>1, <3>2, <3>4 DEF Range
  <2> QED  BY <2>1, <2>2
<1>7. (Range(delivered) \cap Valid) \ dropped \subseteq Range(queue) \cap Valid
  <2> SUFFICES ASSUME NEW i \in DOMAIN delivered, delivered[i] \in Valid, delivered[i] \notin dropped
               PROVE  delivered[i] \in Range(queue)
    BY DEF Range
  <2>1. CASE i <= Past
    <3>1. delivered[i] \in Range(spawned)  BY <1>3, <2>1 DEF FateInv
    <3>2. PICK k \in DOMAIN spawned : spawned[k] = delivered[i]  BY <3>1 DEF Range
    <3>3. k \in 1 .. Len(spawned) /\ Len(spawned) \in Nat /\ Len(backlog) \in Nat
      BY <1>1, <3>2
    <3>4. k \in DOMAIN queue /\ queue[k] = delivered[i]  BY <1>2, <3>2, <3>3
    <3> QED  BY <3>4 DEF Range
  <2>2. CASE i > Past
    <3>1. i - Past \in 1 .. Len(backlog) /\ i = Past + (i - Past)  BY <1>3, <2>2
    <3>2. backlog[i - Past] = delivered[i]  BY <3>1 DEF QueueInv
    <3>3. Len(spawned) + (i - Past) \in DOMAIN queue  BY <1>2, <3>1
    <3>4. queue[Len(spawned) + (i - Past)] = delivered[i]  BY <1>2, <3>1, <3>2
    <3> QED  BY <3>3, <3>4 DEF Range
  <2> QED  BY <1>3, <2>1, <2>2
<1> QED  BY <1>5, <1>6, <1>7 DEF EachSpawnedOnce, queue

\* Every readable request that the channel does not lose gets one worker, in the
\* order of delivery, for a channel of any size and any number of requests,
\* however late the listener subscribes and however far it lags.
THEOREM RequestsAreSpawnedOnce == Spec => []EachSpawnedOnce
<1>1. Init => ChannelInv
  <2> SUFFICES ASSUME Init PROVE ChannelInv
    OBVIOUS
  <2>1. Capacity \in Nat /\ Len(<< >>) = 0 /\ << >> \in Seq(Requests) /\ << >> \in Seq(Valid)
    BY IntakeAssumption
  <2>2. /\ listening \in BOOLEAN /\ overtaken \in BOOLEAN /\ dropped = {}
        /\ backlog = << >> /\ spawned = << >> /\ delivered = << >>
    BY DEF Init
  <2>3. ChannelTypeOK  BY <2>1, <2>2 DEF ChannelTypeOK
  <2>4. Past = 0  BY <2>1, <2>2 DEF Past
  <2>5. QueueInv  BY <2>1, <2>2 DEF QueueInv
  <2>6. SpawnedInv  BY <2>1, <2>2 DEF SpawnedInv
  <2>7. FateInv  BY <2>2, <2>4 DEF FateInv
  <2> QED  BY <2>3, <2>5, <2>6, <2>7 DEF ChannelInv
<1>2. ChannelInv /\ [Next]_vars => ChannelInv'
  BY ChannelSteps, QueueSteps, SpawnedSteps, FateSteps DEF ChannelInv
<1> QED  BY <1>1, <1>2, FateOfRequests, PTL DEF Spec
=============================================================================
