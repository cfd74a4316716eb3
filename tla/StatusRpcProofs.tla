-------------------------- MODULE StatusRpcProofs --------------------------
(***************************************************************************)
(* Theorems about status polling, for any number of polls, bots, requests  *)
(* and repeated, delayed, reordered or lost replies; and that polling      *)
(* implements StatusPoll when no two requests share a millisecond.         *)
(***************************************************************************)
EXTENDS StatusRpc, TLAPS

LEMMA Channels ==
  /\ Open # Dropped
  /\ \A c : [content |-> c] # Open /\ [content |-> c] # Dropped
<1>1. Open.open = TRUE /\ Dropped.open = FALSE  BY DEF Open, Dropped
<1>2. DOMAIN Open = {"open"} /\ DOMAIN Dropped = {"open"}  BY DEF Open, Dropped
<1>3. \A c : DOMAIN [content |-> c] = {"content"}  OBVIOUS
<1> QED  BY <1>1, <1>2, <1>3

\* A poll moves between the places a poll can be.
LEMMA PollTyping ==
  ASSUME TypeOK, NEW p \in Polls, Begin(p) \/ PollStep(p) \/ Deadline(p) \/ Drop(p)
  PROVE  TypeOK'
<1> USE RpcAssumption DEF TypeOK, Goto, Closed, Parked, Polling, Stamps, Open, Dropped
<1>1. CASE Begin(p)  BY <1>1 DEF Begin, StrategyState
<1>2. CASE GiveUp(p)  BY <1>2 DEF GiveUp
<1>3. CASE Park(p)
  <2>1. PICK k \in Stamps :
          /\ clock' = k
          /\ key' = [key EXCEPT ![p] = k]
          /\ chan' = [DropSender(k, chan) EXCEPT ![p] = Open]
          /\ pending' = [pending EXCEPT ![k] = p]
    BY <1>3 DEF Park
  <2>2. chan' \in [Polls -> {Open, Dropped} \cup [content : Contents]]
    BY <2>1 DEF DropSender
  <2> QED  BY <1>3, <2>1, <2>2 DEF Park
<1>4. CASE Send(p)
  <2>1. requests' \subseteq Request
    <3>1. key[p] \in Stamps => [key |-> key[p], bot |-> Target[p]] \in Request
      BY DEF Request
    <3> QED  BY <1>4, <3>1 DEF Send
  <2> QED  BY <1>4, <2>1 DEF Send
<1>5. CASE Wake(p)  BY <1>5 DEF Wake
<1>6. CASE TimeOut(p)  BY <1>6 DEF TimeOut
<1>7. CASE Forget(p)
  <2>1. chan' \in [Polls -> {Open, Dropped} \cup [content : Contents]]
    BY <1>7 DEF Forget, DropSender
  <2> QED  BY <1>7, <2>1 DEF Forget
<1>8. CASE Slept(p)  BY <1>8 DEF Slept
<1>9. CASE Deadline(p)  BY <1>9 DEF Deadline
<1>10. CASE Drop(p)  BY <1>10 DEF Drop
<1> QED
  BY <1>1, <1>2, <1>3, <1>4, <1>5, <1>6, <1>7, <1>8, <1>9, <1>10 DEF PollStep

\* What the bots, the broker and the event loop do.
Traffic ==
  \/ \E r \in requests : Answer(r)
  \/ \E r \in replies : Deliver(r)
  \/ \E b \in Bots : Turn(b)
  \/ CloseBus

LEMMA TrafficTyping ==
  ASSUME TypeOK, Traffic
  PROVE  TypeOK'
<1> USE RpcAssumption DEF TypeOK, pollVars
<1>1. ASSUME NEW r \in requests, Answer(r)
      PROVE  TypeOK'
  <2>1. PICK c \in Contents :
          replies' = replies \cup {[key |-> r.key, bot |-> r.bot, content |-> c]}
    BY <1>1 DEF Answer
  <2>2. [key |-> r.key, bot |-> r.bot, content |-> c] \in Reply  BY DEF Request, Reply
  <2> QED  BY <1>1, <2>1, <2>2 DEF Answer
<1>2. ASSUME NEW r \in replies, Deliver(r)
      PROVE  TypeOK'
  <2>1. r.key \in Stamps /\ r.content \in Contents  BY DEF Reply
  <2>2. pending[r.key] \in Polls  BY <1>2, <2>1 DEF Deliver
  <2>3. [content |-> r.content] \in [content : Contents]  BY <2>1
  <2> QED  BY <1>2, <2>1, <2>2, <2>3 DEF Deliver
<1>3. ASSUME NEW b \in Bots, Turn(b)
      PROVE  TypeOK'
  BY <1>3 DEF Turn
<1>4. CASE CloseBus  BY <1>4 DEF CloseBus
<1> QED  BY <1>1, <1>2, <1>3, <1>4 DEF Traffic

\* Every step is one of a poll, of the traffic, or none.
LEMMA Steps ==
  ASSUME [Next]_vars
  PROVE  \/ \E p \in Polls : Begin(p) \/ PollStep(p) \/ Deadline(p) \/ Drop(p)
         \/ Traffic
         \/ UNCHANGED vars
BY DEF Next, Traffic

\* Type correctness of polling.
THEOREM RpcTypeCorrect == Spec => []TypeOK
<1>1. Init => TypeOK
  BY RpcAssumption DEF Init, TypeOK, Stamps, Open, Dropped, Parked, Polling, Closed, StrategyState
<1>2. TypeOK /\ [Next]_vars => TypeOK'
  <2>1. TypeOK /\ UNCHANGED vars => TypeOK'  BY DEF TypeOK, vars, pollVars
  <2> QED  BY <2>1, Steps, PollTyping, TrafficTyping
<1> QED  BY <1>1, <1>2, PTL DEF Spec

-----------------------------------------------------------------------------

\* A parked sender is the live end of its owner's latest request, and a poll that
\* has a live end before it has timed out is parked.
ParkedRight(k) ==
  pending[k] # Nobody =>
    /\ key[pending[k]] = k
    /\ chan[pending[k]] = Open
    /\ pc[pending[k]] \in Parked \cup {"lost", "failed"}

WaitsRight(p) ==
  pc[p] \in {"send", "wait"} /\ chan[p] = Open => pending[key[p]] = p

ParkingInv ==
  /\ \A k \in Stamps : ParkedRight(k)
  /\ \A p \in Polls : WaitsRight(p)

LEMMA PollParking ==
  ASSUME TypeOK, ParkingInv, NEW p \in Polls, Begin(p) \/ PollStep(p) \/ Deadline(p) \/ Drop(p)
  PROVE  ParkingInv'
<1> USE DEF Goto, Parked, Closed
<1>a. /\ pc \in [Polls -> {"idle", "top", "sleep"} \cup Parked \cup Closed]
      /\ key \in [Polls -> Stamps \cup {0}]
      /\ DOMAIN chan = Polls
      /\ pending \in [Stamps -> Polls \cup {Nobody}]
      /\ \A q \in Polls : pc[q] \in Parked => key[q] \in Stamps
      /\ Nobody \notin Polls
      /\ Open # Dropped
  BY RpcAssumption, Channels DEF TypeOK, Polling
<1>1. CASE Park(p)
  <2>1. PICK k \in Stamps :
          /\ key' = [key EXCEPT ![p] = k]
          /\ chan' = [DropSender(k, chan) EXCEPT ![p] = Open]
          /\ pending' = [pending EXCEPT ![k] = p]
    BY <1>1 DEF Park
  <2>2. pc[p] = "top" /\ pc'[p] = "send" /\ \A q \in Polls : q # p => pc'[q] = pc[q]
    BY <1>1, <1>a DEF Park
  <2>3. \A j \in Stamps : pending[j] # p  BY <1>a, <2>2 DEF ParkingInv, ParkedRight
  <2>4. \A q \in Polls : q # p => chan'[q] = IF q = pending[k] THEN Dropped ELSE chan[q]
    BY <1>a, <2>1 DEF DropSender
  <2>5. chan'[p] = Open /\ key'[p] = k  BY <1>a, <2>1 DEF DropSender
  <2>6. ASSUME NEW j \in Stamps PROVE ParkedRight(j)'
    <3>1. CASE j = k  BY <1>a, <2>1, <2>2, <2>5, <3>1 DEF ParkedRight
    <3>2. CASE j # k
      <4>1. pending'[j] = pending[j]  BY <1>a, <2>1, <3>2
      <4>2. pending[j] # Nobody => pending[j] # pending[k]
        BY <3>2 DEF ParkingInv, ParkedRight
      <4> QED  BY <1>a, <2>1, <2>2, <2>3, <2>4, <4>1, <4>2 DEF ParkingInv, ParkedRight
    <3> QED  BY <3>1, <3>2
  <2>7. ASSUME NEW q \in Polls PROVE WaitsRight(q)'
    BY <1>a, <2>1, <2>2, <2>4, <2>5 DEF ParkingInv, WaitsRight
  <2> QED  BY <2>6, <2>7 DEF ParkingInv
<1>2. CASE Forget(p)
  <2>1. /\ pc[p] = "expired" /\ pc'[p] = "sleep" /\ key[p] \in Stamps
        /\ \A q \in Polls : q # p => pc'[q] = pc[q]
        /\ pending' = [pending EXCEPT ![key[p]] = Nobody]
        /\ UNCHANGED key
    BY <1>2, <1>a DEF Forget
  <2>2. \A q \in Polls : chan'[q] = IF q = pending[key[p]] THEN Dropped ELSE chan[q]
    BY <1>2, <1>a, <2>1 DEF Forget, DropSender
  <2>3. ASSUME NEW j \in Stamps PROVE ParkedRight(j)'
    <3>1. CASE j = key[p]  BY <1>a, <2>1, <3>1 DEF ParkedRight
    <3>2. CASE j # key[p]
      <4>1. pending'[j] = pending[j]  BY <1>a, <2>1, <3>2
      <4>2. pending[j] # Nobody => pending[j] # pending[key[p]] /\ pending[j] # p
        BY <2>1, <3>2 DEF ParkingInv, ParkedRight
      <4> QED  BY <1>a, <2>1, <2>2, <4>1, <4>2 DEF ParkingInv, ParkedRight
    <3> QED  BY <3>1, <3>2
  <2>4. ASSUME NEW q \in Polls PROVE WaitsRight(q)'
    BY <1>a, <2>1, <2>2 DEF ParkingInv, WaitsRight
  <2> QED  BY <2>3, <2>4 DEF ParkingInv
<1>3. CASE Wake(p)
  <2>1. /\ UNCHANGED <<key, chan, pending>>
        /\ chan[p] # Open
        /\ pc'[p] \notin {"send", "wait"}
        /\ \A q \in Polls : q # p => pc'[q] = pc[q]
    BY <1>3, <1>a DEF Wake
  <2>2. \A j \in Stamps : pending[j] # p  BY <1>a, <2>1 DEF ParkingInv, ParkedRight
  <2>3. ASSUME NEW j \in Stamps PROVE ParkedRight(j)'
    BY <1>a, <2>1, <2>2 DEF ParkingInv, ParkedRight
  <2>4. ASSUME NEW q \in Polls PROVE WaitsRight(q)'
    BY <2>1 DEF ParkingInv, WaitsRight
  <2> QED  BY <2>3, <2>4 DEF ParkingInv
<1>4. CASE Begin(p) \/ GiveUp(p) \/ Send(p) \/ TimeOut(p) \/ Slept(p) \/ Deadline(p) \/ Drop(p)
  <2>1. /\ UNCHANGED <<key, chan, pending>>
        /\ pc'[p] \in {"send", "wait"} => pc[p] \in {"send", "wait"}
        /\ pc[p] \in Parked \cup {"lost", "failed"} => pc'[p] \in Parked \cup {"lost", "failed"}
        /\ \A q \in Polls : q # p => pc'[q] = pc[q]
    BY <1>4, <1>a DEF Begin, GiveUp, Send, TimeOut, Slept, Deadline, Drop
  <2>2. ASSUME NEW j \in Stamps PROVE ParkedRight(j)'
    BY <1>a, <2>1 DEF ParkingInv, ParkedRight
  <2>3. ASSUME NEW q \in Polls PROVE WaitsRight(q)'
    BY <2>1 DEF ParkingInv, WaitsRight
  <2> QED  BY <2>2, <2>3 DEF ParkingInv
<1> QED  BY <1>1, <1>2, <1>3, <1>4 DEF PollStep

LEMMA TrafficParking ==
  ASSUME TypeOK, ParkingInv, Traffic
  PROVE  ParkingInv'
<1>a. /\ DOMAIN chan = Polls
      /\ pending \in [Stamps -> Polls \cup {Nobody}]
      /\ Nobody \notin Polls
  BY RpcAssumption DEF TypeOK
<1>1. ASSUME NEW r \in replies, Deliver(r)
      PROVE  ParkingInv'
  <2> DEFINE o == pending[r.key]
  <2>1. /\ r.key \in Stamps /\ o \in Polls
        /\ UNCHANGED <<pc, key>>
        /\ pending' = [pending EXCEPT ![r.key] = Nobody]
        /\ chan' = [chan EXCEPT ![o] = [content |-> r.content]]
    BY <1>1, <1>a DEF Deliver, TypeOK, Reply
  <2>2. chan'[o] # Open  BY <1>a, <2>1, Channels
  <2>3. \A q \in Polls : q # o => chan'[q] = chan[q]  BY <1>a, <2>1
  <2>4. key[o] = r.key  BY <2>1, <1>a DEF ParkingInv, ParkedRight
  <2> HIDE DEF o
  <2>5. ASSUME NEW j \in Stamps PROVE ParkedRight(j)'
    BY <1>a, <2>1, <2>3, <2>4 DEF ParkingInv, ParkedRight
  <2>6. ASSUME NEW q \in Polls PROVE WaitsRight(q)'
    <3>1. CASE q = o  BY <2>2, <3>1 DEF WaitsRight
    <3>2. CASE q # o
      BY <1>a, <2>1, <2>3, <3>2 DEF ParkingInv, WaitsRight, o
    <3> QED  BY <3>1, <3>2
  <2> QED  BY <2>5, <2>6 DEF ParkingInv
<1>2. CASE UNCHANGED pollVars
  BY <1>2 DEF pollVars, ParkingInv, ParkedRight, WaitsRight
<1> QED  BY <1>1, <1>2 DEF Traffic, Answer, Turn, CloseBus

LEMMA Parking == Spec => []ParkingInv
<1>1. Init => ParkingInv
  BY DEF Init, ParkingInv, ParkedRight, WaitsRight
<1>2. TypeOK /\ ParkingInv /\ [Next]_vars => ParkingInv'
  <2>1. ParkingInv /\ UNCHANGED vars => ParkingInv'
    BY DEF ParkingInv, ParkedRight, WaitsRight, vars, pollVars
  <2> QED  BY <2>1, Steps, PollParking, TrafficParking
<1> QED  BY <1>1, <1>2, RpcTypeCorrect, PTL DEF Spec

\* The pending map holds the latest request of live polls and nothing else, but
\* for at most one entry of each poll that was dropped or failed to publish;
\* same-millisecond requests, late replies and expired timers included.
THEOREM MapHoldsWaiters == Spec => []PendingHasWaiter
<1>1. ParkingInv => PendingHasWaiter
  BY DEF ParkingInv, ParkedRight, PendingHasWaiter
<1> QED  BY <1>1, Parking, PTL

\* No poll waits for a reply the map has forgotten about.
THEOREM WaitersAreServed == Spec => []WaiterInformed
<1>1. ParkingInv => WaiterInformed
  BY DEF ParkingInv, WaitsRight, WaiterInformed
<1> QED  BY <1>1, Parking, PTL

-----------------------------------------------------------------------------

\* A reply that may be put before a poll tells nothing its bot has not done.
Truthful(p, content) == Classify(content) \in seen[p] \cup {"unknown"}

\* Where no two requests share a millisecond, a topic belongs to one poll.
KeysApart ==
  /\ \A p \in Polls : key[p] <= clock
  /\ \A p, q \in Polls : key[p] = key[q] /\ key[p] # 0 => p = q
  /\ \A p \in Polls : pc[p] = "idle" => key[p] = 0 /\ chan[p] = Dropped
  /\ \A p \in Polls : pc[p] # "idle" => strategy[Target[p]] \in seen[p]

MessagesRight ==
  /\ \A m \in requests :
       m.key <= clock /\ \A p \in Polls : key[p] = m.key => m.bot = Target[p]
  /\ \A m \in replies :
       m.key <= clock /\ \A p \in Polls : key[p] = m.key => Truthful(p, m.content)

ChannelsRight ==
  \A p \in Polls : chan[p] # Open /\ chan[p] # Dropped => Truthful(p, chan[p].content)

MeaningInv == KeysApart /\ MessagesRight /\ ChannelsRight /\ ConfirmedWasTrue

LEMMA PollMeaning ==
  ASSUME DistinctStamps, TypeOK, MeaningInv, NEW p \in Polls,
         Begin(p) \/ PollStep(p) \/ Deadline(p) \/ Drop(p)
  PROVE  MeaningInv'
<1> USE DEF Goto
<1>a. /\ pc \in [Polls -> {"idle", "top", "sleep"} \cup Parked \cup Closed]
      /\ key \in [Polls -> Stamps \cup {0}]
      /\ DOMAIN chan = Polls /\ DOMAIN seen = Polls
      /\ pending \in [Stamps -> Polls \cup {Nobody}]
      /\ clock \in Int
      /\ \A q \in Polls : key[q] \in Int
      /\ \A m \in requests : m.key \in Int /\ m.key > 0
      /\ \A m \in replies : m.key \in Int /\ m.key > 0
      /\ \A k \in Stamps : k \in Int /\ k > 0
  BY RpcAssumption DEF TypeOK, Polling, Stamps, Request, Reply
<1>1. CASE Begin(p)
  <2>1. /\ pc[p] = "idle" /\ pc'[p] = "top"
        /\ \A q \in Polls : q # p => pc'[q] = pc[q] /\ seen'[q] = seen[q]
        /\ seen'[p] = {strategy[Target[p]]}
        /\ UNCHANGED <<strategy, key, chan, clock, requests, replies>>
    BY <1>1, <1>a DEF Begin
  <2>2. key[p] = 0 /\ chan[p] = Dropped  BY <2>1 DEF MeaningInv, KeysApart
  <2>3. KeysApart'  BY <2>1 DEF MeaningInv, KeysApart
  <2>4. MessagesRight'
    BY <1>a, <2>1, <2>2 DEF MeaningInv, MessagesRight, Truthful
  <2>5. ChannelsRight'
    BY <2>1, <2>2 DEF MeaningInv, ChannelsRight, Truthful
  <2>6. ConfirmedWasTrue'  BY <2>1 DEF MeaningInv, ConfirmedWasTrue
  <2> QED  BY <2>3, <2>4, <2>5, <2>6 DEF MeaningInv
<1>2. CASE Park(p)
  <2>1. PICK k \in Stamps :
          /\ k > clock
          /\ clock' = k
          /\ key' = [key EXCEPT ![p] = k]
          /\ chan' = [DropSender(k, chan) EXCEPT ![p] = Open]
    BY <1>2 DEF Park
  <2>2. /\ pc[p] = "top" /\ pc'[p] = "send"
        /\ \A q \in Polls : q # p => pc'[q] = pc[q] /\ key'[q] = key[q]
        /\ key'[p] = k
        /\ UNCHANGED <<strategy, seen, requests, replies>>
    BY <1>2, <1>a, <2>1 DEF Park
  <2>3. \A q \in Polls : chan'[q] \in {chan[q], Open, Dropped}
    BY <1>a, <2>1 DEF DropSender
  <2>4. \A q \in Polls : q # p /\ chan[q] = Dropped => chan'[q] = Dropped
    BY <1>a, <2>1 DEF DropSender
  <2>5. \A q \in Polls : key[q] <= clock  BY DEF MeaningInv, KeysApart
  <2>6. KeysApart'
    <3>1. \A q \in Polls : key'[q] <= clock'  BY <1>a, <2>1, <2>2, <2>5
    <3>2. \A q, u \in Polls : key'[q] = key'[u] /\ key'[q] # 0 => q = u
      BY <1>a, <2>1, <2>2, <2>5 DEF MeaningInv, KeysApart
    <3>3. \A q \in Polls : pc'[q] = "idle" => key'[q] = 0 /\ chan'[q] = Dropped
      BY <2>2, <2>4 DEF MeaningInv, KeysApart
    <3>4. \A q \in Polls : pc'[q] # "idle" => strategy'[Target[q]] \in seen'[q]
      BY <2>2 DEF MeaningInv, KeysApart
    <3> QED  BY <3>1, <3>2, <3>3, <3>4 DEF KeysApart
  <2>7. MessagesRight'
    <3>1. ASSUME NEW m \in requests
          PROVE  m.key <= clock' /\ \A q \in Polls : key'[q] = m.key => m.bot = Target[q]
      BY <1>a, <2>1, <2>2 DEF MeaningInv, MessagesRight
    <3>2. ASSUME NEW m \in replies
          PROVE  m.key <= clock' /\ \A q \in Polls : key'[q] = m.key => Truthful(q, m.content)'
      BY <1>a, <2>1, <2>2 DEF MeaningInv, MessagesRight, Truthful
    <3> QED  BY <2>2, <3>1, <3>2 DEF MessagesRight
  <2>8. ChannelsRight'
    BY <2>2, <2>3 DEF MeaningInv, ChannelsRight, Truthful
  <2>9. ConfirmedWasTrue'  BY <2>2 DEF MeaningInv, ConfirmedWasTrue
  <2> QED  BY <2>6, <2>7, <2>8, <2>9 DEF MeaningInv
<1>3. CASE Send(p)
  <2>1. /\ pc[p] = "send" /\ pc'[p] \in {"wait", "failed"}
        /\ \A q \in Polls : q # p => pc'[q] = pc[q]
        /\ requests' \subseteq requests \cup {[key |-> key[p], bot |-> Target[p]]}
        /\ UNCHANGED <<strategy, key, chan, clock, replies, seen>>
    BY <1>3, <1>a DEF Send
  <2>2. key[p] # 0  BY <2>1 DEF TypeOK, Parked
  <2>3. KeysApart'  BY <2>1 DEF MeaningInv, KeysApart
  <2>4. MessagesRight'
    <3>1. ASSUME NEW m \in requests'
          PROVE  m.key <= clock /\ \A q \in Polls : key[q] = m.key => m.bot = Target[q]
      <4>1. CASE m \in requests  BY <4>1 DEF MeaningInv, MessagesRight
      <4>2. CASE m = [key |-> key[p], bot |-> Target[p]]
        BY <2>2, <4>2 DEF MeaningInv, KeysApart
      <4> QED  BY <2>1, <4>1, <4>2
    <3> QED  BY <2>1, <3>1 DEF MeaningInv, MessagesRight, Truthful
  <2>5. ChannelsRight'  BY <2>1 DEF MeaningInv, ChannelsRight, Truthful
  <2>6. ConfirmedWasTrue'  BY <2>1 DEF MeaningInv, ConfirmedWasTrue
  <2> QED  BY <2>3, <2>4, <2>5, <2>6 DEF MeaningInv
<1>4. CASE Wake(p)
  <2>1. /\ pc[p] = "wait" /\ pc'[p] # "idle"
        /\ \A q \in Polls : q # p => pc'[q] = pc[q]
        /\ pc'[p] = "confirmed" =>
             /\ chan[p] # Open /\ chan[p] # Dropped
             /\ Classify(chan[p].content) = Expected[p]
        /\ UNCHANGED <<strategy, key, chan, clock, requests, replies, seen>>
    BY <1>4, <1>a DEF Wake
  <2>2. pc'[p] = "confirmed" => Expected[p] \in seen[p]
    BY <2>1, RpcAssumption DEF MeaningInv, ChannelsRight, Truthful
  <2>3. KeysApart'  BY <2>1 DEF MeaningInv, KeysApart
  <2>4. MessagesRight'  BY <2>1 DEF MeaningInv, MessagesRight, Truthful
  <2>5. ChannelsRight'  BY <2>1 DEF MeaningInv, ChannelsRight, Truthful
  <2>6. ConfirmedWasTrue'  BY <2>1, <2>2 DEF MeaningInv, ConfirmedWasTrue
  <2> QED  BY <2>3, <2>4, <2>5, <2>6 DEF MeaningInv
<1>5. CASE GiveUp(p) \/ TimeOut(p) \/ Forget(p) \/ Slept(p) \/ Deadline(p) \/ Drop(p)
  <2>1. /\ (pc[p] # "idle" /\ pc'[p] \notin {"idle", "confirmed"}) \/ pc'[p] = pc[p]
        /\ \A q \in Polls : q # p => pc'[q] = pc[q]
        /\ UNCHANGED <<strategy, key, clock, requests, replies, seen>>
    BY <1>5, <1>a DEF GiveUp, TimeOut, Forget, Slept, Deadline, Drop
  <2>2. \A q \in Polls : chan'[q] \in {chan[q], Dropped}
    BY <1>5, <1>a DEF GiveUp, TimeOut, Forget, Slept, Deadline, Drop, DropSender
  <2>3. KeysApart'  BY <2>1, <2>2 DEF MeaningInv, KeysApart
  <2>4. MessagesRight'  BY <2>1 DEF MeaningInv, MessagesRight, Truthful
  <2>5. ChannelsRight'  BY <2>1, <2>2 DEF MeaningInv, ChannelsRight, Truthful
  <2>6. ConfirmedWasTrue'  BY <2>1 DEF MeaningInv, ConfirmedWasTrue
  <2> QED  BY <2>3, <2>4, <2>5, <2>6 DEF MeaningInv
<1> QED  BY <1>1, <1>2, <1>3, <1>4, <1>5 DEF PollStep

LEMMA TrafficMeaning ==
  ASSUME TypeOK, ParkingInv, MeaningInv, Traffic
  PROVE  MeaningInv'
<1>a. /\ DOMAIN chan = Polls /\ DOMAIN seen = Polls /\ strategy \in [Bots -> StrategyState]
      /\ Target \in [Polls -> Bots]
      /\ \A m \in requests : m.key \in Stamps /\ m.key # 0
      /\ \A m \in replies : m.key \in Stamps
      /\ Nobody \notin Polls
      /\ pending \in [Stamps -> Polls \cup {Nobody}]
  BY RpcAssumption DEF TypeOK, Request, Reply, Stamps
<1>1. ASSUME NEW r \in requests, Answer(r)
      PROVE  MeaningInv'
  <2>1. PICK c \in Contents :
          /\ c.msg \in Wording(strategy[r.bot])
          /\ replies' = replies \cup {[key |-> r.key, bot |-> r.bot, content |-> c]}
    BY <1>1 DEF Answer
  <2>2. UNCHANGED <<strategy, pc, key, chan, clock, requests, seen>>
    BY <1>1 DEF Answer, pollVars
  <2>3. KeysApart'  BY <2>2 DEF MeaningInv, KeysApart
  <2>4. MessagesRight'
    <3>1. ASSUME NEW m \in replies'
          PROVE  m.key <= clock /\ \A q \in Polls : key[q] = m.key => Truthful(q, m.content)
      <4>1. CASE m \in replies  BY <4>1 DEF MeaningInv, MessagesRight
      <4>2. CASE m = [key |-> r.key, bot |-> r.bot, content |-> c]
        <5>1. m.key = r.key /\ m.content = c /\ r.key <= clock
          BY <4>2 DEF MeaningInv, MessagesRight
        <5>2. ASSUME NEW q \in Polls, key[q] = r.key
              PROVE  Truthful(q, c)
          <6>1. r.bot = Target[q]  BY <5>2 DEF MeaningInv, MessagesRight
          <6>2. pc[q] # "idle"  BY <1>a, <5>2 DEF MeaningInv, KeysApart
          <6>3. strategy[Target[q]] \in seen[q]  BY <6>2 DEF MeaningInv, KeysApart
          <6>4. Classify(c) \in {strategy[r.bot], "unknown"}
            BY <1>a, <2>1, <6>1 DEF Classify, Wording, StrategyState, Contents
          <6> QED  BY <6>1, <6>3, <6>4 DEF Truthful
        <5> QED  BY <5>1, <5>2
      <4> QED  BY <2>1, <4>1, <4>2
    <3> QED  BY <2>2, <3>1 DEF MeaningInv, MessagesRight, Truthful
  <2>5. ChannelsRight'  BY <2>2 DEF MeaningInv, ChannelsRight, Truthful
  <2>6. ConfirmedWasTrue'  BY <2>2 DEF MeaningInv, ConfirmedWasTrue
  <2> QED  BY <2>3, <2>4, <2>5, <2>6 DEF MeaningInv
<1>2. ASSUME NEW r \in replies, Deliver(r)
      PROVE  MeaningInv'
  <2> DEFINE o == pending[r.key]
  <2>1. /\ o \in Polls
        /\ chan' = [chan EXCEPT ![o] = [content |-> r.content]]
        /\ UNCHANGED <<strategy, pc, key, clock, requests, replies, seen>>
    BY <1>2, <1>a DEF Deliver
  <2>2. key[o] = r.key /\ chan[o] = Open
    BY <1>a, <2>1 DEF ParkingInv, ParkedRight
  <2>3. Truthful(o, r.content)  BY <2>1, <2>2 DEF MeaningInv, MessagesRight
  <2> HIDE DEF o
  <2>4. chan'[o].content = r.content /\ \A q \in Polls : q # o => chan'[q] = chan[q]
    BY <1>a, <2>1
  <2>5. KeysApart'  BY <2>1, <2>2, <2>4, Channels DEF MeaningInv, KeysApart
  <2>6. MessagesRight'  BY <2>1 DEF MeaningInv, MessagesRight, Truthful
  <2>7. ChannelsRight'  BY <2>1, <2>3, <2>4 DEF MeaningInv, ChannelsRight, Truthful
  <2>8. ConfirmedWasTrue'  BY <2>1 DEF MeaningInv, ConfirmedWasTrue
  <2> QED  BY <2>5, <2>6, <2>7, <2>8 DEF MeaningInv
<1>3. ASSUME NEW b \in Bots, Turn(b)
      PROVE  MeaningInv'
  <2>1. PICK s \in StrategyState :
          /\ strategy' = [strategy EXCEPT ![b] = s]
          /\ seen' = [q \in Polls |-> IF Target[q] = b /\ pc[q] # "idle"
                                      THEN seen[q] \cup {s} ELSE seen[q]]
    BY <1>3 DEF Turn
  <2>2. UNCHANGED <<pc, key, chan, clock, requests, replies>>
    BY <1>3 DEF Turn, pollVars
  <2>3. \A q \in Polls : seen[q] \subseteq seen'[q]  BY <2>1
  <2>4. \A q \in Polls : pc[q] # "idle" => strategy'[Target[q]] \in seen'[q]
    BY <1>a, <2>1 DEF MeaningInv, KeysApart
  <2>5. KeysApart'  BY <2>2, <2>4 DEF MeaningInv, KeysApart
  <2>6. MessagesRight'  BY <2>2, <2>3 DEF MeaningInv, MessagesRight, Truthful
  <2>7. ChannelsRight'  BY <2>2, <2>3 DEF MeaningInv, ChannelsRight, Truthful
  <2>8. ConfirmedWasTrue'  BY <2>2, <2>3 DEF MeaningInv, ConfirmedWasTrue
  <2> QED  BY <2>5, <2>6, <2>7, <2>8 DEF MeaningInv
<1>4. CASE CloseBus
  BY <1>4 DEF CloseBus, pollVars, MeaningInv, KeysApart, MessagesRight, ChannelsRight,
     ConfirmedWasTrue, Truthful
<1> QED  BY <1>1, <1>2, <1>3, <1>4 DEF Traffic

\* When the clock moves between any two requests, a confirmation means what its
\* poll takes it to mean: the bot that was asked was in the expected state while
\* the poll ran.
THEOREM ConfirmationsAreTrue ==
  ASSUME DistinctStamps
  PROVE  Spec => []ConfirmedWasTrue
<1>1. Init => MeaningInv
  BY RpcAssumption DEF Init, MeaningInv, KeysApart, MessagesRight, ChannelsRight, ConfirmedWasTrue
<1>2. TypeOK /\ ParkingInv /\ MeaningInv /\ [Next]_vars => MeaningInv'
  <2>1. MeaningInv /\ UNCHANGED vars => MeaningInv'
    BY DEF MeaningInv, KeysApart, MessagesRight, ChannelsRight, ConfirmedWasTrue, Truthful,
       vars, pollVars
  <2> QED  BY <2>1, Steps, PollMeaning, TrafficMeaning
<1>3. MeaningInv => ConfirmedWasTrue  BY DEF MeaningInv
<1> QED  BY <1>1, <1>2, <1>3, RpcTypeCorrect, Parking, PTL DEF Spec

-----------------------------------------------------------------------------
(***************************************************************************)
(* The refinement of StatusPoll.                                           *)
(***************************************************************************)

\* A step inside a poll shows nobody an outcome.
LEMMA InsideAPoll ==
  ASSUME TypeOK, NEW p \in Polls, pc[p] \in Polling,
         NEW where \in Polling, pc' = [pc EXCEPT ![p] = where]
  PROVE  UNCHANGED Outcome
BY DEF TypeOK, Outcome

\* A poll that ends shows its outcome, and no other poll does.
LEMMA EndOfAPoll ==
  ASSUME TypeOK, NEW p \in Polls, pc[p] \in Polling,
         NEW result \in Closed, pc' = [pc EXCEPT ![p] = result]
  PROVE  Outcome[p] = "polling" /\ Outcome' = [Outcome EXCEPT ![p] = result]
BY DEF TypeOK, Outcome, Closed, Polling, Parked

LEMMA PollStepsAsPromised ==
  ASSUME TypeOK, ConfirmedWasTrue', NEW p \in Polls,
         Begin(p) \/ PollStep(p) \/ Deadline(p) \/ Drop(p)
  PROVE  [Poll!Next]_Poll!vars
<1>a. pc[p] \in {"idle"} \cup Polling \cup Closed  BY DEF TypeOK
<1>1. CASE Begin(p)
  <2>1. Outcome[p] = "idle" /\ Outcome' = [Outcome EXCEPT ![p] = "polling"]
    BY <1>1 DEF Begin, Goto, TypeOK, Outcome, Polling, Parked
  <2> QED  BY <1>1, <2>1 DEF Begin, Poll!Begin, Poll!Next
<1>2. CASE GiveUp(p)
  <2>1. pc[p] \in Polling /\ "timedOut" \in Closed  BY <1>2 DEF GiveUp, Goto, Polling, Closed
  <2>2. Poll!GiveUp(p)
    BY <1>2, <2>1, EndOfAPoll DEF GiveUp, Goto, Poll!GiveUp, Poll!Returns
  <2> QED  BY <2>2 DEF Poll!Next
<1>3. CASE Send(p) /\ ~busOpen
  <2>1. pc[p] \in Polling /\ "failed" \in Closed
    BY <1>3 DEF Send, Goto, Polling, Parked, Closed
  <2>2. Poll!Fail(p)
    BY <1>3, <2>1, EndOfAPoll DEF Send, Goto, Poll!Fail, Poll!Returns
  <2> QED  BY <2>2 DEF Poll!Next
<1>4. CASE Wake(p) /\ pc'[p] = "confirmed"
  <2>1. /\ pc[p] \in Polling /\ "confirmed" \in Closed
        /\ pc' = [pc EXCEPT ![p] = "confirmed"]
        /\ UNCHANGED <<strategy, seen, late, busOpen>>
    BY <1>4 DEF Wake, Goto, TypeOK, Polling, Parked, Closed
  <2>2. Expected[p] \in seen[p]  BY <1>4, <2>1 DEF ConfirmedWasTrue
  <2>3. Poll!Confirm(p)
    BY <2>1, <2>2, EndOfAPoll DEF Poll!Confirm, Poll!Returns
  <2> QED  BY <2>3 DEF Poll!Next
<1>5. CASE Drop(p)
  <2>1. pc[p] \in Polling /\ "lost" \in Closed  BY <1>a, <1>5 DEF Drop, Closed
  <2>2. Poll!Drop(p)
    BY <1>5, <2>1, EndOfAPoll DEF Drop, Poll!Drop, Poll!Returns
  <2> QED  BY <2>2 DEF Poll!Next
<1>6. CASE Deadline(p)
  <2>1. pc[p] \in Polling  BY <1>a, <1>6 DEF Deadline
  <2>2. Outcome[p] = "polling" /\ UNCHANGED Outcome
    BY <1>6, <2>1 DEF Deadline, Outcome
  <2> QED  BY <1>6, <2>2 DEF Deadline, Poll!Deadline, Poll!Next
<1>7. CASE \/ Park(p) \/ TimeOut(p) \/ Forget(p) \/ Slept(p)
           \/ Send(p) /\ busOpen
           \/ Wake(p) /\ pc'[p] # "confirmed"
  <2>1. PICK where \in Polling : pc[p] \in Polling /\ pc' = [pc EXCEPT ![p] = where]
    BY <1>7 DEF Park, TimeOut, Forget, Slept, Send, Wake, Goto, TypeOK, Polling, Parked
  <2>2. UNCHANGED Outcome  BY <2>1, InsideAPoll
  <2>3. UNCHANGED <<strategy, seen, late, busOpen>>
    BY <1>7 DEF Park, TimeOut, Forget, Slept, Send, Wake
  <2> QED  BY <2>2, <2>3 DEF Poll!vars
<1>8. CASE Send(p)  BY <1>3, <1>7, <1>8
<1>9. CASE Wake(p)  BY <1>4, <1>7, <1>9
<1> QED  BY <1>1, <1>2, <1>5, <1>6, <1>7, <1>8, <1>9 DEF PollStep

LEMMA TrafficUnseen ==
  ASSUME TypeOK, Traffic
  PROVE  [Poll!Next]_Poll!vars
<1>1. ASSUME NEW b \in Bots, Turn(b) PROVE Poll!Turn(b)
  <2>1. \A p \in Polls : Outcome[p] = "idle" <=> pc[p] = "idle"
    BY DEF Outcome, Polling, Parked
  <2>2. UNCHANGED Outcome  BY <1>1 DEF Turn, pollVars, Outcome
  <2>3. PICK s \in StrategyState \ {strategy[b]} :
          /\ strategy' = [strategy EXCEPT ![b] = s]
          /\ seen' = [p \in Polls |-> IF Target[p] = b /\ pc[p] # "idle"
                                      THEN seen[p] \cup {s} ELSE seen[p]]
    BY <1>1 DEF Turn
  <2>4. strategy'[b] = s  BY <2>3 DEF TypeOK
  <2>5. seen' = [p \in Polls |-> IF Target[p] = b /\ Outcome[p] # "idle"
                                 THEN seen[p] \cup {strategy'[b]} ELSE seen[p]]
    BY <2>1, <2>3, <2>4
  <2> QED  BY <1>1, <2>2, <2>3, <2>4, <2>5 DEF Turn, pollVars, StrategyState, Poll!Turn
<1>2. CASE CloseBus
  <2>1. UNCHANGED Outcome  BY <1>2 DEF CloseBus, pollVars, Outcome
  <2> QED  BY <1>2, <2>1 DEF CloseBus, pollVars, Poll!CloseBus, Poll!Next
<1>3. CASE (\E r \in requests : Answer(r)) \/ (\E r \in replies : Deliver(r))
  <2>1. UNCHANGED <<strategy, seen, late, busOpen, pc>>
    BY <1>3 DEF Answer, Deliver, pollVars
  <2>2. UNCHANGED Outcome  BY <2>1 DEF Outcome
  <2> QED  BY <2>1, <2>2 DEF Poll!vars
<1> QED  BY <1>1, <1>2, <1>3 DEF Traffic, Poll!Next

\* When the clock moves between any two requests, its callers may take a poll for
\* a StatusPoll: one outcome, final, and each of them means what it says.
THEOREM PollsKeepTheirPromise ==
  ASSUME DistinctStamps
  PROVE  Spec => PollContract
<1>1. Init => Poll!Init
  BY DEF Init, Poll!Init, StrategyState, Outcome, Polling, Parked
<1>2. TypeOK /\ ConfirmedWasTrue' /\ [Next]_vars => [Poll!Next]_Poll!vars
  <2>1. UNCHANGED vars => UNCHANGED Poll!vars
    BY DEF vars, pollVars, Poll!vars, Outcome
  <2> QED  BY <2>1, Steps, PollStepsAsPromised, TrafficUnseen
<1> QED  BY <1>1, <1>2, RpcTypeCorrect, ConfirmationsAreTrue, PTL DEF Spec, PollContract, Poll!Spec
=============================================================================
