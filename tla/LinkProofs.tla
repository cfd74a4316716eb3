----------------------------- MODULE LinkProofs -----------------------------
(***************************************************************************)
(* Theorems about the broker connection, for any topics, publishers and    *)
(* channel: the channel and the backoff keep their bounds, every outage    *)
(* starts with the initial backoff, the loop is stuck only behind requests *)
(* of others, and a loop that is stuck stays so.                           *)
(***************************************************************************)
EXTENDS MqttLink, FiniteSetTheorems, TLAPS

LEMMA LinkInitTyping == Init => TypeOK
<1> SUFFICES ASSUME Init
             PROVE  TypeOK
  OBVIOUS
<1>1. backoff \in InitialBackoff .. MaxBackoff  BY LinkAssumption DEF Init
<1>2. connected \in BOOLEAN  BY DEF Init
<1>3. queue \in Seq(Requests) /\ Len(queue) <= Capacity
  BY LinkAssumption DEF Init
<1> QED  BY <1>1, <1>2, <1>3 DEF Init, TypeOK

\* A request that finds room is appended within the channel's capacity.
LEMMA AppendTyping ==
  ASSUME TypeOK, HasRoom, NEW r \in Requests, queue' = Append(queue, r)
  PROVE  queue' \in Seq(Requests) /\ Len(queue') <= Capacity
<1>1. queue \in Seq(Requests) /\ Len(queue) < Capacity /\ Capacity \in Nat
  BY LinkAssumption DEF TypeOK, HasRoom
<1> QED  BY <1>1

\* Doubling under the cap stays between the two ends.
LEMMA BackoffStays ==
  ASSUME backoff \in InitialBackoff .. MaxBackoff
  PROVE  NextBackoff \in InitialBackoff .. MaxBackoff
  BY LinkAssumption DEF NextBackoff

LEMMA LinkTyping == TypeOK /\ [Next]_vars => TypeOK'
<1> SUFFICES ASSUME TypeOK, [Next]_vars
             PROVE  TypeOK'
  OBVIOUS
<1> USE LinkAssumption DEF TypeOK
<1>1. CASE OnConnAck  BY <1>1 DEF OnConnAck
<1>2. CASE ConnectFails  BY <1>2 DEF ConnectFails
<1>3. CASE ConnectionLost
  <2>1. queue' \in Seq(Requests) /\ Len(queue') <= Capacity
    BY <1>3 DEF ConnectionLost
  <2> QED  BY <1>3, <2>1 DEF ConnectionLost
<1>4. CASE Retry  BY <1>4, BackoffStays DEF Retry
<1>5. CASE Take
  <2>1. Head(queue) \in Requests /\ Tail(queue) \in Seq(Requests)
        /\ Len(Tail(queue)) <= Capacity
    BY <1>5 DEF Take
  <2>2. Head(queue) # Publication => Head(queue)[2] \in Topics
    BY <2>1 DEF Requests
  <2> QED  BY <1>5, <2>1, <2>2 DEF Take
<1>6. ASSUME NEW topic \in Topics, Resubscribe(topic)
      PROVE  TypeOK'
  <2>1. <<"loop", topic>> \in Requests  BY DEF Requests
  <2>2. queue' \in Seq(Requests) /\ Len(queue') <= Capacity
    BY <1>6, <2>1, AppendTyping DEF Resubscribe
  <2> QED  BY <1>6, <2>2 DEF Resubscribe
<1>7. CASE Incoming  BY <1>7 DEF Incoming
<1>8. ASSUME NEW topic \in Topics, StartupSubscribe(topic)
      PROVE  TypeOK'
  <2>1. <<"connect", topic>> \in Requests  BY DEF Requests
  <2>2. queue' \in Seq(Requests) /\ Len(queue') <= Capacity
    BY <1>8, <2>1, AppendTyping DEF StartupSubscribe
  <2> QED  BY <1>8, <2>2 DEF StartupSubscribe
<1>9. ASSUME NEW p \in Publishers, Publish(p)
      PROVE  TypeOK'
  BY <1>9 DEF Publish
<1>10. ASSUME NEW p \in Publishers, PublishReturns(p)
       PROVE  TypeOK'
  <2>1. Publication \in Requests  BY DEF Requests
  <2>2. queue' \in Seq(Requests) /\ Len(queue') <= Capacity
    BY <1>10, <2>1, AppendTyping DEF PublishReturns
  <2> QED  BY <1>10, <2>2 DEF PublishReturns
<1>11. CASE BrokerGoes  BY <1>11 DEF BrokerGoes
<1>12. CASE BrokerComes  BY <1>12 DEF BrokerComes
<1>13. CASE UNCHANGED vars  BY <1>13 DEF vars
<1> QED
  BY <1>1, <1>2, <1>3, <1>4, <1>5, <1>6, <1>7, <1>8, <1>9, <1>10, <1>11, <1>12,
     <1>13
  DEF Next, LoopStep

\* In every reachable state the channel holds known requests and no more of
\* them than it was made for, and the backoff is between the two values
\* mqtt.rs names.
THEOREM LinkTypeCorrect == Spec => []TypeOK
<1> QED  BY LinkInitTyping, LinkTyping, PTL DEF Spec

-----------------------------------------------------------------------------
(***************************************************************************)
(* The backoff.                                                            *)
(***************************************************************************)

\* Only the loop's own wait changes the backoff to anything but the initial
\* one, and it waits with no connection.
LEMMA BackoffSteps ==
  ASSUME TypeOK, [Next]_vars,
         BackoffStartsOver, loop = "backoff" => network = "none"
  PROVE  BackoffStartsOver' /\ (loop' = "backoff" => network' = "none")
<1> USE DEF BackoffStartsOver, TypeOK
<1>1. CASE LoopStep
  BY <1>1 DEF LoopStep, OnConnAck, ConnectFails, ConnectionLost, Retry, Resubscribe, Take
<1>2. CASE Incoming  BY <1>2 DEF Incoming
<1>3. CASE \E topic \in Topics : StartupSubscribe(topic)
  BY <1>3 DEF StartupSubscribe
<1>4. CASE \E p \in Publishers : Publish(p) \/ PublishReturns(p)
  BY <1>4 DEF Publish, PublishReturns
<1>5. CASE BrokerGoes \/ BrokerComes  BY <1>5 DEF BrokerGoes, BrokerComes
<1>6. CASE UNCHANGED vars  BY <1>6 DEF vars
<1> QED  BY <1>1, <1>2, <1>3, <1>4, <1>5, <1>6 DEF Next

\* However often the broker comes and goes, the first retry after a connection
\* waits for the initial backoff.
THEOREM OutagesStartGently == Spec => []BackoffStartsOver
<1> DEFINE Inv == BackoffStartsOver /\ (loop = "backoff" => network = "none")
<1>1. Init => Inv  BY DEF Init, BackoffStartsOver
<1>2. TypeOK /\ Inv /\ [Next]_vars => Inv'  BY BackoffSteps
<1> QED  BY <1>1, <1>2, LinkTypeCorrect, PTL DEF Spec

-----------------------------------------------------------------------------
(***************************************************************************)
(* The channel.                                                            *)
(***************************************************************************)

\* The loop's own requests in the channel are for topics it no longer has to
\* ask for, one each; a connection that ended took them with it.
OwnOnce ==
  /\ loop = "subscribing" <=> todo # {}
  /\ network = "none" => todo = {}
  /\ network = "none" => OfOthers = DOMAIN queue
  /\ \A i \in DOMAIN queue :
       queue[i][1] = "loop" => queue[i] \in {"loop"} \X (Topics \ todo)
  /\ \A i, j \in DOMAIN queue :
       queue[i][1] = "loop" /\ queue[i] = queue[j] => i = j

LEMMA AppendFacts ==
  ASSUME TypeOK, NEW r \in Requests, queue' = Append(queue, r)
  PROVE  /\ DOMAIN queue = 1 .. Len(queue)
         /\ DOMAIN queue' = 1 .. Len(queue) + 1
         /\ Len(queue) \in Nat
         /\ \A i \in DOMAIN queue : queue'[i] = queue[i]
         /\ queue'[Len(queue) + 1] = r
<1>1. queue \in Seq(Requests)  BY DEF TypeOK
<1>2. Len(queue) \in Nat /\ DOMAIN queue = 1 .. Len(queue)  BY <1>1
<1>3. Len(queue') = Len(queue) + 1 /\ queue' \in Seq(Requests)  BY <1>1
<1>4. DOMAIN queue' = 1 .. Len(queue) + 1  BY <1>3
<1>5. queue'[Len(queue) + 1] = r  BY <1>1
<1>6. \A i \in 1 .. Len(queue) : queue'[i] = queue[i]  BY <1>1
<1> QED  BY <1>2, <1>4, <1>5, <1>6

\* A request of another is appended: the loop's own are where they were.
LEMMA OthersAppend ==
  ASSUME TypeOK, OwnOnce, NEW r \in Requests, r[1] # "loop",
         queue' = Append(queue, r), UNCHANGED <<network, loop, todo>>
  PROVE  OwnOnce'
<1> USE AppendFacts
<1>1. network = "none" => \A i \in DOMAIN queue' : queue'[i][1] # "loop"
  BY DEF OwnOnce, OfOthers
<1>2. \A i \in DOMAIN queue' :
        queue'[i][1] = "loop" => i \in DOMAIN queue /\ queue'[i] = queue[i]
  OBVIOUS
<1>3. \A i \in DOMAIN queue' :
        queue'[i][1] = "loop" => queue'[i] \in {"loop"} \X (Topics \ todo)
  BY <1>2 DEF OwnOnce
<1>4. \A i, j \in DOMAIN queue' :
        queue'[i][1] = "loop" /\ queue'[i] = queue'[j] => i = j
  BY <1>2 DEF OwnOnce
<1> QED  BY <1>1, <1>3, <1>4 DEF OwnOnce, OfOthers

LEMMA OwnAppend ==
  ASSUME TypeOK, OwnOnce, NEW topic \in Topics, Resubscribe(topic)
  PROVE  OwnOnce'
<1> DEFINE r == <<"loop", topic>>
<1>1. r \in Requests  BY DEF Requests
<1>2. /\ queue' = Append(queue, r) /\ topic \in todo /\ todo' = todo \ {topic}
      /\ loop = "subscribing" /\ network' = network
      /\ loop' = IF todo' = {} THEN "poll" ELSE "subscribing"
  BY DEF Resubscribe
<1>3. /\ DOMAIN queue = 1 .. Len(queue) /\ DOMAIN queue' = 1 .. Len(queue) + 1
      /\ Len(queue) \in Nat
      /\ \A i \in DOMAIN queue : queue'[i] = queue[i]
      /\ queue'[Len(queue) + 1] = r
  BY <1>1, <1>2, AppendFacts
<1>4. network # "none"  BY <1>2 DEF OwnOnce
<1>5. \A i \in DOMAIN queue : queue[i][1] = "loop" => queue[i] # r
  BY <1>2 DEF OwnOnce
<1>6. \A i \in DOMAIN queue' :
        queue'[i][1] = "loop" => queue'[i] \in {"loop"} \X (Topics \ todo')
  <2> SUFFICES ASSUME NEW i \in DOMAIN queue', queue'[i][1] = "loop"
               PROVE  queue'[i] \in {"loop"} \X (Topics \ todo')
    OBVIOUS
  <2>1. CASE i \in DOMAIN queue
    <3>1. queue'[i] = queue[i]  BY <2>1, <1>3
    <3>2. queue[i] \in {"loop"} \X (Topics \ todo)  BY <2>1, <3>1 DEF OwnOnce
    <3> QED  BY <3>1, <3>2, <1>2
  <2>2. CASE i = Len(queue) + 1  BY <2>2, <1>2, <1>3
  <2> QED  BY <2>1, <2>2, <1>3
<1>7. \A i, j \in DOMAIN queue' :
        queue'[i][1] = "loop" /\ queue'[i] = queue'[j] => i = j
  <2> SUFFICES ASSUME NEW i \in DOMAIN queue', NEW j \in DOMAIN queue',
                      queue'[i][1] = "loop", queue'[i] = queue'[j]
               PROVE  i = j
    OBVIOUS
  <2>1. CASE i \in DOMAIN queue /\ j \in DOMAIN queue
    BY <2>1, <1>3 DEF OwnOnce
  <2>2. CASE i \in DOMAIN queue /\ j = Len(queue) + 1  BY <2>2, <1>3, <1>5
  <2>3. CASE i = Len(queue) + 1 /\ j \in DOMAIN queue
    <3>1. queue[j] = r  BY <2>3, <1>3
    <3> QED  BY <2>3, <3>1, <1>5
  <2> QED  BY <2>1, <2>2, <2>3, <1>3
<1>8. loop' = "subscribing" <=> todo' # {}  BY <1>2
<1> HIDE DEF r
<1> QED  BY <1>2, <1>4, <1>6, <1>7, <1>8 DEF OwnOnce

LEMMA TakeKeepsOwn ==
  ASSUME TypeOK, OwnOnce, Take
  PROVE  OwnOnce'
<1>1. /\ queue \in Seq(Requests) /\ queue # <<>> /\ queue' = Tail(queue)
      /\ UNCHANGED <<network, loop, todo>> /\ network # "none"
  BY DEF TypeOK, Take
<1>2. Len(queue) \in Nat \ {0} /\ DOMAIN queue = 1 .. Len(queue)  BY <1>1
<1>3. Len(queue') = Len(queue) - 1 /\ queue' \in Seq(Requests)  BY <1>1, <1>2
<1>4. DOMAIN queue' = 1 .. Len(queue) - 1  BY <1>3, <1>2
<1>5. \A i \in 1 .. Len(queue) - 1 : queue'[i] = queue[i + 1]  BY <1>1, <1>2
<1>6. \A i \in DOMAIN queue' : i + 1 \in DOMAIN queue /\ queue'[i] = queue[i + 1]
  BY <1>2, <1>4, <1>5
<1>7. \A i \in DOMAIN queue' :
        queue'[i][1] = "loop" => queue'[i] \in {"loop"} \X (Topics \ todo)
  BY <1>6 DEF OwnOnce
<1>8. \A i, j \in DOMAIN queue' :
        queue'[i][1] = "loop" /\ queue'[i] = queue'[j] => i = j
  <2> SUFFICES ASSUME NEW i \in DOMAIN queue', NEW j \in DOMAIN queue',
                      queue'[i][1] = "loop", queue'[i] = queue'[j]
               PROVE  i = j
    OBVIOUS
  <2>1. i + 1 = j + 1  BY <1>6 DEF OwnOnce
  <2>2. i \in Nat /\ j \in Nat  BY <1>4, <1>2
  <2> QED  BY <2>1, <2>2
<1> QED  BY <1>1, <1>7, <1>8 DEF OwnOnce

LEMMA OwnOnceSteps ==
  ASSUME TypeOK, OwnOnce, [Next]_vars
  PROVE  OwnOnce'
<1>1. CASE OnConnAck
  <2>1. /\ network = "none" /\ network' = "live" /\ queue' = queue
        /\ loop' = "subscribing" /\ todo' = Topics
    BY <1>1 DEF OnConnAck
  <2>2. \A i \in DOMAIN queue : queue[i][1] # "loop"
    BY <2>1 DEF OwnOnce, OfOthers
  <2> QED  BY <2>1, <2>2, LinkAssumption DEF OwnOnce
<1>2. CASE ConnectFails  BY <1>2 DEF ConnectFails, OwnOnce, OfOthers
<1>3. CASE ConnectionLost  BY <1>3 DEF ConnectionLost, OwnOnce, OfOthers
<1>4. CASE Retry  BY <1>4 DEF Retry, OwnOnce, OfOthers
<1>5. CASE Take  BY <1>5, TakeKeepsOwn
<1>6. CASE \E topic \in Topics : Resubscribe(topic)  BY <1>6, OwnAppend
<1>7. CASE Incoming  BY <1>7 DEF Incoming, OwnOnce, OfOthers
<1>8. ASSUME NEW topic \in Topics, StartupSubscribe(topic)
      PROVE  OwnOnce'
  <2>1. <<"connect", topic>> \in Requests /\ <<"connect", topic>>[1] # "loop"
    BY DEF Requests
  <2> QED  BY <1>8, <2>1, OthersAppend DEF StartupSubscribe
<1>9. ASSUME NEW p \in Publishers, Publish(p)
      PROVE  OwnOnce'
  BY <1>9 DEF Publish, OwnOnce, OfOthers
<1>10. ASSUME NEW p \in Publishers, PublishReturns(p)
       PROVE  OwnOnce'
  <2>1. Publication \in Requests /\ Publication[1] # "loop"
    BY DEF Requests, Publication
  <2> QED  BY <1>10, <2>1, OthersAppend DEF PublishReturns
<1>11. CASE BrokerGoes
  <2>1. UNCHANGED <<loop, todo, queue>> /\ (network' = "none" <=> network = "none")
    BY <1>11 DEF BrokerGoes, TypeOK
  <2> QED  BY <2>1 DEF OwnOnce, OfOthers
<1>12. CASE BrokerComes  BY <1>12 DEF BrokerComes, OwnOnce, OfOthers
<1>13. CASE UNCHANGED vars  BY <1>13 DEF vars, OwnOnce, OfOthers
<1> QED
  BY <1>1, <1>2, <1>3, <1>4, <1>5, <1>6, <1>7, <1>8, <1>9, <1>10, <1>11, <1>12,
     <1>13
  DEF Next, LoopStep

\* The loop's own requests in the channel are as many as the topics it has
\* asked for, at most; a loop still asking has asked for fewer than all.
LEMMA FewOfItsOwn ==
  ASSUME TypeOK, OwnOnce, Stuck
  PROVE  Cardinality(OfOthers) > Capacity - Cardinality(Topics)
<1> DEFINE Own == {i \in DOMAIN queue : queue[i][1] = "loop"}
           Asked == Topics \ todo
           f == [i \in Own |-> queue[i][2]]
<1>1. queue \in Seq(Requests) /\ Len(queue) \in Nat /\ DOMAIN queue = 1 .. Len(queue)
  BY DEF TypeOK
<1>2. IsFiniteSet(DOMAIN queue) /\ Cardinality(DOMAIN queue) = Len(queue)
  <2>1. IsFiniteSet(1 .. Len(queue))
        /\ Cardinality(1 .. Len(queue)) =
             IF 1 > Len(queue) THEN 0 ELSE Len(queue) - 1 + 1
    BY <1>1, FS_Interval
  <2> QED  BY <1>1, <2>1
<1>3. Len(queue) >= Capacity
  BY <1>1, LinkAssumption DEF Stuck, HasRoom
<1>4. IsFiniteSet(Asked) /\ Cardinality(Asked) < Cardinality(Topics)
  <2>1. PICK t \in todo : TRUE  BY DEF Stuck, OwnOnce
  <2>2. Asked \in SUBSET Topics /\ Asked # Topics  BY <2>1 DEF TypeOK
  <2>3. /\ IsFiniteSet(Asked) /\ Cardinality(Asked) <= Cardinality(Topics)
        /\ Cardinality(Topics) = Cardinality(Asked) => Topics = Asked
    BY <2>2, LinkAssumption, FS_Subset
  <2>4. Cardinality(Asked) \in Nat /\ Cardinality(Topics) \in Nat
    BY <2>3, LinkAssumption, FS_CardinalityType
  <2> HIDE DEF Asked
  <2> QED  BY <2>2, <2>3, <2>4
<1>5. f \in Injection(Own, Asked)
  <2>1. \A i \in Own : queue[i] = <<"loop", queue[i][2]>> /\ queue[i][2] \in Asked
    BY DEF OwnOnce
  <2>2. f \in [Own -> Asked]  BY <2>1
  <2>3. \A i, j \in Own : f[i] = f[j] => i = j
    <3> SUFFICES ASSUME NEW i \in Own, NEW j \in Own, f[i] = f[j]
                 PROVE  i = j
      OBVIOUS
    <3>1. queue[i] = queue[j]  BY <2>1
    <3> QED  BY <3>1 DEF OwnOnce
  <2> QED  BY <2>2, <2>3 DEF Injection, IsInjective
<1>6. IsFiniteSet(Own) /\ Cardinality(Own) <= Cardinality(Asked)
  BY <1>4, <1>5, FS_Injection
<1>7. IsFiniteSet(OfOthers) /\ OfOthers = DOMAIN queue \ Own
  <2>1. OfOthers = DOMAIN queue \ Own  BY DEF OfOthers
  <2> QED  BY <2>1, <1>2, FS_Subset
<1>8. Cardinality(OfOthers) = Cardinality(DOMAIN queue) - Cardinality(Own)
  <2>1. DOMAIN queue \cap Own = Own  OBVIOUS
  <2> HIDE DEF Own
  <2>2. Cardinality(DOMAIN queue \ Own)
          = Cardinality(DOMAIN queue) - Cardinality(DOMAIN queue \cap Own)
    BY <1>2, FS_Difference
  <2> QED  BY <2>1, <2>2, <1>7
<1>9. /\ Cardinality(Own) \in Nat /\ Cardinality(Asked) \in Nat
      /\ Cardinality(Topics) \in Nat /\ Capacity \in Nat
  BY <1>4, <1>6, LinkAssumption, FS_CardinalityType
<1> HIDE DEF Own, Asked
<1> QED  BY <1>1, <1>2, <1>3, <1>4, <1>6, <1>8, <1>9

LEMMA InitOwnOnce == Init => OwnOnce
  BY DEF Init, OwnOnce, OfOthers

\* Reconnecting never fills the channel: the event loop can be stuck only
\* behind more requests of connect() and of publishers than the channel has
\* places beyond one set of default subscriptions.
THEOREM StuckOnlyBehindOthers == Spec => []StuckBehindOthers
<1>1. TypeOK /\ OwnOnce /\ [Next]_vars => OwnOnce'  BY OwnOnceSteps
<1>2. TypeOK /\ OwnOnce => StuckBehindOthers  BY FewOfItsOwn DEF StuckBehindOthers
<1> QED  BY <1>1, <1>2, InitOwnOnce, LinkTypeCorrect, PTL DEF Spec

\* While the loop asks for its topics it has just heard a ConnAck, and no step
\* of others takes a request from the channel.
LEMMA StuckStays ==
  ASSUME TypeOK, loop = "subscribing" => connected, [Next]_vars
  PROVE  /\ loop' = "subscribing" => connected'
         /\ Stuck => Stuck' /\ queue' = queue /\ connected'
<1> USE DEF Stuck, HasRoom, TypeOK
<1>1. CASE LoopStep
  BY <1>1 DEF LoopStep, OnConnAck, ConnectFails, ConnectionLost, Retry, Resubscribe, Take
<1>2. CASE Incoming  BY <1>2 DEF Incoming
<1>3. CASE \E topic \in Topics : StartupSubscribe(topic)
  BY <1>3 DEF StartupSubscribe
<1>4. CASE \E p \in Publishers : Publish(p) \/ PublishReturns(p)
  BY <1>4 DEF Publish, PublishReturns
<1>5. CASE BrokerGoes \/ BrokerComes  BY <1>5 DEF BrokerGoes, BrokerComes
<1>6. CASE UNCHANGED vars  BY <1>6 DEF vars
<1> QED  BY <1>1, <1>2, <1>3, <1>4, <1>5, <1>6 DEF Next

\* A loop that finds the channel full while it subscribes is lost: it stays
\* there, no request leaves the channel, and /health reports a connection.
THEOREM StuckIsForGood == Spec => StuckForGood
<1> DEFINE Inv == loop = "subscribing" => connected
           Kept == Stuck => Stuck' /\ queue' = queue /\ connected'
<1>1. Init => Inv  BY DEF Init
<1>2. TypeOK /\ Inv /\ [Next]_vars => Inv' /\ Kept  BY StuckStays
<1>3. TypeOK /\ Inv /\ [Next]_vars => [Kept]_vars  BY <1>2
<1> QED  BY <1>1, <1>2, <1>3, LinkTypeCorrect, PTL DEF Spec, StuckForGood
=============================================================================
