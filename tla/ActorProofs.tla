---------------------------- MODULE ActorProofs -----------------------------
(***************************************************************************)
(* The two Ray actors that all the others call: the load balancer, for any *)
(* number of servers and requests, and the message queue, for every        *)
(* capacity, every set of consumers and any number of puts.  They share    *)
(* nothing.                                                                *)
(***************************************************************************)
EXTENDS LoadBalancer, MessageQueue, FiniteSetTheorems, TLAPS

-----------------------------------------------------------------------------
(* The load balancer.  Both invariants follow from what each call does to   *)
(* the set of requests that hold a server: acquire adds one, release takes  *)
(* one away, and the other calls leave it alone.                            *)

\* The requests that hold a server are finitely many.
LEMMA UsersFinite ==
  ASSUME NEW s
  PROVE  IsFiniteSet(Users(s)) /\ Cardinality(Users(s)) \in Nat
<1>1. Users(s) \subseteq Requests BY DEF Users
<1>2. IsFiniteSet(Users(s)) BY <1>1, FS_Subset, BalancerAssumption
<1> QED BY <1>2, FS_CardinalityType

\* acquire_server: the request joins those that hold s, and no others.
LEMMA AcquireUsers ==
  ASSUME TypeOK, NEW r \in Requests, NEW s \in Servers, AcquireServer(r, s)
  PROVE  /\ Cardinality(Users(s)') = Cardinality(Users(s)) + 1
         /\ \A t \in Servers \ {s} : Users(t)' = Users(t)
<1>1. r \notin Users(s)
  BY BalancerAssumption DEF Users, AcquireServer
<1>2. Users(s)' = Users(s) \union {r}
  BY BalancerAssumption DEF Users, AcquireServer, TypeOK
<1>3. Cardinality(Users(s) \union {r}) = Cardinality(Users(s)) + 1
  BY <1>1, UsersFinite, FS_AddElement
<1>4. \A t \in Servers \ {s} : Users(t)' = Users(t)
  BY BalancerAssumption DEF Users, AcquireServer, TypeOK
<1> QED BY <1>2, <1>3, <1>4

\* release_server: the request leaves those that hold its server u.
LEMMA ReleaseUsers ==
  ASSUME TypeOK, NEW r \in Requests, NEW u, u = using[r], ReleaseServer(r)
  PROVE  /\ Cardinality(Users(u)) \in Nat \ {0}
         /\ Cardinality(Users(u)') = Cardinality(Users(u)) - 1
         /\ \A t \in Servers \ {u} : Users(t)' = Users(t)
<1>1. r \in Users(u) BY DEF Users
<1>2. Users(u)' = Users(u) \ {r}
  BY BalancerAssumption DEF Users, ReleaseServer, TypeOK
<1>3. Cardinality(Users(u) \ {r}) = Cardinality(Users(u)) - 1
  BY <1>1, UsersFinite, FS_RemoveElement
<1>4. Cardinality(Users(u)) # 0
  BY <1>1, UsersFinite, FS_EmptySet
<1>5. \A t \in Servers \ {u} : Users(t)' = Users(t)
  BY BalancerAssumption DEF Users, ReleaseServer, TypeOK
<1> QED BY <1>2, <1>3, <1>4, <1>5, UsersFinite

-----------------------------------------------------------------------------
\* The load balancer keeps its types: counts stay natural numbers, whatever
\* releases arrive.
THEOREM BalancerTypeCorrect == Spec => []TypeOK
<1>1. Init => TypeOK
  BY BalancerAssumption DEF Init, TypeOK, Pool
<1>2. TypeOK /\ [Next]_vars => TypeOK'
  <2> SUFFICES ASSUME TypeOK, [Next]_vars PROVE TypeOK' OBVIOUS
  <2>1. ASSUME NEW r \in Requests, NEW s \in Servers, AcquireServer(r, s)
        PROVE  TypeOK'
    <3>1. s \in Pool
      BY <2>1 DEF AcquireServer, Candidates, LeastLoaded
    <3>2. Pool' = Pool /\ inflight' \in [Pool -> Nat]
      BY <2>1, <3>1 DEF AcquireServer, TypeOK, Pool
    <3> QED BY <2>1, <3>2 DEF AcquireServer, TypeOK
  <2>2. ASSUME NEW r \in Requests, AcquireRaises(r) PROVE TypeOK'
    BY <2>2 DEF AcquireRaises, TypeOK, Pool
  <2>3. ASSUME NEW r \in Requests, ReleaseServer(r) PROVE TypeOK'
    BY <2>3 DEF ReleaseServer, TypeOK, Pool
  <2>4. ASSUME NEW S \in SUBSET Servers, AddServers(S) PROVE TypeOK'
    BY <2>4 DEF AddServers, TypeOK, Pool, Users
  <2>5. ASSUME NEW S \in SUBSET Servers, RemoveServers(S) PROVE TypeOK'
    BY <2>5 DEF RemoveServers, TypeOK, Pool, Restrict
  <2>6. CASE ClearStickyCache
    BY <2>6 DEF ClearStickyCache, TypeOK, Pool
  <2>7. CASE UNCHANGED vars
    BY <2>7 DEF vars, TypeOK, Pool
  <2> QED BY <2>1, <2>2, <2>3, <2>4, <2>5, <2>6, <2>7 DEF Next
<1> QED BY <1>1, <1>2, PTL DEF Spec

\* No call makes a server count more requests than hold it, for any number of
\* servers and requests and any order of the calls.
THEOREM NeverOvercountsHolds == Spec => []NeverOvercounts
<1>1. Init => NeverOvercounts
  BY UsersFinite DEF Init, NeverOvercounts, Pool
<1>2. TypeOK /\ NeverOvercounts /\ [Next]_vars => NeverOvercounts'
  <2> SUFFICES ASSUME TypeOK, NeverOvercounts, [Next]_vars
               PROVE  NeverOvercounts'
    OBVIOUS
  <2>0. \A t \in Pool : t \in Servers /\ inflight[t] \in Nat
    BY DEF TypeOK
  <2>1. ASSUME NEW r \in Requests, NEW s \in Servers, AcquireServer(r, s)
        PROVE  NeverOvercounts'
    <3>1. s \in Pool
      BY <2>1 DEF AcquireServer, Candidates, LeastLoaded
    <3>2. Pool' = Pool /\ inflight'[s] = inflight[s] + 1
          /\ \A t \in Pool \ {s} : inflight'[t] = inflight[t]
      BY <2>1, <3>1 DEF AcquireServer, TypeOK, Pool
    <3> QED BY <2>0, <2>1, <3>1, <3>2, AcquireUsers, UsersFinite
            DEF NeverOvercounts
  <2>2. ASSUME NEW r \in Requests, AcquireRaises(r) PROVE NeverOvercounts'
    BY <2>2 DEF AcquireRaises, NeverOvercounts, Pool, Users
  <2>3. ASSUME NEW r \in Requests, ReleaseServer(r) PROVE NeverOvercounts'
    <3>1. PICK u : u = using[r] OBVIOUS
    <3>2. Pool' = Pool BY <2>3 DEF ReleaseServer, Pool
    <3>3. \A t \in Pool \ {u} : inflight'[t] = inflight[t]
      BY <2>3, <3>1 DEF ReleaseServer
    <3>4. u \in Pool => inflight'[u] = IF inflight[u] > 0 THEN inflight[u] - 1
                                       ELSE inflight[u]
      BY <2>3, <3>1 DEF ReleaseServer
    <3>5. /\ Cardinality(Users(u)) \in Nat \ {0}
          /\ Cardinality(Users(u)') = Cardinality(Users(u)) - 1
          /\ \A t \in Servers \ {u} : Users(t)' = Users(t)
      BY <2>3, <3>1, ReleaseUsers
    <3>6. ASSUME NEW t \in Pool
          PROVE  inflight'[t] <= Cardinality(Users(t)')
      <4>1. CASE t = u
        BY <2>0, <3>4, <3>5, <4>1 DEF NeverOvercounts
      <4>2. CASE t # u
        BY <2>0, <3>3, <3>5, <4>2 DEF NeverOvercounts
      <4> QED BY <4>1, <4>2
    <3> QED BY <3>2, <3>6 DEF NeverOvercounts
  <2>4. ASSUME NEW S \in SUBSET Servers, AddServers(S) PROVE NeverOvercounts'
    <3>1. \A t : Users(t)' = Users(t) BY <2>4 DEF AddServers, Users
    <3>2. Pool' = Pool \union S
          /\ \A t \in Pool' : inflight'[t] = IF t \in S THEN 0 ELSE inflight[t]
      BY <2>4 DEF AddServers, Pool
    <3> QED BY <3>1, <3>2, UsersFinite DEF NeverOvercounts
  <2>5. ASSUME NEW S \in SUBSET Servers, RemoveServers(S)
        PROVE  NeverOvercounts'
    <3>1. \A t : Users(t)' = Users(t) BY <2>5 DEF RemoveServers, Users
    <3>2. Pool' = Pool \ S /\ \A t \in Pool' : inflight'[t] = inflight[t]
      BY <2>5 DEF RemoveServers, Pool, Restrict
    <3> QED BY <3>1, <3>2 DEF NeverOvercounts
  <2>6. CASE ClearStickyCache
    BY <2>6 DEF ClearStickyCache, NeverOvercounts, Pool, Users
  <2>7. CASE UNCHANGED vars
    BY <2>7 DEF vars, NeverOvercounts, Pool, Users
  <2> QED BY <2>1, <2>2, <2>3, <2>4, <2>5, <2>6, <2>7 DEF Next
<1> QED BY <1>1, <1>2, BalancerTypeCorrect, PTL DEF Spec

\* Only registering a server that is still held can make its count wrong: every
\* other server's count is the number of requests that hold it.
THEOREM ExactUnlessReaddedHolds == Spec => []ExactUnlessReadded
<1>1. Init => ExactUnlessReadded
  <2> SUFFICES ASSUME Init, NEW s \in Pool
               PROVE  inflight[s] = Cardinality(Users(s))
    BY DEF ExactUnlessReadded
  <2>1. s \in Servers /\ inflight[s] = 0
    BY BalancerAssumption DEF Init, Pool
  <2>2. Users(s) = {} BY <2>1, BalancerAssumption DEF Init, Users
  <2> QED BY <2>1, <2>2, FS_EmptySet
<1>2. TypeOK /\ ExactUnlessReadded /\ [Next]_vars => ExactUnlessReadded'
  <2> SUFFICES ASSUME TypeOK, ExactUnlessReadded, [Next]_vars
               PROVE  ExactUnlessReadded'
    OBVIOUS
  <2>0. \A t \in Pool : t \in Servers /\ inflight[t] \in Nat
    BY DEF TypeOK
  <2>1. ASSUME NEW r \in Requests, NEW s \in Servers, AcquireServer(r, s)
        PROVE  ExactUnlessReadded'
    <3>1. s \in Pool
      BY <2>1 DEF AcquireServer, Candidates, LeastLoaded
    <3>2. Pool' = Pool /\ readded' = readded /\ inflight'[s] = inflight[s] + 1
          /\ \A t \in Pool \ {s} : inflight'[t] = inflight[t]
      BY <2>1, <3>1 DEF AcquireServer, TypeOK, Pool
    <3> QED BY <2>0, <2>1, <3>1, <3>2, AcquireUsers, UsersFinite
            DEF ExactUnlessReadded
  <2>2. ASSUME NEW r \in Requests, AcquireRaises(r) PROVE ExactUnlessReadded'
    BY <2>2 DEF AcquireRaises, ExactUnlessReadded, Pool, Users
  <2>3. ASSUME NEW r \in Requests, ReleaseServer(r) PROVE ExactUnlessReadded'
    <3>1. PICK u : u = using[r] OBVIOUS
    <3>2. Pool' = Pool /\ readded' = readded
      BY <2>3 DEF ReleaseServer, Pool
    <3>3. \A t \in Pool \ {u} : inflight'[t] = inflight[t]
      BY <2>3, <3>1 DEF ReleaseServer
    <3>4. u \in Pool => inflight'[u] = IF inflight[u] > 0 THEN inflight[u] - 1
                                       ELSE inflight[u]
      BY <2>3, <3>1 DEF ReleaseServer
    <3>5. /\ Cardinality(Users(u)) \in Nat \ {0}
          /\ Cardinality(Users(u)') = Cardinality(Users(u)) - 1
          /\ \A t \in Servers \ {u} : Users(t)' = Users(t)
      BY <2>3, <3>1, ReleaseUsers
    <3>6. ASSUME NEW t \in Pool \ readded
          PROVE  inflight'[t] = Cardinality(Users(t)')
      <4>1. CASE t = u
        BY <2>0, <3>4, <3>5, <4>1 DEF ExactUnlessReadded
      <4>2. CASE t # u
        BY <2>0, <3>3, <3>5, <4>2 DEF ExactUnlessReadded
      <4> QED BY <4>1, <4>2
    <3> QED BY <3>2, <3>6 DEF ExactUnlessReadded
  <2>4. ASSUME NEW S \in SUBSET Servers, AddServers(S)
        PROVE  ExactUnlessReadded'
    <3>1. \A t : Users(t)' = Users(t) BY <2>4 DEF AddServers, Users
    <3>2. Pool' = Pool \union S
          /\ \A t \in Pool' : inflight'[t] = IF t \in S THEN 0 ELSE inflight[t]
      BY <2>4 DEF AddServers, Pool
    <3>3. readded \subseteq readded'
          /\ \A t \in S : t \notin readded' => Users(t) = {}
      BY <2>4 DEF AddServers
    <3> QED BY <3>1, <3>2, <3>3, FS_EmptySet DEF ExactUnlessReadded
  <2>5. ASSUME NEW S \in SUBSET Servers, RemoveServers(S)
        PROVE  ExactUnlessReadded'
    <3>1. \A t : Users(t)' = Users(t) BY <2>5 DEF RemoveServers, Users
    <3>2. Pool' = Pool \ S /\ \A t \in Pool' : inflight'[t] = inflight[t]
      BY <2>5 DEF RemoveServers, Pool, Restrict
    <3> QED BY <2>5, <3>1, <3>2 DEF ExactUnlessReadded, RemoveServers
  <2>6. CASE ClearStickyCache
    BY <2>6 DEF ClearStickyCache, ExactUnlessReadded, Pool, Users
  <2>7. CASE UNCHANGED vars
    BY <2>7 DEF vars, ExactUnlessReadded, Pool, Users
  <2> QED BY <2>1, <2>2, <2>3, <2>4, <2>5, <2>6, <2>7 DEF Next
<1> QED BY <1>1, <1>2, BalancerTypeCorrect, PTL DEF Spec

-----------------------------------------------------------------------------
(* The message queue *)

USE QueueAssumption

\* What put_sample leaves in the queue: it stays within its capacity, ends in
\* the new sample and keeps the order of the samples that survive.
LEMMA EnqueueFacts ==
  ASSUME queue \in Seq(Samples), Len(queue) <= MaxQueueSize, NEW s \in Samples
  PROVE  /\ Enqueue(s) \in Seq(Samples)
         /\ Len(Enqueue(s)) = IF IsFull THEN Len(queue) ELSE Len(queue) + 1
         /\ Len(Enqueue(s)) <= MaxQueueSize
         /\ Enqueue(s)[Len(Enqueue(s))] = s
         /\ \A i \in 1..(Len(Enqueue(s)) - 1) :
              Enqueue(s)[i] = IF IsFull THEN queue[i + 1] ELSE queue[i]
<1>1. CASE IsFull
  <2>1. queue # <<>>
    BY <1>1 DEF IsFull
  <2>2. /\ Tail(queue) \in Seq(Samples)
        /\ Len(Tail(queue)) = Len(queue) - 1
        /\ \A i \in 1..(Len(queue) - 1) : Tail(queue)[i] = queue[i + 1]
    BY <2>1
  <2>3. Enqueue(s) = Append(Tail(queue), s)
    BY <1>1 DEF Enqueue
  <2>4. QED
    BY <1>1, <2>1, <2>2, <2>3
<1>2. CASE ~IsFull
  <2>1. Enqueue(s) = Append(queue, s)
    BY <1>2 DEF Enqueue
  <2>2. Len(queue) + 1 <= MaxQueueSize
    BY <1>2 DEF IsFull
  <2>3. QED
    BY <1>2, <2>1, <2>2
<1>3. QED
  BY <1>1, <1>2

\* Type correctness: the queue never exceeds max_queue_size.
THEOREM QueueTypeCorrect == QueueSpec => []QueueTypeOK
<1>1. QueueInit => QueueTypeOK
  BY DEF QueueInit, QueueTypeOK, GetterStates
<1>2. QueueTypeOK /\ [QueueNext]_queueVars => QueueTypeOK'
  <2> SUFFICES ASSUME QueueTypeOK, [QueueNext]_queueVars
               PROVE  QueueTypeOK'
    OBVIOUS
  <2> USE DEF QueueTypeOK, GetterStates
  <2>1. ASSUME NEW s \in Samples, PutSample(s)
        PROVE  QueueTypeOK'
    <3>1. queue' \in Seq(Samples) /\ Len(queue') <= MaxQueueSize
      BY <2>1, EnqueueFacts DEF PutSample
    <3>2. QED
      BY <2>1, <3>1 DEF PutSample, NotifyAll
  <2>2. ASSUME NEW s \in Samples, PutValidate(s)
        PROVE  QueueTypeOK'
    BY <2>2 DEF PutValidate
  <2>3. ASSUME NEW c \in Consumers, GetSample(c)
        PROVE  QueueTypeOK'
    <3>1. CASE GetSampleTake(c)
      <4>1. queue' \in Seq(Samples) /\ Len(queue') = Len(queue) - 1
        BY <3>1 DEF GetSampleTake
      <4>2. QED
        BY <3>1, <4>1 DEF GetSampleTake
    <3>2. CASE GetSampleWait(c) \/ GetSampleClosed(c)
      BY <3>2 DEF GetSampleWait, GetSampleClosed
    <3>3. QED
      BY <2>3, <3>1, <3>2 DEF GetSample
  <2>4. CASE ClearQueue
    BY <2>4 DEF ClearQueue
  <2>5. CASE Shutdown
    BY <2>5 DEF Shutdown, NotifyAll
  <2>6. CASE GetValidate
    BY <2>6 DEF GetValidate
  <2>7. CASE UNCHANGED queueVars
    BY <2>7 DEF queueVars
  <2>8. QED
    BY <2>1, <2>2, <2>3, <2>4, <2>5, <2>6, <2>7 DEF QueueNext
<1>3. QED
  BY <1>1, <1>2, PTL DEF QueueSpec

\* put_sample and shutdown never leave a consumer asleep that could go on.
THEOREM NoLostWakeupHolds == QueueSpec => []NoLostWakeup
<1>1. QueueInit => NoLostWakeup
  BY DEF QueueInit, NoLostWakeup
<1>2. QueueTypeOK /\ NoLostWakeup /\ [QueueNext]_queueVars => NoLostWakeup'
  <2> SUFFICES ASSUME QueueTypeOK, NoLostWakeup, [QueueNext]_queueVars,
                      NEW d \in Consumers, getter'[d] = "waiting"
               PROVE  queue' = <<>> /\ running'
    BY DEF NoLostWakeup
  <2> USE DEF QueueTypeOK, NoLostWakeup, GetterStates
  <2>1. ASSUME NEW s \in Samples, PutSample(s) \/ PutValidate(s)
        PROVE  queue' = <<>> /\ running'
    BY <2>1 DEF PutSample, PutValidate, NotifyAll
  <2>2. ASSUME NEW c \in Consumers, GetSample(c)
        PROVE  queue' = <<>> /\ running'
    BY <2>2 DEF GetSample, GetSampleWait, GetSampleClosed, GetSampleTake
  <2>3. CASE ClearQueue
    BY <2>3 DEF ClearQueue
  <2>4. CASE Shutdown
    BY <2>4 DEF Shutdown, NotifyAll
  <2>5. CASE GetValidate \/ UNCHANGED queueVars
    BY <2>5 DEF GetValidate, queueVars
  <2>6. QED
    BY <2>1, <2>2, <2>3, <2>4, <2>5 DEF QueueNext
<1>3. QED
  BY <1>1, <1>2, QueueTypeCorrect, PTL DEF QueueSpec

\* The actor's statistics account for every sample ever put.
THEOREM AccountingHolds == QueueSpec => []Accounting
<1>1. QueueInit => Accounting
  BY DEF QueueInit, Accounting
<1>2. QueueTypeOK /\ Accounting /\ [QueueNext]_queueVars => Accounting'
  <2> SUFFICES ASSUME QueueTypeOK, Accounting, [QueueNext]_queueVars
               PROVE  Accounting'
    OBVIOUS
  <2> USE DEF QueueTypeOK, Accounting
  <2>1. ASSUME NEW s \in Samples, PutSample(s)
        PROVE  Accounting'
    <3>1. Len(queue') = IF IsFull THEN Len(queue) ELSE Len(queue) + 1
      BY <2>1, EnqueueFacts DEF PutSample
    <3>2. QED
      BY <2>1, <3>1 DEF PutSample
  <2>2. ASSUME NEW s \in Samples, PutValidate(s)
        PROVE  Accounting'
    BY <2>2 DEF PutValidate
  <2>3. ASSUME NEW c \in Consumers, GetSample(c)
        PROVE  Accounting'
    <3>1. CASE GetSampleTake(c)
      <4>1. Len(queue') = Len(queue) - 1 /\ Len(queue) \in Nat
        BY <3>1 DEF GetSampleTake
      <4>2. QED
        BY <3>1, <4>1 DEF GetSampleTake
    <3>2. CASE GetSampleWait(c) \/ GetSampleClosed(c)
      BY <3>2 DEF GetSampleWait, GetSampleClosed
    <3>3. QED
      BY <2>3, <3>1, <3>2 DEF GetSample
  <2>4. CASE ClearQueue
    BY <2>4 DEF ClearQueue
  <2>5. CASE Shutdown \/ GetValidate \/ UNCHANGED queueVars
    BY <2>5 DEF Shutdown, GetValidate, queueVars
  <2>6. QED
    BY <2>1, <2>2, <2>3, <2>4, <2>5 DEF QueueNext
<1>3. QED
  BY <1>1, <1>2, QueueTypeCorrect, PTL DEF QueueSpec

\* Delivery is in order and at most once, and overflow costs the oldest sample:
\* the queue is always the tail end of what was put.
THEOREM HoldsNewestHolds == QueueSpec => []HoldsNewest
<1>1. QueueInit => HoldsNewest
  BY DEF QueueInit, HoldsNewest, HeadPosition
<1>2. QueueTypeOK /\ HoldsNewest /\ [QueueNext]_queueVars => HoldsNewest'
  <2> SUFFICES ASSUME QueueTypeOK, HoldsNewest, [QueueNext]_queueVars
               PROVE  HoldsNewest'
    OBVIOUS
  <2> USE DEF QueueTypeOK, HoldsNewest, HeadPosition
  <2>1. ASSUME NEW s \in Samples, PutSample(s)
        PROVE  HoldsNewest'
    <3>1. /\ Len(queue') = IF IsFull THEN Len(queue) ELSE Len(queue) + 1
          /\ queue'[Len(queue')] = s
          /\ \A i \in 1..(Len(queue') - 1) :
               queue'[i] = IF IsFull THEN queue[i + 1] ELSE queue[i]
      BY <2>1, EnqueueFacts DEF PutSample
    <3>2. /\ Len(log') = Len(log) + 1
          /\ log'[Len(log')] = s
          /\ \A i \in 1..Len(log) : log'[i] = log[i]
      BY <2>1 DEF PutSample
    <3>3. Len(queue') <= Len(log')
      BY <3>1, <3>2
    <3>4. ASSUME NEW i \in 1..Len(queue')
          PROVE  queue'[i] = log'[HeadPosition' + i]
      <4>1. CASE i = Len(queue')
        BY <3>1, <3>2, <3>3, <4>1
      <4>2. CASE i # Len(queue') /\ IsFull
        <5>1. i + 1 \in 1..Len(queue) /\ queue'[i] = queue[i + 1]
          BY <3>1, <4>2
        <5>2. queue[i + 1] = log[Len(log) - Len(queue) + (i + 1)]
          BY <5>1
        <5>3. /\ HeadPosition' + i = Len(log) - Len(queue) + (i + 1)
              /\ HeadPosition' + i \in 1..Len(log)
          BY <3>1, <3>2, <4>2, <5>1
        <5>4. QED
          BY <3>2, <5>1, <5>2, <5>3
      <4>3. CASE i # Len(queue') /\ ~IsFull
        <5>1. i \in 1..Len(queue) /\ queue'[i] = queue[i]
          BY <3>1, <4>3
        <5>2. queue[i] = log[Len(log) - Len(queue) + i]
          BY <5>1
        <5>3. /\ HeadPosition' + i = Len(log) - Len(queue) + i
              /\ HeadPosition' + i \in 1..Len(log)
          BY <3>1, <3>2, <4>3, <5>1
        <5>4. QED
          BY <3>2, <5>1, <5>2, <5>3
      <4>4. QED
        BY <4>1, <4>2, <4>3
    <3>5. QED
      BY <3>3, <3>4
  <2>2. ASSUME NEW s \in Samples, PutValidate(s)
        PROVE  HoldsNewest'
    BY <2>2 DEF PutValidate
  <2>3. ASSUME NEW c \in Consumers, GetSample(c)
        PROVE  HoldsNewest'
    <3>1. CASE GetSampleTake(c)
      <4>1. /\ Len(queue') = Len(queue) - 1
            /\ \A i \in 1..(Len(queue) - 1) : queue'[i] = queue[i + 1]
            /\ log' = log
        BY <3>1 DEF GetSampleTake
      <4>2. ASSUME NEW i \in 1..Len(queue')
            PROVE  queue'[i] = log'[HeadPosition' + i]
        <5>1. i + 1 \in 1..Len(queue) /\ queue'[i] = queue[i + 1]
          BY <4>1
        <5>2. queue[i + 1] = log[Len(log) - Len(queue) + (i + 1)]
          BY <5>1
        <5>3. HeadPosition' + i = Len(log) - Len(queue) + (i + 1)
          BY <4>1
        <5>4. QED
          BY <4>1, <5>1, <5>2, <5>3
      <4>3. QED
        BY <4>1, <4>2
    <3>2. CASE GetSampleWait(c) \/ GetSampleClosed(c)
      BY <3>2 DEF GetSampleWait, GetSampleClosed
    <3>3. QED
      BY <2>3, <3>1, <3>2 DEF GetSample
  <2>4. CASE ClearQueue
    BY <2>4 DEF ClearQueue
  <2>5. CASE Shutdown \/ GetValidate \/ UNCHANGED queueVars
    BY <2>5 DEF Shutdown, GetValidate, queueVars
  <2>6. QED
    BY <2>1, <2>2, <2>3, <2>4, <2>5 DEF QueueNext
<1>3. QED
  BY <1>1, <1>2, QueueTypeCorrect, PTL DEF QueueSpec
=============================================================================
