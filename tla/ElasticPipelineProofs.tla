------------------------ MODULE ElasticPipelineProofs ------------------------
(* The elastic pipeline does not starve or block itself, for any numbers of  *)
(* replicas, batch sizes and bounds: with hybrid replicas only, the queue    *)
(* holds a whole cycle whenever they are taken away, and the processor does  *)
(* not spin at a capacity of zero.                                           *)
EXTENDS ElasticPipeline, Integers, TLAPS

\* The processor holds a sample, or the end signal, that staleness_samples
\* has counted and that is neither a task nor in the queue.
Holding == {"limit", "limit_wait", "submit", "end", "end_wait"}
Held == IF proc \in Holding THEN 1 ELSE 0

\* The tasks stay within the queue's bound, and are all reaped before the end
\* signal is put.
Tasking ==
  /\ ActiveTasks <= cfg.max_required
  /\ proc = "submit" => ActiveTasks < cfg.max_required
  /\ closed => proc = "over"
  /\ proc = "over" => ActiveTasks = 0

\* The capacity is that of the active replicas.
Capable ==
  max_concurrent_samples =
    Capacity(cfg.standalone + (IF hybrid_active THEN cfg.hybrid ELSE 0))

\* Hybrid replicas are active from the end of a cycle until the first step of
\* the next one.
Cycle ==
  /\ trainer \in {"collect", "train", "sync"} => ~hybrid_active
  /\ trainer = "wait" => hybrid_active /\ collected = 0
  /\ hybrid_active => local_trigger_step = 1
  /\ trainer = "wait" /\ OnlyHybrid => threshold = StepRequired
  /\ trainer \in {"sync", "reset"} => local_trigger_step = 1
  /\ trainer = "train" => collected = cfg.required
  /\ trainer = "reset" /\ OnlyHybrid => hybrid_active

\* The samples of a cycle but for its first k batches.
Rest(k) == cfg.required * (cfg.trigger - k)

\* CycleSupplied, at every point of a cycle without replicas.
Supplied ==
  OnlyHybrid /\ ~hybrid_active /\ ~closed =>
    /\ trainer = "collect" => queue + collected >= Rest(local_trigger_step - 1)
    /\ trainer = "train" => queue >= Rest(local_trigger_step)
    /\ trainer = "begin" => queue >= Rest(local_trigger_step - 1)

\* With hybrid replicas only and not a sample more than a cycle's allowed, all
\* the samples allowed are in the queue when the replicas are taken away, so
\* that neither a task nor the processor holds one until staleness_samples is
\* reset; and the trainer empties the queue before that.
Tight == OnlyHybrid /\ cfg.max_required = StepRequired
Tally ==
  Tight =>
    /\ QueueSize + generating + putting + Held <= staleness_samples
    /\ staleness_samples <= cfg.max_required
    /\ ~hybrid_active \/ trainer = "reset" =>
         /\ staleness_samples = cfg.max_required
         /\ generating = 0 /\ putting = 0 /\ Held = 0
    /\ ~hybrid_active =>
         /\ trainer = "collect" =>
              queue + collected <= Rest(local_trigger_step - 1)
         /\ trainer = "train" => queue <= Rest(local_trigger_step)
         /\ trainer = "begin" => queue <= Rest(local_trigger_step - 1)
         /\ trainer = "sync" => queue = 0
    /\ trainer = "reset" => queue = 0

IInv == TypeOK /\ Tasking /\ Capable /\ Cycle /\ Supplied /\ Tally

-----------------------------------------------------------------------------
\* What the configuration's fields are.
LEMMA ConfigFacts ==
  ASSUME cfg \in Configs
  PROVE  /\ cfg.standalone \in Nat /\ cfg.hybrid \in Nat \ {0}
         /\ cfg.per_replica \in Nat \ {0} /\ cfg.required \in Nat \ {0}
         /\ cfg.trigger \in Nat \ {0} /\ cfg.max_required \in Nat \ {0}
         /\ cfg.max_required >= StepRequired /\ StepRequired \in Nat
BY ElasticAssumption DEF Config, StepRequired

\* _update_max_concurrent_samples: the capacity is within the queue's bound,
\* and not zero if there is a replica.
LEMMA CapacityFacts ==
  ASSUME cfg \in Configs, NEW k \in Nat
  PROVE  /\ Capacity(k) \in 0 .. cfg.max_required
         /\ k > 0 => Capacity(k) > 0
         /\ k = 0 => Capacity(k) = 0
<1>1. k * cfg.per_replica \in Nat
  BY ConfigFacts
<1>2. k > 0 => k * cfg.per_replica > 0
  BY ConfigFacts
<1>3. k = 0 => k * cfg.per_replica = 0
  BY ConfigFacts
<1>4. QED
  BY <1>1, <1>2, <1>3, ConfigFacts DEF Capacity

\* Batches of a cycle: one less for each batch trained.
LEMMA RestFacts ==
  ASSUME cfg \in Configs
  PROVE  /\ \A k \in Int : Rest(k) \in Int
         /\ \A k \in Int : Rest(k - 1) = Rest(k) + cfg.required
         /\ Rest(0) = StepRequired
         /\ Rest(cfg.trigger) = 0
<1> DEFINE r == cfg.required
           t == cfg.trigger
<1>1. r \in Int /\ t \in Int
  BY ConfigFacts
<1> HIDE DEF r, t
<1>2. \A k \in Int : r * (t - (k - 1)) = r * (t - k) + r
  BY <1>1
<1>3. \A k \in Int : r * (t - k) \in Int
  BY <1>1
<1>4. r * (t - 0) = r * t /\ r * (t - t) = 0
  BY <1>1
<1>5. QED
  BY <1>2, <1>3, <1>4 DEF Rest, StepRequired, r, t

-----------------------------------------------------------------------------
\* The pipeline starts with all replicas active and nothing taken.
LEMMA InitIInv == Init => IInv
<1> SUFFICES ASSUME Init PROVE IInv
  OBVIOUS
<1> USE DEF Init
<1>1. Capacity(cfg.standalone + cfg.hybrid) \in 0 .. cfg.max_required
  BY CapacityFacts, ConfigFacts
<1>2. TypeOK
  <2>1. /\ paused \in BOOLEAN /\ closed \in BOOLEAN /\ hybrid_active \in BOOLEAN
    OBVIOUS
  <2>2. queue \in Nat /\ QueueSize <= cfg.max_required
    BY ConfigFacts DEF QueueSize
  <2>3. /\ threshold \in 0 .. StepRequired /\ collected \in 0 .. cfg.required
        /\ local_trigger_step \in 1 .. cfg.trigger
    BY ConfigFacts
  <2>4. left \in 0 .. Samples
    BY ElasticAssumption
  <2>5. QED
    BY <1>1, <2>1, <2>2, <2>3, <2>4 DEF TypeOK
<1>3. Tasking /\ Cycle /\ Supplied /\ Capable
  BY ConfigFacts DEF Tasking, Cycle, Supplied, Capable, ActiveTasks, OnlyHybrid
<1>4. Tally
  BY ConfigFacts DEF Tally, QueueSize, Held, Holding
<1>5. QED
  BY <1>2, <1>3, <1>4 DEF IInv

\* A step of the rollouter leaves the trainer and the replicas alone; what the
\* trainer counts on is that it does not take samples out of the queue.
LEMMA RollouterStep ==
  ASSUME IInv, UNCHANGED <<cfg, max_concurrent_samples, trainerVars,
                           hybrid_active>>,
         queue' \in Nat, closed \/ closed' \/ queue' >= queue,
         closed => closed'
  PROVE  Capable' /\ Cycle' /\ Supplied'
<1> USE DEF IInv, trainerVars
<1>1. Capable'
  BY DEF Capable, Capacity
<1>2. Cycle'
  BY DEF Cycle, OnlyHybrid, StepRequired
<1>3. Supplied'
  <2>1. \A k \in Int : Rest(k) \in Int
    BY RestFacts DEF TypeOK
  <2>2. /\ local_trigger_step \in Int /\ collected \in Int /\ queue \in Int
        /\ closed' \/ queue' >= queue
    BY ConfigFacts DEF TypeOK
  <2> DEFINE a == Rest(local_trigger_step - 1)
             b == Rest(local_trigger_step)
  <2>3. a \in Int /\ b \in Int /\ a' = a /\ b' = b
    BY <2>1, <2>2 DEF Rest
  <2> HIDE DEF a, b
  <2>4. ASSUME OnlyHybrid, ~hybrid_active, ~closed'
        PROVE  /\ trainer = "collect" => queue' + collected >= a
               /\ trainer = "train" => queue' >= b
               /\ trainer = "begin" => queue' >= a
    BY <2>2, <2>3, <2>4 DEF Supplied, a, b
  <2>5. QED
    BY <2>3, <2>4 DEF Supplied, OnlyHybrid, a, b
<1>4. QED
  BY <1>1, <1>2, <1>3

\* The same for Tally: what a step of the rollouter owes to it.
LEMMA RollouterTally ==
  ASSUME IInv, UNCHANGED <<cfg, max_concurrent_samples, trainerVars,
                           hybrid_active>>,
         Tight =>
           /\ QueueSize' + generating' + putting' + Held' <= staleness_samples'
           /\ staleness_samples' <= cfg.max_required
           /\ ~hybrid_active \/ trainer = "reset" =>
                /\ staleness_samples' = cfg.max_required
                /\ generating' = 0 /\ putting' = 0 /\ Held' = 0
                /\ queue' = queue
  PROVE  Tally'
<1> USE DEF IInv, trainerVars
<1>1. Tight' = Tight /\ \A k : Rest(k)' = Rest(k)
  BY DEF Tight, OnlyHybrid, StepRequired, Rest
<1>2. UNCHANGED <<cfg, trainer, collected, local_trigger_step, hybrid_active>>
  OBVIOUS
<1>3. /\ Rest(local_trigger_step)' = Rest(local_trigger_step)
      /\ Rest(local_trigger_step - 1)' = Rest(local_trigger_step - 1)
  BY <1>2 DEF Rest
<1>4. QED
  BY <1>1, <1>2, <1>3 DEF Tally

\* And for the types.
LEMMA RollouterTypes ==
  ASSUME IInv, UNCHANGED <<cfg, max_concurrent_samples, trainerVars,
                           hybrid_active>>,
         left' \in 0 .. Samples, generating' \in Nat, putting' \in Nat,
         done' \in Nat, staleness_samples' \in Nat,
         proc' \in {"top"} \union {"drain", "over"} \union Holding,
         paused' \in BOOLEAN, closed' \in BOOLEAN,
         queue' \in Nat, QueueSize' <= cfg.max_required
  PROVE  TypeOK'
<1>1. /\ proc' \in {"top", "drain", "limit", "limit_wait", "submit", "end",
                    "end_wait", "over"}
      /\ StepRequired' = StepRequired
      /\ UNCHANGED <<trainer, threshold, collected, local_trigger_step>>
  BY DEF Holding, StepRequired, trainerVars
<1>2. QED
  BY <1>1 DEF TypeOK, IInv

\* The processor at the head of its loop: it takes a sample only if the ones
\* counted are fewer than the queue's bound.
LEMMA ProcTopStep == IInv /\ ProcTop => IInv'
<1> SUFFICES ASSUME IInv, ProcTop PROVE IInv'
  OBVIOUS
<1> USE DEF IInv, ProcTop
<1>1. Capable' /\ Cycle' /\ Supplied'
  BY RollouterStep DEF TypeOK
<1>2. TypeOK'
  <2>1. paused' \in BOOLEAN /\ closed' \in BOOLEAN
    BY DEF TypeOK
  <2>2. QueueSize' <= cfg.max_required
    BY DEF TypeOK, QueueSize
  <2>3. left' \in 0 .. Samples
    BY ElasticAssumption DEF TypeOK
  <2>4. QED
    BY <2>1, <2>2, <2>3, RollouterTypes DEF TypeOK, Holding
<1>3. Tasking'
  BY DEF Tasking, ActiveTasks
<1>4. Tally'
  <2>1. Tight =>
           /\ QueueSize' + generating' + putting' + Held' <= staleness_samples'
           /\ staleness_samples' <= cfg.max_required
           /\ ~hybrid_active \/ trainer = "reset" =>
                /\ staleness_samples' = cfg.max_required
                /\ generating' = 0 /\ putting' = 0 /\ Held' = 0
                /\ queue' = queue
    BY ConfigFacts DEF Tally, Held, Holding, QueueSize, ShouldPause, TypeOK
  <2>2. QED
    BY <2>1, RollouterTally
<1>5. QED
  BY <1>1, <1>2, <1>3, <1>4

\* The processor while generation is paused, at the limit, and when it reaps.
LEMMA ProcWaitStep ==
  IInv /\ (ProcDrain \/ ProcLimit \/ ProcReap \/ ProcSubmit) => IInv'
<1> SUFFICES ASSUME IInv, ProcDrain \/ ProcLimit \/ ProcReap \/ ProcSubmit
             PROVE  IInv'
  OBVIOUS
<1> USE DEF IInv, ProcDrain, ProcLimit, ProcReap, ProcSubmit
<1>0. /\ UNCHANGED <<cfg, max_concurrent_samples, trainerVars, hybrid_active>>
      /\ UNCHANGED <<left, paused, staleness_samples, putting, queue, closed>>
  OBVIOUS
<1>1. Capable' /\ Cycle' /\ Supplied'
  BY <1>0, RollouterStep DEF TypeOK
<1>2. TypeOK'
  BY ConfigFacts DEF TypeOK, trainerVars, QueueSize, StepRequired, OnlyHybrid
<1>3. Tasking'
  BY ConfigFacts DEF Tasking, ActiveTasks, TypeOK
<1>4. Tally'
  <2>1. Tight =>
           /\ QueueSize' + generating' + putting' + Held' <= staleness_samples'
           /\ staleness_samples' <= cfg.max_required
           /\ ~hybrid_active \/ trainer = "reset" =>
                /\ staleness_samples' = cfg.max_required
                /\ generating' = 0 /\ putting' = 0 /\ Held' = 0
                /\ queue' = queue
    BY ConfigFacts DEF Tally, Held, Holding, QueueSize, TypeOK
  <2>2. QED
    BY <1>0, <2>1, RollouterTally
<1>5. QED
  BY <1>1, <1>2, <1>3, <1>4

\* The end signal enters the queue, in the place of the oldest sample if need
\* be, after the last task.
LEMMA ProcEndStep == IInv /\ ProcEnd => IInv'
<1> SUFFICES ASSUME IInv, ProcEnd PROVE IInv'
  OBVIOUS
<1> USE DEF IInv, ProcEnd, Put
<1>0. /\ queue' \in Nat /\ QueueSize' \in Nat /\ QueueSize' <= cfg.max_required
      /\ QueueSize \in Nat /\ QueueSize' <= QueueSize + 1
      /\ closed' = closed => queue' = queue
      /\ ~closed
  BY ConfigFacts DEF TypeOK, QueueSize, Tasking
<1>1. Capable' /\ Cycle' /\ Supplied'
  BY <1>0, RollouterStep DEF TypeOK
<1>2. TypeOK'
  BY <1>0, ConfigFacts DEF TypeOK, trainerVars, StepRequired, OnlyHybrid
<1>3. Tasking'
  BY ConfigFacts DEF Tasking, ActiveTasks, TypeOK
<1>4. Tally'
  <2>1. Tight =>
           /\ QueueSize' + generating' + putting' + Held' <= staleness_samples'
           /\ staleness_samples' <= cfg.max_required
           /\ ~hybrid_active \/ trainer = "reset" =>
                /\ staleness_samples' = cfg.max_required
                /\ generating' = 0 /\ putting' = 0 /\ Held' = 0
                /\ queue' = queue
    <3>1. CASE ActiveTasks > 0
      BY <1>0, <3>1, ConfigFacts
      DEF Tally, Held, Holding, QueueSize, TypeOK, ActiveTasks
    <3>2. CASE ~(ActiveTasks > 0)
      <4>1. Held = 1 /\ Held' = 0
        BY <3>2 DEF Held, Holding
      <4>2. Tight => /\ QueueSize + generating + putting + Held
                            <= staleness_samples
                     /\ staleness_samples <= cfg.max_required
                     /\ ~(~hybrid_active \/ trainer = "reset")
        BY <4>1 DEF Tally
      <4>3. /\ UNCHANGED <<generating, putting, staleness_samples>>
            /\ generating \in Nat /\ putting \in Nat
            /\ staleness_samples \in Nat
        BY DEF TypeOK
      <4>4. Tight =>
              QueueSize' + generating' + putting' + Held' <= staleness_samples'
        <5> SUFFICES ASSUME Tight
                     PROVE  QueueSize' + generating + putting + 0
                              <= staleness_samples
          BY <4>1, <4>3
        <5>1. QueueSize + generating + putting + 1 <= staleness_samples
          BY <4>1, <4>2
        <5>2. PICK m \in Nat, n \in Nat :
                m = QueueSize /\ n = QueueSize' /\ n <= m + 1
          BY <1>0
        <5>3. m + generating + putting + 1 <= staleness_samples
          BY <5>1, <5>2
        <5>4. /\ generating \in Nat /\ putting \in Nat
              /\ staleness_samples \in Nat
          BY <4>3
        <5>5. n <= m + 1
          BY <5>2
        <5>6. n + generating + putting <= staleness_samples
          BY <5>3, <5>4, <5>5
        <5>7. n + generating + putting + 0 <= staleness_samples
          BY <5>4, <5>6
        <5>8. QED
          BY <5>2, <5>7
      <4>5. QED
        BY <4>2, <4>3, <4>4
    <3>3. QED
      BY <3>1, <3>2
  <2>2. QED
    BY <2>1, RollouterTally
<1>5. QED
  BY <1>1, <1>2, <1>3, <1>4

\* Tasks and the monitor.  A put never shrinks the queue.
LEMMA TaskStep == IInv /\ (Tasks \/ MonitorResume) => IInv'
<1> SUFFICES ASSUME IInv, Tasks \/ MonitorResume PROVE IInv'
  OBVIOUS
<1> USE DEF IInv, Tasks, TaskGenerate, TaskPut, MonitorResume, Put
<1>0. /\ queue' \in Nat /\ QueueSize' \in Nat /\ QueueSize' <= cfg.max_required
      /\ QueueSize' + putting' <= QueueSize + putting + generating - generating'
      /\ queue' >= queue
      /\ putting = 0 => queue' = queue
      /\ UNCHANGED <<cfg, max_concurrent_samples, trainerVars, hybrid_active>>
      /\ UNCHANGED <<left, proc, staleness_samples, closed>>
  BY ConfigFacts DEF TypeOK, QueueSize, Tasking, ActiveTasks
<1>1. Capable' /\ Cycle' /\ Supplied'
  BY <1>0, RollouterStep DEF TypeOK
<1>2. TypeOK'
  <2>1. paused' \in BOOLEAN /\ closed' \in BOOLEAN
    BY <1>0 DEF TypeOK
  <2>2. generating' \in Nat /\ putting' \in Nat /\ done' \in Nat
    BY DEF TypeOK
  <2>3. QED
    BY <1>0, <2>1, <2>2, RollouterTypes DEF TypeOK, Holding
<1>3. Tasking'
  BY ConfigFacts DEF Tasking, ActiveTasks, TypeOK
<1>4. Tally'
  <2>1. Tight =>
           /\ QueueSize' + generating' + putting' + Held' <= staleness_samples'
           /\ staleness_samples' <= cfg.max_required
           /\ ~hybrid_active \/ trainer = "reset" =>
                /\ staleness_samples' = cfg.max_required
                /\ generating' = 0 /\ putting' = 0 /\ Held' = 0
                /\ queue' = queue
    BY <1>0, ConfigFacts DEF Tally, Held, Holding, QueueSize, TypeOK
  <2>2. QED
    BY <1>0, <2>1, RollouterTally
<1>5. QED
  BY <1>1, <1>2, <1>3, <1>4

-----------------------------------------------------------------------------
\* A step of the trainer begins: replicas that are active were activated at
\* the end of a cycle, so that a whole cycle is to come.
LEMMA BeginStepStep == IInv /\ BeginStep => IInv'
<1> SUFFICES ASSUME IInv, BeginStep PROVE IInv'
  OBVIOUS
<1> USE DEF IInv, BeginStep, rollouterVars
<1>1. TypeOK'
  BY ConfigFacts DEF TypeOK, QueueSize, StepRequired, Thresholds
<1>2. Tasking' /\ Capable'
  BY DEF Tasking, ActiveTasks, Capable, Capacity
<1>3. Cycle'
  BY DEF Cycle, OnlyHybrid, Thresholds, StepRequired
<1>4. Supplied'
  BY DEF Supplied, Rest, OnlyHybrid, TypeOK
<1>5. Tally'
  BY DEF Tally, Tight, Rest, OnlyHybrid, StepRequired, Held, QueueSize, TypeOK
<1>6. QED
  BY <1>1, <1>2, <1>3, <1>4, <1>5

\* The replicas are taken away: with hybrid replicas only, when the queue has
\* the samples of the whole cycle.
LEMMA DeactivateStep == IInv /\ Deactivate => IInv'
<1> SUFFICES ASSUME IInv, Deactivate PROVE IInv'
  OBVIOUS
<1> USE DEF IInv, Deactivate, rollouterVars
<1>0. Capacity(cfg.standalone) \in 0 .. cfg.max_required
  BY CapacityFacts, ConfigFacts DEF TypeOK
<1>1. TypeOK'
  BY <1>0, ConfigFacts DEF TypeOK, QueueSize, StepRequired, Remaining
<1>2. Tasking' /\ Capable'
  BY ConfigFacts
  DEF Tasking, ActiveTasks, Capable, Capacity, Remaining, TypeOK
<1>3. Cycle'
  BY DEF Cycle, OnlyHybrid, StepRequired
<1>4. local_trigger_step = 1 /\ Rest(local_trigger_step - 1)' = StepRequired
  BY RestFacts DEF Cycle, Rest, TypeOK
<1>5. Supplied'
  BY <1>4, ConfigFacts DEF Supplied, OnlyHybrid, TypeOK, Cycle, QueueSize
<1>6. Tally'
  <2>1. Tight' = Tight /\ UNCHANGED <<QueueSize, Held>>
    BY DEF Tight, OnlyHybrid, StepRequired, QueueSize, Held
  <2>2. Held \in Nat /\ QueueSize \in Nat /\ queue <= QueueSize
    BY DEF Held, QueueSize, TypeOK
  <2>3. ASSUME Tight
        PROVE  /\ QueueSize + generating + putting + Held <= staleness_samples
               /\ staleness_samples <= cfg.max_required
               /\ QueueSize >= cfg.max_required
    BY <2>3 DEF Tally, Tight, Cycle
  <2>4. ASSUME Tight
        PROVE  /\ staleness_samples = cfg.max_required
               /\ generating = 0 /\ putting = 0 /\ Held = 0
    BY <2>2, <2>3, <2>4, ConfigFacts DEF TypeOK
  <2>5. ASSUME Tight
        PROVE  queue + collected <= StepRequired
    BY <2>2, <2>5 DEF TypeOK, Cycle, Tight
  <2>6. QED
    BY <1>4, <2>1, <2>3, <2>4, <2>5 DEF Tally
<1>7. QED
  BY <1>1, <1>2, <1>3, <1>5, <1>6

\* A batch is collected from the queue, which holds it if nobody serves.
LEMMA CollectStep == IInv /\ Collect => IInv'
<1> SUFFICES ASSUME IInv, Collect PROVE IInv'
  OBVIOUS
<1> USE DEF IInv, Collect
<1>0. /\ queue' \in Nat /\ closed' \in BOOLEAN /\ (closed' => closed)
      /\ collected' \in 0 .. cfg.required
      /\ QueueSize' <= QueueSize /\ QueueSize \in Nat /\ QueueSize' \in Nat
      /\ trainer' \in {"collect", "train", "stopped"}
      /\ trainer' # "stopped" => queue' + collected' = queue + collected
      /\ trainer' # "stopped" => closed' = closed
      /\ trainer' = "train" => collected' = cfg.required
      /\ trainer = "collect"
      /\ UNCHANGED <<cfg, left, proc, paused, staleness_samples, generating,
                     putting, done, max_concurrent_samples, threshold,
                     local_trigger_step, hybrid_active>>
  <2>1. CASE collected = cfg.required /\ trainer' = "train"
             /\ UNCHANGED <<queue, closed, collected>>
    BY <2>1, ConfigFacts DEF TypeOK, QueueSize
  <2>2. CASE /\ collected < cfg.required /\ queue > 0
             /\ queue' = queue - 1 /\ collected' = collected + 1
             /\ UNCHANGED <<trainer, closed>>
    <3>1. /\ queue' \in Nat /\ collected' \in 0 .. cfg.required
          /\ queue' + collected' = queue + collected
      BY <2>2, ConfigFacts DEF TypeOK
    <3>2. QueueSize' <= QueueSize /\ QueueSize \in Nat /\ QueueSize' \in Nat
      BY <2>2 DEF TypeOK, QueueSize
    <3>3. closed' \in BOOLEAN /\ closed' = closed /\ trainer' = "collect"
      BY <2>2 DEF TypeOK
    <3>4. QED
      BY <3>1, <3>2, <3>3
  <2>3. CASE /\ collected < cfg.required /\ queue = 0 /\ closed
             /\ closed' = FALSE /\ trainer' = "stopped"
             /\ UNCHANGED <<queue, collected>>
    <3>1. QueueSize' <= QueueSize /\ QueueSize \in Nat /\ QueueSize' \in Nat
      BY <2>3 DEF TypeOK, QueueSize
    <3>2. queue' \in Nat /\ collected' \in 0 .. cfg.required
      BY <2>3 DEF TypeOK
    <3>3. closed' \in BOOLEAN /\ trainer' = "stopped"
      BY <2>3
    <3>4. QED
      BY <2>3, <3>1, <3>2, <3>3
  <2>4. QED
    BY <2>1, <2>2, <2>3
<1>1. TypeOK'
  <2>1. QueueSize' <= cfg.max_required
    BY <1>0, ConfigFacts DEF TypeOK
  <2>2. /\ threshold' \in 0 .. StepRequired'
        /\ local_trigger_step' \in 1 .. cfg'.trigger
        /\ collected' \in 0 .. cfg'.required
    BY <1>0 DEF TypeOK, StepRequired
  <2>3. paused' \in BOOLEAN /\ hybrid_active' \in BOOLEAN
    BY <1>0 DEF TypeOK
  <2>4. QED
    BY <1>0, <2>1, <2>2, <2>3 DEF TypeOK
<1>2. Tasking' /\ Capable'
  BY <1>0 DEF Tasking, ActiveTasks, Capable, Capacity
<1>3. Cycle'
  BY <1>0 DEF Cycle, OnlyHybrid, StepRequired
<1>4. /\ Rest(local_trigger_step) \in Int
      /\ Rest(local_trigger_step - 1)
           = Rest(local_trigger_step) + cfg.required
      /\ UNCHANGED Rest(local_trigger_step)
      /\ UNCHANGED Rest(local_trigger_step - 1)
      /\ UNCHANGED <<OnlyHybrid, Tight, Held>>
  BY <1>0, RestFacts
  DEF TypeOK, Rest, OnlyHybrid, Tight, StepRequired, Held
<1>5. Supplied'
  BY <1>0, <1>4, ConfigFacts DEF Supplied, TypeOK
<1>6. Tally'
  <2>1. ASSUME Tight
        PROVE  /\ QueueSize' + generating + putting + Held <= staleness_samples
               /\ trainer' # "reset" /\ trainer' # "begin" /\ trainer' # "sync"
    <3>1. Held = 0 /\ generating = 0 /\ putting = 0
      BY <1>0, <2>1 DEF Tally, Cycle
    <3>2. QueueSize + 0 + 0 + 0 <= staleness_samples
      BY <2>1, <3>1 DEF Tally
    <3>3. QueueSize' <= staleness_samples
      BY <1>0, <3>2 DEF TypeOK
    <3>4. QED
      BY <1>0, <3>1, <3>3
  <2>2. ASSUME Tight
        PROVE  /\ trainer' = "collect" =>
                    queue' + collected' <= Rest(local_trigger_step - 1)
               /\ trainer' = "train" => queue' <= Rest(local_trigger_step)
    <3>1. queue + collected <= Rest(local_trigger_step - 1)
      BY <1>0, <2>2 DEF Tally, Cycle
    <3>2. QED
      BY <1>0, <1>4, <3>1, ConfigFacts DEF TypeOK
  <2>3. QED
    BY <1>0, <1>4, <2>1, <2>2 DEF Tally, Cycle
<1>7. QED
  BY <1>1, <1>2, <1>3, <1>5, <1>6

\* A batch is trained on: one batch less is to come in this cycle.
LEMMA TrainStep == IInv /\ Train => IInv'
<1> SUFFICES ASSUME IInv, Train PROVE IInv'
  OBVIOUS
<1> USE DEF IInv, Train, rollouterVars
<1>1. TypeOK'
  BY ConfigFacts DEF TypeOK, QueueSize, StepRequired
<1>2. Tasking' /\ Capable'
  BY DEF Tasking, ActiveTasks, Capable, Capacity
<1>3. Cycle'
  BY DEF Cycle, OnlyHybrid, StepRequired
<1>4. /\ trainer' = "begin" =>
           Rest(local_trigger_step - 1)' = Rest(local_trigger_step)
      /\ trainer' = "sync" => Rest(local_trigger_step) = 0
      /\ UNCHANGED <<OnlyHybrid, Tight, Held, QueueSize>>
  <2>1. trainer' = "begin" =>
          local_trigger_step' - 1 = local_trigger_step
    BY DEF TypeOK
  <2>2. trainer' = "sync" => local_trigger_step = cfg.trigger
    BY ConfigFacts DEF TypeOK
  <2>3. QED
    BY <2>1, <2>2, RestFacts
    DEF TypeOK, Rest, OnlyHybrid, Tight, StepRequired, Held, QueueSize
<1>5. Supplied'
  BY <1>4 DEF Supplied
<1>6. Tally'
  BY <1>4 DEF Tally, Cycle, TypeOK
<1>7. QED
  BY <1>1, <1>2, <1>3, <1>5, <1>6

\* The weights are sent, and the replicas may be activated again.
LEMMA SyncStep == IInv /\ Sync => IInv'
<1> SUFFICES ASSUME IInv, Sync PROVE IInv'
  OBVIOUS
<1> USE DEF IInv, Sync, rollouterVars
<1>0. PICK should_activate \in ActivateAnswers :
        IF should_activate
          THEN /\ hybrid_active' = TRUE
               /\ max_concurrent_samples'
                    = Capacity(cfg.standalone + cfg.hybrid)
          ELSE UNCHANGED <<hybrid_active, max_concurrent_samples>>
  OBVIOUS
<1>1. Capacity(cfg.standalone + cfg.hybrid) \in 0 .. cfg.max_required
  BY CapacityFacts, ConfigFacts DEF TypeOK
<1>2. /\ hybrid_active' \in BOOLEAN
      /\ max_concurrent_samples' \in 0 .. cfg.max_required
      /\ OnlyHybrid => hybrid_active'
      /\ Capable'
  BY <1>0, <1>1
  DEF TypeOK, ActivateAnswers, OnlyHybrid, Capable, Capacity
<1>3. TypeOK'
  BY <1>2, ConfigFacts DEF TypeOK, QueueSize, StepRequired
<1>4. Tasking'
  BY DEF Tasking, ActiveTasks
<1>5. Cycle'
  BY <1>2 DEF Cycle, OnlyHybrid, StepRequired
<1>6. Supplied'
  BY DEF Supplied
<1>7. Tally'
  <2>1. UNCHANGED <<OnlyHybrid, Tight, Held, QueueSize>>
    BY DEF OnlyHybrid, Tight, StepRequired, Held, QueueSize
  <2>2. Tight => hybrid_active' /\ ~hybrid_active
    BY <1>2 DEF Tight, Cycle
  <2>3. QED
    BY <2>1, <2>2 DEF Tally
<1>8. QED
  BY <1>2, <1>3, <1>4, <1>5, <1>6, <1>7

\* reset_staleness: with hybrid replicas only, nothing but tasks that are done
\* is left to count.
LEMMA ResetStalenessStep == IInv /\ ResetStaleness => IInv'
<1> SUFFICES ASSUME IInv, ResetStaleness PROVE IInv'
  OBVIOUS
<1> USE DEF IInv, ResetStaleness
<1>0. QueueSize \in Nat /\ ActiveTasks \in Nat /\ staleness_samples' \in Nat
  BY DEF Counted, QueueSize, ActiveTasks, TypeOK
<1>1. TypeOK'
  <2>1. QueueSize' <= cfg.max_required /\ closed' \in BOOLEAN
    BY DEF TypeOK, QueueSize
  <2>2. /\ threshold' \in 0 .. StepRequired'
        /\ local_trigger_step' \in 1 .. cfg'.trigger
        /\ collected' \in 0 .. cfg'.required
    BY DEF TypeOK, StepRequired
  <2>3. paused' \in BOOLEAN /\ hybrid_active' \in BOOLEAN
    BY DEF TypeOK
  <2>4. QED
    BY <1>0, <2>1, <2>2, <2>3 DEF TypeOK
<1>2. Tasking' /\ Capable'
  BY DEF Tasking, ActiveTasks, Capable, Capacity
<1>3. Cycle'
  BY DEF Cycle, OnlyHybrid, StepRequired
<1>4. OnlyHybrid => hybrid_active'
  BY DEF Cycle, OnlyHybrid
<1>5. UNCHANGED <<OnlyHybrid, Tight, Held, QueueSize>>
  BY DEF OnlyHybrid, Tight, StepRequired, Held, QueueSize
<1>6. Supplied'
  BY <1>4, <1>5 DEF Supplied
<1>7. Tally'
  <2>1. ASSUME Tight
        PROVE  /\ QueueSize + generating + putting + Held <= staleness_samples'
               /\ staleness_samples' <= cfg.max_required
    <3>1. queue = 0 /\ generating = 0 /\ putting = 0 /\ Held = 0
      BY <2>1 DEF Tally
    <3>2. staleness_samples' = done + QueueSize
      BY <3>1 DEF Counted, ActiveTasks, QueueSize, TypeOK
    <3>3. done <= cfg.max_required
      BY <3>1 DEF Tasking, ActiveTasks, TypeOK
    <3>4. closed => done = 0
      BY <3>1 DEF Tasking, ActiveTasks, TypeOK
    <3>5. QueueSize = IF closed THEN 1 ELSE 0
      BY <3>1 DEF QueueSize
    <3>6. QED
      BY <3>1, <3>2, <3>3, <3>4, <3>5, ConfigFacts DEF TypeOK
  <2>2. QED
    BY <1>4, <1>5, <2>1 DEF Tally, Tight
<1>8. QED
  BY <1>1, <1>2, <1>3, <1>6, <1>7

-----------------------------------------------------------------------------
\* Every step keeps the invariant.
LEMMA NextIInv == IInv /\ [Next]_vars => IInv'
<1> SUFFICES ASSUME IInv, [Next]_vars PROVE IInv'
  OBVIOUS
<1>1. CASE Processor
  BY <1>1, ProcTopStep, ProcWaitStep, ProcEndStep DEF Processor
<1>2. CASE Tasks \/ MonitorResume
  BY <1>2, TaskStep
<1>3. CASE Trainer
  BY <1>3, BeginStepStep, DeactivateStep, CollectStep, TrainStep, SyncStep,
     ResetStalenessStep DEF Trainer
<1>4. CASE UNCHANGED vars
  BY <1>4
  DEF vars, rollouterVars, trainerVars, IInv, TypeOK, Tasking, Capable, Cycle,
      Supplied, Tally, Tight, Held, Rest, QueueSize, ActiveTasks, OnlyHybrid,
      StepRequired, Capacity
<1>5. QED
  BY <1>1, <1>2, <1>3, <1>4 DEF Next, Ended

\* The invariant holds throughout.
LEMMA Invariant == Spec => []IInv
BY InitIInv, NextIInv, PTL DEF Spec

\* Queue, capacity, batch and counters stay within their bounds.
THEOREM TypeCorrect == Spec => []TypeOK
<1>1. IInv => TypeOK
  BY DEF IInv
<1>2. QED
  BY <1>1, Invariant, PTL

\* When deactivate_hybrid_replicas has taken the last replica away, the trainer
\* can collect the batches of the whole cycle, or meets the end signal.
THEOREM CycleSuppliedHolds == Spec => []CycleSupplied
<1>1. IInv => CycleSupplied
  <2> SUFFICES ASSUME IInv, Servers = 0, trainer = "collect", ~closed
               PROVE  queue + collected
                        >= cfg.required * (cfg.trigger - local_trigger_step + 1)
    BY DEF CycleSupplied
  <2>1. OnlyHybrid /\ ~hybrid_active
    BY ConfigFacts DEF IInv, TypeOK, Servers, OnlyHybrid
  <2>2. queue + collected >= cfg.required * (cfg.trigger - (local_trigger_step - 1))
    BY <2>1 DEF IInv, Supplied, Rest
  <2>3. cfg.trigger - (local_trigger_step - 1) = cfg.trigger - local_trigger_step + 1
    BY ConfigFacts DEF IInv, TypeOK
  <2>4. QED
    BY <2>2, <2>3
<1>2. QED
  BY <1>1, Invariant, PTL

\* The processor never spins at the capacity limit, which would stop the tasks,
\* the monitor and the trainer's calls for good, with a standalone replica or
\* with no more samples allowed than a cycle has.
THEOREM EventLoopFreeHolds == Spec => []EventLoopFree
<1>1. IInv => EventLoopFree
  <2> SUFFICES ASSUME IInv, cfg.standalone > 0 \/ cfg.max_required = StepRequired,
                      proc = "limit", max_concurrent_samples = 0
               PROVE  FALSE
    BY DEF EventLoopFree, Spinning
  <2>1. cfg.standalone = 0 /\ ~hybrid_active
    BY CapacityFacts, ConfigFacts DEF IInv, TypeOK, Capable
  <2>2. Tight /\ Held = 1
    BY <2>1 DEF Tight, OnlyHybrid, Held, Holding
  <2>3. QED
    BY <2>1, <2>2 DEF IInv, Tally
<1>2. QED
  BY <1>1, Invariant, PTL
=============================================================================
