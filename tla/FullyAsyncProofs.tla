-------------------------- MODULE FullyAsyncProofs --------------------------
(***************************************************************************)
(* Proofs about the fully asynchronous pipeline for every batch size,      *)
(* trigger interval, staleness threshold, concurrency and dataset.         *)
(***************************************************************************)
EXTENDS FullyAsync, TLAPS

-----------------------------------------------------------------------------
(* The strengthenings that make the properties inductive. *)

\* self.lock is held across an await by the waiting processor or by
\* reset_staleness, and by nobody else.
LockDiscipline ==
  /\ lock = "proc" <=> proc \in {"waiting", "endwait"}
  /\ lock = "reset" <=> reset \in {"counting", "counted"}

\* What fit has in hand at each of its stages.
TrainerPhase ==
  /\ trainer = "collect" => collected < Required /\ ~stopping
  /\ trainer = "train" => collected = Required /\ ~stopping
  /\ trainer \in {"sync", "reset", "save"} /\ ~stopping => collected = 0
  /\ trainer = "final" => stopping
  /\ reset # "idle" => trainer = "reset"

\* Only a failed task makes the processor raise.
NoFailure == failures = 0 => failed = 0 /\ proc # "raised"

\* The Boolean part of the types.
Flags ==
  /\ feed_ended \in BOOLEAN
  /\ paused \in BOOLEAN /\ resume_event \in BOOLEAN
  /\ rollouter_running \in BOOLEAN
  /\ stopping \in BOOLEAN

Structure == TypeOK /\ LockDiscipline /\ TrainerPhase /\ NoFailure

\* exposure is never below what is outstanding, and staleness_samples, which
\* admission compares with max_required_samples, is at most one short of it:
\* reset_staleness can miss the sample the processor has in hand, and only it.
Counting ==
  /\ Outstanding <= exposure
  /\ exposure <= staleness_samples + 1
  /\ exposure <= MaxRequired + 1
  /\ proc = "get" => exposure <= MaxRequired
  /\ reset = "counting" => generating <= reset_sum
  /\ reset = "counted" => generating + QueueSize <= reset_sum + EndSent

CountingInv == failures = 0 => Counting

\* Weights and versions at every stage of fit, not only between its steps.
VersionInv ==
  /\ updates = current_param_version * Trigger + local_trigger_step - 1
  /\ trainer = "sync" => local_trigger_step = 1
  /\ trainer # "sync" => rollout_updates = current_param_version * Trigger
  /\ last_ckpt_version * Trigger <= saved_updates
  /\ saved_updates < last_ckpt_version * Trigger + Trigger

-----------------------------------------------------------------------------
USE FullyAsyncAssumption DEF queueVars, feedVars, procVars, flagVars, taskVars,
                             monVars, resetVars, trainVars, countVars

\* max_required_samples is at least one, so the queue can hold a sample.
LEMMA MaxRequiredPositive == MaxRequired \in Nat \ {0}
<1> DEFINE P == Required * Trigger
<1>1. P \in Nat \ {0}
  OBVIOUS
<1>2. P * (100 + StalenessPercent) \in Nat /\ P * (100 + StalenessPercent) >= 100
  <2> HIDE DEF P
  <2>1. P * (100 + StalenessPercent) = P * 100 + P * StalenessPercent
    BY <1>1
  <2>2. P * StalenessPercent \in Nat /\ P * 100 >= 100
    BY <1>1
  <2>3. QED
    BY <1>1, <2>1, <2>2
<1>3. \A x \in Nat : x >= 100 => x \div 100 \in Nat \ {0}
  OBVIOUS
<1>4. QED
  BY <1>2, <1>3 DEF MaxRequired

\* get_queue_size answers a natural number.
LEMMA QueueSizeNat == MQ!QueueTypeOK => QueueSize \in Nat
  BY DEF MQ!QueueTypeOK, QueueSize

\* put_sample adds one sample, or replaces the oldest one and counts a drop.
LEMMA PutFacts ==
  ASSUME MQ!QueueTypeOK, NEW s \in {"sample", "None"}, MQ!PutSample(s)
  PROVE  /\ MQ!QueueTypeOK'
         /\ QueueSize \in Nat /\ QueueSize' \in Nat
         /\ \/ QueueSize' = QueueSize /\ dropped_samples' = dropped_samples + 1
            \/ QueueSize' = QueueSize + 1 /\ dropped_samples' = dropped_samples
         /\ QueueSize' <= QueueSize + 1
         /\ cleared' = cleared /\ total_consumed' = total_consumed
<1> USE MaxRequiredPositive DEF MQ!QueueTypeOK, MQ!GetterStates, QueueSize
<1>1. CASE MQ!IsFull
  <2>1. queue # <<>> /\ queue \in Seq({"sample", "None"})
    BY <1>1 DEF MQ!IsFull
  <2>2. /\ Tail(queue) \in Seq({"sample", "None"})
        /\ Len(Tail(queue)) = Len(queue) - 1
    BY <2>1
  <2>3. queue' = Append(Tail(queue), s)
    BY <1>1 DEF MQ!PutSample, MQ!Enqueue
  <2>4. queue' \in Seq({"sample", "None"}) /\ Len(queue') = Len(queue)
    BY <2>1, <2>2, <2>3
  <2>5. dropped_samples' = dropped_samples + 1
    BY <1>1 DEF MQ!PutSample
  <2>6. QED
    BY <2>4, <2>5 DEF MQ!PutSample, MQ!NotifyAll
<1>2. CASE ~MQ!IsFull
  <2>1. queue' = Append(queue, s) /\ dropped_samples' = dropped_samples
    BY <1>2 DEF MQ!PutSample, MQ!Enqueue
  <2>2. /\ queue' \in Seq({"sample", "None"}) /\ Len(queue') = Len(queue) + 1
        /\ Len(queue') <= MaxRequired
    BY <1>2, <2>1 DEF MQ!IsFull
  <2>3. QED
    BY <2>1, <2>2 DEF MQ!PutSample, MQ!NotifyAll
<1>3. QED
  BY <1>1, <1>2

\* get_sample takes one sample off the queue.
LEMMA TakeFacts ==
  ASSUME MQ!QueueTypeOK, MQ!GetSampleTake("trainer")
  PROVE  /\ MQ!QueueTypeOK'
         /\ QueueSize \in Nat /\ QueueSize' = QueueSize - 1
         /\ QueueSize' \in Nat
         /\ dropped_samples' = dropped_samples /\ cleared' = cleared
<1>1. queue # <<>> /\ queue \in Seq({"sample", "None"}) /\ queue' = Tail(queue)
  BY DEF MQ!GetSampleTake, MQ!QueueTypeOK
<1>2. /\ queue' \in Seq({"sample", "None"}) /\ Len(queue') = Len(queue) - 1
      /\ Len(queue) \in Nat /\ Len(queue') \in Nat
  BY <1>1
<1>3. QED
  BY <1>2, MaxRequiredPositive
  DEF MQ!GetSampleTake, MQ!QueueTypeOK, MQ!GetterStates, QueueSize

\* A step that leaves the queue alone leaves its size alone.
LEMMA QueueUnchanged ==
  MQ!QueueTypeOK /\ UNCHANGED queueVars => MQ!QueueTypeOK' /\ QueueSize' = QueueSize
  BY DEF MQ!QueueTypeOK, MQ!GetterStates, QueueSize

-----------------------------------------------------------------------------
(* Structure: types, the lock, the stages of fit. *)

\* The flags of the rollouter keep their relation in every step.
LEMMA FlagsStep == Flags /\ Next => Flags'
<1> SUFFICES ASSUME Flags, Next
             PROVE  Flags'
  OBVIOUS
<1> USE DEF Flags
<1>1. CASE Feeder
  BY <1>1, Zenon DEF Feeder, FeedSample, FeedEnd
<1>2. CASE Processor
  <2>1. CASE ProcPause
    BY <2>1, Zenon DEF ProcPause
  <2>2. CASE StopRunning
    BY <2>2, Zenon DEF StopRunning
  <2>3. CASE \/ ProcCheck \/ ProcDecide \/ ProcDrain \/ ProcResume \/ ProcGet
             \/ ProcBlock \/ ProcLimitWait \/ ProcLimitPass \/ ProcLimitReap
             \/ ProcSubmit \/ ProcEnd \/ ProcEndReap \/ FinishSignal
    BY <2>3 DEF ProcCheck, ProcDecide, ProcDrain, ProcResume, ProcGet,
                ProcBlock, ProcLimitWait, ProcLimitPass, ProcLimitReap,
                ProcSubmit, ProcEnd, ProcEndReap, FinishSignal
  <2>4. QED
    BY <1>2, <2>1, <2>2, <2>3 DEF Processor
<1>3. CASE TaskPut \/ TaskReturn \/ TaskFail
  BY <1>3 DEF TaskPut, TaskReturn, TaskFail
<1>4. CASE Monitor
  BY <1>4, Zenon
  DEF Monitor, MonitorTop, MonitorCheck, MonitorDecide, MonitorResume
<1>5. CASE ResetStaleness
  BY <1>5, Zenon DEF ResetStaleness, ResetBegin, ResetRead, ResetEnd
<1>6. CASE Trainer
  <2>1. CASE TrainerTake
    BY <2>1, Zenon DEF TrainerTake
  <2>2. CASE \/ TrainerWait \/ TrainerStep \/ TrainerSync \/ TrainerSynced
             \/ TrainerSave \/ TrainerFinal
    BY <2>2 DEF TrainerWait, TrainerStep, TrainerSync, TrainerSynced,
                TrainerSave, TrainerFinal
  <2>3. QED
    BY <1>6, <2>1, <2>2 DEF Trainer
<1>7. CASE MainDone
  BY <1>7 DEF MainDone
<1>8. QED
  BY <1>1, <1>2, <1>3, <1>4, <1>5, <1>6, <1>7 DEF Next

\* Types, flags and queue invariant hold at the start,
LEMMA StructureInit == Init => Structure
<1>1. Init => MQ!QueueTypeOK
  BY MaxRequiredPositive DEF Init, MQ!QueueInit, MQ!QueueTypeOK, MQ!GetterStates
<1>2. Init => Flags
  BY Zenon DEF Init, RollouterInit, TrainerInit, Flags
<1>3. QED
  BY <1>1, <1>2 DEF Init, RollouterInit, TrainerInit, Structure, TypeOK, Flags, ProcStates,
                    LockDiscipline, TrainerPhase, NoFailure

\* and every step keeps them.
LEMMA StructureStep == Structure /\ [Next]_vars => Structure'
<1>1. Structure /\ UNCHANGED vars => Structure'
  BY QueueUnchanged
  DEF vars, Structure, TypeOK, LockDiscipline, TrainerPhase, NoFailure
<1> SUFFICES ASSUME Structure, Next
             PROVE  Structure'
  BY <1>1
<1>2. Flags'
  BY FlagsStep DEF Structure, TypeOK, Flags
<1> USE <1>2 DEF Structure, TypeOK, Flags, ProcStates, LockDiscipline,
                 TrainerPhase, NoFailure
<1>3. CASE Feeder
  BY <1>3, QueueUnchanged DEF Feeder, FeedSample, FeedEnd
<1>4. CASE Processor
  <2>1. CASE ProcCheck \/ ProcDecide \/ ProcBlock \/ ProcPause \/ ProcResume
    <3>1. QueueSize \in Nat
      BY QueueSizeNat
    <3>2. CASE ProcCheck
      BY <3>1, <3>2, QueueUnchanged DEF ProcCheck
    <3>3. CASE ProcPause
      BY <3>3, QueueUnchanged DEF ProcPause
    <3>4. CASE ProcDecide \/ ProcBlock \/ ProcResume
      BY <3>4, QueueUnchanged DEF ProcDecide, ProcBlock, ProcResume
    <3>5. QED
      BY <2>1, <3>2, <3>3, <3>4
  <2>2. CASE ProcDrain \/ ProcLimitReap \/ ProcEndReap
    BY <2>2, QueueUnchanged DEF ProcDrain, ProcLimitReap, ProcEndReap, Reap
  <2>3. CASE ProcGet
    BY <2>3, QueueUnchanged DEF ProcGet
  <2>4. CASE ProcLimitWait \/ ProcLimitPass
    BY <2>4, QueueUnchanged DEF ProcLimitWait, ProcLimitPass
  <2>5. CASE ProcSubmit
    BY <2>5, QueueUnchanged DEF ProcSubmit
  <2>6. CASE ProcEnd
    BY <2>6, QueueUnchanged DEF ProcEnd
  <2>7. CASE FinishSignal
    <3>1. MQ!QueueTypeOK'
      BY <2>7, PutFacts DEF FinishSignal
    <3>2. QED
      BY <2>7, <3>1 DEF FinishSignal
  <2>8. CASE StopRunning
    BY <2>8, QueueUnchanged DEF StopRunning
  <2>9. QED
    BY <1>4, <2>1, <2>2, <2>3, <2>4, <2>5, <2>6, <2>7, <2>8 DEF Processor
<1>5. CASE TaskPut
  <2>1. MQ!QueueTypeOK'
    BY <1>5, PutFacts DEF TaskPut
  <2>2. QED
    BY <1>5, <2>1 DEF TaskPut
<1>6. CASE TaskReturn \/ TaskFail
  BY <1>6, QueueUnchanged DEF TaskReturn, TaskFail
<1>7. CASE Monitor
  <2>1. QueueSize \in Nat
    BY QueueSizeNat
  <2>2. CASE MonitorTop
    BY <2>2, QueueUnchanged DEF MonitorTop
  <2>3. CASE MonitorCheck
    BY <2>1, <2>3, QueueUnchanged DEF MonitorCheck
  <2>4. CASE MonitorDecide
    BY <2>4, QueueUnchanged DEF MonitorDecide
  <2>5. CASE MonitorResume
    BY <2>5, QueueUnchanged DEF MonitorResume
  <2>6. QED
    BY <1>7, <2>2, <2>3, <2>4, <2>5 DEF Monitor
<1>8. CASE ResetStaleness
  <2>1. QueueSize \in Nat
    BY QueueSizeNat
  <2>2. CASE ResetBegin
    BY <2>2, QueueUnchanged DEF ResetBegin, Active
  <2>3. CASE ResetRead
    BY <2>1, <2>3, QueueUnchanged DEF ResetRead
  <2>4. CASE ResetEnd
    BY <2>1, <2>4, QueueUnchanged DEF ResetEnd, Outstanding, Held
  <2>5. QED
    BY <1>8, <2>2, <2>3, <2>4 DEF ResetStaleness
<1>9. CASE Trainer
  <2>1. CASE TrainerWait
    <3>1. MQ!QueueTypeOK'
      BY <2>1 DEF TrainerWait, MQ!GetSampleWait, MQ!QueueTypeOK, MQ!GetterStates
    <3>2. QED
      BY <2>1, <3>1 DEF TrainerWait
  <2>2. CASE TrainerTake
    <3>1. MQ!QueueTypeOK'
      BY <2>2, TakeFacts DEF TrainerTake
    <3>2. QED
      BY <2>2, <3>1 DEF TrainerTake
  <2>3. CASE TrainerStep
    BY <2>3, QueueUnchanged DEF TrainerStep, UpdateLocalStep
  <2>4. CASE TrainerSync \/ TrainerSynced \/ TrainerFinal
    BY <2>4, QueueUnchanged DEF TrainerSync, TrainerSynced, TrainerFinal
  <2>5. CASE TrainerSave
    BY <2>5, QueueUnchanged DEF TrainerSave
  <2>6. QED
    BY <1>9, <2>1, <2>2, <2>3, <2>4, <2>5 DEF Trainer
<1>10. CASE MainDone
  <2>1. MQ!QueueTypeOK'
    BY <1>10, MaxRequiredPositive
    DEF MainDone, MQ!ClearQueue, MQ!QueueTypeOK, MQ!GetterStates
  <2>2. QED
    BY <1>10, <2>1 DEF MainDone
<1>11. QED
  BY <1>3, <1>4, <1>5, <1>6, <1>7, <1>8, <1>9, <1>10 DEF Next

\* Types, the lock discipline and the stages of fit hold in every run.
THEOREM StructureHolds == Spec => []Structure
  BY StructureInit, StructureStep, PTL DEF Spec

\* Type correctness of the pipeline; the queue never holds more samples than
\* max_required_samples.
THEOREM TypeCorrect == Spec => []TypeOK
<1>1. Structure => TypeOK
  BY DEF Structure
<1>2. QED
  BY <1>1, StructureHolds, PTL

-----------------------------------------------------------------------------
(* Admission control. *)

\* Every step keeps the count of the samples bound to a version.
LEMMA CountingStep == Structure /\ CountingInv /\ [Next]_vars => CountingInv'
<1>1. CountingInv /\ UNCHANGED vars => CountingInv'
  BY DEF vars, CountingInv, Counting, Outstanding, Held, EndSent,
         QueueSize
<1> SUFFICES ASSUME Structure, CountingInv, Next, failures' = 0
             PROVE  Counting'
  BY <1>1 DEF CountingInv
<1>2. failures \in Nat /\ QueueSize \in Nat
  BY DEF Structure, TypeOK, MQ!QueueTypeOK, QueueSize
<1> USE <1>2, MaxRequiredPositive
    DEF Structure, TypeOK, ProcStates, LockDiscipline, TrainerPhase, NoFailure,
        CountingInv, Counting, Outstanding, Held, Holding, EndSent, QueueSize
<1>3. CASE Feeder
  BY <1>3 DEF Feeder, FeedSample, FeedEnd
<1>4. CASE Processor
  <2>1. CASE ProcCheck \/ ProcBlock \/ ProcPause \/ ProcResume
    BY <2>1 DEF ProcCheck, ProcBlock, ProcPause, ProcResume
  <2>2. CASE ProcDecide
    BY <2>2 DEF ProcDecide, ShouldPause
  <2>3. CASE ProcDrain \/ ProcLimitReap \/ ProcEndReap
    <3>1. failures = 0 /\ failed = 0
      BY <2>3 DEF ProcDrain, ProcLimitReap, ProcEndReap, Reap
    <3>2. CASE ProcDrain
      BY <3>1, <3>2 DEF ProcDrain, Reap
    <3>3. CASE ProcLimitReap
      BY <3>1, <3>3 DEF ProcLimitReap, Reap
    <3>4. CASE ProcEndReap
      BY <3>1, <3>4 DEF ProcEndReap, Reap
    <3>5. QED
      BY <2>3, <3>2, <3>3, <3>4
  <2>4. CASE ProcGet
    BY <2>4 DEF ProcGet
  <2>5. CASE ProcLimitWait \/ ProcLimitPass
    BY <2>5 DEF ProcLimitWait, ProcLimitPass
  <2>6. CASE ProcSubmit
    BY <2>6 DEF ProcSubmit
  <2>7. CASE ProcEnd
    BY <2>7 DEF ProcEnd
  <2>8. CASE FinishSignal
    <3>1. QueueSize' \in Nat /\ QueueSize' <= QueueSize + 1
      BY <2>8, PutFacts DEF FinishSignal
    <3>2. QED
      BY <2>8, <3>1 DEF FinishSignal
  <2>9. CASE StopRunning
    BY <2>9 DEF StopRunning
  <2>10. QED
    BY <1>4, <2>1, <2>2, <2>3, <2>4, <2>5, <2>6, <2>7, <2>8, <2>9 DEF Processor
<1>5. CASE TaskPut
  <2>1. QueueSize' \in Nat /\ QueueSize' <= QueueSize + 1
    BY <1>5, PutFacts DEF TaskPut
  <2>2. QED
    BY <1>5, <2>1 DEF TaskPut
<1>6. CASE TaskReturn \/ TaskFail
  <2>1. ~TaskFail
    BY DEF TaskFail
  <2>2. QED
    BY <1>6, <2>1 DEF TaskReturn
<1>7. CASE Monitor
  BY <1>7 DEF Monitor, MonitorTop, MonitorCheck, MonitorDecide, MonitorResume
<1>8. CASE ResetStaleness
  <2>1. CASE ResetBegin
    BY <2>1 DEF ResetBegin, Active
  <2>2. CASE ResetRead
    BY <2>2 DEF ResetRead
  <2>3. CASE ResetEnd
    BY <2>3 DEF ResetEnd
  <2>4. QED
    BY <1>8, <2>1, <2>2, <2>3 DEF ResetStaleness
<1>9. CASE Trainer
  <2>1. CASE TrainerWait
    BY <2>1 DEF TrainerWait, MQ!GetSampleWait
  <2>2. CASE TrainerTake
    <3>1. QueueSize' \in Nat /\ QueueSize' = QueueSize - 1
      BY <2>2, TakeFacts DEF TrainerTake
    <3>2. QED
      BY <2>2, <3>1 DEF TrainerTake
  <2>3. CASE TrainerStep \/ TrainerSynced \/ TrainerSave \/ TrainerFinal
    BY <2>3 DEF TrainerStep, TrainerSynced, TrainerSave, TrainerFinal
  <2>4. CASE TrainerSync
    BY <2>4 DEF TrainerSync
  <2>5. QED
    BY <1>9, <2>1, <2>2, <2>3, <2>4 DEF Trainer
<1>10. CASE MainDone
  <2>1. QueueSize' = 0
    BY <1>10 DEF MainDone, MQ!ClearQueue
  <2>2. QED
    BY <1>10, <2>1 DEF MainDone
<1>11. QED
  BY <1>3, <1>4, <1>5, <1>6, <1>7, <1>8, <1>9, <1>10 DEF Next

\* Admission control for every configuration: as long as no task fails, at most
\* max_required_samples + 1 samples are ever bound to the same rollout weights,
\* whatever the interleaving of the processor, the monitor, the tasks and
\* reset_staleness.
THEOREM ExposureBoundHolds == Spec => []ExposureBound
<1>1. Init => CountingInv
  <2>1. Init => QueueSize = 0
    BY DEF Init, MQ!QueueInit, QueueSize
  <2>2. QED
    BY <2>1, MaxRequiredPositive
    DEF Init, RollouterInit, CountingInv, Counting, Outstanding, Held, Holding, EndSent
<1>2. CountingInv => ExposureBound
  BY DEF CountingInv, Counting, ExposureBound
<1>3. QED
  BY <1>1, <1>2, CountingStep, StructureHolds, PTL DEF Spec

-----------------------------------------------------------------------------
(* No sample is lost or used twice. *)

\* Only the trainer's own steps move the trainer.
LEMMA OthersKeepTrainer ==
  ASSUME \/ Feeder \/ Processor \/ TaskPut \/ TaskReturn \/ TaskFail
         \/ Monitor \/ ResetStaleness \/ MainDone
  PROVE  UNCHANGED trainVars
<1>1. CASE Feeder \/ TaskPut \/ TaskReturn \/ TaskFail \/ MainDone
  BY <1>1, Zenon
  DEF Feeder, FeedSample, FeedEnd, TaskPut, TaskReturn, TaskFail, MainDone
<1>2. CASE Processor
  BY <1>2, Zenon
  DEF Processor, ProcCheck, ProcDecide, ProcPause, ProcDrain, ProcResume,
      ProcGet, ProcBlock, ProcLimitWait, ProcLimitPass, ProcLimitReap,
      ProcSubmit, ProcEnd, ProcEndReap, FinishSignal, StopRunning
<1>3. CASE Monitor
  BY <1>3, Zenon
  DEF Monitor, MonitorTop, MonitorCheck, MonitorDecide, MonitorResume
<1>4. CASE ResetStaleness
  BY <1>4, Zenon DEF ResetStaleness, ResetBegin, ResetRead, ResetEnd
<1>5. QED
  BY <1>1, <1>2, <1>3, <1>4

\* Every step moves a sample from one place to the next and drops none.
LEMMA AccountedStep ==
  Structure /\ SamplesAccounted /\ [Next]_vars => SamplesAccounted'
<1>1. SamplesAccounted /\ UNCHANGED vars => SamplesAccounted'
  BY DEF vars, SamplesAccounted, InHand, EndSent, EndTaken, Trained,
         QueueSize
<1> SUFFICES ASSUME Structure, SamplesAccounted, Next, failures' = 0
             PROVE  SamplesAccounted'
  BY <1>1 DEF SamplesAccounted
<1>2. /\ failures \in Nat /\ QueueSize \in Nat
      /\ dropped_samples \in Nat /\ cleared \in Nat
  BY DEF Structure, TypeOK, MQ!QueueTypeOK, QueueSize
<1>3. Trained \in Nat /\ EndTaken \in Nat /\ EndSent \in Nat /\ InHand \in Nat
  BY DEF Structure, TypeOK, Trained, EndTaken, EndSent, InHand
<1>4. failures = 0
  <2>1. ~TaskFail
    BY <1>2 DEF TaskFail
  <2>2. UNCHANGED failures
    BY <2>1, Zenon
    DEF Next, Feeder, FeedSample, FeedEnd, Processor, ProcCheck, ProcDecide,
        ProcPause, ProcDrain, ProcResume, ProcGet, ProcBlock, ProcLimitWait,
        ProcLimitPass, ProcLimitReap, ProcSubmit, ProcEnd, ProcEndReap, Reap,
        FinishSignal, StopRunning, TaskPut, TaskReturn, Monitor, MonitorTop,
        MonitorCheck, MonitorDecide, MonitorResume, ResetStaleness,
        ResetBegin, ResetRead, ResetEnd, Trainer, TrainerWait, TrainerTake,
        TrainerStep, TrainerSync, TrainerSynced, TrainerSave, TrainerFinal,
        MainDone
  <2>3. QED
    BY <2>2
<1>5. /\ fed \in Nat /\ pending \in Nat /\ generating \in Nat
      /\ collected \in Nat /\ failed = 0 /\ proc # "raised"
  BY <1>4 DEF Structure, TypeOK, NoFailure
<1>6. UNCHANGED queue => QueueSize' = QueueSize
  BY DEF QueueSize
<1> USE <1>6, <1>2, <1>3, <1>4, <1>5 DEF SamplesAccounted
\* The steps that are not the trainer's.
<1>7. ASSUME ~Trainer
      PROVE  /\ collected' = collected /\ Trained' = Trained
             /\ EndTaken' = EndTaken
  <2>1. UNCHANGED trainVars
    BY <1>7, OthersKeepTrainer DEF Next
  <2>2. QED
    BY <2>1 DEF Trained, EndTaken
<1>8. CASE Feeder /\ ~Trainer
  <2>1. /\ UNCHANGED <<queue, dropped_samples, cleared, generating>>
        /\ EndSent' = EndSent /\ InHand' = InHand
        /\ \/ fed' = fed + 1 /\ pending' = pending + 1
           \/ fed' = fed /\ pending' = pending
    BY <1>8 DEF Feeder, FeedSample, FeedEnd, EndSent, InHand
  <2>2. QED
    BY <1>7, <1>8, <2>1
<1>9. CASE Processor /\ ~Trainer
  <2>1. ASSUME UNCHANGED <<queue, dropped_samples, cleared, fed, pending, generating>>,
               EndSent' = EndSent, InHand' = InHand
        PROVE  SamplesAccounted'
    BY <1>7, <1>9, <2>1
  <2>2. CASE ProcCheck \/ ProcDecide \/ ProcPause \/ ProcResume \/ ProcBlock
    BY <2>1, <2>2 DEF ProcCheck, ProcDecide, ProcPause, ProcResume, ProcBlock,
                      EndSent, InHand
  <2>3. CASE ProcDrain \/ ProcLimitReap \/ ProcEndReap
    <3>1. CASE ProcDrain
      BY <2>1, <3>1 DEF ProcDrain, Reap, EndSent, InHand
    <3>2. CASE ProcLimitReap
      BY <2>1, <3>2 DEF ProcLimitReap, Reap, EndSent, InHand
    <3>3. CASE ProcEndReap
      BY <2>1, <3>3 DEF ProcEndReap, Reap, EndSent, InHand
    <3>4. QED
      BY <2>3, <3>1, <3>2, <3>3
  <2>4. CASE ProcLimitWait \/ ProcLimitPass \/ ProcEnd \/ StopRunning
    BY <2>1, <2>4 DEF ProcLimitWait, ProcLimitPass, ProcEnd, StopRunning,
                      EndSent, InHand
  <2>5. CASE ProcGet
    <3>1. /\ UNCHANGED <<queue, dropped_samples, cleared, generating, fed>>
          /\ EndSent' = EndSent
          /\ pending' + InHand' = pending + InHand
          /\ pending' \in Nat /\ InHand' \in Nat
      BY <2>5 DEF ProcGet, EndSent, InHand
    <3>2. QED
      BY <1>7, <1>9, <3>1
  <2>6. CASE ProcSubmit
    <3>1. /\ UNCHANGED <<queue, dropped_samples, cleared, fed, pending>>
          /\ EndSent' = EndSent
          /\ generating' = generating + 1 /\ InHand = 1 /\ InHand' = 0
      BY <2>6 DEF ProcSubmit, EndSent, InHand
    <3>2. QED
      BY <1>7, <1>9, <3>1
  <2>7. CASE FinishSignal
    <3>1. /\ \/ QueueSize' = QueueSize /\ dropped_samples' = dropped_samples + 1
             \/ QueueSize' = QueueSize + 1 /\ dropped_samples' = dropped_samples
          /\ cleared' = cleared
      BY <2>7, PutFacts DEF FinishSignal, Structure, TypeOK
    <3>2. /\ UNCHANGED <<fed, pending, generating>>
          /\ EndSent' = EndSent + 1 /\ InHand' = InHand
      BY <2>7 DEF FinishSignal, EndSent, InHand
    <3>3. QED
      BY <1>7, <1>9, <3>1, <3>2
  <2>8. QED
    BY <1>9, <2>2, <2>3, <2>4, <2>5, <2>6, <2>7 DEF Processor
<1>10. CASE TaskPut /\ ~Trainer
  <2>1. /\ \/ QueueSize' = QueueSize /\ dropped_samples' = dropped_samples + 1
           \/ QueueSize' = QueueSize + 1 /\ dropped_samples' = dropped_samples
        /\ cleared' = cleared
    BY <1>10, PutFacts DEF TaskPut, Structure, TypeOK
  <2>2. /\ UNCHANGED <<fed, pending>>
        /\ generating' = generating - 1
        /\ EndSent' = EndSent /\ InHand' = InHand
    BY <1>10 DEF TaskPut, EndSent, InHand
  <2>3. collected' = collected /\ Trained' = Trained /\ EndTaken' = EndTaken
    BY <1>7, <1>10
  <2>4. CASE QueueSize' = QueueSize /\ dropped_samples' = dropped_samples + 1
    BY <2>1, <2>2, <2>3, <2>4
  <2>5. CASE QueueSize' = QueueSize + 1 /\ dropped_samples' = dropped_samples
    BY <2>1, <2>2, <2>3, <2>5
  <2>6. QED
    BY <2>1, <2>4, <2>5
<1>11. CASE ~Trainer /\ (TaskReturn \/ TaskFail \/ Monitor \/ ResetStaleness)
  <2>1. ~TaskFail
    BY DEF TaskFail
  <2>2. /\ UNCHANGED <<queue, dropped_samples, cleared, fed, pending, generating>>
        /\ EndSent' = EndSent /\ InHand' = InHand
    BY <1>11, <2>1
    DEF TaskReturn, Monitor, MonitorTop, MonitorCheck, MonitorDecide,
        MonitorResume, ResetStaleness, ResetBegin, ResetRead, ResetEnd,
        EndSent, InHand
  <2>3. QED
    BY <1>7, <1>11, <2>2
<1>12. CASE MainDone /\ ~Trainer
  <2>1. /\ QueueSize' = 0 /\ cleared' = cleared + QueueSize
        /\ dropped_samples' = dropped_samples
    BY <1>12 DEF MainDone, MQ!ClearQueue, QueueSize
  <2>2. /\ UNCHANGED <<fed, pending, generating>>
        /\ EndSent' = EndSent /\ InHand' = InHand
    BY <1>12 DEF MainDone, EndSent, InHand
  <2>3. QED
    BY <1>7, <1>12, <2>1, <2>2
\* The trainer's steps.
<1>13. CASE Trainer
  <2>1. UNCHANGED <<fed, pending, generating>> /\ EndSent' = EndSent /\ InHand' = InHand
    BY <1>13
    DEF Trainer, TrainerWait, TrainerTake, TrainerStep, TrainerSync,
        TrainerSynced, TrainerSave, TrainerFinal, EndSent, InHand
  <2>2. CASE TrainerWait
    <3>1. UNCHANGED <<queue, dropped_samples, cleared, trainVars>>
      BY <2>2 DEF TrainerWait, MQ!GetSampleWait
    <3>2. collected' = collected /\ Trained' = Trained /\ EndTaken' = EndTaken
      BY <3>1 DEF Trained, EndTaken
    <3>3. QED
      BY <2>1, <3>1, <3>2
  <2>3. CASE TrainerTake
    <3>1. /\ QueueSize' \in Nat /\ QueueSize' = QueueSize - 1
          /\ dropped_samples' = dropped_samples /\ cleared' = cleared
      BY <2>3, TakeFacts DEF TrainerTake, Structure, TypeOK
    <3>2. ~stopping
      BY <2>3 DEF TrainerTake, Structure, TrainerPhase
    <3>3. Trained' = Trained
      BY <2>3 DEF TrainerTake, Trained
    <3>4. CASE Head(queue) = "None"
      <4>1. collected' = collected /\ stopping'
        BY <2>3, <3>4, Zenon DEF TrainerTake
      <4>2. EndTaken = 0 /\ EndTaken' = 1
        BY <3>2, <4>1 DEF EndTaken
      <4>3. QED
        BY <2>1, <3>1, <3>3, <4>1, <4>2
    <3>5. CASE Head(queue) # "None"
      <4>1. collected' = collected + 1 /\ EndTaken' = EndTaken
        BY <2>3, <3>5 DEF TrainerTake, EndTaken
      <4>2. QED
        BY <2>1, <3>1, <3>3, <4>1
    <3>6. QED
      BY <3>4, <3>5
  <2>4. CASE TrainerStep
    <3>1. /\ collected = Required /\ collected' = 0
          /\ UNCHANGED <<queue, dropped_samples, cleared, stopping>>
          /\ updates' = updates + 1
      BY <2>4 DEF TrainerStep, Structure, TrainerPhase
    <3>2. Trained' = Trained + Required /\ EndTaken' = EndTaken
      BY <3>1 DEF Trained, EndTaken, Structure, TypeOK
    <3>3. QED
      BY <2>1, <3>1, <3>2
  <2>5. CASE TrainerSync \/ TrainerSynced \/ TrainerSave \/ TrainerFinal
    <3>1. UNCHANGED <<queue, dropped_samples, cleared, collected, stopping,
                      updates>>
      BY <2>5 DEF TrainerSync, TrainerSynced, TrainerSave, TrainerFinal
    <3>2. Trained' = Trained /\ EndTaken' = EndTaken
      BY <3>1 DEF Trained, EndTaken
    <3>3. QED
      BY <2>1, <3>1, <3>2
  <2>6. QED
    BY <1>13, <2>2, <2>3, <2>4, <2>5 DEF Trainer
<1>14. QED
  BY <1>8, <1>9, <1>10, <1>11, <1>12, <1>13 DEF Next

\* Every sample taken from the dataloader is at exactly one place: pending, in
\* hand, generated, queued, dropped, collected or used in one training step.
THEOREM SamplesAccountedHolds == Spec => []SamplesAccounted
<1>1. Init => SamplesAccounted
  <2>1. Init => QueueSize = 0 /\ dropped_samples = 0 /\ cleared = 0
    BY DEF Init, MQ!QueueInit, QueueSize
  <2>2. Required * 0 = 0
    OBVIOUS
  <2>3. QED
    BY <2>1, <2>2 DEF Init, RollouterInit, TrainerInit, SamplesAccounted, InHand, EndSent,
                        EndTaken, Trained
<1>2. QED
  BY <1>1, AccountedStep, StructureHolds, PTL DEF Spec

-----------------------------------------------------------------------------
(* Weights and versions. *)

\* Every step keeps step counter, version and weights in step.
LEMMA VersionStep == TypeOK /\ VersionInv /\ [Next]_vars => VersionInv'
<1> SUFFICES ASSUME TypeOK, VersionInv, [Next]_vars
             PROVE  VersionInv'
  OBVIOUS
<1> DEFINE cycle == current_param_version * Trigger
<1>1. cycle \in Nat /\ last_ckpt_version * Trigger \in Nat
  BY DEF TypeOK
<1>2. CASE Trainer
  <2> USE DEF TypeOK, VersionInv
  <2>1. CASE TrainerWait \/ TrainerTake
    BY <2>1 DEF TrainerWait, TrainerTake
  <2>2. CASE TrainerStep
    <3>1. (current_param_version + 1) * Trigger = cycle + Trigger
      OBVIOUS
    <3>2. CASE local_trigger_step < Trigger
      <4>1. /\ current_param_version' = current_param_version
            /\ local_trigger_step' = local_trigger_step + 1 /\ trainer' # "sync"
        BY <2>2, <3>2 DEF TrainerStep, UpdateLocalStep
      <4>2. QED
        BY <1>1, <2>2, <4>1 DEF TrainerStep
    <3>3. CASE local_trigger_step = Trigger
      <4>1. /\ current_param_version' = current_param_version + 1
            /\ local_trigger_step' = 1 /\ trainer' = "sync"
        BY <2>2, <3>3 DEF TrainerStep, UpdateLocalStep
      <4>2. QED
        BY <1>1, <2>2, <3>1, <3>3, <4>1 DEF TrainerStep
    <3>4. QED
      BY <3>2, <3>3
  <2>3. CASE TrainerSync
    BY <1>1, <2>3 DEF TrainerSync
  <2>4. CASE TrainerSynced \/ TrainerFinal
    BY <1>1, <2>4 DEF TrainerSynced, TrainerFinal
  <2>5. CASE TrainerSave
    BY <1>1, <2>5 DEF TrainerSave
  <2>6. QED
    BY <1>2, <2>1, <2>2, <2>3, <2>4, <2>5 DEF Trainer
<1>3. CASE UNCHANGED trainVars
  BY <1>3 DEF VersionInv
<1>4. QED
  BY <1>2, <1>3, OthersKeepTrainer DEF Next, vars

\* The weights the rollout generates with are those of the version the trainer
\* reports, and a checkpoint labelled v holds the updates of cycle v.
THEOREM WeightsMatchVersionHolds == Spec => []WeightsMatchVersion
<1>1. Init => VersionInv
  BY DEF Init, TrainerInit, VersionInv
<1>2. TypeOK /\ VersionInv => WeightsMatchVersion
  <2>1. TypeOK => (last_ckpt_version + 1) * Trigger
                    = last_ckpt_version * Trigger + Trigger
    BY DEF TypeOK
  <2>2. QED
    BY <2>1 DEF VersionInv, WeightsMatchVersion
<1>3. QED
  BY <1>1, <1>2, VersionStep, TypeCorrect, PTL DEF Spec

-----------------------------------------------------------------------------
(* The queue between the two actors. *)

\* The rollouter and the trainer use the queue only through its methods: in the
\* pipeline the queue does what MessageQueue says, so that what is proved of the
\* queue by itself (no lost wake-up, the accounting, the order) holds here.
THEOREM QueueImplemented == Spec => MQ!QueueSpec
<1>1. Init => MQ!QueueInit
  BY DEF Init
<1>2. [Next]_vars => [MQ!QueueNext]_(MQ!queueVars)
  <2> SUFFICES ASSUME [Next]_vars PROVE MQ!QueueNext \/ UNCHANGED MQ!queueVars
    OBVIOUS
  <2>1. CASE UNCHANGED queueVars
    BY <2>1 DEF queueVars, MQ!queueVars
  <2>2. CASE FinishSignal \/ TaskPut
    BY <2>2 DEF FinishSignal, TaskPut, MQ!QueueNext
  <2>3. CASE TrainerWait \/ TrainerTake
    BY <2>3 DEF TrainerWait, TrainerTake, MQ!QueueNext, MQ!GetSample
  <2>4. CASE MainDone
    BY <2>4 DEF MainDone, MQ!QueueNext
  <2>5. CASE Feeder
    BY <2>1, <2>5 DEF Feeder, FeedSample, FeedEnd
  <2>6. CASE Processor
    BY <2>1, <2>2, <2>6
    DEF Processor, ProcCheck, ProcDecide, ProcPause, ProcDrain, ProcResume,
        ProcGet, ProcBlock, ProcLimitWait, ProcLimitPass, ProcLimitReap,
        ProcSubmit, ProcEnd, ProcEndReap, StopRunning
  <2>7. CASE TaskReturn \/ TaskFail
    BY <2>1, <2>7 DEF TaskReturn, TaskFail
  <2>8. CASE Monitor
    BY <2>1, <2>8
    DEF Monitor, MonitorTop, MonitorCheck, MonitorDecide, MonitorResume
  <2>9. CASE ResetStaleness
    BY <2>1, <2>9 DEF ResetStaleness, ResetBegin, ResetRead, ResetEnd
  <2>10. CASE Trainer
    BY <2>1, <2>3, <2>10
    DEF Trainer, TrainerStep, TrainerSync, TrainerSynced, TrainerSave,
        TrainerFinal
  <2>11. QED
    BY <2>1, <2>2, <2>4, <2>5, <2>6, <2>7, <2>8, <2>9, <2>10 DEF Next, vars
<1>3. QED
  BY <1>1, <1>2, PTL DEF Spec, MQ!QueueSpec
=============================================================================
