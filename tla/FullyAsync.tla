----------------------------- MODULE FullyAsync -----------------------------
(***************************************************************************)
(* The fully asynchronous pipeline: FullyAsyncRollouter, the MessageQueue  *)
(* actor and FullyAsyncTrainer, three Ray actors that run side by side.    *)
(*                                                                         *)
(* The rollouter is one asyncio loop with five coroutines: the feeder      *)
(* (_feed_samples), the processor (_processor_worker), one task per sample *)
(* (_process_single_sample_streaming), the monitor (_async_monitor_loop)   *)
(* and reset_staleness, which the trainer calls.  A step below is what a   *)
(* coroutine does between two awaits; an RPC to the queue is a step at the *)
(* queue and a later step of the caller that uses the answer.              *)
(*                                                                         *)
(* Samples are interchangeable for admission control, so tasks are counted *)
(* by their stage.  The end signals (None) travel through both queues.     *)
(***************************************************************************)
EXTENDS Integers, Sequences

CONSTANTS
  TotalRolloutSteps, \* samples fed in the run (total_rollout_steps)
  Required,          \* required_samples, the samples of one training step
  Trigger,           \* trigger_parameter_sync_step
  StalenessPercent,  \* staleness_threshold, in hundredths
  Capacity,          \* active servers * concurrent_samples_per_replica
  PendingCap,        \* maxsize of pending_queue (128 in the code)
  SaveFreq,          \* trainer.save_freq (0: no checkpoints)
  TestFreq,          \* trainer.test_freq
  MaxFailures        \* bounds the generation tasks that raise an exception

ASSUME FullyAsyncAssumption ==
  /\ TotalRolloutSteps \in Nat \ {0}
  /\ Required \in Nat \ {0}
  /\ Trigger \in Nat \ {0}
  /\ StalenessPercent \in Nat
  /\ Capacity \in Nat \ {0}
  /\ PendingCap \in Nat \ {0}
  /\ SaveFreq \in Nat
  /\ TestFreq \in Nat \ {0}
  /\ MaxFailures \in Nat

\* set_max_required_samples: int(required * (staleness + 1) * trigger).
MaxRequired == (Required * Trigger * (100 + StalenessPercent)) \div 100

MaxConcurrent == IF Capacity < MaxRequired THEN Capacity ELSE MaxRequired

VARIABLES
  \* message queue actor
  queue, total_produced, total_consumed, dropped_samples, getter, log,
  val_queue, mq_running, cleared,
  \* feeder
  fed,               \* samples taken from the dataloader
  pending,           \* samples waiting in pending_queue
  feed_ended,        \* None has been put behind them
  \* processor
  proc,              \* where _processor_worker (then its parent) stands
  proc_seen,         \* the queue size answered to its last get_statistics
  paused, resume_event,
  staleness_samples,
  lock,              \* who holds self.lock across an await
  \* the tasks in active_tasks, by stage
  generating,        \* in generate_sequences_single
  sent,              \* put_sample has run at the queue, answer on its way
  finished,          \* the coroutine has returned, not yet reaped
  failed,            \* the coroutine has raised, not yet reaped
  failures,          \* history: tasks that raised
  \* monitor and reset_staleness
  mon, mon_seen, rollouter_running,
  reset, reset_sum,
  \* trainer
  trainer,           \* where fit stands
  collected,         \* samples of the batch being collected
  stopping,          \* the end signal has been received
  current_param_version, local_trigger_step, last_ckpt_version,
  \* history
  updates,           \* actor updates made
  rollout_updates,   \* actor updates contained in the rollout weights
  saved_updates,     \* actor updates contained in the last checkpoint
  exposure           \* samples bound to the current rollout weights: the ones
                     \* outstanding at the last reset and the ones taken since

queueVars == <<queue, total_produced, total_consumed, dropped_samples, getter,
               log, val_queue, mq_running, cleared>>
feedVars == <<fed, pending, feed_ended>>
procVars == <<proc, proc_seen>>
flagVars == <<paused, resume_event>>
taskVars == <<generating, sent, finished, failed, failures>>
monVars == <<mon, mon_seen, rollouter_running>>
resetVars == <<reset, reset_sum>>
trainVars == <<trainer, collected, stopping, current_param_version,
               local_trigger_step, last_ckpt_version, updates,
               rollout_updates, saved_updates>>
countVars == <<staleness_samples, exposure>>
vars == <<queueVars, feedVars, procVars, flagVars, taskVars, monVars,
          resetVars, trainVars, countVars, lock>>

\* The queue between them (its shutdown and its validation queue are not used
\* by these two actors).
MQ == INSTANCE MessageQueue WITH
        Samples <- {"sample", "None"}, Consumers <- {"trainer"},
        MaxQueueSize <- MaxRequired,
        MaxPuts <- TotalRolloutSteps + 1, MaxValQueue <- 0,
        running <- mq_running

-----------------------------------------------------------------------------
\* get_queue_size, and the queue_size of get_statistics
QueueSize == Len(queue)

Active == generating + sent + finished + failed

\* The processor has an item of pending_queue in hand (the end signal too).
Holding == {"limit", "limit_lock", "waiting", "submit", "submit_lock",
            "ending", "endwait", "ended"}
Held == IF proc \in Holding THEN 1 ELSE 0

\* The processor is between two awaits: no other coroutine of the rollouter's
\* event loop runs now (the queue and the trainer are other processes).
LoopBusy == proc \in {"limit", "submit", "pausing"}

\* Items on their way from pending_queue to the trainer.
Outstanding == Held + generating + QueueSize

RollouterInit ==
  /\ fed = 0 /\ pending = 0 /\ feed_ended = FALSE
  /\ proc = "check" /\ proc_seen = 0
  /\ paused = FALSE /\ resume_event = TRUE
  /\ staleness_samples = 0 /\ exposure = 0
  /\ lock = "free"
  /\ generating = 0 /\ sent = 0 /\ finished = 0 /\ failed = 0 /\ failures = 0
  /\ mon = "top" /\ mon_seen = 0 /\ rollouter_running = TRUE
  /\ reset = "idle" /\ reset_sum = 0

TrainerInit ==
  /\ trainer = "collect" /\ collected = 0 /\ stopping = FALSE
  /\ current_param_version = 0 /\ local_trigger_step = 1
  /\ last_ckpt_version = 0
  /\ updates = 0 /\ rollout_updates = 0 /\ saved_updates = 0

Init == MQ!QueueInit /\ RollouterInit /\ TrainerInit

-----------------------------------------------------------------------------
(* Feeder *)

\* pending_queue.put blocks while the queue is full.
FeedSample ==
  /\ ~LoopBusy /\ proc \notin {"signalled", "stopped"}
  /\ fed < TotalRolloutSteps /\ pending < PendingCap
  /\ fed' = fed + 1 /\ pending' = pending + 1
  /\ UNCHANGED <<feed_ended, queueVars, procVars, flagVars, taskVars, monVars,
                 resetVars, trainVars, countVars, lock>>

FeedEnd ==
  /\ ~LoopBusy
  /\ fed = TotalRolloutSteps /\ pending < PendingCap /\ ~feed_ended
  /\ feed_ended' = TRUE
  /\ UNCHANGED <<fed, pending, queueVars, procVars, flagVars, taskVars,
                 monVars, resetVars, trainVars, countVars, lock>>

-----------------------------------------------------------------------------
(* Processor *)

\* Mutant of ShouldPause: only the queue is looked at.
MutPauseOnQueueOnly(seen) == seen >= MaxRequired

\* _should_pause_generation: seen is the queue size of the answer, the counter
\* is read when the answer arrives; max_queue_size is max_required_samples.
ShouldPause(seen) == seen >= MaxRequired \/ staleness_samples >= MaxRequired

\* Top of the loop: paused, or ask the queue for its statistics.
ProcCheck ==
  /\ proc = "check"
  /\ IF paused THEN proc' = "pausing" /\ UNCHANGED proc_seen
               ELSE proc' = "asked" /\ proc_seen' = QueueSize
  /\ UNCHANGED <<queueVars, feedVars, flagVars, taskVars, monVars, resetVars,
                 trainVars, countVars, lock>>

ProcDecide ==
  /\ proc = "asked"
  /\ proc' = IF ShouldPause(proc_seen) THEN "pausing" ELSE "get"
  /\ UNCHANGED <<proc_seen, queueVars, feedVars, flagVars, taskVars, monVars,
                 resetVars, trainVars, countVars, lock>>

\* "async with self.lock" goes through at once unless the lock is taken or
\* another coroutine is already queueing for it; then the processor queues too.
ProcBlock ==
  /\ \/ proc = "pausing" /\ proc' = "pause_lock"
     \/ proc = "limit" /\ Active >= MaxConcurrent /\ proc' = "limit_lock"
     \/ proc = "submit" /\ proc' = "submit_lock"
  /\ lock # "free" \/ reset = "called" \/ mon \in {"top", "resume"}
  /\ UNCHANGED <<proc_seen, queueVars, feedVars, flagVars, taskVars, monVars,
                 resetVars, trainVars, countVars, lock>>

ProcPause ==
  /\ proc \in {"pausing", "pause_lock"} /\ lock = "free"
  /\ paused' = TRUE /\ resume_event' = FALSE
  /\ proc' = "drain"
  /\ UNCHANGED <<proc_seen, queueVars, feedVars, taskVars, monVars, resetVars,
                 trainVars, countVars, lock>>

\* Tasks that have ended leave active_tasks and are awaited, which raises the
\* exception of a failed one.  The processor then goes on at next.  (Tasks that
\* a raise leaves behind in active_tasks are not looked at any more.)
Reap(next) ==
  /\ finished + failed > 0
  /\ finished' = 0 /\ failed' = 0
  /\ proc' = IF failed > 0 THEN "raised" ELSE next
  /\ UNCHANGED <<generating, sent, failures>>

\* The drain waits for an active task or for the resume signal.  The tasks to
\* reap are picked before the lock is asked for: one that ends while the lock is
\* taken stays in active_tasks.
ProcDrain ==
  /\ proc = "drain" /\ lock = "free"
  /\ \E f \in 0..finished, g \in 0..failed :
       /\ f + g > 0
       /\ finished' = finished - f /\ failed' = failed - g
       /\ proc' = IF g > 0 THEN "raised" ELSE "drain"
  /\ UNCHANGED <<generating, sent, failures, proc_seen, queueVars, feedVars,
                 flagVars, monVars, resetVars, trainVars, countVars, lock>>

ProcResume ==
  /\ proc = "drain" /\ resume_event
  /\ proc' = "check"
  /\ UNCHANGED <<proc_seen, queueVars, feedVars, flagVars, taskVars, monVars,
                 resetVars, trainVars, countVars, lock>>

\* staleness_samples is incremented without the lock, for the end signal too.
ProcGet ==
  /\ proc = "get"
  /\ \/ pending > 0 /\ pending' = pending - 1 /\ proc' = "limit"
     \/ pending = 0 /\ feed_ended /\ proc' = "ending" /\ UNCHANGED pending
  /\ staleness_samples' = staleness_samples + 1
  /\ exposure' = exposure + 1
  /\ UNCHANGED <<proc_seen, fed, feed_ended, queueVars, flagVars, taskVars,
                 monVars, resetVars, trainVars, lock>>

\* At the concurrency limit the processor takes the lock and keeps it until a
\* task has ended.
ProcLimitWait ==
  /\ \/ proc = "limit" /\ Active >= MaxConcurrent
     \/ proc = "limit_lock"
  /\ lock = "free" /\ lock' = "proc"
  /\ proc' = "waiting"
  /\ UNCHANGED <<proc_seen, queueVars, feedVars, flagVars, taskVars, monVars,
                 resetVars, trainVars, countVars>>

ProcLimitPass ==
  /\ proc = "limit" /\ Active < MaxConcurrent
  /\ proc' = "submit"
  /\ UNCHANGED <<proc_seen, queueVars, feedVars, flagVars, taskVars, monVars,
                 resetVars, trainVars, countVars, lock>>

ProcLimitReap ==
  /\ proc = "waiting"
  /\ Reap("limit")
  /\ lock' = "free"
  /\ UNCHANGED <<proc_seen, queueVars, feedVars, flagVars, monVars, resetVars,
                 trainVars, countVars>>

ProcSubmit ==
  /\ proc \in {"submit", "submit_lock"} /\ lock = "free"
  /\ paused => resume_event
  /\ generating' = generating + 1
  /\ proc' = "check"
  /\ UNCHANGED <<proc_seen, queueVars, feedVars, flagVars, sent, finished,
                 failed, failures, monVars, resetVars, trainVars, countVars,
                 lock>>

\* After the end signal the processor waits for all tasks, lock in hand.
ProcEnd ==
  /\ proc = "ending"
  /\ IF Active > 0
       THEN lock = "free" /\ lock' = "proc" /\ proc' = "endwait"
       ELSE proc' = "ended" /\ UNCHANGED lock
  /\ UNCHANGED <<proc_seen, queueVars, feedVars, flagVars, taskVars, monVars,
                 resetVars, trainVars, countVars>>

ProcEndReap ==
  /\ proc = "endwait"
  /\ Reap("ending")
  /\ lock' = "free"
  /\ UNCHANGED <<proc_seen, queueVars, feedVars, flagVars, monVars, resetVars,
                 trainVars, countVars>>

\* _streaming_generation_main: whether the processor returned or raised, the
\* feeder is cancelled, the trainer is sent None, then running is cleared.
FinishSignal ==
  /\ proc \in {"ended", "raised"}
  /\ MQ!PutSample("None")
  /\ proc' = "signalled"
  /\ UNCHANGED <<proc_seen, feedVars, flagVars, taskVars, monVars, resetVars,
                 trainVars, countVars, lock>>

StopRunning ==
  /\ proc = "signalled" /\ lock = "free"
  /\ rollouter_running' = FALSE
  /\ proc' = "stopped"
  /\ UNCHANGED <<proc_seen, queueVars, feedVars, flagVars, taskVars, mon,
                 mon_seen, resetVars, trainVars, countVars, lock>>

-----------------------------------------------------------------------------
(* Tasks *)

\* Generation ends and put_sample runs at the queue.
TaskPut ==
  /\ generating > 0
  /\ MQ!PutSample("sample")
  /\ generating' = generating - 1 /\ sent' = sent + 1
  /\ UNCHANGED <<finished, failed, failures, feedVars, procVars, flagVars,
                 monVars, resetVars, trainVars, countVars, lock>>

\* The answer arrives and the coroutine returns.
TaskReturn ==
  /\ ~LoopBusy /\ sent > 0
  /\ sent' = sent - 1 /\ finished' = finished + 1
  /\ UNCHANGED <<generating, failed, failures, queueVars, feedVars, procVars,
                 flagVars, monVars, resetVars, trainVars, countVars, lock>>

TaskFail ==
  /\ ~LoopBusy /\ generating > 0 /\ failures < MaxFailures
  /\ generating' = generating - 1
  /\ failed' = failed + 1 /\ failures' = failures + 1
  /\ UNCHANGED <<sent, finished, queueVars, feedVars, procVars, flagVars,
                 monVars, resetVars, trainVars, countVars, lock>>

-----------------------------------------------------------------------------
(* Monitor: every check_interval, resume a rollouter that need not pause. *)

\* Top of the loop, under the lock: leave once the rollouter has stopped.
MonitorTop ==
  /\ ~LoopBusy /\ mon = "top" /\ lock = "free"
  /\ mon' = IF rollouter_running THEN "sleep" ELSE "stopped"
  /\ UNCHANGED <<mon_seen, rollouter_running, queueVars, feedVars, procVars,
                 flagVars, taskVars, resetVars, trainVars, countVars, lock>>

MonitorCheck ==
  /\ ~LoopBusy /\ mon = "sleep"
  /\ IF paused THEN mon' = "asked" /\ mon_seen' = QueueSize
               ELSE mon' = "top" /\ UNCHANGED mon_seen
  /\ UNCHANGED <<rollouter_running, queueVars, feedVars, procVars, flagVars,
                 taskVars, resetVars, trainVars, countVars, lock>>

MonitorDecide ==
  /\ ~LoopBusy /\ mon = "asked"
  /\ mon' = IF ShouldPause(mon_seen) THEN "top" ELSE "resume"
  /\ UNCHANGED <<mon_seen, rollouter_running, queueVars, feedVars, procVars,
                 flagVars, taskVars, resetVars, trainVars, countVars, lock>>

\* Mutant of MonitorResume: the flag is cleared, the event is not set.
MutResumeNoEvent ==
  /\ ~LoopBusy /\ mon = "resume" /\ lock = "free"
  /\ paused' = FALSE
  /\ mon' = "top"
  /\ UNCHANGED <<mon_seen, rollouter_running, resume_event, queueVars,
                 feedVars, procVars, taskVars, resetVars, trainVars,
                 countVars, lock>>

MonitorResume ==
  /\ ~LoopBusy /\ mon = "resume" /\ lock = "free"
  /\ paused' = FALSE /\ resume_event' = TRUE
  /\ mon' = "top"
  /\ UNCHANGED <<mon_seen, rollouter_running, queueVars, feedVars, procVars,
                 taskVars, resetVars, trainVars, countVars, lock>>

-----------------------------------------------------------------------------
(* reset_staleness: the lock is held while the queue size is asked for. *)

\* len(active_tasks) is evaluated first, then the await.
ResetBegin ==
  /\ ~LoopBusy /\ reset = "called" /\ lock = "free"
  /\ lock' = "reset"
  /\ paused' = FALSE /\ resume_event' = TRUE
  /\ reset_sum' = Active
  /\ reset' = "counting"
  /\ UNCHANGED <<queueVars, feedVars, procVars, taskVars, monVars, trainVars,
                 countVars>>

ResetRead ==
  /\ reset = "counting"
  /\ reset_sum' = reset_sum + QueueSize
  /\ reset' = "counted"
  /\ UNCHANGED <<queueVars, feedVars, procVars, flagVars, taskVars, monVars,
                 trainVars, countVars, lock>>

\* The assignment overwrites what the processor added in the meantime.
ResetEnd ==
  /\ ~LoopBusy /\ reset = "counted"
  /\ staleness_samples' = reset_sum
  /\ exposure' = Outstanding
  /\ lock' = "free"
  /\ reset' = "idle" /\ reset_sum' = 0
  /\ UNCHANGED <<queueVars, feedVars, procVars, flagVars, taskVars, monVars,
                 trainVars>>

-----------------------------------------------------------------------------
(* Trainer *)

TrainerWait ==
  /\ trainer = "collect"
  /\ MQ!GetSampleWait("trainer")
  /\ UNCHANGED <<feedVars, procVars, flagVars, taskVars, monVars, resetVars,
                 trainVars, countVars, lock>>

\* _get_samples_from_queue: the end signal ends the training, and the samples
\* of an incomplete batch are not used.
TrainerTake ==
  /\ trainer = "collect"
  /\ MQ!GetSampleTake("trainer")
  /\ IF Head(queue) = "None"
       THEN trainer' = "final" /\ stopping' = TRUE /\ UNCHANGED collected
       ELSE /\ collected' = collected + 1
            /\ trainer' = IF collected + 1 < Required THEN "collect" ELSE "train"
            /\ UNCHANGED stopping
  /\ UNCHANGED <<current_param_version, local_trigger_step, last_ckpt_version,
                 updates, rollout_updates, saved_updates, feedVars, procVars,
                 flagVars, taskVars, monVars, resetVars, countVars, lock>>

\* Mutant of UpdateLocalStep: the version is bumped one step late.
MutLocalStepLate ==
  IF local_trigger_step <= Trigger
    THEN /\ local_trigger_step' = local_trigger_step + 1
         /\ UNCHANGED current_param_version
    ELSE /\ current_param_version' = current_param_version + 1
         /\ local_trigger_step' = 1

\* _fit_update_local_step
UpdateLocalStep ==
  IF local_trigger_step < Trigger
    THEN /\ local_trigger_step' = local_trigger_step + 1
         /\ UNCHANGED current_param_version
    ELSE /\ current_param_version' = current_param_version + 1
         /\ local_trigger_step' = 1

\* Mutant of TrainerStep: the batch is not handed over but kept.
MutBatchKept ==
  /\ trainer = "train"
  /\ updates' = updates + 1
  /\ UpdateLocalStep
  /\ trainer' = IF local_trigger_step' = 1 THEN "sync" ELSE "save"
  /\ UNCHANGED <<collected, stopping, last_ckpt_version, rollout_updates,
                 saved_updates, queueVars, feedVars, procVars, flagVars,
                 taskVars, monVars, resetVars, countVars, lock>>

\* fit_step up to _fit_update_weights, which does nothing within a cycle.
TrainerStep ==
  /\ trainer = "train"
  /\ updates' = updates + 1 /\ collected' = 0
  /\ UpdateLocalStep
  /\ trainer' = IF local_trigger_step' = 1 THEN "sync" ELSE "save"
  /\ UNCHANGED <<stopping, last_ckpt_version, rollout_updates, saved_updates,
                 queueVars, feedVars, procVars, flagVars, taskVars, monVars,
                 resetVars, countVars, lock>>

\* Mutant of TrainerSync: reset_staleness is called, the broadcast forgotten.
MutSyncNoBroadcast ==
  /\ trainer = "sync"
  /\ reset' = "called" /\ UNCHANGED reset_sum
  /\ trainer' = "reset"
  /\ UNCHANGED <<collected, stopping, current_param_version,
                 local_trigger_step, last_ckpt_version, updates,
                 rollout_updates, saved_updates, queueVars, feedVars,
                 procVars, flagVars, taskVars, monVars, countVars, lock>>

\* _fit_update_weights: broadcast the weights, then call reset_staleness.
TrainerSync ==
  /\ trainer = "sync"
  /\ rollout_updates' = updates
  /\ reset' = "called" /\ UNCHANGED reset_sum
  /\ trainer' = "reset"
  /\ UNCHANGED <<collected, stopping, current_param_version,
                 local_trigger_step, last_ckpt_version, updates,
                 saved_updates, queueVars, feedVars, procVars, flagVars,
                 taskVars, monVars, countVars, lock>>

TrainerSynced ==
  /\ trainer = "reset" /\ reset = "idle"
  /\ trainer' = "save"
  /\ UNCHANGED <<collected, stopping, current_param_version,
                 local_trigger_step, last_ckpt_version, updates,
                 rollout_updates, saved_updates, queueVars, feedVars,
                 procVars, flagVars, taskVars, monVars, resetVars, countVars,
                 lock>>

\* _fit_save_checkpoint(force): esi is the answer of should_save_ckpt_esi.
SaveDue(force, esi) ==
  /\ SaveFreq > 0
  /\ current_param_version # last_ckpt_version
  /\ force \/ current_param_version % SaveFreq = 0 \/ esi

TrainerSave ==
  /\ trainer = "save"
  /\ \E esi \in BOOLEAN :
       IF SaveDue(stopping, esi)
         THEN /\ saved_updates' = updates
              /\ last_ckpt_version' = current_param_version
         ELSE UNCHANGED <<saved_updates, last_ckpt_version>>
  /\ trainer' = IF stopping THEN "done" ELSE "collect"
  /\ UNCHANGED <<collected, stopping, current_param_version,
                 local_trigger_step, updates, rollout_updates, queueVars,
                 feedVars, procVars, flagVars, taskVars, monVars, resetVars,
                 countVars, lock>>

\* fit after the loop: a last weight update (which returns at once within a
\* cycle), then a forced save.
TrainerFinal ==
  /\ trainer = "final"
  /\ trainer' =
       IF current_param_version % TestFreq # 0 /\ local_trigger_step = 1
         THEN "sync" ELSE "save"
  /\ UNCHANGED <<collected, stopping, current_param_version,
                 local_trigger_step, last_ckpt_version, updates,
                 rollout_updates, saved_updates, queueVars, feedVars,
                 procVars, flagVars, taskVars, monVars, resetVars, countVars,
                 lock>>

-----------------------------------------------------------------------------
Feeder == FeedSample \/ FeedEnd

Processor ==
  \/ ProcCheck \/ ProcDecide \/ ProcPause \/ ProcDrain \/ ProcResume
  \/ ProcGet \/ ProcBlock \/ ProcLimitWait \/ ProcLimitPass
  \/ ProcLimitReap \/ ProcSubmit
  \/ ProcEnd \/ ProcEndReap \/ FinishSignal \/ StopRunning

Monitor == MonitorTop \/ MonitorCheck \/ MonitorDecide \/ MonitorResume

ResetStaleness == ResetBegin \/ ResetRead \/ ResetEnd

Trainer ==
  \/ TrainerWait \/ TrainerTake \/ TrainerStep \/ TrainerSync
  \/ TrainerSynced \/ TrainerSave \/ TrainerFinal

\* FullyAsyncTaskRunner: both fit() calls have returned, the queue is cleared.
MainDone ==
  /\ trainer = "done" /\ proc = "stopped" /\ mon = "stopped"
  /\ MQ!ClearQueue
  /\ UNCHANGED <<feedVars, procVars, flagVars, taskVars, monVars, resetVars,
                 trainVars, countVars, lock>>

Next ==
  \/ Feeder \/ Processor \/ TaskPut \/ TaskReturn \/ TaskFail
  \/ Monitor \/ ResetStaleness \/ Trainer \/ MainDone

Spec == Init /\ [][Next]_vars

\* Every coroutine that can run is run by its event loop, RPCs are answered,
\* generation of a sample ends, and self.lock is handed over in FIFO order.
Fairness ==
  /\ WF_vars(Feeder) /\ WF_vars(Processor)
  /\ WF_vars(TaskPut) /\ WF_vars(TaskReturn)
  /\ SF_vars(Monitor)
  /\ WF_vars(ResetStaleness) /\ SF_vars(ResetBegin)
  /\ WF_vars(Trainer)

FairSpec == Spec /\ Fairness

-----------------------------------------------------------------------------
(* Properties *)

ProcStates == {"check", "asked", "pausing", "pause_lock", "drain", "get",
               "limit", "limit_lock", "waiting", "submit", "submit_lock",
               "ending", "endwait", "ended", "raised", "signalled", "stopped"}

TypeOK ==
  /\ MQ!QueueTypeOK
  /\ fed \in 0..TotalRolloutSteps /\ pending \in 0..PendingCap
  /\ feed_ended \in BOOLEAN
  /\ proc \in ProcStates /\ proc_seen \in Nat
  /\ paused \in BOOLEAN /\ resume_event \in BOOLEAN
  /\ staleness_samples \in Nat /\ exposure \in Nat
  /\ lock \in {"free", "proc", "reset"}
  /\ generating \in Nat /\ sent \in Nat /\ finished \in Nat
  /\ failed \in Nat /\ failures \in 0..MaxFailures
  /\ mon \in {"top", "sleep", "asked", "resume", "stopped"} /\ mon_seen \in Nat
  /\ rollouter_running \in BOOLEAN
  /\ reset \in {"idle", "called", "counting", "counted"} /\ reset_sum \in Nat
  /\ trainer \in {"collect", "train", "sync", "reset", "save", "final",
                  "done"}
  /\ collected \in 0..Required /\ stopping \in BOOLEAN
  /\ current_param_version \in Nat /\ local_trigger_step \in 1..Trigger
  /\ last_ckpt_version \in Nat
  /\ updates \in Nat /\ rollout_updates \in Nat /\ saved_updates \in Nat

\* Admission control: whatever reset_staleness, the monitor and the processor
\* do to each other's counts, at most one sample more than max_required_samples
\* is ever bound to the same rollout weights (staleness_samples is what
\* _should_pause_generation compares with max_required_samples).
ExposureBound == failures = 0 => exposure <= MaxRequired + 1

\* Where a sample (or the end signal) can be besides the queues and the tasks.
InHand ==
  IF proc \in {"limit", "limit_lock", "waiting", "submit", "submit_lock"}
    THEN 1 ELSE 0
EndSent == IF proc \in {"signalled", "stopped"} THEN 1 ELSE 0
EndTaken == IF stopping THEN 1 ELSE 0
Trained == Required * updates

\* No sample is lost or trained on twice: each one the feeder took is pending,
\* in the processor's hand, being generated, queued, dropped by a full queue,
\* in the batch being collected or in exactly one training step.
SamplesAccounted ==
  failures = 0 =>
    fed + EndSent
      = pending + InHand + generating + QueueSize + dropped_samples + cleared
        + collected + Trained + EndTaken

\* Versions and weights go together: the rollout generates with the weights of
\* the last complete cycle while the trainer is at most a cycle ahead, and a
\* checkpoint labelled v holds cycle v and nothing of cycle v + 1's end.
WeightsMatchVersion ==
  /\ trainer = "collect" =>
       /\ updates = current_param_version * Trigger + local_trigger_step - 1
       /\ rollout_updates = current_param_version * Trigger
  /\ last_ckpt_version * Trigger <= saved_updates
  /\ saved_updates < (last_ckpt_version + 1) * Trigger

\* The pipeline drains: both actors return once the dataset is used up or a
\* generation task has failed.  The monitor repairs a pause that was decided
\* on counts reset_staleness has replaced since.
Termination == <>(trainer = "done" /\ proc = "stopped" /\ mon = "stopped")
=============================================================================
