--------------------------- MODULE ElasticPipeline ---------------------------
(***************************************************************************)
(* The fully asynchronous pipeline under dynamic resource scheduling: the  *)
(* trainer takes the hybrid replicas away for a synchronisation cycle and  *)
(* gives them back after it, so that the rollouter's capacity changes while*)
(* it runs.  FullyAsync follows single samples at a fixed capacity and     *)
(* HybridServing single requests; here samples are counted, and it matters *)
(* who waits for whom.                                                     *)
(*                                                                         *)
(* The rollouter is one actor with one event loop: processor, tasks,       *)
(* monitor and the calls of the trainer take turns, and a coroutine that   *)
(* loops without awaiting anything stops them all (Spinning).              *)
(***************************************************************************)
EXTENDS Naturals, FiniteSets

CONSTANTS
  Configs,      \* the configurations to choose from
  Samples       \* samples in the data: total_rollout_steps

Config == [standalone : Nat,          \* replicas of their own
           hybrid : Nat \ {0},        \* replicas on the trainer's devices
           per_replica : Nat \ {0},   \* concurrent_samples_per_replica
           required : Nat \ {0},      \* samples of a batch
           trigger : Nat \ {0},       \* trigger_parameter_sync_step
           max_required : Nat \ {0}]  \* max_required_samples

ASSUME ElasticAssumption ==
  /\ Configs \subseteq Config /\ Samples \in Nat
  /\ \A c \in Configs : c.max_required >= c.required * c.trigger

VARIABLES
  cfg,
  left,             \* samples not yet taken by the processor
  proc,             \* the processor
  paused,           \* with _resume_event, which is set iff not paused
  staleness_samples,
  generating, putting, done,  \* active_tasks, by how far they are
  queue, closed,    \* the message queue: samples, and then the end signal
  max_concurrent_samples,
  trainer,          \* the trainer
  threshold,        \* what it waits for before it deactivates
  collected,        \* samples of the batch it is collecting
  local_trigger_step,
  hybrid_active

rollouterVars == <<left, proc, paused, staleness_samples, generating, putting,
                   done, queue, closed>>
trainerVars == <<trainer, threshold, collected, local_trigger_step>>
vars == <<cfg, rollouterVars, max_concurrent_samples, trainerVars,
          hybrid_active>>

OnlyHybrid == cfg.standalone = 0
StepRequired == cfg.required * cfg.trigger
ActiveTasks == generating + putting + done
QueueSize == queue + (IF closed THEN 1 ELSE 0)
Servers == cfg.standalone + (IF hybrid_active THEN cfg.hybrid ELSE 0)

\* _update_max_concurrent_samples
Capacity(replicas) ==
  IF replicas * cfg.per_replica <= cfg.max_required
    THEN replicas * cfg.per_replica ELSE cfg.max_required

-----------------------------------------------------------------------------
(* The rollouter *)

\* The processor has a sample, no capacity to submit it and no task to wait
\* for: while len(active_tasks) >= max_concurrent_samples never awaits.
Spinning == proc = "limit" /\ max_concurrent_samples = 0 /\ ActiveTasks = 0

\* The processor keeps the lock while it waits for a task to end.
LockFree == proc \notin {"limit_wait", "end_wait"}

ShouldPause == \/ QueueSize >= cfg.max_required
               \/ staleness_samples >= cfg.max_required

\* The head of the loop: pause, or take a sample or the end signal.
ProcTop ==
  /\ proc = "top"
  /\ \/ /\ paused \/ ShouldPause
        /\ paused' = TRUE /\ proc' = "drain"
        /\ UNCHANGED <<left, staleness_samples>>
     \/ /\ ~paused /\ ~ShouldPause
        /\ staleness_samples' = staleness_samples + 1
        /\ IF left > 0 THEN left' = left - 1 /\ proc' = "limit"
                       ELSE left' = left /\ proc' = "end"
        /\ UNCHANGED paused
  /\ UNCHANGED <<cfg, generating, putting, done, queue, closed,
                 max_concurrent_samples, trainerVars, hybrid_active>>

\* The drain reaps tasks that are done, until there is a resume signal.
ProcDrain ==
  /\ proc = "drain"
  /\ \/ paused /\ done > 0 /\ done' = 0 /\ UNCHANGED proc
     \/ ~paused /\ proc' = "top" /\ UNCHANGED done
  /\ UNCHANGED <<cfg, left, paused, staleness_samples, generating, putting,
                 queue, closed, max_concurrent_samples, trainerVars,
                 hybrid_active>>

\* At the limit the processor takes the lock and waits for a task; below it
\* submits the sample, after a resume signal if generation is paused.
ProcLimit ==
  /\ proc = "limit"
  /\ \/ /\ ActiveTasks >= max_concurrent_samples /\ ActiveTasks > 0
        /\ proc' = "limit_wait"
     \/ /\ ActiveTasks < max_concurrent_samples
        /\ proc' = "submit"
  /\ UNCHANGED <<cfg, left, paused, staleness_samples, generating, putting,
                 done, queue, closed, max_concurrent_samples, trainerVars,
                 hybrid_active>>

ProcReap ==
  /\ proc \in {"limit_wait", "end_wait"} /\ done > 0
  /\ done' = 0
  /\ proc' = IF proc = "limit_wait" THEN "limit" ELSE "end"
  /\ UNCHANGED <<cfg, left, paused, staleness_samples, generating, putting,
                 queue, closed, max_concurrent_samples, trainerVars,
                 hybrid_active>>

ProcSubmit ==
  /\ proc = "submit" /\ ~paused
  /\ generating' = generating + 1
  /\ proc' = "top"
  /\ UNCHANGED <<cfg, left, paused, staleness_samples, putting, done, queue,
                 closed, max_concurrent_samples, trainerVars, hybrid_active>>

\* A put into a full queue costs its oldest entry.
Put(n) == IF QueueSize >= cfg.max_required THEN n - 1 ELSE n

\* After the end signal the processor waits for the tasks; then
\* _streaming_generation_main puts the end signal into the queue.
ProcEnd ==
  /\ proc = "end"
  /\ IF ActiveTasks > 0
       THEN proc' = "end_wait" /\ UNCHANGED <<queue, closed>>
       ELSE proc' = "over" /\ closed' = TRUE /\ queue' = Put(queue)
  /\ UNCHANGED <<cfg, left, paused, staleness_samples, generating, putting,
                 done, max_concurrent_samples, trainerVars, hybrid_active>>

\* A task generates as long as some replica serves it, and puts its sample.
TaskGenerate ==
  /\ generating > 0 /\ Servers > 0 /\ ~Spinning
  /\ generating' = generating - 1 /\ putting' = putting + 1
  /\ UNCHANGED <<cfg, left, proc, paused, staleness_samples, done, queue,
                 closed, max_concurrent_samples, trainerVars, hybrid_active>>

TaskPut ==
  /\ putting > 0 /\ ~Spinning
  /\ putting' = putting - 1 /\ done' = done + 1
  /\ queue' = Put(queue) + 1
  /\ UNCHANGED <<cfg, left, proc, paused, staleness_samples, generating,
                 closed, max_concurrent_samples, trainerVars, hybrid_active>>

MonitorResume ==
  /\ proc # "over" /\ paused /\ ~ShouldPause /\ LockFree /\ ~Spinning
  /\ paused' = FALSE
  /\ UNCHANGED <<cfg, left, proc, staleness_samples, generating, putting, done,
                 queue, closed, max_concurrent_samples, trainerVars,
                 hybrid_active>>

-----------------------------------------------------------------------------
(* The trainer *)

\* deactivate_wait_samples: an adaptive share of a cycle's samples, all of
\* them if there are hybrid replicas only.
MutThresholds == IF OnlyHybrid THEN {cfg.required} ELSE 0 .. StepRequired
Thresholds == IF OnlyHybrid THEN {StepRequired} ELSE 0 .. StepRequired

\* fit_step begins: hybrid replicas that are active will be deactivated.
BeginStep ==
  /\ trainer = "begin"
  /\ collected' = 0
  /\ IF hybrid_active
       THEN trainer' = "wait" /\ threshold' \in Thresholds
       ELSE trainer' = "collect" /\ threshold' = 0
  /\ UNCHANGED <<cfg, rollouterVars, max_concurrent_samples,
                 local_trigger_step, hybrid_active>>

\* wait_for_enough_samples returns, and the replicas are taken away.
MutRemaining == 0
Remaining == cfg.standalone
Deactivate ==
  /\ trainer = "wait" /\ ~Spinning
  /\ QueueSize >= threshold
  /\ hybrid_active' = FALSE
  /\ max_concurrent_samples' = Capacity(Remaining)
  /\ trainer' = "collect"
  /\ UNCHANGED <<cfg, rollouterVars, threshold, collected, local_trigger_step>>

\* _get_samples_from_queue: a sample, or the end signal that stops training
\* with less than a batch.
Collect ==
  /\ trainer = "collect"
  /\ \/ /\ collected = cfg.required
        /\ trainer' = "train"
        /\ UNCHANGED <<queue, closed, collected>>
     \/ /\ collected < cfg.required /\ queue > 0
        /\ queue' = queue - 1 /\ collected' = collected + 1
        /\ UNCHANGED <<trainer, closed>>
     \/ /\ collected < cfg.required /\ queue = 0 /\ closed
        /\ closed' = FALSE /\ trainer' = "stopped"
        /\ UNCHANGED <<queue, collected>>
  /\ UNCHANGED <<cfg, left, proc, paused, staleness_samples, generating,
                 putting, done, max_concurrent_samples, threshold,
                 local_trigger_step, hybrid_active>>

\* The update; at the end of a cycle the weights are sent.
Train ==
  /\ trainer = "train"
  /\ IF local_trigger_step < cfg.trigger
       THEN local_trigger_step' = local_trigger_step + 1 /\ trainer' = "begin"
       ELSE local_trigger_step' = 1 /\ trainer' = "sync"
  /\ UNCHANGED <<cfg, rollouterVars, max_concurrent_samples, threshold,
                 collected, hybrid_active>>

\* should_activate_after_step, and activate_hybrid_replicas
ActivateAnswers == IF OnlyHybrid THEN {TRUE} ELSE BOOLEAN
Sync ==
  /\ trainer = "sync" /\ ~Spinning
  /\ \E should_activate \in ActivateAnswers :
       IF should_activate
         THEN /\ hybrid_active' = TRUE
              /\ max_concurrent_samples' = Capacity(cfg.standalone + cfg.hybrid)
         ELSE UNCHANGED <<hybrid_active, max_concurrent_samples>>
  /\ trainer' = "reset"
  /\ UNCHANGED <<cfg, rollouterVars, threshold, collected, local_trigger_step>>

\* reset_staleness: what is under way or queued belongs to the new cycle.
MutCounted == staleness_samples
Counted == ActiveTasks + QueueSize
ResetStaleness ==
  /\ trainer = "reset" /\ LockFree /\ ~Spinning
  /\ paused' = FALSE
  /\ staleness_samples' = Counted
  /\ trainer' = "begin"
  /\ UNCHANGED <<cfg, left, proc, generating, putting, done, queue, closed,
                 max_concurrent_samples, threshold, collected,
                 local_trigger_step, hybrid_active>>

-----------------------------------------------------------------------------
Init ==
  /\ cfg \in Configs
  /\ left = Samples /\ proc = "top" /\ paused = FALSE /\ staleness_samples = 0
  /\ generating = 0 /\ putting = 0 /\ done = 0
  /\ queue = 0 /\ closed = FALSE
  /\ hybrid_active = TRUE
  /\ max_concurrent_samples = Capacity(cfg.standalone + cfg.hybrid)
  /\ trainer = "begin" /\ threshold = 0 /\ collected = 0
  /\ local_trigger_step = 1

Processor == ProcTop \/ ProcDrain \/ ProcLimit \/ ProcReap \/ ProcSubmit
             \/ ProcEnd
Tasks == TaskGenerate \/ TaskPut
Trainer == BeginStep \/ Deactivate \/ Collect \/ Train \/ Sync
           \/ ResetStaleness
Ended == trainer = "stopped" /\ proc = "over" /\ UNCHANGED vars

Next == Processor \/ Tasks \/ MonitorResume \/ Trainer \/ Ended

Fairness == /\ WF_vars(Processor) /\ WF_vars(TaskGenerate) /\ WF_vars(TaskPut)
            /\ WF_vars(MonitorResume) /\ WF_vars(Trainer)
Spec == Init /\ [][Next]_vars /\ Fairness

-----------------------------------------------------------------------------
(* Properties *)

\* Types, with the bounds of the queue, of the capacity and of a batch.
TypeOK ==
  /\ cfg \in Configs
  /\ left \in 0 .. Samples /\ generating \in Nat /\ putting \in Nat
  /\ done \in Nat /\ staleness_samples \in Nat
  /\ proc \in {"top", "drain", "limit", "limit_wait", "submit", "end",
               "end_wait", "over"}
  /\ paused \in BOOLEAN /\ closed \in BOOLEAN /\ hybrid_active \in BOOLEAN
  /\ queue \in Nat /\ QueueSize <= cfg.max_required
  /\ max_concurrent_samples \in 0 .. cfg.max_required
  /\ trainer \in {"begin", "wait", "collect", "train", "sync", "reset",
                  "stopped"}
  /\ threshold \in 0 .. StepRequired /\ collected \in 0 .. cfg.required
  /\ local_trigger_step \in 1 .. cfg.trigger

\* While no replica serves, the queue has all that the trainer still needs in
\* this cycle, or its end signal: nobody else could give it.
CycleSupplied ==
  Servers = 0 /\ trainer = "collect" =>
    \/ closed
    \/ queue + collected
         >= cfg.required * (cfg.trigger - local_trigger_step + 1)

\* The processor's loop at the capacity limit does not block the event loop of
\* the rollouter, if there are standalone replicas or no samples beyond those
\* of a cycle are allowed.
EventLoopFree ==
  cfg.standalone > 0 \/ cfg.max_required = StepRequired => ~Spinning

\* A trainer that waits for samples gets them or the end signal, if there are
\* standalone replicas and the samples allowed exceed those of a cycle by the
\* capacity: reset_staleness counts a task that is done and not yet reaped
\* together with its sample in the queue, so that this many of the samples it
\* allows may not exist.  There is one way to wait for ever: when the data
\* ends during wait_for_enough_samples, which does not look for the end signal,
\* and the queue holds less than the threshold.
WaitReturns ==
  /\ cfg.standalone > 0
  /\ cfg.max_required >= StepRequired + Capacity(cfg.standalone + cfg.hybrid)
  /\ trainer \in {"wait", "collect"}
  ~> \/ trainer \notin {"wait", "collect"}
     \/ trainer = "wait" /\ proc = "over" /\ QueueSize < threshold
=============================================================================
