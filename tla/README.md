# TLA+ specifications of on-policy distillation and its training stack

The repository trains language models by on-policy distillation (OPD) on top of
veRL, whose source is in `src/verl`. This directory holds TLA+ models of the
parts of that code in which several processes, ranks or coroutines have to agree,
or in which a crash has to leave something to go on from: the distillation step
itself, the batches and checkpoints of the synchronous trainer, and the three
asynchronous trainers. TLC configurations check small instances of them, and TLAPS
proofs show the properties that matter most for all instances.

    tlc -workers 2 -config MCFullyAsync.cfg MCFullyAsync     # one run
    tlapm FullyAsyncProofs.tla                               # one set of proofs

`PROJECT.json` lists the runs, the line ranges every definition models, the
mutants that show a property can fail, the hazards and the findings.

Paths below are relative to `src/verl/verl`; `fully_async_policy/` stands for
`experimental/fully_async_policy/`.

## 1. The system

### Three ways of training

The recipes in `src/recipe` start `verl.trainer.main_ppo`: one driver that
generates, scores against the teachers and updates, one blocking call after the
other (`trainer/ppo/ray_trainer.py` with `opd_trainer_mixin.py`). The driver is
sequential, but each call runs on all ranks at once, and the ranks have to make the
same collectives in the same order:

    rollout -> old log-probs, top K -> teachers (sharded over all ranks) -> reward
        -> advantage -> updates -> checkpoint (folders, rotation, tracker file)

The v1 trainers (`trainer/ppo/v1`) put a replay buffer over TransferQueue between
agent loop workers and the trainer, synchronously or asynchronously.

The fully asynchronous trainer is made of Ray actors that run side by side:

    dataset -> FullyAsyncRollouter --put_sample--> MessageQueue --get_sample--> FullyAsyncTrainer
                    ^    |                                                        |    |
                    |    +-- agent loops -> LLM server client -> load balancer    |    |
                    |                               |               ^             |    |
                    |                               v               | add/remove  |    |
                    |                       rollout replicas <------+-- abort, update, sleep, resume
                    +--------------------------- reset_staleness -----------------+

### Inventory

| Component | State | Operations | Hard part | What makes it correct |
|---|---|---|---|---|
| Message queue (`fully_async_policy/message_queue.py`) | bounded deque, validation deque, running flag, counters, waiters on a condition | put_sample, get_sample, clear_queue, shutdown, put/get_validate | consumers wait while others put, clear or close; overflow | no lost wake-up; statistics add up; newest samples in order; shutdown releases waiters |
| Rollouter (`fully_async_rollouter.py`) | pending_queue, active_tasks, staleness_samples, paused flag, resume event, one asyncio lock | feeder, processor, one task per sample, monitor, reset_staleness, add/remove replicas | five coroutines and two other processes; a lock held across awaits; counts that are stale when used | samples per weight version are bounded; none lost or used twice; the pipeline drains |
| Trainer (`fully_async_trainer.py`) | batch in collection, trigger step, parameter version, last checkpoint version | collect, step, weight update, checkpoint, validation, end of fit | versions, weights and checkpoint labels change at different points | they agree whenever somebody can look |
| Task runner (`fully_async_main.py`) | the two running `fit` calls | start both, join, clear the queue | one of them failing | both return |
| Load balancer and client (`workers/rollout/llm_server.py`) | servers, in-flight counts, sticky LRU cache; per request: merged tokens, attempt | acquire, release, add, remove, clear sticky; generate with resume after abort | releases are sent without waiting; servers come and go | counts; budget over resumed attempts; every request is answered |
| Dynamic scheduling (`fully_async_policy/dynamic_schedule/`) | `_hybrid_active`, policy statistics | activate, deactivate, sync, rebalance | replicas on the trainer's GPUs have to be out of the way exactly while it trains | trainer computes alone; pool is awake and fresh |
| Checkpoint engine manager (`checkpoint_engine/base.py`) | replica set | abort, drain, transfer, resume, sleep | clients retry at once | weights never change under a request |
| vLLM server (`workers/rollout/vllm_rollout/vllm_async_server.py`) | paused engine, freed memory | generate, abort, resume, sleep, drain | calls that arrive late | a sleeping replica serves nothing |
| OPD teacher scoring (`workers/fsdp_teacher_worker.py`, `workers/config/fsdp_teacher.py`, `trainer/ppo/opd_*.py`) | per rank: micro batch counts, loop over teachers, scores; per batch: candidates, scores, advantage | check configuration, route rows, score, install reward, estimate advantage, update | every forward of a teacher is a collective of all ranks, whose rows differ; scores go back by index; candidates move with the weights | same forwards on all ranks; own teacher's score in every row; advantage and log-probabilities about the same candidates |
| Batches (`utils/seqlen_balancing.py`, `protocol.py`, `single_controller/base/decorator.py`, `workers/engine/`) | partitions under way, chunks, micro batches, reward columns | balance, dispatch, micro-batch, restore, collect, pad, validate | rows are permuted three times and matched by position; ranks must agree on the number of micro batches | answers in the order of the rows; no empty partition; no rank waits for ever |
| Checkpoint files (`utils/checkpoint`, `ray_trainer.py`) | folders per role, data.pt, tracker file; managers' lists | save, rotate, resume | a crash between any two writes or removals | the tracker names a complete checkpoint; batches trained on once |
| Replay buffer and v1 trainers (`trainer/ppo/v1/`) | prompt status per partition, rows, refill credit, versions | submit, sample, evict, refill, save, resume, re-issue | sample decides on a snapshot of a status that changes; crashes | staleness bound; nothing lost or used twice; the buffer neither starves nor grows |
| Agent loop manager (`experimental/agent_loop`) | chunks of workers, reward keys | generate_sequences | workers with different domains | keys name columns |
| Checkpoint transports (`checkpoint_engine/*_checkpoint_engine.py`) | buckets, buffers | send, receive | order of buckets | not modelled |
| Reward loop, teacher loop (`experimental/*_loop`) | rate limiter tokens, router choice | score | rate limits | not modelled |
| Losses, models, kernels, data preparation, evaluation | tensors | | floating point | not modelled |

Every component, with its status and the reason when it is left out, is in
`PROJECT.json`, and so are the hazards: the lines of code where an order of
events that is hard to test could do harm.

## 2. Modules

    MessageQueue      <- ActorProofs                LoadBalancer    <- ActorProofs
         ^ INSTANCE                                       ^ INSTANCE
    FullyAsync        <- FullyAsyncProofs           HybridServing   <- HybridServingProofs

    TeacherScoring    <- TeacherScoringProofs       ElasticPipeline <- ElasticPipelineProofs
    CheckpointFiles   <- CheckpointFilesProofs      ReplayBuffer    <- ReplayBufferProofs
    BatchFlow         <- BatchFlowProofs

The `MC*` modules extend the specification they are named after; the `.cfg`
files choose the constants. No configuration replaces a definition. Definitions
whose name begins with `Mut` are the mutants of `PROJECT.json`: plausible mistakes
in the definition that follows, each of which makes a property fail.

### TeacherScoring

One training step of (multi-teacher) on-policy distillation, from the configuration
checks to the last update.

| Actions | Code |
|---|---|
| `Configure` | `validate_opd_top_k_config`, `FsdpTeacherConfig.__post_init__`, `register_opd_teacher`, `init_opd_teacher` |
| `ComputeOldLogProb` | `_compute_old_log_prob` or bypass mode, and the verifier's reward |
| `Route`, `Reduce` | `compute_rm_score`: `route_by_ability`, `group_rows_by_teacher`, `local_micro_batch_counts`, all_reduce |
| `Forward`, `NextTeacher`, `Return` | the loop over teachers and micro batches, with `_forward_micro_batch` |
| `InstallReward` | `compute_opd_token_reward` |
| `ComputeAdvantage` | `compute_advantage` and the two OPD estimators |
| `UpdateActor`, `EndStep` | `_update_actor`, `train_mini_batch`, `ppo_loss` |

A forward pass of a sharded teacher gathers parameters from all ranks: the k-th
forward of a rank completes when every rank has come to its k-th, and if the ranks
are then in different teachers what is gathered is `Garbled`. A score is the name of
the teacher that computed it; a row that nobody wrote keeps `Unset`, the content of
`torch.empty`. Candidates are identified by the weights they were computed with
(`TopKAt`), so that `over` and `compared` tell whether an advantage and a ratio are
about the same tokens. `job` holds the configuration and the abilities of the batch.
Left out: the arithmetic of rewards and losses, KL in the reward, the critic,
template and agreement metrics.

### CheckpointFiles

`fit`'s loop over epochs and steps, `_save_checkpoint` and `_load_checkpoint` of the
PPO trainer, and the managers of the actor and the critic. A save is a sequence of
steps (capacity, open, write, register for each role, then data.pt, then the tracker
opened and written), and `Crash` may happen between any two of them. In memory, and
lost in a crash: the managers' lists and the trainer's position. Left out: what a
folder contains, the Megatron managers, `checkpoint_handler.py` of SFT, the HDFS copy.

### ReplayBuffer

The v1 trainers around their replay buffer. A prompt is named by its position in the
dataloader; workers (`RunPrompt`, `Session`, `EndPrompt`) write rows and the status of
the prompt to TransferQueue; `sample` takes a snapshot (`Poll`) and acts on it later
(`EvictAsync`, `SelectAsync`, `WaitAsync`, `SampleSync`), so that workers come in
between; the trainer trains, saves and clears. `Crash` loses all but the checkpoint,
`Boot` restores and re-issues. `Configs` chooses the mode, the off-policy strategy,
DAPO filtering, refill of failed groups and whether TransferQueue can be saved. Left
out: the validation partition, SkipManager, the cache of DAPO metrics, gen_batch_size,
the bound on epochs, and the replica switching of separate_async (which is disabled:
`should_switch_to_rollout` returns False).

### ElasticPipeline

The fully asynchronous pipeline under dynamic scheduling, with samples only counted:
`Deactivate` is the end of `wait_for_enough_samples` and the removal of the hybrid
replicas, `Sync` gives them back, and both change `max_concurrent_samples`. The
rollouter's coroutines share one event loop, and a processor that loops without
awaiting (`Spinning`) stops all of them. Hybrid replicas are active at the start,
because the task runner updates the weights once before it starts `fit`. The final
weight update of `fit` and failing tasks are left to FullyAsync.

### BatchFlow

A batch on its way over the ranks: `_balance_batch`, dispatch in chunks,
`rearrange_micro_batches` with its all_reduce, micro batches in lockstep,
`restore_dynamic_batch`, collection; and `_validate` with padding, chunks of the agent
loop workers and the rebuilt reward keys. karmarkar_karp is a sequence of merges, one
step each, of states ordered as its heap orders them. What is computed for a row is
the row's name, so an output shows where its entries come from. A sort is defined by what
it returns, not by how: `InOrder` puts at place r the element that r - 1 others come
before. `Sorted`, `Ascending`, `Increasing` and `Heaviest` are the orders the code sorts
by. Left out: prefix groups, keep_minibatch, force_group_size, fixed micro batch sizes.

### MessageQueue

One action per method of the actor. Every method runs under one lock, so its
body is one step, except `get_sample`, which releases the lock while it waits:
`GetSampleWait`, `GetSampleTake` and `GetSampleClosed` are the parts of its loop.
`getter[c]` says whether a consumer is outside, waiting, or notified and yet to
test the queue again. `log` and `cleared` are history. `MaxPuts` and
`MaxValQueue` bound behaviours only. `get_memory_usage`, the pickling of samples
and the pass-through client are left out.

### FullyAsync

The rollouter, the queue (an instance of MessageQueue with the trainer as its
only consumer) and the trainer. A step is what one coroutine does between two
awaits; a remote call is one step at the callee and a later one of the caller
that uses the answer, so an answer can be stale (`proc_seen`, `mon_seen`,
`reset_sum`). `LoopBusy` expresses that an asyncio loop runs one coroutine at a
time: when an await does not suspend (an uncontended lock, a non-empty queue) the
processor goes on without letting the others in.

| Actions | Code |
|---|---|
| `FeedSample`, `FeedEnd` | `_feed_samples` |
| `Proc*`, `Reap` | `_processor_worker`: pause and drain, take, concurrency limit, submit, end |
| `FinishSignal`, `StopRunning` | `_streaming_generation_main`, and the end of the rollouter's `fit` |
| `TaskPut`, `TaskReturn`, `TaskFail` | `_process_single_sample_streaming` |
| `Monitor*`, `ShouldPause` | `_async_monitor_loop`, `_should_pause_generation` |
| `Reset*` | `reset_staleness` |
| `Trainer*`, `UpdateLocalStep`, `SaveDue` | `fit`, `fit_step`, `_get_samples_from_queue`, `_fit_update_local_step`, `_fit_update_weights`, `_fit_save_checkpoint` |
| `MainDone` | the task runner's join and `clear_queue` |

Abstractions: samples are interchangeable for admission control, so tasks are
counted by stage rather than named; the staleness threshold is in hundredths, so
that `int(required * (staleness + 1) * trigger)` is exact integer arithmetic;
metrics are dropped. Not in this module: exceptions in the feeder, validation,
dynamic scheduling (capacity is constant, see ElasticPipeline) and the start from a
checkpoint.
Properties about counting are conditioned on `failures = 0`, since a task that
raises takes its sample with it.

### LoadBalancer

One action per method of `GlobalRequestLoadBalancer`; none of them awaits. A
request holds a server from `acquire_server` until its `release_server` has run
(`using`, history). Ties between least loaded servers and the hash of the
deterministic mode are choices. Eviction from the LRU cache is not modelled: the
sticky map is a function on the requests of the instance.

### HybridServing

Clients (`Generate` to `Release`), an instance of LoadBalancer, the replicas'
engines (`paused`, `asleep`, `version`) and the trainer. The trainer awaits one
call after the other, so its methods are operators that return the sequence of
their calls (`UpdateStandalone`, `SyncHybridWeights`, `ActivateHybridReplicas`,
`DeactivateHybridReplicas`, `RebalanceRequests`, `TrainerSideValidate`), `FitStep`
concatenates them as `fit_step` and `_fit_update_weights` do, and `todo` is what
is left of them. Each call is an action; a call on several replicas is one step
per replica, in any order, as `asyncio.gather` allows. Between any two of these
steps clients send, run, are aborted and retry. The same machinery covers
standalone replicas only, hybrid replicas only and both, dynamic scheduling and
validation on the trainer's replicas; `ValidateModes` lets one run cover both
values of `use_trainer_do_validate`.

Abstractions: one "train" call stands for the steps of a whole trigger cycle; what
a policy answers is a choice, except that every policy deactivates active hybrid
replicas and the adaptive ones activate whenever there is nothing else
(`static_fully_async` never activates); the requests of a validation are not
distinguished from the others; `free_cache_engine` is on. The engine is external
and modelled from how the server uses it: pausing aborts what runs, a paused
engine blocks new calls until it is resumed.

## 3. Runs

Passing runs:

| Run | Configuration | What it shows |
|---|---|---|
| `opd_scoring` | MCTeacherScoring | All batches of six rows on two and on three ranks, and all configurations of routing, reward and update: `Lockstep`, `ScoredByTeacher`, `CandidatesMatch`, and `Termination` (liveness): no rank waits in a collective that another never enters, and an unroutable row ends the step with an error. |
| `checkpoint_files` | MCCheckpointFiles | Actor and critic, limits 0, 2 and 3 in all combinations, two crashes: `TrackerComplete`, `BatchesOnce`, `DiskBounded`, and `Termination`: the job ends with everything saved unless a crash tears the tracker. |
| `replay_buffer` | MCReplayBuffer | Ten configurations with bad sessions and a crash: `StalenessBounded`, `Population`, `Accounted`, `SleepsIdle`, `NoOrphanRows`, and `Termination`. |
| `batch_flow` | MCBatchFlow | All lengths 1 to 3 of six rows over one to three ranks, all mixes of three domains: `Aligned`, `Balanced`, `KeysNameColumns`, and `Termination`. |
| `elastic` | MCElasticPipeline | Standalone and hybrid, hybrid only, and a queue that bounds the capacity: `CycleSupplied`, `EventLoopFree`, and `WaitReturns` (liveness). |
| `message_queue` | MCMessageQueue | Two consumers, any mix of puts, clears and a shutdown: `NoLostWakeup`, `Accounting`, `HoldsNewest`. |
| `fully_async` | MCFullyAsync | Five samples, two steps per cycle, threshold 0.5, a task that may fail: `ExposureBound`, `SamplesAccounted`, `WeightsMatchVersion`, no deadlock, and `Termination`: both actors return, after a failed task too. |
| `load_balancer` | MCLoadBalancer | Three requests and three servers in any order: `NeverOvercounts`, `ExactUnlessReadded`. |
| `serving` | MCHybridServing | A standalone and a hybrid replica, dynamic scheduling with rebalancing, with and without validation on the trainer's replica: `NoUpdateWhileServing`, `WithinBudget`, `TrainsAlone`, `PoolIsFresh`. |
| `serving_only_hybrid` | MCHybridServingOnly | No standalone replica, so that within a cycle the pool is empty and every replica sleeps: `ServersWhileWaiting`, and `RequestsAnswered` (liveness). |

`TypeOK` is an invariant of the runs of the modules that have proofs of it; in the
other modules it documents the types of the variables.

Runs in which TLC finds a counterexample to what the repository says of itself; each
is a finding in `PROJECT.json` with the quoted lines:

| Run | Property | The trace |
|---|---|---|
| `opd_grpo_term` | `GrpoFromVerifier` | With `token_reward_direct_plus_grpo`, the teacher's reward replaces the verifier's in token_level_scores; the verifier's is kept under another name, which `compute_advantage` does not hand to the estimator. The GRPO outcome term is computed from the teacher's reward. |
| `checkpoint_keep_one` | `TrackerComplete` | With `max_ckpt_to_keep` 1, registering the actor's new folder removes the old one, which the tracker still names; a crash before the tracker is written leaves nothing to resume from. |

### Observations without a run

Consequences of the code that were found with these models; the properties above are
stated so that they hold in spite of them, and say where.

OPD step. With `model_path` and `ability_to_teacher` but no `teachers`, the names in
the map are not checked: rows routed to a name without a module keep uninitialised
memory as their score (`ScoredByTeacher` names the case), or, when top K is used and
the rank has no other row, the step fails with a KeyError (`NothingScored`). In bypass
mode no candidates are computed, and a top-K reward ends in a KeyError in `ppo_loss`.
`compute_opd_token_reward` says the score metrics stay meaningful, while `metric_utils.py`
reads the overwritten `token_level_scores`. The strategies `union` and `only_tch` still
score the student's candidates only.

Checkpoints. A crash between truncating and writing the tracker leaves an empty file,
on which `find_latest_ckpt_path` raises (`Termination` names it). A resume after the last
save trains one step beyond total_training_steps. A restarted manager no longer knows,
and never removes, the folders of its predecessor (the factor in `DiskBounded`).

Replay buffer. A restart adds the warmup batches again, so the population grows with
every resume (the factor in `Population`). Without TransferQueue's checkpoint the prompts
in flight are lost. Rows of a batch that was saved before it was cleared stay behind after
a restart. An empty asynchronous batch raises when it is balanced.

Batches. A micro batch may exceed max_token_len, although the docstring of
`rearrange_micro_batches` gives it as a limit; the FSDP engine's comments admit it. The
assertion at the end of `_validate` fails when val_batch_size splits a mixed-domain set
into batches with different reward columns.

Pipeline. At the end of the data `wait_for_enough_samples` can wait for ever: it neither
has a timeout nor looks for the end signal (`WaitReturns` names the case). With hybrid
replicas only and more samples allowed than a cycle needs, the processor spins at a
capacity of zero and stops the rollouter's event loop (`EventLoopFree` excludes it). When
max_required_samples leaves no room for the tasks that are done and not reaped, which
`reset_staleness` counts twice, the pipeline can stall. The forced save at the end of
`fit` is skipped when the version has not changed. The `+ 1` in `ExposureBound` is
attained: the sample the processor has in hand is in no term of the sum of
`reset_staleness`. `add_servers` sets the count of a server that is still held to zero,
which is why `ExactUnlessReadded` cannot be stronger.

Serving. After a validation by the trainer, generation is resumed on hybrid replicas that
have just been put to sleep, and a generate call under way is let in there; the next
validation updates their weights without aborting first (`NoUpdateWhileServing` is
therefore about the other mode). With standalone and hybrid replicas a call that reaches a
hybrid one after its deactivation is blocked until the next activation, which no policy
has to make. With hybrid replicas only, the clean-up after a validation leaves no server
registered.

### Bounds

- `opd_scoring`: three rows per rank and micro batches of one or two give ranks with no,
  one or two micro batches of a teacher; with three ranks and three teachers a rank may
  have no row of two of them. Two updates are enough for candidates to move. The proofs
  remove the bounds. `CHECK_DEADLOCK FALSE`: a step ends.
- `checkpoint_files`: epochs of two steps and a save every second step put saves inside
  and at the end of epochs; five steps let a limit of two or three remove something; two
  crashes include one during the first save after a resume.
- `replay_buffer`: one or two prompts per batch and two or three steps; each configuration
  has one bad session or group and one crash where its state space allows both.
- `batch_flow`: six rows divide by one, two and three ranks; lengths 1 to 3 with token
  limits below and above the sum of a rank's rows; validation batches of up to five rows
  and pairs of batches. `CHECK_DEADLOCK FALSE`: a job ends.
- `elastic`: thirteen samples are three cycles of four and a rest. `CHECK_DEADLOCK FALSE`,
  because of the wait at the end of the data.
- `fully_async`: with five samples, one per step, two steps per cycle and
  max_required_samples 3, there are two complete cycles, a final one cut short, and
  pauses and resumptions before and after a reset. `Termination` needs
  MaxRequired - Required * Trigger >= MaxConcurrent; below that the double count of
  finished tasks can stall the pipeline. Capacity 1 is what
  threshold 0.5 leaves room for; seven samples, or batches of two, give the same
  result. The safety properties are proved for every capacity and threshold.
- `serving*`: two requests are enough for one to be aborted while another one is on
  its way; a budget of two tokens lets an abort leave a request with none, some or
  all of its tokens, and the retry after an abort comes back with a sticky server
  that may have been removed meanwhile, so one turn is enough (two turns, and up to
  five cycles with one request, give the same results); two weight versions past the
  first include an activation, a deactivation and a second activation, and a late call
  of one cycle that meets the update of the next. `CHECK_DEADLOCK FALSE`: cycles
  (`MaxVersion`) and turns (`MaxTurns`) are bounded, and the system is at rest when
  both are used up. The bound on cycles also means that a request is interrupted
  finitely often, which `RequestsAnswered` presupposes. Requests are symmetric;
  symmetry is used in the safety runs only.
- `load_balancer`: three servers, so that the least loaded one among the remaining
  ones is a choice after one is removed. The proofs remove the bounds.
- `message_queue`: capacity 2, so that a full queue has an oldest and a newest
  sample; two consumers race for one.

### Fairness

- OPD step and batches: weak fairness for the driver and for the ranks; a collective
  completes once all ranks have entered it. Nothing else is assumed.
- Checkpoints: the trainer goes on (weak fairness); crashes are possible, never required,
  and bounded.
- Replay buffer: weak fairness for workers (generation ends) and for the trainer.
- Elastic pipeline: weak fairness for the processor, the stages of the tasks, the monitor
  and the trainer, as below.
- Pipeline: weak fairness for every coroutine and for the answers of remote calls,
  one condition each, because an event loop runs what is ready and an RPC between
  living actors is answered. Strong fairness for the two that wait for `self.lock`
  while others take it again and again (the monitor and `reset_staleness`):
  asyncio.Lock is first come, first served. Generation of a sample ends. Failing is
  never required.
- Serving: weak fairness for each client's steps, for releases and for the
  trainer's calls of the current cycle. The beginning of a turn and of a cycle is
  not fair: a cycle begins when enough samples have arrived, which is what the
  requests are about.

## 4. Proofs

The theorems hold for all values of the constants that satisfy the assumption named in
the module (`QueueAssumption`, `FullyAsyncAssumption`, `BalancerAssumption`,
`ServingAssumption`, `ElasticAssumption`, `ReplayAssumption`, `FilesAssumption`,
`TeacherAssumption`, `BatchAssumption`): positive batch sizes, intervals and capacities, finitely many
requests, a batch that divides evenly over the ranks, and the checks the code makes of its
configuration. The constants that bound a run (`MaxTurns`, `MaxVersion`, `MaxCrashes`, ...)
are arbitrary natural numbers. Two theorems have a hypothesis besides, stated with them:
`TrackerCompleteHolds` (no manager limited to one checkpoint) and
`ServersWhileWaitingHolds` (see below). Every safety invariant of a passing run is proved.

**TeacherScoringProofs.** `TypeCorrect`, `LockstepHolds`, `ScoredByTeacherHolds` and
`CandidatesMatchHolds`, for every number of ranks, teachers and rows and every
configuration. `Lockstep` says nothing about the pass a rank makes next, so it is not
inductive. The invariant says where the ranks are: after the all_reduce the counts are a
function of the job alone (`PhaseInv`, `N`); two ranks with equally many forwards have
passed the same micro batches (`SameInv`); and of two others one is ahead by exactly the
pass the other makes next (`AheadInv`, with `NextSlot` and `Past`). From that the
parameters gathered in a forward are one teacher's, and with the lemma that a row's place
among the rows of its teacher falls into one of the micro batches (`PlaceBound`,
`SlotFacts`) a row holds its teacher's score as soon as its micro batch is past
(`ScoreInv`). `RewardInv` and `ConfigInv` say that the candidates are those of the weights
before the first update, and that an accepted configuration makes one update only.

**CheckpointFilesProofs.** `TrackerCompleteHolds`: for any roles, steps, limits and crashes,
the tracker names a complete checkpoint, if no manager is limited to one (`NoSingle`, which
`checkpoint_keep_one` shows to be needed). The invariant: a manager's list is in the order
of the steps (`Ordered`); nothing in it is newer than the tracker's step except the folder
registered in this save (`Tracked`), so that a removal which spares the last two entries
spares the tracker's folder; and what is written of the step under way is on disk
(`OnDisk`), so that the tracker can name it.

`BatchesOnceHolds` and `DiskBoundedHolds` need no such restriction. For the first, `Place`
says at every stage of a step how many batches the weights have seen, in terms of step,
epoch and position; `Saved` says the same of everything on disk (a folder of step n holds
weights of n batches, a dataloader state of step n a position with n = e * steps_per_epoch
+ position, where the position is steps_per_epoch, not 0, at the end of an epoch); and
`DataOnDisk` that a step the tracker names has its dataloader state. Quotient and
remainder are unique (`DivModUnique`), so `RestoredPos`, which skips the exhausted epoch,
and `tracker \div steps_per_epoch` restore the place. The disk bound is not inductive
because a restarted manager forgets its folders: `Kept` bounds the folders a manager knows
(its list and the one it is writing), `Forgotten` those it does not, by its limit for every
crash.

**ActorProofs.** The two actors that all the others call, in one module, which extends both
(the queue's specification is therefore `QueueSpec`, its type invariant `QueueTypeOK`).

- Message queue: `QueueTypeCorrect`, `NoLostWakeupHolds`, `AccountingHolds` and
  `HoldsNewestHolds`. Each property is inductive together with `QueueTypeOK`; the lemma
  `EnqueueFacts` says what an append to a possibly full deque does to length and
  content, once for all of them.
- Load balancer: `BalancerTypeCorrect`, `NeverOvercountsHolds` and
  `ExactUnlessReaddedHolds`, from lemmas on how a call changes the set of requests
  that hold a server and its cardinality (`AcquireUsers`, `ReleaseUsers`).

**BatchFlowProofs.** `AlignedHolds`, `BalancedHolds` and `KeysNameColumnsHolds`, for all
lengths of the rows and every number of rows, ranks, micro batches, validation batches and
workers. They are about what sorting, merging, cutting and putting together compute for
every input, so most of the module is about the operators; induction is a least
counterexample (`Least`, from the well-foundedness of the naturals) or a set that contains
1 and is closed under successor (`Induct`).

- Sequences. `InOrderFacts`: whenever `before` is a strict total order, `InOrder` returns a
  rearrangement in that order; `SortedFacts`, `AscendingFacts`, `IncreasingFacts` and
  `HeaviestFacts` show that the four keys of the code are such orders on what they are
  used on. `FlattenRec` unfolds FlattenSeq, `FlattenApart` says that flattening sequences
  without common elements has each element once, `FlattenChunk` that chunks of equal size
  put together give the sequence back. `EndsFacts` and `BothEndsFacts`: a list taken apart
  by `[::2]` and `[1::2]` and joined again, one half reversed, is rearranged.
- karmarkar_karp. `StateOK` is what a state of the heap is: k disjoint sets in decreasing
  order, none of them empty unless all have at most one item (`Full` or `Thin`), and a
  spread of no more than some row's work. A merge keeps it (`JoinSets`, `MergedState`):
  the heaviest set gets the lightest, so the new spread is at most the larger of the two;
  and of two states with an empty set each, the items of one go to the empty sets of the
  other first, so that afterwards no set is empty or none has two items. `HeapOK` adds that no row is in two states and each is in
  one; `EqualHeap` and `SingleHeap` show it of the two ways a heap begins, `MergeHeap` of a
  step, and `LastState` that the last state, with at least as many rows as sets, has no
  empty set. That `First` picks a state at all (`FirstFacts`) needs that the order of the
  heap is total on states without common rows.
- The step. `TrainInv`: `HeapOK` for the controller and for each rank that splits its rows
  (`BalanceHeap`, `RankHeap`); the rows of all ranks are a permutation of the batch's
  (`RowsOK`); the micro batches of a rank one of the rank's (`MicroOK`), so that
  `RestoreFacts` puts every answer back in its row's place (`OutputOK`). `ValInv` is the
  same for a validation, by `PadFacts` and `FlattenChunk`. One lemma for each action.

**FullyAsyncProofs.** None of the properties is inductive as it stands.

- `Structure` = types, who holds the lock at which stage (`LockDiscipline`), what
  the trainer has in hand at which stage (`TrainerPhase`), and that only a failed
  task makes the processor raise (`NoFailure`). It is inductive by itself and
  everything else rests on it.
- `ExposureBoundHolds`: the strengthening `CountingInv` relates three numbers that
  the code never compares. What is outstanding is at most the exposure; the exposure
  is at most staleness_samples + 1; and while a reset is under way its partial sum
  covers what is being generated, and after reading the queue what is generated
  or queued. The `+ 1` is the one item the processor can have in its hand, and
  `proc = "get"` carries the bound from the decision not to pause to the take that
  uses it. A lost increment is harmless because the item it counted is then the one
  in hand.
- `SamplesAccountedHolds`: conservation, by the effect of each action on each place
  a sample can be; `OthersKeepTrainer`, `PutFacts` and `TakeFacts` say what an
  action of another process leaves alone and what the queue's steps change.
- `WeightsMatchVersionHolds`: `VersionInv` says how updates, version and trigger step
  are related at every stage of `fit`, not only between steps.
- `QueueImplemented`: the pipeline implements `MessageQueue`; every step is a step of the
  queue or leaves it alone. What ActorProofs shows (no lost wake-up, accounting,
  order) is so shown of the queue between rollouter and trainer.

**HybridServingProofs.** `WithinBudgetHolds` is inductive once it is said for every stage of
a request what is left of its budget (`Budgeted`). The other four are about what replicas
look like at some point of a cycle, and in the middle of a cycle the state of a replica
makes sense only together with the calls the trainer has yet to make. So the invariant
evaluates `todo`:

- `At`, `After` and `Guard` say what a property of a replica (paused, asleep, current
  weights, registered, active) will be before the i-th call, after all of them, and whether
  every call of a kind finds it as it should. They are defined by quantifiers over
  positions, not by recursion; `ConcatEval` shows that evaluation goes through a
  concatenation from left to right, which is all that is needed afterwards.
- `Leads(seq, t, x, y)`: the calls `seq` take replica `t` from status `x` to `y`; the
  trainer computes while hybrid replicas sleep (`Alone`); and, where the trainer does not
  validate, weights change only in paused engines and only replicas that are awake are
  resumed or registered (`Careful`). One lemma for each part of a cycle
  (`UpdateStandaloneLeads`, `SyncHybridLeads`, `ActivateLeads`, `RebalanceLeads`,
  `DeactivateLeads`, `ValidateLeads`), put together in `FitUpdateLeads`,
  `FitValidateLeads` and `CycleLeads`.
- `Plan`, the invariant: for every replica the calls left lead from its present status to
  one of the states of `Rest`, in which the trainer waits for a batch. `FirstCall` and
  `PartOfCall` show that a call, made on one replica after the other, keeps that.
- `TrainsAloneHolds` and `PoolIsFreshHolds` follow from `Plan`, and so does
  `ServersWhileWaitingHolds`, under the hypothesis that there are standalone replicas or
  the trainer does not validate: its validation ends with all hybrid replicas asleep, so
  that with hybrid replicas only nobody would be left.
- `NoUpdateWhileServingHolds` adds the clients' side (`Quiet`): nothing runs in a paused
  engine, and a replica that sleeps is paused or out of every client's reach, which covers
  requests that were sent and have not yet arrived.
- `BalancerImplemented`: the serving layer implements `LoadBalancer`, so that what
  ActorProofs shows of its counts holds here.

**ElasticPipelineProofs.** `TypeCorrect`, `CycleSuppliedHolds`, `EventLoopFreeHolds`.
`CycleSupplied` speaks of one stage of the trainer; `Supplied` says at every stage of a
cycle without replicas what the queue still has for it, from `Cycle` (when hybrid replicas
are active, and which threshold the trainer waits for). `EventLoopFree`, with hybrid
replicas only, rests on a count (`Tally`): if no samples beyond those of a cycle are
allowed, all of them are in the queue when the replicas go, so that the processor has none
in hand to wait at a capacity of zero with, until staleness_samples is reset.

**ReplayBufferProofs.** All five invariants of the run. Everything rests on `Core`: while
`sample` works on its snapshot no prompt comes or goes, and what is terminal in the
snapshot has not changed since (`Snapshot`), although workers go on.

- `StalenessBoundedHolds` (`Age`): with "wait", what is in flight when a step ends is
  younger by one version than the bound requires.
- `SleepsIdleHolds` (`Drained`) and `AccountedHolds` (`Ledger`): the checkpoint's prompts,
  too, are each in one place, so that a restart restores a partition.
- `NoOrphanRowsHolds` (`Rowed`): likewise for the rows in the checkpoint.
- `PopulationHolds` (`AsyncPop`, `SyncPop`): exact bounds at every stage of a step and for
  the checkpoint; in sync mode with DAPO, that the batch which started the draining is
  still usable, since draining stops all dispatch.

Only model-checked, and why: the liveness properties (`Termination`, `RequestsAnswered`,
`WaitReturns`; the prover does not handle fairness and `ENABLED`); the types
of the modules whose runs do not check `TypeOK`; and of course the counterexamples.

## 5. What is not modelled

Tensor computation (models, kernels, losses, advantage estimators other than the source
of their reward, engines), which is most of the repository's lines and has no control
state; dataset preparation, evaluation and launch scripts; Ray itself (calls of one
caller to one actor arrive in order; actors crash only as a whole job, in CheckpointFiles
and ReplayBuffer); the start-up of servers; LoRA, prefill/decode disaggregation and the
other inference engines' servers; checkpoint transports; the reward loop's rate limiter
and router; the one-step-off-policy and separated trainers; metrics, profiling and
logging. Time: intervals and deadlines are choices, so the 30 s deadline of
`rebalance_requests` may or may not end its wait.

Hazards of modelled files that no property covers have a note in `PROJECT.json`: the
skipped forced save, samples lost when the fully asynchronous trainer resumes, and reward
columns that differ between validation batches.

## 6. Plan

Done: all modules of section 2, and a theorem for every safety invariant of a passing run.
Next, in this order:

1. **Types of HybridServing, ReplayBuffer and CheckpointFiles** as theorems: most of them
   are conjuncts of the invariants already proved.
2. **Abstract bounded-staleness pipeline.** A specification with the sample counts and
   the version only, and FullyAsync and ElasticPipeline shown to implement it.
3. **Weight transfer.** split and merge of weight chunks and bucketing as operators,
   checked against a reference definition on bounded inputs.
