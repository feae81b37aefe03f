---------------------------- MODULE ReplayBuffer ----------------------------
(***************************************************************************)
(* The v1 trainers (sync, colocate_async, separate_async) around their     *)
(* replay buffer: the trainer submits prompts, agent loop workers generate *)
(* a group of trajectories for each and report to TransferQueue, and       *)
(* sample polls TransferQueue until it can hand out a batch, evicting and  *)
(* replacing groups on the way.                                            *)
(*                                                                         *)
(* sample decides on a snapshot of TransferQueue while the workers go on:  *)
(* taking the snapshot and acting on it are two steps.  A crash loses all  *)
(* but the last checkpoint.  A prompt is named by its position in the      *)
(* dataloader, so that one fetched again after a restart keeps its name.   *)
(***************************************************************************)
EXTENDS Naturals, FiniteSetsExt, Functions

CONSTANTS
  Configs,     \* the configurations to choose from, each with its bounds
  Rewards      \* values of the DAPO metric

Config == [mode : {"sync", "async"},
           train_batch_size : Nat \ {0},
           parameter_sync_step : Nat \ {0},
           num_warmup_batches : Nat,
           max_off_policy_threshold : Nat \ {0},
           max_off_policy_strategy : {"drop", "wait"},
           dapo : BOOLEAN,                     \* filter_groups_metric is set
           max_inflight_gen_batches : Nat \ {0},
           sync_refill_failed_groups : BOOLEAN,
           tq_checkpoint : BOOLEAN,            \* _tq_supports_checkpoint
           n : Nat \ {0},                      \* sessions per prompt
           save_freq : Nat \ {0},
           total_training_steps : Nat \ {0},
           max_bad : Nat,      \* bounds sessions that fail and flat groups
           max_crashes : Nat]  \* bounds the crashes

\* What __init__, _setup and step assert; sync has neither warmup batches nor
\* a parameter_sync_step.
ASSUME ReplayAssumption ==
  /\ Configs \subseteq Config
  /\ \A c \in Configs :
       /\ c.train_batch_size % c.parameter_sync_step = 0
       /\ c.mode = "sync" => /\ c.parameter_sync_step = 1
                             /\ c.num_warmup_batches = 0
  /\ Rewards # {}

VARIABLES
  cfg,           \* the configuration, chosen once
  prompts,       \* TransferQueue: prompt keys with their status and step
  rows,          \* TransferQueue: how many trajectories a group has, by reward
  work,          \* the workers' prompts: sessions left, and whether one failed
  fetched,       \* position of the dataloader
  pc,            \* where the trainer stands
  global_steps,
  local_trigger_step,
  snap,          \* the snapshot of TransferQueue while sample works on it
  refill_credit, draining,  \* locals of sample
  mini,          \* the groups sample has returned, with their steps
  batch,         \* all groups of this step
  trained,       \* history: prompts the weights have been trained on
  discarded,     \* history: prompts evicted or dropped as surplus
  ckpt,          \* the last checkpoint
  bad, crashes   \* history: counts for the bounds

tqVars == <<prompts, rows>>
workerVars == <<prompts, rows, work, bad>>
sampleVars == <<snap, refill_credit, draining>>
stepVars == <<global_steps, local_trigger_step>>
history == <<trained, discarded>>
vars == <<cfg, workerVars, fetched, pc, stepVars, sampleVars, mini, batch,
          history, ckpt, crashes>>

Sync == cfg.mode = "sync"
Fresh == [status |-> "pending", step |-> global_steps]
Task == [started |-> FALSE, left |-> cfg.n, failed |-> FALSE]
New(k) == (fetched + 1) .. (fetched + k)
Empty == [u \in {} |-> 0]
NoSnap == [prompts |-> Empty, rows |-> Empty]

\* f with the keys S set to v, and without the keys S
Put(f, S, v) == [u \in DOMAIN f \union S |-> IF u \in S THEN v ELSE f[u]]
Drop(f, S) == Restrict(f, DOMAIN f \ S)

With(p, status) == {u \in DOMAIN p : p[u].status = status}
Inflight(p) == With(p, "pending") \union With(p, "running")
Terminal(p) == With(p, "finished") \union With(p, "failure")

\* The reward is looked at by DAPO only.  A group is flat if all of its (two
\* or more) trajectories have one reward.
Metric == IF cfg.dapo THEN Rewards ELSE {CHOOSE r \in Rewards : TRUE}
Flat(counts) == \E r \in Rewards : /\ counts[r] > 1
                                   /\ \A q \in Rewards \ {r} : counts[q] = 0

-----------------------------------------------------------------------------
(* Agent loop workers *)

\* _run_prompt reports "running" and starts the sessions.
RunPrompt(u) ==
  /\ u \in DOMAIN work /\ ~work[u].started
  /\ prompts' = [prompts EXCEPT ![u].status = "running"]
  /\ work' = [work EXCEPT ![u].started = TRUE]
  /\ UNCHANGED <<cfg, rows, bad, fetched, pc, stepVars, sampleVars, mini,
                 batch, history, ckpt, crashes>>

\* A session puts its trajectory, ends without one, or raises.  Sessions of
\* the latter kinds, and groups that become flat, are bounded by max_bad.
Session(u) ==
  /\ u \in DOMAIN work /\ work[u].started /\ work[u].left > 0
  /\ \/ \E r \in Metric :
          LET old == IF u \in DOMAIN rows THEN rows[u]
                                          ELSE [q \in Rewards |-> 0]
              new == [old EXCEPT ![r] = @ + 1]
          IN  /\ rows' = Put(rows, {u}, new)
              /\ work' = [work EXCEPT ![u].left = @ - 1]
              /\ IF cfg.dapo /\ work[u].left = 1 /\ Flat(new)
                   THEN bad < cfg.max_bad /\ bad' = bad + 1
                   ELSE UNCHANGED bad
     \/ /\ bad < cfg.max_bad /\ bad' = bad + 1
        /\ \E failed \in {TRUE, work[u].failed} :
             work' = [work EXCEPT ![u].left = @ - 1, ![u].failed = failed]
        /\ UNCHANGED rows
  /\ UNCHANGED <<cfg, prompts, fetched, pc, stepVars, sampleVars, mini, batch,
                 history, ckpt, crashes>>

Status(u) == IF work[u].failed THEN "failure" ELSE "finished"

\* Only when all sessions have settled does _run_prompt report the outcome.
MutEndPrompt(u) ==
  /\ u \in DOMAIN work /\ work[u].started
  /\ work[u].left = 0 \/ work[u].failed
  /\ prompts' = [v \in DOMAIN prompts |->
                   IF v = u THEN [prompts[v] EXCEPT !.status = Status(u)]
                            ELSE prompts[v]]
  /\ work' = IF work[u].left = 0 THEN Drop(work, {u}) ELSE work
  /\ UNCHANGED <<cfg, rows, bad, fetched, pc, stepVars, sampleVars, mini,
                 batch, history, ckpt, crashes>>
EndPrompt(u) ==
  /\ u \in DOMAIN work /\ work[u].started /\ work[u].left = 0
  /\ prompts' = [prompts EXCEPT ![u].status = Status(u)]
  /\ work' = Drop(work, {u})
  /\ UNCHANGED <<cfg, rows, bad, fetched, pc, stepVars, sampleVars, mini,
                 batch, history, ckpt, crashes>>

-----------------------------------------------------------------------------
(* The trainer: start, and the parts of a step around sample *)

\* The state of TransferQueue after the groups gone are cleared and k fresh
\* prompts are submitted (_clear_groups, _add_prompts_to_generate).
Replace(gone, k) ==
  /\ prompts' = Put(Drop(prompts, gone), New(k), Fresh)
  /\ rows' = Drop(rows, gone)
  /\ work' = Put(work, New(k), Task)
  /\ fetched' = fetched + k

\* What a checkpoint gives back of TransferQueue, and which of the prompts are
\* dispatched anew.
Restores == ~Sync /\ cfg.tq_checkpoint
MutRestored == IF Restores THEN Drop(ckpt.prompts, Inflight(ckpt.prompts))
                           ELSE Empty
Restored == IF Restores THEN ckpt.prompts ELSE Empty
MutReissued == {}
Reissued == Inflight(Restored)

\* A (re)start: _load_checkpoint, _reissue_inflight_prompts and the warmup
\* batches of on_train_begin; the loop of fit may have no step left.
Boot ==
  /\ pc = "boot"
  /\ LET start == ckpt.step + 1
         count == cfg.num_warmup_batches * cfg.train_batch_size
         issued == Reissued \union
                   ((ckpt.fetched + 1) .. (ckpt.fetched + count))
     IN  /\ prompts' = Put(Restored, issued,
                           [status |-> "pending", step |-> start])
         /\ work' = [u \in issued |-> Task]
         /\ rows' = IF Restores THEN Drop(ckpt.rows, issued) ELSE Empty
         /\ fetched' = ckpt.fetched + count
         /\ global_steps' = start
         /\ pc' = IF start > cfg.total_training_steps THEN "done" ELSE "begin"
  /\ trained' = ckpt.trained /\ discarded' = ckpt.discarded
  /\ UNCHANGED <<cfg, bad, local_trigger_step, sampleVars, mini, batch, ckpt,
                 crashes>>

\* step submits a batch and goes on to its first sample call.
BeginStep ==
  /\ pc = "begin"
  /\ Replace({}, cfg.train_batch_size)
  /\ local_trigger_step' = 0
  /\ refill_credit' = 0 /\ draining' = FALSE
  /\ pc' = "poll"
  /\ UNCHANGED <<cfg, bad, global_steps, snap, mini, batch, history, ckpt,
                 crashes>>

MoreUpdates == local_trigger_step + 1 < cfg.parameter_sync_step
SampleSize == cfg.train_batch_size \div cfg.parameter_sync_step

\* on_sample_end and the training on the batch, which raises if the batch has
\* no trajectory at all (in sample, or when it is balanced over the ranks).
Train ==
  /\ pc = "sampled"
  /\ IF DOMAIN mini \intersect DOMAIN rows = {}
       THEN pc' = "raised" /\ UNCHANGED <<local_trigger_step, mini, batch,
                                           trained>>
       ELSE /\ trained' = trained \union DOMAIN mini
            /\ batch' = batch \union DOMAIN mini
            /\ mini' = Empty
            /\ local_trigger_step' = local_trigger_step + 1
            /\ pc' = IF MoreUpdates THEN "poll" ELSE "save"
  /\ refill_credit' = 0 /\ draining' = FALSE
  /\ UNCHANGED <<cfg, workerVars, fetched, global_steps, snap, discarded, ckpt,
                 crashes>>

IsLastStep == global_steps >= cfg.total_training_steps

\* _save_checkpoint; the rows of this step's batch are still there.
Save ==
  /\ pc = "save"
  /\ ckpt' = IF IsLastStep \/ global_steps % cfg.save_freq = 0
               THEN [step |-> global_steps, fetched |-> fetched,
                     prompts |-> prompts, rows |-> rows, trained |-> trained,
                     discarded |-> discarded]
               ELSE ckpt
  /\ pc' = "clear"
  /\ UNCHANGED <<cfg, workerVars, fetched, stepVars, sampleVars, mini, batch,
                 history, crashes>>

\* The end of a step: the batch leaves TransferQueue.
EndStep ==
  /\ pc = "clear"
  /\ rows' = Drop(rows, batch)
  /\ batch' = {}
  /\ global_steps' = global_steps + 1
  /\ pc' = IF IsLastStep THEN "done" ELSE "begin"
  /\ UNCHANGED <<cfg, prompts, work, bad, fetched, local_trigger_step,
                 sampleVars, mini, history, ckpt, crashes>>

-----------------------------------------------------------------------------
(* sample *)

\* _sync_metadata_from_transfer_queue
Poll ==
  /\ pc = "poll"
  /\ snap' = [prompts |-> prompts, rows |-> rows]
  /\ pc' = "act"
  /\ UNCHANGED <<cfg, workerVars, fetched, stepVars, refill_credit, draining,
                 mini, batch, history, ckpt, crashes>>

\* How many model versions a group spans if it is trained on now.
Span(p, u) == global_steps - p[u].step + 1

Finished == With(snap.prompts, "finished")
Failed == With(snap.prompts, "failure")

\* _dapo_filtered_keys, which raises on a finished group without trajectories
DapoFiltered ==
  {u \in Finished \intersect DOMAIN snap.rows : cfg.dapo /\ Flat(snap.rows[u])}
MissingMetric == cfg.dapo /\ ~(Finished \subseteq DOMAIN snap.rows)
SampleRaises ==
  /\ pc = "act" /\ MissingMetric
  /\ pc' = "raised" /\ snap' = NoSnap
  /\ UNCHANGED <<cfg, workerVars, fetched, stepVars, refill_credit, draining,
                 mini, batch, history, ckpt, crashes>>

\* _terminal_eviction_reasons, of each kind of replay buffer
StaleTerminal ==
  {u \in Finished : /\ cfg.max_off_policy_strategy = "drop"
                    /\ Span(snap.prompts, u) > cfg.max_off_policy_threshold}
FailedEmpty == IF cfg.sync_refill_failed_groups THEN Failed \ DOMAIN snap.rows
                                                ELSE {}
Evicted == IF Sync THEN DapoFiltered \union FailedEmpty
                   ELSE StaleTerminal \union DapoFiltered \union Failed

Sampleable == Terminal(snap.prompts) \ Evicted
Enough == Cardinality(Sampleable) >= SampleSize

\* _select_prompt_uids: the oldest, in any order within a step
Oldest == {S \in kSubset(SampleSize, Sampleable) :
             \A u \in S, v \in Sampleable \ S :
               snap.prompts[u].step <= snap.prompts[v].step}

\* _materialize_batch takes the prompt keys away; the rows stay until EndStep.
Materialize(S, surplus) ==
  /\ mini' = [u \in S |-> snap.prompts[u].step]
  /\ prompts' = Drop(prompts, S \union surplus)
  /\ rows' = Drop(rows, surplus)
  /\ discarded' = discarded \union surplus
  /\ pc' = "sampled" /\ snap' = NoSnap

\* ReplayBufferAsync.sample: evict and refill ...
MutRefillCount == Cardinality(StaleTerminal) + Cardinality(DapoFiltered)
                  + Cardinality(Failed)
RefillCount == Cardinality(Evicted)
EvictAsync ==
  /\ pc = "act" /\ ~Sync /\ ~MissingMetric
  /\ Evicted # {}
  /\ Replace(Evicted, RefillCount)
  /\ discarded' = discarded \union Evicted
  /\ pc' = "poll" /\ snap' = NoSnap
  /\ UNCHANGED <<cfg, bad, stepVars, refill_credit, draining, mini, batch,
                 trained, ckpt, crashes>>

\* ... or take a batch, unless "wait" has a prompt in flight to wait for ...
MutMustWait ==
  /\ cfg.max_off_policy_strategy = "wait"
  /\ \E u \in Inflight(snap.prompts) :
       Span(snap.prompts, u) > cfg.max_off_policy_threshold
MustWait ==
  /\ cfg.max_off_policy_strategy = "wait"
  /\ \E u \in Inflight(snap.prompts) :
       Span(snap.prompts, u) >= cfg.max_off_policy_threshold

SelectAsync ==
  /\ pc = "act" /\ ~Sync /\ ~MissingMetric
  /\ Evicted = {} /\ Enough /\ ~MustWait
  /\ \E S \in Oldest : Materialize(S, {})
  /\ UNCHANGED <<cfg, work, bad, fetched, stepVars, refill_credit, draining,
                 batch, trained, ckpt, crashes>>

\* ... or sleep until the next poll.
WaitAsync ==
  /\ pc = "act" /\ ~Sync /\ ~MissingMetric
  /\ Evicted = {} /\ (~Enough \/ MustWait)
  /\ pc' = "poll" /\ snap' = NoSnap
  /\ UNCHANGED <<cfg, workerVars, fetched, stepVars, refill_credit, draining,
                 mini, batch, history, ckpt, crashes>>

\* ReplayBuffer.sample: the credit before dispatch, and what is dispatched
Credit == IF Enough THEN 0
          ELSE IF draining THEN refill_credit
          ELSE refill_credit + 2 * Cardinality(DapoFiltered)
                             + Cardinality(FailedEmpty)
Slots == LET bound == cfg.max_inflight_gen_batches * cfg.train_batch_size
             busy == Cardinality(Inflight(snap.prompts))
         IN  IF busy < bound THEN bound - busy ELSE 0
Dispatch == IF ~cfg.dapo THEN IF Enough THEN 0 ELSE Cardinality(FailedEmpty)
            ELSE IF draining \/ Enough THEN 0
            ELSE Min({Credit, Slots})

\* Sync DAPO lets requests in flight end before it takes a batch.
MutCanSelect == Enough
CanSelect == Enough /\ (cfg.dapo => Inflight(snap.prompts) = {})

SampleSync ==
  /\ pc = "act" /\ Sync /\ ~MissingMetric
  /\ refill_credit' = IF cfg.dapo THEN Credit - Dispatch ELSE 0
  /\ draining' = (draining \/ (cfg.dapo /\ Enough))
  /\ \/ /\ Dispatch > 0 \/ ~CanSelect
        /\ Replace(Evicted, Dispatch)
        /\ discarded' = discarded \union Evicted
        /\ pc' = "poll" /\ snap' = NoSnap
        /\ UNCHANGED mini
     \/ /\ Dispatch = 0 /\ CanSelect
        /\ \E S \in Oldest :
             Materialize(S, Evicted \union (IF cfg.dapo THEN Sampleable \ S
                                                        ELSE {}))
        /\ UNCHANGED <<work, fetched>>
  /\ UNCHANGED <<cfg, bad, stepVars, batch, trained, ckpt, crashes>>

-----------------------------------------------------------------------------
\* The job dies: TransferQueue, workers and trainer lose what they hold.
Crash ==
  /\ crashes < cfg.max_crashes /\ pc \notin {"boot", "done", "raised"}
  /\ crashes' = crashes + 1
  /\ pc' = "boot"
  /\ prompts' = Empty /\ rows' = Empty /\ work' = Empty /\ mini' = Empty
  /\ batch' = {} /\ fetched' = 0 /\ global_steps' = 0
  /\ local_trigger_step' = 0 /\ refill_credit' = 0 /\ draining' = FALSE
  /\ snap' = NoSnap
  /\ trained' = {} /\ discarded' = {}
  /\ UNCHANGED <<cfg, bad, ckpt>>

Init ==
  /\ cfg \in Configs
  /\ prompts = Empty /\ rows = Empty /\ work = Empty /\ mini = Empty
  /\ batch = {} /\ fetched = 0 /\ pc = "boot" /\ global_steps = 0
  /\ local_trigger_step = 0 /\ refill_credit = 0 /\ draining = FALSE
  /\ snap = NoSnap
  /\ trained = {} /\ discarded = {}
  /\ ckpt = [step |-> 0, fetched |-> 0, prompts |-> Empty, rows |-> Empty,
             trained |-> {}, discarded |-> {}]
  /\ bad = 0 /\ crashes = 0

Worker == \E u \in DOMAIN work : RunPrompt(u) \/ Session(u) \/ EndPrompt(u)
Sample == Poll \/ SampleRaises \/ EvictAsync \/ SelectAsync \/ WaitAsync
          \/ SampleSync
Trainer == Boot \/ BeginStep \/ Sample \/ Train \/ Save \/ EndStep
Ended == pc \in {"done", "raised"} /\ UNCHANGED vars

Next == Worker \/ Trainer \/ Crash \/ Ended

Fairness == WF_vars(Worker) /\ WF_vars(Trainer)
Spec == Init /\ [][Next]_vars /\ Fairness
-----------------------------------------------------------------------------
(* Properties *)

Entry == [status : {"pending", "running", "finished", "failure"}, step : Nat]
Store(p, r) == /\ \A u \in DOMAIN p : u \in Nat /\ p[u] \in Entry
               /\ \A u \in DOMAIN r : u \in Nat /\ r[u] \in [Rewards -> Nat]

\* Types; no more sessions are left than a prompt has, and a step never makes
\* more local updates than parameter_sync_step.
TypeOK ==
  /\ cfg \in Configs
  /\ Store(prompts, rows) /\ Store(snap.prompts, snap.rows)
  /\ Store(ckpt.prompts, ckpt.rows)
  /\ \A u \in DOMAIN work :
       work[u] \in [started : BOOLEAN, left : 0 .. cfg.n, failed : BOOLEAN]
  /\ \A u \in DOMAIN mini : mini[u] \in Nat
  /\ fetched \in Nat /\ global_steps \in Nat /\ refill_credit \in Nat
  /\ local_trigger_step \in 0 .. cfg.parameter_sync_step
  /\ draining \in BOOLEAN
  /\ pc \in {"boot", "begin", "poll", "act", "sampled", "save", "clear",
             "done", "raised"}
  /\ batch \subseteq Nat /\ trained \subseteq Nat /\ discarded \subseteq Nat
  /\ bad \in 0 .. cfg.max_bad /\ crashes \in 0 .. cfg.max_crashes

\* Staleness is bounded by max_off_policy_threshold.  With the strategy "drop",
\* what sample hands out spans at most so many model versions, although groups
\* become terminal while it works (the assertion at the end of
\* ReplayBufferAsync.sample).  With "wait", no prompt is even generated over
\* more of them, restarts included.
StalenessBounded ==
  ~Sync =>
    IF cfg.max_off_policy_strategy = "drop"
      THEN pc = "sampled" => \A u \in DOMAIN mini :
             global_steps - mini[u] + 1 <= cfg.max_off_policy_threshold
      ELSE \A u \in Inflight(prompts) :
             Span(prompts, u) <= cfg.max_off_policy_threshold

\* sample never waits for more groups than there are or will be dispatched.
\* In sync mode credit stands for what is missing; the async buffer keeps its
\* warmup batches plus what this step has not taken yet, and grows by the
\* warmup batches at a restart only.
Population ==
  LET left == SampleSize * (cfg.parameter_sync_step - local_trigger_step)
      warm == cfg.num_warmup_batches * cfg.train_batch_size
      size == Cardinality(DOMAIN prompts)
  IN  pc = "poll" =>
        IF Sync THEN size + refill_credit >= left
        ELSE size >= warm + left /\ size <= warm * (crashes + 1) + left

\* Prompts taken from the dataloader are trained on, discarded or still in
\* TransferQueue, and never in two of these, over restarts as well; the
\* asynchronous modes need TransferQueue's checkpoint for it.
Accounted ==
  LET held == DOMAIN prompts \union DOMAIN mini
  IN  Sync \/ cfg.tq_checkpoint =>
        /\ pc # "boot" => 1 .. fetched = held \union trained \union discarded
        /\ held \intersect (trained \union discarded) = {}
        /\ trained \intersect discarded = {}

\* A synchronous trainer puts the replicas to sleep (on_sample_end) only when
\* no worker has a request in flight.
SleepsIdle ==
  Sync /\ pc = "sampled" => Inflight(prompts) = {} /\ DOMAIN work = {}

\* Trajectories belong to a prompt that is still there or to the batch in
\* training; only a restart leaves rows behind, those of the batch that was
\* saved before it was cleared.
NoOrphanRows ==
  DOMAIN rows \ (DOMAIN prompts \union DOMAIN mini \union batch)
    \subseteq IF crashes = 0 THEN {} ELSE ckpt.trained

\* Training ends, and raises only if a session or a group was bad.
Termination == <>(pc = "done" \/ (pc = "raised" /\ bad > 0))
=============================================================================
