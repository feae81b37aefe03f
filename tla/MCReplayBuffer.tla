--------------------------- MODULE MCReplayBuffer ---------------------------
EXTENDS ReplayBuffer

\* One small configuration for each policy of the replay buffer.
Base == [mode |-> "async", train_batch_size |-> 1, parameter_sync_step |-> 1,
         num_warmup_batches |-> 1, max_off_policy_threshold |-> 1,
         max_off_policy_strategy |-> "drop", dapo |-> FALSE,
         max_inflight_gen_batches |-> 1, sync_refill_failed_groups |-> FALSE,
         tq_checkpoint |-> TRUE, n |-> 1, save_freq |-> 1,
         total_training_steps |-> 2, max_bad |-> 1, max_crashes |-> 1]
SyncBase == [Base EXCEPT !.mode = "sync", !.num_warmup_batches = 0,
                         !.train_batch_size = 2]
MCConfigs ==
  {[SyncBase EXCEPT !.max_bad = 2],
   [SyncBase EXCEPT !.sync_refill_failed_groups = TRUE, !.max_bad = 2,
                    !.total_training_steps = 1],
   [SyncBase EXCEPT !.dapo = TRUE, !.n = 2, !.total_training_steps = 1],
   [SyncBase EXCEPT !.dapo = TRUE, !.n = 2, !.sync_refill_failed_groups = TRUE,
                    !.total_training_steps = 1, !.max_crashes = 0],
   [Base EXCEPT !.dapo = TRUE, !.n = 2, !.max_crashes = 0],
   [Base EXCEPT !.dapo = TRUE, !.max_crashes = 0, !.total_training_steps = 1],
   [Base EXCEPT !.max_bad = 0],
   [Base EXCEPT !.tq_checkpoint = FALSE],
   [Base EXCEPT !.max_off_policy_strategy = "wait", !.max_bad = 0,
                !.max_off_policy_threshold = 2, !.total_training_steps = 3],
   [Base EXCEPT !.train_batch_size = 2, !.parameter_sync_step = 2,
                !.max_off_policy_threshold = 2, !.max_bad = 0, !.max_crashes = 0,
                !.total_training_steps = 1]}
=============================================================================
