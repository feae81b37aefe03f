---------------------------- MODULE MCBatchFlow ----------------------------
EXTENDS BatchFlow

\* The math grader returns a prediction, the code grader does not, instruction
\* following has a breakdown of its own.
MCRewardKeys == [math |-> {"acc", "pred"}, code |-> {"acc"},
                 ifeval |-> {"acc", "strict"}]

Train(n, lens, dp, budgets, divisors) ==
  {[kind |-> "train", seqlens |-> s, dp |-> dp, max_token_len |-> m,
    divided_by |-> d] :
     s \in [1 .. n -> lens], m \in budgets, d \in divisors}

\* One rank with many rows; two ranks; three.
MCTrainJobs == Train(6, 1 .. 3, 1, {3, 5}, {1})
               \union Train(6, {1, 3}, 2, {3, 4}, {1, 2})
               \union Train(6, {1, 2}, 3, {2}, {1})

Domains == DOMAIN MCRewardKeys
MCValJobs ==
  {[kind |-> "validate", batches |-> b, workers |-> w] :
     b \in {<<c>> : c \in UNION {[1 .. n -> Domains] : n \in 1 .. 5}}
           \union {<<c, d>> : c \in [1 .. 3 -> Domains], d \in [1 .. 2 -> Domains]},
     w \in 1 .. 3}
=============================================================================
