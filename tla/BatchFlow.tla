----------------------------- MODULE BatchFlow -----------------------------
(***************************************************************************)
(* What happens to the rows of a batch on their way through the workers.   *)
(*                                                                         *)
(* Training: _balance_batch orders the rows so that each data parallel     *)
(* rank gets the same number of rows and about the same work, dispatch     *)
(* cuts the batch into chunks, every rank splits its chunk into micro      *)
(* batches, computes them in lockstep with the other ranks and restores    *)
(* the order, collect puts the answers together.                           *)
(*                                                                         *)
(* Validation: a batch is padded, cut, generated and scored by the agent   *)
(* loop workers, put together and cut back.  Verifiers of different        *)
(* domains return different reward columns.                                *)
(*                                                                         *)
(* A row is its position in the batch; what a worker computes for a row is *)
(* named by the row, so that an output is the sequence of the rows its     *)
(* entries belong to.                                                      *)
(***************************************************************************)
EXTENDS Naturals, Sequences, FiniteSets, FiniteSetsExt, SequencesExt

CONSTANTS
  TrainJobs,   \* seqlens, dp, max_token_len and divided_by of training steps
  ValJobs,     \* batches (sequences of domains) and workers of validations
  RewardKeys   \* the reward columns the verifier of each domain returns

TrainJob == [kind : {"train"}, seqlens : Seq(Nat \ {0}), dp : Nat \ {0},
             max_token_len : Nat \ {0},
             divided_by : Nat \ {0}]     \* num_batches_divided_by
ValJob == [kind : {"validate"}, batches : Seq(Seq(DOMAIN RewardKeys)),
           workers : Nat \ {0}]          \* agent.num_workers

\* rearrange_micro_batches asserts that a row fits into a micro batch,
\* karmarkar_karp that the ranks get the same number of rows.
ASSUME BatchAssumption ==
  /\ TrainJobs \subseteq TrainJob /\ ValJobs \subseteq ValJob
  /\ \A t \in TrainJobs :
       /\ t.seqlens # <<>> /\ Len(t.seqlens) % t.dp = 0
       /\ \A i \in DOMAIN t.seqlens : t.seqlens[i] <= t.max_token_len
  /\ \A v \in ValJobs : \A b \in ToSet(v.batches) : b # <<>>

VARIABLES
  job,
  status,       \* of the controller
  heap,         \* states_pq of the controller (0) and of every rank
  rows,         \* the rows of every rank
  phase,        \* of every rank
  micro,        \* micro_bsz_idx of every rank
  at,           \* micro batches computed; validation batches done
  output,       \* what is collected
  keys, columns,  \* reward_extra_keys and columns of the batch validated
  infos,        \* reward_extra_infos_dict: number of values of every key
  scores        \* number of sample_scores

trainVars == <<heap, rows, phase, micro>>
valVars == <<keys, columns, infos, scores>>
vars == <<job, status, trainVars, at, output, valVars>>

Ranks == 1 .. job.dp
Keys == UNION {RewardKeys[d] : d \in DOMAIN RewardKeys}
Upto(n) == [i \in 1 .. n |-> i]

-----------------------------------------------------------------------------
(* Chunks and slices *)

\* DataProto.chunk
Chunk(s, n) ==
  LET m == Len(s) \div n IN [i \in 1 .. n |-> SubSeq(s, (i - 1) * m + 1, i * m)]

\* s[::2] and s[1::2]
Evens(s) == [i \in 1 .. (Len(s) + 1) \div 2 |-> s[2 * i - 1]]
Odds(s) == [i \in 1 .. Len(s) \div 2 |-> s[2 * i]]

\* The sequence f itself; TLC evaluates the elements of a tuple only once.
Tuple(f) == <<>> \o f

\* s sorted, when before[i] are the positions that come before position i
InOrder(s, before) ==
  Tuple([r \in DOMAIN s |->
           s[CHOOSE i \in DOMAIN s : Cardinality(before[i]) = r - 1]])

\* ceildiv and roundup_divisible
CeilDiv(a, b) == (a + b - 1) \div b
RoundUp(a, b) == ((a + b - 1) \div b) * b

-----------------------------------------------------------------------------
(* karmarkar_karp: a Set has items and their sum, a State is the sequence   *)
(* of its k Sets in decreasing order.                                       *)

Workload(seqlen) == 24576 * seqlen + seqlen * seqlen
Work(w, i) == Workload(job.seqlens[IF w = 0 THEN i ELSE rows[w][i]])

ItemSet == [sum : Nat, items : Seq(Nat)]
EmptySet == [sum |-> 0, items |-> <<>>]
Single(w, i) == [sum |-> Work(w, i), items |-> <<i>>]
Join(a, b) == [sum |-> a.sum + b.sum, items |-> a.items \o b.items]

\* Set.__lt__: items are compared last, and those of two sets are distinct.
Less(a, b) ==
  \/ a.sum < b.sum
  \/ a.sum = b.sum /\ Len(a.items) < Len(b.items)
  \/ /\ a.sum = b.sum /\ Len(a.items) = Len(b.items) /\ a.items # <<>>
     /\ a.items[1] < b.items[1]
Sorted[state \in Seq(ItemSet)] ==
  InOrder(state, [i \in DOMAIN state |->
            {j \in DOMAIN state :
               \/ Less(state[i], state[j])
               \/ ~Less(state[j], state[i]) /\ j < i}])
Spread(state) == state[1].sum - state[Len(state)].sum

\* State.__lt__: s is popped before t.
Before(s, t) == \/ Spread(s) > Spread(t)
                \/ Spread(s) = Spread(t) /\ Less(t[1], s[1])
First(states) == CHOOSE s \in states : \A t \in states \ {s} : Before(s, t)

\* State.merge: the heaviest sets get the lightest ones.
MutMerged(s, t) == Sorted[Tuple([i \in DOMAIN s |-> Join(s[i], t[i])])]
Merged(s, t) ==
  Sorted[Tuple([i \in DOMAIN s |-> Join(s[i], t[Len(s) + 1 - i])])]

\* The heap at first: k items of about the same size each, or one.
Ascending(w) ==
  [idx \in Seq(Nat) |->
     InOrder(idx, [i \in DOMAIN idx |->
               {j \in DOMAIN idx :
                  \/ Work(w, idx[j]) < Work(w, idx[i])
                  \/ Work(w, idx[j]) = Work(w, idx[i]) /\ idx[j] < idx[i]}])]
EqualStates(w, n, k) ==
  LET asc == Ascending(w)[Upto(n)]
  IN  {Sorted[Tuple([i \in 1 .. k |-> Single(w, asc[k * o + i])])] :
         o \in 0 .. n \div k - 1}
SingleStates(w, n, k) ==
  {[i \in 1 .. k |-> IF i = 1 THEN Single(w, x) ELSE EmptySet] :
     x \in 1 .. n}

\* The two states that come first are merged.
Popped(states, s, t) == states \ {s, t}
MergeStep(w) ==
  LET s == First(heap[w])
      t == First(heap[w] \ {s})
  IN  /\ Cardinality(heap[w]) > 1
      /\ heap' = [heap EXCEPT ![w] = Popped(@, s, t) \union {Merged(s, t)}]

\* get_seqlen_balanced_partitions, when one state is left
Merging(w) == Cardinality(heap[w]) > 1
Increasing[s \in Seq(Nat)] ==
  InOrder(s, [i \in DOMAIN s |-> {j \in DOMAIN s : s[j] < s[i]}])
Partitions(w) ==
  LET state == CHOOSE s \in heap[w] : TRUE
  IN  Tuple([i \in DOMAIN state |-> Increasing[state[i].items]])
SomeEmpty(w) == <<>> \in ToSet(Partitions(w))

-----------------------------------------------------------------------------
(* A training step *)

\* _balance_batch: balance with equal sizes.
Balance ==
  /\ job.kind = "train" /\ status = "begin"
  /\ status' = "balance"
  /\ heap' = [heap EXCEPT ![0] = EqualStates(0, Len(job.seqlens), job.dp)]
  /\ UNCHANGED <<job, rows, phase, micro, at, output, valVars>>

BalanceStep ==
  /\ status = "balance" /\ MergeStep(0)
  /\ UNCHANGED <<job, status, rows, phase, micro, at, output, valVars>>

\* Within a partition the smaller rows are at both ends.
Ends[s \in Seq(Nat)] == Evens(s) \o Reverse(Odds(s))
GlobalIdx ==
  LET parts == Partitions(0)
  IN  FlattenSeq([i \in Ranks |-> Ends[Ascending(0)[parts[i]]]])

\* The rows are reordered and the ranks get their chunks.
Dispatch ==
  /\ status = "balance" /\ ~Merging(0)
  /\ IF SomeEmpty(0)
       THEN status' = "assertion" /\ UNCHANGED <<rows, phase>>
       ELSE /\ status' = "infer"
            /\ rows' = Chunk(GlobalIdx, job.dp)
            /\ phase' = [r \in Ranks |-> "count"]
  /\ UNCHANGED <<job, heap, micro, at, output, valVars>>

\* rearrange_micro_batches: the number of micro batches by rank r's tokens
OwnCount(r) ==
  Min({Len(rows[r]),
       CeilDiv(SumFunction([i \in DOMAIN rows[r] |-> job.seqlens[rows[r][i]]]),
               job.max_token_len)})

\* all_reduce with MAX over the ranks, rounded up for the pipeline
MutNumMicroBatches(r) == RoundUp(OwnCount(r), job.divided_by)
NumMicroBatches(r) ==
  RoundUp(Max({OwnCount(q) : q \in Ranks}), job.divided_by)

\* Every rank takes part in the all_reduce; then it partitions its rows.
Reduce(r) ==
  /\ status = "infer" /\ phase[r] = "count"
  /\ LET k == NumMicroBatches(r)
     IN  IF k <= Len(rows[r])
           THEN /\ phase' = [phase EXCEPT ![r] = "split"]
                /\ heap' = [heap EXCEPT ![r] = SingleStates(r, Len(rows[r]), k)]
           ELSE phase' = [phase EXCEPT ![r] = "too_many"] /\ UNCHANGED heap
  /\ UNCHANGED <<job, status, rows, micro, at, output, valVars>>

SplitStep(r) ==
  /\ phase[r] = "split" /\ MergeStep(r)
  /\ UNCHANGED <<job, status, rows, phase, micro, at, output, valVars>>

\* use_dynamic_bsz_balance: the smaller micro batches at both ends
Heaviest[s \in Seq(ItemSet)] ==
  InOrder(s, [i \in DOMAIN s |->
            {j \in DOMAIN s :
               \/ s[j].sum > s[i].sum
               \/ s[j].sum = s[i].sum /\ s[j].items[1] > s[i].items[1]}])
BothEnds[s \in Seq(ItemSet)] == Reverse(Evens(s)) \o Odds(s)
Items[s \in Seq(ItemSet)] == [i \in DOMAIN s |-> s[i].items]
Arranged(r) ==
  [parts \in Seq(Seq(Nat)) |->
     Items[BothEnds[Heaviest[Tuple([i \in DOMAIN parts |->
       [sum |-> SumFunction([j \in DOMAIN parts[i] |-> Work(r, parts[i][j])]),
        items |-> parts[i]]])]]]]

Arrange(r) ==
  /\ phase[r] = "split" /\ ~Merging(r)
  /\ IF SomeEmpty(r)
       THEN phase' = [phase EXCEPT ![r] = "assertion"] /\ UNCHANGED micro
       ELSE /\ phase' = [phase EXCEPT ![r] = "forward"]
            /\ micro' = [micro EXCEPT ![r] = Arranged(r)[Partitions(r)]]
  /\ UNCHANGED <<job, status, heap, rows, at, output, valVars>>

\* A micro batch is computed together with the other ranks, which gather
\* parameters from each other: rank q has come to its i-th micro batch.
Arrived(q, i) ==
  i <= at[q] \/ (phase[q] = "forward" /\ i = at[q] + 1 /\ i <= Len(micro[q]))
Forward(r) ==
  /\ phase[r] = "forward" /\ at[r] < Len(micro[r])
  /\ \A q \in Ranks : Arrived(q, at[r] + 1)
  /\ at' = [at EXCEPT ![r] = @ + 1]
  /\ UNCHANGED <<job, status, trainVars, output, valVars>>

\* restore_dynamic_batch: get_reverse_idx of the indices in computed order
MutReverseIdx(indices) == indices
ReverseIdx(indices) ==
  [j \in DOMAIN indices |-> CHOOSE i \in DOMAIN indices : indices[i] = j]
Restore(r) ==
  LET indices == FlattenSeq(micro[r])
  IN  [j \in DOMAIN indices |-> rows[r][indices[ReverseIdx(indices)[j]]]]

Return(r) ==
  /\ phase[r] = "forward" /\ at[r] = Len(micro[r])
  /\ phase' = [phase EXCEPT ![r] = "done"]
  /\ output' = [output EXCEPT ![r] = Restore(r)]
  /\ UNCHANGED <<job, status, heap, rows, micro, at, valVars>>

\* collect_nd_compute_dataproto; an error of a rank is raised by the caller.
Collect ==
  /\ status = "infer"
  /\ \/ /\ \A r \in Ranks : phase[r] = "done"
        /\ status' = "done" /\ output' = FlattenSeq(output)
     \/ /\ \E r \in Ranks : phase[r] \in {"too_many", "assertion"}
        /\ status' = "error" /\ UNCHANGED output
  /\ UNCHANGED <<job, trainVars, at, valVars>>

-----------------------------------------------------------------------------
(* Validation *)

\* pad_dataproto_to_divisor and unpad_dataproto
PadSize(n, d) == IF n % d = 0 THEN 0 ELSE d - (n % d)
Pad(s, d) == s \o [i \in 1 .. PadSize(Len(s), d) |-> s[((i - 1) % Len(s)) + 1]]
Unpad(s, pad_size) == SubSeq(s, 1, Len(s) - pad_size)

\* A worker's columns are those that each of its rows has.
Common(sets) == {k \in Keys : \A S \in sets : k \in S}
WorkerKeys(batch, chunk) == Common({RewardKeys[batch[i]] : i \in ToSet(chunk)})

\* _rebuild_manager_meta_info; parts are the workers' keys, and concat has
\* kept the keys and columns that all of them have.
MutRebuild(parts, present) == parts[1]
Rebuild(parts, present) == Common(ToSet(parts)) \intersect present

\* A batch of _validate
ValidateBatch ==
  /\ job.kind = "validate" /\ status = "begin" /\ at < Len(job.batches)
  /\ LET batch == job.batches[at + 1]
         padded == Pad(Upto(Len(batch)), job.workers)
         chunks == Chunk(padded, job.workers)
         parts == [w \in DOMAIN chunks |-> WorkerKeys(batch, chunks[w])]
     IN  /\ columns' = Common(ToSet(parts))
         /\ keys' = Rebuild(parts, columns')
         /\ output' = Unpad(FlattenSeq(chunks),
                            PadSize(Len(batch), job.workers))
  /\ infos' = [k \in Keys |-> infos[k] + (IF k \in keys' THEN Len(output')
                                                        ELSE 0)]
  /\ scores' = scores + Len(output')
  /\ at' = at + 1
  /\ UNCHANGED <<job, status, trainVars>>

\* ... which asserts at its end that every column is complete.
EndValidate ==
  /\ job.kind = "validate" /\ status = "begin" /\ at = Len(job.batches)
  /\ status' = IF \A k \in Keys : infos[k] \in {0, scores}
                 THEN "done" ELSE "assertion"
  /\ UNCHANGED <<job, trainVars, at, output, valVars>>

-----------------------------------------------------------------------------
Init ==
  /\ job \in TrainJobs \union ValJobs
  /\ status = "begin"
  /\ IF job.kind = "train"
       THEN /\ heap = [w \in 0 .. job.dp |-> {}]
            /\ rows = [r \in Ranks |-> <<>>]
            /\ phase = [r \in Ranks |-> "idle"]
            /\ micro = [r \in Ranks |-> <<>>]
            /\ at = [r \in Ranks |-> 0]
            /\ output = [r \in Ranks |-> <<>>]
       ELSE /\ heap = <<>> /\ rows = <<>> /\ phase = <<>> /\ micro = <<>>
            /\ at = 0 /\ output = <<>>
  /\ keys = {} /\ columns = {} /\ infos = [k \in Keys |-> 0] /\ scores = 0

Controller == Balance \/ BalanceStep \/ Dispatch \/ Collect \/ ValidateBatch
              \/ EndValidate
Rank(r) == Reduce(r) \/ SplitStep(r) \/ Arrange(r) \/ Forward(r) \/ Return(r)
RankStep == job.kind = "train" /\ \E r \in Ranks : Rank(r)

Next == Controller \/ RankStep

Spec == Init /\ [][Next]_vars /\ WF_vars(Controller) /\ WF_vars(RankStep)

-----------------------------------------------------------------------------
(* Properties *)

\* The answers are those to the rows of the batch, in its order: in training
\* after reordering, micro batching and restoring, in validation after
\* padding and cutting back.
Aligned ==
  IF job.kind = "train"
    THEN status = "done" => output = FlattenSeq(rows)
                            /\ ToSet(output) = DOMAIN job.seqlens
    ELSE at > 0 => output = Upto(Len(job.batches[at]))

\* What karmarkar_karp returns: no partition is empty, whatever the lengths,
\* so that the assertion of get_seqlen_balanced_partitions never fails; the
\* ranks' work, and the micro batches' work of a rank, differ by no more than
\* the heaviest row; and without pipeline rounding there are never more micro
\* batches than rows.
Balanced ==
  job.kind = "train" =>
    /\ status # "assertion"
    /\ \A r \in Ranks : phase[r] # "assertion"
    /\ \A r \in Ranks : phase[r] = "too_many" => job.divided_by > 1
    /\ \A w \in DOMAIN heap : heap[w] # {} /\ ~Merging(w) =>
         \A s \in heap[w] :
           Spread(s) <= Max({Work(w, i) : i \in UNION {ToSet(x.items) :
                                                         x \in ToSet(s)}})

\* Every key that names a reward column of the batch has one.
KeysNameColumns == keys \subseteq columns

\* The ranks never wait for one another for ever.
Termination == <>(status \in {"done", "error", "assertion"})
=============================================================================
