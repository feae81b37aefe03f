-------------------------- MODULE ReplayBufferProofs --------------------------
(* What sample relies on while the workers go on, for any configuration,    *)
(* number of prompts and number of crashes: staleness is bounded, no prompt *)
(* is lost or trained on twice, the replicas are put to sleep idle, rows    *)
(* have an owner, and sample does not wait for groups that will never come. *)
EXTENDS ReplayBuffer, Integers, FiniteSetTheorems, TLAPS

Typed(p) == \A u \in DOMAIN p : p[u] \in Entry

\* Prompts are numbered by the dataloader, in the queue and in a checkpoint.
Basic ==
  /\ cfg \in Configs
  /\ fetched \in Nat /\ global_steps \in Nat /\ local_trigger_step \in Nat
  /\ refill_credit \in Nat /\ crashes \in Nat
  /\ ckpt.step \in Nat /\ ckpt.fetched \in Nat
  /\ Typed(prompts) /\ Typed(ckpt.prompts)
  /\ DOMAIN prompts \subseteq 1 .. fetched
  /\ DOMAIN ckpt.prompts \subseteq 1 .. ckpt.fetched

\* The workers have the prompts in flight, and no others.
Workers == DOMAIN work = Inflight(prompts)

\* The batch of the last sample call is there only until it is trained on.
Idle == pc \notin {"sampled", "raised"} => DOMAIN mini = {}

\* While sample works on its snapshot no prompt comes or goes, and what was
\* terminal in the snapshot has not changed since.
Snapshot ==
  pc = "act" =>
    /\ DOMAIN snap.prompts = DOMAIN prompts
    /\ \A u \in DOMAIN prompts :
         /\ snap.prompts[u] \in Entry
         /\ snap.prompts[u].step = prompts[u].step
         /\ snap.prompts[u].status \in {"finished", "failure"} =>
              /\ prompts[u] = snap.prompts[u]
              /\ u \in DOMAIN rows <=> u \in DOMAIN snap.rows
              /\ u \in DOMAIN rows => rows[u] = snap.rows[u]

Core == Basic /\ Workers /\ Idle /\ Snapshot

-----------------------------------------------------------------------------
(* Operators of the model *)

\* The fields of a configuration.
LEMMA ConfigFacts ==
  ASSUME cfg \in Configs
  PROVE  /\ cfg.train_batch_size \in Nat \ {0}
         /\ cfg.parameter_sync_step \in Nat \ {0}
         /\ cfg.num_warmup_batches \in Nat
         /\ cfg.max_off_policy_threshold \in Nat \ {0}
         /\ cfg.max_inflight_gen_batches \in Nat \ {0}
         /\ cfg.train_batch_size % cfg.parameter_sync_step = 0
         /\ cfg.dapo \in BOOLEAN
         /\ cfg.max_off_policy_strategy \in {"drop", "wait"}
         /\ Sync => cfg.parameter_sync_step = 1 /\ cfg.num_warmup_batches = 0
BY ReplayAssumption DEF Config, Sync

\* TransferQueue's puts and clears.
LEMMA StoreFacts ==
  ASSUME NEW f, NEW S, NEW v
  PROVE  /\ DOMAIN Put(f, S, v) = DOMAIN f \union S
         /\ \A u \in S : Put(f, S, v)[u] = v
         /\ \A u \in DOMAIN f \ S : Put(f, S, v)[u] = f[u]
         /\ DOMAIN Drop(f, S) = DOMAIN f \ S
         /\ \A u \in DOMAIN f \ S : Drop(f, S)[u] = f[u]
BY DEF Put, Drop, Restrict

\* Which prompts are in flight and which are terminal.
LEMMA StatusFacts ==
  ASSUME NEW p
  PROVE  /\ Inflight(p) = {u \in DOMAIN p : p[u].status \in {"pending", "running"}}
         /\ Terminal(p) = {u \in DOMAIN p : p[u].status \in {"finished", "failure"}}
BY DEF Inflight, Terminal, With

\* The prompts fetched next are new, and their number is k.
LEMMA NewFacts ==
  ASSUME fetched \in Nat, NEW k \in Nat
  PROVE  /\ New(k) \intersect (1 .. fetched) = {}
         /\ 1 .. (fetched + k) = (1 .. fetched) \union New(k)
         /\ New(0) = {}
         /\ IsFiniteSet(New(k)) /\ Cardinality(New(k)) = k
<1>1. New(k) \intersect (1 .. fetched) = {}
  BY DEF New
<1>2. 1 .. (fetched + k) = (1 .. fetched) \union New(k)
  BY DEF New
<1>3. New(0) = {}
  BY DEF New
<1>4. IsFiniteSet(New(k)) /\ Cardinality(New(k)) = k
  <2>1. fetched + 1 \in Int /\ fetched + k \in Int
    OBVIOUS
  <2>2. /\ IsFiniteSet(New(k))
        /\ Cardinality(New(k)) = IF fetched + 1 > fetched + k THEN 0
                                 ELSE (fetched + k) - (fetched + 1) + 1
    BY <2>1, FS_Interval DEF New
  <2>3. QED
    BY <2>2
<1>5. QED
  BY <1>1, <1>2, <1>3, <1>4

-----------------------------------------------------------------------------
(* Effects of the steps *)

\* What a worker does to TransferQueue: it touches one prompt in flight, moves
\* it forward, and adds to its rows only.
WorkerEffect(u) ==
  /\ u \in Inflight(prompts) /\ DOMAIN prompts' = DOMAIN prompts
  /\ \A v \in DOMAIN prompts : v # u => prompts'[v] = prompts[v]
  /\ prompts'[u].step = prompts[u].step /\ prompts'[u] \in Entry
  /\ DOMAIN rows \subseteq DOMAIN rows' /\ DOMAIN rows' \subseteq DOMAIN rows \union {u}
  /\ \A v \in DOMAIN rows : v # u => rows'[v] = rows[v]
  /\ UNCHANGED <<cfg, fetched, pc, stepVars, sampleVars, mini, batch, history,
                 ckpt, crashes>>

\* RunPrompt, Session and EndPrompt are such steps, and the prompt leaves the
\* worker when it becomes terminal.
LEMMA WorkerFacts ==
  ASSUME Core, NEW u \in DOMAIN work, RunPrompt(u) \/ Session(u) \/ EndPrompt(u)
  PROVE  WorkerEffect(u) /\ DOMAIN work' = Inflight(prompts')
<1>1. u \in DOMAIN prompts /\ u \in Inflight(prompts) /\ prompts[u] \in Entry
  BY StatusFacts DEF Core, Workers, Basic, Typed
<1>2. CASE RunPrompt(u)
  <2>1. prompts' = [prompts EXCEPT ![u].status = "running"]
    BY <1>2 DEF RunPrompt
  <2>2. /\ DOMAIN prompts' = DOMAIN prompts
        /\ prompts'[u] = [prompts[u] EXCEPT !.status = "running"]
        /\ \A v \in DOMAIN prompts : v # u => prompts'[v] = prompts[v]
    BY <1>1, <2>1
  <2>3. /\ prompts'[u].step = prompts[u].step /\ prompts'[u].status = "running"
        /\ prompts'[u] \in Entry
    BY <1>1, <2>2 DEF Entry
  <2>4. DOMAIN work' = DOMAIN work
    BY <1>2 DEF RunPrompt
  <2>5. Inflight(prompts') = Inflight(prompts)
    BY <1>1, <2>2, <2>3 DEF Inflight, With
  <2>6. QED
    BY <1>1, <1>2, <2>2, <2>3, <2>4, <2>5
    DEF WorkerEffect, RunPrompt, Core, Workers
<1>3. CASE Session(u)
  <2>1. /\ prompts' = prompts /\ DOMAIN work' = DOMAIN work
        /\ rows' = rows \/ \E new : rows' = Put(rows, {u}, new)
    BY <1>3 DEF Session
  <2>2. /\ DOMAIN rows \subseteq DOMAIN rows'
        /\ DOMAIN rows' \subseteq DOMAIN rows \union {u}
        /\ \A v \in DOMAIN rows : v # u => rows'[v] = rows[v]
    BY <2>1 DEF Put
  <2>3. QED
    BY <1>1, <1>3, <2>1, <2>2 DEF WorkerEffect, Session, Core, Workers
<1>4. CASE EndPrompt(u)
  <2>1. prompts' = [prompts EXCEPT ![u].status = Status(u)]
    BY <1>4 DEF EndPrompt
  <2>2. /\ DOMAIN prompts' = DOMAIN prompts
        /\ prompts'[u] = [prompts[u] EXCEPT !.status = Status(u)]
        /\ \A v \in DOMAIN prompts : v # u => prompts'[v] = prompts[v]
    BY <1>1, <2>1
  <2>3. Status(u) \in {"failure", "finished"}
    BY DEF Status
  <2>4. /\ prompts'[u].step = prompts[u].step
        /\ prompts'[u].status \in {"failure", "finished"}
        /\ prompts'[u] \in Entry
    BY <1>1, <2>2, <2>3 DEF Entry
  <2>5. DOMAIN work' = DOMAIN work \ {u}
    BY <1>4, StoreFacts DEF EndPrompt
  <2>6. Inflight(prompts') = Inflight(prompts) \ {u}
    BY <1>1, <2>2, <2>4 DEF Inflight, With
  <2>7. QED
    BY <1>1, <1>4, <2>2, <2>4, <2>5, <2>6
    DEF WorkerEffect, EndPrompt, Core, Workers
<1>5. QED
  BY <1>2, <1>3, <1>4

\* Terminal prompts are left alone by the workers.
LEMMA WorkerTerminal ==
  ASSUME Core, NEW u, WorkerEffect(u)
  PROVE  /\ \A v \in Terminal(prompts) :
              /\ v # u /\ v \in Terminal(prompts')
              /\ prompts'[v] = prompts[v]
              /\ v \in DOMAIN rows' <=> v \in DOMAIN rows
              /\ v \in DOMAIN rows => rows'[v] = rows[v]
         /\ Inflight(prompts') \subseteq Inflight(prompts)
<1>1. u \notin Terminal(prompts)
  BY StatusFacts DEF WorkerEffect
<1>2. QED
  BY <1>1, StatusFacts DEF WorkerEffect

\* Clearing terminal groups and submitting fresh prompts.
LEMMA ReplaceFacts ==
  ASSUME Core, NEW gone \in SUBSET Terminal(prompts), NEW k \in Nat,
         Replace(gone, k)
  PROVE  /\ DOMAIN prompts' = (DOMAIN prompts \ gone) \union New(k)
         /\ \A u \in DOMAIN prompts \ gone : prompts'[u] = prompts[u]
         /\ \A u \in New(k) : prompts'[u] = Fresh
         /\ DOMAIN rows' = DOMAIN rows \ gone
         /\ \A u \in DOMAIN rows' : rows'[u] = rows[u]
         /\ fetched' = fetched + k /\ fetched' \in Nat
         /\ Typed(prompts') /\ DOMAIN prompts' \subseteq 1 .. fetched'
         /\ DOMAIN work' = Inflight(prompts')
         /\ Inflight(prompts') = Inflight(prompts) \union New(k)
<1> USE DEF Core, Basic
<1>1. /\ prompts' = Put(Drop(prompts, gone), New(k), Fresh)
      /\ rows' = Drop(rows, gone) /\ work' = Put(work, New(k), Task)
      /\ fetched' = fetched + k
  BY DEF Replace
<1>2. /\ New(k) \intersect (1 .. fetched) = {}
      /\ 1 .. (fetched + k) = (1 .. fetched) \union New(k)
  BY NewFacts
<1>3. New(k) \intersect DOMAIN prompts = {}
  BY <1>2
<1>4. /\ DOMAIN Drop(prompts, gone) = DOMAIN prompts \ gone
      /\ \A u \in DOMAIN prompts \ gone : Drop(prompts, gone)[u] = prompts[u]
  BY StoreFacts
<1>5. /\ DOMAIN prompts' = (DOMAIN prompts \ gone) \union New(k)
      /\ \A u \in DOMAIN prompts \ gone : prompts'[u] = prompts[u]
      /\ \A u \in New(k) : prompts'[u] = Fresh
  BY <1>1, <1>3, <1>4 DEF Put
<1>6. /\ DOMAIN rows' = DOMAIN rows \ gone
      /\ \A u \in DOMAIN rows' : rows'[u] = rows[u]
      /\ DOMAIN work' = DOMAIN work \union New(k)
  BY <1>1 DEF Put, Drop, Restrict
<1>7. Fresh \in Entry /\ Fresh.status = "pending"
  BY DEF Fresh, Entry
<1>8. Typed(prompts')
  BY <1>5, <1>7 DEF Typed
<1>9. Inflight(prompts') = Inflight(prompts) \union New(k)
  BY <1>3, <1>5, <1>7, StatusFacts
<1>10. fetched' \in Nat /\ DOMAIN prompts' \subseteq 1 .. fetched'
  BY <1>1, <1>2, <1>5
<1>11. QED
  BY <1>1, <1>5, <1>6, <1>8, <1>9, <1>10 DEF Workers

\* Handing out terminal groups, and clearing surplus ones.
LEMMA MaterializeFacts ==
  ASSUME Core, NEW S \in SUBSET Terminal(prompts),
         NEW surplus \in SUBSET Terminal(prompts), Materialize(S, surplus),
         UNCHANGED <<work, fetched>>
  PROVE  /\ DOMAIN prompts' = DOMAIN prompts \ (S \union surplus)
         /\ \A u \in DOMAIN prompts' : prompts'[u] = prompts[u]
         /\ DOMAIN rows' = DOMAIN rows \ surplus
         /\ DOMAIN mini' = S /\ \A u \in S : mini'[u] = snap.prompts[u].step
         /\ Typed(prompts') /\ DOMAIN prompts' \subseteq 1 .. fetched'
         /\ Inflight(prompts') = Inflight(prompts)
         /\ DOMAIN work' = Inflight(prompts')
<1>1. /\ prompts' = Drop(prompts, S \union surplus)
      /\ rows' = Drop(rows, surplus)
      /\ mini' = [u \in S |-> snap.prompts[u].step]
  BY DEF Materialize
<1>2. /\ DOMAIN prompts' = DOMAIN prompts \ (S \union surplus)
      /\ \A u \in DOMAIN prompts' : prompts'[u] = prompts[u]
      /\ DOMAIN rows' = DOMAIN rows \ surplus
  BY <1>1 DEF Drop, Restrict
<1>3. Inflight(prompts') = Inflight(prompts)
  BY <1>2 DEF Inflight, Terminal, With
<1>4. Typed(prompts') /\ DOMAIN prompts' \subseteq 1 .. fetched'
  BY <1>2 DEF Core, Basic, Typed
<1>5. QED
  BY <1>1, <1>2, <1>3, <1>4 DEF Core, Workers

\* What sample sees in its snapshot, against what is there when it acts.
LEMMA SnapshotFacts ==
  ASSUME Core, pc = "act"
  PROVE  /\ Terminal(snap.prompts) \subseteq Terminal(prompts)
         /\ Inflight(prompts) \subseteq Inflight(snap.prompts)
         /\ DOMAIN snap.prompts = DOMAIN prompts
         /\ DOMAIN prompts = Inflight(snap.prompts) \union Terminal(snap.prompts)
         /\ Inflight(snap.prompts) \intersect Terminal(snap.prompts) = {}
         /\ Evicted \subseteq Terminal(snap.prompts)
         /\ Sampleable = Terminal(snap.prompts) \ Evicted
         /\ Terminal(snap.prompts) = Finished \union Failed
<1>1. \A u \in DOMAIN prompts :
        /\ prompts[u].status \in {"pending", "running", "finished", "failure"}
        /\ snap.prompts[u].status
             \in {"pending", "running", "finished", "failure"}
  BY DEF Core, Basic, Typed, Snapshot, Entry
<1>2. DOMAIN snap.prompts = DOMAIN prompts
  BY DEF Core, Snapshot
<1>3. \A u \in DOMAIN prompts :
        snap.prompts[u].status \in {"finished", "failure"} =>
          prompts[u] = snap.prompts[u]
  BY DEF Core, Snapshot
<1>4. Terminal(snap.prompts) = Finished \union Failed
  BY DEF Terminal, Finished, Failed
<1>5. Evicted \subseteq Finished \union Failed
  BY DEF Evicted, DapoFiltered, FailedEmpty, StaleTerminal
<1>6. /\ Terminal(snap.prompts) \subseteq Terminal(prompts)
      /\ Inflight(prompts) \subseteq Inflight(snap.prompts)
      /\ DOMAIN prompts = Inflight(snap.prompts) \union Terminal(snap.prompts)
      /\ Inflight(snap.prompts) \intersect Terminal(snap.prompts) = {}
  BY <1>1, <1>2, <1>3, StatusFacts
<1>7. QED
  BY <1>2, <1>4, <1>5, <1>6 DEF Sampleable

\* The sets sample counts are finite.
LEMMA CountFacts ==
  ASSUME Core
  PROVE  /\ IsFiniteSet(DOMAIN prompts)
         /\ \A S \in SUBSET DOMAIN prompts :
              IsFiniteSet(S) /\ Cardinality(S) \in Nat
<1>1. 1 \in Int /\ fetched \in Int
  BY DEF Core, Basic
<1>2. IsFiniteSet(1 .. fetched)
  BY <1>1, FS_Interval
<1>3. DOMAIN prompts \in SUBSET (1 .. fetched)
  BY DEF Core, Basic
<1>4. IsFiniteSet(DOMAIN prompts)
  BY <1>2, <1>3, FS_Subset
<1>5. QED
  BY <1>4, FS_Subset, FS_CardinalityType

\* The smaller of two numbers.
LEMMA MinFacts ==
  ASSUME NEW a \in Nat, NEW b \in Nat
  PROVE  Min({a, b}) \in Nat /\ Min({a, b}) <= a /\ Min({a, b}) <= b
<1>1. \E x \in {a, b} : \A y \in {a, b} : x =< y
  <2>1. CASE a <= b
    BY <2>1
  <2>2. CASE ~(a <= b)
    BY <2>2
  <2>3. QED
    BY <2>1, <2>2
<1>2. Min({a, b}) \in {a, b} /\ \A y \in {a, b} : Min({a, b}) =< y
  BY <1>1 DEF Min
<1>3. QED
  BY <1>2

\* The numbers sample works with are natural, and it dispatches no more than
\* its credit.
LEMMA SampleNumbers ==
  ASSUME Core, pc = "act"
  PROVE  /\ Cardinality(Evicted) \in Nat /\ Cardinality(Sampleable) \in Nat
         /\ Cardinality(DapoFiltered) \in Nat /\ Cardinality(FailedEmpty) \in Nat
         /\ Credit \in Nat /\ Slots \in Nat /\ Dispatch \in Nat
         /\ cfg.dapo => Dispatch <= Credit
<1>1. /\ Evicted \subseteq DOMAIN prompts /\ Sampleable \subseteq DOMAIN prompts
      /\ Inflight(snap.prompts) \subseteq DOMAIN prompts
      /\ Terminal(snap.prompts) \subseteq DOMAIN prompts
      /\ Terminal(snap.prompts) = Finished \union Failed
  BY SnapshotFacts
<1>2. DapoFiltered \subseteq DOMAIN prompts /\ FailedEmpty \subseteq DOMAIN prompts
  BY <1>1 DEF DapoFiltered, FailedEmpty
<1>3. /\ Cardinality(Evicted) \in Nat /\ Cardinality(Sampleable) \in Nat
      /\ Cardinality(DapoFiltered) \in Nat /\ Cardinality(FailedEmpty) \in Nat
      /\ Cardinality(Inflight(snap.prompts)) \in Nat
  BY <1>1, <1>2, CountFacts
<1>4. PICK d \in Nat, e \in Nat, i \in Nat :
        /\ d = Cardinality(DapoFiltered) /\ e = Cardinality(FailedEmpty)
        /\ i = Cardinality(Inflight(snap.prompts))
  BY <1>3
<1>5. Credit \in Nat
  <2>1. Credit = IF Enough THEN 0 ELSE IF draining THEN refill_credit
                 ELSE refill_credit + 2 * d + e
    BY <1>4 DEF Credit
  <2>2. refill_credit \in Nat
    BY DEF Core, Basic
  <2>3. refill_credit + 2 * d + e \in Nat
    BY <2>2
  <2>4. QED
    BY <2>1, <2>2, <2>3
<1>6. Slots \in Nat
  <2>1. cfg.max_inflight_gen_batches \in Nat /\ cfg.train_batch_size \in Nat
    BY ConfigFacts DEF Core, Basic
  <2>2. PICK m \in Nat : m = cfg.max_inflight_gen_batches * cfg.train_batch_size
    BY <2>1
  <2>3. Slots = IF i < m THEN m - i ELSE 0
    BY <1>4, <2>2 DEF Slots
  <2>4. QED
    BY <2>3
<1>7. /\ Min({Credit, Slots}) \in Nat /\ Min({Credit, Slots}) <= Credit
  BY <1>5, <1>6, MinFacts
<1>8. Dispatch \in Nat
  BY <1>3, <1>7 DEF Dispatch
<1>9. cfg.dapo => Dispatch <= Credit
  <2>1. 0 <= Credit
    BY <1>5
  <2>2. QED
    BY <2>1, <1>7 DEF Dispatch
<1>10. QED
  BY <1>3, <1>5, <1>6, <1>8, <1>9

\* sample evicts groups and submits k fresh prompts, or hands out the groups S
\* and clears surplus ones.
Refill(gone, k) ==
  /\ pc = "act" /\ pc' = "poll" /\ Replace(gone, k)
  /\ discarded' = discarded \union gone
  /\ UNCHANGED <<cfg, stepVars, mini, batch, trained, ckpt, crashes>>
Take(S, surplus) ==
  /\ pc = "act" /\ Materialize(S, surplus)
  /\ UNCHANGED <<cfg, work, fetched, stepVars, batch, trained, ckpt, crashes>>

\* Every step in which sample changes TransferQueue is one of the two.
LEMMA SampleKinds ==
  ASSUME Core, EvictAsync \/ SelectAsync \/ SampleSync
  PROVE  /\ \/ \E k \in Nat : Refill(Evicted, k)
            \/ \E S \in SUBSET Sampleable :
                 \E surplus \in SUBSET (Terminal(snap.prompts) \ S) :
                   Take(S, surplus)
         /\ refill_credit' \in Nat
<1> USE DEF stepVars
<1>1. pc = "act"
  BY DEF EvictAsync, SelectAsync, SampleSync
<1>2. /\ Cardinality(Evicted) \in Nat /\ Dispatch \in Nat /\ Credit \in Nat
      /\ cfg.dapo => Dispatch <= Credit
  BY <1>1, SampleNumbers
<1>3. CASE EvictAsync
  <2>1. Refill(Evicted, Cardinality(Evicted))
    BY <1>3 DEF EvictAsync, Refill, RefillCount
  <2>2. refill_credit' \in Nat
    BY <1>3 DEF EvictAsync, Core, Basic
  <2>3. QED
    BY <1>2, <2>1, <2>2
<1>4. CASE SelectAsync
  <2>1. PICK S \in Oldest : Materialize(S, {})
    BY <1>4 DEF SelectAsync
  <2>2. S \in SUBSET Sampleable
    BY <2>1 DEF Oldest, kSubset
  <2>3. Take(S, {}) /\ {} \in SUBSET (Terminal(snap.prompts) \ S)
    BY <1>4, <2>1 DEF SelectAsync, Take
  <2>4. refill_credit' \in Nat
    BY <1>4 DEF SelectAsync, Core, Basic
  <2>5. QED
    BY <2>2, <2>3, <2>4
<1>5. CASE SampleSync
  <2>1. refill_credit' \in Nat
    <3>1. refill_credit' = IF cfg.dapo THEN Credit - Dispatch ELSE 0
      BY <1>5 DEF SampleSync
    <3>2. cfg.dapo => Credit - Dispatch \in Nat
      BY <1>2
    <3>3. QED
      BY <3>1, <3>2
  <2>2. CASE Replace(Evicted, Dispatch) /\ pc' = "poll"
             /\ discarded' = discarded \union Evicted /\ UNCHANGED mini
    BY <1>1, <1>2, <1>5, <2>1, <2>2 DEF SampleSync, Refill
  <2>3. CASE /\ \E S \in Oldest :
                  Materialize(S, Evicted \union (IF cfg.dapo THEN Sampleable \ S
                                                             ELSE {}))
             /\ UNCHANGED <<work, fetched>>
    <3>1. PICK S \in Oldest :
            Materialize(S, Evicted \union (IF cfg.dapo THEN Sampleable \ S
                                                       ELSE {}))
      BY <2>3
    <3>2. S \in SUBSET Sampleable
      BY <3>1 DEF Oldest, kSubset
    <3>3. PICK more : more = Evicted \union (IF cfg.dapo THEN Sampleable \ S
                                                         ELSE {})
      OBVIOUS
    <3>4. more \in SUBSET (Terminal(snap.prompts) \ S)
      BY <1>1, <3>2, <3>3, SnapshotFacts
    <3>5. Take(S, more)
      BY <1>1, <1>5, <2>3, <3>1, <3>3 DEF SampleSync, Take
    <3>6. QED
      BY <2>1, <3>2, <3>4, <3>5
  <2>4. QED
    BY <1>5, <2>2, <2>3 DEF SampleSync
<1>6. QED
  BY <1>3, <1>4, <1>5

Fetched(count) == (ckpt.fetched + 1) .. (ckpt.fetched + count)

\* A restart: what the checkpoint held, with the prompts in flight issued
\* anew, and the warmup batches.
LEMMA BootFacts ==
  ASSUME Core, Boot
  PROVE  \E count \in Nat :
         /\ count = cfg.num_warmup_batches * cfg.train_batch_size
         /\ DOMAIN prompts' = DOMAIN Restored \union Fetched(count)
         /\ Fetched(count) \intersect (1 .. ckpt.fetched) = {}
         /\ 1 .. fetched' = (1 .. ckpt.fetched) \union Fetched(count)
         /\ Typed(prompts') /\ DOMAIN prompts' \subseteq 1 .. fetched'
         /\ Inflight(prompts') = DOMAIN work'
         /\ \A u \in Inflight(prompts') : prompts'[u].step = global_steps'
         /\ DOMAIN rows' \subseteq IF Restores THEN DOMAIN ckpt.rows ELSE {}
         /\ fetched' = ckpt.fetched + count /\ global_steps' = ckpt.step + 1
         /\ fetched' \in Nat /\ global_steps' \in Nat
         /\ IsFiniteSet(Fetched(count)) /\ Cardinality(Fetched(count)) = count
<1> USE DEF Core, Basic
<1>1. cfg.num_warmup_batches \in Nat /\ cfg.train_batch_size \in Nat
  BY ConfigFacts
<1>2. PICK count \in Nat :
        count = cfg.num_warmup_batches * cfg.train_batch_size
  BY <1>1
<1> DEFINE start == ckpt.step + 1
           fresh == [status |-> "pending", step |-> start]
           issued == Reissued \union Fetched(count)
<1>3. /\ prompts' = Put(Restored, issued, fresh)
      /\ work' = [u \in issued |-> Task]
      /\ rows' = IF Restores THEN Drop(ckpt.rows, issued) ELSE Empty
      /\ fetched' = ckpt.fetched + count /\ global_steps' = start
  BY <1>2 DEF Boot, Fetched
<1>4. start \in Nat /\ fresh \in Entry /\ fresh.status = "pending"
      /\ fresh.step = start
  BY DEF Entry
<1> HIDE DEF fresh, issued, start
<1>5. /\ Typed(Restored) /\ DOMAIN Restored \subseteq 1 .. ckpt.fetched
      /\ Reissued \subseteq DOMAIN Restored
  BY DEF Restored, Typed, Empty, Reissued, Inflight, With
<1>6. /\ Fetched(count) \intersect (1 .. ckpt.fetched) = {}
      /\ 1 .. fetched' = (1 .. ckpt.fetched) \union Fetched(count)
      /\ fetched' \in Nat
  BY <1>3 DEF Fetched
<1>7. IsFiniteSet(Fetched(count)) /\ Cardinality(Fetched(count)) = count
  <2>1. ckpt.fetched + 1 \in Int /\ ckpt.fetched + count \in Int
    OBVIOUS
  <2>2. /\ IsFiniteSet(Fetched(count))
        /\ Cardinality(Fetched(count)) =
             IF ckpt.fetched + 1 > ckpt.fetched + count THEN 0
             ELSE (ckpt.fetched + count) - (ckpt.fetched + 1) + 1
    BY <2>1, FS_Interval DEF Fetched
  <2>3. QED
    BY <2>2
<1>8. /\ DOMAIN prompts' = DOMAIN Restored \union Fetched(count)
      /\ \A u \in issued : prompts'[u] = fresh
      /\ \A u \in DOMAIN Restored \ issued : prompts'[u] = Restored[u]
  <2>1. DOMAIN prompts' = DOMAIN Restored \union issued
    BY <1>3 DEF Put
  <2>2. issued = Reissued \union Fetched(count)
    BY DEF issued
  <2>3. /\ \A u \in issued : prompts'[u] = fresh
        /\ \A u \in DOMAIN Restored \ issued : prompts'[u] = Restored[u]
    BY <1>3 DEF Put
  <2>4. QED
    BY <1>5, <2>1, <2>2, <2>3
<1>9. DOMAIN work' = issued
  BY <1>3
<1>10. Inflight(prompts') = issued
  <2>1. \A u \in DOMAIN Restored \ issued :
          Restored[u].status \notin {"pending", "running"}
    BY DEF issued, Reissued, Inflight, With
  <2>2. issued \subseteq DOMAIN prompts'
    BY <1>5, <1>8 DEF issued
  <2>3. DOMAIN prompts' \subseteq issued \union (DOMAIN Restored \ issued)
    BY <1>8 DEF issued
  <2>4. \A u \in issued : prompts'[u].status = "pending"
    BY <1>4, <1>8
  <2>5. \A u \in DOMAIN Restored \ issued :
          prompts'[u].status \notin {"pending", "running"}
    BY <1>8, <2>1
  <2>6. QED
    BY <2>2, <2>3, <2>4, <2>5 DEF Inflight, With
<1>11. Typed(prompts')
  BY <1>4, <1>5, <1>8 DEF Typed, issued
<1>12. DOMAIN rows' \subseteq IF Restores THEN DOMAIN ckpt.rows ELSE {}
  BY <1>3 DEF Drop, Restrict, Empty
<1>13. DOMAIN prompts' \subseteq 1 .. fetched'
  BY <1>5, <1>6, <1>8
<1>14. /\ \A u \in Inflight(prompts') : prompts'[u].step = global_steps'
       /\ global_steps' \in Nat /\ global_steps' = ckpt.step + 1
  BY <1>3, <1>4, <1>8, <1>10 DEF start
<1>15. QED
  BY <1>2, <1>3, <1>6, <1>7, <1>8, <1>9, <1>10, <1>11, <1>12, <1>13, <1>14

-----------------------------------------------------------------------------
(* The core of the invariant *)

\* It holds initially.
LEMMA CoreInit == Init => Core
BY DEF Init, Core, Basic, Workers, Idle, Snapshot, Typed, Empty, NoSnap,
       Inflight, With

\* Workers preserve it: in particular they leave alone what sample saw as
\* terminal.
LEMMA CoreWorker ==
  ASSUME Core, Worker
  PROVE  Core'
<1>1. PICK u \in DOMAIN work : RunPrompt(u) \/ Session(u) \/ EndPrompt(u)
  BY DEF Worker
<1>2. WorkerEffect(u) /\ DOMAIN work' = Inflight(prompts')
  BY <1>1, WorkerFacts
<1>3. \A v \in Terminal(prompts) :
        /\ prompts'[v] = prompts[v]
        /\ v \in DOMAIN rows' <=> v \in DOMAIN rows
        /\ v \in DOMAIN rows => rows'[v] = rows[v]
  BY <1>2, WorkerTerminal
<1>4. Basic'
  BY <1>2 DEF WorkerEffect, Core, Basic, Typed, stepVars, sampleVars
<1>5. Idle'
  BY <1>2 DEF WorkerEffect, Core, Idle
<1>6. Snapshot'
  <2>1. SUFFICES ASSUME pc = "act"
                 PROVE  Snapshot'
    BY <1>2 DEF WorkerEffect, Snapshot
  <2>2. snap' = snap /\ DOMAIN prompts' = DOMAIN prompts
    BY <1>2 DEF WorkerEffect, sampleVars
  <2>3. \A v \in DOMAIN prompts : prompts'[v].step = prompts[v].step
    BY <1>2 DEF WorkerEffect
  <2>4. Terminal(snap.prompts) \subseteq Terminal(prompts)
    BY <2>1, SnapshotFacts
  <2>5. \A v \in DOMAIN prompts :
          snap.prompts[v].status \in {"finished", "failure"} =>
            v \in Terminal(prompts)
    BY <2>1, <2>4 DEF Terminal, With, Core, Snapshot
  <2>6. QED
    BY <1>3, <2>1, <2>2, <2>3, <2>5 DEF Core, Snapshot
<1>7. QED
  BY <1>2, <1>4, <1>5, <1>6 DEF Core, Workers

\* So does every other step.
LEMMA CoreNext ==
  ASSUME Core, [Next]_vars
  PROVE  Core'
<1> USE DEF Core
<1>1. CASE Worker
  BY <1>1, CoreWorker
<1>2. CASE Boot
  <2>1. PICK count \in Nat :
          /\ Typed(prompts') /\ DOMAIN prompts' \subseteq 1 .. fetched'
          /\ Inflight(prompts') = DOMAIN work'
          /\ fetched' \in Nat /\ global_steps' \in Nat
    BY <1>2, BootFacts
  <2>2. Basic' /\ Workers'
    BY <1>2, <2>1 DEF Boot, Basic, Workers, sampleVars
  <2>3. Idle' /\ Snapshot'
    BY <1>2 DEF Boot, Idle, Snapshot
  <2>4. QED
    BY <2>2, <2>3
<1>3. CASE BeginStep
  <2>1. /\ Replace({}, cfg.train_batch_size) /\ {} \in SUBSET Terminal(prompts)
        /\ cfg.train_batch_size \in Nat
    BY <1>3, ConfigFacts DEF BeginStep, Basic
  <2>2. /\ Typed(prompts') /\ DOMAIN prompts' \subseteq 1 .. fetched'
        /\ Inflight(prompts') = DOMAIN work' /\ fetched' \in Nat
    BY <2>1, ReplaceFacts
  <2>3. Basic' /\ Workers' /\ Idle' /\ Snapshot'
    BY <1>3, <2>2 DEF BeginStep, Basic, Workers, Idle, Snapshot
  <2>4. QED
    BY <2>3
<1>4. CASE Poll
  <2>1. Basic' /\ Workers' /\ Idle'
    BY <1>4 DEF Poll, Basic, Workers, Idle, workerVars, stepVars
  <2>2. snap'.prompts = prompts /\ snap'.rows = rows
        /\ UNCHANGED <<prompts, rows>>
    BY <1>4 DEF Poll, workerVars
  <2>3. Snapshot'
    BY <2>2 DEF Snapshot, Basic, Typed
  <2>4. QED
    BY <2>1, <2>3
<1>5. CASE SampleRaises
  BY <1>5 DEF SampleRaises, Basic, Workers, Idle, Snapshot, workerVars, stepVars
<1>6. CASE WaitAsync
  BY <1>6 DEF WaitAsync, Basic, Workers, Idle, Snapshot, workerVars, stepVars
<1>7. CASE EvictAsync \/ SelectAsync \/ SampleSync
  <2>1. pc = "act"
    BY <1>7 DEF EvictAsync, SelectAsync, SampleSync
  <2>2. /\ Terminal(snap.prompts) \subseteq Terminal(prompts)
        /\ Evicted \subseteq Terminal(snap.prompts)
        /\ Sampleable \subseteq Terminal(snap.prompts)
    BY <2>1, SnapshotFacts
  <2>3. refill_credit' \in Nat
    BY <1>7, SampleKinds
  <2>4. CASE \E k \in Nat : Refill(Evicted, k)
    <3>1. PICK k \in Nat : Refill(Evicted, k)
      BY <2>4
    <3>2. Replace(Evicted, k) /\ Evicted \in SUBSET Terminal(prompts)
      BY <2>2, <3>1 DEF Refill
    <3>3. /\ Typed(prompts') /\ DOMAIN prompts' \subseteq 1 .. fetched'
          /\ Inflight(prompts') = DOMAIN work' /\ fetched' \in Nat
      BY <3>2, ReplaceFacts
    <3>4. QED
      BY <2>3, <3>1, <3>3
      DEF Refill, Basic, Workers, Idle, Snapshot, stepVars
  <2>5. CASE \E S \in SUBSET Sampleable :
               \E surplus \in SUBSET (Terminal(snap.prompts) \ S) :
                 Take(S, surplus)
    <3>1. PICK S \in SUBSET Sampleable :
            \E surplus \in SUBSET (Terminal(snap.prompts) \ S) :
              Take(S, surplus)
      BY <2>5
    <3>2. PICK surplus \in SUBSET (Terminal(snap.prompts) \ S) :
            Take(S, surplus)
      BY <3>1
    <3>3. /\ Materialize(S, surplus) /\ S \in SUBSET Terminal(prompts)
          /\ surplus \in SUBSET Terminal(prompts) /\ UNCHANGED <<work, fetched>>
      BY <2>2, <3>2 DEF Take
    <3>4. /\ Typed(prompts') /\ DOMAIN prompts' \subseteq 1 .. fetched'
          /\ Inflight(prompts') = DOMAIN work'
      BY <3>3, MaterializeFacts
    <3>5. pc' = "sampled"
      BY <3>3 DEF Materialize
    <3>6. QED
      BY <2>3, <3>2, <3>4, <3>5 DEF Take, Basic, Workers, Idle, Snapshot, stepVars
  <2>6. QED
    BY <1>7, <2>4, <2>5, SampleKinds
<1>8. CASE Train
  <2>1. /\ pc' \in {"raised", "poll", "save"}
        /\ pc' # "raised" => mini' = Empty
        /\ local_trigger_step' \in Nat /\ refill_credit' = 0
        /\ UNCHANGED <<cfg, prompts, work, fetched, global_steps, ckpt, crashes>>
    BY <1>8 DEF Train, Basic, workerVars
  <2>2. Basic' /\ Workers' /\ Snapshot'
    BY <2>1 DEF Basic, Workers, Snapshot
  <2>3. Idle'
    BY <2>1 DEF Idle, Empty
  <2>4. QED
    BY <2>2, <2>3
<1>9. CASE Save
  <2>1. /\ ckpt'.step \in Nat /\ ckpt'.fetched \in Nat /\ Typed(ckpt'.prompts)
        /\ DOMAIN ckpt'.prompts \subseteq 1 .. ckpt'.fetched
    BY <1>9 DEF Save, Basic
  <2>2. Basic' /\ Workers'
    BY <1>9, <2>1 DEF Save, Basic, Workers, workerVars, stepVars, sampleVars
  <2>3. Idle' /\ Snapshot'
    BY <1>9 DEF Save, Idle, Snapshot
  <2>4. QED
    BY <2>2, <2>3
<1>10. CASE EndStep
  <2>1. pc' # "act" /\ pc' # "sampled" /\ pc' # "raised"
    BY <1>10 DEF EndStep
  <2>2. QED
    BY <1>10, <2>1
    DEF EndStep, Basic, Workers, Idle, Snapshot, stepVars, sampleVars
<1>11. CASE Crash
  BY <1>11 DEF Crash, Basic, Workers, Idle, Snapshot, Empty, Typed, Inflight, With
<1>12. CASE UNCHANGED vars
  BY <1>12 DEF vars, workerVars, stepVars, sampleVars, history, Basic, Workers,
               Idle, Snapshot
<1>13. QED
  BY <1>1, <1>2, <1>3, <1>4, <1>5, <1>6, <1>7, <1>8, <1>9, <1>10, <1>11, <1>12
  DEF Next, Trainer, Sample, Ended

\* The configuration is chosen once.
LEMMA CfgConstant ==
  ASSUME [Next]_vars
  PROVE  cfg' = cfg
BY DEF Next, Worker, Trainer, Sample, Ended, Crash, RunPrompt, Session,
       EndPrompt, Boot, BeginStep, Poll, SampleRaises, EvictAsync,
       SelectAsync, WaitAsync, SampleSync, Train, Save, EndStep, vars

-----------------------------------------------------------------------------
(* Staleness *)

\* What is handed out under "drop" is fresh enough.  Under "wait" what is in
\* flight is, and a step may end only when it will be in the next one, too.
Age ==
  ~Sync =>
    /\ cfg.max_off_policy_strategy = "drop" /\ pc = "sampled" =>
         \A u \in DOMAIN mini :
           /\ mini[u] \in Nat
           /\ global_steps - mini[u] + 1 <= cfg.max_off_policy_threshold
    /\ cfg.max_off_policy_strategy = "wait" =>
         \A u \in Inflight(prompts) :
           /\ Span(prompts, u) <= cfg.max_off_policy_threshold
           /\ pc \in {"sampled", "save", "clear"} =>
                Span(prompts, u) < cfg.max_off_policy_threshold

\* Prompts issued now are not stale.
LEMMA FreshAge ==
  ASSUME Core, NEW g \in Nat, NEW s, s = g
  PROVE  g - s + 1 <= cfg.max_off_policy_threshold
<1>1. cfg.max_off_policy_threshold \in Nat \ {0}
  BY ConfigFacts DEF Core, Basic
<1>2. QED
  BY <1>1

\* Every step preserves the bound: sample's choice because it was made on a
\* snapshot that the workers can only have moved on from, the end of a step
\* because sample waited for the prompts at the threshold.
LEMMA AgeNext ==
  ASSUME Core, Core', Age, [Next]_vars
  PROVE  Age'
<1> USE DEF Core
<1>0. SUFFICES ASSUME ~Sync
               PROVE  Age'
  <2>1. cfg' = cfg
    BY CfgConstant
  <2>2. QED
    BY <1>0, <2>1 DEF Age, Sync
<1>c. cfg.max_off_policy_threshold \in Nat \ {0} /\ global_steps \in Nat
  BY ConfigFacts DEF Basic
<1>n. \A u \in Inflight(prompts) : prompts[u].step \in Nat
  BY DEF Basic, Typed, Inflight, With, Entry
<1>1. CASE Worker
  <2>1. PICK u \in DOMAIN work : RunPrompt(u) \/ Session(u) \/ EndPrompt(u)
    BY <1>1 DEF Worker
  <2>2. WorkerEffect(u)
    BY <2>1, WorkerFacts
  <2>3. Inflight(prompts') \subseteq Inflight(prompts)
    BY <2>2, WorkerTerminal
  <2>4. \A v \in DOMAIN prompts : prompts'[v].step = prompts[v].step
    BY <2>2 DEF WorkerEffect
  <2>5. UNCHANGED <<cfg, pc, global_steps, mini>>
    BY <2>2 DEF WorkerEffect, stepVars
  <2>6. Inflight(prompts) \subseteq DOMAIN prompts
    BY DEF Inflight, With
  <2>7. QED
    BY <2>3, <2>4, <2>5, <2>6 DEF Age, Sync, Span
<1>2. CASE Boot
  <2>1. \A u \in Inflight(prompts') : prompts'[u].step = global_steps'
    BY <1>2, BootFacts
  <2>2. cfg' = cfg /\ pc' \notin {"sampled", "save", "clear"} /\ global_steps' \in Nat
    BY <1>2 DEF Boot, Basic
  <2>3. \A u \in Inflight(prompts') :
          global_steps' - prompts'[u].step + 1 <= cfg.max_off_policy_threshold
    BY <2>1, <2>2, FreshAge
  <2>4. QED
    BY <2>2, <2>3 DEF Age, Sync, Span
<1>3. CASE BeginStep
  <2>1. /\ Replace({}, cfg.train_batch_size) /\ {} \in SUBSET Terminal(prompts)
        /\ cfg.train_batch_size \in Nat
    BY <1>3, ConfigFacts DEF BeginStep, Basic
  <2>2. /\ Inflight(prompts') = Inflight(prompts) \union New(cfg.train_batch_size)
        /\ \A u \in DOMAIN prompts \ {} : prompts'[u] = prompts[u]
        /\ \A u \in New(cfg.train_batch_size) : prompts'[u] = Fresh
    BY <2>1, ReplaceFacts
  <2>3. cfg' = cfg /\ pc' = "poll" /\ global_steps' = global_steps
    BY <1>3 DEF BeginStep
  <2>4. Fresh.step = global_steps
    BY DEF Fresh
  <2>5. \A u \in New(cfg.train_batch_size) :
          global_steps' - prompts'[u].step + 1 <= cfg.max_off_policy_threshold
    BY <1>c, <2>2, <2>3, <2>4
  <2>6. cfg.max_off_policy_strategy = "wait" =>
          \A u \in Inflight(prompts) :
            global_steps' - prompts'[u].step + 1 <= cfg.max_off_policy_threshold
    BY <1>0, <2>2, <2>3 DEF Age, Span, Inflight, With
  <2>7. QED
    BY <2>2, <2>3, <2>5, <2>6 DEF Age, Span
<1>4. CASE Poll \/ SampleRaises \/ WaitAsync
  <2>1. /\ UNCHANGED <<cfg, prompts, global_steps, mini>>
        /\ pc' \notin {"sampled", "save", "clear"}
    BY <1>4 DEF Poll, SampleRaises, WaitAsync, workerVars, stepVars
  <2>2. QED
    BY <2>1 DEF Age, Sync, Span
<1>5. CASE EvictAsync
  <2>1. PICK k \in Nat : /\ k = Cardinality(Evicted) /\ Replace(Evicted, k)
    BY <1>5, SampleNumbers DEF EvictAsync, RefillCount
  <2>2. Evicted \in SUBSET Terminal(prompts)
    BY <1>5, SnapshotFacts DEF EvictAsync
  <2>3. /\ Inflight(prompts') = Inflight(prompts) \union New(k)
        /\ \A u \in DOMAIN prompts \ Evicted : prompts'[u] = prompts[u]
        /\ \A u \in New(k) : prompts'[u] = Fresh
    BY <2>1, <2>2, ReplaceFacts
  <2>4. cfg' = cfg /\ pc' = "poll" /\ global_steps' = global_steps
    BY <1>5 DEF EvictAsync, stepVars
  <2>5. Fresh.step = global_steps
    BY DEF Fresh
  <2>6. \A u \in New(k) :
          global_steps' - prompts'[u].step + 1 <= cfg.max_off_policy_threshold
    BY <1>c, <2>3, <2>4, <2>5
  <2>7. Inflight(prompts) \subseteq DOMAIN prompts \ Evicted
    BY <2>2 DEF Inflight, Terminal, With
  <2>8. cfg.max_off_policy_strategy = "wait" =>
          \A u \in Inflight(prompts) :
            global_steps' - prompts'[u].step + 1 <= cfg.max_off_policy_threshold
    BY <1>0, <2>3, <2>4, <2>7 DEF Age, Span
  <2>9. QED
    BY <2>3, <2>4, <2>6, <2>8 DEF Age, Span
<1>6. CASE SelectAsync
  <2>1. PICK S \in Oldest : Materialize(S, {})
    BY <1>6 DEF SelectAsync
  <2>2. pc = "act" /\ S \subseteq Sampleable /\ {} \in SUBSET Terminal(prompts)
    BY <1>6, <2>1 DEF SelectAsync, Oldest, kSubset
  <2>3. S \in SUBSET Terminal(prompts) /\ UNCHANGED <<work, fetched>>
    BY <1>6, <2>2, SnapshotFacts DEF SelectAsync
  <2>4. /\ Inflight(prompts') = Inflight(prompts)
        /\ \A u \in DOMAIN prompts' : prompts'[u] = prompts[u]
        /\ DOMAIN mini' = S /\ \A u \in S : mini'[u] = snap.prompts[u].step
    BY <2>1, <2>2, <2>3, MaterializeFacts
  <2>5. UNCHANGED <<cfg, global_steps>> /\ Evicted = {} /\ ~MustWait
    BY <1>6 DEF SelectAsync, stepVars
  <2>6. ASSUME cfg.max_off_policy_strategy = "drop", NEW u \in S
        PROVE  /\ mini'[u] \in Nat
               /\ global_steps - mini'[u] + 1 <= cfg.max_off_policy_threshold
    <3>1. u \in Finished \union Failed
      BY <2>2, SnapshotFacts
    <3>2. StaleTerminal \subseteq Evicted /\ Failed \subseteq Evicted
      BY <1>0 DEF Evicted
    <3>3. u \in Finished /\ u \notin StaleTerminal
      BY <2>5, <3>1, <3>2
    <3>4. ~(Span(snap.prompts, u) > cfg.max_off_policy_threshold)
      BY <2>6, <3>3 DEF StaleTerminal
    <3>5. snap.prompts[u].step \in Nat
      BY <2>2, <2>3 DEF Snapshot, Terminal, With, Entry
    <3>6. QED
      BY <1>c, <2>4, <3>4, <3>5 DEF Span
  <2>7. ASSUME cfg.max_off_policy_strategy = "wait", NEW u \in Inflight(prompts)
        PROVE  global_steps - prompts[u].step + 1 < cfg.max_off_policy_threshold
    <3>1. u \in Inflight(snap.prompts)
      BY <2>2, SnapshotFacts
    <3>2. ~(Span(snap.prompts, u) >= cfg.max_off_policy_threshold)
      BY <2>5, <2>7, <3>1 DEF MustWait
    <3>3. snap.prompts[u].step = prompts[u].step
      BY <2>2 DEF Snapshot, Inflight, With
    <3>4. QED
      BY <1>c, <1>n, <3>2, <3>3 DEF Span
  <2>8. Inflight(prompts') \subseteq DOMAIN prompts'
    BY DEF Inflight, With
  <2>9. ASSUME cfg.max_off_policy_strategy = "wait", NEW u \in Inflight(prompts')
        PROVE  /\ global_steps - prompts'[u].step + 1 < cfg.max_off_policy_threshold
               /\ global_steps - prompts'[u].step + 1 <= cfg.max_off_policy_threshold
    <3>1. u \in Inflight(prompts) /\ prompts'[u] = prompts[u]
      BY <2>4, <2>8
    <3>2. global_steps - prompts[u].step + 1 < cfg.max_off_policy_threshold
      BY <2>7, <2>9, <3>1
    <3>3. QED
      BY <1>c, <1>n, <3>1, <3>2
  <2>10. QED
    BY <2>4, <2>5, <2>6, <2>9 DEF Age, Span
<1>7. CASE Train
  <2>1. /\ UNCHANGED <<cfg, prompts, global_steps>>
        /\ pc = "sampled" /\ pc' \in {"raised", "poll", "save"}
    BY <1>7 DEF Train, workerVars
  <2>2. QED
    BY <2>1 DEF Age, Sync, Span
<1>8. CASE Save
  <2>1. UNCHANGED <<cfg, prompts, global_steps>> /\ pc = "save" /\ pc' = "clear"
    BY <1>8 DEF Save, workerVars, stepVars
  <2>2. QED
    BY <2>1 DEF Age, Sync, Span
<1>9. CASE EndStep
  <2>1. /\ UNCHANGED <<cfg, prompts>> /\ global_steps' = global_steps + 1
        /\ pc = "clear" /\ pc' \in {"done", "begin"}
    BY <1>9 DEF EndStep
  <2>2. cfg.max_off_policy_strategy = "wait" =>
          \A u \in Inflight(prompts) :
            global_steps - prompts[u].step + 1 < cfg.max_off_policy_threshold
    BY <1>0, <2>1 DEF Age, Span
  <2>3. cfg.max_off_policy_strategy = "wait" =>
          \A u \in Inflight(prompts) :
            global_steps + 1 - prompts[u].step + 1 <= cfg.max_off_policy_threshold
    BY <1>c, <1>n, <2>2
  <2>4. ASSUME cfg.max_off_policy_strategy = "wait", NEW u \in Inflight(prompts')
        PROVE  global_steps' - prompts'[u].step + 1 <= cfg.max_off_policy_threshold
    <3>1. u \in Inflight(prompts) /\ prompts'[u].step = prompts[u].step
      BY <2>1
    <3>2. global_steps + 1 - prompts[u].step + 1 <= cfg.max_off_policy_threshold
      BY <2>3, <2>4, <3>1
    <3>3. QED
      BY <1>c, <1>n, <2>1, <3>1, <3>2
  <2>5. QED
    BY <2>1, <2>4 DEF Age, Span
<1>10. CASE Crash
  BY <1>10 DEF Crash, Age, Empty, Inflight, With
<1>11. CASE UNCHANGED vars
  BY <1>11 DEF vars, workerVars, stepVars, Age, Sync, Span
<1>12. CASE SampleSync
  BY <1>0, <1>12 DEF SampleSync
<1>13. QED
  BY <1>1, <1>2, <1>3, <1>4, <1>5, <1>6, <1>7, <1>8, <1>9, <1>10, <1>11, <1>12
  DEF Next, Trainer, Sample, Ended

\* Staleness is bounded by max_off_policy_threshold: of what sample hands out
\* under "drop", although groups become terminal while it works, and of what
\* is generated at all under "wait", over restarts.
THEOREM StalenessBoundedHolds == Spec => []StalenessBounded
<1>1. Init => Core /\ Age
  BY CoreInit DEF Init, Age, Empty, Inflight, With
<1>2. Core /\ Age /\ [Next]_vars => (Core /\ Age)'
  BY CoreNext, AgeNext
<1>3. Core /\ Age => StalenessBounded
  <2>1. Core => cfg.max_off_policy_strategy \in {"drop", "wait"}
    BY ConfigFacts DEF Core, Basic
  <2>2. QED
    BY <2>1 DEF Age, StalenessBounded
<1>4. QED
  BY <1>1, <1>2, <1>3, PTL DEF Spec

-----------------------------------------------------------------------------
(* Ownership of prompts *)

\* Where the prompts are, now and in the checkpoint: each one in one place.
Ledger ==
  Sync \/ cfg.tq_checkpoint =>
    /\ pc # "boot" => 1 .. fetched = DOMAIN prompts \union DOMAIN mini
                                       \union trained \union discarded
    /\ 1 .. ckpt.fetched = DOMAIN ckpt.prompts \union ckpt.trained
                             \union ckpt.discarded
    /\ DOMAIN prompts \intersect DOMAIN mini = {}
    /\ (DOMAIN prompts \union DOMAIN mini) \intersect (trained \union discarded) = {}
    /\ trained \intersect discarded = {}
    /\ DOMAIN ckpt.prompts \intersect (ckpt.trained \union ckpt.discarded) = {}
    /\ ckpt.trained \intersect ckpt.discarded = {}

\* A synchronous trainer empties TransferQueue at the end of sample; without
\* DAPO it keeps exactly one batch there until then.
Drained ==
  Sync =>
    /\ pc \notin {"poll", "act", "raised"} => DOMAIN prompts = {}
    /\ DOMAIN ckpt.prompts = {}
    /\ ~cfg.dapo /\ pc \in {"poll", "act"} =>
         Cardinality(DOMAIN prompts) = cfg.train_batch_size

\* Size of TransferQueue after groups are cleared and k prompts are submitted.
LEMMA ReplaceCount ==
  ASSUME Core, NEW gone \in SUBSET Terminal(prompts), NEW k \in Nat,
         Replace(gone, k)
  PROVE  Cardinality(DOMAIN prompts') =
           Cardinality(DOMAIN prompts) - Cardinality(gone) + k
<1>1. DOMAIN prompts' = (DOMAIN prompts \ gone) \union New(k)
  BY ReplaceFacts
<1>2. /\ IsFiniteSet(New(k)) /\ Cardinality(New(k)) = k
      /\ New(k) \intersect DOMAIN prompts = {}
  BY NewFacts DEF Core, Basic
<1>3. gone \in SUBSET DOMAIN prompts
  BY DEF Terminal, With
<1>4. /\ IsFiniteSet(DOMAIN prompts) /\ Cardinality(DOMAIN prompts) \in Nat
      /\ Cardinality(gone) \in Nat /\ IsFiniteSet(DOMAIN prompts \ gone)
      /\ Cardinality(DOMAIN prompts \ gone) \in Nat /\ IsFiniteSet(gone)
  BY <1>3, CountFacts
<1>5. Cardinality(DOMAIN prompts \ gone) =
        Cardinality(DOMAIN prompts) - Cardinality(gone)
  <2>1. Cardinality(DOMAIN prompts \ gone) =
          Cardinality(DOMAIN prompts) - Cardinality(DOMAIN prompts \intersect gone)
    BY <1>4, FS_Difference
  <2>2. DOMAIN prompts \intersect gone = gone
    BY <1>3
  <2>3. QED
    BY <2>1, <2>2
<1>6. (DOMAIN prompts \ gone) \intersect New(k) = {}
  BY <1>2
<1>7. Cardinality((DOMAIN prompts \ gone) \union New(k)) =
        Cardinality(DOMAIN prompts \ gone) + Cardinality(New(k))
        - Cardinality((DOMAIN prompts \ gone) \intersect New(k))
  BY <1>2, <1>4, FS_Union
<1>8. Cardinality(DOMAIN prompts') =
        Cardinality(DOMAIN prompts \ gone) + k - 0
  BY <1>1, <1>2, <1>6, <1>7, FS_EmptySet
<1>9. PICK a \in Nat, b \in Nat :
        a = Cardinality(DOMAIN prompts) /\ b = Cardinality(gone)
  BY <1>4
<1>10. Cardinality(DOMAIN prompts') = (a - b) + k - 0
  BY <1>5, <1>8, <1>9
<1>11. QED
  BY <1>9, <1>10

\* A synchronous trainer samples a whole batch.
LEMMA SyncSize ==
  ASSUME Core, Sync
  PROVE  SampleSize = cfg.train_batch_size /\ ~MoreUpdates
<1>1. /\ cfg.parameter_sync_step = 1 /\ cfg.train_batch_size \in Nat
      /\ local_trigger_step \in Nat
  BY ConfigFacts DEF Core, Basic
<1>2. PICK t \in Nat : t = cfg.train_batch_size
  BY <1>1
<1>3. t \div 1 = t
  OBVIOUS
<1>4. QED
  BY <1>1, <1>2, <1>3 DEF SampleSize, MoreUpdates

\* When sample hands out a batch, nothing is left in a synchronous trainer's
\* TransferQueue.
LEMMA SyncEmpties ==
  ASSUME Core, Drained, SampleSync, NEW S \in Oldest, ~(Dispatch > 0), CanSelect,
         Materialize(S, Evicted \union (IF cfg.dapo THEN Sampleable \ S ELSE {})),
         UNCHANGED <<work, fetched>>
  PROVE  DOMAIN prompts' = {}
<1>1. pc = "act" /\ Sync
  BY DEF SampleSync
<1>2. S \in SUBSET Sampleable /\ Cardinality(S) = cfg.train_batch_size
  BY <1>1, SyncSize DEF Oldest, kSubset
<1>3. PICK more : more = Evicted \union (IF cfg.dapo THEN Sampleable \ S ELSE {})
  OBVIOUS
<1>4. /\ Evicted \subseteq Terminal(snap.prompts)
      /\ Sampleable = Terminal(snap.prompts) \ Evicted
      /\ Terminal(snap.prompts) \subseteq Terminal(prompts)
      /\ DOMAIN prompts = Inflight(snap.prompts) \union Terminal(snap.prompts)
  BY <1>1, SnapshotFacts
<1>5. /\ Materialize(S, more) /\ S \in SUBSET Terminal(prompts)
      /\ more \in SUBSET Terminal(prompts)
  BY <1>2, <1>3, <1>4
<1>6. DOMAIN prompts' = DOMAIN prompts \ (S \union more)
  BY <1>5, MaterializeFacts
<1>7. CASE cfg.dapo
  <2>1. Inflight(snap.prompts) = {}
    BY <1>7 DEF CanSelect
  <2>2. QED
    BY <1>2, <1>3, <1>4, <1>6, <1>7, <2>1
<1>8. CASE ~cfg.dapo
  <2>1. Cardinality(DOMAIN prompts) = cfg.train_batch_size
    BY <1>1, <1>8 DEF Drained
  <2>2. S \in SUBSET DOMAIN prompts
    BY <1>2, <1>4
  <2>3. DOMAIN prompts = S
    BY <1>2, <2>1, <2>2, CountFacts, FS_Subset
  <2>4. QED
    BY <1>6, <2>3
<1>9. QED
  BY <1>7, <1>8

\* Without DAPO a synchronous sample replaces what it evicts, one for one.
LEMMA SyncReplaces ==
  ASSUME Core, SampleSync, ~cfg.dapo, Dispatch > 0 \/ ~CanSelect,
         Replace(Evicted, Dispatch)
  PROVE  Cardinality(DOMAIN prompts') = Cardinality(DOMAIN prompts)
<1>1. pc = "act" /\ Sync
  BY DEF SampleSync
<1>2. ~Enough
  <2>1. CanSelect = Enough /\ (Enough => Dispatch = 0)
    BY DEF CanSelect, Dispatch, Enough
  <2>2. QED
    BY <2>1
<1>3. Dispatch = Cardinality(FailedEmpty) /\ DapoFiltered = {}
  BY <1>2 DEF Dispatch, DapoFiltered
<1>4. Evicted = FailedEmpty
  BY <1>1, <1>3 DEF Evicted
<1>5. /\ Evicted \in SUBSET Terminal(prompts) /\ Dispatch \in Nat
      /\ Dispatch = Cardinality(Evicted)
  BY <1>1, <1>3, <1>4, SnapshotFacts, SampleNumbers
<1>6. Cardinality(DOMAIN prompts') =
        Cardinality(DOMAIN prompts) - Cardinality(Evicted) + Dispatch
  BY <1>5, ReplaceCount
<1>7. Cardinality(DOMAIN prompts) \in Nat
  BY CountFacts
<1>8. QED
  BY <1>5, <1>6, <1>7

\* Every step preserves this.
LEMMA DrainedNext ==
  ASSUME Core, Drained, [Next]_vars
  PROVE  Drained'
<1>0. SUFFICES ASSUME Sync PROVE Drained'
  BY CfgConstant DEF Drained, Sync
<1>1. CASE Worker
  <2>1. PICK u \in DOMAIN work : RunPrompt(u) \/ Session(u) \/ EndPrompt(u)
    BY <1>1 DEF Worker
  <2>2. WorkerEffect(u)
    BY <2>1, WorkerFacts
  <2>3. QED
    BY <2>2 DEF WorkerEffect, Drained, Sync
<1>2. CASE Boot
  <2>1. PICK count \in Nat :
          /\ count = cfg.num_warmup_batches * cfg.train_batch_size
          /\ DOMAIN prompts' = DOMAIN Restored \union Fetched(count)
          /\ IsFiniteSet(Fetched(count)) /\ Cardinality(Fetched(count)) = count
    BY <1>2, BootFacts
  <2>2. cfg.num_warmup_batches = 0 /\ cfg.train_batch_size \in Nat
    BY <1>0, ConfigFacts DEF Core, Basic
  <2>3. Fetched(count) = {}
    BY <2>1, <2>2, FS_EmptySet
  <2>4. DOMAIN prompts' = {}
    BY <1>0, <2>1, <2>3 DEF Restored, Restores, Empty
  <2>5. cfg' = cfg /\ ckpt' = ckpt /\ pc' \notin {"poll", "act", "raised"}
    BY <1>2 DEF Boot
  <2>6. QED
    BY <1>0, <2>4, <2>5 DEF Drained, Sync
<1>3. CASE BeginStep
  <2>1. /\ Replace({}, cfg.train_batch_size) /\ {} \in SUBSET Terminal(prompts)
        /\ cfg.train_batch_size \in Nat
    BY <1>3, ConfigFacts DEF BeginStep, Core, Basic
  <2>2. DOMAIN prompts = {}
    BY <1>0, <1>3 DEF BeginStep, Drained
  <2>3. Cardinality(DOMAIN prompts') = 0 - 0 + cfg.train_batch_size
    BY <2>1, <2>2, ReplaceCount, FS_EmptySet
  <2>4. Cardinality(DOMAIN prompts') = cfg.train_batch_size
    BY <2>1, <2>3
  <2>5. cfg' = cfg /\ ckpt' = ckpt /\ pc' = "poll"
    BY <1>3 DEF BeginStep
  <2>6. QED
    BY <1>0, <2>4, <2>5 DEF Drained, Sync
<1>4. CASE Poll \/ SampleRaises \/ WaitAsync
  <2>1. /\ UNCHANGED <<cfg, prompts, ckpt>> /\ pc \in {"poll", "act"}
        /\ pc' \in {"poll", "act", "raised"}
    BY <1>4 DEF Poll, SampleRaises, WaitAsync, workerVars
  <2>2. QED
    BY <2>1 DEF Drained, Sync
<1>5. CASE SampleSync
  <2>1. cfg' = cfg /\ ckpt' = ckpt /\ pc = "act"
    BY <1>5 DEF SampleSync
  <2>2. CASE /\ Dispatch > 0 \/ ~CanSelect
             /\ Replace(Evicted, Dispatch) /\ pc' = "poll"
    <3>1. ~cfg.dapo => Cardinality(DOMAIN prompts') = Cardinality(DOMAIN prompts)
      BY <1>5, <2>2, SyncReplaces
    <3>2. QED
      BY <1>0, <2>1, <2>2, <3>1 DEF Drained, Sync
  <2>3. CASE /\ Dispatch = 0 /\ CanSelect
             /\ \E S \in Oldest :
                  Materialize(S, Evicted \union (IF cfg.dapo THEN Sampleable \ S
                                                             ELSE {}))
             /\ UNCHANGED <<work, fetched>>
    <3>1. PICK S \in Oldest :
            Materialize(S, Evicted \union (IF cfg.dapo THEN Sampleable \ S
                                                       ELSE {}))
      BY <2>3
    <3>2. DOMAIN prompts' = {}
      BY <1>5, <2>3, <3>1, SyncEmpties
    <3>3. pc' = "sampled"
      BY <3>1 DEF Materialize
    <3>4. QED
      BY <1>0, <2>1, <3>2, <3>3 DEF Drained, Sync
  <2>4. QED
    BY <1>5, <2>2, <2>3 DEF SampleSync
<1>6. CASE EvictAsync \/ SelectAsync
  BY <1>0, <1>6 DEF EvictAsync, SelectAsync
<1>7. CASE Train
  <2>1. /\ UNCHANGED <<cfg, prompts, ckpt>> /\ pc = "sampled"
        /\ pc' \in {"raised", "save"}
    BY <1>0, <1>7, SyncSize DEF Train, workerVars
  <2>2. QED
    BY <1>0, <2>1 DEF Drained, Sync
<1>8. CASE Save
  <2>1. /\ UNCHANGED <<cfg, prompts>> /\ pc = "save" /\ pc' = "clear"
        /\ ckpt' = ckpt \/ ckpt'.prompts = prompts
    BY <1>8 DEF Save, workerVars
  <2>2. QED
    BY <1>0, <2>1 DEF Drained, Sync
<1>9. CASE EndStep
  BY <1>0, <1>9 DEF EndStep, Drained, Sync
<1>10. CASE Crash
  BY <1>0, <1>10 DEF Crash, Drained, Sync, Empty
<1>11. CASE UNCHANGED vars
  BY <1>11 DEF vars, workerVars, Drained, Sync
<1>12. QED
  BY <1>1, <1>2, <1>3, <1>4, <1>5, <1>6, <1>7, <1>8, <1>9, <1>10, <1>11
  DEF Next, Trainer, Sample, Ended

\* A synchronous trainer puts the replicas to sleep only when no worker has a
\* request in flight.
THEOREM SleepsIdleHolds == Spec => []SleepsIdle
<1>1. Init => Core /\ Drained
  BY CoreInit DEF Init, Drained, Empty
<1>2. Core /\ Drained /\ [Next]_vars => (Core /\ Drained)'
  BY CoreNext, DrainedNext
<1>3. Core /\ Drained => SleepsIdle
  BY DEF Core, Workers, Drained, SleepsIdle, Inflight, With
<1>4. QED
  BY <1>1, <1>2, <1>3, PTL DEF Spec

\* Every step keeps each prompt in one place, and the checkpoint's as well.
LEMMA LedgerNext ==
  ASSUME Core, Drained, Ledger, [Next]_vars
  PROVE  Ledger'
<1>0. SUFFICES ASSUME Sync \/ cfg.tq_checkpoint PROVE Ledger'
  BY CfgConstant DEF Ledger, Sync
<1>1. CASE Worker
  <2>1. PICK u \in DOMAIN work : RunPrompt(u) \/ Session(u) \/ EndPrompt(u)
    BY <1>1 DEF Worker
  <2>2. WorkerEffect(u)
    BY <2>1, WorkerFacts
  <2>3. QED
    BY <2>2 DEF WorkerEffect, Ledger, Sync, history
<1>2. CASE Boot
  <2>1. PICK count \in Nat :
          /\ DOMAIN prompts' = DOMAIN Restored \union Fetched(count)
          /\ Fetched(count) \intersect (1 .. ckpt.fetched) = {}
          /\ 1 .. fetched' = (1 .. ckpt.fetched) \union Fetched(count)
    BY <1>2, BootFacts
  <2>2. DOMAIN Restored = DOMAIN ckpt.prompts
    BY <1>0 DEF Restored, Restores, Empty, Drained
  <2>3. DOMAIN mini' = {}
    BY <1>2 DEF Boot, Core, Idle
  <2>4. trained' = ckpt.trained /\ discarded' = ckpt.discarded
        /\ cfg' = cfg /\ ckpt' = ckpt
    BY <1>2 DEF Boot
  <2>5. /\ 1 .. ckpt.fetched = DOMAIN ckpt.prompts \union ckpt.trained
                                 \union ckpt.discarded
        /\ DOMAIN ckpt.prompts \intersect (ckpt.trained \union ckpt.discarded) = {}
        /\ ckpt.trained \intersect ckpt.discarded = {}
    BY <1>0 DEF Ledger
  <2>6. /\ 1 .. fetched' = DOMAIN prompts' \union DOMAIN mini'
                             \union trained' \union discarded'
        /\ DOMAIN prompts' \intersect DOMAIN mini' = {}
        /\ (DOMAIN prompts' \union DOMAIN mini')
             \intersect (trained' \union discarded') = {}
        /\ trained' \intersect discarded' = {}
    BY <2>1, <2>2, <2>3, <2>4, <2>5
  <2>7. QED
    BY <2>4, <2>5, <2>6 DEF Ledger
<1>3. CASE BeginStep
  <2>1. /\ Replace({}, cfg.train_batch_size) /\ {} \in SUBSET Terminal(prompts)
        /\ cfg.train_batch_size \in Nat
    BY <1>3, ConfigFacts DEF BeginStep, Core, Basic
  <2>2. /\ DOMAIN prompts' = (DOMAIN prompts \ {}) \union New(cfg.train_batch_size)
        /\ fetched' = fetched + cfg.train_batch_size
    BY <2>1, ReplaceFacts
  <2>3. /\ New(cfg.train_batch_size) \intersect (1 .. fetched) = {}
        /\ 1 .. fetched' = (1 .. fetched) \union New(cfg.train_batch_size)
    BY <2>1, <2>2, NewFacts DEF Core, Basic
  <2>4. UNCHANGED <<cfg, mini, trained, discarded, ckpt>> /\ pc = "begin"
    BY <1>3 DEF BeginStep, history
  <2>5. QED
    BY <1>0, <2>2, <2>3, <2>4 DEF Ledger
<1>4. CASE Poll \/ SampleRaises \/ WaitAsync
  <2>1. /\ UNCHANGED <<cfg, prompts, fetched, mini, trained, discarded, ckpt>>
        /\ pc # "boot"
    BY <1>4 DEF Poll, SampleRaises, WaitAsync, workerVars, history
  <2>2. QED
    BY <1>0, <2>1 DEF Ledger
<1>5. CASE EvictAsync \/ SelectAsync \/ SampleSync
  <2>1. pc = "act" /\ DOMAIN mini = {}
    BY <1>5 DEF EvictAsync, SelectAsync, SampleSync, Core, Idle
  <2>2. /\ Terminal(snap.prompts) \subseteq Terminal(prompts)
        /\ Evicted \subseteq Terminal(snap.prompts)
        /\ Sampleable \subseteq Terminal(snap.prompts)
        /\ Terminal(prompts) \subseteq DOMAIN prompts
    BY <2>1, SnapshotFacts DEF Terminal, With
  <2>3. CASE \E k \in Nat : Refill(Evicted, k)
    <3>1. PICK k \in Nat : Refill(Evicted, k)
      BY <2>3
    <3>2. Replace(Evicted, k) /\ Evicted \in SUBSET Terminal(prompts)
      BY <2>2, <3>1 DEF Refill
    <3>3. /\ DOMAIN prompts' = (DOMAIN prompts \ Evicted) \union New(k)
          /\ fetched' = fetched + k
      BY <3>2, ReplaceFacts
    <3>4. /\ New(k) \intersect (1 .. fetched) = {}
          /\ 1 .. fetched' = (1 .. fetched) \union New(k)
      BY <3>3, NewFacts DEF Core, Basic
    <3>5. /\ UNCHANGED <<cfg, mini, trained, ckpt>>
          /\ discarded' = discarded \union Evicted
      BY <3>1 DEF Refill
    <3>6. QED
      BY <1>0, <2>1, <2>2, <3>3, <3>4, <3>5 DEF Ledger
  <2>4. CASE \E S \in SUBSET Sampleable :
               \E surplus \in SUBSET (Terminal(snap.prompts) \ S) :
                 Take(S, surplus)
    <3>1. PICK S \in SUBSET Sampleable :
            \E surplus \in SUBSET (Terminal(snap.prompts) \ S) :
              Take(S, surplus)
      BY <2>4
    <3>2. PICK surplus \in SUBSET (Terminal(snap.prompts) \ S) :
            Take(S, surplus)
      BY <3>1
    <3>3. /\ Materialize(S, surplus) /\ S \in SUBSET Terminal(prompts)
          /\ surplus \in SUBSET Terminal(prompts) /\ UNCHANGED <<work, fetched>>
      BY <2>2, <3>2 DEF Take
    <3>4. /\ DOMAIN prompts' = DOMAIN prompts \ (S \union surplus)
          /\ DOMAIN mini' = S
      BY <3>3, MaterializeFacts
    <3>5. /\ UNCHANGED <<cfg, trained, ckpt>>
          /\ discarded' = discarded \union surplus
      BY <3>2 DEF Take, Materialize
    <3>6. S \subseteq DOMAIN prompts /\ surplus \subseteq DOMAIN prompts
          /\ S \intersect surplus = {}
      BY <2>2, <3>1, <3>2
    <3>7. QED
      BY <1>0, <2>1, <3>3, <3>4, <3>5, <3>6 DEF Ledger
  <2>5. QED
    BY <1>5, <2>3, <2>4, SampleKinds
<1>6. CASE Train
  <2>1. /\ UNCHANGED <<cfg, prompts, fetched, discarded, ckpt>> /\ pc # "boot"
        /\ \/ UNCHANGED <<mini, trained>>
           \/ trained' = trained \union DOMAIN mini /\ mini' = Empty
    BY <1>6 DEF Train, workerVars
  <2>2. DOMAIN Empty = {}
    BY DEF Empty
  <2>3. CASE UNCHANGED <<mini, trained>>
    BY <1>0, <2>1, <2>3 DEF Ledger
  <2>4. CASE trained' = trained \union DOMAIN mini /\ mini' = Empty
    <3>1. DOMAIN mini' = {}
      BY <2>2, <2>4
    <3>2. QED
      BY <1>0, <2>1, <2>4, <3>1 DEF Ledger
  <2>5. QED
    BY <2>1, <2>3, <2>4
<1>7. CASE Save
  <2>1. /\ UNCHANGED <<cfg, prompts, fetched, mini, trained, discarded>>
        /\ pc = "save" /\ DOMAIN mini = {}
    BY <1>7 DEF Save, workerVars, history, Core, Idle
  <2>2. \/ ckpt' = ckpt
        \/ /\ ckpt'.prompts = prompts /\ ckpt'.fetched = fetched
           /\ ckpt'.trained = trained /\ ckpt'.discarded = discarded
    BY <1>7 DEF Save
  <2>3. QED
    BY <1>0, <2>1, <2>2 DEF Ledger
<1>8. CASE EndStep
  BY <1>0, <1>8 DEF EndStep, Ledger, history
<1>9. CASE Crash
  BY <1>0, <1>9 DEF Crash, Ledger, Empty
<1>10. CASE UNCHANGED vars
  BY <1>0, <1>10 DEF vars, workerVars, history, Ledger
<1>11. QED
  BY <1>1, <1>2, <1>3, <1>4, <1>5, <1>6, <1>7, <1>8, <1>9, <1>10
  DEF Next, Trainer, Sample, Ended

\* No prompt is lost, trained on twice, or both trained on and discarded, over
\* restarts as well.
THEOREM AccountedHolds == Spec => []Accounted
<1>1. Init => Core /\ Drained /\ Ledger
  <2>1. Init => Drained
    BY DEF Init, Drained, Empty
  <2>2. Init => Ledger
    BY DEF Init, Ledger, Empty
  <2>3. QED
    BY <2>1, <2>2, CoreInit
<1>2. Core /\ Drained /\ Ledger /\ [Next]_vars => (Core /\ Drained /\ Ledger)'
  BY CoreNext, DrainedNext, LedgerNext
<1>3. Ledger => Accounted
  BY DEF Ledger, Accounted
<1>4. QED
  BY <1>1, <1>2, <1>3, PTL DEF Spec

-----------------------------------------------------------------------------
(* Ownership of rows *)

\* Rows have an owner, in the checkpoint too: there the groups of the batch
\* that had been trained on but not cleared yet.
Rowed ==
  /\ NoOrphanRows
  /\ pc = "boot" => /\ batch = {} /\ DOMAIN rows = {} /\ DOMAIN prompts = {}
                    /\ crashes = 0 => DOMAIN ckpt.rows = {}
  /\ pc = "begin" => batch = {}
  /\ pc # "boot" => ckpt.trained \subseteq trained
  /\ batch \subseteq trained
  /\ DOMAIN ckpt.rows \subseteq DOMAIN ckpt.prompts \union ckpt.trained

\* Every step preserves this.
LEMMA RowedNext ==
  ASSUME Core, Rowed, [Next]_vars
  PROVE  Rowed'
<1> USE DEF Rowed, NoOrphanRows
<1>1. CASE Worker
  <2>1. PICK u \in DOMAIN work : RunPrompt(u) \/ Session(u) \/ EndPrompt(u)
    BY <1>1 DEF Worker
  <2>2. WorkerEffect(u)
    BY <2>1, WorkerFacts
  <2>3. /\ u \in DOMAIN prompts /\ DOMAIN prompts' = DOMAIN prompts
        /\ DOMAIN rows' \subseteq DOMAIN rows \union {u}
        /\ UNCHANGED <<pc, mini, batch, trained, ckpt, crashes>>
    BY <2>2 DEF WorkerEffect, Inflight, With, history
  <2>4. pc # "boot"
    BY <2>3
  <2>5. QED
    BY <2>3, <2>4
<1>2. CASE Boot
  <2>1. PICK count \in Nat :
          /\ DOMAIN prompts' = DOMAIN Restored \union Fetched(count)
          /\ DOMAIN rows' \subseteq IF Restores THEN DOMAIN ckpt.rows ELSE {}
    BY <1>2, BootFacts
  <2>2. DOMAIN rows' \subseteq IF crashes = 0 THEN {}
                               ELSE DOMAIN prompts' \union ckpt.trained
    BY <1>2, <2>1 DEF Boot, Restored
  <2>3. /\ UNCHANGED <<mini, batch, ckpt, crashes>> /\ batch = {}
        /\ trained' = ckpt.trained /\ pc' # "boot"
    BY <1>2 DEF Boot
  <2>4. QED
    BY <2>2, <2>3
<1>3. CASE BeginStep
  <2>1. /\ Replace({}, cfg.train_batch_size) /\ {} \in SUBSET Terminal(prompts)
        /\ cfg.train_batch_size \in Nat
    BY <1>3, ConfigFacts DEF BeginStep, Core, Basic
  <2>2. /\ DOMAIN prompts' = (DOMAIN prompts \ {}) \union New(cfg.train_batch_size)
        /\ DOMAIN rows' = DOMAIN rows \ {}
    BY <2>1, ReplaceFacts
  <2>3. /\ UNCHANGED <<mini, batch, trained, ckpt, crashes>>
        /\ pc = "begin" /\ pc' = "poll"
    BY <1>3 DEF BeginStep, history
  <2>4. QED
    BY <2>2, <2>3
<1>4. CASE Poll \/ SampleRaises \/ WaitAsync
  <2>1. /\ UNCHANGED <<prompts, rows, mini, batch, trained, ckpt, crashes>>
        /\ pc # "boot" /\ pc' \notin {"boot", "begin"}
    BY <1>4 DEF Poll, SampleRaises, WaitAsync, workerVars, history
  <2>2. QED
    BY <2>1
<1>5. CASE EvictAsync \/ SelectAsync \/ SampleSync
  <2>1. pc = "act" /\ DOMAIN mini = {}
    BY <1>5 DEF EvictAsync, SelectAsync, SampleSync, Core, Idle
  <2>2. /\ Terminal(snap.prompts) \subseteq Terminal(prompts)
        /\ Evicted \subseteq Terminal(snap.prompts)
        /\ Sampleable \subseteq Terminal(snap.prompts)
        /\ Terminal(prompts) \subseteq DOMAIN prompts
    BY <2>1, SnapshotFacts DEF Terminal, With
  <2>3. CASE \E k \in Nat : Refill(Evicted, k)
    <3>1. PICK k \in Nat : Refill(Evicted, k)
      BY <2>3
    <3>2. Replace(Evicted, k) /\ Evicted \in SUBSET Terminal(prompts)
      BY <2>2, <3>1 DEF Refill
    <3>3. /\ DOMAIN prompts' = (DOMAIN prompts \ Evicted) \union New(k)
          /\ DOMAIN rows' = DOMAIN rows \ Evicted
      BY <3>2, ReplaceFacts
    <3>4. UNCHANGED <<mini, batch, trained, ckpt, crashes>> /\ pc' = "poll"
      BY <3>1 DEF Refill
    <3>5. QED
      BY <2>1, <3>3, <3>4
  <2>4. CASE \E S \in SUBSET Sampleable :
               \E surplus \in SUBSET (Terminal(snap.prompts) \ S) :
                 Take(S, surplus)
    <3>1. PICK S \in SUBSET Sampleable :
            \E surplus \in SUBSET (Terminal(snap.prompts) \ S) :
              Take(S, surplus)
      BY <2>4
    <3>2. PICK surplus \in SUBSET (Terminal(snap.prompts) \ S) :
            Take(S, surplus)
      BY <3>1
    <3>3. /\ Materialize(S, surplus) /\ S \in SUBSET Terminal(prompts)
          /\ surplus \in SUBSET Terminal(prompts) /\ UNCHANGED <<work, fetched>>
      BY <2>2, <3>2 DEF Take
    <3>4. /\ DOMAIN prompts' = DOMAIN prompts \ (S \union surplus)
          /\ DOMAIN mini' = S /\ DOMAIN rows' = DOMAIN rows \ surplus
      BY <3>3, MaterializeFacts
    <3>5. UNCHANGED <<batch, trained, ckpt, crashes>> /\ pc' = "sampled"
      BY <3>2 DEF Take, Materialize
    <3>6. QED
      BY <2>1, <3>4, <3>5
  <2>5. QED
    BY <1>5, <2>3, <2>4, SampleKinds
<1>6. CASE Train
  <2>1. /\ UNCHANGED <<prompts, rows, ckpt, crashes>> /\ pc # "boot"
        /\ pc' \notin {"boot", "begin"}
        /\ \/ UNCHANGED <<mini, trained, batch>>
           \/ /\ trained' = trained \union DOMAIN mini
              /\ batch' = batch \union DOMAIN mini
    BY <1>6 DEF Train, workerVars
  <2>2. QED
    BY <2>1
<1>7. CASE Save
  <2>1. /\ UNCHANGED <<prompts, rows, mini, batch, trained, crashes>>
        /\ pc = "save" /\ pc' = "clear" /\ DOMAIN mini = {}
    BY <1>7 DEF Save, workerVars, history, Core, Idle
  <2>2. \/ ckpt' = ckpt
        \/ /\ ckpt'.prompts = prompts /\ ckpt'.rows = rows
           /\ ckpt'.trained = trained
    BY <1>7 DEF Save
  <2>3. QED
    BY <2>1, <2>2
<1>8. CASE EndStep
  <2>1. DOMAIN rows' = DOMAIN rows \ batch
    BY <1>8 DEF EndStep, Drop, Restrict
  <2>2. QED
    BY <1>8, <2>1 DEF EndStep, history
<1>9. CASE Crash
  <2>1. crashes' # 0 /\ DOMAIN rows' = {}
    BY <1>9 DEF Crash, Core, Basic, Empty
  <2>2. QED
    BY <1>9, <2>1 DEF Crash
<1>10. CASE UNCHANGED vars
  BY <1>10 DEF vars, workerVars, history
<1>11. QED
  BY <1>1, <1>2, <1>3, <1>4, <1>5, <1>6, <1>7, <1>8, <1>9, <1>10
  DEF Next, Trainer, Sample, Ended

\* Trajectories belong to a prompt that is still there or to the batch in
\* training; only a restart leaves rows behind, of groups trained on before.
THEOREM NoOrphanRowsHolds == Spec => []NoOrphanRows
<1>1. Init => Core /\ Rowed
  <2>1. Init => Rowed
    BY DEF Init, Rowed, NoOrphanRows, Empty
  <2>2. QED
    BY <2>1, CoreInit
<1>2. Core /\ Rowed /\ [Next]_vars => (Core /\ Rowed)'
  BY CoreNext, RowedNext
<1>3. Rowed => NoOrphanRows
  BY DEF Rowed
<1>4. QED
  BY <1>1, <1>2, <1>3, PTL DEF Spec

-----------------------------------------------------------------------------
(* Sizes *)

Size == Cardinality(DOMAIN prompts)
Warm == cfg.num_warmup_batches * cfg.train_batch_size
Left(done) == SampleSize * (cfg.parameter_sync_step - done)

\* Quotient and remainder.
LEMMA Division ==
  ASSUME NEW t \in Nat, NEW p \in Nat \ {0}
  PROVE  t \div p \in Int /\ t % p \in Int /\ t = (t \div p) * p + (t % p)
<1>1. p \in Int /\ t \in Int /\ p > 0
  OBVIOUS
<1>2. t \div p \in Int /\ t % p \in 0 .. p - 1
  BY <1>1
<1>3. t = (t \div p) * p + (t % p)
  BY <1>1
<1>4. QED
  BY <1>2, <1>3

\* The batches of a step make up one training batch.
LEMMA SizeFacts ==
  ASSUME cfg \in Configs
  PROVE  /\ Warm \in Nat /\ SampleSize \in Nat
         /\ Left(0) = cfg.train_batch_size
         /\ Left(cfg.parameter_sync_step) = 0
         /\ \A done \in Nat : done < cfg.parameter_sync_step =>
              Left(done) \in Nat /\ Left(done + 1) = Left(done) - SampleSize
         /\ \A c \in Nat : Warm * c \in Nat /\ Warm * (c + 1) = Warm * c + Warm
<1>1. /\ cfg.train_batch_size \in Nat /\ cfg.parameter_sync_step \in Nat \ {0}
      /\ cfg.num_warmup_batches \in Nat
      /\ cfg.train_batch_size % cfg.parameter_sync_step = 0
  BY ConfigFacts
<1>2. PICK t \in Nat, p \in Nat \ {0} :
        t = cfg.train_batch_size /\ p = cfg.parameter_sync_step
  BY <1>1
<1>3. PICK w \in Nat : w = Warm
  BY <1>1 DEF Warm
<1>4. t % p = 0
  BY <1>1, <1>2
<1>5. PICK q \in Nat : q = t \div p
  BY <1>2
<1>6. t = q * p
  <2> DEFINE a == t \div p
             b == t % p
  <2>1. a \in Int /\ b \in Int /\ t = a * p + b
    BY <1>2, Division
  <2>2. a = q /\ b = 0
    BY <1>4, <1>5
  <2> HIDE DEF a, b
  <2>3. t = q * p + 0
    BY <2>1, <2>2
  <2>4. QED
    BY <1>2, <1>5, <2>3
<1>7. SampleSize = q
  BY <1>2, <1>5 DEF SampleSize
<1>8. \A done : Left(done) = q * (p - done)
  BY <1>2, <1>7 DEF Left
<1>9. Left(0) = cfg.train_batch_size /\ Left(cfg.parameter_sync_step) = 0
  BY <1>2, <1>6, <1>8
<1>10. ASSUME NEW done \in Nat, done < p
       PROVE  Left(done) \in Nat /\ Left(done + 1) = Left(done) - SampleSize
  <2>1. PICK r \in Nat : r = p - (done + 1)
    BY <1>10, <1>2
  <2>2. p - done = r + 1
    BY <1>2, <2>1
  <2>3. Left(done) = q * (r + 1) /\ Left(done + 1) = q * r
    BY <1>8, <2>1, <2>2
  <2>4. PICK m \in Nat : m = q * r
    BY <1>5, <2>1
  <2>5. q * (r + 1) = m + q
    BY <1>5, <2>1, <2>4
  <2>6. QED
    BY <1>5, <1>7, <2>3, <2>4, <2>5
<1>11. \A c \in Nat : w * c \in Nat /\ w * (c + 1) = w * c + w
  BY <1>3
<1>12. QED
  BY <1>2, <1>3, <1>5, <1>7, <1>9, <1>10, <1>11

\* The population of TransferQueue in the asynchronous modes: the warmup
\* batches and what this step has not taken yet; each restart may add the
\* warmup batches once more.
AsyncPop ==
  ~Sync =>
    /\ pc \in {"poll", "act", "sampled"} =>
         local_trigger_step < cfg.parameter_sync_step
    /\ pc \in {"begin", "save", "clear"} =>
         Warm <= Size /\ Size <= Warm * (crashes + 1)
    /\ pc \in {"poll", "act"} =>
         /\ Warm + Left(local_trigger_step) <= Size
         /\ Size <= Warm * (crashes + 1) + Left(local_trigger_step)
    /\ pc = "sampled" =>
         /\ Warm + Left(local_trigger_step) <= Size + SampleSize
         /\ Size + SampleSize <= Warm * (crashes + 1) + Left(local_trigger_step)
    /\ Cardinality(DOMAIN ckpt.prompts) <= Warm * (crashes + 1)
    /\ pc = "boot" => Cardinality(DOMAIN ckpt.prompts) <= Warm * crashes

\* A checkpoint's prompts can be counted.
LEMMA SavedCount ==
  ASSUME Core
  PROVE  /\ IsFiniteSet(DOMAIN ckpt.prompts)
         /\ Cardinality(DOMAIN ckpt.prompts) \in Nat
<1>1. 1 \in Int /\ ckpt.fetched \in Int
  BY DEF Core, Basic
<1>2. IsFiniteSet(1 .. ckpt.fetched)
  BY <1>1, FS_Interval
<1>3. DOMAIN ckpt.prompts \in SUBSET (1 .. ckpt.fetched)
  BY DEF Core, Basic
<1>4. QED
  BY <1>2, <1>3, FS_Subset, FS_CardinalityType

\* Every step keeps the population.
LEMMA AsyncPopNext ==
  ASSUME Core, AsyncPop, [Next]_vars
  PROVE  AsyncPop'
<1>0. SUFFICES ASSUME ~Sync PROVE AsyncPop'
  BY CfgConstant DEF AsyncPop, Sync
<1>a. cfg' = cfg
  BY CfgConstant
<1>b. PICK W \in Nat, Q \in Nat, C \in Nat :
        W = Warm /\ Q = SampleSize /\ C = Warm * crashes
  BY SizeFacts DEF Core, Basic
<1>c. /\ Warm' = W /\ SampleSize' = Q /\ \A d : Left(d)' = Left(d)
      /\ Warm * (crashes + 1) = C + W
  BY <1>a, <1>b, SizeFacts DEF Warm, SampleSize, Left, Core, Basic
<1>d. /\ Size \in Nat /\ local_trigger_step \in Nat
      /\ Cardinality(DOMAIN ckpt.prompts) \in Nat
      /\ cfg.parameter_sync_step \in Nat
  BY CountFacts, SavedCount, ConfigFacts DEF Size, Core, Basic
<1>1. CASE Worker
  <2>1. PICK u \in DOMAIN work : RunPrompt(u) \/ Session(u) \/ EndPrompt(u)
    BY <1>1 DEF Worker
  <2>2. WorkerEffect(u)
    BY <2>1, WorkerFacts
  <2>3. UNCHANGED <<cfg, pc, local_trigger_step, ckpt, crashes, Size>>
    BY <2>2 DEF WorkerEffect, Size, stepVars
  <2>4. QED
    BY <2>3 DEF AsyncPop, Sync, Warm, Left, SampleSize
<1>2. CASE Boot
  <2>1. PICK count \in Nat :
          /\ count = cfg.num_warmup_batches * cfg.train_batch_size
          /\ DOMAIN prompts' = DOMAIN Restored \union Fetched(count)
          /\ Fetched(count) \intersect (1 .. ckpt.fetched) = {}
          /\ IsFiniteSet(Fetched(count)) /\ Cardinality(Fetched(count)) = count
    BY <1>2, BootFacts
  <2>2. /\ IsFiniteSet(DOMAIN Restored) /\ Cardinality(DOMAIN Restored) \in Nat
        /\ Cardinality(DOMAIN Restored) <= C
        /\ DOMAIN Restored \subseteq 1 .. ckpt.fetched
    <3>1. CASE Restores
      <4>1. Cardinality(DOMAIN ckpt.prompts) <= C
        BY <1>0, <1>2, <1>b DEF AsyncPop, Boot
      <4>2. QED
        BY <3>1, <4>1, SavedCount DEF Restored, Core, Basic
    <3>2. CASE ~Restores
      <4>1. DOMAIN Restored = {}
        BY <3>2 DEF Restored, Empty
      <4>2. QED
        BY <1>b, <4>1, FS_EmptySet
    <3>3. QED
      BY <3>1, <3>2
  <2>3. DOMAIN Restored \intersect Fetched(count) = {}
    BY <2>1, <2>2
  <2>4. Cardinality(DOMAIN prompts') = Cardinality(DOMAIN Restored) + count - 0
    <3>1. Cardinality(DOMAIN Restored \union Fetched(count)) =
            Cardinality(DOMAIN Restored) + Cardinality(Fetched(count))
            - Cardinality(DOMAIN Restored \intersect Fetched(count))
      BY <2>1, <2>2, FS_Union
    <3>2. QED
      BY <2>1, <2>3, <3>1, FS_EmptySet
  <2>5. count = W
    BY <1>b, <2>1 DEF Warm
  <2>6. W <= Size' /\ Size' <= C + W
    <3>1. PICK r \in Nat : r = Cardinality(DOMAIN Restored) /\ r <= C
      BY <2>2
    <3>2. Size' = r + W - 0
      BY <2>4, <2>5, <3>1 DEF Size
    <3>3. QED
      BY <1>b, <3>1, <3>2
  <2>7. pc' \in {"done", "begin"} /\ UNCHANGED <<crashes, ckpt>>
    BY <1>2 DEF Boot
  <2>8. Warm' * (crashes' + 1) = C + W
    BY <1>b, <1>c, <2>7
  <2>9. QED
    BY <1>0, <1>b, <1>c, <2>6, <2>7, <2>8 DEF AsyncPop
<1>3. CASE BeginStep
  <2>1. /\ Replace({}, cfg.train_batch_size) /\ {} \in SUBSET Terminal(prompts)
        /\ cfg.train_batch_size \in Nat
    BY <1>3, ConfigFacts DEF BeginStep, Core, Basic
  <2>2. Size' = Size - 0 + cfg.train_batch_size
    BY <2>1, ReplaceCount, FS_EmptySet DEF Size
  <2>3. W <= Size /\ Size <= C + W
    BY <1>0, <1>3, <1>b, <1>c DEF AsyncPop, BeginStep
  <2>4. PICK t \in Nat, s \in Nat : t = cfg.train_batch_size /\ s = Size
    BY <1>d, <2>1
  <2>5. Left(0) = t
    BY <2>4, SizeFacts DEF Core, Basic
  <2>6. Size' = s + t
    BY <2>2, <2>4
  <2>7. W + t <= Size' /\ Size' <= (C + W) + t
    BY <2>3, <2>4, <2>6
  <2>8. pc' = "poll" /\ local_trigger_step' = 0 /\ UNCHANGED <<crashes, ckpt>>
    BY <1>3 DEF BeginStep
  <2>9. 0 < cfg.parameter_sync_step
    BY ConfigFacts DEF Core, Basic
  <2>10. Warm' * (crashes' + 1) = C + W /\ Left(local_trigger_step)' = t
    BY <1>a, <1>b, <1>c, <2>5, <2>8 DEF Left, SampleSize
  <2>11. QED
    BY <1>0, <1>a, <1>b, <1>c, <2>7, <2>8, <2>9, <2>10 DEF AsyncPop
<1>4. CASE Poll \/ SampleRaises \/ WaitAsync
  <2>1. /\ UNCHANGED <<cfg, local_trigger_step, ckpt, crashes, Size>>
        /\ pc \in {"poll", "act"} /\ pc' \in {"poll", "act", "raised"}
    BY <1>4 DEF Poll, SampleRaises, WaitAsync, workerVars, stepVars, Size
  <2>2. QED
    BY <2>1 DEF AsyncPop, Sync, Warm, Left, SampleSize
<1>5. CASE EvictAsync
  <2>1. /\ Replace(Evicted, Cardinality(Evicted)) /\ pc = "act" /\ pc' = "poll"
        /\ UNCHANGED <<cfg, local_trigger_step, ckpt, crashes>>
    BY <1>5 DEF EvictAsync, RefillCount, stepVars
  <2>2. Evicted \in SUBSET Terminal(prompts) /\ Cardinality(Evicted) \in Nat
    BY <2>1, SnapshotFacts, SampleNumbers
  <2>3. Size' = Size - Cardinality(Evicted) + Cardinality(Evicted)
    BY <2>1, <2>2, ReplaceCount DEF Size
  <2>4. Size' = Size
    BY <1>d, <2>2, <2>3
  <2>5. QED
    BY <2>1, <2>4 DEF AsyncPop, Sync, Warm, Left, SampleSize
<1>6. CASE SelectAsync
  <2>1. PICK S \in Oldest : Materialize(S, {})
    BY <1>6 DEF SelectAsync
  <2>2. /\ pc = "act" /\ S \subseteq Sampleable /\ {} \in SUBSET Terminal(prompts)
        /\ Cardinality(S) = Q
    BY <1>6, <1>b, <2>1 DEF SelectAsync, Oldest, kSubset
  <2>3. S \in SUBSET Terminal(prompts) /\ UNCHANGED <<work, fetched>>
    BY <1>6, <2>2, SnapshotFacts DEF SelectAsync
  <2>4. DOMAIN prompts' = DOMAIN prompts \ (S \union {})
    BY <2>1, <2>2, <2>3, MaterializeFacts
  <2>5. /\ DOMAIN prompts' = DOMAIN prompts \ S
        /\ DOMAIN prompts \intersect S = S
    BY <2>3, <2>4 DEF Terminal, With
  <2>6. Size' = Size - Q
    BY <2>2, <2>5, CountFacts, FS_Difference DEF Size
  <2>7. /\ pc' = "sampled" /\ UNCHANGED <<cfg, local_trigger_step, ckpt, crashes>>
    BY <1>6, <2>1 DEF SelectAsync, Materialize, stepVars
  <2>8. PICK s \in Nat, L \in Nat : s = Size /\ L = Left(local_trigger_step)
    BY <1>0, <1>d, <2>2, SizeFacts DEF AsyncPop, Core, Basic
  <2>9. /\ W + L <= s /\ s <= (C + W) + L
        /\ local_trigger_step < cfg.parameter_sync_step
        /\ Cardinality(DOMAIN ckpt.prompts) <= C + W
    BY <1>0, <1>b, <1>c, <2>2, <2>8 DEF AsyncPop
  <2>10. Size' + Q = s
    BY <1>b, <2>6, <2>8
  <2>11. /\ Warm' * (crashes' + 1) = C + W /\ Left(local_trigger_step)' = L
         /\ SampleSize' = Q /\ Warm' = W
    BY <1>b, <1>c, <2>7, <2>8 DEF Left, SampleSize
  <2>12. QED
    BY <2>7, <2>9, <2>10, <2>11 DEF AsyncPop
<1>7. CASE Train
  <2>1. /\ pc = "sampled" /\ UNCHANGED <<cfg, ckpt, crashes, Size>>
        /\ \/ pc' = "raised"
           \/ /\ local_trigger_step' = local_trigger_step + 1
              /\ pc' = IF MoreUpdates THEN "poll" ELSE "save"
    BY <1>7 DEF Train, Size, workerVars
  <2>2. local_trigger_step < cfg.parameter_sync_step
    BY <1>0, <2>1 DEF AsyncPop
  <2>3. PICK s \in Nat, L \in Nat : s = Size /\ L = Left(local_trigger_step)
    BY <1>d, <2>2, SizeFacts DEF Core, Basic
  <2>4. /\ W + L <= s + Q /\ s + Q <= (C + W) + L
        /\ Cardinality(DOMAIN ckpt.prompts) <= C + W
    BY <1>0, <1>b, <1>c, <2>1, <2>3 DEF AsyncPop
  <2>5. Left(local_trigger_step + 1) = L - Q
    BY <1>b, <1>d, <2>2, <2>3, SizeFacts DEF Core, Basic
  <2>6. W + (L - Q) <= s /\ s <= (C + W) + (L - Q)
    BY <1>b, <2>3, <2>4
  <2>7. Warm' * (crashes' + 1) = C + W /\ Warm' = W /\ Size' = s
    BY <1>b, <1>c, <2>1, <2>3
  <2>8. CASE pc' = "raised"
    BY <2>1, <2>4, <2>7, <2>8 DEF AsyncPop
  <2>9. CASE pc' = "poll" /\ local_trigger_step' = local_trigger_step + 1
             /\ MoreUpdates
    <3>1. Left(local_trigger_step)' = L - Q
      BY <1>a, <2>5, <2>9 DEF Left, SampleSize
    <3>2. local_trigger_step' < cfg'.parameter_sync_step
      BY <1>a, <2>9 DEF MoreUpdates
    <3>3. QED
      BY <2>1, <2>4, <2>6, <2>7, <2>9, <3>1, <3>2 DEF AsyncPop
  <2>10. CASE pc' = "save" /\ ~MoreUpdates
    <3>1. local_trigger_step + 1 = cfg.parameter_sync_step
      BY <1>d, <2>2, <2>10 DEF MoreUpdates
    <3>2. L - Q = 0
      BY <2>5, <3>1, SizeFacts DEF Core, Basic
    <3>3. W <= s /\ s <= C + W
      BY <1>b, <2>3, <2>6, <3>2
    <3>4. QED
      BY <2>1, <2>4, <2>7, <2>10, <3>3 DEF AsyncPop
  <2>11. QED
    BY <2>1, <2>8, <2>9, <2>10
<1>8. CASE Save
  <2>1. /\ pc = "save" /\ pc' = "clear" /\ UNCHANGED <<cfg, crashes, Size>>
        /\ ckpt' = ckpt \/ ckpt'.prompts = prompts
    BY <1>8 DEF Save, Size, workerVars
  <2>2. /\ W <= Size /\ Size <= C + W
        /\ Cardinality(DOMAIN ckpt.prompts) <= C + W
    BY <1>0, <1>b, <1>c, <2>1 DEF AsyncPop
  <2>3. Cardinality(DOMAIN ckpt'.prompts) <= C + W
    BY <2>1, <2>2 DEF Size
  <2>4. Warm' * (crashes' + 1) = C + W /\ Warm' = W /\ Size' = Size
    BY <1>b, <1>c, <2>1
  <2>5. QED
    BY <2>1, <2>2, <2>3, <2>4 DEF AsyncPop
<1>9. CASE EndStep
  <2>1. /\ pc = "clear" /\ pc' \in {"done", "begin"}
        /\ UNCHANGED <<cfg, crashes, Size, ckpt>>
    BY <1>9 DEF EndStep, Size
  <2>2. QED
    BY <2>1 DEF AsyncPop, Sync, Warm
<1>10. CASE Crash
  <2>1. /\ pc' = "boot" /\ crashes' = crashes + 1 /\ ckpt' = ckpt
    BY <1>10 DEF Crash
  <2>2. Cardinality(DOMAIN ckpt.prompts) <= C + W
    BY <1>0, <1>b, <1>c DEF AsyncPop
  <2>3. crashes \in Nat /\ crashes + 1 \in Nat
    BY DEF Core, Basic
  <2>4. Warm * (crashes + 1) = C + W
        /\ Warm * ((crashes + 1) + 1) = (C + W) + W
    BY <1>b, <1>c, <2>3, SizeFacts DEF Core, Basic
  <2>5. Warm' * crashes' = C + W /\ Warm' * (crashes' + 1) = (C + W) + W
    BY <1>b, <1>c, <2>1, <2>4
  <2>6. Cardinality(DOMAIN ckpt.prompts) <= (C + W) + W
    BY <1>b, <1>d, <2>2
  <2>7. QED
    BY <2>1, <2>2, <2>5, <2>6 DEF AsyncPop
<1>11. CASE UNCHANGED vars
  <2>1. UNCHANGED <<cfg, pc, local_trigger_step, ckpt, crashes, Size>>
    BY <1>11 DEF vars, workerVars, stepVars, Size
  <2>2. QED
    BY <2>1 DEF AsyncPop, Sync, Warm, Left, SampleSize
<1>12. CASE SampleSync
  BY <1>0, <1>12 DEF SampleSync
<1>13. QED
  BY <1>1, <1>2, <1>3, <1>4, <1>5, <1>6, <1>7, <1>8, <1>9, <1>10, <1>11, <1>12
  DEF Next, Trainer, Sample, Ended

\* The terminal groups a synchronous sample would not evict.
Usable(p, r) ==
  {u \in Terminal(p) :
     /\ ~(p[u].status = "finished" /\ u \in DOMAIN r /\ cfg.dapo /\ Flat(r[u]))
     /\ ~(p[u].status = "failure" /\ cfg.sync_refill_failed_groups
                                  /\ u \notin DOMAIN r)}

\* The population of TransferQueue in sync mode, and why draining, which stops
\* all dispatch, does not starve sample: the batch that started it stays.
SyncPop ==
  Sync =>
    /\ pc \in {"poll", "act"} => /\ local_trigger_step = 0
                                 /\ Size + refill_credit >= cfg.train_batch_size
    /\ cfg.dapo /\ draining =>
         /\ pc = "poll" => Cardinality(Usable(prompts, rows)) >= SampleSize
         /\ pc = "act" => Enough

\* Usable groups stay usable while they and their rows are left alone.
LEMMA UsableStays ==
  ASSUME cfg' = cfg, NEW T \in SUBSET DOMAIN prompts, IsFiniteSet(DOMAIN prompts'),
         NEW p, NEW r, T \subseteq Usable(p, r), T \subseteq DOMAIN prompts',
         \A u \in T : /\ prompts'[u] = p[u]
                      /\ u \in DOMAIN rows' <=> u \in DOMAIN r
                      /\ u \in DOMAIN rows' => rows'[u] = r[u]
  PROVE  /\ T \subseteq Usable(prompts, rows)'
         /\ IsFiniteSet(Usable(prompts, rows)')
         /\ Cardinality(T) <= Cardinality(Usable(prompts, rows)')
<1>1. Usable(prompts, rows)' \in SUBSET DOMAIN prompts'
  BY DEF Usable, Terminal, With
<1>2. IsFiniteSet(Usable(prompts, rows)')
  BY <1>1, FS_Subset
<1>3. T \subseteq Usable(prompts, rows)'
  BY DEF Usable, Terminal, With
<1>4. QED
  BY <1>2, <1>3, FS_Subset

\* A synchronous DAPO sample that does not hand out a batch: what it evicts is
\* made up for by dispatches and credit, and if it starts or goes on draining,
\* it keeps enough usable groups.
LEMMA SyncRefill ==
  ASSUME Core, SyncPop, SampleSync, cfg.dapo, Replace(Evicted, Dispatch)
  PROVE  /\ Size' + refill_credit' >= cfg.train_batch_size
         /\ draining' => Cardinality(Usable(prompts, rows)') >= SampleSize
<1>1. /\ pc = "act" /\ Sync /\ cfg' = cfg
      /\ refill_credit' = Credit - Dispatch
      /\ draining' = (draining \/ Enough)
  BY DEF SampleSync
<1>2. /\ Evicted \in SUBSET Terminal(prompts) /\ Evicted \in SUBSET DOMAIN prompts
      /\ Sampleable \in SUBSET DOMAIN prompts
      /\ Sampleable \subseteq Terminal(snap.prompts)
      /\ Sampleable \intersect Evicted = {}
  BY <1>1, SnapshotFacts DEF Terminal, With
<1>3. /\ Dispatch \in Nat /\ Credit \in Nat /\ Cardinality(Evicted) \in Nat
      /\ Cardinality(DapoFiltered) \in Nat /\ Cardinality(FailedEmpty) \in Nat
      /\ Cardinality(Sampleable) \in Nat
  BY <1>1, SampleNumbers
<1>4. /\ DOMAIN prompts' = (DOMAIN prompts \ Evicted) \union New(Dispatch)
      /\ \A u \in DOMAIN prompts \ Evicted : prompts'[u] = prompts[u]
      /\ DOMAIN rows' = DOMAIN rows \ Evicted
      /\ \A u \in DOMAIN rows' : rows'[u] = rows[u]
  BY <1>2, <1>3, ReplaceFacts
<1>5. IsFiniteSet(DOMAIN prompts')
  <2>1. IsFiniteSet(New(Dispatch)) /\ IsFiniteSet(DOMAIN prompts \ Evicted)
    BY <1>3, NewFacts, CountFacts DEF Core, Basic
  <2>2. QED
    BY <1>4, <2>1, FS_Union
<1>6. Size' = Size - Cardinality(Evicted) + Dispatch
  BY <1>2, <1>3, ReplaceCount DEF Size
<1>7. Size \in Nat /\ refill_credit \in Nat /\ cfg.train_batch_size \in Nat
      /\ Size + refill_credit >= cfg.train_batch_size
      /\ SampleSize = cfg.train_batch_size
  BY <1>1, CountFacts, ConfigFacts, SyncSize DEF Size, Core, Basic, SyncPop
<1>8. CASE Enough
  <2>1. Sampleable \subseteq Usable(snap.prompts, snap.rows)
    BY <1>1 DEF Sampleable, Evicted, DapoFiltered, FailedEmpty, Finished, Failed,
                Usable, Terminal, With
  <2>2. \A u \in Sampleable :
          /\ prompts'[u] = snap.prompts[u]
          /\ u \in DOMAIN rows' <=> u \in DOMAIN snap.rows
          /\ u \in DOMAIN rows' => rows'[u] = snap.rows[u]
    <3>1. \A u \in Sampleable :
            snap.prompts[u].status \in {"finished", "failure"}
      BY <1>2 DEF Terminal, With
    <3>2. \A u \in Sampleable :
            /\ prompts[u] = snap.prompts[u]
            /\ u \in DOMAIN rows <=> u \in DOMAIN snap.rows
            /\ u \in DOMAIN rows => rows[u] = snap.rows[u]
      BY <1>1, <1>2, <3>1 DEF Core, Snapshot
    <3>3. QED
      BY <1>2, <1>4, <3>2
  <2>3. Sampleable \subseteq DOMAIN prompts'
    BY <1>2, <1>4
  <2>4. Cardinality(Sampleable) <= Cardinality(Usable(prompts, rows)')
        /\ IsFiniteSet(Usable(prompts, rows)')
    BY <1>1, <1>2, <1>5, <2>1, <2>2, <2>3, UsableStays
  <2>5. Cardinality(Sampleable) <= Size' /\ Size' \in Nat
    BY <1>5, <2>3, FS_Subset, FS_CardinalityType DEF Size
  <2>6. Cardinality(Sampleable) >= SampleSize
    BY <1>8 DEF Enough
  <2>7. Cardinality(Usable(prompts, rows)') \in Nat
    BY <2>4, FS_CardinalityType
  <2>8. PICK a \in Nat, b \in Nat, c \in Nat :
          /\ a = Cardinality(Sampleable) /\ b = Size'
          /\ c = Cardinality(Usable(prompts, rows)')
    BY <1>3, <2>5, <2>7
  <2>9. c >= SampleSize /\ b >= SampleSize
    BY <1>7, <2>4, <2>5, <2>6, <2>8
  <2>10. Credit = 0 /\ Dispatch = 0
    BY <1>8 DEF Credit, Dispatch
  <2>11. b + refill_credit' >= cfg.train_batch_size
    BY <1>1, <1>7, <2>9, <2>10
  <2>12. QED
    BY <2>8, <2>9, <2>11
<1>9. CASE ~Enough
  <2>1. ~draining /\ ~draining'
    BY <1>1, <1>9 DEF SyncPop
  <2>2. Credit = refill_credit + 2 * Cardinality(DapoFiltered)
                               + Cardinality(FailedEmpty)
    BY <1>9, <2>1 DEF Credit
  <2>3. Cardinality(Evicted) = Cardinality(DapoFiltered) + Cardinality(FailedEmpty)
    <3>1. Evicted = DapoFiltered \union FailedEmpty
      BY <1>1 DEF Evicted
    <3>2. DapoFiltered \intersect FailedEmpty = {}
      BY DEF DapoFiltered, FailedEmpty, Finished, Failed, With
    <3>3. IsFiniteSet(DapoFiltered) /\ IsFiniteSet(FailedEmpty)
      BY <1>2, <3>1, CountFacts
    <3>4. Cardinality(Evicted) =
            Cardinality(DapoFiltered) + Cardinality(FailedEmpty) - 0
      BY <3>1, <3>2, <3>3, FS_Union, FS_EmptySet
    <3>5. QED
      BY <1>3, <3>4
  <2>4. PICK d \in Nat, f \in Nat, k \in Nat, s \in Nat :
          /\ d = Cardinality(DapoFiltered) /\ f = Cardinality(FailedEmpty)
          /\ k = Dispatch /\ s = Size
    BY <1>3, <1>7
  <2>5. Size' = s - (d + f) + k
    BY <1>6, <2>3, <2>4
  <2>6. refill_credit' = (refill_credit + 2 * d + f) - k
    BY <1>1, <2>2, <2>4
  <2>7. s + refill_credit >= cfg.train_batch_size
    BY <1>7, <2>4
  <2>8. Size' + refill_credit' >= cfg.train_batch_size
    BY <1>7, <2>4, <2>5, <2>6, <2>7
  <2>9. QED
    BY <2>1, <2>8
<1>10. QED
  BY <1>8, <1>9

\* Every step keeps the population.
LEMMA SyncPopNext ==
  ASSUME Core, Drained, Drained', SyncPop, [Next]_vars
  PROVE  SyncPop'
<1>0. SUFFICES ASSUME Sync PROVE SyncPop'
  BY CfgConstant DEF SyncPop, Sync
<1>a. cfg' = cfg /\ SampleSize' = SampleSize /\ Sync'
  BY <1>0, CfgConstant DEF SampleSize, Sync
<1>1. CASE Worker
  <2>1. PICK u \in DOMAIN work : RunPrompt(u) \/ Session(u) \/ EndPrompt(u)
    BY <1>1 DEF Worker
  <2>2. WorkerEffect(u)
    BY <2>1, WorkerFacts
  <2>3. /\ DOMAIN prompts' = DOMAIN prompts /\ Size' = Size
        /\ UNCHANGED <<cfg, pc, local_trigger_step, refill_credit, draining, snap>>
    BY <2>2 DEF WorkerEffect, Size, stepVars, sampleVars
  <2>4. Enough' = Enough
    <3>1. /\ Finished' = Finished /\ Failed' = Failed
          /\ Terminal(snap.prompts)' = Terminal(snap.prompts)
      BY <2>3 DEF Finished, Failed
    <3>2. DapoFiltered' = DapoFiltered /\ FailedEmpty' = FailedEmpty
      BY <2>3, <3>1 DEF DapoFiltered, FailedEmpty
    <3>3. Sampleable' = Sampleable
      BY <1>0, <1>a, <3>1, <3>2 DEF Sampleable, Evicted
    <3>4. QED
      BY <1>a, <3>3 DEF Enough
  <2>5. \A v \in Terminal(prompts) :
          /\ prompts'[v] = prompts[v]
          /\ v \in DOMAIN rows' <=> v \in DOMAIN rows
          /\ v \in DOMAIN rows => rows'[v] = rows[v]
    BY <2>2, WorkerTerminal
  <2>6. PICK T : T = Usable(prompts, rows)
    OBVIOUS
  <2>7. T \in SUBSET DOMAIN prompts /\ T \subseteq Terminal(prompts)
    BY <2>6 DEF Usable, Terminal, With
  <2>8. /\ Cardinality(T) <= Cardinality(Usable(prompts, rows)')
        /\ IsFiniteSet(Usable(prompts, rows)')
    BY <2>3, <2>5, <2>6, <2>7, CountFacts, UsableStays
  <2>9. /\ Cardinality(T) \in Nat /\ SampleSize \in Nat
        /\ Cardinality(Usable(prompts, rows)') \in Nat
    BY <2>7, <2>8, CountFacts, FS_CardinalityType, SizeFacts DEF Core, Basic
  <2>10. Cardinality(T) >= SampleSize =>
           Cardinality(Usable(prompts, rows)') >= SampleSize
    BY <2>8, <2>9
  <2>11. QED
    BY <1>0, <1>a, <2>3, <2>4, <2>6, <2>10 DEF SyncPop
<1>2. CASE Boot \/ Train \/ Save \/ EndStep \/ Crash
  <2>1. pc' \notin {"poll", "act"}
    BY <1>0, <1>2, SyncSize DEF Boot, Train, Save, EndStep, Crash
  <2>2. QED
    BY <2>1 DEF SyncPop
<1>3. CASE BeginStep
  <2>1. /\ pc' = "poll" /\ local_trigger_step' = 0 /\ refill_credit' = 0
        /\ ~draining' /\ Replace({}, cfg.train_batch_size)
    BY <1>3 DEF BeginStep
  <2>2. {} \in SUBSET Terminal(prompts) /\ cfg.train_batch_size \in Nat
        /\ Size \in Nat
    BY ConfigFacts, CountFacts DEF Size, Core, Basic
  <2>3. Size' = Size - 0 + cfg.train_batch_size
    BY <2>1, <2>2, ReplaceCount, FS_EmptySet DEF Size
  <2>4. Size' + refill_credit' >= cfg'.train_batch_size
    BY <1>a, <2>1, <2>2, <2>3
  <2>5. QED
    BY <2>1, <2>4 DEF SyncPop
<1>4. CASE Poll
  <2>1. /\ pc = "poll" /\ snap'.prompts = prompts /\ snap'.rows = rows
        /\ UNCHANGED <<local_trigger_step, refill_credit, draining, Size>>
    BY <1>4 DEF Poll, stepVars, workerVars, Size
  <2>2. Sampleable' = Usable(prompts, rows)
    BY <1>a, <2>1 DEF Sampleable, Evicted, DapoFiltered, FailedEmpty, Finished,
                      Failed, Usable, Terminal, With
  <2>3. Enough' = (Cardinality(Usable(prompts, rows)) >= SampleSize)
    BY <1>a, <2>2 DEF Enough
  <2>4. pc' = "act"
    BY <1>4 DEF Poll
  <2>5. QED
    BY <1>0, <1>a, <2>1, <2>3, <2>4 DEF SyncPop
<1>5. CASE SampleRaises
  <2>1. pc' = "raised"
    BY <1>5 DEF SampleRaises
  <2>2. QED
    BY <2>1 DEF SyncPop
<1>6. CASE EvictAsync \/ SelectAsync \/ WaitAsync
  BY <1>0, <1>6 DEF EvictAsync, SelectAsync, WaitAsync
<1>7. CASE SampleSync
  <2>1. pc = "act" /\ local_trigger_step' = local_trigger_step
        /\ local_trigger_step = 0
    BY <1>0, <1>7 DEF SampleSync, stepVars, SyncPop
  <2>2. CASE pc' = "sampled"
    BY <2>2 DEF SyncPop
  <2>3. CASE Replace(Evicted, Dispatch) /\ pc' = "poll" /\ cfg.dapo
    <3>1. /\ Size' + refill_credit' >= cfg'.train_batch_size
          /\ draining' => Cardinality(Usable(prompts, rows)') >= SampleSize'
      BY <1>7, <1>a, <2>3, SyncRefill
    <3>2. QED
      BY <2>1, <2>3, <3>1 DEF SyncPop
  <2>4. CASE pc' = "poll" /\ ~cfg.dapo
    <3>1. Size' = cfg'.train_batch_size /\ refill_credit' = 0
      BY <1>7, <1>a, <2>4 DEF Drained, Size, SampleSync
    <3>2. cfg'.train_batch_size \in Nat
      BY <1>a, ConfigFacts DEF Core, Basic
    <3>3. Size' + refill_credit' >= cfg'.train_batch_size
      BY <3>1, <3>2
    <3>4. QED
      BY <1>a, <2>1, <2>4, <3>3 DEF SyncPop
  <2>5. QED
    BY <1>7, <2>2, <2>3, <2>4 DEF SampleSync, Materialize
<1>8. CASE UNCHANGED vars
  <2>1. UNCHANGED <<cfg, pc, prompts, rows, snap, local_trigger_step,
                    refill_credit, draining, global_steps>>
    BY <1>8 DEF vars, workerVars, stepVars, sampleVars
  <2>2. QED
    BY <2>1 DEF SyncPop, Sync, Size, SampleSize, Usable, Enough, Sampleable,
                Evicted, DapoFiltered, FailedEmpty, Finished, Failed,
                StaleTerminal, Span
<1>9. QED
  BY <1>1, <1>2, <1>3, <1>4, <1>5, <1>6, <1>7, <1>8
  DEF Next, Trainer, Sample, Ended

\* sample never waits for more groups than there are or will be dispatched; the
\* asynchronous buffer never holds more than its warmup batches (again for each
\* restart) and what this step has not taken.
THEOREM PopulationHolds == Spec => []Population
<1> DEFINE PInv == Core /\ Drained /\ SyncPop /\ AsyncPop
<1>1. Init => PInv
  <2>1. Init => Drained /\ SyncPop
    BY DEF Init, Drained, SyncPop, Empty
  <2>2. Init => AsyncPop
    <3>1. SUFFICES ASSUME Init PROVE AsyncPop
      OBVIOUS
    <3>2. /\ pc = "boot" /\ crashes = 0 /\ DOMAIN ckpt.prompts = {}
          /\ cfg \in Configs
      BY <3>1 DEF Init, Empty
    <3>3. PICK W \in Nat : W = Warm
      BY <3>2, SizeFacts
    <3>4. Cardinality(DOMAIN ckpt.prompts) = 0
      BY <3>2, FS_EmptySet
    <3>5. 0 <= W * 0 /\ 0 <= W * (0 + 1)
      BY <3>3
    <3>6. QED
      BY <3>2, <3>3, <3>4, <3>5 DEF AsyncPop
  <2>3. QED
    BY <2>1, <2>2, CoreInit
<1>2. PInv /\ [Next]_vars => PInv'
  BY CoreNext, DrainedNext, SyncPopNext, AsyncPopNext
<1>3. PInv => Population
  <2>1. SUFFICES ASSUME PInv, pc = "poll"
                 PROVE  Population
    BY DEF Population
  <2>2. CASE Sync
    <3>1. Left(0) = cfg.train_batch_size /\ local_trigger_step = 0
      BY <2>1, <2>2, SizeFacts DEF SyncPop, Core, Basic
    <3>2. Size + refill_credit >= Left(local_trigger_step)
      BY <2>1, <2>2, <3>1 DEF SyncPop
    <3>3. QED
      BY <2>2, <3>2 DEF Population, Size, Left
  <2>3. CASE ~Sync
    <3>1. /\ Warm + Left(local_trigger_step) <= Size
          /\ Size <= Warm * (crashes + 1) + Left(local_trigger_step)
      BY <2>1, <2>3 DEF AsyncPop
    <3>2. PICK a, b, c : /\ a \in Nat /\ a = Size
                         /\ b \in Nat /\ b = Warm
                         /\ c = Left(local_trigger_step)
      BY <2>1, SizeFacts, CountFacts DEF Size, Core, Basic
    <3>3. Size >= Warm + Left(local_trigger_step)
      BY <2>1, <2>3, <3>1, <3>2, SizeFacts DEF AsyncPop, Core, Basic
    <3>4. QED
      BY <2>3, <3>1, <3>3 DEF Population, Size, Left, Warm
  <2>4. QED
    BY <2>2, <2>3
<1> HIDE DEF PInv
<1>4. QED
  BY <1>1, <1>2, <1>3, PTL DEF Spec
=============================================================================
