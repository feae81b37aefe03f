------------------------ MODULE TeacherScoringProofs ------------------------
(***************************************************************************)
(* Proofs about TeacherScoring: its types, that the ranks stay in lockstep *)
(* through the teachers' forward passes, that every row is scored by its   *)
(* own teacher, and that updates compare the same candidates, for every    *)
(* number of ranks, teachers and rows and every configuration.             *)
(***************************************************************************)
EXTENDS TeacherScoring, FiniteSetTheorems, WellFoundedInduction, TLAPS

-----------------------------------------------------------------------------
(* Arithmetic and maxima *)

\* What rounding down means.
LEMMA DivFacts ==
  ASSUME NEW a \in Nat, NEW m \in Nat \ {0}
  PROVE  /\ a \div m \in Nat
         /\ m * (a \div m) <= a
         /\ a < m * (a \div m) + m
  BY Z3

\* A quotient is at most the dividend.
LEMMA DivSmall ==
  ASSUME NEW a \in Nat, NEW m \in Nat \ {0}
  PROVE  a \div m <= a
<1> DEFINE d == a \div m
<1>1. d \in Nat /\ m * d <= a
  BY DivFacts
<1>2. d <= m * d
  BY <1>1, Z3
<1> QED
  BY <1>1, <1>2

\* The micro batch of the p-th of c rows is among the first CeilDiv(c, m).
LEMMA PlaceBound ==
  ASSUME NEW p \in Nat, NEW c \in Nat, NEW m \in Nat \ {0}, p < c
  PROVE  p \div m < CeilDiv(c, m)
<1> DEFINE d == p \div m
           e == (c + m - 1) \div m
<1>1. d \in Nat /\ m * d <= p
  BY DivFacts
<1>2. e \in Nat /\ c + m - 1 < m * e + m
  BY DivFacts
<1>3. m * d < m * e
  <2>1. m * d \in Nat /\ m * e \in Nat
    BY <1>1, <1>2
  <2> QED
    BY <1>1, <1>2, <2>1
<1>4. d < e
  <2>1. SUFFICES ASSUME e <= d PROVE FALSE
    BY <1>1, <1>2
  <2>2. m * e <= m * d
    BY <1>1, <1>2, <2>1, Z3
  <2> QED
    BY <1>1, <1>2, <1>3, <2>2
<1> QED
  BY <1>4 DEF CeilDiv

\* A bounded set of natural numbers that is not empty has a largest element.
LEMMA MaxFacts ==
  ASSUME NEW S, S \subseteq Nat, S # {}, NEW b \in Nat, \A x \in S : x <= b
  PROVE  Max(S) \in S /\ \A x \in S : x <= Max(S)
<1> DEFINE U == {u \in Nat : \A x \in S : x <= u}
<1>1. PICK u \in U : \A v \in U : ~(<<v, u>> \in OpToRel(<, Nat))
  <2>1. U \subseteq Nat /\ U # {}
    OBVIOUS
  <2> QED
    BY <2>1, NatLessThanWellFounded, WFMin, Zenon
<1>2. \A v \in U : ~(v < u)
  BY <1>1 DEF OpToRel
<1>3. u \in S
  <2>1. CASE u = 0
    <3>1. PICK x \in S : x \in Nat
      OBVIOUS
    <3>2. x <= u
      OBVIOUS
    <3> QED
      BY <2>1, <3>1, <3>2
  <2>2. CASE u > 0
    <3>1. SUFFICES ASSUME u \notin S PROVE FALSE
      OBVIOUS
    <3>2. u - 1 \in U
      <4>1. \A x \in S : x # u /\ x <= u
        BY <3>1
      <4> QED
        BY <4>1, <2>2
    <3> QED
      BY <3>2, <1>2
  <2> QED
    BY <2>1, <2>2
<1>4. \E x \in S : \A y \in S : x >= y
  BY <1>3
<1> QED
  BY <1>4 DEF Max

-----------------------------------------------------------------------------
(* Facts about the job, which never changes *)

\* Types of a job's parts.
LEMMA JobFacts ==
  ASSUME job \in Jobs
  PROVE  /\ job.world \in Nat \ {0} /\ RowsPerRank \in Nat
         /\ job.micro_bs \in Nat \ {0}
         /\ job.teachers \in Seq(Names)
         /\ job.default_teacher \in Names \union {None}
         /\ job.ppo_epochs \in Nat \ {0} /\ job.mini_batches \in Nat \ {0}
         /\ job.log_prob_top_k \in Nat /\ job.metric_top_k \in Nat
         /\ \A a \in DOMAIN job.ability_to_teacher :
              job.ability_to_teacher[a] \in Names
<1>1. job \in Job
  BY TeacherAssumption
<1>2. job.world \in Nat \ {0} /\ Len(job.abilities) \in Nat
  BY <1>1 DEF Job
<1>3. RowsPerRank \in Nat
  BY <1>2, DivFacts DEF RowsPerRank
<1>4. job.ability_to_teacher \in UNION {[A -> Names] : A \in SUBSET Abilities}
  BY <1>1 DEF Job
<1>5. \A a \in DOMAIN job.ability_to_teacher : job.ability_to_teacher[a] \in Names
  BY <1>4
<1> QED
  BY <1>1, <1>2, <1>3, <1>5 DEF Job

\* Every route is a name.
LEMMA RouteType ==
  ASSUME job \in Jobs
  PROVE  /\ Default \in Names /\ Modules \subseteq Names
         /\ \A r, i : RouteOf(r, i) \in Names
<1>1. Configured \subseteq Names
  BY JobFacts DEF Configured
<1>2. Default \in Names
  BY JobFacts, TeacherAssumption DEF Default
<1> QED
  BY <1>1, <1>2, JobFacts DEF Modules, RouteOf, Known

\* The micro batches of a teacher on all ranks
N(a) == Max({LocalCount(q, a) : q \in Ranks})

\* A rank's count of micro batches is at most the common one.
LEMMA CountFacts ==
  ASSUME job \in Jobs, NEW a
  PROVE  /\ N(a) \in Nat
         /\ \A q \in Ranks : LocalCount(q, a) \in Nat /\ LocalCount(q, a) <= N(a)
<1> DEFINE b == RowsPerRank + job.micro_bs
           S == {LocalCount(q, a) : q \in Ranks}
<1> USE JobFacts
<1>1. b \in Nat
  OBVIOUS
<1>2. \A q \in Ranks : LocalCount(q, a) \in Nat /\ LocalCount(q, a) <= b
  <2>1. SUFFICES ASSUME NEW q \in Ranks
                 PROVE  LocalCount(q, a) \in Nat /\ LocalCount(q, a) <= b
    OBVIOUS
  <2> DEFINE c == Cardinality(RowsOf(q, a))
  <2>2. c \in Nat /\ c <= RowsPerRank
    <3>1. IsFiniteSet(Rows) /\ Cardinality(Rows) = RowsPerRank
      BY FS_Interval DEF Rows
    <3>2. RowsOf(q, a) \subseteq Rows
      BY DEF RowsOf
    <3> QED
      BY <3>1, <3>2, FS_Subset, FS_CardinalityType
  <2>3. c + job.micro_bs - 1 \in Nat
    BY <2>2
  <2>4. CeilDiv(c, job.micro_bs) \in Nat
        /\ CeilDiv(c, job.micro_bs) <= c + job.micro_bs - 1
    BY <2>3, DivFacts, DivSmall DEF CeilDiv
  <2> QED
    BY <2>2, <2>4, <1>1 DEF LocalCount
<1>3. S \subseteq Nat /\ (\A x \in S : x <= b)
  BY <1>2
<1>4. S # {}
  <2>1. 1 \in Ranks
    BY DEF Ranks
  <2> QED
    BY <2>1
<1>5. Max(S) \in S /\ \A x \in S : x <= Max(S)
  <2> HIDE DEF S
  <2> QED
    BY <1>1, <1>3, <1>4, MaxFacts
<1> QED
  BY <1>2, <1>3, <1>5 DEF N

\* The micro batch that a row falls into
Slot(r, i) == Place(r, i) \div job.micro_bs

\* Every row of a teacher falls into one of its micro batches.
LEMMA SlotFacts ==
  ASSUME job \in Jobs, NEW r \in Ranks, NEW i \in Rows,
         RouteOf(r, i) \in Modules
  PROVE  Slot(r, i) \in Nat /\ Slot(r, i) < N(RouteOf(r, i))
<1> DEFINE A == RowsOf(r, RouteOf(r, i))
           B == {k \in A : k < i}
<1> USE JobFacts
<1>1. IsFiniteSet(A)
  <2>1. IsFiniteSet(Rows)
    BY FS_Interval DEF Rows
  <2> QED
    BY <2>1, FS_Subset DEF RowsOf
<1>2. i \in A /\ i \notin B /\ B \subseteq A
  BY DEF RowsOf, Rows
<1>3. /\ Cardinality(A) \in Nat /\ Cardinality(B) \in Nat
      /\ Cardinality(B) < Cardinality(A)
  BY <1>1, <1>2, FS_Subset, FS_CardinalityType
<1>4. Cardinality(B) \div job.micro_bs < CeilDiv(Cardinality(A), job.micro_bs)
  BY <1>3, PlaceBound
<1>5. Cardinality(B) \div job.micro_bs \in Nat
  BY <1>3, DivFacts
<1>6. /\ Slot(r, i) = Cardinality(B) \div job.micro_bs
      /\ LocalCount(r, RouteOf(r, i)) = CeilDiv(Cardinality(A), job.micro_bs)
  BY DEF Slot, Place, LocalCount
<1> QED
  BY <1>4, <1>5, <1>6, CountFacts

-----------------------------------------------------------------------------
(* The inductive invariant *)

\* Rank r has done the forward pass for micro batch s of teacher a.
Past(r, a, s) == a < teacher[r] \/ (a = teacher[r] /\ s < step[r])

\* Micro batch s of teacher a is the next one that rank q takes part in.
NextSlot(q, a, s) ==
  /\ ~Past(q, a, s)
  /\ \A b \in Names, u \in Nat :
       u < N(b) /\ (b < a \/ (b = a /\ u < s)) => Past(q, b, u)

\* Ranks know the common counts once they have reduced them.
PhaseInv ==
  \A r \in Ranks :
    /\ phase[r] \in {"forward", "failed", "done"} => n_micro[r] = Reduced(r)
    /\ phase[r] \notin {"forward", "failed", "done"} =>
         teacher[r] = 1 /\ step[r] = 0 /\ forwards[r] = <<>>
    /\ phase[r] = "done" => teacher[r] = NumTeachers + 1

\* Ranks with as many forward passes have made the same ones ...
SameInv ==
  \A q, r \in Ranks : Len(forwards[q]) = Len(forwards[r]) =>
    /\ forwards[q] = forwards[r]
    /\ \A a \in Names, s \in Nat : s < N(a) => (Past(q, a, s) <=> Past(r, a, s))

\* ... and otherwise one is ahead by the pass the other makes next.
AheadBy(q, r, a, s) ==
  /\ s < N(a) /\ NextSlot(q, a, s)
  /\ forwards[r] = Append(forwards[q], a)
  /\ \A b \in Names, u \in Nat : u < N(b) =>
       (Past(r, b, u) <=> Past(q, b, u) \/ (b = a /\ u = s))
AheadInv ==
  \A q, r \in Ranks : Len(forwards[q]) < Len(forwards[r]) =>
    \E a \in Names, s \in Nat : AheadBy(q, r, a, s)

\* The rows whose micro batch is done hold their teacher's score.
RowInv(r, i) ==
  scored[r][i] = IF RouteOf(r, i) \in Modules /\ Past(r, RouteOf(r, i), Slot(r, i))
                   THEN RouteOf(r, i) ELSE Unset
ScoreInv == \A r \in Ranks : \A i \in Rows : RowInv(r, i)

\* Work starts after the configuration was accepted.
ConfigInv ==
  /\ status \notin {"begin", "rejected"} => TeacherConfigValid /\ TopKConfigValid
  /\ status \in {"begin", "rollout", "rejected"} =>
       \A r \in Ranks : phase[r] = "idle"

\* Candidates are those of the rollout until the first update.
RewardInv ==
  /\ top_k \in {Sampled, TopKAt(0)}
  /\ status \in {"begin", "rollout", "score", "advantage"} => weights = 0
  /\ status \in {"advantage", "update"} =>
       over = IF TopKIsReward THEN top_k ELSE Sampled

RankInv == PhaseInv /\ SameInv /\ AheadInv /\ ScoreInv
IInv == job \in Jobs /\ TypeOK /\ RankInv /\ ConfigInv /\ RewardInv
        /\ CandidatesMatch

\* Nothing that is derived from the job changes.
LEMMA JobOps ==
  ASSUME job' = job
  PROVE  /\ Ranks' = Ranks /\ Rows' = Rows /\ Modules' = Modules
         /\ TeacherConfigValid' = TeacherConfigValid
         /\ TopKConfigValid' = TopKConfigValid /\ TopKIsReward' = TopKIsReward
         /\ Updates' = Updates
         /\ \A a : N(a)' = N(a)
         /\ \A r : Reduced(r)' = Reduced(r)
         /\ \A r, i : RouteOf(r, i)' = RouteOf(r, i) /\ Slot(r, i)' = Slot(r, i)
<1>1. /\ Ranks' = Ranks /\ RowsPerRank' = RowsPerRank
      /\ Configured' = Configured /\ Default' = Default
  BY DEF Ranks, RowsPerRank, Configured, Default
<1>2. Rows' = Rows /\ Modules' = Modules
  BY <1>1 DEF Rows, Modules
<1>3. \A r, i : Known(r, i)' = Known(r, i) /\ RouteOf(r, i)' = RouteOf(r, i)
  BY <1>1 DEF Known, RouteOf, AbilityOf
<1>4. \A r, a : RowsOf(r, a)' = RowsOf(r, a)
  BY <1>2, <1>3 DEF RowsOf
<1>5. \A r, i : Slot(r, i)' = Slot(r, i)
  BY <1>3, <1>4 DEF Slot, Place
<1>6. \A r, a : LocalCount(r, a)' = LocalCount(r, a)
  BY <1>2, <1>4 DEF LocalCount, CeilDiv
<1>7. \A a : N(a)' = N(a)
  BY <1>1, <1>6 DEF N
<1>8. \A r : Reduced(r)' = Reduced(r)
  BY <1>1, <1>6 DEF Reduced
<1>9. TeacherConfigValid' = TeacherConfigValid
  BY <1>1 DEF TeacherConfigValid
<1>10. /\ TopKConfigValid' = TopKConfigValid /\ TopKIsReward' = TopKIsReward
       /\ Updates' = Updates
  BY DEF TopKConfigValid, TopKIsReward, Updates
<1> QED
  BY <1>1, <1>2, <1>3, <1>5, <1>7, <1>8, <1>9, <1>10

\* A rank that has reduced has the common counts.
LEMMA ReducedIs ==
  ASSUME NEW r, NEW a \in Names PROVE Reduced(r)[a] = N(a)
  BY DEF Reduced, N

\* A name without a module has no micro batches.
LEMMA UnbuiltCount ==
  ASSUME job \in Jobs, NEW a \in Names, N(a) > 0 PROVE a \in Modules
<1>1. SUFFICES ASSUME a \notin Modules PROVE FALSE
  OBVIOUS
<1>2. 1 \in Ranks
  BY JobFacts DEF Ranks
<1>3. {LocalCount(q, a) : q \in Ranks} = {0}
  BY <1>1, <1>2 DEF LocalCount
<1>4. N(a) = Max({0})
  BY <1>3 DEF N
<1>5. Max({0}) \in {0}
  BY MaxFacts
<1> QED
  BY <1>4, <1>5

\* Only ability_to_teacher without teachers routes to a name without a module.
LEMMA Unbuilt ==
  ASSUME job \in Jobs, TeacherConfigValid, NEW r, NEW i,
         RouteOf(r, i) \notin Modules
  PROVE  job.teachers = <<>> /\ Known(r, i)
<1> USE JobFacts
<1>1. CASE job.teachers = <<>>
  <2>1. Configured = {}
    BY <1>1 DEF Configured
  <2>2. Default \in Modules
    BY <2>1 DEF Modules
  <2> QED
    BY <1>1, <2>2 DEF RouteOf
<1>2. CASE job.teachers # <<>>
  <2>1. 1 \in DOMAIN job.teachers
    BY <1>2
  <2>2. job.teachers[1] \in Configured
    BY <2>1 DEF Configured
  <2>3. Default \in Configured
    BY <1>2, <2>2 DEF Default, TeacherConfigValid
  <2>4. RouteOf(r, i) \in Configured
    BY <2>2, <2>3 DEF RouteOf, Known, TeacherConfigValid
  <2> QED
    BY <2>2, <2>4 DEF Modules
<1> QED
  BY <1>1, <1>2

-----------------------------------------------------------------------------
(* Every action preserves it *)

\* Before the step nothing has been counted, scored or updated.
LEMMA InitIInv == Init => IInv
<1> SUFFICES ASSUME Init PROVE IInv
  OBVIOUS
<1> USE DEF Init
<1>1. job \in Jobs /\ TypeOK
  BY JobFacts, TeacherAssumption
  DEF TypeOK, Names, Sources, Unset, Sampled, Ranks
<1>2. PhaseInv
  BY DEF PhaseInv
<1>3. SameInv
  BY DEF SameInv, Past
<1>4. AheadInv
  BY DEF AheadInv
<1>5. ScoreInv
  <2>1. \A r \in Ranks, i \in Rows : ~Past(r, RouteOf(r, i), Slot(r, i))
                                      \/ RouteOf(r, i) \notin Modules
    <3>1. SUFFICES ASSUME NEW r \in Ranks, NEW i \in Rows, RouteOf(r, i) \in Modules
                   PROVE  ~Past(r, RouteOf(r, i), Slot(r, i))
      OBVIOUS
    <3>2. RouteOf(r, i) \in Names /\ Slot(r, i) \in Nat
      BY <1>1, <3>1, RouteType, SlotFacts
    <3> QED
      BY <3>2, TeacherAssumption DEF Past, Names
  <2> QED
    BY <2>1 DEF ScoreInv, RowInv
<1>6. ConfigInv /\ RewardInv /\ CandidatesMatch
  BY DEF ConfigInv, RewardInv, CandidatesMatch
<1> QED
  BY <1>1, <1>2, <1>3, <1>4, <1>5, <1>6 DEF IInv, RankInv

\* What the trainer does leaves the ranks alone.
LEMMA RanksStill ==
  ASSUME RankInv, UNCHANGED <<job, rankVars>> PROVE RankInv'
<1> USE JobOps DEF rankVars
<1>1. /\ \A r, a, u : Past(r, a, u)' = Past(r, a, u)
      /\ \A q, a, u : NextSlot(q, a, u)' = NextSlot(q, a, u)
  BY DEF Past, NextSlot
<1>2. PhaseInv' /\ SameInv'
  BY <1>1 DEF RankInv, PhaseInv, SameInv
<1>3. AheadInv'
  BY <1>1 DEF RankInv, AheadInv, AheadBy
<1>4. ScoreInv'
  BY <1>1 DEF RankInv, ScoreInv, RowInv
<1> QED
  BY <1>2, <1>3, <1>4 DEF RankInv

\* The trainer's actions
LEMMA TrainerIInv ==
  ASSUME IInv, Trainer PROVE IInv'
<1>1. job' = job /\ UNCHANGED rankVars
  BY DEF Trainer, Configure, ComputeOldLogProb, InstallReward,
         ComputeAdvantage, UpdateActor, EndStep
<1>2. job' \in Jobs /\ RankInv'
  BY <1>1, RanksStill DEF IInv
<1> USE <1>1, JobOps, JobFacts DEF IInv, rankVars
<1>3. /\ Ranks' = Ranks /\ Rows' = Rows
  OBVIOUS
<1>4. CASE Configure
  <2>1. TypeOK'
    BY <1>3, <1>4 DEF Configure, TypeOK, batchVars, actorVars
  <2>2. ConfigInv' /\ RewardInv' /\ CandidatesMatch'
    BY <1>3, <1>4 DEF Configure, ConfigInv, RewardInv, CandidatesMatch, batchVars,
       actorVars
  <2> QED
    BY <1>2, <2>1, <2>2
<1>5. CASE ComputeOldLogProb
  <2>1. TypeOK'
    BY <1>3, <1>5
    DEF ComputeOldLogProb, TypeOK, actorVars, Sources, Sampled, TopKAt
  <2>2. ConfigInv' /\ RewardInv' /\ CandidatesMatch'
    BY <1>3, <1>5 DEF ComputeOldLogProb, ConfigInv, RewardInv, CandidatesMatch,
       actorVars
  <2> QED
    BY <1>2, <2>1, <2>2
<1>6. CASE InstallReward
  <2>1. TypeOK'
    <3>1. /\ over' \in Nat /\ UNCHANGED <<top_k, advantage, weights, compared>>
          /\ token_level_scores' \in Sources /\ true_token_level_scores' \in Sources
      BY <1>6 DEF InstallReward, TypeOK, actorVars, Sources, Sampled
    <3>2. status' \in {"advantage", "error"}
      BY <1>6 DEF InstallReward
    <3> QED
      BY <1>3, <3>1, <3>2 DEF TypeOK
  <2>2. ConfigInv' /\ RewardInv' /\ CandidatesMatch'
    BY <1>3, <1>6 DEF InstallReward, ConfigInv, RewardInv, CandidatesMatch,
       actorVars
  <2> QED
    BY <1>2, <2>1, <2>2
<1>7. CASE ComputeAdvantage
  <2>1. TypeOK'
    BY <1>3, <1>7
    DEF ComputeAdvantage, TypeOK, actorVars, Sources, RewardsForGrpo, AdvKwargs
  <2>2. ConfigInv' /\ RewardInv' /\ CandidatesMatch'
    BY <1>3, <1>7 DEF ComputeAdvantage, ConfigInv, RewardInv, CandidatesMatch,
       actorVars
  <2> QED
    BY <1>2, <2>1, <2>2
<1>8. CASE UpdateActor
  <2>1. TypeOK'
    <3>1. weights' \in Nat /\ compared' \subseteq [advantage : Nat, log_prob : Nat]
      BY <1>8 DEF UpdateActor, TypeOK, actorVars, Sampled, TopKAt
    <3>2. UNCHANGED batchVars /\ status' \in {status, "error"}
      BY <1>8 DEF UpdateActor
    <3> QED
      BY <1>3, <3>1, <3>2 DEF TypeOK, batchVars
  <2>2. ConfigInv' /\ RewardInv'
    BY <1>3, <1>8 DEF UpdateActor, ConfigInv, RewardInv, batchVars, actorVars
  <2>3. CandidatesMatch'
    <3>1. CASE TopKIsReward
      <4>1. Updates = 1
        BY <1>8, <3>1 DEF UpdateActor, ConfigInv, TopKConfigValid, Updates
      <4>2. weights = 0
        BY <1>8, <4>1 DEF UpdateActor, TypeOK
      <4> QED
        BY <1>8, <3>1, <4>2
        DEF UpdateActor, RewardInv, CandidatesMatch, actorVars
    <3>2. CASE ~TopKIsReward
      BY <1>8, <3>2 DEF UpdateActor, RewardInv, CandidatesMatch
    <3> QED
      BY <3>1, <3>2
  <2> QED
    BY <1>2, <2>1, <2>2, <2>3
<1>9. CASE EndStep
  <2>1. TypeOK'
    BY <1>3, <1>9 DEF EndStep, TypeOK, batchVars, actorVars
  <2>2. ConfigInv' /\ RewardInv' /\ CandidatesMatch'
    BY <1>3, <1>9 DEF EndStep, ConfigInv, RewardInv, CandidatesMatch, batchVars,
       actorVars
  <2> QED
    BY <1>2, <2>1, <2>2
<1> QED
  BY <1>4, <1>5, <1>6, <1>7, <1>8, <1>9 DEF Trainer

\* What the ranks do leaves the trainer alone.
LEMMA TrainerStill ==
  ASSUME IInv, job' = job, UNCHANGED <<status, batchVars, actorVars>>,
         status = "score"
  PROVE  job' \in Jobs /\ ConfigInv' /\ RewardInv' /\ CandidatesMatch'
  BY JobOps DEF IInv, ConfigInv, RewardInv, CandidatesMatch, batchVars, actorVars

\* Routing and reducing leave the loop variables alone.
LEMMA RouteIInv ==
  ASSUME IInv, NEW r \in Ranks, Route(r) PROVE IInv'
<1> USE JobOps DEF Route, IInv, RankInv
<1>1. TypeOK'
  BY DEF TypeOK, batchVars, actorVars
<1>2. PhaseInv'
  BY DEF PhaseInv, TypeOK
<1>3. /\ \A q, a, u : Past(q, a, u)' = Past(q, a, u)
      /\ \A q, a, u : NextSlot(q, a, u)' = NextSlot(q, a, u)
  BY DEF Past, NextSlot
<1>4. SameInv' /\ AheadInv'
  BY <1>3 DEF SameInv, AheadInv, AheadBy
<1>5. ScoreInv'
  BY <1>3 DEF ScoreInv, RowInv
<1> QED
  BY <1>1, <1>2, <1>4, <1>5, TrainerStill

\* The all_reduce gives every rank the same counts.
LEMMA ReduceIInv ==
  ASSUME IInv, NEW r \in Ranks, Reduce(r) PROVE IInv'
<1> USE JobOps DEF Reduce, IInv, RankInv
<1>1. Reduced(r) \in [Names -> Nat]
  BY CountFacts DEF Reduced, N
<1>2. teacher[r] = 1 /\ step[r] = 0
  BY DEF PhaseInv
<1>3. TypeOK'
  <2>1. /\ phase' \in [Ranks -> {"idle", "raised", "counted", "forward",
                               "failed", "done"}]
        /\ n_micro' \in [Ranks -> [Names -> Nat]]
    BY <1>1 DEF TypeOK
  <2>2. \A q \in Ranks :
          step[q] <= IF teacher[q] \in Names THEN n_micro'[q][teacher[q]] ELSE 0
    BY <1>1, <1>2 DEF TypeOK
  <2> QED
    BY <2>1, <2>2 DEF TypeOK, batchVars, actorVars
<1>4. PhaseInv'
  BY DEF PhaseInv, TypeOK
<1>5. /\ \A q, a, u : Past(q, a, u)' = Past(q, a, u)
      /\ \A q, a, u : NextSlot(q, a, u)' = NextSlot(q, a, u)
  BY DEF Past, NextSlot
<1>6. SameInv' /\ AheadInv'
  BY <1>5 DEF SameInv, AheadInv, AheadBy
<1>7. ScoreInv'
  BY <1>5 DEF ScoreInv, RowInv
<1> QED
  BY <1>3, <1>4, <1>6, <1>7, TrainerStill

\* A rank that returns has passed all micro batches of all teachers.
LEMMA ReturnIInv ==
  ASSUME IInv, NEW r \in Ranks, Return(r) PROVE IInv'
<1> USE JobOps DEF Return, IInv, RankInv
<1>1. TypeOK'
  BY DEF TypeOK, batchVars, actorVars
<1>2. teacher[r] = NumTeachers + 1
  <2>1. teacher[r] \in 1 .. NumTeachers + 1 /\ NumTeachers \in Nat
    BY TeacherAssumption DEF TypeOK
  <2>2. teacher[r] \notin 1 .. NumTeachers
    BY DEF Names
  <2> QED
    BY <2>1, <2>2
<1>3. PhaseInv'
  BY <1>2 DEF PhaseInv, TypeOK
<1>4. /\ \A q, a, u : Past(q, a, u)' = Past(q, a, u)
      /\ \A q, a, u : NextSlot(q, a, u)' = NextSlot(q, a, u)
  BY DEF Past, NextSlot
<1>5. SameInv' /\ AheadInv'
  BY <1>4 DEF SameInv, AheadInv, AheadBy
<1>6. ScoreInv'
  BY <1>4 DEF ScoreInv, RowInv
<1> QED
  BY <1>1, <1>3, <1>5, <1>6, TrainerStill

\* Going on to the next teacher passes no micro batch.
LEMMA NextTeacherIInv ==
  ASSUME IInv, NEW r \in Ranks, NextTeacher(r) PROVE IInv'
<1> USE JobOps DEF NextTeacher, IInv, RankInv
<1>1. teacher[r] \in Names /\ step[r] = N(teacher[r]) /\ N(teacher[r]) \in Nat
  BY ReducedIs, CountFacts DEF PhaseInv
<1>2. TypeOK'
  <2>1. teacher' \in [Ranks -> 1 .. NumTeachers + 1] /\ step' \in [Ranks -> Nat]
    BY <1>1, TeacherAssumption DEF TypeOK, Names
  <2>2. \A q \in Ranks :
          step'[q] <= IF teacher'[q] \in Names THEN n_micro[q][teacher'[q]] ELSE 0
    <3>1. CASE teacher'[r] \in Names
      <4>1. n_micro[r][teacher'[r]] \in Nat
        BY <3>1 DEF TypeOK
      <4> QED
        BY <3>1, <4>1 DEF TypeOK
    <3>2. CASE teacher'[r] \notin Names
      BY <3>2 DEF TypeOK
    <3> QED
      BY <3>1, <3>2
  <2> QED
    BY <2>1, <2>2 DEF TypeOK, batchVars, actorVars
<1>3. PhaseInv'
  BY DEF PhaseInv, TypeOK
<1>4. \A q \in Ranks, a \in Names, u \in Nat :
        u < N(a) => (Past(q, a, u)' <=> Past(q, a, u))
  <2>1. SUFFICES ASSUME NEW q \in Ranks, NEW a \in Names, NEW u \in Nat, u < N(a)
                 PROVE  Past(q, a, u)' <=> Past(q, a, u)
    OBVIOUS
  <2>2. CASE q = r
    <3>1. teacher'[r] = teacher[r] + 1 /\ step'[r] = 0
      BY DEF TypeOK
    <3> QED
      BY <1>1, <2>1, <2>2, <3>1 DEF Past, Names
  <2>3. CASE q # r
    BY <2>3 DEF Past, TypeOK
  <2> QED
    BY <2>2, <2>3
<1>5. SameInv'
  BY <1>4 DEF SameInv
<1>6. AheadInv'
  <2>1. SUFFICES ASSUME NEW p \in Ranks, NEW q \in Ranks,
                        Len(forwards[p]) < Len(forwards[q])
                 PROVE  \E a \in Names, s \in Nat : AheadBy(p, q, a, s)'
    BY DEF AheadInv
  <2>2. PICK a \in Names, s \in Nat : AheadBy(p, q, a, s)
    BY <2>1 DEF AheadInv
  <2>3. NextSlot(p, a, s)'
    BY <1>4, <2>2 DEF AheadBy, NextSlot
  <2>4. AheadBy(p, q, a, s)'
    BY <1>4, <2>2, <2>3 DEF AheadBy
  <2> QED
    BY <2>4
<1>7. ScoreInv'
  <2>1. SUFFICES ASSUME NEW q \in Ranks, NEW i \in Rows PROVE RowInv(q, i)'
    BY DEF ScoreInv
  <2>2. RowInv(q, i)
    BY DEF ScoreInv
  <2>3. RouteOf(q, i) \in Modules =>
          (Past(q, RouteOf(q, i), Slot(q, i))' <=> Past(q, RouteOf(q, i), Slot(q, i)))
    BY <1>4, RouteType, SlotFacts
  <2> QED
    BY <2>2, <2>3 DEF RowInv
<1> QED
  BY <1>2, <1>3, <1>5, <1>6, <1>7, TrainerStill

\* A forward pass: all ranks are in the same one, so that they stay in step
\* and the parameters that are gathered are one teacher's.
LEMMA ForwardIInv ==
  ASSUME IInv, NEW r \in Ranks, Forward(r) PROVE IInv'
<1> DEFINE t == teacher[r]
           v == step[r]
<1> USE JobOps DEF IInv, RankInv
<1>1. /\ job' = job /\ status = "score" /\ UNCHANGED <<status, batchVars, actorVars>>
      /\ UNCHANGED <<phase, n_micro, teacher>>
      /\ forwards' = [forwards EXCEPT ![r] = Append(@, t)]
      /\ step' = [step EXCEPT ![r] = @ + 1]
      /\ scored' = [scored EXCEPT ![r] =
            [i \in Rows |-> IF Scatter(r, i) THEN Gathered(r) ELSE @[i]]]
      /\ \A q \in Ranks : Arrived(q, Len(forwards[r]) + 1)
  BY DEF Forward
<1>2. /\ \A q \in Ranks : InForward(q) =>
           teacher[q] \in Names /\ step[q] < N(teacher[q])
      /\ InForward(r)
  BY ReducedIs DEF InForward, PhaseInv, Forward
<1>3. t \in Names /\ v \in Nat /\ v < N(t) /\ N(t) \in Nat
  BY <1>2, CountFacts DEF TypeOK
<1>4. /\ teacher \in [Ranks -> Nat] /\ step \in [Ranks -> Nat] /\ Names \subseteq Nat
      /\ forwards \in [Ranks -> Seq(Names)]
  BY TeacherAssumption DEF TypeOK, Names
<1>5. /\ \A q \in Ranks, a \in Names, u \in Nat :
           q # r => (Past(q, a, u)' <=> Past(q, a, u))
      /\ \A a \in Names, u \in Nat :
           Past(r, a, u)' <=> Past(r, a, u) \/ (a = t /\ u = v)
  <2>1. step'[r] = v + 1 /\ \A q \in Ranks : q # r => step'[q] = step[q]
    BY <1>1, <1>4
  <2> QED
    BY <1>1, <1>3, <1>4, <2>1 DEF Past
<1>6. NextSlot(r, t, v)
  BY <1>3, <1>4 DEF NextSlot, Past
<1>7. /\ forwards'[r] = Append(forwards[r], t)
      /\ Len(forwards'[r]) = Len(forwards[r]) + 1
      /\ \A q \in Ranks : q # r => forwards'[q] = forwards[q]
      /\ \A q \in Ranks : Len(forwards[q]) \in Nat
  BY <1>1, <1>3, <1>4
\* A rank with as many passes is in the same one ...
<1>8. ASSUME NEW q \in Ranks, Len(forwards[q]) = Len(forwards[r])
      PROVE  teacher[q] = t /\ NextSlot(q, t, v)
  <2>1. InForward(q)
    BY <1>1, <1>7, <1>8 DEF Arrived
  <2>2. \A a \in Names, u \in Nat : u < N(a) => (Past(q, a, u) <=> Past(r, a, u))
    BY <1>8 DEF SameInv
  <2>3. teacher[q] \in Names /\ step[q] \in Nat /\ step[q] < N(teacher[q])
    BY <1>2, <1>4, <2>1
  <2>4. ~Past(q, teacher[q], step[q]) /\ ~Past(r, t, v)
    BY <1>3, <1>4, <2>3 DEF Past
  <2>5. ~Past(r, teacher[q], step[q]) /\ ~Past(q, t, v)
    BY <1>3, <2>2, <2>3, <2>4
  <2>6. teacher[q] = t
    BY <1>3, <1>4, <2>3, <2>5 DEF Past
  <2> QED
    BY <1>3, <1>6, <2>2, <2>6 DEF NextSlot
\* ... and one with more passes has just left it.
<1>9. ASSUME NEW q \in Ranks, Len(forwards[q]) > Len(forwards[r])
      PROVE  AheadBy(r, q, t, v)
  <2>1. PICK a \in Names, u \in Nat : AheadBy(r, q, a, u)
    BY <1>7, <1>9 DEF AheadInv
  <2>2. ~Past(r, a, u) /\ u < N(a)
    BY <2>1 DEF AheadBy, NextSlot
  <2>3. ~(a < t \/ (a = t /\ u < v))
    BY <2>2 DEF Past
  <2>4. ~(t < a \/ (t = a /\ v < u))
    <3>1. ~Past(r, t, v)
      BY <1>6 DEF NextSlot
    <3> QED
      BY <1>3, <2>1, <3>1 DEF AheadBy, NextSlot
  <2>5. a = t /\ u = v
    BY <1>3, <1>4, <2>3, <2>4
  <2> QED
    BY <2>1, <2>5
<1>10. \A q \in Ranks : Len(forwards[q]) >= Len(forwards[r])
  BY <1>1, <1>7 DEF Arrived
<1>11. SameInv'
  <2>1. SUFFICES ASSUME NEW p \in Ranks, NEW q \in Ranks,
                        Len(forwards'[p]) = Len(forwards'[q])
                 PROVE  /\ forwards'[p] = forwards'[q]
                        /\ \A a \in Names, u \in Nat :
                             u < N(a) => (Past(p, a, u)' <=> Past(q, a, u)')
    BY <1>1 DEF SameInv
  <2>2. CASE p # r /\ q # r
    BY <1>5, <1>7, <2>1, <2>2 DEF SameInv
  <2>3. CASE p = r /\ q = r
    BY <2>3
  <2>4. ASSUME NEW x \in Ranks, x # r, Len(forwards'[x]) = Len(forwards'[r])
        PROVE  /\ forwards'[x] = forwards'[r]
               /\ \A a \in Names, u \in Nat :
                    u < N(a) => (Past(x, a, u)' <=> Past(r, a, u)')
    <3>1. AheadBy(r, x, t, v)
      BY <1>7, <1>9, <2>4
    <3> QED
      BY <1>5, <1>7, <2>4, <3>1 DEF AheadBy
  <2> QED
    BY <2>1, <2>2, <2>3, <2>4
<1>12. AheadInv'
  <2>1. SUFFICES ASSUME NEW p \in Ranks, NEW q \in Ranks,
                        Len(forwards'[p]) < Len(forwards'[q])
                 PROVE  \E a \in Names, u \in Nat : AheadBy(p, q, a, u)'
    BY <1>1 DEF AheadInv
  <2>2. CASE p # r /\ q # r
    <3>1. PICK a \in Names, u \in Nat : AheadBy(p, q, a, u)
      BY <1>7, <2>1, <2>2 DEF AheadInv
    <3>2. NextSlot(p, a, u)'
      BY <1>1, <1>5, <2>2, <3>1 DEF AheadBy, NextSlot
    <3>3. AheadBy(p, q, a, u)'
      BY <1>1, <1>5, <1>7, <2>2, <3>1, <3>2 DEF AheadBy
    <3> QED
      BY <3>3
  <2>3. CASE p # r /\ q = r
    <3>1. Len(forwards[p]) = Len(forwards[r])
      BY <1>7, <1>10, <2>1, <2>3
    <3>2. PICK a \in Names, u \in Nat : a = t /\ u = v
      BY <1>3
    <3>3. NextSlot(p, a, u)
      BY <1>8, <3>1, <3>2
    <3>4. NextSlot(p, a, u)'
      BY <1>1, <1>5, <2>3, <3>3 DEF NextSlot
    <3>5. /\ forwards[p] = forwards[r]
          /\ \A b \in Names, w \in Nat : w < N(b) => (Past(p, b, w) <=> Past(r, b, w))
      BY <3>1 DEF SameInv
    <3>6. \A b \in Names, w \in Nat : w < N(b) =>
            (Past(r, b, w)' <=> Past(p, b, w)' \/ (b = a /\ w = u))
      BY <1>5, <2>3, <3>2, <3>5
    <3>7. forwards'[r] = Append(forwards'[p], a)
      BY <1>7, <2>3, <3>2, <3>5
    <3>8. AheadBy(p, q, a, u)'
      BY <1>1, <1>3, <2>3, <3>2, <3>4, <3>6, <3>7 DEF AheadBy
    <3> QED
      BY <3>8
  <2>4. CASE p = r
    <3>1. q # r
      BY <2>1, <2>4, <1>7
    <3>2. AheadBy(r, q, t, v)
      BY <1>7, <1>9, <2>1, <2>4, <3>1
    <3>3. Len(forwards[q]) = Len(forwards[r]) + 1
      BY <1>3, <1>4, <3>2 DEF AheadBy
    <3> QED
      BY <1>7, <2>1, <2>4, <3>1, <3>3
  <2> QED
    BY <2>2, <2>3, <2>4
<1>13. Gathered(r) = t
  <2>1. ASSUME NEW q \in Ranks PROVE Called(q, Len(forwards[r]) + 1) = t
    <3>1. CASE Len(forwards[q]) = Len(forwards[r])
      BY <1>7, <1>8, <3>1 DEF Called
    <3>2. CASE Len(forwards[q]) > Len(forwards[r])
      <4>1. forwards[q] = Append(forwards[r], t)
        BY <1>9, <3>2 DEF AheadBy
      <4> QED
        BY <1>3, <1>4, <4>1 DEF Called
    <3> QED
      BY <1>7, <1>10, <3>1, <3>2
  <2> QED
    BY <2>1 DEF Gathered
<1>14. ScoreInv'
  <2>1. SUFFICES ASSUME NEW q \in Ranks, NEW i \in Rows PROVE RowInv(q, i)'
    BY <1>1 DEF ScoreInv
  <2>2. RowInv(q, i)
    BY DEF ScoreInv
  <2>3. RouteOf(q, i) \in Names /\ (RouteOf(q, i) \in Modules => Slot(q, i) \in Nat)
    BY RouteType, SlotFacts
  <2>4. CASE q # r
    <3>1. scored'[q] = scored[q]
      BY <1>1, <2>4 DEF TypeOK
    <3>2. RouteOf(q, i) \in Modules =>
            (Past(q, RouteOf(q, i), Slot(q, i))' <=> Past(q, RouteOf(q, i), Slot(q, i)))
      BY <1>1, <1>5, <2>3, <2>4
    <3> QED
      BY <1>1, <2>2, <3>1, <3>2 DEF RowInv
  <2>5. CASE q = r
    <3>1. scored'[r][i] = IF RouteOf(r, i) = t /\ Slot(r, i) = v THEN t
                                                                  ELSE scored[r][i]
      BY <1>1, <1>13, <2>5 DEF Scatter, Micro, RowsOf, Slot, TypeOK
    <3>2. CASE RouteOf(r, i) \in Modules
      <4>1. Past(r, RouteOf(r, i), Slot(r, i))' <=>
              Past(r, RouteOf(r, i), Slot(r, i))
                \/ (RouteOf(r, i) = t /\ Slot(r, i) = v)
        BY <1>1, <1>5, <2>3, <2>5, <3>2
      <4> QED
        BY <1>1, <2>2, <2>5, <3>1, <3>2, <4>1 DEF RowInv
    <3>3. CASE RouteOf(r, i) \notin Modules
      <4>1. RouteOf(r, i) # t
        <5>1. t \in Modules
          BY <1>3, <3>3, UnbuiltCount
        <5> QED
          BY <5>1, <3>3
      <4> QED
        BY <1>1, <2>2, <2>5, <3>1, <3>3, <4>1 DEF RowInv
    <3> QED
      BY <3>2, <3>3
  <2> QED
    BY <2>4, <2>5
<1>15. TypeOK'
  <2>1. forwards' \in [Ranks -> Seq(Names)] /\ step' \in [Ranks -> Nat]
    BY <1>1, <1>3, <1>4
  <2>2. scored' \in [Ranks -> [Rows -> Nat]]
    BY <1>1, <1>3, <1>4, <1>13 DEF TypeOK
  <2>3. \A q \in Ranks :
          step'[q] <= IF teacher[q] \in Names THEN n_micro[q][teacher[q]] ELSE 0
    <3>1. n_micro[r][t] \in Nat /\ v < n_micro[r][t]
      BY <1>2, <1>3 DEF InForward, TypeOK
    <3> QED
      BY <1>1, <1>3, <1>4, <3>1 DEF TypeOK
  <2> QED
    BY <1>1, <2>1, <2>2, <2>3 DEF TypeOK, batchVars, actorVars
<1>16. PhaseInv'
  <2>1. phase[r] = "forward"
    BY <1>2 DEF InForward
  <2> QED
    BY <1>1, <1>4, <2>1 DEF PhaseInv
<1> QED
  BY <1>1, <1>11, <1>12, <1>14, <1>15, <1>16, TrainerStill

-----------------------------------------------------------------------------
(* The theorems *)

\* Every step keeps the invariant.
LEMMA NextIInv == IInv /\ [Next]_vars => IInv'
<1> SUFFICES ASSUME IInv, [Next]_vars PROVE IInv'
  OBVIOUS
<1>1. CASE Trainer
  BY <1>1, TrainerIInv
<1>2. CASE RankStep
  BY <1>2, RouteIInv, ReduceIInv, ForwardIInv, NextTeacherIInv, ReturnIInv
  DEF RankStep, Rank
<1>3. CASE UNCHANGED vars
  <2>1. RankInv' /\ job' = job
    BY <1>3, RanksStill DEF vars, IInv
  <2>2. TypeOK'
    BY <1>3, <2>1, JobOps DEF vars, IInv, TypeOK, rankVars, batchVars, actorVars
  <2>3. ConfigInv' /\ RewardInv' /\ CandidatesMatch'
    BY <1>3, <2>1, JobOps DEF vars, IInv, ConfigInv, RewardInv, CandidatesMatch,
       rankVars, batchVars, actorVars
  <2> QED
    BY <2>1, <2>2, <2>3 DEF IInv
<1> QED
  BY <1>1, <1>2, <1>3 DEF Next

\* The inductive invariant holds in every reachable state.
LEMMA Invariance == Spec => []IInv
  BY InitIInv, NextIInv, PTL DEF Spec

\* The trainer and the ranks keep their types, and no rank runs past the micro
\* batches of a teacher, for every number of ranks, teachers and rows.
THEOREM TypeCorrect == Spec => []TypeOK
<1>1. IInv => TypeOK
  BY DEF IInv
<1> QED
  BY <1>1, Invariance, PTL

\* compute_rm_score: whatever rows the ranks have, their forward passes are of
\* the same teachers in the same order.
THEOREM LockstepHolds == Spec => []Lockstep
<1>1. IInv => Lockstep
  <2> SUFFICES ASSUME IInv, NEW q \in Ranks, NEW r \in Ranks,
                      NEW k \in DOMAIN forwards[q] \intersect DOMAIN forwards[r]
               PROVE  forwards[q][k] = forwards[r][k]
    BY DEF Lockstep
  <2> USE DEF IInv, RankInv
  <2>1. forwards[q] \in Seq(Names) /\ forwards[r] \in Seq(Names)
    BY DEF TypeOK
  <2>2. CASE Len(forwards[q]) = Len(forwards[r])
    BY <2>2 DEF SameInv
  <2>3. CASE Len(forwards[q]) < Len(forwards[r])
    <3>1. PICK a \in Names : forwards[r] = Append(forwards[q], a)
      BY <2>3 DEF AheadInv, AheadBy
    <3> QED
      BY <2>1, <3>1
  <2>4. CASE Len(forwards[r]) < Len(forwards[q])
    <3>1. PICK a \in Names : forwards[q] = Append(forwards[r], a)
      BY <2>4 DEF AheadInv, AheadBy
    <3> QED
      BY <2>1, <3>1
  <2> QED
    BY <2>1, <2>2, <2>3, <2>4
<1> QED
  BY <1>1, Invariance, PTL

\* compute_rm_score: when a rank returns, every row holds the score of the
\* teacher its ability is routed to, in its own place, unless that teacher was
\* never built.
THEOREM ScoredByTeacherHolds == Spec => []ScoredByTeacher
<1>1. IInv => ScoredByTeacher
  <2> SUFFICES ASSUME IInv, NEW r \in Ranks, phase[r] = "done", NEW i \in Rows
               PROVE  \/ scored[r][i] = RouteOf(r, i) /\ RouteOf(r, i) \in Modules
                      \/ /\ scored[r][i] = Unset /\ RouteOf(r, i) \notin Modules
                         /\ job.teachers = <<>> /\ Known(r, i)
    BY DEF ScoredByTeacher
  <2> USE DEF IInv, RankInv
  <2>1. RowInv(r, i) /\ teacher[r] = NumTeachers + 1
    BY DEF ScoreInv, PhaseInv
  <2>2. CASE RouteOf(r, i) \in Modules
    <3>1. RouteOf(r, i) < teacher[r]
      BY <2>1, RouteType, TeacherAssumption DEF Names
    <3> QED
      BY <2>1, <2>2, <3>1 DEF RowInv, Past
  <2>3. CASE RouteOf(r, i) \notin Modules
    <3>1. TeacherConfigValid
      BY DEF ConfigInv
    <3>2. job.teachers = <<>> /\ Known(r, i)
      BY <2>3, <3>1, Unbuilt
    <3> QED
      BY <2>1, <2>3, <3>2 DEF RowInv
  <2> QED
    BY <2>2, <2>3
<1> QED
  BY <1>1, Invariance, PTL

\* An update never multiplies an advantage over some candidates by a ratio
\* over others, for every combination of top-K knobs, epochs and mini batches.
THEOREM CandidatesMatchHolds == Spec => []CandidatesMatch
<1>1. IInv => CandidatesMatch
  BY DEF IInv
<1> QED
  BY <1>1, Invariance, PTL
=============================================================================
