--------------------------- MODULE TeacherScoring ---------------------------
(***************************************************************************)
(* One training step of on-policy distillation.  The rows of a rollout are *)
(* routed to frozen teachers by their ability; the teachers are sharded    *)
(* over all ranks, so that a forward pass of a teacher is a collective in  *)
(* which every rank takes part.  The teacher's score of a row becomes its  *)
(* reward, the reward its advantage, and the actor is updated with it.     *)
(*                                                                         *)
(* A teacher's name is a number, in the order in which names are sorted.   *)
(***************************************************************************)
EXTENDS Naturals, Sequences, FiniteSetsExt

CONSTANTS
  NumTeachers,   \* names are 1 .. NumTeachers
  DefaultName,   \* the name "default"
  Abilities,
  Jobs           \* configurations and the abilities of the batch

Names == 1 .. NumTeachers
None == 0              \* no default_teacher is configured
Unset == 0             \* an entry of torch.empty
Garbled == NumTeachers + 1   \* computed from the shards of two teachers

Job ==
  [abilities : Seq(Abilities), has_ability : BOOLEAN, world : Nat \ {0},
   teachers : Seq(Names), default_teacher : Names \union {None},
   ability_to_teacher : UNION {[A -> Names] : A \in SUBSET Abilities},
   strict_routing : BOOLEAN, micro_bs : Nat \ {0},
   log_prob_top_k : Nat, metric_top_k : Nat,
   ppo_epochs : Nat \ {0}, mini_batches : Nat \ {0},
   bypass_mode : BOOLEAN, plus_grpo : BOOLEAN]

\* chunk asserts that every rank gets the same number of rows.
ASSUME TeacherAssumption ==
  /\ NumTeachers \in Nat \ {0} /\ DefaultName \in Names
  /\ Jobs \subseteq Job
  /\ \A j \in Jobs : Len(j.abilities) % j.world = 0

VARIABLES
  job,
  status,       \* of the trainer
  phase,        \* of every rank in compute_rm_score
  n_micro,      \* micro batches of every teacher, as a rank knows them
  teacher,      \* the loop over the teachers and ...
  step,         \* ... the one over their micro batches
  forwards,     \* the teachers of the forward passes a rank has taken part in
  scored,       \* teacher_log_probs of a rank: whose scores its rows have
  top_k,        \* the candidates in the batch
  token_level_scores,
  true_token_level_scores,
  over,         \* the candidates the token level scores are about
  advantage,
  weights,      \* updates of the actor made in this step
  compared      \* what the updates multiplied: candidates of the advantage
                \* and of the log-probabilities

rankVars == <<phase, n_micro, teacher, step, forwards, scored>>
batchVars == <<top_k, token_level_scores, true_token_level_scores, over,
               advantage>>
actorVars == <<weights, compared>>
vars == <<job, status, rankVars, batchVars, actorVars>>

Ranks == 1 .. job.world
RowsPerRank == Len(job.abilities) \div job.world
Rows == 1 .. RowsPerRank

\* Candidates: the sampled token alone, or the student's top K at the weights
\* after w updates.
Sampled == 0
TopKAt(w) == w + 1

-----------------------------------------------------------------------------
(* The configuration *)

Configured == {job.teachers[i] : i \in DOMAIN job.teachers}

\* FsdpTeacherConfig.__post_init__
TeacherConfigValid ==
  /\ \A i, k \in DOMAIN job.teachers :
       job.teachers[i] = job.teachers[k] => i = k
  /\ Configured # {} =>
       /\ job.default_teacher \in Configured \union {None}
       /\ \A a \in DOMAIN job.ability_to_teacher :
            job.ability_to_teacher[a] \in Configured

Default ==
  IF job.default_teacher # None THEN job.default_teacher
  ELSE IF job.teachers # <<>> THEN job.teachers[1]
  ELSE DefaultName

\* init_model: the keys of teacher_modules
Modules == IF Configured # {} THEN Configured ELSE {Default}

\* opd_student_top_k and opd_top_k_is_reward
StudentTopK == IF job.log_prob_top_k > 0 THEN job.log_prob_top_k
                                         ELSE job.metric_top_k
TopKIsReward == job.log_prob_top_k > 0

\* validate_opd_top_k_config
MutTopKConfigValid == TopKIsReward => job.mini_batches = 1
TopKConfigValid ==
  TopKIsReward => job.ppo_epochs = 1 /\ job.mini_batches = 1

\* The trainer's __init__ and init_workers
Configure ==
  /\ status = "begin"
  /\ status' = IF TopKConfigValid /\ TeacherConfigValid THEN "rollout"
                                                        ELSE "rejected"
  /\ UNCHANGED <<job, rankVars, batchVars, actorVars>>

\* _compute_old_log_prob, which bypass mode leaves out; then the verifier's
\* reward is installed and the rows go to the ranks.
ComputeOldLogProb ==
  /\ status = "rollout"
  /\ status' = "score"
  /\ top_k' = IF StudentTopK > 0 /\ ~job.bypass_mode THEN TopKAt(weights)
                                                     ELSE Sampled
  /\ token_level_scores' = "verifier"
  /\ UNCHANGED <<job, rankVars, true_token_level_scores, over, advantage,
                 actorVars>>

-----------------------------------------------------------------------------
(* Routing *)

AbilityOf(r, i) == job.abilities[(r - 1) * RowsPerRank + i]

\* route_by_ability
Known(r, i) == /\ job.has_ability
               /\ AbilityOf(r, i) \in DOMAIN job.ability_to_teacher
RouteRaises(r) == /\ DOMAIN job.ability_to_teacher # {}
                  /\ job.strict_routing
                  /\ \/ ~job.has_ability
                     \/ \E i \in Rows : ~Known(r, i)
RouteOf(r, i) == IF Known(r, i)
                   THEN job.ability_to_teacher[AbilityOf(r, i)]
                   ELSE Default

\* group_rows_by_teacher: the rows of a teacher, and the place of row i among
\* the rows of its teacher
RowsOf(r, name) == {i \in Rows : RouteOf(r, i) = name}
Place(r, i) == Cardinality({k \in RowsOf(r, RouteOf(r, i)) : k < i})

\* local_micro_batch_counts; a name without a module has no forward passes.
CeilDiv(a, b) == (a + b - 1) \div b
LocalCount(r, name) ==
  IF name \in Modules
    THEN CeilDiv(Cardinality(RowsOf(r, name)), job.micro_bs) ELSE 0

\* all_reduce with MAX
MutReduced(r) == [name \in Names |-> LocalCount(r, name)]
Reduced(r) ==
  [name \in Names |-> Max({LocalCount(q, name) : q \in Ranks})]

Route(r) ==
  /\ status = "score" /\ phase[r] = "idle"
  /\ phase' = [phase EXCEPT ![r] = IF RouteRaises(r) THEN "raised"
                                                     ELSE "counted"]
  /\ UNCHANGED <<job, status, n_micro, teacher, step, forwards, scored,
                 batchVars, actorVars>>

\* The all_reduce waits for every rank.
Reduce(r) ==
  /\ status = "score" /\ phase[r] = "counted"
  /\ \A q \in Ranks : phase[q] \notin {"idle", "raised"}
  /\ phase' = [phase EXCEPT ![r] = "forward"]
  /\ n_micro' = [n_micro EXCEPT ![r] = Reduced(r)]
  /\ UNCHANGED <<job, status, teacher, step, forwards, scored, batchVars,
                 actorVars>>

-----------------------------------------------------------------------------
(* Forward passes *)

\* Rank r is in a forward pass of its current teacher.
InForward(r) == /\ phase[r] = "forward"
                /\ teacher[r] \in Names /\ step[r] < n_micro[r][teacher[r]]

\* The rows of a micro batch: idxs[step * micro_bs : (step + 1) * micro_bs].
\* When there are none the forward pass scores a row and drops the result.
Micro(r) == {i \in RowsOf(r, teacher[r]) :
               Place(r, i) \div job.micro_bs = step[r]}

\* Rank q has come to its k-th forward pass, and with which teacher
Arrived(q, k) == \/ Len(forwards[q]) >= k
                 \/ Len(forwards[q]) = k - 1 /\ InForward(q)
Called(q, k) == IF Len(forwards[q]) >= k THEN forwards[q][k] ELSE teacher[q]

\* The parameters a rank gathers come from the modules that the ranks are in.
Gathered(r) ==
  LET k == Len(forwards[r]) + 1
  IN  IF \A q \in Ranks : Called(q, k) = teacher[r] THEN teacher[r] ELSE Garbled

\* The results go back to the rows they belong to.
MutScatter(r, i) == i \in 1 .. Cardinality(Micro(r))
Scatter(r, i) == i \in Micro(r)

Forward(r) ==
  /\ status = "score" /\ InForward(r)
  /\ \A q \in Ranks : Arrived(q, Len(forwards[r]) + 1)
  /\ scored' = [scored EXCEPT ![r] =
                  [i \in Rows |-> IF Scatter(r, i) THEN Gathered(r) ELSE @[i]]]
  /\ forwards' = [forwards EXCEPT ![r] = Append(@, teacher[r])]
  /\ step' = [step EXCEPT ![r] = @ + 1]
  /\ UNCHANGED <<job, status, phase, n_micro, teacher, batchVars, actorVars>>

MutNextTeacher(r) ==
  /\ status = "score" /\ phase[r] = "forward"
  /\ teacher[r] \in Names /\ step[r] >= n_micro[r][teacher[r]]
  /\ teacher' = [teacher EXCEPT ![r] = @ + 1]
  /\ UNCHANGED <<job, status, phase, n_micro, step, forwards, scored, batchVars,
                 actorVars>>
NextTeacher(r) ==
  /\ status = "score" /\ phase[r] = "forward"
  /\ teacher[r] \in Names /\ step[r] = n_micro[r][teacher[r]]
  /\ teacher' = [teacher EXCEPT ![r] = @ + 1]
  /\ step' = [step EXCEPT ![r] = 0]
  /\ UNCHANGED <<job, status, phase, n_micro, forwards, scored, batchVars,
                 actorVars>>

\* The end of compute_rm_score.  With candidates in the batch it takes the
\* teacher's scores of them, which a rank without any scored row does not have.
NothingScored(r) == /\ StudentTopK > 0 /\ top_k # Sampled
                    /\ \A i \in Rows : RouteOf(r, i) \notin Modules
Return(r) ==
  /\ status = "score" /\ phase[r] = "forward" /\ teacher[r] \notin Names
  /\ phase' = [phase EXCEPT ![r] = IF NothingScored(r) THEN "failed" ELSE "done"]
  /\ UNCHANGED <<job, status, n_micro, teacher, step, forwards, scored,
                 batchVars, actorVars>>

-----------------------------------------------------------------------------
(* Reward, advantage and update *)

\* compute_opd_token_reward; rm_scores is about the candidates only if the
\* batch has them and top-K is the reward.  An error of a rank is raised.
InstallReward ==
  /\ status = "score"
  /\ \/ /\ \A r \in Ranks : phase[r] = "done"
        /\ status' = "advantage"
        /\ true_token_level_scores' = token_level_scores
        /\ token_level_scores' = "teacher"
        /\ over' = IF TopKIsReward THEN top_k ELSE Sampled
     \/ /\ \E r \in Ranks : phase[r] \in {"raised", "failed"}
        /\ status' = "error"
        /\ UNCHANGED <<true_token_level_scores, token_level_scores, over>>
  /\ UNCHANGED <<job, rankVars, top_k, advantage, actorVars>>

\* What compute_advantage hands to the estimator, and the reward that
\* compute_token_reward_direct_plus_grpo_advantage takes the outcome from
AdvKwargs == {"token_level_rewards", "response_mask", "config", "index"}
RewardsForGrpo ==
  IF "true_token_level_scores" \in AdvKwargs THEN true_token_level_scores
                                             ELSE token_level_scores

ComputeAdvantage ==
  /\ status = "advantage"
  /\ status' = "update"
  /\ advantage' = [direct |-> token_level_scores,
                   grpo |-> IF job.plus_grpo THEN RewardsForGrpo ELSE "none"]
  /\ UNCHANGED <<job, rankVars, top_k, token_level_scores,
                 true_token_level_scores, over, actorVars>>

\* train_mini_batch: an update, which in reward mode takes the log-probabilities
\* of the student's top K at the current weights, and needs those of the batch.
Updates == job.ppo_epochs * job.mini_batches
UpdateActor ==
  /\ status = "update" /\ weights < Updates
  /\ IF TopKIsReward /\ top_k = Sampled
       THEN status' = "error" /\ UNCHANGED actorVars
       ELSE /\ weights' = weights + 1
            /\ compared' = compared \union
                 {[advantage |-> over,
                   log_prob |-> IF TopKIsReward THEN TopKAt(weights)
                                                ELSE Sampled]}
            /\ UNCHANGED status
  /\ UNCHANGED <<job, rankVars, batchVars>>

EndStep ==
  /\ status = "update" /\ weights = Updates
  /\ status' = "done"
  /\ UNCHANGED <<job, rankVars, batchVars, actorVars>>

-----------------------------------------------------------------------------
Init ==
  /\ job \in Jobs
  /\ status = "begin"
  /\ phase = [r \in Ranks |-> "idle"]
  /\ n_micro = [r \in Ranks |-> [name \in Names |-> 0]]
  /\ teacher = [r \in Ranks |-> 1]
  /\ step = [r \in Ranks |-> 0]
  /\ forwards = [r \in Ranks |-> <<>>]
  /\ scored = [r \in Ranks |-> [i \in Rows |-> Unset]]
  /\ top_k = Sampled /\ over = Sampled
  /\ token_level_scores = "none" /\ true_token_level_scores = "none"
  /\ advantage = [direct |-> "none", grpo |-> "none"]
  /\ weights = 0 /\ compared = {}

Trainer == Configure \/ ComputeOldLogProb \/ InstallReward \/ ComputeAdvantage
           \/ UpdateActor \/ EndStep
Rank(r) == Route(r) \/ Reduce(r) \/ Forward(r) \/ NextTeacher(r) \/ Return(r)
RankStep == \E r \in Ranks : Rank(r)

Next == Trainer \/ RankStep

Spec == Init /\ [][Next]_vars /\ WF_vars(Trainer) /\ WF_vars(RankStep)

-----------------------------------------------------------------------------
(* Properties *)

Sources == {"none", "verifier", "teacher"}

\* Types; a rank is never past the micro batches of its teacher.
TypeOK ==
  /\ status \in {"begin", "rollout", "score", "advantage", "update", "done",
                 "rejected", "error"}
  /\ phase \in [Ranks -> {"idle", "raised", "counted", "forward", "failed",
                          "done"}]
  /\ n_micro \in [Ranks -> [Names -> Nat]]
  /\ teacher \in [Ranks -> 1 .. NumTeachers + 1]
  /\ step \in [Ranks -> Nat]
  /\ \A r \in Ranks :
       step[r] <= IF teacher[r] \in Names THEN n_micro[r][teacher[r]] ELSE 0
  /\ forwards \in [Ranks -> Seq(Names)]
  /\ scored \in [Ranks -> [Rows -> Nat]]
  /\ top_k \in Nat /\ over \in Nat /\ weights \in Nat
  /\ token_level_scores \in Sources /\ true_token_level_scores \in Sources
  /\ advantage \in [direct : Sources, grpo : Sources]
  /\ compared \subseteq [advantage : Nat, log_prob : Nat]

\* The ranks take part in the same forward passes in the same order, whatever
\* rows each of them has: no collective mixes two teachers.
Lockstep ==
  \A q, r \in Ranks :
    \A k \in DOMAIN forwards[q] \intersect DOMAIN forwards[r] :
      forwards[q][k] = forwards[r][k]

\* When a rank returns, each of its rows holds the score of the teacher that
\* its ability is routed to, at the row's own place; a row keeps what was in
\* memory only if it is routed to a name without a module, which is possible
\* when ability_to_teacher is set and teachers is not.
ScoredByTeacher ==
  \A r \in Ranks : phase[r] = "done" =>
    \A i \in Rows :
      \/ scored[r][i] = RouteOf(r, i) /\ RouteOf(r, i) \in Modules
      \/ /\ scored[r][i] = Unset /\ RouteOf(r, i) \notin Modules
         /\ job.teachers = <<>> /\ Known(r, i)

\* An update multiplies an advantage over some candidates by the ratio of
\* log-probabilities of the same candidates: in reward mode the student's
\* top K has not moved since the rollout, and in metric mode the candidates
\* never get into the loss.
CandidatesMatch == \A c \in compared : c.advantage = c.log_prob

\* The outcome term of token_reward_direct_plus_grpo is the verifier's score.
GrpoFromVerifier == advantage.grpo \in {"none", "verifier"}

\* A step ends: no rank waits in a collective that another one never enters,
\* and an unroutable row is reported although the other ranks are waiting.
Termination == <>(status \in {"done", "rejected", "error"})
=============================================================================
