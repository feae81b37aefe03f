-------------------------- MODULE MCTeacherScoring --------------------------
EXTENDS TeacherScoring

MCAbilities == {"math", "code", "chat"}
MathAndCode == [a \in {"math", "code"} |-> IF a = "math" THEN 1 ELSE 2]
All == [a \in MCAbilities |->
          IF a = "math" THEN 1 ELSE IF a = "code" THEN 2 ELSE 3]

Plain == [abilities |-> <<"code", "math", "math", "code">>, has_ability |-> TRUE,
          world |-> 2, teachers |-> <<2, 1>>, default_teacher |-> None,
          ability_to_teacher |-> MathAndCode, strict_routing |-> FALSE,
          micro_bs |-> 1, log_prob_top_k |-> 0, metric_top_k |-> 0,
          ppo_epochs |-> 1, mini_batches |-> 1, bypass_mode |-> FALSE,
          plus_grpo |-> FALSE]

\* All batches of six rows on two ranks, with an ability that is not mapped:
\* three rows are two or three micro batches of two.
TwoRanks ==
  {[Plain EXCEPT !.abilities = b, !.teachers = <<3, 2, 1>>,
                 !.strict_routing = s, !.micro_bs = m] :
     b \in [1 .. 6 -> MCAbilities], s \in BOOLEAN, m \in 1 .. 2}

\* Three ranks with two rows each and three teachers
ThreeRanks ==
  {[Plain EXCEPT !.abilities = b, !.world = 3, !.teachers = <<3, 1, 2>>,
                 !.ability_to_teacher = All] :
     b \in [1 .. 6 -> MCAbilities]}

\* The configurations of the teachers
Teachers ==
  {[Plain EXCEPT !.teachers = t, !.default_teacher = d,
                 !.ability_to_teacher = f, !.has_ability = h,
                 !.strict_routing = s] :
     t \in {<<>>, <<1>>, <<2, 1>>, <<1, 1>>}, d \in 0 .. 3,
     f \in {<<>>, MathAndCode}, h \in BOOLEAN, s \in BOOLEAN}

\* The configurations of reward and update
Rewards ==
  {[Plain EXCEPT !.log_prob_top_k = k, !.metric_top_k = l, !.ppo_epochs = e,
                 !.mini_batches = n, !.bypass_mode = y, !.plus_grpo = g] :
     k \in {0, 2}, l \in {0, 3}, e \in 1 .. 2, n \in 1 .. 2, y \in BOOLEAN,
     g \in BOOLEAN}

\* A single teacher, and abilities mapped to names that it does not have
Unbuilt ==
  {[Plain EXCEPT !.teachers = <<>>, !.abilities = b, !.log_prob_top_k = k,
                 !.default_teacher = d] :
     b \in {<<"math", "math", "chat", "math">>, <<"code", "chat", "math", "math">>},
     k \in {0, 2}, d \in {None, 1}}

MCJobs == TwoRanks \union ThreeRanks \union Teachers \union Rewards
          \union Unbuilt
=============================================================================
