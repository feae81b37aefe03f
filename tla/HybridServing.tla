--------------------------- MODULE HybridServing ---------------------------
(***************************************************************************)
(* The serving layer of the fully asynchronous trainer: the clients of the *)
(* agent loops (FullyAsyncLLMServerClient), the load balancer, the rollout *)
(* replicas and the trainer that updates their weights, registers and      *)
(* removes the hybrid replicas (which share the trainer's GPUs) and        *)
(* validates with them.                                                    *)
(*                                                                         *)
(* The trainer awaits one call after the other; todo is what it has yet to *)
(* call in this cycle.  A call on several replicas (asyncio.gather) is one *)
(* step per replica.  The engine (vLLM) is external: a paused engine lets  *)
(* no new request in until it is resumed, pausing it aborts its requests.  *)
(***************************************************************************)
EXTENDS Naturals, Sequences, FiniteSets

CONSTANTS
  Standalone,        \* replicas on GPUs of their own
  Hybrid,            \* replicas on the trainer's GPUs
  Requests,          \* request ids of the agent loops
  NoServer,
  Budget,            \* response_length
  PartialRollout,    \* async_training.partial_rollout
  Dynamic,           \* async_training.use_dynamic_resource_scheduling
  Rebalance,         \* async_training.dynamic_schedule_enable_rebalance
  ValidateModes,     \* the values of use_trainer_do_validate to choose from
  MaxTurns,          \* bounds the generate calls made with one request id
  MaxVersion         \* bounds the training cycles

Servers == Standalone \union Hybrid

ASSUME ServingAssumption ==
  /\ Standalone \intersect Hybrid = {}
  /\ NoServer \notin Servers
  /\ IsFiniteSet(Servers) /\ IsFiniteSet(Requests)
  /\ Budget \in Nat \ {0}
  /\ PartialRollout \in BOOLEAN
  /\ Dynamic \in BOOLEAN /\ Rebalance \in BOOLEAN
  /\ ValidateModes \subseteq BOOLEAN
  /\ (Standalone = {}) => Dynamic
  /\ \A v \in ValidateModes : Hybrid # {} <=> (Dynamic \/ v)
  /\ MaxTurns \in Nat /\ MaxVersion \in Nat

VARIABLES
  inflight, sticky, using, readded, \* the load balancer
  client,        \* where the generate call of each request stands
  turns,         \* history: generate calls begun with this request id
  tokens,        \* tokens merged into final_output
  got,           \* tokens of the current attempt
  stop_reason,   \* of the current attempt
  began,         \* history: the weights the current attempt started with
  paused, asleep, version,  \* the replicas' engines
  todo,          \* the calls the trainer has yet to make in this cycle
  fitting,       \* fit of the rollouter and of the trainer have been started
  trainer_validates, \* use_trainer_do_validate
  hybrid_active, \* _hybrid_active of DynamicResourceController
  current_param_version

lbVars == <<inflight, sticky, using, readded>>
clientVars == <<client, turns, tokens, got, stop_reason, began>>
engineVars == <<paused, asleep, version>>
trainerVars == <<todo, fitting, trainer_validates, hybrid_active,
                 current_param_version>>
vars == <<lbVars, clientVars, engineVars, trainerVars>>

LB == INSTANCE LoadBalancer
        WITH Initial <- Standalone, FullDeterminism <- FALSE

\* LLMServerManager.only_hybrid
OnlyHybrid == Standalone = {}

-----------------------------------------------------------------------------
(* Clients: FullyAsyncLLMServerClient.generate *)

\* A turn of the agent loop begins.
Generate(r) ==
  /\ fitting
  /\ client[r] = "idle" /\ turns[r] < MaxTurns
  /\ client' = [client EXCEPT ![r] = "acquiring"]
  /\ turns' = [turns EXCEPT ![r] = @ + 1]
  /\ tokens' = [tokens EXCEPT ![r] = 0]
  /\ UNCHANGED <<got, stop_reason, began, lbVars, engineVars, trainerVars>>

Acquire(r) ==
  /\ client[r] = "acquiring"
  /\ \E s \in Servers : LB!AcquireServer(r, s)
  /\ client' = [client EXCEPT ![r] = "sent"]
  /\ UNCHANGED <<turns, tokens, got, stop_reason, began, engineVars,
                 trainerVars>>

\* Mutant of AcquireFails: the client never tries again.
MutAcquireGivesUp(r) ==
  /\ client[r] = "acquiring"
  /\ LB!AcquireRaises(r)
  /\ client' = [client EXCEPT ![r] = "failed"]
  /\ UNCHANGED <<turns, tokens, got, stop_reason, began, engineVars,
                 trainerVars>>

\* No server: with only hybrid replicas the client tries again in a second,
\* otherwise generate raises.
AcquireFails(r) ==
  /\ client[r] = "acquiring"
  /\ LB!AcquireRaises(r)
  /\ client' = [client EXCEPT ![r] = IF OnlyHybrid THEN @ ELSE "failed"]
  /\ UNCHANGED <<turns, tokens, got, stop_reason, began, engineVars,
                 trainerVars>>

\* The generate call reaches its server and is let in, now or once resumed.
Admit(r) ==
  /\ client[r] = "sent" /\ ~paused[using[r]]
  /\ client' = [client EXCEPT ![r] = "running"]
  /\ got' = [got EXCEPT ![r] = 0]
  /\ began' = [began EXCEPT ![r] = version[using[r]]]
  /\ UNCHANGED <<turns, tokens, stop_reason, lbVars, engineVars, trainerVars>>

\* Mutant of Limit: a resumed attempt gets the whole budget again.
MutLimitNotCumulative(r) == Budget

\* max_tokens of the attempt: what is left of the budget; the server raises a
\* limit below one to one.
Limit(r) == IF tokens[r] < Budget THEN Budget - tokens[r] ELSE 1

\* The engine appends a token, which may be the last one.
Token(r) ==
  /\ client[r] = "running"
  /\ got' = [got EXCEPT ![r] = @ + 1]
  /\ \/ /\ got[r] + 1 < Limit(r)
        /\ UNCHANGED <<client, stop_reason>>
     \/ /\ client' = [client EXCEPT ![r] = "answered"]
        /\ stop_reason' = [stop_reason EXCEPT ![r] = "completed"]
  /\ UNCHANGED <<turns, tokens, began, lbVars, engineVars, trainerVars>>

\* The answer arrives: release_server is sent, the tokens are merged, and an
\* aborted attempt is resumed unless the budget is used up.
Merge(r) ==
  LET total == tokens[r] + got[r]
      again == /\ total < Budget
               /\ stop_reason[r] = "aborted" /\ PartialRollout
  IN  /\ client[r] = "answered"
      /\ tokens' = [tokens EXCEPT ![r] = total]
      /\ client' = [client EXCEPT ![r] = IF again THEN "acquiring" ELSE "idle"]
      /\ UNCHANGED <<turns, got, stop_reason, began, lbVars, engineVars,
                     trainerVars>>

\* release_server reaches the load balancer, before the client's next call.
Release(r) ==
  /\ client[r] \in {"acquiring", "idle"}
  /\ LB!ReleaseServer(r)
  /\ UNCHANGED <<clientVars, engineVars, trainerVars>>

Client(r) == Acquire(r) \/ AcquireFails(r) \/ Admit(r) \/ Token(r) \/ Merge(r)

-----------------------------------------------------------------------------
(* The trainer's calls *)

Call(op) == <<[op |-> op, on |-> {}]>>
Each(op, S) == IF S = {} THEN <<>> ELSE <<[op |-> op, on |-> S]>>

Running(s) == {r \in Requests : client[r] = "running" /\ using[r] = s}

\* The next call, made on replica s.
Calls(op, s) ==
  /\ todo # <<>> /\ todo[1].op = op /\ s \in todo[1].on
  /\ todo' = IF todo[1].on = {s} THEN Tail(todo)
             ELSE [todo EXCEPT ![1].on = @ \ {s}]
  /\ UNCHANGED <<fitting, trainer_validates, hybrid_active,
                 current_param_version>>

\* The next call, made on no replica in particular.
Does(op) == todo # <<>> /\ todo[1].op = op /\ todo' = Tail(todo)

\* abort_all_requests: an aborted request is answered with what it has, or
\* with nothing, and the engine stays paused.
Abort(s) ==
  /\ Calls("abort", s)
  /\ paused' = [paused EXCEPT ![s] = TRUE]
  /\ client' = [r \in Requests |->
                  IF r \in Running(s) THEN "answered" ELSE client[r]]
  /\ stop_reason' = [r \in Requests |->
                  IF r \in Running(s) THEN "aborted" ELSE stop_reason[r]]
  /\ \E lost \in SUBSET Running(s) :
       got' = [r \in Requests |-> IF r \in lost THEN 0 ELSE got[r]]
  /\ UNCHANGED <<turns, tokens, began, asleep, version, lbVars>>

ResumeGeneration(s) ==
  /\ Calls("resume", s)
  /\ paused' = [paused EXCEPT ![s] = FALSE]
  /\ UNCHANGED <<asleep, version, lbVars, clientVars>>

\* wait_for_requests_to_drain, before the weights are transferred
Drain(s) ==
  /\ Calls("drain", s)
  /\ Running(s) = {}
  /\ UNCHANGED <<lbVars, clientVars, engineVars>>

\* sleep drains first, then frees the weights and the cache.
Sleep(s) ==
  /\ Calls("sleep", s)
  /\ Running(s) = {}
  /\ asleep' = [asleep EXCEPT ![s] = TRUE]
  /\ UNCHANGED <<paused, version, lbVars, clientVars>>

\* update_weights; the naive path used for hybrid replicas wakes them up.
Update(s) ==
  /\ Calls("update", s)
  /\ version' = [version EXCEPT ![s] = current_param_version]
  /\ asleep' = [asleep EXCEPT ![s] = FALSE]
  /\ UNCHANGED <<paused, lbVars, clientVars>>

\* add_replicas and remove_replicas skip the replicas already (in)active.
AddReplicas ==
  /\ Does("add")
  /\ LB!AddServers(Hybrid \ LB!Pool)
  /\ UNCHANGED <<fitting, trainer_validates, hybrid_active,
                 current_param_version, clientVars, engineVars>>

RemoveReplicas ==
  /\ Does("remove")
  /\ LB!RemoveServers(Hybrid)
  /\ UNCHANGED <<fitting, trainer_validates, hybrid_active,
                 current_param_version, clientVars, engineVars>>

SetActive ==
  /\ \/ Does("activated") /\ hybrid_active' = TRUE
     \/ Does("deactivated") /\ hybrid_active' = FALSE
  /\ UNCHANGED <<fitting, trainer_validates, current_param_version, lbVars,
                 clientVars, engineVars>>

ClearSticky ==
  /\ Does("clear")
  /\ LB!ClearStickyCache
  /\ UNCHANGED <<fitting, trainer_validates, hybrid_active,
                 current_param_version, clientVars, engineVars>>

\* rebalance_requests polls until nothing is in flight, or gives up.
RebalanceWait ==
  /\ Does("wait")
  /\ \E timed_out \in BOOLEAN :
       timed_out \/ \A s \in LB!Pool : inflight[s] = 0
  /\ UNCHANGED <<fitting, trainer_validates, hybrid_active,
                 current_param_version, lbVars, clientVars, engineVars>>

\* The rest of fit_step, and what validation does besides serving.
Compute ==
  /\ \/ Does("train") /\ current_param_version' = current_param_version + 1
     \/ Does("validate") /\ UNCHANGED current_param_version
  /\ UNCHANGED <<fitting, trainer_validates, hybrid_active, lbVars, clientVars,
                 engineVars>>

-----------------------------------------------------------------------------
(* The trainer's program *)

\* Mutant of UpdateStandalone: the requests are neither aborted nor drained.
MutUpdateNoAbort == Each("update", Standalone) \o Each("resume", Standalone)

\* CheckpointEngineManager.update_weights
UpdateStandalone ==
  Each("abort", Standalone) \o Each("drain", Standalone)
    \o Each("update", Standalone) \o Each("resume", Standalone)

SyncHybridWeights ==
  Each("abort", Hybrid) \o Each("update", Hybrid) \o Each("resume", Hybrid)

\* Mutant of ActivateHybridReplicas: resumed, but not registered.
MutActivateUnregistered == Each("resume", Hybrid) \o Call("activated")

ActivateHybridReplicas ==
  Call("add") \o Each("resume", Hybrid) \o Call("activated")

DeactivateHybridReplicas ==
  Call("remove") \o Each("abort", Hybrid) \o Each("sleep", Hybrid)
    \o Call("deactivated")

\* request_rebalance: only called right after an activation, when every replica
\* is active.
RebalanceRequests ==
  IF Rebalance
    THEN Call("clear") \o Each("abort", Servers) \o Call("wait")
           \o Each("resume", Servers)
    ELSE <<>>

\* Mutant of TrainerSideValidate: the replicas are not put to sleep after the
\* validation.
MutValidateNoSleep ==
  Each("update", Hybrid)
    \o Each("abort", Standalone) \o Each("abort", Hybrid) \o Call("add")
    \o Each("resume", Standalone) \o Each("resume", Hybrid)
    \o Call("validate")
    \o Each("abort", Standalone) \o Each("abort", Hybrid) \o Call("remove")
    \o Each("resume", Standalone) \o Each("resume", Hybrid)

TrainerSideValidate ==
  Each("update", Hybrid)
    \o Each("abort", Standalone) \o Each("abort", Hybrid) \o Call("add")
    \o Each("resume", Standalone) \o Each("resume", Hybrid)
    \o Call("validate")
    \o Each("abort", Standalone) \o Each("abort", Hybrid) \o Call("remove")
    \o Each("sleep", Hybrid)
    \o Each("resume", Standalone) \o Each("resume", Hybrid)

\* Mutant of FitUpdateWeights: replicas are activated with their old weights.
MutActivateUnsynced(activate) ==
  UpdateStandalone
    \o (IF activate THEN ActivateHybridReplicas \o RebalanceRequests ELSE <<>>)

\* _fit_update_weights: activate is the policy's answer.
FitUpdateWeights(activate) ==
  UpdateStandalone
    \o (IF activate
          THEN SyncHybridWeights \o ActivateHybridReplicas \o RebalanceRequests
          ELSE <<>>)

\* should_activate_after_step: it depends on sample counts and timing, except
\* that the policies activate always when there are only hybrid replicas.
\* (static_fully_async never activates; it needs standalone replicas.)
ActivateAnswers ==
  IF ~Dynamic THEN {FALSE} ELSE IF OnlyHybrid THEN {TRUE} ELSE BOOLEAN

FitValidate(due) == IF due THEN TrainerSideValidate ELSE <<>>
ValidateAnswers == IF trainer_validates THEN BOOLEAN ELSE {FALSE}

\* The first weights have been sent: the training loop starts both fits.
StartFit ==
  /\ todo = <<>> /\ ~fitting
  /\ fitting' = TRUE
  /\ UNCHANGED <<todo, trainer_validates, hybrid_active,
                 current_param_version, lbVars, clientVars, engineVars>>

\* A cycle of fit: deactivate, train, update the weights, validate.  Every
\* policy deactivates whenever hybrid replicas are active.
FitStep ==
  /\ fitting /\ todo = <<>> /\ current_param_version < MaxVersion
  /\ \E activate \in ActivateAnswers, due \in ValidateAnswers :
       todo' = (IF hybrid_active THEN DeactivateHybridReplicas ELSE <<>>)
                 \o Call("train")
                 \o FitUpdateWeights(activate) \o FitValidate(due)
  /\ UNCHANGED <<fitting, trainer_validates, hybrid_active,
                 current_param_version, lbVars, clientVars, engineVars>>

\* The hybrid replicas sleep; the first weights are about to be sent.
Init ==
  /\ LB!Init
  /\ client = [r \in Requests |-> "idle"]
  /\ turns = [r \in Requests |-> 0]
  /\ tokens = [r \in Requests |-> 0]
  /\ got = [r \in Requests |-> 0]
  /\ stop_reason = [r \in Requests |-> "completed"]
  /\ began = [r \in Requests |-> 0]
  /\ paused = [s \in Servers |-> FALSE]
  /\ asleep = [s \in Servers |-> s \in Hybrid]
  /\ version = [s \in Servers |-> 0]
  /\ trainer_validates \in ValidateModes
  /\ \E activate \in ActivateAnswers, due \in ValidateAnswers :
       todo = FitUpdateWeights(activate) \o FitValidate(due)
  /\ fitting = FALSE
  /\ hybrid_active = FALSE
  /\ current_param_version = 0

Trainer ==
  \/ \E s \in Servers :
       \/ Abort(s) \/ ResumeGeneration(s) \/ Drain(s) \/ Sleep(s) \/ Update(s)
  \/ AddReplicas \/ RemoveReplicas \/ SetActive
  \/ ClearSticky \/ RebalanceWait \/ Compute

Next ==
  \/ \E r \in Requests : Generate(r) \/ Client(r) \/ Release(r)
  \/ Trainer
  \/ StartFit
  \/ FitStep

Spec == Init /\ [][Next]_vars

\* Calls are answered and the engines make progress.  The trainer finishes the
\* calls of a cycle, but need not begin another one: for that it waits for a
\* batch of samples.
FairSpec ==
  /\ Spec
  /\ \A r \in Requests : WF_vars(Client(r)) /\ WF_vars(Release(r))
  /\ WF_vars(Trainer)

-----------------------------------------------------------------------------
(* Properties *)

TypeOK ==
  /\ LB!TypeOK
  /\ client \in [Requests ->
       {"idle", "acquiring", "sent", "running", "answered", "failed"}]
  /\ tokens \in [Requests -> 0..Budget] /\ got \in [Requests -> 0..Budget]
  /\ paused \in [Servers -> BOOLEAN] /\ asleep \in [Servers -> BOOLEAN]
  /\ version \in [Servers -> 0..MaxVersion]
  /\ fitting \in BOOLEAN /\ trainer_validates \in ValidateModes
  /\ hybrid_active \in BOOLEAN
  /\ current_param_version \in 0..MaxVersion

\* Where the trainer does not validate with the hybrid replicas, no request
\* runs on a replica whose weights and cache have been freed, however late its
\* call reaches the replica, and every attempt runs from first to last token
\* with the weights it started with.
NoUpdateWhileServing ==
  trainer_validates \/
    \A s \in Servers : \A r \in Running(s) : ~asleep[s] /\ began[r] = version[s]

\* The interruptions of a request, each of which is resumed with a limit of its
\* own, never add up to more than response_length tokens.
WithinBudget ==
  \A r \in Requests :
    tokens[r] + (IF client[r] \in {"running", "answered"} THEN got[r] ELSE 0)
      <= Budget

\* The trainer computes only while every hybrid replica has given its GPU
\* memory back.
TrainsAlone ==
  todo # <<>> /\ todo[1].op = "train" => \A h \in Hybrid : asleep[h]

\* Between two cycles every registered server is awake, lets requests in and
\* has the current weights.
PoolIsFresh ==
  todo = <<>> =>
    \A s \in LB!Pool : /\ version[s] = current_param_version
                       /\ ~asleep[s] /\ ~paused[s]

\* While the trainer waits for the next batch there is a server to produce it:
\* the load balancer is empty only in between, when the client's retries help.
ServersWhileWaiting == todo = <<>> => LB!Pool # {}

\* Interruptions are invisible to the agent loop: whatever the trainer does to
\* the replicas meanwhile, a request gets its answer.
RequestsAnswered ==
  \A r \in Requests : (client[r] = "acquiring") ~> (client[r] = "idle")
=============================================================================
