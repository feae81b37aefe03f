---------------------------- MODULE LoadBalancer ----------------------------
(***************************************************************************)
(* GlobalRequestLoadBalancer (workers/rollout/llm_server.py): the Ray      *)
(* actor that routes the requests of all LLMServerClients to the rollout   *)
(* servers.  Its methods have no await, so each one is a step.             *)
(*                                                                         *)
(* A client holds a server from acquire_server until its release_server,   *)
(* which is sent without waiting, has run here.  Calls of one client are   *)
(* run in the order they were sent, so it holds one server at a time.      *)
(***************************************************************************)
EXTENDS Naturals, FiniteSets, Functions

CONSTANTS
  Servers,
  Initial,         \* the servers the load balancer is created with
  Requests,        \* request ids
  NoServer,
  FullDeterminism  \* full_determinism: route by a hash of the request id

ASSUME BalancerAssumption ==
  /\ Initial \subseteq Servers
  /\ NoServer \notin Servers
  /\ IsFiniteSet(Requests)
  /\ FullDeterminism \in BOOLEAN

VARIABLES
  inflight, \* _inflight_requests; its domain is that of _servers too
  sticky,   \* _request_id_to_server
  using,    \* history: the server each request holds
  readded   \* history: servers registered while a request still held them

vars == <<inflight, sticky, using, readded>>

Pool == DOMAIN inflight

Users(s) == {r \in Requests : using[r] = s}

TypeOK ==
  /\ Pool \subseteq Servers
  /\ inflight \in [Pool -> Nat]
  /\ sticky \in [Requests -> Servers \union {NoServer}]
  /\ using \in [Requests -> Servers \union {NoServer}]
  /\ readded \subseteq Servers

Init ==
  /\ inflight = [s \in Initial |-> 0]
  /\ sticky = [r \in Requests |-> NoServer]
  /\ using = [r \in Requests |-> NoServer]
  /\ readded = {}

-----------------------------------------------------------------------------
LeastLoaded == {s \in Pool : \A t \in Pool : inflight[s] <= inflight[t]}

\* Where a request may go: its sticky server if that one is still registered,
\* else a least loaded one.  The hash may hit any server, and which of several
\* least loaded servers comes first depends on the order of registration.
Candidates(r) ==
  IF sticky[r] \in Pool THEN {sticky[r]}
  ELSE IF FullDeterminism THEN Pool ELSE LeastLoaded

AcquireServer(r, s) ==
  /\ using[r] = NoServer
  /\ s \in Candidates(r)
  /\ sticky' = [sticky EXCEPT ![r] = s]
  /\ inflight' = [inflight EXCEPT ![s] = @ + 1]
  /\ using' = [using EXCEPT ![r] = s]
  /\ UNCHANGED readded

\* No server is registered: the stale entry goes, then RuntimeError is raised.
AcquireRaises(r) ==
  /\ using[r] = NoServer
  /\ Pool = {}
  /\ sticky' = [sticky EXCEPT ![r] = NoServer]
  /\ UNCHANGED <<inflight, using, readded>>

\* Mutant of ReleaseServer: a count of one is never given back.
MutReleaseAboveOne(r) ==
  /\ using[r] # NoServer
  /\ using' = [using EXCEPT ![r] = NoServer]
  /\ inflight' = [s \in Pool |-> IF s = using[r] /\ inflight[s] > 1
                                   THEN inflight[s] - 1 ELSE inflight[s]]
  /\ UNCHANGED <<sticky, readded>>

\* Mutant of ReleaseServer: the count is not kept from going below zero.
MutReleaseUnfloored(r) ==
  /\ using[r] # NoServer
  /\ using' = [using EXCEPT ![r] = NoServer]
  /\ inflight' = [s \in Pool |-> IF s = using[r]
                                   THEN inflight[s] - 1 ELSE inflight[s]]
  /\ UNCHANGED <<sticky, readded>>

\* A server that was removed meanwhile, or counts zero, is left alone.
ReleaseServer(r) ==
  /\ using[r] # NoServer
  /\ using' = [using EXCEPT ![r] = NoServer]
  /\ inflight' = [s \in Pool |-> IF s = using[r] /\ inflight[s] > 0
                                   THEN inflight[s] - 1 ELSE inflight[s]]
  /\ UNCHANGED <<sticky, readded>>

\* Mutant of AddServers: every count starts again, not only the new ones.
MutAddResetsAll(S) ==
  /\ inflight' = [s \in Pool \union S |-> 0]
  /\ readded' = readded \union {s \in S : Users(s) # {}}
  /\ UNCHANGED <<sticky, using>>

\* The servers are registered with a count of zero, known before or not.
AddServers(S) ==
  /\ inflight' = [s \in Pool \union S |-> IF s \in S THEN 0 ELSE inflight[s]]
  /\ readded' = readded \union {s \in S : Users(s) # {}}
  /\ UNCHANGED <<sticky, using>>

\* Sticky entries are left to be found stale by acquire_server.
RemoveServers(S) ==
  /\ inflight' = Restrict(inflight, Pool \ S)
  /\ UNCHANGED <<sticky, using, readded>>

ClearStickyCache ==
  /\ sticky' = [r \in Requests |-> NoServer]
  /\ UNCHANGED <<inflight, using, readded>>

Next ==
  \/ \E r \in Requests :
       \/ \E s \in Servers : AcquireServer(r, s)
       \/ AcquireRaises(r)
       \/ ReleaseServer(r)
  \/ \E S \in SUBSET Servers : AddServers(S) \/ RemoveServers(S)
  \/ ClearStickyCache

Spec == Init /\ [][Next]_vars

-----------------------------------------------------------------------------
(* Properties *)

\* get_inflight_count never reports more requests than hold the server, in
\* whatever order servers come and go and late releases arrive: a release for
\* a removed server, or one that counts zero, is ignored.
NeverOvercounts == \A s \in Pool : inflight[s] <= Cardinality(Users(s))

\* The count is exact for every server that was never registered while it was
\* still held; add_servers is the only call that loses requests.
ExactUnlessReadded ==
  \A s \in Pool \ readded : inflight[s] = Cardinality(Users(s))
=============================================================================
