------------------------- MODULE HybridServingProofs -------------------------
(* The serving layer, for any sets of replicas and requests, any budget and  *)
(* any number of cycles: interrupted requests keep within their budget; the  *)
(* trainer computes alone on its GPUs; between cycles the registered servers *)
(* are ready, with the current weights; and where the trainer does not       *)
(* validate, no attempt sees its weights change or go away.                  *)
(*                                                                           *)
(* The state of a replica in the middle of a cycle makes sense only together *)
(* with the calls the trainer has yet to make.  So the invariant evaluates   *)
(* todo: what each call will find, and what all of them will leave behind.   *)
EXTENDS HybridServing, Integers, SequenceTheorems, TLAPS

-----------------------------------------------------------------------------
(* The token budget *)

Stages == {"idle", "acquiring", "sent", "running", "answered", "failed"}

\* An attempt is begun only with budget left, and ends within its limit.
Budgeted ==
  /\ client \in [Requests -> Stages]
  /\ tokens \in [Requests -> Nat] /\ got \in [Requests -> Nat]
  /\ stop_reason \in [Requests -> {"completed", "aborted"}]
  /\ \A r \in Requests :
       /\ tokens[r] <= Budget
       /\ client[r] \in {"acquiring", "sent", "running"} => tokens[r] < Budget
       /\ client[r] = "running" => tokens[r] + got[r] < Budget
       /\ client[r] = "answered" => tokens[r] + got[r] <= Budget

\* The interruptions of a request never add up to more than response_length
\* tokens.
THEOREM WithinBudgetHolds == Spec => []WithinBudget
<1>0. Budget \in Nat \ {0}
  BY ServingAssumption
<1>1. Init => Budgeted
  BY <1>0 DEF Init, Budgeted, Stages
<1>2. Budgeted /\ [Next]_vars => Budgeted'
  <2> SUFFICES ASSUME Budgeted, [Next]_vars PROVE Budgeted'
    OBVIOUS
  <2> USE DEF Budgeted, Stages
  <2>1. ASSUME NEW r \in Requests, Generate(r) PROVE Budgeted'
    BY <1>0, <2>1 DEF Generate
  <2>2. ASSUME NEW r \in Requests, Acquire(r) \/ AcquireFails(r) PROVE Budgeted'
    BY <1>0, <2>2 DEF Acquire, AcquireFails
  <2>3. ASSUME NEW r \in Requests, Admit(r) PROVE Budgeted'
    BY <1>0, <2>3 DEF Admit
  <2>4. ASSUME NEW r \in Requests, Token(r) PROVE Budgeted'
    <3>1. client[r] = "running" /\ tokens[r] < Budget /\ tokens[r] + got[r] < Budget
      BY <2>4 DEF Token
    <3>2. Limit(r) = Budget - tokens[r]
      BY <3>1 DEF Limit
    <3>3. tokens[r] \in Nat /\ got[r] \in Nat
      OBVIOUS
    <3>4. tokens[r] + (got[r] + 1) <= Budget
      BY <1>0, <3>1, <3>3
    <3>5. got[r] + 1 < Limit(r) => tokens[r] + (got[r] + 1) < Budget
      BY <1>0, <3>2, <3>3
    <3>6. got' = [got EXCEPT ![r] = @ + 1] /\ tokens' = tokens
      BY <2>4 DEF Token
    <3>7. CASE got[r] + 1 < Limit(r) /\ UNCHANGED <<client, stop_reason>>
      BY <3>1, <3>3, <3>5, <3>6, <3>7
    <3>8. CASE /\ client' = [client EXCEPT ![r] = "answered"]
               /\ stop_reason' = [stop_reason EXCEPT ![r] = "completed"]
      BY <3>1, <3>3, <3>4, <3>6, <3>8
    <3>9. QED
      BY <2>4, <3>7, <3>8 DEF Token
  <2>5. ASSUME NEW r \in Requests, Merge(r) PROVE Budgeted'
    BY <1>0, <2>5 DEF Merge
  <2>6. ASSUME NEW r \in Requests, Release(r) PROVE Budgeted'
    BY <2>6 DEF Release, clientVars
  <2>7. ASSUME NEW s \in Servers, Abort(s) PROVE Budgeted'
    <3>1. PICK lost \in SUBSET Running(s) :
            got' = [r \in Requests |-> IF r \in lost THEN 0 ELSE got[r]]
      BY <2>7 DEF Abort
    <3>2. /\ client' = [r \in Requests |->
                          IF r \in Running(s) THEN "answered" ELSE client[r]]
          /\ stop_reason' = [r \in Requests |->
                          IF r \in Running(s) THEN "aborted" ELSE stop_reason[r]]
          /\ tokens' = tokens
      BY <2>7 DEF Abort
    <3>3. \A r \in Running(s) : client[r] = "running"
      BY DEF Running
    <3>4. got' \in [Requests -> Nat] /\ \A r \in Requests : got'[r] <= got[r]
      BY <3>1
    <3>5. ASSUME NEW r \in Requests, client'[r] = "answered"
          PROVE  tokens'[r] + got'[r] <= Budget
      <4>1. client[r] \in {"running", "answered"}
        BY <3>2, <3>3, <3>5
      <4>2. tokens[r] + got[r] <= Budget
        BY <1>0, <4>1
      <4>3. QED
        BY <1>0, <3>2, <3>4, <4>2
    <3>6. ASSUME NEW r \in Requests, client'[r] = "running"
          PROVE  tokens'[r] + got'[r] < Budget
      <4>1. client[r] = "running" /\ r \notin Running(s)
        BY <3>2, <3>6
      <4>2. tokens[r] + got[r] < Budget
        BY <4>1
      <4>3. QED
        BY <1>0, <3>2, <3>4, <4>2
    <3>7. QED
      BY <3>2, <3>4, <3>5, <3>6
  <2>8. ASSUME UNCHANGED clientVars PROVE Budgeted'
    BY <2>8 DEF clientVars
  <2>9. QED
    BY <2>1, <2>2, <2>3, <2>4, <2>5, <2>6, <2>7, <2>8
    DEF Next, Client, Trainer, ResumeGeneration, Drain, Sleep, Update,
        AddReplicas, RemoveReplicas, SetActive, ClearSticky, RebalanceWait,
        Compute, StartFit, FitStep, vars
<1>3. Budgeted => WithinBudget
  BY <1>0 DEF Budgeted, WithinBudget
<1>4. QED
  BY <1>1, <1>2, <1>3, PTL DEF Spec

-----------------------------------------------------------------------------
(* Evaluating the calls of a cycle *)

\* The calls on replicas, and those on none in particular.
Local == {"abort", "resume", "drain", "sleep", "update"}
Global == {"add", "remove", "activated", "deactivated", "clear", "wait",
           "train", "validate"}
Ops == Local \union Global
CallType ==
  {c \in [op : Ops, on : SUBSET Servers] : c.op \in Global => c.on = {}}

\* Call c of kind op concerns replica t.
Hit(c, op, t) == c.op = op /\ (c.on = {} \/ t \in c.on)

\* A property of replica t that calls of kind on bring about and calls of kind
\* off end holds before call i of seq, if its value before seq is v.
Lit(seq, i, on, off, t, v) ==
  \/ \E j \in DOMAIN seq :
       /\ j < i /\ Hit(seq[j], on, t)
       /\ \A k \in DOMAIN seq : j < k /\ k < i => ~Hit(seq[k], off, t)
  \/ v = "on" /\ \A k \in DOMAIN seq : k < i => ~Hit(seq[k], off, t)
At(seq, i, on, off, t, v) == IF Lit(seq, i, on, off, t, v) THEN "on" ELSE "off"
After(seq, on, off, t, v) == At(seq, Len(seq) + 1, on, off, t, v)

\* Every call of kind at finds the property to be as it wants it.
Guard(seq, at, on, off, want, t, v) ==
  \A i \in DOMAIN seq :
    Hit(seq[i], at, t) => At(seq, i, on, off, t, v) = want

\* The elements of a concatenation.
LEMMA ConcatFacts ==
  ASSUME NEW T, NEW a \in Seq(T), NEW b \in Seq(T)
  PROVE  /\ a \o b \in Seq(T) /\ Len(a \o b) = Len(a) + Len(b)
         /\ Len(a) \in Nat /\ Len(b) \in Nat
         /\ DOMAIN a = 1 .. Len(a) /\ DOMAIN b = 1 .. Len(b)
         /\ DOMAIN (a \o b) = 1 .. (Len(a) + Len(b))
         /\ \A k \in 1 .. Len(a) : (a \o b)[k] = a[k]
         /\ \A k \in 1 .. Len(b) : (a \o b)[Len(a) + k] = b[k]
OBVIOUS

\* Before a call of b, the property is what the earlier calls of b make of the
\* value that a leaves.
LEMMA LitConcat ==
  ASSUME NEW a \in Seq(CallType), NEW b \in Seq(CallType),
         NEW on, NEW off, NEW t, NEW v
  PROVE  /\ \A i \in 1 .. Len(a) :
              At(a \o b, i, on, off, t, v) = At(a, i, on, off, t, v)
         /\ \A m \in 1 .. (Len(b) + 1) :
              At(a \o b, Len(a) + m, on, off, t, v) =
              At(b, m, on, off, t, After(a, on, off, t, v))
<1> DEFINE c == a \o b
           n == Len(a)
           l == Len(b)
<1>1. /\ n \in Nat /\ l \in Nat /\ DOMAIN a = 1 .. n /\ DOMAIN b = 1 .. l
      /\ DOMAIN c = 1 .. (n + l)
      /\ \A k \in 1 .. n : c[k] = a[k]
      /\ \A k \in 1 .. l : c[n + k] = b[k]
  BY ConcatFacts
<1> HIDE DEF c, n, l
<1>2. \A k \in 1 .. (n + l) : k > n => k - n \in 1 .. l /\ c[k] = b[k - n]
  <2>1. ASSUME NEW k \in 1 .. (n + l), k > n
        PROVE  k - n \in 1 .. l /\ c[k] = b[k - n]
    <3>1. k - n \in 1 .. l /\ n + (k - n) = k
      BY <1>1, <2>1
    <3>2. QED
      BY <1>1, <3>1
  <2>2. QED
    BY <2>1
<1>3. ASSUME NEW i \in 1 .. n
      PROVE  Lit(c, i, on, off, t, v) <=> Lit(a, i, on, off, t, v)
  <2>1. \A k \in 1 .. (n + l) : k < i => k \in 1 .. n
    BY <1>1
  <2>2. \A k \in 1 .. n : k \in 1 .. (n + l)
    BY <1>1
  <2>3. ASSUME Lit(c, i, on, off, t, v) PROVE Lit(a, i, on, off, t, v)
    BY <1>1, <2>1, <2>2, <2>3 DEF Lit
  <2>4. ASSUME Lit(a, i, on, off, t, v) PROVE Lit(c, i, on, off, t, v)
    BY <1>1, <2>1, <2>2, <2>4 DEF Lit
  <2>5. QED
    BY <2>3, <2>4
<1>4. ASSUME NEW m \in 1 .. (l + 1), NEW w, w = After(a, on, off, t, v)
      PROVE  Lit(c, n + m, on, off, t, v) <=> Lit(b, m, on, off, t, w)
  <2>1. w = "on" <=> Lit(a, n + 1, on, off, t, v)
    BY <1>4 DEF After, At, n
  <2>2. ASSUME Lit(c, n + m, on, off, t, v) PROVE Lit(b, m, on, off, t, w)
    <3>0. \A k \in 1 .. l : /\ k < m <=> n + k < n + m
                            /\ n + k \in 1 .. (n + l) /\ n + k > n
      BY <1>1
    <3>1. CASE v = "on" /\ \A k \in DOMAIN c : k < n + m => ~Hit(c[k], off, t)
      <4>1. \A k \in 1 .. n : k < n + m /\ k \in DOMAIN c
        BY <1>1
      <4>2. \A k \in DOMAIN a : k < n + 1 => ~Hit(a[k], off, t)
        BY <1>1, <3>1, <4>1
      <4>3. w = "on"
        BY <2>1, <3>1, <4>2 DEF Lit
      <4>4. \A k \in DOMAIN b : k < m => ~Hit(b[k], off, t)
        BY <1>1, <3>0, <3>1
      <4>5. QED
        BY <4>3, <4>4 DEF Lit
    <3>2. CASE \E j \in DOMAIN c :
                 /\ j < n + m /\ Hit(c[j], on, t)
                 /\ \A k \in DOMAIN c : j < k /\ k < n + m => ~Hit(c[k], off, t)
      <4>1. PICK j \in DOMAIN c :
              /\ j < n + m /\ Hit(c[j], on, t)
              /\ \A k \in DOMAIN c : j < k /\ k < n + m => ~Hit(c[k], off, t)
        BY <3>2
      <4>2. CASE j > n
        <5>1. PICK h \in 1 .. l : h = j - n /\ c[j] = b[h]
          BY <1>1, <1>2, <4>1, <4>2
        <5>2. h < m
          BY <1>1, <4>1, <5>1
        <5>3. \A k \in 1 .. l : h < k /\ k < m =>
                n + k \in DOMAIN c /\ j < n + k /\ n + k < n + m
          BY <1>1, <4>1, <5>1
        <5>4. \A k \in 1 .. l : h < k /\ k < m => ~Hit(b[k], off, t)
          BY <1>1, <4>1, <5>3
        <5>5. QED
          BY <1>1, <4>1, <5>1, <5>2, <5>4 DEF Lit
      <4>3. CASE ~(j > n)
        <5>1. j \in 1 .. n /\ c[j] = a[j]
          BY <1>1, <4>1, <4>3
        <5>2. \A k \in 1 .. l : k < m =>
                n + k \in DOMAIN c /\ j < n + k /\ n + k < n + m
          BY <1>1, <5>1
        <5>3. \A k \in DOMAIN b : k < m => ~Hit(b[k], off, t)
          BY <1>1, <4>1, <5>2
        <5>4. \A k \in 1 .. n : k \in DOMAIN c /\ k < n + m
          BY <1>1
        <5>5. \A k \in 1 .. n : j < k => ~Hit(a[k], off, t)
          BY <1>1, <4>1, <5>4
        <5>6. Lit(a, n + 1, on, off, t, v)
          <6>1. j < n + 1
            BY <1>1, <5>1
          <6>2. QED
            BY <1>1, <4>1, <5>1, <5>5, <6>1 DEF Lit
        <5>7. QED
          BY <2>1, <5>3, <5>6 DEF Lit
      <4>4. QED
        BY <4>2, <4>3
    <3>3. QED
      BY <2>2, <3>1, <3>2 DEF Lit
  <2>3. ASSUME Lit(b, m, on, off, t, w) PROVE Lit(c, n + m, on, off, t, v)
    <3>1. CASE \E j \in DOMAIN b :
                 /\ j < m /\ Hit(b[j], on, t)
                 /\ \A k \in DOMAIN b : j < k /\ k < m => ~Hit(b[k], off, t)
      <4>1. PICK j \in 1 .. l :
              /\ j < m /\ Hit(b[j], on, t)
              /\ \A k \in 1 .. l : j < k /\ k < m => ~Hit(b[k], off, t)
        BY <1>1, <3>1
      <4>2. n + j \in DOMAIN c /\ n + j < n + m /\ c[n + j] = b[j]
        BY <1>1, <4>1
      <4>3. \A k \in 1 .. (n + l) : n + j < k /\ k < n + m =>
              k - n \in 1 .. l /\ j < k - n /\ k - n < m /\ c[k] = b[k - n]
        BY <1>1, <1>2, <4>1
      <4>4. \A k \in DOMAIN c : n + j < k /\ k < n + m => ~Hit(c[k], off, t)
        BY <1>1, <4>1, <4>3
      <4>5. QED
        BY <4>1, <4>2, <4>4 DEF Lit
    <3>2. CASE w = "on" /\ \A k \in DOMAIN b : k < m => ~Hit(b[k], off, t)
      <4>1. \A k \in 1 .. (n + l) : k > n /\ k < n + m =>
              k - n \in 1 .. l /\ k - n < m /\ c[k] = b[k - n]
        BY <1>1, <1>2
      <4>2. \A k \in 1 .. (n + l) : k > n /\ k < n + m => ~Hit(c[k], off, t)
        BY <1>1, <3>2, <4>1
      <4>3. Lit(a, n + 1, on, off, t, v)
        BY <2>1, <3>2
      <4>4. CASE v = "on" /\ \A k \in DOMAIN a : k < n + 1 => ~Hit(a[k], off, t)
        <5>1. \A k \in 1 .. n : k < n + 1
          BY <1>1
        <5>2. \A k \in 1 .. n : ~Hit(c[k], off, t)
          BY <1>1, <4>4, <5>1
        <5>3. \A k \in 1 .. (n + l) : k \in 1 .. n \/ k > n
          BY <1>1
        <5>4. \A k \in DOMAIN c : k < n + m => ~Hit(c[k], off, t)
          BY <1>1, <4>2, <5>2, <5>3
        <5>5. QED
          BY <4>4, <5>4 DEF Lit
      <4>5. CASE \E j \in DOMAIN a :
                   /\ j < n + 1 /\ Hit(a[j], on, t)
                   /\ \A k \in DOMAIN a : j < k /\ k < n + 1 => ~Hit(a[k], off, t)
        <5>1. PICK j \in 1 .. n :
                /\ Hit(a[j], on, t)
                /\ \A k \in 1 .. n : j < k /\ k < n + 1 => ~Hit(a[k], off, t)
          BY <1>1, <4>5
        <5>2. j \in DOMAIN c /\ c[j] = a[j] /\ j < n + m
          BY <1>1, <5>1
        <5>3. \A k \in 1 .. (n + l) : k > n \/ (k \in 1 .. n /\ k < n + 1)
          BY <1>1
        <5>4. \A k \in DOMAIN c : j < k /\ k < n + m => ~Hit(c[k], off, t)
          BY <1>1, <4>2, <5>1, <5>3
        <5>5. QED
          BY <5>1, <5>2, <5>4 DEF Lit
      <4>6. QED
        BY <4>3, <4>4, <4>5 DEF Lit
    <3>3. QED
      BY <2>3, <3>1, <3>2 DEF Lit
  <2>4. QED
    BY <2>2, <2>3
<1>5. \A i \in 1 .. n : At(c, i, on, off, t, v) = At(a, i, on, off, t, v)
  BY <1>3 DEF At
<1>6. \A m \in 1 .. (l + 1) :
        At(c, n + m, on, off, t, v) =
        At(b, m, on, off, t, After(a, on, off, t, v))
  BY <1>4 DEF At
<1>7. QED
  BY <1>5, <1>6 DEF c, n, l

\* Evaluation goes through a concatenation from left to right.
LEMMA ConcatEval ==
  ASSUME NEW a \in Seq(CallType), NEW b \in Seq(CallType),
         NEW on, NEW off, NEW t, NEW v
  PROVE  /\ After(a \o b, on, off, t, v) =
              After(b, on, off, t, After(a, on, off, t, v))
         /\ \A at, want :
              Guard(a \o b, at, on, off, want, t, v) <=>
                /\ Guard(a, at, on, off, want, t, v)
                /\ Guard(b, at, on, off, want, t, After(a, on, off, t, v))
<1> DEFINE c == a \o b
           n == Len(a)
           l == Len(b)
           w == After(a, on, off, t, v)
<1>1. /\ n \in Nat /\ l \in Nat /\ DOMAIN a = 1 .. n /\ DOMAIN b = 1 .. l
      /\ DOMAIN c = 1 .. (n + l) /\ Len(c) = n + l
      /\ \A k \in 1 .. n : c[k] = a[k]
      /\ \A k \in 1 .. l : c[n + k] = b[k]
  BY ConcatFacts
<1>2. /\ \A k \in 1 .. n : At(c, k, on, off, t, v) = At(a, k, on, off, t, v)
      /\ \A m \in 1 .. (l + 1) :
           At(c, n + m, on, off, t, v) = At(b, m, on, off, t, w)
  BY LitConcat
<1>3. After(c, on, off, t, v) = After(b, on, off, t, w)
  <2>1. After(c, on, off, t, v) = At(c, n + l + 1, on, off, t, v)
        /\ After(b, on, off, t, w) = At(b, l + 1, on, off, t, w)
    BY <1>1 DEF After
  <2>2. l + 1 \in 1 .. (l + 1) /\ n + l + 1 = n + (l + 1)
    BY <1>1
  <2>3. QED
    BY <1>2, <2>1, <2>2
<1> HIDE DEF c, n, l, w
<1>4. ASSUME NEW at, NEW want
      PROVE  Guard(c, at, on, off, want, t, v) <=>
               Guard(a, at, on, off, want, t, v) /\ Guard(b, at, on, off, want, t, w)
  <2>1. \A k \in 1 .. n : k \in 1 .. (n + l)
    BY <1>1
  <2>2. \A k \in 1 .. l : n + k \in 1 .. (n + l) /\ k \in 1 .. (l + 1)
    BY <1>1
  <2>3. \A k \in 1 .. (n + l) : k \in 1 .. n \/ \E m \in 1 .. l : k = n + m
    <3>1. \A k \in 1 .. (n + l) : ~(k \in 1 .. n) => k - n \in 1 .. l /\ k = n + (k - n)
      BY <1>1
    <3>2. QED
      BY <3>1
  <2>4. ASSUME Guard(c, at, on, off, want, t, v)
        PROVE  Guard(a, at, on, off, want, t, v) /\ Guard(b, at, on, off, want, t, w)
    <3>1. Guard(a, at, on, off, want, t, v)
      BY <1>1, <1>2, <2>1, <2>4 DEF Guard
    <3>2. ASSUME NEW k \in 1 .. l, Hit(b[k], at, t)
          PROVE  At(b, k, on, off, t, w) = want
      <4>1. n + k \in DOMAIN c /\ Hit(c[n + k], at, t)
        BY <1>1, <2>2, <3>2
      <4>2. At(c, n + k, on, off, t, v) = want
        BY <2>4, <4>1 DEF Guard
      <4>3. QED
        BY <1>2, <2>2, <4>2
    <3>3. QED
      BY <1>1, <3>1, <3>2 DEF Guard
  <2>5. ASSUME Guard(a, at, on, off, want, t, v), Guard(b, at, on, off, want, t, w)
        PROVE  Guard(c, at, on, off, want, t, v)
    <3>1. ASSUME NEW k \in 1 .. (n + l), Hit(c[k], at, t)
          PROVE  At(c, k, on, off, t, v) = want
      <4>1. CASE k \in 1 .. n
        BY <1>1, <1>2, <2>5, <3>1, <4>1 DEF Guard
      <4>2. CASE \E m \in 1 .. l : k = n + m
        <5>1. PICK m \in 1 .. l : k = n + m
          BY <4>2
        <5>2. At(b, m, on, off, t, w) = want
          BY <1>1, <2>5, <3>1, <5>1 DEF Guard
        <5>3. QED
          BY <1>2, <2>2, <5>1, <5>2
      <4>3. QED
        BY <2>3, <4>1, <4>2
    <3>2. QED
      BY <1>1, <3>1 DEF Guard
  <2>6. QED
    BY <2>4, <2>5
<1>5. QED
  BY <1>3, <1>4 DEF c, w

Bits == {"on", "off"}

\* No call.
LEMMA NoneEval ==
  ASSUME NEW on, NEW off, NEW t, NEW v \in Bits
  PROVE  /\ After(<<>>, on, off, t, v) = v
         /\ \A at, want : Guard(<<>>, at, on, off, want, t, v)
<1>1. PICK z : z = <<>>
  OBVIOUS
<1>2. DOMAIN z = {}
  BY <1>1
<1>3. \A i : Lit(z, i, on, off, t, v) <=> v = "on"
  BY <1>2 DEF Lit
<1>4. After(z, on, off, t, v) = v
  BY <1>3 DEF After, At, Bits
<1>5. \A at, want : Guard(z, at, on, off, want, t, v)
  BY <1>2 DEF Guard
<1>6. QED
  BY <1>1, <1>4, <1>5

\* A single call.
LEMMA OneEval ==
  ASSUME NEW c \in CallType, NEW on, NEW off, NEW t, NEW v \in Bits
  PROVE  /\ After(<<c>>, on, off, t, v) =
              IF Hit(c, on, t) THEN "on" ELSE IF Hit(c, off, t) THEN "off" ELSE v
         /\ \A at, want : Guard(<<c>>, at, on, off, want, t, v) <=>
                            (Hit(c, at, t) => v = want)
<1>1. /\ DOMAIN <<c>> = {1} /\ <<c>>[1] = c /\ Len(<<c>>) = 1
  OBVIOUS
<1>2. PICK e : e = <<c>>
  OBVIOUS
<1>3. /\ DOMAIN e = {1} /\ e[1] = c /\ Len(e) = 1
  BY <1>1, <1>2
<1>4. Lit(e, 2, on, off, t, v) <=> Hit(c, on, t) \/ (v = "on" /\ ~Hit(c, off, t))
  BY <1>3 DEF Lit
<1>5. Lit(e, 1, on, off, t, v) <=> v = "on"
  BY <1>3 DEF Lit
<1>6. After(e, on, off, t, v) =
        IF Hit(c, on, t) THEN "on" ELSE IF Hit(c, off, t) THEN "off" ELSE v
  <2>1. After(e, on, off, t, v) = At(e, 2, on, off, t, v)
    BY <1>3 DEF After
  <2>2. QED
    BY <1>4, <2>1 DEF At, Bits
<1>7. At(e, 1, on, off, t, v) = v
  BY <1>5 DEF At, Bits
<1>8. \A at, want : Guard(e, at, on, off, want, t, v) <=> (Hit(c, at, t) => v = want)
  BY <1>3, <1>7 DEF Guard
<1>9. QED
  BY <1>2, <1>6, <1>8

\* What matters of a replica: whether its engine is paused and asleep, has the
\* current weights, is registered, and whether hybrid replicas are active.
Status == [paused : Bits, asleep : Bits, fresh : Bits, pool : Bits, active : Bits]
Stat(p, z, f, l, a) ==
  [paused |-> p, asleep |-> z, fresh |-> f, pool |-> l, active |-> a]

\* The status after the calls seq.
Run(seq, t, x) ==
  Stat(After(seq, "abort", "resume", t, x.paused),
       After(seq, "sleep", "update", t, x.asleep),
       After(seq, "update", "train", t, x.fresh),
       After(seq, "add", "remove", t, x.pool),
       After(seq, "activated", "deactivated", t, x.active))

\* The trainer computes while hybrid replicas sleep.
Alone(seq, t, x) ==
  t \in Hybrid => Guard(seq, "train", "sleep", "update", "on", t, x.asleep)

\* Weights are updated and freed only in a paused engine, and only replicas
\* that are awake are resumed or registered.
Careful(seq, t, x) ==
  /\ Guard(seq, "update", "abort", "resume", "on", t, x.paused)
  /\ Guard(seq, "sleep", "abort", "resume", "on", t, x.paused)
  /\ Guard(seq, "resume", "sleep", "update", "off", t, x.asleep)
  /\ t \in Hybrid => Guard(seq, "add", "sleep", "update", "off", t, x.asleep)

\* The calls seq are made in the right states and lead from x to y.
Leads(seq, t, x, y) ==
  /\ seq \in Seq(CallType) /\ x \in Status /\ y \in Status /\ Run(seq, t, x) = y
  /\ Alone(seq, t, x) /\ (trainer_validates \/ Careful(seq, t, x))

\* The effect of one call, and what it wants.
Do(op, x) ==
  Stat(IF op = "abort" THEN "on" ELSE IF op = "resume" THEN "off" ELSE x.paused,
       IF op = "sleep" THEN "on" ELSE IF op = "update" THEN "off" ELSE x.asleep,
       IF op = "update" THEN "on" ELSE IF op = "train" THEN "off" ELSE x.fresh,
       IF op = "add" THEN "on" ELSE IF op = "remove" THEN "off" ELSE x.pool,
       IF op = "activated" THEN "on" ELSE IF op = "deactivated" THEN "off"
                                     ELSE x.active)
Wants(op, t, x) ==
  /\ op \in {"update", "sleep"} => x.paused = "on"
  /\ op = "resume" \/ (op = "add" /\ t \in Hybrid) => x.asleep = "off"
Ready(op, t, x) ==
  /\ t \in Hybrid /\ op = "train" => x.asleep = "on"
  /\ trainer_validates \/ Wants(op, t, x)

\* A status evaluates to a status.
LEMMA RunStatus ==
  ASSUME NEW seq, NEW t, NEW x
  PROVE  Run(seq, t, x) \in Status
BY DEF Run, Stat, Status, Bits, After, At

\* The fields of a status.
LEMMA StatFields ==
  ASSUME NEW p, NEW z, NEW f, NEW l, NEW a
  PROVE  /\ Stat(p, z, f, l, a).paused = p /\ Stat(p, z, f, l, a).asleep = z
         /\ Stat(p, z, f, l, a).fresh = f /\ Stat(p, z, f, l, a).pool = l
         /\ Stat(p, z, f, l, a).active = a
BY DEF Stat

\* Calls that lead from x to y, and then others that lead from y to z.
LEMMA LeadsConcat ==
  ASSUME NEW a, NEW b, NEW t, NEW x, NEW y, NEW z,
         Leads(a, t, x, y), Leads(b, t, y, z)
  PROVE  Leads(a \o b, t, x, z)
<1>1. /\ a \in Seq(CallType) /\ b \in Seq(CallType)
      /\ Run(a, t, x) = y /\ Run(b, t, y) = z /\ x \in Status /\ z \in Status
  BY DEF Leads
<1>2. /\ y.paused = After(a, "abort", "resume", t, x.paused)
      /\ y.asleep = After(a, "sleep", "update", t, x.asleep)
      /\ y.fresh = After(a, "update", "train", t, x.fresh)
      /\ y.pool = After(a, "add", "remove", t, x.pool)
      /\ y.active = After(a, "activated", "deactivated", t, x.active)
  BY <1>1, StatFields DEF Run
<1>3. Run(a \o b, t, x) = z
  BY <1>1, <1>2, ConcatEval DEF Run
<1>4. Alone(a \o b, t, x)
  <2>1. Alone(a, t, x) /\ Alone(b, t, y)
    BY DEF Leads
  <2>2. QED
    BY <1>1, <1>2, <2>1, ConcatEval DEF Alone
<1>5. trainer_validates \/ Careful(a \o b, t, x)
  <2>1. SUFFICES ASSUME ~trainer_validates PROVE Careful(a \o b, t, x)
    OBVIOUS
  <2>2. Careful(a, t, x) /\ Careful(b, t, y)
    BY <2>1 DEF Leads
  <2>3. QED
    BY <1>1, <1>2, <2>2, ConcatEval DEF Careful
<1>6. a \o b \in Seq(CallType)
  BY <1>1, ConcatFacts
<1>7. QED
  BY <1>1, <1>3, <1>4, <1>5, <1>6 DEF Leads

\* One call: it takes effect on the replicas it concerns.
LEMMA LeadsOne ==
  ASSUME NEW c \in CallType, NEW t \in Servers, NEW x \in Status,
         Hit(c, c.op, t) => Ready(c.op, t, x)
  PROVE  Leads(<<c>>, t, x, IF Hit(c, c.op, t) THEN Do(c.op, x) ELSE x)
<1>1. \A op : Hit(c, op, t) <=> (op = c.op /\ Hit(c, c.op, t))
  BY DEF Hit
<1>2. /\ x.paused \in Bits /\ x.asleep \in Bits /\ x.fresh \in Bits
      /\ x.pool \in Bits /\ x.active \in Bits
      /\ x = Stat(x.paused, x.asleep, x.fresh, x.pool, x.active)
  BY DEF Status, Stat
<1>3. <<c>> \in Seq(CallType)
  OBVIOUS
<1>4. Run(<<c>>, t, x) = IF Hit(c, c.op, t) THEN Do(c.op, x) ELSE x
  <2>1. CASE Hit(c, c.op, t)
    BY <1>1, <1>2, <2>1, OneEval DEF Run, Do
  <2>2. CASE ~Hit(c, c.op, t)
    BY <1>1, <1>2, <2>2, OneEval DEF Run
  <2>3. QED
    BY <2>1, <2>2
<1>5. Alone(<<c>>, t, x)
  BY <1>1, <1>2, OneEval DEF Alone, Ready
<1>6. trainer_validates \/ Careful(<<c>>, t, x)
  BY <1>1, <1>2, OneEval DEF Careful, Ready, Wants
<1>7. Run(<<c>>, t, x) \in Status
  BY RunStatus
<1>8. QED
  BY <1>3, <1>4, <1>5, <1>6, <1>7 DEF Leads

\* No call at all.
LEMMA LeadsNone ==
  ASSUME NEW t, NEW x \in Status
  PROVE  Leads(<<>>, t, x, x)
<1>1. /\ x.paused \in Bits /\ x.asleep \in Bits /\ x.fresh \in Bits
      /\ x.pool \in Bits /\ x.active \in Bits
      /\ x = Stat(x.paused, x.asleep, x.fresh, x.pool, x.active)
  BY DEF Status, Stat
<1>3. Run(<<>>, t, x) = x
  BY <1>1, NoneEval DEF Run
<1>4. Alone(<<>>, t, x) /\ Careful(<<>>, t, x)
  BY <1>1, NoneEval DEF Alone, Careful
<1>5. <<>> \in Seq(CallType)
  OBVIOUS
<1>6. QED
  BY <1>3, <1>4, <1>5 DEF Leads

\* A call on each replica of a set.
LEMMA LeadsEach ==
  ASSUME NEW op \in Local, NEW S \in SUBSET Servers, NEW t \in Servers,
         NEW x \in Status, t \in S => Ready(op, t, x)
  PROVE  Leads(Each(op, S), t, x, IF t \in S THEN Do(op, x) ELSE x)
<1>1. CASE S = {}
  BY <1>1, LeadsNone DEF Each
<1>2. CASE S # {}
  <2>1. PICK c : c = [op |-> op, on |-> S]
    OBVIOUS
  <2>2. c \in CallType /\ c.op = op /\ (Hit(c, c.op, t) <=> t \in S)
    BY <1>2, <2>1 DEF CallType, Hit, Ops, Local, Global
  <2>3. Leads(<<c>>, t, x, IF t \in S THEN Do(op, x) ELSE x)
    BY <2>2, LeadsOne
  <2>4. QED
    BY <1>2, <2>1, <2>3 DEF Each
<1>3. QED
  BY <1>1, <1>2

\* A call on no replica in particular.
LEMMA LeadsCall ==
  ASSUME NEW op \in Ops, NEW t \in Servers, NEW x \in Status, Ready(op, t, x)
  PROVE  Leads(Call(op), t, x, Do(op, x))
<1>1. PICK c : c = [op |-> op, on |-> {}]
  OBVIOUS
<1>2. c \in CallType /\ c.op = op /\ Hit(c, c.op, t)
  BY <1>1 DEF CallType, Hit
<1>3. Leads(<<c>>, t, x, Do(op, x))
  BY <1>2, LeadsOne
<1>4. QED
  BY <1>1, <1>3 DEF Call

-----------------------------------------------------------------------------
(* The parts of a cycle *)

\* Effects of the calls, and a status in terms of its fields.
LEMMA DoFacts ==
  ASSUME NEW p \in Bits, NEW z \in Bits, NEW f \in Bits, NEW l \in Bits,
         NEW a \in Bits
  PROVE  /\ Stat(p, z, f, l, a) \in Status
         /\ Do("abort", Stat(p, z, f, l, a)) = Stat("on", z, f, l, a)
         /\ Do("resume", Stat(p, z, f, l, a)) = Stat("off", z, f, l, a)
         /\ Do("sleep", Stat(p, z, f, l, a)) = Stat(p, "on", f, l, a)
         /\ Do("update", Stat(p, z, f, l, a)) = Stat(p, "off", "on", l, a)
         /\ Do("train", Stat(p, z, f, l, a)) = Stat(p, z, "off", l, a)
         /\ Do("add", Stat(p, z, f, l, a)) = Stat(p, z, f, "on", a)
         /\ Do("remove", Stat(p, z, f, l, a)) = Stat(p, z, f, "off", a)
         /\ Do("activated", Stat(p, z, f, l, a)) = Stat(p, z, f, l, "on")
         /\ Do("deactivated", Stat(p, z, f, l, a)) = Stat(p, z, f, l, "off")
         /\ \A op \in {"drain", "clear", "wait", "validate"} :
              Do(op, Stat(p, z, f, l, a)) = Stat(p, z, f, l, a)
BY DEF Do, Stat, Status, Bits

\* A call on the replicas S, for a replica that is one of them and for one that
\* is not.
LEMMA EachIn ==
  ASSUME NEW op \in Local, NEW S \in SUBSET Servers, NEW t \in S,
         NEW x \in Status, Ready(op, t, x)
  PROVE  Leads(Each(op, S), t, x, Do(op, x))
BY LeadsEach

\* The same for a replica that is not one of them.
LEMMA EachOut ==
  ASSUME NEW op \in Local, NEW S \in SUBSET Servers, NEW t \in Servers \ S,
         NEW x \in Status
  PROVE  Leads(Each(op, S), t, x, x)
BY LeadsEach

\* The two kinds of replicas.
LEMMA Kinds ==
  /\ Standalone \in SUBSET Servers /\ Hybrid \in SUBSET Servers
  /\ Servers \in SUBSET Servers
  /\ \A t \in Servers : t \in Standalone <=> t \notin Hybrid
  /\ Standalone \subseteq Servers \ Hybrid /\ Hybrid \subseteq Servers \ Standalone
BY ServingAssumption DEF Servers

\* update_weights of the standalone replicas.
LEMMA UpdateStandaloneLeads ==
  ASSUME NEW p \in Bits, NEW z \in Bits, NEW f \in Bits, NEW l \in Bits,
         NEW a \in Bits
  PROVE  /\ \A t \in Standalone :
              Leads(UpdateStandalone, t, Stat(p, z, f, l, a),
                    Stat("off", "off", "on", l, a))
         /\ \A t \in Hybrid :
              Leads(UpdateStandalone, t, Stat(p, z, f, l, a), Stat(p, z, f, l, a))
<1> USE Kinds DEF Local, Global, Ops, Bits
<1>1. ASSUME NEW t \in Standalone
      PROVE  Leads(UpdateStandalone, t, Stat(p, z, f, l, a),
                   Stat("off", "off", "on", l, a))
  <2>1. Leads(Each("abort", Standalone), t, Stat(p, z, f, l, a),
              Stat("on", z, f, l, a))
    BY EachIn, DoFacts DEF Ready, Wants
  <2>2. Leads(Each("drain", Standalone), t, Stat("on", z, f, l, a),
              Stat("on", z, f, l, a))
    BY EachIn, DoFacts DEF Ready, Wants
  <2>3. Leads(Each("update", Standalone), t, Stat("on", z, f, l, a),
              Stat("on", "off", "on", l, a))
    BY EachIn, DoFacts, StatFields DEF Ready, Wants
  <2>4. Leads(Each("resume", Standalone), t, Stat("on", "off", "on", l, a),
              Stat("off", "off", "on", l, a))
    BY EachIn, DoFacts, StatFields DEF Ready, Wants
  <2>5. Leads(Each("abort", Standalone) \o Each("drain", Standalone), t,
              Stat(p, z, f, l, a), Stat("on", z, f, l, a))
    BY <2>1, <2>2, LeadsConcat
  <2>6. Leads(Each("abort", Standalone) \o Each("drain", Standalone)
                \o Each("update", Standalone), t,
              Stat(p, z, f, l, a), Stat("on", "off", "on", l, a))
    BY <2>3, <2>5, LeadsConcat
  <2>7. QED
    BY <2>4, <2>6, LeadsConcat DEF UpdateStandalone
<1>2. ASSUME NEW t \in Hybrid
      PROVE  Leads(UpdateStandalone, t, Stat(p, z, f, l, a), Stat(p, z, f, l, a))
  <2>1. PICK x \in Status : x = Stat(p, z, f, l, a)
    BY DoFacts
  <2>2. \A op \in Local : Leads(Each(op, Standalone), t, x, x)
    BY EachOut
  <2>3. Leads(Each("abort", Standalone) \o Each("drain", Standalone), t, x, x)
    BY <2>2, LeadsConcat
  <2>4. Leads(Each("abort", Standalone) \o Each("drain", Standalone)
                \o Each("update", Standalone), t, x, x)
    BY <2>2, <2>3, LeadsConcat
  <2>5. Leads(UpdateStandalone, t, x, x)
    BY <2>2, <2>4, LeadsConcat DEF UpdateStandalone
  <2>6. QED
    BY <2>1, <2>5
<1>3. QED
  BY <1>1, <1>2

\* _sync_hybrid_weights.
LEMMA SyncHybridLeads ==
  ASSUME NEW p \in Bits, NEW z \in Bits, NEW f \in Bits, NEW l \in Bits,
         NEW a \in Bits
  PROVE  /\ \A t \in Hybrid :
              Leads(SyncHybridWeights, t, Stat(p, z, f, l, a),
                    Stat("off", "off", "on", l, a))
         /\ \A t \in Standalone :
              Leads(SyncHybridWeights, t, Stat(p, z, f, l, a), Stat(p, z, f, l, a))
<1> USE Kinds DEF Local, Global, Ops, Bits
<1>1. ASSUME NEW t \in Hybrid
      PROVE  Leads(SyncHybridWeights, t, Stat(p, z, f, l, a),
                   Stat("off", "off", "on", l, a))
  <2>1. Leads(Each("abort", Hybrid), t, Stat(p, z, f, l, a), Stat("on", z, f, l, a))
    BY EachIn, DoFacts DEF Ready, Wants
  <2>2. Leads(Each("update", Hybrid), t, Stat("on", z, f, l, a),
              Stat("on", "off", "on", l, a))
    BY EachIn, DoFacts, StatFields DEF Ready, Wants
  <2>3. Leads(Each("resume", Hybrid), t, Stat("on", "off", "on", l, a),
              Stat("off", "off", "on", l, a))
    BY EachIn, DoFacts, StatFields DEF Ready, Wants
  <2>4. Leads(Each("abort", Hybrid) \o Each("update", Hybrid), t,
              Stat(p, z, f, l, a), Stat("on", "off", "on", l, a))
    BY <2>1, <2>2, LeadsConcat
  <2>5. QED
    BY <2>3, <2>4, LeadsConcat DEF SyncHybridWeights
<1>2. ASSUME NEW t \in Standalone
      PROVE  Leads(SyncHybridWeights, t, Stat(p, z, f, l, a), Stat(p, z, f, l, a))
  <2>1. PICK x \in Status : x = Stat(p, z, f, l, a)
    BY DoFacts
  <2>2. \A op \in Local : Leads(Each(op, Hybrid), t, x, x)
    BY EachOut
  <2>3. Leads(Each("abort", Hybrid) \o Each("update", Hybrid), t, x, x)
    BY <2>2, LeadsConcat
  <2>4. Leads(SyncHybridWeights, t, x, x)
    BY <2>2, <2>3, LeadsConcat DEF SyncHybridWeights
  <2>5. QED
    BY <2>1, <2>4
<1>3. QED
  BY <1>1, <1>2

\* _activate_hybrid_replicas, of replicas that are awake.
LEMMA ActivateLeads ==
  ASSUME NEW p \in Bits, NEW z \in Bits, NEW f \in Bits, NEW l \in Bits,
         NEW a \in Bits
  PROVE  /\ \A t \in Hybrid :
              Leads(ActivateHybridReplicas, t, Stat(p, "off", f, l, a),
                    Stat("off", "off", f, "on", "on"))
         /\ \A t \in Standalone :
              Leads(ActivateHybridReplicas, t, Stat(p, z, f, l, a),
                    Stat(p, z, f, "on", "on"))
<1> USE Kinds DEF Local, Global, Ops, Bits
<1>1. ASSUME NEW t \in Hybrid
      PROVE  Leads(ActivateHybridReplicas, t, Stat(p, "off", f, l, a),
                   Stat("off", "off", f, "on", "on"))
  <2>1. Leads(Call("add"), t, Stat(p, "off", f, l, a), Stat(p, "off", f, "on", a))
    BY LeadsCall, DoFacts, StatFields DEF Ready, Wants
  <2>2. Leads(Each("resume", Hybrid), t, Stat(p, "off", f, "on", a),
              Stat("off", "off", f, "on", a))
    BY EachIn, DoFacts, StatFields DEF Ready, Wants
  <2>3. Leads(Call("activated"), t, Stat("off", "off", f, "on", a),
              Stat("off", "off", f, "on", "on"))
    BY LeadsCall, DoFacts DEF Ready, Wants
  <2>4. Leads(Call("add") \o Each("resume", Hybrid), t, Stat(p, "off", f, l, a),
              Stat("off", "off", f, "on", a))
    BY <2>1, <2>2, LeadsConcat
  <2>5. QED
    BY <2>3, <2>4, LeadsConcat DEF ActivateHybridReplicas
<1>2. ASSUME NEW t \in Standalone
      PROVE  Leads(ActivateHybridReplicas, t, Stat(p, z, f, l, a),
                   Stat(p, z, f, "on", "on"))
  <2>1. Leads(Call("add"), t, Stat(p, z, f, l, a), Stat(p, z, f, "on", a))
    BY LeadsCall, DoFacts DEF Ready, Wants
  <2>2. Leads(Each("resume", Hybrid), t, Stat(p, z, f, "on", a),
              Stat(p, z, f, "on", a))
    BY EachOut, DoFacts
  <2>3. Leads(Call("activated"), t, Stat(p, z, f, "on", a), Stat(p, z, f, "on", "on"))
    BY LeadsCall, DoFacts DEF Ready, Wants
  <2>4. Leads(Call("add") \o Each("resume", Hybrid), t, Stat(p, z, f, l, a),
              Stat(p, z, f, "on", a))
    BY <2>1, <2>2, LeadsConcat
  <2>5. QED
    BY <2>3, <2>4, LeadsConcat DEF ActivateHybridReplicas
<1>3. QED
  BY <1>1, <1>2

\* rebalance_requests, of replicas that are awake.
LEMMA RebalanceLeads ==
  ASSUME NEW f \in Bits, NEW l \in Bits, NEW a \in Bits, NEW t \in Servers
  PROVE  Leads(RebalanceRequests, t, Stat("off", "off", f, l, a),
               Stat("off", "off", f, l, a))
<1> USE Kinds DEF Local, Global, Ops, Bits
<1>0. PICK x \in Status, y \in Status :
        x = Stat("off", "off", f, l, a) /\ y = Stat("on", "off", f, l, a)
  BY DoFacts
<1>1. Leads(Call("clear"), t, x, x)
  BY <1>0, LeadsCall, DoFacts DEF Ready, Wants
<1>2. Leads(Each("abort", Servers), t, x, y)
  BY <1>0, EachIn, DoFacts DEF Ready, Wants
<1>3. Leads(Call("wait"), t, y, y)
  BY <1>0, LeadsCall, DoFacts DEF Ready, Wants
<1>4. Leads(Each("resume", Servers), t, y, x)
  BY <1>0, EachIn, DoFacts, StatFields DEF Ready, Wants
<1>5. Leads(Call("clear") \o Each("abort", Servers), t, x, y)
  BY <1>1, <1>2, LeadsConcat
<1>6. Leads(Call("clear") \o Each("abort", Servers) \o Call("wait"), t, x, y)
  BY <1>3, <1>5, LeadsConcat
<1>7. Leads(Call("clear") \o Each("abort", Servers) \o Call("wait")
              \o Each("resume", Servers), t, x, x)
  BY <1>4, <1>6, LeadsConcat
<1>8. Leads(<<>>, t, x, x)
  BY LeadsNone
<1>9. QED
  BY <1>0, <1>7, <1>8 DEF RebalanceRequests

\* _deactivate_hybrid_replicas.
LEMMA DeactivateLeads ==
  ASSUME NEW p \in Bits, NEW z \in Bits, NEW f \in Bits, NEW l \in Bits,
         NEW a \in Bits
  PROVE  /\ \A t \in Hybrid :
              Leads(DeactivateHybridReplicas, t, Stat(p, z, f, l, a),
                    Stat("on", "on", f, "off", "off"))
         /\ \A t \in Standalone :
              Leads(DeactivateHybridReplicas, t, Stat(p, z, f, l, a),
                    Stat(p, z, f, "off", "off"))
<1> USE Kinds DEF Local, Global, Ops, Bits
<1>1. ASSUME NEW t \in Hybrid
      PROVE  Leads(DeactivateHybridReplicas, t, Stat(p, z, f, l, a),
                   Stat("on", "on", f, "off", "off"))
  <2>1. Leads(Call("remove"), t, Stat(p, z, f, l, a), Stat(p, z, f, "off", a))
    BY LeadsCall, DoFacts DEF Ready, Wants
  <2>2. Leads(Each("abort", Hybrid), t, Stat(p, z, f, "off", a),
              Stat("on", z, f, "off", a))
    BY EachIn, DoFacts DEF Ready, Wants
  <2>3. Leads(Each("sleep", Hybrid), t, Stat("on", z, f, "off", a),
              Stat("on", "on", f, "off", a))
    BY EachIn, DoFacts, StatFields DEF Ready, Wants
  <2>4. Leads(Call("deactivated"), t, Stat("on", "on", f, "off", a),
              Stat("on", "on", f, "off", "off"))
    BY LeadsCall, DoFacts DEF Ready, Wants
  <2>5. Leads(Call("remove") \o Each("abort", Hybrid), t, Stat(p, z, f, l, a),
              Stat("on", z, f, "off", a))
    BY <2>1, <2>2, LeadsConcat
  <2>6. Leads(Call("remove") \o Each("abort", Hybrid) \o Each("sleep", Hybrid), t,
              Stat(p, z, f, l, a), Stat("on", "on", f, "off", a))
    BY <2>3, <2>5, LeadsConcat
  <2>7. QED
    BY <2>4, <2>6, LeadsConcat DEF DeactivateHybridReplicas
<1>2. ASSUME NEW t \in Standalone
      PROVE  Leads(DeactivateHybridReplicas, t, Stat(p, z, f, l, a),
                   Stat(p, z, f, "off", "off"))
  <2>0. PICK y \in Status : y = Stat(p, z, f, "off", a)
    BY DoFacts
  <2>1. Leads(Call("remove"), t, Stat(p, z, f, l, a), y)
    BY <2>0, LeadsCall, DoFacts DEF Ready, Wants
  <2>2. \A op \in Local : Leads(Each(op, Hybrid), t, y, y)
    BY EachOut
  <2>3. Leads(Call("deactivated"), t, y, Stat(p, z, f, "off", "off"))
    BY <2>0, LeadsCall, DoFacts DEF Ready, Wants
  <2>4. Leads(Call("remove") \o Each("abort", Hybrid), t, Stat(p, z, f, l, a), y)
    BY <2>1, <2>2, LeadsConcat
  <2>5. Leads(Call("remove") \o Each("abort", Hybrid) \o Each("sleep", Hybrid), t,
              Stat(p, z, f, l, a), y)
    BY <2>2, <2>4, LeadsConcat
  <2>6. QED
    BY <2>3, <2>5, LeadsConcat DEF DeactivateHybridReplicas
<1>3. QED
  BY <1>1, <1>2

\* The trainer's validation: the hybrid replicas are registered for its time,
\* and sleep afterwards, whether they were active before or not.
LEMMA ValidateLeads ==
  ASSUME NEW p \in Bits, NEW z \in Bits, NEW f \in Bits, NEW l \in Bits,
         NEW a \in Bits, trainer_validates
  PROVE  /\ \A t \in Hybrid :
              Leads(TrainerSideValidate, t, Stat(p, z, f, l, a),
                    Stat("off", "on", "on", "off", a))
         /\ \A t \in Standalone :
              Leads(TrainerSideValidate, t, Stat(p, z, f, l, a),
                    Stat("off", z, f, "off", a))
<1> USE Kinds DEF Local, Global, Ops, Bits
<1> DEFINE c1 == Each("update", Hybrid)
           c2 == c1 \o Each("abort", Standalone)
           c3 == c2 \o Each("abort", Hybrid)
           c4 == c3 \o Call("add")
           c5 == c4 \o Each("resume", Standalone)
           c6 == c5 \o Each("resume", Hybrid)
           c7 == c6 \o Call("validate")
           c8 == c7 \o Each("abort", Standalone)
           c9 == c8 \o Each("abort", Hybrid)
           c10 == c9 \o Call("remove")
           c11 == c10 \o Each("sleep", Hybrid)
           c12 == c11 \o Each("resume", Standalone)
           c13 == c12 \o Each("resume", Hybrid)
<1>0. TrainerSideValidate = c13
  BY DEF TrainerSideValidate
<1>r. \A op \in Ops \ {"train"} : \A t, x : Ready(op, t, x)
  BY DEF Ready
<1>1. ASSUME NEW t \in Hybrid
      PROVE  Leads(TrainerSideValidate, t, Stat(p, z, f, l, a),
                   Stat("off", "on", "on", "off", a))
  <2>1. Leads(Each("update", Hybrid), t, Stat(p, z, f, l, a), Stat(p, "off", "on", l, a))
    BY EachIn, DoFacts, <1>r
  <2>2. Leads(c1, t, Stat(p, z, f, l, a), Stat(p, "off", "on", l, a))
    BY <2>1
  <2>3. Leads(Each("abort", Standalone), t, Stat(p, "off", "on", l, a), Stat(p, "off", "on", l, a))
    BY EachOut, DoFacts
  <2>4. Leads(c2, t, Stat(p, z, f, l, a), Stat(p, "off", "on", l, a))
    BY <2>2, <2>3, LeadsConcat
  <2>5. Leads(Each("abort", Hybrid), t, Stat(p, "off", "on", l, a), Stat("on", "off", "on", l, a))
    BY EachIn, DoFacts, <1>r
  <2>6. Leads(c3, t, Stat(p, z, f, l, a), Stat("on", "off", "on", l, a))
    BY <2>4, <2>5, LeadsConcat
  <2>7. Leads(Call("add"), t, Stat("on", "off", "on", l, a), Stat("on", "off", "on", "on", a))
    BY LeadsCall, DoFacts, <1>r
  <2>8. Leads(c4, t, Stat(p, z, f, l, a), Stat("on", "off", "on", "on", a))
    BY <2>6, <2>7, LeadsConcat
  <2>9. Leads(Each("resume", Standalone), t, Stat("on", "off", "on", "on", a), Stat("on", "off", "on", "on", a))
    BY EachOut, DoFacts
  <2>10. Leads(c5, t, Stat(p, z, f, l, a), Stat("on", "off", "on", "on", a))
    BY <2>8, <2>9, LeadsConcat
  <2>11. Leads(Each("resume", Hybrid), t, Stat("on", "off", "on", "on", a), Stat("off", "off", "on", "on", a))
    BY EachIn, DoFacts, <1>r
  <2>12. Leads(c6, t, Stat(p, z, f, l, a), Stat("off", "off", "on", "on", a))
    BY <2>10, <2>11, LeadsConcat
  <2>13. Leads(Call("validate"), t, Stat("off", "off", "on", "on", a), Stat("off", "off", "on", "on", a))
    BY LeadsCall, DoFacts, <1>r
  <2>14. Leads(c7, t, Stat(p, z, f, l, a), Stat("off", "off", "on", "on", a))
    BY <2>12, <2>13, LeadsConcat
  <2>15. Leads(Each("abort", Standalone), t, Stat("off", "off", "on", "on", a), Stat("off", "off", "on", "on", a))
    BY EachOut, DoFacts
  <2>16. Leads(c8, t, Stat(p, z, f, l, a), Stat("off", "off", "on", "on", a))
    BY <2>14, <2>15, LeadsConcat
  <2>17. Leads(Each("abort", Hybrid), t, Stat("off", "off", "on", "on", a), Stat("on", "off", "on", "on", a))
    BY EachIn, DoFacts, <1>r
  <2>18. Leads(c9, t, Stat(p, z, f, l, a), Stat("on", "off", "on", "on", a))
    BY <2>16, <2>17, LeadsConcat
  <2>19. Leads(Call("remove"), t, Stat("on", "off", "on", "on", a), Stat("on", "off", "on", "off", a))
    BY LeadsCall, DoFacts, <1>r
  <2>20. Leads(c10, t, Stat(p, z, f, l, a), Stat("on", "off", "on", "off", a))
    BY <2>18, <2>19, LeadsConcat
  <2>21. Leads(Each("sleep", Hybrid), t, Stat("on", "off", "on", "off", a), Stat("on", "on", "on", "off", a))
    BY EachIn, DoFacts, <1>r
  <2>22. Leads(c11, t, Stat(p, z, f, l, a), Stat("on", "on", "on", "off", a))
    BY <2>20, <2>21, LeadsConcat
  <2>23. Leads(Each("resume", Standalone), t, Stat("on", "on", "on", "off", a), Stat("on", "on", "on", "off", a))
    BY EachOut, DoFacts
  <2>24. Leads(c12, t, Stat(p, z, f, l, a), Stat("on", "on", "on", "off", a))
    BY <2>22, <2>23, LeadsConcat
  <2>25. Leads(Each("resume", Hybrid), t, Stat("on", "on", "on", "off", a), Stat("off", "on", "on", "off", a))
    BY EachIn, DoFacts, <1>r
  <2>26. Leads(c13, t, Stat(p, z, f, l, a), Stat("off", "on", "on", "off", a))
    BY <2>24, <2>25, LeadsConcat
  <2>27. QED
    BY <1>0, <2>26
<1>2. ASSUME NEW t \in Standalone
      PROVE  Leads(TrainerSideValidate, t, Stat(p, z, f, l, a),
                   Stat("off", z, f, "off", a))
  <2>1. Leads(Each("update", Hybrid), t, Stat(p, z, f, l, a), Stat(p, z, f, l, a))
    BY EachOut, DoFacts
  <2>2. Leads(c1, t, Stat(p, z, f, l, a), Stat(p, z, f, l, a))
    BY <2>1
  <2>3. Leads(Each("abort", Standalone), t, Stat(p, z, f, l, a), Stat("on", z, f, l, a))
    BY EachIn, DoFacts, <1>r
  <2>4. Leads(c2, t, Stat(p, z, f, l, a), Stat("on", z, f, l, a))
    BY <2>2, <2>3, LeadsConcat
  <2>5. Leads(Each("abort", Hybrid), t, Stat("on", z, f, l, a), Stat("on", z, f, l, a))
    BY EachOut, DoFacts
  <2>6. Leads(c3, t, Stat(p, z, f, l, a), Stat("on", z, f, l, a))
    BY <2>4, <2>5, LeadsConcat
  <2>7. Leads(Call("add"), t, Stat("on", z, f, l, a), Stat("on", z, f, "on", a))
    BY LeadsCall, DoFacts, <1>r
  <2>8. Leads(c4, t, Stat(p, z, f, l, a), Stat("on", z, f, "on", a))
    BY <2>6, <2>7, LeadsConcat
  <2>9. Leads(Each("resume", Standalone), t, Stat("on", z, f, "on", a), Stat("off", z, f, "on", a))
    BY EachIn, DoFacts, <1>r
  <2>10. Leads(c5, t, Stat(p, z, f, l, a), Stat("off", z, f, "on", a))
    BY <2>8, <2>9, LeadsConcat
  <2>11. Leads(Each("resume", Hybrid), t, Stat("off", z, f, "on", a), Stat("off", z, f, "on", a))
    BY EachOut, DoFacts
  <2>12. Leads(c6, t, Stat(p, z, f, l, a), Stat("off", z, f, "on", a))
    BY <2>10, <2>11, LeadsConcat
  <2>13. Leads(Call("validate"), t, Stat("off", z, f, "on", a), Stat("off", z, f, "on", a))
    BY LeadsCall, DoFacts, <1>r
  <2>14. Leads(c7, t, Stat(p, z, f, l, a), Stat("off", z, f, "on", a))
    BY <2>12, <2>13, LeadsConcat
  <2>15. Leads(Each("abort", Standalone), t, Stat("off", z, f, "on", a), Stat("on", z, f, "on", a))
    BY EachIn, DoFacts, <1>r
  <2>16. Leads(c8, t, Stat(p, z, f, l, a), Stat("on", z, f, "on", a))
    BY <2>14, <2>15, LeadsConcat
  <2>17. Leads(Each("abort", Hybrid), t, Stat("on", z, f, "on", a), Stat("on", z, f, "on", a))
    BY EachOut, DoFacts
  <2>18. Leads(c9, t, Stat(p, z, f, l, a), Stat("on", z, f, "on", a))
    BY <2>16, <2>17, LeadsConcat
  <2>19. Leads(Call("remove"), t, Stat("on", z, f, "on", a), Stat("on", z, f, "off", a))
    BY LeadsCall, DoFacts, <1>r
  <2>20. Leads(c10, t, Stat(p, z, f, l, a), Stat("on", z, f, "off", a))
    BY <2>18, <2>19, LeadsConcat
  <2>21. Leads(Each("sleep", Hybrid), t, Stat("on", z, f, "off", a), Stat("on", z, f, "off", a))
    BY EachOut, DoFacts
  <2>22. Leads(c11, t, Stat(p, z, f, l, a), Stat("on", z, f, "off", a))
    BY <2>20, <2>21, LeadsConcat
  <2>23. Leads(Each("resume", Standalone), t, Stat("on", z, f, "off", a), Stat("off", z, f, "off", a))
    BY EachIn, DoFacts, <1>r
  <2>24. Leads(c12, t, Stat(p, z, f, l, a), Stat("off", z, f, "off", a))
    BY <2>22, <2>23, LeadsConcat
  <2>25. Leads(Each("resume", Hybrid), t, Stat("off", z, f, "off", a), Stat("off", z, f, "off", a))
    BY EachOut, DoFacts
  <2>26. Leads(c13, t, Stat(p, z, f, l, a), Stat("off", z, f, "off", a))
    BY <2>24, <2>25, LeadsConcat
  <2>27. QED
    BY <1>0, <2>26
<1>3. QED
  BY <1>1, <1>2

-----------------------------------------------------------------------------
(* What a cycle leaves behind *)

\* Between two cycles a standalone replica, and any registered one, has the
\* current weights, is awake and lets requests in; hybrid replicas that are
\* not active sleep and are not registered; and if there are no others, and
\* the trainer does not validate, they are registered.
Rest(t, x) ==
  /\ t \in Standalone \/ x.pool = "on" =>
       x.fresh = "on" /\ x.asleep = "off" /\ x.paused = "off"
  /\ t \in Hybrid /\ x.active = "off" => x.asleep = "on" /\ x.pool = "off"
  /\ OnlyHybrid /\ ~trainer_validates => x.pool = "on"

\* _fit_update_weights, called while the hybrid replicas sleep.
LEMMA FitUpdateLeads ==
  ASSUME NEW p \in Bits, NEW z \in Bits, NEW f \in Bits, NEW l \in Bits,
         NEW activate \in ActivateAnswers, NEW t \in Servers,
         t \in Hybrid => z = "on" /\ l = "off"
  PROVE  \E y \in Status :
           Leads(FitUpdateWeights(activate), t, Stat(p, z, f, l, "off"), y)
             /\ Rest(t, y)
<1> USE Kinds DEF Bits
<1>0. PICK x \in Status : x = Stat(p, z, f, l, "off")
  BY DoFacts
<1>1. CASE t \in Standalone
  <2>0. ~OnlyHybrid
    BY <1>1 DEF OnlyHybrid
  <2>1. PICK y \in Status, w \in Status :
          y = Stat("off", "off", "on", l, "off") /\ w = Stat("off", "off", "on", "on", "on")
    BY DoFacts
  <2>2. Leads(UpdateStandalone, t, x, y)
    BY <1>0, <1>1, <2>1, UpdateStandaloneLeads
  <2>3. CASE activate
    <3>1. Leads(SyncHybridWeights, t, y, y)
      BY <1>1, <2>1, SyncHybridLeads
    <3>2. Leads(ActivateHybridReplicas, t, y, w)
      BY <1>1, <2>1, ActivateLeads
    <3>3. Leads(RebalanceRequests, t, w, w)
      BY <2>1, RebalanceLeads
    <3>4. Leads(SyncHybridWeights \o ActivateHybridReplicas \o RebalanceRequests,
                t, y, w)
      BY <3>1, <3>2, <3>3, LeadsConcat
    <3>5. Leads(FitUpdateWeights(activate), t, x, w)
      BY <2>2, <2>3, <3>4, LeadsConcat DEF FitUpdateWeights
    <3>6. Rest(t, w)
      BY <1>1, <2>0, <2>1, StatFields DEF Rest
    <3>7. QED
      BY <1>0, <3>5, <3>6
  <2>4. CASE ~activate
    <3>1. Leads(<<>>, t, y, y)
      BY LeadsNone
    <3>2. Leads(FitUpdateWeights(activate), t, x, y)
      BY <2>2, <2>4, <3>1, LeadsConcat DEF FitUpdateWeights
    <3>3. Rest(t, y)
      BY <1>1, <2>0, <2>1, StatFields DEF Rest
    <3>4. QED
      BY <1>0, <3>2, <3>3
  <2>5. QED
    BY <2>3, <2>4
<1>2. CASE t \in Hybrid
  <2>0. t \notin Standalone
    BY <1>2
  <2>1. PICK y \in Status, w \in Status :
          y = Stat("off", "off", "on", l, "off") /\ w = Stat("off", "off", "on", "on", "on")
    BY DoFacts
  <2>2. Leads(UpdateStandalone, t, x, x)
    BY <1>0, <1>2, UpdateStandaloneLeads
  <2>3. CASE activate
    <3>1. Leads(SyncHybridWeights, t, x, y)
      BY <1>0, <1>2, <2>1, SyncHybridLeads
    <3>2. Leads(ActivateHybridReplicas, t, y, w)
      BY <1>2, <2>1, ActivateLeads
    <3>3. Leads(RebalanceRequests, t, w, w)
      BY <2>1, RebalanceLeads
    <3>4. Leads(SyncHybridWeights \o ActivateHybridReplicas \o RebalanceRequests,
                t, x, w)
      BY <3>1, <3>2, <3>3, LeadsConcat
    <3>5. Leads(FitUpdateWeights(activate), t, x, w)
      BY <2>2, <2>3, <3>4, LeadsConcat DEF FitUpdateWeights
    <3>6. Rest(t, w)
      BY <2>1, StatFields DEF Rest
    <3>7. QED
      BY <1>0, <3>5, <3>6
  <2>4. CASE ~activate
    <3>1. Leads(<<>>, t, x, x)
      BY LeadsNone
    <3>2. Leads(FitUpdateWeights(activate), t, x, x)
      BY <2>2, <2>4, <3>1, LeadsConcat DEF FitUpdateWeights
    <3>3. ~OnlyHybrid
      BY <2>4, ServingAssumption DEF OnlyHybrid, ActivateAnswers
    <3>4. Rest(t, x)
      BY <1>0, <1>2, <2>0, <3>3, StatFields DEF Rest
    <3>5. QED
      BY <1>0, <3>2, <3>4
  <2>5. QED
    BY <2>3, <2>4
<1>3. QED
  BY <1>1, <1>2 DEF Servers

\* The validation, if the trainer does it, keeps that.
LEMMA FitValidateLeads ==
  ASSUME NEW due \in ValidateAnswers, NEW t \in Servers, NEW x \in Status,
         Rest(t, x)
  PROVE  \E y \in Status : Leads(FitValidate(due), t, x, y) /\ Rest(t, y)
<1> USE Kinds DEF Bits
<1>0. /\ x.paused \in Bits /\ x.asleep \in Bits /\ x.fresh \in Bits
      /\ x.pool \in Bits /\ x.active \in Bits
      /\ x = Stat(x.paused, x.asleep, x.fresh, x.pool, x.active)
  BY DEF Status, Stat
<1>1. CASE ~due
  <2>1. Leads(FitValidate(due), t, x, x)
    BY <1>1, LeadsNone DEF FitValidate
  <2>2. QED
    BY <2>1
<1>2. CASE due
  <2>0. trainer_validates
    BY <1>2 DEF ValidateAnswers
  <2>1. CASE t \in Standalone
    <3>1. x.fresh = "on" /\ x.asleep = "off"
      BY <2>1 DEF Rest
    <3>2. PICK y \in Status : y = Stat("off", "off", "on", "off", x.active)
      BY <1>0, DoFacts
    <3>3. Leads(FitValidate(due), t, x, y)
      BY <1>0, <1>2, <2>0, <2>1, <3>1, <3>2, ValidateLeads DEF FitValidate
    <3>4. Rest(t, y)
      BY <2>0, <2>1, <3>2, StatFields DEF Rest
    <3>5. QED
      BY <3>3, <3>4
  <2>2. CASE t \in Hybrid
    <3>1. PICK y \in Status : y = Stat("off", "on", "on", "off", x.active)
      BY <1>0, DoFacts
    <3>2. Leads(FitValidate(due), t, x, y)
      BY <1>0, <1>2, <2>0, <2>2, <3>1, ValidateLeads DEF FitValidate
    <3>3. t \notin Standalone
      BY <2>2
    <3>4. Rest(t, y)
      BY <2>0, <3>3, <3>1, StatFields DEF Rest
    <3>5. QED
      BY <3>2, <3>4
  <2>3. QED
    BY <2>1, <2>2 DEF Servers
<1>3. due \in BOOLEAN
  BY DEF ValidateAnswers
<1>4. QED
  BY <1>1, <1>2, <1>3

\* The calls the trainer makes in a cycle of fit.
Cycle(deactivate, activate, due) ==
  (IF deactivate THEN DeactivateHybridReplicas ELSE <<>>)
    \o Call("train") \o FitUpdateWeights(activate) \o FitValidate(due)

\* A cycle of fit leads from rest to rest.
LEMMA CycleLeads ==
  ASSUME NEW activate \in ActivateAnswers, NEW due \in ValidateAnswers,
         NEW t \in Servers, NEW x \in Status, Rest(t, x), NEW b \in BOOLEAN,
         b <=> x.active = "on"
  PROVE  \E y \in Status : Leads(Cycle(b, activate, due), t, x, y) /\ Rest(t, y)
<1> USE Kinds DEF Bits
<1> DEFINE D == IF b THEN DeactivateHybridReplicas ELSE <<>>
<1>0. /\ x.paused \in Bits /\ x.asleep \in Bits /\ x.fresh \in Bits
      /\ x.pool \in Bits /\ x.active \in Bits
      /\ x = Stat(x.paused, x.asleep, x.fresh, x.pool, x.active)
  BY DEF Status, Stat
<1>1. \E p \in Bits, z \in Bits, f \in Bits, l \in Bits :
        /\ Leads(D, t, x, Stat(p, z, f, l, "off"))
        /\ t \in Hybrid => z = "on" /\ l = "off"
  <2>1. CASE ~b
    <3>1. x.active = "off"
      BY <1>0, <2>1
    <3>2. t \in Hybrid => x.asleep = "on" /\ x.pool = "off"
      BY <3>1 DEF Rest
    <3>3. Leads(D, t, x, x)
      BY <2>1, LeadsNone
    <3>4. QED
      BY <1>0, <3>1, <3>2, <3>3
  <2>2. CASE b /\ t \in Hybrid
    <3>1. Leads(D, t, x, Stat("on", "on", x.fresh, "off", "off"))
      BY <1>0, <2>2, DeactivateLeads
    <3>2. QED
      BY <1>0, <3>1
  <2>3. CASE b /\ t \in Standalone
    <3>1. Leads(D, t, x, Stat(x.paused, x.asleep, x.fresh, "off", "off"))
      BY <1>0, <2>3, DeactivateLeads
    <3>2. QED
      BY <1>0, <2>3, <3>1
  <2>4. QED
    BY <2>1, <2>2, <2>3 DEF Servers
<1> HIDE DEF D
<1>2. PICK p \in Bits, z \in Bits, f \in Bits, l \in Bits :
        /\ Leads(D, t, x, Stat(p, z, f, l, "off"))
        /\ t \in Hybrid => z = "on" /\ l = "off"
  BY <1>1
<1>3. Leads(Call("train"), t, Stat(p, z, f, l, "off"), Stat(p, z, "off", l, "off"))
  <2>1. Ready("train", t, Stat(p, z, f, l, "off"))
    BY <1>2, StatFields DEF Ready, Wants
  <2>2. QED
    BY <2>1, LeadsCall, DoFacts DEF Ops, Global
<1>4. PICK m \in Status :
        Leads(FitUpdateWeights(activate), t, Stat(p, z, "off", l, "off"), m)
          /\ Rest(t, m)
  BY <1>2, FitUpdateLeads
<1>5. PICK y \in Status : Leads(FitValidate(due), t, m, y) /\ Rest(t, y)
  BY <1>4, FitValidateLeads
<1>6. Leads(D \o Call("train"), t, x, Stat(p, z, "off", l, "off"))
  BY <1>2, <1>3, LeadsConcat
<1>7. Leads(D \o Call("train") \o FitUpdateWeights(activate), t, x, m)
  BY <1>4, <1>6, LeadsConcat
<1>8. Leads(D \o Call("train") \o FitUpdateWeights(activate) \o FitValidate(due),
            t, x, y)
  BY <1>5, <1>7, LeadsConcat
<1>9. QED
  BY <1>5, <1>8 DEF Cycle, D

-----------------------------------------------------------------------------
(* Making one call of the plan *)

\* Calls that lead from x to y get there step by step.
LEMMA LeadsSplit ==
  ASSUME NEW a \in Seq(CallType), NEW b \in Seq(CallType), NEW t, NEW x, NEW y,
         Leads(a \o b, t, x, y)
  PROVE  Leads(a, t, x, Run(a, t, x)) /\ Leads(b, t, Run(a, t, x), y)
<1>1. Run(a \o b, t, x) = y /\ x \in Status /\ y \in Status
  BY DEF Leads
<1>2. PICK w \in Status : w = Run(a, t, x)
  BY RunStatus
<1>3. /\ w.paused = After(a, "abort", "resume", t, x.paused)
      /\ w.asleep = After(a, "sleep", "update", t, x.asleep)
      /\ w.fresh = After(a, "update", "train", t, x.fresh)
      /\ w.pool = After(a, "add", "remove", t, x.pool)
      /\ w.active = After(a, "activated", "deactivated", t, x.active)
  BY <1>2, StatFields DEF Run
<1>4. Run(b, t, w) = y
  BY <1>1, <1>3, ConcatEval DEF Run
<1>5. Alone(a, t, x) /\ Alone(b, t, w)
  <2>1. Alone(a \o b, t, x)
    BY DEF Leads
  <2>2. QED
    BY <1>3, <2>1, ConcatEval DEF Alone
<1>6. trainer_validates \/ (Careful(a, t, x) /\ Careful(b, t, w))
  <2>1. SUFFICES ASSUME ~trainer_validates
                 PROVE  Careful(a, t, x) /\ Careful(b, t, w)
    OBVIOUS
  <2>2. Careful(a \o b, t, x)
    BY <2>1 DEF Leads
  <2>3. QED
    BY <1>3, <2>2, ConcatEval DEF Careful
<1>7. QED
  BY <1>1, <1>2, <1>4, <1>5, <1>6 DEF Leads

\* A single call finds what was there before it.
LEMMA OneGuard ==
  ASSUME NEW c \in CallType, NEW on, NEW off, NEW t, NEW v \in Bits, NEW at,
         NEW want, Guard(<<c>>, at, on, off, want, t, v), Hit(c, at, t)
  PROVE  v = want
<1>1. DOMAIN <<c>> = {1} /\ <<c>>[1] = c
  OBVIOUS
<1>2. PICK e : e = <<c>>
  OBVIOUS
<1>3. DOMAIN e = {1} /\ e[1] = c /\ Guard(e, at, on, off, want, t, v)
  BY <1>1, <1>2
<1>4. Lit(e, 1, on, off, t, v) <=> v = "on"
  BY <1>3 DEF Lit
<1>5. At(e, 1, on, off, t, v) = v
  BY <1>4 DEF At, Bits
<1>6. QED
  BY <1>3, <1>5 DEF Guard

\* What a single call wants.
LEMMA OneWants ==
  ASSUME NEW c \in CallType, NEW t \in Servers, NEW x \in Status,
         Alone(<<c>>, t, x), trainer_validates \/ Careful(<<c>>, t, x),
         Hit(c, c.op, t)
  PROVE  Ready(c.op, t, x)
<1>1. x.paused \in Bits /\ x.asleep \in Bits
  BY DEF Status
<1>2. ASSUME t \in Hybrid, c.op = "train" PROVE x.asleep = "on"
  BY <1>1, <1>2, OneGuard DEF Alone
<1>3. ASSUME Careful(<<c>>, t, x) PROVE Wants(c.op, t, x)
  <2>1. ASSUME c.op \in {"update", "sleep"} PROVE x.paused = "on"
    BY <1>1, <1>3, <2>1, OneGuard DEF Careful
  <2>2. ASSUME c.op = "resume" \/ (c.op = "add" /\ t \in Hybrid)
        PROVE  x.asleep = "off"
    BY <1>1, <1>3, <2>2, OneGuard DEF Careful
  <2>3. QED
    BY <2>1, <2>2 DEF Wants
<1>4. QED
  BY <1>2, <1>3 DEF Ready

\* The first call finds what it wants, and the rest leads on from there.
LEMMA FirstCall ==
  ASSUME NEW seq, NEW t \in Servers, NEW x, NEW y, Leads(seq, t, x, y),
         seq # <<>>, NEW c, c = seq[1]
  PROVE  /\ c \in CallType /\ seq = <<c>> \o Tail(seq)
         /\ Hit(c, c.op, t) => Ready(c.op, t, x)
         /\ Leads(Tail(seq), t, IF Hit(c, c.op, t) THEN Do(c.op, x) ELSE x, y)
<1>1. seq \in Seq(CallType) /\ x \in Status
  BY DEF Leads
<1>2. c \in CallType /\ Tail(seq) \in Seq(CallType) /\ seq = <<c>> \o Tail(seq)
  BY <1>1
<1>3. PICK e : e = <<c>> /\ e \in Seq(CallType) /\ Leads(e \o Tail(seq), t, x, y)
  <2>1. <<c>> \in Seq(CallType)
    BY <1>2
  <2>2. Leads(<<c>> \o Tail(seq), t, x, y)
    BY <1>2, Zenon
  <2>3. QED
    BY <2>1, <2>2, Zenon
<1>4. Leads(e, t, x, Run(e, t, x)) /\ Leads(Tail(seq), t, Run(e, t, x), y)
  BY <1>2, <1>3, LeadsSplit, Zenon
<1>8. Hit(c, c.op, t) => Ready(c.op, t, x)
  BY <1>1, <1>2, <1>3, <1>4, OneWants, Zenon DEF Leads
<1>9. Run(e, t, x) = IF Hit(c, c.op, t) THEN Do(c.op, x) ELSE x
  BY <1>1, <1>2, <1>3, <1>8, LeadsOne DEF Leads
<1>10. QED
  BY <1>2, <1>4, <1>8, <1>9

\* The first call has been made on replica s, but not yet on all of them.
LEMMA PartOfCall ==
  ASSUME NEW seq, NEW t \in Servers, NEW x, NEW y, Leads(seq, t, x, y),
         seq # <<>>, NEW s \in seq[1].on, seq[1].on # {s}
  PROVE  Leads([seq EXCEPT ![1].on = @ \ {s}], t,
               IF t = s THEN Do(seq[1].op, x) ELSE x, y)
<1>1. PICK c : c = seq[1]
  OBVIOUS
<1>2. /\ c \in CallType /\ seq = <<c>> \o Tail(seq)
      /\ Hit(c, c.op, t) => Ready(c.op, t, x)
      /\ Leads(Tail(seq), t, IF Hit(c, c.op, t) THEN Do(c.op, x) ELSE x, y)
  BY <1>1, FirstCall
<1>3. PICK d : /\ d = [c EXCEPT !.on = @ \ {s}]
               /\ d \in [op : Ops, on : SUBSET Servers]
               /\ d.op = c.op /\ d.on = c.on \ {s}
  <2>1. c \in [op : Ops, on : SUBSET Servers]
    BY <1>2 DEF CallType
  <2>2. PICK d : d = [c EXCEPT !.on = c.on \ {s}]
    OBVIOUS
  <2>3. c.op \in Ops /\ c.on \ {s} \in SUBSET Servers /\ DOMAIN c = {"op", "on"}
    BY <2>1
  <2>4. d \in [op : Ops, on : SUBSET Servers]
    BY <2>1, <2>2, <2>3
  <2>5. d.op = c.op /\ d.on = c.on \ {s}
    BY <2>1, <2>2, <2>3
  <2>6. QED
    BY <2>2, <2>4, <2>5, Zenon
<1>4. d \in CallType /\ d.op = c.op /\ d.on # {} /\ c.on # {}
  BY <1>1, <1>2, <1>3 DEF CallType
<1>5. [seq EXCEPT ![1].on = @ \ {s}] = <<d>> \o Tail(seq)
  <2>1. seq \in Seq(CallType) /\ Len(seq) \in Nat /\ Len(seq) > 0
    BY DEF Leads
  <2>3. [seq EXCEPT ![1].on = @ \ {s}] = [seq EXCEPT ![1] = d]
    BY <1>1, <1>3
  <2>4. [seq EXCEPT ![1] = d] = <<d>> \o Tail(seq)
    <3>1. PICK a, b : a = [seq EXCEPT ![1] = d] /\ b = <<d>> \o Tail(seq)
      OBVIOUS
    <3>2. a \in Seq(CallType) /\ Len(a) = Len(seq) /\ a[1] = d
          /\ \A i \in 2 .. Len(seq) : a[i] = seq[i]
      BY <1>4, <2>1, <3>1
    <3>3. b \in Seq(CallType) /\ Len(b) = Len(seq) /\ b[1] = d
          /\ \A i \in 2 .. Len(seq) : b[i] = seq[i]
      BY <1>4, <2>1, <3>1
    <3>4. \A i \in 1 .. Len(seq) : a[i] = b[i]
      <4>1. \A i \in 1 .. Len(seq) : i = 1 \/ i \in 2 .. Len(seq)
        BY <2>1
      <4>2. QED
        BY <3>2, <3>3, <4>1
    <3>5. QED
      BY <3>1, <3>2, <3>3, <3>4
  <2>5. QED
    BY <2>3, <2>4
<1>6. x \in Status /\ Do(c.op, x) \in Status
  BY DEF Leads, Do, Status, Stat, Bits
<1>7. CASE t = s
  <2>1. Hit(c, c.op, t) /\ ~Hit(d, d.op, t)
    BY <1>1, <1>3, <1>4, <1>7 DEF Hit
  <2>2. Leads(<<d>>, t, Do(c.op, x), Do(c.op, x))
    BY <1>4, <1>6, <2>1, LeadsOne
  <2>3. Leads(Tail(seq), t, Do(c.op, x), y)
    BY <1>2, <2>1
  <2>4. Leads(<<d>> \o Tail(seq), t, Do(c.op, x), y)
    BY <2>2, <2>3, LeadsConcat
  <2>5. QED
    BY <1>1, <1>5, <1>7, <2>4
<1>8. CASE t # s
  <2>1. Hit(c, c.op, t) <=> Hit(d, d.op, t)
    BY <1>3, <1>4, <1>8 DEF Hit
  <2>2. Leads(<<d>>, t, x, IF Hit(c, c.op, t) THEN Do(c.op, x) ELSE x)
    BY <1>2, <1>4, <1>6, <2>1, LeadsOne
  <2>3. Leads(<<d>> \o Tail(seq), t, x, y)
    BY <1>2, <2>2, LeadsConcat
  <2>4. QED
    BY <1>5, <1>8, <2>3
<1>9. QED
  BY <1>7, <1>8

-----------------------------------------------------------------------------
(* The trainer's invariant *)

Engines ==
  /\ paused \in [Servers -> BOOLEAN] /\ asleep \in [Servers -> BOOLEAN]
  /\ version \in [Servers -> Nat] /\ current_param_version \in Nat
  /\ \A t \in Servers : version[t] <= current_param_version
  /\ hybrid_active \in BOOLEAN /\ trainer_validates \in ValidateModes
  /\ Standalone \subseteq LB!Pool /\ LB!Pool \subseteq Servers

\* x is the status of replica t.  Standalone replicas are never removed.
Matches(t, x) ==
  /\ x \in Status
  /\ x.paused = "on" <=> paused[t]
  /\ x.asleep = "on" <=> asleep[t]
  /\ x.fresh = "on" <=> version[t] = current_param_version
  /\ x.active = "on" <=> hybrid_active
  /\ t \in Hybrid => (x.pool = "on" <=> t \in LB!Pool)

\* The calls that are left find every replica as they want it, and lead to
\* the states in which the trainer waits for the next batch.
Plan ==
  \A t \in Servers : \E x, y \in Status :
    Matches(t, x) /\ Leads(todo, t, x, y) /\ Rest(t, y)

\* What the methods of the load balancer do to the set of servers.
LEMMA PoolSteps ==
  /\ \A r, s : LB!AcquireServer(r, s) => s \in LB!Pool /\ LB!Pool' = LB!Pool
  /\ \A r : LB!AcquireRaises(r) \/ LB!ReleaseServer(r) => LB!Pool' = LB!Pool
  /\ LB!ClearStickyCache => LB!Pool' = LB!Pool
  /\ \A S : LB!AddServers(S) => LB!Pool' = LB!Pool \union S
  /\ \A S : LB!RemoveServers(S) => LB!Pool' = LB!Pool \ S
BY DEF LB!AcquireServer, LB!AcquireRaises, LB!ReleaseServer, LB!AddServers,
       LB!RemoveServers, LB!ClearStickyCache, LB!Candidates, LB!LeastLoaded,
       LB!Pool, LB!Restrict

\* What is planned does not depend on the state, but for the mode.
LEMMA PlanStep ==
  ASSUME trainer_validates' = trainer_validates, NEW q, q = todo',
         \A t \in Servers : \E x, y \in Status :
           Matches(t, x)' /\ Leads(q, t, x, y) /\ Rest(t, y)
  PROVE  Plan'
<1>1. ASSUME NEW t \in Servers, NEW x \in Status, NEW y \in Status,
             Leads(q, t, x, y), Rest(t, y)
      PROVE  Leads(todo, t, x, y)' /\ Rest(t, y)'
  <2>1. Leads(todo, t, x, y)'
    BY <1>1 DEF Leads
  <2>2. Rest(t, y)'
    BY <1>1 DEF Rest
  <2>3. QED
    BY <2>1, <2>2
<1>2. QED
  BY <1>1 DEF Plan

\* The plan after a call on replica s, if only that replica's status changes.
LEMMA CallsPlan ==
  ASSUME NEW op, NEW s \in Servers, Calls(op, s), Plan,
         \A t \in Servers, x \in Status : Matches(t, x) =>
           Matches(t, IF t = s THEN Do(op, x) ELSE x)'
  PROVE  Plan'
<1>0. PICK q : q = todo'
  OBVIOUS
<1>1. /\ todo # <<>> /\ todo[1].op = op /\ s \in todo[1].on
      /\ q = IF todo[1].on = {s} THEN Tail(todo)
             ELSE [todo EXCEPT ![1].on = @ \ {s}]
      /\ trainer_validates' = trainer_validates
  BY <1>0 DEF Calls
<1>2. ASSUME NEW t \in Servers
      PROVE  \E x, y \in Status :
               Matches(t, x)' /\ Leads(q, t, x, y) /\ Rest(t, y)
  <2>1. PICK x \in Status, y \in Status :
          Matches(t, x) /\ Leads(todo, t, x, y) /\ Rest(t, y)
    BY DEF Plan
  <2>2. PICK w : w = IF t = s THEN Do(op, x) ELSE x
    OBVIOUS
  <2>3. Leads(q, t, w, y)
    <3>1. CASE todo[1].on = {s}
      <4>1. Hit(todo[1], todo[1].op, t) <=> t = s
        BY <3>1 DEF Hit
      <4>2. Leads(Tail(todo), t, IF Hit(todo[1], todo[1].op, t)
                                   THEN Do(todo[1].op, x) ELSE x, y)
        BY <1>1, <2>1, FirstCall
      <4>3. QED
        BY <1>1, <2>2, <3>1, <4>1, <4>2
    <3>2. CASE todo[1].on # {s}
      <4>1. Leads([todo EXCEPT ![1].on = @ \ {s}], t,
                  IF t = s THEN Do(todo[1].op, x) ELSE x, y)
        BY <1>1, <2>1, <3>2, PartOfCall
      <4>2. QED
        BY <1>1, <2>2, <3>2, <4>1
    <3>3. QED
      BY <3>1, <3>2
  <2>4. w \in Status
    BY <2>3 DEF Leads
  <2>5. Matches(t, w)'
    BY <2>1, <2>2
  <2>6. QED
    BY <2>1, <2>3, <2>4, <2>5
<1>3. QED
  BY <1>0, <1>1, <1>2, PlanStep

\* The plan after a call on no replica in particular.
LEMMA DoesPlan ==
  ASSUME NEW op \in Global, Does(op), Plan, trainer_validates' = trainer_validates,
         \A t \in Servers, x \in Status :
           Matches(t, x) => Matches(t, Do(op, x))'
  PROVE  Plan'
<1>0. PICK q : q = todo'
  OBVIOUS
<1>1. todo # <<>> /\ todo[1].op = op /\ q = Tail(todo)
  BY <1>0 DEF Does
<1>2. ASSUME NEW t \in Servers
      PROVE  \E x, y \in Status :
               Matches(t, x)' /\ Leads(q, t, x, y) /\ Rest(t, y)
  <2>1. PICK x \in Status, y \in Status :
          Matches(t, x) /\ Leads(todo, t, x, y) /\ Rest(t, y)
    BY DEF Plan
  <2>2. /\ todo[1] \in CallType
        /\ Leads(Tail(todo), t, IF Hit(todo[1], todo[1].op, t)
                                  THEN Do(todo[1].op, x) ELSE x, y)
    BY <1>1, <2>1, FirstCall
  <2>3. Hit(todo[1], todo[1].op, t)
    BY <1>1, <2>2 DEF CallType, Hit
  <2>4. Leads(q, t, Do(op, x), y)
    BY <1>1, <2>2, <2>3
  <2>5. Do(op, x) \in Status
    BY <2>4 DEF Leads
  <2>6. Matches(t, Do(op, x))'
    BY <2>1
  <2>7. QED
    BY <2>1, <2>4, <2>5, <2>6
<1>3. QED
  BY <1>0, <1>2, PlanStep

\* What the next call finds at a replica it concerns.
LEMMA NextCall ==
  ASSUME Plan, todo # <<>>, NEW t \in Servers,
         t \in todo[1].on \/ todo[1].op \in Global
  PROVE  \E x \in Status : Matches(t, x) /\ Ready(todo[1].op, t, x)
<1>1. PICK x \in Status, y \in Status :
        Matches(t, x) /\ Leads(todo, t, x, y) /\ Rest(t, y)
  BY DEF Plan
<1>2. todo[1] \in CallType
      /\ (Hit(todo[1], todo[1].op, t) => Ready(todo[1].op, t, x))
  BY <1>1, FirstCall
<1>3. Hit(todo[1], todo[1].op, t)
  BY <1>2 DEF CallType, Hit
<1>4. QED
  BY <1>1, <1>2, <1>3

\* No call is left: every replica is at rest.
LEMMA AtRest ==
  ASSUME Plan, todo = <<>>, NEW t \in Servers
  PROVE  \E x \in Status : Matches(t, x) /\ Rest(t, x)
<1>1. PICK x \in Status, y \in Status :
        Matches(t, x) /\ Leads(todo, t, x, y) /\ Rest(t, y)
  BY DEF Plan
<1>2. Leads(<<>>, t, x, x) /\ Leads(<<>>, t, x, y)
  BY <1>1, LeadsNone
<1>3. x = y
  BY <1>2 DEF Leads
<1>4. QED
  BY <1>1, <1>3

\* The first weights are about to be sent.
LEMMA PlanInit == Init => Engines /\ Plan
<1> SUFFICES ASSUME Init PROVE Engines /\ Plan
  OBVIOUS
<1> USE Kinds
<1>1. /\ paused = [s \in Servers |-> FALSE] /\ version = [s \in Servers |-> 0]
      /\ asleep = [s \in Servers |-> s \in Hybrid]
      /\ hybrid_active = FALSE /\ current_param_version = 0
      /\ trainer_validates \in ValidateModes
  BY DEF Init
<1>2. LB!Pool = Standalone
  BY DEF Init, LB!Init, LB!Pool
<1>a. asleep \in [Servers -> BOOLEAN] /\ \A s \in Servers : asleep[s] <=> s \in Hybrid
  <2>1. \A s \in Servers : (s \in Hybrid) \in BOOLEAN
    OBVIOUS
  <2>2. [s \in Servers |-> s \in Hybrid] \in [Servers -> BOOLEAN]
    BY <2>1, Zenon
  <2>3. \A s \in Servers : [u \in Servers |-> u \in Hybrid][s] = (s \in Hybrid)
    BY Zenon
  <2>4. asleep \in [Servers -> BOOLEAN]
    BY <1>1, <2>2, Zenon
  <2>5. \A s \in Servers : asleep[s] = (s \in Hybrid)
    BY <1>1, <2>3, Zenon
  <2>6. QED
    BY <2>4, <2>5
<1>b. /\ paused \in [Servers -> BOOLEAN] /\ version \in [Servers -> Nat]
      /\ \A s \in Servers : ~paused[s] /\ version[s] = 0
  BY <1>1
<1>3. Engines
  <2>1. \A t \in Servers : version[t] <= current_param_version
    BY <1>1, <1>b
  <2>2. current_param_version \in Nat /\ hybrid_active \in BOOLEAN
    BY <1>1
  <2>3. QED
    BY <1>1, <1>2, <1>a, <1>b, <2>1, <2>2, Zenon DEF Engines
<1>4. PICK activate \in ActivateAnswers, due \in ValidateAnswers :
        todo = FitUpdateWeights(activate) \o FitValidate(due)
  BY DEF Init
<1>5. ASSUME NEW t \in Servers
      PROVE  \E x, y \in Status : Matches(t, x) /\ Leads(todo, t, x, y) /\ Rest(t, y)
  <2>1. PICK z \in Bits, l \in Bits :
          z = (IF t \in Hybrid THEN "on" ELSE "off") /\ l = (IF t \in Hybrid THEN "off" ELSE "on")
    BY DEF Bits
  <2>2. PICK x \in Status : x = Stat("off", z, "on", l, "off")
    BY DoFacts DEF Bits
  <2>3. Matches(t, x)
    BY <1>1, <1>2, <1>a, <1>b, <2>1, <2>2, StatFields DEF Matches
  <2>4. PICK m \in Status : Leads(FitUpdateWeights(activate), t, x, m) /\ Rest(t, m)
    BY <2>1, <2>2, FitUpdateLeads DEF Bits
  <2>5. PICK y \in Status : Leads(FitValidate(due), t, m, y) /\ Rest(t, y)
    BY <2>4, FitValidateLeads
  <2>6. Leads(todo, t, x, y)
    BY <1>4, <2>4, <2>5, LeadsConcat
  <2>7. QED
    BY <2>3, <2>5, <2>6
<1>6. QED
  BY <1>3, <1>5 DEF Plan

\* The clients leave the replicas, the plan and the set of servers alone.
LEMMA PlanClients ==
  ASSUME Engines, Plan, UNCHANGED <<engineVars, trainerVars>>, LB!Pool' = LB!Pool
  PROVE  Engines' /\ Plan'
<1>1. /\ paused' = paused /\ asleep' = asleep /\ version' = version /\ todo' = todo
      /\ trainer_validates' = trainer_validates /\ hybrid_active' = hybrid_active
      /\ current_param_version' = current_param_version
  BY DEF engineVars, trainerVars
<1>2. Engines'
  BY <1>1 DEF Engines
<1>3. PICK q : q = todo
  OBVIOUS
<1>4. \A t, x : Matches(t, x) => Matches(t, x)'
  BY <1>1 DEF Matches
<1>5. \A t \in Servers : \E x, y \in Status :
        Matches(t, x)' /\ Leads(q, t, x, y) /\ Rest(t, y)
  BY <1>3, <1>4 DEF Plan
<1>6. QED
  BY <1>1, <1>2, <1>3, <1>5, PlanStep

\* The effect of a call on a replica, in terms of its fields.
LEMMA DoFields ==
  ASSUME NEW op, NEW x \in Status
  PROVE  /\ Do(op, x) \in Status
         /\ Do(op, x).paused =
              IF op = "abort" THEN "on" ELSE IF op = "resume" THEN "off" ELSE x.paused
         /\ Do(op, x).asleep =
              IF op = "sleep" THEN "on" ELSE IF op = "update" THEN "off" ELSE x.asleep
         /\ Do(op, x).fresh =
              IF op = "update" THEN "on" ELSE IF op = "train" THEN "off" ELSE x.fresh
         /\ Do(op, x).pool =
              IF op = "add" THEN "on" ELSE IF op = "remove" THEN "off" ELSE x.pool
         /\ Do(op, x).active =
              IF op = "activated" THEN "on" ELSE IF op = "deactivated" THEN "off"
              ELSE x.active
<1>1. /\ x.paused \in Bits /\ x.asleep \in Bits /\ x.fresh \in Bits
      /\ x.pool \in Bits /\ x.active \in Bits
  BY DEF Status
<1>2. Do(op, x) \in Status
  BY <1>1 DEF Do, Stat, Status, Bits
<1>3. QED
  BY <1>2, StatFields DEF Do

\* Every step keeps to the plan.
LEMMA PlanNext == Engines /\ Plan /\ [Next]_vars => Engines' /\ Plan'
<1> SUFFICES ASSUME Engines, Plan, [Next]_vars PROVE Engines' /\ Plan'
  OBVIOUS
<1> USE Kinds
<1>1. ASSUME NEW r \in Requests, Generate(r) \/ Client(r) \/ Release(r)
      PROVE  Engines' /\ Plan'
  <2>1. UNCHANGED <<engineVars, trainerVars>>
    BY <1>1 DEF Generate, Client, Acquire, AcquireFails, Admit, Token, Merge, Release
  <2>2. LB!Pool' = LB!Pool
    <3>1. CASE UNCHANGED lbVars
      BY <3>1 DEF lbVars, LB!Pool
    <3>2. CASE Acquire(r) \/ AcquireFails(r) \/ Release(r)
      BY <3>2, PoolSteps DEF Acquire, AcquireFails, Release
    <3>3. QED
      BY <1>1, <3>1, <3>2 DEF Generate, Client, Admit, Token, Merge
  <2>3. QED
    BY <2>1, <2>2, PlanClients
<1>2. ASSUME NEW s \in Servers,
             Abort(s) \/ ResumeGeneration(s) \/ Drain(s) \/ Sleep(s) \/ Update(s)
      PROVE  Engines' /\ Plan'
  <2>1. LB!Pool' = LB!Pool
    BY <1>2 DEF Abort, ResumeGeneration, Drain, Sleep, Update, lbVars, LB!Pool
  <2>2. /\ trainer_validates' = trainer_validates /\ hybrid_active' = hybrid_active
        /\ current_param_version' = current_param_version
    BY <1>2 DEF Abort, ResumeGeneration, Drain, Sleep, Update, Calls
  <2>3. ASSUME Abort(s) PROVE Engines' /\ Plan'
    <3>1. paused' = [paused EXCEPT ![s] = TRUE] /\ asleep' = asleep
          /\ version' = version /\ Calls("abort", s)
      BY <2>3 DEF Abort
    <3>2. Engines'
      BY <2>1, <2>2, <3>1 DEF Engines
    <3>3. \A t \in Servers, x \in Status : Matches(t, x) =>
            Matches(t, IF t = s THEN Do("abort", x) ELSE x)'
      BY <2>1, <2>2, <3>1, DoFields DEF Matches, Engines
    <3>4. QED
      BY <3>1, <3>2, <3>3, CallsPlan
  <2>4. ASSUME ResumeGeneration(s) PROVE Engines' /\ Plan'
    <3>1. paused' = [paused EXCEPT ![s] = FALSE] /\ asleep' = asleep
          /\ version' = version /\ Calls("resume", s)
      BY <2>4 DEF ResumeGeneration
    <3>2. Engines'
      BY <2>1, <2>2, <3>1 DEF Engines
    <3>3. \A t \in Servers, x \in Status : Matches(t, x) =>
            Matches(t, IF t = s THEN Do("resume", x) ELSE x)'
      BY <2>1, <2>2, <3>1, DoFields DEF Matches, Engines
    <3>4. QED
      BY <3>1, <3>2, <3>3, CallsPlan
  <2>5. ASSUME Drain(s) PROVE Engines' /\ Plan'
    <3>1. paused' = paused /\ asleep' = asleep
          /\ version' = version /\ Calls("drain", s)
      BY <2>5 DEF Drain, engineVars
    <3>2. Engines'
      BY <2>1, <2>2, <3>1 DEF Engines
    <3>3. \A t \in Servers, x \in Status : Matches(t, x) =>
            Matches(t, IF t = s THEN Do("drain", x) ELSE x)'
      BY <2>1, <2>2, <3>1, DoFields DEF Matches, Engines
    <3>4. QED
      BY <3>1, <3>2, <3>3, CallsPlan
  <2>6. ASSUME Sleep(s) PROVE Engines' /\ Plan'
    <3>1. paused' = paused /\ asleep' = [asleep EXCEPT ![s] = TRUE]
          /\ version' = version /\ Calls("sleep", s)
      BY <2>6 DEF Sleep
    <3>2. Engines'
      BY <2>1, <2>2, <3>1 DEF Engines
    <3>3. \A t \in Servers, x \in Status : Matches(t, x) =>
            Matches(t, IF t = s THEN Do("sleep", x) ELSE x)'
      BY <2>1, <2>2, <3>1, DoFields DEF Matches, Engines
    <3>4. QED
      BY <3>1, <3>2, <3>3, CallsPlan
  <2>7. ASSUME Update(s) PROVE Engines' /\ Plan'
    <3>1. /\ paused' = paused /\ asleep' = [asleep EXCEPT ![s] = FALSE]
          /\ version' = [version EXCEPT ![s] = current_param_version]
          /\ Calls("update", s)
      BY <2>7 DEF Update
    <3>2. Engines'
      BY <2>1, <2>2, <3>1 DEF Engines
    <3>3. \A t \in Servers, x \in Status : Matches(t, x) =>
            Matches(t, IF t = s THEN Do("update", x) ELSE x)'
      BY <2>1, <2>2, <3>1, DoFields DEF Matches, Engines
    <3>4. QED
      BY <3>1, <3>2, <3>3, CallsPlan
  <2>8. QED
    BY <1>2, <2>3, <2>4, <2>5, <2>6, <2>7
<1>3. ASSUME AddReplicas \/ RemoveReplicas PROVE Engines' /\ Plan'
  <2>1. /\ paused' = paused /\ asleep' = asleep /\ version' = version
        /\ trainer_validates' = trainer_validates /\ hybrid_active' = hybrid_active
        /\ current_param_version' = current_param_version
    BY <1>3 DEF AddReplicas, RemoveReplicas, engineVars
  <2>2. CASE AddReplicas
    <3>1. LB!Pool' = LB!Pool \union Hybrid /\ Does("add")
      BY <2>2, PoolSteps DEF AddReplicas
    <3>2. Engines'
      BY <2>1, <3>1 DEF Engines
    <3>3. \A t \in Servers, x \in Status : Matches(t, x) => Matches(t, Do("add", x))'
      BY <2>1, <3>1, DoFields DEF Matches
    <3>4. QED
      BY <2>1, <3>1, <3>2, <3>3, DoesPlan DEF Global
  <2>3. CASE RemoveReplicas
    <3>1. LB!Pool' = LB!Pool \ Hybrid /\ Does("remove")
      BY <2>3, PoolSteps DEF RemoveReplicas
    <3>2. Engines'
      BY <2>1, <3>1 DEF Engines
    <3>3. \A t \in Servers, x \in Status : Matches(t, x) => Matches(t, Do("remove", x))'
      BY <2>1, <3>1, DoFields DEF Matches
    <3>4. QED
      BY <2>1, <3>1, <3>2, <3>3, DoesPlan DEF Global
  <2>4. QED
    BY <1>3, <2>2, <2>3
<1>4. ASSUME SetActive \/ ClearSticky \/ RebalanceWait \/ Compute
      PROVE  Engines' /\ Plan'
  <2>1. /\ paused' = paused /\ asleep' = asleep /\ version' = version
        /\ trainer_validates' = trainer_validates
    BY <1>4 DEF SetActive, ClearSticky, RebalanceWait, Compute, engineVars
  <2>2. LB!Pool' = LB!Pool
    <3>1. CASE UNCHANGED lbVars
      BY <3>1 DEF lbVars, LB!Pool
    <3>2. CASE ClearSticky
      BY <3>2, PoolSteps DEF ClearSticky
    <3>3. QED
      BY <1>4, <3>1, <3>2 DEF SetActive, RebalanceWait, Compute
  <2>3. ASSUME NEW op \in {"activated", "deactivated"}, Does(op),
               hybrid_active' = (op = "activated"),
               current_param_version' = current_param_version
        PROVE  Engines' /\ Plan'
    <3>1. Engines'
      BY <2>1, <2>2, <2>3 DEF Engines
    <3>2. \A t \in Servers, x \in Status : Matches(t, x) => Matches(t, Do(op, x))'
      <4>1. CASE op = "activated"
        <5>1. hybrid_active'
          BY <2>3, <4>1
        <5>2. QED
          BY <2>1, <2>2, <2>3, <4>1, <5>1, DoFields DEF Matches
      <4>2. CASE op = "deactivated"
        <5>1. ~hybrid_active'
          BY <2>3, <4>2
        <5>2. QED
          BY <2>1, <2>2, <2>3, <4>2, <5>1, DoFields DEF Matches
      <4>3. QED
        BY <2>3, <4>1, <4>2
    <3>3. QED
      BY <2>1, <2>3, <3>1, <3>2, DoesPlan DEF Global
  <2>4. ASSUME NEW op \in {"clear", "wait", "validate"}, Does(op),
               UNCHANGED <<hybrid_active, current_param_version>>
        PROVE  Engines' /\ Plan'
    <3>1. Engines'
      BY <2>1, <2>2, <2>4 DEF Engines
    <3>2. \A t \in Servers, x \in Status : Matches(t, x) => Matches(t, Do(op, x))'
      BY <2>1, <2>2, <2>4, DoFields DEF Matches
    <3>3. QED
      BY <2>1, <2>4, <3>1, <3>2, DoesPlan DEF Global
  <2>5. ASSUME Does("train"), hybrid_active' = hybrid_active,
               current_param_version' = current_param_version + 1
        PROVE  Engines' /\ Plan'
    <3>1. Engines'
      BY <2>1, <2>2, <2>5 DEF Engines
    <3>2. \A t \in Servers : version'[t] # current_param_version'
      BY <2>1, <2>5 DEF Engines
    <3>3. \A t \in Servers, x \in Status : Matches(t, x) => Matches(t, Do("train", x))'
      BY <2>1, <2>2, <2>5, <3>2, DoFields DEF Matches
    <3>4. QED
      BY <2>1, <2>5, <3>1, <3>3, DoesPlan DEF Global
  <2>6. QED
    BY <1>4, <2>3, <2>4, <2>5 DEF SetActive, ClearSticky, RebalanceWait, Compute
<1>5. ASSUME StartFit \/ UNCHANGED vars PROVE Engines' /\ Plan'
  <2>1. /\ UNCHANGED <<paused, asleep, version, todo, trainer_validates,
                       hybrid_active, current_param_version, inflight>>
    BY <1>5 DEF StartFit, vars, engineVars, trainerVars, lbVars
  <2>2. LB!Pool' = LB!Pool
    BY <2>1 DEF LB!Pool
  <2>3. Engines'
    BY <2>1, <2>2 DEF Engines
  <2>4. PICK q : q = todo
    OBVIOUS
  <2>5. \A t, x : Matches(t, x) => Matches(t, x)'
    BY <2>1, <2>2 DEF Matches
  <2>6. \A t \in Servers : \E x, y \in Status :
          Matches(t, x)' /\ Leads(q, t, x, y) /\ Rest(t, y)
    BY <2>4, <2>5 DEF Plan
  <2>7. QED
    BY <2>1, <2>3, <2>4, <2>6, PlanStep
<1>6. ASSUME FitStep PROVE Engines' /\ Plan'
  <2>1. /\ UNCHANGED <<paused, asleep, version, trainer_validates,
                       hybrid_active, current_param_version, inflight>>
        /\ todo = <<>>
    BY <1>6 DEF FitStep, engineVars, lbVars
  <2>2. LB!Pool' = LB!Pool
    BY <2>1 DEF LB!Pool
  <2>3. Engines'
    BY <2>1, <2>2 DEF Engines
  <2>4. PICK activate \in ActivateAnswers, due \in ValidateAnswers :
          todo' = Cycle(hybrid_active, activate, due)
    BY <1>6 DEF FitStep, Cycle
  <2>5. PICK q : q = todo'
    OBVIOUS
  <2>6. \A t, x : Matches(t, x) => Matches(t, x)'
    BY <2>1, <2>2 DEF Matches
  <2>7. PICK b \in BOOLEAN : b = hybrid_active
    BY DEF Engines
  <2>8. ASSUME NEW t \in Servers
        PROVE  \E x, y \in Status :
                 Matches(t, x)' /\ Leads(q, t, x, y) /\ Rest(t, y)
    <3>1. PICK x \in Status : Matches(t, x) /\ Rest(t, x)
      BY <2>1, AtRest
    <3>2. b <=> x.active = "on"
      BY <2>7, <3>1 DEF Matches
    <3>3. PICK y \in Status : Leads(Cycle(b, activate, due), t, x, y) /\ Rest(t, y)
      BY <3>1, <3>2, CycleLeads
    <3>4. q = Cycle(b, activate, due)
      BY <2>4, <2>5, <2>7
    <3>5. QED
      BY <2>6, <3>1, <3>3, <3>4
  <2>9. QED
    BY <2>1, <2>3, <2>5, <2>8, PlanStep
<1>7. QED
  BY <1>1, <1>2, <1>3, <1>4, <1>5, <1>6 DEF Next, Trainer

-----------------------------------------------------------------------------
(* The clients' side: what a running attempt may rely on *)

Clients ==
  /\ client \in [Requests -> Stages]
  /\ using \in [Requests -> Servers \union {NoServer}]
  /\ began \in [Requests -> Nat]
  /\ \A r \in Requests : client[r] = "sent" => using[r] \in Servers

\* Nothing runs in a paused engine; an attempt runs with the weights it began
\* with; and a replica that sleeps is paused or out of every client's reach.
Quiet(s) ==
  /\ paused[s] => Running(s) = {}
  /\ \A r \in Running(s) : ~asleep[s] /\ began[r] = version[s]
  /\ asleep[s] => \/ paused[s]
                  \/ s \notin LB!Pool /\ \A r \in Requests : using[r] # s

Undisturbed == trainer_validates \/ \A s \in Servers : Quiet(s)

\* The clients and the trainer's calls keep it, by what the plan says the calls
\* find.
LEMMA QuietNext ==
  ASSUME Engines, Plan, Clients, Undisturbed, [Next]_vars
  PROVE  Clients' /\ Undisturbed'
<1> USE Kinds, ServingAssumption
<1>0. trainer_validates' = trainer_validates
  BY DEF Next, Trainer, Generate, Client, Acquire, AcquireFails, Admit, Token,
         Merge, Release, Abort, ResumeGeneration, Drain, Sleep, Update, Calls,
         AddReplicas, RemoveReplicas, SetActive, ClearSticky, RebalanceWait,
         Compute, StartFit, FitStep, trainerVars, vars
<1>1. SUFFICES ASSUME ~trainer_validates => \A s \in Servers : Quiet(s)
               PROVE  Clients' /\ (~trainer_validates => \A s \in Servers : Quiet(s)')
  BY <1>0 DEF Undisturbed
<1> USE DEF Stages
<1>2. ASSUME NEW r \in Requests, Generate(r) \/ Token(r) \/ Merge(r)
      PROVE  Clients' /\ (~trainer_validates => \A s \in Servers : Quiet(s)')
  <2>1. /\ UNCHANGED <<began, using, inflight, paused, asleep, version>>
        /\ client' \in [Requests -> Stages]
        /\ \A u \in Requests : client'[u] \in {"sent", "running"} => client[u] = client'[u]
    BY <1>2 DEF Generate, Token, Merge, lbVars, engineVars, Clients
  <2>2. Clients'
    BY <2>1 DEF Clients
  <2>3. \A s \in Servers : Running(s)' \subseteq Running(s)
    BY <2>1 DEF Running
  <2>4. LB!Pool' = LB!Pool
    BY <2>1 DEF LB!Pool
  <2>5. \A s \in Servers : Quiet(s) => Quiet(s)'
    BY <2>1, <2>3, <2>4 DEF Quiet
  <2>6. QED
    BY <1>1, <2>2, <2>5
<1>3. ASSUME NEW r \in Requests, AcquireFails(r) \/ Release(r)
      PROVE  Clients' /\ (~trainer_validates => \A s \in Servers : Quiet(s)')
  <2>1. /\ UNCHANGED <<began, paused, asleep, version>> /\ LB!Pool' = LB!Pool
        /\ client' \in [Requests -> Stages]
        /\ \A u \in Requests : client'[u] \in {"sent", "running"} => client[u] = client'[u]
    BY <1>3, PoolSteps DEF AcquireFails, Release, clientVars, engineVars, Clients
  <2>2. /\ using' \in [Requests -> Servers \union {NoServer}]
        /\ \A u \in Requests : using'[u] = using[u] \/ (u = r /\ using'[u] = NoServer)
    BY <1>3 DEF AcquireFails, Release, LB!AcquireRaises, LB!ReleaseServer, Clients
  <2>3. client[r] \in {"acquiring", "idle"}
    BY <1>3 DEF AcquireFails, Release
  <2>4. Clients'
    BY <2>1, <2>2, <2>3 DEF Clients
  <2>5. \A s \in Servers : Running(s)' \subseteq Running(s)
    BY <2>1, <2>2, <2>3 DEF Running
  <2>6. \A s \in Servers : Quiet(s) => Quiet(s)'
    BY <2>1, <2>2, <2>5 DEF Quiet
  <2>7. QED
    BY <1>1, <2>4, <2>6
<1>4. ASSUME NEW r \in Requests, Acquire(r)
      PROVE  Clients' /\ (~trainer_validates => \A s \in Servers : Quiet(s)')
  <2>1. PICK v \in Servers : LB!AcquireServer(r, v)
    BY <1>4 DEF Acquire
  <2>2. /\ UNCHANGED <<began, paused, asleep, version>>
        /\ LB!Pool' = LB!Pool /\ v \in LB!Pool
        /\ client' = [client EXCEPT ![r] = "sent"]
        /\ using' = [using EXCEPT ![r] = v]
    BY <1>4, <2>1, PoolSteps DEF Acquire, engineVars, LB!AcquireServer
  <2>3. Clients'
    BY <2>2 DEF Clients
  <2>4. \A s \in Servers : Running(s)' \subseteq Running(s)
    BY <2>2 DEF Running, Clients
  <2>5. \A s \in Servers : Quiet(s) => Quiet(s)'
    BY <2>2, <2>4 DEF Quiet, Clients
  <2>6. QED
    BY <1>1, <2>3, <2>5
<1>5. ASSUME NEW r \in Requests, Admit(r)
      PROVE  Clients' /\ (~trainer_validates => \A s \in Servers : Quiet(s)')
  <2>1. /\ UNCHANGED <<paused, asleep, version, using, inflight>>
        /\ client[r] = "sent" /\ ~paused[using[r]]
        /\ client' = [client EXCEPT ![r] = "running"]
        /\ began' = [began EXCEPT ![r] = version[using[r]]]
    BY <1>5 DEF Admit, engineVars, lbVars
  <2>2. LB!Pool' = LB!Pool
    BY <2>1 DEF LB!Pool
  <2>3. using[r] \in Servers /\ version[using[r]] \in Nat
    BY <2>1 DEF Clients, Engines
  <2>4. Clients'
    BY <2>1, <2>3 DEF Clients
  <2>5. ASSUME NEW s \in Servers, Quiet(s) PROVE Quiet(s)'
    <3>1. CASE s = using[r]
      <4>1. Running(s)' = Running(s) \union {r}
        BY <2>1, <3>1 DEF Running, Clients
      <4>2. ~paused[s] /\ ~asleep[s] /\ began'[r] = version[s]
        BY <2>1, <2>5, <3>1 DEF Quiet, Clients
      <4>3. \A u \in Running(s) : u # r => began'[u] = began[u]
        BY <2>1 DEF Running, Clients
      <4>4. QED
        BY <2>1, <2>2, <2>5, <4>1, <4>2, <4>3 DEF Quiet
    <3>2. CASE s # using[r]
      <4>1. Running(s)' = Running(s) /\ r \notin Running(s)
        BY <2>1, <3>2 DEF Running, Clients
      <4>2. \A u \in Running(s) : began'[u] = began[u]
        BY <2>1, <4>1 DEF Running, Clients
      <4>3. QED
        BY <2>1, <2>2, <2>5, <4>1, <4>2 DEF Quiet
    <3>3. QED
      BY <3>1, <3>2
  <2>6. QED
    BY <1>1, <2>4, <2>5
<1>6. ASSUME NEW v \in Servers, Abort(v)
      PROVE  Clients' /\ (~trainer_validates => \A s \in Servers : Quiet(s)')
  <2>1. /\ UNCHANGED <<began, asleep, version, using, inflight>>
        /\ paused' = [paused EXCEPT ![v] = TRUE]
        /\ client' = [r \in Requests |->
                        IF r \in Running(v) THEN "answered" ELSE client[r]]
    BY <1>6 DEF Abort, lbVars
  <2>2. LB!Pool' = LB!Pool
    BY <2>1 DEF LB!Pool
  <2>3. Clients'
    BY <2>1 DEF Clients
  <2>4. Running(v)' = {} /\ \A s \in Servers : Running(s)' \subseteq Running(s)
    BY <2>1 DEF Running, Clients
  <2>5. \A s \in Servers : Quiet(s) => Quiet(s)'
    BY <2>1, <2>2, <2>4 DEF Quiet, Engines
  <2>6. QED
    BY <1>1, <2>3, <2>5
<1>7. ASSUME NEW v \in Servers,
             ResumeGeneration(v) \/ Drain(v) \/ Sleep(v) \/ Update(v)
      PROVE  Clients' /\ (~trainer_validates => \A s \in Servers : Quiet(s)')
  <2>1. UNCHANGED <<began, client, using, inflight>>
    BY <1>7 DEF ResumeGeneration, Drain, Sleep, Update, lbVars, clientVars
  <2>2. LB!Pool' = LB!Pool
    BY <2>1 DEF LB!Pool
  <2>3. Clients'
    BY <2>1 DEF Clients
  <2>4. \A s \in Servers : Running(s)' = Running(s)
    BY <2>1 DEF Running
  <2>5. todo # <<>> /\ v \in todo[1].on
    BY <1>7 DEF ResumeGeneration, Drain, Sleep, Update, Calls
  <2>6. PICK x \in Status : Matches(v, x) /\ Ready(todo[1].op, v, x)
    BY <2>5, NextCall
  <2>7. ASSUME ~trainer_validates, NEW s \in Servers, Quiet(s)
        PROVE  Quiet(s)'
    <3>1. CASE ResumeGeneration(v)
      <4>1. /\ todo[1].op = "resume" /\ UNCHANGED <<asleep, version>>
            /\ paused' = [paused EXCEPT ![v] = FALSE]
        BY <3>1 DEF ResumeGeneration, Calls
      <4>2. ~asleep[v]
        BY <2>6, <2>7, <4>1 DEF Ready, Wants, Matches
      <4>3. QED
        BY <2>1, <2>2, <2>4, <2>7, <4>1, <4>2 DEF Quiet, Engines
    <3>2. CASE Drain(v)
      <4>1. UNCHANGED <<paused, asleep, version>>
        BY <3>2 DEF Drain, engineVars
      <4>2. QED
        BY <2>1, <2>2, <2>4, <2>7, <4>1 DEF Quiet
    <3>3. CASE Sleep(v)
      <4>1. /\ todo[1].op = "sleep" /\ UNCHANGED <<paused, version>>
            /\ asleep' = [asleep EXCEPT ![v] = TRUE]
        BY <3>3 DEF Sleep, Calls
      <4>2. paused[v]
        BY <2>6, <2>7, <4>1 DEF Ready, Wants, Matches
      <4>3. QED
        BY <2>1, <2>2, <2>4, <2>7, <4>1, <4>2 DEF Quiet, Engines
    <3>4. CASE Update(v)
      <4>1. /\ todo[1].op = "update" /\ UNCHANGED paused
            /\ version' = [version EXCEPT ![v] = current_param_version]
            /\ asleep' = [asleep EXCEPT ![v] = FALSE]
        BY <3>4 DEF Update, Calls
      <4>2. paused[v]
        BY <2>6, <2>7, <4>1 DEF Ready, Wants, Matches
      <4>3. QED
        BY <2>1, <2>2, <2>4, <2>7, <4>1, <4>2 DEF Quiet, Engines
    <3>5. QED
      BY <1>7, <3>1, <3>2, <3>3, <3>4
  <2>8. QED
    BY <1>1, <2>3, <2>7
<1>8. ASSUME AddReplicas
      PROVE  Clients' /\ (~trainer_validates => \A s \in Servers : Quiet(s)')
  <2>1. /\ UNCHANGED <<began, client, using, paused, asleep, version>>
        /\ LB!Pool' = LB!Pool \union Hybrid
        /\ todo # <<>> /\ todo[1].op = "add"
    <3>1. LB!AddServers(Hybrid \ LB!Pool)
      BY <1>8 DEF AddReplicas
    <3>2. LB!Pool' = LB!Pool \union Hybrid
      BY <3>1, PoolSteps
    <3>3. using' = using
      BY <3>1 DEF LB!AddServers
    <3>4. QED
      BY <1>8, <3>2, <3>3 DEF AddReplicas, Does, clientVars, engineVars
  <2>2. Clients'
    BY <2>1 DEF Clients
  <2>3. \A s \in Servers : Running(s)' = Running(s)
    BY <2>1 DEF Running
  <2>4. ASSUME ~trainer_validates, NEW s \in Servers, Quiet(s)
        PROVE  Quiet(s)'
    <3>1. s \in Hybrid => ~asleep[s]
      <4>1. PICK x \in Status : Matches(s, x) /\ Ready(todo[1].op, s, x)
        BY <2>1, NextCall DEF Global
      <4>2. QED
        BY <2>1, <2>4, <4>1 DEF Ready, Wants, Matches
    <3>2. QED
      BY <2>1, <2>3, <2>4, <3>1 DEF Quiet
  <2>5. QED
    BY <1>1, <2>2, <2>4
<1>9. ASSUME \/ RemoveReplicas \/ SetActive \/ ClearSticky \/ RebalanceWait
             \/ Compute \/ StartFit \/ FitStep \/ UNCHANGED vars
      PROVE  Clients' /\ (~trainer_validates => \A s \in Servers : Quiet(s)')
  <2>1. UNCHANGED <<began, client, using, paused, asleep, version>>
    BY <1>9 DEF RemoveReplicas, SetActive, ClearSticky, RebalanceWait, Compute,
         StartFit, FitStep, LB!RemoveServers, LB!ClearStickyCache, clientVars,
         engineVars, lbVars, vars
  <2>2. LB!Pool' \subseteq LB!Pool
    <3>1. CASE UNCHANGED lbVars
      BY <3>1 DEF lbVars, LB!Pool
    <3>2. CASE RemoveReplicas \/ ClearSticky
      BY <3>2, PoolSteps DEF RemoveReplicas, ClearSticky
    <3>3. QED
      BY <1>9, <3>1, <3>2 DEF SetActive, RebalanceWait, Compute, StartFit,
         FitStep, vars
  <2>3. Clients'
    BY <2>1 DEF Clients
  <2>4. \A s \in Servers : Running(s)' = Running(s)
    BY <2>1 DEF Running
  <2>5. \A s \in Servers : Quiet(s) => Quiet(s)'
    BY <2>1, <2>2, <2>4 DEF Quiet
  <2>6. QED
    BY <1>1, <2>3, <2>5
<1>10. QED
  BY <1>2, <1>3, <1>4, <1>5, <1>6, <1>7, <1>8, <1>9 DEF Next, Client, Trainer

-----------------------------------------------------------------------------
(* The theorems *)

\* The trainer computes only while every hybrid replica has given its GPU
\* memory back.
THEOREM TrainsAloneHolds == Spec => []TrainsAlone
<1>1. Init => Engines /\ Plan
  BY PlanInit
<1>2. Engines /\ Plan /\ [Next]_vars => Engines' /\ Plan'
  BY PlanNext
<1>3. Engines /\ Plan => TrainsAlone
  <2>1. SUFFICES ASSUME Plan, todo # <<>>, todo[1].op = "train", NEW h \in Hybrid
                 PROVE  asleep[h]
    BY DEF TrainsAlone
  <2>2. PICK x \in Status : Matches(h, x) /\ Ready(todo[1].op, h, x)
    BY <2>1, Kinds, NextCall DEF Global
  <2>3. QED
    BY <2>1, <2>2 DEF Ready, Matches
<1>4. QED
  BY <1>1, <1>2, <1>3, PTL DEF Spec

\* Between two cycles every registered server is awake, lets requests in and
\* has the current weights.
THEOREM PoolIsFreshHolds == Spec => []PoolIsFresh
<1>1. Init => Engines /\ Plan
  BY PlanInit
<1>2. Engines /\ Plan /\ [Next]_vars => Engines' /\ Plan'
  BY PlanNext
<1>3. Engines /\ Plan => PoolIsFresh
  <2>1. SUFFICES ASSUME Engines, Plan, todo = <<>>, NEW s \in LB!Pool
                 PROVE  version[s] = current_param_version /\ ~asleep[s] /\ ~paused[s]
    BY DEF PoolIsFresh
  <2>2. s \in Servers
    BY <2>1 DEF Engines
  <2>3. PICK x \in Status : Matches(s, x) /\ Rest(s, x)
    BY <2>1, <2>2, AtRest
  <2>4. x.fresh = "on" /\ x.asleep = "off" /\ x.paused = "off"
    BY <2>2, <2>3 DEF Rest, Matches, Servers
  <2>5. QED
    BY <2>3, <2>4 DEF Matches
<1>4. QED
  BY <1>1, <1>2, <1>3, PTL DEF Spec

\* While the trainer waits for the next batch there is a server to produce it,
\* if there are standalone replicas or the trainer leaves validation to others:
\* its own validation puts the hybrid replicas to sleep.
THEOREM ServersWhileWaitingHolds ==
  ASSUME Standalone # {} \/ TRUE \notin ValidateModes
  PROVE  Spec => []ServersWhileWaiting
<1>1. Init => Engines /\ Plan
  BY PlanInit
<1>2. Engines /\ Plan /\ [Next]_vars => Engines' /\ Plan'
  BY PlanNext
<1>3. Engines /\ Plan => ServersWhileWaiting
  <2>1. SUFFICES ASSUME Engines, Plan, todo = <<>> PROVE LB!Pool # {}
    BY DEF ServersWhileWaiting
  <2>2. CASE Standalone # {}
    BY <2>1, <2>2 DEF Engines
  <2>3. CASE Standalone = {}
    <3>1. ~trainer_validates
      BY <2>1, <2>3, ServingAssumption DEF Engines
    <3>2. PICK h : h \in Hybrid
      BY <2>1, <2>3, ServingAssumption DEF Engines
    <3>3. PICK x \in Status : Matches(h, x) /\ Rest(h, x)
      BY <2>1, <3>2, AtRest DEF Servers
    <3>4. x.pool = "on"
      BY <2>3, <3>1, <3>3 DEF Rest, OnlyHybrid
    <3>5. QED
      BY <3>2, <3>3, <3>4 DEF Matches
  <2>4. QED
    BY <2>2, <2>3
<1>4. QED
  BY <1>1, <1>2, <1>3, PTL DEF Spec

\* Where the trainer does not validate, no request runs on a replica whose
\* weights have been freed, and every attempt ends with the weights it started
\* with.
THEOREM NoUpdateWhileServingHolds == Spec => []NoUpdateWhileServing
<1> DEFINE Inv == Engines /\ Plan /\ Clients /\ Undisturbed
<1>1. Init => Inv
  <2> SUFFICES ASSUME Init PROVE Clients /\ Undisturbed
    BY PlanInit
  <2>1. /\ client = [r \in Requests |-> "idle"] /\ began = [r \in Requests |-> 0]
        /\ using = [r \in Requests |-> NoServer] /\ LB!Pool = Standalone
    BY DEF Init, LB!Init, LB!Pool
  <2>2. paused = [s \in Servers |-> FALSE]
    BY DEF Init
  <2>3. asleep = [s \in Servers |-> s \in Hybrid]
    BY DEF Init
  <2>4. \A s \in Servers : asleep[s] = (s \in Hybrid)
    BY <2>3, Zenon
  <2>5. Clients
    BY <2>1 DEF Clients, Stages
  <2>6. \A s \in Servers : Running(s) = {} /\ \A r \in Requests : using[r] # s
    BY <2>1, ServingAssumption DEF Running
  <2>7. \A s \in Servers : asleep[s] => s \notin LB!Pool
    BY <2>1, <2>4, Kinds
  <2>8. \A s \in Servers : Quiet(s)
    BY <2>6, <2>7 DEF Quiet
  <2>9. QED
    BY <2>5, <2>8 DEF Undisturbed
<1>2. Inv /\ [Next]_vars => Inv'
  BY PlanNext, QuietNext
<1>3. Inv => NoUpdateWhileServing
  BY DEF Undisturbed, Quiet, NoUpdateWhileServing
<1>4. QED
  BY <1>1, <1>2, <1>3, PTL DEF Spec

\* The clients and the trainer use the load balancer only through its methods:
\* in the serving layer it does what LoadBalancer says, so that what is proved
\* of its counts by itself holds here.
THEOREM BalancerImplemented == Spec => LB!Spec
<1>1. Init => LB!Init
  BY DEF Init
<1>2. [Next]_vars => [LB!Next]_(LB!vars)
  <2> SUFFICES ASSUME [Next]_vars PROVE LB!Next \/ UNCHANGED LB!vars
    OBVIOUS
  <2>1. CASE UNCHANGED lbVars
    BY <2>1 DEF lbVars, LB!vars
  <2>2. ASSUME NEW r \in Requests, Acquire(r) \/ AcquireFails(r) \/ Release(r)
        PROVE  LB!Next
    BY <2>2 DEF Acquire, AcquireFails, Release, LB!Next
  <2>3. ASSUME NEW S \in SUBSET Servers, LB!AddServers(S) \/ LB!RemoveServers(S)
        PROVE  LB!Next
    BY <2>3 DEF LB!Next
  <2>4. CASE AddReplicas \/ RemoveReplicas
    <3>1. Hybrid \in SUBSET Servers /\ Hybrid \ LB!Pool \in SUBSET Servers
      BY Kinds
    <3>2. QED
      BY <2>3, <2>4, <3>1 DEF AddReplicas, RemoveReplicas
  <2>5. CASE ClearSticky
    BY <2>5 DEF ClearSticky, LB!Next
  <2>6. QED
    BY <2>1, <2>2, <2>4, <2>5
    DEF Next, Generate, Client, Admit, Token, Merge, Trainer, Abort,
        ResumeGeneration, Drain, Sleep, Update, SetActive, RebalanceWait,
        Compute, StartFit, FitStep, vars
<1>3. QED
  BY <1>1, <1>2, PTL DEF Spec, LB!Spec
=============================================================================
