---------------------------- MODULE MessageQueue ----------------------------
(***************************************************************************)
(* The Ray actor MessageQueue (fully_async_policy/message_queue.py) that   *)
(* carries finished samples from the rollouter to the trainer.             *)
(*                                                                         *)
(* Every method runs under one asyncio lock, so a method body is one step, *)
(* except get_sample, which gives the lock up while it waits on the        *)
(* consumer condition and tests the queue again once it is woken.          *)
(***************************************************************************)
EXTENDS Naturals, Sequences

CONSTANTS
  Samples,      \* the payloads that are put, the termination signal included
  Consumers,    \* the callers of get_sample
  MaxQueueSize, \* max_queue_size
  MaxPuts,      \* bounds the number of put_sample calls of a behaviour
  MaxValQueue   \* bounds the (unbounded) validation queue

ASSUME QueueAssumption ==
  /\ MaxQueueSize \in Nat \ {0}
  /\ MaxPuts \in Nat
  /\ MaxValQueue \in Nat

VARIABLES
  queue,            \* deque(maxlen=max_queue_size)
  val_queue,        \* deque of validation results
  running,
  total_produced,
  total_consumed,
  dropped_samples,
  getter,           \* the state of each consumer's get_sample call
  log,              \* history: every payload put, in order
  cleared           \* history: the samples discarded by clear_queue

queueVars == <<queue, val_queue, running, total_produced, total_consumed,
          dropped_samples, getter, log, cleared>>

\* A get_sample call is not under way, waits on the condition, or has been
\* notified and has yet to take the lock again.
GetterStates == {"idle", "waiting", "notified"}

QueueTypeOK ==
  /\ queue \in Seq(Samples) /\ Len(queue) <= MaxQueueSize
  /\ val_queue \in Seq(Samples) /\ Len(val_queue) <= MaxValQueue
  /\ running \in BOOLEAN
  /\ total_produced \in 0..MaxPuts
  /\ total_consumed \in Nat
  /\ dropped_samples \in Nat
  /\ getter \in [Consumers -> GetterStates]
  /\ log \in Seq(Samples)
  /\ cleared \in Nat

QueueInit ==
  /\ queue = <<>>
  /\ val_queue = <<>>
  /\ running = TRUE
  /\ total_produced = 0
  /\ total_consumed = 0
  /\ dropped_samples = 0
  /\ getter = [c \in Consumers |-> "idle"]
  /\ log = <<>>
  /\ cleared = 0

-----------------------------------------------------------------------------
\* Mutant of NotifyAll: a waiter is never told.
MutNoNotify == UNCHANGED getter

\* _consumer_condition.notify_all()
NotifyAll ==
  getter' = [c \in Consumers |->
               IF getter[c] = "waiting" THEN "notified" ELSE getter[c]]

\* Mutant of IsFull: the capacity test is off by one.
MutFullLate == Len(queue) > MaxQueueSize

\* put_sample's test; its caller is told False when a sample had to go.
IsFull == Len(queue) >= MaxQueueSize

\* Mutant of Enqueue: appendleft instead of append.
MutEnqueueLeft(s) == <<s>> \o (IF IsFull THEN Tail(queue) ELSE queue)

\* A full queue loses its oldest sample.
Enqueue(s) == Append(IF IsFull THEN Tail(queue) ELSE queue, s)

PutSample(s) ==
  /\ total_produced < MaxPuts
  /\ queue' = Enqueue(s)
  /\ dropped_samples' = IF IsFull THEN dropped_samples + 1 ELSE dropped_samples
  /\ total_produced' = total_produced + 1
  /\ NotifyAll
  /\ log' = Append(log, s)
  /\ UNCHANGED <<val_queue, running, total_consumed, cleared>>

\* The call, or the woken waiter, finds the queue empty and (again) waits.
GetSampleWait(c) ==
  /\ getter[c] \in {"idle", "notified"}
  /\ queue = <<>> /\ running
  /\ getter' = [getter EXCEPT ![c] = "waiting"]
  /\ UNCHANGED <<queue, val_queue, running, total_produced, total_consumed,
                 dropped_samples, log, cleared>>

\* The queue is closed and empty: None is returned.
GetSampleClosed(c) ==
  /\ getter[c] \in {"idle", "notified"}
  /\ queue = <<>> /\ ~running
  /\ getter' = [getter EXCEPT ![c] = "idle"]
  /\ UNCHANGED <<queue, val_queue, running, total_produced, total_consumed,
                 dropped_samples, log, cleared>>

\* Mutant of GetSampleTake: a woken waiter's sample is not counted.
MutTakeUncounted(c) ==
  /\ getter[c] \in {"idle", "notified"}
  /\ queue # <<>>
  /\ queue' = Tail(queue)
  /\ total_consumed' = IF getter[c] = "idle" THEN total_consumed + 1
                                           ELSE total_consumed
  /\ getter' = [getter EXCEPT ![c] = "idle"]
  /\ UNCHANGED <<val_queue, running, total_produced, dropped_samples, log,
                 cleared>>

\* The oldest sample is returned.
GetSampleTake(c) ==
  /\ getter[c] \in {"idle", "notified"}
  /\ queue # <<>>
  /\ queue' = Tail(queue)
  /\ total_consumed' = total_consumed + 1
  /\ getter' = [getter EXCEPT ![c] = "idle"]
  /\ UNCHANGED <<val_queue, running, total_produced, dropped_samples, log,
                 cleared>>

ClearQueue ==
  /\ queue' = <<>>
  /\ cleared' = cleared + Len(queue)
  /\ UNCHANGED <<val_queue, running, total_produced, total_consumed,
                 dropped_samples, getter, log>>

Shutdown ==
  /\ running' = FALSE
  /\ NotifyAll
  /\ UNCHANGED <<queue, val_queue, total_produced, total_consumed,
                 dropped_samples, log, cleared>>

PutValidate(s) ==
  /\ Len(val_queue) < MaxValQueue
  /\ val_queue' = Append(val_queue, s)
  /\ UNCHANGED <<queue, running, total_produced, total_consumed,
                 dropped_samples, getter, log, cleared>>

\* get_validate never waits: on an empty queue it returns None at once.
GetValidate ==
  /\ val_queue # <<>>
  /\ val_queue' = Tail(val_queue)
  /\ UNCHANGED <<queue, running, total_produced, total_consumed,
                 dropped_samples, getter, log, cleared>>

GetSample(c) ==
  \/ GetSampleWait(c)
  \/ GetSampleClosed(c)
  \/ GetSampleTake(c)

QueueNext ==
  \/ \E s \in Samples : PutSample(s) \/ PutValidate(s)
  \/ \E c \in Consumers : GetSample(c)
  \/ ClearQueue
  \/ Shutdown
  \/ GetValidate

QueueSpec == QueueInit /\ [][QueueNext]_queueVars

-----------------------------------------------------------------------------
(* Properties *)

\* No lost wake-up: a consumer sleeps on the condition only while get_sample's
\* loop test (empty and running) holds; put_sample and shutdown notify it.
NoLostWakeup ==
  \A c \in Consumers : getter[c] = "waiting" => queue = <<>> /\ running

\* The statistics add up: what was produced was consumed, dropped by a full
\* queue, thrown away by clear_queue, or is still queued.
Accounting ==
  total_produced = total_consumed + dropped_samples + cleared + Len(queue)

\* The number of samples that have left the queue at its head.
HeadPosition == Len(log) - Len(queue)

\* The queue holds the most recent payloads in the order they were put: a
\* sample is handed out at most once, in order, and overflow costs the oldest.
HoldsNewest ==
  /\ Len(queue) <= Len(log)
  /\ \A i \in 1..Len(queue) : queue[i] = log[HeadPosition + i]
=============================================================================
