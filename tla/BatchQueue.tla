----------------------------- MODULE BatchQueue -----------------------------
(***************************************************************************)
(* What embassy/src/executor/run_queue.rs promises its only user, the      *)
(* executor: enqueue is one atomic step whose result says whether the      *)
(* queue was empty, dequeue_all takes the whole queue in one atomic step   *)
(* and hands its tasks out one at a time, newest first, and a consumer     *)
(* that sleeps when it has nothing to do is woken when a task arrives.     *)
(*                                                                         *)
(* RunQueue.tla is the lock-free implementation of this specification.     *)
(***************************************************************************)
EXTENDS Sequences, Integers

CONSTANTS Tasks, NULL

VARIABLES
    claimed,   \* tasks whose RUN_QUEUED bit is set
    queue,     \* tasks in the queue, oldest first
    batch,     \* tasks of the current dequeue_all not handed out yet, oldest first
    running,   \* the task on_task is running, or NULL
    asleep,    \* the consumer is between two dequeue_all
    wake       \* a wake-up of the consumer is on its way

vars == <<claimed, queue, batch, running, asleep, wake>>

Init ==
    /\ claimed = {}
    /\ queue = <<>>
    /\ batch = <<>>
    /\ running = NULL
    /\ asleep \in BOOLEAN
    /\ wake = FALSE

\* A waker wins the RUN_QUEUED bit of t: it alone may now enqueue t.
Claim(t) ==
    /\ t \notin claimed
    /\ claimed' = claimed \cup {t}
    /\ UNCHANGED <<queue, batch, running, asleep, wake>>

\* enqueue(t); the enqueuer that finds the queue empty wakes the consumer.
Push(t) ==
    /\ t \in claimed
    /\ \A i \in 1..Len(queue) : queue[i] # t
    /\ \A i \in 1..Len(batch) : batch[i] # t
    /\ queue' = Append(queue, t)
    /\ wake' = (wake \/ queue = <<>>)
    /\ UNCHANGED <<claimed, batch, running, asleep>>

\* The consumer's sleep ends: because it was woken, or spuriously.
Wake ==
    /\ asleep
    /\ asleep' = FALSE
    /\ wake' \in {wake, FALSE}
    /\ UNCHANGED <<claimed, queue, batch, running>>

\* dequeue_all empties the queue.
TakeAll ==
    /\ ~asleep /\ batch = <<>> /\ running = NULL
    /\ batch' = queue
    /\ queue' = <<>>
    /\ asleep' = (queue = <<>>)
    /\ UNCHANGED <<claimed, running, wake>>

\* on_task(t) for the newest task of the batch: t may be claimed again from now on.
Deliver ==
    /\ ~asleep /\ batch # <<>> /\ running = NULL
    /\ running' = batch[Len(batch)]
    /\ batch' = SubSeq(batch, 1, Len(batch) - 1)
    /\ claimed' = claimed \ {batch[Len(batch)]}
    /\ UNCHANGED <<queue, asleep, wake>>

\* on_task returns; after the last task of the batch the consumer goes to sleep.
Return ==
    /\ running # NULL
    /\ running' = NULL
    /\ asleep' = (batch = <<>>)
    /\ UNCHANGED <<claimed, queue, batch, wake>>

Next ==
    \/ \E t \in Tasks : Claim(t) \/ Push(t)
    \/ Wake \/ TakeAll \/ Deliver \/ Return

Spec == Init /\ [][Next]_vars
=============================================================================
