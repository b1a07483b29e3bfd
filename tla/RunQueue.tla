------------------------------ MODULE RunQueue ------------------------------
(***************************************************************************)
(* The lock-free run queue of embassy/src/executor/run_queue.rs, one       *)
(* action per atomic access, together with the two pieces of raw.rs that   *)
(* it depends on: the RUN_QUEUED bit, which makes the waker that sets it   *)
(* the only one to enqueue the task, and the wake-up that the enqueuer of  *)
(* an empty queue sends to the consumer.                                   *)
(*                                                                         *)
(* A producer is any context that wakes tasks: a task, an interrupt        *)
(* handler, a thread.  The consumer is the executor that owns the queue.   *)
(* The consumer's own nested wakes are the steps of a producer too; that   *)
(* producer and the consumer interleave more freely here than in the code. *)
(***************************************************************************)
EXTENDS Sequences, Integers

CONSTANTS Tasks, Producers, NULL

ASSUME RunQueueAssumption == NULL \notin Tasks

VARIABLES
    head,      \* RunQueue::head
    next,      \* RunQueueItem::next of every task
    claimed,   \* tasks whose RUN_QUEUED bit is set
    ppc,       \* where each producer is in TaskHeader::enqueue
    item,      \* the task each producer enqueues
    prev,      \* `prev` of each producer's RunQueue::enqueue
    cpc,       \* where the consumer is in its loop around dequeue_all
    task,      \* `task` of dequeue_all
    nxt,       \* `next` of dequeue_all
    event,     \* the wake-up signal of the consumer
    queue,     \* history: tasks linked from head, oldest first
    batch      \* history: tasks taken and not yet handed to on_task, oldest first

vars == <<head, next, claimed, ppc, item, prev, cpc, task, nxt, event, queue, batch>>

producerVars == <<ppc, item, prev>>
consumerVars == <<cpc, task, nxt>>

Init ==
    /\ head = NULL
    /\ next = [t \in Tasks |-> NULL]
    /\ claimed = {}
    /\ ppc = [p \in Producers |-> "idle"]
    /\ item = [p \in Producers |-> NULL]
    /\ prev = [p \in Producers |-> NULL]
    /\ cpc \in {"wait", "swap"}
    /\ task = NULL
    /\ nxt = NULL
    /\ event = FALSE
    /\ queue = <<>>
    /\ batch = <<>>

-----------------------------------------------------------------------------
(* The producer: TaskHeader::enqueue and RunQueue::enqueue.                *)

\* Mutant: the early return of an already queued task is missing.
ClaimAgain(p, t) ==
    /\ ppc[p] = "idle"
    /\ claimed' = claimed \cup {t}
    /\ item' = [item EXCEPT ![p] = t]
    /\ ppc' = [ppc EXCEPT ![p] = "load"]
    /\ UNCHANGED <<head, next, prev, consumerVars, event, queue, batch>>

\* p wakes t and wins the RUN_QUEUED bit.  A waker that finds the bit set returns.
Claim(p, t) ==
    /\ ppc[p] = "idle"
    /\ t \notin claimed
    /\ claimed' = claimed \cup {t}
    /\ item' = [item EXCEPT ![p] = t]
    /\ ppc' = [ppc EXCEPT ![p] = "load"]
    /\ UNCHANGED <<head, next, prev, consumerVars, event, queue, batch>>

Load(p) ==
    /\ ppc[p] = "load"
    /\ prev' = [prev EXCEPT ![p] = head]
    /\ ppc' = [ppc EXCEPT ![p] = "store"]
    /\ UNCHANGED <<head, next, claimed, item, consumerVars, event, queue, batch>>

StoreNext(p) ==
    /\ ppc[p] = "store"
    /\ next' = [next EXCEPT ![item[p]] = prev[p]]
    /\ ppc' = [ppc EXCEPT ![p] = "cas"]
    /\ UNCHANGED <<head, claimed, item, prev, consumerVars, event, queue, batch>>

\* Mutant: head is stored without comparing it with prev.
CasBlind(p) ==
    /\ ppc[p] = "cas"
    /\ head' = item[p]
    /\ queue' = Append(queue, item[p])
    /\ ppc' = [ppc EXCEPT ![p] = IF prev[p] = NULL THEN "signal" ELSE "idle"]
    /\ UNCHANGED <<next, claimed, item, prev, consumerVars, event, batch>>

\* Mutant: the result of enqueue is inverted.
CasQuiet(p) ==
    /\ ppc[p] = "cas"
    /\ head = prev[p]
    /\ head' = item[p]
    /\ queue' = Append(queue, item[p])
    /\ ppc' = [ppc EXCEPT ![p] = IF prev[p] # NULL THEN "signal" ELSE "idle"]
    /\ UNCHANGED <<next, claimed, item, prev, consumerVars, event, batch>>

\* The exchange succeeds; enqueue returns whether the queue was empty.
CasOk(p) ==
    /\ ppc[p] = "cas"
    /\ head = prev[p]
    /\ head' = item[p]
    /\ queue' = Append(queue, item[p])
    /\ ppc' = [ppc EXCEPT ![p] = IF prev[p] = NULL THEN "signal" ELSE "idle"]
    /\ UNCHANGED <<next, claimed, item, prev, consumerVars, event, batch>>

\* The exchange fails because head moved, or spuriously: it is the weak one.
CasFail(p) ==
    /\ ppc[p] = "cas"
    /\ prev' = [prev EXCEPT ![p] = head]
    /\ ppc' = [ppc EXCEPT ![p] = "store"]
    /\ UNCHANGED <<head, next, claimed, item, consumerVars, event, queue, batch>>

\* Executor::enqueue calls signal_fn.
Signal(p) ==
    /\ ppc[p] = "signal"
    /\ event' = TRUE
    /\ ppc' = [ppc EXCEPT ![p] = "idle"]
    /\ UNCHANGED <<head, next, claimed, item, prev, consumerVars, queue, batch>>

Produce(p) ==
    Load(p) \/ StoreNext(p) \/ CasOk(p) \/ CasFail(p) \/ Signal(p)

-----------------------------------------------------------------------------
(* The consumer: the executor's loop around dequeue_all.                   *)

\* wfe returns and clears the event.
Wake ==
    /\ cpc = "wait"
    /\ event
    /\ event' = FALSE
    /\ cpc' = "swap"
    /\ UNCHANGED <<head, next, claimed, producerVars, task, nxt, queue, batch>>

\* wfe returns for a reason that has nothing to do with this queue.
SpuriousWake ==
    /\ cpc = "wait"
    /\ cpc' = "swap"
    /\ UNCHANGED <<head, next, claimed, producerVars, task, nxt, event, queue, batch>>

Swap ==
    /\ cpc = "swap"
    /\ task' = head
    /\ head' = NULL
    /\ batch' = queue
    /\ queue' = <<>>
    /\ cpc' = IF head = NULL THEN "wait" ELSE "read"
    /\ UNCHANGED <<next, claimed, producerVars, nxt, event>>

ReadNext ==
    /\ cpc = "read"
    /\ nxt' = next[task]
    /\ cpc' = "call"
    /\ UNCHANGED <<head, next, claimed, producerVars, task, event, queue, batch>>

\* on_task starts by clearing RUN_QUEUED: the task can be claimed again.
OnTask ==
    /\ cpc = "call"
    /\ claimed' = claimed \ {task}
    /\ batch' = SubSeq(batch, 1, Len(batch) - 1)
    /\ cpc' = "run"
    /\ UNCHANGED <<head, next, producerVars, task, nxt, event, queue>>

\* Mutant: the link is followed after on_task instead of before it.
AdvanceLate ==
    /\ cpc = "run"
    /\ task' = next[task]
    /\ cpc' = IF next[task] = NULL THEN "wait" ELSE "read"
    /\ UNCHANGED <<head, next, claimed, producerVars, nxt, event, queue, batch>>

\* Mutant: the consumer looks again instead of waiting for the signal.
AdvanceAgain ==
    /\ cpc = "run"
    /\ task' = nxt
    /\ cpc' = IF nxt = NULL THEN "swap" ELSE "read"
    /\ UNCHANGED <<head, next, claimed, producerVars, nxt, event, queue, batch>>

Advance ==
    /\ cpc = "run"
    /\ task' = nxt
    /\ cpc' = IF nxt = NULL THEN "wait" ELSE "read"
    /\ UNCHANGED <<head, next, claimed, producerVars, nxt, event, queue, batch>>

Consume == Wake \/ Swap \/ ReadNext \/ OnTask \/ Advance

Next ==
    \/ \E p \in Producers : (\E t \in Tasks : Claim(p, t)) \/ Produce(p)
    \/ Consume
    \/ SpuriousWake

Spec == Init /\ [][Next]_vars

\* The executor keeps running, and an enqueuer that has linked its task goes
\* on to signal.  Nothing is assumed of the exchange: it is lock-free, and a
\* single enqueuer may lose it for ever.
Fairness ==
    /\ WF_vars(Consume)
    /\ \A p \in Producers : WF_vars(Signal(p))

FairSpec == Spec /\ Fairness

-----------------------------------------------------------------------------
(* Properties.                                                             *)

TypeOK ==
    /\ head \in Tasks \cup {NULL}
    /\ next \in [Tasks -> Tasks \cup {NULL}]
    /\ claimed \subseteq Tasks
    /\ ppc \in [Producers -> {"idle", "load", "store", "cas", "signal"}]
    /\ item \in [Producers -> Tasks \cup {NULL}]
    /\ \A p \in Producers : ppc[p] \in {"load", "store", "cas"} => item[p] # NULL
    /\ prev \in [Producers -> Tasks \cup {NULL}]
    /\ cpc \in {"wait", "swap", "read", "call", "run"}
    /\ task \in Tasks \cup {NULL}
    /\ cpc \in {"read", "call", "run"} => task # NULL
    /\ nxt \in Tasks \cup {NULL}
    /\ event \in BOOLEAN
    /\ queue \in Seq(Tasks)
    /\ batch \in Seq(Tasks)

\* The task a producer is about to link.
Linking(p) == ppc[p] \in {"load", "store", "cas"}

Newest(s) == IF s = <<>> THEN NULL ELSE s[Len(s)]

\* The links of s, from its newest task down to its oldest, end with NULL.
Linked(s) ==
    \A i \in 1..Len(s) : next[s[i]] = IF i = 1 THEN NULL ELSE s[i - 1]

\* Links are followed outside any lock, so they must be intact: what hangs
\* off head is the queue, and what dequeue_all has left is the batch, although
\* the tasks it has already run are being relinked (run_queue.rs, enqueue and
\* dequeue_all).
LinksIntact ==
    /\ head = Newest(queue)
    /\ Linked(queue)
    /\ Linked(batch)
    /\ cpc \in {"read", "call"} => batch # <<>> /\ task = Newest(batch)
    /\ cpc = "call" => nxt = next[task]
    /\ cpc = "run" => nxt = Newest(batch)
    /\ cpc \in {"wait", "swap"} => batch = <<>>

Distinct(s) == \A i, j \in 1..Len(s) : s[i] = s[j] => i = j

\* A set RUN_QUEUED bit stands for exactly one place: a producer about to link
\* the task, the queue, or the batch.  So no task is linked twice and none is
\* marked queued without being queued (raw.rs, TaskHeader::enqueue).
OnePlace ==
    /\ Distinct(queue) /\ Distinct(batch)
    /\ \A i \in 1..Len(queue), j \in 1..Len(batch) : queue[i] # batch[j]
    /\ \A p, r \in Producers :
         Linking(p) /\ Linking(r) /\ item[p] = item[r] => p = r
    /\ \A p \in Producers : Linking(p) =>
         /\ item[p] \in claimed
         /\ \A i \in 1..Len(queue) : queue[i] # item[p]
         /\ \A i \in 1..Len(batch) : batch[i] # item[p]
    /\ \A i \in 1..Len(queue) : queue[i] \in claimed
    /\ \A i \in 1..Len(batch) : batch[i] \in claimed
    /\ \A t \in claimed :
         \/ \E p \in Producers : Linking(p) /\ item[p] = t
         \/ \E i \in 1..Len(queue) : queue[i] = t
         \/ \E i \in 1..Len(batch) : batch[i] = t

\* A consumer that waits while tasks are queued has been, or is about to be,
\* signalled, although only the enqueuer of an empty queue signals (raw.rs,
\* Executor::enqueue).
NoLostWakeup ==
    cpc = "wait" /\ queue # <<>> => event \/ \E p \in Producers : ppc[p] = "signal"

\* The history variables do not exist in the code: the lock-free queue
\* implements the atomic one, with its order, its was-empty result and its
\* wake-up.
Atomic == INSTANCE BatchQueue WITH
    running <- IF cpc = "run" THEN task ELSE NULL,
    asleep  <- cpc = "wait",
    wake    <- event \/ \E p \in Producers : ppc[p] = "signal"

ImplementsBatchQueue == Atomic!Spec

\* A task that reached the queue is run (run_queue.rs:26-29, batches keep even a
\* task that wakes itself all the time from starving the others).
QueuedIsRun ==
    \A t \in Tasks :
        (\E i \in 1..Len(queue) : queue[i] = t) ~> (cpc = "run" /\ task = t)
=============================================================================
