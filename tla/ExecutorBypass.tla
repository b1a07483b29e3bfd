--------------------------- MODULE ExecutorBypass ---------------------------
(***************************************************************************)
(* How unfair the run queue can be: the executor with a history variable   *)
(* that counts how often each task is polled while one task, the victim,   *)
(* waits in the run queue or the batch of the same executor.               *)
(***************************************************************************)
EXTENDS Executor

CONSTANTS Victim,      \* the task whose waiting is observed
          MaxBypass    \* counting stops here

ASSUME BypassAssumption == Victim \in Tasks /\ MaxBypass \in Nat

VARIABLE bypass        \* bypass[u]: polls of u since Victim was queued there

varsB == <<vars, bypass>>

QueuedOn(e, t) == InRun(e, t) \/ InBatch(e, t)
Queued(t) == \E e \in Executors : QueuedOn(e, t)

\* This step starts a poll of u where Victim waits.
Passes(u) ==
    \E e \in Executors :
        QueuedOn(e, Victim) /\ pc[e] = "next" /\ pc'[e] = "poll" /\ cur'[e] = u

InitB == Init /\ bypass = [u \in Tasks |-> 0]

NextB ==
    /\ Next
    /\ bypass' = [u \in Tasks |->
          IF ~Queued(Victim) \/ ~Queued(Victim)' THEN 0
          ELSE IF Passes(u) /\ bypass[u] < MaxBypass THEN bypass[u] + 1
          ELSE bypass[u]]

SpecB == InitB /\ [][NextB]_varsB

FairSpecB == SpecB /\ Fairness

\* While a task waits in the queue its executor polls any other task at most twice: once in
\* the batch being run, once more in the next batch, which holds the waiting task
\* (run_queue.rs:26-29, batches are iterated newest first).
BypassedAtMostTwice == \A u \in Tasks : bypass[u] <= 2
=============================================================================
