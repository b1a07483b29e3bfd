--------------------------- MODULE ExecutorProof ---------------------------
(***************************************************************************)
(* The executors are sound for any number of tasks, executors, contexts    *)
(* and any bound on time.                                                  *)
(***************************************************************************)
EXTENDS ExecutorBypass, SeqFacts

\* A spawned task has a live future, except while its spawner is about to write it and
\* after its executor has dropped it; a spawned task has an executor, except until its
\* spawner binds it.
Lifecycle ==
    /\ \A t \in Tasks : IsSpawned(t) =>
         \/ future[t] = "live"
         \/ \E c \in Callers : Claims(c, t) /\ call[c].pc = "init"
         \/ \E e \in Executors : Polling(e, t) /\ pc[e] = "finish"
    /\ \A t \in Tasks : IsSpawned(t) =>
         \/ executor[t] # NULL
         \/ \E c \in Callers : Claims(c, t) /\ call[c].pc \in {"init", "bind"}
    /\ \A c \in Callers, t \in Tasks : Claims(c, t) /\ call[c].pc # "woken" =>
         /\ IsSpawned(t)
         /\ call[c].pc # "init" => future[t] = "live"
    /\ \A e \in Executors, t \in Tasks : Polling(e, t) =>
         /\ IsSpawned(t)
         /\ pc[e] = "finish" => future[t] = "dropped"

\* An executor makes calls only from a poll and from dequeue_expired, and holds a batch
\* only inside dequeue_all.
Phases ==
    \A e \in Executors :
        /\ pc[e] \notin {"poll", "unlink"} => call[e].pc = "idle"
        /\ pc[e] \notin {"next", "poll", "finish", "update"} => batch[e] = <<>>

Sound == RunQueuedOnce /\ FutureSafety /\ RunsAtHome /\ Lifecycle

\* The inductive invariant.
IndInv == TypeOK /\ Phases /\ Sound

-----------------------------------------------------------------------------
(* Steps that leave the places of tasks, their futures and executors alone. *)

Quiet ==
    /\ UNCHANGED <<run_queue, batch, future, executor>>
    /\ \A t \in Tasks : (IsSpawned(t)' <=> IsSpawned(t)) /\ (IsQueued(t)' <=> IsQueued(t))
    /\ \A c \in Callers, t \in Tasks :
         /\ Claims(c, t)' <=> Claims(c, t)
         /\ Claims(c, t) => call'[c].pc = call[c].pc /\ call'[c].ex = call[c].ex
    /\ \A e \in Executors, t \in Tasks :
         /\ Polling(e, t)' => Polling(e, t) /\ pc'[e] = pc[e]
         /\ Polling(e, t) /\ pc[e] = "finish" => Polling(e, t)'

\* A quiet step keeps the soundness of the executors.
LEMMA QuietIsSound == Sound /\ Quiet => Sound'
  <1> SUFFICES ASSUME Sound, Quiet PROVE Sound'
    OBVIOUS
  <1>1. \A e \in Executors, t \in Tasks : (InRun(e, t)' <=> InRun(e, t)) /\ (InBatch(e, t)' <=> InBatch(e, t))
    BY DEF Quiet, InRun, InBatch
  <1>2. RunQueuedOnce'
    <2>1. \A e \in Executors : Distinct(run_queue[e])' /\ Distinct(batch[e])'
      BY DEF Quiet, Sound, RunQueuedOnce
    <2> QED
      BY <1>1, <2>1 DEF Quiet, Sound, RunQueuedOnce
  <1>3. FutureSafety'
    BY DEF Quiet, Sound, FutureSafety
  <1>4. RunsAtHome'
    BY <1>1 DEF Quiet, Sound, RunsAtHome
  <1>5. Lifecycle'
    BY DEF Quiet, Sound, Lifecycle
  <1> QED
    BY <1>2, <1>3, <1>4, <1>5 DEF Sound

-----------------------------------------------------------------------------
(* Steps that move a task from one place to the next.  Each is described by *)
(* what it does to the places, so that its lemma need not open the records  *)
(* and sequences they are made of.                                          *)

SamePolls ==
    \A e \in Executors, t \in Tasks :
        (Polling(e, t)' <=> Polling(e, t)) /\ (Polling(e, t) => pc'[e] = pc[e])

SameRuns ==
    /\ UNCHANGED <<run_queue, batch>>
    /\ \A e \in Executors, t \in Tasks :
         (InRun(e, t)' <=> InRun(e, t)) /\ (InBatch(e, t)' <=> InBatch(e, t))

\* c sets the RUN_QUEUED bit of t, to wake it or to spawn it.
Claiming(c, t) ==
    /\ SamePolls /\ SameRuns /\ UNCHANGED <<future, executor>>
    /\ call[c].pc = "idle" /\ ~IsQueued(t)
    /\ \A u \in Tasks : (IsSpawned(u)' <=> IsSpawned(u) \/ u = t)
                        /\ (IsQueued(u)' <=> IsQueued(u) \/ u = t)
    /\ \A d \in Callers, u \in Tasks :
         /\ Claims(d, u)' <=> Claims(d, u) \/ (d = c /\ u = t)
         /\ d # c => call'[d] = call[d]
    /\ call'[c].pc = IF IsSpawned(t) THEN "woken" ELSE "init"

\* Claiming a task that is in no place keeps the executors sound.
LEMMA ClaimingIsSound ==
    ASSUME Sound, NEW c \in Callers, NEW t \in Tasks, Claiming(c, t)
    PROVE  Sound'
  <1>1. ~\E u \in Tasks : Claims(c, u)
    BY DEF Claiming, Claims
  <1>2. RunQueuedOnce'
    <2>1. \A e \in Executors : Distinct(run_queue[e])' /\ Distinct(batch[e])'
      BY DEF Claiming, SameRuns, Sound, RunQueuedOnce
    <2> QED
      BY <1>1, <2>1 DEF Claiming, SameRuns, Sound, RunQueuedOnce
  <1>3. FutureSafety'
    BY <1>1 DEF Claiming, SamePolls, Sound, FutureSafety, Lifecycle
  <1>4. RunsAtHome'
    <2>1. IsSpawned(t) => executor[t] # NULL
      BY DEF Claiming, Sound, Lifecycle, RunQueuedOnce
    <2> QED
      BY <1>1, <2>1 DEF Claiming, SamePolls, SameRuns, Sound, RunsAtHome
  <1>5. Lifecycle'
    BY <1>1 DEF Claiming, SamePolls, Sound, Lifecycle
  <1> QED
    BY <1>2, <1>3, <1>4, <1>5 DEF Sound

SameStates ==
    \A t \in Tasks : (IsSpawned(t)' <=> IsSpawned(t)) /\ (IsQueued(t)' <=> IsQueued(t))

SameCalls ==
    \A c \in Callers, t \in Tasks : (Claims(c, t)' <=> Claims(c, t)) /\ call'[c] = call[c]

\* c, who is spawning t, goes on from one label to the next.
Spawning(c, t, from, to) ==
    /\ SamePolls /\ SameRuns /\ SameStates
    /\ Claims(c, t) /\ call[c].pc = from /\ call'[c].pc = to /\ call'[c].ex = call[c].ex
    /\ \A d \in Callers, u \in Tasks :
         (Claims(d, u)' <=> Claims(d, u)) /\ (d # c => call'[d] = call[d])

\* Writing the future of a task that is being spawned keeps the executors sound.
LEMMA InitializingIsSound ==
    ASSUME Sound, NEW c \in Callers, NEW t \in Tasks, Spawning(c, t, "init", "bind"),
           UNCHANGED executor,
           \A u \in Tasks : future'[u] = IF u = t THEN "live" ELSE future[u]
    PROVE  Sound'
  <1>1. /\ \A u \in Tasks : Claims(c, u) => u = t
        /\ \A d \in Callers : Claims(d, t) => d = c
        /\ \A f \in Executors : ~InRun(f, t) /\ ~InBatch(f, t) /\ ~Polling(f, t)
    <2>1. \A u \in Tasks : Claims(c, u) => u = t
      BY DEF Spawning, Claims
    <2> QED
      BY <2>1 DEF Spawning, Sound, RunQueuedOnce, FutureSafety
  <1>2. RunQueuedOnce'
    BY DEF Spawning, SameRuns, SameStates, Sound, RunQueuedOnce
  <1>3. FutureSafety'
    BY <1>1 DEF Spawning, SamePolls, SameStates, Sound, FutureSafety, Lifecycle
  <1>4. RunsAtHome'
    BY <1>1 DEF Spawning, SamePolls, SameRuns, Sound, RunsAtHome
  <1>5. Lifecycle'
    BY <1>1 DEF Spawning, SamePolls, SameStates, Sound, FutureSafety, Lifecycle
  <1> QED
    BY <1>2, <1>3, <1>4, <1>5 DEF Sound

\* Binding a task that is being spawned to its executor keeps the executors sound.
LEMMA BindingIsSound ==
    ASSUME Sound, NEW c \in Callers, NEW t \in Tasks, Spawning(c, t, "bind", "bound"),
           UNCHANGED future, call[c].ex # NULL,
           \A u \in Tasks : executor'[u] = IF u = t THEN call[c].ex ELSE executor[u]
    PROVE  Sound'
  <1>1. /\ \A u \in Tasks : Claims(c, u) => u = t
        /\ \A d \in Callers : Claims(d, t) => d = c
        /\ \A f \in Executors : ~InRun(f, t) /\ ~InBatch(f, t) /\ ~Polling(f, t)
    <2>1. \A u \in Tasks : Claims(c, u) => u = t
      BY DEF Spawning, Claims
    <2> QED
      BY <2>1 DEF Spawning, Sound, RunQueuedOnce, FutureSafety
  <1>2. RunQueuedOnce'
    BY DEF Spawning, SameRuns, SameStates, Sound, RunQueuedOnce
  <1>3. FutureSafety'
    BY <1>1 DEF Spawning, SamePolls, SameStates, Sound, FutureSafety
  <1>4. RunsAtHome'
    BY <1>1 DEF Spawning, SamePolls, SameRuns, Sound, RunsAtHome
  <1>5. Lifecycle'
    BY <1>1 DEF Spawning, SamePolls, SameStates, Sound, Lifecycle
  <1> QED
    BY <1>2, <1>3, <1>4, <1>5 DEF Sound

\* c enqueues the task it has claimed.
Pushing(c, t, e) ==
    /\ SamePolls /\ SameStates /\ UNCHANGED <<batch, future, executor>>
    /\ Claims(c, t) /\ executor[t] = e
    /\ call[c].pc \notin {"init", "bind"}
    /\ \A f \in Executors : Distinct(run_queue'[f])
    /\ \A f \in Executors, u \in Tasks :
         /\ InRun(f, u)' <=> InRun(f, u) \/ (f = e /\ u = t)
         /\ InBatch(f, u)' <=> InBatch(f, u)
    /\ \A d \in Callers, u \in Tasks :
         (Claims(d, u)' <=> Claims(d, u) /\ d # c) /\ (d # c => call'[d] = call[d])

\* Enqueueing a task on its executor keeps the executors sound.
LEMMA PushingIsSound ==
    ASSUME Sound, NEW c \in Callers, NEW t \in Tasks, NEW e \in Executors, Pushing(c, t, e)
    PROVE  Sound'
  <1>1. RunQueuedOnce'
    <2>1. \A u \in Tasks : Claims(c, u) => u = t
      BY DEF Pushing, Claims
    <2>2. \A f \in Executors : Distinct(run_queue[f])' /\ Distinct(batch[f])'
      BY DEF Pushing, Sound, RunQueuedOnce
    <2> QED
      BY <2>1, <2>2 DEF Pushing, SameStates, Sound, RunQueuedOnce
  <1>2. FutureSafety'
    BY DEF Pushing, SamePolls, SameStates, Sound, FutureSafety
  <1>3. RunsAtHome'
    BY DEF Pushing, SamePolls, Sound, RunsAtHome
  <1>4. Lifecycle'
    BY DEF Pushing, SamePolls, SameStates, Sound, Lifecycle
  <1> QED
    BY <1>1, <1>2, <1>3, <1>4 DEF Sound

\* e takes its run queue.
Swapping(e) ==
    /\ SamePolls /\ SameStates /\ SameCalls /\ UNCHANGED <<future, executor>>
    /\ \A f \in Executors : Distinct(run_queue'[f]) /\ Distinct(batch'[f])
    /\ \A t \in Tasks : ~InBatch(e, t)
    /\ \A f \in Executors, t \in Tasks :
         /\ InRun(f, t)' <=> InRun(f, t) /\ f # e
         /\ InBatch(f, t)' <=> InBatch(f, t) \/ (f = e /\ InRun(e, t))

\* Taking the whole run queue keeps the executors sound.
LEMMA SwappingIsSound ==
    ASSUME Sound, NEW e \in Executors, Swapping(e)
    PROVE  Sound'
  <1>1. RunQueuedOnce'
    <2>1. \A f \in Executors : Distinct(run_queue[f])' /\ Distinct(batch[f])'
      BY DEF Swapping
    <2> QED
      BY <2>1 DEF Swapping, SameStates, SameCalls, Sound, RunQueuedOnce
  <1>2. FutureSafety'
    BY DEF Swapping, SamePolls, SameStates, SameCalls, Sound, FutureSafety
  <1>3. RunsAtHome'
    BY DEF Swapping, SamePolls, SameCalls, Sound, RunsAtHome
  <1>4. Lifecycle'
    BY DEF Swapping, SamePolls, SameStates, SameCalls, Sound, Lifecycle
  <1> QED
    BY <1>1, <1>2, <1>3, <1>4 DEF Sound

\* e takes t out of its batch and polls it if it is spawned.
Taking(e, t) ==
    /\ SameCalls /\ UNCHANGED <<run_queue, future, executor>>
    /\ InBatch(e, t) /\ pc[e] = "next"
    /\ \A f \in Executors : Distinct(batch'[f])
    /\ \A f \in Executors, u \in Tasks :
         /\ InRun(f, u)' <=> InRun(f, u)
         /\ InBatch(f, u)' <=> InBatch(f, u) /\ ~(f = e /\ u = t)
         /\ Polling(f, u)' <=> Polling(f, u) \/ (f = e /\ u = t /\ IsSpawned(t))
         /\ f # e => pc'[f] = pc[f]
    /\ IsSpawned(t) => pc'[e] = "poll"
    /\ \A u \in Tasks : (IsSpawned(u)' <=> IsSpawned(u)) /\ (IsQueued(u)' <=> IsQueued(u) /\ u # t)

\* Handing out a task of the batch keeps the executors sound.
LEMMA TakingIsSound ==
    ASSUME Sound, NEW e \in Executors, NEW t \in Tasks, Taking(e, t)
    PROVE  Sound'
  <1>1. RunQueuedOnce'
    <2>1. \A f \in Executors : Distinct(run_queue[f])' /\ Distinct(batch[f])'
      BY DEF Taking, Sound, RunQueuedOnce
    <2> QED
      BY <2>1 DEF Taking, SameCalls, Sound, RunQueuedOnce
  <1>2. \A u \in Tasks : ~Polling(e, u)
    BY DEF Taking, Polling
  <1>3. \A c \in Callers : ~Claims(c, t)
    BY DEF Taking, Sound, RunQueuedOnce
  <1>4. \A f \in Executors : ~Polling(f, t)
    BY <1>2 DEF Taking, Sound, RunsAtHome
  <1>5. IsSpawned(t) => future[t] = "live"
    BY <1>3, <1>4 DEF Sound, Lifecycle
  <1>6. \A f \in Executors, u \in Tasks : Polling(f, u) => f # e /\ pc'[f] = pc[f]
    BY <1>2 DEF Taking
  <1>7. FutureSafety'
    BY <1>3, <1>4, <1>5, <1>6 DEF Taking, SameCalls, Sound, FutureSafety
  <1>8. RunsAtHome'
    BY DEF Taking, SameCalls, Sound, RunsAtHome
  <1>9. Lifecycle'
    BY <1>5, <1>6 DEF Taking, SameCalls, Sound, Lifecycle
  <1> QED
    BY <1>1, <1>7, <1>8, <1>9 DEF Sound

\* Dropping the future of the task that e polls keeps the executors sound.
LEMMA DroppingIsSound ==
    ASSUME Sound, NEW e \in Executors, NEW t \in Tasks,
           SameRuns, SameCalls, SameStates, UNCHANGED executor,
           Polling(e, t), pc[e] = "poll", pc'[e] = "finish",
           \A f \in Executors, u \in Tasks : (Polling(f, u)' <=> Polling(f, u))
                                            /\ (f # e => pc'[f] = pc[f]),
           \A u \in Tasks : future'[u] = IF u = t THEN "dropped" ELSE future[u]
    PROVE  Sound'
  <1>1. \A u \in Tasks : Polling(e, u) => u = t
    BY DEF Polling
  <1>2. RunQueuedOnce'
    BY DEF SameRuns, SameCalls, SameStates, Sound, RunQueuedOnce
  <1>3. FutureSafety'
    BY <1>1 DEF SameCalls, SameStates, Sound, FutureSafety
  <1>4. RunsAtHome'
    BY DEF SameRuns, SameCalls, Sound, RunsAtHome
  <1>5. Lifecycle'
    BY <1>1 DEF SameCalls, SameStates, Sound, Lifecycle, FutureSafety
  <1> QED
    BY <1>2, <1>3, <1>4, <1>5 DEF Sound

\* Freeing a task whose future has been dropped keeps the executors sound.
LEMMA FinishingIsSound ==
    ASSUME Sound, NEW e \in Executors, NEW t \in Tasks,
           SameRuns, SameCalls, UNCHANGED <<executor, future>>,
           Polling(e, t), pc[e] = "finish",
           \A f \in Executors, u \in Tasks : (Polling(f, u)' <=> Polling(f, u) /\ f # e)
                                            /\ (f # e => pc'[f] = pc[f]),
           \A u \in Tasks : (IsSpawned(u)' <=> IsSpawned(u) /\ u # t)
                            /\ (IsQueued(u)' <=> IsQueued(u))
    PROVE  Sound'
  <1>1. \A u \in Tasks : Polling(e, u) => u = t
    BY DEF Polling
  <1>2. RunQueuedOnce'
    BY DEF SameRuns, SameCalls, Sound, RunQueuedOnce
  <1>3. FutureSafety'
    BY DEF SameCalls, Sound, FutureSafety, Lifecycle
  <1>4. RunsAtHome'
    BY DEF SameRuns, SameCalls, Sound, RunsAtHome
  <1>5. Lifecycle'
    BY <1>1 DEF SameCalls, Sound, Lifecycle, FutureSafety
  <1> QED
    BY <1>2, <1>3, <1>4, <1>5 DEF Sound

-----------------------------------------------------------------------------
(* Every step moves tasks as described above.                              *)

\* The steps of the loop that concern the clock, the timer queue and the caller's turn
\* are quiet.
LEMMA QuietSteps ==
    ASSUME IndInv, NEW e \in Executors,
           \/ Start(e) \/ ExpireDone(e) \/ Unlink(e) \/ Update(e) \/ BatchDone(e) \/ Rearm(e)
           \/ SetAlarm(e) \/ Woken(e) \/ SpuriousWake(e) \/ AlarmFires(e) \/ PollPending(e)
    PROVE  Quiet
  <1> USE DEF Quiet, IsSpawned, IsQueued, Claims, Polling, taskVars, loopVars, Goto
  <1>1. CASE Start(e) \/ ExpireDone(e) \/ BatchDone(e) \/ SetAlarm(e)
    BY <1>1 DEF IndInv, TypeOK, LoopTypes, Start, ExpireDone, BatchDone, SetAlarm
  <1>2. CASE Woken(e) \/ SpuriousWake(e) \/ AlarmFires(e) \/ PollPending(e)
    BY <1>2 DEF IndInv, TypeOK, LoopTypes, Woken, SpuriousWake, AlarmFires, PollPending
  <1>3. ASSUME UNCHANGED <<run_queue, batch, future, executor, call>>,
               \A u \in Tasks : state'[u] \ {TIMER_QUEUED} = state[u] \ {TIMER_QUEUED},
               \A f \in Executors, u \in Tasks :
                  (Polling(f, u)' <=> Polling(f, u)) /\ (Polling(f, u) => pc'[f] = pc[f])
        PROVE  Quiet
    BY <1>3 DEF SPAWNED, RUN_QUEUED, TIMER_QUEUED
  <1>4. CASE Unlink(e)
    <2>1. \A u \in Tasks : state'[u] \ {TIMER_QUEUED} = state[u] \ {TIMER_QUEUED}
      BY <1>4 DEF Unlink, Unqueue, IndInv, TypeOK, TaskTypes
    <2> QED
      BY <1>3, <1>4, <2>1 DEF Unlink, Unqueue, IndInv, TypeOK, LoopTypes
  <1>5. CASE Update(e)
    <2>1. \A u \in Tasks : state'[u] \ {TIMER_QUEUED} = state[u] \ {TIMER_QUEUED}
      BY <1>5 DEF Update, IndInv, TypeOK, TaskTypes
    <2>2. \A f \in Executors, u \in Tasks :
             (Polling(f, u)' <=> Polling(f, u)) /\ (Polling(f, u) => pc'[f] = pc[f])
      BY <1>5 DEF Update, IndInv, TypeOK, LoopTypes
    <2>3. UNCHANGED <<run_queue, batch, future, executor, call>>
      BY <1>5 DEF Update
    <2> QED
      BY <1>3, <2>1, <2>2, <2>3
  <1>6. CASE Rearm(e)
    <2>1. \A u \in Tasks : state'[u] \ {TIMER_QUEUED} = state[u] \ {TIMER_QUEUED}
      BY <1>6 DEF Rearm, Unqueue, IndInv, TypeOK, TaskTypes
    <2>2. UNCHANGED <<run_queue, batch, future, executor, call, pc, cur>>
      BY <1>6 DEF Rearm
    <2> QED
      BY <1>3, <2>1, <2>2
  <1> QED
    BY <1>1, <1>2, <1>4, <1>5, <1>6

\* Sending the signal is quiet.
LEMMA SignalIsQuiet ==
    ASSUME IndInv, NEW c \in Callers, Signal(c)
    PROVE  Quiet
  BY DEF Quiet, Signal, NoCall, IsSpawned, IsQueued, Claims, Polling, taskVars, loopVars,
         IndInv, TypeOK, CallTypes

\* A waker, or dequeue_expired, that sets RUN_QUEUED claims the task.
LEMMA MarkingClaims ==
    ASSUME IndInv, NEW c \in Callers, NEW t \in Tasks, call[c].pc = "idle", Wakeable(t),
           MarkQueued(c, t), SamePolls, UNCHANGED <<future, executor, run_queue, batch>>
    PROVE  Claiming(c, t)
  <1>1. /\ state' = [state EXCEPT ![t] = @ \cup {RUN_QUEUED}]
        /\ call' = [call EXCEPT ![c] = [pc |-> "woken", task |-> t, ex |-> NULL]]
    BY DEF MarkQueued
  <1>2. SameRuns
    BY DEF SameRuns, InRun, InBatch
  <1>3. \A u \in Tasks : (IsSpawned(u)' <=> IsSpawned(u) \/ u = t)
                         /\ (IsQueued(u)' <=> IsQueued(u) \/ u = t)
    BY <1>1 DEF IsSpawned, IsQueued, Wakeable, IndInv, TypeOK, TaskTypes, SPAWNED, RUN_QUEUED
  <1>4. \A d \in Callers, u \in Tasks :
           /\ Claims(d, u)' <=> Claims(d, u) \/ (d = c /\ u = t)
           /\ d # c => call'[d] = call[d]
    BY <1>1 DEF Claims, IndInv, TypeOK, CallTypes
  <1>5. call'[c].pc = "woken"
    BY <1>1 DEF IndInv, TypeOK, CallTypes
  <1> QED
    BY <1>2, <1>3, <1>4, <1>5 DEF Claiming, Wakeable

\* A waker keeps the executors sound.
LEMMA WakeIsSound ==
    ASSUME IndInv, NEW c \in Callers, NEW t \in Tasks, Wake(c, t)
    PROVE  Sound'
  <1>1. SamePolls
    BY DEF SamePolls, Polling, Wake, loopVars
  <1>2. /\ call[c].pc = "idle" /\ Wakeable(t) /\ MarkQueued(c, t)
        /\ UNCHANGED <<future, executor, run_queue, batch>>
    BY DEF Wake, MayCall, loopVars
  <1>3. Claiming(c, t)
    BY <1>1, <1>2, MarkingClaims
  <1> QED
    BY <1>3, ClaimingIsSound DEF IndInv

\* The scan of dequeue_expired keeps the executors sound.
LEMMA ExpireIsSound ==
    ASSUME IndInv, NEW e \in Executors, Expire(e)
    PROVE  Sound'
  <1> DEFINE t == Scanned(e)
  <1>1. t \in Tasks
    <2>1. cursor[e] \in 1..Len(timer_queue[e]) /\ timer_queue[e] \in Seq(Tasks)
      BY LenProperties DEF Expire, AtEnd, IndInv, TypeOK, LoopTypes, QueueTypes
    <2> QED
      BY <2>1, ElementOfSeq DEF Scanned
  <1> HIDE DEF t
  <1>2. SamePolls /\ e \in Callers
    BY DEF SamePolls, Polling, Expire, Goto, IndInv, TypeOK, LoopTypes, Callers
  <1>3. CASE expires_at[t] <= instant[e] /\ Wakeable(t)
    <2>1. call[e].pc = "idle"
      BY DEF Expire, IndInv, Phases
    <2>2. MarkQueued(e, t) /\ UNCHANGED <<future, executor, run_queue, batch>>
      BY <1>3 DEF Expire, t
    <2> QED
      BY <1>1, <1>2, <2>1, <2>2, <1>3, MarkingClaims, ClaimingIsSound DEF IndInv
  <1>4. CASE ~(expires_at[t] <= instant[e] /\ Wakeable(t))
    <2>1. UNCHANGED <<state, call, future, executor, run_queue, batch>>
      BY <1>4 DEF Expire, MarkQueued, t
    <2>2. Quiet
      BY <2>1, <1>2 DEF Quiet, SamePolls, IsSpawned, IsQueued, Claims
    <2> QED
      BY <2>2, QuietIsSound DEF IndInv
  <1> QED
    BY <1>3, <1>4

\* Allocating a task keeps the executors sound.
LEMMA AllocateIsSound ==
    ASSUME IndInv, NEW c \in Callers, NEW t \in Tasks, NEW e \in Executors, Allocate(c, t, e)
    PROVE  Sound'
  <1>1. SamePolls /\ SameRuns /\ UNCHANGED <<future, executor>>
    BY DEF SamePolls, SameRuns, Polling, InRun, InBatch, Allocate, loopVars
  <1>2. \A u \in Tasks : (IsSpawned(u)' <=> IsSpawned(u) \/ u = t)
                         /\ (IsQueued(u)' <=> IsQueued(u) \/ u = t)
    BY DEF Allocate, IsSpawned, IsQueued, IndInv, TypeOK, TaskTypes
  <1>3. \A d \in Callers, u \in Tasks :
           /\ Claims(d, u)' <=> Claims(d, u) \/ (d = c /\ u = t)
           /\ d # c => call'[d] = call[d]
    BY DEF Allocate, MayCall, Claims, IndInv, TypeOK, CallTypes
  <1>4. call[c].pc = "idle" /\ call'[c].pc = "init" /\ ~IsQueued(t) /\ ~IsSpawned(t)
    BY DEF Allocate, MayCall, IsQueued, IsSpawned, IndInv, TypeOK, CallTypes
  <1>5. Claiming(c, t)
    BY <1>1, <1>2, <1>3, <1>4 DEF Claiming
  <1> QED
    BY <1>5, ClaimingIsSound DEF IndInv

\* Writing the future of a new task keeps the executors sound.
LEMMA InitializeIsSound ==
    ASSUME IndInv, NEW c \in Callers, Initialize(c)
    PROVE  Sound'
  <1> DEFINE t == call[c].task
  <1>1. t \in Tasks /\ Claims(c, t)
    BY DEF Initialize, Claims, IndInv, TypeOK, CallTypes, Calls
  <1>2. SamePolls /\ SameRuns /\ SameStates
    BY DEF SamePolls, SameRuns, SameStates, Polling, InRun, InBatch, IsSpawned, IsQueued,
           Initialize, loopVars
  <1>3. /\ \A d \in Callers : d # c => call'[d] = call[d]
        /\ call'[c].pc = "bind" /\ call'[c].ex = call[c].ex /\ call'[c].task = t
    BY DEF Initialize, IndInv, TypeOK, CallTypes, Calls
  <1>4. \A d \in Callers, u \in Tasks : Claims(d, u)' <=> Claims(d, u)
    BY <1>3 DEF Claims, Initialize
  <1>5. \A u \in Tasks : future'[u] = IF u = t THEN "live" ELSE future[u]
    BY DEF Initialize, IndInv, TypeOK, TaskTypes
  <1>6. Spawning(c, t, "init", "bind") /\ UNCHANGED executor
    BY <1>1, <1>2, <1>3, <1>4 DEF Spawning, Initialize
  <1> QED
    BY <1>1, <1>5, <1>6, InitializingIsSound DEF IndInv

\* Binding a new task keeps the executors sound.
LEMMA BindIsSound ==
    ASSUME IndInv, NEW c \in Callers, Bind(c)
    PROVE  Sound'
  <1> DEFINE t == call[c].task
  <1>1. t \in Tasks /\ Claims(c, t) /\ call[c].ex # NULL
    BY DEF Bind, Claims, IndInv, TypeOK, CallTypes, Calls
  <1>2. SamePolls /\ SameRuns /\ SameStates
    BY DEF SamePolls, SameRuns, SameStates, Polling, InRun, InBatch, IsSpawned, IsQueued,
           Bind, loopVars
  <1>3. /\ \A d \in Callers : d # c => call'[d] = call[d]
        /\ call'[c].pc = "bound" /\ call'[c].ex = call[c].ex /\ call'[c].task = t
    BY DEF Bind, IndInv, TypeOK, CallTypes, Calls
  <1>4. \A d \in Callers, u \in Tasks : Claims(d, u)' <=> Claims(d, u)
    BY <1>3 DEF Claims, Bind
  <1>5. \A u \in Tasks : executor'[u] = IF u = t THEN call[c].ex ELSE executor[u]
    BY DEF Bind, IndInv, TypeOK, TaskTypes
  <1>6. Spawning(c, t, "bind", "bound") /\ UNCHANGED future
    BY <1>1, <1>2, <1>3, <1>4 DEF Spawning, Bind
  <1> QED
    BY <1>1, <1>5, <1>6, BindingIsSound DEF IndInv

\* Enqueueing a claimed task keeps the executors sound.
LEMMA PushIsSound ==
    ASSUME IndInv, NEW c \in Callers, Push(c)
    PROVE  Sound'
  <1> DEFINE t == call[c].task
             e == executor[t]
  <1>1. t \in Tasks /\ Claims(c, t) /\ call[c].pc \in {"woken", "bound"}
    BY DEF Push, Claims, IndInv, TypeOK, CallTypes, Calls
  <1>2. e \in Executors /\ (call[c].pc = "bound" => call[c].ex = e)
    BY <1>1 DEF IndInv, TypeOK, TaskTypes, CallTypes, Calls, Sound, RunsAtHome
  <1>3. /\ run_queue' = [run_queue EXCEPT ![e] = Append(@, t)]
        /\ \A d \in Callers : d # c => call'[d] = call[d]
        /\ call'[c].pc \in {"signal", "idle"}
    BY <1>1, <1>2 DEF Push, NoCall, IndInv, TypeOK, CallTypes
  <1>4. /\ SamePolls /\ SameStates /\ UNCHANGED <<batch, future, executor>>
        /\ \A f \in Executors, u \in Tasks : InBatch(f, u)' <=> InBatch(f, u)
    BY DEF SamePolls, SameStates, Polling, InBatch, IsSpawned, IsQueued, Push, taskVars, loopVars
  <1>5. \A d \in Callers, u \in Tasks : Claims(d, u)' <=> Claims(d, u) /\ d # c
    BY <1>3 DEF Claims
  <1> DEFINE s == run_queue[e]
  <1>6. s \in Seq(Tasks) /\ run_queue'[e] = Append(s, t)
        /\ \A f \in Executors : f # e => run_queue'[f] = run_queue[f]
    BY <1>2, <1>3 DEF IndInv, TypeOK, QueueTypes
  <1>7. ~InRun(e, t) /\ \A f \in Executors : Distinct(run_queue[f])
    BY <1>1, <1>2 DEF IndInv, Sound, RunQueuedOnce
  <1> HIDE DEF t, e, s
  <1>8. \A u \in Tasks : Occurs(Append(s, t), u) <=> Occurs(s, u) \/ u = t
    BY <1>1, <1>6, Appended DEF Occurs
  <1>9. Distinct(Append(s, t))
    <2>1. ~Occurs(s, t) /\ Distinct(s)
      BY <1>2, <1>7 DEF s, InRun
    <2> QED
      BY <1>1, <1>6, <2>1, Appended DEF Occurs, Distinct
  <1>10. \A f \in Executors, u \in Tasks : InRun(f, u)' <=> InRun(f, u) \/ (f = e /\ u = t)
    BY <1>2, <1>6, <1>8 DEF InRun, s
  <1>11. \A f \in Executors : Distinct(run_queue'[f])
    BY <1>6, <1>7, <1>9
  <1>12. Pushing(c, t, e)
    BY <1>1, <1>3, <1>4, <1>5, <1>10, <1>11 DEF Pushing, e
  <1> QED
    BY <1>1, <1>2, <1>12, PushingIsSound DEF IndInv

\* The swap of dequeue_all keeps the executors sound.
LEMMA SwapIsSound ==
    ASSUME IndInv, NEW e \in Executors, Swap(e)
    PROVE  Sound'
  <1>1. SamePolls /\ SameStates /\ SameCalls /\ UNCHANGED <<future, executor>>
    BY DEF SamePolls, SameStates, SameCalls, Polling, IsSpawned, IsQueued, Claims, Swap, Goto,
           taskVars, IndInv, TypeOK, LoopTypes
  <1>2. batch[e] = <<>> /\ batch'[e] = run_queue[e] /\ run_queue'[e] = <<>>
        /\ \A f \in Executors : f # e => batch'[f] = batch[f] /\ run_queue'[f] = run_queue[f]
    BY DEF Swap, IndInv, Phases, TypeOK, QueueTypes
  <1>3. \A u \in Tasks : ~Occurs(<<>>, u)
    BY DEF Occurs
  <1>4. Distinct(<<>>)
    BY DEF Distinct
  <1>5. \A f \in Executors : Distinct(run_queue'[f]) /\ Distinct(batch'[f])
    BY <1>2, <1>4 DEF IndInv, Sound, RunQueuedOnce
  <1>6. \A u \in Tasks : ~InBatch(e, u)
    BY <1>2, <1>3 DEF InBatch
  <1>7. \A f \in Executors, u \in Tasks :
           /\ InRun(f, u)' <=> InRun(f, u) /\ f # e
           /\ InBatch(f, u)' <=> InBatch(f, u) \/ (f = e /\ InRun(e, u))
    BY <1>2, <1>3 DEF InRun, InBatch
  <1>8. Swapping(e)
    BY <1>1, <1>5, <1>6, <1>7 DEF Swapping
  <1> QED
    BY <1>8, SwappingIsSound DEF IndInv

\* Handing out a task keeps the executors sound.
LEMMA TakeIsSound ==
    ASSUME IndInv, NEW e \in Executors, Take(e)
    PROVE  Sound'
  <1> DEFINE s == batch[e]
             t == Newest(s)
             r == ButNewest(s)
  <1>1. s \in Seq(Tasks) /\ s # <<>> /\ Distinct(s)
    BY DEF Take, IndInv, TypeOK, QueueTypes, Sound, RunQueuedOnce
  <1>2. /\ Len(s) \in Nat \ {0} /\ t = s[Len(s)] /\ t \in Tasks
        /\ Len(r) = Len(s) - 1 /\ \A i \in 1..(Len(s) - 1) : r[i] = s[i]
    BY <1>1, Popped DEF Newest, ButNewest
  <1>3. /\ state' = [state EXCEPT ![t] = @ \ {RUN_QUEUED}]
        /\ IF IsSpawned(t) THEN Goto(e, "poll") /\ cur' = [cur EXCEPT ![e] = t]
                           ELSE UNCHANGED <<pc, cur>>
        /\ batch'[e] = r /\ \A f \in Executors : f # e => batch'[f] = batch[f]
        /\ UNCHANGED <<run_queue, future, executor, call>>
        /\ pc[e] = "next"
    BY DEF Take, IndInv, TypeOK, QueueTypes
  <1> HIDE DEF s, t, r
  <1>4. SameCalls /\ \A f \in Executors, u \in Tasks : InRun(f, u)' <=> InRun(f, u)
    BY <1>3 DEF SameCalls, Claims, InRun
  <1>5. Distinct(r)
    BY <1>1, <1>2 DEF Distinct
  <1>6. Occurs(s, t) /\ \A u \in Tasks : Occurs(r, u) <=> Occurs(s, u) /\ u # t
    BY <1>1, <1>2 DEF Occurs, Distinct
  <1>7. InBatch(e, t) /\ \A f \in Executors, u \in Tasks :
           InBatch(f, u)' <=> InBatch(f, u) /\ ~(f = e /\ u = t)
    BY <1>3, <1>6 DEF InBatch, s
  <1>8. \A f \in Executors : Distinct(batch'[f])
    BY <1>3, <1>5 DEF IndInv, Sound, RunQueuedOnce
  <1>9. /\ \A f \in Executors, u \in Tasks :
           /\ Polling(f, u)' <=> Polling(f, u) \/ (f = e /\ u = t /\ IsSpawned(t))
           /\ f # e => pc'[f] = pc[f]
        /\ IsSpawned(t) => pc'[e] = "poll"
    BY <1>3 DEF Polling, Goto, IndInv, TypeOK, LoopTypes
  <1>10. \A u \in Tasks : (IsSpawned(u)' <=> IsSpawned(u)) /\ (IsQueued(u)' <=> IsQueued(u) /\ u # t)
    BY <1>2, <1>3 DEF IsSpawned, IsQueued, IndInv, TypeOK, TaskTypes, SPAWNED, RUN_QUEUED
  <1>11. Taking(e, t)
    BY <1>3, <1>4, <1>7, <1>8, <1>9, <1>10 DEF Taking
  <1> QED
    BY <1>2, <1>11, TakingIsSound DEF IndInv

\* The end of a task's last poll keeps the executors sound.
LEMMA PollReadyIsSound ==
    ASSUME IndInv, NEW e \in Executors, PollReady(e)
    PROVE  Sound'
  <1> DEFINE t == cur[e]
  <1>1. t \in Tasks /\ Polling(e, t) /\ pc[e] = "poll" /\ pc'[e] = "finish"
    BY DEF PollReady, Goto, Polling, IndInv, TypeOK, LoopTypes
  <1>2. SameRuns /\ SameCalls /\ SameStates /\ UNCHANGED executor
    BY DEF SameRuns, SameCalls, SameStates, InRun, InBatch, Claims, IsSpawned, IsQueued, PollReady
  <1>3. \A f \in Executors, u \in Tasks : (Polling(f, u)' <=> Polling(f, u))
                                          /\ (f # e => pc'[f] = pc[f])
    BY DEF PollReady, Goto, Polling, IndInv, TypeOK, LoopTypes
  <1>4. \A u \in Tasks : future'[u] = IF u = t THEN "dropped" ELSE future[u]
    BY DEF PollReady, IndInv, TypeOK, TaskTypes
  <1> HIDE DEF t
  <1> QED
    BY <1>1, <1>2, <1>3, <1>4, DroppingIsSound DEF IndInv

\* Freeing the task keeps the executors sound.
LEMMA FinishIsSound ==
    ASSUME IndInv, NEW e \in Executors, Finish(e)
    PROVE  Sound'
  <1> DEFINE t == cur[e]
  <1>1. t \in Tasks /\ Polling(e, t) /\ pc[e] = "finish"
    BY DEF Finish, Polling, IndInv, TypeOK, LoopTypes
  <1>2. SameRuns /\ SameCalls /\ UNCHANGED <<executor, future>>
    BY DEF SameRuns, SameCalls, InRun, InBatch, Claims, Finish
  <1>3. \A f \in Executors, u \in Tasks : (Polling(f, u)' <=> Polling(f, u) /\ f # e)
                                          /\ (f # e => pc'[f] = pc[f])
    BY DEF Finish, Goto, Polling, IndInv, TypeOK, LoopTypes
  <1>4. \A u \in Tasks : (IsSpawned(u)' <=> IsSpawned(u) /\ u # t)
                         /\ (IsQueued(u)' <=> IsQueued(u))
    BY DEF Finish, IsSpawned, IsQueued, IndInv, TypeOK, TaskTypes, SPAWNED, RUN_QUEUED
  <1> HIDE DEF t
  <1> QED
    BY <1>1, <1>2, <1>3, <1>4, FinishingIsSound DEF IndInv

-----------------------------------------------------------------------------
(* Every step keeps the types and the phases.                              *)

\* The task that retain looks at is a task.
LEMMA ScannedIsTask ==
    ASSUME TypeOK, NEW e \in Executors, ~AtEnd(e)
    PROVE  Scanned(e) \in Tasks /\ cursor[e] \in 1..Len(timer_queue[e])
  <1>1. cursor[e] \in 1..Len(timer_queue[e]) /\ timer_queue[e] \in Seq(Tasks)
    BY LenProperties DEF AtEnd, TypeOK, LoopTypes, QueueTypes
  <1> QED
    BY <1>1, ElementOfSeq DEF Scanned

\* The task that dequeue_all hands out is a task.
LEMMA NewestIsTask ==
    ASSUME TypeOK, NEW e \in Executors, batch[e] # <<>>
    PROVE  Newest(batch[e]) \in Tasks /\ ButNewest(batch[e]) \in Seq(Tasks)
  BY Popped DEF Newest, ButNewest, TypeOK, QueueTypes

\* Every step keeps the types of the task headers.
LEMMA TaskTypesStep ==
    ASSUME IndInv, Next
    PROVE  TaskTypes'
  <1> USE DEF IndInv, TypeOK, TaskTypes, Goto
  <1>1. ASSUME NEW t \in Tasks, NEW bits \in SUBSET Bits,
               state' = [state EXCEPT ![t] = bits], UNCHANGED <<executor, future>>,
               expires_at' \in [Tasks -> Instants]
        PROVE  TaskTypes'
    BY <1>1
  <1>2. ASSUME UNCHANGED taskVars PROVE TaskTypes'
    BY <1>2 DEF taskVars
  <1>3. ASSUME NEW c \in Callers, NEW t \in Tasks, MarkQueued(c, t),
               UNCHANGED <<executor, future, expires_at>>
        PROVE  TaskTypes'
    BY <1>1, <1>3 DEF MarkQueued, Bits
  <1>4. ASSUME NEW e \in Executors, ~AtEnd(e), Unqueue(e), UNCHANGED <<executor, future, expires_at>>
        PROVE  TaskTypes'
    BY <1>1, <1>4, ScannedIsTask DEF Unqueue
  <1>5. ASSUME NEW c \in Callers, NEW t \in Tasks, Wake(c, t) PROVE TaskTypes'
    BY <1>3, <1>5 DEF Wake
  <1>6. ASSUME NEW c \in Callers, NEW t \in Tasks, NEW e \in Executors, Allocate(c, t, e)
        PROVE  TaskTypes'
    BY <1>6 DEF Allocate, Bits
  <1>7. ASSUME NEW c \in Callers, CallStep(c) PROVE TaskTypes'
    <2>1. CASE Initialize(c)
      BY <2>1 DEF Initialize
    <2>2. CASE Bind(c)
      BY <2>2 DEF Bind, CallTypes, Calls
    <2>3. CASE Push(c) \/ Signal(c)
      BY <2>3, <1>2 DEF Push, Signal
    <2> QED
      BY <1>7, <2>1, <2>2, <2>3 DEF CallStep
  <1>8. ASSUME NEW e \in Executors, LoopStep(e) PROVE TaskTypes'
    <2>1. CASE Expire(e)
      <3>1. CASE MarkQueued(e, Scanned(e))
        BY <2>1, <3>1, <1>3, ScannedIsTask DEF Expire, Callers
      <3>2. CASE UNCHANGED state
        BY <2>1, <3>2, <1>2 DEF Expire, taskVars
      <3> QED
        BY <2>1, <3>1, <3>2 DEF Expire
    <2>2. CASE Unlink(e)
      <3>1. ~AtEnd(e)
        BY <2>2, LenProperties DEF Unlink, AtEnd, LoopTypes, QueueTypes
      <3> QED
        BY <2>2, <3>1, <1>4 DEF Unlink
    <2>3. CASE Take(e)
      <3>1. Newest(batch[e]) \in Tasks
        BY <2>3, NewestIsTask DEF Take
      <3>2. expires_at' \in [Tasks -> Instants]
        BY <2>3, <3>1, ExecutorAssumption DEF Take, Instants, Never
      <3>3. state[Newest(batch[e])] \ {RUN_QUEUED} \in SUBSET Bits
        BY <3>1
      <3> QED
        BY <2>3, <3>1, <3>2, <3>3, <1>1 DEF Take
    <2>4. CASE Finish(e)
      <3>1. cur[e] \in Tasks
        BY <2>4 DEF Finish, LoopTypes
      <3>2. state[cur[e]] \ {SPAWNED} \in SUBSET Bits
        BY <3>1
      <3> QED
        BY <2>4, <3>1, <3>2, <1>1 DEF Finish
    <2>5. CASE Update(e)
      <3>1. cur[e] \in Tasks
        BY <2>5 DEF Update, LoopTypes
      <3>2. state[cur[e]] \cup {TIMER_QUEUED} \in SUBSET Bits
        BY <3>1 DEF Bits
      <3>3. CASE expires_at[cur[e]] # Never
        BY <2>5, <3>1, <3>2, <3>3, <1>1 DEF Update
      <3>4. CASE expires_at[cur[e]] = Never
        BY <2>5, <3>4, <1>2 DEF Update, taskVars
      <3> QED
        BY <3>3, <3>4
    <2>6. CASE Rearm(e)
      <3>1. CASE Unqueue(e)
        BY <2>6, <3>1, <1>4 DEF Rearm
      <3>2. CASE UNCHANGED state
        BY <2>6, <3>2, <1>2 DEF Rearm, taskVars
      <3> QED
        BY <2>6, <3>1, <3>2 DEF Rearm
    <2>7. CASE Start(e) \/ ExpireDone(e) \/ Swap(e) \/ BatchDone(e) \/ SetAlarm(e) \/ Woken(e)
      BY <2>7, <1>2 DEF Start, ExpireDone, Swap, BatchDone, SetAlarm, Woken
    <2> QED
      BY <1>8, <2>1, <2>2, <2>3, <2>4, <2>5, <2>6, <2>7 DEF LoopStep
  <1>9. ASSUME NEW e \in Executors, PollReturns(e) \/ SpuriousWake(e) \/ AlarmFires(e)
        PROVE  TaskTypes'
    <2>1. CASE PollReady(e)
      BY <2>1 DEF PollReady
    <2>2. CASE PollPending(e) \/ SpuriousWake(e) \/ AlarmFires(e)
      BY <2>2, <1>2 DEF PollPending, SpuriousWake, AlarmFires
    <2> QED
      BY <1>9, <2>1, <2>2 DEF PollReturns
  <1>10. ASSUME NEW e \in Executors, NEW at \in Time, RegisterTimer(e, at) PROVE TaskTypes'
    <2>1. at \in Instants
      BY ExecutorAssumption DEF Time, Instants, Never
    <2> QED
      BY <1>10, <2>1 DEF RegisterTimer
  <1>11. CASE Tick
    BY <1>11, <1>2 DEF Tick
  <1> QED
    BY <1>5, <1>6, <1>7, <1>8, <1>9, <1>10, <1>11 DEF Next

\* Every step keeps the types of the queues.
LEMMA QueueTypesStep ==
    ASSUME IndInv, Next
    PROVE  QueueTypes'
  <1> USE DEF IndInv, TypeOK, QueueTypes, Goto
  <1>1. ASSUME UNCHANGED <<run_queue, timer_queue, batch>> PROVE QueueTypes'
    BY <1>1
  <1>2. ASSUME NEW e \in Executors, ~AtEnd(e), Unqueue(e), UNCHANGED <<run_queue, batch>>
        PROVE  QueueTypes'
    <2>1. RemoveAt(timer_queue[e], cursor[e]) \in Seq(Tasks)
      BY <1>2, ScannedIsTask, Removed DEF RemoveAt
    <2> QED
      BY <1>2, <2>1 DEF Unqueue
  <1>3. ASSUME NEW c \in Callers, NEW t \in Tasks,
               Wake(c, t) \/ \E e \in Executors : Allocate(c, t, e)
        PROVE  QueueTypes'
    BY <1>1, <1>3 DEF Wake, Allocate, loopVars
  <1>4. ASSUME NEW c \in Callers, CallStep(c) PROVE QueueTypes'
    <2>1. CASE Initialize(c) \/ Bind(c) \/ Signal(c)
      BY <2>1, <1>1 DEF Initialize, Bind, Signal, loopVars
    <2>2. CASE Push(c)
      <3> DEFINE t == call[c].task
                 e == IF call[c].pc = "woken" THEN executor[t] ELSE call[c].ex
      <3>1. t \in Tasks
        BY <2>2 DEF Push, CallTypes, Calls
      <3>2. run_queue' = [run_queue EXCEPT ![e] = Append(@, t)] /\ UNCHANGED <<timer_queue, batch>>
        BY <2>2 DEF Push, loopVars
      <3> HIDE DEF t, e
      <3>3. \A f \in Executors : Append(run_queue[f], t) \in Seq(Tasks)
        BY <3>1, Appended
      <3> QED
        BY <3>2, <3>3
    <2> QED
      BY <1>4, <2>1, <2>2 DEF CallStep
  <1>5. ASSUME NEW e \in Executors, LoopStep(e) PROVE QueueTypes'
    <2>1. CASE Unlink(e)
      <3>1. ~AtEnd(e)
        BY <2>1, LenProperties DEF Unlink, AtEnd, LoopTypes
      <3> QED
        BY <2>1, <3>1, <1>2 DEF Unlink
    <2>2. CASE Swap(e)
      BY <2>2 DEF Swap
    <2>3. CASE Take(e)
      BY <2>3, NewestIsTask DEF Take
    <2>4. CASE Update(e)
      <3>1. cur[e] \in Tasks
        BY <2>4 DEF Update, LoopTypes
      <3>2. <<cur[e]>> \o timer_queue[e] \in Seq(Tasks)
        BY <3>1, Prepended
      <3>3. UNCHANGED <<run_queue, batch>>
            /\ (\/ UNCHANGED timer_queue
                \/ timer_queue' = [timer_queue EXCEPT ![e] = <<cur[e]>> \o @])
        BY <2>4 DEF Update
      <3> QED
        BY <3>2, <3>3
    <2>5. CASE Rearm(e)
      <3>1. CASE Unqueue(e)
        BY <2>5, <3>1, <1>2 DEF Rearm
      <3>2. CASE UNCHANGED timer_queue
        BY <2>5, <3>2, <1>1 DEF Rearm
      <3> QED
        BY <2>5, <3>1, <3>2 DEF Rearm
    <2>6. CASE Start(e) \/ ExpireDone(e) \/ BatchDone(e) \/ SetAlarm(e) \/ Woken(e) \/ Expire(e)
               \/ Finish(e)
      BY <2>6, <1>1 DEF Start, ExpireDone, BatchDone, SetAlarm, Woken, Expire, Finish
    <2> QED
      BY <1>5, <2>1, <2>2, <2>3, <2>4, <2>5, <2>6 DEF LoopStep
  <1>6. ASSUME NEW e \in Executors,
               \/ PollReturns(e) \/ SpuriousWake(e) \/ AlarmFires(e)
               \/ \E at \in Time : RegisterTimer(e, at)
        PROVE  QueueTypes'
    BY <1>6, <1>1 DEF PollReturns, PollReady, PollPending, SpuriousWake, AlarmFires, RegisterTimer, loopVars
  <1>7. CASE Tick
    BY <1>7, <1>1 DEF Tick, loopVars
  <1> QED
    BY <1>3, <1>4, <1>5, <1>6, <1>7 DEF Next

\* Every step keeps the types of the executors' local variables.
LEMMA LoopTypesStep ==
    ASSUME IndInv, Next
    PROVE  LoopTypes'
  <1> USE DEF IndInv, TypeOK, LoopTypes, Goto
  <1>1. ASSUME UNCHANGED <<loopVars, timer_queue>> PROVE LoopTypes'
    BY <1>1 DEF loopVars
  <1>2. ASSUME NEW c \in Callers, NEW t \in Tasks,
               Wake(c, t) \/ \E e \in Executors : Allocate(c, t, e)
        PROVE  LoopTypes'
    BY <1>1, <1>2 DEF Wake, Allocate
  <1>3. ASSUME NEW c \in Callers, CallStep(c) PROVE LoopTypes'
    BY <1>1, <1>3 DEF CallStep, Initialize, Bind, Push, Signal
  <1>4. ASSUME NEW e \in Executors, LoopStep(e) PROVE LoopTypes'
    <2>1. CASE Start(e)
      <3>1. now \in Instants
        BY ExecutorAssumption DEF ClockTypes, Time, Instants, Never
      <3>2. /\ UNCHANGED <<cur, timer_queue>>
            /\ cursor' = [cursor EXCEPT ![e] = 1]
            /\ instant' = instant \/ instant' = [instant EXCEPT ![e] = now]
            /\ pc' = [pc EXCEPT ![e] = "expire"] \/ pc' = [pc EXCEPT ![e] = "swap"]
            /\ pc[e] = "start"
        BY <2>1 DEF Start, taskVars
      <3> QED
        BY <3>1, <3>2
    <2>2. CASE Expire(e)
      <3>1. cursor[e] \in 1..Len(timer_queue[e])
        BY <2>2, ScannedIsTask DEF Expire
      <3>2. CASE pc' = [pc EXCEPT ![e] = "unlink"] /\ UNCHANGED cursor
        BY <2>2, <3>1, <3>2 DEF Expire
      <3>3. CASE cursor' = [cursor EXCEPT ![e] = @ + 1] /\ UNCHANGED pc
        BY <2>2, <3>3 DEF Expire
      <3> QED
        BY <2>2, <3>2, <3>3 DEF Expire
    <2>3. CASE Unlink(e)
      BY <2>3 DEF Unlink, Unqueue, QueueTypes
    <2>4. CASE Take(e)
      <3>1. Newest(batch[e]) \in Tasks
        BY <2>4, NewestIsTask DEF Take
      <3>2. \/ UNCHANGED <<pc, cur>>
            \/ /\ pc' = [pc EXCEPT ![e] = "poll"]
               /\ cur' = [cur EXCEPT ![e] = Newest(batch[e])]
        BY <2>4 DEF Take
      <3>3. UNCHANGED <<cursor, instant, timer_queue>>
        BY <2>4 DEF Take
      <3> QED
        BY <3>1, <3>2, <3>3, ExecutorAssumption
    <2>5. CASE Update(e)
      BY <2>5 DEF Update, QueueTypes
    <2>6. CASE Rearm(e)
      <3>1. Scanned(e) \in Tasks
        BY <2>6, ScannedIsTask DEF Rearm
      <3>2. /\ cursor' = cursor \/ cursor' = [cursor EXCEPT ![e] = @ + 1]
            /\ instant' \in [Executors -> Instants]
        BY <2>6, <3>1 DEF Rearm, TaskTypes
      <3>3. \A f \in Executors : pc'[f] = "unlink" => timer_queue'[f] = timer_queue[f] /\ f # e
        BY <2>6 DEF Rearm, Unqueue, QueueTypes
      <3>4. UNCHANGED <<pc, cur>>
        BY <2>6 DEF Rearm
      <3> QED
        BY <3>2, <3>3, <3>4
    <2>7. CASE ExpireDone(e) \/ Swap(e) \/ Finish(e) \/ SetAlarm(e) \/ Woken(e)
      BY <2>7 DEF ExpireDone, Swap, Finish, SetAlarm, Woken
    <2>8. CASE BatchDone(e)
      BY <2>8, ExecutorAssumption DEF BatchDone, Instants, Never
    <2> QED
      BY <1>4, <2>1, <2>2, <2>3, <2>4, <2>5, <2>6, <2>7, <2>8 DEF LoopStep
  <1>5. ASSUME NEW e \in Executors, PollReturns(e) \/ SpuriousWake(e) PROVE LoopTypes'
    BY <1>5 DEF PollReturns, PollReady, PollPending, SpuriousWake
  <1>6. ASSUME NEW e \in Executors, AlarmFires(e) \/ \E at \in Time : RegisterTimer(e, at)
        PROVE  LoopTypes'
    BY <1>6, <1>1 DEF AlarmFires, RegisterTimer
  <1>7. CASE Tick
    BY <1>7, <1>1 DEF Tick
  <1> QED
    BY <1>2, <1>3, <1>4, <1>5, <1>6, <1>7 DEF Next

\* Every step keeps the types of the calls in progress.
LEMMA CallTypesStep ==
    ASSUME IndInv, Next
    PROVE  CallTypes'
  <1> USE DEF IndInv, TypeOK, CallTypes
  <1>1. ASSUME NEW c \in Callers, NEW x \in Calls, call' = [call EXCEPT ![c] = x],
               x.pc \in {"init", "bind", "bound", "woken"} => x.task # NULL,
               x.pc \in {"init", "bind", "bound", "signal"} => x.ex # NULL
        PROVE  CallTypes'
    BY <1>1
  <1>2. ASSUME NEW c \in Callers, NEW t \in Tasks, MarkQueued(c, t) PROVE CallTypes'
    <2>1. [pc |-> "woken", task |-> t, ex |-> NULL] \in Calls
      BY DEF Calls
    <2> QED
      BY <1>1, <1>2, <2>1, ExecutorAssumption DEF MarkQueued
  <1>3. ASSUME NEW c \in Callers, NEW t \in Tasks, Wake(c, t) PROVE CallTypes'
    BY <1>2, <1>3 DEF Wake
  <1>4. ASSUME NEW c \in Callers, NEW t \in Tasks, NEW e \in Executors, Allocate(c, t, e)
        PROVE  CallTypes'
    <2>1. [pc |-> "init", task |-> t, ex |-> e] \in Calls
      BY DEF Calls
    <2> QED
      BY <1>1, <1>4, <2>1, ExecutorAssumption DEF Allocate
  <1>5. ASSUME NEW c \in Callers, CallStep(c) PROVE CallTypes'
    <2>1. ASSUME NEW label \in {"bind", "bound"}, call[c].pc \in {"init", "bind"},
                 call' = [call EXCEPT ![c].pc = label]
          PROVE  CallTypes'
      <3>1. call' = [call EXCEPT ![c] = [@ EXCEPT !.pc = label]]
        BY <2>1
      <3>2. [call[c] EXCEPT !.pc = label] \in Calls
        BY <2>1 DEF Calls
      <3> QED
        BY <1>1, <2>1, <3>1, <3>2 DEF Calls
    <2>2. CASE Initialize(c)
      BY <2>1, <2>2 DEF Initialize
    <2>3. CASE Bind(c)
      BY <2>1, <2>3 DEF Bind
    <2>4. CASE Push(c)
      <3> DEFINE t == call[c].task
                 e == IF call[c].pc = "woken" THEN executor[t] ELSE call[c].ex
      <3>1. t \in Tasks /\ Claims(c, t)
        BY <2>4 DEF Push, Claims, Calls
      <3>2. e \in Executors
        BY <2>4, <3>1 DEF Push, Calls, TaskTypes, Sound, RunsAtHome
      <3>3. \/ call' = [call EXCEPT ![c] = [pc |-> "signal", task |-> NULL, ex |-> e]]
            \/ call' = [call EXCEPT ![c] = NoCall]
        BY <2>4 DEF Push
      <3> HIDE DEF t, e
      <3>4. [pc |-> "signal", task |-> NULL, ex |-> e] \in Calls /\ NoCall \in Calls
        BY <3>2 DEF Calls, NoCall
      <3>5. e # NULL
        BY <3>2, ExecutorAssumption
      <3> QED
        BY <1>1, <3>3, <3>4, <3>5 DEF NoCall
    <2>5. CASE Signal(c)
      <3>1. NoCall \in Calls
        BY DEF NoCall, Calls
      <3> QED
        BY <1>1, <2>5, <3>1 DEF Signal, NoCall
    <2> QED
      BY <1>5, <2>2, <2>3, <2>4, <2>5 DEF CallStep
  <1>6. ASSUME UNCHANGED call PROVE CallTypes'
    BY <1>6
  <1>7. ASSUME NEW e \in Executors, LoopStep(e) PROVE CallTypes'
    <2>1. CASE Expire(e)
      <3>1. CASE MarkQueued(e, Scanned(e))
        BY <2>1, <3>1, <1>2, ScannedIsTask DEF Expire, Callers
      <3>2. CASE UNCHANGED call
        BY <3>2, <1>6
      <3> QED
        BY <2>1, <3>1, <3>2 DEF Expire
    <2>2. CASE Start(e) \/ Unlink(e) \/ ExpireDone(e) \/ Swap(e) \/ Take(e) \/ Finish(e)
      BY <2>2, <1>6 DEF Start, Unlink, ExpireDone, Swap, Take, Finish
    <2>3. CASE Update(e) \/ BatchDone(e) \/ Rearm(e) \/ SetAlarm(e) \/ Woken(e)
      BY <2>3, <1>6 DEF Update, BatchDone, Rearm, SetAlarm, Woken
    <2> QED
      BY <1>7, <2>1, <2>2, <2>3 DEF LoopStep
  <1>8. ASSUME NEW e \in Executors,
               \/ PollReturns(e) \/ SpuriousWake(e) \/ AlarmFires(e)
               \/ \E at \in Time : RegisterTimer(e, at)
        PROVE  CallTypes'
    BY <1>8, <1>6 DEF PollReturns, PollReady, PollPending, SpuriousWake, AlarmFires, RegisterTimer
  <1>9. CASE Tick
    BY <1>9, <1>6 DEF Tick
  <1> QED
    BY <1>3, <1>4, <1>5, <1>7, <1>8, <1>9 DEF Next

\* Every step keeps the types of the clock, the alarms and the signals.
LEMMA ClockTypesStep ==
    ASSUME IndInv, Next
    PROVE  ClockTypes'
  <1> USE DEF IndInv, TypeOK, ClockTypes
  <1>1. ASSUME UNCHANGED <<event, alarm, now>> PROVE ClockTypes'
    BY <1>1
  <1>2. Never \in Instants
    BY ExecutorAssumption DEF Never, Instants
  <1>3. ASSUME NEW c \in Callers, NEW t \in Tasks,
               Wake(c, t) \/ \E e \in Executors : Allocate(c, t, e)
        PROVE  ClockTypes'
    BY <1>1, <1>3 DEF Wake, Allocate
  <1>4. ASSUME NEW c \in Callers, CallStep(c) PROVE ClockTypes'
    BY <1>4 DEF CallStep, Initialize, Bind, Push, Signal
  <1>5. ASSUME NEW e \in Executors, LoopStep(e) PROVE ClockTypes'
    <2>1. CASE SetAlarm(e)
      <3>1. instant[e] \in Instants
        BY DEF LoopTypes
      <3>2. UNCHANGED now /\ \/ event' = [event EXCEPT ![e] = TRUE] /\ alarm' = [alarm EXCEPT ![e] = Never]
                             \/ alarm' = [alarm EXCEPT ![e] = instant[e]] /\ UNCHANGED event
        BY <2>1 DEF SetAlarm
      <3> HIDE DEF ClockTypes
      <3>3. event' \in [Executors -> BOOLEAN]
        BY <3>2 DEF ClockTypes
      <3>4. alarm' \in [Executors -> Instants]
        BY <1>2, <3>1, <3>2 DEF ClockTypes
      <3> QED
        BY <3>2, <3>3, <3>4 DEF ClockTypes
    <2>2. CASE Woken(e)
      BY <2>2 DEF Woken
    <2>3. CASE Start(e) \/ Expire(e) \/ Unlink(e) \/ ExpireDone(e) \/ Swap(e) \/ Take(e)
      BY <2>3, <1>1 DEF Start, Expire, Unlink, ExpireDone, Swap, Take
    <2>4. CASE Finish(e) \/ Update(e) \/ BatchDone(e) \/ Rearm(e)
      BY <2>4, <1>1 DEF Finish, Update, BatchDone, Rearm
    <2> QED
      BY <1>5, <2>1, <2>2, <2>3, <2>4 DEF LoopStep
  <1>6. ASSUME NEW e \in Executors,
               PollReturns(e) \/ SpuriousWake(e) \/ \E at \in Time : RegisterTimer(e, at)
        PROVE  ClockTypes'
    BY <1>6, <1>1 DEF PollReturns, PollReady, PollPending, SpuriousWake, RegisterTimer
  <1>7. ASSUME NEW e \in Executors, AlarmFires(e) PROVE ClockTypes'
    BY <1>7, <1>2 DEF AlarmFires
  <1>8. CASE Tick
    BY <1>8, ExecutorAssumption DEF Tick, Time
  <1> QED
    BY <1>3, <1>4, <1>5, <1>6, <1>7, <1>8 DEF Next

\* Every step keeps the phases.
LEMMA PhasesStep ==
    ASSUME IndInv, Next
    PROVE  Phases'
  <1> USE DEF IndInv, TypeOK, LoopTypes, CallTypes, QueueTypes, Phases, Goto, loopVars, Callers
  <1>1. ASSUME NEW c \in Callers, NEW t \in Tasks, Wake(c, t) PROVE Phases'
    BY <1>1 DEF Wake, MayCall, MarkQueued
  <1>2. ASSUME NEW c \in Callers, NEW t \in Tasks, NEW e \in Executors, Allocate(c, t, e)
        PROVE  Phases'
    BY <1>2 DEF Allocate, MayCall
  <1>3. ASSUME NEW c \in Callers, CallStep(c) PROVE Phases'
    <2>1. \A d \in Callers : call[d].pc = "idle" => call'[d] = call[d]
      BY <1>3 DEF CallStep, Initialize, Bind, Push, Signal
    <2>2. UNCHANGED <<pc, batch>>
      BY <1>3 DEF CallStep, Initialize, Bind, Push, Signal
    <2> QED
      BY <2>1, <2>2
  <1>4. ASSUME NEW e \in Executors, LoopStep(e) PROVE Phases'
    <2>1. CASE Start(e) \/ ExpireDone(e) \/ Finish(e) \/ Update(e) \/ BatchDone(e)
      BY <2>1 DEF Start, ExpireDone, Finish, Update, BatchDone
    <2>2. CASE Expire(e)
      BY <2>2 DEF Expire, MarkQueued
    <2>3. CASE Unlink(e) \/ Swap(e) \/ Rearm(e) \/ SetAlarm(e) \/ Woken(e)
      BY <2>3 DEF Unlink, Swap, Rearm, SetAlarm, Woken
    <2>4. CASE Take(e)
      <3>1. /\ UNCHANGED call /\ pc[e] = "next"
            /\ \A f \in Executors : f # e => batch'[f] = batch[f] /\ pc'[f] = pc[f]
            /\ pc'[e] \in {"next", "poll"}
        BY <2>4 DEF Take
      <3> QED
        BY <3>1
    <2> QED
      BY <1>4, <2>1, <2>2, <2>3, <2>4 DEF LoopStep
  <1>5. ASSUME NEW e \in Executors,
               \/ PollReturns(e) \/ SpuriousWake(e) \/ AlarmFires(e)
               \/ \E at \in Time : RegisterTimer(e, at)
        PROVE  Phases'
    BY <1>5 DEF PollReturns, PollReady, PollPending, SpuriousWake, AlarmFires, RegisterTimer
  <1>6. CASE Tick
    BY <1>6 DEF Tick
  <1> QED
    BY <1>1, <1>2, <1>3, <1>4, <1>5, <1>6 DEF Next

-----------------------------------------------------------------------------
(* The theorems.                                                           *)

\* The invariant holds initially.
LEMMA InitInv == Init => IndInv
  <1> SUFFICES ASSUME Init PROVE IndInv
    OBVIOUS
  <1>1. \A t \in Tasks : ~Occurs(<<>>, t)
    BY DEF Occurs
  <1>2. Distinct(<<>>)
    BY DEF Distinct
  <1>3. /\ \A t \in Tasks : ~IsSpawned(t) /\ ~IsQueued(t) /\ future[t] = "uninit"
        /\ \A e \in Executors, t \in Tasks : ~InRun(e, t) /\ ~InBatch(e, t) /\ ~Polling(e, t)
        /\ \A c \in Callers, t \in Tasks : ~Claims(c, t)
    BY <1>1 DEF Init, TaskNew, ExecutorNew, IsSpawned, IsQueued, InRun, InBatch, Polling, Claims, NoCall
  <1>4. \A e \in Executors : Distinct(run_queue[e]) /\ Distinct(batch[e])
    BY <1>2 DEF Init, TaskNew, ExecutorNew
  <1>5. Sound
    BY <1>3, <1>4 DEF Sound, RunQueuedOnce, FutureSafety, RunsAtHome, Lifecycle
  <1>6. Phases
    BY DEF Init, TaskNew, ExecutorNew, Phases, NoCall, Callers
  <1>7. TaskTypes /\ QueueTypes
    BY ExecutorAssumption DEF Init, TaskNew, ExecutorNew, TaskTypes, QueueTypes, Instants, Never
  <1>8. LoopTypes /\ ClockTypes
    BY ExecutorAssumption DEF Init, TaskNew, ExecutorNew, LoopTypes, ClockTypes, Instants, Never, Time
  <1>9. CallTypes
    <2>1. NoCall \in Calls
      BY DEF NoCall, Calls
    <2> QED
      BY <2>1 DEF Init, TaskNew, ExecutorNew, CallTypes, NoCall
  <1> QED
    BY <1>5, <1>6, <1>7, <1>8, <1>9 DEF IndInv, TypeOK

\* Every step keeps the executors sound.
LEMMA SoundStep ==
    ASSUME IndInv, Next
    PROVE  Sound'
  <1>1. ASSUME Quiet PROVE Sound'
    BY <1>1, QuietIsSound DEF IndInv
  <1>2. ASSUME NEW c \in Callers, NEW t \in Tasks,
               Wake(c, t) \/ \E e \in Executors : Allocate(c, t, e)
        PROVE  Sound'
    BY <1>2, WakeIsSound, AllocateIsSound
  <1>3. ASSUME NEW c \in Callers, CallStep(c) PROVE Sound'
    BY <1>3, <1>1, InitializeIsSound, BindIsSound, PushIsSound, SignalIsQuiet DEF CallStep
  <1>4. ASSUME NEW e \in Executors,
               LoopStep(e) \/ PollReturns(e) \/ SpuriousWake(e) \/ AlarmFires(e)
        PROVE  Sound'
    <2>1. CASE \/ Start(e) \/ ExpireDone(e) \/ Unlink(e) \/ Update(e) \/ BatchDone(e) \/ Rearm(e)
               \/ SetAlarm(e) \/ Woken(e) \/ SpuriousWake(e) \/ AlarmFires(e) \/ PollPending(e)
      BY <2>1, <1>1, QuietSteps
    <2>2. CASE Expire(e) \/ Swap(e) \/ Take(e) \/ PollReady(e) \/ Finish(e)
      BY <2>2, ExpireIsSound, SwapIsSound, TakeIsSound, PollReadyIsSound, FinishIsSound
    <2> QED
      BY <1>4, <2>1, <2>2 DEF LoopStep, PollReturns
  <1>5. ASSUME NEW e \in Executors, NEW at \in Time, RegisterTimer(e, at) PROVE Sound'
    <2>1. Quiet
      BY <1>5 DEF RegisterTimer, Quiet, loopVars, IsSpawned, IsQueued, Claims, Polling
    <2> QED
      BY <1>1, <2>1
  <1>6. CASE Tick
    <2>1. Quiet
      BY <1>6 DEF Tick, Quiet, taskVars, loopVars, IsSpawned, IsQueued, Claims, Polling
    <2> QED
      BY <1>1, <2>1
  <1> QED
    BY <1>2, <1>3, <1>4, <1>5, <1>6 DEF Next

\* Every step keeps the invariant.
LEMMA StepInv == IndInv /\ [Next]_vars => IndInv'
  <1> SUFFICES ASSUME IndInv, [Next]_vars PROVE IndInv'
    OBVIOUS
  <1>1. CASE Next
    BY <1>1, SoundStep, TaskTypesStep, QueueTypesStep, LoopTypesStep, CallTypesStep, ClockTypesStep,
       PhasesStep DEF IndInv, TypeOK
  <1>2. CASE UNCHANGED vars
    <2>1. Quiet
      BY <1>2 DEF vars, Quiet, IsSpawned, IsQueued, Claims, Polling
    <2>2. Sound'
      BY <2>1, QuietIsSound DEF IndInv
    <2>3. TypeOK'
      BY <1>2 DEF vars, IndInv, TypeOK, TaskTypes, QueueTypes, LoopTypes, CallTypes, ClockTypes
    <2>4. Phases'
      BY <1>2 DEF vars, IndInv, Phases
    <2> QED
      BY <2>2, <2>3, <2>4 DEF IndInv
  <1> QED
    BY <1>1, <1>2

\* The inductive invariant is an invariant.
LEMMA Invariant == Spec => []IndInv
  BY InitInv, StepInv, PTL DEF Spec

\* Every state of the executors is well typed; in particular an executor that polls has a
\* task, and the scan of the timer queue stays inside it.
THEOREM TypesHold == Spec => []TypeOK
  <1>1. IndInv => TypeOK
    BY DEF IndInv
  <1> QED
    BY <1>1, Invariant, PTL

\* For any tasks, executors and contexts: the RUN_QUEUED bit stands for exactly one place
\* of the task (raw.rs, TaskHeader::enqueue, run_queued).
THEOREM TasksAreQueuedOnce == Spec => []RunQueuedOnce
  <1>1. IndInv => RunQueuedOnce
    BY DEF IndInv, Sound
  <1> QED
    BY <1>1, Invariant, PTL

\* For any tasks, executors and contexts: a future is polled by one executor at a time,
\* only between its initialization and its drop, and never overwritten (raw.rs, Task).
THEOREM FuturesAreSafe == Spec => []FutureSafety
  <1>1. IndInv => FutureSafety
    BY DEF IndInv, Sound
  <1> QED
    BY <1>1, Invariant, PTL

\* For any tasks, executors and contexts: a task is queued and polled only by the executor
\* it was last spawned on (raw.rs, TaskHeader::executor).
THEOREM TasksRunAtHome == Spec => []RunsAtHome
  <1>1. IndInv => RunsAtHome
    BY DEF IndInv, Sound
  <1> QED
    BY <1>1, Invariant, PTL

-----------------------------------------------------------------------------
(* Wake-ups.                                                               *)

\* Labels from which run_queued will still take the run queue.
BeforeSwap == {"start", "expire", "unlink", "swap"}

\* NoLostWakeup is not inductive: a task may be enqueued while the executor is busy.
SignalOwed ==
    \A e \in Executors :
        run_queue[e] # <<>> /\ pc[e] \notin BeforeSwap => event[e] \/ SignalPending(e)

\* A step that leaves the queues alone and sends or forgets no signal.
Unsignalled ==
    /\ UNCHANGED <<run_queue, event>>
    /\ \A e \in Executors : SignalPending(e) => SignalPending(e)'
    /\ \A e \in Executors : pc'[e] \notin BeforeSwap => pc[e] \notin BeforeSwap

\* Every step keeps the owed signals.
LEMMA SignalOwedStep ==
    ASSUME IndInv, SignalOwed, Next
    PROVE  SignalOwed'
  <1> USE DEF IndInv, TypeOK, CallTypes, LoopTypes, Goto, taskVars, loopVars
  <1>1. ASSUME Unsignalled PROVE SignalOwed'
    BY <1>1 DEF Unsignalled, SignalOwed
  <1>2. ASSUME UNCHANGED call PROVE \A e \in Executors : SignalPending(e)' <=> SignalPending(e)
    BY <1>2 DEF SignalPending
  <1>3. ASSUME \A d \in Callers : call[d].pc = "signal" => call'[d] = call[d]
        PROVE  \A e \in Executors : SignalPending(e) => SignalPending(e)'
    BY <1>3 DEF SignalPending
  <1>4. ASSUME NEW c \in Callers, NEW t \in Tasks, Wake(c, t) PROVE SignalOwed'
    BY <1>4, <1>1, <1>3 DEF Wake, MarkQueued, MayCall, Unsignalled
  <1>5. ASSUME NEW c \in Callers, NEW t \in Tasks, NEW e \in Executors, Allocate(c, t, e)
        PROVE  SignalOwed'
    BY <1>5, <1>1, <1>3 DEF Allocate, MayCall, Unsignalled
  <1>6. ASSUME NEW c \in Callers, CallStep(c) PROVE SignalOwed'
    <2>1. CASE Initialize(c) \/ Bind(c)
      BY <2>1, <1>1, <1>3 DEF Initialize, Bind, Unsignalled
    <2>2. CASE Push(c)
      <3> DEFINE t == call[c].task
                 e == IF call[c].pc = "woken" THEN executor[t] ELSE call[c].ex
      <3>1. /\ UNCHANGED <<pc, event>>
            /\ \A f \in Executors : f # e => run_queue'[f] = run_queue[f]
            /\ run_queue[e] = <<>> => call'[c].pc = "signal" /\ call'[c].ex = e
            /\ \A d \in Callers : d # c => call'[d] = call[d]
            /\ call[c].pc # "signal"
        BY <2>2 DEF Push, QueueTypes
      <3> HIDE DEF e
      <3>2. \A f \in Executors : SignalPending(f) => SignalPending(f)'
        BY <3>1, <1>3
      <3>3. \A f \in Executors : f = e /\ run_queue[f] = <<>> => SignalPending(f)'
        BY <3>1 DEF SignalPending
      <3> QED
        BY <3>1, <3>2, <3>3 DEF SignalOwed
    <2>3. CASE Signal(c)
      <3>1. /\ UNCHANGED <<pc, run_queue>>
            /\ event' = [event EXCEPT ![call[c].ex] = TRUE]
            /\ \A d \in Callers : d # c => call'[d] = call[d]
        BY <2>3 DEF Signal
      <3>2. \A f \in Executors : SignalPending(f) => SignalPending(f)' \/ f = call[c].ex
        BY <3>1 DEF SignalPending
      <3> QED
        BY <3>1, <3>2 DEF SignalOwed, ClockTypes
    <2> QED
      BY <1>6, <2>1, <2>2, <2>3 DEF CallStep
  <1>7. ASSUME NEW e \in Executors, LoopStep(e) PROVE SignalOwed'
    <2>1. CASE Expire(e)
      <3>1. \A d \in Callers : call[d].pc = "signal" => call'[d] = call[d]
        BY <2>1 DEF Expire, MarkQueued, Phases
      <3>2. UNCHANGED <<run_queue, event>> /\ pc[e] = "expire" /\ pc'[e] \in {"expire", "unlink"}
            /\ \A f \in Executors : f # e => pc'[f] = pc[f]
        BY <2>1 DEF Expire
      <3> QED
        BY <3>1, <3>2, <1>1, <1>3 DEF Unsignalled, BeforeSwap
    <2>2. CASE Swap(e)
      BY <2>2, <1>2 DEF Swap, SignalOwed, QueueTypes
    <2>3. CASE Woken(e)
      BY <2>3, <1>2 DEF Woken, SignalOwed, ClockTypes, BeforeSwap
    <2>4. CASE SetAlarm(e)
      <3>1. \A f \in Executors : event[f] => event'[f]
        BY <2>4 DEF SetAlarm, ClockTypes
      <3>2. UNCHANGED <<run_queue, call>> /\ pc[e] = "rearm"
            /\ \A f \in Executors : f # e => pc'[f] = pc[f]
        BY <2>4 DEF SetAlarm
      <3> QED
        BY <3>1, <3>2, <1>2 DEF SignalOwed, BeforeSwap
    <2>5. CASE Start(e) \/ Unlink(e) \/ ExpireDone(e) \/ Take(e)
      BY <2>5, <1>1, <1>2 DEF Start, Unlink, ExpireDone, Take, Unsignalled, BeforeSwap
    <2>6. CASE Finish(e) \/ Update(e) \/ BatchDone(e) \/ Rearm(e)
      BY <2>6, <1>1, <1>2 DEF Finish, Update, BatchDone, Rearm, Unsignalled, BeforeSwap
    <2> QED
      BY <1>7, <2>1, <2>2, <2>3, <2>4, <2>5, <2>6 DEF LoopStep
  <1>8. ASSUME NEW e \in Executors,
               PollReturns(e) \/ SpuriousWake(e) \/ \E at \in Time : RegisterTimer(e, at)
        PROVE  SignalOwed'
    BY <1>8, <1>1, <1>2 DEF PollReturns, PollPending, PollReady, SpuriousWake, RegisterTimer,
       Unsignalled, BeforeSwap
  <1>9. ASSUME NEW e \in Executors, AlarmFires(e) PROVE SignalOwed'
    BY <1>9, <1>2 DEF AlarmFires, SignalOwed, ClockTypes
  <1>10. CASE Tick
    BY <1>10, <1>1, <1>2 DEF Tick, Unsignalled
  <1> QED
    BY <1>4, <1>5, <1>6, <1>7, <1>8, <1>9, <1>10 DEF Next

\* For any tasks, executors and contexts: no executor sleeps on a non-empty run queue
\* unless its signal is set or on its way (raw.rs, Executor::enqueue; mod.rs, Executor::run).
THEOREM NoWakeupIsLost == Spec => []NoLostWakeup
  <1>1. Init => SignalOwed
    BY DEF Init, TaskNew, ExecutorNew, SignalOwed
  <1>2. IndInv /\ SignalOwed /\ [Next]_vars => SignalOwed'
    <2>1. ASSUME SignalOwed, UNCHANGED vars PROVE SignalOwed'
      BY <2>1 DEF SignalOwed, vars, SignalPending
    <2> QED
      BY <2>1, SignalOwedStep
  <1>3. SignalOwed => NoLostWakeup
    BY DEF SignalOwed, NoLostWakeup, BeforeSwap
  <1> QED
    BY <1>1, <1>2, <1>3, Invariant, PTL DEF Spec

-----------------------------------------------------------------------------
(* The timer queues.                                                       *)

InTimers(t) == TIMER_QUEUED \in state[t]

\* A step that leaves the timer queues and the TIMER_QUEUED bits alone.
Untimed == UNCHANGED timer_queue /\ \A t \in Tasks : InTimers(t)' <=> InTimers(t)

\* Such a step keeps the timer queues sound.
LEMMA UntimedIsSound == TimerQueuedOnce /\ Untimed => TimerQueuedOnce'
  <1> SUFFICES ASSUME TimerQueuedOnce, Untimed PROVE TimerQueuedOnce'
    OBVIOUS
  <1>1. \A e \in Executors, t \in Tasks : InTimer(e, t)' <=> InTimer(e, t)
    BY DEF Untimed, InTimer
  <1>2. \A e \in Executors : Distinct(timer_queue'[e])
    BY DEF Untimed, TimerQueuedOnce
  <1> QED
    BY <1>1, <1>2 DEF Untimed, InTimers, TimerQueuedOnce

\* Removing the task that retain looks at keeps the timer queues sound.
LEMMA UnqueueIsSound ==
    ASSUME TypeOK, TimerQueuedOnce, NEW e \in Executors, ~AtEnd(e), Unqueue(e)
    PROVE  TimerQueuedOnce'
  <1> DEFINE s == timer_queue[e]
             k == cursor[e]
             t == s[k]
             r == RemoveAt(s, k)
  <1>1. s \in Seq(Tasks) /\ Distinct(s) /\ k \in 1..Len(s) /\ t \in Tasks /\ Len(s) \in Nat
    BY ScannedIsTask, LenProperties DEF TypeOK, QueueTypes, TimerQueuedOnce, Scanned
  <1>2. /\ Len(r) = Len(s) - 1
        /\ \A j \in 1..(Len(s) - 1) : r[j] = IF j < k THEN s[j] ELSE s[j + 1]
    <2> HIDE DEF s, k
    <2>1. r = SubSeq(s, 1, k - 1) \o SubSeq(s, k + 1, Len(s))
      BY DEF RemoveAt
    <2> HIDE DEF r
    <2> QED
      BY <1>1, <2>1, Removed
  <1>3. /\ timer_queue'[e] = r /\ \A f \in Executors : f # e => timer_queue'[f] = timer_queue[f]
        /\ \A u \in Tasks : TIMER_QUEUED \in state'[u] <=> TIMER_QUEUED \in state[u] /\ u # t
    BY <1>1 DEF Unqueue, Scanned, TypeOK, QueueTypes, TaskTypes
  <1> HIDE DEF s, k, t, r
  <1>4. t = s[k]
    BY DEF t
  <1>5. Distinct(r)
    BY <1>1, <1>2 DEF Distinct
  <1>6. \A u \in Tasks : Occurs(r, u) <=> Occurs(s, u) /\ u # t
    <2>1. ASSUME NEW u \in Tasks, Occurs(r, u) PROVE Occurs(s, u) /\ u # t
      BY <1>1, <1>2, <1>4, <2>1 DEF Occurs, Distinct
    <2>2. ASSUME NEW u \in Tasks, Occurs(s, u), u # t PROVE Occurs(r, u)
      <3>1. PICK i \in 1..Len(s) : s[i] = u
        BY <2>2 DEF Occurs
      <3>2. CASE i < k
        BY <1>1, <1>2, <3>1, <3>2 DEF Occurs
      <3>3. CASE i > k
        <4>1. i - 1 \in 1..(Len(s) - 1) /\ ~(i - 1 < k) /\ (i - 1) + 1 = i
          BY <1>1, <3>1, <3>3
        <4>2. r[i - 1] = s[i]
          BY <1>2, <4>1
        <4> QED
          BY <1>2, <3>1, <4>1, <4>2 DEF Occurs
      <3> QED
        BY <1>1, <1>4, <2>2, <3>1, <3>2, <3>3
    <2> QED
      BY <2>1, <2>2
  <1>7. \A f \in Executors, u \in Tasks : InTimer(f, u)' <=> InTimer(f, u) /\ ~(f = e /\ u = t)
    BY <1>3, <1>6 DEF InTimer, s
  <1>8. InTimer(e, t)
    BY <1>1, <1>4 DEF InTimer, Occurs, s
  <1>9. \A f \in Executors : Distinct(timer_queue'[f])
    BY <1>3, <1>5 DEF TimerQueuedOnce
  <1> QED
    BY <1>1, <1>3, <1>7, <1>8, <1>9 DEF TimerQueuedOnce

\* update() keeps the timer queues sound.
LEMMA UpdateIsSound ==
    ASSUME TypeOK, TimerQueuedOnce, NEW e \in Executors, Update(e)
    PROVE  TimerQueuedOnce'
  <1> DEFINE s == timer_queue[e]
             t == cur[e]
             r == <<t>> \o s
  <1>1. s \in Seq(Tasks) /\ Distinct(s) /\ t \in Tasks /\ Len(s) \in Nat
    BY LenProperties DEF Update, TypeOK, LoopTypes, QueueTypes, TimerQueuedOnce
  <1>2. CASE expires_at[t] = Never
    <2>1. Untimed
      BY <1>2 DEF Update, Untimed, InTimers
    <2> QED
      BY <2>1, UntimedIsSound
  <1>3. CASE expires_at[t] # Never
    <2>1. \A u \in Tasks : TIMER_QUEUED \in state'[u] <=> TIMER_QUEUED \in state[u] \/ u = t
      BY <1>1, <1>3 DEF Update, TypeOK, TaskTypes
    <2>2. CASE TIMER_QUEUED \in state[t]
      <3>1. Untimed
        BY <1>3, <2>1, <2>2 DEF Update, Untimed, InTimers
      <3> QED
        BY <3>1, UntimedIsSound
    <2>3. CASE TIMER_QUEUED \notin state[t]
      <3>1. timer_queue'[e] = r /\ \A f \in Executors : f # e => timer_queue'[f] = timer_queue[f]
        BY <1>3, <2>3 DEF Update, TypeOK, QueueTypes
      <3>2. Len(r) = Len(s) + 1 /\ r[1] = t /\ \A j \in 1..Len(s) : r[j + 1] = s[j]
        BY <1>1, Prepended
      <3>3. \A f \in Executors : ~InTimer(f, t)
        BY <1>1, <2>3 DEF TimerQueuedOnce
      <3>4. ~Occurs(s, t)
        BY <3>3 DEF InTimer
      <3> HIDE DEF s, t, r
      <3>5. \A j \in 2..Len(r) : j - 1 \in 1..Len(s) /\ r[j] = s[j - 1]
        <4> SUFFICES ASSUME NEW j \in 2..Len(r) PROVE j - 1 \in 1..Len(s) /\ r[j] = s[j - 1]
          OBVIOUS
        <4>1. j - 1 \in 1..Len(s) /\ (j - 1) + 1 = j
          BY <1>1, <3>2
        <4>2. r[(j - 1) + 1] = s[j - 1]
          BY <3>2, <4>1
        <4> QED
          BY <4>1, <4>2
      <3>6. Distinct(r)
        <4> SUFFICES ASSUME NEW i \in 1..Len(r), NEW j \in 1..Len(r), r[i] = r[j] PROVE i = j
          BY DEF Distinct
        <4>1. CASE i = 1 \/ j = 1
          BY <1>1, <3>2, <3>4, <3>5, <4>1 DEF Occurs
        <4>2. CASE i # 1 /\ j # 1
          <5>1. i \in 2..Len(r) /\ j \in 2..Len(r)
            BY <1>1, <3>2, <4>2
          <5>2. i - 1 \in 1..Len(s) /\ j - 1 \in 1..Len(s) /\ s[i - 1] = s[j - 1]
            BY <3>5, <5>1
          <5>3. i - 1 = j - 1
            BY <1>1, <5>2 DEF Distinct
          <5> QED
            BY <5>1, <5>3
        <4> QED
          BY <4>1, <4>2
      <3>7. \A u \in Tasks : Occurs(r, u) <=> Occurs(s, u) \/ u = t
        <4>1. ASSUME NEW u \in Tasks, Occurs(r, u) PROVE Occurs(s, u) \/ u = t
          <5>1. PICK i \in 1..Len(r) : r[i] = u
            BY <4>1 DEF Occurs
          <5>2. i = 1 \/ i \in 2..Len(r)
            BY <1>1, <3>2
          <5> QED
            BY <3>2, <3>5, <5>1, <5>2 DEF Occurs
        <4>2. ASSUME NEW u \in Tasks, Occurs(s, u) PROVE Occurs(r, u)
          <5>1. PICK i \in 1..Len(s) : s[i] = u
            BY <4>2 DEF Occurs
          <5>2. i + 1 \in 1..Len(r) /\ r[i + 1] = u
            BY <1>1, <3>2, <5>1
          <5> QED
            BY <5>2 DEF Occurs
        <4>3. Occurs(r, t)
          BY <1>1, <3>2 DEF Occurs
        <4> QED
          BY <4>1, <4>2, <4>3
      <3>8. \A f \in Executors, u \in Tasks : InTimer(f, u)' <=> InTimer(f, u) \/ (f = e /\ u = t)
        BY <3>1, <3>7 DEF InTimer, s
      <3>9. \A f \in Executors : Distinct(timer_queue'[f])
        BY <3>1, <3>6 DEF TimerQueuedOnce
      <3> QED
        BY <1>1, <2>1, <3>3, <3>8, <3>9 DEF TimerQueuedOnce
    <2> QED
      BY <2>2, <2>3
  <1> QED
    BY <1>2, <1>3

\* Every step keeps the timer queues sound.
LEMMA TimerStep ==
    ASSUME IndInv, TimerQueuedOnce, Next
    PROVE  TimerQueuedOnce'
  <1> USE DEF IndInv, TypeOK, taskVars, Goto
  <1>1. ASSUME Untimed PROVE TimerQueuedOnce'
    BY <1>1, UntimedIsSound
  <1>2. ASSUME UNCHANGED <<state, timer_queue>> PROVE TimerQueuedOnce'
    BY <1>1, <1>2 DEF Untimed, InTimers
  <1>3. ASSUME NEW c \in Callers, NEW t \in Tasks, MarkQueued(c, t), UNCHANGED timer_queue
        PROVE  TimerQueuedOnce'
    BY <1>1, <1>3 DEF MarkQueued, Untimed, InTimers, TaskTypes, TIMER_QUEUED, RUN_QUEUED
  <1>4. ASSUME NEW c \in Callers, NEW t \in Tasks, Wake(c, t) PROVE TimerQueuedOnce'
    BY <1>4, <1>3 DEF Wake
  <1>5. ASSUME NEW c \in Callers, NEW t \in Tasks, NEW e \in Executors, Allocate(c, t, e)
        PROVE  TimerQueuedOnce'
    BY <1>5, <1>1 DEF Allocate, Untimed, InTimers, TaskTypes, TIMER_QUEUED, RUN_QUEUED, SPAWNED
  <1>6. ASSUME NEW c \in Callers, CallStep(c) PROVE TimerQueuedOnce'
    BY <1>6, <1>2 DEF CallStep, Initialize, Bind, Push, Signal
  <1>7. ASSUME NEW e \in Executors, LoopStep(e) PROVE TimerQueuedOnce'
    <2>1. CASE Expire(e)
      <3>1. CASE MarkQueued(e, Scanned(e))
        BY <2>1, <3>1, <1>3, ScannedIsTask DEF Expire, Callers
      <3>2. CASE UNCHANGED state
        BY <2>1, <3>2, <1>2 DEF Expire
      <3> QED
        BY <2>1, <3>1, <3>2 DEF Expire
    <2>2. CASE Unlink(e)
      <3>1. ~AtEnd(e)
        BY <2>2, LenProperties DEF Unlink, AtEnd, LoopTypes, QueueTypes
      <3> QED
        BY <2>2, <3>1, UnqueueIsSound DEF Unlink
    <2>3. CASE Rearm(e)
      BY <2>3, <1>2, UnqueueIsSound DEF Rearm
    <2>4. CASE Update(e)
      BY <2>4, UpdateIsSound
    <2>5. CASE Take(e)
      <3>1. Newest(batch[e]) \in Tasks
        BY <2>5, NewestIsTask DEF Take
      <3> QED
        BY <2>5, <3>1, <1>1 DEF Take, Untimed, InTimers, TaskTypes, TIMER_QUEUED, RUN_QUEUED
    <2>6. CASE Finish(e)
      BY <2>6, <1>1 DEF Finish, Untimed, InTimers, TaskTypes, TIMER_QUEUED, SPAWNED
    <2>7. CASE Start(e) \/ ExpireDone(e) \/ Swap(e) \/ BatchDone(e) \/ SetAlarm(e) \/ Woken(e)
      BY <2>7, <1>2 DEF Start, ExpireDone, Swap, BatchDone, SetAlarm, Woken
    <2> QED
      BY <1>7, <2>1, <2>2, <2>3, <2>4, <2>5, <2>6, <2>7 DEF LoopStep
  <1>8. ASSUME NEW e \in Executors,
               \/ PollReturns(e) \/ SpuriousWake(e) \/ AlarmFires(e)
               \/ \E at \in Time : RegisterTimer(e, at)
        PROVE  TimerQueuedOnce'
    BY <1>8, <1>2 DEF PollReturns, PollPending, PollReady, SpuriousWake, AlarmFires, RegisterTimer
  <1>9. CASE Tick
    BY <1>9, <1>2 DEF Tick
  <1> QED
    BY <1>4, <1>5, <1>6, <1>7, <1>8, <1>9 DEF Next

\* For any tasks, executors and contexts: TIMER_QUEUED stands for exactly one position in
\* one timer queue (timer_queue.rs, update and retain), although the executor that calls
\* update() no longer owns the task when its last poll is over.
THEOREM TimersAreQueuedOnce == Spec => []TimerQueuedOnce
  <1>1. Init => TimerQueuedOnce
    BY DEF Init, TaskNew, ExecutorNew, TimerQueuedOnce, InTimer, Occurs, Distinct
  <1>2. IndInv /\ TimerQueuedOnce /\ [Next]_vars => TimerQueuedOnce'
    <2>1. ASSUME TimerQueuedOnce, UNCHANGED vars PROVE TimerQueuedOnce'
      BY <2>1, UntimedIsSound DEF vars, Untimed, InTimers
    <2> QED
      BY <2>1, TimerStep
  <1> QED
    BY <1>1, <1>2, Invariant, PTL DEF Spec

-----------------------------------------------------------------------------
(* The deadlines of tasks that do not change their executor.                *)

Busy == {"poll", "finish", "update"}

\* NoOversleep rests on what led to it: a waiting task is in the timer queue, dequeue_expired
\* unlinks only what it has enqueued, and next_expiration has found the earliest deadline of
\* those it has looked at.
DeadlineInv(e) ==
    /\ pc[e] \notin Busy => cur[e] = NULL
    /\ \A t \in Tasks : Waiting(t) => InTimers(t)
    /\ pc[e] = "unlink" => ~Wakeable(Scanned(e))
    /\ pc[e] = "rearm" => \A i \in 1..Len(timer_queue[e]) :
         i < cursor[e] => instant[e] <= expires_at[timer_queue[e][i]]
    /\ pc[e] = "wait" /\ e \in Alarmed => \A t \in Tasks :
         executor[t] = e /\ Waiting(t) => event[e] \/ alarm[e] <= expires_at[t]

\* Each task is spawned by the spawners of one executor only, its home.
Pinned(home) == \A t \in Tasks : executor[t] \in {NULL, home[t]}

\* An executor has only such tasks in its timer queue and in its hands.
HomeInv(home) ==
    \A e \in Executors, t \in Tasks : InTimer(e, t) \/ cur[e] = t => home[t] = e

\* No task begins to wait.
NoneWaits ==
    /\ UNCHANGED <<cur, expires_at>>
    /\ \A t \in Tasks : /\ InTimers(t)' <=> InTimers(t)
                        /\ Wakeable(t)' => Wakeable(t) /\ executor'[t] = executor[t]

\* What a step keeps that leaves the executor where it is, or away from its alarm.
LEMMA NoneOversleeps ==
    ASSUME NEW e \in Executors, TypeOK, DeadlineInv(e), NoneWaits,
           pc'[e] \notin Busy => cur[e] = NULL,
           \/ pc'[e] \notin {"unlink", "rearm", "wait"}
           \/ /\ pc'[e] = pc[e] /\ UNCHANGED <<timer_queue, cursor, instant>>
              /\ event'[e] \/ (event'[e] = event[e] /\ alarm'[e] = alarm[e])
    PROVE  DeadlineInv(e)'
  <1>1. \A t \in Tasks : Waiting(t)' => Waiting(t) /\ executor'[t] = executor[t]
    BY DEF NoneWaits, Waiting, Wakeable
  <1>2. \A t \in Tasks : Waiting(t)' => InTimers(t)'
    BY <1>1 DEF NoneWaits, DeadlineInv
  <1>3. CASE pc'[e] \notin {"unlink", "rearm", "wait"}
    BY <1>2, <1>3 DEF DeadlineInv, NoneWaits
  <1>4. CASE /\ pc'[e] = pc[e] /\ UNCHANGED <<timer_queue, cursor, instant>>
             /\ event'[e] \/ (event'[e] = event[e] /\ alarm'[e] = alarm[e])
    <2>1. pc[e] = "unlink" => Scanned(e) \in Tasks /\ Scanned(e)' = Scanned(e)
      <3>1. UNCHANGED <<timer_queue, cursor>>
        BY <1>4
      <3>2. pc[e] = "unlink" => ~AtEnd(e)
        BY LenProperties DEF TypeOK, LoopTypes, QueueTypes, AtEnd
      <3> QED
        BY <3>1, <3>2, ScannedIsTask DEF Scanned
    <2>2. pc'[e] = "unlink" => ~Wakeable(Scanned(e))'
      <3>1. ASSUME pc[e] = "unlink" PROVE ~Wakeable(Scanned(e))'
        <4>1. PICK t \in Tasks : t = Scanned(e) /\ Scanned(e)' = t
          BY <2>1, <3>1
        <4>2. ~Wakeable(t)'
          BY <3>1, <4>1 DEF DeadlineInv, NoneWaits
        <4> QED
          BY <4>1, <4>2 DEF Wakeable, IsSpawned, IsQueued
      <3> QED
        BY <1>4, <3>1
    <2>3. pc'[e] = "rearm" => \A i \in 1..Len(timer_queue'[e]) :
             i < cursor'[e] => instant'[e] <= expires_at'[timer_queue'[e][i]]
      BY <1>4 DEF DeadlineInv, NoneWaits
    <2>4. pc'[e] = "wait" /\ e \in Alarmed => \A t \in Tasks :
             executor'[t] = e /\ Waiting(t)' => event'[e] \/ alarm'[e] <= expires_at'[t]
      BY <1>1, <1>4 DEF DeadlineInv, NoneWaits
    <2> QED
      BY <1>2, <2>2, <2>3, <2>4 DEF DeadlineInv, NoneWaits
  <1> QED
    BY <1>3, <1>4

\* What a context does lets no task wait.
LEMMA CallersLetNoneWait ==
    ASSUME IndInv, NEW c \in Callers,
           \/ \E t \in Tasks : Wake(c, t) \/ (\E e \in Executors : Allocate(c, t, e))
           \/ CallStep(c)
    PROVE  NoneWaits /\ UNCHANGED <<loopVars, timer_queue, alarm>>
           /\ \A e \in Executors : event'[e] \/ event'[e] = event[e]
  <1> USE DEF IndInv, NoneWaits, InTimers, Wakeable, IsSpawned, IsQueued, loopVars, taskVars
  <1>1. ASSUME NEW t \in Tasks, Wake(c, t)
        PROVE  NoneWaits /\ UNCHANGED <<loopVars, timer_queue, alarm, event>>
    BY <1>1 DEF Wake, MarkQueued, TypeOK, TaskTypes, SPAWNED, RUN_QUEUED, TIMER_QUEUED
  <1>2. ASSUME NEW t \in Tasks, NEW e \in Executors, Allocate(c, t, e)
        PROVE  NoneWaits /\ UNCHANGED <<loopVars, timer_queue, alarm, event>>
    BY <1>2 DEF Allocate, TypeOK, TaskTypes, SPAWNED, RUN_QUEUED, TIMER_QUEUED
  <1>3. CASE Initialize(c) \/ Push(c)
    BY <1>3 DEF Initialize, Push
  <1>4. CASE Bind(c)
    <2>1. PICK t \in Tasks : t = call[c].task
      BY <1>4 DEF Bind, TypeOK, CallTypes, Calls
    <2>2. IsQueued(t)
      BY <1>4, <2>1 DEF Bind, Claims, Sound, RunQueuedOnce
    <2>3. \A u \in Tasks : u # t => executor'[u] = executor[u]
      BY <1>4, <2>1 DEF Bind, TypeOK, TaskTypes
    <2> QED
      BY <1>4, <2>2, <2>3 DEF Bind
  <1>5. CASE Signal(c)
    <2>1. \A e \in Executors : event'[e] \/ event'[e] = event[e]
      BY <1>5 DEF Signal, TypeOK, ClockTypes
    <2> QED
      BY <1>5, <2>1 DEF Signal
  <1> QED
    BY <1>1, <1>2, <1>3, <1>4, <1>5 DEF CallStep

\* What the removal of a task from the timer queue leaves.
LEMMA UnqueueLeaves ==
    ASSUME TypeOK, NEW e \in Executors, ~AtEnd(e), Unqueue(e)
    PROVE  /\ Scanned(e) \in Tasks
           /\ \A u \in Tasks : InTimers(u)' <=> InTimers(u) /\ u # Scanned(e)
           /\ \A u \in Tasks : Wakeable(u)' <=> Wakeable(u)
           /\ \A i \in 1..Len(timer_queue'[e]) :
                i < cursor[e] => i \in 1..Len(timer_queue[e])
                                 /\ timer_queue'[e][i] = timer_queue[e][i]
  <1> DEFINE s == timer_queue[e]
             k == cursor[e]
             r == RemoveAt(s, k)
  <1>1. s \in Seq(Tasks) /\ k \in 1..Len(s) /\ Scanned(e) \in Tasks /\ Len(s) \in Nat
    BY ScannedIsTask, LenProperties DEF TypeOK, QueueTypes
  <1>2. /\ Len(r) = Len(s) - 1
        /\ \A j \in 1..(Len(s) - 1) : r[j] = IF j < k THEN s[j] ELSE s[j + 1]
    <2> HIDE DEF s, k
    <2>1. r = SubSeq(s, 1, k - 1) \o SubSeq(s, k + 1, Len(s))
      BY DEF RemoveAt
    <2> HIDE DEF r
    <2> QED
      BY <1>1, <2>1, Removed
  <1>3. timer_queue'[e] = r
    BY DEF Unqueue, TypeOK, QueueTypes
  <1>4. \A u \in Tasks : state'[u] = IF u = Scanned(e) THEN state[u] \ {TIMER_QUEUED} ELSE state[u]
    BY <1>1 DEF Unqueue, TypeOK, TaskTypes
  <1>5. /\ \A u \in Tasks : InTimers(u)' <=> InTimers(u) /\ u # Scanned(e)
        /\ \A u \in Tasks : Wakeable(u)' <=> Wakeable(u)
    BY <1>4 DEF InTimers, Wakeable, IsSpawned, IsQueued, SPAWNED, RUN_QUEUED, TIMER_QUEUED
  <1> HIDE DEF s, k, r
  <1>6. \A i \in 1..Len(r) : i < k => i \in 1..Len(s) /\ r[i] = s[i]
    BY <1>1, <1>2
  <1> QED
    BY <1>1, <1>3, <1>5, <1>6 DEF s, k

\* A task in the timer queue after the removal of another was there before.
LEMMA UnqueuedWasIn ==
    ASSUME TypeOK, NEW e \in Executors, ~AtEnd(e), Unqueue(e), NEW t \in Tasks, InTimer(e, t)'
    PROVE  InTimer(e, t)
  <1> DEFINE s == timer_queue[e]
             k == cursor[e]
             r == RemoveAt(s, k)
  <1>1. s \in Seq(Tasks) /\ k \in 1..Len(s) /\ Len(s) \in Nat
    BY ScannedIsTask, LenProperties DEF TypeOK, QueueTypes
  <1>2. timer_queue'[e] = r
    BY DEF Unqueue, TypeOK, QueueTypes
  <1> HIDE DEF s, k
  <1>3. r = SubSeq(s, 1, k - 1) \o SubSeq(s, k + 1, Len(s))
    BY DEF RemoveAt
  <1> HIDE DEF r
  <1>4. /\ Len(r) = Len(s) - 1
        /\ \A j \in 1..(Len(s) - 1) : r[j] = IF j < k THEN s[j] ELSE s[j + 1]
    BY <1>1, <1>3, Removed
  <1>5. PICK i \in 1..Len(r) : r[i] = t
    BY <1>2 DEF InTimer, Occurs
  <1>6. (i \in 1..Len(s) /\ s[i] = t) \/ (i + 1 \in 1..Len(s) /\ s[i + 1] = t)
    BY <1>1, <1>4, <1>5
  <1> QED
    BY <1>6 DEF InTimer, Occurs, s

\* A task is handed out at home.
LEMMA NewestIsHome ==
    ASSUME IndInv, NEW home \in [Tasks -> Executors], Pinned(home),
           NEW e \in Executors, batch[e] # <<>>
    PROVE  Newest(batch[e]) \in Tasks /\ home[Newest(batch[e])] = e
  <1>1. Newest(batch[e]) \in Tasks
    BY NewestIsTask DEF IndInv
  <1>2. InBatch(e, Newest(batch[e]))
    <2>1. batch[e] \in Seq(Tasks) /\ Len(batch[e]) \in Nat
      BY LenProperties DEF IndInv, TypeOK, QueueTypes
    <2>2. Len(batch[e]) # 0
      BY <2>1
    <2> QED
      BY <2>1, <2>2 DEF InBatch, Occurs, Newest
  <1>3. executor[Newest(batch[e])] = e
    BY <1>1, <1>2 DEF IndInv, Sound, RunsAtHome
  <1> QED
    BY <1>1, <1>3, ExecutorAssumption DEF Pinned

\* dequeue_expired enqueues what it is about to unlink.
LEMMA ExpireDeadlines ==
    ASSUME IndInv, NEW e \in Executors, DeadlineInv(e), Expire(e)
    PROVE  DeadlineInv(e)'
  <1>1. Scanned(e) \in Tasks /\ TypeOK /\ pc[e] = "expire" /\ e \in Callers
    BY ScannedIsTask DEF Expire, IndInv, Callers
  <1>2. CASE expires_at[Scanned(e)] <= instant[e]
    <2>1. /\ MarkQueued(e, Scanned(e)) /\ pc'[e] = "unlink"
          /\ UNCHANGED <<cursor, timer_queue, cur, expires_at, executor>>
      BY <1>1, <1>2 DEF Expire, Goto, TypeOK, LoopTypes
    <2>2. PICK t \in Tasks : t = Scanned(e) /\ Scanned(e)' = t
      BY <1>1, <2>1 DEF Scanned
    <2>3. NoneWaits /\ ~Wakeable(t)'
      BY <1>1, <2>1, <2>2 DEF MarkQueued, NoneWaits, InTimers, Wakeable, IsSpawned, IsQueued,
         TypeOK, TaskTypes, SPAWNED, RUN_QUEUED, TIMER_QUEUED
    <2>4. \A u \in Tasks : Waiting(u)' => InTimers(u)'
      BY <2>3 DEF NoneWaits, Waiting, Wakeable, DeadlineInv
    <2>5. ~Wakeable(Scanned(e))'
      BY <2>2, <2>3 DEF Wakeable, IsSpawned, IsQueued
    <2>6. cur'[e] = NULL
      BY <1>1, <2>1 DEF DeadlineInv, Busy
    <2> QED
      BY <2>1, <2>4, <2>5, <2>6 DEF DeadlineInv
  <1>3. CASE ~(expires_at[Scanned(e)] <= instant[e])
    <2>1. UNCHANGED <<state, pc, cur, expires_at, executor>>
      BY <1>3 DEF Expire
    <2>2. NoneWaits
      BY <2>1 DEF NoneWaits, InTimers, Wakeable, IsSpawned, IsQueued
    <2>3. pc'[e] \notin {"unlink", "rearm", "wait"} /\ cur[e] = NULL
      BY <1>1, <2>1 DEF DeadlineInv, Busy
    <2> QED
      BY <1>1, <2>2, <2>3, NoneOversleeps
  <1> QED
    BY <1>2, <1>3

\* dequeue_expired unlinks a task that does not wait any more.
LEMMA UnlinkDeadlines ==
    ASSUME TypeOK, NEW e \in Executors, DeadlineInv(e), Unlink(e)
    PROVE  DeadlineInv(e)'
  <1>1. /\ ~AtEnd(e) /\ Unqueue(e) /\ pc[e] = "unlink" /\ pc'[e] = "expire"
        /\ UNCHANGED <<cur, expires_at>>
    BY LenProperties DEF Unlink, AtEnd, Goto, TypeOK, LoopTypes, QueueTypes
  <1>2. PICK t \in Tasks : t = Scanned(e)
    BY <1>1, UnqueueLeaves
  <1>3. \A u \in Tasks : (InTimers(u)' <=> InTimers(u) /\ u # t) /\ (Wakeable(u)' <=> Wakeable(u))
    BY <1>1, <1>2, UnqueueLeaves
  <1>4. ~Wakeable(t)
    BY <1>1, <1>2 DEF DeadlineInv
  <1>5. \A u \in Tasks : Waiting(u)' => Waiting(u) /\ u # t
    BY <1>1, <1>3, <1>4 DEF Waiting, Wakeable
  <1> QED
    BY <1>1, <1>3, <1>5 DEF DeadlineInv, Busy

\* A task that is handed out has no deadline until it asks for one.
LEMMA TakeDeadlines ==
    ASSUME TypeOK, NEW e \in Executors, DeadlineInv(e), Take(e)
    PROVE  DeadlineInv(e)'
  <1> DEFINE t == Newest(batch[e])
  <1>1. /\ t \in Tasks /\ pc[e] = "next" /\ cur[e] = NULL
        /\ expires_at' = [expires_at EXCEPT ![t] = Never]
        /\ state' = [state EXCEPT ![t] = @ \ {RUN_QUEUED}]
        /\ \/ pc'[e] = "poll" /\ cur' = [cur EXCEPT ![e] = t]
           \/ UNCHANGED <<pc, cur>>
    BY NewestIsTask DEF Take, Goto, TypeOK, LoopTypes, DeadlineInv, Busy
  <1> HIDE DEF t
  <1>2. /\ \A u \in Tasks : cur[e] # u
        /\ \A g \in Executors : g # e => cur'[g] = cur[g]
    BY <1>1, ExecutorAssumption DEF TypeOK, LoopTypes
  <1>3. /\ expires_at'[t] = Never
        /\ \A u \in Tasks : u # t => state'[u] = state[u] /\ expires_at'[u] = expires_at[u]
        /\ \A u \in Tasks : InTimers(u)' <=> InTimers(u)
    BY <1>1 DEF TypeOK, TaskTypes, InTimers, RUN_QUEUED, TIMER_QUEUED
  <1>4. ASSUME NEW u \in Tasks, Waiting(u)' PROVE Waiting(u)
    <2>1. u # t
      BY <1>3, <1>4 DEF Waiting
    <2> QED
      BY <1>2, <1>3, <1>4, <2>1 DEF Waiting, IsSpawned, IsQueued
  <1>5. \A u \in Tasks : Waiting(u)' => InTimers(u)'
    BY <1>3, <1>4 DEF DeadlineInv
  <1> QED
    BY <1>1, <1>5 DEF DeadlineInv, Busy

\* A task asks for a deadline while it is polled.
LEMMA RegisterDeadlines ==
    ASSUME TypeOK, NEW e \in Executors, DeadlineInv(e), NEW at \in Time, RegisterTimer(e, at)
    PROVE  DeadlineInv(e)'
  <1>1. /\ pc[e] = "poll" /\ UNCHANGED <<pc, cur, state>>
        /\ expires_at' = [expires_at EXCEPT ![cur[e]] = at]
    BY DEF RegisterTimer, loopVars
  <1>2. ASSUME NEW u \in Tasks, Waiting(u)' PROVE Waiting(u)
    BY <1>1, <1>2 DEF Waiting, IsSpawned, IsQueued, TypeOK, TaskTypes
  <1> QED
    BY <1>1, <1>2 DEF DeadlineInv, InTimers, Busy

\* TimerQueue::update puts a task that has a deadline in the queue.
LEMMA UpdateDeadlines ==
    ASSUME TypeOK, NEW e \in Executors, DeadlineInv(e), Update(e)
    PROVE  DeadlineInv(e)'
  <1>1. /\ cur[e] \in Tasks /\ pc'[e] = "next" /\ cur'[e] = NULL /\ UNCHANGED expires_at
        /\ \A g \in Executors : g # e => cur'[g] = cur[g]
        /\ \A u \in Tasks : u # cur[e] => state'[u] = state[u]
        /\ expires_at[cur[e]] # Never => TIMER_QUEUED \in state'[cur[e]]
    BY DEF Update, Goto, TypeOK, LoopTypes, TaskTypes
  <1>2. ASSUME NEW u \in Tasks, Waiting(u)' PROVE InTimers(u)'
    <2>1. CASE u = cur[e]
      BY <1>1, <1>2, <2>1 DEF Waiting, InTimers
    <2>2. CASE u # cur[e]
      <3>1. Waiting(u)
        BY <1>1, <1>2, <2>2 DEF Waiting, IsSpawned, IsQueued
      <3> QED
        BY <1>1, <2>2, <3>1 DEF DeadlineInv, InTimers
    <2> QED
      BY <2>1, <2>2
  <1> QED
    BY <1>1, <1>2 DEF DeadlineInv, Busy

\* next_expiration drops no task that waits, and keeps the earliest deadline.
LEMMA RearmDeadlines ==
    ASSUME TypeOK, NEW e \in Executors, DeadlineInv(e), Rearm(e)
    PROVE  DeadlineInv(e)'
  <1>1. /\ ~AtEnd(e) /\ pc[e] = "rearm" /\ UNCHANGED <<pc, cur, expires_at>>
        /\ cursor[e] \in Nat \ {0} /\ instant[e] \in Int
        /\ \A u \in Tasks : expires_at[u] \in Int
    BY ExecutorAssumption DEF Rearm, TypeOK, LoopTypes, TaskTypes, Instants, Never
  <1>2. PICK t \in Tasks : t = Scanned(e)
    BY <1>1, ScannedIsTask
  <1>3. CASE expires_at[t] = Never
    <2>1. Unqueue(e) /\ UNCHANGED <<cursor, instant>>
      BY <1>2, <1>3 DEF Rearm
    <2>2. /\ \A u \in Tasks : (InTimers(u)' <=> InTimers(u) /\ u # t)
                              /\ (Wakeable(u)' <=> Wakeable(u))
          /\ \A i \in 1..Len(timer_queue'[e]) :
               i < cursor[e] => i \in 1..Len(timer_queue[e])
                                /\ timer_queue'[e][i] = timer_queue[e][i]
      BY <1>1, <1>2, <2>1, UnqueueLeaves
    <2>3. \A u \in Tasks : Waiting(u)' => InTimers(u)'
      BY <1>1, <1>3, <2>2 DEF Waiting, Wakeable, DeadlineInv
    <2>4. \A i \in 1..Len(timer_queue'[e]) :
             i < cursor'[e] => instant'[e] <= expires_at'[timer_queue'[e][i]]
      BY <1>1, <2>1, <2>2 DEF DeadlineInv
    <2> QED
      BY <1>1, <2>3, <2>4 DEF DeadlineInv, Busy
  <1>4. CASE expires_at[t] # Never
    <2>1. /\ cursor'[e] = cursor[e] + 1 /\ UNCHANGED <<state, timer_queue>>
          /\ instant'[e] = IF expires_at[t] < instant[e] THEN expires_at[t] ELSE instant[e]
      BY <1>2, <1>4 DEF Rearm, TypeOK, LoopTypes
    <2>2. instant'[e] <= instant[e] /\ instant'[e] <= expires_at[t] /\ instant'[e] \in Int
      BY <1>1, <2>1
    <2>3. \A u \in Tasks : Waiting(u)' => InTimers(u)'
      BY <1>1, <2>1 DEF Waiting, IsSpawned, IsQueued, InTimers, DeadlineInv
    <2>4. ASSUME NEW i \in 1..Len(timer_queue[e]), i < cursor'[e]
          PROVE  instant'[e] <= expires_at[timer_queue[e][i]]
      <3>1. timer_queue[e] \in Seq(Tasks) /\ Len(timer_queue[e]) \in Nat
        BY LenProperties DEF TypeOK, QueueTypes
      <3>2. timer_queue[e][i] \in Tasks
        BY <3>1, ElementOfSeq
      <3>3. CASE i = cursor[e]
        BY <1>2, <2>2, <3>3 DEF Scanned
      <3>4. CASE i < cursor[e]
        <4>1. instant[e] <= expires_at[timer_queue[e][i]] /\ expires_at[timer_queue[e][i]] \in Int
          BY <1>1, <3>2, <3>4 DEF DeadlineInv
        <4> QED
          BY <1>1, <2>2, <4>1
      <3> QED
        BY <1>1, <2>1, <2>4, <3>1, <3>3, <3>4
    <2> QED
      BY <1>1, <2>1, <2>3, <2>4 DEF DeadlineInv, Busy
  <1> QED
    BY <1>3, <1>4

\* The alarm is set for the earliest deadline.
LEMMA SetAlarmDeadlines ==
    ASSUME TypeOK, TimerQueuedOnce, NEW home \in [Tasks -> Executors], Pinned(home),
           HomeInv(home), NEW e \in Executors, DeadlineInv(e), SetAlarm(e)
    PROVE  DeadlineInv(e)'
  <1>1. /\ AtEnd(e) /\ pc[e] = "rearm" /\ pc'[e] = "wait"
        /\ UNCHANGED <<state, executor, cur, expires_at, timer_queue, cursor>>
        /\ event'[e] = TRUE \/ alarm'[e] = instant[e]
    BY DEF SetAlarm, Goto, taskVars, TypeOK, LoopTypes, ClockTypes
  <1>2. \A u \in Tasks : (Waiting(u)' => Waiting(u)) /\ (InTimers(u)' <=> InTimers(u))
    BY <1>1 DEF Waiting, IsSpawned, IsQueued, InTimers
  <1>3. ASSUME NEW u \in Tasks, executor[u] = e, Waiting(u) PROVE instant[e] <= expires_at[u]
    <2>1. InTimer(e, u)
      <3>1. home[u] = e
        BY <1>3, ExecutorAssumption DEF Pinned
      <3>2. \E g \in Executors : InTimer(g, u)
        BY <1>3 DEF DeadlineInv, InTimers, TimerQueuedOnce
      <3> QED
        BY <3>1, <3>2 DEF HomeInv
    <2>2. PICK i \in 1..Len(timer_queue[e]) : timer_queue[e][i] = u
      BY <2>1 DEF InTimer, Occurs
    <2>3. i < cursor[e]
      BY <1>1, LenProperties DEF AtEnd, TypeOK, LoopTypes, QueueTypes
    <2> QED
      BY <1>1, <2>2, <2>3 DEF DeadlineInv
  <1>4. \A u \in Tasks :
          executor'[u] = e /\ Waiting(u)' => event'[e] \/ alarm'[e] <= expires_at'[u]
    BY <1>1, <1>2, <1>3
  <1> QED
    BY <1>1, <1>2, <1>4 DEF DeadlineInv, Busy

\* The steps of an executor that run_queued, the futures and the alarm take.
OwnStep(e) ==
    \/ LoopStep(e) \/ PollReturns(e) \/ SpuriousWake(e) \/ AlarmFires(e)
    \/ \E at \in Time : RegisterTimer(e, at)

\* An executor's own step keeps its deadlines.
LEMMA OwnDeadlines ==
    ASSUME IndInv, TimerQueuedOnce, NEW home \in [Tasks -> Executors], Pinned(home),
           HomeInv(home), NEW e \in Executors, DeadlineInv(e), OwnStep(e)
    PROVE  DeadlineInv(e)'
  <1>1. TypeOK
    BY DEF IndInv
  <1>3. ASSUME UNCHANGED <<cur, expires_at, state, executor>>,
               pc'[e] \notin Busy => pc[e] \notin Busy,
               pc'[e] \notin {"unlink", "rearm", "wait"}
        PROVE  DeadlineInv(e)'
    <2>1. NoneWaits
      BY <1>3 DEF NoneWaits, InTimers, Wakeable, IsSpawned, IsQueued
    <2>2. pc'[e] \notin Busy => cur[e] = NULL
      BY <1>3 DEF DeadlineInv
    <2> QED
      BY <1>1, <1>3, <2>1, <2>2, NoneOversleeps
  <1>4. CASE Start(e) \/ ExpireDone(e) \/ Swap(e) \/ Woken(e) \/ SpuriousWake(e)
    BY <1>1, <1>3, <1>4 DEF Start, ExpireDone, Swap, Woken, SpuriousWake, Goto, taskVars, TypeOK,
       LoopTypes, Busy
  <1>5. CASE PollReturns(e)
    BY <1>1, <1>3, <1>5 DEF PollReturns, PollPending, PollReady, Goto, taskVars, TypeOK,
       LoopTypes, Busy
  <1>6. CASE Finish(e)
    <2>1. pc'[e] = "update" /\ NoneWaits
      BY <1>1, <1>6 DEF Finish, Goto, NoneWaits, InTimers, Wakeable, IsSpawned, IsQueued, TypeOK,
         LoopTypes, TaskTypes, SPAWNED, RUN_QUEUED, TIMER_QUEUED
    <2> QED
      BY <1>1, <2>1, NoneOversleeps DEF Busy
  <1>7. CASE BatchDone(e)
    <2>1. /\ UNCHANGED <<cur, expires_at, state>> /\ pc[e] = "next" /\ cursor'[e] = 1
          /\ pc'[e] = IF e \in Alarmed THEN "rearm" ELSE "wait"
      BY <1>1, <1>7 DEF BatchDone, Goto, taskVars, TypeOK, LoopTypes
    <2>2. \A u \in Tasks : Waiting(u)' => InTimers(u)'
      BY <2>1 DEF Waiting, IsSpawned, IsQueued, InTimers, DeadlineInv
    <2> QED
      BY <2>1, <2>2 DEF DeadlineInv, Busy
  <1>8. CASE AlarmFires(e)
    <2>1. /\ UNCHANGED <<cur, expires_at, state, executor, pc, timer_queue, cursor, instant>>
          /\ event'[e]
      BY <1>1, <1>8 DEF AlarmFires, taskVars, loopVars, TypeOK, ClockTypes
    <2>2. NoneWaits
      BY <2>1 DEF NoneWaits, InTimers, Wakeable, IsSpawned, IsQueued
    <2> QED
      BY <1>1, <2>1, <2>2, NoneOversleeps DEF DeadlineInv
  <1>9. CASE LoopStep(e)
    BY <1>1, <1>4, <1>6, <1>7, <1>9, ExpireDeadlines, UnlinkDeadlines, TakeDeadlines,
       UpdateDeadlines, RearmDeadlines, SetAlarmDeadlines DEF LoopStep
  <1>10. CASE \E at \in Time : RegisterTimer(e, at)
    BY <1>1, <1>10, RegisterDeadlines
  <1> QED
    BY <1>4, <1>5, <1>8, <1>9, <1>10 DEF OwnStep

\* What an executor's own step leaves to the others: their loops, and the tasks whose home
\* it is not.
Apart(f, home) ==
    /\ UNCHANGED executor
    /\ \A u \in Tasks : home[u] # f => state'[u] = state[u] /\ expires_at'[u] = expires_at[u]
    /\ \A g \in Executors : g # f =>
         /\ pc'[g] = pc[g] /\ cur'[g] = cur[g] /\ timer_queue'[g] = timer_queue[g]
         /\ cursor'[g] = cursor[g] /\ instant'[g] = instant[g]
         /\ alarm'[g] = alarm[g] /\ event'[g] = event[g]

\* The task that retain looks at is in the timer queue.
LEMMA ScannedIsInTimer ==
    ASSUME TypeOK, NEW e \in Executors, ~AtEnd(e)
    PROVE  InTimer(e, Scanned(e))
  BY ScannedIsTask DEF InTimer, Occurs, Scanned

\* An executor touches no task but those whose home it is.
LEMMA StepsAreApart ==
    ASSUME IndInv, NEW home \in [Tasks -> Executors], Pinned(home), HomeInv(home),
           NEW f \in Executors, OwnStep(f)
    PROVE  Apart(f, home)
  <1>1. TypeOK
    BY DEF IndInv
  <1> USE DEF TypeOK, TaskTypes, QueueTypes, LoopTypes, ClockTypes, Apart, Goto
  <1>2. CASE Start(f) \/ ExpireDone(f) \/ Swap(f) \/ Woken(f) \/ SpuriousWake(f) \/ PollReturns(f)
    BY <1>1, <1>2 DEF Start, ExpireDone, Swap, Woken, SpuriousWake, PollReturns, PollPending,
       PollReady, taskVars
  <1>3. CASE BatchDone(f) \/ SetAlarm(f) \/ AlarmFires(f)
    BY <1>1, <1>3 DEF BatchDone, SetAlarm, AlarmFires, taskVars, loopVars
  <1>4. CASE Expire(f)
    <2>1. Scanned(f) \in Tasks /\ home[Scanned(f)] = f
      BY <1>1, <1>4, ScannedIsTask, ScannedIsInTimer DEF Expire, HomeInv
    <2> QED
      BY <1>1, <1>4, <2>1 DEF Expire, MarkQueued
  <1>5. CASE Unlink(f) \/ Rearm(f)
    <2>1. ~AtEnd(f)
      BY <1>1, <1>5, LenProperties DEF Unlink, Rearm, AtEnd
    <2>2. Scanned(f) \in Tasks /\ home[Scanned(f)] = f
      BY <1>1, <2>1, ScannedIsTask, ScannedIsInTimer DEF HomeInv
    <2> QED
      BY <1>1, <1>5, <2>2 DEF Unlink, Rearm, Unqueue
  <1>6. CASE Take(f)
    <2>1. Newest(batch[f]) \in Tasks /\ home[Newest(batch[f])] = f
      BY <1>6, NewestIsHome DEF Take
    <2> QED
      BY <1>1, <1>6, <2>1 DEF Take
  <1>7. CASE Finish(f) \/ Update(f) \/ \E at \in Time : RegisterTimer(f, at)
    <2>1. cur[f] \in Tasks /\ home[cur[f]] = f
      BY <1>1, <1>7 DEF Finish, Update, RegisterTimer, HomeInv
    <2> QED
      BY <1>1, <1>7, <2>1 DEF Finish, Update, RegisterTimer, loopVars
  <1> QED
    BY <1>2, <1>3, <1>4, <1>5, <1>6, <1>7 DEF OwnStep, LoopStep

\* What another executor does keeps the deadlines.
LEMMA OthersDeadlines ==
    ASSUME TypeOK, NEW home \in [Tasks -> Executors], Pinned(home), HomeInv(home), HomeInv(home)',
           NEW e \in Executors, NEW f \in Executors, e # f, DeadlineInv(e), DeadlineInv(f)',
           Apart(f, home)
    PROVE  DeadlineInv(e)'
  <1>1. /\ pc'[e] = pc[e] /\ cur'[e] = cur[e] /\ timer_queue'[e] = timer_queue[e]
        /\ cursor'[e] = cursor[e] /\ instant'[e] = instant[e]
        /\ alarm'[e] = alarm[e] /\ event'[e] = event[e]
    BY DEF Apart
  <1>2. \A u \in Tasks : home[u] = e => state'[u] = state[u] /\ expires_at'[u] = expires_at[u]
    BY DEF Apart
  <1>3. pc[e] = "unlink" => ~Wakeable(Scanned(e))'
    <2>1. SUFFICES ASSUME pc[e] = "unlink" PROVE ~Wakeable(Scanned(e))'
      OBVIOUS
    <2>2. ~AtEnd(e)
      BY <2>1, LenProperties DEF TypeOK, LoopTypes, QueueTypes, AtEnd
    <2>3. PICK t \in Tasks : t = Scanned(e) /\ home[t] = e
      BY <2>2, ScannedIsTask, ScannedIsInTimer DEF HomeInv
    <2>4. Scanned(e)' = t
      BY <1>1, <2>3 DEF Scanned
    <2>5. ~Wakeable(t)'
      BY <1>2, <2>1, <2>3 DEF DeadlineInv, Wakeable, IsSpawned, IsQueued
    <2> QED
      BY <2>4, <2>5 DEF Wakeable, IsSpawned, IsQueued
  <1>4. ASSUME pc[e] = "rearm", NEW i \in 1..Len(timer_queue[e]), i < cursor[e]
        PROVE  instant[e] <= expires_at'[timer_queue[e][i]]
    <2>1. PICK t \in Tasks : t = timer_queue[e][i]
      BY ElementOfSeq DEF TypeOK, QueueTypes
    <2>2. home[t] = e
      BY <2>1 DEF HomeInv, InTimer, Occurs
    <2> QED
      BY <1>2, <1>4, <2>1, <2>2 DEF DeadlineInv
  <1>5. ASSUME NEW t \in Tasks, executor'[t] = e, Waiting(t)'
        PROVE  executor[t] = e /\ Waiting(t) /\ expires_at'[t] = expires_at[t]
    <2>1. executor[t] = e /\ home[t] = e
      BY <1>5, ExecutorAssumption DEF Apart, Pinned
    <2>2. state'[t] = state[t] /\ expires_at'[t] = expires_at[t]
      BY <1>2, <2>1
    <2>3. \A g \in Executors : cur[g] # t
      <3>1. \A g \in Executors : g # f => cur[g] # t
        BY <1>5 DEF Apart, Waiting
      <3> QED
        BY <2>1, <3>1 DEF HomeInv
    <2> QED
      BY <1>5, <2>1, <2>2, <2>3 DEF Waiting, IsSpawned, IsQueued
  <1> QED
    BY <1>1, <1>3, <1>4, <1>5 DEF DeadlineInv

\* What an executor has in its timer queue and in its hands it had before, or took from
\* its batch.
LEMMA HomeStep ==
    ASSUME IndInv, NEW home \in [Tasks -> Executors], Pinned(home), HomeInv(home),
           NEW f \in Executors, OwnStep(f)
    PROVE  HomeInv(home)'
  <1>1. TypeOK
    BY DEF IndInv
  <1>2. \A g \in Executors : g # f => timer_queue'[g] = timer_queue[g] /\ cur'[g] = cur[g]
    BY StepsAreApart DEF Apart
  <1>3. ASSUME NEW t \in Tasks, cur'[f] = t PROVE home[t] = f
    <2>1. cur'[f] = cur[f] \/ cur'[f] = NULL \/ Take(f)
      BY <1>1 DEF OwnStep, LoopStep, Start, Expire, Unlink, ExpireDone, Swap, Finish, Update,
         BatchDone, Rearm, SetAlarm, Woken, PollReturns, PollPending, PollReady, SpuriousWake,
         AlarmFires, RegisterTimer, loopVars, TypeOK, LoopTypes
    <2>2. CASE Take(f)
      <3>1. cur'[f] = cur[f] \/ cur'[f] = Newest(batch[f])
        BY <1>1, <2>2 DEF Take, TypeOK, LoopTypes
      <3> QED
        BY <1>3, <2>2, <3>1, NewestIsHome DEF Take, HomeInv
    <2> QED
      BY <1>3, <2>1, <2>2, ExecutorAssumption DEF HomeInv
  <1>4. ASSUME NEW t \in Tasks, InTimer(f, t)' PROVE home[t] = f
    <2>1. CASE UNCHANGED timer_queue
      BY <1>4, <2>1 DEF HomeInv, InTimer, Occurs
    <2>2. CASE ~AtEnd(f) /\ Unqueue(f)
      <3>1. InTimer(f, t)
        BY <1>1, <1>4, <2>2, UnqueuedWasIn
      <3> QED
        BY <3>1 DEF HomeInv
    <2>3. CASE Update(f) /\ timer_queue' = [timer_queue EXCEPT ![f] = <<cur[f]>> \o @]
      <3> DEFINE s == timer_queue[f]
                 r == <<cur[f]>> \o s
      <3>1. s \in Seq(Tasks) /\ cur[f] \in Tasks /\ Len(s) \in Nat
        BY <1>1, <2>3, LenProperties DEF Update, TypeOK, QueueTypes, LoopTypes
      <3>2. timer_queue'[f] = r
        BY <1>1, <2>3 DEF TypeOK, QueueTypes
      <3> HIDE DEF s
      <3>3. Len(r) = Len(s) + 1 /\ \A i \in 1..Len(r) : r[i] = IF i = 1 THEN cur[f] ELSE s[i - 1]
        BY <3>1
      <3> HIDE DEF r
      <3>4. PICK i \in 1..Len(r) : r[i] = t
        BY <1>4, <3>2 DEF InTimer, Occurs
      <3>5. CASE i = 1
        BY <3>3, <3>4, <3>5 DEF HomeInv
      <3>6. CASE i # 1
        <4>1. i - 1 \in 1..Len(s) /\ s[i - 1] = t
          BY <3>1, <3>3, <3>4, <3>6
        <4> QED
          BY <4>1 DEF s, HomeInv, InTimer, Occurs
      <3> QED
        BY <3>5, <3>6
    <2>4. \/ UNCHANGED timer_queue
          \/ ~AtEnd(f) /\ Unqueue(f)
          \/ Update(f) /\ timer_queue' = [timer_queue EXCEPT ![f] = <<cur[f]>> \o @]
      BY <1>1, LenProperties DEF OwnStep, LoopStep, Start, Expire, Unlink, ExpireDone, Swap, Take,
         Finish, Update, BatchDone, Rearm, SetAlarm, Woken, PollReturns, PollPending, PollReady,
         SpuriousWake, AlarmFires, RegisterTimer, AtEnd, TypeOK, LoopTypes, QueueTypes
    <2> QED
      BY <2>1, <2>2, <2>3, <2>4
  <1>5. ASSUME NEW g \in Executors, NEW t \in Tasks, InTimer(g, t)' \/ cur'[g] = t
        PROVE  home[t] = g
    <2>1. CASE g # f
      BY <1>2, <1>5, <2>1 DEF HomeInv, InTimer, Occurs
    <2> QED
      BY <1>3, <1>4, <1>5, <2>1
  <1> QED
    BY <1>5 DEF HomeInv

\* Every step keeps the deadlines.
LEMMA DeadlineStep ==
    ASSUME IndInv, TimerQueuedOnce, NEW home \in [Tasks -> Executors], Pinned(home),
           HomeInv(home), \A e \in Executors : DeadlineInv(e), Next
    PROVE  HomeInv(home)' /\ \A e \in Executors : DeadlineInv(e)'
  <1>1. TypeOK
    BY DEF IndInv
  <1>2. ASSUME NoneWaits, UNCHANGED <<loopVars, timer_queue, alarm>>,
               \A e \in Executors : event'[e] \/ event'[e] = event[e]
        PROVE  HomeInv(home)' /\ \A e \in Executors : DeadlineInv(e)'
    <2>1. HomeInv(home)'
      BY <1>2 DEF HomeInv, InTimer, Occurs, loopVars
    <2>2. \A e \in Executors : DeadlineInv(e)'
      BY <1>1, <1>2, NoneOversleeps DEF loopVars, DeadlineInv
    <2> QED
      BY <2>1, <2>2
  <1>3. ASSUME NEW c \in Callers,
               \/ \E t \in Tasks : Wake(c, t) \/ (\E f \in Executors : Allocate(c, t, f))
               \/ CallStep(c)
        PROVE  HomeInv(home)' /\ \A e \in Executors : DeadlineInv(e)'
    BY <1>2, <1>3, CallersLetNoneWait
  <1>4. CASE Tick
    <2>1. NoneWaits
      BY <1>4 DEF Tick, taskVars, loopVars, NoneWaits, InTimers, Wakeable, IsSpawned, IsQueued
    <2> QED
      BY <1>2, <1>4, <2>1 DEF Tick
  <1>5. ASSUME NEW f \in Executors, OwnStep(f)
        PROVE  HomeInv(home)' /\ \A e \in Executors : DeadlineInv(e)'
    <2>1. DeadlineInv(f)' /\ Apart(f, home) /\ HomeInv(home)'
      BY <1>5, OwnDeadlines, StepsAreApart, HomeStep
    <2> QED
      BY <1>1, <1>5, <2>1, OthersDeadlines
  <1> QED
    BY <1>3, <1>4, <1>5 DEF Next, OwnStep

\* The inductive invariant of the deadlines.
DeadlinesInv(home) == HomeInv(home) /\ \A e \in Executors : DeadlineInv(e)

\* It holds when the program starts.
LEMMA DeadlinesInit ==
    ASSUME NEW home \in [Tasks -> Executors], Init
    PROVE  DeadlinesInv(home)
  BY ExecutorAssumption DEF Init, TaskNew, ExecutorNew, DeadlinesInv, HomeInv, InTimer, Occurs, DeadlineInv, Waiting,
     IsSpawned, Busy

\* It is kept by every step, and by stuttering.
LEMMA DeadlinesNext ==
    ASSUME NEW home \in [Tasks -> Executors], IndInv, TimerQueuedOnce, Pinned(home),
           DeadlinesInv(home), [Next]_vars
    PROVE  DeadlinesInv(home)'
  <1>1. CASE UNCHANGED vars
    BY <1>1 DEF DeadlinesInv, DeadlineInv, HomeInv, InTimer, Occurs, vars, Waiting, IsSpawned,
       IsQueued, InTimers, Wakeable, Scanned
  <1>2. CASE Next
    BY <1>2, DeadlineStep DEF DeadlinesInv
  <1> QED
    BY <1>1, <1>2

\* It implies that no executor oversleeps.
LEMMA DeadlinesAreFound ==
    ASSUME NEW home, DeadlinesInv(home)
    PROVE  NoOversleep
  BY ExecutorAssumption DEF DeadlinesInv, DeadlineInv, NoOversleep

\* For any tasks, executors and contexts, no executor sleeps past a deadline if every task is
\* only ever spawned on one executor: next_expiration finds the earliest one, and the alarm is
\* set for it or has called back, whatever the other executors and contexts do to the headers of
\* its tasks (timer_queue.rs, update and next_expiration; raw.rs, run_queued).  A task that is
\* spawned anew on another executor can still be in the timer queue of the first.
THEOREM PinnedDeadlinesAreKept ==
    ASSUME NEW home \in [Tasks -> Executors]
    PROVE  Spec /\ []Pinned(home) => []NoOversleep
  <1>1. Init => DeadlinesInv(home)
    BY DeadlinesInit
  <1>2. IndInv /\ TimerQueuedOnce /\ Pinned(home) /\ DeadlinesInv(home) /\ [Next]_vars
        => DeadlinesInv(home)'
    BY DeadlinesNext
  <1>3. DeadlinesInv(home) => NoOversleep
    BY DeadlinesAreFound
  <1> QED
    BY <1>1, <1>2, <1>3, Invariant, TimersAreQueuedOnce, PTL DEF Spec

\* For any tasks and contexts, a single executor never sleeps past a deadline: every task is at
\* home there.
THEOREM DeadlinesAreKept ==
    ASSUME NEW x, Executors = {x}
    PROVE  Spec => []NoOversleep
  <1> DEFINE home == [t \in Tasks |-> x]
  <1>1. home \in [Tasks -> Executors]
    OBVIOUS
  <1>2. IndInv => Pinned(home)
    BY DEF IndInv, TypeOK, TaskTypes, Pinned
  <1>3. Init => DeadlinesInv(home)
    BY <1>1, DeadlinesInit
  <1>4. IndInv /\ TimerQueuedOnce /\ DeadlinesInv(home) /\ [Next]_vars => DeadlinesInv(home)'
    BY <1>1, <1>2, DeadlinesNext
  <1>5. DeadlinesInv(home) => NoOversleep
    BY DeadlinesAreFound
  <1> QED
    BY <1>3, <1>4, <1>5, Invariant, TimersAreQueuedOnce, PTL DEF Spec

-----------------------------------------------------------------------------
(* How often a waiting task is passed over.                                *)

\* While the victim waits in the run queue, the other tasks have been polled at most once, and
\* those left in the batch not at all; once the victim is in the batch, the tasks that are taken
\* before it, the newer ones, have been polled at most once.
BypassInv(e) ==
    /\ bypass \in [Tasks -> 0..2]
    /\ ~Queued(Victim) => \A u \in Tasks : bypass[u] = 0
    /\ InRun(e, Victim) =>
         \A u \in Tasks : bypass[u] <= 1 /\ (InBatch(e, u) => bypass[u] = 0)
    /\ \A i, j \in 1..Len(batch[e]) :
         i < j /\ batch[e][i] = Victim => bypass[batch[e][j]] <= 1

\* A step that does not queue the victim anew adds at most one poll, of the task it hands out.
LEMMA StepCounts ==
    ASSUME NEW e \in Executors, BypassInv(e), NextB
    PROVE  /\ \A u \in Tasks : bypass'[u] = bypass[u] + 1 \/ bypass'[u] <= bypass[u]
           /\ \A u \in Tasks : bypass'[u] \in Nat
           /\ \A u \in Tasks : ~Passes(u) => bypass'[u] <= bypass[u]
           /\ ~Queued(Victim) => \A u \in Tasks : bypass'[u] = 0
           /\ ~Queued(Victim)' => \A u \in Tasks : bypass'[u] = 0
           /\ bypass' \in [Tasks -> Nat]
  <1>1. \A u \in Tasks : bypass[u] \in Nat
    <2>1. bypass \in [Tasks -> 0..2]
      BY DEF BypassInv
    <2> QED
      BY <2>1
  <1>2. bypass' = [u \in Tasks |->
          IF ~Queued(Victim) \/ ~Queued(Victim)' THEN 0
          ELSE IF Passes(u) /\ bypass[u] < MaxBypass THEN bypass[u] + 1
          ELSE bypass[u]]
    BY DEF NextB
  <1>3. \A u \in Tasks : bypass'[u] =
          IF ~Queued(Victim) \/ ~Queued(Victim)' THEN 0
          ELSE IF Passes(u) /\ bypass[u] < MaxBypass THEN bypass[u] + 1
          ELSE bypass[u]
    BY <1>2
  <1>4. \A u \in Tasks : bypass'[u] \in Nat
    BY <1>1, <1>3
  <1> QED
    BY <1>1, <1>2, <1>3, <1>4

\* A step that passes over nobody and leaves the batch alone keeps the count, if it does not put
\* a task that waits already in the run queue.
LEMMA NobodyPasses ==
    ASSUME NEW e \in Executors, TypeOK, BypassInv(e), NextB,
           batch'[e] = batch[e], \A u \in Tasks : ~Passes(u),
           InRun(e, Victim)' => InRun(e, Victim) \/ ~Queued(Victim)
    PROVE  BypassInv(e)'
  <1>1. /\ bypass' \in [Tasks -> Nat] /\ \A u \in Tasks : bypass'[u] <= bypass[u]
        /\ ~Queued(Victim) => \A u \in Tasks : bypass'[u] = 0
        /\ ~Queued(Victim)' => \A u \in Tasks : bypass'[u] = 0
    BY StepCounts
  <1>2. \A u \in Tasks : bypass[u] \in 0..2 /\ bypass'[u] \in Nat
    BY <1>1 DEF BypassInv
  <1>3. bypass' \in [Tasks -> 0..2]
    BY <1>1, <1>2
  <1>4. \A u \in Tasks : InBatch(e, u)' <=> InBatch(e, u)
    BY DEF InBatch
  <1>5. ASSUME InRun(e, Victim)', NEW u \in Tasks
        PROVE  bypass'[u] <= 1 /\ (InBatch(e, u)' => bypass'[u] = 0)
    BY <1>1, <1>2, <1>4, <1>5 DEF BypassInv
  <1>6. ASSUME NEW i \in 1..Len(batch[e]), NEW j \in 1..Len(batch[e]), i < j,
               batch[e][i] = Victim
        PROVE  bypass'[batch[e][j]] <= 1
    <2>1. bypass[batch[e][j]] <= 1 /\ batch[e][j] \in Tasks
      BY <1>6 DEF BypassInv, TypeOK, QueueTypes
    <2> QED
      BY <1>1, <1>2, <2>1
  <1> QED
    BY <1>1, <1>3, <1>5, <1>6 DEF BypassInv

\* The victim waits in one place.
LEMMA VictimIsInOnePlace ==
    ASSUME IndInv
    PROVE  /\ \A e, f \in Executors : QueuedOn(e, Victim) /\ QueuedOn(f, Victim) => e = f
           /\ \A e \in Executors : ~(InRun(e, Victim) /\ InBatch(e, Victim))
  BY BypassAssumption DEF IndInv, Sound, RunQueuedOnce, QueuedOn

\* The swap hands the victim and the tasks queued with it to the next batch.
LEMMA SwapPasses ==
    ASSUME NEW e \in Executors, IndInv, BypassInv(e), NextB, Swap(e)
    PROVE  BypassInv(e)'
  <1>1. /\ batch[e] = <<>> /\ batch'[e] = run_queue[e] /\ run_queue'[e] = <<>>
        /\ run_queue[e] \in Seq(Tasks) /\ pc'[e] = "next"
        /\ \A u \in Tasks : ~Passes(u)
    BY DEF Swap, Goto, IndInv, Phases, TypeOK, QueueTypes, LoopTypes, Passes
  <1>2. ~InRun(e, Victim)' /\ ~InBatch(e, Victim) /\ (InBatch(e, Victim)' <=> InRun(e, Victim))
    BY <1>1 DEF InRun, InBatch, Occurs
  <1>3. /\ bypass' \in [Tasks -> Nat] /\ \A u \in Tasks : bypass'[u] <= bypass[u]
        /\ ~Queued(Victim)' => \A u \in Tasks : bypass'[u] = 0
    BY <1>1, StepCounts
  <1>4. \A u \in Tasks : bypass[u] \in 0..2 /\ bypass'[u] \in Nat
    BY <1>3 DEF BypassInv
  <1>5. bypass' \in [Tasks -> 0..2]
    BY <1>3, <1>4
  <1>6. InBatch(e, Victim)' => \A u \in Tasks : bypass'[u] <= 1
    BY <1>2, <1>3, <1>4 DEF BypassInv
  <1>7. ASSUME NEW i \in 1..Len(batch'[e]), NEW j \in 1..Len(batch'[e]), batch'[e][i] = Victim
        PROVE  bypass'[batch'[e][j]] <= 1
    <2>1. InBatch(e, Victim)' /\ batch'[e][j] \in Tasks
      BY <1>1, <1>7 DEF InBatch, Occurs
    <2> QED
      BY <1>6, <2>1
  <1> QED
    BY <1>2, <1>3, <1>5, <1>7 DEF BypassInv

\* Handing out a task passes over the victim only if the task is newer, or of an older batch.
LEMMA TakePasses ==
    ASSUME NEW e \in Executors, IndInv, BypassInv(e), NextB, Take(e)
    PROVE  BypassInv(e)'
  <1> DEFINE s == batch[e]
             t == Newest(s)
             r == ButNewest(s)
  <1>1. s \in Seq(Tasks) /\ s # <<>> /\ Distinct(s)
    BY DEF Take, IndInv, TypeOK, QueueTypes, Sound, RunQueuedOnce
  <1>2. /\ Len(s) \in Nat \ {0} /\ t = s[Len(s)] /\ t \in Tasks
        /\ Len(r) = Len(s) - 1 /\ \A i \in 1..(Len(s) - 1) : r[i] = s[i]
    BY <1>1, Popped DEF Newest, ButNewest
  <1>3. /\ pc[e] = "next" /\ batch'[e] = r /\ run_queue' = run_queue
        /\ pc'[e] = "poll" => cur'[e] = t
        /\ \A u \in Tasks : Passes(u) => QueuedOn(e, Victim) /\ u = t
        /\ \A g \in Executors : g # e => batch'[g] = batch[g]
    BY DEF Take, Goto, IndInv, TypeOK, QueueTypes, LoopTypes, Passes
  <1>4. ~(InRun(e, Victim) /\ InBatch(e, Victim))
    BY VictimIsInOnePlace
  <1>5. batch[e] = s
    OBVIOUS
  <1> HIDE DEF s, t, r
  <1>6. Occurs(s, t) /\ \A u \in Tasks : Occurs(r, u) <=> Occurs(s, u) /\ u # t
    BY <1>1, <1>2 DEF Occurs, Distinct
  <1>7. /\ InBatch(e, t)
        /\ \A u \in Tasks : InBatch(e, u)' <=> InBatch(e, u) /\ u # t
        /\ InRun(e, Victim)' <=> InRun(e, Victim)
    BY <1>3, <1>5, <1>6 DEF InBatch, InRun
  <1>8. /\ bypass' \in [Tasks -> Nat]
        /\ \A u \in Tasks : bypass'[u] = bypass[u] + 1 \/ bypass'[u] <= bypass[u]
        /\ \A u \in Tasks : u # t \/ ~QueuedOn(e, Victim) => bypass'[u] <= bypass[u]
        /\ ~Queued(Victim)' => \A u \in Tasks : bypass'[u] = 0
    BY <1>3, StepCounts
  <1>9. \A u \in Tasks : bypass[u] \in 0..2 /\ bypass'[u] \in Nat
    BY <1>8 DEF BypassInv
  <1>10. ASSUME InRun(e, Victim), NEW u \in Tasks
         PROVE  bypass'[u] <= 1 /\ (InBatch(e, u)' => bypass'[u] = 0)
    <2>1. bypass[t] = 0 /\ bypass[u] <= 1 /\ (InBatch(e, u) => bypass[u] = 0)
      BY <1>2, <1>7, <1>10 DEF BypassInv
    <2>2. CASE u = t
      BY <1>7, <1>8, <1>9, <2>1, <2>2
    <2>3. CASE u # t
      BY <1>7, <1>8, <1>9, <2>1, <2>3
    <2> QED
      BY <2>2, <2>3
  <1>11. ASSUME InBatch(e, Victim)' PROVE bypass'[t] <= 2
    <2>1. InBatch(e, Victim) /\ Victim # t
      BY <1>7, <1>11, BypassAssumption
    <2>2. PICK i \in 1..Len(s) : s[i] = Victim
      BY <1>5, <2>1 DEF InBatch, Occurs
    <2>3. i < Len(s) /\ Len(s) \in 1..Len(s)
      BY <1>2, <2>1, <2>2
    <2>4. bypass[s[Len(s)]] <= 1
      BY <1>5, <2>2, <2>3 DEF BypassInv
    <2> QED
      BY <1>2, <1>8, <1>9, <2>4
  <1>12. \A u \in Tasks : bypass'[u] <= 2
    <2>1. CASE InRun(e, Victim)
      BY <1>9, <1>10, <2>1
    <2>2. CASE InBatch(e, Victim)'
      BY <1>8, <1>9, <1>11, <2>2
    <2>3. CASE ~QueuedOn(e, Victim)
      BY <1>8, <1>9, <2>3
    <2>4. CASE QueuedOn(e, Victim) /\ ~InRun(e, Victim) /\ ~InBatch(e, Victim)'
      <3>1. \A g \in Executors : g # e => ~QueuedOn(g, Victim)
        BY <2>4, VictimIsInOnePlace
      <3>2. \A g \in Executors : ~QueuedOn(g, Victim)'
        BY <1>3, <1>7, <2>4, <3>1 DEF QueuedOn, InRun, InBatch
      <3> QED
        BY <1>8, <3>2 DEF Queued
    <2> QED
      BY <2>1, <2>2, <2>3, <2>4
  <1>13. ASSUME NEW i \in 1..Len(r), NEW j \in 1..Len(r), i < j, r[i] = Victim
         PROVE  bypass'[r[j]] <= 1
    <2>1. /\ i \in 1..Len(s) /\ j \in 1..Len(s) /\ r[i] = s[i] /\ r[j] = s[j] /\ s[j] \in Tasks
          /\ j # Len(s) /\ Len(s) \in 1..Len(s)
      BY <1>1, <1>2, <1>13
    <2>2. s[j] # t
      BY <1>1, <1>2, <2>1 DEF Distinct
    <2>3. bypass[s[j]] <= 1
      BY <1>5, <1>13, <2>1 DEF BypassInv
    <2> QED
      BY <1>8, <1>9, <2>1, <2>2, <2>3
  <1>14. bypass' \in [Tasks -> 0..2]
    BY <1>8, <1>9, <1>12
  <1> QED
    BY <1>3, <1>7, <1>8, <1>10, <1>13, <1>14 DEF BypassInv

\* A step of another executor keeps the count.
LEMMA OthersPass ==
    ASSUME IndInv, NEW e \in Executors, NEW f \in Executors, e # f, BypassInv(e), BypassInv(f)',
           NextB, run_queue'[e] = run_queue[e], batch'[e] = batch[e],
           \A g \in Executors : g # f => pc'[g] = pc[g]
    PROVE  BypassInv(e)'
  <1>1. InRun(e, Victim)' <=> InRun(e, Victim)
    BY DEF InRun
  <1>2. CASE QueuedOn(e, Victim)
    <2>1. ~QueuedOn(f, Victim)
      BY <1>2, VictimIsInOnePlace
    <2>2. \A u \in Tasks : ~Passes(u)
      BY <2>1 DEF Passes
    <2> QED
      BY <1>1, <2>2, NobodyPasses DEF IndInv
  <1>3. CASE ~QueuedOn(e, Victim)
    <2>1. ~InRun(e, Victim)' /\ \A i \in 1..Len(batch[e]) : batch[e][i] # Victim
      BY <1>1, <1>3 DEF QueuedOn, InBatch, Occurs
    <2> QED
      BY <2>1 DEF BypassInv
  <1> QED
    BY <1>2, <1>3

\* A step of an executor keeps the count of what waits there.
LEMMA OwnPasses ==
    ASSUME NEW e \in Executors, IndInv, BypassInv(e), NextB, OwnStep(e)
    PROVE  BypassInv(e)'
  <1>1. TypeOK
    BY DEF IndInv
  <1>2. ASSUME UNCHANGED <<run_queue, batch>>, ~(pc[e] = "next" /\ pc'[e] = "poll"),
               \A g \in Executors : g # e => pc'[g] = pc[g]
        PROVE  BypassInv(e)'
    <2>1. \A u \in Tasks : ~Passes(u)
      BY <1>2 DEF Passes
    <2> QED
      BY <1>1, <1>2, <2>1, NobodyPasses DEF InRun
  <1>3. CASE Start(e) \/ Expire(e) \/ Unlink(e) \/ ExpireDone(e)
    BY <1>1, <1>2, <1>3 DEF Start, Expire, Unlink, ExpireDone, Goto, TypeOK, LoopTypes
  <1>4. CASE Finish(e) \/ Update(e) \/ BatchDone(e) \/ Rearm(e) \/ SetAlarm(e) \/ Woken(e)
    BY <1>1, <1>2, <1>4 DEF Finish, Update, BatchDone, Rearm, SetAlarm, Woken, Goto, TypeOK,
       LoopTypes
  <1>5. CASE PollReturns(e) \/ SpuriousWake(e) \/ AlarmFires(e)
             \/ \E at \in Time : RegisterTimer(e, at)
    BY <1>1, <1>2, <1>5 DEF PollReturns, PollPending, PollReady, SpuriousWake, AlarmFires,
       RegisterTimer, Goto, loopVars, TypeOK, LoopTypes
  <1>6. CASE LoopStep(e)
    BY <1>3, <1>4, <1>6, SwapPasses, TakePasses DEF LoopStep
  <1> QED
    BY <1>5, <1>6 DEF OwnStep

\* A call of a waker or spawner puts in a run queue only a task that waits nowhere.
LEMMA CallersPass ==
    ASSUME IndInv, NEW e \in Executors, BypassInv(e), NextB, NEW c \in Callers,
           \/ \E t \in Tasks : Wake(c, t) \/ (\E f \in Executors : Allocate(c, t, f))
           \/ CallStep(c)
    PROVE  BypassInv(e)'
  <1>1. TypeOK
    BY DEF IndInv
  <1>2. UNCHANGED <<batch, pc>>
    BY DEF Wake, Allocate, CallStep, Initialize, Bind, Push, Signal, loopVars
  <1>3. \A u \in Tasks : ~Passes(u)
    BY <1>2 DEF Passes
  <1>4. CASE Push(c)
    <2> DEFINE t == call[c].task
               f == IF call[c].pc = "woken" THEN executor[t] ELSE call[c].ex
    <2>1. t \in Tasks /\ Claims(c, t)
          /\ run_queue' = [run_queue EXCEPT ![f] = Append(@, t)]
      BY <1>1, <1>4 DEF Push, Claims, TypeOK, CallTypes, Calls
    <2>2. \A g \in Executors : ~QueuedOn(g, t)
      BY <2>1 DEF IndInv, Sound, RunQueuedOnce, QueuedOn
    <2>3. run_queue[e] \in Seq(Tasks)
          /\ (run_queue'[e] = run_queue[e] \/ run_queue'[e] = Append(run_queue[e], t))
      BY <1>1, <2>1 DEF TypeOK, QueueTypes
    <2> HIDE DEF t, f
    <2>4. InRun(e, Victim)' => InRun(e, Victim) \/ Victim = t
      BY <2>1, <2>3, Appended DEF InRun, Occurs
    <2>5. InRun(e, Victim)' => InRun(e, Victim) \/ ~Queued(Victim)
      BY <2>2, <2>4 DEF Queued
    <2> QED
      BY <1>1, <1>2, <1>3, <2>5, NobodyPasses
  <1>5. CASE ~Push(c)
    <2>1. UNCHANGED run_queue
      BY <1>5 DEF Wake, Allocate, CallStep, Initialize, Bind, Signal
    <2> QED
      BY <1>1, <1>2, <1>3, <2>1, NobodyPasses DEF InRun
  <1> QED
    BY <1>4, <1>5

\* Every step keeps the count.
LEMMA BypassStep ==
    ASSUME IndInv, \A e \in Executors : BypassInv(e), NextB
    PROVE  \A e \in Executors : BypassInv(e)'
  <1>1. TypeOK /\ Next
    BY DEF IndInv, NextB
  <1>2. ASSUME NEW e \in Executors, Tick PROVE BypassInv(e)'
    <2>1. UNCHANGED <<run_queue, batch, pc>>
      BY <1>2 DEF Tick, loopVars
    <2>2. \A u \in Tasks : ~Passes(u)
      BY <2>1 DEF Passes
    <2> QED
      BY <1>1, <2>1, <2>2, NobodyPasses DEF InRun
  <1>3. ASSUME NEW f \in Executors, OwnStep(f), NEW e \in Executors, e # f
        PROVE  BypassInv(e)'
    <2>1. /\ run_queue'[e] = run_queue[e] /\ batch'[e] = batch[e]
          /\ \A g \in Executors : g # f => pc'[g] = pc[g]
      BY <1>1, <1>3 DEF OwnStep, LoopStep, Start, Expire, Unlink, ExpireDone, Swap, Take, Finish,
         Update, BatchDone, Rearm, SetAlarm, Woken, PollReturns, PollPending, PollReady,
         SpuriousWake, AlarmFires, RegisterTimer, Goto, loopVars, TypeOK, QueueTypes, LoopTypes
    <2> QED
      BY <1>3, <2>1, OwnPasses, OthersPass
  <1> QED
    BY <1>1, <1>2, <1>3, OwnPasses, CallersPass DEF Next, OwnStep

\* For any tasks, executors and contexts and any victim, while a task waits in the queue of an
\* executor that executor polls every other task at most twice, however often it is woken again
\* (run_queue.rs:26-29; raw.rs, run_queued).
THEOREM WaitersArePassedTwice == SpecB => []BypassedAtMostTwice
  <1> DEFINE Inv == bypass \in [Tasks -> 0..2] /\ \A e \in Executors : BypassInv(e)
  <1>1. InitB => IndInv /\ Inv
    <2>1. InitB => Inv
      BY DEF InitB, Init, TaskNew, ExecutorNew, BypassInv, Queued, QueuedOn, InRun, InBatch, Occurs
    <2> QED
      BY <2>1, InitInv DEF InitB
  <1>2. IndInv /\ Inv /\ [NextB]_varsB => (IndInv /\ Inv)'
    <2>1. ASSUME IndInv, Inv, UNCHANGED varsB PROVE Inv' /\ IndInv'
      BY <2>1, StepInv DEF BypassInv, varsB, vars, Queued, QueuedOn, InRun, InBatch
    <2>2. ASSUME IndInv, Inv, NextB PROVE Inv' /\ IndInv'
      <3>1. IndInv' /\ \A e \in Executors : BypassInv(e)'
        BY <2>2, StepInv, BypassStep DEF NextB
      <3>2. CASE Executors = {}
        <4>1. ~Queued(Victim)
          BY <3>2 DEF Queued
        <4>2. bypass' = [u \in Tasks |-> 0]
          BY <2>2, <4>1 DEF NextB
        <4> QED
          BY <3>1, <4>2
      <3>3. CASE Executors # {}
        BY <3>1, <3>3 DEF BypassInv
      <3> QED
        BY <3>1, <3>2, <3>3
    <2> QED
      BY <2>1, <2>2
  <1>3. Inv => BypassedAtMostTwice
    BY DEF BypassedAtMostTwice
  <1> HIDE DEF Inv
  <1> QED
    BY <1>1, <1>2, <1>3, PTL DEF SpecB
=============================================================================
