------------------------------ MODULE Executor ------------------------------
(***************************************************************************)
(* The executors of embassy/src/executor: task headers, wakers, spawners,  *)
(* the run_queued loop and the timer queue, with any number of executors,  *)
(* and contexts (interrupt handlers, threads) that wake and spawn tasks    *)
(* at any moment.                                                          *)
(*                                                                         *)
(* One step is one access that another executor or context can observe:    *)
(* an atomic operation on a task's state, a change of a run queue, a       *)
(* signal.  The run queue is the atomic one of BatchQueue.tla, which the   *)
(* lock-free queue implements.  The timer queue is a private list of its   *)
(* executor, so only its effects on task states are steps.  The alarm is   *)
(* what embassy/src/time/traits.rs asks of a driver.                       *)
(***************************************************************************)
EXTENDS Integers, Sequences

CONSTANTS
    Tasks,      \* the statically allocated task storage
    Executors,
    Contexts,   \* interrupt handlers and threads outside the executors
    Alarmed,    \* the executors that were given an alarm
    MaxTime,    \* bound on time
    NULL

ASSUME ExecutorAssumption ==
    /\ Alarmed \subseteq Executors
    /\ Executors \cap Contexts = {}
    /\ NULL \notin Tasks \cup Executors
    /\ MaxTime \in Nat

VARIABLES
    state,        \* TaskHeader::state, the set of its bits
    executor,     \* TaskHeader::executor
    future,       \* Task::future and TaskHeader::poll_fn: uninit, live or dropped
    expires_at,   \* TaskHeader::expires_at
    run_queue,    \* Executor::run_queue of each executor, oldest task first
    timer_queue,  \* Executor::timer_queue of each executor, head first
    pc,           \* where each executor is in its loop around run_queued
    batch,        \* tasks of the current dequeue_all not handed out yet
    cur,          \* the task that dequeue_all is processing, or NULL
    cursor,       \* position of TimerQueue::retain in the timer queue
    instant,      \* `now` of dequeue_expired, then `res` of next_expiration
    call,         \* the wake or spawn that each executor or context is in
    event,        \* the signal of each executor: SEV, a pended interrupt, a condvar
    alarm,        \* the time each executor's alarm is set to
    now           \* Instant::now()

vars == <<state, executor, future, expires_at, run_queue, timer_queue, pc, batch,
          cur, cursor, instant, call, event, alarm, now>>

taskVars == <<state, executor, future, expires_at>>
loopVars == <<pc, batch, cur, cursor, instant>>

SPAWNED      == "SPAWNED"
RUN_QUEUED   == "RUN_QUEUED"
TIMER_QUEUED == "TIMER_QUEUED"
Bits == {SPAWNED, RUN_QUEUED, TIMER_QUEUED}

Time == 0..MaxTime
Never == MaxTime + 1    \* Instant::MAX
Instants == 0..Never

Callers == Executors \cup Contexts

NoCall == [pc |-> "idle", task |-> NULL, ex |-> NULL]

\* The static storage of the tasks.
TaskNew ==
    /\ state = [t \in Tasks |-> {}]
    /\ executor = [t \in Tasks |-> NULL]
    /\ future = [t \in Tasks |-> "uninit"]
    /\ expires_at = [t \in Tasks |-> 0]

\* raw::Executor::new
ExecutorNew ==
    /\ run_queue = [e \in Executors |-> <<>>]
    /\ timer_queue = [e \in Executors |-> <<>>]
    /\ alarm = [e \in Executors |-> Never]

\* A thread executor begins with a pass, an interrupt executor waits for its interrupt.
Init ==
    /\ TaskNew
    /\ ExecutorNew
    /\ pc \in [Executors -> {"start", "wait"}]
    /\ batch = [e \in Executors |-> <<>>]
    /\ cur = [e \in Executors |-> NULL]
    /\ cursor = [e \in Executors |-> 1]
    /\ instant = [e \in Executors |-> 0]
    /\ call = [c \in Callers |-> NoCall]
    /\ event = [e \in Executors |-> FALSE]
    /\ now = 0

-----------------------------------------------------------------------------
(* Wakers and spawners.  A context calls them at any time, an executor     *)
(* from inside the future it polls.                                        *)

MayCall(c) ==
    /\ call[c].pc = "idle"
    /\ c \in Executors => pc[c] = "poll"

IsSpawned(t) == SPAWNED \in state[t]
IsQueued(t) == RUN_QUEUED \in state[t]

\* Mutant: a task that is queued already is queued again.
WakeableAgain(t) == IsSpawned(t)

Wakeable(t) == IsSpawned(t) /\ ~IsQueued(t)

\* The exchange loop of TaskHeader::enqueue, which returns at once for a task that
\* is queued or not spawned.
MarkQueued(c, t) ==
    IF Wakeable(t)
    THEN /\ state' = [state EXCEPT ![t] = @ \cup {RUN_QUEUED}]
         /\ call' = [call EXCEPT ![c] = [pc |-> "woken", task |-> t, ex |-> NULL]]
    ELSE UNCHANGED <<state, call>>

\* A waker, or wake_task, is called.  The early return changes nothing.
Wake(c, t) ==
    /\ MayCall(c)
    /\ Wakeable(t)
    /\ MarkQueued(c, t)
    /\ UNCHANGED <<executor, future, expires_at, run_queue, timer_queue, loopVars,
                   event, alarm, now>>

\* Task::spawn, Task::spawn_pool: spawn_allocate.  If the task is in use the token
\* is empty, the spawner returns Busy and nothing changes.
Allocate(c, t, e) ==
    /\ MayCall(c)
    /\ state[t] = {}
    /\ state' = [state EXCEPT ![t] = {SPAWNED, RUN_QUEUED}]
    /\ call' = [call EXCEPT ![c] = [pc |-> "init", task |-> t, ex |-> e]]
    /\ UNCHANGED <<executor, future, expires_at, run_queue, timer_queue, loopVars,
                   event, alarm, now>>

\* spawn_initialize.
Initialize(c) ==
    /\ call[c].pc = "init"
    /\ future' = [future EXCEPT ![call[c].task] = "live"]
    /\ call' = [call EXCEPT ![c].pc = "bind"]
    /\ UNCHANGED <<state, executor, expires_at, run_queue, timer_queue, loopVars,
                   event, alarm, now>>

\* Spawner::spawn: Executor::spawn binds the task to its executor.
Bind(c) ==
    /\ call[c].pc = "bind"
    /\ executor' = [executor EXCEPT ![call[c].task] = call[c].ex]
    /\ call' = [call EXCEPT ![c].pc = "bound"]
    /\ UNCHANGED <<state, future, expires_at, run_queue, timer_queue, loopVars,
                   event, alarm, now>>

\* Mutant: the enqueuer of an empty queue does not signal.
PushQuiet(c) ==
    /\ call[c].pc \in {"woken", "bound"}
    /\ LET t == call[c].task
           e == IF call[c].pc = "woken" THEN executor[t] ELSE call[c].ex
       IN run_queue' = [run_queue EXCEPT ![e] = Append(@, t)]
    /\ call' = [call EXCEPT ![c] = NoCall]
    /\ UNCHANGED <<taskVars, timer_queue, loopVars, event, alarm, now>>

\* Executor::enqueue: run_queue.enqueue, and whether it found the queue empty.
Push(c) ==
    /\ call[c].pc \in {"woken", "bound"}
    /\ LET t == call[c].task
           e == IF call[c].pc = "woken" THEN executor[t] ELSE call[c].ex
       IN /\ run_queue' = [run_queue EXCEPT ![e] = Append(@, t)]
          /\ call' = [call EXCEPT ![c] =
                 IF run_queue[e] = <<>>
                 THEN [pc |-> "signal", task |-> NULL, ex |-> e]
                 ELSE NoCall]
    /\ UNCHANGED <<taskVars, timer_queue, loopVars, event, alarm, now>>

\* Executor::enqueue: signal_fn.
Signal(c) ==
    /\ call[c].pc = "signal"
    /\ event' = [event EXCEPT ![call[c].ex] = TRUE]
    /\ call' = [call EXCEPT ![c] = NoCall]
    /\ UNCHANGED <<taskVars, run_queue, timer_queue, loopVars, alarm, now>>

CallStep(c) == Initialize(c) \/ Bind(c) \/ Push(c) \/ Signal(c)

-----------------------------------------------------------------------------
(* Executor::run_queued.                                                   *)

Goto(e, label) == pc' = [pc EXCEPT ![e] = label]

\* run_queued is entered; an executor with an alarm reads the clock.
Start(e) ==
    /\ pc[e] = "start"
    /\ IF e \in Alarmed
       THEN Goto(e, "expire") /\ instant' = [instant EXCEPT ![e] = now]
       ELSE Goto(e, "swap") /\ UNCHANGED instant
    /\ cursor' = [cursor EXCEPT ![e] = 1]
    /\ UNCHANGED <<taskVars, run_queue, timer_queue, batch, cur, call, event, alarm, now>>

AtEnd(e) == cursor[e] > Len(timer_queue[e])
Scanned(e) == timer_queue[e][cursor[e]]

\* dequeue_expired: retain looks at one task; if it has expired on_task enqueues it.
Expire(e) ==
    /\ pc[e] = "expire"
    /\ ~AtEnd(e)
    /\ LET t == Scanned(e)
       IN IF expires_at[t] <= instant[e]
          THEN MarkQueued(e, t) /\ Goto(e, "unlink") /\ UNCHANGED cursor
          ELSE cursor' = [cursor EXCEPT ![e] = @ + 1] /\ UNCHANGED <<state, call, pc>>
    /\ UNCHANGED <<executor, future, expires_at, run_queue, timer_queue, batch, cur,
                   instant, event, alarm, now>>

RemoveAt(s, i) == SubSeq(s, 1, i - 1) \o SubSeq(s, i + 1, Len(s))

\* Mutant: retain unlinks the task and leaves TIMER_QUEUED set.
UnqueueOnly(e) ==
    /\ timer_queue' = [timer_queue EXCEPT ![e] = RemoveAt(@, cursor[e])]
    /\ UNCHANGED state

\* retain removes a task: unlinks it and clears TIMER_QUEUED.
Unqueue(e) ==
    /\ timer_queue' = [timer_queue EXCEPT ![e] = RemoveAt(@, cursor[e])]
    /\ state' = [state EXCEPT ![Scanned(e)] = @ \ {TIMER_QUEUED}]

\* dequeue_expired: on_task has returned.
Unlink(e) ==
    /\ pc[e] = "unlink"
    /\ call[e].pc = "idle"
    /\ Unqueue(e)
    /\ Goto(e, "expire")
    /\ UNCHANGED <<executor, future, expires_at, run_queue, batch, cur, cursor, instant,
                   call, event, alarm, now>>

ExpireDone(e) ==
    /\ pc[e] = "expire"
    /\ AtEnd(e)
    /\ Goto(e, "swap")
    /\ UNCHANGED <<taskVars, run_queue, timer_queue, batch, cur, cursor, instant,
                   call, event, alarm, now>>

Newest(s) == s[Len(s)]
ButNewest(s) == SubSeq(s, 1, Len(s) - 1)

\* Mutant: the newest task is popped off the queue, not the whole queue.
SwapNewest(e) ==
    /\ pc[e] = "swap"
    /\ batch' = [batch EXCEPT ![e] =
           IF run_queue[e] = <<>> THEN <<>> ELSE <<Newest(run_queue[e])>>]
    /\ run_queue' = [run_queue EXCEPT ![e] = ButNewest(@)]
    /\ Goto(e, "next")
    /\ UNCHANGED <<taskVars, timer_queue, cur, cursor, instant, call, event, alarm, now>>

\* dequeue_all takes the queue.
Swap(e) ==
    /\ pc[e] = "swap"
    /\ batch' = [batch EXCEPT ![e] = run_queue[e]]
    /\ run_queue' = [run_queue EXCEPT ![e] = <<>>]
    /\ Goto(e, "next")
    /\ UNCHANGED <<taskVars, timer_queue, cur, cursor, instant, call, event, alarm, now>>

\* Mutant: a task that has finished in the meantime is polled.
TakeUnchecked(e) ==
    /\ pc[e] = "next"
    /\ batch[e] # <<>>
    /\ LET t == Newest(batch[e])
       IN /\ expires_at' = [expires_at EXCEPT ![t] = Never]
          /\ state' = [state EXCEPT ![t] = @ \ {RUN_QUEUED}]
          /\ cur' = [cur EXCEPT ![e] = t]
    /\ Goto(e, "poll")
    /\ batch' = [batch EXCEPT ![e] = ButNewest(@)]
    /\ UNCHANGED <<executor, future, run_queue, timer_queue, cursor, instant, call,
                   event, alarm, now>>

\* dequeue_all hands out a task: its timer is reset, RUN_QUEUED is cleared, and it is
\* polled unless it has finished in the meantime.
Take(e) ==
    /\ pc[e] = "next"
    /\ batch[e] # <<>>
    /\ LET t == Newest(batch[e])
       IN /\ expires_at' = [expires_at EXCEPT ![t] = Never]
          /\ state' = [state EXCEPT ![t] = @ \ {RUN_QUEUED}]
          /\ IF IsSpawned(t)
             THEN Goto(e, "poll") /\ cur' = [cur EXCEPT ![e] = t]
             ELSE UNCHANGED <<pc, cur>>
    /\ batch' = [batch EXCEPT ![e] = ButNewest(@)]
    /\ UNCHANGED <<executor, future, run_queue, timer_queue, cursor, instant, call,
                   event, alarm, now>>

\* The future being polled asks for a wake-up: register_timer.
RegisterTimer(e, at) ==
    /\ pc[e] = "poll"
    /\ call[e].pc = "idle"
    /\ at < expires_at[cur[e]]
    /\ expires_at' = [expires_at EXCEPT ![cur[e]] = at]
    /\ UNCHANGED <<state, executor, future, run_queue, timer_queue, loopVars, call,
                   event, alarm, now>>

\* Task::poll: the future returns Pending.
PollPending(e) ==
    /\ pc[e] = "poll"
    /\ call[e].pc = "idle"
    /\ Goto(e, "update")
    /\ UNCHANGED <<taskVars, run_queue, timer_queue, batch, cur, cursor, instant, call,
                   event, alarm, now>>

\* Task::poll: the future returns Ready and is dropped in place ...
PollReady(e) ==
    /\ pc[e] = "poll"
    /\ call[e].pc = "idle"
    /\ future' = [future EXCEPT ![cur[e]] = "dropped"]
    /\ Goto(e, "finish")
    /\ UNCHANGED <<state, executor, expires_at, run_queue, timer_queue, batch, cur,
                   cursor, instant, call, event, alarm, now>>

\* ... before the task is marked free.
Finish(e) ==
    /\ pc[e] = "finish"
    /\ state' = [state EXCEPT ![cur[e]] = @ \ {SPAWNED}]
    /\ Goto(e, "update")
    /\ UNCHANGED <<executor, future, expires_at, run_queue, timer_queue, batch, cur,
                   cursor, instant, call, event, alarm, now>>

\* Mutant: a task that is in the timer queue already is linked again.
UpdateAgain(e) ==
    /\ pc[e] = "update"
    /\ IF expires_at[cur[e]] # Never
       THEN /\ state' = [state EXCEPT ![cur[e]] = @ \cup {TIMER_QUEUED}]
            /\ timer_queue' = [timer_queue EXCEPT ![e] = <<cur[e]>> \o @]
       ELSE UNCHANGED <<state, timer_queue>>
    /\ cur' = [cur EXCEPT ![e] = NULL]
    /\ Goto(e, "next")
    /\ UNCHANGED <<executor, future, expires_at, run_queue, batch, cursor, instant,
                   call, event, alarm, now>>

\* TimerQueue::update.
Update(e) ==
    /\ pc[e] = "update"
    /\ LET t == cur[e]
       IN IF expires_at[t] # Never
          THEN /\ state' = [state EXCEPT ![t] = @ \cup {TIMER_QUEUED}]
               /\ timer_queue' = IF TIMER_QUEUED \in state[t] THEN timer_queue
                                 ELSE [timer_queue EXCEPT ![e] = <<t>> \o @]
          ELSE UNCHANGED <<state, timer_queue>>
    /\ cur' = [cur EXCEPT ![e] = NULL]
    /\ Goto(e, "next")
    /\ UNCHANGED <<executor, future, expires_at, run_queue, batch, cursor, instant,
                   call, event, alarm, now>>

\* Mutant: the signal is cleared when the batch is done, not when it is received.
BatchDoneClears(e) ==
    /\ pc[e] = "next"
    /\ batch[e] = <<>>
    /\ Goto(e, IF e \in Alarmed THEN "rearm" ELSE "wait")
    /\ cursor' = [cursor EXCEPT ![e] = 1]
    /\ instant' = [instant EXCEPT ![e] = Never]
    /\ event' = [event EXCEPT ![e] = FALSE]
    /\ UNCHANGED <<taskVars, run_queue, timer_queue, batch, cur, call, alarm, now>>

\* dequeue_all is done; an executor with an alarm starts next_expiration.
BatchDone(e) ==
    /\ pc[e] = "next"
    /\ batch[e] = <<>>
    /\ Goto(e, IF e \in Alarmed THEN "rearm" ELSE "wait")
    /\ cursor' = [cursor EXCEPT ![e] = 1]
    /\ instant' = [instant EXCEPT ![e] = Never]
    /\ UNCHANGED <<taskVars, run_queue, timer_queue, batch, cur, call, event, alarm, now>>

\* Mutant: the last deadline that is seen is returned, not the first to expire.
RearmLast(e) ==
    /\ pc[e] = "rearm"
    /\ ~AtEnd(e)
    /\ LET t == Scanned(e)
       IN IF expires_at[t] = Never
          THEN Unqueue(e) /\ UNCHANGED <<cursor, instant>>
          ELSE /\ cursor' = [cursor EXCEPT ![e] = @ + 1]
               /\ instant' = [instant EXCEPT ![e] = expires_at[t]]
               /\ UNCHANGED <<state, timer_queue>>
    /\ UNCHANGED <<executor, future, expires_at, run_queue, pc, batch, cur, call,
                   event, alarm, now>>

\* next_expiration: retain looks at one task, and drops it if it has no deadline.
Rearm(e) ==
    /\ pc[e] = "rearm"
    /\ ~AtEnd(e)
    /\ LET t == Scanned(e)
       IN IF expires_at[t] = Never
          THEN Unqueue(e) /\ UNCHANGED <<cursor, instant>>
          ELSE /\ cursor' = [cursor EXCEPT ![e] = @ + 1]
               /\ instant' = [instant EXCEPT ![e] =
                      IF expires_at[t] < @ THEN expires_at[t] ELSE @]
               /\ UNCHANGED <<state, timer_queue>>
    /\ UNCHANGED <<executor, future, expires_at, run_queue, pc, batch, cur, call,
                   event, alarm, now>>

\* Mutant: an alarm in the past does not call back.
SetAlarmPast(e) ==
    /\ pc[e] = "rearm"
    /\ AtEnd(e)
    /\ alarm' = [alarm EXCEPT ![e] = IF instant[e] <= now THEN Never ELSE instant[e]]
    /\ Goto(e, "wait")
    /\ UNCHANGED <<taskVars, run_queue, timer_queue, batch, cur, cursor, instant, call,
                   event, now>>

\* alarm.set: an alarm in the past calls back at once.
SetAlarm(e) ==
    /\ pc[e] = "rearm"
    /\ AtEnd(e)
    /\ IF instant[e] <= now
       THEN /\ event' = [event EXCEPT ![e] = TRUE]
            /\ alarm' = [alarm EXCEPT ![e] = Never]
       ELSE /\ alarm' = [alarm EXCEPT ![e] = instant[e]]
            /\ UNCHANGED event
    /\ Goto(e, "wait")
    /\ UNCHANGED <<taskVars, run_queue, timer_queue, batch, cur, cursor, instant, call, now>>

\* wfe returns, or the pended interrupt is taken.
Woken(e) ==
    /\ pc[e] = "wait"
    /\ event[e]
    /\ event' = [event EXCEPT ![e] = FALSE]
    /\ Goto(e, "start")
    /\ UNCHANGED <<taskVars, run_queue, timer_queue, batch, cur, cursor, instant, call,
                   alarm, now>>

\* wfe returns because of some other event.
SpuriousWake(e) ==
    /\ pc[e] = "wait"
    /\ Goto(e, "start")
    /\ UNCHANGED <<taskVars, run_queue, timer_queue, batch, cur, cursor, instant, call,
                   event, alarm, now>>

\* The loop outside of the futures' own code.
LoopStep(e) ==
    \/ Start(e) \/ Expire(e) \/ Unlink(e) \/ ExpireDone(e) \/ Swap(e) \/ Take(e)
    \/ Finish(e) \/ Update(e) \/ BatchDone(e) \/ Rearm(e) \/ SetAlarm(e) \/ Woken(e)

PollReturns(e) == PollPending(e) \/ PollReady(e)

-----------------------------------------------------------------------------
(* The clock and the alarm driver.                                         *)

Tick ==
    /\ now < MaxTime
    /\ now' = now + 1
    /\ UNCHANGED <<taskVars, run_queue, timer_queue, loopVars, call, event, alarm>>

\* The alarm expires once and calls signal_fn.
AlarmFires(e) ==
    /\ alarm[e] <= now
    /\ alarm' = [alarm EXCEPT ![e] = Never]
    /\ event' = [event EXCEPT ![e] = TRUE]
    /\ UNCHANGED <<taskVars, run_queue, timer_queue, loopVars, call, now>>

-----------------------------------------------------------------------------
Next ==
    \/ \E c \in Callers, t \in Tasks :
         Wake(c, t) \/ (\E e \in Executors : Allocate(c, t, e))
    \/ \E c \in Callers : CallStep(c)
    \/ \E e \in Executors :
         \/ LoopStep(e) \/ PollReturns(e) \/ SpuriousWake(e) \/ AlarmFires(e)
         \/ \E at \in Time : RegisterTimer(e, at)
    \/ Tick

Spec == Init /\ [][Next]_vars
\* Interrupt handlers and executors run on, a future's poll returns after finitely
\* many wakes and spawns of its own, time passes and the alarm keeps its promise.
\* Nothing obliges anyone to wake or spawn a task.
Fairness ==
    /\ \A c \in Callers : WF_vars(CallStep(c))
    /\ \A e \in Executors : WF_vars(LoopStep(e)) /\ SF_vars(PollReturns(e))
                            /\ WF_vars(AlarmFires(e))
    /\ WF_vars(Tick)

FairSpec == Spec /\ Fairness

-----------------------------------------------------------------------------
(* Properties.                                                             *)

Calls == [pc : {"idle", "init", "bind", "bound", "woken", "signal"},
          task : Tasks \cup {NULL}, ex : Executors \cup {NULL}]

TaskTypes ==
    /\ state \in [Tasks -> SUBSET Bits]
    /\ executor \in [Tasks -> Executors \cup {NULL}]
    /\ future \in [Tasks -> {"uninit", "live", "dropped"}]
    /\ expires_at \in [Tasks -> Instants]

QueueTypes ==
    /\ run_queue \in [Executors -> Seq(Tasks)]
    /\ timer_queue \in [Executors -> Seq(Tasks)]
    /\ batch \in [Executors -> Seq(Tasks)]

LoopTypes ==
    /\ pc \in [Executors -> {"start", "expire", "unlink", "swap", "next", "poll",
                             "finish", "update", "rearm", "wait"}]
    /\ cur \in [Executors -> Tasks \cup {NULL}]
    /\ cursor \in [Executors -> Nat \ {0}]
    /\ instant \in [Executors -> Instants]
    /\ \A e \in Executors : pc[e] \in {"poll", "finish", "update"} => cur[e] # NULL
    /\ \A e \in Executors : pc[e] = "unlink" => cursor[e] <= Len(timer_queue[e])

CallTypes ==
    /\ call \in [Callers -> Calls]
    /\ \A c \in Callers : call[c].pc \in {"init", "bind", "bound", "woken"}
                          => call[c].task # NULL
    /\ \A c \in Callers : call[c].pc \in {"init", "bind", "bound", "signal"}
                          => call[c].ex # NULL

ClockTypes ==
    /\ event \in [Executors -> BOOLEAN]
    /\ alarm \in [Executors -> Instants]
    /\ now \in Time

TypeOK == TaskTypes /\ QueueTypes /\ LoopTypes /\ CallTypes /\ ClockTypes

\* c has set the RUN_QUEUED bit of t and has not put t in a run queue yet.
Claims(c, t) == call[c].pc \in {"init", "bind", "bound", "woken"} /\ call[c].task = t

Occurs(s, t) == \E i \in 1..Len(s) : s[i] = t
Distinct(s) == \A i, j \in 1..Len(s) : s[i] = s[j] => i = j

InRun(e, t) == Occurs(run_queue[e], t)
InBatch(e, t) == Occurs(batch[e], t)

\* The RUN_QUEUED bit of a task stands for exactly one place that holds the task:
\* a waker or spawner about to enqueue it, one run queue or one batch.  A task
\* in two places would have its link overwritten; a bit without a place would
\* leave the task unwakeable for ever (raw.rs, TaskHeader::enqueue and run_queued).
RunQueuedOnce ==
    /\ \A e \in Executors : Distinct(run_queue[e]) /\ Distinct(batch[e])
    /\ \A t \in Tasks, e, f \in Executors :
         /\ ~(InRun(e, t) /\ InBatch(f, t))
         /\ InRun(e, t) /\ InRun(f, t) => e = f
         /\ InBatch(e, t) /\ InBatch(f, t) => e = f
    /\ \A t \in Tasks, c, d \in Callers : Claims(c, t) /\ Claims(d, t) => c = d
    /\ \A t \in Tasks, c \in Callers, e \in Executors :
         Claims(c, t) => ~InRun(e, t) /\ ~InBatch(e, t)
    /\ \A t \in Tasks :
         IsQueued(t) <=> \/ \E c \in Callers : Claims(c, t)
                         \/ \E e \in Executors : InRun(e, t) \/ InBatch(e, t)

Polling(e, t) == pc[e] \in {"poll", "finish"} /\ cur[e] = t

\* A future is polled only while it is initialized and not dropped, by one executor at
\* a time, is never overwritten while it is live or still being polled, and a task that
\* is free holds none (raw.rs:79, "Valid if STATE_SPAWNED").
FutureSafety ==
    /\ \A e \in Executors, t \in Tasks : Polling(e, t) /\ pc[e] = "poll" => future[t] = "live"
    /\ \A e, f \in Executors, t \in Tasks : Polling(e, t) /\ Polling(f, t) => e = f
    /\ \A c \in Callers, t \in Tasks : Claims(c, t) =>
         /\ call[c].pc = "init" => future[t] # "live"
         /\ call[c].pc # "woken" => \A e \in Executors : ~Polling(e, t)
    /\ \A t \in Tasks : ~IsSpawned(t) => future[t] # "live"

\* Whoever follows a task's executor pointer finds the executor the task was last
\* spawned on, and a task is queued and polled only there (raw.rs:30, :69-70).
RunsAtHome ==
    /\ \A c \in Callers, t \in Tasks : Claims(c, t) =>
         /\ call[c].pc = "woken" => executor[t] # NULL
         /\ call[c].pc = "bound" => executor[t] = call[c].ex
    /\ \A e \in Executors, t \in Tasks :
         InRun(e, t) \/ InBatch(e, t) \/ Polling(e, t) => executor[t] = e

SignalPending(e) == \E c \in Callers : call[c].pc = "signal" /\ call[c].ex = e

\* An executor goes to sleep on a non-empty run queue only with its event set or about
\* to be set, although only the enqueuer of an empty queue signals (raw.rs:182-186,
\* mod.rs:131-134).
NoLostWakeup ==
    \A e \in Executors :
        pc[e] = "wait" /\ run_queue[e] # <<>> => event[e] \/ SignalPending(e)

InTimer(e, t) == Occurs(timer_queue[e], t)

\* TIMER_QUEUED stands for exactly one position in one timer queue; a task linked
\* twice would close the list into a cycle (timer_queue.rs, update and retain).
TimerQueuedOnce ==
    /\ \A e \in Executors : Distinct(timer_queue[e])
    /\ \A t \in Tasks, e, f \in Executors : InTimer(e, t) /\ InTimer(f, t) => e = f
    /\ \A t \in Tasks :
         TIMER_QUEUED \in state[t] <=> \E e \in Executors : InTimer(e, t)

\* t waits for its deadline, and for nothing that is already on its way.
Waiting(t) ==
    /\ IsSpawned(t) /\ ~IsQueued(t)
    /\ expires_at[t] # Never
    /\ ~\E e \in Executors : cur[e] = t

\* An executor that sleeps will be woken no later than the first deadline of its
\* waiting tasks: the alarm is set for it or has already called back (timer.rs:44,
\* "A future that completes at a specified Instant").
NoOversleep ==
    \A e \in Alarmed, t \in Tasks :
        pc[e] = "wait" /\ executor[t] = e /\ Waiting(t)
        => event[e] \/ alarm[e] <= expires_at[t]

\* A task that was woken or spawned is polled, or found finished (README.md:24).
WokenIsServed == \A t \in Tasks : IsQueued(t) ~> ~IsQueued(t)

\* A task whose deadline has passed is polled again.
TimerIsServed ==
    \A t \in Tasks :
        Waiting(t) /\ expires_at[t] <= now ~> \E e \in Executors : Polling(e, t)

\* A finished task can be spawned again sooner or later, although the timer it
\* registered in its last poll keeps its state non-zero until that timer expires.
FinishedIsFreed == \A t \in Tasks : ~IsSpawned(t) ~> state[t] = {}
=============================================================================
