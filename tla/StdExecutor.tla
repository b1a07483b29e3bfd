---------------------------- MODULE StdExecutor ----------------------------
(***************************************************************************)
(* The executor for std, embassy-std/src/lib.rs: one thread runs the       *)
(* executor and sleeps on a condition variable; other threads wake tasks.  *)
(* On it runs a task that awaits the futures of embassy/src/executor/      *)
(* timer.rs at the same time: a Timer, a Ticker and a with_timeout.        *)
(*                                                                         *)
(* What happens while the mutex is held is one step, since nobody else     *)
(* looks at `signaled` without it.  The run queue is abstracted to whether *)
(* it holds the task, the timer queue to the task's expires_at; the        *)
(* modules RunQueue and Executor have them in full.                        *)
(***************************************************************************)
EXTENDS Naturals, FiniteSetsExt

CONSTANTS Threads,     \* threads that wake tasks
          StdMaxTime   \* bound on the clock

ASSUME StdAssumption == IsFiniteSet(Threads) /\ StdMaxTime \in Nat

Never == StdMaxTime + 1    \* u64::MAX

\* The futures that the task awaits; one that it does not await is NoFuture.
Slots == {"timer", "ticker", "timeout"}
NoFuture == [at |-> Never, yielded_once |-> FALSE]

VARIABLES
    std_pc,       \* where the executor's thread is
    std_queue,    \* the run queue holds a task
    futs,         \* the futures of the task
    unpolled,     \* those that its poll has still to poll
    delivered,    \* the future in the with_timeout is ready
    expires,      \* expires_at of the task, if it is in the timer queue
    ALARM_AT,
    signaled,     \* what the mutex of the Signaler guards
    notified,     \* notify_one has chosen the executor's thread
    must_signal,  \* threads that have filled the empty run queue and must signal
    clock

taskVars == <<futs, unpolled, delivered>>
stdVars == <<std_pc, std_queue, taskVars, expires, ALARM_AT, signaled, notified, must_signal, clock>>

\* new and run: init may have spawned tasks, and the first of them signalled.
StdInit ==
    /\ std_pc = "expire"
    /\ std_queue \in BOOLEAN
    /\ futs = [s \in Slots |-> NoFuture] /\ unpolled = {} /\ delivered = FALSE
    /\ expires = Never /\ ALARM_AT = Never
    /\ signaled = std_queue /\ notified = FALSE
    /\ must_signal = {}
    /\ clock = 0

Sleeping == std_pc \in {"wait", "wait_timeout"}

-----------------------------------------------------------------------------
(* Timers.                                                                 *)

\* Instant + Duration.  Bound: what lies beyond the clock's bound never comes.  The sums
\* stay far below 2^64, where the code panics (instant.rs:110).
Plus(t, d) == IF t + d > StdMaxTime THEN Never ELSE t + d

\* Timer::after, and Timer::at
after(d) == [at |-> Plus(clock, d), yielded_once |-> FALSE]

\* Ticker::every.  A Ticker has no yielded_once.
every(d) == [at |-> Plus(clock, d), yielded_once |-> TRUE]

\* Mutant: the last of a task's timers wins.
RegisterLast(at) == expires' = at

\* register_timer: a task has one expires_at for all of its timers.
register_timer(at) == expires' = Min({expires, at})

-----------------------------------------------------------------------------
(* run: run_queued, then wait, forever.                                    *)

\* run_queued first wakes the expired tasks; the first of them signals the thread itself.
Expire ==
    /\ std_pc = "expire"
    /\ std_pc' = "dequeue"
    /\ IF expires <= clock
       THEN /\ expires' = Never
            /\ std_queue' = TRUE
            /\ signaled' = (signaled \/ ~std_queue)
       ELSE UNCHANGED <<expires, std_queue, signaled>>
    /\ UNCHANGED <<taskVars, ALARM_AT, notified, must_signal, clock>>

\* It takes the whole run queue in one step, and resets the task's expires_at.  The poll
\* will poll the futures that the task awaits; it may start or drop one.
Dequeue ==
    /\ std_pc = "dequeue"
    /\ IF std_queue
       THEN /\ std_pc' = "poll"
            /\ expires' = Never
            /\ \/ UNCHANGED <<futs, delivered>>
               \/ \E s \in Slots, d \in 0..StdMaxTime :
                    /\ futs[s] = NoFuture
                    /\ futs' = [futs EXCEPT ![s] = IF s = "ticker" THEN every(1) ELSE after(d)]
                    /\ UNCHANGED delivered
               \/ \E s \in Slots :
                    /\ futs' = [futs EXCEPT ![s] = NoFuture]
                    /\ delivered' = (delivered /\ s # "timeout")
            /\ unpolled' = {s \in Slots : futs'[s] # NoFuture}
       ELSE std_pc' = "set_alarm" /\ UNCHANGED <<taskVars, expires>>
    /\ std_queue' = FALSE
    /\ UNCHANGED <<ALARM_AT, signaled, notified, must_signal, clock>>

\* Timer::poll.  The first poll never completes.
PollTimer(s) ==
    /\ unpolled' = unpolled \ {s}
    /\ IF futs[s].yielded_once /\ futs[s].at <= clock
       THEN futs' = [futs EXCEPT ![s] = NoFuture] /\ UNCHANGED expires
       ELSE /\ register_timer(futs[s].at)
            /\ futs' = [futs EXCEPT ![s].yielded_once = TRUE]

\* Ticker::poll_next.  The task asks for the next tick at once.
poll_next ==
    IF futs["ticker"].at <= clock
    THEN /\ futs' = [futs EXCEPT !["ticker"].at = Plus(@, 1)]
         /\ UNCHANGED <<unpolled, expires>>
    ELSE /\ register_timer(futs["ticker"].at)
         /\ unpolled' = unpolled \ {"ticker"}
         /\ UNCHANGED futs

\* The select in with_timeout polls its future first, and then the Timer.
with_timeout ==
    IF delivered
    THEN /\ futs' = [futs EXCEPT !["timeout"] = NoFuture]
         /\ unpolled' = unpolled \ {"timeout"}
         /\ UNCHANGED expires
    ELSE PollTimer("timeout")

\* The poll of the task polls one of its futures.  Time may pass between two of them.
Poll ==
    /\ std_pc = "poll"
    /\ \/ "timer" \in unpolled /\ PollTimer("timer")
       \/ "ticker" \in unpolled /\ poll_next
       \/ "timeout" \in unpolled /\ with_timeout
    /\ delivered' = (delivered /\ futs'["timeout"] # NoFuture)
    /\ UNCHANGED <<std_pc, std_queue, ALARM_AT, signaled, notified, must_signal, clock>>

\* The poll returns; before that, the task may wake itself.  update() puts it into the timer
\* queue.
Polled ==
    /\ std_pc = "poll" /\ unpolled = {}
    /\ std_pc' = "set_alarm"
    /\ \/ UNCHANGED <<std_queue, signaled>>
       \/ std_queue' = TRUE /\ signaled' = (signaled \/ ~std_queue)
    /\ UNCHANGED <<taskVars, expires, ALARM_AT, notified, must_signal, clock>>

\* StdAlarm: set, or clear when no timer is left.
SetAlarm ==
    /\ std_pc = "set_alarm"
    /\ std_pc' = "check"
    /\ ALARM_AT' = expires
    /\ UNCHANGED <<std_queue, taskVars, expires, signaled, notified, must_signal, clock>>

\* Mutant: the flag is reset on the way in, and not on the way out.
CheckResetsFirst ==
    /\ std_pc = "check"
    /\ std_pc' = IF clock >= ALARM_AT THEN "expire"
                 ELSE IF ALARM_AT = Never THEN "wait" ELSE "wait_timeout"
    /\ signaled' = FALSE
    /\ UNCHANGED <<std_queue, taskVars, expires, ALARM_AT, notified, must_signal, clock>>

\* Signaler::wait takes the mutex and looks at the flag and the alarm, at first and after
\* every wake-up: it leaves and resets the flag, or gives the mutex up and sleeps.
Check ==
    /\ std_pc = "check"
    /\ IF signaled \/ clock >= ALARM_AT
       THEN std_pc' = "expire" /\ signaled' = FALSE
       ELSE /\ std_pc' = IF ALARM_AT = Never THEN "wait" ELSE "wait_timeout"
            /\ UNCHANGED signaled
    /\ UNCHANGED <<std_queue, taskVars, expires, ALARM_AT, notified, must_signal, clock>>

\* The condition variable was notified.
Notified ==
    /\ Sleeping /\ notified
    /\ std_pc' = "check"
    /\ notified' = FALSE
    /\ UNCHANGED <<std_queue, taskVars, expires, ALARM_AT, signaled, must_signal, clock>>

\* A spurious wake-up of the condition variable.
Spurious ==
    /\ Sleeping
    /\ std_pc' = "check"
    /\ notified' = FALSE
    /\ UNCHANGED <<std_queue, taskVars, expires, ALARM_AT, signaled, must_signal, clock>>

\* wait_timeout runs out: the time is rounded down to nanoseconds, so that it may be one
\* tick too soon.  Until the thread has the mutex again others can signal.
Timeout ==
    /\ std_pc = "wait_timeout"
    /\ clock + 1 >= ALARM_AT
    /\ std_pc' = "timed_out"
    /\ notified' = FALSE
    /\ UNCHANGED <<std_queue, taskVars, expires, ALARM_AT, signaled, must_signal, clock>>

\* With the mutex it leaves the loop and resets the flag, whatever it is.
TimedOut ==
    /\ std_pc = "timed_out"
    /\ std_pc' = "expire"
    /\ signaled' = FALSE
    /\ UNCHANGED <<std_queue, taskVars, expires, ALARM_AT, notified, must_signal, clock>>

-----------------------------------------------------------------------------
(* The other threads and the clock.                                        *)

\* A thread wakes the task, because its future is ready or for another reason, and has to
\* signal if the run queue was empty.
WakeTask(t) ==
    /\ t \notin must_signal
    /\ std_queue' = TRUE
    /\ delivered' \in {delivered, futs["timeout"] # NoFuture}
    /\ must_signal' = IF std_queue THEN must_signal ELSE must_signal \cup {t}
    /\ UNCHANGED <<std_pc, futs, unpolled, expires, ALARM_AT, signaled, notified, clock>>

\* Signaler::signal.
Signal(t) ==
    /\ t \in must_signal
    /\ must_signal' = must_signal \ {t}
    /\ signaled' = TRUE
    /\ notified' = (notified \/ Sleeping)
    /\ UNCHANGED <<std_pc, std_queue, taskVars, expires, ALARM_AT, clock>>

\* StdClock.  External: the time of the operating system.
Tick ==
    /\ clock < StdMaxTime
    /\ clock' = clock + 1
    /\ UNCHANGED <<std_pc, std_queue, taskVars, expires, ALARM_AT, signaled, notified, must_signal>>

StdThread == Expire \/ Dequeue \/ Poll \/ Polled \/ SetAlarm \/ Check \/ Notified \/ Timeout \/ TimedOut

StdNext ==
    \/ StdThread \/ Spurious \/ Tick
    \/ \E t \in Threads : WakeTask(t) \/ Signal(t)

\* While the thread sleeps, a task in the run queue has had it notified or will have, by the
\* thread that found the queue empty, and every future that the task awaits ends the sleep
\* in time.  Neither the flag that wait resets nor the one alarm loses any of them
\* (lib.rs:49-82, raw.rs:182-186).
NothingIsSleptThrough ==
    Sleeping => /\ std_queue => (signaled /\ notified) \/ must_signal # {}
                /\ \A s \in Slots : IF std_pc = "wait" THEN futs[s].at = Never
                                    ELSE ALARM_AT <= futs[s].at

\* A task in the run queue is dequeued, and every timer of it that has expired completes,
\* or ticks, although they share one expires_at and one alarm, however signals, timeouts and
\* spurious wake-ups of Signaler::wait fall (lib.rs:49-82, timer.rs:92).
StdServes ==
    /\ std_queue ~> ~std_queue
    /\ \A s \in Slots : (futs[s].at <= clock) ~> (futs[s].at > clock)
=============================================================================
