---------------------------- MODULE SignalPortal ----------------------------
(***************************************************************************)
(* How tasks wait for each other: Signal (embassy/src/util/signal.rs), the *)
(* WakerRegistration of util/waker.rs, and Portal (util/portal.rs) with    *)
(* its DropBomb.                                                           *)
(*                                                                         *)
(* Signal works in critical sections, and the other two belong to one      *)
(* executor: a call is one step, except that the function which a Portal   *)
(* calls may call the Portal again.  A panic stops the system.             *)
(***************************************************************************)
EXTENDS Naturals, FiniteSets

CONSTANTS Waiters, NoOne

\* The states of a Signal and of a Portal are told apart from the tasks they may hold.
ASSUME WaitersAssumption ==
    /\ IsFiniteSet(Waiters)
    /\ {NoOne, "None", "Signaled", "Running"} \cap Waiters = {}

VARIABLES
    waiter,      \* "idle", "awake" (to be polled) or "asleep", for every waiter
    sig,         \* State of the Signal: "None", "Signaled" or the task Waiting
    registered,  \* the waker of the WakerRegistration
    event,       \* what the tasks of the WakerRegistration wait for has happened
    forgotten,   \* waiters whose waker `reset` has dropped
    portal,      \* State of the Portal: "None", "Running" or the frame Waiting
    frame,       \* "none", "once" or "many" for every frame, while its future is pending
    running,     \* the frame of wait_many whose function runs
    done,        \* frames whose result is written and whose signal is signalled
    panicked

waitVars == <<waiter, sig, registered, event, forgotten>>
portalVars == <<portal, frame, running, done>>
sigVars == <<waitVars, portalVars, panicked>>

SigInit ==
    /\ waiter = [w \in Waiters |-> "idle"]
    /\ sig = "None" /\ registered = NoOne /\ event = FALSE /\ forgotten = {}
    /\ portal = "None"
    /\ frame = [w \in Waiters |-> "none"]
    /\ running = NoOne /\ done = {}
    /\ panicked = FALSE

\* Waking a task makes it poll its future again.
Woken(w) == [waiter EXCEPT ![w] = IF waiter[w] = "asleep" THEN "awake" ELSE waiter[w]]

\* A task begins to wait, is woken for another reason, or drops its future.
Begin(w) ==
    /\ waiter[w] \in {"idle", "asleep"} /\ waiter' = [waiter EXCEPT ![w] = "awake"]
    /\ UNCHANGED <<sig, registered, event, forgotten, portalVars, panicked>>

Cancel(w) ==
    /\ waiter[w] \in {"awake", "asleep"} /\ waiter' = [waiter EXCEPT ![w] = "idle"]
    /\ forgotten' = forgotten \ {w}
    /\ UNCHANGED <<sig, registered, event, portalVars, panicked>>

-----------------------------------------------------------------------------
(* Signal.                                                                 *)

signal ==
    /\ sig' = "Signaled"
    /\ waiter' = IF sig \in Waiters THEN Woken(sig) ELSE waiter
    /\ UNCHANGED <<registered, event, forgotten, portalVars, panicked>>

\* reset drops the waker without waking its task.
reset ==
    /\ sig' = "None"
    /\ forgotten' = forgotten \cup {w \in Waiters : sig = w /\ waiter[w] = "asleep"}
    /\ UNCHANGED <<waiter, registered, event, portalVars, panicked>>

\* Mutant: a second waiter takes the place of the first.
PollWaitOverwrites(w) ==
    /\ waiter[w] = "awake"
    /\ sig' = IF sig = "Signaled" THEN "None" ELSE w
    /\ waiter' = [waiter EXCEPT ![w] = IF sig = "Signaled" THEN "idle" ELSE "asleep"]
    /\ forgotten' = forgotten \ {w}
    /\ UNCHANGED <<registered, event, portalVars, panicked>>

\* poll_wait; two waiters are a panic, also when the first has been dropped meanwhile.
poll_wait(w) ==
    /\ waiter[w] = "awake"
    /\ \/ /\ sig = "Signaled"
          /\ sig' = "None"
          /\ waiter' = [waiter EXCEPT ![w] = "idle"]
          /\ UNCHANGED panicked
       \/ /\ sig \in {"None", w}
          /\ sig' = w
          /\ waiter' = [waiter EXCEPT ![w] = "asleep"]
          /\ UNCHANGED panicked
       \/ /\ sig \in Waiters \ {w}
          /\ panicked' = TRUE
          /\ UNCHANGED <<sig, waiter>>
    /\ forgotten' = forgotten \ {w}
    /\ UNCHANGED <<registered, event, portalVars>>

SignalNext ==
    /\ ~panicked
    /\ \/ signal \/ reset
       \/ \E w \in Waiters : Begin(w) \/ Cancel(w) \/ poll_wait(w)

-----------------------------------------------------------------------------
(* WakerRegistration, as its users have it: a task looks whether what it   *)
(* waits for has happened, and registers if not.                           *)

register(w) ==
    /\ waiter[w] = "awake"
    /\ \/ /\ event
          /\ event' = FALSE
          /\ waiter' = [waiter EXCEPT ![w] = "idle"]
          /\ UNCHANGED registered
       \/ /\ ~event
          /\ registered' = w
          /\ waiter' = [IF registered \in Waiters THEN Woken(registered) ELSE waiter
                        EXCEPT ![w] = "asleep"]
          /\ UNCHANGED event
    /\ UNCHANGED <<sig, forgotten, portalVars, panicked>>

wake ==
    /\ event' = TRUE
    /\ registered' = NoOne
    /\ waiter' = IF registered \in Waiters THEN Woken(registered) ELSE waiter
    /\ UNCHANGED <<sig, forgotten, portalVars, panicked>>

RegistrationNext ==
    /\ ~panicked
    /\ \/ wake
       \/ \E w \in Waiters : Begin(w) \/ Cancel(w) \/ register(w)

-----------------------------------------------------------------------------
(* Portal.                                                                 *)

\* wait_once and wait_many up to their await, where the frame's own signal makes them
\* wait; a second waiter is a panic.
wait(w, kind) ==
    /\ running = NoOne
    /\ frame[w] = "none"
    /\ IF portal = "None"
       THEN portal' = w /\ frame' = [frame EXCEPT ![w] = kind] /\ UNCHANGED panicked
       ELSE panicked' = TRUE /\ UNCHANGED <<portal, frame>>
    /\ done' = done \ {w}
    /\ UNCHANGED <<running, waitVars>>

\* The rest of them, once the signal has woken the task: the bomb is defused.
resume(w) ==
    /\ running = NoOne
    /\ frame[w] # "none" /\ w \in done
    /\ frame' = [frame EXCEPT ![w] = "none"]
    /\ UNCHANGED <<portal, running, done, waitVars, panicked>>

\* Mutant: the bomb does not go off.
DropFrameQuietly(w) ==
    /\ running = NoOne
    /\ frame[w] # "none"
    /\ frame' = [frame EXCEPT ![w] = "none"]
    /\ UNCHANGED <<portal, running, done, waitVars, panicked>>

\* A pending future of the Portal is dropped: its DropBomb panics.
DropFrame(w) ==
    /\ running = NoOne
    /\ frame[w] # "none"
    /\ panicked' = TRUE
    /\ UNCHANGED <<portalVars, waitVars>>

\* call: nobody waits and the value is lost, or the function of the waiting frame runs,
\* or the function that runs has made the call.  wait_once leaves the Portal before its
\* function runs, so that a call from there is lost; wait_many makes it a panic.
call ==
    /\ \/ portal = "None" /\ UNCHANGED <<portalVars, panicked>>
       \/ /\ portal \in Waiters /\ frame[portal] = "once"
          /\ portal' = "None"
          /\ done' = done \cup {portal}
          /\ UNCHANGED <<running, frame, panicked>>
       \/ /\ portal \in Waiters /\ frame[portal] = "many"
          /\ portal' = "Running"
          /\ running' = portal
          /\ UNCHANGED <<frame, done, panicked>>
       \/ /\ portal = "Running"
          /\ panicked' = TRUE
          /\ UNCHANGED portalVars
    /\ UNCHANGED waitVars

\* The function of wait_many returns None and the frame waits on, or Some result.
FuncReturns ==
    /\ portal = "Running"
    /\ running' = NoOne
    /\ \/ portal' = running /\ UNCHANGED done
       \/ portal' = "None" /\ done' = done \cup {running}
    /\ UNCHANGED <<frame, waitVars, panicked>>

PortalNext ==
    /\ ~panicked
    /\ \/ call \/ FuncReturns
       \/ \E w \in Waiters : wait(w, "once") \/ wait(w, "many") \/ resume(w) \/ DropFrame(w)

-----------------------------------------------------------------------------
\* A task that sleeps on a Signal or a WakerRegistration is the one that the next signal
\* or wake wakes, whoever else waited, was cancelled or was displaced before, unless
\* `reset` has dropped its waker (signal.rs:39-69, waker.rs:20-41).
NoWaiterIsForgotten ==
    \A w \in Waiters :
        waiter[w] = "asleep" /\ w \notin forgotten => sig = w \/ registered = w

\* The pointer to a closure that a Portal keeps points into a live frame, which still
\* waits for its result; and every frame that waits is the one that the Portal calls, or
\* the one that runs (portal.rs:26-121).
PortalFrameLives ==
    /\ portal \in Waiters => frame[portal] # "none" /\ portal \notin done
    /\ \A w \in Waiters : frame[w] # "none" /\ w \notin done /\ ~panicked =>
          w \in {portal, running}
=============================================================================
