----------------------------- MODULE IrqDevice -----------------------------
(***************************************************************************)
(* What the interrupt-driven drivers of the repository have in common: a   *)
(* peripheral that raises an event, an interrupt that may or may not be    *)
(* enabled, a handler that wakes a task, and the future that the task      *)
(* polls.  This module declares their state and defines the mechanisms     *)
(* they share: the waker and the future of embassy/src/util, Peripheral of *)
(* embassy-extras and the interrupt controller.  The drivers extend it.    *)
(*                                                                         *)
(* A driver has two lanes, each with an operation at a time and a task     *)
(* that waits for it: reception and transmission, or two pins.  What an    *)
(* operation leaves behind, a running transfer or an event, is "stale" for *)
(* the next one and "own" for the one that caused it.                      *)
(*                                                                         *)
(* The interrupt line of a peripheral is a level: it is pending while the  *)
(* event is set and its interrupt enabled in the peripheral.               *)
(***************************************************************************)
EXTENDS Naturals

CONSTANTS
    Kinds,      \* the drivers of this instance
    Above       \* those whose task may run at a priority above the interrupt

VARIABLES
    kind,       \* the driver, fixed
    above,      \* the task can pre-empt the handler, fixed
    drv,        \* the driver's own state
    lane,       \* per lane, the fields of Blank
    nvic,       \* the interrupts that are enabled in the interrupt controller
    isr         \* the handler in progress

vars == <<kind, above, drv, lane, nvic, isr>>

Rx == 1
Tx == 2
Lanes == {Rx, Tx}
Irqs == 1..3

Idle == [irq |-> 0, at |-> "idle", l |-> 0, bits |-> {}]

Blank ==
    [fut |-> "none",      \* the future: none, new, made, set, ready, mid, asleep, drop, panic
     woken |-> FALSE,     \* its task was woken since the last poll began
     waker |-> FALSE,     \* its waker is where the handler finds it
     event |-> "off",     \* the peripheral's event
     inten |-> FALSE,     \* its interrupt is enabled in the peripheral
     dma |-> {},          \* the transfers in progress
     got |-> "own",       \* the event that completed the last operation
     clean |-> TRUE,      \* no operation was cancelled without tidying up
     started |-> FALSE,   \* EVENTS_RXSTARTED, EVENTS_TXSTARTED; a stream is taken
     stopping |-> FALSE,  \* the receiver or transmitter is coming to a stop; FOVR of the FIFO
     stopped |-> FALSE,   \* EVENTS_RXTO, EVENTS_TXSTOPPED; the FIFO was overrun in this receive
     stop_inten |-> FALSE,\* the interrupt of RXTO or TXSTOPPED is enabled
     level |-> FALSE,     \* the pin is high; the line is idle
     sense |-> "off",     \* what the pin is compared with, or triggered by
     want |-> "off",      \* what the operation waits for
     q |-> 0]             \* frames in a mailbox or queue

Set(l, r) == lane' = [lane EXCEPT ![l] = r]

\* The task is polled: it does not run while a handler of higher priority does.
TaskRuns == isr = Idle \/ above

\* A new operation: whatever is still there belongs to an earlier one.
Renew(r) ==
    [r EXCEPT !.dma = IF @ = {} THEN {} ELSE {"stale"},
              !.event = IF @ = "off" THEN "off" ELSE "stale",
              !.waker = FALSE, !.woken = FALSE, !.got = "own"]

\* The poll returns Pending: a task that was woken meanwhile is polled again.
Pending(r) == [r EXCEPT !.fut = IF r.woken THEN "ready" ELSE "asleep"]

Ready(r, cause) == [r EXCEPT !.fut = "none", !.want = "off", !.got = cause]

\* The future is dropped before it completed, and nothing is done about it.
Dropped(r) == [r EXCEPT !.fut = "none", !.want = "off", !.clean = FALSE]

Droppable(l) == TaskRuns /\ lane[l].fut \in {"ready", "asleep"}

-----------------------------------------------------------------------------
(* AtomicWaker, and wake_task through the waker.                           *)

\* AtomicWaker::register, with which a poll begins ...
Register(l) ==
    /\ TaskRuns
    /\ lane[l].fut = "ready"
    /\ Set(l, [lane[l] EXCEPT !.fut = "mid", !.waker = TRUE, !.woken = FALSE])
    /\ UNCHANGED <<kind, above, drv, nvic, isr>>

\* ... and AtomicWaker::wake.
Wake(r) ==
    IF r.waker THEN [r EXCEPT !.woken = TRUE, !.fut = IF @ = "asleep" THEN "ready" ELSE @] ELSE r

\* The executor may poll a task that nobody woke, for another future it waits for.
PollAgain(l) ==
    /\ lane[l].fut = "asleep"
    /\ Set(l, [lane[l] EXCEPT !.fut = "ready"])
    /\ UNCHANGED <<kind, above, drv, nvic, isr>>

-----------------------------------------------------------------------------
(* Peripheral::register_interrupt and its drop.                            *)

register_interrupt == nvic' = nvic \cup {1}

RemoveInterrupt == nvic' = nvic \ {1}

-----------------------------------------------------------------------------
(* wake_on_interrupt and InterruptFuture.                                  *)

wake_on_interrupt(l) ==
    /\ Set(l, Pending([lane[l] EXCEPT !.waker = TRUE]))
    /\ nvic' = nvic \cup {l}

\* InterruptFuture::new: no context yet, and the interrupt enabled.
NewInterruptFuture(irqs) == nvic' = nvic \cup irqs

DropInterruptFuture(irqs) == nvic' = nvic \ irqs

\* InterruptFuture::poll first stores the context ...
SetContext(l) == Register(l)

\* ... and is ready when one of the interrupts is masked, which only its handler does.
Interrupted(irqs) == ~ irqs \subseteq nvic

\* The interrupt is taken, and its handler begins with step `at` for lane l.
TakeInterrupt(i, at, l) ==
    /\ isr = Idle
    /\ i \in nvic
    /\ isr' = [irq |-> i, at |-> at, l |-> l, bits |-> {}]
    /\ UNCHANGED <<kind, above, drv, lane, nvic>>

Owner(i) == IF i = Tx THEN Tx ELSE Rx

\* irq_wake_handler wakes the task, if the context is set ...
HandlerWakes ==
    /\ isr.at = "wake_task"
    /\ Set(isr.l, [Wake(lane[isr.l]) EXCEPT
                     !.got = IF lane[isr.l].event = "off" THEN @ ELSE lane[isr.l].event])
    /\ isr' = [isr EXCEPT !.at = "mask"]
    /\ UNCHANGED <<kind, above, drv, nvic>>

\* ... and masks the interrupt.
HandlerMasks ==
    /\ isr.at = "mask"
    /\ nvic' = nvic \ {isr.irq}
    /\ isr' = Idle
    /\ UNCHANGED <<kind, above, drv, lane>>

irq_wake_handler == HandlerWakes \/ HandlerMasks
=============================================================================
