------------------------------- MODULE NrfDma -------------------------------
(***************************************************************************)
(* The DMA drivers of embassy-nrf: uarte.rs, spim.rs, saadc.rs, qspi.rs.   *)
(*                                                                         *)
(* Uarte waits with an AtomicWaker per direction, stops a transfer whose   *)
(* future is dropped, and waits in its own drop for the peripheral to come *)
(* to a stop.  The others wait with wake_on_interrupt; Spim and OneShot    *)
(* drop the future of a running transfer without a word, Qspi panics.      *)
(*                                                                         *)
(* Pins, clock rates and buffers are left out but for whose buffer the DMA *)
(* uses.  Arguments that the drivers refuse change nothing.                *)
(***************************************************************************)
EXTENDS IrqDevice

\* The peripheral ends a transfer.  External.
TransferEnds(l) ==
    \E k \in lane[l].dma :
        /\ Set(l, [lane[l] EXCEPT !.dma = @ \ {k}, !.event = k])
        /\ UNCHANGED <<kind, above, drv, nvic, isr>>

\* The peripheral has come to a stop after STOPRX or STOPTX.  External.
Stops(l) ==
    /\ lane[l].stopping
    /\ lane[l].dma = {}
    /\ Set(l, [lane[l] EXCEPT !.stopping = FALSE, !.stopped = TRUE])
    /\ UNCHANGED <<kind, above, drv, nvic, isr>>

\* A transfer is set up: the event is reset and its interrupt enabled before it starts.
Start(l) == [Renew(lane[l]) EXCEPT !.event = "off", !.inten = TRUE, !.dma = @ \cup {"own"},
                                   !.fut = "ready"]

-----------------------------------------------------------------------------
(* Uarte.                                                                  *)

\* read and write up to their first poll.
UarteStart(l) ==
    /\ drv = "up" /\ TaskRuns
    /\ lane[l].fut = "none"
    /\ Set(l, [Start(l) EXCEPT !.started = TRUE])
    /\ register_interrupt
    /\ UNCHANGED <<kind, above, drv, isr>>

UarteRead(l) == l = Rx /\ UarteStart(l)
UarteWrite(l) == l = Tx /\ UarteStart(l)

\* Mutant: a read that completes leaves EVENTS_RXSTARTED for drop to find.
UarteCheckLeaves(l) ==
    /\ TaskRuns
    /\ lane[l].fut = "mid"
    /\ Set(l, IF lane[l].event # "off" THEN Ready(lane[l], lane[l].event) ELSE Pending(lane[l]))
    /\ UNCHANGED <<kind, above, drv, nvic, isr>>

\* poll_fn looks at the event after it has registered the waker.
UarteCheck(l) ==
    /\ TaskRuns
    /\ lane[l].fut = "mid"
    /\ Set(l, IF lane[l].event # "off"
              THEN [Ready(lane[l], lane[l].event) EXCEPT !.started = FALSE]
              ELSE Pending(lane[l]))
    /\ UNCHANGED <<kind, above, drv, nvic, isr>>

\* Mutant: the OnDrop of read does not wait for the transfer to end.
UarteCancelNoWait(l) ==
    /\ Droppable(l)
    /\ Set(l, [lane[l] EXCEPT !.fut = "none", !.inten = FALSE, !.stopped = FALSE,
                              !.stopping = TRUE])
    /\ UNCHANGED <<kind, above, drv, nvic, isr>>

\* The future is dropped: its OnDrop stops the transfer ...
UarteCancel(l) ==
    /\ Droppable(l)
    /\ Set(l, [lane[l] EXCEPT !.fut = "drop", !.inten = FALSE, !.stopped = FALSE,
                              !.stopping = TRUE])
    /\ UNCHANGED <<kind, above, drv, nvic, isr>>

\* ... and spins until it has ended.
UarteCancelled(l) ==
    /\ TaskRuns
    /\ lane[l].fut = "drop"
    /\ lane[l].event # "off"
    /\ Set(l, [lane[l] EXCEPT !.fut = "none"])
    /\ UNCHANGED <<kind, above, drv, nvic, isr>>

\* Mutant: drop does not enable the interrupts that are to end its WFE.
UarteDropQuiet ==
    /\ drv = "up" /\ TaskRuns
    /\ \A l \in Lanes : lane[l].fut = "none"
    /\ drv' = "dropping"
    /\ UNCHANGED <<kind, above, lane, nvic, isr>>

\* Uarte::drop will wait for the directions that were stopped midway, and enables the
\* interrupts of RXTO and TXSTOPPED ...
UarteDrop ==
    /\ drv = "up" /\ TaskRuns
    /\ \A l \in Lanes : lane[l].fut = "none"
    /\ drv' = "dropping"
    /\ lane' = [l \in Lanes |-> [lane[l] EXCEPT !.stop_inten = TRUE]]
    /\ UNCHANGED <<kind, above, nvic, isr>>

\* ... goes to sleep in WFE while one of them is still running ...
UarteDropSleeps ==
    /\ drv = "dropping" /\ TaskRuns
    /\ \E l \in Lanes : lane[l].started /\ ~lane[l].stopped
    /\ drv' = "wfe"
    /\ UNCHANGED <<kind, above, lane, nvic, isr>>

\* ... which something else may end too ...
UarteDropWakes ==
    /\ drv = "wfe" /\ TaskRuns
    /\ drv' = "dropping"
    /\ UNCHANGED <<kind, above, lane, nvic, isr>>

\* ... and then disables the peripheral and, with the Peripheral in it, the interrupt.
UarteDropped ==
    /\ drv = "dropping" /\ TaskRuns
    /\ \A l \in Lanes : lane[l].started => lane[l].stopped
    /\ drv' = "gone"
    /\ RemoveInterrupt
    /\ UNCHANGED <<kind, above, lane, isr>>

\* Uarte::new on a peripheral that is disabled: no interrupt is enabled, and what drop
\* goes by is reset.
UarteNew ==
    /\ drv = "gone"
    /\ drv' = "up"
    /\ lane' = [l \in Lanes |-> [lane[l] EXCEPT !.inten = FALSE, !.stop_inten = FALSE,
                                                !.started = FALSE]]
    /\ UNCHANGED <<kind, above, nvic, isr>>

\* Mutant: of two events only the first is served.
NextLane1(l, at) == Idle

\* on_interrupt looks at one direction after the other, for the end of its transfer and
\* then for its stop.
NextLane(l, at) ==
    IF l = Rx THEN [isr EXCEPT !.l = Tx, !.at = at]
    ELSE IF at = "wake" THEN [isr EXCEPT !.l = Rx, !.at = "stop"]
    ELSE Idle

\* on_interrupt wakes the task of a direction whose event is set ...
UarteHandlerWakes ==
    /\ isr.at = "wake"
    /\ IF lane[isr.l].event # "off"
       THEN /\ Set(isr.l, Wake(lane[isr.l]))
            /\ isr' = [isr EXCEPT !.at = "intenclr"]
       ELSE isr' = NextLane(isr.l, "wake") /\ UNCHANGED lane
    /\ UNCHANGED <<kind, above, drv, nvic>>

\* ... and disables its interrupt in the peripheral ...
UarteHandlerMasks ==
    /\ isr.at = "intenclr"
    /\ Set(isr.l, [lane[isr.l] EXCEPT !.inten = FALSE])
    /\ isr' = NextLane(isr.l, "wake")
    /\ UNCHANGED <<kind, above, drv, nvic>>

\* ... and that of the stop of a direction that has stopped.  The return of an interrupt
\* sets the event register, so that a WFE, begun or about to begin, ends.
UarteHandlerStops ==
    /\ isr.at = "stop"
    /\ Set(isr.l, [lane[isr.l] EXCEPT !.stop_inten = @ /\ ~lane[isr.l].stopped])
    /\ isr' = NextLane(isr.l, "stop")
    /\ drv' = IF isr' = Idle /\ drv = "wfe" THEN "dropping" ELSE drv
    /\ UNCHANGED <<kind, above, nvic>>

UarteLine(i) ==
    /\ i = 1
    /\ \E l \in Lanes :
         \/ lane[l].event # "off" /\ lane[l].inten
         \/ lane[l].stopped /\ lane[l].stop_inten

-----------------------------------------------------------------------------
(* Spim, OneShot of the SAADC and Qspi, on one lane.                       *)

\* The poll_fn of all three takes the event ...
TakeEvent(l) ==
    /\ TaskRuns
    /\ lane[l].fut = "ready"
    /\ Set(l, IF lane[l].event # "off"
              THEN [Ready(lane[l], lane[l].event) EXCEPT !.event = "off"]
              ELSE [lane[l] EXCEPT !.fut = "mid", !.woken = FALSE])
    /\ UNCHANGED <<kind, above, drv, nvic, isr>>

\* ... or asks for the interrupt.
AwaitEvent(l) ==
    /\ TaskRuns
    /\ lane[l].fut = "mid"
    /\ wake_on_interrupt(l)
    /\ UNCHANGED <<kind, above, drv, isr>>

StartTransfer(l) ==
    /\ TaskRuns
    /\ drv = "up"
    /\ lane[l].fut = "none"
    /\ Set(l, Start(l))
    /\ UNCHANGED <<kind, above, drv, nvic, isr>>

\* The future is dropped and the transfer goes on.
AbandonTransfer(l) ==
    /\ Droppable(l)
    /\ Set(l, Dropped(lane[l]))
    /\ UNCHANGED <<kind, above, drv, nvic, isr>>

\* Spim::new disables the interrupts of the peripheral.  Spim has no drop: one may be made
\* while the transfer of the one before goes on.
SpimNew ==
    /\ TaskRuns
    /\ lane[Rx].fut = "none"
    /\ drv' = "up"
    /\ Set(Rx, [lane[Rx] EXCEPT !.inten = FALSE])
    /\ UNCHANGED <<kind, above, nvic, isr>>

\* Spim::read_write, and read and write, which call it.
SpimReadWrite == StartTransfer(Rx)
SpimPoll == TakeEvent(Rx) \/ AwaitEvent(Rx)

\* OneShot::new enables the peripheral and disables its interrupts.
SaadcNew ==
    /\ TaskRuns
    /\ drv = "gone" /\ lane[Rx].fut = "none"
    /\ drv' = "up"
    /\ Set(Rx, [lane[Rx] EXCEPT !.inten = FALSE])
    /\ UNCHANGED <<kind, above, nvic, isr>>

\* OneShot::sample
SaadcSample == StartTransfer(Rx)
SaadcPoll == TakeEvent(Rx) \/ AwaitEvent(Rx)

\* OneShot::drop disables the peripheral.
SaadcDrop ==
    /\ TaskRuns
    /\ drv = "up"
    /\ lane[Rx].fut = "none"
    /\ drv' = "gone"
    /\ UNCHANGED <<kind, above, lane, nvic, isr>>

\* Qspi::new activates the peripheral, whose interrupt an earlier operation may have left
\* enabled ...
QspiNew ==
    /\ TaskRuns
    /\ drv \in {"gone", "up"}
    /\ lane[Rx].fut = "none"
    /\ drv' = "activating"
    /\ Set(Rx, [lane[Rx] EXCEPT !.event = "off"])
    /\ UNCHANGED <<kind, above, nvic, isr>>

\* The peripheral is ready.  External.
QspiReady ==
    /\ drv = "activating"
    /\ lane[Rx].event = "off"
    /\ Set(Rx, [lane[Rx] EXCEPT !.event = "own"])
    /\ UNCHANGED <<kind, above, drv, nvic, isr>>

\* ... spins until it is ready, and takes the event.
QspiActivated ==
    /\ TaskRuns
    /\ drv = "activating"
    /\ lane[Rx].event # "off"
    /\ drv' = "up"
    /\ Set(Rx, [lane[Rx] EXCEPT !.event = "off"])
    /\ UNCHANGED <<kind, above, nvic, isr>>

\* custom_instruction, read, write and erase, under a DropBomb each.
QspiCustomInstruction == StartTransfer(Rx)
QspiRead == StartTransfer(Rx)
QspiWrite == StartTransfer(Rx)
QspiErase == StartTransfer(Rx)

\* wait_ready
QspiPoll == TakeEvent(Rx) \/ AwaitEvent(Rx)

\* The future is dropped: DropBomb::drop panics, and the transfer goes on.
QspiCancel ==
    /\ Droppable(Rx)
    /\ Set(Rx, [Dropped(lane[Rx]) EXCEPT !.fut = "panic"])
    /\ UNCHANGED <<kind, above, drv, nvic, isr>>

\* sleep deactivates the peripheral.  Only Qspi::new activates it again, and the caller
\* does not use it before.
QspiSleep ==
    /\ TaskRuns
    /\ drv = "up"
    /\ lane[Rx].fut = "none"
    /\ drv' = "gone"
    /\ UNCHANGED <<kind, above, lane, nvic, isr>>

EventLine(i) == i = Rx /\ lane[Rx].event # "off" /\ lane[Rx].inten
=============================================================================
