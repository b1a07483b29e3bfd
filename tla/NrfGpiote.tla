------------------------------ MODULE NrfGpiote ------------------------------
(***************************************************************************)
(* embassy-nrf/src/gpiote.rs: InputChannel::wait on a GPIOTE channel, and  *)
(* PortInput, which waits for a level by the sense mechanism of the pins.  *)
(* One interrupt and one handler serve both.  The lanes are two channels,  *)
(* or two pins of a port.                                                  *)
(*                                                                         *)
(* External: the peripheral, in particular that EVENTS_PORT is raised when *)
(* the first bit of LATCH is set, and again when some bits of LATCH are    *)
(* cleared while others are set.  drv is "event" while EVENTS_PORT is set. *)
(***************************************************************************)
EXTENDS IrqDevice

-----------------------------------------------------------------------------
(* InputChannel.  A lane is configured while its sense is "edge".          *)

\* InputChannel::new
ChannelNew(l) ==
    /\ TaskRuns
    /\ lane[l].sense = "off"
    /\ Set(l, [lane[l] EXCEPT !.sense = "edge", !.event = "off"])
    /\ UNCHANGED <<kind, above, drv, nvic, isr>>

\* InputChannel::drop
ChannelDrop(l) ==
    /\ TaskRuns
    /\ lane[l].sense = "edge" /\ lane[l].fut = "none"
    /\ Set(l, [lane[l] EXCEPT !.sense = "off", !.inten = FALSE])
    /\ UNCHANGED <<kind, above, drv, nvic, isr>>

\* The edge that the channel is configured for.  External.
ChannelEdge(l) ==
    /\ lane[l].sense = "edge"
    /\ lane[l].event = "off"
    /\ Set(l, [lane[l] EXCEPT !.event = "own"])
    /\ UNCHANGED <<kind, above, drv, nvic, isr>>

\* Mutant: wait enables the interrupt and leaves the event of an earlier edge.
ChannelWaitNoReset(l) ==
    /\ TaskRuns
    /\ lane[l].sense = "edge" /\ lane[l].fut = "none"
    /\ Set(l, [Renew(lane[l]) EXCEPT !.inten = TRUE, !.fut = "ready"])
    /\ UNCHANGED <<kind, above, drv, nvic, isr>>

\* wait up to its first poll.
ChannelWait(l) ==
    /\ TaskRuns
    /\ lane[l].sense = "edge" /\ lane[l].fut = "none"
    /\ Set(l, [Renew(lane[l]) EXCEPT !.event = "off", !.inten = TRUE, !.fut = "ready"])
    /\ UNCHANGED <<kind, above, drv, nvic, isr>>

\* poll_fn looks at the event after it has registered the waker.
ChannelCheck(l) ==
    /\ TaskRuns
    /\ lane[l].fut = "mid"
    /\ Set(l, IF lane[l].event # "off" THEN Ready(lane[l], lane[l].event) ELSE Pending(lane[l]))
    /\ UNCHANGED <<kind, above, drv, nvic, isr>>

\* The future of wait is dropped.
ChannelCancel(l) ==
    /\ Droppable(l)
    /\ Set(l, [lane[l] EXCEPT !.fut = "none"])
    /\ UNCHANGED <<kind, above, drv, nvic, isr>>

NextChannel == IF isr.l = Rx THEN [isr EXCEPT !.l = Tx, !.at = "channel"] ELSE Idle

\* on_irq, a channel after the other: if its event is set ...
ChannelHandlerReads ==
    /\ isr.at = "channel"
    /\ isr' = IF lane[isr.l].event # "off" THEN [isr EXCEPT !.at = "channel_mask"] ELSE NextChannel
    /\ UNCHANGED <<kind, above, drv, lane, nvic>>

\* ... it disables the channel's interrupt ...
ChannelHandlerMasks ==
    /\ isr.at = "channel_mask"
    /\ Set(isr.l, [lane[isr.l] EXCEPT !.inten = FALSE])
    /\ isr' = [isr EXCEPT !.at = "channel_wake"]
    /\ UNCHANGED <<kind, above, drv, nvic>>

\* ... and wakes its task.
ChannelHandlerWakes ==
    /\ isr.at = "channel_wake"
    /\ Set(isr.l, Wake(lane[isr.l]))
    /\ isr' = NextChannel
    /\ UNCHANGED <<kind, above, drv, nvic>>

ChannelLine(i) == i = 1 /\ \E l \in Lanes : lane[l].event # "off" /\ lane[l].inten

-----------------------------------------------------------------------------
(* PortInput.  `event` is the pin's bit of LATCH.                          *)

Matches(l) == lane[l].sense # "off" /\ lane[l].level = (lane[l].sense = "high")

\* A pin changes.  External.
PinChanges(l) ==
    /\ Set(l, [lane[l] EXCEPT !.level = ~@])
    /\ UNCHANGED <<kind, above, drv, nvic, isr>>

\* The pin is at the level it is compared with.  External.
PinLatches(l) ==
    /\ Matches(l)
    /\ lane[l].event = "off"
    /\ Set(l, [lane[l] EXCEPT !.event = "own"])
    /\ drv' = IF \A m \in Lanes : lane[m].event = "off" THEN "event" ELSE drv
    /\ UNCHANGED <<kind, above, nvic, isr>>

\* wait_for_high and wait_for_low: the comparison begins with the call.
wait_for(l, want) ==
    /\ TaskRuns
    /\ lane[l].fut = "none"
    /\ Set(l, [Renew(lane[l]) EXCEPT !.sense = want, !.fut = "ready"])
    /\ UNCHANGED <<kind, above, drv, nvic, isr>>

wait_for_high(l) == wait_for(l, "high")
wait_for_low(l) == wait_for(l, "low")

\* PortInputFuture::poll is ready when the handler has stopped the comparison.
PortCheck(l) ==
    /\ TaskRuns
    /\ lane[l].fut = "mid"
    /\ Set(l, IF lane[l].sense = "off" THEN Ready(lane[l], lane[l].got) ELSE Pending(lane[l]))
    /\ UNCHANGED <<kind, above, drv, nvic, isr>>

\* PortInputFuture::drop
PortCancel(l) ==
    /\ Droppable(l)
    /\ Set(l, [Dropped(lane[l]) EXCEPT !.sense = "off"])
    /\ UNCHANGED <<kind, above, drv, nvic, isr>>

\* on_irq resets EVENTS_PORT ...
PortHandlerResets ==
    /\ isr.at = "port"
    /\ drv' = "up"
    /\ isr' = [isr EXCEPT !.at = "latch"]
    /\ UNCHANGED <<kind, above, lane, nvic>>

\* ... reads LATCH ...
PortHandlerReads ==
    /\ isr.at = "latch"
    /\ isr' = [isr EXCEPT !.at = "sense", !.l = Rx,
                          !.bits = {l \in Lanes : lane[l].event # "off"}]
    /\ UNCHANGED <<kind, above, drv, lane, nvic>>

\* ... for every bit of it, as BitIter enumerates them, stops the comparison ...
PortHandlerSense ==
    /\ isr.at = "sense"
    /\ IF isr.l \in isr.bits
       THEN /\ Set(isr.l, [lane[isr.l] EXCEPT
                             !.sense = "off",
                             !.got = IF Matches(isr.l) THEN "own" ELSE lane[isr.l].event])
            /\ isr' = [isr EXCEPT !.at = "sense_wake"]
       ELSE /\ isr' = IF isr.l = Rx THEN [isr EXCEPT !.l = Tx] ELSE [isr EXCEPT !.at = "clear"]
            /\ UNCHANGED lane
    /\ UNCHANGED <<kind, above, drv, nvic>>

\* ... and wakes the task ...
PortHandlerWakes ==
    /\ isr.at = "sense_wake"
    /\ Set(isr.l, Wake(lane[isr.l]))
    /\ isr' = IF isr.l = Rx THEN [isr EXCEPT !.l = Tx, !.at = "sense"]
                            ELSE [isr EXCEPT !.at = "clear"]
    /\ UNCHANGED <<kind, above, drv, nvic>>

\* ... and clears the bits that it has read.
PortHandlerClears ==
    /\ isr.at = "clear"
    /\ lane' = [l \in Lanes |-> IF l \in isr.bits THEN [lane[l] EXCEPT !.event = "off"]
                                                  ELSE lane[l]]
    /\ drv' = IF \E l \in Lanes : lane'[l].event # "off" THEN "event" ELSE drv
    /\ isr' = Idle
    /\ UNCHANGED <<kind, above, nvic>>

PortLine(i) == i = 1 /\ drv = "event"
=============================================================================
