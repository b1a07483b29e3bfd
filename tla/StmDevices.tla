----------------------------- MODULE StmDevices -----------------------------
(***************************************************************************)
(* The drivers of embassy-stm32 that wait with an InterruptFuture:         *)
(* exti.rs, can.rs and f4/serial.rs.  An InterruptFuture knows nothing of  *)
(* the peripheral: it is ready when its interrupt was taken since it was   *)
(* made.  Each lane has an interrupt of its own; 3 is that of the USART.   *)
(*                                                                         *)
(* External: bxcan and the HAL's Transfer, which clears the flags of a     *)
(* stream when it is set up or freed and disables it when it is dropped.   *)
(***************************************************************************)
EXTENDS IrqDevice

\* InterruptFuture::new, the first of the steps of the three drivers.
MakeFuture(l, irqs) ==
    /\ TaskRuns
    /\ lane[l].fut = "new"
    /\ Set(l, [lane[l] EXCEPT !.fut = "made"])
    /\ NewInterruptFuture(irqs)
    /\ UNCHANGED <<kind, above, drv, isr>>

-----------------------------------------------------------------------------
(* ExtiPin.  `q` is the number of the pin, drv the family.                 *)

\* The interrupt of a pin of the F4 family, the same for every port ...
F4Interrupt(n) == CASE n < 5 -> n [] n \in 5..9 -> 5 [] OTHER -> 10

\* ... and of the L0 family.
L0Interrupt(n) == CASE n < 2 -> 0 [] n \in 2..3 -> 2 [] OTHER -> 4

PinInterrupt(n) == IF drv = "f4" THEN F4Interrupt(n) ELSE L0Interrupt(n)

\* ExtiPin::new owns the interrupt of its pin, so that no two pins share one.
ExtiNew(l, n) == \A m \in Lanes \ {l} : PinInterrupt(lane[m].q) # PinInterrupt(n)

\* The edge that an option or a level stands for.
EdgeOption(want) ==
    CASE want = "high" -> "rising" [] want = "low" -> "falling" [] OTHER -> want

Triggers(edge, option) == option \in {edge, "both"}

\* The pin changes; an edge that the line is triggered by sets its pending bit.  External.
ExtiEdge(l) ==
    LET edge == IF lane[l].level THEN "falling" ELSE "rising"
        wanted == lane[l].fut # "none" /\ Triggers(edge, EdgeOption(lane[l].want))
    IN /\ Set(l, [lane[l] EXCEPT
                    !.level = ~@,
                    !.event = IF ~Triggers(edge, lane[l].sense) THEN @
                              ELSE IF wanted THEN "own"
                              ELSE IF @ = "own" THEN @ ELSE "stale"])
       /\ UNCHANGED <<kind, above, drv, nvic, isr>>

\* wait_for_state and wait_for_edge clear the pending bit when they are called.
ExtiCall(l, want) ==
    /\ TaskRuns
    /\ lane[l].fut = "none"
    /\ Set(l, [Renew(lane[l]) EXCEPT
                 !.event = "off", !.want = want, !.fut = "new",
                 !.clean = @ /\ lane[l].sense \in {"off", EdgeOption(want)}])
    /\ UNCHANGED <<kind, above, drv, nvic, isr>>

wait_for_state(l, levels) == \E want \in levels : ExtiCall(l, want)
wait_for_edge(l, edges) == \E want \in edges : ExtiCall(l, want)

\* trigger_edge, when the future exists.
trigger_edge(l) ==
    /\ TaskRuns
    /\ lane[l].fut = "made"
    /\ Set(l, [lane[l] EXCEPT !.sense = EdgeOption(lane[l].want), !.fut = "set"])
    /\ UNCHANGED <<kind, above, drv, nvic, isr>>

LevelIsThere(l) ==
    \/ lane[l].want = "high" /\ lane[l].level
    \/ lane[l].want = "low" /\ ~lane[l].level

\* Mutant: the level is not looked at.
ExtiLevelIgnored(l) ==
    /\ TaskRuns
    /\ lane[l].fut = "set"
    /\ Set(l, [lane[l] EXCEPT !.fut = "ready"])
    /\ UNCHANGED <<kind, above, drv, nvic, isr>>

\* wait_for_state returns at once if the level is there already.
ExtiLevel(l) ==
    /\ TaskRuns
    /\ lane[l].fut = "set"
    /\ IF LevelIsThere(l)
       THEN Set(l, Ready(lane[l], "own")) /\ DropInterruptFuture({l})
       ELSE Set(l, [lane[l] EXCEPT !.fut = "ready"]) /\ UNCHANGED nvic
    /\ UNCHANGED <<kind, above, drv, isr>>

\* The future is polled; when it is ready the pending bit is cleared.
ExtiCheck(l) ==
    /\ TaskRuns
    /\ lane[l].fut = "mid"
    /\ IF Interrupted({l})
       THEN /\ Set(l, [Ready(lane[l], lane[l].got) EXCEPT !.event = "off"])
            /\ DropInterruptFuture({l})
       ELSE Set(l, Pending(lane[l])) /\ UNCHANGED nvic
    /\ UNCHANGED <<kind, above, drv, isr>>

CancelFuture(l, irqs) ==
    /\ Droppable(l)
    /\ Set(l, Dropped(lane[l]))
    /\ DropInterruptFuture(irqs)
    /\ UNCHANGED <<kind, above, drv, isr>>

ExtiLine(i) ==
    /\ i \in Lanes
    /\ \E l \in Lanes : lane[l].event # "off" /\ PinInterrupt(lane[l].q) = PinInterrupt(lane[i].q)

-----------------------------------------------------------------------------
(* Can.  `q` counts the frames in the mailboxes and in the receive FIFO,   *)
(* `started` is set while the frame of this transmit is in its mailbox;    *)
(* the event of Tx is RQCP, that of Rx is set while the FIFO has a frame.  *)

Mailboxes == 3

\* transmit makes the future ...
CanTransmit ==
    /\ TaskRuns
    /\ \A m \in Lanes : lane[m].fut = "none"
    /\ Set(Tx, [Renew(lane[Tx]) EXCEPT !.fut = "new", !.started = FALSE])
    /\ UNCHANGED <<kind, above, drv, nvic, isr>>

\* ... then hands over the frame and unwraps the answer.  RQCP of the mailbox it is put
\* into is reset.
CanRequest ==
    /\ TaskRuns
    /\ lane[Tx].fut = "made"
    /\ IF lane[Tx].q = Mailboxes
       THEN Set(Tx, [lane[Tx] EXCEPT !.fut = "panic"])
       ELSE \E event \in {"off", lane[Tx].event} :
              Set(Tx, [lane[Tx] EXCEPT !.fut = "ready", !.q = @ + 1, !.started = TRUE,
                                       !.event = event])
    /\ UNCHANGED <<kind, above, drv, nvic, isr>>

\* A frame is on the bus: the one of this transmit, or an earlier one.  External.
FrameSent ==
    LET mine == IF lane[Tx].started THEN 1 ELSE 0
    IN /\ lane[Tx].q > 0
       /\ \/ /\ mine = 1
             /\ Set(Tx, [lane[Tx] EXCEPT !.q = @ - 1, !.started = FALSE, !.event = "own"])
          \/ /\ lane[Tx].q > mine
             /\ Set(Tx, [lane[Tx] EXCEPT !.q = @ - 1,
                                         !.event = IF @ = "own" THEN @ ELSE "stale"])
       /\ UNCHANGED <<kind, above, drv, nvic, isr>>

CanTransmitCheck ==
    /\ TaskRuns
    /\ lane[Tx].fut = "mid"
    /\ IF Interrupted({Tx})
       THEN Set(Tx, Ready(lane[Tx], lane[Tx].got)) /\ DropInterruptFuture({Tx})
       ELSE Set(Tx, Pending(lane[Tx])) /\ UNCHANGED nvic
    /\ UNCHANGED <<kind, above, drv, isr>>

\* receive makes the future ...
CanReceive ==
    /\ TaskRuns
    /\ \A m \in Lanes : lane[m].fut = "none"
    /\ Set(Rx, [lane[Rx] EXCEPT !.fut = "new", !.waker = FALSE, !.woken = FALSE, !.stopped = FALSE])
    /\ UNCHANGED <<kind, above, drv, nvic, isr>>

\* A frame is received, or overruns the FIFO.  Bounds: 2 frames wait at a time, and the
\* FIFO is overrun once in a receive.  External.
FrameArrives ==
    /\ \/ /\ lane[Rx].q < 2
          /\ Set(Rx, [lane[Rx] EXCEPT !.q = @ + 1, !.event = "own"])
       \/ /\ lane[Rx].q = 2 /\ ~lane[Rx].stopped
          /\ Set(Rx, [lane[Rx] EXCEPT !.stopping = TRUE, !.stopped = TRUE])
    /\ UNCHANGED <<kind, above, drv, nvic, isr>>

\* ... takes a frame if there is one.  Otherwise, and when bxcan reports an overrun, which
\* resets FOVR, it waits.
CanTake ==
    /\ TaskRuns
    /\ lane[Rx].fut = "made"
    /\ IF lane[Rx].q > 0 /\ ~lane[Rx].stopping
       THEN /\ Set(Rx, [Ready(lane[Rx], "own") EXCEPT
                          !.q = @ - 1, !.event = IF lane[Rx].q = 1 THEN "off" ELSE @])
            /\ DropInterruptFuture({Rx})
       ELSE Set(Rx, [lane[Rx] EXCEPT !.fut = "ready", !.stopping = FALSE]) /\ UNCHANGED nvic
    /\ UNCHANGED <<kind, above, drv, isr>>

\* When the future is ready the loop makes another one.
CanReceiveCheck ==
    /\ TaskRuns
    /\ lane[Rx].fut = "mid"
    /\ IF Interrupted({Rx})
       THEN Set(Rx, [lane[Rx] EXCEPT !.fut = "new", !.waker = FALSE])
            /\ DropInterruptFuture({Rx})
       ELSE Set(Rx, Pending(lane[Rx])) /\ UNCHANGED nvic
    /\ UNCHANGED <<kind, above, drv, isr>>

CanLine(i) == i \in Lanes /\ lane[i].event # "off"

-----------------------------------------------------------------------------
(* Serial.  `started` is set while the stream of a lane is taken, drv is   *)
(* "gone" while the USART is; `level` is the idle flag of the USART.       *)

SerialIrqs(l) == IF lane[l].want = "idle" THEN {l, 3} ELSE {l}

\* read, write and read_until_idle take the stream and the USART, which panics if
\* either is missing, and set up the transfer.
SerialTake(l, want) ==
    /\ TaskRuns
    /\ \A m \in Lanes : lane[m].fut = "none"
    /\ IF lane[l].started \/ drv = "gone"
       THEN Set(l, [lane[l] EXCEPT !.fut = "panic"]) /\ UNCHANGED drv
       ELSE /\ Set(l, [Renew(lane[l]) EXCEPT !.fut = "new", !.started = TRUE, !.event = "off",
                                             !.want = want, !.level = FALSE])
            /\ drv' = "gone"
    /\ UNCHANGED <<kind, above, nvic, isr>>

SerialRead == SerialTake(Rx, "full")
SerialWrite == SerialTake(Tx, "full")
SerialReadUntilIdle == SerialTake(Rx, "idle")

SerialStart(l) ==
    /\ TaskRuns
    /\ lane[l].fut = "made"
    /\ Set(l, [lane[l] EXCEPT !.fut = "ready", !.dma = {"own"}])
    /\ UNCHANGED <<kind, above, drv, nvic, isr>>

\* The transfer is complete, or the line falls idle.  External.
SerialEnds(l) ==
    /\ lane[l].dma # {}
    /\ Set(l, [lane[l] EXCEPT !.dma = {}, !.event = "own"])
    /\ UNCHANGED <<kind, above, drv, nvic, isr>>

SerialFallsIdle ==
    /\ lane[Rx].dma # {} /\ lane[Rx].want = "idle"
    /\ ~lane[Rx].level
    /\ Set(Rx, [lane[Rx] EXCEPT !.level = TRUE])
    /\ UNCHANGED <<kind, above, drv, nvic, isr>>

\* Mutant: the USART is not put back.
SerialCheckKeeps(l) ==
    /\ TaskRuns
    /\ lane[l].fut = "mid"
    /\ IF Interrupted(SerialIrqs(l))
       THEN /\ Set(l, [Ready(lane[l], lane[l].got) EXCEPT !.started = FALSE, !.event = "off",
                                                          !.dma = {}])
            /\ DropInterruptFuture(SerialIrqs(l))
       ELSE Set(l, Pending(lane[l])) /\ UNCHANGED nvic
    /\ UNCHANGED <<kind, above, drv, isr>>

\* The future, or one of the two, is ready: the transfer is freed, which ends it, and
\* the stream and the USART are put back.
SerialCheck(l) ==
    /\ TaskRuns
    /\ lane[l].fut = "mid"
    /\ IF Interrupted(SerialIrqs(l))
       THEN /\ Set(l, [Ready(lane[l], lane[l].got) EXCEPT !.started = FALSE, !.event = "off",
                                                          !.dma = {}])
            /\ drv' = "up"
            /\ DropInterruptFuture(SerialIrqs(l))
       ELSE Set(l, Pending(lane[l])) /\ UNCHANGED <<drv, nvic>>
    /\ UNCHANGED <<kind, above, isr>>

\* The future is dropped with the Transfer in it, and the stream and USART with that.
SerialCancel(l) ==
    /\ Droppable(l)
    /\ Set(l, [Dropped(lane[l]) EXCEPT !.dma = {}])
    /\ DropInterruptFuture(SerialIrqs(l))
    /\ UNCHANGED <<kind, above, drv, isr>>

SerialLine(i) ==
    \/ i \in Lanes /\ lane[i].event # "off"
    \/ i = 3 /\ lane[Rx].level /\ lane[Rx].started
=============================================================================
