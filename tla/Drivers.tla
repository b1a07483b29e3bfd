------------------------------ MODULE Drivers ------------------------------
(***************************************************************************)
(* The interrupt-driven drivers together.  A behaviour is one of a single  *)
(* driver, chosen in the initial state; what is asked of them is the same. *)
(***************************************************************************)
EXTENDS NrfDma, NrfGpiote, StmDevices

DmaKinds == {"uarte", "spim", "saadc", "qspi"}
GpioteKinds == {"channel", "port"}
FutureKinds == {"exti", "can", "serial"}

\* Only a task that waits for a level may run above the interrupt.  The other handlers do
\* not stand it: they wake the task before they mask the interrupt (uarte.rs:145,
\* signal.rs:95), or mask the interrupt that the task has enabled since they looked at the
\* event (gpiote.rs:80-81), and the task sleeps on.
ASSUME DriversAssumption ==
    /\ Kinds \subseteq DmaKinds \cup GpioteKinds \cup FutureKinds
    /\ Above \subseteq {"port"}

\* The pins of the instances of ExtiPin: neighbours that share no interrupt.
ExtiPins == IF drv = "f4" THEN {4, 5} ELSE {1, 2}

\* initialize enables the interrupt of GPIOTE; the others are enabled by their first
\* operation.  The DMA drivers are yet to be made by their new.
Init ==
    /\ kind \in Kinds
    /\ above = (kind \in Above)
    /\ drv \in CASE kind = "exti" -> {"f4", "l0"} [] kind \in DmaKinds -> {"gone"} [] OTHER -> {"up"}
    /\ nvic = IF kind \in GpioteKinds THEN {1} ELSE {}
    /\ isr = Idle
    /\ IF kind = "exti"
       THEN \E a, b \in ExtiPins :
              /\ a <= b
              /\ lane = [l \in Lanes |-> [Blank EXCEPT !.q = IF l = Rx THEN a ELSE b]]
              /\ ExtiNew(Rx, a)
       ELSE lane = [l \in Lanes |-> Blank]

-----------------------------------------------------------------------------

UarteTask(l) == Register(l) \/ UarteCheck(l) \/ UarteCancelled(l)
UarteUser(l) ==
    UarteRead(l) \/ UarteWrite(l) \/ UarteCancel(l) \/ UarteDrop \/ UarteDropWakes \/ UarteNew
UarteHandler == UarteHandlerWakes \/ UarteHandlerMasks \/ UarteHandlerStops

ChannelTask(l) == Register(l) \/ ChannelCheck(l)
ChannelUser(l) == ChannelNew(l) \/ ChannelDrop(l) \/ ChannelWait(l) \/ ChannelCancel(l) \/ ChannelEdge(l)
ChannelHandler == ChannelHandlerReads \/ ChannelHandlerMasks \/ ChannelHandlerWakes

\* Bound: the second pin is there for what two pins do to each other; it waits for one
\* level only and is not cancelled.
PortTask(l) == Register(l) \/ PortCheck(l)
PortUser(l) ==
    \/ wait_for_high(l)
    \/ PinChanges(l)
    \/ l = Rx /\ (wait_for_low(l) \/ PortCancel(l))
PortHandler == PortHandlerResets \/ PortHandlerReads \/ PortHandlerSense \/ PortHandlerWakes \/ PortHandlerClears

ExtiTask(l) == MakeFuture(l, {l}) \/ trigger_edge(l) \/ ExtiLevel(l) \/ SetContext(l) \/ ExtiCheck(l)

\* Bound: the second pin waits for a rising edge only, is not cancelled and changes only
\* while it is waited for; the first one waits for another choice in each family.
ExtiUser(l) ==
    \/ l = Rx /\ drv = "f4" /\ (wait_for_state(l, {"high"}) \/ wait_for_edge(l, {"both"}))
    \/ l = Rx /\ drv = "l0" /\ (wait_for_state(l, {"low"}) \/ wait_for_edge(l, {"falling"}))
    \/ l = Rx /\ CancelFuture(l, {l})
    \/ l = Tx /\ wait_for_edge(l, {"rising"})
    \/ (l = Rx \/ lane[l].fut # "none") /\ ExtiEdge(l)

CanTask(l) ==
    \/ MakeFuture(l, {l}) \/ SetContext(l)
    \/ l = Tx /\ (CanRequest \/ CanTransmitCheck)
    \/ l = Rx /\ (CanTake \/ CanReceiveCheck)
CanUser(l) ==
    \/ CancelFuture(l, {l})
    \/ l = Tx /\ CanTransmit
    \/ l = Rx /\ (CanReceive \/ FrameArrives)

SerialTask(l) == MakeFuture(l, SerialIrqs(l)) \/ SerialStart(l) \/ SetContext(l) \/ SerialCheck(l)
SerialUser(l) ==
    \/ SerialCancel(l)
    \/ l = Rx /\ (SerialRead \/ SerialReadUntilIdle \/ SerialFallsIdle)
    \/ l = Tx /\ SerialWrite

\* What the caller and the outside world may do.  Bound: only one of the tasks is polled
\* without having been woken.
User(l) ==
    \/ kind = "uarte" /\ UarteUser(l)
    \/ kind = "spim" /\ l = Rx /\ (SpimNew \/ SpimReadWrite \/ AbandonTransfer(Rx))
    \/ kind = "saadc" /\ l = Rx /\ (SaadcNew \/ SaadcSample \/ AbandonTransfer(Rx) \/ SaadcDrop)
    \/ kind = "qspi" /\ l = Rx
         /\ \/ QspiNew \/ QspiCustomInstruction \/ QspiRead \/ QspiWrite \/ QspiErase
            \/ QspiCancel \/ QspiSleep
    \/ kind = "channel" /\ ChannelUser(l)
    \/ kind = "port" /\ PortUser(l)
    \/ kind = "exti" /\ ExtiUser(l)
    \/ kind = "can" /\ CanUser(l)
    \/ kind = "serial" /\ SerialUser(l)
    \/ l = Rx /\ PollAgain(l)

\* The task that polls a future, or spins in its OnDrop.
Task(l) ==
    \/ kind = "uarte" /\ UarteTask(l)
    \/ kind = "spim" /\ l = Rx /\ SpimPoll
    \/ kind = "saadc" /\ l = Rx /\ SaadcPoll
    \/ kind = "qspi" /\ l = Rx /\ (QspiPoll \/ QspiActivated)
    \/ kind = "channel" /\ ChannelTask(l)
    \/ kind = "port" /\ PortTask(l)
    \/ kind = "exti" /\ ExtiTask(l)
    \/ kind = "can" /\ CanTask(l)
    \/ kind = "serial" /\ SerialTask(l)

DropTask == kind = "uarte" /\ (UarteDropSleeps \/ UarteDropped)

\* The peripheral finishes what it has begun.
Hardware(l) ==
    \/ kind \in DmaKinds /\ TransferEnds(l)
    \/ kind = "uarte" /\ Stops(l)
    \/ kind = "qspi" /\ l = Rx /\ QspiReady
    \/ kind = "port" /\ PinLatches(l)
    \/ kind = "can" /\ l = Tx /\ FrameSent
    \/ kind = "serial" /\ SerialEnds(l)

\* The interrupt lines.
Line(i) ==
    CASE kind = "uarte" -> UarteLine(i)
      [] kind \in {"spim", "saadc", "qspi"} -> EventLine(i)
      [] kind = "channel" -> ChannelLine(i)
      [] kind = "port" -> PortLine(i)
      [] kind = "exti" -> ExtiLine(i)
      [] kind = "can" -> CanLine(i)
      [] OTHER -> SerialLine(i)

TakeIrq(i) ==
    /\ Line(i)
    /\ TakeInterrupt(i, CASE kind = "uarte" -> "wake" [] kind = "channel" -> "channel"
                          [] kind = "port" -> "port" [] OTHER -> "wake_task",
                     Owner(i))

Handler == UarteHandler \/ ChannelHandler \/ PortHandler \/ irq_wake_handler

Next ==
    \/ Handler \/ DropTask
    \/ \E i \in Irqs : TakeIrq(i)
    \/ \E l \in Lanes : User(l) \/ Task(l) \/ Hardware(l)

Spec == Init /\ [][Next]_vars

\* A handler runs on, an interrupt that is pending time and again is taken and a task that
\* is woken is polled, however often others come first, and a peripheral ends a transfer.
\* Nobody is obliged to call, to cancel or to change a pin.
Fairness ==
    /\ WF_vars(Handler) /\ WF_vars(DropTask)
    /\ \A i \in Irqs : SF_vars(TakeIrq(i))
    /\ \A l \in Lanes : SF_vars(Task(l)) /\ WF_vars(Hardware(l))

FairSpec == Spec /\ Fairness

-----------------------------------------------------------------------------
(* Properties.                                                             *)

\* A task sleeps on an event that has occurred, or on a level that is there, only while its
\* handler is about to run or running: the event, the waker and the two enables are set and
\* looked at in an order that leaves no gap (uarte.rs:143, gpiote.rs:80, signal.rs:86 and
\* :163).  For a task below the interrupt, and above it where DriversAssumption admits it.
NoLostInterrupt ==
    \A l \in Lanes :
        lane[l].fut = "asleep" /\ (lane[l].event # "off" \/ LevelIsThere(l))
        => isr # Idle \/ (lane[l].waker /\ \E i \in nvic : Line(i))

\* An operation whose event is set, or whose transfer runs, ends: its task is woken and finds
\* out.  For a task below the interrupt, and above it where DriversAssumption admits it; the
\* other handlers rely on the task not to run between their wake and their mask (signal.rs:95).
OperationEnds ==
    \A l \in Lanes :
        lane[l].fut \notin {"none", "panic"} /\ (lane[l].event = "own" \/ "own" \in lane[l].dma)
        ~> lane[l].fut \in {"none", "panic"}

\* The drivers in which a dropped future leaves nothing behind.
Tidy == {"uarte", "qspi", "channel", "serial"}

\* An operation is completed by its own event and never by one that an earlier
\* operation left, unless that was cancelled, or waited for another edge, in a driver
\* that leaves it at that.  Can::transmit is no such driver.
CompletedByOwnEvent ==
    \A l \in Lanes :
        lane[l].fut = "none" /\ ~(kind = "can" /\ l = Tx) /\ (kind \in Tidy \/ lane[l].clean)
        => lane[l].got = "own"

\* The hardware never uses the buffer of an operation that is over: Uarte stops the
\* transfer of a dropped future, Qspi goes no further, Serial drops the Transfer.
NoTransferIsLeft ==
    \A l \in Lanes :
        kind \in Tidy \/ lane[l].clean
        => lane[l].dma \subseteq {"own"} /\ (lane[l].fut = "none" => lane[l].dma = {})

\* Every driver but Can panics only after a future was dropped: the bomb of Qspi, and the
\* stream and USART that Serial has lost (qspi.rs:166, f4/serial.rs:109).  Can is exempt, for
\* its transmit panics with nothing dropped: see TransmitIsInfallible.
PanicsOnlyWhenCancelled ==
    \A l \in Lanes : lane[l].fut = "panic" /\ kind # "can" => \E m \in Lanes : ~lane[m].clean

\* can.rs:45, "Infallible": transmit never finds the mailboxes full, as long as no future
\* is dropped.
TransmitIsInfallible == kind = "can" /\ lane[Tx].clean => lane[Tx].fut # "panic"

\* Uarte::drop returns, whatever was cancelled before: what it waits for comes, and an
\* interrupt ends the WFE that it waits in (uarte.rs:174-180).
DropEnds == drv \in {"dropping", "wfe"} ~> drv = "gone"
=============================================================================
