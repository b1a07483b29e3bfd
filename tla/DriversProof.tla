---------------------------- MODULE DriversProof ----------------------------
(***************************************************************************)
(* What is proved of the interrupt-driven drivers, for any choice of them. *)
(* A behaviour is one of a single driver, so the inductive invariant has a *)
(* part for each kind, and so has the proof that a step preserves it.      *)
(***************************************************************************)
EXTENDS Drivers, TLAPS

Futures == {"none", "new", "made", "set", "ready", "mid", "asleep", "drop", "panic"}
Senses == {"off", "edge", "high", "low", "rising", "falling", "both"}
Wants == {"off", "high", "low", "rising", "falling", "both", "full", "idle"}

Lane ==
    [fut : Futures, woken : BOOLEAN, waker : BOOLEAN, event : {"off", "own", "stale"},
     inten : BOOLEAN, dma : SUBSET {"own", "stale"}, got : {"own", "stale"},
     clean : BOOLEAN, started : BOOLEAN, stopping : BOOLEAN, stopped : BOOLEAN,
     stop_inten : BOOLEAN, level : BOOLEAN, sense : Senses, want : Wants, q : Nat]

Points == {"idle", "wake", "intenclr", "stop", "channel", "channel_mask", "channel_wake", "port",
           "latch", "sense", "sense_wake", "clear", "wake_task", "mask"}

Isr == [irq : 0..3, at : Points, l : 0..2, bits : SUBSET Lanes]

\* A handler at one of these steps, or none.
IsrAt(i, points) ==
    /\ i \in Isr
    /\ i.at \in points \cup {"idle"}
    /\ i.at = "idle" => i = Idle
    /\ i.at # "idle" => i.irq \in Irqs /\ i.l \in Lanes

\* The steps of the handler of each driver.
PointsOf(k) ==
    CASE k = "uarte" -> {"wake", "intenclr", "stop"}
      [] k = "channel" -> {"channel", "channel_mask", "channel_wake"}
      [] k = "port" -> {"port", "latch", "sense", "sense_wake", "clear"}
      [] OTHER -> {"wake_task", "mask"}

Types ==
    /\ kind \in DmaKinds \cup GpioteKinds \cup FutureKinds
    /\ above => kind = "port"
    /\ lane \in [Lanes -> Lane]
    /\ nvic \subseteq Irqs
    /\ IsrAt(isr, PointsOf(kind))

\* What a lane with a transfer that nobody has cancelled promises: at most the transfer of
\* the operation in progress, and an event only when that has ended.
OwnTransfer(r) ==
    /\ r.event # "stale"
    /\ r.got = "own"
    /\ r.dma \subseteq {"own"}
    /\ r.event # "off" => r.dma = {}
    /\ r.fut = "none" => r.dma = {}

\* Uarte: a future that may sleep has its interrupt enabled, or its event set for the
\* check that comes before it sleeps.
UarteLane(r) ==
    /\ r.fut \in {"none", "ready", "mid", "asleep", "drop"}
    /\ r.want = "off"
    /\ OwnTransfer(r)
    /\ r.fut \in {"ready", "mid"} => r.inten \/ r.event # "off"
    /\ r.fut \in {"mid", "asleep"} => r.waker
    /\ r.fut = "asleep" => r.inten

UarteInv ==
    \A l \in Lanes :
        /\ UarteLane(lane[l])
        /\ lane[l].fut # "none" => drv = "up"
        /\ lane[l].fut \in {"ready", "mid", "asleep"} => 1 \in nvic
        /\ isr.at = "intenclr" /\ isr.l = l => lane[l].event # "off" /\ lane[l].fut # "asleep"

\* Spim, OneShot and Qspi: the interrupt of a sleeping task is enabled until the handler has
\* woken it.
OneLane(r) ==
    /\ r.fut \in {"none", "ready", "mid", "asleep", "panic"}
    /\ r.want = "off"
    /\ r.fut \notin {"none", "panic"} => r.inten
    /\ r.fut = "asleep" => r.waker
    /\ r.fut = "panic" => ~r.clean
    /\ kind = "qspi" \/ r.clean => OwnTransfer(r)

OneLaneInv ==
    /\ lane[Tx].fut = "none"
    /\ isr.at # "idle" => isr.irq = Rx /\ isr.l = Rx
    /\ isr.at = "mask" => lane[Rx].fut # "asleep"
    /\ lane[Rx].fut = "asleep" => Rx \in nvic
    /\ drv = "activating" => lane[Rx].fut = "none"
    /\ \A l \in Lanes : OneLane(lane[l])

\* InputChannel: the interrupt of a sleeping task is enabled unless the handler is just
\* about to wake it.
ChannelLane(r) ==
    /\ r.fut \in {"none", "ready", "mid", "asleep"}
    /\ r.want = "off"
    /\ r.dma = {} /\ r.got = "own" /\ r.event # "stale"
    /\ r.fut # "none" => r.sense = "edge" /\ (r.inten \/ r.event # "off")
    /\ r.fut \in {"mid", "asleep"} => r.waker

ChannelInv ==
    /\ nvic = {1}
    /\ \A l \in Lanes :
        /\ ChannelLane(lane[l])
        /\ lane[l].fut = "asleep"
             => lane[l].inten \/ (isr.at = "channel_wake" /\ isr.l = l)
        /\ isr.at = "channel_mask" /\ isr.l = l => lane[l].event # "off"

\* The handler of the port has stopped the comparison of pin l and will clear its bit.
Sensed(l) ==
    /\ l \in isr.bits
    /\ \/ isr.at = "clear"
       \/ isr.at \in {"sense", "sense_wake"} /\ l < isr.l
       \/ isr.at = "sense_wake" /\ l = isr.l

\* PortInput: EVENTS_PORT is set while a bit of LATCH is and the handler is not running, and a
\* bit outlives its wait only until the handler that ended the wait clears it.
PortLane(r) ==
    /\ r.fut \in {"none", "ready", "mid", "asleep"}
    /\ r.want = "off"
    /\ r.dma = {}
    /\ r.fut \in {"mid", "asleep"} => r.waker
    /\ r.clean => r.got = "own" /\ (r.fut = "none" => r.sense = "off")

Leftover(r) == r.clean /\ (r.event = "stale" \/ (r.event # "off" /\ r.sense = "off"))

PortInv ==
    /\ nvic = {1}
    /\ isr.at = "idle" /\ (\E l \in Lanes : lane[l].event # "off") => drv = "event"
    /\ \A l \in Lanes :
        /\ PortLane(lane[l])
        /\ Leftover(lane[l]) => Sensed(l)
        /\ isr.at \in {"sense", "sense_wake", "clear"} /\ l \in isr.bits
             => lane[l].event # "off"

\* The drivers with an InterruptFuture: the handler serves the lane of its interrupt, whose
\* task it has woken when it masks the interrupt.
FutureInv ==
    /\ isr.at # "idle" => isr.l = Owner(isr.irq)
    /\ isr.at = "mask" => lane[isr.l].fut # "asleep"

\* ExtiPin: the line is triggered by what the future waits for, and a level that is there has
\* left an event; an interrupt is enabled only while there is a future.
PinLane(r) ==
    /\ r.dma = {}
    /\ r.fut \in {"none", "new", "made", "set", "ready", "mid", "asleep"}
    /\ r.want \notin {"full", "idle"}
    /\ r.fut \in {"mid", "asleep"} => r.waker
    /\ r.fut \in {"set", "ready", "mid", "asleep"} => r.sense = EdgeOption(r.want)
    /\ r.fut \in {"ready", "mid", "asleep"} /\ r.want = "high" /\ r.level => r.event # "off"
    /\ r.fut \in {"ready", "mid", "asleep"} /\ r.want = "low" /\ ~r.level => r.event # "off"
    /\ r.clean => r.got = "own"
    /\ r.clean /\ r.fut # "none"
         => r.event # "stale" /\ r.sense \in {"off", EdgeOption(r.want)}

ExtiInv ==
    /\ FutureInv
    /\ nvic \subseteq Lanes
    /\ isr.at # "idle" => isr.irq \in Lanes /\ lane[isr.l].fut # "none"
    /\ \A l \in Lanes :
        /\ PinLane(lane[l])
        /\ l \in nvic => lane[l].fut # "none"
        /\ lane[l].fut = "asleep" => l \in nvic

\* Can: whatever ends a receive is a frame.
CanLane(l, r) ==
    /\ r.dma = {} /\ r.want = "off"
    /\ r.fut \in {"mid", "asleep"} => r.waker
    /\ l = Rx => r.event # "stale" /\ r.got = "own"

CanInv ==
    /\ FutureInv
    /\ nvic \subseteq Lanes
    /\ isr.at # "idle" => isr.irq \in Lanes
    /\ \A l \in Lanes :
        /\ CanLane(l, lane[l])
        /\ lane[l].fut = "asleep" => l \in nvic

\* Serial: a stream or the USART is missing only while an operation has it, or after one was
\* cancelled.
SerialLane(l, r) ==
    /\ r.want \in {"off", "full", "idle"} /\ (l = Tx => r.want # "idle")
    /\ r.event # "stale" /\ r.got = "own"
    /\ r.dma \subseteq {"own"} /\ (r.fut = "none" => r.dma = {})
    /\ r.fut \in {"mid", "asleep"} => r.waker
    /\ r.started => r.fut # "none" \/ ~r.clean

SerialInv ==
    /\ FutureInv
    /\ drv = "gone" => \E l \in Lanes : lane[l].fut # "none" \/ ~lane[l].clean
    /\ \A l \in Lanes :
        /\ SerialLane(l, lane[l])
        /\ lane[l].fut = "asleep" => SerialIrqs(l) \subseteq nvic
        /\ lane[l].fut = "panic" => \E m \in Lanes : ~lane[m].clean

DriversInv ==
    /\ Types
    /\ kind = "uarte" => UarteInv
    /\ kind \in {"spim", "saadc", "qspi"} => OneLaneInv
    /\ kind = "channel" => ChannelInv
    /\ kind = "port" => PortInv
    /\ kind = "exti" => ExtiInv
    /\ kind = "can" => CanInv
    /\ kind = "serial" => SerialInv

-----------------------------------------------------------------------------
(* The lanes, and what the drivers do with them.                           *)

LEMMA SetLane ==
    ASSUME lane \in [Lanes -> Lane], NEW l \in Lanes, NEW r \in Lane, Set(l, r)
    PROVE  /\ lane' \in [Lanes -> Lane]
           /\ lane'[l] = r
           /\ \A m \in Lanes : m # l => lane'[m] = lane[m]
  BY DEF Set

LEMMA WokenLane ==
    ASSUME NEW r \in Lane
    PROVE  /\ Wake(r) \in Lane
           /\ Wake(r).fut = r.fut \/ (r.fut = "asleep" /\ Wake(r).fut = "ready")
           /\ r.waker => Wake(r).fut # "asleep"
           /\ Wake(r).waker = r.waker /\ Wake(r).event = r.event /\ Wake(r).inten = r.inten
           /\ Wake(r).dma = r.dma /\ Wake(r).got = r.got /\ Wake(r).clean = r.clean
           /\ Wake(r).started = r.started /\ Wake(r).level = r.level
           /\ Wake(r).sense = r.sense /\ Wake(r).want = r.want
  <1>1. CASE r.waker
    <2> DEFINE w == [r EXCEPT !.woken = TRUE, !.fut = IF @ = "asleep" THEN "ready" ELSE @]
    <2>1. Wake(r) = w
      BY <1>1 DEF Wake
    <2>2. /\ w \in Lane
          /\ w.fut = IF r.fut = "asleep" THEN "ready" ELSE r.fut
          /\ w.waker = r.waker /\ w.event = r.event /\ w.inten = r.inten
          /\ w.dma = r.dma /\ w.got = r.got /\ w.clean = r.clean
          /\ w.started = r.started /\ w.level = r.level
          /\ w.sense = r.sense /\ w.want = r.want
      BY DEF Lane, Futures
    <2> QED
      BY <2>1, <2>2
  <1>2. CASE ~r.waker
    BY <1>2 DEF Wake
  <1> QED
    BY <1>1, <1>2

LEMMA PendingLane ==
    ASSUME NEW r \in Lane
    PROVE  /\ Pending(r) \in Lane
           /\ Pending(r).fut \in {"ready", "asleep"}
           /\ Pending(r).waker = r.waker /\ Pending(r).event = r.event
           /\ Pending(r).inten = r.inten /\ Pending(r).dma = r.dma
           /\ Pending(r).got = r.got /\ Pending(r).clean = r.clean
           /\ Pending(r).started = r.started /\ Pending(r).level = r.level
           /\ Pending(r).sense = r.sense /\ Pending(r).want = r.want
  <1>1. PICK f \in {"ready", "asleep"} : Pending(r) = [r EXCEPT !.fut = f]
    BY Zenon DEF Pending
  <1> QED
    BY <1>1 DEF Lane, Futures

\* The end of an operation, by completion ...
LEMMA ReadyLane ==
    ASSUME NEW r \in Lane, NEW c \in {"own", "stale"}
    PROVE  /\ Ready(r, c) \in Lane
           /\ Ready(r, c).fut = "none" /\ Ready(r, c).want = "off" /\ Ready(r, c).got = c
           /\ Ready(r, c).waker = r.waker /\ Ready(r, c).event = r.event
           /\ Ready(r, c).inten = r.inten /\ Ready(r, c).dma = r.dma
           /\ Ready(r, c).clean = r.clean /\ Ready(r, c).started = r.started
           /\ Ready(r, c).level = r.level /\ Ready(r, c).sense = r.sense
  BY DEF Lane, Futures, Wants, Ready

\* ... and by cancellation.
LEMMA DroppedLane ==
    ASSUME NEW r \in Lane
    PROVE  /\ Dropped(r) \in Lane
           /\ Dropped(r).fut = "none" /\ Dropped(r).want = "off" /\ Dropped(r).got = r.got
           /\ Dropped(r).waker = r.waker /\ Dropped(r).event = r.event
           /\ Dropped(r).inten = r.inten /\ Dropped(r).dma = r.dma
           /\ Dropped(r).clean = FALSE /\ Dropped(r).started = r.started
           /\ Dropped(r).level = r.level /\ Dropped(r).sense = r.sense
  BY DEF Lane, Futures, Wants, Dropped

\* The beginning of the next one.
LEMMA RenewedLane ==
    ASSUME NEW r \in Lane
    PROVE  /\ Renew(r) \in Lane
           /\ Renew(r).fut = r.fut /\ Renew(r).waker = FALSE /\ Renew(r).inten = r.inten
           /\ Renew(r).event = IF r.event = "off" THEN "off" ELSE "stale"
           /\ Renew(r).dma = IF r.dma = {} THEN {} ELSE {"stale"}
           /\ Renew(r).got = "own" /\ Renew(r).clean = r.clean
           /\ Renew(r).started = r.started /\ Renew(r).level = r.level
           /\ Renew(r).sense = r.sense /\ Renew(r).want = r.want
  BY DEF Lane, Renew

LEMMA LaneTypes ==
    ASSUME Types, NEW l \in Lanes, NEW r \in Lane, Set(l, r), nvic' \subseteq Irqs,
           UNCHANGED <<kind, above, isr>>
    PROVE  Types'
  BY SetLane DEF Types

\* A handler goes to its next step, for the same lane or another, or returns.
Moved(i, at, l) ==
    IsrAt(i, {at}) /\ i.at = at /\ i.l = l /\ i.irq = isr.irq /\ i.bits = isr.bits

LEMMA IsrMoves ==
    ASSUME Types, isr.at # "idle"
    PROVE  /\ \A at \in Points : at # "idle" => Moved([isr EXCEPT !.at = at], at, isr.l)
           /\ \A l \in Lanes : Moved([isr EXCEPT !.l = l], isr.at, l)
           /\ \A l \in Lanes, at \in Points :
                at # "idle" => Moved([isr EXCEPT !.l = l, !.at = at], at, l)
  <1>1. isr \in Isr /\ isr.irq \in Irqs /\ isr.l \in Lanes /\ isr.at \in Points
    BY DEF Types, IsrAt, Isr
  <1>2. ASSUME NEW l \in Lanes, NEW at \in Points, at # "idle", NEW i,
               \/ i = [isr EXCEPT !.at = at] /\ l = isr.l
               \/ i = [isr EXCEPT !.l = l] /\ at = isr.at
               \/ i = [isr EXCEPT !.l = l, !.at = at]
        PROVE  Moved(i, at, l)
    <2>1. l \in 0..2
      BY DEF Lanes, Rx, Tx
    <2>2. i \in Isr
      BY <1>1, <1>2, <2>1 DEF Isr
    <2>3. i.at = at /\ i.l = l /\ i.irq = isr.irq /\ i.bits = isr.bits
      BY <1>1, <1>2 DEF Isr
    <2> QED
      BY <1>1, <1>2, <2>2, <2>3 DEF IsrAt, Moved
  <1> QED
    BY <1>1, <1>2

LEMMA IsrReturns == \A points : IsrAt(Idle, points) /\ Idle.at = "idle"
  BY DEF IsrAt, Idle, Isr, Points, Lanes

LEMMA TakenIrq ==
    ASSUME Types, NEW i \in Irqs, TakeIrq(i)
    PROVE  /\ Types' /\ UNCHANGED <<kind, above, drv, lane, nvic>>
           /\ isr.at = "idle" /\ i \in nvic /\ Line(i)
           /\ isr'.irq = i /\ isr'.l = Owner(i) /\ isr'.l \in Lanes
           /\ isr'.at \in {"wake", "channel", "port", "wake_task"}
  <1> DEFINE at == CASE kind = "uarte" -> "wake" [] kind = "channel" -> "channel"
                     [] kind = "port" -> "port" [] OTHER -> "wake_task"
  <1>1. /\ isr' = [irq |-> i, at |-> at, l |-> Owner(i), bits |-> {}]
        /\ UNCHANGED <<kind, above, drv, lane, nvic>> /\ i \in nvic /\ Line(i) /\ isr = Idle
    BY DEF TakeIrq, TakeInterrupt
  <1>2. at \in {"wake", "channel", "port", "wake_task"} \cap PointsOf(kind)
    BY DEF PointsOf
  <1> HIDE DEF at
  <1>3. Owner(i) \in Lanes /\ Owner(i) \in 0..2 /\ i \in 0..3
    BY DEF Owner, Lanes, Rx, Tx, Irqs
  <1>4. IsrAt(isr', PointsOf(kind))
    BY <1>1, <1>2, <1>3 DEF IsrAt, Isr, Points
  <1> QED
    BY <1>1, <1>2, <1>3, <1>4 DEF Types, Idle

\* irq_wake_handler, first step and second.
LEMMA WakesLane ==
    ASSUME Types, HandlerWakes
    PROVE  /\ Types' /\ UNCHANGED <<kind, above, drv, nvic>>
           /\ isr.at = "wake_task" /\ isr.l \in Lanes
           /\ isr'.at = "mask" /\ isr'.l = isr.l /\ isr'.irq = isr.irq
           /\ \A m \in Lanes : m # isr.l => lane'[m] = lane[m]
           /\ \E p, r \in Lane :
                /\ p = lane[isr.l] /\ r = lane'[isr.l]
                /\ r.fut = p.fut \/ (p.fut = "asleep" /\ r.fut = "ready")
                /\ p.waker => r.fut # "asleep"
                /\ r.waker = p.waker /\ r.event = p.event /\ r.inten = p.inten
                /\ r.got = IF p.event = "off" THEN p.got ELSE p.event
                /\ r.dma = p.dma /\ r.clean = p.clean /\ r.started = p.started
                /\ r.level = p.level /\ r.sense = p.sense /\ r.want = p.want
  <1>1. /\ isr \in Isr /\ isr.irq \in Irqs /\ isr.l \in Lanes /\ isr.at = "wake_task"
        /\ isr.at \in PointsOf(kind)
    BY DEF HandlerWakes, Types, IsrAt, PointsOf
  <1>2. PICK l \in Lanes : l = isr.l
    BY <1>1
  <1> DEFINE p == lane[l]
             w == Wake(p)
             g == IF p.event = "off" THEN p.got ELSE p.event
             r == [w EXCEPT !.got = g]
  <1>3. p \in Lane /\ lane \in [Lanes -> Lane]
    BY DEF Types
  <1>4. /\ w \in Lane
        /\ w.fut = p.fut \/ (p.fut = "asleep" /\ w.fut = "ready")
        /\ p.waker => w.fut # "asleep"
        /\ w.waker = p.waker /\ w.event = p.event /\ w.inten = p.inten
        /\ w.got = p.got /\ w.dma = p.dma /\ w.clean = p.clean /\ w.started = p.started
        /\ w.level = p.level /\ w.sense = p.sense /\ w.want = p.want
    BY <1>3, WokenLane
  <1>5. Set(l, r) /\ isr' = [isr EXCEPT !.at = "mask"] /\ UNCHANGED <<kind, above, drv, nvic>>
    BY <1>2, <1>4 DEF HandlerWakes
  <1>6. g \in {"own", "stale"}
    BY <1>3 DEF Lane
  <1> HIDE DEF w, g
  <1>7. /\ r \in Lane
        /\ r.fut = w.fut /\ r.waker = w.waker /\ r.event = w.event /\ r.inten = w.inten
        /\ r.got = g /\ r.dma = w.dma /\ r.clean = w.clean /\ r.started = w.started
        /\ r.level = w.level /\ r.sense = w.sense /\ r.want = w.want
    BY <1>4, <1>6 DEF Lane
  <1> HIDE DEF r
  <1>8. lane' \in [Lanes -> Lane] /\ lane'[l] = r
        /\ \A m \in Lanes : m # l => lane'[m] = lane[m]
    BY <1>3, <1>5, <1>7, SetLane
  <1>9. isr' \in Isr /\ isr'.at = "mask" /\ isr'.l = isr.l /\ isr'.irq = isr.irq
    BY <1>1, <1>5 DEF Isr, Points
  <1>10. "mask" \in PointsOf(kind)
    BY <1>1 DEF PointsOf
  <1>11. Types'
    BY <1>1, <1>5, <1>8, <1>9, <1>10 DEF Types, IsrAt
  <1>12. p \in Lane /\ r \in Lane /\ p = lane[isr.l] /\ r = lane'[isr.l]
    BY <1>2, <1>3, <1>7, <1>8
  <1> HIDE DEF p
  <1>13. /\ r.fut = p.fut \/ (p.fut = "asleep" /\ r.fut = "ready")
         /\ p.waker => r.fut # "asleep"
         /\ r.waker = p.waker /\ r.event = p.event /\ r.inten = p.inten
         /\ r.got = IF p.event = "off" THEN p.got ELSE p.event
         /\ r.dma = p.dma /\ r.clean = p.clean /\ r.started = p.started
         /\ r.level = p.level /\ r.sense = p.sense /\ r.want = p.want
    BY <1>4, <1>7 DEF g
  <1> QED
    BY <1>1, <1>2, <1>5, <1>8, <1>9, <1>11, <1>12, <1>13

LEMMA MasksIrq ==
    ASSUME Types, HandlerMasks
    PROVE  /\ Types' /\ UNCHANGED <<kind, above, drv, lane>>
           /\ isr.at = "mask" /\ isr.irq \in Irqs /\ isr.l \in Lanes
           /\ nvic' = nvic \ {isr.irq} /\ isr' = Idle /\ isr'.at = "idle"
  <1>1. IsrAt(Idle, PointsOf(kind)) /\ Idle.at = "idle"
    BY DEF IsrAt, Idle, Isr, Points, Lanes
  <1> QED
    BY <1>1 DEF HandlerMasks, Types, IsrAt

\* Which handler runs is decided by the driver.
LEMMA HandlerOf ==
    ASSUME Types, Handler
    PROVE  /\ kind = "uarte" => UarteHandlerWakes \/ UarteHandlerMasks \/ UarteHandlerStops
           /\ kind = "channel" => ChannelHandlerReads \/ ChannelHandlerMasks \/ ChannelHandlerWakes
           /\ kind = "port" => PortHandlerResets \/ PortHandlerReads \/ PortHandlerSense
                                 \/ PortHandlerWakes \/ PortHandlerClears
           /\ kind \notin {"uarte", "channel", "port"} => HandlerWakes \/ HandlerMasks
  BY DEF Types, PointsOf, IsrAt, Handler, UarteHandler, ChannelHandler, PortHandler,
         irq_wake_handler, UarteHandlerWakes, UarteHandlerMasks, UarteHandlerStops,
         ChannelHandlerReads, ChannelHandlerMasks, ChannelHandlerWakes, PortHandlerResets, PortHandlerReads, PortHandlerSense,
         PortHandlerWakes, PortHandlerClears, HandlerWakes, HandlerMasks

-----------------------------------------------------------------------------
(* Uarte.                                                                  *)

LEMMA UarteLaneStep ==
    ASSUME Types, UarteInv, NEW l \in Lanes, NEW r \in Lane, UarteLane(r), Set(l, r),
           nvic \subseteq nvic', nvic' \subseteq Irqs, UNCHANGED <<kind, above, drv, isr>>,
           r.fut # "none" => drv = "up",
           r.fut \in {"ready", "mid", "asleep"} => 1 \in nvic',
           isr.at = "intenclr" /\ isr.l = l => r.event # "off" /\ r.fut # "asleep"
    PROVE  Types' /\ UarteInv'
  <1>1. Types'
    BY LaneTypes
  <1>2. lane'[l] = r /\ \A m \in Lanes : m # l => lane'[m] = lane[m]
    BY SetLane DEF Types
  <1> QED
    BY <1>1, <1>2 DEF UarteInv

LEMMA UarteSteps == DriversInv /\ kind = "uarte" /\ Next => Types' /\ UarteInv'
  <1> SUFFICES ASSUME Types, UarteInv, kind = "uarte", Next
               PROVE  Types' /\ UarteInv'
    BY DEF DriversInv
  <1>1. ~above /\ lane \in [Lanes -> Lane] /\ nvic \subseteq Irqs /\ 1 \in Irqs
    BY DEF Types, GpioteKinds, Irqs
  <1>2. TaskRuns => isr.at = "idle"
    BY <1>1 DEF TaskRuns, Idle
  <1>3. ASSUME NEW l \in Lanes PROVE lane[l] \in Lane /\ UarteLane(lane[l])
    BY <1>1 DEF UarteInv
  <1>4. ASSUME NEW l \in Lanes, Register(l) PROVE Types' /\ UarteInv'
    <2> DEFINE r == [lane[l] EXCEPT !.fut = "mid", !.waker = TRUE, !.woken = FALSE]
    <2>1. lane[l] \in Lane /\ UarteLane(lane[l]) /\ lane[l].fut = "ready"
      BY <1>3, <1>4 DEF Register
    <2>2. r \in Lane /\ r.fut = "mid"
      BY <2>1 DEF Lane, Futures
    <2>3. UarteLane(r)
      BY <2>1 DEF Lane, UarteLane, OwnTransfer
    <2> QED
      BY <1>1, <1>2, <1>4, <2>1, <2>2, <2>3, UarteLaneStep DEF Register, UarteInv
  <1>5. ASSUME NEW l \in Lanes, UarteCheck(l) PROVE Types' /\ UarteInv'
    <2>1. CASE lane[l].event # "off"
      <3> DEFINE e == Ready(lane[l], "own")
                 r == [e EXCEPT !.started = FALSE]
      <3>1. lane[l].event = "own" /\ Set(l, r)
        BY <1>3, <1>5, <2>1 DEF UarteCheck, UarteLane, OwnTransfer, Lane
      <3>2. /\ e \in Lane /\ e.fut = "none" /\ e.want = "off" /\ e.got = "own"
            /\ e.event = lane[l].event /\ e.dma = lane[l].dma
        BY <1>3, ReadyLane
      <3>3. UarteLane(e)
        BY <1>3, <2>1, <3>2 DEF UarteLane, OwnTransfer
      <3> HIDE DEF e
      <3>4. r \in Lane /\ r.fut = "none"
        BY <3>2 DEF Lane
      <3>5. UarteLane(r)
        BY <3>2, <3>3 DEF Lane, UarteLane, OwnTransfer
      <3> QED
        BY <1>1, <1>2, <1>5, <3>1, <3>4, <3>5, UarteLaneStep DEF UarteCheck
    <2>2. CASE lane[l].event = "off"
      <3> DEFINE r == Pending(lane[l])
      <3>1. r \in Lane /\ UarteLane(r) /\ r.fut \in {"ready", "asleep"}
        BY <1>3, <1>5, <2>2, PendingLane DEF UarteCheck, UarteLane, OwnTransfer
      <3> HIDE DEF r
      <3>2. Set(l, r)
        BY <1>5, <2>2 DEF r, UarteCheck
      <3> QED
        BY <1>1, <1>2, <1>5, <3>1, <3>2, UarteLaneStep DEF UarteCheck, UarteInv
    <2> QED
      BY <2>1, <2>2
  <1>6. ASSUME NEW l \in Lanes, UarteCancelled(l) PROVE Types' /\ UarteInv'
    <2> DEFINE r == [lane[l] EXCEPT !.fut = "none"]
    <2>1. r \in Lane /\ UarteLane(r) /\ r.fut = "none"
      BY <1>3, <1>6 DEF UarteCancelled, Lane, Futures, UarteLane, OwnTransfer
    <2> QED
      BY <1>1, <1>2, <1>6, <2>1, UarteLaneStep DEF UarteCancelled
  <1>7. ASSUME NEW l \in Lanes, UarteStart(l) PROVE Types' /\ UarteInv'
    <2> DEFINE n == Renew(lane[l])
               r == [[n EXCEPT !.event = "off", !.inten = TRUE, !.dma = @ \cup {"own"},
                               !.fut = "ready"] EXCEPT !.started = TRUE]
    <2>1. n \in Lane /\ n.dma = {} /\ n.want = "off" /\ n.got = "own"
      <3>1. lane[l].fut = "none" /\ lane[l].dma = {} /\ lane[l].want = "off"
        BY <1>3, <1>7 DEF UarteStart, UarteLane, OwnTransfer
      <3> QED
        BY <1>3, <3>1, RenewedLane
    <2>2. Set(l, r)
      BY <1>7 DEF UarteStart, Start
    <2> HIDE DEF n
    <2>3. r \in Lane /\ r.fut = "ready"
      BY <2>1 DEF Lane, Futures
    <2>4. UarteLane(r)
      BY <2>1 DEF Lane, UarteLane, OwnTransfer
    <2> HIDE DEF r
    <2>5. /\ nvic' = nvic \cup {1} /\ UNCHANGED <<kind, above, drv, isr>>
          /\ drv = "up" /\ isr.at = "idle"
      BY <1>2, <1>7 DEF UarteStart, register_interrupt
    <2> QED
      BY <1>1, <2>2, <2>3, <2>4, <2>5, UarteLaneStep
  <1>8. ASSUME NEW l \in Lanes, UarteCancel(l) PROVE Types' /\ UarteInv'
    <2> DEFINE r == [lane[l] EXCEPT !.fut = "drop", !.inten = FALSE, !.stopped = FALSE,
                                    !.stopping = TRUE]
    <2>1. lane[l] \in Lane /\ UarteLane(lane[l]) /\ lane[l].fut \in {"ready", "asleep"}
      BY <1>3, <1>8 DEF UarteCancel, Droppable
    <2>2. r \in Lane /\ r.fut = "drop"
      BY <2>1 DEF Lane, Futures
    <2>3. UarteLane(r)
      BY <2>1 DEF Lane, UarteLane, OwnTransfer
    <2> QED
      BY <1>1, <1>2, <1>8, <2>1, <2>2, <2>3, UarteLaneStep DEF UarteCancel, Droppable, UarteInv
  <1>9. ASSUME NEW l \in Lanes, PollAgain(l) PROVE Types' /\ UarteInv'
    <2> DEFINE r == [lane[l] EXCEPT !.fut = "ready"]
    <2>1. r \in Lane /\ UarteLane(r) /\ r.fut = "ready" /\ r.event = lane[l].event
      BY <1>3, <1>9 DEF PollAgain, Lane, Futures, UarteLane, OwnTransfer
    <2> QED
      BY <1>1, <1>9, <2>1, UarteLaneStep DEF PollAgain, UarteInv
  <1>10. ASSUME NEW l \in Lanes, TransferEnds(l) PROVE Types' /\ UarteInv'
    <2>1. PICK k \in lane[l].dma :
            /\ Set(l, [lane[l] EXCEPT !.dma = @ \ {k}, !.event = k])
            /\ UNCHANGED <<kind, above, drv, nvic, isr>>
      BY <1>10 DEF TransferEnds
    <2> DEFINE r == [lane[l] EXCEPT !.dma = @ \ {k}, !.event = k]
    <2>2. k = "own"
      BY <1>3, <2>1 DEF UarteLane, OwnTransfer
    <2>3. r \in Lane /\ r.fut = lane[l].fut /\ r.event = "own"
      <3>1. lane[l] \in Lane /\ lane[l].dma \ {k} \in SUBSET {"own", "stale"}
        BY <1>3 DEF Lane
      <3> QED
        BY <2>2, <3>1 DEF Lane
    <2>4. UarteLane(r)
      BY <1>3, <2>2 DEF Lane, UarteLane, OwnTransfer
    <2> QED
      BY <1>1, <2>1, <2>3, <2>4, UarteLaneStep DEF UarteInv
  <1>11. ASSUME NEW l \in Lanes, Stops(l) PROVE Types' /\ UarteInv'
    <2> DEFINE r == [lane[l] EXCEPT !.stopping = FALSE, !.stopped = TRUE]
    <2>1. r \in Lane /\ UarteLane(r) /\ r.fut = lane[l].fut /\ r.event = lane[l].event
      BY <1>3 DEF Lane, UarteLane, OwnTransfer
    <2> QED
      BY <1>1, <1>11, <2>1, UarteLaneStep DEF Stops, UarteInv
  <1>12. ASSUME NEW i \in Irqs, TakeIrq(i) PROVE Types' /\ UarteInv'
    BY <1>12, TakenIrq DEF UarteInv
  <1>13. ASSUME isr.at # "idle", NEW i, i = NextLane(isr.l, "wake")
         PROVE  IsrAt(i, {"wake", "stop"})
    <2>1. Rx \in Lanes /\ Tx \in Lanes /\ "wake" \in Points /\ "stop" \in Points
      BY DEF Lanes, Points
    <2>2. \/ i = [isr EXCEPT !.l = Tx, !.at = "wake"]
          \/ i = [isr EXCEPT !.l = Rx, !.at = "stop"]
          \/ i = Idle
      BY <1>13 DEF NextLane
    <2>3. Moved(i, "wake", Tx) \/ Moved(i, "stop", Rx) \/ IsrAt(i, {"wake", "stop"})
      BY <1>13, <2>1, <2>2, IsrMoves, IsrReturns
    <2> QED
      BY <2>3 DEF Moved, IsrAt
  <1>14. CASE UarteHandlerWakes
    <2>1. isr.at = "wake" /\ isr \in Isr /\ isr.l \in Lanes /\ isr.irq \in Irqs
          /\ UNCHANGED <<kind, above, drv, nvic>>
      BY <1>14 DEF UarteHandlerWakes, Types, IsrAt
    <2>2. CASE lane[isr.l].event # "off"
      <3>1. PICK l \in Lanes : l = isr.l
        BY <2>1
      <3> DEFINE p == lane[l]
                 r == Wake(p)
      <3>2. /\ r \in Lane
            /\ r.fut = p.fut \/ (p.fut = "asleep" /\ r.fut = "ready")
            /\ p.waker => r.fut # "asleep"
            /\ r.waker = p.waker /\ r.event = p.event /\ r.inten = p.inten
            /\ r.dma = p.dma /\ r.got = p.got /\ r.want = p.want
        BY <1>3, WokenLane
      <3>3. Set(l, r) /\ isr' = [isr EXCEPT !.at = "intenclr"]
        BY <1>14, <2>2, <3>1 DEF UarteHandlerWakes
      <3> HIDE DEF r
      <3>4. UarteLane(r) /\ r.event # "off" /\ r.fut # "asleep"
        BY <1>3, <2>2, <3>1, <3>2 DEF UarteLane, OwnTransfer
      <3>5. isr' \in Isr /\ isr'.at = "intenclr" /\ isr'.irq \in Irqs /\ isr'.l = l
        BY <2>1, <3>1, <3>3 DEF Isr, Points
      <3>6. lane' \in [Lanes -> Lane] /\ lane'[l] = r
            /\ \A m \in Lanes : m # l => lane'[m] = lane[m]
        BY <1>1, <3>2, <3>3, SetLane
      <3>7. Types'
        BY <2>1, <3>5, <3>6 DEF Types, PointsOf, IsrAt
      <3>8. UarteInv'
        BY <2>1, <3>2, <3>4, <3>5, <3>6 DEF UarteInv
      <3> QED
        BY <3>7, <3>8
    <2>3. CASE lane[isr.l].event = "off"
      <3>1. isr' = NextLane(isr.l, "wake") /\ UNCHANGED <<kind, above, drv, lane, nvic>>
        BY <1>14, <2>3 DEF UarteHandlerWakes
      <3>2. IsrAt(isr', {"wake", "stop"})
        BY <1>13, <2>1, <3>1
      <3> QED
        BY <3>1, <3>2 DEF Types, PointsOf, IsrAt, UarteInv
    <2> QED
      BY <2>2, <2>3
  <1>15. CASE UarteHandlerMasks
    <2>1. PICK l \in Lanes : l = isr.l
      BY <1>15 DEF UarteHandlerMasks, Types, IsrAt
    <2> DEFINE r == [lane[l] EXCEPT !.inten = FALSE]
    <2>2. isr.at = "intenclr" /\ Set(l, r)
          /\ isr' = NextLane(isr.l, "wake") /\ UNCHANGED <<kind, above, drv, nvic>>
      BY <1>15, <2>1 DEF UarteHandlerMasks
    <2>3. lane[l] \in Lane /\ UarteLane(lane[l]) /\ lane[l].event # "off" /\ lane[l].fut # "asleep"
      BY <1>3, <2>1, <2>2 DEF UarteInv
    <2>4. r \in Lane /\ r.fut = lane[l].fut
      BY <2>3 DEF Lane
    <2>5. UarteLane(r)
      BY <2>3 DEF Lane, UarteLane, OwnTransfer
    <2> HIDE DEF r
    <2>6. lane' \in [Lanes -> Lane] /\ lane'[l] = r
          /\ \A m \in Lanes : m # l => lane'[m] = lane[m]
      BY <1>1, <2>2, <2>4, SetLane
    <2>7. IsrAt(isr', {"wake", "stop"})
      BY <1>13, <2>2
    <2>8. Types'
      BY <2>2, <2>6, <2>7 DEF Types, PointsOf, IsrAt
    <2>9. UarteInv'
      BY <2>2, <2>4, <2>5, <2>6, <2>7 DEF IsrAt, UarteInv
    <2> QED
      BY <2>8, <2>9
  <1>16. CASE UarteHandlerStops
    <2>1. PICK l \in Lanes : l = isr.l
      BY <1>16 DEF UarteHandlerStops, Types, IsrAt
    <2> DEFINE e == lane[l].stop_inten /\ ~lane[l].stopped
               r == [lane[l] EXCEPT !.stop_inten = e]
    <2>2. /\ isr.at = "stop" /\ Set(l, r) /\ isr' = NextLane(isr.l, "stop")
          /\ drv = "up" => drv' = "up"
          /\ UNCHANGED <<kind, above, nvic>>
      BY <1>16, <2>1 DEF UarteHandlerStops
    <2>3. e \in BOOLEAN
      OBVIOUS
    <2> HIDE DEF e
    <2>4. r \in Lane /\ r.fut = lane[l].fut
      BY <1>3, <2>3 DEF Lane
    <2>5. UarteLane(r)
      BY <1>3 DEF Lane, UarteLane, OwnTransfer
    <2> HIDE DEF r
    <2>6. lane' \in [Lanes -> Lane] /\ lane'[l] = r
          /\ \A m \in Lanes : m # l => lane'[m] = lane[m]
      BY <1>1, <2>2, <2>4, SetLane
    <2>7. IsrAt(isr', {"stop"})
      <3>1. Tx \in Lanes /\ "stop" \in Points
        BY DEF Lanes, Points
      <3> QED
        BY <2>2, <3>1, IsrMoves, IsrReturns DEF NextLane, Moved
    <2>8. Types'
      BY <2>2, <2>6, <2>7 DEF Types, PointsOf, IsrAt
    <2>9. UarteInv'
      BY <2>2, <2>4, <2>5, <2>6, <2>7 DEF IsrAt, UarteInv
    <2> QED
      BY <2>8, <2>9
  <1>17. CASE UarteDropSleeps \/ UarteDropWakes \/ UarteDropped
    BY <1>17 DEF UarteDropSleeps, UarteDropWakes, UarteDropped, RemoveInterrupt, Types, UarteInv
  <1>18. CASE UarteDrop
    <2> DEFINE r(l) == [lane[l] EXCEPT !.stop_inten = TRUE]
    <2>1. \A l \in Lanes : lane[l].fut = "none"
      BY <1>18 DEF UarteDrop
    <2>2. ASSUME NEW l \in Lanes
          PROVE  r(l) \in Lane /\ UarteLane(r(l)) /\ r(l).fut = "none" /\ r(l).event = lane[l].event
      <3>1. r(l) \in Lane /\ r(l).fut = "none" /\ r(l).event = lane[l].event
        BY <1>3, <2>1 DEF Lane
      <3>2. UarteLane(r(l))
        BY <1>3, <2>1 DEF Lane, UarteLane, OwnTransfer
      <3> QED
        BY <3>1, <3>2
    <2>3. lane' = [l \in Lanes |-> r(l)] /\ UNCHANGED <<kind, above, nvic, isr>>
      BY <1>18 DEF UarteDrop
    <2> HIDE DEF r
    <2> QED
      BY <2>1, <2>2, <2>3 DEF Types, UarteInv
  <1>19. CASE UarteNew
    <2> DEFINE r(l) == [lane[l] EXCEPT !.inten = FALSE, !.stop_inten = FALSE, !.started = FALSE]
    <2>1. \A l \in Lanes : lane[l].fut = "none"
      BY <1>19 DEF UarteNew, UarteInv
    <2>2. ASSUME NEW l \in Lanes
          PROVE  r(l) \in Lane /\ UarteLane(r(l)) /\ r(l).fut = "none" /\ r(l).event = lane[l].event
      <3>1. r(l) \in Lane /\ r(l).fut = "none" /\ r(l).event = lane[l].event
        BY <1>3, <2>1 DEF Lane
      <3>2. UarteLane(r(l))
        BY <1>3, <2>1 DEF Lane, UarteLane, OwnTransfer
      <3> QED
        BY <3>1, <3>2
    <2>3. lane' = [l \in Lanes |-> r(l)] /\ drv' = "up" /\ UNCHANGED <<kind, above, nvic, isr>>
      BY <1>19 DEF UarteNew
    <2> HIDE DEF r
    <2> QED
      BY <2>1, <2>2, <2>3 DEF Types, UarteInv
  <1> QED
    BY <1>4, <1>5, <1>6, <1>7, <1>8, <1>9, <1>10, <1>11, <1>12, <1>14, <1>15, <1>16, <1>17,
       <1>18, <1>19, HandlerOf
    DEF Next, DropTask, User, UarteUser, UarteRead, UarteWrite, Task, UarteTask, Hardware

-----------------------------------------------------------------------------
(* Spim, OneShot and Qspi.                                                 *)

LEMMA OneLaneStep ==
    ASSUME Types, OneLaneInv, NEW l \in Lanes, NEW r \in Lane, OneLane(r), Set(l, r),
           nvic \subseteq nvic', nvic' \subseteq Irqs, UNCHANGED <<kind, above, isr>>,
           drv' = drv \/ (l = Rx /\ r.fut = "none"),
           l = Rx /\ r.fut # "none" => lane[Rx].fut # "none" \/ drv # "activating",
           l = Tx => r.fut = "none",
           isr.at = "mask" => r.fut # "asleep",
           r.fut = "asleep" => Rx \in nvic'
    PROVE  Types' /\ OneLaneInv'
  <1>1. Types'
    BY LaneTypes
  <1>2. lane'[l] = r /\ \A m \in Lanes : m # l => lane'[m] = lane[m]
    BY SetLane DEF Types
  <1>3. Rx \in Lanes /\ Tx \in Lanes
    BY DEF Lanes
  <1>4. \A m \in Lanes : OneLane(lane'[m])
    BY <1>2 DEF OneLaneInv
  <1> QED
    BY <1>1, <1>2, <1>3, <1>4 DEF OneLaneInv, OneLane

LEMMA OneLaneSteps ==
    DriversInv /\ kind \in {"spim", "saadc", "qspi"} /\ Next => Types' /\ OneLaneInv'
  <1> SUFFICES ASSUME Types, OneLaneInv, kind \in {"spim", "saadc", "qspi"}, Next
               PROVE  Types' /\ OneLaneInv'
    BY DEF DriversInv
  <1>1. /\ ~above /\ lane \in [Lanes -> Lane] /\ nvic \subseteq Irqs
        /\ Rx \in Lanes /\ Tx \in Lanes /\ Rx # Tx /\ Rx \in Irqs
    BY DEF Types, GpioteKinds, Irqs, Lanes, Rx, Tx
  <1>2. TaskRuns => isr.at = "idle"
    BY <1>1 DEF TaskRuns, Idle
  <1>3. ASSUME NEW l \in Lanes PROVE lane[l] \in Lane /\ OneLane(lane[l])
    BY <1>1 DEF OneLaneInv
  <1> DEFINE p == lane[Rx]
  <1>4. p \in Lane /\ OneLane(p)
    BY <1>1, <1>3
  <1>5. CASE StartTransfer(Rx)
    <2> DEFINE n == Renew(p)
               r == [n EXCEPT !.event = "off", !.inten = TRUE, !.dma = @ \cup {"own"},
                              !.fut = "ready"]
    <2>1. /\ Set(Rx, r) /\ p.fut = "none" /\ isr.at = "idle" /\ drv = "up"
          /\ UNCHANGED <<kind, above, drv, nvic, isr>>
      BY <1>2, <1>5 DEF StartTransfer, Start
    <2>2. /\ n \in Lane /\ n.want = "off" /\ n.got = "own" /\ n.clean = p.clean
          /\ p.dma = {} => n.dma = {}
      BY <1>4, RenewedLane DEF OneLane
    <2>3. kind = "qspi" \/ n.clean => n.dma = {}
      BY <1>4, <2>1, <2>2 DEF OneLane, OwnTransfer
    <2> HIDE DEF n
    <2>4. n.dma \cup {"own"} \in SUBSET {"own", "stale"}
      BY <2>2 DEF Lane
    <2>5. r \in Lane /\ r.fut = "ready"
      BY <2>2, <2>4 DEF Lane, Futures
    <2>6. OneLane(r)
      BY <2>2, <2>3 DEF Lane, OneLane, OwnTransfer
    <2> HIDE DEF r
    <2> QED
      BY <1>1, <2>1, <2>5, <2>6, OneLaneStep
  <1>6. CASE AbandonTransfer(Rx) /\ kind # "qspi"
    <2> DEFINE r == Dropped(p)
    <2>1. /\ r \in Lane /\ r.fut = "none" /\ r.want = "off" /\ r.clean = FALSE
      BY <1>4, DroppedLane
    <2>2. Set(Rx, r) /\ isr.at = "idle" /\ UNCHANGED <<kind, above, drv, nvic, isr>>
      BY <1>2, <1>6 DEF AbandonTransfer, Droppable
    <2> HIDE DEF r
    <2>3. OneLane(r)
      BY <1>6, <2>1 DEF OneLane
    <2> QED
      BY <1>1, <2>1, <2>2, <2>3, OneLaneStep
  <1>7. CASE QspiCancel
    <2> DEFINE d == Dropped(p)
               r == [d EXCEPT !.fut = "panic"]
    <2>1. /\ d \in Lane /\ d.want = "off" /\ d.clean = FALSE /\ d.got = p.got
          /\ d.event = p.event /\ d.dma = p.dma
      BY <1>4, DroppedLane
    <2>2. Set(Rx, r) /\ p.fut # "none" /\ isr.at = "idle" /\ UNCHANGED <<kind, above, drv, nvic, isr>>
      BY <1>2, <1>7 DEF QspiCancel, Droppable
    <2> HIDE DEF d
    <2>3. r \in Lane /\ r.fut = "panic"
      BY <2>1 DEF Lane, Futures
    <2>4. OneLane(r)
      BY <1>4, <2>1 DEF Lane, OneLane, OwnTransfer
    <2> HIDE DEF r
    <2> QED
      BY <1>1, <2>2, <2>3, <2>4, OneLaneStep
  <1>8. CASE TakeEvent(Rx)
    <2>1. p.fut = "ready" /\ isr.at = "idle" /\ UNCHANGED <<kind, above, drv, nvic, isr>>
      BY <1>2, <1>8 DEF TakeEvent
    <2>2. CASE p.event # "off"
      <3> DEFINE e == Ready(p, p.event)
                 r == [e EXCEPT !.event = "off"]
      <3>1. /\ e \in Lane /\ e.fut = "none" /\ e.want = "off" /\ e.got = p.event
            /\ e.clean = p.clean /\ e.dma = p.dma
        <4>1. p.event \in {"own", "stale"}
          BY <1>4, <2>2 DEF Lane
        <4> QED
          BY <1>4, <4>1, ReadyLane
      <3>2. Set(Rx, r)
        BY <1>8, <2>2 DEF TakeEvent
      <3> HIDE DEF e
      <3>3. r \in Lane /\ r.fut = "none"
        BY <3>1 DEF Lane
      <3>4. p.event = "stale" => ~(kind = "qspi" \/ p.clean)
        BY <1>4 DEF OneLane, OwnTransfer
      <3>5. p.event \in {"own", "stale"}
        BY <1>4, <2>2 DEF Lane
      <3>6. OneLane(r)
        BY <1>4, <2>2, <3>1, <3>4, <3>5 DEF Lane, OneLane, OwnTransfer
      <3> HIDE DEF r
      <3> QED
        BY <1>1, <2>1, <3>2, <3>3, <3>6, OneLaneStep
    <2>3. CASE p.event = "off"
      <3> DEFINE r == [p EXCEPT !.fut = "mid", !.woken = FALSE]
      <3>1. Set(Rx, r)
        BY <1>8, <2>3 DEF TakeEvent
      <3>2. r \in Lane /\ r.fut = "mid"
        BY <1>4 DEF Lane, Futures
      <3>3. OneLane(r)
        BY <1>4, <2>1 DEF Lane, OneLane, OwnTransfer
      <3> HIDE DEF r
      <3> QED
        BY <1>1, <2>1, <3>1, <3>2, <3>3, OneLaneStep
    <2> QED
      BY <2>2, <2>3
  <1>9. CASE AwaitEvent(Rx)
    <2> DEFINE w == [p EXCEPT !.waker = TRUE]
               r == Pending(w)
    <2>1. /\ p.fut = "mid" /\ isr.at = "idle" /\ UNCHANGED <<kind, above, drv, isr>>
          /\ Set(Rx, r) /\ nvic' = nvic \cup {Rx}
      BY <1>2, <1>9 DEF AwaitEvent, wake_on_interrupt
    <2>2. w \in Lane /\ w.fut = p.fut
      BY <1>4 DEF Lane
    <2>3. OneLane(w) /\ w.waker
      BY <1>4, <2>1 DEF Lane, OneLane, OwnTransfer
    <2> HIDE DEF w
    <2>4. /\ r \in Lane /\ r.fut \in {"ready", "asleep"}
          /\ r.waker = w.waker /\ r.event = w.event /\ r.inten = w.inten /\ r.dma = w.dma
          /\ r.got = w.got /\ r.clean = w.clean /\ r.want = w.want
      BY <2>2, PendingLane
    <2> HIDE DEF r
    <2>5. OneLane(r)
      BY <2>1, <2>2, <2>3, <2>4 DEF OneLane, OwnTransfer
    <2> QED
      BY <1>1, <2>1, <2>4, <2>5, OneLaneStep
  <1>10. CASE PollAgain(Rx)
    <2> DEFINE r == [p EXCEPT !.fut = "ready"]
    <2>1. p.fut = "asleep" /\ Set(Rx, r) /\ UNCHANGED <<kind, above, drv, nvic, isr>>
      BY <1>10 DEF PollAgain
    <2>2. r \in Lane /\ r.fut = "ready"
      BY <1>4 DEF Lane, Futures
    <2>3. OneLane(r)
      BY <1>4, <2>1 DEF Lane, OneLane, OwnTransfer
    <2> HIDE DEF r
    <2> QED
      BY <1>1, <2>1, <2>2, <2>3, OneLaneStep
  <1>11. ASSUME NEW l \in Lanes, TransferEnds(l) PROVE Types' /\ OneLaneInv'
    <2>1. PICK k \in lane[l].dma :
            /\ Set(l, [lane[l] EXCEPT !.dma = @ \ {k}, !.event = k])
            /\ UNCHANGED <<kind, above, drv, nvic, isr>>
      BY <1>11 DEF TransferEnds
    <2> DEFINE o == lane[l]
               r == [o EXCEPT !.dma = @ \ {k}, !.event = k]
    <2>2. o \in Lane /\ OneLane(o) /\ k \in {"own", "stale"} /\ o.dma \ {k} \in SUBSET {"own", "stale"}
      BY <1>3, <2>1 DEF Lane
    <2>3. r \in Lane /\ r.fut = o.fut
      BY <2>2 DEF Lane
    <2>4. OneLane(r)
      BY <2>1, <2>2 DEF Lane, OneLane, OwnTransfer
    <2>5. (l = Tx => o.fut = "none") /\ (o.fut = "asleep" => isr.at # "mask" /\ Rx \in nvic)
      BY <1>1 DEF OneLaneInv, Lanes, Rx, Tx
    <2> QED
      BY <1>1, <2>1, <2>3, <2>4, <2>5, OneLaneStep
  <1>12. CASE SaadcDrop \/ QspiSleep
    BY <1>12 DEF SaadcDrop, QspiSleep, Types, OneLaneInv, OneLane
  <1>13. ASSUME NEW i \in Irqs, TakeIrq(i) PROVE Types' /\ OneLaneInv'
    <2>1. i = Rx /\ Owner(i) = Rx
      BY <1>13, TakenIrq DEF Line, EventLine, Owner, Rx, Tx
    <2> QED
      BY <1>13, <2>1, TakenIrq DEF OneLaneInv, OneLane
  <1>14. CASE HandlerWakes
    <2>1. isr.l = Rx /\ isr.irq = Rx /\ isr'.l = Rx /\ isr'.irq = Rx /\ isr'.at = "mask" /\ Types'
          /\ UNCHANGED <<kind, above, drv, nvic>>
      BY <1>14, WakesLane DEF OneLaneInv
    <2>2. \A m \in Lanes : m # Rx => lane'[m] = lane[m]
      BY <1>14, <2>1, WakesLane
    <2>3. PICK r \in Lane :
                /\ r = lane'[Rx]
                /\ r.fut = p.fut \/ (p.fut = "asleep" /\ r.fut = "ready")
                /\ p.waker => r.fut # "asleep"
                /\ r.waker = p.waker /\ r.event = p.event /\ r.inten = p.inten
                /\ r.got = IF p.event = "off" THEN p.got ELSE p.event
                /\ r.dma = p.dma /\ r.clean = p.clean /\ r.want = p.want
      BY <1>14, <2>1, WakesLane
    <2>4. OneLane(r) /\ r.fut # "asleep"
      <3>1. p.event \in {"off", "own", "stale"}
        BY <1>4 DEF Lane
      <3> QED
        BY <1>4, <2>3, <3>1 DEF OneLane, OwnTransfer
    <2> QED
      BY <1>1, <2>1, <2>2, <2>3, <2>4 DEF OneLaneInv, OneLane
  <1>15. CASE HandlerMasks
    BY <1>1, <1>15, MasksIrq DEF OneLaneInv, OneLane
  <1>16. CASE SpimNew \/ SaadcNew
    <2> DEFINE r == [p EXCEPT !.inten = FALSE]
    <2>1. p.fut = "none" /\ Set(Rx, r) /\ UNCHANGED <<kind, above, nvic, isr>>
      BY <1>16 DEF SpimNew, SaadcNew, OneLaneInv
    <2>2. r \in Lane /\ r.fut = "none"
      BY <1>4, <2>1 DEF Lane
    <2>3. OneLane(r)
      BY <1>4, <2>1 DEF Lane, OneLane, OwnTransfer
    <2> HIDE DEF r
    <2> QED
      BY <1>1, <2>1, <2>2, <2>3, OneLaneStep
  <1>17. CASE QspiNew \/ QspiActivated
    <2> DEFINE r == [p EXCEPT !.event = "off"]
    <2>1. p.fut = "none" /\ Set(Rx, r) /\ UNCHANGED <<kind, above, nvic, isr>>
      BY <1>17 DEF QspiNew, QspiActivated, OneLaneInv
    <2>2. r \in Lane /\ r.fut = p.fut
      BY <1>4 DEF Lane
    <2>3. OneLane(r)
      BY <1>4 DEF Lane, OneLane, OwnTransfer
    <2> HIDE DEF r
    <2> QED
      BY <1>1, <2>1, <2>2, <2>3, OneLaneStep DEF OneLaneInv
  <1>18. CASE QspiReady /\ kind = "qspi"
    <2> DEFINE r == [p EXCEPT !.event = "own"]
    <2>1. p.fut = "none" /\ Set(Rx, r) /\ UNCHANGED <<kind, above, drv, nvic, isr>>
      BY <1>18 DEF QspiReady, OneLaneInv
    <2>2. r \in Lane /\ r.fut = p.fut
      BY <1>4 DEF Lane
    <2>3. OneLane(r)
      BY <1>4, <1>18, <2>1 DEF Lane, OneLane, OwnTransfer
    <2> HIDE DEF r
    <2> QED
      BY <1>1, <2>1, <2>2, <2>3, OneLaneStep DEF OneLaneInv
  <1> QED
    BY <1>5, <1>6, <1>7, <1>8, <1>9, <1>10, <1>11, <1>12, <1>13, <1>14, <1>15, <1>16, <1>17,
       <1>18, HandlerOf
    DEF Next, DropTask, User, SpimReadWrite, SaadcSample, QspiCustomInstruction, QspiRead,
        QspiWrite, QspiErase, Task, SpimPoll, SaadcPoll, QspiPoll, Hardware

-----------------------------------------------------------------------------
(* InputChannel.                                                           *)

LEMMA ChannelLaneStep ==
    ASSUME Types, ChannelInv, NEW l \in Lanes, NEW r \in Lane, ChannelLane(r), Set(l, r),
           UNCHANGED <<kind, above, drv, nvic, isr>>,
           r.fut = "asleep" => r.inten \/ (isr.at = "channel_wake" /\ isr.l = l),
           isr.at = "channel_mask" /\ isr.l = l => r.event # "off"
    PROVE  Types' /\ ChannelInv'
  <1>1. Types'
    BY LaneTypes DEF Types
  <1>2. lane'[l] = r /\ \A m \in Lanes : m # l => lane'[m] = lane[m]
    BY SetLane DEF Types
  <1> QED
    BY <1>1, <1>2 DEF ChannelInv

LEMMA ChannelSteps == DriversInv /\ kind = "channel" /\ Next => Types' /\ ChannelInv'
  <1> SUFFICES ASSUME Types, ChannelInv, kind = "channel", Next
               PROVE  Types' /\ ChannelInv'
    BY DEF DriversInv
  <1>1. lane \in [Lanes -> Lane] /\ (TaskRuns => isr.at = "idle")
    BY DEF Types, TaskRuns, Idle
  <1>2. ASSUME NEW l \in Lanes PROVE lane[l] \in Lane /\ ChannelLane(lane[l])
    BY <1>1 DEF ChannelInv
  <1>3. ASSUME NEW l \in Lanes, Register(l) PROVE Types' /\ ChannelInv'
    <2> DEFINE r == [lane[l] EXCEPT !.fut = "mid", !.waker = TRUE, !.woken = FALSE]
    <2>1. lane[l] \in Lane /\ ChannelLane(lane[l]) /\ lane[l].fut = "ready"
      BY <1>2, <1>3 DEF Register
    <2>2. r \in Lane /\ r.fut = "mid"
      BY <2>1 DEF Lane, Futures
    <2>3. ChannelLane(r)
      BY <2>1 DEF Lane, ChannelLane
    <2> QED
      BY <1>1, <1>3, <2>2, <2>3, ChannelLaneStep DEF Register
  <1>4. ASSUME NEW l \in Lanes, ChannelCheck(l) PROVE Types' /\ ChannelInv'
    <2>1. lane[l] \in Lane /\ ChannelLane(lane[l]) /\ lane[l].fut = "mid"
          /\ isr.at = "idle" /\ UNCHANGED <<kind, above, drv, nvic, isr>>
      BY <1>1, <1>2, <1>4 DEF ChannelCheck
    <2>2. CASE lane[l].event # "off"
      <3> DEFINE r == Ready(lane[l], "own")
      <3>1. lane[l].event = "own"
        BY <2>1, <2>2 DEF ChannelLane, Lane
      <3>2. Set(l, r)
        BY <1>4, <2>2, <3>1 DEF ChannelCheck
      <3>3. /\ r \in Lane /\ r.fut = "none" /\ r.want = "off" /\ r.got = "own"
            /\ r.event = lane[l].event /\ r.dma = lane[l].dma
        BY <2>1, ReadyLane
      <3> HIDE DEF r
      <3>4. ChannelLane(r)
        BY <2>1, <3>3 DEF ChannelLane
      <3> QED
        BY <2>1, <3>2, <3>3, <3>4, ChannelLaneStep
    <2>3. CASE lane[l].event = "off"
      <3> DEFINE r == Pending(lane[l])
      <3>1. Set(l, r)
        BY <1>4, <2>3 DEF ChannelCheck
      <3>2. /\ r \in Lane /\ r.fut \in {"ready", "asleep"} /\ r.want = lane[l].want
            /\ r.got = lane[l].got /\ r.event = lane[l].event /\ r.dma = lane[l].dma
            /\ r.waker = lane[l].waker /\ r.inten = lane[l].inten /\ r.sense = lane[l].sense
        BY <2>1, PendingLane
      <3> HIDE DEF r
      <3>3. ChannelLane(r) /\ r.inten
        BY <2>1, <2>3, <3>2 DEF ChannelLane
      <3> QED
        BY <2>1, <3>1, <3>2, <3>3, ChannelLaneStep
    <2> QED
      BY <2>2, <2>3
  <1>5. ASSUME NEW l \in Lanes, ChannelNew(l) PROVE Types' /\ ChannelInv'
    <2> DEFINE r == [lane[l] EXCEPT !.sense = "edge", !.event = "off"]
    <2>1. lane[l] \in Lane /\ ChannelLane(lane[l]) /\ lane[l].sense = "off"
      BY <1>2, <1>5 DEF ChannelNew
    <2>2. r \in Lane /\ r.fut = lane[l].fut /\ lane[l].fut = "none"
      BY <2>1 DEF Lane, Senses, ChannelLane
    <2>3. ChannelLane(r)
      BY <2>1, <2>2 DEF Lane, ChannelLane
    <2> QED
      BY <1>1, <1>5, <2>2, <2>3, ChannelLaneStep DEF ChannelNew
  <1>6. ASSUME NEW l \in Lanes, ChannelDrop(l) PROVE Types' /\ ChannelInv'
    <2> DEFINE r == [lane[l] EXCEPT !.sense = "off", !.inten = FALSE]
    <2>1. lane[l] \in Lane /\ ChannelLane(lane[l]) /\ lane[l].fut = "none"
      BY <1>2, <1>6 DEF ChannelDrop
    <2>2. r \in Lane /\ r.fut = "none"
      BY <2>1 DEF Lane, Senses
    <2>3. ChannelLane(r)
      BY <2>1 DEF Lane, ChannelLane
    <2> QED
      BY <1>1, <1>6, <2>2, <2>3, ChannelLaneStep DEF ChannelDrop
  <1>7. ASSUME NEW l \in Lanes, ChannelWait(l) PROVE Types' /\ ChannelInv'
    <2> DEFINE n == Renew(lane[l])
               r == [n EXCEPT !.event = "off", !.inten = TRUE, !.fut = "ready"]
    <2>1. Set(l, r) /\ lane[l].sense = "edge" /\ UNCHANGED <<kind, above, drv, nvic, isr>>
          /\ isr.at = "idle"
      BY <1>1, <1>7 DEF ChannelWait
    <2>2. n \in Lane /\ n.dma = {} /\ n.want = "off" /\ n.got = "own" /\ n.sense = "edge"
      <3>1. lane[l] \in Lane /\ lane[l].dma = {} /\ lane[l].want = "off"
        BY <1>2 DEF ChannelLane
      <3> QED
        BY <2>1, <3>1, RenewedLane
    <2> HIDE DEF n
    <2>3. r \in Lane /\ r.fut = "ready"
      BY <2>2 DEF Lane, Futures
    <2>4. ChannelLane(r)
      BY <2>2 DEF Lane, ChannelLane
    <2> HIDE DEF r
    <2> QED
      BY <2>1, <2>3, <2>4, ChannelLaneStep
  <1>8. ASSUME NEW l \in Lanes, ChannelCancel(l) PROVE Types' /\ ChannelInv'
    <2> DEFINE r == [lane[l] EXCEPT !.fut = "none"]
    <2>1. r \in Lane /\ r.fut = "none"
      BY <1>2 DEF Lane, Futures
    <2>2. ChannelLane(r)
      BY <1>2 DEF Lane, ChannelLane
    <2> QED
      BY <1>1, <1>8, <2>1, <2>2, ChannelLaneStep DEF ChannelCancel, Droppable
  <1>9. ASSUME NEW l \in Lanes, ChannelEdge(l) PROVE Types' /\ ChannelInv'
    <2> DEFINE r == [lane[l] EXCEPT !.event = "own"]
    <2>1. r \in Lane /\ r.fut = lane[l].fut /\ r.inten = lane[l].inten /\ r.event = "own"
      BY <1>2 DEF Lane
    <2>2. ChannelLane(r)
      BY <1>2 DEF Lane, ChannelLane
    <2> QED
      BY <1>9, <2>1, <2>2, ChannelLaneStep DEF ChannelEdge, ChannelInv
  <1>10. ASSUME NEW l \in Lanes, PollAgain(l) PROVE Types' /\ ChannelInv'
    <2> DEFINE r == [lane[l] EXCEPT !.fut = "ready"]
    <2>1. lane[l] \in Lane /\ ChannelLane(lane[l]) /\ lane[l].fut = "asleep"
      BY <1>2, <1>10 DEF PollAgain
    <2>2. r \in Lane /\ r.fut = "ready" /\ r.event = lane[l].event
      BY <2>1 DEF Lane, Futures
    <2>3. ChannelLane(r)
      BY <2>1 DEF Lane, ChannelLane
    <2> QED
      BY <1>10, <2>2, <2>3, ChannelLaneStep DEF PollAgain, ChannelInv
  <1>11. ASSUME NEW i \in Irqs, TakeIrq(i) PROVE Types' /\ ChannelInv'
    BY <1>11, TakenIrq DEF ChannelInv
  <1>12. /\ Tx \in Lanes /\ "channel" \in Points /\ "channel_mask" \in Points
         /\ "channel_wake" \in Points
    BY DEF Lanes, Points
  <1>13. ASSUME isr.at # "idle", NEW i, i = NextChannel
         PROVE  IsrAt(i, {"channel"})
    BY <1>12, <1>13, IsrMoves, IsrReturns DEF NextChannel, Moved
  <1>14. CASE ChannelHandlerReads
    <2>1. isr.at = "channel" /\ UNCHANGED <<kind, above, drv, lane, nvic>>
      BY <1>14 DEF ChannelHandlerReads
    <2>2. CASE lane[isr.l].event # "off"
      <3>1. isr' = [isr EXCEPT !.at = "channel_mask"]
        BY <1>14, <2>2 DEF ChannelHandlerReads
      <3>2. IsrAt(isr', {"channel_mask"}) /\ isr'.at = "channel_mask" /\ isr'.l = isr.l
        BY <1>12, <2>1, <3>1, IsrMoves DEF Moved
      <3> QED
        BY <2>1, <2>2, <3>2 DEF Types, PointsOf, IsrAt, ChannelInv
    <2>3. CASE lane[isr.l].event = "off"
      <3>1. IsrAt(isr', {"channel"})
        BY <1>13, <1>14, <2>1, <2>3 DEF ChannelHandlerReads
      <3> QED
        BY <2>1, <3>1 DEF Types, PointsOf, IsrAt, ChannelInv
    <2> QED
      BY <2>2, <2>3
  <1>15. CASE ChannelHandlerMasks
    <2>1. PICK l \in Lanes : l = isr.l /\ lane[l] \in Lane /\ ChannelLane(lane[l])
      BY <1>2, <1>15 DEF ChannelHandlerMasks, Types, IsrAt
    <2> DEFINE r == [lane[l] EXCEPT !.inten = FALSE]
    <2>2. /\ isr.at = "channel_mask" /\ UNCHANGED <<kind, above, drv, nvic>>
          /\ Set(l, r) /\ isr' = [isr EXCEPT !.at = "channel_wake"]
      BY <1>15, <2>1 DEF ChannelHandlerMasks
    <2>3. lane[l].event # "off"
      BY <2>1, <2>2 DEF ChannelInv
    <2>4. r \in Lane
      BY <2>1 DEF Lane
    <2>5. ChannelLane(r)
      BY <2>1, <2>3 DEF Lane, ChannelLane
    <2> HIDE DEF r
    <2>6. lane' \in [Lanes -> Lane] /\ lane'[l] = r
          /\ \A m \in Lanes : m # l => lane'[m] = lane[m]
      BY <1>1, <2>2, <2>4, SetLane
    <2>7. IsrAt(isr', {"channel_wake"}) /\ isr'.at = "channel_wake" /\ isr'.l = l
      BY <1>12, <2>1, <2>2, IsrMoves DEF Moved
    <2>8. Types'
      BY <2>2, <2>6, <2>7 DEF Types, PointsOf, IsrAt
    <2>9. ChannelInv'
      BY <2>2, <2>5, <2>6, <2>7 DEF ChannelInv
    <2> QED
      BY <2>8, <2>9
  <1>16. CASE ChannelHandlerWakes
    <2>1. PICK l \in Lanes : l = isr.l
      BY <1>16 DEF ChannelHandlerWakes, Types, IsrAt
    <2> DEFINE p == lane[l]
               r == Wake(p)
    <2>2. /\ isr.at = "channel_wake" /\ UNCHANGED <<kind, above, drv, nvic>>
          /\ Set(l, r) /\ isr' = NextChannel
      BY <1>16, <2>1 DEF ChannelHandlerWakes
    <2>3. /\ r \in Lane
          /\ r.fut = p.fut \/ (p.fut = "asleep" /\ r.fut = "ready")
          /\ p.waker => r.fut # "asleep"
          /\ r.waker = p.waker /\ r.event = p.event /\ r.inten = p.inten
          /\ r.dma = p.dma /\ r.got = p.got /\ r.want = p.want /\ r.sense = p.sense
      BY <1>2, WokenLane
    <2> HIDE DEF r
    <2>4. ChannelLane(r) /\ r.fut # "asleep"
      BY <1>2, <2>3 DEF ChannelLane
    <2>5. lane' \in [Lanes -> Lane] /\ lane'[l] = r
          /\ \A m \in Lanes : m # l => lane'[m] = lane[m]
      BY <1>1, <2>2, <2>3, SetLane
    <2>6. IsrAt(isr', {"channel"})
      BY <1>13, <2>2
    <2>7. Types'
      BY <2>2, <2>5, <2>6 DEF Types, PointsOf, IsrAt
    <2>8. ChannelInv'
      BY <2>1, <2>2, <2>4, <2>5, <2>6 DEF IsrAt, ChannelInv
    <2> QED
      BY <2>7, <2>8
  <1> QED
    BY <1>3, <1>4, <1>5, <1>6, <1>7, <1>8, <1>9, <1>10, <1>11, <1>14, <1>15, <1>16,
       HandlerOf
    DEF Next, DropTask, User, ChannelUser, Task, ChannelTask, Hardware, DmaKinds

-----------------------------------------------------------------------------
(* PortInput, whose task may run between the steps of the handler.         *)

LEMMA PortLaneStep ==
    ASSUME Types, PortInv, NEW l \in Lanes, NEW r \in Lane, PortLane(r), Set(l, r),
           UNCHANGED <<kind, above, drv, nvic, isr>>,
           Leftover(r) => Sensed(l),
           (r.event = "off") <=> (lane[l].event = "off")
    PROVE  Types' /\ PortInv'
  <1>1. Types'
    BY LaneTypes DEF Types
  <1>2. lane'[l] = r /\ \A m \in Lanes : m # l => lane'[m] = lane[m]
    BY SetLane DEF Types
  <1>3. \A m \in Lanes : Sensed(m) => Sensed(m)'
    BY DEF Sensed
  <1> QED
    BY <1>1, <1>2, <1>3 DEF PortInv

LEMMA PortTaskSteps ==
    ASSUME Types, PortInv, kind = "port", NEW l \in Lanes,
           \/ Register(l) \/ PortCheck(l) \/ wait_for(l, "high") \/ wait_for(l, "low")
           \/ PinChanges(l) \/ PortCancel(l) \/ PollAgain(l)
    PROVE  Types' /\ PortInv'
  <1> DEFINE p == lane[l]
  <1>1. p \in Lane /\ PortLane(p) /\ (Leftover(p) => Sensed(l))
    BY DEF Types, PortInv
  <1>2. CASE Register(l)
    <2> DEFINE r == [p EXCEPT !.fut = "mid", !.waker = TRUE, !.woken = FALSE]
    <2>1. Set(l, r) /\ p.fut = "ready" /\ UNCHANGED <<kind, above, drv, nvic, isr>>
      BY <1>2 DEF Register
    <2>2. r \in Lane /\ r.event = p.event
      BY <1>1 DEF Lane, Futures
    <2>3. PortLane(r) /\ (Leftover(r) => Leftover(p))
      BY <1>1, <2>1 DEF Lane, PortLane, Leftover
    <2> QED
      BY <1>1, <2>1, <2>2, <2>3, PortLaneStep
  <1>3. CASE PortCheck(l)
    <2>1. p.fut = "mid" /\ UNCHANGED <<kind, above, drv, nvic, isr>>
      BY <1>3 DEF PortCheck
    <2>2. CASE p.sense = "off"
      <3> DEFINE r == Ready(p, p.got)
      <3>1. Set(l, r)
        BY <1>3, <2>2 DEF PortCheck
      <3>2. p.got \in {"own", "stale"}
        BY <1>1 DEF Lane
      <3>3. /\ r \in Lane /\ r.fut = "none" /\ r.want = "off" /\ r.got = p.got
            /\ r.event = p.event /\ r.dma = p.dma /\ r.sense = p.sense /\ r.clean = p.clean
        BY <1>1, <3>2, ReadyLane
      <3> HIDE DEF r
      <3>4. PortLane(r) /\ (Leftover(r) => Leftover(p))
        BY <1>1, <2>2, <3>3 DEF PortLane, Leftover
      <3> QED
        BY <1>1, <2>1, <3>1, <3>3, <3>4, PortLaneStep
    <2>3. CASE p.sense # "off"
      <3> DEFINE r == Pending(p)
      <3>1. Set(l, r)
        BY <1>3, <2>3 DEF PortCheck
      <3>2. /\ r \in Lane /\ r.fut \in {"ready", "asleep"} /\ r.want = p.want
            /\ r.got = p.got /\ r.event = p.event /\ r.dma = p.dma /\ r.clean = p.clean
            /\ r.waker = p.waker /\ r.sense = p.sense
        BY <1>1, PendingLane
      <3> HIDE DEF r
      <3>3. PortLane(r) /\ (Leftover(r) => Leftover(p))
        BY <1>1, <2>1, <3>2 DEF PortLane, Leftover
      <3> QED
        BY <1>1, <2>1, <3>1, <3>2, <3>3, PortLaneStep
    <2> QED
      BY <2>2, <2>3
  <1>4. ASSUME NEW want \in {"high", "low"}, wait_for(l, want) PROVE Types' /\ PortInv'
    <2> DEFINE n == Renew(p)
               r == [n EXCEPT !.sense = want, !.fut = "ready"]
    <2>1. Set(l, r) /\ p.fut = "none" /\ UNCHANGED <<kind, above, drv, nvic, isr>>
      BY <1>4 DEF wait_for
    <2>2. /\ n \in Lane /\ n.dma = {} /\ n.want = "off" /\ n.got = "own"
          /\ n.clean = p.clean /\ n.event = IF p.event = "off" THEN "off" ELSE "stale"
      <3>1. p.dma = {} /\ p.want = "off"
        BY <1>1 DEF PortLane
      <3> QED
        BY <1>1, <3>1, RenewedLane
    <2> HIDE DEF n
    <2>3. r \in Lane /\ r.event = n.event
      BY <2>2 DEF Lane, Futures, Senses
    <2>4. r.clean = p.clean
      BY <2>2 DEF Lane
    <2>5. PortLane(r)
      BY <2>2 DEF Lane, PortLane
    <2> HIDE DEF r
    <2>6. (r.event = "off" <=> p.event = "off") /\ (Leftover(r) => Leftover(p))
      BY <1>1, <2>1, <2>2, <2>3, <2>4 DEF PortLane, Leftover
    <2> QED
      BY <1>1, <2>1, <2>3, <2>5, <2>6, PortLaneStep
  <1>5. CASE PinChanges(l)
    <2> DEFINE r == [p EXCEPT !.level = ~@]
    <2>1. Set(l, r) /\ UNCHANGED <<kind, above, drv, nvic, isr>>
      BY <1>5 DEF PinChanges
    <2>2. r \in Lane /\ r.event = p.event
      BY <1>1 DEF Lane
    <2>3. PortLane(r) /\ (Leftover(r) => Leftover(p))
      BY <1>1 DEF Lane, PortLane, Leftover
    <2> QED
      BY <1>1, <2>1, <2>2, <2>3, PortLaneStep
  <1>6. CASE PortCancel(l)
    <2> DEFINE d == Dropped(p)
               r == [d EXCEPT !.sense = "off"]
    <2>1. Set(l, r) /\ UNCHANGED <<kind, above, drv, nvic, isr>>
      BY <1>6 DEF PortCancel
    <2>2. /\ d \in Lane /\ d.fut = "none" /\ d.want = "off" /\ d.clean = FALSE
          /\ d.event = p.event /\ d.dma = p.dma
      BY <1>1, DroppedLane
    <2> HIDE DEF d
    <2>3. r \in Lane /\ r.event = p.event
      BY <2>2 DEF Lane, Senses
    <2>4. PortLane(r) /\ ~Leftover(r)
      BY <1>1, <2>2 DEF Lane, PortLane, Leftover
    <2> HIDE DEF r
    <2> QED
      BY <1>1, <2>1, <2>3, <2>4, PortLaneStep
  <1>7. CASE PollAgain(l)
    <2> DEFINE r == [p EXCEPT !.fut = "ready"]
    <2>1. Set(l, r) /\ UNCHANGED <<kind, above, drv, nvic, isr>>
      BY <1>7 DEF PollAgain
    <2>2. r \in Lane /\ r.event = p.event
      BY <1>1 DEF Lane, Futures
    <2>3. PortLane(r) /\ (Leftover(r) => Leftover(p))
      BY <1>1 DEF Lane, PortLane, Leftover
    <2> QED
      BY <1>1, <2>1, <2>2, <2>3, PortLaneStep
  <1> QED
    BY <1>2, <1>3, <1>4, <1>5, <1>6, <1>7

LEMMA PortHandlerSteps ==
    ASSUME Types, PortInv, kind = "port", PortHandler
    PROVE  Types' /\ PortInv'
  <1>1. lane \in [Lanes -> Lane] /\ isr \in Isr
    BY DEF Types, IsrAt
  <1>2. ASSUME NEW l \in Lanes PROVE lane[l] \in Lane /\ PortLane(lane[l])
    BY <1>1 DEF PortInv
  <1>3. /\ Rx \in Lanes /\ Tx \in Lanes /\ Rx = 1 /\ Tx = 2 /\ \A l \in Lanes : l = 1 \/ l = 2
        /\ {"latch", "sense", "sense_wake", "clear"} \subseteq Points \cap PointsOf(kind)
    BY DEF Lanes, Rx, Tx, Points, PointsOf
  <1>4. CASE PortHandlerResets
    <2>1. /\ isr.at = "port" /\ isr' = [isr EXCEPT !.at = "latch"]
          /\ UNCHANGED <<kind, above, lane, nvic>>
      BY <1>4 DEF PortHandlerResets
    <2>2. IsrAt(isr', {"latch"}) /\ isr'.at = "latch"
      BY <1>3, <2>1, IsrMoves DEF Moved
    <2>3. Types'
      BY <1>3, <2>1, <2>2 DEF Types, IsrAt
    <2>4. \A l \in Lanes : ~Sensed(l)
      BY <2>1 DEF Sensed
    <2> QED
      BY <2>1, <2>2, <2>3, <2>4 DEF PortInv
  <1>5. CASE PortHandlerReads
    <2> DEFINE bits == {l \in Lanes : lane[l].event # "off"}
    <2>1. /\ isr.at = "latch" /\ isr' = [isr EXCEPT !.at = "sense", !.l = Rx, !.bits = bits]
          /\ UNCHANGED <<kind, above, drv, lane, nvic>>
      BY <1>5 DEF PortHandlerReads
    <2>2. bits \in SUBSET Lanes /\ \A l \in bits : lane[l].event # "off"
      OBVIOUS
    <2> HIDE DEF bits
    <2>3. isr.irq \in Irqs /\ Rx \in 0..2 /\ "sense" \in Points
      BY <2>1 DEF Types, IsrAt, Rx, Points
    <2>4. isr' \in Isr
      BY <1>1, <2>1, <2>2, <2>3 DEF Isr
    <2>5. isr'.at = "sense" /\ isr'.l = Rx /\ isr'.bits = bits /\ isr'.irq = isr.irq
      BY <1>1, <2>1 DEF Isr
    <2>6. Types'
      BY <1>3, <2>1, <2>3, <2>4, <2>5 DEF Types, IsrAt
    <2>7. \A l \in Lanes : ~Sensed(l)
      BY <2>1 DEF Sensed
    <2> QED
      BY <2>1, <2>2, <2>5, <2>6, <2>7 DEF PortInv
  <1>6. CASE PortHandlerSense
    <2>1. PICK l \in Lanes : l = isr.l
      BY <1>6 DEF PortHandlerSense, Types, IsrAt
    <2>2. isr.at = "sense" /\ UNCHANGED <<kind, above, drv, nvic>>
      BY <1>6 DEF PortHandlerSense
    <2>3. CASE l \in isr.bits
      <3> DEFINE p == lane[l]
                 g == IF Matches(l) THEN "own" ELSE p.event
                 r == [p EXCEPT !.sense = "off", !.got = g]
      <3>1. Set(l, r) /\ isr' = [isr EXCEPT !.at = "sense_wake"]
        BY <1>6, <2>1, <2>3 DEF PortHandlerSense
      <3>2. p \in Lane /\ PortLane(p) /\ p.event # "off" /\ ~Leftover(p)
        <4>1. ~Sensed(l)
          BY <1>3, <2>1, <2>2 DEF Sensed
        <4> QED
          BY <1>2, <2>2, <2>3, <4>1 DEF PortInv
      <3>3. g \in {"own", "stale"} /\ (p.clean => g = "own")
        BY <3>2 DEF Lane, Leftover
      <3> HIDE DEF g
      <3>4. r \in Lane /\ r.event = p.event
        BY <3>2, <3>3 DEF Lane, Senses
      <3>5. PortLane(r)
        BY <3>2, <3>3 DEF Lane, PortLane
      <3> HIDE DEF r
      <3>6. lane' \in [Lanes -> Lane] /\ lane'[l] = r
            /\ \A m \in Lanes : m # l => lane'[m] = lane[m]
        BY <1>1, <3>1, <3>4, SetLane
      <3>7. IsrAt(isr', {"sense_wake"}) /\ isr'.at = "sense_wake" /\ isr'.l = l /\ isr'.bits = isr.bits
        BY <1>3, <2>1, <2>2, <3>1, IsrMoves DEF Moved
      <3>8. Types'
        BY <1>3, <2>2, <3>6, <3>7 DEF Types, IsrAt
      <3>9. Sensed(l)' /\ \A m \in Lanes : Sensed(m) => Sensed(m)'
        BY <2>1, <2>2, <2>3, <3>7 DEF Sensed
      <3>10. PortInv'
        BY <2>2, <3>2, <3>4, <3>5, <3>6, <3>7, <3>9 DEF PortInv
      <3> QED
        BY <3>8, <3>10
    <2>4. CASE l \notin isr.bits
      <3>1. UNCHANGED lane /\ isr' = IF l = Rx THEN [isr EXCEPT !.l = Tx] ELSE [isr EXCEPT !.at = "clear"]
        BY <1>6, <2>1, <2>4 DEF PortHandlerSense
      <3>2. \/ IsrAt(isr', {"sense"}) /\ isr'.at = "sense" /\ isr'.l = 2 /\ isr'.bits = isr.bits
            \/ IsrAt(isr', {"clear"}) /\ isr'.at = "clear" /\ isr'.bits = isr.bits
        BY <1>3, <2>2, <3>1, IsrMoves DEF Moved
      <3>3. Types'
        BY <1>3, <2>2, <3>1, <3>2 DEF Types, IsrAt
      <3>4. \A m \in Lanes : Sensed(m) => Sensed(m)'
        BY <1>3, <2>1, <2>2, <3>2 DEF Sensed
      <3> QED
        BY <2>2, <3>1, <3>2, <3>3, <3>4 DEF PortInv
    <2> QED
      BY <2>3, <2>4
  <1>7. CASE PortHandlerWakes
    <2>1. PICK l \in Lanes : l = isr.l
      BY <1>7 DEF PortHandlerWakes, Types, IsrAt
    <2> DEFINE p == lane[l]
               r == Wake(p)
    <2>2. /\ isr.at = "sense_wake" /\ UNCHANGED <<kind, above, drv, nvic>> /\ Set(l, r)
          /\ isr' = IF l = Rx THEN [isr EXCEPT !.l = Tx, !.at = "sense"]
                               ELSE [isr EXCEPT !.at = "clear"]
      BY <1>7, <2>1 DEF PortHandlerWakes
    <2>3. /\ r \in Lane
          /\ r.fut = p.fut \/ (p.fut = "asleep" /\ r.fut = "ready")
          /\ r.waker = p.waker /\ r.event = p.event /\ r.dma = p.dma /\ r.got = p.got
          /\ r.want = p.want /\ r.sense = p.sense /\ r.clean = p.clean
      BY <1>2, WokenLane
    <2> HIDE DEF r
    <2>4. PortLane(r) /\ (Leftover(r) => Leftover(p))
      BY <1>2, <2>3 DEF PortLane, Leftover
    <2>5. lane' \in [Lanes -> Lane] /\ lane'[l] = r
          /\ \A m \in Lanes : m # l => lane'[m] = lane[m]
      BY <1>1, <2>2, <2>3, SetLane
    <2>6. \/ l = 1 /\ IsrAt(isr', {"sense"}) /\ isr'.at = "sense" /\ isr'.l = 2 /\ isr'.bits = isr.bits
          \/ IsrAt(isr', {"clear"}) /\ isr'.at = "clear" /\ isr'.bits = isr.bits
      <3>1. CASE l = Rx
        <4>1. isr' = [isr EXCEPT !.l = Tx, !.at = "sense"]
          BY <2>2, <3>1
        <4>2. Moved(isr', "sense", Tx)
          <5>1. isr.at # "idle" /\ "sense" \in Points
            BY <1>3, <2>2
          <5> QED
            BY <1>3, <4>1, <5>1, IsrMoves
        <4> QED
          BY <1>3, <3>1, <4>2 DEF Moved
      <3>2. CASE l # Rx
        <4>1. isr' = [isr EXCEPT !.at = "clear"]
          BY <2>2, <3>2
        <4>2. Moved(isr', "clear", isr.l)
          <5>1. isr.at # "idle" /\ "clear" \in Points
            BY <1>3, <2>2
          <5> QED
            BY <4>1, <5>1, IsrMoves
        <4> QED
          BY <4>2 DEF Moved
      <3> QED
        BY <3>1, <3>2
    <2>7. Types'
      BY <1>3, <2>2, <2>5, <2>6 DEF Types, IsrAt
    <2>8. \A m \in Lanes : Sensed(m) => Sensed(m)'
      BY <1>3, <2>1, <2>2, <2>6 DEF Sensed
    <2>9. PortInv'
      BY <2>2, <2>3, <2>4, <2>5, <2>6, <2>8 DEF PortInv
    <2> QED
      BY <2>7, <2>9
  <1>8. CASE PortHandlerClears
    <2> DEFINE r(l) == IF l \in isr.bits THEN [lane[l] EXCEPT !.event = "off"] ELSE lane[l]
    <2>1. /\ isr.at = "clear" /\ lane' = [l \in Lanes |-> r(l)] /\ isr' = Idle
          /\ UNCHANGED <<kind, above, nvic>>
          /\ (\E l \in Lanes : lane'[l].event # "off") => drv' = "event"
      BY <1>8 DEF PortHandlerClears
    <2>2. ASSUME NEW l \in Lanes
          PROVE  r(l) \in Lane /\ PortLane(r(l)) /\ ~Leftover(r(l))
      <3>1. CASE l \in isr.bits
        <4> DEFINE c == [lane[l] EXCEPT !.event = "off"]
        <4>1. lane[l] \in Lane /\ PortLane(lane[l]) /\ r(l) = c
          BY <1>2, <3>1
        <4>2. c \in Lane
          BY <4>1 DEF Lane
        <4>3. PortLane(c) /\ ~Leftover(c)
          BY <4>1 DEF Lane, PortLane, Leftover
        <4> QED
          BY <4>1, <4>2, <4>3
      <3>2. CASE l \notin isr.bits
        BY <1>2, <3>2 DEF PortInv, Sensed
      <3> QED
        BY <3>1, <3>2
    <2> HIDE DEF r
    <2>3. lane' \in [Lanes -> Lane] /\ \A l \in Lanes : lane'[l] = r(l)
      BY <2>1, <2>2
    <2>4. Types' /\ isr'.at = "idle"
      BY <2>1, <2>3, IsrReturns DEF Types
    <2> QED
      BY <2>1, <2>2, <2>3, <2>4 DEF PortInv
  <1> QED
    BY <1>4, <1>5, <1>6, <1>7, <1>8 DEF PortHandler

LEMMA PortSteps == DriversInv /\ kind = "port" /\ Next => Types' /\ PortInv'
  <1> SUFFICES ASSUME Types, PortInv, kind = "port", Next
               PROVE  Types' /\ PortInv'
    BY DEF DriversInv
  <1>1. ASSUME NEW l \in Lanes, PinLatches(l) PROVE Types' /\ PortInv'
    <2> DEFINE p == lane[l]
               r == [p EXCEPT !.event = "own"]
    <2>1. /\ Set(l, r) /\ p.event = "off" /\ p.sense # "off"
          /\ drv' = IF \A m \in Lanes : lane[m].event = "off" THEN "event" ELSE drv
          /\ UNCHANGED <<kind, above, nvic, isr>>
      BY <1>1 DEF PinLatches, Matches
    <2>2. p \in Lane /\ PortLane(p)
      BY DEF Types, PortInv
    <2>3. r \in Lane /\ r.event = "own"
      BY <2>2 DEF Lane
    <2>4. PortLane(r) /\ ~Leftover(r)
      BY <2>1, <2>2 DEF Lane, PortLane, Leftover
    <2> HIDE DEF r
    <2>5. lane'[l] = r /\ \A m \in Lanes : m # l => lane'[m] = lane[m]
      BY <2>1, <2>3, SetLane DEF Types
    <2>6. Types'
      BY <2>1, <2>3, LaneTypes DEF Types
    <2>7. \A m \in Lanes : Sensed(m) => Sensed(m)'
      BY <2>1 DEF Sensed
    <2>8. isr.at = "idle" => drv' = "event"
      BY <2>1 DEF PortInv
    <2> QED
      BY <2>1, <2>3, <2>4, <2>5, <2>6, <2>7, <2>8 DEF PortInv
  <1>2. ASSUME NEW i \in Irqs, TakeIrq(i) PROVE Types' /\ PortInv'
    <2>1. \A l \in Lanes : ~Sensed(l)
      BY <1>2, TakenIrq DEF Sensed
    <2> QED
      BY <1>2, <2>1, TakenIrq DEF PortInv
  <1> QED
    BY <1>1, <1>2, PortTaskSteps, PortHandlerSteps, HandlerOf
    DEF Next, DropTask, User, PortUser, wait_for_high, wait_for_low, Task, PortTask, Hardware,
        DmaKinds, PortHandler

-----------------------------------------------------------------------------
(* ExtiPin.                                                                *)

LEMMA ExtiLaneStep ==
    ASSUME Types, ExtiInv, NEW l \in Lanes, NEW r \in Lane, PinLane(r), Set(l, r),
           UNCHANGED <<kind, above, drv, isr>>, nvic' \subseteq Lanes,
           \A m \in Lanes : m # l => (m \in nvic' <=> m \in nvic),
           l \in nvic' => r.fut # "none",
           r.fut = "asleep" => l \in nvic' /\ ~(isr.at = "mask" /\ isr.l = l),
           isr.at # "idle" /\ isr.l = l => r.fut # "none"
    PROVE  Types' /\ ExtiInv'
  <1>1. Types'
    <2>1. Lanes \subseteq Irqs
      BY DEF Lanes, Irqs, Rx, Tx
    <2> QED
      BY <2>1, LaneTypes
  <1>2. lane'[l] = r /\ \A m \in Lanes : m # l => lane'[m] = lane[m]
    BY SetLane DEF Types
  <1>3. isr.at # "idle" => isr.l \in Lanes
    BY DEF Types, IsrAt
  <1> QED
    BY <1>1, <1>2, <1>3 DEF ExtiInv, FutureInv

LEMMA ExtiTaskSteps ==
    ASSUME Types, ExtiInv, kind = "exti", NEW l \in Lanes, ExtiTask(l)
    PROVE  Types' /\ ExtiInv'
  <1> DEFINE p == lane[l]
  <1>1. p \in Lane /\ PinLane(p) /\ nvic \subseteq Lanes /\ (p.fut = "asleep" => l \in nvic)
    BY DEF Types, ExtiInv
  <1>2. TaskRuns => isr.at = "idle"
    BY DEF Types, GpioteKinds, TaskRuns, Idle
  <1>3. CASE MakeFuture(l, {l})
    <2> DEFINE r == [p EXCEPT !.fut = "made"]
    <2>1. /\ Set(l, r) /\ p.fut = "new" /\ isr.at = "idle" /\ nvic' = nvic \cup {l}
          /\ UNCHANGED <<kind, above, drv, isr>>
      BY <1>2, <1>3 DEF MakeFuture, NewInterruptFuture
    <2>2. r \in Lane /\ r.fut = "made"
      BY <1>1 DEF Lane, Futures
    <2>3. PinLane(r)
      BY <1>1, <2>1 DEF Lane, PinLane
    <2> HIDE DEF r
    <2> QED
      BY <1>1, <2>1, <2>2, <2>3, ExtiLaneStep
  <1>4. CASE trigger_edge(l)
    <2> DEFINE e == EdgeOption(p.want)
               r == [p EXCEPT !.sense = e, !.fut = "set"]
    <2>1. /\ Set(l, r) /\ p.fut = "made" /\ isr.at = "idle"
          /\ UNCHANGED <<kind, above, drv, nvic, isr>>
      BY <1>2, <1>4 DEF trigger_edge
    <2>2. e \in Senses
      BY <1>1 DEF Lane, Wants, Senses, PinLane, EdgeOption
    <2>3. e = EdgeOption(p.want)
      OBVIOUS
    <2> HIDE DEF e
    <2>4. r \in Lane /\ r.fut = "set"
      BY <1>1, <2>2 DEF Lane, Futures
    <2>5. PinLane(r)
      BY <1>1, <2>1, <2>3 DEF Lane, PinLane
    <2> HIDE DEF r
    <2> QED
      BY <1>1, <2>1, <2>4, <2>5, ExtiLaneStep
  <1>5. CASE ExtiLevel(l)
    <2>1. p.fut = "set" /\ isr.at = "idle" /\ UNCHANGED <<kind, above, drv, isr>>
      BY <1>2, <1>5 DEF ExtiLevel
    <2>2. CASE LevelIsThere(l)
      <3> DEFINE r == Ready(p, "own")
      <3>1. Set(l, r) /\ nvic' = nvic \ {l}
        BY <1>5, <2>2 DEF ExtiLevel, DropInterruptFuture
      <3>2. /\ r \in Lane /\ r.fut = "none" /\ r.want = "off" /\ r.got = "own" /\ r.dma = p.dma
        BY <1>1, ReadyLane
      <3> HIDE DEF r
      <3>3. PinLane(r)
        BY <1>1, <3>2 DEF PinLane
      <3> QED
        BY <1>1, <2>1, <3>1, <3>2, <3>3, ExtiLaneStep
    <2>3. CASE ~LevelIsThere(l)
      <3> DEFINE r == [p EXCEPT !.fut = "ready"]
      <3>1. Set(l, r) /\ UNCHANGED nvic
        BY <1>5, <2>3 DEF ExtiLevel
      <3>2. ~(p.want = "high" /\ p.level) /\ ~(p.want = "low" /\ ~p.level)
        BY <2>3 DEF LevelIsThere
      <3>3. r \in Lane /\ r.fut = "ready"
        BY <1>1 DEF Lane, Futures
      <3>4. PinLane(r)
        BY <1>1, <2>1, <3>2 DEF Lane, PinLane
      <3> HIDE DEF r
      <3> QED
        BY <1>1, <2>1, <3>1, <3>3, <3>4, ExtiLaneStep
    <2> QED
      BY <2>2, <2>3
  <1>6. CASE SetContext(l)
    <2> DEFINE r == [p EXCEPT !.fut = "mid", !.waker = TRUE, !.woken = FALSE]
    <2>1. /\ Set(l, r) /\ p.fut = "ready" /\ isr.at = "idle"
          /\ UNCHANGED <<kind, above, drv, nvic, isr>>
      BY <1>2, <1>6 DEF SetContext, Register
    <2>2. r \in Lane /\ r.fut = "mid"
      BY <1>1 DEF Lane, Futures
    <2>3. PinLane(r)
      BY <1>1, <2>1 DEF Lane, PinLane
    <2> HIDE DEF r
    <2> QED
      BY <1>1, <2>1, <2>2, <2>3, ExtiLaneStep
  <1>7. CASE ExtiCheck(l)
    <2>1. p.fut = "mid" /\ isr.at = "idle" /\ UNCHANGED <<kind, above, drv, isr>>
      BY <1>2, <1>7 DEF ExtiCheck
    <2>2. CASE Interrupted({l})
      <3> DEFINE e == Ready(p, p.got)
                 r == [e EXCEPT !.event = "off"]
      <3>1. Set(l, r) /\ nvic' = nvic \ {l}
        BY <1>7, <2>2 DEF ExtiCheck, DropInterruptFuture
      <3>2. p.got \in {"own", "stale"}
        BY <1>1 DEF Lane
      <3>3. /\ e \in Lane /\ e.fut = "none" /\ e.want = "off" /\ e.got = p.got /\ e.dma = p.dma
            /\ e.clean = p.clean
        BY <1>1, <3>2, ReadyLane
      <3> HIDE DEF e
      <3>4. r \in Lane /\ r.fut = "none"
        BY <3>3 DEF Lane
      <3>5. PinLane(r)
        BY <1>1, <3>3 DEF Lane, PinLane
      <3> HIDE DEF r
      <3> QED
        BY <1>1, <2>1, <3>1, <3>4, <3>5, ExtiLaneStep
    <2>3. CASE ~Interrupted({l})
      <3> DEFINE r == Pending(p)
      <3>1. Set(l, r) /\ UNCHANGED nvic /\ l \in nvic
        BY <1>7, <2>3 DEF ExtiCheck, Interrupted
      <3>2. /\ r \in Lane /\ r.fut \in {"ready", "asleep"} /\ r.want = p.want
            /\ r.got = p.got /\ r.event = p.event /\ r.dma = p.dma /\ r.clean = p.clean
            /\ r.waker = p.waker /\ r.sense = p.sense /\ r.level = p.level
        BY <1>1, PendingLane
      <3> HIDE DEF r
      <3>3. PinLane(r)
        BY <1>1, <2>1, <3>2 DEF PinLane
      <3> QED
        BY <1>1, <2>1, <3>1, <3>2, <3>3, ExtiLaneStep
    <2> QED
      BY <2>2, <2>3
  <1> QED
    BY <1>3, <1>4, <1>5, <1>6, <1>7 DEF ExtiTask

LEMMA ExtiUserSteps ==
    ASSUME Types, ExtiInv, kind = "exti", NEW l \in Lanes, ExtiUser(l) \/ PollAgain(l)
    PROVE  Types' /\ ExtiInv'
  <1> DEFINE p == lane[l]
  <1>1. /\ p \in Lane /\ PinLane(p) /\ nvic \subseteq Lanes /\ (p.fut = "asleep" => l \in nvic)
        /\ l \in nvic => p.fut # "none"
        /\ isr.at # "idle" /\ isr.l = l => p.fut # "none"
        /\ isr.at = "mask" /\ isr.l = l => p.fut # "asleep"
    BY DEF Types, ExtiInv, FutureInv
  <1>2. TaskRuns => isr.at = "idle"
    BY DEF Types, GpioteKinds, TaskRuns, Idle
  <1>3. ASSUME NEW want \in {"high", "low", "rising", "falling", "both"}, ExtiCall(l, want)
        PROVE  Types' /\ ExtiInv'
    <2> DEFINE n == Renew(p)
               c == n.clean /\ p.sense \in {"off", EdgeOption(want)}
               r == [n EXCEPT !.event = "off", !.want = want, !.fut = "new", !.clean = c]
    <2>1. /\ Set(l, r) /\ p.fut = "none" /\ isr.at = "idle"
          /\ UNCHANGED <<kind, above, drv, nvic, isr>>
      BY <1>2, <1>3 DEF ExtiCall
    <2>2. n \in Lane /\ n.dma = {} /\ n.got = "own" /\ n.sense = p.sense
      <3>1. p.dma = {}
        BY <1>1 DEF PinLane
      <3> QED
        BY <1>1, <3>1, RenewedLane
    <2>3. c \in BOOLEAN /\ (c => n.sense \in {"off", EdgeOption(want)})
      BY <2>2
    <2> HIDE DEF n, c
    <2>4. r \in Lane /\ r.fut = "new"
      BY <2>2, <2>3 DEF Lane, Futures, Wants
    <2>5. PinLane(r)
      BY <2>2, <2>3 DEF Lane, PinLane
    <2> HIDE DEF r
    <2> QED
      BY <1>1, <2>1, <2>4, <2>5, ExtiLaneStep
  <1>4. CASE CancelFuture(l, {l})
    <2> DEFINE r == Dropped(p)
    <2>1. /\ Set(l, r) /\ isr.at = "idle" /\ nvic' = nvic \ {l}
          /\ UNCHANGED <<kind, above, drv, isr>>
      BY <1>2, <1>4 DEF CancelFuture, Droppable, DropInterruptFuture
    <2>2. /\ r \in Lane /\ r.fut = "none" /\ r.want = "off" /\ r.clean = FALSE /\ r.dma = p.dma
      BY <1>1, DroppedLane
    <2> HIDE DEF r
    <2>3. PinLane(r)
      BY <1>1, <2>2 DEF PinLane
    <2> QED
      BY <1>1, <2>1, <2>2, <2>3, ExtiLaneStep
  <1>5. CASE ExtiEdge(l)
    <2>1. PICK edge \in {"rising", "falling"}, level \in BOOLEAN :
            edge = (IF p.level THEN "falling" ELSE "rising") /\ level = ~p.level
      BY <1>1 DEF Lane
    <2> DEFINE wanted == p.fut # "none" /\ Triggers(edge, EdgeOption(p.want))
               e == IF ~Triggers(edge, p.sense) THEN p.event
                    ELSE IF wanted THEN "own"
                    ELSE IF p.event = "own" THEN p.event ELSE "stale"
               r == [p EXCEPT !.level = ~@, !.event = e]
    <2>2. Set(l, r) /\ UNCHANGED <<kind, above, drv, nvic, isr>>
      BY <1>5, <2>1 DEF ExtiEdge
    <2>3. e \in {"off", "own", "stale"} /\ (p.event # "off" => e # "off")
      BY <1>1 DEF Lane
    <2>4. p.fut \in {"ready", "mid", "asleep"} /\ p.want = "high" /\ level => e # "off"
      BY <1>1, <2>1 DEF PinLane, EdgeOption, Triggers
    <2>5. p.fut \in {"ready", "mid", "asleep"} /\ p.want = "low" /\ ~level => e # "off"
      BY <1>1, <2>1 DEF PinLane, EdgeOption, Triggers
    <2>6. p.clean /\ p.fut # "none" => e # "stale"
      BY <1>1, <2>1 DEF PinLane, Triggers
    <2> HIDE DEF e
    <2>7. r \in Lane /\ r.fut = p.fut
      BY <1>1, <2>3 DEF Lane
    <2>8. /\ r.level = level /\ r.event = e /\ r.dma = p.dma /\ r.want = p.want
          /\ r.waker = p.waker /\ r.sense = p.sense /\ r.clean = p.clean /\ r.got = p.got
      BY <1>1, <2>1 DEF Lane
    <2> HIDE DEF r
    <2>9. PinLane(r)
      BY <1>1, <2>3, <2>4, <2>5, <2>6, <2>7, <2>8 DEF PinLane
    <2> QED
      BY <1>1, <2>2, <2>7, <2>9, ExtiLaneStep
  <1>6. CASE PollAgain(l)
    <2> DEFINE r == [p EXCEPT !.fut = "ready"]
    <2>1. Set(l, r) /\ p.fut = "asleep" /\ UNCHANGED <<kind, above, drv, nvic, isr>>
      BY <1>6 DEF PollAgain
    <2>2. r \in Lane /\ r.fut = "ready"
      BY <1>1 DEF Lane, Futures
    <2>3. PinLane(r)
      BY <1>1, <2>1 DEF Lane, PinLane
    <2> HIDE DEF r
    <2> QED
      BY <1>1, <2>1, <2>2, <2>3, ExtiLaneStep
  <1> QED
    BY <1>3, <1>4, <1>5, <1>6 DEF ExtiUser, wait_for_state, wait_for_edge

LEMMA ExtiSteps == DriversInv /\ kind = "exti" /\ Next => Types' /\ ExtiInv'
  <1> SUFFICES ASSUME Types, ExtiInv, kind = "exti", Next
               PROVE  Types' /\ ExtiInv'
    BY DEF DriversInv
  <1>1. ASSUME NEW i \in Irqs, TakeIrq(i) PROVE Types' /\ ExtiInv'
    <2>1. i \in Lanes /\ Owner(i) = i
      BY <1>1, TakenIrq DEF Line, ExtiLine, Owner, Lanes, Rx, Tx
    <2> QED
      BY <1>1, <2>1, TakenIrq DEF ExtiInv, FutureInv
  <1>2. CASE HandlerWakes
    <2>1. PICK l \in Lanes : l = isr.l
      BY <1>2, WakesLane
    <2>2. /\ isr.at = "wake_task" /\ isr'.l = l /\ isr'.irq = isr.irq /\ isr'.at = "mask"
          /\ Types' /\ UNCHANGED <<kind, above, drv, nvic>>
          /\ \A m \in Lanes : m # l => lane'[m] = lane[m]
      BY <1>2, <2>1, WakesLane
    <2>3. PICK p \in Lane, r \in Lane :
                /\ p = lane[l] /\ r = lane'[l]
                /\ r.fut = p.fut \/ (p.fut = "asleep" /\ r.fut = "ready")
                /\ p.waker => r.fut # "asleep"
                /\ r.waker = p.waker /\ r.event = p.event
                /\ r.got = IF p.event = "off" THEN p.got ELSE p.event
                /\ r.dma = p.dma /\ r.clean = p.clean
                /\ r.level = p.level /\ r.sense = p.sense /\ r.want = p.want
      BY <1>2, <2>1, WakesLane
    <2>4. PinLane(p) /\ p.fut # "none" /\ (l \in nvic => p.fut # "none")
      BY <2>1, <2>2, <2>3 DEF ExtiInv
    <2>5. p.event \in {"off", "own", "stale"}
      BY <2>3 DEF Lane
    <2>6. PinLane(r) /\ r.fut # "asleep" /\ r.fut # "none"
      BY <2>3, <2>4, <2>5 DEF PinLane
    <2> QED
      BY <2>1, <2>2, <2>3, <2>6 DEF ExtiInv, FutureInv
  <1>3. CASE HandlerMasks
    <2>1. isr.irq = isr.l
      BY <1>3, MasksIrq DEF ExtiInv, FutureInv, Owner, Lanes, Rx, Tx
    <2> QED
      BY <1>3, <2>1, MasksIrq DEF ExtiInv, FutureInv
  <1> QED
    BY <1>1, <1>2, <1>3, ExtiTaskSteps, ExtiUserSteps, HandlerOf
    DEF Next, DropTask, User, Task, Hardware, DmaKinds

-----------------------------------------------------------------------------
(* Can.                                                                    *)

LEMMA CanLaneStep ==
    ASSUME Types, CanInv, NEW l \in Lanes, NEW r \in Lane, CanLane(l, r), Set(l, r),
           UNCHANGED <<kind, above, drv, isr>>, nvic' \subseteq Lanes,
           \A m \in Lanes : m # l => (m \in nvic' <=> m \in nvic),
           r.fut = "asleep" => l \in nvic' /\ ~(isr.at = "mask" /\ isr.l = l)
    PROVE  Types' /\ CanInv'
  <1>1. Types'
    <2>1. Lanes \subseteq Irqs
      BY DEF Lanes, Irqs, Rx, Tx
    <2> QED
      BY <2>1, LaneTypes
  <1>2. lane'[l] = r /\ \A m \in Lanes : m # l => lane'[m] = lane[m]
    BY SetLane DEF Types
  <1>3. isr.at # "idle" => isr.l \in Lanes
    BY DEF Types, IsrAt
  <1> QED
    BY <1>1, <1>2, <1>3 DEF CanInv, FutureInv

\* What both directions do.
LEMMA CanFutureSteps ==
    ASSUME Types, CanInv, kind = "can", NEW l \in Lanes,
           MakeFuture(l, {l}) \/ SetContext(l) \/ CancelFuture(l, {l}) \/ PollAgain(l)
    PROVE  Types' /\ CanInv'
  <1> DEFINE p == lane[l]
  <1>1. p \in Lane /\ CanLane(l, p) /\ nvic \subseteq Lanes
    BY DEF Types, CanInv
  <1>2. TaskRuns => isr.at = "idle"
    BY DEF Types, GpioteKinds, TaskRuns, Idle
  <1>3. CASE MakeFuture(l, {l})
    <2> DEFINE r == [p EXCEPT !.fut = "made"]
    <2>1. /\ Set(l, r) /\ nvic' = nvic \cup {l} /\ UNCHANGED <<kind, above, drv, isr>>
      BY <1>3 DEF MakeFuture, NewInterruptFuture
    <2>2. r \in Lane /\ r.fut = "made"
      BY <1>1 DEF Lane, Futures
    <2>3. CanLane(l, r)
      BY <1>1 DEF Lane, CanLane
    <2> HIDE DEF r
    <2> QED
      BY <1>1, <2>1, <2>2, <2>3, CanLaneStep
  <1>4. CASE SetContext(l)
    <2> DEFINE r == [p EXCEPT !.fut = "mid", !.waker = TRUE, !.woken = FALSE]
    <2>1. Set(l, r) /\ UNCHANGED <<kind, above, drv, nvic, isr>>
      BY <1>4 DEF SetContext, Register
    <2>2. r \in Lane /\ r.fut = "mid"
      BY <1>1 DEF Lane, Futures
    <2>3. CanLane(l, r)
      BY <1>1 DEF Lane, CanLane
    <2> HIDE DEF r
    <2> QED
      BY <1>1, <2>1, <2>2, <2>3, CanLaneStep
  <1>5. CASE CancelFuture(l, {l})
    <2> DEFINE r == Dropped(p)
    <2>1. Set(l, r) /\ nvic' = nvic \ {l} /\ UNCHANGED <<kind, above, drv, isr>>
      BY <1>5 DEF CancelFuture, DropInterruptFuture
    <2>2. /\ r \in Lane /\ r.fut = "none" /\ r.want = "off" /\ r.dma = p.dma
          /\ r.event = p.event /\ r.got = p.got
      BY <1>1, DroppedLane
    <2> HIDE DEF r
    <2>3. CanLane(l, r)
      BY <1>1, <2>2 DEF CanLane
    <2> QED
      BY <1>1, <2>1, <2>2, <2>3, CanLaneStep
  <1>6. CASE PollAgain(l)
    <2> DEFINE r == [p EXCEPT !.fut = "ready"]
    <2>1. Set(l, r) /\ UNCHANGED <<kind, above, drv, nvic, isr>>
      BY <1>6 DEF PollAgain
    <2>2. r \in Lane /\ r.fut = "ready"
      BY <1>1 DEF Lane, Futures
    <2>3. CanLane(l, r)
      BY <1>1 DEF Lane, CanLane
    <2> HIDE DEF r
    <2> QED
      BY <1>1, <2>1, <2>2, <2>3, CanLaneStep
  <1> QED
    BY <1>3, <1>4, <1>5, <1>6

LEMMA CanSendSteps ==
    ASSUME Types, CanInv, kind = "can",
           CanTransmit \/ CanRequest \/ CanTransmitCheck \/ FrameSent
    PROVE  Types' /\ CanInv'
  <1> DEFINE p == lane[Tx]
  <1>1. /\ p \in Lane /\ CanLane(Tx, p) /\ nvic \subseteq Lanes /\ Tx \in Lanes /\ Tx # Rx
        /\ p.fut = "asleep" => Tx \in nvic /\ ~(isr.at = "mask" /\ isr.l = Tx)
    BY DEF Types, CanInv, FutureInv, Lanes, Rx, Tx
  <1>2. TaskRuns => isr.at = "idle"
    BY DEF Types, GpioteKinds, TaskRuns, Idle
  <1>3. CASE CanTransmit
    <2> DEFINE n == Renew(p)
               r == [n EXCEPT !.fut = "new", !.started = FALSE]
    <2>1. Set(Tx, r) /\ UNCHANGED <<kind, above, drv, nvic, isr>>
      BY <1>3 DEF CanTransmit
    <2>2. n \in Lane /\ n.dma = {} /\ n.want = "off"
      <3>1. p.dma = {} /\ p.want = "off"
        BY <1>1 DEF CanLane
      <3> QED
        BY <1>1, <3>1, RenewedLane
    <2> HIDE DEF n
    <2>3. r \in Lane /\ r.fut = "new"
      BY <2>2 DEF Lane, Futures
    <2>4. CanLane(Tx, r)
      BY <1>1, <2>2 DEF Lane, CanLane
    <2> HIDE DEF r
    <2> QED
      BY <1>1, <2>1, <2>3, <2>4, CanLaneStep
  <1>4. CASE CanRequest
    <2>1. UNCHANGED <<kind, above, drv, nvic, isr>>
      BY <1>4 DEF CanRequest
    <2>2. CASE p.q = Mailboxes
      <3> DEFINE r == [p EXCEPT !.fut = "panic"]
      <3>1. Set(Tx, r)
        BY <1>4, <2>2 DEF CanRequest
      <3>2. r \in Lane /\ r.fut = "panic"
        BY <1>1 DEF Lane, Futures
      <3>3. CanLane(Tx, r)
        BY <1>1 DEF Lane, CanLane
      <3> HIDE DEF r
      <3> QED
        BY <1>1, <2>1, <3>1, <3>2, <3>3, CanLaneStep
    <2>3. CASE p.q # Mailboxes
      <3>1. PICK event \in {"off", p.event} :
              Set(Tx, [p EXCEPT !.fut = "ready", !.q = @ + 1, !.started = TRUE, !.event = event])
        BY <1>4, <2>3 DEF CanRequest
      <3> DEFINE r == [p EXCEPT !.fut = "ready", !.q = @ + 1, !.started = TRUE, !.event = event]
      <3>2. event \in {"off", "own", "stale"} /\ p.q + 1 \in Nat
        BY <1>1 DEF Lane
      <3>3. r \in Lane /\ r.fut = "ready"
        BY <1>1, <3>2 DEF Lane, Futures
      <3>4. CanLane(Tx, r)
        BY <1>1 DEF Lane, CanLane
      <3> QED
        BY <1>1, <2>1, <3>1, <3>3, <3>4, CanLaneStep
    <2> QED
      BY <2>2, <2>3
  <1>5. CASE CanTransmitCheck
    <2>1. p.fut = "mid" /\ isr.at = "idle" /\ UNCHANGED <<kind, above, drv, isr>>
      BY <1>2, <1>5 DEF CanTransmitCheck
    <2>2. CASE Interrupted({Tx})
      <3> DEFINE r == Ready(p, p.got)
      <3>1. Set(Tx, r) /\ nvic' = nvic \ {Tx}
        BY <1>5, <2>2 DEF CanTransmitCheck, DropInterruptFuture
      <3>2. p.got \in {"own", "stale"}
        BY <1>1 DEF Lane
      <3>3. r \in Lane /\ r.fut = "none" /\ r.want = "off" /\ r.dma = p.dma
        BY <1>1, <3>2, ReadyLane
      <3> HIDE DEF r
      <3>4. CanLane(Tx, r)
        BY <1>1, <3>3 DEF CanLane
      <3> QED
        BY <1>1, <2>1, <3>1, <3>3, <3>4, CanLaneStep
    <2>3. CASE ~Interrupted({Tx})
      <3> DEFINE r == Pending(p)
      <3>1. Set(Tx, r) /\ UNCHANGED nvic /\ Tx \in nvic
        BY <1>5, <2>3 DEF CanTransmitCheck, Interrupted
      <3>2. /\ r \in Lane /\ r.fut \in {"ready", "asleep"} /\ r.want = p.want
            /\ r.dma = p.dma /\ r.waker = p.waker
        BY <1>1, PendingLane
      <3> HIDE DEF r
      <3>3. CanLane(Tx, r)
        BY <1>1, <2>1, <3>2 DEF CanLane
      <3> QED
        BY <1>1, <2>1, <3>1, <3>2, <3>3, CanLaneStep
    <2> QED
      BY <2>2, <2>3
  <1>6. CASE FrameSent
    <2>1. UNCHANGED <<kind, above, drv, nvic, isr>> /\ p.q > 0
      BY <1>6 DEF FrameSent
    <2>2. p.q - 1 \in Nat /\ p.event \in {"off", "own", "stale"} /\ p.started \in BOOLEAN
      BY <1>1, <2>1 DEF Lane
    <2>3. PICK event \in {"own", "stale"}, started \in BOOLEAN :
            Set(Tx, [p EXCEPT !.q = @ - 1, !.started = started, !.event = event])
      <3>1. CASE Set(Tx, [p EXCEPT !.q = @ - 1, !.started = FALSE, !.event = "own"])
        BY <3>1
      <3>2. CASE Set(Tx, [p EXCEPT !.q = @ - 1, !.event = IF @ = "own" THEN @ ELSE "stale"])
        <4> DEFINE e == IF p.event = "own" THEN "own" ELSE "stale"
        <4>1. [p EXCEPT !.q = @ - 1, !.event = e]
                = [p EXCEPT !.q = @ - 1, !.started = p.started, !.event = e]
          BY <1>1 DEF Lane
        <4> QED
          BY <2>2, <3>2, <4>1
      <3> QED
        BY <1>6, <3>1, <3>2 DEF FrameSent
    <2> DEFINE r == [p EXCEPT !.q = @ - 1, !.started = started, !.event = event]
    <2>4. r \in Lane /\ r.fut = p.fut
      BY <1>1, <2>2 DEF Lane
    <2>5. CanLane(Tx, r)
      BY <1>1 DEF Lane, CanLane
    <2> QED
      BY <1>1, <2>1, <2>3, <2>4, <2>5, CanLaneStep
  <1> QED
    BY <1>3, <1>4, <1>5, <1>6

LEMMA CanReceiveSteps ==
    ASSUME Types, CanInv, kind = "can",
           CanReceive \/ CanTake \/ CanReceiveCheck \/ FrameArrives
    PROVE  Types' /\ CanInv'
  <1> DEFINE p == lane[Rx]
  <1>1. /\ p \in Lane /\ CanLane(Rx, p) /\ nvic \subseteq Lanes /\ Rx \in Lanes
        /\ p.fut = "asleep" => Rx \in nvic /\ ~(isr.at = "mask" /\ isr.l = Rx)
    BY DEF Types, CanInv, FutureInv, Lanes, Rx, Tx
  <1>2. TaskRuns => isr.at = "idle"
    BY DEF Types, GpioteKinds, TaskRuns, Idle
  <1>3. CASE CanReceive
    <2> DEFINE r == [p EXCEPT !.fut = "new", !.waker = FALSE, !.woken = FALSE, !.stopped = FALSE]
    <2>1. Set(Rx, r) /\ UNCHANGED <<kind, above, drv, nvic, isr>>
      BY <1>3 DEF CanReceive
    <2>2. r \in Lane /\ r.fut = "new"
      BY <1>1 DEF Lane, Futures
    <2>3. CanLane(Rx, r)
      BY <1>1 DEF Lane, CanLane
    <2> HIDE DEF r
    <2> QED
      BY <1>1, <2>1, <2>2, <2>3, CanLaneStep
  <1>4. CASE CanTake
    <2>1. UNCHANGED <<kind, above, drv, isr>>
      BY <1>4 DEF CanTake
    <2>2. CASE p.q > 0 /\ ~p.stopping
      <3> DEFINE e == Ready(p, "own")
                 v == IF p.q = 1 THEN "off" ELSE e.event
                 r == [e EXCEPT !.q = @ - 1, !.event = v]
      <3>1. Set(Rx, r) /\ nvic' = nvic \ {Rx}
        BY <1>4, <2>2 DEF CanTake, DropInterruptFuture
      <3>2. /\ e \in Lane /\ e.fut = "none" /\ e.want = "off" /\ e.got = "own"
            /\ e.dma = p.dma /\ e.event = p.event
        BY <1>1, ReadyLane
      <3>3. e.q - 1 \in Nat
        BY <1>1, <2>2 DEF Lane, Ready
      <3>4. v \in {"off", "own"}
        BY <1>1, <3>2 DEF Lane, CanLane
      <3> HIDE DEF e, v
      <3>5. r \in Lane /\ r.fut = "none"
        BY <3>2, <3>3, <3>4 DEF Lane
      <3>6. CanLane(Rx, r)
        BY <1>1, <3>2, <3>4 DEF Lane, CanLane
      <3> HIDE DEF r
      <3> QED
        BY <1>1, <2>1, <3>1, <3>5, <3>6, CanLaneStep
    <2>3. CASE ~(p.q > 0 /\ ~p.stopping)
      <3> DEFINE r == [p EXCEPT !.fut = "ready", !.stopping = FALSE]
      <3>1. Set(Rx, r) /\ UNCHANGED nvic
        BY <1>4, <2>3 DEF CanTake
      <3>2. r \in Lane /\ r.fut = "ready"
        BY <1>1 DEF Lane, Futures
      <3>3. CanLane(Rx, r)
        BY <1>1 DEF Lane, CanLane
      <3> HIDE DEF r
      <3> QED
        BY <1>1, <2>1, <3>1, <3>2, <3>3, CanLaneStep
    <2> QED
      BY <2>2, <2>3
  <1>5. CASE CanReceiveCheck
    <2>1. p.fut = "mid" /\ isr.at = "idle" /\ UNCHANGED <<kind, above, drv, isr>>
      BY <1>2, <1>5 DEF CanReceiveCheck
    <2>2. CASE Interrupted({Rx})
      <3> DEFINE r == [p EXCEPT !.fut = "new", !.waker = FALSE]
      <3>1. Set(Rx, r) /\ nvic' = nvic \ {Rx}
        BY <1>5, <2>2 DEF CanReceiveCheck, DropInterruptFuture
      <3>2. r \in Lane /\ r.fut = "new"
        BY <1>1 DEF Lane, Futures
      <3>3. CanLane(Rx, r)
        BY <1>1 DEF Lane, CanLane
      <3> HIDE DEF r
      <3> QED
        BY <1>1, <2>1, <3>1, <3>2, <3>3, CanLaneStep
    <2>3. CASE ~Interrupted({Rx})
      <3> DEFINE r == Pending(p)
      <3>1. Set(Rx, r) /\ UNCHANGED nvic /\ Rx \in nvic
        BY <1>5, <2>3 DEF CanReceiveCheck, Interrupted
      <3>2. /\ r \in Lane /\ r.fut \in {"ready", "asleep"} /\ r.want = p.want
            /\ r.dma = p.dma /\ r.waker = p.waker /\ r.event = p.event /\ r.got = p.got
        BY <1>1, PendingLane
      <3> HIDE DEF r
      <3>3. CanLane(Rx, r)
        BY <1>1, <2>1, <3>2 DEF CanLane
      <3> QED
        BY <1>1, <2>1, <3>1, <3>2, <3>3, CanLaneStep
    <2> QED
      BY <2>2, <2>3
  <1>6. CASE FrameArrives
    <2> DEFINE q == [p EXCEPT !.q = @ + 1, !.event = "own"]
               o == [p EXCEPT !.stopping = TRUE, !.stopped = TRUE]
    <2>1. PICK r \in {q, o} : Set(Rx, r) /\ UNCHANGED <<kind, above, drv, nvic, isr>>
      BY <1>6 DEF FrameArrives
    <2>2. p.q + 1 \in Nat
      BY <1>1 DEF Lane
    <2>3. q \in Lane /\ q.fut = p.fut /\ o \in Lane /\ o.fut = p.fut
      BY <1>1, <2>2 DEF Lane
    <2>4. CanLane(Rx, q) /\ CanLane(Rx, o)
      BY <1>1 DEF Lane, CanLane
    <2> HIDE DEF q, o
    <2> QED
      BY <1>1, <2>1, <2>3, <2>4, CanLaneStep
  <1> QED
    BY <1>3, <1>4, <1>5, <1>6

LEMMA CanSteps == DriversInv /\ kind = "can" /\ Next => Types' /\ CanInv'
  <1> SUFFICES ASSUME Types, CanInv, kind = "can", Next
               PROVE  Types' /\ CanInv'
    BY DEF DriversInv
  <1>1. ASSUME NEW i \in Irqs, TakeIrq(i) PROVE Types' /\ CanInv'
    <2>1. i \in Lanes
      BY <1>1, TakenIrq DEF Line, CanLine
    <2> QED
      BY <1>1, <2>1, TakenIrq DEF CanInv, FutureInv
  <1>2. CASE HandlerWakes
    <2>1. PICK l \in Lanes : l = isr.l
      BY <1>2, WakesLane
    <2>2. /\ isr.at = "wake_task" /\ isr'.l = l /\ isr'.irq = isr.irq /\ isr'.at = "mask"
          /\ Types' /\ UNCHANGED <<kind, above, drv, nvic>>
          /\ \A m \in Lanes : m # l => lane'[m] = lane[m]
      BY <1>2, <2>1, WakesLane
    <2>3. PICK p \in Lane, r \in Lane :
                /\ p = lane[l] /\ r = lane'[l]
                /\ r.fut = p.fut \/ (p.fut = "asleep" /\ r.fut = "ready")
                /\ p.waker => r.fut # "asleep"
                /\ r.waker = p.waker /\ r.event = p.event
                /\ r.got = IF p.event = "off" THEN p.got ELSE p.event
                /\ r.dma = p.dma /\ r.want = p.want
      BY <1>2, <2>1, WakesLane
    <2>4. CanLane(l, p)
      BY <2>3 DEF CanInv
    <2>5. p.event \in {"off", "own", "stale"}
      BY <2>3 DEF Lane
    <2>6. CanLane(l, r) /\ r.fut # "asleep"
      BY <2>3, <2>4, <2>5 DEF CanLane
    <2> QED
      BY <2>1, <2>2, <2>3, <2>6 DEF CanInv, FutureInv
  <1>3. CASE HandlerMasks
    <2>1. isr.irq = isr.l
      BY <1>3, MasksIrq DEF CanInv, FutureInv, Owner, Lanes, Rx, Tx
    <2> QED
      BY <1>3, <2>1, MasksIrq DEF CanInv, FutureInv
  <1>4. ASSUME NEW l \in Lanes, CanTask(l) \/ CanUser(l) \/ PollAgain(l)
        PROVE  Types' /\ CanInv'
    BY <1>4, CanFutureSteps, CanSendSteps, CanReceiveSteps DEF CanTask, CanUser
  <1> QED
    BY <1>1, <1>2, <1>3, <1>4, CanSendSteps, HandlerOf
    DEF Next, DropTask, User, Task, Hardware, DmaKinds

-----------------------------------------------------------------------------
(* Serial.                                                                 *)

\* The two directions share no interrupt.
LEMMA IrqsApart ==
    ASSUME SerialInv, NEW l \in Lanes, NEW m \in Lanes, l # m
    PROVE  SerialIrqs(l) \cap SerialIrqs(m) = {} /\ SerialIrqs(l) \subseteq Irqs
  BY DEF SerialInv, SerialLane, SerialIrqs, Lanes, Irqs, Rx, Tx

IrqsOf(l, r) == IF r.want = "idle" THEN {l, 3} ELSE {l}

LEMMA SerialLaneStep ==
    ASSUME Types, SerialInv, NEW l \in Lanes, NEW r \in Lane, SerialLane(l, r), Set(l, r),
           UNCHANGED <<kind, above, isr>>, nvic' \subseteq Irqs,
           nvic \ SerialIrqs(l) \subseteq nvic',
           r.fut = "asleep" => IrqsOf(l, r) \subseteq nvic' /\ ~(isr.at = "mask" /\ isr.l = l),
           r.clean => lane[l].clean,
           r.fut = "panic" => \E m \in Lanes : ~lane[m].clean,
           \/ drv' = "up"
           \/ r.fut # "none" \/ ~r.clean
           \/ drv' = drv /\ lane[l].fut = "none"
    PROVE  Types' /\ SerialInv'
  <1>1. Types'
    BY LaneTypes
  <1>2. lane'[l] = r /\ \A m \in Lanes : m # l => lane'[m] = lane[m]
    BY SetLane DEF Types
  <1>3. isr.at # "idle" => isr.l \in Lanes
    BY DEF Types, IsrAt
  <1>4. FutureInv'
    BY <1>2, <1>3 DEF SerialInv, FutureInv
  <1>5. drv' = "gone" => \E m \in Lanes : lane'[m].fut # "none" \/ ~lane'[m].clean
    BY <1>2 DEF SerialInv
  <1>6. (\E m \in Lanes : ~lane[m].clean) => \E m \in Lanes : ~lane'[m].clean
    BY <1>2
  <1>7. ASSUME NEW m \in Lanes
        PROVE  /\ SerialLane(m, lane'[m])
               /\ lane'[m].fut = "asleep" => SerialIrqs(m)' \subseteq nvic'
               /\ lane'[m].fut = "panic" => \E k \in Lanes : ~lane'[k].clean
    <2>1. CASE m = l
      BY <1>2, <1>6, <2>1 DEF SerialIrqs, IrqsOf
    <2>2. CASE m # l
      BY <1>2, <1>6, <2>2, IrqsApart DEF SerialInv, SerialIrqs
    <2> QED
      BY <2>1, <2>2
  <1> QED
    BY <1>1, <1>4, <1>5, <1>7 DEF SerialInv

LEMMA SerialTaskSteps ==
    ASSUME Types, SerialInv, kind = "serial", NEW l \in Lanes,
           \/ SerialTask(l) \/ SerialCancel(l) \/ PollAgain(l) \/ SerialEnds(l)
           \/ l = Rx /\ SerialFallsIdle
    PROVE  Types' /\ SerialInv'
  <1> DEFINE p == lane[l]
             irqs == SerialIrqs(l)
  <1>1. /\ p \in Lane /\ SerialLane(l, p) /\ nvic \subseteq Irqs
        /\ p.fut = "asleep" => irqs \subseteq nvic /\ ~(isr.at = "mask" /\ isr.l = l)
        /\ p.fut = "panic" => \E m \in Lanes : ~lane[m].clean
    BY DEF Types, SerialInv, FutureInv
  <1>2. TaskRuns => isr.at = "idle"
    BY DEF Types, GpioteKinds, TaskRuns, Idle
  <1>3. irqs \subseteq Irqs /\ irqs = IrqsOf(l, p)
    BY DEF SerialIrqs, IrqsOf, Irqs, Lanes, Rx, Tx
  <1> HIDE DEF irqs
  <1>4. CASE MakeFuture(l, irqs)
    <2> DEFINE r == [p EXCEPT !.fut = "made"]
    <2>1. Set(l, r) /\ nvic' = nvic \cup irqs /\ UNCHANGED <<kind, above, drv, isr>>
      BY <1>4 DEF MakeFuture, NewInterruptFuture
    <2>2. r \in Lane /\ r.fut = "made" /\ r.clean = p.clean
      BY <1>1 DEF Lane, Futures
    <2>3. SerialLane(l, r)
      BY <1>1 DEF Lane, SerialLane
    <2> HIDE DEF r
    <2> QED
      BY <1>1, <1>3, <2>1, <2>2, <2>3, SerialLaneStep
  <1>5. CASE SerialStart(l)
    <2> DEFINE r == [p EXCEPT !.fut = "ready", !.dma = {"own"}]
    <2>1. Set(l, r) /\ UNCHANGED <<kind, above, drv, nvic, isr>>
      BY <1>5 DEF SerialStart
    <2>2. {"own"} \in SUBSET {"own", "stale"}
      OBVIOUS
    <2>3. r \in Lane /\ r.fut = "ready" /\ r.clean = p.clean
      BY <1>1, <2>2 DEF Lane, Futures
    <2>4. SerialLane(l, r)
      BY <1>1 DEF Lane, SerialLane
    <2> HIDE DEF r
    <2> QED
      BY <1>1, <2>1, <2>3, <2>4, SerialLaneStep
  <1>6. CASE SetContext(l)
    <2> DEFINE r == [p EXCEPT !.fut = "mid", !.waker = TRUE, !.woken = FALSE]
    <2>1. Set(l, r) /\ UNCHANGED <<kind, above, drv, nvic, isr>>
      BY <1>6 DEF SetContext, Register
    <2>2. r \in Lane /\ r.fut = "mid" /\ r.clean = p.clean
      BY <1>1 DEF Lane, Futures
    <2>3. SerialLane(l, r)
      BY <1>1 DEF Lane, SerialLane
    <2> HIDE DEF r
    <2> QED
      BY <1>1, <2>1, <2>2, <2>3, SerialLaneStep
  <1>7. CASE SerialCheck(l)
    <2>1. p.fut = "mid" /\ isr.at = "idle" /\ UNCHANGED <<kind, above, isr>>
      BY <1>2, <1>7 DEF SerialCheck
    <2>2. CASE Interrupted(irqs)
      <3> DEFINE e == Ready(p, "own")
                 r == [e EXCEPT !.started = FALSE, !.event = "off", !.dma = {}]
      <3>1. Set(l, r) /\ drv' = "up" /\ nvic' = nvic \ irqs
        <4>1. p.got = "own"
          BY <1>1 DEF SerialLane
        <4> QED
          BY <1>7, <2>2, <4>1 DEF SerialCheck, DropInterruptFuture, irqs
      <3>2. e \in Lane /\ e.fut = "none" /\ e.want = "off" /\ e.got = "own" /\ e.clean = p.clean
        BY <1>1, ReadyLane
      <3> HIDE DEF e
      <3>3. r \in Lane /\ r.fut = "none" /\ r.clean = p.clean
        BY <3>2 DEF Lane
      <3>4. SerialLane(l, r)
        BY <3>2 DEF Lane, SerialLane
      <3> HIDE DEF r
      <3>5. nvic' \subseteq Irqs /\ nvic \ SerialIrqs(l) \subseteq nvic'
        BY <1>1, <3>1 DEF irqs
      <3> QED
        BY <2>1, <3>1, <3>3, <3>4, <3>5, SerialLaneStep
    <2>3. CASE ~Interrupted(irqs)
      <3> DEFINE r == Pending(p)
      <3>1. Set(l, r) /\ UNCHANGED <<drv, nvic>> /\ irqs \subseteq nvic
        BY <1>7, <2>3 DEF SerialCheck, Interrupted, irqs
      <3>2. /\ r \in Lane /\ r.fut \in {"ready", "asleep"} /\ r.want = p.want
            /\ r.got = p.got /\ r.event = p.event /\ r.dma = p.dma /\ r.clean = p.clean
            /\ r.waker = p.waker /\ r.started = p.started
        BY <1>1, PendingLane
      <3> HIDE DEF r
      <3>3. SerialLane(l, r) /\ IrqsOf(l, r) = irqs
        BY <1>1, <1>3, <2>1, <3>2 DEF SerialLane, IrqsOf
      <3> QED
        BY <1>1, <2>1, <3>1, <3>2, <3>3, SerialLaneStep
    <2> QED
      BY <2>2, <2>3
  <1>8. CASE SerialCancel(l)
    <2> DEFINE d == Dropped(p)
               r == [d EXCEPT !.dma = {}]
    <2>1. Set(l, r) /\ nvic' = nvic \ irqs /\ UNCHANGED <<kind, above, drv, isr>>
      BY <1>8 DEF SerialCancel, DropInterruptFuture, irqs
    <2>2. /\ d \in Lane /\ d.fut = "none" /\ d.want = "off" /\ d.clean = FALSE
          /\ d.got = p.got /\ d.event = p.event
      BY <1>1, DroppedLane
    <2> HIDE DEF d
    <2>3. r \in Lane /\ r.fut = "none" /\ r.clean = FALSE
      BY <2>2 DEF Lane
    <2>4. SerialLane(l, r)
      BY <1>1, <2>2 DEF Lane, SerialLane
    <2> HIDE DEF r
    <2>5. nvic' \subseteq Irqs /\ nvic \ SerialIrqs(l) \subseteq nvic'
      BY <1>1, <2>1 DEF irqs
    <2> QED
      BY <2>1, <2>3, <2>4, <2>5, SerialLaneStep
  <1>9. CASE PollAgain(l)
    <2> DEFINE r == [p EXCEPT !.fut = "ready"]
    <2>1. Set(l, r) /\ p.fut = "asleep" /\ UNCHANGED <<kind, above, drv, nvic, isr>>
      BY <1>9 DEF PollAgain
    <2>2. r \in Lane /\ r.fut = "ready" /\ r.clean = p.clean
      BY <1>1 DEF Lane, Futures
    <2>3. SerialLane(l, r)
      BY <1>1, <2>1 DEF Lane, SerialLane
    <2> HIDE DEF r
    <2> QED
      BY <1>1, <2>1, <2>2, <2>3, SerialLaneStep
  <1>10. CASE SerialEnds(l)
    <2> DEFINE r == [p EXCEPT !.dma = {}, !.event = "own"]
    <2>1. Set(l, r) /\ p.dma # {} /\ UNCHANGED <<kind, above, drv, nvic, isr>>
      BY <1>10 DEF SerialEnds
    <2>2. p.fut # "none"
      BY <1>1, <2>1 DEF SerialLane
    <2>3. r \in Lane /\ r.fut = p.fut /\ r.clean = p.clean /\ r.want = p.want
      BY <1>1 DEF Lane
    <2>4. SerialLane(l, r)
      BY <1>1 DEF Lane, SerialLane
    <2> HIDE DEF r
    <2>5. IrqsOf(l, r) = irqs
      BY <1>3, <2>3 DEF IrqsOf
    <2> QED
      BY <1>1, <2>1, <2>2, <2>3, <2>4, <2>5, SerialLaneStep
  <1>11. CASE l = Rx /\ SerialFallsIdle
    <2> DEFINE r == [p EXCEPT !.level = TRUE]
    <2>1. Set(l, r) /\ p.dma # {} /\ UNCHANGED <<kind, above, drv, nvic, isr>>
      BY <1>11 DEF SerialFallsIdle
    <2>2. p.fut # "none"
      BY <1>1, <2>1 DEF SerialLane
    <2>3. r \in Lane /\ r.fut = p.fut /\ r.clean = p.clean /\ r.want = p.want
      BY <1>1 DEF Lane
    <2>4. SerialLane(l, r)
      BY <1>1 DEF Lane, SerialLane
    <2> HIDE DEF r
    <2>5. IrqsOf(l, r) = irqs
      BY <1>3, <2>3 DEF IrqsOf
    <2> QED
      BY <1>1, <2>1, <2>2, <2>3, <2>4, <2>5, SerialLaneStep
  <1> QED
    BY <1>4, <1>5, <1>6, <1>7, <1>8, <1>9, <1>10, <1>11 DEF SerialTask, irqs

LEMMA SerialTakeSteps ==
    ASSUME Types, SerialInv, kind = "serial", NEW l \in Lanes, NEW want \in {"full", "idle"},
           l = Tx => want = "full", SerialTake(l, want)
    PROVE  Types' /\ SerialInv'
  <1> DEFINE p == lane[l]
  <1>1. p \in Lane /\ SerialLane(l, p) /\ nvic \subseteq Irqs
    BY DEF Types, SerialInv
  <1>2. (\A m \in Lanes : lane[m].fut = "none") /\ UNCHANGED <<kind, above, nvic, isr>>
    BY DEF SerialTake
  <1>3. CASE p.started \/ drv = "gone"
    <2> DEFINE r == [p EXCEPT !.fut = "panic"]
    <2>1. Set(l, r) /\ UNCHANGED drv
      BY <1>3 DEF SerialTake
    <2>2. \E m \in Lanes : ~lane[m].clean
      BY <1>1, <1>2, <1>3 DEF SerialInv, SerialLane
    <2>3. r \in Lane /\ r.fut = "panic" /\ r.clean = p.clean
      BY <1>1 DEF Lane, Futures
    <2>4. SerialLane(l, r)
      BY <1>1 DEF Lane, SerialLane
    <2> HIDE DEF r
    <2> QED
      BY <1>1, <1>2, <2>1, <2>2, <2>3, <2>4, SerialLaneStep
  <1>4. CASE ~(p.started \/ drv = "gone")
    <2> DEFINE n == Renew(p)
               r == [n EXCEPT !.fut = "new", !.started = TRUE, !.event = "off",
                              !.want = want, !.level = FALSE]
    <2>1. Set(l, r)
      BY <1>4 DEF SerialTake
    <2>2. n \in Lane /\ n.dma = {} /\ n.got = "own" /\ n.clean = p.clean
      <3>1. p.dma = {}
        BY <1>1, <1>2 DEF SerialLane
      <3> QED
        BY <1>1, <3>1, RenewedLane
    <2> HIDE DEF n
    <2>3. r \in Lane /\ r.fut = "new" /\ r.clean = p.clean
      BY <2>2 DEF Lane, Futures, Wants
    <2>4. SerialLane(l, r)
      BY <2>2 DEF Lane, SerialLane
    <2> HIDE DEF r
    <2> QED
      BY <1>1, <1>2, <2>1, <2>3, <2>4, SerialLaneStep
  <1> QED
    BY <1>3, <1>4

LEMMA SerialSteps == DriversInv /\ kind = "serial" /\ Next => Types' /\ SerialInv'
  <1> SUFFICES ASSUME Types, SerialInv, kind = "serial", Next
               PROVE  Types' /\ SerialInv'
    BY DEF DriversInv
  <1>1. ASSUME NEW i \in Irqs, TakeIrq(i) PROVE Types' /\ SerialInv'
    BY <1>1, TakenIrq DEF SerialInv, FutureInv, SerialIrqs
  <1>2. CASE HandlerWakes
    <2>1. PICK l \in Lanes : l = isr.l
      BY <1>2, WakesLane
    <2>2. /\ isr.at = "wake_task" /\ isr'.l = l /\ isr'.irq = isr.irq /\ isr'.at = "mask"
          /\ Types' /\ UNCHANGED <<kind, above, drv, nvic>>
          /\ \A m \in Lanes : m # l => lane'[m] = lane[m]
      BY <1>2, <2>1, WakesLane
    <2>3. PICK p \in Lane, r \in Lane :
                /\ p = lane[l] /\ r = lane'[l]
                /\ r.fut = p.fut \/ (p.fut = "asleep" /\ r.fut = "ready")
                /\ p.waker => r.fut # "asleep"
                /\ r.waker = p.waker /\ r.event = p.event
                /\ r.got = IF p.event = "off" THEN p.got ELSE p.event
                /\ r.dma = p.dma /\ r.want = p.want /\ r.clean = p.clean /\ r.started = p.started
      BY <1>2, <2>1, WakesLane
    <2>4. SerialLane(l, p)
      BY <2>3 DEF SerialInv
    <2>5. p.event \in {"off", "own", "stale"}
      BY <2>3 DEF Lane
    <2>6. SerialLane(l, r) /\ r.fut # "asleep"
      BY <2>3, <2>4, <2>5 DEF SerialLane
    <2>7. \A m \in Lanes : lane'[m].clean = lane[m].clean /\ (lane'[m].fut = "none" => lane[m].fut = "none")
      BY <2>2, <2>3
    <2>8. \A m \in Lanes : lane'[m].fut \in {"asleep", "panic"} => lane'[m].fut = lane[m].fut
      BY <2>2, <2>3
    <2>9. \A m \in Lanes : SerialLane(m, lane'[m]) /\ SerialIrqs(m)' = SerialIrqs(m)
      BY <2>2, <2>3, <2>6 DEF SerialInv, SerialIrqs
    <2>10. FutureInv'
      BY <2>1, <2>2, <2>3, <2>6 DEF SerialInv, FutureInv
    <2> QED
      BY <2>2, <2>7, <2>8, <2>9, <2>10 DEF SerialInv
  <1>3. CASE HandlerMasks
    <2>1. /\ Types' /\ UNCHANGED <<kind, above, drv, lane>> /\ isr.at = "mask" /\ isr.l \in Lanes
          /\ nvic' = nvic \ {isr.irq} /\ isr'.at = "idle" /\ isr.irq \in Irqs
      BY <1>3, MasksIrq
    <2>2. ASSUME NEW l \in Lanes, lane[l].fut = "asleep" PROVE isr.irq \notin SerialIrqs(l)
      <3>1. isr.l = Owner(isr.irq) /\ isr.l # l /\ (l = Tx => lane[l].want # "idle")
        BY <2>1, <2>2 DEF SerialInv, SerialLane, FutureInv
      <3> QED
        BY <2>1, <3>1 DEF SerialIrqs, Owner, Irqs, Lanes, Rx, Tx
    <2>3. \A l \in Lanes : SerialIrqs(l)' = SerialIrqs(l)
      BY <2>1 DEF SerialIrqs
    <2> QED
      BY <2>1, <2>2, <2>3 DEF SerialInv, FutureInv
  <1>4. ASSUME NEW l \in Lanes, SerialUser(l) PROVE Types' /\ SerialInv'
    BY <1>4, SerialTaskSteps, SerialTakeSteps
    DEF SerialUser, SerialRead, SerialWrite, SerialReadUntilIdle, Rx, Tx
  <1> QED
    BY <1>1, <1>2, <1>3, <1>4, SerialTaskSteps, HandlerOf
    DEF Next, DropTask, User, Task, Hardware, DmaKinds

-----------------------------------------------------------------------------
(* The invariant, and what follows from it.                                *)

LEMMA BlankLane ==
    ASSUME NEW n \in Nat, NEW r, r = [Blank EXCEPT !.q = n] \/ r = Blank
    PROVE  /\ r \in Lane /\ r.fut = "none" /\ r.event = "off" /\ r.dma = {} /\ r.got = "own"
           /\ r.want = "off" /\ r.sense = "off" /\ r.clean = TRUE /\ r.started = FALSE
  <1>1. Blank \in Lane
    BY DEF Blank, Lane, Futures, Senses, Wants
  <1>2. [Blank EXCEPT !.q = n] \in Lane
    BY <1>1 DEF Lane
  <1>3. /\ r.fut = Blank.fut /\ r.event = Blank.event /\ r.dma = Blank.dma
        /\ r.got = Blank.got /\ r.want = Blank.want /\ r.sense = Blank.sense
        /\ r.clean = Blank.clean /\ r.started = Blank.started
    BY <1>1 DEF Lane
  <1>4. /\ Blank.fut = "none" /\ Blank.event = "off" /\ Blank.dma = {} /\ Blank.got = "own"
        /\ Blank.want = "off" /\ Blank.sense = "off" /\ Blank.clean = TRUE
        /\ Blank.started = FALSE
    BY DEF Blank
  <1> QED
    BY <1>1, <1>2, <1>3, <1>4

LEMMA InitDrivers == Init => DriversInv
  <1> SUFFICES ASSUME Init
               PROVE  DriversInv
    OBVIOUS
  <1>1. \A l \in Lanes :
            \E n \in Nat : lane[l] = [Blank EXCEPT !.q = n] \/ lane[l] = Blank
    <2>1. CASE kind = "exti"
      <3>1. PICK a \in Nat, b \in Nat :
              lane = [l \in Lanes |-> [Blank EXCEPT !.q = IF l = Rx THEN a ELSE b]]
        BY <2>1 DEF Init, ExtiPins
      <3> QED
        BY <3>1
    <2>2. CASE kind # "exti"
      BY <2>2 DEF Init
    <2> QED
      BY <2>1, <2>2
  <1>2. ASSUME NEW l \in Lanes
        PROVE  /\ lane[l] \in Lane /\ lane[l].fut = "none" /\ lane[l].event = "off"
               /\ lane[l].dma = {} /\ lane[l].got = "own" /\ lane[l].want = "off"
               /\ lane[l].sense = "off" /\ lane[l].clean = TRUE /\ lane[l].started = FALSE
    <2>1. PICK n \in Nat : lane[l] = [Blank EXCEPT !.q = n] \/ lane[l] = Blank
      BY <1>1
    <2> QED
      BY <2>1, BlankLane
  <1>3. /\ isr.at = "idle" /\ IsrAt(isr, PointsOf(kind))
        /\ kind = "serial" => drv # "gone"
        /\ kind \in GpioteKinds => nvic = {1}
        /\ kind \notin GpioteKinds => nvic = {}
        /\ kind \in DmaKinds \cup GpioteKinds \cup FutureKinds
        /\ above => kind = "port"
    BY IsrReturns, DriversAssumption DEF Init, DmaKinds, FutureKinds
  <1>4. lane \in [Lanes -> Lane]
    BY <1>2 DEF Init
  <1>5. Types
    BY <1>3, <1>4 DEF Types, Irqs
  <1>6. kind = "uarte" => UarteInv
    BY <1>2, <1>3 DEF UarteInv, UarteLane, OwnTransfer
  <1>7. kind \in {"spim", "saadc", "qspi"} => OneLaneInv
    BY <1>2, <1>3 DEF OneLaneInv, OneLane, OwnTransfer, Lanes
  <1>8. (kind = "channel" => ChannelInv) /\ (kind = "port" => PortInv)
    BY <1>2, <1>3 DEF ChannelInv, ChannelLane, PortInv, PortLane, Leftover, GpioteKinds
  <1>9. (kind = "exti" => ExtiInv) /\ (kind = "can" => CanInv)
    BY <1>2, <1>3 DEF ExtiInv, PinLane, CanInv, CanLane, FutureInv, GpioteKinds
  <1>10. kind = "serial" => SerialInv
    BY <1>2, <1>3 DEF SerialInv, SerialLane, FutureInv
  <1> QED
    BY <1>5, <1>6, <1>7, <1>8, <1>9, <1>10 DEF DriversInv

\* No step turns a driver into another one.
LEMMA KindIsFixed == Next => kind' = kind
  <1> USE DEF StartTransfer, TakeEvent, AwaitEvent, AbandonTransfer, Register, PollAgain
  <1>1. Handler => kind' = kind
    BY DEF Handler, UarteHandler, ChannelHandler, PortHandler,
           irq_wake_handler, UarteHandlerWakes, UarteHandlerMasks, UarteHandlerStops,
           ChannelHandlerReads, ChannelHandlerMasks, ChannelHandlerWakes, PortHandlerResets, PortHandlerReads, PortHandlerSense,
           PortHandlerWakes, PortHandlerClears, HandlerWakes, HandlerMasks
  <1>2. ASSUME NEW i \in Irqs, TakeIrq(i) PROVE kind' = kind
    BY <1>2 DEF TakeIrq, TakeInterrupt
  <1>3. DropTask => kind' = kind
    BY DEF DropTask, UarteDropSleeps, UarteDropped
  <1>4. ASSUME NEW l \in Lanes, Hardware(l) PROVE kind' = kind
    BY <1>4 DEF Hardware, TransferEnds, Stops, QspiReady, PinLatches, FrameSent, SerialEnds
  <1>5. ASSUME NEW l \in Lanes, Task(l) PROVE kind' = kind
    <2>1. UarteTask(l) \/ SpimPoll \/ SaadcPoll \/ QspiPoll \/ QspiActivated => kind' = kind
      BY DEF QspiActivated, UarteTask, UarteCheck, UarteCancelled, SpimPoll, SaadcPoll, QspiPoll
    <2>2. ChannelTask(l) \/ PortTask(l) => kind' = kind
      BY DEF ChannelTask, ChannelCheck, PortTask, PortCheck
    <2>3. ExtiTask(l) => kind' = kind
      BY DEF ExtiTask, MakeFuture, trigger_edge, ExtiLevel, SetContext, ExtiCheck
    <2>4. CanTask(l) => kind' = kind
      BY DEF CanTask, MakeFuture, SetContext, CanRequest, CanTransmitCheck, CanTake,
             CanReceiveCheck
    <2>5. SerialTask(l) => kind' = kind
      BY DEF SerialTask, MakeFuture, SerialStart, SetContext, SerialCheck
    <2> QED
      BY <1>5, <2>1, <2>2, <2>3, <2>4, <2>5 DEF Task
  <1>6. ASSUME NEW l \in Lanes, User(l) PROVE kind' = kind
    <2>1. UarteUser(l) => kind' = kind
      BY DEF UarteUser, UarteRead, UarteWrite, UarteStart, UarteCancel, UarteDrop, UarteDropWakes,
             UarteNew
    <2>2. SpimNew \/ SpimReadWrite \/ AbandonTransfer(Rx) \/ SaadcNew \/ SaadcSample \/ SaadcDrop
            => kind' = kind
      BY DEF SpimNew, SpimReadWrite, SaadcNew, SaadcSample, SaadcDrop
    <2>3. QspiNew \/ QspiCustomInstruction \/ QspiRead \/ QspiWrite \/ QspiErase \/ QspiCancel \/ QspiSleep
            => kind' = kind
      BY DEF QspiNew, QspiCustomInstruction, QspiRead, QspiWrite, QspiErase, QspiCancel, QspiSleep
    <2>4. ChannelUser(l) => kind' = kind
      BY DEF ChannelUser, ChannelNew, ChannelDrop, ChannelWait, ChannelCancel, ChannelEdge
    <2>5. PortUser(l) => kind' = kind
      BY DEF PortUser, wait_for_high, wait_for_low, wait_for, PinChanges, PortCancel
    <2>6. ExtiUser(l) => kind' = kind
      BY DEF ExtiUser, wait_for_state, wait_for_edge, ExtiCall, CancelFuture, ExtiEdge
    <2>7. CanUser(l) => kind' = kind
      BY DEF CanUser, CancelFuture, CanTransmit, CanReceive, FrameArrives
    <2>8. SerialUser(l) => kind' = kind
      BY DEF SerialUser, SerialCancel, SerialRead, SerialReadUntilIdle, SerialFallsIdle,
             SerialWrite, SerialTake
    <2>9. PollAgain(l) => kind' = kind
      OBVIOUS
    <2> HIDE DEF AbandonTransfer, PollAgain
    <2> QED
      BY <1>6, <2>1, <2>2, <2>3, <2>4, <2>5, <2>6, <2>7, <2>8, <2>9 DEF User
  <1> QED
    BY <1>1, <1>2, <1>3, <1>4, <1>5, <1>6 DEF Next

LEMMA DriversInvariant == Spec => []DriversInv
  <1>1. ASSUME DriversInv, Next PROVE DriversInv'
    <2>1. kind' = kind /\ kind \in DmaKinds \cup GpioteKinds \cup FutureKinds
      BY <1>1, KindIsFixed DEF DriversInv, Types
    <2>2. CASE kind = "uarte"
      BY <1>1, <2>1, <2>2, UarteSteps DEF DriversInv
    <2>3. CASE kind \in {"spim", "saadc", "qspi"}
      BY <1>1, <2>1, <2>3, OneLaneSteps DEF DriversInv
    <2>4. CASE kind = "channel"
      BY <1>1, <2>1, <2>4, ChannelSteps DEF DriversInv
    <2>5. CASE kind = "port"
      BY <1>1, <2>1, <2>5, PortSteps DEF DriversInv
    <2>6. CASE kind = "exti"
      BY <1>1, <2>1, <2>6, ExtiSteps DEF DriversInv
    <2>7. CASE kind = "can"
      BY <1>1, <2>1, <2>7, CanSteps DEF DriversInv
    <2>8. CASE kind = "serial"
      BY <1>1, <2>1, <2>8, SerialSteps DEF DriversInv
    <2> QED
      BY <2>1, <2>2, <2>3, <2>4, <2>5, <2>6, <2>7, <2>8 DEF DmaKinds, GpioteKinds, FutureKinds
  <1>2. ASSUME DriversInv, UNCHANGED vars PROVE DriversInv'
    <2>1. UNCHANGED kind /\ UNCHANGED above /\ UNCHANGED drv /\ UNCHANGED lane
          /\ UNCHANGED nvic /\ UNCHANGED isr
      BY <1>2 DEF vars
    <2>2. Types'
      BY <1>2, <2>1 DEF DriversInv, Types
    <2>3. (UarteInv => UarteInv') /\ (OneLaneInv => OneLaneInv') /\ (ChannelInv => ChannelInv')
      BY <2>1 DEF UarteInv, OneLaneInv, OneLane, ChannelInv
    <2>4. PortInv => PortInv'
      BY <2>1 DEF PortInv, Sensed
    <2>5. (ExtiInv => ExtiInv') /\ (CanInv => CanInv') /\ (SerialInv => SerialInv')
      BY <2>1 DEF ExtiInv, CanInv, SerialInv, FutureInv, SerialIrqs
    <2> QED
      BY <1>2, <2>1, <2>2, <2>3, <2>4, <2>5 DEF DriversInv
  <1> QED
    BY <1>1, <1>2, InitDrivers, PTL DEF Spec

-----------------------------------------------------------------------------
(* The theorems.                                                           *)

\* A level that is waited for is one of a pin.
LEMMA OnlyPinsHaveLevels ==
    ASSUME NEW l \in Lanes, lane[l].want \notin {"high", "low"}
    PROVE  ~LevelIsThere(l)
  BY DEF LevelIsThere

\* Whatever the driver, a task below the interrupt that sleeps on an event that has occurred,
\* or on a level that is there, has its waker registered and an enabled interrupt pending, or
\* its handler is running (uarte.rs:143, gpiote.rs:80, signal.rs:86 and :163).  For PortInput
\* that holds of a task above the interrupt too; the others do not promise it there, and
\* DriversAssumption leaves that case out.
THEOREM SleepersAreInterrupted == Spec => []NoLostInterrupt
  <1>1. DriversInv => NoLostInterrupt
    <2> SUFFICES ASSUME DriversInv, NEW l \in Lanes, lane[l].fut = "asleep",
                        lane[l].event # "off" \/ LevelIsThere(l), isr.at = "idle"
                 PROVE  lane[l].waker /\ \E i \in nvic : Line(i)
      <3>1. isr = Idle => isr.at = "idle"
        BY DEF Idle
      <3> QED
        BY <3>1 DEF NoLostInterrupt
    <2>1. CASE kind = "uarte"
      <3>1. UarteLane(lane[l]) /\ 1 \in nvic
        BY <2>1 DEF DriversInv, UarteInv
      <3>2. lane[l].event # "off" /\ lane[l].inten /\ lane[l].waker
        BY <3>1, OnlyPinsHaveLevels DEF UarteLane
      <3>3. Line(1)
        BY <2>1, <3>2 DEF Line, UarteLine
      <3> QED
        BY <3>1, <3>2, <3>3
    <2>2. CASE kind \in {"spim", "saadc", "qspi"}
      <3>1. OneLane(lane[l]) /\ l = Rx /\ Rx \in nvic
        BY <2>2 DEF DriversInv, OneLaneInv, Lanes
      <3>2. lane[l].event # "off" /\ lane[l].inten /\ lane[l].waker
        BY <3>1, OnlyPinsHaveLevels DEF OneLane
      <3>3. Line(Rx)
        BY <2>2, <3>1, <3>2 DEF Line, EventLine
      <3> QED
        BY <3>1, <3>2, <3>3
    <2>3. CASE kind = "channel"
      <3>1. ChannelLane(lane[l]) /\ 1 \in nvic /\ lane[l].inten
        BY <2>3 DEF DriversInv, ChannelInv
      <3>2. lane[l].event # "off" /\ lane[l].waker
        BY <3>1, OnlyPinsHaveLevels DEF ChannelLane
      <3>3. Line(1)
        BY <2>3, <3>1, <3>2 DEF Line, ChannelLine
      <3> QED
        BY <3>1, <3>2, <3>3
    <2>4. CASE kind = "port"
      <3>1. PortLane(lane[l]) /\ 1 \in nvic
        BY <2>4 DEF DriversInv, PortInv
      <3>2. lane[l].event # "off" /\ lane[l].waker
        BY <3>1, OnlyPinsHaveLevels DEF PortLane
      <3>3. drv = "event"
        BY <2>4, <3>2 DEF DriversInv, PortInv
      <3>4. Line(1)
        BY <2>4, <3>3 DEF Line, PortLine
      <3> QED
        BY <3>1, <3>2, <3>4
    <2>5. CASE kind = "exti"
      <3>1. PinLane(lane[l]) /\ l \in nvic
        BY <2>5 DEF DriversInv, ExtiInv
      <3>2. lane[l].event # "off" /\ lane[l].waker
        BY <3>1 DEF PinLane, LevelIsThere
      <3>3. Line(l)
        BY <2>5, <3>2 DEF Line, ExtiLine
      <3> QED
        BY <3>1, <3>2, <3>3
    <2>6. CASE kind = "can"
      <3>1. CanLane(l, lane[l]) /\ l \in nvic
        BY <2>6 DEF DriversInv, CanInv
      <3>2. lane[l].event # "off" /\ lane[l].waker
        BY <3>1, OnlyPinsHaveLevels DEF CanLane
      <3>3. Line(l)
        BY <2>6, <3>2 DEF Line, CanLine
      <3> QED
        BY <3>1, <3>2, <3>3
    <2>7. CASE kind = "serial"
      <3>1. SerialLane(l, lane[l]) /\ l \in nvic
        BY <2>7 DEF DriversInv, SerialInv, SerialIrqs
      <3>2. lane[l].event # "off" /\ lane[l].waker
        BY <3>1, OnlyPinsHaveLevels DEF SerialLane
      <3>3. Line(l)
        BY <2>7, <3>2 DEF Line, SerialLine
      <3> QED
        BY <3>1, <3>2, <3>3
    <2> QED
      BY <2>1, <2>2, <2>3, <2>4, <2>5, <2>6, <2>7
      DEF DriversInv, Types, DmaKinds, GpioteKinds, FutureKinds
  <1> QED
    BY <1>1, DriversInvariant, PTL

\* An operation is completed by its own event, never by one that an earlier operation left,
\* unless that was cancelled in a driver that leaves it at that (uarte.rs:223, gpiote.rs:171,
\* qspi.rs:191, f4/serial.rs:112).
THEOREM OperationsEndByThemselves == Spec => []CompletedByOwnEvent
  <1>1. DriversInv => CompletedByOwnEvent
    <2> SUFFICES ASSUME DriversInv, NEW l \in Lanes, lane[l].fut = "none",
                        ~(kind = "can" /\ l = Tx), kind \in Tidy \/ lane[l].clean
                 PROVE  lane[l].got = "own"
      BY DEF CompletedByOwnEvent
    <2>1. CASE kind = "uarte"
      BY <2>1 DEF DriversInv, UarteInv, UarteLane, OwnTransfer
    <2>2. CASE kind \in {"spim", "saadc", "qspi"}
      BY <2>2 DEF DriversInv, OneLaneInv, OneLane, OwnTransfer, Tidy
    <2>3. CASE kind = "channel"
      BY <2>3 DEF DriversInv, ChannelInv, ChannelLane
    <2>4. CASE kind = "port"
      BY <2>4 DEF DriversInv, PortInv, PortLane, Tidy
    <2>5. CASE kind = "exti"
      BY <2>5 DEF DriversInv, ExtiInv, PinLane, Tidy
    <2>6. CASE kind = "can"
      BY <2>6 DEF DriversInv, CanInv, CanLane, Lanes
    <2>7. CASE kind = "serial"
      BY <2>7 DEF DriversInv, SerialInv, SerialLane
    <2> QED
      BY <2>1, <2>2, <2>3, <2>4, <2>5, <2>6, <2>7
      DEF DriversInv, Types, DmaKinds, GpioteKinds, FutureKinds
  <1> QED
    BY <1>1, DriversInvariant, PTL

\* The hardware never uses the buffer of an operation that is over: Uarte stops the transfer
\* of a dropped future before it returns, Qspi goes no further, Serial drops the Transfer
\* (uarte.rs:215, qspi.rs:166).
THEOREM TransfersEndWithTheirOperation == Spec => []NoTransferIsLeft
  <1>1. DriversInv => NoTransferIsLeft
    <2> SUFFICES ASSUME DriversInv, NEW l \in Lanes, kind \in Tidy \/ lane[l].clean
                 PROVE  lane[l].dma \subseteq {"own"} /\ (lane[l].fut = "none" => lane[l].dma = {})
      BY DEF NoTransferIsLeft
    <2>1. CASE kind = "uarte"
      BY <2>1 DEF DriversInv, UarteInv, UarteLane, OwnTransfer
    <2>2. CASE kind \in {"spim", "saadc", "qspi"}
      BY <2>2 DEF DriversInv, OneLaneInv, OneLane, OwnTransfer, Tidy
    <2>3. CASE kind = "channel"
      BY <2>3 DEF DriversInv, ChannelInv, ChannelLane
    <2>4. CASE kind = "port"
      BY <2>4 DEF DriversInv, PortInv, PortLane
    <2>5. CASE kind = "exti"
      BY <2>5 DEF DriversInv, ExtiInv, PinLane
    <2>6. CASE kind = "can"
      BY <2>6 DEF DriversInv, CanInv, CanLane
    <2>7. CASE kind = "serial"
      BY <2>7 DEF DriversInv, SerialInv, SerialLane
    <2> QED
      BY <2>1, <2>2, <2>3, <2>4, <2>5, <2>6, <2>7
      DEF DriversInv, Types, DmaKinds, GpioteKinds, FutureKinds
  <1> QED
    BY <1>1, DriversInvariant, PTL

\* Every driver but Can panics only after a future was dropped: the bomb of Qspi, and the
\* stream and USART that Serial has lost (qspi.rs:166, f4/serial.rs:109).  Can::transmit
\* panics when it finds no free mailbox, with nothing dropped (can.rs:46).
THEOREM PanicsFollowCancellation == Spec => []PanicsOnlyWhenCancelled
  <1>1. DriversInv => PanicsOnlyWhenCancelled
    <2> SUFFICES ASSUME DriversInv, NEW l \in Lanes, lane[l].fut = "panic", kind # "can"
                 PROVE  \E m \in Lanes : ~lane[m].clean
      BY DEF PanicsOnlyWhenCancelled
    <2>1. kind # "uarte"
      BY DEF DriversInv, UarteInv, UarteLane
    <2>2. CASE kind \in {"spim", "saadc", "qspi"}
      BY <2>2 DEF DriversInv, OneLaneInv, OneLane
    <2>3. kind # "channel" /\ kind # "port"
      BY DEF DriversInv, ChannelInv, ChannelLane, PortInv, PortLane
    <2>4. kind # "exti"
      BY DEF DriversInv, ExtiInv, PinLane
    <2>5. CASE kind = "serial"
      BY <2>5 DEF DriversInv, SerialInv
    <2> QED
      BY <2>1, <2>2, <2>3, <2>4, <2>5 DEF DriversInv, Types, DmaKinds, GpioteKinds, FutureKinds
  <1> QED
    BY <1>1, DriversInvariant, PTL
=============================================================================
