---------------------------- MODULE BufferedUarte ----------------------------
(***************************************************************************)
(* The buffered UART driver of embassy-nrf/src/buffered_uarte.rs: a ring   *)
(* buffer in each direction, moved by DMA and by on_interrupt on one side, *)
(* by the futures of its owner on the other, behind the PeripheralMutex    *)
(* of embassy-extras.                                                      *)
(*                                                                         *)
(* The bytes of each direction are numbered from 1 in the order in which   *)
(* they arrive, or are written, so that order and loss show.  The UARTE,   *)
(* its DMA and the idle timer, which PPI connects to it, are external; a   *)
(* byte that arrives while no reception runs never gets a number.          *)
(*                                                                         *)
(* The owner runs at a lower priority than the interrupt, and `with`       *)
(* disables the interrupt, so that a method is one step; the DMA runs      *)
(* between the steps of either.                                            *)
(***************************************************************************)
EXTENDS Integers, RingBuffer

CONSTANTS
    RxSize, TxSize,   \* lengths of rx_buffer and tx_buffer
    MaxRx, MaxTx,     \* bounds on the bytes that arrive and are written
    EarlyBaudrate     \* whether set_baudrate may be called before any other method

ASSUME BufferedUarteAssumption ==
    /\ RxSize \in Nat \ {0} /\ TxSize \in Nat \ {0}
    /\ MaxRx \in Nat /\ MaxTx \in Nat
    /\ EarlyBaudrate \in BOOLEAN

VARIABLES
    rx, tx,           \* State::rx, State::tx
    rx_state,         \* State::rx_state
    tx_state,         \* State::tx_state: 0 is Idle, n is Transmitting(n)
    rx_waker,         \* a waker is registered in State::rx_waker
    tx_waker,         \* a waker is registered in State::tx_waker
    rx_mem, tx_mem,   \* contents of the buffers
    rxd, txd,         \* DMA: pointer and count, bytes done, whether it runs
    endrx, endtx,     \* EVENTS_ENDRX, EVENTS_ENDTX
    timer,            \* the idle timer runs
    irq_setup_done,   \* PeripheralMutex::irq_setup_done
    enabled,          \* the interrupt is enabled
    pending,          \* irq.pend() was called
    isr,              \* where on_interrupt is; "fault" if no handler was set
    reader, writer,   \* whether the owner's futures run or wait for their wakers
    slice,            \* what poll_fill_buf returned and consume has not released
    received,         \* number of the last byte that has arrived
    consumed,         \* number of the last byte that was consumed
    written,          \* number of the last byte that poll_write has accepted
    wire,             \* number of the last byte transmitted
    life              \* whether the driver lives, is being dropped or is dropped

rxVars == <<rx, rx_state, rx_waker, rx_mem, rxd, endrx, timer, reader, slice, received, consumed>>
txVars == <<tx, tx_state, tx_waker, tx_mem, txd, endtx, writer, written, wire>>
irqVars == <<irq_setup_done, enabled, pending, isr>>
vars == <<rxVars, txVars, irqVars, life>>

Idle == [ptr |-> 0, cnt |-> 0, done |-> 0, on |-> FALSE]
NoSlice == [from |-> 0, len |-> 0]

\* BufferedUarte::new pends the interrupt and leaves it disabled.
Init ==
    /\ rx = new /\ tx = new
    /\ rx_state = "Idle" /\ tx_state = 0
    /\ rx_waker = FALSE /\ tx_waker = FALSE
    /\ rx_mem = [i \in 0..(RxSize - 1) |-> 0]
    /\ tx_mem = [i \in 0..(TxSize - 1) |-> 0]
    /\ rxd = Idle /\ txd = Idle
    /\ endrx = FALSE /\ endtx = FALSE
    /\ timer = FALSE
    /\ irq_setup_done = FALSE
    /\ enabled = FALSE
    /\ pending = TRUE
    /\ isr = "idle"
    /\ reader = "running" /\ writer = "running"
    /\ slice = NoSlice
    /\ received = 0 /\ consumed = 0 /\ written = 0 /\ wire = 0
    /\ life = "alive"

-----------------------------------------------------------------------------
(* The owner's methods.                                                    *)

\* PeripheralMutex::with disables the interrupt and enables it when f has returned.
With ==
    /\ life = "alive"
    /\ isr = "idle"
    /\ enabled' = TRUE

\* All methods but set_baudrate begin with register_interrupt, which sets the handler.
Method == With /\ irq_setup_done' = TRUE

\* set_baudrate changes the length of the idle timer's period, which is not modelled.
SetBaudrate ==
    /\ With
    /\ irq_setup_done \/ EarlyBaudrate
    /\ UNCHANGED <<rxVars, txVars, irq_setup_done, pending, isr, life>>

\* poll_fill_buf
PollFillBuf ==
    /\ Method
    /\ LET buf == pop_buf(rx, RxSize)
       IN IF buf.len > 0
          THEN slice' = buf /\ reader' = "running" /\ UNCHANGED rx_waker
          ELSE rx_waker' = TRUE /\ reader' = "waiting" /\ slice' = NoSlice
    /\ UNCHANGED <<rx, rx_state, rx_mem, rxd, endrx, timer, received, consumed, txVars,
                   pending, isr, life>>

\* Mutant: the interrupt is not pended.
ConsumeQuiet(amt) ==
    /\ Method
    /\ slice.len > 0
    /\ amt <= slice.len
    /\ rx' = pop(rx, amt, RxSize)
    /\ consumed' = consumed + amt
    /\ slice' = NoSlice
    /\ UNCHANGED <<rx_state, rx_waker, rx_mem, rxd, endrx, timer, reader, received, txVars,
                   pending, isr, life>>

\* consume, of at most what poll_fill_buf returned
Consume(amt) ==
    /\ Method
    /\ slice.len > 0
    /\ amt <= slice.len
    /\ rx' = pop(rx, amt, RxSize)
    /\ pending' = TRUE
    /\ consumed' = consumed + amt
    /\ slice' = NoSlice
    /\ UNCHANGED <<rx_state, rx_waker, rx_mem, rxd, endrx, timer, reader, received, txVars,
                   isr, life>>

MinOf(a, b) == IF a <= b THEN a ELSE b

\* poll_write of a buffer of k bytes
PollWrite(k) ==
    /\ Method
    /\ written + k <= MaxTx
    /\ LET buf == push_buf(tx, TxSize)
           n   == MinOf(buf.len, k)
       IN IF buf.len = 0
          THEN /\ tx_waker' = TRUE /\ writer' = "waiting"
               /\ UNCHANGED <<tx, tx_mem, written, pending>>
          ELSE /\ tx_mem' = [i \in 0..(TxSize - 1) |->
                     IF buf.from <= i /\ i < buf.from + n THEN written + 1 + i - buf.from
                     ELSE tx_mem[i]]
               /\ tx' = push(tx, n, TxSize)
               /\ written' = written + n
               /\ pending' = TRUE
               /\ writer' = "running"
               /\ UNCHANGED tx_waker
    /\ UNCHANGED <<tx_state, txd, endtx, wire, rxVars, isr, life>>

\* PeripheralMutex::drop disables the interrupt; State::drop stops what is running ...
DropBegin ==
    /\ life = "alive"
    /\ isr = "idle"
    /\ life' = "dropping"
    /\ enabled' = FALSE
    /\ timer' = FALSE
    /\ slice' = NoSlice
    /\ UNCHANGED <<rx, rx_state, rx_waker, rx_mem, rxd, endrx, reader, received, consumed,
                   txVars, irq_setup_done, pending, isr>>

\* Mutant: the end of the transmission is not waited for.
DropEarly ==
    /\ life = "dropping"
    /\ rx_state = "Receiving" => endrx
    /\ life' = "dropped"
    /\ UNCHANGED <<rxVars, txVars, irqVars>>

\* ... and waits for the events that it has ended.
DropEnd ==
    /\ life = "dropping"
    /\ rx_state = "Receiving" => endrx
    /\ tx_state > 0 => endtx
    /\ life' = "dropped"
    /\ UNCHANGED <<rxVars, txVars, irqVars>>

-----------------------------------------------------------------------------
(* on_interrupt, one iteration of a loop per step.                         *)

\* The interrupt is taken when it is pended or an event is raised; the trampoline calls
\* the handler without looking whether one was set.
IsrEnter ==
    /\ enabled
    /\ isr = "idle"
    /\ pending \/ endrx \/ endtx
    /\ pending' = FALSE
    /\ isr' = IF irq_setup_done THEN "rx" ELSE "fault"
    /\ UNCHANGED <<rxVars, txVars, irq_setup_done, enabled, life>>

\* Mutant: the DMA is given the rest of the buffer, used or not.
RxStartWide ==
    /\ isr = "rx"
    /\ rx_state = "Idle"
    /\ LET buf == push_buf(rx, RxSize)
       IN IF buf.len > 0
          THEN /\ rx_state' = "Receiving"
               /\ rxd' = [ptr |-> buf.from, cnt |-> RxSize - buf.from, done |-> 0, on |-> TRUE]
          ELSE UNCHANGED <<rx_state, rxd>>
    /\ isr' = "tx"
    /\ UNCHANGED <<rx, rx_waker, rx_mem, endrx, timer, reader, slice, received, consumed,
                   txVars, irq_setup_done, enabled, pending, life>>

\* RxState::Idle: start the next reception if there is room.
RxStart ==
    /\ isr = "rx"
    /\ rx_state = "Idle"
    /\ LET buf == push_buf(rx, RxSize)
       IN IF buf.len > 0
          THEN /\ rx_state' = "Receiving"
               /\ rxd' = [ptr |-> buf.from, cnt |-> buf.len, done |-> 0, on |-> TRUE]
          ELSE UNCHANGED <<rx_state, rxd>>
    /\ isr' = "tx"
    /\ UNCHANGED <<rx, rx_waker, rx_mem, endrx, timer, reader, slice, received, consumed,
                   txVars, irq_setup_done, enabled, pending, life>>

\* Mutant: the whole buffer that the DMA was given is pushed.
RxEndAll ==
    /\ isr = "rx"
    /\ rx_state = "Receiving"
    /\ endrx
    /\ timer' = FALSE
    /\ rx' = push(rx, rxd.cnt, RxSize)
    /\ endrx' = FALSE
    /\ rx_waker' = FALSE
    /\ reader' = IF rx_waker THEN "running" ELSE reader
    /\ rx_state' = "Idle"
    /\ UNCHANGED <<rx_mem, rxd, slice, received, consumed, txVars, irqVars, life>>

\* Mutant: the reader is not woken.
RxEndQuiet ==
    /\ isr = "rx"
    /\ rx_state = "Receiving"
    /\ endrx
    /\ timer' = FALSE
    /\ rx' = push(rx, rxd.done, RxSize)
    /\ endrx' = FALSE
    /\ rx_state' = "Idle"
    /\ UNCHANGED <<rx_waker, reader, rx_mem, rxd, slice, received, consumed, txVars, irqVars,
                   life>>

\* RxState::Receiving with ENDRX: push what was received and wake the reader.
RxEnd ==
    /\ isr = "rx"
    /\ rx_state = "Receiving"
    /\ endrx
    /\ timer' = FALSE
    /\ rx' = push(rx, rxd.done, RxSize)
    /\ endrx' = FALSE
    /\ rx_waker' = FALSE
    /\ reader' = IF rx_waker THEN "running" ELSE reader
    /\ rx_state' = "Idle"
    /\ UNCHANGED <<rx_mem, rxd, slice, received, consumed, txVars, irqVars, life>>

\* RxState::Receiving without ENDRX.
RxBusy ==
    /\ isr = "rx"
    /\ rx_state = "Receiving"
    /\ ~endrx
    /\ isr' = "tx"
    /\ UNCHANGED <<rxVars, txVars, irq_setup_done, enabled, pending, life>>

\* TxState::Idle: start the next transmission if there is something to send.
TxStart ==
    /\ isr = "tx"
    /\ tx_state = 0
    /\ LET buf == pop_buf(tx, TxSize)
       IN IF buf.len > 0
          THEN /\ tx_state' = buf.len
               /\ txd' = [ptr |-> buf.from, cnt |-> buf.len, done |-> 0, on |-> TRUE]
          ELSE UNCHANGED <<tx_state, txd>>
    /\ isr' = "idle"
    /\ UNCHANGED <<tx, tx_waker, tx_mem, endtx, writer, written, wire, rxVars,
                   irq_setup_done, enabled, pending, life>>

\* Mutant: the writer is not woken.
TxEndQuiet ==
    /\ isr = "tx"
    /\ tx_state > 0
    /\ endtx
    /\ endtx' = FALSE
    /\ tx' = pop(tx, tx_state, TxSize)
    /\ tx_state' = 0
    /\ UNCHANGED <<tx_waker, tx_mem, txd, writer, written, wire, rxVars, irqVars, life>>

\* Mutant: the last byte that was sent stays in the ring.
TxEndShort ==
    /\ isr = "tx"
    /\ tx_state > 0
    /\ endtx
    /\ endtx' = FALSE
    /\ tx' = pop(tx, tx_state - 1, TxSize)
    /\ tx_waker' = FALSE
    /\ writer' = IF tx_waker THEN "running" ELSE writer
    /\ tx_state' = 0
    /\ UNCHANGED <<tx_mem, txd, written, wire, rxVars, irqVars, life>>

\* TxState::Transmitting with ENDTX: free what was sent and wake the writer.
TxEnd ==
    /\ isr = "tx"
    /\ tx_state > 0
    /\ endtx
    /\ endtx' = FALSE
    /\ tx' = pop(tx, tx_state, TxSize)
    /\ tx_waker' = FALSE
    /\ writer' = IF tx_waker THEN "running" ELSE writer
    /\ tx_state' = 0
    /\ UNCHANGED <<tx_mem, txd, written, wire, rxVars, irqVars, life>>

\* TxState::Transmitting without ENDTX.
TxBusy ==
    /\ isr = "tx"
    /\ tx_state > 0
    /\ ~endtx
    /\ isr' = "idle"
    /\ UNCHANGED <<rxVars, txVars, irq_setup_done, enabled, pending, life>>

on_interrupt == RxStart \/ RxEnd \/ RxBusy \/ TxStart \/ TxEnd \/ TxBusy

-----------------------------------------------------------------------------
(* The peripheral.                                                         *)

\* A byte arrives: it is stored, the idle timer starts over, and the reception ends
\* with the last byte of the buffer.
RxByte ==
    /\ rxd.on
    /\ received < MaxRx
    /\ rx_mem' = [rx_mem EXCEPT ![rxd.ptr + rxd.done] = received + 1]
    /\ rxd' = [rxd EXCEPT !.done = @ + 1, !.on = (rxd.done + 1 < rxd.cnt)]
    /\ endrx' = (endrx \/ rxd.done + 1 = rxd.cnt)
    /\ received' = received + 1
    /\ timer' = TRUE
    /\ UNCHANGED <<rx, rx_state, rx_waker, reader, slice, consumed, txVars, irqVars, life>>

\* The line has been idle: the timer stops, and stops the reception through PPI.
TimerFires ==
    /\ timer
    /\ timer' = FALSE
    /\ endrx' = (endrx \/ rxd.on)
    /\ rxd' = [rxd EXCEPT !.on = FALSE]
    /\ UNCHANGED <<rx, rx_state, rx_waker, rx_mem, reader, slice, received, consumed, txVars,
                   irqVars, life>>

\* A byte is transmitted.
TxByte ==
    /\ txd.on
    /\ wire' = tx_mem[txd.ptr + txd.done]
    /\ txd' = [txd EXCEPT !.done = @ + 1, !.on = (txd.done + 1 < txd.cnt)]
    /\ endtx' = (endtx \/ txd.done + 1 = txd.cnt)
    /\ UNCHANGED <<tx, tx_state, tx_waker, tx_mem, writer, written, rxVars, irqVars, life>>

\* The peripheral obeys the STOPRX and STOPTX of drop, and raises the events.
Stop ==
    /\ life = "dropping"
    /\ \/ /\ rxd.on
          /\ rxd' = [rxd EXCEPT !.on = FALSE] /\ endrx' = TRUE
          /\ UNCHANGED <<txd, endtx>>
       \/ /\ txd.on
          /\ txd' = [txd EXCEPT !.on = FALSE] /\ endtx' = TRUE
          /\ UNCHANGED <<rxd, endrx>>
    /\ UNCHANGED <<rx, tx, rx_state, tx_state, rx_waker, tx_waker, rx_mem, tx_mem, timer,
                   irqVars, reader, writer, slice, received, consumed,
                   written, wire, life>>

-----------------------------------------------------------------------------
Next ==
    \/ PollFillBuf
    \/ SetBaudrate
    \/ \E amt \in 0..RxSize : Consume(amt)
    \/ \E k \in 1..TxSize : PollWrite(k)
    \/ DropBegin \/ DropEnd
    \/ IsrEnter \/ on_interrupt
    \/ RxByte \/ TimerFires \/ TxByte \/ Stop

Spec == Init /\ [][Next]_vars

\* Interrupts are taken and return, the peripheral transmits and the timer expires.
\* Nothing obliges bytes to arrive, the owner to call, or drop to end.
Fairness ==
    /\ WF_vars(IsrEnter) /\ WF_vars(on_interrupt)
    /\ WF_vars(TxByte) /\ WF_vars(TimerFires)

FairSpec == Spec /\ Fairness

-----------------------------------------------------------------------------
(* Properties.                                                             *)

Dma(size) == [ptr : 0..size, cnt : 0..size, done : 0..size, on : BOOLEAN]

TypeOK ==
    /\ rx \in Rings(RxSize - 1) /\ tx \in Rings(TxSize - 1)
    /\ rx_state \in {"Idle", "Receiving"} /\ tx_state \in 0..TxSize
    /\ rx_waker \in BOOLEAN /\ tx_waker \in BOOLEAN
    /\ rx_mem \in [0..(RxSize - 1) -> 0..MaxRx]
    /\ tx_mem \in [0..(TxSize - 1) -> 0..MaxTx]
    /\ rxd \in Dma(RxSize) /\ txd \in Dma(TxSize)
    /\ endrx \in BOOLEAN /\ endtx \in BOOLEAN /\ timer \in BOOLEAN
    /\ irq_setup_done \in BOOLEAN /\ enabled \in BOOLEAN /\ pending \in BOOLEAN
    /\ isr \in {"idle", "rx", "tx", "fault"}
    /\ reader \in {"running", "waiting"} /\ writer \in {"running", "waiting"}
    /\ slice \in Slices(RxSize)
    /\ received \in 0..MaxRx /\ consumed \in 0..MaxRx
    /\ written \in 0..MaxTx /\ wire \in 0..MaxTx
    /\ life \in {"alive", "dropping", "dropped"}

\* Bytes that the DMA has stored and on_interrupt has not pushed.
Landed == IF rx_state = "Receiving" THEN rxd.done ELSE 0

\* The ring holds the bytes that were received and not consumed, in order and without
\* a gap, and the bytes landed since follow them.
RxInOrder ==
    /\ received = consumed + Used(rx, RxSize) + Landed
    /\ \A i \in 0..(Used(rx, RxSize) - 1) : rx_mem[At(rx, i, RxSize)] = consumed + 1 + i

\* The DMA never writes into the slice that the reader was given and has not consumed:
\* poll_fill_buf lets that borrow outlive the call with a transmute
\* (buffered_uarte.rs:212-214).
SliceUntouched ==
    /\ \A i \in 0..(slice.len - 1) : rx_mem[slice.from + i] = consumed + 1 + i
    /\ rxd.on => \A i \in 0..(RxSize - 1) :
         Within(slice, i) => ~(rxd.ptr <= i /\ i < rxd.ptr + rxd.cnt)

\* The bytes go out in the order in which they were written, none twice and none
\* skipped: every byte that the DMA sends is the one after the last, for poll_write never
\* overwrites a byte that is still to be sent, and on_interrupt frees exactly what was sent
\* (buffered_uarte.rs:241 and :384).
TxInOrder ==
    [][IF txd'.done > txd.done THEN wire' = wire + 1 /\ wire' <= written
       ELSE wire' = wire]_<<txd, wire>>

\* After drop the DMA does not touch the buffers, which belong to the caller again.
DropStopsDma == life = "dropped" => ~rxd.on /\ ~txd.on

\* The interrupt is taken only when its handler is set: "let the Registration enable
\* it when everything is set up" (buffered_uarte.rs:121).
TakenWhenSetUp == isr # "idle" => irq_setup_done

\* What has arrived wakes a waiting reader, even if the buffer is not full: the idle
\* timer ends the reception (buffered_uarte.rs:131).  And a writer that found the buffer
\* full is woken (buffered_uarte.rs:385).
SleepersAreWoken ==
    /\ reader = "waiting" /\ received > consumed /\ life = "alive"
       ~> reader = "running" \/ life # "alive"
    /\ writer = "waiting" /\ life = "alive" ~> writer = "running" \/ life # "alive"

\* Reception starts again when the reader has made room.
ReceptionResumes ==
    irq_setup_done /\ rx_state = "Idle" /\ Used(rx, RxSize) < RxSize /\ life = "alive"
    ~> rx_state = "Receiving" \/ life # "alive"
=============================================================================
