------------------------- MODULE BufferedUarteProof -------------------------
(***************************************************************************)
(* The buffered UART loses, repeats and overwrites no byte in either       *)
(* direction, for buffers of any length and any number of bytes, whatever  *)
(* the DMA, the idle timer, the interrupt and the owner's calls do in      *)
(* between; and a dropped driver leaves no DMA running.                    *)
(***************************************************************************)
EXTENDS BufferedUarte, SeqFacts

\* A reception goes into the free space behind the last byte, and the event is raised
\* exactly when it has ended.  The owner may free more meanwhile, never less.
Reception ==
    /\ rxd.on \/ endrx => rx_state = "Receiving"
    /\ rx_state = "Receiving" =>
         /\ rxd.ptr = rx.end
         /\ rxd.cnt \in 1..(RxSize - Used(rx, RxSize))
         /\ rxd.ptr + rxd.cnt <= RxSize
         /\ rxd.done <= rxd.cnt
         /\ rxd.on => rxd.done < rxd.cnt
         /\ rxd.on <=> ~endrx

\* The bytes in the ring and those that have landed behind them.
RxBytes ==
    /\ received = consumed + Used(rx, RxSize) + Landed
    /\ \A i \in 0..(Used(rx, RxSize) + Landed - 1) :
         rx_mem[At(rx, i, RxSize)] = consumed + 1 + i

\* The slice that the reader holds is the beginning of the ring.
Lent ==
    slice.len > 0 =>
        /\ slice.from = rx.start
        /\ slice.len <= Used(rx, RxSize)
        /\ slice.from + slice.len <= RxSize

\* A transmission sends the beginning of the ring; unless drop stops it, it has sent all
\* of it when the event is raised.
Transmission ==
    /\ txd.on \/ endtx => tx_state > 0
    /\ tx_state > 0 =>
         /\ txd.ptr = tx.start /\ txd.cnt = tx_state
         /\ tx_state <= Used(tx, TxSize)
         /\ tx.start + tx_state <= TxSize
         /\ txd.done <= txd.cnt
         /\ txd.on => txd.done < txd.cnt
         /\ txd.on <=> ~endtx
         /\ life = "alive" /\ endtx => txd.done = txd.cnt

\* Bytes of the ring that are on the wire already.
Sent == IF tx_state > 0 THEN txd.done ELSE 0

\* The bytes in the transmit ring.
TxBytes ==
    /\ wire = written - Used(tx, TxSize) + Sent
    /\ \A i \in 0..(Used(tx, TxSize) - 1) :
         tx_mem[At(tx, i, TxSize)] = written - Used(tx, TxSize) + 1 + i

\* The interrupt is not taken any more once drop has begun.
Quiet == life # "alive" => isr = "idle" /\ ~enabled

\* The inductive invariant.
RxInv == Ring(rx, RxSize) /\ Reception /\ RxBytes /\ Lent
TxInv == Ring(tx, TxSize) /\ Transmission /\ TxBytes
UarteInv == TypeOK /\ RxInv /\ TxInv /\ Quiet

\* The numbers among the variables.
LEMMA Numbers ==
    ASSUME TypeOK
    PROVE  /\ rxd.ptr \in 0..RxSize /\ rxd.cnt \in 0..RxSize /\ rxd.done \in 0..RxSize
           /\ txd.ptr \in 0..TxSize /\ txd.cnt \in 0..TxSize /\ txd.done \in 0..TxSize
           /\ rxd.on \in BOOLEAN /\ txd.on \in BOOLEAN /\ endrx \in BOOLEAN /\ endtx \in BOOLEAN
           /\ slice.from \in 0..RxSize /\ slice.len \in 0..RxSize
           /\ tx_state \in 0..TxSize
           /\ received \in 0..MaxRx /\ consumed \in 0..MaxRx
           /\ written \in 0..MaxTx /\ wire \in 0..MaxTx
  BY DEF TypeOK, Dma, Slices

\* The record of a DMA channel.
LEMMA DmaRecord ==
    ASSUME NEW size, NEW p \in 0..size, NEW c \in 0..size, NEW d \in 0..size, NEW o \in BOOLEAN
    PROVE  [ptr |-> p, cnt |-> c, done |-> d, on |-> o] \in Dma(size)
  BY DEF Dma

-----------------------------------------------------------------------------
(* What a step leaves alone.                                               *)

\* The reception is a matter of its own variables ...
LEMMA RxKept == RxInv /\ UNCHANGED rxVars => RxInv'
  BY DEF rxVars, RxInv, Reception, RxBytes, Landed, Lent

\* ... and the transmission of its own and of whether the driver lives.
LEMMA TxKept == TxInv /\ UNCHANGED txVars /\ (life' = "alive" => life = "alive") => TxInv'
  BY DEF txVars, TxInv, Transmission, TxBytes, Sent

-----------------------------------------------------------------------------
(* The steps.                                                              *)

\* The driver starts with empty rings.
LEMMA InitUarte == Init => UarteInv
  <1> SUFFICES ASSUME Init PROVE UarteInv
    OBVIOUS
  <1> USE BufferedUarteAssumption
  <1>1. TypeOK
    <2>1. rx \in Rings(RxSize - 1) /\ tx \in Rings(TxSize - 1)
      BY NewRing DEF Init, Ring
    <2>2. rxd \in Dma(RxSize) /\ txd \in Dma(TxSize) /\ slice \in Slices(RxSize)
      BY DEF Init, Dma, Slices, Idle, NoSlice
    <2>3. 0 \in 0..MaxRx /\ 0 \in 0..MaxTx /\ 0 \in 0..TxSize
      OBVIOUS
    <2>4. rx_mem \in [0..(RxSize - 1) -> 0..MaxRx] /\ tx_mem \in [0..(TxSize - 1) -> 0..MaxTx]
      BY <2>3 DEF Init
    <2> QED
      BY <2>1, <2>2, <2>3, <2>4 DEF Init, TypeOK
  <1>2. RxInv
    <2>1. Ring(rx, RxSize) /\ Used(rx, RxSize) = 0
      BY NewRing DEF Init
    <2> QED
      BY <2>1 DEF Init, RxInv, Reception, RxBytes, Landed, Lent, Idle, NoSlice
  <1>3. TxInv
    <2>1. Ring(tx, TxSize) /\ Used(tx, TxSize) = 0
      BY NewRing DEF Init
    <2> QED
      BY <2>1 DEF Init, TxInv, Transmission, TxBytes, Sent, Idle
  <1>4. Quiet
    BY DEF Init, Quiet
  <1> QED
    BY <1>1, <1>2, <1>3, <1>4 DEF UarteInv

\* The methods of the owner that do not touch the transmit ring.
LEMMA ReaderSteps ==
    ASSUME UarteInv, SetBaudrate \/ PollFillBuf \/ \E amt \in 0..RxSize : Consume(amt)
    PROVE  UarteInv'
  <1> USE BufferedUarteAssumption DEF UarteInv
  <1>0. /\ Used(rx, RxSize) \in 0..RxSize
        /\ rx.start \in 0..(RxSize - 1) /\ rx.end \in 0..(RxSize - 1)
    BY RingPositions DEF RxInv
  <1>1. CASE SetBaudrate
    <2>1. TypeOK' /\ Quiet'
      BY <1>1 DEF SetBaudrate, With, rxVars, txVars, TypeOK, Quiet
    <2>2. RxInv' /\ TxInv'
      BY <1>1, RxKept, TxKept DEF SetBaudrate, With
    <2> QED
      BY <2>1, <2>2
  <1>2. CASE PollFillBuf
    <2> DEFINE b == pop_buf(rx, RxSize)
    <2>1. /\ b.len \in 0..Used(rx, RxSize)
          /\ b.from \in 0..(RxSize - 1)
          /\ b.len > 0 => b.from = rx.start
          /\ b.from + b.len <= RxSize
          /\ b = [from |-> b.from, len |-> b.len]
      BY PopBuf DEF RxInv
    <2>2. slice' = b \/ slice' = NoSlice
      BY <1>2 DEF PollFillBuf
    <2> HIDE DEF b
    <2>3. slice' \in Slices(RxSize)
      BY <1>0, <2>1, <2>2 DEF NoSlice, Slices
    <2>4. TypeOK' /\ Quiet'
      BY <1>2, <2>3 DEF PollFillBuf, Method, With, txVars, TypeOK, Quiet
    <2>5. RxInv'
      BY <1>2, <2>1, <2>2, <1>0 DEF PollFillBuf, NoSlice, RxInv, Reception, RxBytes, Landed, Lent
    <2>6. TxInv'
      BY <1>2, TxKept DEF PollFillBuf, Method, With
    <2> QED
      BY <2>4, <2>5, <2>6
  <1>3. ASSUME NEW amt \in 0..RxSize, Consume(amt) PROVE UarteInv'
    <2> DEFINE r == pop(rx, amt, RxSize)
               u == Used(rx, RxSize)
    <2>1. /\ slice.len > 0 /\ amt <= slice.len /\ slice.from = rx.start
          /\ slice.len <= u /\ slice.from + slice.len <= RxSize
          /\ slice.len \in Nat
      BY <1>3 DEF Consume, RxInv, Lent, TypeOK, Slices
    <2>2. amt \in 0..u /\ rx.start + amt <= RxSize
      BY <1>0, <2>1
    <2>3. /\ Ring(r, RxSize)
          /\ Used(r, RxSize) = u - amt
          /\ r.end = rx.end
          /\ \A i \in 0..(RxSize - 1 - amt) : At(r, i, RxSize) = At(rx, amt + i, RxSize)
      BY <2>2, PoppedRing DEF RxInv
    <2>4. /\ rx' = r /\ consumed' = consumed + amt /\ slice' = NoSlice
          /\ UNCHANGED <<rx_state, rx_mem, rxd, endrx, received>>
      BY <1>3 DEF Consume
    <2> HIDE DEF r
    <2>5. Landed' = Landed /\ Landed \in Nat /\ u + Landed <= RxSize
      BY <1>0, <2>4, Numbers DEF Landed, RxInv, Reception
    <2>6. RxBytes'
      <3>1. received' = consumed' + Used(r, RxSize) + Landed'
        BY <1>0, <2>2, <2>3, <2>4, <2>5 DEF RxInv, RxBytes, TypeOK
      <3>2. ASSUME NEW i \in 0..(Used(r, RxSize) + Landed' - 1)
            PROVE  rx_mem'[At(r, i, RxSize)] = consumed' + 1 + i
        <4>1. i \in 0..(RxSize - 1 - amt) /\ amt + i \in 0..(u + Landed - 1)
          BY <1>0, <2>2, <2>3, <2>5
        <4>2. rx_mem[At(rx, amt + i, RxSize)] = consumed + 1 + (amt + i)
          BY <4>1 DEF RxInv, RxBytes
        <4> QED
          BY <2>3, <2>4, <4>1, <4>2 DEF TypeOK
      <3> QED
        BY <2>4, <3>1, <3>2 DEF RxBytes
    <2>7. Reception'
      BY <1>0, <2>2, <2>3, <2>4, Numbers DEF RxInv, Reception
    <2>8. RxInv'
      BY <2>3, <2>4, <2>6, <2>7 DEF RxInv, Lent, NoSlice
    <2>9. consumed' \in 0..MaxRx
      BY <1>0, <2>2, <2>3, <2>4, <2>5, <2>6, Numbers DEF RxBytes
    <2>10. TypeOK'
      BY <1>3, <2>3, <2>4, <2>9 DEF Consume, Method, With, txVars, TypeOK, Ring, NoSlice, Slices
    <2>11. TxInv' /\ Quiet'
      BY <1>3, TxKept DEF Consume, Method, With, Quiet
    <2> QED
      BY <2>8, <2>10, <2>11
  <1> QED
    BY <1>1, <1>2, <1>3

\* poll_write puts its bytes behind those that wait.
LEMMA WriterSteps ==
    ASSUME UarteInv, NEW k \in 1..TxSize, PollWrite(k)
    PROVE  UarteInv'
  <1> USE BufferedUarteAssumption DEF UarteInv
  <1> DEFINE b == push_buf(tx, TxSize)
             n == MinOf(b.len, k)
             u == Used(tx, TxSize)
  <1>0. /\ u \in 0..TxSize
        /\ tx.start \in 0..(TxSize - 1) /\ tx.end \in 0..(TxSize - 1)
        /\ \A i \in 0..(TxSize - 1) : At(tx, i, TxSize) \in 0..(TxSize - 1)
        /\ \A i, j \in 0..(TxSize - 1) : At(tx, i, TxSize) = At(tx, j, TxSize) => i = j
    BY RingPositions DEF TxInv
  <1>1. RxInv' /\ Quiet'
    BY RxKept DEF PollWrite, Method, With, Quiet
  <1>2. CASE b.len = 0
    <2>1. TypeOK'
      BY <1>2 DEF PollWrite, Method, With, rxVars, TypeOK
    <2>2. TxInv'
      BY <1>2 DEF PollWrite, TxInv, Transmission, TxBytes, Sent
    <2> QED
      BY <1>1, <2>1, <2>2
  <1>3. CASE b.len # 0
    <2>1. /\ b.len \in 0..(TxSize - u)
          /\ b.len > 0 => b.from = tx.end
          /\ b.from + b.len <= TxSize
      BY PushBuf DEF TxInv
    <2>2. /\ n \in 1..(TxSize - u) /\ b.from = tx.end /\ tx.end + n <= TxSize /\ n <= k
      BY <1>0, <1>3, <2>1 DEF MinOf
    <2>3. /\ tx_mem' = [i \in 0..(TxSize - 1) |->
                  IF b.from <= i /\ i < b.from + n THEN written + 1 + i - b.from ELSE tx_mem[i]]
          /\ tx' = push(tx, n, TxSize)
          /\ written' = written + n
          /\ written + k <= MaxTx
          /\ UNCHANGED <<tx_state, txd, endtx, wire, life>>
      BY <1>3 DEF PollWrite
    <2> HIDE DEF b, n
    <2>4. /\ Ring(tx', TxSize)
          /\ Used(tx', TxSize) = u + n
          /\ tx'.start = tx.start
          /\ \A i \in Int : At(tx', i, TxSize) = At(tx, i, TxSize)
      BY <2>2, <2>3, Pushed DEF TxInv
    <2>5. \A i \in 0..(n - 1) : At(tx, u + i, TxSize) = tx.end + i
      BY <2>2, FreePositions DEF TxInv
    <2>6. TxBytes'
      <3>1. wire' = written' - Used(tx', TxSize) + Sent'
        BY <1>0, <2>2, <2>3, <2>4, Numbers DEF TxInv, TxBytes, Sent
      <3>2. ASSUME NEW i \in 0..(u + n - 1)
            PROVE  tx_mem'[At(tx, i, TxSize)] = written - u + 1 + i
        <4> DEFINE p == At(tx, i, TxSize)
        <4>1. p \in 0..(TxSize - 1)
          BY <1>0, <2>2
        <4>2. CASE i < u
          <5>1. ASSUME NEW j \in 0..(n - 1) PROVE p # tx.end + j
            BY <1>0, <2>2, <2>5, <4>2, <5>1
          <5>2. ~(tx.end <= p /\ p < tx.end + n)
            <6> SUFFICES ASSUME tx.end <= p, p < tx.end + n PROVE FALSE
              OBVIOUS
            <6>1. p - tx.end \in 0..(n - 1) /\ p = tx.end + (p - tx.end)
              BY <1>0, <2>2, <4>1
            <6> HIDE DEF p
            <6> QED
              BY <5>1, <6>1
          <5>3. tx_mem'[p] = tx_mem[p]
            BY <2>2, <2>3, <4>1, <5>2
          <5>4. i \in 0..(u - 1)
            BY <1>0, <2>2, <4>2
          <5> QED
            BY <5>3, <5>4 DEF TxInv, TxBytes
        <4>3. CASE ~(i < u)
          <5>1. i - u \in 0..(n - 1) /\ u + (i - u) = i
            BY <1>0, <2>2, <4>3
          <5>2. p = tx.end + (i - u)
            BY <2>5, <5>1
          <5>3. tx.end <= p /\ p < tx.end + n
            BY <1>0, <2>2, <5>1, <5>2
          <5>4. tx_mem'[p] = written + 1 + p - tx.end
            BY <2>2, <2>3, <4>1, <5>3
          <5>5. written + 1 + (tx.end + (i - u)) - tx.end = written - u + 1 + i
            <6>1. i \in Int /\ u \in Int /\ written \in Int /\ tx.end \in Int
              BY <1>0, <2>2, Numbers
            <6> QED
              BY <6>1
          <5> QED
            BY <5>2, <5>4, <5>5, Zenon
        <4> QED
          BY <4>2, <4>3
      <3>3. written' - Used(tx', TxSize) = written - u
        BY <1>0, <2>2, <2>3, <2>4, Numbers
      <3> QED
        BY <1>0, <2>2, <2>4, <3>1, <3>2, <3>3 DEF TxBytes
    <2>7. Transmission'
      BY <1>0, <2>2, <2>3, <2>4, Numbers DEF TxInv, Transmission
    <2>8. TypeOK'
      <3>0. n \in Nat /\ n <= k /\ written \in Nat /\ written + n <= MaxTx
        BY <1>0, <2>2, <2>3, Numbers
      <3>1. written' \in 0..MaxTx
        BY <2>3, <3>0
      <3>2. tx_mem' \in [0..(TxSize - 1) -> 0..MaxTx]
        <4>1. ASSUME NEW i \in 0..(TxSize - 1), b.from <= i, i < b.from + n
              PROVE  written + 1 + i - b.from \in 0..MaxTx
          BY <1>0, <2>2, <3>0, <4>1
        <4> QED
          BY <2>3, <4>1 DEF TypeOK
      <3> QED
        BY <2>4, <3>1, <3>2 DEF PollWrite, Method, With, rxVars, TypeOK, Ring
    <2> QED
      BY <1>1, <2>4, <2>6, <2>7, <2>8 DEF TxInv
  <1> QED
    BY <1>2, <1>3

\* on_interrupt starts a reception in the free space, and pushes what has landed.
LEMMA RxSteps ==
    ASSUME UarteInv, RxStart \/ RxEnd \/ RxBusy
    PROVE  UarteInv'
  <1> USE BufferedUarteAssumption DEF UarteInv
  <1> DEFINE u == Used(rx, RxSize)
  <1>0. /\ u \in 0..RxSize
        /\ rx.start \in 0..(RxSize - 1) /\ rx.end \in 0..(RxSize - 1)
    BY RingPositions DEF RxInv
  <1>1. TxInv' /\ Quiet'
    BY TxKept DEF RxStart, RxEnd, RxBusy, irqVars, Quiet
  <1>2. CASE RxBusy
    <2>1. TypeOK'
      BY <1>2 DEF RxBusy, rxVars, txVars, TypeOK
    <2>2. RxInv'
      BY <1>2, RxKept DEF RxBusy
    <2> QED
      BY <1>1, <2>1, <2>2
  <1>3. CASE RxStart
    <2> DEFINE b == push_buf(rx, RxSize)
    <2>1. /\ b.len \in 0..(RxSize - u)
          /\ b.from \in 0..(RxSize - 1)
          /\ b.len > 0 => b.from = rx.end
          /\ b.from + b.len <= RxSize
      BY PushBuf DEF RxInv
    <2>2. /\ rx_state = "Idle"
          /\ b.len > 0 => /\ rx_state' = "Receiving"
                          /\ rxd' = [ptr |-> b.from, cnt |-> b.len, done |-> 0, on |-> TRUE]
          /\ ~(b.len > 0) => UNCHANGED <<rx_state, rxd>>
          /\ UNCHANGED <<rx, rx_mem, endrx, slice, received, consumed>>
      BY <1>3 DEF RxStart
    <2> HIDE DEF b
    <2>3. rxd' \in Dma(RxSize) /\ rx_state' \in {"Idle", "Receiving"}
      <3>1. b.len \in 0..RxSize /\ b.from \in 0..RxSize /\ 0 \in 0..RxSize
        BY <1>0, <2>1
      <3>2. CASE b.len > 0
        BY <2>2, <3>1, <3>2, DmaRecord
      <3>3. CASE ~(b.len > 0)
        BY <2>2, <3>3 DEF TypeOK
      <3> QED
        BY <3>2, <3>3
    <2>4. TypeOK'
      BY <1>3, <2>3 DEF RxStart, txVars, TypeOK
    <2>5. Landed = 0 /\ Landed' = 0
      BY <2>1, <2>2 DEF Landed
    <2>6. ~endrx /\ ~rxd.on
      BY <2>2 DEF RxInv, Reception
    <2>7. Reception'
      BY <1>0, <2>1, <2>2, <2>6 DEF RxInv, Reception
    <2>8. RxInv'
      BY <2>2, <2>5, <2>7 DEF RxInv, RxBytes, Lent
    <2> QED
      BY <1>1, <2>4, <2>8
  <1>4. CASE RxEnd
    <2>1. /\ rxd.ptr = rx.end
          /\ rxd.done \in 0..(RxSize - u) /\ rx.end + rxd.done <= RxSize
          /\ ~rxd.on
      BY <1>0, <1>4, Numbers DEF RxEnd, RxInv, Reception
    <2>2. /\ rx_state = "Receiving" /\ rx_state' = "Idle" /\ endrx' = FALSE
          /\ rx' = push(rx, rxd.done, RxSize)
          /\ UNCHANGED <<rx_mem, rxd, slice, received, consumed>>
      BY <1>4 DEF RxEnd
    <2>3. /\ Ring(rx', RxSize)
          /\ Used(rx', RxSize) = u + rxd.done
          /\ rx'.start = rx.start
          /\ \A i \in Int : At(rx', i, RxSize) = At(rx, i, RxSize)
      BY <2>1, <2>2, Pushed DEF RxInv
    <2>4. Landed = rxd.done /\ Landed' = 0
      BY <2>2 DEF Landed
    <2>5. RxBytes'
      <3>1. received' = consumed' + Used(rx', RxSize) + Landed'
        BY <1>0, <2>2, <2>3, <2>4, Numbers DEF RxInv, RxBytes
      <3>2. ASSUME NEW i \in 0..(Used(rx', RxSize) + Landed' - 1)
            PROVE  rx_mem[At(rx, i, RxSize)] = consumed + 1 + i
        <4>1. i \in 0..(u + Landed - 1) /\ i \in Int
          BY <1>0, <2>1, <2>3, <2>4
        <4> QED
          BY <4>1 DEF RxInv, RxBytes
      <3>3. ASSUME NEW i \in 0..(Used(rx', RxSize) + Landed' - 1)
            PROVE  At(rx', i, RxSize) = At(rx, i, RxSize)
        BY <2>3
      <3> QED
        BY <2>2, <3>1, <3>2, <3>3 DEF RxBytes
    <2>6. Reception' /\ Lent'
      BY <1>0, <2>1, <2>2, <2>3, Numbers DEF RxInv, Reception, Lent
    <2>7. TypeOK'
      BY <1>4, <2>3 DEF RxEnd, txVars, irqVars, TypeOK, Ring
    <2> QED
      BY <1>1, <2>3, <2>5, <2>6, <2>7 DEF RxInv
  <1> QED
    BY <1>2, <1>3, <1>4

\* on_interrupt starts a transmission of the beginning of the ring, and frees it when it
\* was sent.
LEMMA TxSteps ==
    ASSUME UarteInv, TxStart \/ TxEnd \/ TxBusy
    PROVE  UarteInv'
  <1> USE BufferedUarteAssumption DEF UarteInv
  <1> DEFINE u == Used(tx, TxSize)
  <1>0. /\ u \in 0..TxSize
        /\ tx.start \in 0..(TxSize - 1) /\ tx.end \in 0..(TxSize - 1)
    BY RingPositions DEF TxInv
  <1>1. RxInv' /\ Quiet'
    BY RxKept DEF TxStart, TxEnd, TxBusy, irqVars, Quiet
  <1>2. CASE TxBusy
    <2>1. TypeOK'
      BY <1>2 DEF TxBusy, rxVars, txVars, TypeOK
    <2>2. TxInv'
      BY <1>2, TxKept DEF TxBusy
    <2> QED
      BY <1>1, <2>1, <2>2
  <1>3. CASE TxStart
    <2> DEFINE b == pop_buf(tx, TxSize)
    <2>1. /\ b.len \in 0..u
          /\ b.from \in 0..(TxSize - 1)
          /\ b.len > 0 => b.from = tx.start
          /\ b.from + b.len <= TxSize
      BY PopBuf DEF TxInv
    <2>2. /\ tx_state = 0
          /\ b.len > 0 => /\ tx_state' = b.len
                          /\ txd' = [ptr |-> b.from, cnt |-> b.len, done |-> 0, on |-> TRUE]
          /\ ~(b.len > 0) => UNCHANGED <<tx_state, txd>>
          /\ UNCHANGED <<tx, tx_mem, endtx, written, wire, life>>
      BY <1>3 DEF TxStart
    <2> HIDE DEF b
    <2>3. txd' \in Dma(TxSize) /\ tx_state' \in 0..TxSize
      <3>1. b.len \in 0..TxSize /\ b.from \in 0..TxSize /\ 0 \in 0..TxSize
        BY <1>0, <2>1
      <3>2. CASE b.len > 0
        BY <2>2, <3>1, <3>2, DmaRecord
      <3>3. CASE ~(b.len > 0)
        BY <2>2, <3>3 DEF TypeOK
      <3> QED
        BY <3>2, <3>3
    <2>4. TypeOK'
      BY <1>3, <2>3 DEF TxStart, rxVars, TypeOK
    <2>5. Sent = 0 /\ Sent' = 0
      BY <2>1, <2>2 DEF Sent
    <2>6. ~endtx /\ ~txd.on
      BY <2>2 DEF TxInv, Transmission
    <2>7. Transmission'
      BY <1>0, <2>1, <2>2, <2>6 DEF TxInv, Transmission
    <2>8. TxInv'
      BY <2>2, <2>5, <2>7 DEF TxInv, TxBytes
    <2> QED
      BY <1>1, <2>4, <2>8
  <1>4. CASE TxEnd
    <2>1. /\ tx_state \in 1..u /\ tx.start + tx_state <= TxSize
          /\ txd.done = tx_state /\ ~txd.on
      BY <1>0, <1>4, Numbers DEF TxEnd, TxInv, Transmission, Quiet
    <2>2. /\ tx_state' = 0 /\ endtx' = FALSE
          /\ tx' = pop(tx, tx_state, TxSize)
          /\ UNCHANGED <<tx_mem, txd, written, wire, life>>
      BY <1>4 DEF TxEnd
    <2>3. /\ Ring(tx', TxSize)
          /\ Used(tx', TxSize) = u - tx_state
          /\ \A i \in 0..(TxSize - 1 - tx_state) : At(tx', i, TxSize) = At(tx, tx_state + i, TxSize)
      BY <1>0, <2>1, <2>2, PoppedRing DEF TxInv
    <2>4. Sent = tx_state /\ Sent' = 0
      BY <2>1, <2>2 DEF Sent
    <2>5. TxBytes'
      <3>1. wire' = written' - Used(tx', TxSize) + Sent'
        BY <1>0, <2>1, <2>2, <2>3, <2>4, Numbers DEF TxInv, TxBytes
      <3>2. ASSUME NEW i \in 0..(Used(tx', TxSize) - 1)
            PROVE  tx_mem'[At(tx', i, TxSize)] = written' - Used(tx', TxSize) + 1 + i
        <4>1. i \in 0..(TxSize - 1 - tx_state) /\ tx_state + i \in 0..(u - 1)
          BY <1>0, <2>1, <2>3
        <4>2. tx_mem[At(tx, tx_state + i, TxSize)] = written - u + 1 + (tx_state + i)
          BY <4>1 DEF TxInv, TxBytes
        <4>3. written - u + 1 + (tx_state + i) = written - (u - tx_state) + 1 + i
          BY <1>0, <2>1, <4>1, Numbers
        <4> QED
          BY <2>2, <2>3, <4>1, <4>2, <4>3
      <3> QED
        BY <3>1, <3>2 DEF TxBytes
    <2>6. Transmission'
      BY <2>1, <2>2, Numbers DEF TxInv, Transmission
    <2>7. TypeOK'
      <3>1. tx_state' \in 0..TxSize /\ tx' \in Rings(TxSize - 1)
        BY <2>2, <2>3 DEF Ring
      <3> QED
        BY <1>4, <3>1 DEF TxEnd, rxVars, irqVars, TypeOK
    <2> QED
      BY <1>1, <2>3, <2>5, <2>6, <2>7 DEF TxInv
  <1> QED
    BY <1>2, <1>3, <1>4

\* The peripheral stores the bytes that arrive one behind the other ...
LEMMA ArrivalSteps ==
    ASSUME UarteInv, RxByte \/ TimerFires
    PROVE  UarteInv'
  <1> USE BufferedUarteAssumption DEF UarteInv
  <1> DEFINE u == Used(rx, RxSize)
  <1>0. /\ u \in 0..RxSize
        /\ rx.start \in 0..(RxSize - 1) /\ rx.end \in 0..(RxSize - 1)
        /\ \A i \in 0..(RxSize - 1) : At(rx, i, RxSize) \in 0..(RxSize - 1)
        /\ \A i, j \in 0..(RxSize - 1) : At(rx, i, RxSize) = At(rx, j, RxSize) => i = j
    BY RingPositions DEF RxInv
  <1>1. TxInv' /\ Quiet'
    BY TxKept DEF RxByte, TimerFires, irqVars, Quiet
  <1>2. CASE TimerFires
    <2>1. /\ rxd' = [rxd EXCEPT !.on = FALSE]
          /\ endrx' = (endrx \/ rxd.on)
          /\ UNCHANGED <<rx, rx_state, rx_mem, slice, received, consumed>>
      BY <1>2 DEF TimerFires
    <2>2. /\ rxd' \in Dma(RxSize)
          /\ rxd'.ptr = rxd.ptr /\ rxd'.cnt = rxd.cnt /\ rxd'.done = rxd.done
          /\ rxd'.on = FALSE
      BY <2>1 DEF TypeOK, Dma
    <2>3. RxInv'
      BY <2>1, <2>2, Numbers DEF RxInv, Reception, RxBytes, Landed, Lent
    <2>4. TypeOK'
      <3>1. (endrx \/ rxd.on) \in BOOLEAN
        OBVIOUS
      <3>2. endrx' \in BOOLEAN
        BY <2>1, <3>1, Zenon
      <3> QED
        <4>1. timer' = FALSE /\ UNCHANGED <<rx_waker, reader, txVars, irqVars, life>>
          BY <1>2 DEF TimerFires
        <4>2. UNCHANGED <<rx, rx_state, rx_mem, slice, received, consumed>>
          BY <1>2 DEF TimerFires
        <4>3. rxd' \in Dma(RxSize) /\ timer' \in BOOLEAN
          BY <2>2, <4>1
        <4> QED
          BY <3>2, <4>1, <4>2, <4>3 DEF txVars, irqVars, TypeOK
    <2> QED
      BY <1>1, <2>3, <2>4
  <1>3. CASE RxByte
    <2> DEFINE d == rxd.done
               p == rxd.ptr + rxd.done
    <2>1. /\ rx_state = "Receiving" /\ rxd.ptr = rx.end /\ ~endrx
          /\ rxd.cnt \in 1..(RxSize - u) /\ rx.end + rxd.cnt <= RxSize
          /\ d \in 0..(rxd.cnt - 1) /\ received < MaxRx
      BY <1>0, <1>3, Numbers DEF RxByte, RxInv, Reception
    <2>2. /\ rx_mem' = [rx_mem EXCEPT ![p] = received + 1]
          /\ rxd' = [rxd EXCEPT !.done = d + 1, !.on = (d + 1 < rxd.cnt)]
          /\ endrx' = (endrx \/ d + 1 = rxd.cnt)
          /\ received' = received + 1
          /\ UNCHANGED <<rx, rx_state, slice, consumed>>
      BY <1>3 DEF RxByte
    <2>3. p = At(rx, u + d, RxSize) /\ p \in 0..(RxSize - 1) /\ u + d \in 0..(RxSize - 1)
      <3>1. d \in 0..(rxd.cnt - 1) /\ rxd.cnt \in 0..(RxSize - u) /\ rx.end + rxd.cnt <= RxSize
        BY <1>0, <2>1
      <3>2. At(rx, u + d, RxSize) = rx.end + d
        BY <3>1, FreePositions DEF RxInv
      <3> QED
        BY <1>0, <2>1, <3>2
    <2>4. /\ rxd'.ptr = rxd.ptr /\ rxd'.cnt = rxd.cnt /\ rxd'.done = d + 1
          /\ rxd'.on <=> d + 1 < rxd.cnt
          /\ rxd' \in Dma(RxSize)
      <3>1. d + 1 \in 0..RxSize /\ (d + 1 < rxd.cnt) \in BOOLEAN /\ rxd \in Dma(RxSize)
        <4>0. rxd \in Dma(RxSize)
          BY DEF TypeOK
        <4>1. d + 1 \in 0..RxSize
          BY <1>0, <2>1, Numbers
        <4>2. d + 1 \in Int /\ rxd.cnt \in Int
          BY <1>0, <2>1, Numbers
        <4> QED
          BY <4>0, <4>1, <4>2
      <3>2. PICK o \in BOOLEAN : o = (d + 1 < rxd.cnt)
        BY <3>1, Zenon
      <3>3. rxd' = [rxd EXCEPT !.done = d + 1, !.on = o]
        BY <2>2, <3>2, Zenon
      <3>4. /\ rxd'.ptr = rxd.ptr /\ rxd'.cnt = rxd.cnt /\ rxd'.done = d + 1 /\ rxd'.on = o
            /\ rxd' \in Dma(RxSize)
        <4>1. \A e \in 0..RxSize : rxd' = [rxd EXCEPT !.done = e, !.on = o] =>
                 /\ rxd'.ptr = rxd.ptr /\ rxd'.cnt = rxd.cnt /\ rxd'.done = e /\ rxd'.on = o
                 /\ rxd' \in Dma(RxSize)
          <5>1. rxd \in Dma(RxSize)
            BY DEF TypeOK
          <5> QED
            BY <5>1 DEF Dma
        <4> QED
          BY <3>1, <3>3, <4>1, Zenon
      <3> QED
        BY <3>2, <3>4, Zenon
    <2>5. Reception'
      <3>1. endrx' <=> d + 1 = rxd.cnt
        BY <2>1, <2>2, Zenon
      <3> QED
        BY <1>0, <2>1, <2>2, <2>4, <3>1, Numbers DEF Reception
    <2>6. Landed = d /\ Landed' = d + 1 /\ d \in Nat
      BY <2>1, <2>2, <2>4, Numbers DEF Landed
    <2>7. RxBytes'
      <3>1. received = consumed + u + d
        BY <2>6 DEF RxInv, RxBytes
      <3>2. received' = consumed' + u + Landed'
        BY <1>0, <2>2, <2>6, <3>1, Numbers
      <3>3. ASSUME NEW i \in 0..(u + Landed' - 1)
            PROVE  rx_mem'[At(rx, i, RxSize)] = consumed + 1 + i
        <4>1. i \in 0..(u + d) /\ i \in 0..(RxSize - 1) /\ i \in Int
          BY <1>0, <2>3, <2>6
        <4>2. CASE i = u + d
          <5>1. rx_mem'[p] = received + 1
            BY <2>2, <2>3 DEF TypeOK
          <5>2. received + 1 = consumed + 1 + i
            BY <1>0, <2>6, <3>1, <4>2, Numbers
          <5> QED
            BY <2>3, <4>2, <5>1, <5>2
        <4>3. CASE i # u + d
          <5>1. At(rx, i, RxSize) # p
            BY <1>0, <2>3, <4>1, <4>3
          <5>2. i \in 0..(u + Landed - 1)
            BY <1>0, <2>6, <4>1, <4>3
          <5>3. rx_mem'[At(rx, i, RxSize)] = rx_mem[At(rx, i, RxSize)]
            BY <1>0, <2>2, <4>1, <5>1 DEF TypeOK
          <5> QED
            BY <5>2, <5>3 DEF RxInv, RxBytes
        <4> QED
          BY <4>2, <4>3
      <3> QED
        BY <2>2, <3>2, <3>3 DEF RxBytes
    <2>8. TypeOK'
      <3>1. received' \in 0..MaxRx
        BY <2>1, <2>2, Numbers
      <3>2. rx_mem' \in [0..(RxSize - 1) -> 0..MaxRx]
        BY <2>2, <2>3, <3>1 DEF TypeOK
      <3> QED
        BY <1>3, <2>4, <3>1, <3>2 DEF RxByte, txVars, irqVars, TypeOK
    <2> QED
      BY <1>1, <2>2, <2>5, <2>7, <2>8 DEF RxInv, Lent
  <1> QED
    BY <1>2, <1>3

\* ... and transmits those that were written in their order.
LEMMA DepartureSteps ==
    ASSUME UarteInv, TxByte
    PROVE  UarteInv' /\ wire' = wire + 1 /\ wire' <= written
  <1> USE BufferedUarteAssumption DEF UarteInv
  <1> DEFINE u == Used(tx, TxSize)
             d == txd.done
  <1>0. /\ u \in 0..TxSize
        /\ tx.start \in 0..(TxSize - 1) /\ tx.end \in 0..(TxSize - 1)
    BY RingPositions DEF TxInv
  <1>1. RxInv' /\ Quiet'
    BY RxKept DEF TxByte, irqVars, Quiet
  <1>2. /\ tx_state > 0 /\ txd.ptr = tx.start /\ txd.cnt = tx_state
        /\ tx_state \in 1..u /\ tx.start + tx_state <= TxSize
        /\ d \in 0..(tx_state - 1) /\ ~endtx
    BY <1>0, Numbers DEF TxByte, TxInv, Transmission
  <1>3. /\ wire' = tx_mem[txd.ptr + d]
        /\ txd' = [txd EXCEPT !.done = d + 1, !.on = (d + 1 < txd.cnt)]
        /\ endtx' = (endtx \/ d + 1 = txd.cnt)
        /\ UNCHANGED <<tx, tx_state, tx_mem, written, life>>
    BY DEF TxByte
  <1>4. At(tx, d, TxSize) = tx.start + d /\ d \in 0..(u - 1)
    <2>1. tx_state \in Nat /\ d \in 0..(tx_state - 1)
      BY <1>0, <1>2
    <2>2. \A i \in 0..(tx_state - 1) : At(tx, i, TxSize) = tx.start + i
      BY <1>2, <2>1, FirstPositions DEF TxInv
    <2> QED
      BY <1>0, <1>2, <2>1, <2>2
  <1>5. wire = written - u + d
    BY <1>2 DEF TxInv, TxBytes, Sent
  <1>6. wire' = written - u + 1 + d
    <2>1. tx_mem[At(tx, d, TxSize)] = written - u + 1 + d
      BY <1>4 DEF TxInv, TxBytes
    <2> QED
      BY <1>2, <1>3, <1>4, <2>1
  <1>7. wire' = wire + 1 /\ wire' <= written /\ wire' \in 0..MaxTx
    BY <1>0, <1>2, <1>5, <1>6, Numbers
  <1>8. /\ txd'.ptr = txd.ptr /\ txd'.cnt = txd.cnt /\ txd'.done = d + 1
        /\ txd'.on <=> d + 1 < txd.cnt
        /\ txd' \in Dma(TxSize)
    <2>1. d + 1 \in 0..TxSize /\ (d + 1 < txd.cnt) \in BOOLEAN /\ txd \in Dma(TxSize)
      <3>0. txd \in Dma(TxSize)
        BY DEF TypeOK
      <3>1. d + 1 \in 0..TxSize
        BY <1>0, <1>2, Numbers
      <3>2. d + 1 \in Int /\ txd.cnt \in Int
        BY <1>0, <1>2, Numbers
      <3> QED
        BY <3>0, <3>1, <3>2
    <2>2. PICK o \in BOOLEAN : o = (d + 1 < txd.cnt)
      BY <2>1, Zenon
    <2>3. txd' = [txd EXCEPT !.done = d + 1, !.on = o]
      BY <1>3, <2>2, Zenon
    <2>4. /\ txd'.ptr = txd.ptr /\ txd'.cnt = txd.cnt /\ txd'.done = d + 1 /\ txd'.on = o
          /\ txd' \in Dma(TxSize)
      <3>1. \A e \in 0..TxSize : txd' = [txd EXCEPT !.done = e, !.on = o] =>
               /\ txd'.ptr = txd.ptr /\ txd'.cnt = txd.cnt /\ txd'.done = e /\ txd'.on = o
               /\ txd' \in Dma(TxSize)
        <4>1. txd \in Dma(TxSize)
          BY DEF TypeOK
        <4> QED
          BY <4>1 DEF Dma
      <3> QED
        BY <2>1, <2>3, <3>1, Zenon
    <2> QED
      BY <2>2, <2>4, Zenon
  <1>9. Transmission'
    <2>1. endtx' <=> d + 1 = txd.cnt
      BY <1>2, <1>3, Zenon
    <2> QED
      BY <1>0, <1>2, <1>3, <1>8, <2>1, Numbers DEF TxInv, Transmission
  <1>10. TxBytes'
    <2>1. Sent' = d + 1
      BY <1>2, <1>3, <1>8 DEF Sent
    <2>2. wire' = written - u + (d + 1)
      BY <1>0, <1>2, <1>6, Numbers
    <2> QED
      BY <1>3, <2>1, <2>2 DEF TxInv, TxBytes
  <1>11. TypeOK'
    BY <1>7, <1>8 DEF TxByte, rxVars, irqVars, TypeOK
  <1> QED
    BY <1>1, <1>3, <1>7, <1>9, <1>10, <1>11 DEF TxInv

\* Dropping the driver stops the DMA, and the interrupt is taken no more.
LEMMA DropSteps ==
    ASSUME UarteInv, DropBegin \/ DropEnd \/ Stop
    PROVE  UarteInv'
  <1> USE BufferedUarteAssumption DEF UarteInv
  <1>1. CASE DropBegin
    <2>1. TypeOK' /\ Quiet'
      <3>1. 0 \in 0..RxSize
        OBVIOUS
      <3>2. slice' \in Slices(RxSize)
        BY <1>1, <3>1 DEF DropBegin, NoSlice, Slices
      <3> QED
        BY <1>1, <3>2 DEF DropBegin, txVars, TypeOK, Quiet
    <2>2. RxInv'
      BY <1>1 DEF DropBegin, NoSlice, RxInv, Reception, RxBytes, Landed, Lent
    <2>3. TxInv'
      BY <1>1, TxKept DEF DropBegin
    <2> QED
      BY <2>1, <2>2, <2>3
  <1>2. CASE DropEnd
    <2>1. TypeOK' /\ Quiet'
      BY <1>2 DEF DropEnd, rxVars, txVars, irqVars, TypeOK, Quiet
    <2>2. RxInv' /\ TxInv'
      BY <1>2, RxKept, TxKept DEF DropEnd
    <2> QED
      BY <2>1, <2>2
  <1>3. CASE Stop
    <2>1. /\ life = "dropping"
          /\ UNCHANGED <<rx, tx, rx_state, tx_state, rx_waker, tx_waker, rx_mem, tx_mem, timer,
                         irqVars, reader, writer, slice, received, consumed, written, wire, life>>
      BY <1>3 DEF Stop
    <2>2. CASE rxd.on /\ rxd' = [rxd EXCEPT !.on = FALSE] /\ endrx' = TRUE /\ UNCHANGED <<txd, endtx>>
      <3>1. /\ rxd' \in Dma(RxSize)
            /\ rxd'.ptr = rxd.ptr /\ rxd'.cnt = rxd.cnt /\ rxd'.done = rxd.done
            /\ rxd'.on = FALSE
        BY <2>2 DEF TypeOK, Dma
      <3>2. RxInv'
        BY <2>1, <2>2, <3>1, Numbers DEF RxInv, Reception, RxBytes, Landed, Lent
      <3>3. TxInv'
        BY <2>1, <2>2 DEF TxInv, Transmission, TxBytes, Sent
      <3>4. TypeOK' /\ Quiet'
        BY <2>1, <2>2, <3>1 DEF irqVars, TypeOK, Quiet
      <3> QED
        BY <3>2, <3>3, <3>4
    <2>3. CASE txd.on /\ txd' = [txd EXCEPT !.on = FALSE] /\ endtx' = TRUE /\ UNCHANGED <<rxd, endrx>>
      <3>1. /\ txd' \in Dma(TxSize)
            /\ txd'.ptr = txd.ptr /\ txd'.cnt = txd.cnt /\ txd'.done = txd.done
            /\ txd'.on = FALSE
        BY <2>3 DEF TypeOK, Dma
      <3>2. TxInv'
        BY <2>1, <2>3, <3>1, Numbers DEF TxInv, Transmission, TxBytes, Sent
      <3>3. RxInv'
        BY <2>1, <2>3 DEF RxInv, Reception, RxBytes, Landed, Lent
      <3>4. TypeOK' /\ Quiet'
        BY <2>1, <2>3, <3>1 DEF irqVars, TypeOK, Quiet
      <3> QED
        BY <3>2, <3>3, <3>4
    <2> QED
      BY <1>3, <2>2, <2>3 DEF Stop
  <1> QED
    BY <1>1, <1>2, <1>3

\* Every step keeps the invariant.
LEMMA NextUarte == UarteInv /\ [Next]_vars => UarteInv'
  <1> SUFFICES ASSUME UarteInv, [Next]_vars PROVE UarteInv'
    OBVIOUS
  <1>1. CASE IsrEnter
    <2>1. TypeOK' /\ Quiet'
      BY <1>1 DEF UarteInv, IsrEnter, rxVars, txVars, TypeOK, Quiet
    <2>2. RxInv' /\ TxInv'
      BY <1>1, RxKept, TxKept DEF UarteInv, IsrEnter
    <2> QED
      BY <2>1, <2>2 DEF UarteInv
  <1>2. CASE UNCHANGED vars
    <2>1. TypeOK' /\ Quiet'
      BY <1>2 DEF UarteInv, vars, rxVars, txVars, irqVars, TypeOK, Quiet
    <2>2. RxInv' /\ TxInv'
      BY <1>2, RxKept, TxKept DEF UarteInv, vars
    <2> QED
      BY <2>1, <2>2 DEF UarteInv
  <1> QED
    BY <1>1, <1>2, ReaderSteps, WriterSteps, RxSteps, TxSteps, ArrivalSteps, DepartureSteps,
       DropSteps DEF Next, on_interrupt

\* The invariant holds in every state.
LEMMA UarteInvariant == Spec => []UarteInv
  BY InitUarte, NextUarte, PTL DEF Spec

-----------------------------------------------------------------------------
(* What the driver promises.                                               *)

\* Every variable of buffered_uarte.rs keeps its type: no index leaves its buffer, and no
\* byte is numbered that was not received or written.
THEOREM UarteTypes == Spec => []TypeOK
  BY UarteInvariant, PTL DEF UarteInv

\* What poll_fill_buf hands out is what arrived, in order and without a gap or a
\* repetition, whenever the DMA, the idle timer and on_interrupt ran.
THEOREM ReceivedInOrder == Spec => []RxInOrder
  <1>1. UarteInv => RxInOrder
    <2> SUFFICES ASSUME UarteInv PROVE RxInOrder
      OBVIOUS
    <2> USE BufferedUarteAssumption
    <2>1. Used(rx, RxSize) \in 0..RxSize
      BY RingPositions DEF UarteInv, RxInv
    <2>2. Landed \in Nat
      BY Numbers DEF UarteInv, Landed
    <2>3. 0..(Used(rx, RxSize) - 1) \subseteq 0..(Used(rx, RxSize) + Landed - 1)
      BY <2>1, <2>2
    <2> QED
      BY <2>3 DEF UarteInv, RxInv, RxBytes, RxInOrder
  <1> QED
    BY <1>1, UarteInvariant, PTL

\* The slice that poll_fill_buf lends past its borrow by a transmute keeps its bytes until
\* consume, and no running reception is aimed at it.
THEOREM LentSliceIsSafe == Spec => []SliceUntouched
  <1>1. UarteInv => SliceUntouched
    <2> SUFFICES ASSUME UarteInv PROVE SliceUntouched
      OBVIOUS
    <2> USE BufferedUarteAssumption
    <2> DEFINE u == Used(rx, RxSize)
    <2>1. /\ u \in 0..RxSize
          /\ rx.start \in 0..(RxSize - 1) /\ rx.end \in 0..(RxSize - 1)
          /\ \A i, j \in 0..(RxSize - 1) : At(rx, i, RxSize) = At(rx, j, RxSize) => i = j
      BY RingPositions DEF UarteInv, RxInv
    <2>2. slice.from \in 0..RxSize /\ slice.len \in 0..RxSize /\ Landed \in Nat
      BY Numbers DEF UarteInv, Landed
    <2>3. slice.len > 0 => slice.from = rx.start /\ slice.len <= u /\ rx.start + slice.len <= RxSize
      BY DEF UarteInv, RxInv, Lent
    <2>4. ASSUME slice.len > 0 PROVE \A i \in 0..(slice.len - 1) : At(rx, i, RxSize) = rx.start + i
      BY <2>1, <2>2, <2>3, <2>4, FirstPositions DEF UarteInv, RxInv
    <2>5. ASSUME NEW i \in 0..(slice.len - 1) PROVE rx_mem[slice.from + i] = consumed + 1 + i
      <3>1. slice.len > 0 /\ i \in 0..(u + Landed - 1)
        BY <2>1, <2>2, <2>3
      <3>2. At(rx, i, RxSize) = slice.from + i
        BY <2>3, <2>4, <3>1
      <3> QED
        BY <3>1, <3>2 DEF UarteInv, RxInv, RxBytes
    <2>6. ASSUME rxd.on, NEW i \in 0..(RxSize - 1), Within(slice, i),
                 rxd.ptr <= i, i < rxd.ptr + rxd.cnt
          PROVE  FALSE
      <3>1. /\ rxd.ptr = rx.end /\ rxd.cnt \in 0..(RxSize - u) /\ rx.end + rxd.cnt <= RxSize
        BY <2>1, <2>6, Numbers DEF UarteInv, RxInv, Reception
      <3>2. i - rx.end \in 0..(rxd.cnt - 1) /\ u + (i - rx.end) \in 0..(RxSize - 1)
        BY <2>1, <2>6, <3>1
      <3>3. At(rx, u + (i - rx.end), RxSize) = rx.end + (i - rx.end)
        BY <3>1, <3>2, FreePositions DEF UarteInv, RxInv
      <3>4. slice.len > 0 /\ i - rx.start \in 0..(slice.len - 1) /\ i - rx.start \in 0..(u - 1)
        BY <2>1, <2>2, <2>3, <2>6 DEF Within
      <3>5. At(rx, i - rx.start, RxSize) = rx.start + (i - rx.start)
        BY <2>4, <3>4
      <3>6. rx.end + (i - rx.end) = i /\ rx.start + (i - rx.start) = i
        BY <2>1
      <3>7. i - rx.start \in 0..(RxSize - 1) /\ i - rx.start # u + (i - rx.end)
        BY <2>1, <3>2, <3>4
      <3> QED
        BY <2>1, <3>2, <3>3, <3>5, <3>6, <3>7
    <2> QED
      BY <2>5, <2>6 DEF SliceUntouched
  <1> QED
    BY <1>1, UarteInvariant, PTL

\* The buffers that drop returns to the caller are not written to by the DMA any more,
\* because State::drop waits for ENDRX and ENDTX.
THEOREM DroppedIsStopped == Spec => []DropStopsDma
  <1> DEFINE Ended == life = "dropped" => (rx_state = "Receiving" => endrx) /\ (tx_state > 0 => endtx)
  <1>1. Init => Ended
    BY DEF Init
  <1>2. UarteInv /\ Ended /\ [Next]_vars => Ended'
    <2> SUFFICES ASSUME UarteInv, Ended, [Next]_vars, life' = "dropped" PROVE Ended'
      OBVIOUS
    <2>1. CASE life = "dropped"
      <3>1. isr = "idle" /\ ~enabled
        BY <2>1 DEF UarteInv, Quiet
      <3>2. ~rxd.on /\ ~txd.on
        BY <2>1, Numbers DEF UarteInv, RxInv, Reception, TxInv, Transmission
      <3>3. TimerFires \/ UNCHANGED vars
        BY <2>1, <3>1, <3>2 DEF Next, PollFillBuf, SetBaudrate, Consume, PollWrite, Method, With,
           DropBegin, DropEnd, IsrEnter, on_interrupt, RxStart, RxEnd, RxBusy, TxStart, TxEnd,
           TxBusy, RxByte, TxByte, Stop
      <3>4. (endrx => endrx') /\ UNCHANGED <<rx_state, tx_state, endtx>>
        BY <3>3 DEF TimerFires, vars, rxVars, txVars
      <3> QED
        BY <2>1, <3>4
    <2>2. CASE life # "dropped"
      <3>1. DropEnd
        BY <2>2 DEF Next, PollFillBuf, SetBaudrate, Consume, PollWrite, Method, With,
           DropBegin, IsrEnter, on_interrupt, RxStart, RxEnd, RxBusy, TxStart, TxEnd,
           TxBusy, RxByte, TimerFires, TxByte, Stop, vars
      <3> QED
        BY <3>1 DEF DropEnd, rxVars, txVars
    <2> QED
      BY <2>1, <2>2
  <1>3. UarteInv /\ Ended => DropStopsDma
    BY Numbers DEF UarteInv, RxInv, Reception, TxInv, Transmission, DropStopsDma
  <1> QED
    BY <1>1, <1>2, <1>3, UarteInvariant, PTL DEF Spec

\* The wire carries the written bytes one after the other, none skipped and none twice:
\* every byte that the DMA sends is the next one (buffered_uarte.rs:384).
THEOREM TransmittedInOrder == Spec => TxInOrder
  <1>1. UarteInv /\ [Next]_vars
          => [IF txd'.done > txd.done THEN wire' = wire + 1 /\ wire' <= written
              ELSE wire' = wire]_<<txd, wire>>
    <2> SUFFICES ASSUME UarteInv, [Next]_vars, ~UNCHANGED <<txd, wire>>
                 PROVE  IF txd'.done > txd.done THEN wire' = wire + 1 /\ wire' <= written
                        ELSE wire' = wire
      OBVIOUS
    <2>1. TxByte \/ TxStart \/ Stop
      BY DEF Next, PollFillBuf, SetBaudrate, Consume, PollWrite, DropBegin, DropEnd, IsrEnter,
         on_interrupt, RxStart, RxEnd, RxBusy, TxEnd, TxBusy, RxByte, TimerFires, vars, txVars
    <2>2. txd \in Dma(TxSize) /\ txd.done \in Nat
      BY BufferedUarteAssumption DEF UarteInv, TypeOK, Dma
    <2>3. CASE TxByte
      <3>1. txd'.done = txd.done + 1
        BY <2>2, <2>3 DEF TxByte, Dma
      <3> QED
        BY <2>2, <2>3, <3>1, DepartureSteps
    <2>4. CASE TxStart
      <3>1. wire' = wire /\ (txd'.done = 0 \/ txd' = txd)
        BY <2>4 DEF TxStart
      <3> QED
        BY <2>2, <3>1
    <2>5. CASE Stop
      <3>1. wire' = wire /\ txd'.done = txd.done
        BY <2>2, <2>5 DEF Stop, Dma
      <3> QED
        BY <2>2, <3>1
    <2> QED
      BY <2>1, <2>3, <2>4, <2>5
  <1> QED
    BY <1>1, UarteInvariant, PTL DEF Spec, TxInOrder
=============================================================================
