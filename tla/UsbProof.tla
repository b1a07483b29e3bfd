------------------------------ MODULE UsbProof ------------------------------
(***************************************************************************)
(* The USB serial port loses, repeats and overwrites no byte without an    *)
(* error or a reset that tells, and leaves no task asleep while there is   *)
(* something for it to do: for rings and packets of any length, whatever   *)
(* the host, the interrupt and the two tasks do in between.                *)
(***************************************************************************)
EXTENDS Usb, SeqFacts, FiniteSetTheorems

\* The smaller of two numbers.
LEMMA MinOfTwo ==
    ASSUME NEW a \in Int, NEW b \in Int
    PROVE  /\ Min({a, b}) = IF a <= b THEN a ELSE b
           /\ Min({a, b}) \in Int
  <1>1. PICK m \in {a, b} : m = (IF a <= b THEN a ELSE b) /\ \A y \in {a, b} : m <= y
    OBVIOUS
  <1>2. Min({a, b}) \in {a, b} /\ \A y \in {a, b} : Min({a, b}) <= y
    BY <1>1 DEF Min
  <1> QED
    BY <1>2

-----------------------------------------------------------------------------
(* Writing.                                                                *)

TxTypes ==
    /\ tx_mem \in [0..(TxSize - 1) -> Nat]
    /\ in \in Seq(Nat)
    /\ writer \in {"run", "asleep"}
    /\ full \in Nat /\ written \in Nat /\ got \in Nat
    /\ stuck \in BOOLEAN /\ in_complete \in BOOLEAN /\ write_error \in BOOLEAN

\* The length of the packet that the host has still to take.
Pend == IF in = NoPacket THEN 0 ELSE Len(in)

\* What was written and not received is in the packet and in the ring.
TxOrder ==
    /\ in # NoPacket => \A i \in 1..Len(in) : in[i] = got + i
    /\ written = got + Pend + Used(write_buf, TxSize)
    /\ \A i \in 1..Used(write_buf, TxSize) :
         tx_mem[At(write_buf, i - 1, TxSize)] = got + Pend + i

\* A packet is on its way while there is something to send, unless an error or a reset has
\* broken the chain.
OnItsWay == stuck \/ in # NoPacket \/ in_complete

TxInv ==
    /\ TxTypes
    /\ Ring(write_buf, TxSize)
    /\ TxOrder
    /\ Used(write_buf, TxSize) > 0 => OnItsWay
    /\ writer = "asleep" => OnItsWay

-----------------------------------------------------------------------------
(* Reading.                                                                *)

RxTypes ==
    /\ rx_mem \in [0..(RxSize - 1) -> Nat]
    /\ out \in Seq(Nat)
    /\ reader \in {"run", "asleep"}
    /\ read_error \in BOOLEAN /\ torn \in BOOLEAN
    /\ lent \in 0..RxSize /\ sent \in Nat /\ last \in Nat

\* The last byte that the host has sent and that has left the endpoint.
Front == IF out = NoPacket THEN sent ELSE sent - Len(out)

\* The bytes of the ring, and how many they are.
Count == Used(read_buf, RxSize)
Held == [i \in 1..Count |-> rx_mem[At(read_buf, i - 1, RxSize)]]

\* The packet in the endpoint holds the bytes that the host has sent last.
OutOrder ==
    /\ Front \in Nat
    /\ out # NoPacket => \A i \in 1..Len(out) : out[i] = Front + i

\* The ring holds bytes that the reader has not had and was not told to be lost, in order.
RingOrder ==
    /\ last <= Front
    /\ excused \subseteq 1..Front /\ dropped \subseteq 1..Front
    /\ \A i \in 1..Count : Held[i] \in (last + 1)..Front /\ Held[i] \notin excused \cup dropped
    /\ \A i, j \in 1..Count : i < j => Held[i] < Held[j]

\* Every byte that has left the endpoint is in the ring, was refused, or is excused.
NoneMissing ==
    \A b \in (last + 1)..Front :
        b \in excused \cup dropped \/ \E i \in 1..Count : b = Held[i]

\* Refused bytes come with an error, and behind the slice that is lent.
Refusals ==
    /\ dropped # {} => read_error
    /\ \A i \in 1..lent : \A d \in dropped : Held[i] < d

\* The slice that is lent is the beginning of the ring.
Lent == lent <= Count /\ read_buf.start + lent <= RxSize

RxInv ==
    /\ RxTypes
    /\ Ring(read_buf, RxSize)
    /\ OutOrder
    /\ reader = "asleep" => read_buf.empty /\ lent = 0
    /\ ~torn => RingOrder /\ NoneMissing /\ Refusals /\ Lent

\* The inductive invariant.
UsbInv == TxInv /\ RxInv

-----------------------------------------------------------------------------
(* The steps of the writing side.                                          *)

\* A packet of n bytes that are numbered from 1 is no NoPacket.
LEMMA Packet ==
    ASSUME NEW n \in Nat, NEW f \in [1..n -> Nat], \A i \in 1..n : f[i] # 0
    PROVE  f \in Seq(Nat) /\ Len(f) = n /\ f # NoPacket
  <1>1. f \in Seq(Nat) /\ DOMAIN f = 1..n
    BY SeqDef
  <1>2. Len(f) \in Nat /\ DOMAIN f = 1..Len(f)
    BY <1>1, LenProperties
  <1>3. Len(f) = n
    BY <1>1, <1>2
  <1>4. f # NoPacket
    <2>1. Len(NoPacket) = 1 /\ NoPacket[1] = 0
      BY DEF NoPacket
    <2> QED
      BY <1>3, <2>1
  <1> QED
    BY <1>1, <1>3, <1>4

\* The packet that flush_write offers is a beginning of the ring; it is empty only if the
\* ring is, or after full packets.
LEMMA Offered ==
    ASSUME NEW ring, Ring(ring, TxSize), NEW f \in Nat
    PROVE  LET max_size == IF f > SHORT_PACKET_INTERVAL THEN MaxPacket - 1 ELSE MaxPacket
               slice == pop_buf(ring, TxSize)
               n == Min({slice.len, max_size})
               u == Used(ring, TxSize)
           IN /\ n \in Nat /\ n \in 0..u /\ (n = 0 /\ f = 0 => u = 0)
              /\ n > 0 => slice.from = ring.start /\ ring.start + n <= TxSize
  <1> DEFINE max_size == IF f > SHORT_PACKET_INTERVAL THEN MaxPacket - 1 ELSE MaxPacket
             slice == pop_buf(ring, TxSize)
             n == Min({slice.len, max_size})
             u == Used(ring, TxSize)
  <1>0. TxSize \in Nat \ {0} /\ MaxPacket \in Nat \ {0} /\ SHORT_PACKET_INTERVAL \in Nat
    BY UsbAssumption
  <1>1. /\ slice.len \in 0..u /\ (slice.len = 0 <=> u = 0)
        /\ slice.len > 0 => slice.from = ring.start
        /\ slice.from + slice.len <= TxSize
        /\ slice.from \in 0..(TxSize - 1)
    BY <1>0, PopBuf
  <1>2. u \in 0..TxSize /\ ring.start \in 0..(TxSize - 1)
    BY <1>0, RingPositions
  <1>3. max_size \in Nat /\ (f = 0 => max_size > 0)
    BY <1>0
  <1> HIDE DEF max_size, slice, u
  <1>4. slice.len \in Int /\ max_size \in Int
    BY <1>0, <1>1, <1>2, <1>3
  <1>5. n = IF slice.len <= max_size THEN slice.len ELSE max_size
    BY <1>4, MinOfTwo
  <1> HIDE DEF n
  <1>6. /\ n \in Nat /\ n \in 0..u /\ (n = 0 /\ f = 0 => u = 0)
        /\ n > 0 => slice.from = ring.start /\ ring.start + n <= TxSize
    BY <1>0, <1>1, <1>2, <1>3, <1>5
  <1> QED
    BY <1>6 DEF max_size, slice, u, n

\* flush_write moves the beginning of the ring into the packet, or nothing.
LEMMA Flushed ==
    ASSUME TxTypes,
           NEW ring, Ring(ring, TxSize), NEW mem \in [0..(TxSize - 1) -> Nat], NEW w \in Nat,
           in # NoPacket => \A i \in 1..Len(in) : in[i] = got + i,
           w = got + Pend + Used(ring, TxSize),
           \A i \in 1..Used(ring, TxSize) : mem[At(ring, i - 1, TxSize)] = got + Pend + i,
           flush_write(ring, mem), tx_mem' = mem, written' = w, got' = got
    PROVE  /\ Ring(write_buf', TxSize) /\ TxOrder'
           /\ in' \in Seq(Nat) /\ full' \in Nat
           /\ stuck' \in BOOLEAN /\ write_error' \in BOOLEAN
           /\ Used(write_buf', TxSize) > 0 => stuck' \/ in' # NoPacket
  <1> DEFINE max_size == IF full > SHORT_PACKET_INTERVAL THEN MaxPacket - 1 ELSE MaxPacket
             slice == pop_buf(ring, TxSize)
             n == Min({slice.len, max_size})
             u == Used(ring, TxSize)
  <1>0. TxSize \in Nat \ {0} /\ MaxPacket \in Nat \ {0}
    BY UsbAssumption
  <1>1. full \in Nat /\ got \in Nat /\ in \in Seq(Nat) /\ Pend \in Nat
    BY LenProperties DEF TxTypes, Pend
  <1>2. /\ n \in Nat /\ n \in 0..u /\ (n = 0 /\ full = 0 => u = 0)
        /\ n > 0 => slice.from = ring.start /\ ring.start + n <= TxSize
    BY <1>1, Offered
  <1> HIDE DEF max_size, slice, n
  <1>3. u \in 0..TxSize /\ ring.start \in 0..(TxSize - 1) /\ ring.end \in 0..(TxSize - 1)
    BY <1>0, RingPositions
  <1>4. WriteState(n) \in Nat
    BY <1>0, <1>1 DEF WriteState
  <1>5. stuck \in BOOLEAN /\ write_error \in BOOLEAN
    BY DEF TxTypes
  <1>6. CASE /\ n > 0 /\ in = NoPacket
             /\ in' = [i \in 1..n |-> mem[slice.from + i - 1]]
             /\ write_buf' = pop(ring, n, TxSize)
             /\ full' = WriteState(n)
             /\ stuck' = FALSE
             /\ UNCHANGED write_error
    <2>1. slice.from = ring.start /\ n \in 0..u /\ ring.start + n <= TxSize /\ Pend = 0
      BY <1>0, <1>2, <1>3, <1>6 DEF Pend
    <2>2. /\ Ring(write_buf', TxSize) /\ Used(write_buf', TxSize) = u - n
          /\ \A i \in 0..(TxSize - 1 - n) : At(write_buf', i, TxSize) = At(ring, n + i, TxSize)
      BY <1>0, <1>6, <2>1, PoppedRing
    <2>3. \A i \in 0..(n - 1) : At(ring, i, TxSize) = ring.start + i
      BY <1>0, <1>2, <2>1, FirstPositions
    <2>4. ASSUME NEW i \in 1..n PROVE in'[i] = got + i
      <3>1. i - 1 \in 0..(n - 1) /\ i \in 1..u /\ ring.start + (i - 1) = ring.start + i - 1
        BY <1>3, <1>2, <2>1
      <3>2. mem[ring.start + (i - 1)] = got + i
        BY <1>1, <2>1, <2>3, <3>1
      <3> QED
        BY <1>6, <2>1, <3>1, <3>2
    <2>5. in' \in [1..n -> Nat]
      <3>1. \A i \in 1..n : in'[i] \in Nat
        BY <1>1, <2>4
      <3> QED
        BY <1>6, <3>1
    <2>6. in' \in Seq(Nat) /\ Len(in') = n /\ in' # NoPacket
      <3>1. \A i \in 1..n : in'[i] # 0
        BY <1>1, <2>4
      <3> QED
        BY <1>2, <2>5, <3>1, Packet
    <2>7. Pend' = n
      BY <2>6 DEF Pend, NoPacket
    <2>8. ASSUME NEW i \in 1..Used(write_buf', TxSize)
          PROVE  mem[At(write_buf', i - 1, TxSize)] = got + n + i
      <3>1. i - 1 \in 0..(TxSize - 1 - n) /\ n + (i - 1) = (n + i) - 1 /\ n + i \in 1..u
        BY <1>0, <1>3, <1>2, <2>1, <2>2
      <3>2. mem[At(ring, (n + i) - 1, TxSize)] = got + 0 + (n + i)
        BY <2>1, <3>1
      <3>3. got + 0 + (n + i) = got + n + i
        BY <1>1, <1>2
      <3> QED
        BY <2>2, <3>1, <3>2, <3>3
    <2>9. w = got + n + (u - n)
      BY <1>3, <1>1, <1>2, <2>1
    <2>10. TxOrder'
      BY <2>2, <2>4, <2>6, <2>7, <2>8, <2>9 DEF TxOrder, NoPacket
    <2> QED
      BY <1>4, <1>5, <1>6, <2>2, <2>6, <2>10
  <1>7. ASSUME UNCHANGED in, write_buf' = ring
         PROVE  TxOrder' /\ Ring(write_buf', TxSize) /\ in' \in Seq(Nat)
    <2>1. Pend' = Pend
      BY <1>7 DEF Pend, NoPacket
    <2> QED
      BY <1>1, <1>7, <2>1 DEF TxOrder, NoPacket
  <1>8. CASE n = 0 /\ full > 0 /\ in = NoPacket /\ in' = <<>> /\ write_buf' = ring /\ full' = 0
              /\ stuck' = FALSE /\ UNCHANGED write_error
    <2>1. in' # NoPacket /\ in' \in Seq(Nat) /\ Len(in') = 0
      BY <1>8 DEF NoPacket
    <2>2. Pend' = 0 /\ Pend = 0
      BY <1>8, <2>1 DEF Pend, NoPacket
    <2>3. TxOrder'
      BY <1>8, <2>1, <2>2 DEF TxOrder, NoPacket
    <2> QED
      BY <1>5, <1>8, <2>1, <2>3
  <1>9. CASE n > 0 /\ in # NoPacket /\ write_buf' = ring /\ full' = WriteState(n)
              /\ UNCHANGED <<in, write_error, stuck>>
    BY <1>4, <1>5, <1>7, <1>9
  <1>10. CASE n = 0 /\ (full = 0 \/ in # NoPacket) /\ write_buf' = ring
              /\ UNCHANGED <<full, in, write_error, stuck>>
    BY <1>3, <1>1, <1>2, <1>5, <1>7, <1>10
  <1>11. CASE write_error' = TRUE /\ write_buf' = ring /\ stuck' = TRUE /\ UNCHANGED <<full, in>>
    BY <1>1, <1>7, <1>11
  <1> QED
    BY <1>6, <1>8, <1>9, <1>10, <1>11 DEF flush_write, max_size, slice, n

\* poll_write puts its bytes behind those that wait, and offers a packet.
LEMMA WriteStep ==
    ASSUME TxInv, NEW k \in 1..TxSize, poll_write(k)
    PROVE  TxInv'
  <1> DEFINE slice == push_buf(write_buf, TxSize)
             count == Min({slice.len, k})
             mem == [i \in DOMAIN tx_mem |-> IF Within([slice EXCEPT !.len = count], i)
                                             THEN written + 1 + i - slice.from ELSE tx_mem[i]]
             ring == push(write_buf, count, TxSize)
             u == Used(write_buf, TxSize)
  <1>0. TxSize \in Nat \ {0}
    BY UsbAssumption
  <1>1. /\ u \in 0..TxSize
        /\ write_buf.start \in 0..(TxSize - 1) /\ write_buf.end \in 0..(TxSize - 1)
        /\ \A i \in 0..(TxSize - 1) : At(write_buf, i, TxSize) \in 0..(TxSize - 1)
        /\ \A i, j \in 0..(TxSize - 1) : At(write_buf, i, TxSize) = At(write_buf, j, TxSize) => i = j
    BY <1>0, RingPositions DEF TxInv
  <1>2. /\ slice.len \in 0..(TxSize - u) /\ (slice.len = 0 <=> u = TxSize)
        /\ slice.len > 0 => slice.from = write_buf.end
        /\ slice.from + slice.len <= TxSize
        /\ slice = [from |-> slice.from, len |-> slice.len]
    BY <1>0, PushBuf DEF TxInv
  <1>3. written \in Nat /\ got \in Nat /\ Pend \in Nat /\ tx_mem \in [0..(TxSize - 1) -> Nat]
    BY LenProperties DEF TxInv, TxTypes, Pend
  <1>4. CASE write_error /\ write_error' = FALSE
             /\ UNCHANGED <<write_buf, tx_mem, full, writer, in, written, stuck>>
    BY <1>4 DEF poll_write, TxInv, TxTypes, TxOrder, Pend, OnItsWay, NoPacket
  <1>5. CASE ~write_error /\ slice.len = 0 /\ writer' = "asleep"
             /\ UNCHANGED <<write_buf, tx_mem, write_error, full, in, written, stuck>>
    <2>1. u > 0
      BY <1>0, <1>2, <1>5
    <2> QED
      BY <1>5, <2>1 DEF poll_write, TxInv, TxTypes, TxOrder, Pend, OnItsWay, NoPacket
  <1>6. CASE ~write_error /\ slice.len > 0 /\ tx_mem' = mem /\ written' = written + count
             /\ flush_write(ring, mem) /\ UNCHANGED writer
    <2>0. u \in Nat /\ write_buf.end \in Nat /\ written \in Nat /\ got \in Nat /\ Pend \in Nat
      BY <1>0, <1>1, <1>3
    <2>1. count = IF slice.len <= k THEN slice.len ELSE k
      <3> HIDE DEF slice
      <3>1. slice.len \in Int /\ k \in Int
        BY <1>0, <1>1, <1>2
      <3> QED
        BY <3>1, MinOfTwo
    <2> HIDE DEF slice, count
    <2>2. /\ slice.from = write_buf.end /\ count \in Nat
          /\ count \in 0..(TxSize - u) /\ write_buf.end + count <= TxSize
      BY <1>0, <1>1, <1>2, <1>6, <2>1
    <2>3. /\ Ring(ring, TxSize)
          /\ Used(ring, TxSize) = u + count
          /\ \A i \in Int : At(ring, i, TxSize) = At(write_buf, i, TxSize)
      BY <1>0, <2>2, Pushed DEF TxInv
    <2>4. \A i \in 0..(count - 1) : At(write_buf, u + i, TxSize) = write_buf.end + i
      BY <1>0, <2>2, FreePositions DEF TxInv
    <2>5. mem = [i \in 0..(TxSize - 1) |->
                   IF write_buf.end <= i /\ i < write_buf.end + count
                   THEN written + 1 + i - write_buf.end ELSE tx_mem[i]]
      <3>1. [slice EXCEPT !.len = count] = [from |-> write_buf.end, len |-> count]
        BY <1>2, <2>2
      <3>2. DOMAIN tx_mem = 0..(TxSize - 1)
        BY <1>3
      <3> QED
        BY <2>2, <3>1, <3>2 DEF Within
    <2> HIDE DEF mem, ring
    <2>6. mem \in [0..(TxSize - 1) -> Nat]
      <3>1. \A i \in 0..(TxSize - 1) : write_buf.end <= i => written + 1 + i - write_buf.end \in Nat
        BY <1>0, <2>0
      <3> QED
        BY <1>3, <2>5, <3>1
    <2>7. written = got + Pend + u
      BY DEF TxInv, TxOrder
    <2>8. ASSUME NEW j \in 1..Used(ring, TxSize)
          PROVE  mem[At(ring, j - 1, TxSize)] = got + Pend + j
      <3> DEFINE i == j - 1
                 p == At(write_buf, i, TxSize)
      <3>1. i \in 0..(u + count - 1) /\ i \in 0..(TxSize - 1) /\ i \in Int
        BY <1>0, <1>1, <2>2, <2>3
      <3>2. At(ring, i, TxSize) = p /\ p \in 0..(TxSize - 1)
        BY <1>1, <2>3, <3>1
      <3>3. CASE i < u
        <4>1. ASSUME NEW m \in 0..(count - 1) PROVE p # write_buf.end + m
          <5>1. u + m \in 0..(TxSize - 1) /\ u + m # i
            BY <1>0, <1>1, <2>2, <3>1, <3>3
          <5> QED
            BY <1>1, <2>4, <3>1, <5>1
        <4>2. ~(write_buf.end <= p /\ p < write_buf.end + count)
          <5> HIDE DEF p
          <5> SUFFICES ASSUME write_buf.end <= p, p < write_buf.end + count PROVE FALSE
            OBVIOUS
          <5>1. p - write_buf.end \in 0..(count - 1) /\ p = write_buf.end + (p - write_buf.end)
            BY <1>0, <1>1, <2>2, <3>2
          <5> QED
            BY <4>1, <5>1
        <4>3. mem[p] = tx_mem[p]
          BY <2>5, <3>2, <4>2
        <4>4. j \in 1..u
          BY <1>0, <1>1, <2>2, <2>3, <3>3
        <4>5. tx_mem[At(write_buf, j - 1, TxSize)] = got + Pend + j
          BY <4>4 DEF TxInv, TxOrder
        <4> QED
          BY <3>2, <4>3, <4>5
      <3>4. CASE ~(i < u)
        <4>1. i - u \in 0..(count - 1) /\ u + (i - u) = i
          BY <1>0, <1>1, <2>2, <3>1, <3>4
        <4>2. p = write_buf.end + (i - u)
          BY <2>4, <4>1
        <4>3. write_buf.end <= p /\ p < write_buf.end + count
          BY <1>0, <1>1, <2>2, <4>1, <4>2
        <4>4. mem[p] = written + 1 + p - write_buf.end
          BY <2>5, <3>2, <4>3
        <4>5. written + 1 + (write_buf.end + (i - u)) - write_buf.end = got + Pend + j
          <5>1. j \in Int /\ u \in Int /\ write_buf.end \in Int /\ got \in Int /\ Pend \in Int
            BY <2>0, <2>2, <2>3
          <5> HIDE DEF u
          <5> QED
            BY <2>7, <5>1
        <4> QED
          BY <3>2, <4>2, <4>4, <4>5, Zenon
      <3> QED
        BY <3>3, <3>4
    <2>9. written + count \in Nat /\ written + count = got + Pend + Used(ring, TxSize)
      <3> HIDE DEF u
      <3> QED
        BY <2>0, <2>2, <2>3, <2>7
    <2>10. got' = got /\ UNCHANGED in_complete /\ writer' = "run"
      BY <1>6 DEF poll_write
    <2>11. /\ Ring(write_buf', TxSize) /\ TxOrder'
           /\ in' \in Seq(Nat) /\ full' \in Nat
           /\ stuck' \in BOOLEAN /\ write_error' \in BOOLEAN
           /\ Used(write_buf', TxSize) > 0 => stuck' \/ in' # NoPacket
      <3>1. in # NoPacket => \A i \in 1..Len(in) : in[i] = got + i
        BY DEF TxInv, TxOrder
      <3>2. TxTypes
        BY DEF TxInv
      <3> QED
        BY <1>6, <2>3, <2>6, <2>8, <2>9, <2>10, <3>1, <3>2, Flushed
    <2> QED
      BY <1>3, <1>6, <2>6, <2>9, <2>10, <2>11 DEF TxInv, TxTypes, OnItsWay, NoPacket
  <1> QED
    BY <1>4, <1>5, <1>6 DEF poll_write

\* The host takes a packet, the class is told, and the next one is offered.
LEMMA SendSteps ==
    ASSUME TxInv, HostTakes \/ endpoint_in_complete
    PROVE  TxInv'
  <1>1. CASE HostTakes
    <2>1. in # NoPacket /\ in' = NoPacket /\ in_complete' = TRUE /\ got' = got + Len(in)
          /\ UNCHANGED <<write_buf, tx_mem, write_error, full, writer, written, stuck>>
      BY <1>1 DEF HostTakes
    <2>2. Len(in) \in Nat /\ got \in Nat /\ Pend = Len(in) /\ Pend' = 0 /\ NoPacket \in Seq(Nat)
      BY <2>1, LenProperties DEF TxInv, TxTypes, Pend, NoPacket
    <2>3. got' \in Nat /\ got' + Pend' = got + Pend
      BY <2>1, <2>2
    <2>4. TxOrder'
      BY <2>1, <2>3 DEF TxInv, TxOrder, NoPacket
    <2> QED
      BY <2>1, <2>2, <2>3, <2>4 DEF TxInv, TxTypes, OnItsWay, NoPacket
  <1>2. CASE endpoint_in_complete
    <2>1. /\ in_complete' = FALSE /\ writer' = "run" /\ UNCHANGED <<tx_mem, written, got>>
          /\ flush_write(write_buf, tx_mem)
      BY <1>2 DEF endpoint_in_complete
    <2>2. /\ TxTypes /\ Ring(write_buf, TxSize)
          /\ tx_mem \in [0..(TxSize - 1) -> Nat] /\ written \in Nat
          /\ in # NoPacket => \A i \in 1..Len(in) : in[i] = got + i
          /\ written = got + Pend + Used(write_buf, TxSize)
          /\ \A i \in 1..Used(write_buf, TxSize) : tx_mem[At(write_buf, i - 1, TxSize)] = got + Pend + i
      BY DEF TxInv, TxTypes, TxOrder
    <2>3. /\ Ring(write_buf', TxSize) /\ TxOrder'
          /\ in' \in Seq(Nat) /\ full' \in Nat
          /\ stuck' \in BOOLEAN /\ write_error' \in BOOLEAN
          /\ Used(write_buf', TxSize) > 0 => stuck' \/ in' # NoPacket
      BY <2>1, <2>2, Flushed
    <2> QED
      BY <2>1, <2>2, <2>3 DEF TxInv, TxTypes, OnItsWay, NoPacket
  <1> QED
    BY <1>1, <1>2

\* A reset empties the ring.
LEMMA ResetTx == TxInv /\ Reset => TxInv'
  <1> SUFFICES ASSUME TxInv, Reset PROVE TxInv'
    OBVIOUS
  <1>1. Ring(new, TxSize) /\ Used(new, TxSize) = 0
    BY NewRing, UsbAssumption
  <1>2. NoPacket \in Seq(Nat)
    BY DEF NoPacket
  <1>3. Pend' = 0
    BY DEF Reset, Pend, NoPacket
  <1>4. got \in Nat /\ written \in Nat
    BY DEF TxInv, TxTypes
  <1>5. TxOrder'
    BY <1>1, <1>3, <1>4 DEF Reset, TxOrder, NoPacket
  <1> QED
    BY <1>1, <1>2, <1>4, <1>5 DEF Reset, TxInv, TxTypes, OnItsWay, NoPacket

\* The reading side does not touch it.
LEMMA TxKept == TxInv /\ UNCHANGED txVars => TxInv'
  BY DEF txVars, TxInv, TxTypes, TxOrder, Pend, OnItsWay, NoPacket

-----------------------------------------------------------------------------
(* The steps of the reading side.                                          *)

\* The ring and the numbers of the reading side.
LEMMA RxNumbers ==
    ASSUME RxInv
    PROVE  /\ RxSize \in Nat \ {0} /\ Count \in 0..RxSize /\ Count \in Nat
           /\ Held \in [1..Count -> Nat]
           /\ lent \in Nat /\ sent \in Nat /\ last \in Nat /\ Front \in Nat
           /\ read_buf.start \in 0..(RxSize - 1) /\ read_buf.end \in 0..(RxSize - 1)
  <1>1. RxSize \in Nat \ {0}
    BY UsbAssumption
  <1>2. /\ Count \in 0..RxSize
        /\ read_buf.start \in 0..(RxSize - 1) /\ read_buf.end \in 0..(RxSize - 1)
        /\ \A i \in 0..(RxSize - 1) : At(read_buf, i, RxSize) \in 0..(RxSize - 1)
    BY <1>1, RingPositions DEF RxInv, Count
  <1>3. Held \in [1..Count -> Nat]
    <2>1. ASSUME NEW i \in 1..Count PROVE rx_mem[At(read_buf, i - 1, RxSize)] \in Nat
      <3>1. i - 1 \in 0..(RxSize - 1)
        BY <1>1, <1>2
      <3> QED
        BY <1>2, <3>1 DEF RxInv, RxTypes
    <2> QED
      BY <2>1 DEF Held
  <1>4. lent \in Nat /\ Count \in Nat
    BY <1>1, <1>2 DEF RxInv, RxTypes
  <1> QED
    BY <1>1, <1>2, <1>3, <1>4 DEF RxInv, RxTypes, OutOrder

\* The ring is a matter of its buffer, and the front of the packet.
LEMMA SameBytes ==
    /\ UNCHANGED <<read_buf, rx_mem>> => Count' = Count /\ Held' = Held
    /\ UNCHANGED <<out, sent>> => Front' = Front
  BY DEF Count, Held, Front, NoPacket

\* The writing side does not touch it.
LEMMA RxKept == RxInv /\ UNCHANGED rxVars => RxInv'
  BY SameBytes DEF rxVars, RxInv, RxTypes, OutOrder, RingOrder, NoneMissing, Refusals, Lent, NoPacket

\* poll_fill_buf reports an error before it lends, so that nothing was refused among what it
\* lends.
LEMMA FillStep == RxInv /\ PollFillBuf => RxInv'
  <1> SUFFICES ASSUME RxInv, PollFillBuf PROVE RxInv'
    OBVIOUS
  <1> DEFINE slice == pop_buf(read_buf, RxSize)
  <1>1. /\ UNCHANGED <<read_buf, rx_mem, out, sent, last, torn>>
        /\ reader = "run" /\ lent = 0 /\ read_error' = FALSE
        /\ Count' = Count /\ Held' = Held /\ Front' = Front
    BY SameBytes DEF PollFillBuf
  <1>2. /\ slice.len \in 0..Count /\ (slice.len = 0 <=> Count = 0)
        /\ slice.len > 0 => slice.from = read_buf.start
        /\ slice.from + slice.len <= RxSize
        /\ (read_buf.empty <=> Count = 0)
    BY RxNumbers, PopBuf, RingPositions DEF RxInv, Count
  <1>3. OutOrder' /\ Ring(read_buf', RxSize)
    BY <1>1 DEF RxInv, OutOrder, NoPacket
  <1>4. CASE read_error
    <2>1. excused' = excused \cup dropped /\ dropped' = {} /\ UNCHANGED <<reader, lent>>
      BY <1>4 DEF PollFillBuf
    <2>2. ~torn => RingOrder' /\ NoneMissing' /\ Refusals' /\ Lent'
      BY <1>1, <2>1 DEF RxInv, RingOrder, NoneMissing, Refusals, Lent
    <2> QED
      BY <1>1, <1>3, <2>1, <2>2 DEF RxInv, RxTypes
  <1>5. CASE ~read_error
    <2>1. /\ reader' = (IF slice.len = 0 THEN "asleep" ELSE reader)
          /\ lent' = slice.len /\ UNCHANGED <<excused, dropped>>
      BY <1>5 DEF PollFillBuf
    <2> HIDE DEF slice
    <2>2. lent' \in 0..RxSize /\ lent' <= Count /\ read_buf.start + lent' <= RxSize
      BY <1>2, <2>1, RxNumbers
    <2>3. ~torn => RingOrder' /\ NoneMissing' /\ Lent'
      BY <1>1, <2>1, <2>2 DEF RxInv, RingOrder, NoneMissing, Lent
    <2>4. ~torn => Refusals'
      BY <1>1, <1>5, <2>1 DEF RxInv, Refusals
    <2> QED
      BY <1>1, <1>2, <1>3, <2>1, <2>2, <2>3, <2>4 DEF RxInv, RxTypes
  <1> QED
    BY <1>4, <1>5

\* A reset may empty the ring before consume pops it: its indices stay in the buffer.
LEMMA PoppedAny ==
    ASSUME NEW size \in Nat \ {0}, NEW r, Ring(r, size), NEW n \in Nat, r.start + n <= size
    PROVE  Ring(pop(r, n, size), size)
  <1>1. CASE n = 0
    BY <1>1 DEF pop
  <1>2. CASE n # 0
    <2>1. r.start + n \in 1..size /\ r \in Rings(size - 1)
      BY <1>2, RingPositions DEF Ring
    <2>2. wrap(r.start + n, size) \in 0..(size - 1)
      BY <2>1 DEF wrap
    <2>3. pop(r, n, size) =
             [start |-> wrap(r.start + n, size), end |-> r.end,
              empty |-> wrap(r.start + n, size) = r.end]
      BY <1>2, <2>1 DEF pop, Rings
    <2>4. /\ pop(r, n, size) \in Rings(size - 1)
          /\ pop(r, n, size).end = r.end
          /\ pop(r, n, size).empty = (pop(r, n, size).start = r.end)
      BY <2>1, <2>2, <2>3 DEF Rings
    <2> QED
      BY <2>4 DEF Ring
  <1> QED
    BY <1>1, <1>2

\* consume releases the beginning of what is lent.
LEMMA ConsumeStep ==
    ASSUME RxInv, NEW n \in 1..RxSize, consume(n)
    PROVE  RxInv'
  <1>1. /\ n \in 1..lent /\ read_buf.start + n <= RxSize
        /\ last' = rx_mem[read_buf.start + n - 1]
        /\ read_buf' = pop(read_buf, n, RxSize) /\ lent' = 0
        /\ UNCHANGED <<rx_mem, read_error, reader, out, sent, dropped, excused, torn>>
        /\ Front' = Front
    BY SameBytes DEF consume
  <1>2. Ring(read_buf', RxSize)
    BY <1>1, RxNumbers, PoppedAny DEF RxInv
  <1>3. last' \in Nat
    <2>1. read_buf.start + n - 1 \in 0..(RxSize - 1)
      BY <1>1, RxNumbers
    <2> QED
      BY <1>1, <2>1 DEF RxInv, RxTypes
  <1>4. RxTypes' /\ OutOrder' /\ reader # "asleep"
    <2>1. lent' \in 0..RxSize
      BY <1>1, RxNumbers
    <2>2. reader # "asleep"
      BY <1>1 DEF RxInv
    <2> QED
      BY <1>1, <1>3, <2>1, <2>2 DEF RxInv, RxTypes, OutOrder, NoPacket
  <1>5. ASSUME ~torn PROVE RingOrder' /\ NoneMissing' /\ Refusals' /\ Lent'
    <2>0. RingOrder /\ NoneMissing /\ Refusals /\ Lent
      BY <1>5 DEF RxInv
    <2>1. n \in 0..Count /\ n \in 1..Count
      BY <1>1, <2>0, RxNumbers DEF Lent
    <2>2. /\ Count' = Count - n /\ Count' \in Nat
          /\ \A i \in 0..(RxSize - 1 - n) : At(read_buf', i, RxSize) = At(read_buf, n + i, RxSize)
      BY <1>1, <2>1, RxNumbers, PoppedRing DEF RxInv, Count
    <2>3. ASSUME NEW i \in 1..Count' PROVE Held'[i] = Held[n + i] /\ n + i \in 1..Count
      <3>1. /\ i - 1 \in 0..(RxSize - 1 - n) /\ n + (i - 1) = (n + i) - 1 /\ n + i \in 1..Count
        BY <2>1, <2>2, RxNumbers
      <3>2. Held'[i] = rx_mem[At(read_buf', i - 1, RxSize)]
        BY <1>1 DEF Held
      <3>3. Held[n + i] = rx_mem[At(read_buf, (n + i) - 1, RxSize)]
        BY <3>1 DEF Held
      <3> QED
        BY <2>2, <3>1, <3>2, <3>3
    <2>4. last' = Held[n]
      <3>1. n - 1 \in 0..(n - 1) /\ n \in Nat /\ read_buf.start + (n - 1) = read_buf.start + n - 1
        BY RxNumbers
      <3>2. At(read_buf, n - 1, RxSize) = read_buf.start + (n - 1)
        BY <1>1, <3>1, RxNumbers, FirstPositions DEF RxInv
      <3> QED
        BY <1>1, <2>1, <3>1, <3>2 DEF Held
    <2>5. last' \in (last + 1)..Front
      BY <2>0, <2>1, <2>4 DEF RingOrder
    <2>6. RingOrder'
      <3>1. ASSUME NEW i \in 1..Count'
            PROVE  Held'[i] \in (last' + 1)..Front /\ Held'[i] \notin excused \cup dropped
        <4>1. n < n + i /\ n + i \in 1..Count
          BY <2>2, <2>3
        <4>2. Held[n] < Held[n + i] /\ Held[n + i] \in (last + 1)..Front
          BY <2>0, <2>1, <4>1 DEF RingOrder
        <4>3. Held[n + i] \in Int /\ Held[n] \in Int
          BY <2>1, <4>1, RxNumbers
        <4>4. Held[n + i] \in (last' + 1)..Front
          BY <2>4, <4>2, <4>3, RxNumbers
        <4> QED
          BY <2>0, <2>3, <4>1, <4>4 DEF RingOrder
      <3>2. ASSUME NEW i \in 1..Count', NEW j \in 1..Count', i < j PROVE Held'[i] < Held'[j]
        <4>1. n + i < n + j
          BY <2>2, <3>2
        <4> QED
          BY <2>0, <2>3, <4>1 DEF RingOrder
      <3>3. last' <= Front
        <4>1. last + 1 \in Int /\ Front \in Int
          BY RxNumbers
        <4> QED
          BY <2>5, <4>1
      <3> QED
        BY <1>1, <2>0, <3>1, <3>2, <3>3 DEF RingOrder
    <2>7. NoneMissing'
      <3>0. PICK m \in Nat : m = last'
        BY <1>3
      <3> SUFFICES ASSUME NEW b \in (m + 1)..Front, b \notin excused \cup dropped
                   PROVE  \E i \in 1..Count' : b = Held'[i]
        BY <1>1, <3>0 DEF NoneMissing
      <3>1. b \in (last + 1)..Front /\ b > m
        <4>1. m \in (last + 1)..Front
          BY <2>5, <3>0
        <4> QED
          BY <4>1, RxNumbers
      <3>2. PICK j \in 1..Count : b = Held[j]
        BY <2>0, <3>1 DEF NoneMissing
      <3>3. Held[j] > Held[n] /\ Held[j] \in Int /\ Held[n] \in Int
        BY <2>1, <2>4, <3>0, <3>1, <3>2, RxNumbers
      <3>4. j > n
        <4>1. j < n => Held[j] < Held[n]
          BY <2>0, <2>1 DEF RingOrder
        <4> QED
          BY <2>1, <3>3, <4>1, RxNumbers
      <3>5. j - n \in 1..Count' /\ n + (j - n) = j
        BY <2>1, <2>2, <3>4, RxNumbers
      <3>6. Held'[j - n] = Held[n + (j - n)]
        BY <2>3, <3>5
      <3> QED
        BY <3>2, <3>5, <3>6
    <2>8. Refusals' /\ Lent'
      <3>1. read_buf'.start \in 0..(RxSize - 1)
        BY <1>2, RxNumbers, RingPositions
      <3>2. RxSize \in Nat
        BY RxNumbers
      <3> QED
        BY <1>1, <2>0, <2>2, <3>1, <3>2 DEF Refusals, Lent
    <2> QED
      BY <2>6, <2>7, <2>8
  <1> QED
    BY <1>1, <1>2, <1>4, <1>5 DEF RxInv

\* The host sends a packet only into an empty endpoint.
LEMMA HostSendsStep ==
    ASSUME RxInv, NEW n \in 1..MaxPacket, HostSends(n)
    PROVE  RxInv'
  <1>1. /\ out = NoPacket /\ out' = [i \in 1..n |-> sent + i] /\ sent' = sent + n
        /\ UNCHANGED <<read_buf, rx_mem, read_error, reader, lent, dropped, excused, last, torn>>
        /\ Count' = Count /\ Held' = Held
    BY SameBytes DEF HostSends
  <1>2. n \in Nat /\ sent \in Nat
    BY UsbAssumption, RxNumbers
  <1>3. out' \in Seq(Nat) /\ Len(out') = n /\ out' # NoPacket
    <2>1. out' \in [1..n -> Nat] /\ \A i \in 1..n : out'[i] # 0
      BY <1>1, <1>2
    <2> QED
      BY <1>2, <2>1, Packet
  <1>4. Front' = sent /\ Front = sent /\ sent' \in Nat
    BY <1>1, <1>2, <1>3 DEF Front, NoPacket
  <1>5. OutOrder'
    BY <1>1, <1>2, <1>3, <1>4 DEF OutOrder
  <1>6. ~torn => RingOrder' /\ NoneMissing' /\ Refusals' /\ Lent'
    BY <1>1, <1>4 DEF RxInv, RingOrder, NoneMissing, Refusals, Lent
  <1> QED
    BY <1>1, <1>3, <1>4, <1>5, <1>6 DEF RxInv, RxTypes

\* The packet in the endpoint.
LEMMA OutPacket ==
    ASSUME RxInv, out # NoPacket
    PROVE  /\ Len(out) \in Nat /\ DOMAIN out = 1..Len(out) /\ sent = Front + Len(out)
           /\ \A i \in 1..Len(out) : out[i] = Front + i
           /\ NoPacket \in Seq(Nat)
           /\ out' = NoPacket /\ sent' = sent => Front' = sent
  <1>1. Len(out) \in Nat /\ DOMAIN out = 1..Len(out) /\ sent \in Nat
    BY LenProperties DEF RxInv, RxTypes
  <1>2. NoPacket \in Seq(Nat)
    BY DEF NoPacket
  <1> QED
    BY <1>1, <1>2 DEF RxInv, OutOrder, Front, NoPacket

\* A packet that is refused, and is gone, is reported before anything behind it is lent.
LEMMA RefusedStep == RxInv /\ OutRefused => RxInv'
  <1> SUFFICES ASSUME RxInv, OutRefused PROVE RxInv'
    OBVIOUS
  <1>1. /\ out # NoPacket /\ read_error' = TRUE
        /\ UNCHANGED <<read_buf, rx_mem, reader, lent, sent, excused, last, torn>>
        /\ Count' = Count /\ Held' = Held
    BY SameBytes DEF OutRefused
  <1>2. CASE UNCHANGED <<out, dropped>>
    <2>1. Front' = Front
      BY <1>1, <1>2, SameBytes
    <2> QED
      BY <1>1, <1>2, <2>1 DEF RxInv, RxTypes, OutOrder, RingOrder, NoneMissing, Refusals, Lent, NoPacket
  <1>3. CASE out' = NoPacket /\ dropped' = dropped \cup {out[i] : i \in DOMAIN out}
    <2>1. /\ Len(out) \in Nat /\ DOMAIN out = 1..Len(out) /\ sent = Front + Len(out)
          /\ \A i \in 1..Len(out) : out[i] = Front + i
          /\ NoPacket \in Seq(Nat) /\ Front' = sent
      BY <1>1, <1>3, OutPacket
    <2>2. Front \in Nat /\ sent \in Nat /\ last \in Nat /\ lent \in Nat /\ Count \in Nat
      BY RxNumbers
    <2>3. dropped' = dropped \cup ((Front + 1)..sent)
      <3>1. ASSUME NEW d \in (Front + 1)..sent PROVE \E i \in DOMAIN out : d = out[i]
        <4>1. d - Front \in 1..Len(out) /\ Front + (d - Front) = d
          BY <2>1, <2>2
        <4> QED
          BY <2>1, <4>1
      <3>2. ASSUME NEW i \in DOMAIN out PROVE out[i] \in (Front + 1)..sent
        BY <2>1, <2>2
      <3> QED
        BY <1>3, <3>1, <3>2
    <2>4. OutOrder' /\ RxTypes'
      BY <1>1, <1>3, <2>1, <2>2 DEF RxInv, RxTypes, OutOrder, NoPacket
    <2>5. ASSUME ~torn PROVE RingOrder' /\ NoneMissing' /\ Refusals' /\ Lent'
      <3>0. RingOrder /\ NoneMissing /\ Refusals /\ Lent
        BY <2>5 DEF RxInv
      <3>1. 1..Front \subseteq 1..sent /\ (Front + 1)..sent \subseteq 1..sent /\ last <= sent
        BY <2>1, <2>2, <3>0 DEF RingOrder
      <3>2. ASSUME NEW i \in 1..Count
            PROVE  Held[i] \in (last + 1)..sent /\ Held[i] \notin excused \cup dropped' /\ Held[i] <= Front
        <4>1. Held[i] \in (last + 1)..Front /\ Held[i] \notin excused \cup dropped
          BY <3>0 DEF RingOrder
        <4>2. Held[i] <= Front /\ Held[i] \in (last + 1)..sent /\ Held[i] \notin (Front + 1)..sent
          BY <2>1, <2>2, <4>1
        <4> QED
          BY <2>3, <4>1, <4>2
      <3>3. RingOrder'
        BY <1>1, <2>1, <2>3, <3>0, <3>1, <3>2 DEF RingOrder
      <3>4. ASSUME NEW b \in (last + 1)..sent
            PROVE  b \in excused \cup dropped' \/ \E i \in 1..Count : b = Held[i]
        <4>1. b \in (last + 1)..Front \/ b \in (Front + 1)..sent
          BY <2>2
        <4> QED
          BY <2>3, <3>0, <4>1 DEF NoneMissing
      <3>5. NoneMissing'
        BY <1>1, <2>1, <3>4 DEF NoneMissing
      <3>6. ASSUME NEW i \in 1..lent, NEW d \in dropped' PROVE Held[i] < d
        <4>1. i \in 1..Count
          BY <2>2, <3>0 DEF Lent
        <4>2. Held[i] \in Int /\ Held[i] <= Front
          BY <2>2, <3>2, <4>1
        <4>3. CASE d \in dropped
          BY <3>0, <4>3 DEF Refusals
        <4>4. CASE d \in (Front + 1)..sent
          BY <2>2, <4>2, <4>4
        <4> QED
          BY <2>3, <4>3, <4>4
      <3>7. Refusals' /\ Lent'
        BY <1>1, <3>0, <3>6 DEF Refusals, Lent
      <3> QED
        BY <3>3, <3>5, <3>7
    <2> QED
      BY <1>1, <2>4, <2>5 DEF RxInv
  <1> QED
    BY <1>2, <1>3 DEF OutRefused

\* A packet that fits is put behind what the ring holds.
LEMMA ReadStep == RxInv /\ OutRead => RxInv'
  <1> SUFFICES ASSUME RxInv, OutRead PROVE RxInv'
    OBVIOUS
  <1> DEFINE slice == push_buf(read_buf, RxSize)
             len == Len(out)
  <1>1. /\ out # NoPacket /\ slice.len >= len
        /\ rx_mem' = [i \in DOMAIN rx_mem |->
                        IF Within([slice EXCEPT !.len = len], i) THEN out[i - slice.from + 1]
                        ELSE rx_mem[i]]
        /\ read_buf' = push(read_buf, len, RxSize)
        /\ reader' = "run" /\ out' = NoPacket
        /\ UNCHANGED <<read_error, lent, sent, dropped, excused, last, torn>>
    BY DEF OutRead, WakeReader, read_packet
  <1>2. /\ len \in Nat /\ DOMAIN out = 1..len /\ sent = Front + len
        /\ \A i \in 1..len : out[i] = Front + i
        /\ NoPacket \in Seq(Nat) /\ Front' = sent
    BY <1>1, OutPacket
  <1>3. /\ RxSize \in Nat \ {0} /\ Count \in 0..RxSize /\ Count \in Nat
        /\ Front \in Nat /\ sent \in Nat /\ last \in Nat /\ lent \in Nat
        /\ read_buf.end \in 0..(RxSize - 1)
    BY RxNumbers
  <1>4. /\ \A i \in 0..(RxSize - 1) : At(read_buf, i, RxSize) \in 0..(RxSize - 1)
        /\ \A i, j \in 0..(RxSize - 1) : At(read_buf, i, RxSize) = At(read_buf, j, RxSize) => i = j
    BY <1>3, RingPositions DEF RxInv
  <1>5. /\ slice.len \in 0..(RxSize - Count)
        /\ slice.len > 0 => slice.from = read_buf.end
        /\ slice.from + slice.len <= RxSize
        /\ slice.from \in 0..(RxSize - 1)
        /\ slice = [from |-> slice.from, len |-> slice.len]
    BY <1>3, PushBuf DEF RxInv, Count
  <1>6. /\ len \in 0..(RxSize - Count) /\ read_buf.end + len <= RxSize
        /\ len > 0 => slice.from = read_buf.end
    <2> HIDE DEF slice, len
    <2> QED
      BY <1>1, <1>2, <1>3, <1>5
  <1>7. /\ Ring(read_buf', RxSize) /\ Count' = Count + len
        /\ read_buf'.start = read_buf.start
        /\ \A i \in Int : At(read_buf', i, RxSize) = At(read_buf, i, RxSize)
    BY <1>1, <1>3, <1>6, Pushed DEF RxInv, Count
  <1>8. \A i \in 0..(len - 1) : At(read_buf, Count + i, RxSize) = read_buf.end + i
    BY <1>3, <1>6, FreePositions DEF RxInv, Count
  <1>9. rx_mem' = [i \in 0..(RxSize - 1) |->
                     IF read_buf.end <= i /\ i < read_buf.end + len
                     THEN out[i - read_buf.end + 1] ELSE rx_mem[i]]
    <2>1. DOMAIN rx_mem = 0..(RxSize - 1)
      BY DEF RxInv, RxTypes
    <2>2. [slice EXCEPT !.len = len] = [from |-> slice.from, len |-> len]
      BY <1>5
    <2> HIDE DEF slice, len
    <2>3. ASSUME NEW i \in 0..(RxSize - 1)
          PROVE  rx_mem'[i] = IF read_buf.end <= i /\ i < read_buf.end + len
                              THEN out[i - read_buf.end + 1] ELSE rx_mem[i]
      <3>1. rx_mem'[i] = IF slice.from <= i /\ i < slice.from + len
                         THEN out[i - slice.from + 1] ELSE rx_mem[i]
        BY <1>1, <2>1, <2>2 DEF Within
      <3>2. CASE len > 0
        BY <1>6, <3>1, <3>2
      <3>3. CASE ~(len > 0)
        <4>1. len = 0 /\ i \in Int /\ slice.from \in Int /\ read_buf.end \in Int
          BY <1>2, <1>3, <1>5, <3>3
        <4>2. ~(slice.from <= i /\ i < slice.from + len) /\ ~(read_buf.end <= i /\ i < read_buf.end + len)
          BY <4>1
        <4> QED
          BY <3>1, <4>2
      <3> QED
        BY <3>2, <3>3
    <2> QED
      BY <1>1, <2>1, <2>3
  <1> HIDE DEF slice, len
  <1>10. ASSUME NEW j \in 1..Count'
         PROVE  /\ j <= Count => j \in 1..Count /\ Held'[j] = Held[j]
                /\ j > Count => Held'[j] = Front + (j - Count) /\ j - Count \in 1..len
    <2> DEFINE p == At(read_buf, j - 1, RxSize)
    <2>1. j - 1 \in 0..(RxSize - 1) /\ j - 1 \in Int /\ j \in Int
      BY <1>2, <1>3, <1>6, <1>7
    <2>2. Held'[j] = rx_mem'[p] /\ p \in 0..(RxSize - 1)
      BY <1>4, <1>7, <2>1 DEF Held
    <2>3. ASSUME j <= Count PROVE j \in 1..Count /\ Held'[j] = Held[j]
      <3>1. ASSUME NEW m \in 0..(len - 1) PROVE p # read_buf.end + m
        <4>1. Count + m \in 0..(RxSize - 1) /\ Count + m # j - 1
          BY <1>2, <1>3, <1>6, <2>1, <2>3
        <4> QED
          BY <1>4, <1>8, <2>1, <4>1
      <3>2. ~(read_buf.end <= p /\ p < read_buf.end + len)
        <4> HIDE DEF p
        <4> SUFFICES ASSUME read_buf.end <= p, p < read_buf.end + len PROVE FALSE
          OBVIOUS
        <4>1. p - read_buf.end \in 0..(len - 1) /\ p = read_buf.end + (p - read_buf.end)
          BY <1>2, <1>3, <2>2
        <4> QED
          BY <3>1, <4>1
      <3>3. rx_mem'[p] = rx_mem[p]
        BY <1>9, <2>2, <3>2
      <3>4. j \in 1..Count
        BY <1>3, <2>3
      <3> QED
        BY <2>2, <3>3, <3>4 DEF Held
    <2>4. ASSUME j > Count PROVE Held'[j] = Front + (j - Count) /\ j - Count \in 1..len
      <3>1. j - Count \in 1..len /\ (j - 1) - Count \in 0..(len - 1) /\ Count + ((j - 1) - Count) = j - 1
        BY <1>2, <1>3, <1>7, <2>1, <2>4
      <3>2. p = read_buf.end + ((j - 1) - Count)
        BY <1>8, <3>1
      <3>3. /\ read_buf.end <= p /\ p < read_buf.end + len
            /\ p - read_buf.end + 1 = j - Count
        BY <1>2, <1>3, <2>1, <3>1, <3>2
      <3>4. rx_mem'[p] = out[p - read_buf.end + 1]
        BY <1>9, <2>2, <3>3
      <3>5. out[j - Count] = Front + (j - Count)
        BY <1>2, <3>1
      <3> QED
        BY <2>2, <3>1, <3>3, <3>4, <3>5
    <2> QED
      BY <2>3, <2>4
  <1>11. OutOrder' /\ RxTypes'
    <2>1. rx_mem' \in [0..(RxSize - 1) -> Nat]
      <3>1. ASSUME NEW i \in 0..(RxSize - 1), read_buf.end <= i, i < read_buf.end + len
            PROVE  out[i - read_buf.end + 1] \in Nat
        <4>1. i - read_buf.end + 1 \in 1..len
          BY <1>2, <1>3, <3>1
        <4> QED
          BY <1>2, <1>3, <4>1
      <3> QED
        BY <1>9, <3>1 DEF RxInv, RxTypes
    <2> QED
      BY <1>1, <1>2, <1>3, <2>1 DEF RxInv, RxTypes, OutOrder, NoPacket
  <1>12. ASSUME ~torn PROVE RingOrder' /\ NoneMissing' /\ Refusals' /\ Lent'
    <2>0. RingOrder /\ NoneMissing /\ Refusals /\ Lent
      BY <1>12 DEF RxInv
    <2>1. 1..Front \subseteq 1..sent /\ last <= sent
      BY <1>2, <1>3, <2>0 DEF RingOrder
    <2>2. ASSUME NEW j \in 1..Count'
          PROVE  Held'[j] \in (last + 1)..sent /\ Held'[j] \notin excused \cup dropped
      <3>0. j \in Int /\ last <= Front
        BY <2>0 DEF RingOrder
      <3>1. CASE j <= Count
        <4>1. Held[j] \in (last + 1)..Front /\ Held[j] \notin excused \cup dropped
          BY <1>10, <2>0, <3>1 DEF RingOrder
        <4>2. Held[j] \in (last + 1)..sent
          BY <1>2, <1>3, <4>1
        <4> QED
          BY <1>10, <3>1, <4>1, <4>2
      <3>2. CASE j > Count
        <4>1. Held'[j] = Front + (j - Count) /\ j - Count \in 1..len
          BY <1>10, <3>2
        <4>2. Held'[j] \in (last + 1)..sent /\ Held'[j] \notin 1..Front
          BY <1>2, <1>3, <3>0, <4>1
        <4> QED
          BY <2>0, <4>2 DEF RingOrder
      <3> QED
        BY <1>3, <3>0, <3>1, <3>2
    <2>3. ASSUME NEW i \in 1..Count', NEW j \in 1..Count', i < j PROVE Held'[i] < Held'[j]
      <3>1. i \in Int /\ j \in Int
        OBVIOUS
      <3>2. CASE j <= Count
        <4>1. i <= Count
          BY <1>3, <2>3, <3>1, <3>2
        <4> QED
          BY <1>10, <2>0, <2>3, <3>2, <4>1 DEF RingOrder
      <3>3. CASE i <= Count /\ j > Count
        <4>1. Held'[i] = Held[i] /\ i \in 1..Count /\ Held'[j] = Front + (j - Count) /\ j - Count \in 1..len
          BY <1>10, <3>3
        <4>2. Held[i] \in (last + 1)..Front
          BY <2>0, <4>1 DEF RingOrder
        <4> QED
          BY <1>2, <1>3, <3>1, <4>1, <4>2
      <3>4. CASE i > Count
        <4>1. j > Count
          BY <1>3, <2>3, <3>1, <3>4
        <4>2. Held'[i] = Front + (i - Count) /\ Held'[j] = Front + (j - Count)
          BY <1>10, <3>4, <4>1
        <4> QED
          BY <1>3, <2>3, <3>1, <4>2
      <3> QED
        BY <1>3, <3>1, <3>2, <3>3, <3>4
    <2>4. RingOrder'
      BY <1>1, <1>2, <2>0, <2>1, <2>2, <2>3 DEF RingOrder
    <2>5. NoneMissing'
      <3> SUFFICES ASSUME NEW b \in (last + 1)..sent, b \notin excused \cup dropped
                   PROVE  \E i \in 1..Count' : b = Held'[i]
        BY <1>1, <1>2 DEF NoneMissing
      <3>1. CASE b <= Front
        <4>1. b \in (last + 1)..Front
          BY <1>3, <3>1
        <4>2. PICK i \in 1..Count : b = Held[i]
          BY <2>0, <4>1 DEF NoneMissing
        <4>3. i \in 1..Count' /\ i <= Count
          BY <1>2, <1>3, <1>7
        <4> QED
          BY <1>10, <4>2, <4>3
      <3>2. CASE b > Front
        <4>1. PICK j \in 1..Count' : j = Count + (b - Front) /\ j > Count
          BY <1>2, <1>3, <1>7, <3>2
        <4>2. Held'[j] = Front + (j - Count)
          BY <1>10, <4>1
        <4>3. Front + (j - Count) = b
          BY <1>3, <4>1
        <4> QED
          BY <4>2, <4>3
      <3> QED
        BY <1>3, <3>1, <3>2
    <2>6. Refusals' /\ Lent'
      <3>1. ASSUME NEW i \in 1..lent PROVE Held'[i] = Held[i]
        <4>1. i \in 1..Count' /\ i <= Count
          BY <1>2, <1>3, <1>7, <2>0 DEF Lent
        <4>2. \A j \in 1..Count' : j <= Count => Held'[j] = Held[j]
          BY <1>10
        <4> QED
          BY <4>1, <4>2
      <3>2. lent <= Count'
        BY <1>2, <1>3, <1>7, <2>0 DEF Lent
      <3> QED
        BY <1>1, <1>7, <2>0, <3>1, <3>2 DEF Refusals, Lent
    <2> QED
      BY <2>4, <2>5, <2>6
  <1> QED
    BY <1>1, <1>7, <1>11, <1>12 DEF RxInv

\* A reset excuses what it throws away.
LEMMA ResetRx == RxInv /\ Reset => RxInv'
  <1> SUFFICES ASSUME RxInv, Reset PROVE RxInv'
    OBVIOUS
  <1>1. /\ read_buf' = new /\ out' = NoPacket /\ excused' = 1..sent /\ dropped' = {}
        /\ UNCHANGED <<rx_mem, read_error, reader, lent, sent, last>>
        /\ torn' = (torn \/ lent > 0)
    BY DEF Reset
  <1>2. Ring(read_buf', RxSize) /\ Count' = 0 /\ new.empty /\ new.start = 0
    BY <1>1, RxNumbers, NewRing DEF Count, new
  <1>3. Front' = sent /\ NoPacket \in Seq(Nat)
    BY <1>1 DEF Front, NoPacket
  <1>4. torn' \in BOOLEAN /\ (~torn' => ~torn /\ lent = 0)
    <2>1. (torn \/ lent > 0) \in BOOLEAN
      OBVIOUS
    <2>2. torn' \in BOOLEAN
      BY <1>1, <2>1, Zenon
    <2>3. ~torn' => ~torn /\ ~(lent > 0)
      BY <1>1, Zenon
    <2>4. ~(lent > 0) => lent = 0
      BY RxNumbers
    <2> QED
      BY <2>2, <2>3, <2>4
  <1>5. RxTypes' /\ OutOrder'
    <2>1. /\ rx_mem' \in [0..(RxSize - 1) -> Nat] /\ reader' \in {"run", "asleep"}
          /\ read_error' \in BOOLEAN /\ lent' \in 0..RxSize /\ sent' \in Nat /\ last' \in Nat
      BY <1>1 DEF RxInv, RxTypes
    <2>2. out' = NoPacket
      BY <1>1
    <2> QED
      BY <1>3, <1>4, <2>1, <2>2, RxNumbers DEF RxTypes, OutOrder, NoPacket
  <1>6. ASSUME ~torn' PROVE RingOrder' /\ NoneMissing' /\ Refusals' /\ Lent'
    <2>1. RingOrder /\ lent = 0
      BY <1>4, <1>6 DEF RxInv
    <2>2. last <= sent
      <3>1. Front <= sent /\ Front \in Int /\ sent \in Int /\ last \in Int
        BY RxNumbers, LenProperties DEF RxInv, RxTypes, Front
      <3> QED
        BY <2>1, <3>1 DEF RingOrder
    <2>3. (last + 1)..sent \subseteq 1..sent
      BY RxNumbers
    <2>4. UNCHANGED <<lent, last>> /\ excused' = 1..sent /\ dropped' = {} /\ read_buf' = new
      BY <1>1
    <2>5. RxSize \in Nat
      BY RxNumbers
    <2> QED
      BY <1>2, <1>3, <2>1, <2>2, <2>3, <2>4, <2>5 DEF RingOrder, NoneMissing, Refusals, Lent
  <1>7. reader' = "asleep" => read_buf'.empty /\ lent' = 0
    BY <1>1, <1>2 DEF RxInv
  <1> QED
    BY <1>2, <1>5, <1>6, <1>7 DEF RxInv

-----------------------------------------------------------------------------
(* The invariant, and what it promises.                                    *)

\* The port starts empty, and with one of the directions used up.
LEMMA InitUsb == Init => UsbInv
  <1> SUFFICES ASSUME Init PROVE UsbInv
    OBVIOUS
  <1>1. /\ RxSize \in Nat \ {0} /\ TxSize \in Nat \ {0} /\ MaxRx \in Nat /\ MaxTx \in Nat
    BY UsbAssumption
  <1>2. NoPacket \in Seq(Nat) /\ 0 \in Nat
    BY DEF NoPacket
  <1>3. /\ sent \in Nat /\ written \in Nat /\ got = written /\ last = sent /\ lent = 0
        /\ in = NoPacket /\ out = NoPacket /\ excused = {} /\ dropped = {}
        /\ read_buf = new /\ write_buf = new
    BY <1>1 DEF Init, SerialNew
  <1>4. TxInv
    <2>1. Ring(write_buf, TxSize) /\ Used(write_buf, TxSize) = 0
      BY <1>1, <1>3, NewRing
    <2>2. TxTypes
      BY <1>2, <1>3 DEF Init, SerialNew, TxTypes
    <2>3. TxOrder
      BY <1>3, <2>1 DEF TxOrder, Pend
    <2> QED
      BY <2>1, <2>2, <2>3 DEF Init, SerialNew, TxInv
  <1>5. RxInv
    <2>1. Ring(read_buf, RxSize) /\ Count = 0 /\ read_buf.start = 0
      BY <1>1, <1>3, NewRing DEF Count, new
    <2>2. RxTypes
      <3>1. 0 \in 0..RxSize
        BY <1>1
      <3> QED
        BY <1>2, <1>3, <3>1 DEF Init, SerialNew, RxTypes
    <2>3. Front = sent
      BY <1>3 DEF Front
    <2>4. RingOrder /\ NoneMissing
      <3>1. (last + 1)..Front = {} /\ 1..Count = {} /\ last <= Front
        BY <1>3, <2>1, <2>3
      <3> QED
        BY <1>3, <3>1 DEF RingOrder, NoneMissing
    <2>5. OutOrder /\ Refusals /\ Lent
      BY <1>1, <1>3, <2>1, <2>3 DEF OutOrder, Refusals, Lent
    <2> QED
      BY <2>1, <2>2, <2>4, <2>5 DEF Init, SerialNew, RxInv
  <1> QED
    BY <1>4, <1>5 DEF UsbInv

\* Every step keeps the invariant.
LEMMA NextUsb == UsbInv /\ [Next]_vars => UsbInv'
  <1> SUFFICES ASSUME UsbInv, [Next]_vars PROVE UsbInv'
    OBVIOUS
  <1> USE DEF UsbInv
  <1>1. ASSUME UNCHANGED txVars, RxInv' PROVE UsbInv'
    BY <1>1, TxKept
  <1>2. ASSUME UNCHANGED rxVars, TxInv' PROVE UsbInv'
    BY <1>2, RxKept
  <1>3. CASE PollFillBuf
    BY <1>1, <1>3, FillStep DEF PollFillBuf
  <1>4. ASSUME NEW n \in 1..RxSize, consume(n) PROVE UsbInv'
    BY <1>1, <1>4, ConsumeStep DEF consume
  <1>5. ASSUME NEW n \in 1..TxSize, poll_write(n) PROVE UsbInv'
    BY <1>2, <1>5, WriteStep DEF poll_write
  <1>6. ASSUME NEW n \in 1..MaxPacket, HostSends(n) PROVE UsbInv'
    BY <1>1, <1>6, HostSendsStep DEF HostSends
  <1>7. CASE HostTakes
    BY <1>2, <1>7, SendSteps DEF HostTakes
  <1>8. CASE endpoint_out
    <2>1. UNCHANGED txVars
      BY <1>8 DEF endpoint_out, OutRefused, OutRead
    <2> QED
      BY <1>1, <1>8, <2>1, RefusedStep, ReadStep DEF endpoint_out
  <1>9. CASE endpoint_in_complete
    BY <1>2, <1>9, SendSteps DEF endpoint_in_complete
  <1>10. CASE Reset
    BY <1>10, ResetTx, ResetRx
  <1>11. CASE UNCHANGED vars
    BY <1>11, TxKept, RxKept DEF vars
  <1> QED
    BY <1>3, <1>4, <1>5, <1>6, <1>7, <1>8, <1>9, <1>10, <1>11 DEF Next

\* The invariant holds in every state.
LEMMA UsbInvariant == Spec => []UsbInv
  BY InitUsb, NextUsb, PTL DEF Spec

\* What was written and not received is in the packet and the ring, in order and once,
\* whatever the endpoint refuses and whenever a reset comes.
THEOREM WritesInOrder == Spec => []WrittenInOrder
  <1>1. UsbInv => WrittenInOrder
    <2> SUFFICES ASSUME UsbInv PROVE WrittenInOrder
      OBVIOUS
    <2> DEFINE pending == IF in = NoPacket THEN <<>> ELSE in
    <2>1. in \in Seq(Nat) /\ written \in Nat /\ got \in Nat
      BY DEF UsbInv, TxInv, TxTypes
    <2>2. /\ pending \in Seq(Nat) /\ Len(pending) = Pend /\ Pend \in Nat
          /\ DOMAIN pending = 1..Pend
      BY <2>1, LenProperties DEF Pend
    <2>3. Used(write_buf, TxSize) \in Nat
      BY UsbAssumption, RingPositions DEF UsbInv, TxInv
    <2>4. \A i \in DOMAIN pending : pending[i] = got + i
      BY <2>1, <2>2 DEF UsbInv, TxInv, TxOrder
    <2>5. Used(write_buf, TxSize) = written - got - Len(pending)
      <3>1. written = got + Pend + Used(write_buf, TxSize)
        BY DEF UsbInv, TxInv, TxOrder
      <3>2. Len(pending) = Pend /\ Pend \in Nat
        BY <2>2
      <3> HIDE DEF pending
      <3> QED
        BY <2>1, <2>3, <3>1, <3>2
    <2>6. \A i \in 1..Used(write_buf, TxSize) :
            tx_mem[At(write_buf, i - 1, TxSize)] = got + Len(pending) + i
      BY <2>2 DEF UsbInv, TxInv, TxOrder
    <2> QED
      BY <2>4, <2>5, <2>6 DEF WrittenInOrder
  <1> QED
    BY <1>1, UsbInvariant, PTL

\* A reader sleeps only on an empty ring, and a writer only while a packet is on its way
\* whose end wakes it, or an error or a reset has told.
THEOREM NobodyOversleeps == Spec => []SleepersWait
  <1>1. UsbInv => SleepersWait
    BY DEF UsbInv, TxInv, RxInv, OnItsWay, SleepersWait
  <1> QED
    BY <1>1, UsbInvariant, PTL

\* What poll_fill_buf lends is what the host has sent next, unless a reset fell into it:
\* every byte that is skipped was reported or reset, and none is lent twice.
THEOREM ReadsInOrder == Spec => []ReadInOrder
  <1>1. UsbInv => ReadInOrder
    <2> SUFFICES ASSUME UsbInv, ~torn, NEW i \in 1..lent
                 PROVE  LET b == rx_mem[read_buf.start + i - 1]
                        IN b \in Owed /\ Cardinality({c \in Owed : c < b}) = i - 1
      BY DEF ReadInOrder
    <2>0. RxInv /\ RingOrder /\ NoneMissing /\ Refusals /\ Lent
      BY DEF UsbInv, RxInv
    <2>1. /\ RxSize \in Nat \ {0} /\ Count \in Nat /\ Held \in [1..Count -> Nat]
          /\ lent \in Nat /\ sent \in Nat /\ last \in Nat /\ Front \in Nat
          /\ read_buf.start \in 0..(RxSize - 1)
      BY <2>0, RxNumbers
    <2>2. Front <= sent
      BY <2>0, <2>1, LenProperties DEF RxInv, RxTypes, Front
    <2>3. i \in 1..Count /\ i \in Nat /\ i - 1 \in 0..(lent - 1) /\ i - 1 \in Nat
      BY <2>0, <2>1 DEF Lent
    <2>4. rx_mem[read_buf.start + i - 1] = Held[i]
      <3>1. At(read_buf, i - 1, RxSize) = read_buf.start + (i - 1)
        BY <2>0, <2>1, <2>3, FirstPositions DEF RxInv, Lent
      <3>2. read_buf.start + (i - 1) = read_buf.start + i - 1
        BY <2>1, <2>3
      <3> QED
        BY <2>3, <3>1, <3>2 DEF Held
    <2>5. ASSUME NEW j \in 1..Count PROVE Held[j] \in Owed /\ Held[j] \in Nat
      <3>1. Held[j] \in (last + 1)..Front /\ Held[j] \notin excused
        BY <2>0 DEF RingOrder
      <3>2. Held[j] \in (last + 1)..sent
        BY <2>1, <2>2, <3>1
      <3> QED
        BY <2>1, <3>1, <3>2 DEF Owed
    <2> DEFINE S == {c \in Owed : c < Held[i]}
               f == [j \in 1..(i - 1) |-> Held[j]]
    <2>6. f \in [1..(i - 1) -> S]
      <3>1. ASSUME NEW j \in 1..(i - 1) PROVE Held[j] \in S
        <4>1. j \in 1..Count /\ j < i
          BY <2>1, <2>3
        <4> QED
          BY <2>0, <2>3, <2>5, <4>1 DEF RingOrder
      <3> QED
        BY <3>1
    <2>7. ASSUME NEW j \in 1..(i - 1), NEW k \in 1..(i - 1), f[j] = f[k] PROVE j = k
      <3>1. j \in 1..Count /\ k \in 1..Count /\ Held[j] = Held[k]
        BY <2>1, <2>3, <2>7
      <3>2. (j < k => Held[j] < Held[k]) /\ (k < j => Held[k] < Held[j])
        BY <2>0, <3>1 DEF RingOrder
      <3>3. Held[j] \in Nat
        BY <2>1, <3>1
      <3> QED
        BY <3>1, <3>2, <3>3
    <2>8. ASSUME NEW c \in S PROVE \E j \in 1..(i - 1) : f[j] = c
      <3>1. c \in (last + 1)..sent /\ c \notin excused /\ c < Held[i]
        BY DEF Owed
      <3>2. Held[i] \in (last + 1)..Front
        BY <2>0, <2>3 DEF RingOrder
      <3>3. c \in (last + 1)..Front
        BY <2>1, <3>1, <3>2
      <3>4. c \notin dropped
        <4>1. c \in dropped => Held[i] < c
          BY <2>0 DEF Refusals
        <4> QED
          BY <2>1, <3>1, <3>2, <4>1
      <3>5. PICK j \in 1..Count : c = Held[j]
        BY <2>0, <3>1, <3>3, <3>4 DEF NoneMissing
      <3>6. j < i
        <4>1. i < j => Held[i] < Held[j]
          BY <2>0, <2>3 DEF RingOrder
        <4>2. Held[i] \in Nat /\ Held[j] \in Nat /\ Held[j] < Held[i]
          BY <2>1, <2>3, <3>1, <3>5
        <4> QED
          BY <2>1, <2>3, <4>1, <4>2
      <3>7. j \in 1..(i - 1)
        BY <2>1, <2>3, <3>6
      <3> QED
        BY <3>5, <3>7
    <2>9. ExistsBijection(1..(i - 1), S)
      <3>1. f \in Bijection(1..(i - 1), S)
        <4> HIDE DEF f, S
        <4>1. DOMAIN f = 1..(i - 1)
          BY <2>6
        <4> QED
          BY <2>6, <2>7, <2>8, <4>1 DEF Bijection, Injection, Surjection, IsInjective
      <3> QED
        BY <3>1 DEF ExistsBijection
    <2>10. IsFiniteSet(1..(i - 1)) /\ Cardinality(1..(i - 1)) = i - 1
      <3>1. 1 \in Int /\ i - 1 \in Int
        BY <2>3
      <3>2. /\ IsFiniteSet(1..(i - 1))
            /\ Cardinality(1..(i - 1)) = IF 1 > i - 1 THEN 0 ELSE (i - 1) - 1 + 1
        BY <3>1, FS_Interval
      <3> QED
        BY <2>3, <3>2
    <2>11. Cardinality(S) = i - 1
      BY <2>9, <2>10, FS_Bijection
    <2> QED
      BY <2>3, <2>4, <2>5, <2>11
  <1> QED
    BY <1>1, UsbInvariant, PTL
=============================================================================
