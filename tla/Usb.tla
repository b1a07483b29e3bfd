-------------------------------- MODULE Usb --------------------------------
(***************************************************************************)
(* The USB serial port of embassy-extras/src/usb: usb_serial.rs on the     *)
(* CDC-ACM class of cdc_acm.rs, behind the PeripheralMutex of mod.rs.      *)
(*                                                                         *)
(* The two interfaces are polled by a reader and a writer; `with` disables *)
(* the interrupt, so that a call and a callback of the class exclude each  *)
(* other and are one step each.  The bytes of either direction are         *)
(* numbered from 1, so that order and loss show; byte 0 is no byte.        *)
(*                                                                         *)
(* External: usb_device and the bus.  An endpoint holds one packet; a      *)
(* packet that does not fit into the buffer it is read into is refused,    *)
(* and stays or is gone; a bus reset empties the endpoints.  Descriptors   *)
(* and control requests are left out: they touch none of this.             *)
(***************************************************************************)
EXTENDS RingBuffer, Sequences, FiniteSetsExt

CONSTANTS
    RxSize, TxSize,          \* lengths of read_buf and write_buf
    MaxPacket,               \* max_packet_size, 64 in the code
    SHORT_PACKET_INTERVAL,   \* 10 in the code
    MaxRx, MaxTx             \* bounds on the bytes that the host and the writer send

ASSUME UsbAssumption ==
    /\ {RxSize, TxSize, MaxPacket} \subseteq Nat \ {0}
    /\ {SHORT_PACKET_INTERVAL, MaxRx, MaxTx} \subseteq Nat

VARIABLES
    read_buf, write_buf,     \* the rings ...
    rx_mem, tx_mem,          \* ... and what is in their buffers
    read_error, write_error,
    full,                    \* write_state: n of Full(n), 0 for Idle and Short
    reader, writer,          \* the tasks: "run", or "asleep" with their waker registered
    lent,                    \* the length of the slice that poll_fill_buf has lent
    out, in,                 \* the packet in either endpoint
    in_complete,             \* the bus reports that the IN packet was sent
    \* What the host and the reader know, for the properties:
    sent, dropped, excused,  \* bytes sent by the host, refused, and reported or reset
    last,                    \* the last byte that was consumed
    written, got, seen,      \* bytes written, received and seen by the host's programs
    torn,                    \* a reset came while a slice was lent
    stuck                    \* the last packet was lost to an error or a reset

rxVars == <<read_buf, rx_mem, read_error, reader, lent, out, sent, dropped, excused, last, torn>>
txVars == <<write_buf, tx_mem, write_error, full, writer, in, in_complete, written, got, seen,
            stuck>>
vars == <<rxVars, txVars>>

NoPacket == <<0>>

\* UsbSerial::new
SerialNew ==
    /\ read_buf = new /\ write_buf = new
    /\ rx_mem = [i \in 0..(RxSize - 1) |-> 0] /\ tx_mem = [i \in 0..(TxSize - 1) |-> 0]
    /\ read_error = FALSE /\ write_error = FALSE
    /\ full = 0

\* Usb::new, and start, which enables the interrupt.  Bound: the two directions share nothing
\* but the reset, and one of them has used up its bytes.
Init ==
    /\ SerialNew
    /\ reader = "run" /\ writer = "run" /\ lent = 0
    /\ out = NoPacket /\ in = NoPacket /\ in_complete = FALSE
    /\ \/ sent = 0 /\ written = MaxTx
       \/ sent = MaxRx /\ written = 0
    /\ dropped = {} /\ excused = {} /\ last = sent
    /\ got = written /\ seen = written
    /\ torn = FALSE /\ stuck = FALSE

-----------------------------------------------------------------------------
(* Reading.                                                                *)

\* poll_fill_buf, of the interface and of UsbSerial.
PollFillBuf ==
    LET slice == pop_buf(read_buf, RxSize)
    IN /\ reader = "run" /\ lent = 0
       /\ read_error' = FALSE
       /\ IF read_error
          THEN excused' = excused \cup dropped /\ dropped' = {} /\ UNCHANGED <<reader, lent>>
          ELSE /\ reader' = IF slice.len = 0 THEN "asleep" ELSE reader
               /\ lent' = slice.len
               /\ UNCHANGED <<excused, dropped>>
       /\ UNCHANGED <<read_buf, rx_mem, out, sent, last, torn, txVars>>

\* consume, of n bytes of the slice; wrap asserts that they end within the buffer.
consume(n) ==
    /\ n \in 1..lent
    /\ read_buf.start + n <= RxSize
    /\ last' = rx_mem[read_buf.start + n - 1]
    /\ read_buf' = pop(read_buf, n, RxSize)
    /\ lent' = 0
    /\ UNCHANGED <<rx_mem, read_error, reader, out, sent, dropped, excused, torn, txVars>>

\* The host sends a packet of n bytes.  External.
HostSends(n) ==
    /\ out = NoPacket
    /\ sent + n <= MaxRx
    /\ out' = [i \in 1..n |-> sent + i]
    /\ sent' = sent + n
    /\ UNCHANGED <<read_buf, rx_mem, read_error, reader, lent, dropped, excused, last, torn, txVars>>

WakeReader == reader' = "run"

\* read_packet, of the class, reads the packet into n bytes.
read_packet(n) == n >= Len(out)

\* Mutant: a packet that is refused is not an error.
OutRefusedQuietly ==
    /\ out # NoPacket
    /\ ~read_packet(push_buf(read_buf, RxSize).len)
    /\ out' = NoPacket /\ dropped' = dropped \cup {out[i] : i \in DOMAIN out}
    /\ UNCHANGED <<read_buf, rx_mem, read_error, reader, lent, sent, excused, last, torn, txVars>>

\* endpoint_out when read_packet refuses the packet: it stays or is gone.
OutRefused ==
    /\ out # NoPacket
    /\ ~read_packet(push_buf(read_buf, RxSize).len)
    /\ read_error' = TRUE
    /\ \/ UNCHANGED <<out, dropped>>
       \/ out' = NoPacket /\ dropped' = dropped \cup {out[i] : i \in DOMAIN out}
    /\ UNCHANGED <<read_buf, rx_mem, reader, lent, sent, excused, last, torn, txVars>>

\* endpoint_out when it does not.
OutRead ==
    LET slice == push_buf(read_buf, RxSize)
    IN /\ out # NoPacket
       /\ read_packet(slice.len)
       /\ rx_mem' = [i \in DOMAIN rx_mem |->
                       IF Within([slice EXCEPT !.len = Len(out)], i) THEN out[i - slice.from + 1]
                       ELSE rx_mem[i]]
       /\ read_buf' = push(read_buf, Len(out), RxSize)
       /\ WakeReader
       /\ out' = NoPacket
       /\ UNCHANGED <<read_error, lent, sent, dropped, excused, last, torn, txVars>>

endpoint_out == OutRefused \/ OutRead

-----------------------------------------------------------------------------
(* Writing.                                                                *)

\* Mutant: a packet of full size counts as a short one.
WriteStateShort(n) == 0

\* The number of full packets, once a packet of n bytes was offered.
WriteState(n) == IF n = MaxPacket THEN full + 1 ELSE 0

\* Mutant: what a busy endpoint has not taken is popped.
FlushWriteAll(ring, mem) ==
    LET max_size == IF full > SHORT_PACKET_INTERVAL THEN MaxPacket - 1 ELSE MaxPacket
        slice == pop_buf(ring, TxSize)
        n == Min({slice.len, max_size})
    IN /\ write_buf' = pop(ring, n, TxSize)
       /\ full' = WriteState(n)
       /\ in' = IF in = NoPacket /\ n > 0 THEN [i \in 1..n |-> mem[slice.from + i - 1]] ELSE in
       /\ UNCHANGED <<write_error, stuck>>

\* flush_write offers a packet to the endpoint, which is free, is busy or fails.  The state
\* advances also when it is busy.
flush_write(ring, mem) ==
    LET max_size == IF full > SHORT_PACKET_INTERVAL THEN MaxPacket - 1 ELSE MaxPacket
        slice == pop_buf(ring, TxSize)
        n == Min({slice.len, max_size})
    IN \/ /\ n > 0 /\ in = NoPacket
          /\ in' = [i \in 1..n |-> mem[slice.from + i - 1]]
          /\ write_buf' = pop(ring, n, TxSize)
          /\ full' = WriteState(n)
          /\ stuck' = FALSE
          /\ UNCHANGED write_error
       \/ /\ n > 0 /\ in # NoPacket
          /\ write_buf' = ring
          /\ full' = WriteState(n)
          /\ UNCHANGED <<in, write_error, stuck>>
       \/ /\ n = 0 /\ full > 0 /\ in = NoPacket
          /\ in' = <<>>
          /\ write_buf' = ring
          /\ full' = 0
          /\ stuck' = FALSE
          /\ UNCHANGED write_error
       \/ /\ n = 0 /\ (full = 0 \/ in # NoPacket)
          /\ write_buf' = ring
          /\ UNCHANGED <<full, in, write_error, stuck>>
       \/ /\ n > 0 \/ full > 0
          /\ write_error' = TRUE
          /\ write_buf' = ring
          /\ stuck' = TRUE
          /\ UNCHANGED <<full, in>>

\* poll_write of n bytes, of the interface and of UsbSerial.
poll_write(n) ==
    LET slice == push_buf(write_buf, TxSize)
        count == Min({slice.len, n})
        mem == [i \in DOMAIN tx_mem |-> IF Within([slice EXCEPT !.len = count], i)
                                        THEN written + 1 + i - slice.from ELSE tx_mem[i]]
    IN /\ writer = "run"
       /\ written + n <= MaxTx
       /\ \/ /\ write_error
             /\ write_error' = FALSE
             /\ UNCHANGED <<write_buf, tx_mem, full, writer, in, written, stuck>>
          \/ /\ ~write_error
             /\ slice.len = 0
             /\ writer' = "asleep"
             /\ UNCHANGED <<write_buf, tx_mem, write_error, full, in, written, stuck>>
          \/ /\ ~write_error
             /\ slice.len > 0
             /\ tx_mem' = mem
             /\ written' = written + count
             /\ flush_write(push(write_buf, count, TxSize), mem)
             /\ UNCHANGED writer
       /\ UNCHANGED <<in_complete, got, seen, rxVars>>

\* The host takes the packet.  Its programs see the bytes when a transfer ends, which
\* a packet of full size does not do.  External.
HostTakes ==
    /\ in # NoPacket
    /\ in' = NoPacket
    /\ in_complete' = TRUE
    /\ got' = got + Len(in)
    /\ seen' = IF Len(in) < MaxPacket THEN got + Len(in) ELSE seen
    /\ UNCHANGED <<write_buf, tx_mem, write_error, full, writer, written, stuck, rxVars>>

\* Mutant: the next packet is sent and the writer forgotten.
InCompleteQuiet ==
    /\ in_complete
    /\ in_complete' = FALSE
    /\ flush_write(write_buf, tx_mem)
    /\ UNCHANGED <<tx_mem, writer, written, got, seen, rxVars>>

endpoint_in_complete ==
    /\ in_complete
    /\ in_complete' = FALSE
    /\ writer' = "run"
    /\ flush_write(write_buf, tx_mem)
    /\ UNCHANGED <<tx_mem, written, got, seen, rxVars>>

-----------------------------------------------------------------------------

\* A bus reset: UsbSerial::reset, and the class's, which forgets the line coding.  Nobody is
\* woken, and no error is recorded.
Reset ==
    /\ read_buf' = new /\ write_buf' = new /\ full' = 0
    /\ out' = NoPacket /\ in' = NoPacket /\ in_complete' = FALSE
    /\ excused' = 1..sent /\ dropped' = {}
    /\ got' = written /\ seen' = written
    /\ torn' = (torn \/ lent > 0)
    /\ stuck' = TRUE
    /\ UNCHANGED <<rx_mem, tx_mem, read_error, write_error, reader, writer, lent, sent, last, written>>

Next ==
    \/ PollFillBuf
    \/ \E n \in 1..RxSize : consume(n)
    \/ \E n \in 1..TxSize : poll_write(n)
    \/ \E n \in 1..MaxPacket : HostSends(n)
    \/ HostTakes
    \/ endpoint_out \/ endpoint_in_complete
    \/ Reset

Spec == Init /\ [][Next]_vars

-----------------------------------------------------------------------------
(* Properties.                                                             *)

\* The bytes that the host has sent, that the reader has not had, and of whose loss it was
\* not told.
Owed == {b \in (last + 1)..sent : b \notin excused}

\* A slice that poll_fill_buf lends holds the next bytes that are owed to the reader: none is
\* repeated, overwritten or lost but with an error or a reset that falls into no slice.
ReadInOrder ==
    ~torn => \A i \in 1..lent :
               LET b == rx_mem[read_buf.start + i - 1]
               IN b \in Owed /\ Cardinality({c \in Owed : c < b}) = i - 1

\* The bytes that were written and not yet received are in the packet and the ring, in order
\* and once, whatever the endpoint refuses (usb_serial.rs:230).
WrittenInOrder ==
    LET pending == IF in = NoPacket THEN <<>> ELSE in
    IN /\ \A i \in DOMAIN pending : pending[i] = got + i
       /\ Used(write_buf, TxSize) = written - got - Len(pending)
       /\ \A i \in 1..Used(write_buf, TxSize) :
            tx_mem[At(write_buf, i - 1, TxSize)] = got + Len(pending) + i

\* A reader sleeps only while there is nothing to read, and a writer only while a packet
\* will be sent and wake it, unless an error or a reset has left it without one.
SleepersWait ==
    /\ reader = "asleep" => read_buf.empty
    /\ writer = "asleep" => stuck \/ in # NoPacket \/ in_complete

\* What is written is seen by the programs of the host: a full packet is followed by a short
\* or an empty one (usb_serial.rs:168), unless write_packet fails.  The writer stops at MaxTx,
\* so that the host can catch up.
HostSeesAll == seen < written ~> seen = written \/ stuck

\* cdc_acm.rs:35, "`read_packet` must be called with a buffer large enough to hold
\* max_packet_size bytes": endpoint_out has that much room for the packet it is called for.
ReadPacketHasRoom == out # NoPacket => push_buf(read_buf, RxSize).len >= MaxPacket
=============================================================================
