----------------------------- MODULE RingBuffer -----------------------------
(***************************************************************************)
(* The indices of embassy-extras/src/ring_buffer.rs.  A ring is a record   *)
(* of `start`, `end` and `empty`; `size` is the length of its buffer.      *)
(* push_buf and pop_buf return a slice of the buffer: where it begins and  *)
(* how long it is.                                                         *)
(***************************************************************************)
EXTENDS Integers

\* RingBuffer::new and RingBuffer::clear
new == [start |-> 0, end |-> 0, empty |-> TRUE]

\* The free bytes that can be written without wrapping around.
push_buf(ring, size) ==
    [from |-> IF ring.start = ring.end /\ ~ring.empty THEN 0 ELSE ring.end,
     len  |-> IF ring.start = ring.end /\ ~ring.empty THEN 0
              ELSE IF ring.start <= ring.end THEN size - ring.end
              ELSE ring.start - ring.end]

\* The used bytes that can be read without wrapping around.
pop_buf(ring, size) ==
    [from |-> IF ring.empty THEN 0 ELSE ring.start,
     len  |-> IF ring.empty THEN 0
              ELSE IF ring.end <= ring.start THEN size - ring.start
              ELSE ring.end - ring.start]

\* wrap asserts n <= size.
wrap(n, size) == IF n = size THEN 0 ELSE n

push(ring, n, size) ==
    IF n = 0 THEN ring
    ELSE [ring EXCEPT !.end = wrap(ring.end + n, size), !.empty = FALSE]

pop(ring, n, size) ==
    IF n = 0 THEN ring
    ELSE [ring EXCEPT !.start = wrap(ring.start + n, size),
                      !.empty = (wrap(ring.start + n, size) = ring.end)]

-----------------------------------------------------------------------------
(* What the properties say about a ring.                                   *)

Rings(size) == [start : 0..size, end : 0..size, empty : BOOLEAN]

\* Bytes in the ring.
Used(ring, size) ==
    IF ring.empty THEN 0
    ELSE IF ring.start < ring.end THEN ring.end - ring.start
    ELSE size - ring.start + ring.end

\* The position of the byte that is i bytes after the first.
At(ring, i, size) ==
    IF ring.start + i < size THEN ring.start + i ELSE ring.start + i - size

Slices(size) == [from : 0..size, len : 0..size]
Within(slice, i) == slice.from <= i /\ i < slice.from + slice.len
=============================================================================
