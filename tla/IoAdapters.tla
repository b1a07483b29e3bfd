----------------------------- MODULE IoAdapters -----------------------------
(***************************************************************************)
(* The futures of embassy/src/io/util over an AsyncBufRead or AsyncWrite,  *)
(* and read_line, which awaits four of them in turn.                       *)
(*                                                                         *)
(* A step is one turn of a future's loop: the reader lends a slice of what *)
(* it has, of any length, and the future consumes some of it.  What the    *)
(* future keeps over a Pending is the state, so that Pending is no step    *)
(* except where a future completes by it.  A byte is one of Bytes; only    *)
(* the line ends CR and LF and one other byte differ here.                 *)
(***************************************************************************)
EXTENDS Naturals, Sequences, SequencesExt, FiniteSetsExt

CONSTANTS MaxLen, MaxCap    \* bounds on the input and on the caller's buffer

ASSUME IoAssumption == MaxLen \in Nat /\ MaxCap \in Nat

Bytes == {"x", "CR", "LF"}
EOL == {"CR", "LF"}

ReadOps == {"read", "read_buf", "read_byte", "read_exact", "read_while", "skip_while",
            "read_to_end", "drain", "read_line"}
WriteOps == {"write", "write_byte", "write_all", "copy_buf"}

VARIABLES
    op,        \* the future
    cap,       \* the length of the caller's buffer
    input,     \* what the reader will give until its end, or what the caller writes
    pos,       \* how much of it is consumed, or written
    buf,       \* what was put into the caller's buffer
    wrote,     \* what the writer was given
    stage,     \* which future of read_line runs
    result     \* "none" while the future is pending

ioVars == <<op, cap, input, pos, buf, wrote, stage, result>>

\* The future is created; a byte is written by write_byte.
IoInit ==
    /\ op \in ReadOps \cup WriteOps
    /\ cap \in 0..MaxCap
    /\ input \in BoundedSeq(Bytes, MaxLen)
    /\ op = "write_byte" => Len(input) = 1
    /\ pos = 0 /\ buf = <<>> /\ wrote = <<>>
    /\ stage = 1
    /\ result = "none"

First(n) == SubSeq(input, 1, n)
Rest == SubSeq(input, pos + 1, Len(input))

\* What poll_fill_buf may lend: a beginning of what is left, empty only at the end.
poll_fill_buf == {SubSeq(Rest, 1, k) : k \in (IF Rest = <<>> THEN 0 ELSE 1)..Len(Rest)}

-----------------------------------------------------------------------------
(* One turn of each reading future, when it is lent the slice c: how much  *)
(* it copies and how much it consumes, and what poll returns, "again" when *)
(* the loop goes on.                                                       *)

Turn(copies, consumes, returns) == [copies |-> copies, consumes |-> consumes, returns |-> returns]

\* rbuf.iter().position(|b| !f(b)), or the length if there is none.
Position(c, f) ==
    LET p == SelectInSeq(c, LAMBDA b : b \notin f) IN IF p = 0 THEN Len(c) ELSE p - 1

Read(c) == LET n == Min({cap, Len(c)}) IN Turn(n, n, "ok")

ReadBuf(c) == Turn(Len(c), 0, "ok")

ReadByte(c) == IF c = <<>> THEN Turn(0, 0, "UnexpectedEof") ELSE Turn(1, 1, "ok")

ReadExact(c) ==
    LET n == Min({cap - Len(buf), Len(c)})
    IN IF Len(buf) = cap THEN Turn(0, 0, "ok")
       ELSE IF c = <<>> THEN Turn(0, 0, "UnexpectedEof")
       ELSE Turn(n, n, "again")

\* Mutant: what does not fit is not consumed.
ReadWhileFits(c, f) ==
    LET p == Position(c, f)
        p2 == Min({p, cap - Len(buf)})
    IN IF c = <<>> THEN Turn(0, 0, "UnexpectedEof")
       ELSE Turn(p2, p2, IF p < Len(c) THEN "ok" ELSE "again")

ReadWhile(c, f) ==
    LET p == Position(c, f)
    IN IF c = <<>> THEN Turn(0, 0, "UnexpectedEof")
       ELSE Turn(Min({p, cap - Len(buf)}), p, IF p < Len(c) THEN "ok" ELSE "again")

SkipWhile(c, f) ==
    LET p == Position(c, f)
    IN IF c = <<>> THEN Turn(0, 0, "UnexpectedEof")
       ELSE Turn(0, p, IF p < Len(c) THEN "ok" ELSE "again")

ReadToEnd(c) ==
    LET p == Min({cap - Len(buf), Len(c)})
    IN IF c = <<>> THEN Turn(0, 0, "ok")
       ELSE IF Len(buf) = cap THEN Turn(0, 0, "Truncated")
       ELSE Turn(p, p, "again")

\* At the end of the input drain turns for ever.
Drain(c) == Turn(0, Len(c), "again")

\* read_line; it drops the byte that it reads last.
ReadLine(c) ==
    CASE stage = 1 -> SkipWhile(c, EOL)
      [] stage = 2 -> ReadWhile(c, Bytes \ EOL)
      [] stage = 3 -> SkipWhile(c, {"CR"})
      [] stage = 4 -> [ReadByte(c) EXCEPT !.copies = 0]

TurnOf(c) ==
    CASE op = "read" -> Read(c)
      [] op = "read_buf" -> ReadBuf(c)
      [] op = "read_byte" -> ReadByte(c)
      [] op = "read_exact" -> ReadExact(c)
      [] op = "read_while" -> ReadWhile(c, {"x"})
      [] op = "skip_while" -> SkipWhile(c, {"x"})
      [] op = "read_to_end" -> ReadToEnd(c)
      [] op = "drain" -> Drain(c)
      [] op = "read_line" -> ReadLine(c)

\* A turn of a reading future.
PollRead ==
    /\ op \in ReadOps /\ result = "none"
    /\ \E c \in poll_fill_buf :
          LET t == TurnOf(c)
          IN /\ buf' = buf \o SubSeq(c, 1, t.copies)
             /\ pos' = pos + t.consumes
             /\ IF op = "read_line" /\ t.returns = "ok" /\ stage < 4
                THEN stage' = stage + 1 /\ UNCHANGED result
                ELSE /\ result' = IF t.returns = "again" THEN "none" ELSE t.returns
                     /\ UNCHANGED stage
    /\ UNCHANGED <<op, cap, input, wrote>>

\* The reader is Pending when drain polls it.
PollDrained ==
    /\ op = "drain" /\ result = "none"
    /\ result' = "ok"
    /\ UNCHANGED <<op, cap, input, pos, buf, wrote, stage>>

-----------------------------------------------------------------------------
(* Writing.                                                                *)

\* poll_write has taken n bytes of c; to take none is the end.
Wrote(c, n, zero) ==
    /\ wrote' = wrote \o SubSeq(c, 1, n)
    /\ pos' = pos + n
    /\ result' = IF n = 0 THEN zero ELSE "none"

Write ==
    /\ op = "write" /\ result = "none"
    /\ \E n \in 0..Len(input) : wrote' = First(n) /\ pos' = n
    /\ result' = "ok"
    /\ UNCHANGED <<op, cap, input, buf, stage>>

\* A writer that takes nothing makes WriteByte panic.
WriteByte ==
    /\ op = "write_byte" /\ result = "none"
    /\ \E n \in {0, 1} : /\ wrote' = First(n) /\ pos' = n
                         /\ result' = IF n = 0 THEN "panic" ELSE "ok"
    /\ UNCHANGED <<op, cap, input, buf, stage>>

WriteAll ==
    /\ op = "write_all" /\ result = "none"
    /\ IF Rest = <<>>
       THEN result' = "ok" /\ UNCHANGED <<wrote, pos>>
       ELSE \E n \in 0..Len(Rest) : Wrote(Rest, n, "panic")
    /\ UNCHANGED <<op, cap, input, buf, stage>>

\* CopyBuf lends the writer what it was lent, and consumes what was written.  A writer
\* that is Pending makes it ask the reader again.
CopyBuf ==
    /\ op = "copy_buf" /\ result = "none"
    /\ \E c \in poll_fill_buf :
          IF c = <<>>
          THEN result' = "ok" /\ UNCHANGED <<wrote, pos>>
          ELSE \E n \in 0..Len(c) : Wrote(c, n, "WriteZero")
    /\ UNCHANGED <<op, cap, input, buf, stage>>

\* The reader or the writer fails, and the future with it.
PollFails ==
    /\ result = "none"
    /\ result' = "failed"
    /\ UNCHANGED <<op, cap, input, pos, buf, wrote, stage>>

IoNext == PollRead \/ PollDrained \/ Write \/ WriteByte \/ WriteAll \/ CopyBuf \/ PollFails

-----------------------------------------------------------------------------
(* What the futures promise, of the whole input.                           *)

\* The length of the longest beginning of the input after i with bytes in f only.
Lead(i, f) == Max({n \in 0..(Len(input) - i) : \A j \in 1..n : input[i + j] \in f})

\* Where the line begins that read_line reads, how long it is, and its line end.
LineStart == Lead(0, EOL)
LineLen == Lead(LineStart, Bytes \ EOL)
LineEnd == LineStart + LineLen + Lead(LineStart + LineLen, {"CR"})

Promise ==
    CASE op = "read" -> /\ buf = First(pos) /\ pos <= cap
                        /\ pos = 0 => cap = 0 \/ input = <<>>
      [] op = "read_buf" -> pos = 0 /\ IsPrefix(buf, input) /\ (buf = <<>> => input = <<>>)
      [] op = "read_byte" -> pos = Min({1, Len(input)}) /\ buf = First(pos)
                             /\ (result = "ok" <=> pos = 1)
      [] op = "read_exact" -> /\ pos = Min({cap, Len(input)}) /\ buf = First(pos)
                              /\ result = "ok" <=> cap <= Len(input)
      [] op = "read_while" -> /\ pos = Lead(0, {"x"}) /\ buf = First(Min({cap, pos}))
                              /\ result = "ok" <=> pos < Len(input)
      [] op = "skip_while" -> /\ pos = Lead(0, {"x"}) /\ buf = <<>>
                              /\ result = "ok" <=> pos < Len(input)
      [] op = "read_to_end" -> /\ pos = Min({cap, Len(input)}) /\ buf = First(pos)
                               /\ result = "ok" <=> Len(input) <= cap
      [] op = "drain" -> buf = <<>>
      [] op = "read_line" -> /\ result = "ok" <=> LineEnd < Len(input)
                             /\ result = "ok" =>
                                   /\ pos = LineEnd + 1
                                   /\ buf = SubSeq(input, LineStart + 1,
                                                   LineStart + Min({cap, LineLen}))
                             /\ result # "ok" => pos = Len(input)
      [] op \in WriteOps -> result = "ok" /\ op # "write" => pos = Len(input)

\* However a reader cuts its input into slices and a writer its output, and wherever they
\* are Pending or fail: what was written is what was consumed, in order, and a future that
\* completes has consumed, delivered and returned what its caller is promised
\* (io/util/*.rs).
AdapterKeepsBytes ==
    /\ op \in WriteOps => wrote = First(pos)
    /\ result \notin {"none", "failed", "panic"} => Promise
=============================================================================
