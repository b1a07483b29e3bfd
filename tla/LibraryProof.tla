---------------------------- MODULE LibraryProof ----------------------------
(***************************************************************************)
(* What Signal, WakerRegistration and Portal promise, for any tasks: the   *)
(* waker of a sleeping task is kept, and a Portal calls no function whose  *)
(* frame is gone.  And what the futures of io/util promise, for any input, *)
(* any buffer and any cut of the input into slices; and that the executor  *)
(* for std sleeps through neither a wake-up nor a timer.                   *)
(***************************************************************************)
EXTENDS Library, SeqFacts, WellFoundedInduction, TLAPS

-----------------------------------------------------------------------------
(* Signal and WakerRegistration.                                           *)

\* The inductive invariant of the waiters.
WaiterInv ==
    /\ waiter \in [Waiters -> {"idle", "awake", "asleep"}]
    /\ NoWaiterIsForgotten

\* Waking a task leaves it not asleep, and the others as they are.
LEMMA WokenTask ==
    ASSUME NEW w \in Waiters, waiter \in [Waiters -> {"idle", "awake", "asleep"}]
    PROVE  /\ Woken(w) \in [Waiters -> {"idle", "awake", "asleep"}]
           /\ Woken(w)[w] # "asleep"
           /\ \A v \in Waiters \ {w} : Woken(w)[v] = waiter[v]
  BY DEF Woken

\* A step of Signal keeps every sleeping task's waker, unless it is reset.
LEMMA SignalSteps == WaiterInv /\ SignalNext => WaiterInv'
  <1> SUFFICES ASSUME WaiterInv, SignalNext PROVE WaiterInv'
    OBVIOUS
  <1> USE WaitersAssumption DEF WaiterInv
  <1>1. CASE signal
    <2>1. CASE sig \in Waiters
      BY <1>1, <2>1, WokenTask DEF signal, NoWaiterIsForgotten
    <2>2. CASE sig \notin Waiters
      BY <1>1, <2>2 DEF signal, NoWaiterIsForgotten
    <2> QED
      BY <2>1, <2>2
  <1>2. CASE reset
    BY <1>2 DEF reset, NoWaiterIsForgotten
  <1>3. ASSUME NEW w \in Waiters, Begin(w) PROVE WaiterInv'
    BY <1>3 DEF Begin, NoWaiterIsForgotten
  <1>4. ASSUME NEW w \in Waiters, Cancel(w) PROVE WaiterInv'
    BY <1>4 DEF Cancel, NoWaiterIsForgotten
  <1>5. ASSUME NEW w \in Waiters, poll_wait(w) PROVE WaiterInv'
    BY <1>5 DEF poll_wait, NoWaiterIsForgotten
  <1> QED
    BY <1>1, <1>2, <1>3, <1>4, <1>5 DEF SignalNext

\* A step of WakerRegistration does: the task that is displaced is woken.
LEMMA RegistrationSteps == WaiterInv /\ RegistrationNext => WaiterInv'
  <1> SUFFICES ASSUME WaiterInv, RegistrationNext PROVE WaiterInv'
    OBVIOUS
  <1> USE WaitersAssumption DEF WaiterInv
  <1>1. CASE wake
    <2>1. CASE registered \in Waiters
      BY <1>1, <2>1, WokenTask DEF wake, NoWaiterIsForgotten
    <2>2. CASE registered \notin Waiters
      BY <1>1, <2>2 DEF wake, NoWaiterIsForgotten
    <2> QED
      BY <2>1, <2>2
  <1>2. ASSUME NEW w \in Waiters, Begin(w) PROVE WaiterInv'
    BY <1>2 DEF Begin, NoWaiterIsForgotten
  <1>3. ASSUME NEW w \in Waiters, Cancel(w) PROVE WaiterInv'
    BY <1>3 DEF Cancel, NoWaiterIsForgotten
  <1>4. ASSUME NEW w \in Waiters, register(w) PROVE WaiterInv'
    <2>1. CASE event
      BY <1>4, <2>1 DEF register, NoWaiterIsForgotten
    <2>2. CASE ~event /\ registered \in Waiters
      BY <1>4, <2>2, WokenTask DEF register, NoWaiterIsForgotten
    <2>3. CASE ~event /\ registered \notin Waiters
      BY <1>4, <2>3 DEF register, NoWaiterIsForgotten
    <2> QED
      BY <2>1, <2>2, <2>3
  <1> QED
    BY <1>1, <1>2, <1>3, <1>4 DEF RegistrationNext

\* A task that sleeps on a Signal or a WakerRegistration is the one that the next signal or
\* wake wakes, whatever other tasks wait, are cancelled or are displaced.
THEOREM SleepersAreRemembered == LibSpec => []NoWaiterIsForgotten
  <1>1. LibInit => WaiterInv
    BY DEF LibInit, SigInit, WaiterInv, NoWaiterIsForgotten
  <1>2. WaiterInv /\ [LibNext]_libVars => WaiterInv'
    <2> SUFFICES ASSUME WaiterInv, [LibNext]_libVars PROVE WaiterInv'
      OBVIOUS
    <2>1. CASE UNCHANGED waitVars
      BY <2>1 DEF waitVars, WaiterInv, NoWaiterIsForgotten
    <2>2. CASE PortalNext
      <3>1. UNCHANGED waitVars
        BY <2>2 DEF PortalNext, call, FuncReturns, wait, resume, DropFrame
      <3> QED
        BY <2>1, <3>1
    <2> QED
      BY <2>1, <2>2, SignalSteps, RegistrationSteps DEF LibNext, libVars, sigVars
  <1>3. WaiterInv => NoWaiterIsForgotten
    BY DEF WaiterInv
  <1> QED
    BY <1>1, <1>2, <1>3, PTL DEF LibSpec

-----------------------------------------------------------------------------
(* Portal.                                                                 *)

\* The inductive invariant of the Portal: the function that runs is that of a frame of
\* wait_many which has no result yet, and runs exactly while the Portal says so.
PortalInv ==
    /\ frame \in [Waiters -> {"none", "once", "many"}]
    /\ running \in Waiters \cup {NoOne}
    /\ portal = "Running" <=> running \in Waiters
    /\ portal = "Running" => frame[running] = "many" /\ running \notin done
    /\ PortalFrameLives

\* A step of the Portal keeps it, also a call out of a function that a Portal calls.
LEMMA PortalSteps == PortalInv /\ PortalNext => PortalInv'
  <1> SUFFICES ASSUME PortalInv, PortalNext PROVE PortalInv'
    OBVIOUS
  <1> USE WaitersAssumption DEF PortalInv
  <1>1. CASE call
    BY <1>1 DEF call, portalVars, PortalNext, PortalFrameLives
  <1>2. CASE FuncReturns
    BY <1>2 DEF FuncReturns, PortalNext, PortalFrameLives
  <1>3. ASSUME NEW w \in Waiters, NEW kind \in {"once", "many"}, wait(w, kind) PROVE PortalInv'
    BY <1>3 DEF wait, PortalNext, PortalFrameLives
  <1>4. ASSUME NEW w \in Waiters, resume(w) PROVE PortalInv'
    BY <1>4 DEF resume, PortalNext, PortalFrameLives
  <1>5. ASSUME NEW w \in Waiters, DropFrame(w) PROVE PortalInv'
    BY <1>5 DEF DropFrame, portalVars, PortalFrameLives
  <1> QED
    BY <1>1, <1>2, <1>3, <1>4, <1>5 DEF PortalNext

\* The closure that a Portal calls through a raw pointer is in a frame that lives and
\* waits, and a frame that waits is the one that is called.
THEOREM PortalIsSafe == LibSpec => []PortalFrameLives
  <1>1. LibInit => PortalInv
    BY WaitersAssumption DEF LibInit, SigInit, PortalInv, PortalFrameLives
  <1>2. PortalInv /\ [LibNext]_libVars => PortalInv'
    <2> SUFFICES ASSUME PortalInv, [LibNext]_libVars PROVE PortalInv'
      OBVIOUS
    <2>1. CASE UNCHANGED portalVars /\ (panicked => panicked')
      BY <2>1 DEF portalVars, PortalInv, PortalFrameLives
    <2>2. CASE SignalNext
      <3>1. UNCHANGED portalVars /\ (panicked => panicked')
        BY <2>2 DEF SignalNext, signal, reset, Begin, Cancel, poll_wait
      <3> QED
        BY <2>1, <3>1
    <2>3. CASE RegistrationNext
      <3>1. UNCHANGED portalVars /\ (panicked => panicked')
        BY <2>3 DEF RegistrationNext, wake, Begin, Cancel, register
      <3> QED
        BY <2>1, <3>1
    <2> QED
      BY <2>1, <2>2, <2>3, PortalSteps DEF LibNext, libVars, sigVars
  <1>3. PortalInv => PortalFrameLives
    BY DEF PortalInv
  <1> QED
    BY <1>1, <1>2, <1>3, PTL DEF LibSpec

-----------------------------------------------------------------------------
(* The futures of io/util.                                                 *)

\* The types of what the futures keep.
IoTypes ==
    /\ op \in ReadOps \cup WriteOps
    /\ cap \in Nat /\ input \in Seq(Bytes) /\ pos \in 0..Len(input) /\ stage \in 1..4
    /\ op = "write_byte" => Len(input) = 1

\* The n bytes after i are all in f.
Only(i, n, f) == \A j \in 1..n : input[i + j] \in f

\* What comes after i and up to m, as far as it fits into the buffer.
Fitting(i, m) == SubSeq(input, i + 1, i + Min({cap, m - i}))

\* The line, as far as it fits.
LineHead == SubSeq(input, LineStart + 1, LineStart + Min({cap, LineLen}))

\* read_line: what its futures have passed by so far.
Lines ==
    /\ stage = 1 => Only(0, pos, EOL) /\ buf = <<>>
    /\ stage = 2 => /\ LineStart \in 0..pos
                    /\ Only(LineStart, pos - LineStart, Bytes \ EOL)
                    /\ buf = Fitting(LineStart, pos)
    /\ stage \in {3, 4} => /\ LineStart \in Nat /\ LineLen \in Nat
                           /\ LineStart + LineLen \in 0..pos
                           /\ buf = LineHead
    /\ stage = 3 => Only(LineStart + LineLen, pos - (LineStart + LineLen), {"CR"})
    /\ stage = 4 => pos = LineEnd /\ pos < Len(input)

\* What a future that is pending has consumed and delivered.
Midway ==
    /\ op \in {"read", "read_buf", "read_byte"} => pos = 0 /\ buf = <<>>
    /\ op \in {"read_exact", "read_to_end"} => pos <= cap /\ buf = First(pos)
    /\ op = "read_while" => Only(0, pos, {"x"}) /\ buf = First(Min({cap, pos}))
    /\ op = "skip_while" => Only(0, pos, {"x"}) /\ buf = <<>>
    /\ op = "drain" => buf = <<>>
    /\ op = "read_line" => Lines

\* The inductive invariant of the futures of io/util.
IoInv == IoTypes /\ (result = "none" => Midway) /\ AdapterKeepsBytes

\* A set of natural numbers that is not empty has a least element.
LEMMA Least ==
    ASSUME NEW T, T \subseteq Nat, T # {}
    PROVE  \E x \in T : \A y \in T : x <= y
  <1> DEFINE R == OpToRel(<, Nat)
  <1>1. \E x \in T : \A y \in T : ~(<<y, x>> \in R)
    BY NatLessThanWellFounded, WFMin
  <1>2. \A x, y \in T : <<y, x>> \in R <=> y < x
    BY DEF OpToRel
  <1> HIDE DEF R
  <1>3. \A x, y \in T : ~(y < x) => x <= y
    OBVIOUS
  <1> QED
    BY <1>1, <1>2, <1>3

\* The smaller of two numbers.
LEMMA Smaller ==
    ASSUME NEW a \in Nat, NEW b \in Nat
    PROVE  Min({a, b}) = IF a <= b THEN a ELSE b
  <1>1. \E m \in {a, b} : \A y \in {a, b} : m <= y
    OBVIOUS
  <1>2. Min({a, b}) \in {a, b} /\ \A y \in {a, b} : Min({a, b}) <= y
    BY <1>1 DEF Min
  <1> QED
    BY <1>2

\* Position returns how many bytes come before the first that is not in f.
LEMMA PositionOf ==
    ASSUME NEW S, NEW c \in Seq(S), NEW f
    PROVE  /\ Position(c, f) \in 0..Len(c)
           /\ \A j \in 1..Position(c, f) : c[j] \in f
           /\ Position(c, f) < Len(c) => c[Position(c, f) + 1] \notin f
  <1> DEFINE I == {i \in 1..Len(c) : c[i] \notin f}
  <1>1. Position(c, f) = IF (IF I # {} THEN Min(I) ELSE 0) = 0 THEN Len(c)
                         ELSE (IF I # {} THEN Min(I) ELSE 0) - 1
    BY DEF Position, SelectInSeq
  <1>2. Len(c) \in Nat
    OBVIOUS
  <1>3. CASE I = {}
    BY <1>1, <1>2, <1>3
  <1>4. CASE I # {}
    <2>1. \E x \in I : \A y \in I : x <= y
      <3>1. I \subseteq Nat
        BY <1>2
      <3> QED
        BY <1>4, <3>1, Least
    <2>2. Min(I) \in I /\ \A y \in I : Min(I) <= y
      BY <2>1 DEF Min
    <2> HIDE DEF I
    <2>3. Min(I) \in 1..Len(c) /\ c[Min(I)] \notin f
      BY <2>2 DEF I
    <2>4. Position(c, f) = Min(I) - 1
      BY <1>1, <1>4, <2>3
    <2>5. \A j \in 1..(Min(I) - 1) : c[j] \in f
      BY <1>2, <2>2, <2>3 DEF I
    <2> QED
      BY <1>2, <2>3, <2>4, <2>5
  <1> QED
    BY <1>3, <1>4

\* A run of bytes in f that nothing in f follows is the longest.
LEMMA LeadIs ==
    ASSUME input \in Seq(Bytes), NEW i \in 0..Len(input), NEW n \in 0..(Len(input) - i), NEW f,
           Only(i, n, f), i + n < Len(input) => input[i + n + 1] \notin f
    PROVE  Lead(i, f) = n
  <1> DEFINE M == {m \in 0..(Len(input) - i) : \A j \in 1..m : input[i + j] \in f}
  <1>1. Len(input) \in Nat
    OBVIOUS
  <1>2. n \in M
    BY DEF Only
  <1>3. \A m \in M : m <= n
    <2>1. ASSUME NEW m \in M, m > n PROVE FALSE
      <3>1. n + 1 \in 1..m /\ i + n < Len(input)
        BY <1>1, <2>1
      <3> QED
        BY <1>1, <2>1, <3>1
    <2> QED
      BY <1>1, <2>1
  <1>4. \A x \in M : (\A y \in M : x >= y) => x = n
    <2>1. M \subseteq Nat
      BY <1>1
    <2> HIDE DEF M
    <2> QED
      BY <1>2, <1>3, <2>1
  <1>5. Lead(i, f) = CHOOSE x \in M : \A y \in M : x >= y
    BY DEF Lead, Max
  <1> HIDE DEF M
  <1>6. (CHOOSE x \in M : \A y \in M : x >= y) \in M
        /\ \A y \in M : (CHOOSE x \in M : \A y1 \in M : x >= y1) >= y
    BY <1>1, <1>2, <1>3 DEF M
  <1> QED
    BY <1>4, <1>5, <1>6

\* A slice that poll_fill_buf lends is what comes next in the input.
LEMMA LentSlice ==
    ASSUME IoTypes, NEW c \in poll_fill_buf
    PROVE  /\ c \in Seq(Bytes) /\ Len(c) \in 0..(Len(input) - pos)
           /\ c = <<>> <=> Len(c) = 0
           /\ Len(c) = 0 <=> pos = Len(input)
           /\ \A i \in 1..Len(c) : c[i] = input[pos + i]
           /\ \A n \in 0..Len(c) : SubSeq(c, 1, n) = SubSeq(input, pos + 1, pos + n)
  <1>1. Len(input) \in Nat /\ pos \in 0..Len(input) /\ input \in Seq(Bytes)
    BY DEF IoTypes
  <1>2. \A i \in (pos + 1)..Len(input) : input[i] \in Bytes
    BY <1>1
  <1>3. /\ Rest \in Seq(Bytes) /\ Len(Rest) = Len(input) - pos
        /\ \A i \in 1..(Len(input) - pos) : Rest[i] = input[pos + i]
    <2>1. /\ Rest \in Seq(Bytes)
          /\ Len(Rest) = IF pos + 1 <= Len(input) THEN Len(input) - (pos + 1) + 1 ELSE 0
          /\ \A i \in 1..(Len(input) - (pos + 1) + 1) : Rest[i] = input[pos + 1 + i - 1]
      BY <1>1, <1>2, SubSeqProperties DEF Rest
    <2>2. \A i \in 1..(Len(input) - pos) : pos + 1 + i - 1 = pos + i
      BY <1>1
    <2> QED
      BY <1>1, <2>1, <2>2
  <1>4. PICK k \in (IF Rest = <<>> THEN 0 ELSE 1)..Len(Rest) : c = SubSeq(Rest, 1, k)
    BY DEF poll_fill_buf
  <1>5. k \in 0..(Len(input) - pos) /\ (k = 0 <=> pos = Len(input))
    <2>1. Rest = <<>> <=> Len(Rest) = 0
      BY <1>3, LenZero
    <2> QED
      BY <1>1, <1>3, <1>4, <2>1
  <1>6. c \in Seq(Bytes) /\ Len(c) = k /\ \A i \in 1..k : c[i] = Rest[i]
    <2>1. \A i \in 1..k : Rest[i] \in Bytes
      BY <1>3, <1>5
    <2> QED
      BY <1>4, <1>5, <2>1, Prefix
  <1>7. \A i \in 1..k : c[i] = input[pos + i]
    BY <1>1, <1>3, <1>5, <1>6
  <1>8. ASSUME NEW n \in 0..k PROVE SubSeq(c, 1, n) = SubSeq(input, pos + 1, pos + n)
    <2>1. /\ SubSeq(c, 1, n) \in Seq(Bytes) /\ Len(SubSeq(c, 1, n)) = n
          /\ \A i \in 1..n : SubSeq(c, 1, n)[i] = c[i]
      <3>1. \A i \in 1..n : c[i] \in Bytes
        BY <1>5, <1>6
      <3> QED
        BY <1>5, <3>1, Prefix
    <2> DEFINE a == pos + 1
               b == pos + n
    <2>2. /\ a \in Int /\ b \in Int /\ \A i \in a..b : input[i] \in Bytes
          /\ (IF a <= b THEN b - a + 1 ELSE 0) = n
          /\ \A i \in 1..n : i \in 1..(b - a + 1) /\ a + i - 1 = pos + i
      BY <1>1, <1>5
    <2> HIDE DEF a, b
    <2>3. /\ SubSeq(input, a, b) \in Seq(Bytes)
          /\ Len(SubSeq(input, a, b)) = n
          /\ \A i \in 1..(b - a + 1) : SubSeq(input, a, b)[i] = input[a + i - 1]
      BY <2>2, SubSeqProperties
    <2>4. \A i \in 1..n : SubSeq(c, 1, n)[i] = SubSeq(input, a, b)[i]
      BY <1>5, <1>7, <2>1, <2>2, <2>3
    <2>5. SubSeq(c, 1, n) = SubSeq(input, a, b)
      BY <2>1, <2>3, <2>4, SeqEqual
    <2> QED
      BY <2>5, Zenon DEF a, b
  <1> QED
    BY <1>5, <1>6, <1>7, <1>8, LenZero

\* What was delivered, and a part of the slice that is lent, make a longer part of the input.
LEMMA Delivered ==
    ASSUME IoTypes, NEW c \in poll_fill_buf, NEW n \in 0..Len(c)
    PROVE  /\ First(pos) \o SubSeq(c, 1, n) = First(pos + n)
           /\ \A i \in 0..pos :
                SubSeq(input, i + 1, pos) \o SubSeq(c, 1, n) = SubSeq(input, i + 1, pos + n)
           /\ pos + n \in 0..Len(input)
  <1>1. /\ Len(input) \in Nat /\ pos \in 0..Len(input) /\ input \in Seq(Bytes)
        /\ pos + n \in pos..Len(input)
    BY LentSlice DEF IoTypes
  <1>2. SubSeq(c, 1, n) = SubSeq(input, pos + 1, pos + n)
    BY LentSlice
  <1> DEFINE m == pos + n
  <1>3. m \in pos..Len(input) /\ SubSeq(c, 1, n) = SubSeq(input, pos + 1, m)
    BY <1>1, <1>2
  <1> HIDE DEF m
  <1>4. \A k \in 1..(pos + 1) : SubSeq(input, k, pos) \o SubSeq(input, pos + 1, m) = SubSeq(input, k, m)
    <2> SUFFICES ASSUME NEW k \in 1..(pos + 1)
                 PROVE  SubSeq(input, k, pos) \o SubSeq(input, pos + 1, m) = SubSeq(input, k, m)
      OBVIOUS
    <2>1. k \in 1..(Len(input) + 1) /\ pos \in (k - 1)..Len(input)
      BY <1>1
    <2> QED
      BY <1>1, <1>3, <2>1, ConcatAdjacentSubSeq
  <1>5. First(pos) \o SubSeq(c, 1, n) = First(m)
    BY <1>1, <1>3, <1>4 DEF First
  <1>6. ASSUME NEW i \in 0..pos
        PROVE  SubSeq(input, i + 1, pos) \o SubSeq(c, 1, n) = SubSeq(input, i + 1, m)
    BY <1>1, <1>3, <1>4
  <1>7. pos + n \in 0..Len(input)
    BY <1>1
  <1> QED
    BY <1>5, <1>6, <1>7, Zenon DEF m

\* Nothing is copied.
LEMMA NoneCopied ==
    ASSUME NEW S, NEW b \in Seq(S), NEW c
    PROVE  b \o SubSeq(c, 1, 0) = b
  <1>1. SubSeq(c, 1, 0) = <<>>
    BY SubSeqEmpty
  <1> QED
    BY <1>1, ConcatEmptySeq

\* Parts of the input are sequences of bytes.
LEMMA Parts ==
    ASSUME IoTypes
    PROVE  /\ \A n \in 0..Len(input) : First(n) \in Seq(Bytes) /\ Len(First(n)) = n
           /\ First(0) = <<>>
           /\ \A i \in 0..Len(input) : \A n \in i..Len(input) : SubSeq(input, i + 1, n) \in Seq(Bytes)
                                                       /\ Len(SubSeq(input, i + 1, n)) = n - i
  <1>1. input \in Seq(Bytes) /\ Len(input) \in Nat /\ \A i \in 1..Len(input) : input[i] \in Bytes
    BY DEF IoTypes
  <1>2. ASSUME NEW n \in 0..Len(input) PROVE First(n) \in Seq(Bytes) /\ Len(First(n)) = n
    BY <1>1, Prefix DEF First
  <1>3. ASSUME NEW i \in 0..Len(input), NEW n \in i..Len(input)
        PROVE  SubSeq(input, i + 1, n) \in Seq(Bytes) /\ Len(SubSeq(input, i + 1, n)) = n - i
    <2> DEFINE a == i + 1
    <2>1. /\ a \in Int /\ n \in Int /\ \A j \in a..n : input[j] \in Bytes
          /\ (IF a <= n THEN n - a + 1 ELSE 0) = n - i
      BY <1>1
    <2> HIDE DEF a
    <2>2. SubSeq(input, a, n) \in Seq(Bytes) /\ Len(SubSeq(input, a, n)) = n - i
      BY <2>1, SubSeqProperties
    <2> QED
      BY <2>2 DEF a
  <1>4. First(0) = <<>>
    BY SubSeqEmpty DEF First
  <1> QED
    BY <1>2, <1>3, <1>4

\* A future that looks for the first byte not in f after i finds it, or looks at all of
\* the slice.
LEMMA Scans ==
    ASSUME IoTypes, NEW c \in poll_fill_buf, NEW i \in 0..pos, NEW f, Only(i, pos - i, f)
    PROVE  /\ Position(c, f) \in 0..Len(c)
           /\ pos + Position(c, f) \in pos..Len(input)
           /\ Only(i, (pos + Position(c, f)) - i, f)
           /\ Position(c, f) < Len(c) =>
                Lead(i, f) = (pos + Position(c, f)) - i /\ pos + Position(c, f) < Len(input)
           /\ c = <<>> => Lead(i, f) = Len(input) - i /\ pos = Len(input)
  <1> DEFINE p == Position(c, f)
             k == Len(c)
  <1>1. /\ Len(input) \in Nat /\ pos \in 0..Len(input) /\ input \in Seq(Bytes)
        /\ k \in 0..(Len(input) - pos) /\ (c = <<>> <=> k = 0) /\ (k = 0 <=> pos = Len(input))
        /\ \A j \in 1..k : c[j] = input[pos + j]
    BY LentSlice DEF IoTypes
  <1>2. p \in 0..k /\ (\A j \in 1..p : c[j] \in f) /\ (p < k => c[p + 1] \notin f)
    <2>1. c \in Seq(Bytes)
      BY LentSlice
    <2> QED
      BY <2>1, PositionOf
  <1> HIDE DEF p, k
  <1>3. \A j \in 1..((pos + p) - i) : input[i + j] \in f
    <2> SUFFICES ASSUME NEW j \in 1..((pos + p) - i) PROVE input[i + j] \in f
      OBVIOUS
    <2>1. CASE j <= pos - i
      <3>1. j \in 1..(pos - i)
        BY <1>1, <1>2, <2>1
      <3> QED
        BY <3>1 DEF Only
    <2>2. CASE j > pos - i
      <3> DEFINE h == j - (pos - i)
      <3>1. h \in 1..p /\ h \in 1..k /\ pos + h = i + j
        BY <1>1, <1>2, <2>2
      <3> HIDE DEF h
      <3> QED
        BY <1>1, <1>2, <3>1
    <2> QED
      BY <1>1, <1>2, <2>1, <2>2
  <1>4. Only(i, (pos + p) - i, f)
    BY <1>3 DEF Only
  <1>5. ASSUME p < k PROVE Lead(i, f) = (pos + p) - i /\ pos + p < Len(input)
    <2> DEFINE n == (pos + p) - i
    <2>1. n \in 0..(Len(input) - i) /\ i \in 0..Len(input) /\ pos + p < Len(input)
          /\ p + 1 \in 1..k /\ i + n + 1 = pos + (p + 1)
      BY <1>1, <1>2, <1>5
    <2>2. Only(i, n, f)
      BY <1>4
    <2>3. input[pos + (p + 1)] \notin f
      BY <1>1, <1>2, <1>5, <2>1
    <2> HIDE DEF n
    <2>4. Lead(i, f) = n
      BY <1>1, <2>1, <2>2, <2>3, LeadIs
    <2> QED
      BY <2>1, <2>4 DEF n
  <1>6. ASSUME c = <<>> PROVE Lead(i, f) = Len(input) - i /\ pos = Len(input)
    <2> DEFINE n == Len(input) - i
    <2>1. pos = Len(input) /\ n \in 0..(Len(input) - i) /\ i \in 0..Len(input) /\ i + n = Len(input)
      BY <1>1, <1>6
    <2>2. Only(i, n, f)
      BY <2>1
    <2> HIDE DEF n
    <2>3. Lead(i, f) = n
      BY <1>1, <2>1, <2>2, LeadIs
    <2> QED
      BY <2>1, <2>3 DEF n
  <1>7. pos + p \in pos..Len(input)
    BY <1>1, <1>2
  <1> QED
    BY <1>2, <1>4, <1>5, <1>6, <1>7 DEF p, k

\* A turn of a future other than read_line.
Turned(c, t) ==
    /\ buf' = buf \o SubSeq(c, 1, t.copies)
    /\ pos' = pos + t.consumes
    /\ result' = IF t.returns = "again" THEN "none" ELSE t.returns
    /\ UNCHANGED <<op, cap, input, wrote, stage>>

\* What is to be shown of a turn of a reading future.
LEMMA Outcome ==
    ASSUME IoTypes, op \in ReadOps, UNCHANGED <<op, cap, input>>, stage' \in 1..4,
           pos' \in 0..Len(input), result' = "none" => Midway', result' # "none" => Promise'
    PROVE  IoInv'
  <1>1. op' \notin WriteOps
    BY DEF ReadOps, WriteOps
  <1>2. AdapterKeepsBytes'
    BY <1>1 DEF AdapterKeepsBytes
  <1> QED
    BY <1>1, <1>2 DEF IoInv, IoTypes, ReadOps

\* The futures that need one slice.
LEMMA ReadTurn ==
    ASSUME IoTypes, Midway, NEW c \in poll_fill_buf, op = "read", Turned(c, Read(c))
    PROVE  IoInv'
  <1> DEFINE n == Min({cap, Len(c)})
  <1>1. /\ Len(c) \in Nat /\ Len(input) \in Nat /\ cap \in Nat /\ pos = 0 /\ buf = <<>>
        /\ Len(c) = 0 <=> Len(input) = 0
        /\ Len(input) = 0 => input = <<>>
    BY LentSlice, LenZero DEF IoTypes, Midway
  <1>2. n = IF cap <= Len(c) THEN cap ELSE Len(c)
    BY <1>1, Smaller
  <1>3. n \in 0..Len(c) /\ n \in Nat /\ n <= cap /\ (n = 0 => cap = 0 \/ input = <<>>)
    BY <1>1, <1>2
  <1>4. buf' = buf \o SubSeq(c, 1, n) /\ pos' = pos + n /\ result' = "ok"
    BY DEF Turned, Read, Turn
  <1> HIDE DEF n
  <1>5. buf' = First(n) /\ pos' = n /\ n \in 0..Len(input)
    <2>1. First(pos) \o SubSeq(c, 1, n) = First(pos + n) /\ pos + n \in 0..Len(input)
      BY <1>3, Delivered
    <2>2. First(pos) = <<>> /\ pos + n = n
      BY <1>1, <1>3, Parts
    <2> QED
      BY <1>1, <1>4, <2>1, <2>2
  <1>6. Promise'
    BY <1>3, <1>5 DEF Turned, Promise, First, WriteOps
  <1> QED
    BY <1>4, <1>5, <1>6, Outcome DEF Turned, ReadOps, IoTypes

\* read_buf lends the slice and consumes nothing.
LEMMA ReadBufTurn ==
    ASSUME IoTypes, Midway, NEW c \in poll_fill_buf, op = "read_buf", Turned(c, ReadBuf(c))
    PROVE  IoInv'
  <1> DEFINE n == Len(c)
  <1>1. /\ n \in 0..Len(c) /\ n \in Nat /\ Len(input) \in Nat /\ pos = 0 /\ buf = <<>>
        /\ n = 0 <=> Len(input) = 0
        /\ Len(input) = 0 => input = <<>>
    BY LentSlice, LenZero DEF IoTypes, Midway
  <1>2. buf' = buf \o SubSeq(c, 1, n) /\ pos' = pos + 0 /\ result' = "ok"
    BY DEF Turned, ReadBuf, Turn
  <1> HIDE DEF n
  <1>3. buf' = First(n) /\ pos' = 0 /\ n \in 0..Len(input)
    <2>1. First(pos) \o SubSeq(c, 1, n) = First(pos + n) /\ pos + n \in 0..Len(input)
      BY <1>1, Delivered
    <2>2. First(pos) = <<>> /\ pos + n = n
      BY <1>1, Parts
    <2> QED
      BY <1>1, <1>2, <2>1, <2>2
  <1>4. First(n) \in Seq(Bytes) /\ Len(First(n)) = n
    BY <1>3, Parts
  <1>5. IsPrefix(buf', input)
    <2>1. SubSeq(First(n), 1, n) = First(n)
      BY <1>4, SubSeqFull
    <2> QED
      BY <1>3, <1>4, <2>1 DEF IsPrefix, First
  <1>6. buf' = <<>> => input = <<>>
    BY <1>1, <1>3, <1>4, LenZero
  <1>7. Promise'
    BY <1>3, <1>5, <1>6 DEF Turned, Promise, WriteOps
  <1> QED
    BY <1>1, <1>2, <1>3, <1>7, Outcome DEF Turned, ReadOps, IoTypes

\* read_byte takes one byte, unless there is none.
LEMMA ReadByteTurn ==
    ASSUME IoTypes, Midway, NEW c \in poll_fill_buf, op = "read_byte", Turned(c, ReadByte(c))
    PROVE  IoInv'
  <1> DEFINE n == IF c = <<>> THEN 0 ELSE 1
  <1>1. /\ Len(c) \in 0..Len(input) /\ Len(input) \in Nat /\ pos = 0 /\ buf = <<>>
        /\ c = <<>> <=> Len(c) = 0
        /\ Len(c) = 0 <=> Len(input) = 0
    BY LentSlice DEF IoTypes, Midway
  <1>2. /\ n \in 0..Len(c) /\ n \in 0..1 /\ (n = 1 <=> Len(input) >= 1)
    BY <1>1
  <1>3. /\ buf' = buf \o SubSeq(c, 1, n) /\ pos' = pos + n
        /\ result' = IF n = 1 THEN "ok" ELSE "UnexpectedEof"
    BY DEF Turned, ReadByte, Turn
  <1> HIDE DEF n
  <1>4. buf' = First(n) /\ pos' = n /\ n \in 0..Len(input)
    <2>1. First(pos) \o SubSeq(c, 1, n) = First(pos + n) /\ pos + n \in 0..Len(input)
      BY <1>2, Delivered
    <2>2. First(pos) = <<>> /\ pos + n = n
      BY <1>1, <1>2, Parts
    <2> QED
      BY <1>1, <1>3, <2>1, <2>2
  <1>5. Min({1, Len(input)}) = n
    <2>1. Min({1, Len(input)}) = IF 1 <= Len(input) THEN 1 ELSE Len(input)
      BY <1>1, Smaller
    <2> QED
      BY <1>1, <1>2, <2>1
  <1>6. Promise'
    BY <1>2, <1>3, <1>4, <1>5 DEF Turned, Promise, First, WriteOps
  <1> QED
    BY <1>2, <1>3, <1>4, <1>6, Outcome DEF Turned, ReadOps, IoTypes

\* drain drops the slice.
LEMMA DrainTurn ==
    ASSUME IoTypes, Midway, NEW c \in poll_fill_buf, op = "drain", Turned(c, Drain(c))
    PROVE  IoInv'
  <1>1. buf' = buf \o SubSeq(c, 1, 0) /\ pos' = pos + Len(c) /\ result' = "none" /\ buf = <<>>
    BY DEF Turned, Drain, Turn, Midway
  <1>2. buf' = <<>>
    <2>1. <<>> \in Seq(Bytes)
      OBVIOUS
    <2> QED
      BY <1>1, <2>1, NoneCopied
  <1>3. pos' \in 0..Len(input)
    BY <1>1, LentSlice DEF IoTypes
  <1>4. Midway'
    BY <1>2 DEF Turned, Midway
  <1> QED
    BY <1>1, <1>3, <1>4, Outcome DEF Turned, ReadOps, IoTypes

\* The futures that fill a buffer.
LEMMA ReadExactTurn ==
    ASSUME IoTypes, Midway, NEW c \in poll_fill_buf, op = "read_exact", Turned(c, ReadExact(c))
    PROVE  IoInv'
  <1> DEFINE n == Min({cap - Len(buf), Len(c)})
  <1>1. /\ Len(c) \in 0..(Len(input) - pos) /\ Len(input) \in Nat /\ cap \in Nat
        /\ pos \in 0..Len(input) /\ pos <= cap /\ buf = First(pos)
        /\ c = <<>> <=> Len(c) = 0
        /\ Len(c) = 0 <=> pos = Len(input)
    BY LentSlice DEF IoTypes, Midway
  <1>2. Len(buf) = pos /\ buf \in Seq(Bytes)
    BY <1>1, Parts
  <1>3. n = IF cap - pos <= Len(c) THEN cap - pos ELSE Len(c)
    BY <1>1, <1>2, Smaller
  <1>4. n \in 0..Len(c) /\ n <= cap - pos
    BY <1>1, <1>3
  <1>5. Min({cap, Len(input)}) = IF cap <= Len(input) THEN cap ELSE Len(input)
    BY <1>1, Smaller
  <1>6. CASE Len(buf) = cap \/ c = <<>>
    <2>1. /\ buf' = buf \o SubSeq(c, 1, 0) /\ pos' = pos + 0
          /\ result' = IF Len(buf) = cap THEN "ok" ELSE "UnexpectedEof"
      BY <1>6 DEF Turned, ReadExact, Turn
    <2>2. buf' = First(pos) /\ pos' = pos
      BY <1>1, <1>2, <2>1, NoneCopied
    <2>3. pos = Min({cap, Len(input)}) /\ (result' = "ok" <=> cap <= Len(input))
      BY <1>1, <1>2, <1>5, <1>6, <2>1
    <2>4. Promise'
      BY <2>2, <2>3 DEF Turned, Promise, First, WriteOps
    <2> QED
      BY <1>1, <2>1, <2>2, <2>4, Outcome DEF Turned, ReadOps, IoTypes
  <1>7. CASE ~(Len(buf) = cap \/ c = <<>>)
    <2>1. buf' = buf \o SubSeq(c, 1, n) /\ pos' = pos + n /\ result' = "none"
      BY <1>7 DEF Turned, ReadExact, Turn
    <2> HIDE DEF n
    <2>2. buf' = First(pos') /\ pos' \in 0..Len(input) /\ pos' <= cap
      BY <1>1, <1>4, <2>1, Delivered
    <2>3. Midway'
      BY <2>2 DEF Turned, Midway, First
    <2> QED
      BY <2>1, <2>2, <2>3, Outcome DEF Turned, ReadOps, IoTypes
  <1> QED
    BY <1>6, <1>7

\* read_to_end fills its buffer as read_exact does; it tells the end of the input from a
\* buffer that is full.
LEMMA ReadToEndTurn ==
    ASSUME IoTypes, Midway, NEW c \in poll_fill_buf, op = "read_to_end", Turned(c, ReadToEnd(c))
    PROVE  IoInv'
  <1> DEFINE n == Min({cap - Len(buf), Len(c)})
  <1>1. /\ Len(c) \in 0..(Len(input) - pos) /\ Len(input) \in Nat /\ cap \in Nat
        /\ pos \in 0..Len(input) /\ pos <= cap /\ buf = First(pos)
        /\ c = <<>> <=> Len(c) = 0
        /\ Len(c) = 0 <=> pos = Len(input)
    BY LentSlice DEF IoTypes, Midway
  <1>2. Len(buf) = pos /\ buf \in Seq(Bytes)
    BY <1>1, Parts
  <1>3. n = IF cap - pos <= Len(c) THEN cap - pos ELSE Len(c)
    BY <1>1, <1>2, Smaller
  <1>4. n \in 0..Len(c) /\ n <= cap - pos
    BY <1>1, <1>3
  <1>5. Min({cap, Len(input)}) = IF cap <= Len(input) THEN cap ELSE Len(input)
    BY <1>1, Smaller
  <1>6. CASE Len(buf) = cap \/ c = <<>>
    <2>1. /\ buf' = buf \o SubSeq(c, 1, 0) /\ pos' = pos + 0
          /\ result' = IF c = <<>> THEN "ok" ELSE "Truncated"
      BY <1>6 DEF Turned, ReadToEnd, Turn
    <2>2. buf' = First(pos) /\ pos' = pos
      BY <1>1, <1>2, <2>1, NoneCopied
    <2>3. pos = Min({cap, Len(input)}) /\ (result' = "ok" <=> Len(input) <= cap)
      BY <1>1, <1>2, <1>5, <1>6, <2>1
    <2>4. Promise'
      BY <2>2, <2>3 DEF Turned, Promise, First, WriteOps
    <2> QED
      BY <1>1, <2>1, <2>2, <2>4, Outcome DEF Turned, ReadOps, IoTypes
  <1>7. CASE ~(Len(buf) = cap \/ c = <<>>)
    <2>1. buf' = buf \o SubSeq(c, 1, n) /\ pos' = pos + n /\ result' = "none"
      BY <1>7 DEF Turned, ReadToEnd, Turn
    <2> HIDE DEF n
    <2>2. buf' = First(pos') /\ pos' \in 0..Len(input) /\ pos' <= cap
      BY <1>1, <1>4, <2>1, Delivered
    <2>3. Midway'
      BY <2>2 DEF Turned, Midway, First
    <2> QED
      BY <2>1, <2>2, <2>3, Outcome DEF Turned, ReadOps, IoTypes
  <1> QED
    BY <1>6, <1>7

\* What read_while, skip_while and read_line are to find depends on the input alone.
LEMMA SameInput ==
    ASSUME input' = input
    PROVE  /\ Lead(0, {"x"})' = Lead(0, {"x"})
           /\ LineStart' = LineStart /\ LineLen' = LineLen /\ LineEnd' = LineEnd
  BY DEF Lead, LineStart, LineLen, LineEnd

\* A buffer that holds what fits goes on to hold it when a part of the slice is added, as
\* far as that fits.
LEMMA Clipped ==
    ASSUME IoTypes, NEW c \in poll_fill_buf, NEW i \in 0..pos, NEW p \in 0..Len(c),
           buf = Fitting(i, pos)
    PROVE  /\ Min({p, cap - Len(buf)}) \in 0..Len(c)
           /\ buf \o SubSeq(c, 1, Min({p, cap - Len(buf)})) = Fitting(i, pos + p)
           /\ buf \in Seq(Bytes)
  <1> DEFINE a == i + 1
             d == i + Min({cap, pos - i})
             e == i + Min({cap, (pos + p) - i})
  <1>0. a = i + 1 /\ buf = SubSeq(input, a, d) /\ Fitting(i, pos + p) = SubSeq(input, a, e)
    <2>1. buf = SubSeq(input, a, d)
      BY Zenon DEF Fitting
    <2>2. Fitting(i, pos + p) = SubSeq(input, a, e)
      BY Zenon DEF Fitting
    <2> QED
      BY <2>1, <2>2
  <1> HIDE DEF a
  <1>1. /\ Len(c) \in 0..(Len(input) - pos) /\ Len(input) \in Nat /\ cap \in Nat
        /\ pos \in 0..Len(input) /\ p \in Nat /\ pos - i \in Nat /\ (pos + p) - i \in Nat
    BY LentSlice DEF IoTypes
  <1> DEFINE q == Min({cap, pos - i})
             r == Min({cap, (pos + p) - i})
             n == Min({p, cap - Len(buf)})
  <1>2. q = (IF cap <= pos - i THEN cap ELSE pos - i) /\ d = i + q
    BY <1>1, Smaller DEF d
  <1>3. r = (IF cap <= (pos + p) - i THEN cap ELSE (pos + p) - i) /\ e = i + r
    BY <1>1, Smaller DEF e
  <1> HIDE DEF q, r, d, e
  <1>4. Len(buf) = q /\ buf \in Seq(Bytes)
    <2>1. d \in i..Len(input) /\ i \in 0..Len(input) /\ d - i = q
      BY <1>1, <1>2
    <2> QED
      BY <1>0, <2>1, Parts
  <1>5. n = IF p <= cap - q THEN p ELSE cap - q
    <2>1. cap - q \in Nat
      BY <1>1, <1>2
    <2> QED
      BY <1>1, <1>4, <2>1, Smaller
  <1> HIDE DEF n
  <1>6. n \in 0..Len(c)
    BY <1>1, <1>2, <1>5
  <1>7. CASE pos - i < cap
    <2> DEFINE m == pos + n
    <2>1. d = pos /\ m = e
      BY <1>1, <1>2, <1>3, <1>5, <1>7
    <2>2. SubSeq(input, i + 1, pos) \o SubSeq(c, 1, n) = SubSeq(input, i + 1, m)
      BY <1>6, Delivered
    <2> HIDE DEF m
    <2>3. buf \o SubSeq(c, 1, n) = SubSeq(input, a, e)
      BY <1>0, <2>1, <2>2
    <2> QED
      BY <1>0, <1>4, <1>6, <2>3 DEF n
  <1>8. CASE cap <= pos - i
    <2>1. n = 0 /\ d = e
      BY <1>1, <1>2, <1>3, <1>5, <1>8
    <2>2. buf \o SubSeq(c, 1, n) = buf
      BY <1>4, <2>1, NoneCopied
    <2>3. buf \o SubSeq(c, 1, n) = SubSeq(input, a, e)
      BY <1>0, <2>1, <2>2
    <2> QED
      BY <1>0, <1>4, <1>6, <2>3 DEF n
  <1>9. pos - i < cap \/ cap <= pos - i
    BY <1>1
  <1> QED
    BY <1>7, <1>8, <1>9

\* What fits of a beginning of the input is a beginning of it.
LEMMA FittingFirst ==
    ASSUME IoTypes, NEW m \in Nat
    PROVE  Fitting(0, m) = First(Min({cap, m}))
  <1> DEFINE d == Min({cap, m})
             a == 0 + 1
             e == 0 + Min({cap, m - 0})
  <1>1. d \in Nat
    BY Smaller DEF IoTypes
  <1>2. m - 0 = m
    OBVIOUS
  <1>3. e = 0 + d
    BY <1>2, Zenon
  <1>4. Fitting(0, m) = SubSeq(input, a, e) /\ First(d) = SubSeq(input, 1, d)
    BY Zenon DEF Fitting, First
  <1>5. a = 1
    OBVIOUS
  <1> HIDE DEF a, d, e
  <1>6. Fitting(0, m) = First(d)
    BY <1>1, <1>3, <1>4, <1>5
  <1> QED
    BY <1>6, Zenon DEF d

\* A future that looks for the first byte of all the input that is not in f.
LEMMA ScansFirst ==
    ASSUME IoTypes, NEW c \in poll_fill_buf, NEW f, Only(0, pos, f)
    PROVE  /\ Position(c, f) \in 0..Len(c) /\ pos + Position(c, f) \in 0..Len(input)
           /\ Only(0, pos + Position(c, f), f)
           /\ Position(c, f) < Len(c) =>
                Lead(0, f) = pos + Position(c, f) /\ pos + Position(c, f) < Len(input)
           /\ c = <<>> => Lead(0, f) = pos /\ pos = Len(input)
  <1> DEFINE p == Position(c, f)
  <1>1. /\ pos - 0 = pos /\ 0 \in 0..pos /\ Len(c) \in Nat /\ Len(input) \in Nat
        /\ pos \in 0..Len(input)
    BY LentSlice DEF IoTypes
  <1>2. Only(0, pos - 0, f)
    BY <1>1
  <1>3. /\ p \in 0..Len(c) /\ pos + p \in pos..Len(input) /\ Only(0, (pos + p) - 0, f)
        /\ p < Len(c) => Lead(0, f) = (pos + p) - 0 /\ pos + p < Len(input)
        /\ c = <<>> => Lead(0, f) = Len(input) - 0 /\ pos = Len(input)
    BY <1>1, <1>2, Scans
  <1> HIDE DEF p
  <1>4. /\ p \in 0..Len(c) /\ pos + p \in 0..Len(input)
        /\ Only(0, pos + p, f)
        /\ p < Len(c) => Lead(0, f) = pos + p /\ pos + p < Len(input)
        /\ c = <<>> => Lead(0, f) = pos /\ pos = Len(input)
    BY <1>1, <1>3
  <1> QED
    BY <1>4 DEF p

\* The futures that look for a byte.
LEMMA ReadWhileTurn ==
    ASSUME IoTypes, Midway, NEW c \in poll_fill_buf, op = "read_while",
           Turned(c, ReadWhile(c, {"x"}))
    PROVE  IoInv'
  <1> DEFINE p == Position(c, {"x"})
             n == Min({p, cap - Len(buf)})
  <1>1. /\ Len(c) \in 0..(Len(input) - pos) /\ Len(input) \in Nat /\ cap \in Nat
        /\ pos \in 0..Len(input) /\ input \in Seq(Bytes)
        /\ Only(0, pos, {"x"}) /\ buf = First(Min({cap, pos}))
        /\ c = <<>> <=> Len(c) = 0
    BY LentSlice DEF IoTypes, Midway
  <1>2. /\ p \in 0..Len(c) /\ pos + p \in 0..Len(input)
        /\ Only(0, pos + p, {"x"})
        /\ p < Len(c) => Lead(0, {"x"}) = pos + p /\ pos + p < Len(input)
        /\ c = <<>> => Lead(0, {"x"}) = pos /\ pos = Len(input)
    BY <1>1, ScansFirst
  <1> HIDE DEF p
  <1>3. n \in 0..Len(c) /\ buf \o SubSeq(c, 1, n) = First(Min({cap, pos + p}))
    <2>1. 0 \in 0..pos /\ pos \in Nat /\ pos + p \in Nat
      BY <1>1, <1>2
    <2>2. buf = Fitting(0, pos)
      BY <1>1, <2>1, FittingFirst
    <2>3. n \in 0..Len(c) /\ buf \o SubSeq(c, 1, n) = Fitting(0, pos + p)
      BY <1>2, <2>1, <2>2, Clipped
    <2> HIDE DEF n
    <2> QED
      BY <2>1, <2>3, FittingFirst
  <1>4. CASE c = <<>>
    <2>1. buf' = buf \o SubSeq(c, 1, 0) /\ pos' = pos + 0 /\ result' = "UnexpectedEof"
      BY <1>4 DEF Turned, ReadWhile, Turn
    <2>2. pos' = pos
      BY <1>1, <2>1
    <2>3. buf' = First(Min({cap, pos}))
      <3>1. Min({cap, pos}) \in 0..Len(input)
        <4>1. Min({cap, pos}) = IF cap <= pos THEN cap ELSE pos
          BY <1>1, Smaller
        <4> QED
          BY <1>1, <4>1
      <3>2. buf \in Seq(Bytes)
        BY <1>1, <3>1, Parts
      <3> QED
        BY <1>1, <2>1, <3>2, NoneCopied
    <2>4. Promise'
      <3>1. Lead(0, {"x"})' = pos
        BY <1>2, <1>4, SameInput DEF Turned
      <3>2. ~(pos < Len(input)) /\ result' # "ok"
        BY <1>1, <1>2, <1>4, <2>1
      <3> QED
        BY <2>1, <2>2, <2>3, <3>1, <3>2 DEF Turned, Promise, First, WriteOps
    <2> QED
      BY <1>1, <2>1, <2>2, <2>4, Outcome DEF Turned, ReadOps, IoTypes
  <1>5. CASE c # <<>>
    <2>1. /\ buf' = buf \o SubSeq(c, 1, n) /\ pos' = pos + p
          /\ result' = IF p < Len(c) THEN "ok" ELSE "none"
      BY <1>5 DEF Turned, ReadWhile, Turn, p
    <2>2. buf' = First(Min({cap, pos'}))
      BY <1>3, <2>1
    <2>3. CASE p < Len(c)
      <3>1. Promise'
        BY <1>2, <2>1, <2>2, <2>3 DEF Turned, Promise, First, Lead, WriteOps
      <3> QED
        BY <1>2, <2>1, <2>3, <3>1, Outcome DEF Turned, ReadOps, IoTypes
    <2>4. CASE ~(p < Len(c))
      <3>1. Midway'
        BY <1>2, <2>1, <2>2 DEF Turned, Midway, First, Only
      <3> QED
        BY <1>2, <2>1, <2>4, <3>1, Outcome DEF Turned, ReadOps, IoTypes
    <2> QED
      BY <2>3, <2>4
  <1> QED
    BY <1>4, <1>5

\* skip_while drops what it passes by.
LEMMA SkipWhileTurn ==
    ASSUME IoTypes, Midway, NEW c \in poll_fill_buf, op = "skip_while",
           Turned(c, SkipWhile(c, {"x"}))
    PROVE  IoInv'
  <1> DEFINE p == Position(c, {"x"})
  <1>1. /\ Len(c) \in 0..(Len(input) - pos) /\ Len(input) \in Nat
        /\ pos \in 0..Len(input) /\ Only(0, pos, {"x"}) /\ buf = <<>>
        /\ c = <<>> <=> Len(c) = 0
    BY LentSlice DEF IoTypes, Midway
  <1>2. /\ p \in 0..Len(c) /\ pos + p \in 0..Len(input)
        /\ Only(0, pos + p, {"x"})
        /\ p < Len(c) => Lead(0, {"x"}) = pos + p /\ pos + p < Len(input)
        /\ c = <<>> => Lead(0, {"x"}) = pos /\ pos = Len(input)
    BY <1>1, ScansFirst
  <1>3. buf' = buf \o SubSeq(c, 1, 0)
    BY DEF Turned, SkipWhile, Turn
  <1> HIDE DEF p
  <1>4. buf' = <<>>
    <2>1. <<>> \in Seq(Bytes)
      OBVIOUS
    <2> QED
      BY <1>1, <1>3, <2>1, NoneCopied
  <1>5. CASE c = <<>>
    <2>1. pos' = pos + 0 /\ result' = "UnexpectedEof"
      BY <1>5 DEF Turned, SkipWhile, Turn
    <2>2. pos' = pos
      BY <1>1, <2>1
    <2>3. Promise'
      <3>1. Lead(0, {"x"})' = pos
        BY <1>2, <1>5, SameInput DEF Turned
      <3>2. ~(pos < Len(input)) /\ result' # "ok"
        BY <1>1, <1>2, <1>5, <2>1
      <3> QED
        BY <1>4, <2>1, <2>2, <3>1, <3>2 DEF Turned, Promise, WriteOps
    <2> QED
      BY <1>1, <2>1, <2>2, <2>3, Outcome DEF Turned, ReadOps, IoTypes
  <1>6. CASE c # <<>>
    <2>1. pos' = pos + p /\ result' = IF p < Len(c) THEN "ok" ELSE "none"
      BY <1>6 DEF Turned, SkipWhile, Turn, p
    <2>2. CASE p < Len(c)
      <3>1. Promise'
        BY <1>2, <1>4, <2>1, <2>2 DEF Turned, Promise, Lead, WriteOps
      <3> QED
        BY <1>2, <2>1, <2>2, <3>1, Outcome DEF Turned, ReadOps, IoTypes
    <2>3. CASE ~(p < Len(c))
      <3>1. Midway'
        BY <1>2, <1>4, <2>1 DEF Turned, Midway, Only
      <3> QED
        BY <1>2, <2>1, <2>3, <3>1, Outcome DEF Turned, ReadOps, IoTypes
    <2> QED
      BY <2>2, <2>3
  <1> QED
    BY <1>5, <1>6

\* Nothing follows the end of the input.
LEMMA LeadAtEnd ==
    ASSUME input \in Seq(Bytes), NEW f
    PROVE  Lead(Len(input), f) = 0
  <1> DEFINE i == Len(input)
             n == 0
  <1>1. i \in 0..Len(input) /\ n \in 0..(Len(input) - i) /\ ~(i + n < Len(input)) /\ n = 0
    OBVIOUS
  <1>2. Only(i, n, f)
    BY DEF Only
  <1> HIDE DEF i, n
  <1>3. Lead(i, f) = n
    BY <1>1, <1>2, LeadIs
  <1> QED
    BY <1>1, <1>3 DEF i

\* What fits of the line is a sequence of bytes.
LEMMA HeadIsSeq ==
    ASSUME IoTypes, LineStart \in Nat, LineLen \in Nat, LineStart + LineLen <= Len(input)
    PROVE  LineHead \in Seq(Bytes)
  <1> DEFINE s == LineStart
             m == Min({cap, LineLen})
             e == s + m
  <1>1. cap \in Nat /\ Len(input) \in Nat
    BY DEF IoTypes
  <1>2. m = IF cap <= LineLen THEN cap ELSE LineLen
    BY <1>1, Smaller
  <1> HIDE DEF s, m
  <1>3. s \in 0..Len(input) /\ e \in s..Len(input)
    BY <1>1, <1>2 DEF s
  <1> HIDE DEF e
  <1>4. SubSeq(input, s + 1, e) \in Seq(Bytes)
    BY <1>3, Parts
  <1> QED
    BY <1>4, Zenon DEF LineHead, s, m, e

\* A turn of read_line: a future that completes makes way for the next.
LineTurned(c, t) ==
    /\ buf' = buf \o SubSeq(c, 1, t.copies)
    /\ pos' = pos + t.consumes
    /\ IF t.returns = "ok" /\ stage < 4
       THEN stage' = stage + 1 /\ UNCHANGED result
       ELSE /\ result' = IF t.returns = "again" THEN "none" ELSE t.returns
            /\ UNCHANGED stage
    /\ UNCHANGED <<op, cap, input, wrote>>

\* What is to be shown of a turn of read_line that goes on.
LEMMA LineGoesOn ==
    ASSUME IoTypes, op = "read_line", UNCHANGED <<op, cap, input>>, stage' \in 1..4,
           pos' \in 0..Len(input), result' = "none", Lines'
    PROVE  IoInv'
  <1>1. Midway'
    BY DEF Midway
  <1> QED
    BY <1>1, Outcome DEF ReadOps

\* What is to be shown of a turn at the end of the input.
LEMMA LineEnds ==
    ASSUME IoTypes, op = "read_line", UNCHANGED <<op, cap, input, stage>>,
           pos = Len(input), pos' = pos + 0, result' = "UnexpectedEof", LineEnd = Len(input)
    PROVE  IoInv'
  <1>1. Len(input) \in Nat
    BY DEF IoTypes
  <1>2. LineEnd' = LineEnd /\ pos' = Len(input)
    BY <1>1, SameInput
  <1>3. Promise'
    BY <1>1, <1>2 DEF Promise, WriteOps
  <1> QED
    BY <1>1, <1>2, <1>3, Outcome DEF ReadOps, IoTypes

\* read_line skips the line ends before the line.
LEMMA LineStage1 ==
    ASSUME IoTypes, Lines, NEW c \in poll_fill_buf, op = "read_line", stage = 1, result = "none",
           LineTurned(c, SkipWhile(c, EOL))
    PROVE  IoInv'
  <1> DEFINE p == Position(c, EOL)
  <1>1. /\ Only(0, pos, EOL) /\ buf = <<>> /\ input \in Seq(Bytes) /\ pos \in 0..Len(input)
        /\ Len(input) \in Nat
    BY DEF Lines, IoTypes
  <1>2. /\ p \in 0..Len(c) /\ pos + p \in 0..Len(input)
        /\ Only(0, pos + p, EOL)
        /\ p < Len(c) => LineStart = pos + p /\ pos + p < Len(input)
        /\ c = <<>> => LineStart = pos /\ pos = Len(input)
    BY <1>1, ScansFirst DEF LineStart
  <1>3. buf' = <<>>
    <2>1. buf' = buf \o SubSeq(c, 1, 0) /\ <<>> \in Seq(Bytes)
      BY DEF LineTurned, SkipWhile, Turn
    <2> QED
      BY <1>1, <2>1, NoneCopied
  <1>4. CASE c = <<>>
    <2>1. pos' = pos + 0 /\ result' = "UnexpectedEof" /\ UNCHANGED <<op, cap, input, stage>>
      BY <1>4 DEF LineTurned, SkipWhile, Turn
    <2>2. LineStart = Len(input) /\ pos = Len(input)
      BY <1>2, <1>4
    <2>3. LineLen = 0
      BY <1>1, <2>2, LeadAtEnd DEF LineLen
    <2>4. LineStart + LineLen = Len(input)
      BY <1>1, <2>2, <2>3
    <2>5. LineEnd = Len(input)
      <3>1. Lead(LineStart + LineLen, {"CR"}) = 0
        BY <1>1, <2>4, LeadAtEnd
      <3> QED
        BY <1>1, <2>4, <3>1 DEF LineEnd
    <2> QED
      BY <2>1, <2>2, <2>5, LineEnds
  <1>5. CASE c # <<>>
    <2>1. /\ pos' = pos + p /\ result' = "none" /\ UNCHANGED <<op, cap, input>>
          /\ stage' = IF p < Len(c) THEN 2 ELSE 1
      BY <1>5 DEF LineTurned, SkipWhile, Turn
    <2> HIDE DEF p
    <2>2. CASE p < Len(c)
      <3> DEFINE k == pos + p
      <3>0. k \in Nat
        BY <1>2
      <3>1. LineStart = k /\ LineStart' = k /\ pos' = k /\ stage' = 2
        BY <1>2, <2>1, <2>2, SameInput
      <3> HIDE DEF k
      <3>2. Only(LineStart, pos - LineStart, Bytes \ EOL)'
        <4> DEFINE z == pos' - LineStart'
        <4>1. z = 0
          BY <3>0, <3>1
        <4> HIDE DEF z
        <4>2. \A j \in 1..z : input'[LineStart' + j] \in Bytes \ EOL
          BY <4>1
        <4> QED
          BY <4>2 DEF Only, z
      <3>3. Fitting(LineStart, pos)' = <<>>
        <4> DEFINE m == Min({cap, k - k})
                   a == k + 1
                   e == k + m
        <4>1. m = 0
          <5>1. cap \in Nat /\ 0 \in Nat
            BY DEF IoTypes
          <5>2. k - k = 0
            BY <3>0
          <5> QED
            BY <5>1, <5>2, Smaller
        <4>2. Fitting(LineStart, pos)' = SubSeq(input, a, e)
          BY <2>1, <3>1, Zenon DEF Fitting
        <4> HIDE DEF m
        <4>3. a \in Int /\ e \in Int /\ e < a
          BY <3>0, <4>1
        <4> HIDE DEF a, e
        <4>4. SubSeq(input, a, e) = <<>>
          BY <4>3, SubSeqEmpty
        <4> QED
          BY <4>2, <4>4
      <3>4. Lines'
        BY <1>3, <3>0, <3>1, <3>2, <3>3 DEF Lines
      <3> QED
        BY <1>2, <2>1, <2>2, <3>4, LineGoesOn
    <2>3. CASE ~(p < Len(c))
      <3>1. Only(0, pos, EOL)'
        BY <1>2, <2>1 DEF Only
      <3>2. Lines'
        BY <1>3, <2>1, <2>3, <3>1 DEF Lines
      <3> QED
        BY <1>2, <2>1, <2>3, <3>2, LineGoesOn
    <2> QED
      BY <2>2, <2>3
  <1> QED
    BY <1>4, <1>5

\* read_line copies the line.
LEMMA LineStage2 ==
    ASSUME IoTypes, Lines, NEW c \in poll_fill_buf, op = "read_line", stage = 2, result = "none",
           LineTurned(c, ReadWhile(c, Bytes \ EOL))
    PROVE  IoInv'
  <1> DEFINE f == Bytes \ EOL
             p == Position(c, f)
             n == Min({p, cap - Len(buf)})
             i == LineStart
             k == pos + p
  <1>1. /\ i \in 0..pos /\ Only(i, pos - i, f) /\ buf = Fitting(i, pos)
        /\ input \in Seq(Bytes) /\ pos \in 0..Len(input) /\ Len(input) \in Nat
    BY DEF Lines, IoTypes
  <1> HIDE DEF i, f
  <1>2. /\ p \in 0..Len(c) /\ k \in pos..Len(input) /\ Only(i, k - i, f)
        /\ p < Len(c) => Lead(i, f) = k - i /\ k < Len(input)
        /\ c = <<>> => Lead(i, f) = Len(input) - i /\ pos = Len(input)
    BY <1>1, Scans
  <1>3. buf \o SubSeq(c, 1, n) = Fitting(i, k)
    BY <1>1, <1>2, Clipped
  <1>4. CASE c = <<>>
    <2>1. pos' = pos + 0 /\ result' = "UnexpectedEof" /\ UNCHANGED <<op, cap, input, stage>>
      BY <1>4 DEF LineTurned, ReadWhile, Turn
    <2>2. LineLen = Len(input) - i /\ pos = Len(input)
      BY <1>2, <1>4 DEF LineLen, i, f
    <2>3. LineStart + LineLen = Len(input)
      BY <1>1, <2>2 DEF i
    <2>4. LineEnd = Len(input)
      <3>1. Lead(LineStart + LineLen, {"CR"}) = 0
        BY <1>1, <2>3, LeadAtEnd
      <3> QED
        BY <1>1, <2>3, <3>1 DEF LineEnd
    <2> QED
      BY <2>1, <2>2, <2>4, LineEnds
  <1>5. CASE c # <<>>
    <2>1. /\ buf' = buf \o SubSeq(c, 1, n) /\ pos' = k /\ result' = "none"
          /\ UNCHANGED <<op, cap, input>>
          /\ stage' = IF p < Len(c) THEN 3 ELSE 2
      <3>1. ReadWhile(c, f) = Turn(n, p, IF p < Len(c) THEN "ok" ELSE "again")
        BY <1>5, Zenon DEF ReadWhile
      <3>2. LineTurned(c, ReadWhile(c, f))
        BY DEF f
      <3> DEFINE t == ReadWhile(c, f)
      <3> HIDE DEF n, p
      <3>3. /\ t.copies = n /\ t.consumes = p
            /\ t.returns = IF p < Len(c) THEN "ok" ELSE "again"
        BY <3>1 DEF Turn
      <3>4. LineTurned(c, t)
        BY <3>2
      <3> HIDE DEF t
      <3>5. buf' = buf \o SubSeq(c, 1, n) /\ pos' = k /\ UNCHANGED <<op, cap, input>>
        BY <3>3, <3>4, Zenon DEF LineTurned
      <3>6. result' = "none" /\ stage' = IF p < Len(c) THEN 3 ELSE 2
        <4>1. IF t.returns = "ok" /\ stage < 4
              THEN stage' = stage + 1 /\ result' = result
              ELSE /\ result' = IF t.returns = "again" THEN "none" ELSE t.returns
                   /\ stage' = stage
          BY <3>4, Zenon DEF LineTurned
        <4> QED
          BY <3>3, <4>1
      <3> QED
        BY <3>5, <3>6
    <2> HIDE DEF p, n, k
    <2>2. LineStart' = i /\ LineLen' = LineLen /\ buf' = Fitting(i, k)
      BY <1>3, <2>1, SameInput DEF i
    <2>3. k \in Nat /\ i \in 0..k /\ k \in 0..Len(input)
      BY <1>1, <1>2
    <2>4. CASE p < Len(c)
      <3>1. LineLen = k - i
        BY <1>2, <2>4 DEF LineLen, i, f
      <3>2. buf' = LineHead'
        <4>1. LineHead' = SubSeq(input, i + 1, i + Min({cap, k - i}))
          BY <2>1, <2>2, <3>1, Zenon DEF LineHead
        <4> QED
          BY <2>2, <4>1, Zenon DEF Fitting
      <3>3. i + LineLen = k /\ LineLen \in Nat /\ i \in Nat
        BY <2>3, <3>1
      <3>4. Only(LineStart + LineLen, pos - (LineStart + LineLen), {"CR"})'
        <4> DEFINE z == pos' - (LineStart' + LineLen')
        <4>1. z = 0
          BY <2>1, <2>2, <2>3, <3>3
        <4> HIDE DEF z
        <4>2. \A j \in 1..z : input'[(LineStart' + LineLen') + j] \in {"CR"}
          BY <4>1
        <4> QED
          BY <4>2 DEF Only, z
      <3>5. Lines'
        <4>1. stage' = 3 /\ LineStart' \in Nat /\ LineLen' \in Nat /\ LineStart' + LineLen' \in 0..pos'
          BY <2>1, <2>2, <2>3, <2>4, <3>3
        <4>2. stage' # 1 /\ stage' # 2 /\ stage' # 4
          BY <4>1
        <4> QED
          BY <3>2, <3>4, <4>1, <4>2, Zenon DEF Lines
      <3> QED
        BY <2>1, <2>3, <2>4, <3>5, LineGoesOn
    <2>5. CASE ~(p < Len(c))
      <3>1. Only(LineStart, pos - LineStart, Bytes \ EOL)'
        <4>1. \A j \in 1..(k - i) : input[i + j] \in f
          BY <1>2 DEF Only
        <4> QED
          BY <2>1, <2>2, <4>1 DEF Only, f
      <3>2. Fitting(LineStart, pos)' = Fitting(i, k)
        BY <2>1, <2>2, Zenon DEF Fitting
      <3>3. Lines'
        <4>1. stage' # 1 /\ stage' \notin {3, 4} /\ stage' # 3 /\ stage' # 4
          BY <2>1, <2>5
        <4>2. LineStart' \in 0..pos' /\ buf' = Fitting(LineStart, pos)'
          BY <2>1, <2>2, <2>3, <3>2
        <4> QED
          BY <3>1, <4>1, <4>2, Zenon DEF Lines
      <3> QED
        BY <2>1, <2>3, <2>5, <3>3, LineGoesOn
    <2> QED
      BY <2>4, <2>5
  <1> QED
    BY <1>4, <1>5

\* read_line skips the carriage returns after the line.
LEMMA LineStage3 ==
    ASSUME IoTypes, Lines, NEW c \in poll_fill_buf, op = "read_line", stage = 3, result = "none",
           LineTurned(c, SkipWhile(c, {"CR"}))
    PROVE  IoInv'
  <1> DEFINE f == {"CR"}
             p == Position(c, f)
             i == LineStart + LineLen
             k == pos + p
  <1>1. /\ i \in 0..pos /\ Only(i, pos - i, f) /\ buf = LineHead
        /\ LineStart \in Nat /\ LineLen \in Nat
        /\ input \in Seq(Bytes) /\ pos \in 0..Len(input) /\ Len(input) \in Nat
    BY DEF Lines, IoTypes
  <1> HIDE DEF i, f
  <1>2. /\ p \in 0..Len(c) /\ k \in pos..Len(input) /\ Only(i, k - i, f)
        /\ p < Len(c) => Lead(i, f) = k - i /\ k < Len(input)
        /\ c = <<>> => Lead(i, f) = Len(input) - i /\ pos = Len(input)
    BY <1>1, Scans
  <1>3. LineEnd = i + Lead(i, f)
    BY DEF LineEnd, i, f
  <1>4. buf' = buf
    <2>1. LineStart + LineLen <= Len(input)
      BY <1>1 DEF i
    <2>2. buf \in Seq(Bytes)
      BY <1>1, <2>1, HeadIsSeq
    <2>3. buf' = buf \o SubSeq(c, 1, 0)
      BY DEF LineTurned, SkipWhile, Turn
    <2> QED
      BY <2>2, <2>3, NoneCopied
  <1>5. CASE c = <<>>
    <2>1. pos' = pos + 0 /\ result' = "UnexpectedEof" /\ UNCHANGED <<op, cap, input, stage>>
      BY <1>5 DEF LineTurned, SkipWhile, Turn
    <2>2. LineEnd = Len(input) /\ pos = Len(input)
      BY <1>1, <1>2, <1>3, <1>5
    <2> QED
      BY <2>1, <2>2, LineEnds
  <1>6. CASE c # <<>>
    <2>1. /\ pos' = k /\ result' = "none" /\ UNCHANGED <<op, cap, input>>
          /\ stage' = IF p < Len(c) THEN 4 ELSE 3
      BY <1>6 DEF LineTurned, SkipWhile, Turn, f
    <2> HIDE DEF p, k
    <2>2. /\ LineStart' = LineStart /\ LineLen' = LineLen /\ LineEnd' = LineEnd
          /\ (LineStart + LineLen)' = i /\ LineHead' = LineHead
      <3>1. LineStart' = LineStart /\ LineLen' = LineLen /\ LineEnd' = LineEnd
        BY <2>1, SameInput
      <3> QED
        BY <2>1, <3>1, Zenon DEF i, LineHead
    <2>3. k \in Nat /\ i \in 0..k /\ k \in 0..Len(input)
      BY <1>1, <1>2
    <2>4. /\ LineStart' \in Nat /\ LineLen' \in Nat /\ (LineStart + LineLen)' \in 0..pos'
          /\ buf' = LineHead'
      BY <1>1, <1>4, <2>1, <2>2, <2>3
    <2>5. CASE p < Len(c)
      <3>1. LineEnd = k
        BY <1>1, <1>2, <1>3, <2>3, <2>5
      <3>2. pos' = LineEnd' /\ pos' < Len(input')
        BY <1>2, <2>1, <2>2, <2>5, <3>1
      <3>3. Lines'
        <4>1. stage' # 1 /\ stage' # 2 /\ stage' # 3
          BY <2>1, <2>5
        <4> QED
          BY <2>4, <3>2, <4>1, Zenon DEF Lines
      <3> QED
        BY <2>1, <2>3, <2>5, <3>3, LineGoesOn
    <2>6. CASE ~(p < Len(c))
      <3>1. Only(LineStart + LineLen, pos - (LineStart + LineLen), {"CR"})'
        <4>1. \A j \in 1..(k - i) : input[i + j] \in f
          BY <1>2 DEF Only
        <4>2. \A j \in 1..(pos' - (LineStart + LineLen)') : input'[(LineStart + LineLen)' + j] \in {"CR"}
          BY <2>1, <2>2, <4>1, Zenon DEF f
        <4> QED
          BY <4>2, Zenon DEF Only
      <3>2. Lines'
        <4>1. stage' # 1 /\ stage' # 2 /\ stage' # 4
          BY <2>1, <2>6
        <4> QED
          BY <2>4, <3>1, <4>1, Zenon DEF Lines
      <3> QED
        BY <2>1, <2>3, <2>6, <3>2, LineGoesOn
    <2> QED
      BY <2>5, <2>6
  <1> QED
    BY <1>5, <1>6

\* read_line takes the byte at the line end.
LEMMA LineStage4 ==
    ASSUME IoTypes, Lines, NEW c \in poll_fill_buf, op = "read_line", stage = 4, result = "none",
           LineTurned(c, [ReadByte(c) EXCEPT !.copies = 0])
    PROVE  IoInv'
  <1>1. /\ LineStart + LineLen \in 0..pos /\ buf = LineHead
        /\ LineStart \in Nat /\ LineLen \in Nat /\ pos = LineEnd /\ pos < Len(input)
        /\ pos \in 0..Len(input) /\ Len(input) \in Nat
    BY DEF Lines, IoTypes
  <1>2. c # <<>>
    BY <1>1, LentSlice
  <1>3. /\ buf' = buf \o SubSeq(c, 1, 0) /\ pos' = pos + 1 /\ result' = "ok"
        /\ UNCHANGED <<op, cap, input, stage>>
    BY <1>2 DEF LineTurned, ReadByte, Turn
  <1>4. buf' = buf
    <2>1. LineStart + LineLen <= Len(input)
      BY <1>1
    <2>2. buf \in Seq(Bytes)
      BY <1>1, <2>1, HeadIsSeq
    <2> QED
      BY <1>3, <2>2, NoneCopied
  <1>5. LineStart' = LineStart /\ LineLen' = LineLen /\ LineEnd' = LineEnd
    BY <1>3, SameInput
  <1>6. buf' = SubSeq(input, LineStart + 1, LineStart + Min({cap, LineLen}))'
    BY <1>1, <1>3, <1>4, <1>5, Zenon DEF LineHead
  <1>7. pos' = LineEnd' + 1 /\ LineEnd' < Len(input') /\ result' = "ok" /\ op' = "read_line"
    BY <1>1, <1>3, <1>5
  <1>8. Promise'
    BY <1>6, <1>7 DEF Promise, WriteOps
  <1> QED
    BY <1>1, <1>3, <1>7, <1>8, Outcome DEF ReadOps, IoTypes

\* A turn of a reading future, or of read_line.
LEMMA PollReads == IoInv /\ PollRead => IoInv'
  <1> SUFFICES ASSUME IoInv, PollRead PROVE IoInv'
    OBVIOUS
  <1>1. IoTypes /\ Midway /\ op \in ReadOps /\ result = "none"
    BY DEF IoInv, PollRead
  <1>2. PICK c \in poll_fill_buf :
          /\ buf' = buf \o SubSeq(c, 1, TurnOf(c).copies)
          /\ pos' = pos + TurnOf(c).consumes
          /\ IF op = "read_line" /\ TurnOf(c).returns = "ok" /\ stage < 4
             THEN stage' = stage + 1 /\ UNCHANGED result
             ELSE /\ result' = IF TurnOf(c).returns = "again" THEN "none" ELSE TurnOf(c).returns
                  /\ UNCHANGED stage
    BY Zenon DEF PollRead
  <1>3. UNCHANGED <<op, cap, input, wrote>>
    BY DEF PollRead
  <1>4. op # "read_line" => Turned(c, TurnOf(c))
    BY <1>2, <1>3, Zenon DEF Turned
  <1>5. CASE op = "read"
    <2>1. TurnOf(c) = Read(c)
      BY <1>5 DEF TurnOf
    <2> QED
      BY <1>1, <1>4, <1>5, <2>1, ReadTurn
  <1>6. CASE op = "read_buf"
    <2>1. TurnOf(c) = ReadBuf(c)
      BY <1>6 DEF TurnOf
    <2> QED
      BY <1>1, <1>4, <1>6, <2>1, ReadBufTurn
  <1>7. CASE op = "read_byte"
    <2>1. TurnOf(c) = ReadByte(c)
      BY <1>7 DEF TurnOf
    <2> QED
      BY <1>1, <1>4, <1>7, <2>1, ReadByteTurn
  <1>8. CASE op = "read_exact"
    <2>1. TurnOf(c) = ReadExact(c)
      BY <1>8 DEF TurnOf
    <2> QED
      BY <1>1, <1>4, <1>8, <2>1, ReadExactTurn
  <1>9. CASE op = "read_while"
    <2>1. TurnOf(c) = ReadWhile(c, {"x"})
      BY <1>9 DEF TurnOf
    <2> QED
      BY <1>1, <1>4, <1>9, <2>1, ReadWhileTurn
  <1>10. CASE op = "skip_while"
    <2>1. TurnOf(c) = SkipWhile(c, {"x"})
      BY <1>10 DEF TurnOf
    <2> QED
      BY <1>1, <1>4, <1>10, <2>1, SkipWhileTurn
  <1>11. CASE op = "read_to_end"
    <2>1. TurnOf(c) = ReadToEnd(c)
      BY <1>11 DEF TurnOf
    <2> QED
      BY <1>1, <1>4, <1>11, <2>1, ReadToEndTurn
  <1>12. CASE op = "drain"
    <2>1. TurnOf(c) = Drain(c)
      BY <1>12 DEF TurnOf
    <2> QED
      BY <1>1, <1>4, <1>12, <2>1, DrainTurn
  <1>13. CASE op = "read_line"
    <2>1. TurnOf(c) = ReadLine(c)
      BY <1>13 DEF TurnOf
    <2>2. LineTurned(c, ReadLine(c))
      BY <1>2, <1>3, <1>13, <2>1, Zenon DEF LineTurned
    <2>3. Lines
      BY <1>1, <1>13 DEF Midway
    <2>4. CASE stage = 1
      <3>1. ReadLine(c) = SkipWhile(c, EOL)
        BY <2>4 DEF ReadLine
      <3> QED
        BY <1>1, <1>13, <2>2, <2>3, <2>4, <3>1, LineStage1
    <2>5. CASE stage = 2
      <3>1. ReadLine(c) = ReadWhile(c, Bytes \ EOL)
        BY <2>5 DEF ReadLine
      <3> QED
        BY <1>1, <1>13, <2>2, <2>3, <2>5, <3>1, LineStage2
    <2>6. CASE stage = 3
      <3>1. ReadLine(c) = SkipWhile(c, {"CR"})
        BY <2>6 DEF ReadLine
      <3> QED
        BY <1>1, <1>13, <2>2, <2>3, <2>6, <3>1, LineStage3
    <2>7. CASE stage = 4
      <3>1. ReadLine(c) = [ReadByte(c) EXCEPT !.copies = 0]
        BY <2>7 DEF ReadLine
      <3> QED
        BY <1>1, <1>13, <2>2, <2>3, <2>7, <3>1, LineStage4
    <2> QED
      BY <1>1, <2>4, <2>5, <2>6, <2>7 DEF IoTypes
  <1> QED
    BY <1>1, <1>5, <1>6, <1>7, <1>8, <1>9, <1>10, <1>11, <1>12, <1>13 DEF ReadOps

\* What is to be shown of a step of a writing future.
LEMMA WriteOutcome ==
    ASSUME IoTypes, op \in WriteOps, UNCHANGED <<op, cap, input, stage>>,
           pos' \in 0..Len(input), wrote' = First(pos'),
           result' = "ok" /\ op # "write" => pos' = Len(input)
    PROVE  IoInv'
  <1>1. op' \in WriteOps /\ op' \notin ReadOps
    BY DEF ReadOps, WriteOps
  <1>2. Midway'
    BY <1>1 DEF Midway, ReadOps
  <1>3. Promise'
    BY <1>1 DEF Promise, ReadOps
  <1>4. wrote' = First(pos)'
    BY DEF First
  <1>5. IoTypes'
    BY <1>1 DEF IoTypes
  <1> QED
    BY <1>2, <1>3, <1>4, <1>5 DEF IoInv, AdapterKeepsBytes

\* What is left to write can be lent as a whole.
LEMMA RestIsLent ==
    ASSUME IoTypes
    PROVE  Rest \in poll_fill_buf
  <1>1. pos \in 0..Len(input) /\ Len(input) \in pos..Len(input)
    BY DEF IoTypes
  <1>2. Rest \in Seq(Bytes)
    BY <1>1, Parts DEF Rest
  <1>3. SubSeq(Rest, 1, Len(Rest)) = Rest
    BY <1>2, SubSeqFull
  <1>4. Len(Rest) \in (IF Rest = <<>> THEN 0 ELSE 1)..Len(Rest)
    BY <1>2, LenZero
  <1> QED
    BY <1>3, <1>4 DEF poll_fill_buf

\* The writer takes a part of the slice.
LEMMA WrotePart ==
    ASSUME IoTypes, NEW c \in poll_fill_buf, op \in WriteOps \ {"write"}, wrote = First(pos),
           UNCHANGED <<op, cap, input, stage>>,
           NEW n \in 0..Len(c), NEW zero, zero # "ok", Wrote(c, n, zero)
    PROVE  IoInv'
  <1>1. First(pos) \o SubSeq(c, 1, n) = First(pos + n) /\ pos + n \in 0..Len(input)
    BY Delivered
  <1>2. wrote' = First(pos') /\ pos' \in 0..Len(input) /\ result' # "ok"
    BY <1>1 DEF Wrote
  <1> QED
    BY <1>2, WriteOutcome

\* Every step keeps the invariant.
LEMMA IoSteps == IoInv /\ IoNext => IoInv'
  <1> SUFFICES ASSUME IoInv, IoNext PROVE IoInv'
    OBVIOUS
  <1>1. IoTypes /\ (op \in WriteOps => wrote = First(pos))
    BY DEF IoInv, AdapterKeepsBytes
  <1>2. Len(input) \in Nat /\ pos \in 0..Len(input)
    BY <1>1 DEF IoTypes
  <1>3. CASE PollRead
    BY <1>3, PollReads
  <1>4. CASE PollDrained
    <2>1. Midway /\ op \in ReadOps
      BY <1>4 DEF IoInv, PollDrained, ReadOps
    <2>2. Promise'
      BY <1>4, <2>1 DEF PollDrained, Midway, Promise, WriteOps
    <2> QED
      BY <1>1, <1>2, <1>4, <2>1, <2>2, Outcome DEF PollDrained, IoTypes
  <1>5. CASE Write
    <2>1. op \in WriteOps /\ UNCHANGED <<op, cap, input, stage>> /\ op = "write"
      BY <1>5 DEF Write, WriteOps
    <2>2. wrote' = First(pos') /\ pos' \in 0..Len(input)
      BY <1>5 DEF Write
    <2> QED
      BY <1>1, <2>1, <2>2, WriteOutcome
  <1>6. CASE WriteByte
    <2>1. op \in WriteOps /\ UNCHANGED <<op, cap, input, stage>> /\ Len(input) = 1
      BY <1>1, <1>6 DEF WriteByte, WriteOps, IoTypes
    <2>2. wrote' = First(pos') /\ pos' \in 0..Len(input) /\ (result' = "ok" => pos' = Len(input))
      BY <1>6, <2>1 DEF WriteByte
    <2> QED
      BY <1>1, <2>1, <2>2, WriteOutcome
  <1>7. CASE WriteAll
    <2>1. op \in WriteOps \ {"write"} /\ UNCHANGED <<op, cap, input, stage>>
      BY <1>7 DEF WriteAll, WriteOps
    <2>2. Rest \in poll_fill_buf
      BY <1>1, RestIsLent
    <2>3. CASE Rest = <<>>
      <3>1. pos = Len(input)
        BY <1>1, <2>2, <2>3, LentSlice
      <3> QED
        BY <1>1, <1>2, <1>7, <2>1, <2>3, <3>1, WriteOutcome DEF WriteAll
    <2>4. CASE Rest # <<>>
      <3>1. PICK n \in 0..Len(Rest) : Wrote(Rest, n, "panic")
        BY <1>7, <2>4 DEF WriteAll
      <3>2. "panic" # "ok"
        OBVIOUS
      <3> QED
        BY <1>1, <2>1, <2>2, <3>1, <3>2, WrotePart
    <2> QED
      BY <2>3, <2>4
  <1>8. CASE CopyBuf
    <2>1. op \in WriteOps \ {"write"} /\ UNCHANGED <<op, cap, input, stage>>
      BY <1>8 DEF CopyBuf, WriteOps
    <2>2. PICK c \in poll_fill_buf : IF c = <<>>
                                     THEN result' = "ok" /\ UNCHANGED <<wrote, pos>>
                                     ELSE \E n \in 0..Len(c) : Wrote(c, n, "WriteZero")
      BY <1>8 DEF CopyBuf
    <2>3. CASE c = <<>>
      <3>1. pos = Len(input)
        BY <1>1, <2>3, LentSlice
      <3> QED
        BY <1>1, <1>2, <2>1, <2>2, <2>3, <3>1, WriteOutcome
    <2>4. CASE c # <<>>
      <3>1. PICK n \in 0..Len(c) : Wrote(c, n, "WriteZero")
        BY <2>2, <2>4
      <3>2. "WriteZero" # "ok"
        OBVIOUS
      <3> QED
        BY <1>1, <2>1, <3>1, <3>2, WrotePart
    <2> QED
      BY <2>3, <2>4
  <1>9. CASE PollFails
    BY <1>1, <1>9 DEF PollFails, IoInv, IoTypes, AdapterKeepsBytes, First
  <1> QED
    BY <1>3, <1>4, <1>5, <1>6, <1>7, <1>8, <1>9 DEF IoNext

\* THEOREM.  Of an input and a buffer of any length, and in spite of any cut of the input
\* into slices: what is written is what was consumed, in order, and a future of io/util
\* that completes has consumed, delivered and returned what its caller is promised.
THEOREM AdaptersKeepBytes == LibSpec => []AdapterKeepsBytes
  <1>1. LibInit => IoInv
    <2> SUFFICES ASSUME LibInit PROVE IoInv
      OBVIOUS
    <2>1. IoInit
      BY DEF LibInit
    <2>2. input \in Seq(Bytes)
      BY <2>1, IoAssumption DEF IoInit, BoundedSeq, SeqOf
    <2>3. pos = 0 /\ buf = <<>> /\ wrote = <<>> /\ result = "none" /\ stage = 1 /\ cap \in Nat
      BY <2>1, IoAssumption DEF IoInit
    <2>4. IoTypes
      BY <2>1, <2>2, <2>3 DEF IoInit, IoTypes
    <2>5. First(0) = <<>>
      BY <2>4, Parts
    <2>6. \A f : Only(0, 0, f)
      BY DEF Only
    <2>7. First(Min({cap, 0})) = <<>>
      <3>1. Min({cap, 0}) = 0
        BY <2>3, Smaller
      <3> QED
        BY <2>5, <3>1
    <2>8. Lines
      BY <2>3, <2>6 DEF Lines
    <2> QED
      BY <2>3, <2>4, <2>5, <2>6, <2>7, <2>8 DEF IoInv, Midway, AdapterKeepsBytes
  <1>2. IoInv /\ [LibNext]_libVars => IoInv'
    <2> SUFFICES ASSUME IoInv, [LibNext]_libVars PROVE IoInv'
      OBVIOUS
    <2>1. CASE UNCHANGED ioVars
      <3>1. UNCHANGED <<op, cap, input, pos, buf, wrote, stage, result>>
        BY <2>1 DEF ioVars
      <3>2. Lead(0, {"x"})' = Lead(0, {"x"}) /\ LineStart' = LineStart /\ LineLen' = LineLen
            /\ LineEnd' = LineEnd
        BY <3>1, SameInput
      <3>3. LineHead' = LineHead /\ Fitting(LineStart, pos)' = Fitting(LineStart, pos)
            /\ First(pos)' = First(pos) /\ First(Min({cap, pos}))' = First(Min({cap, pos}))
        BY <3>1, <3>2, Zenon DEF LineHead, Fitting, First
      <3>4. /\ Only(0, pos, EOL)' <=> Only(0, pos, EOL)
            /\ Only(0, pos, {"x"})' <=> Only(0, pos, {"x"})
            /\ Only(LineStart, pos - LineStart, Bytes \ EOL)'
                  <=> Only(LineStart, pos - LineStart, Bytes \ EOL)
            /\ Only(LineStart + LineLen, pos - (LineStart + LineLen), {"CR"})'
                  <=> Only(LineStart + LineLen, pos - (LineStart + LineLen), {"CR"})
        BY <3>1, <3>2, Zenon DEF Only
      <3>5. Lines => Lines'
        BY <3>1, <3>2, <3>3, <3>4, Zenon DEF Lines
      <3>6. Midway => Midway'
        BY <3>1, <3>3, <3>4, <3>5, Zenon DEF Midway
      <3>7. Promise' <=> Promise
        BY <3>1, <3>2, <3>3, Zenon DEF Promise
      <3> QED
        BY <3>1, <3>3, <3>6, <3>7 DEF IoInv, IoTypes, AdapterKeepsBytes
    <2> QED
      BY <2>1, IoSteps DEF LibNext, libVars
  <1>3. IoInv => AdapterKeepsBytes
    BY DEF IoInv
  <1> QED
    BY <1>1, <1>2, <1>3, PTL DEF LibSpec
-----------------------------------------------------------------------------
(* The executor for std.                                                   *)

\* The types of what the executor's thread and the task keep.
StdTypes ==
    /\ std_pc \in {"expire", "dequeue", "poll", "set_alarm", "check", "wait", "wait_timeout",
                   "timed_out"}
    /\ futs \in [Slots -> [at : 0..Never, yielded_once : BOOLEAN]]
    /\ expires \in 0..Never /\ ALARM_AT \in 0..Never /\ clock \in 0..StdMaxTime

\* A task that came into the run queue after it was last emptied has signalled or will.
SignalPending ==
    /\ std_pc \in {"poll", "set_alarm", "check", "wait", "wait_timeout"} /\ std_queue =>
         signaled \/ must_signal # {}
    /\ Sleeping /\ signaled => notified

\* The task's expires_at is no later than any future that was polled, or the task is about
\* to be polled, and the alarm is set for it.
TimersPending ==
    /\ std_pc \notin {"dequeue", "poll"} => \A s \in Slots : expires <= futs[s].at
    /\ std_pc = "dequeue" => std_queue \/ \A s \in Slots : expires <= futs[s].at
    /\ std_pc = "poll" => \A s \in Slots \ unpolled : expires <= futs[s].at
    /\ std_pc \in {"check", "wait", "wait_timeout"} => ALARM_AT = expires
    /\ std_pc = "wait" => ALARM_AT = Never

\* The inductive invariant of the executor for std.
StdInv == StdTypes /\ SignalPending /\ TimersPending

\* register_timer leaves the earlier of two times.
LEMMA Registered ==
    ASSUME StdTypes, NEW at \in 0..Never, register_timer(at)
    PROVE  expires' \in 0..Never /\ expires' <= expires /\ expires' <= at
  <1>1. Never \in Nat
    BY StdAssumption DEF Never
  <1>2. Min({expires, at}) = IF expires <= at THEN expires ELSE at
    BY <1>1, Smaller DEF StdTypes
  <1> QED
    BY <1>1, <1>2 DEF register_timer, StdTypes

\* The poll of one of the futures registers it, or completes it.
LEMMA PollKeeps ==
    ASSUME StdInv, Poll
    PROVE  StdInv'
  <1>1. Never \in Nat /\ Never = StdMaxTime + 1 /\ StdMaxTime \in Nat
    BY StdAssumption DEF Never
  <1>2. /\ std_pc = "poll" /\ StdTypes
        /\ UNCHANGED <<std_pc, std_queue, ALARM_AT, signaled, notified, must_signal, clock>>
    BY DEF StdInv, Poll
  <1>3. \A s \in Slots \ unpolled : expires <= futs[s].at
    BY <1>2 DEF StdInv, TimersPending
  <1>4. \A s \in Slots : futs[s] \in [at : 0..Never, yielded_once : BOOLEAN]
    BY <1>2 DEF StdTypes
  <1>5. ASSUME NEW r \in Slots, r \in unpolled, PollTimer(r)
        PROVE  /\ futs' \in [Slots -> [at : 0..Never, yielded_once : BOOLEAN]]
               /\ expires' \in 0..Never
               /\ \A s \in Slots \ unpolled' : expires' <= futs'[s].at
    <2>1. CASE futs[r].yielded_once /\ futs[r].at <= clock
      <3>1. /\ futs' = [futs EXCEPT ![r] = NoFuture] /\ expires' = expires
            /\ unpolled' = unpolled \ {r}
        BY <1>5, <2>1 DEF PollTimer
      <3>2. NoFuture \in [at : 0..Never, yielded_once : BOOLEAN] /\ NoFuture.at = Never
        BY <1>1 DEF NoFuture
      <3> QED
        BY <1>1, <1>2, <1>3, <1>4, <3>1, <3>2 DEF StdTypes
    <2>2. CASE ~(futs[r].yielded_once /\ futs[r].at <= clock)
      <3>1. /\ register_timer(futs[r].at) /\ unpolled' = unpolled \ {r}
            /\ futs' = [futs EXCEPT ![r].yielded_once = TRUE]
        BY <1>5, <2>2 DEF PollTimer
      <3>2. expires' \in 0..Never /\ expires' <= expires /\ expires' <= futs[r].at
        BY <1>2, <1>4, <3>1, Registered
      <3>3. /\ futs' \in [Slots -> [at : 0..Never, yielded_once : BOOLEAN]]
            /\ \A s \in Slots : futs'[s].at = futs[s].at
        BY <1>2, <1>4, <3>1 DEF StdTypes
      <3> QED
        BY <1>1, <1>2, <1>3, <1>4, <3>1, <3>2, <3>3 DEF StdTypes
    <2> QED
      BY <2>1, <2>2
  <1>6. ASSUME "ticker" \in unpolled, poll_next
        PROVE  /\ futs' \in [Slots -> [at : 0..Never, yielded_once : BOOLEAN]]
               /\ expires' \in 0..Never
               /\ \A s \in Slots \ unpolled' : expires' <= futs'[s].at
    <2>0. "ticker" \in Slots
      BY DEF Slots
    <2>1. CASE futs["ticker"].at <= clock
      <3>1. /\ futs' = [futs EXCEPT !["ticker"].at = Plus(@, 1)]
            /\ UNCHANGED <<unpolled, expires>>
        BY <1>6, <2>1 DEF poll_next
      <3>2. Plus(futs["ticker"].at, 1) \in 0..Never
        BY <1>1, <1>4, <2>0 DEF Plus
      <3> QED
        BY <1>2, <1>3, <1>4, <1>6, <2>0, <3>1, <3>2 DEF StdTypes
    <2>2. CASE ~(futs["ticker"].at <= clock)
      <3>1. register_timer(futs["ticker"].at) /\ unpolled' = unpolled \ {"ticker"} /\ futs' = futs
        BY <1>6, <2>2 DEF poll_next
      <3>2. expires' \in 0..Never /\ expires' <= expires /\ expires' <= futs["ticker"].at
        BY <1>2, <1>4, <2>0, <3>1, Registered
      <3> QED
        BY <1>1, <1>2, <1>3, <1>4, <3>1, <3>2 DEF StdTypes
    <2> QED
      BY <2>1, <2>2
  <1>7. ASSUME "timeout" \in unpolled, with_timeout
        PROVE  /\ futs' \in [Slots -> [at : 0..Never, yielded_once : BOOLEAN]]
               /\ expires' \in 0..Never
               /\ \A s \in Slots \ unpolled' : expires' <= futs'[s].at
    <2>0. "timeout" \in Slots
      BY DEF Slots
    <2>1. CASE delivered
      <3>1. /\ futs' = [futs EXCEPT !["timeout"] = NoFuture] /\ expires' = expires
            /\ unpolled' = unpolled \ {"timeout"}
        BY <1>7, <2>1 DEF with_timeout
      <3>2. NoFuture \in [at : 0..Never, yielded_once : BOOLEAN] /\ NoFuture.at = Never
        BY <1>1 DEF NoFuture
      <3> QED
        BY <1>1, <1>2, <1>3, <1>4, <2>0, <3>1, <3>2 DEF StdTypes
    <2>2. CASE ~delivered
      BY <1>5, <1>7, <2>0, <2>2 DEF with_timeout
    <2> QED
      BY <2>1, <2>2
  <1>8. /\ futs' \in [Slots -> [at : 0..Never, yielded_once : BOOLEAN]]
        /\ expires' \in 0..Never
        /\ \A s \in Slots \ unpolled' : expires' <= futs'[s].at
    <2>1. "timer" \in Slots
      BY DEF Slots
    <2> QED
      BY <1>5, <1>6, <1>7, <2>1 DEF Poll
  <1>9. StdTypes'
    BY <1>2, <1>8 DEF StdTypes
  <1>10. SignalPending'
    BY <1>2 DEF StdInv, SignalPending, Sleeping
  <1>11. TimersPending'
    BY <1>2, <1>8 DEF TimersPending
  <1> QED
    BY <1>9, <1>10, <1>11 DEF StdInv

\* Dequeue takes the task: what it does not poll is no future.
LEMMA DequeueKeeps ==
    ASSUME StdInv, Dequeue
    PROVE  StdInv'
  <1>1. Never \in Nat /\ Never = StdMaxTime + 1 /\ StdMaxTime \in Nat
    BY StdAssumption DEF Never
  <1>2. /\ std_pc = "dequeue" /\ StdTypes /\ ~std_queue'
        /\ UNCHANGED <<ALARM_AT, signaled, notified, must_signal, clock>>
    BY DEF StdInv, Dequeue
  <1>3. NoFuture \in [at : 0..Never, yielded_once : BOOLEAN] /\ NoFuture.at = Never
    BY <1>1 DEF NoFuture
  <1>4. CASE std_queue
    <2>1. /\ std_pc' = "poll" /\ expires' = Never
          /\ unpolled' = {s \in Slots : futs'[s] # NoFuture}
      BY <1>4 DEF Dequeue
    <2>2. futs' \in [Slots -> [at : 0..Never, yielded_once : BOOLEAN]]
      <3>1. CASE futs' = futs
        BY <1>2, <3>1 DEF StdTypes
      <3>2. ASSUME NEW s \in Slots, NEW d \in 0..StdMaxTime,
                   futs' = [futs EXCEPT ![s] = IF s = "ticker" THEN every(1) ELSE after(d)]
            PROVE  futs' \in [Slots -> [at : 0..Never, yielded_once : BOOLEAN]]
        <4>1. Plus(clock, d) \in 0..Never /\ Plus(clock, 1) \in 0..Never
          BY <1>1, <1>2 DEF Plus, StdTypes
        <4>2. /\ every(1) \in [at : 0..Never, yielded_once : BOOLEAN]
              /\ after(d) \in [at : 0..Never, yielded_once : BOOLEAN]
          BY <4>1 DEF every, after
        <4> QED
          BY <1>2, <3>2, <4>2 DEF StdTypes
      <3>3. ASSUME NEW s \in Slots, futs' = [futs EXCEPT ![s] = NoFuture]
            PROVE  futs' \in [Slots -> [at : 0..Never, yielded_once : BOOLEAN]]
        BY <1>2, <1>3, <3>3 DEF StdTypes
      <3> QED
        BY <1>4, <3>1, <3>2, <3>3 DEF Dequeue
    <2>3. \A s \in Slots \ unpolled' : expires' <= futs'[s].at
      BY <1>1, <1>3, <2>1
    <2>4. StdTypes'
      BY <1>1, <1>2, <2>1, <2>2 DEF StdTypes
    <2>5. SignalPending'
      BY <1>2, <2>1 DEF SignalPending, Sleeping
    <2>6. TimersPending'
      BY <2>1, <2>3 DEF TimersPending
    <2> QED
      BY <2>4, <2>5, <2>6 DEF StdInv
  <1>5. CASE ~std_queue
    <2>1. std_pc' = "set_alarm" /\ UNCHANGED <<futs, expires>>
      BY <1>5 DEF Dequeue, taskVars
    <2>2. StdTypes'
      BY <1>2, <2>1 DEF StdTypes
    <2>3. SignalPending'
      BY <1>2, <2>1 DEF SignalPending, Sleeping
    <2>4. TimersPending'
      BY <1>2, <1>5, <2>1 DEF StdInv, TimersPending
    <2> QED
      BY <2>2, <2>3, <2>4 DEF StdInv
  <1> QED
    BY <1>4, <1>5

\* Every step keeps the invariant.
LEMMA StdSteps == StdInv /\ StdNext => StdInv'
  <1> SUFFICES ASSUME StdInv, StdNext PROVE StdInv'
    OBVIOUS
  <1>0. Never \in Nat /\ Never = StdMaxTime + 1 /\ StdMaxTime \in Nat
    BY StdAssumption DEF Never
  <1>1. CASE Expire
    <2>1. StdTypes'
      BY <1>0, <1>1 DEF Expire, StdInv, StdTypes, taskVars
    <2>2. SignalPending' /\ TimersPending'
      BY <1>1 DEF Expire, StdInv, SignalPending, TimersPending, Sleeping, taskVars
    <2> QED
      BY <2>1, <2>2 DEF StdInv
  <1>2. CASE Dequeue
    BY <1>2, DequeueKeeps
  <1>3. CASE Poll
    BY <1>3, PollKeeps
  <1>4. CASE Polled
    <2>1. /\ std_pc = "poll" /\ std_pc' = "set_alarm" /\ unpolled = {}
          /\ UNCHANGED <<futs, expires, ALARM_AT, notified, must_signal, clock>>
      BY <1>4 DEF Polled, taskVars
    <2>2. StdTypes'
      BY <2>1 DEF StdInv, StdTypes
    <2>3. std_queue' => signaled' \/ must_signal' # {}
      BY <1>4, Zenon DEF Polled, StdInv, SignalPending
    <2>4. SignalPending'
      BY <2>1, <2>3 DEF SignalPending, Sleeping
    <2>5. TimersPending'
      BY <2>1 DEF StdInv, TimersPending
    <2> QED
      BY <2>2, <2>4, <2>5 DEF StdInv
  <1>5. CASE SetAlarm
    BY <1>5 DEF SetAlarm, StdInv, StdTypes, SignalPending, TimersPending, Sleeping, taskVars
  <1>6. CASE Check
    BY <1>6 DEF Check, StdInv, StdTypes, SignalPending, TimersPending, Sleeping, taskVars
  <1>7. CASE Notified \/ Spurious
    BY <1>7 DEF Notified, Spurious, StdInv, StdTypes, SignalPending, TimersPending, Sleeping, taskVars
  <1>8. CASE Timeout
    BY <1>8 DEF Timeout, StdInv, StdTypes, SignalPending, TimersPending, Sleeping, taskVars
  <1>9. CASE TimedOut
    BY <1>9 DEF TimedOut, StdInv, StdTypes, SignalPending, TimersPending, Sleeping, taskVars
  <1>10. CASE Tick
    BY <1>0, <1>10 DEF Tick, StdInv, StdTypes, SignalPending, TimersPending, Sleeping, taskVars
  <1>11. ASSUME NEW t \in Threads, WakeTask(t) PROVE StdInv'
    BY <1>11 DEF WakeTask, StdInv, StdTypes, SignalPending, TimersPending, Sleeping
  <1>12. ASSUME NEW t \in Threads, Signal(t) PROVE StdInv'
    BY <1>12 DEF Signal, StdInv, StdTypes, SignalPending, TimersPending, Sleeping, taskVars
  <1> QED
    BY <1>1, <1>2, <1>3, <1>4, <1>5, <1>6, <1>7, <1>8, <1>9, <1>10, <1>11, <1>12
       DEF StdNext, StdThread

\* THEOREM.  For any number of threads and any length of time: while the executor's thread
\* sleeps on the condition variable, a task in the run queue has notified it or a thread is
\* about to, and no timer of the task is due before the sleep ends.
THEOREM StdLosesNoWakeup == LibSpec => []NothingIsSleptThrough
  <1>1. LibInit => StdInv
    <2>1. Never \in Nat
      BY StdAssumption DEF Never
    <2> QED
      BY <2>1, StdAssumption DEF LibInit, StdInit, StdInv, StdTypes, SignalPending, TimersPending,
                            Sleeping, NoFuture
  <1>2. StdInv /\ [LibNext]_libVars => StdInv'
    <2> SUFFICES ASSUME StdInv, [LibNext]_libVars PROVE StdInv'
      OBVIOUS
    <2>1. CASE UNCHANGED stdVars
      BY <2>1 DEF stdVars, taskVars, StdInv, StdTypes, SignalPending, TimersPending, Sleeping
    <2> QED
      BY <2>1, StdSteps DEF LibNext, libVars
  <1>3. StdInv => NothingIsSleptThrough
    <2> SUFFICES ASSUME StdInv, Sleeping, NEW s \in Slots
                 PROVE  /\ std_queue => (signaled /\ notified) \/ must_signal # {}
                        /\ IF std_pc = "wait" THEN futs[s].at = Never ELSE ALARM_AT <= futs[s].at
      <3>1. \E s \in Slots : TRUE
        BY DEF Slots
      <3> QED
        BY <3>1 DEF NothingIsSleptThrough
    <2>1. Never \in Nat /\ futs[s].at \in 0..Never
      BY StdAssumption DEF Never, StdInv, StdTypes
    <2>2. std_queue => (signaled /\ notified) \/ must_signal # {}
      BY DEF StdInv, SignalPending, Sleeping
    <2>3. IF std_pc = "wait" THEN futs[s].at = Never ELSE ALARM_AT <= futs[s].at
      BY <2>1 DEF StdInv, TimersPending, Sleeping
    <2> QED
      BY <2>2, <2>3
  <1> QED
    BY <1>1, <1>2, <1>3, PTL DEF LibSpec
=============================================================================
