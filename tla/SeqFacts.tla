------------------------------ MODULE SeqFacts ------------------------------
(***************************************************************************)
(* Facts about the sequences and the ring buffers that model queues, cited *)
(* by the proofs.                                                          *)
(***************************************************************************)
EXTENDS Sequences, Integers, RingBuffer, SequenceTheorems, TLAPS

\* A sequence is empty exactly when its length is zero.
LEMMA LenZero ==
    ASSUME NEW S, NEW s \in Seq(S)
    PROVE  /\ Len(s) \in Nat
           /\ s = <<>> <=> Len(s) = 0
  BY EmptySeq

\* Appending an element keeps the others in place.
LEMMA Appended ==
    ASSUME NEW S, NEW s \in Seq(S), NEW x \in S
    PROVE  /\ Append(s, x) \in Seq(S)
           /\ Append(s, x) # <<>>
           /\ Len(s) \in Nat
           /\ Len(Append(s, x)) = Len(s) + 1
           /\ \A i \in 1..Len(s) : Append(s, x)[i] = s[i]
           /\ Append(s, x)[Len(s) + 1] = x
  BY AppendProperties

\* A prefix of a sequence.
LEMMA Prefix ==
    ASSUME NEW S, NEW s, NEW m \in Nat, \A i \in 1..m : s[i] \in S
    PROVE  /\ SubSeq(s, 1, m) \in Seq(S)
           /\ Len(SubSeq(s, 1, m)) = m
           /\ \A i \in 1..m : SubSeq(s, 1, m)[i] = s[i]
  BY SubSeqProperties

\* Removing the last element keeps the others in place.
LEMMA Popped ==
    ASSUME NEW S, NEW s \in Seq(S), s # <<>>
    PROVE  /\ Len(s) \in Nat \ {0}
           /\ SubSeq(s, 1, Len(s) - 1) \in Seq(S)
           /\ Len(SubSeq(s, 1, Len(s) - 1)) = Len(s) - 1
           /\ \A i \in 1..(Len(s) - 1) : SubSeq(s, 1, Len(s) - 1)[i] = s[i]
           /\ s[Len(s)] \in S
  <1>1. Len(s) \in Nat \ {0}
    BY EmptySeq
  <1>2. Len(s) - 1 \in Nat
    BY <1>1
  <1>3. \A i \in 1..Len(s) : s[i] \in S
    BY ElementOfSeq
  <1>4. \A i \in 1..(Len(s) - 1) : s[i] \in S
    BY <1>1, <1>3
  <1>5. s[Len(s)] \in S
    BY <1>1, <1>3
  <1>6. PICK m \in Nat : m = Len(s) - 1
    BY <1>2
  <1>7. /\ SubSeq(s, 1, m) \in Seq(S)
        /\ Len(SubSeq(s, 1, m)) = m
        /\ \A i \in 1..m : SubSeq(s, 1, m)[i] = s[i]
    <2>1. \A i \in 1..m : s[i] \in S
      BY <1>4, <1>6, Zenon
    <2> QED
      BY <2>1, Prefix
  <1> QED
    BY <1>1, <1>5, <1>6, <1>7, Zenon

\* Removing the element at position k moves the later ones forward.
LEMMA Removed ==
    ASSUME NEW S, NEW s \in Seq(S), NEW k \in 1..Len(s),
           NEW r, r = SubSeq(s, 1, k - 1) \o SubSeq(s, k + 1, Len(s))
    PROVE  /\ r \in Seq(S)
           /\ Len(r) = Len(s) - 1
           /\ \A j \in 1..(Len(s) - 1) : r[j] = IF j < k THEN s[j] ELSE s[j + 1]
  <1>1. PICK n \in Nat : n = Len(s)
    BY LenProperties
  <1>2. \A j \in 1..n : s[j] \in S
    BY <1>1, ElementOfSeq
  <1>3. k \in 1..n /\ k - 1 \in Nat /\ k + 1 \in Int
    BY <1>1
  <1> DEFINE a == SubSeq(s, 1, k - 1)
             b == SubSeq(s, k + 1, n)
  <1>4. a \in Seq(S) /\ Len(a) = k - 1 /\ \A j \in 1..(k - 1) : a[j] = s[j]
    <2>1. PICK m \in Nat : m = k - 1
      BY <1>3
    <2>2. \A j \in 1..m : s[j] \in S
      BY <1>2, <1>3, <2>1
    <2>3. SubSeq(s, 1, m) \in Seq(S) /\ Len(SubSeq(s, 1, m)) = m
          /\ \A j \in 1..m : SubSeq(s, 1, m)[j] = s[j]
      BY <2>2, Prefix
    <2> QED
      BY <2>1, <2>3, Zenon
  <1>5. b \in Seq(S) /\ Len(b) = n - k /\ \A j \in 1..(n - k) : b[j] = s[k + j]
    <2>1. PICK m \in Int : m = k + 1
      BY <1>3
    <2>2. \A j \in m..n : s[j] \in S
      BY <1>2, <1>3, <2>1
    <2> DEFINE c == SubSeq(s, m, n)
    <2>3. c \in Seq(S) /\ Len(c) = (IF m <= n THEN n - m + 1 ELSE 0)
          /\ \A j \in 1..(n - m + 1) : c[j] = s[m + j - 1]
      BY <2>2, SubSeqProperties
    <2>4. c = b
      BY <2>1
    <2> HIDE DEF c, b
    <2>5. Len(c) = n - k
      BY <1>3, <2>1, <2>3
    <2>6. \A j \in 1..(n - k) : j \in 1..(n - m + 1) /\ m + j - 1 = k + j
      BY <1>3, <2>1
    <2>7. \A j \in 1..(n - k) : c[j] = s[k + j]
      BY <2>3, <2>6
    <2> QED
      BY <2>3, <2>4, <2>5, <2>7
  <1>6. r = a \o b
    BY <1>1
  <1> HIDE DEF a, b
  <1>7. /\ a \o b \in Seq(S)
        /\ Len(a \o b) = Len(a) + Len(b)
        /\ \A j \in 1..(Len(a) + Len(b)) : (a \o b)[j] =
              IF j <= Len(a) THEN a[j] ELSE b[j - Len(a)]
    BY <1>4, <1>5, ConcatProperties
  <1>8. Len(r) = n - 1
    <2>1. (k - 1) + (n - k) = n - 1
      BY <1>3
    <2>2. Len(r) = Len(a) + Len(b)
      BY <1>6, <1>7, Zenon
    <2> QED
      BY <1>4, <1>5, <2>1, <2>2, Zenon
  <1>9. ASSUME NEW j \in 1..(n - 1) PROVE r[j] = IF j < k THEN s[j] ELSE s[j + 1]
    <2>1. j \in 1..(Len(a) + Len(b))
      BY <1>3, <1>4, <1>5
    <2>2. r[j] = IF j <= Len(a) THEN a[j] ELSE b[j - Len(a)]
      BY <2>1, <1>6, <1>7
    <2>3. CASE j < k
      <3>1. j <= Len(a) /\ j \in 1..(k - 1)
        BY <1>3, <1>4, <2>3
      <3> QED
        BY <1>4, <2>2, <2>3, <3>1
    <2>4. CASE ~(j < k)
      <3>1. ~(j <= Len(a)) /\ j - Len(a) \in 1..(n - k) /\ k + (j - Len(a)) = j + 1
        BY <1>3, <1>4, <2>4
      <3> QED
        BY <1>5, <2>2, <2>4, <3>1
    <2> QED
      BY <2>3, <2>4
  <1> QED
    BY <1>1, <1>6, <1>7, <1>8, <1>9

\* Putting an element in front moves the others back.
LEMMA Prepended ==
    ASSUME NEW S, NEW s \in Seq(S), NEW x \in S
    PROVE  /\ <<x>> \o s \in Seq(S)
           /\ Len(<<x>> \o s) = Len(s) + 1
           /\ (<<x>> \o s)[1] = x
           /\ \A j \in 1..Len(s) : (<<x>> \o s)[j + 1] = s[j]
  <1>1. <<x>> \in Seq(S) /\ Len(<<x>>) = 1 /\ <<x>>[1] = x
    OBVIOUS
  <1>2. Len(s) \in Nat
    BY LenProperties
  <1>3. /\ <<x>> \o s \in Seq(S)
        /\ Len(<<x>> \o s) = Len(<<x>>) + Len(s)
        /\ \A i \in 1..(Len(<<x>>) + Len(s)) : (<<x>> \o s)[i] =
              IF i <= Len(<<x>>) THEN <<x>>[i] ELSE s[i - Len(<<x>>)]
    BY <1>1, ConcatProperties
  <1> QED
    BY <1>1, <1>2, <1>3

-----------------------------------------------------------------------------
(* Ring buffers.                                                           *)

\* The indices of a ring are in its buffer, and meet when it is empty.
Ring(r, size) == r \in Rings(size - 1) /\ (r.empty => r.start = r.end)

\* A new ring is empty.
LEMMA NewRing ==
    ASSUME NEW size \in Nat \ {0}
    PROVE  Ring(new, size) /\ Used(new, size) = 0
  BY DEF Ring, Rings, new, Used

\* A ring holds no more than its buffer, and no two of its positions are the same.
LEMMA RingPositions ==
    ASSUME NEW size \in Nat \ {0}, NEW r, Ring(r, size)
    PROVE  /\ Used(r, size) \in 0..size
           /\ r.empty <=> Used(r, size) = 0
           /\ r.start \in 0..(size - 1) /\ r.end \in 0..(size - 1)
           /\ \A i \in 0..(size - 1) : At(r, i, size) \in 0..(size - 1)
           /\ \A i, j \in 0..(size - 1) : At(r, i, size) = At(r, j, size) => i = j
  BY DEF Ring, Rings, Used, At

\* push_buf is the free space behind the last byte, as far as it does not wrap.
LEMMA PushBuf ==
    ASSUME NEW size \in Nat \ {0}, NEW r, Ring(r, size)
    PROVE  LET b == push_buf(r, size)
           IN /\ b.len \in 0..(size - Used(r, size))
              /\ b.len = 0 <=> Used(r, size) = size
              /\ b.from \in 0..(size - 1)
              /\ b.len > 0 => b.from = r.end
              /\ b.from + b.len <= size
              /\ b.from \in Int /\ b.len \in Int
              /\ b = [from |-> b.from, len |-> b.len]
  BY DEF Ring, Rings, Used, push_buf

\* The positions behind the last byte.
LEMMA FreePositions ==
    ASSUME NEW size \in Nat \ {0}, NEW r, Ring(r, size),
           NEW n \in 0..(size - Used(r, size)), r.end + n <= size
    PROVE  \A i \in 0..(n - 1) : At(r, Used(r, size) + i, size) = r.end + i
  BY DEF Ring, Rings, Used, At

\* Pushing what was put there makes it part of the ring.
LEMMA Pushed ==
    ASSUME NEW size \in Nat \ {0}, NEW r, Ring(r, size),
           NEW n \in 0..(size - Used(r, size)), r.end + n <= size
    PROVE  /\ Ring(push(r, n, size), size)
           /\ Used(push(r, n, size), size) = Used(r, size) + n
           /\ push(r, n, size).start = r.start
           /\ \A i \in Int : At(push(r, n, size), i, size) = At(r, i, size)
  <1>1. CASE n = 0
    BY <1>1, RingPositions DEF push
  <1>2. CASE n # 0
    <2>1. /\ push(r, n, size) \in Rings(size - 1)
          /\ push(r, n, size).start = r.start
          /\ push(r, n, size).end = IF r.end + n = size THEN 0 ELSE r.end + n
          /\ push(r, n, size).empty = FALSE
      <3>1. r.end + n \in 1..size /\ r \in Rings(size - 1)
        BY <1>2, RingPositions DEF Ring
      <3>2. wrap(r.end + n, size) \in 0..(size - 1)
        BY <3>1 DEF wrap
      <3>3. push(r, n, size) =
               [start |-> r.start, end |-> wrap(r.end + n, size), empty |-> FALSE]
        BY <1>2, <3>1 DEF push, Rings
      <3> QED
        BY <3>1, <3>2, <3>3 DEF Rings, wrap
    <2> QED
      BY <1>2, <2>1 DEF Ring, Rings, Used, At
  <1> QED
    BY <1>1, <1>2

\* pop_buf is the beginning of the ring, as far as it does not wrap.
LEMMA PopBuf ==
    ASSUME NEW size \in Nat \ {0}, NEW r, Ring(r, size)
    PROVE  LET b == pop_buf(r, size)
           IN /\ b.len \in 0..Used(r, size)
              /\ b.len = 0 <=> Used(r, size) = 0
              /\ b.from \in 0..(size - 1)
              /\ b.len > 0 => b.from = r.start
              /\ b.from + b.len <= size
              /\ b.from \in Int /\ b.len \in Int
              /\ b = [from |-> b.from, len |-> b.len]
  BY DEF Ring, Rings, Used, pop_buf

\* The positions of the first bytes.
LEMMA FirstPositions ==
    ASSUME NEW size \in Nat \ {0}, NEW r, Ring(r, size), NEW n \in Nat, r.start + n <= size
    PROVE  \A i \in 0..(n - 1) : At(r, i, size) = r.start + i
  BY DEF Ring, Rings, At

\* Popping the first bytes leaves the others where they are.
LEMMA PoppedRing ==
    ASSUME NEW size \in Nat \ {0}, NEW r, Ring(r, size),
           NEW n \in 0..Used(r, size), r.start + n <= size
    PROVE  /\ Ring(pop(r, n, size), size)
           /\ Used(pop(r, n, size), size) = Used(r, size) - n
           /\ pop(r, n, size).end = r.end
           /\ \A i \in 0..(size - 1 - n) : At(pop(r, n, size), i, size) = At(r, n + i, size)
  <1>1. CASE n = 0
    BY <1>1, RingPositions DEF pop
  <1>2. CASE n # 0
    <2>1. /\ pop(r, n, size) \in Rings(size - 1)
          /\ pop(r, n, size).start = IF r.start + n = size THEN 0 ELSE r.start + n
          /\ pop(r, n, size).end = r.end
          /\ pop(r, n, size).empty = (pop(r, n, size).start = r.end)
      <3>1. r.start + n \in 1..size /\ r \in Rings(size - 1)
        BY <1>2, RingPositions DEF Ring
      <3>2. wrap(r.start + n, size) \in 0..(size - 1)
        BY <3>1 DEF wrap
      <3>3. pop(r, n, size) =
               [start |-> wrap(r.start + n, size), end |-> r.end,
                empty |-> wrap(r.start + n, size) = r.end]
        BY <1>2, <3>1 DEF pop, Rings
      <3> QED
        BY <3>1, <3>2, <3>3 DEF Rings, wrap
    <2> QED
      BY <1>2, <2>1 DEF Ring, Rings, Used, At
  <1> QED
    BY <1>1, <1>2
=============================================================================
