-------------------------- MODULE StreamBufferProofs --------------------------
(***************************************************************************)
(* The ring of stream_buffer.rs implements a bounded FIFO of bytes for     *)
(* every capacity and every sequence of chunks and partial writes.         *)
(*                                                                         *)
(* Cell(t, i) is where the i-th byte behind tail t lies.  Each action gets *)
(* one lemma on how head, tail and Size move, which is linear arithmetic,  *)
(* and one on where the bytes are found afterwards.                        *)
(***************************************************************************)
EXTENDS StreamBuffer, SequenceTheorems, TLAPS

Cell(t, i) == IF t + i - 1 < BufLen THEN t + i - 1 ELSE t + i - 1 - BufLen

\* A sum below twice the length of the ring wraps at most once.
LEMMA WrapOnce ==
    ASSUME NEW x \in 0 .. 2 * BufLen - 1
    PROVE  x % BufLen = IF x < BufLen THEN x ELSE x - BufLen
<1> DEFINE m == BufLen
           r == x % m
           q == x \div m
<1>0. m \in Nat \ {0} /\ x \in Nat
  BY CapacityAssumption DEF BufLen
<1>1. x = m * q + r /\ r \in 0 .. m - 1 /\ q \in Nat
  BY <1>0 
<1> HIDE DEF q, r
<1>2. x \in 0 .. 2 * m - 1
  OBVIOUS
<1> HIDE DEF m
<1>3. q < 2
  BY <1>0, <1>1, <1>2
<1>4. q = 0 \/ q = 1
  BY <1>1, <1>3
<1>5. CASE q = 0
  BY <1>0, <1>1, <1>5 DEF r, m
<1>6. CASE q = 1
  BY <1>0, <1>1, <1>6 DEF r, m
<1> QED BY <1>4, <1>5, <1>6

\* What is held is a sequence of Size bytes, at most Capacity of them.
Held ==
    /\ Size \in 0 .. Capacity
    /\ Contents \in Seq(Byte)
    /\ Len(Contents) = Size
    /\ \A i \in 1 .. Size : Cell(tail, i) \in Cells /\ Contents[i] = buf[Cell(tail, i)]

\* So it is in every well-typed state.
LEMMA ContentsFacts == TypeOK => Held
<1> SUFFICES ASSUME TypeOK PROVE Held
  OBVIOUS
<1>1. Size \in 0 .. Capacity
  BY CapacityAssumption DEF TypeOK, Size, Cells, BufLen
<1>2. \A i \in 1 .. Size : Cell(tail, i) \in Cells
  BY <1>1, CapacityAssumption DEF TypeOK, Cell, Cells, BufLen
<1>3. Contents = [i \in 1 .. Size |-> buf[Cell(tail, i)]]
  BY DEF Contents, Cell
<1>4. \A i \in 1 .. Size : buf[Cell(tail, i)] \in Byte
  BY <1>2 DEF TypeOK
<1>5. Contents \in [1 .. Size -> Byte]
  BY <1>3, <1>4
<1>6. Contents \in Seq(Byte) /\ Len(Contents) = Size
  <2> HIDE DEF Contents, Size
  <2> QED BY <1>1, <1>5
<1> QED BY <1>1, <1>2, <1>3, <1>6 DEF Held

\* The same one step later.
LEMMA ContentsFactsNext == TypeOK' => Held'
BY ContentsFacts, PTL

\* A chunk is a sequence of bytes.
LEMMA ChunkIsSeq ==
    ASSUME NEW source \in Chunks
    PROVE  source \in Seq(Byte) /\ Len(source) \in 0 .. Capacity
<1>1. PICK n \in 0 .. Capacity : source \in [1 .. n -> Byte]
  BY DEF Chunks
<1> QED BY <1>1, CapacityAssumption

-------------------------------------------------------------------------------
(* read_from *)

\* Where read_from leaves head, and that exactly n bytes more are held.
LEMMA ReadFromMoves ==
    ASSUME TypeOK, NEW source \in Chunks, ReadFrom(source)
    PROVE  /\ head' \in Cells /\ tail' = tail
           /\ head' = IF head + Len(source) < BufLen
                        THEN head + Len(source) ELSE head + Len(source) - BufLen
           /\ Size + Len(source) <= Capacity
           /\ Size' = Size + Len(source)
<1> DEFINE n == Len(source)
<1>1. n \in 0 .. Capacity
  BY ChunkIsSeq
<1>2. n <= Capacity - Size /\ head' = (head + n) % BufLen /\ tail' = tail
  BY DEF ReadFrom, Remaining
<1> HIDE DEF n
<1>3. head + n \in 0 .. 2 * BufLen - 1
  BY <1>1, CapacityAssumption DEF TypeOK, Cells, BufLen
<1>4. head' = IF head + n < BufLen THEN head + n ELSE head + n - BufLen
  <2> DEFINE x == head + n
  <2>1. x \in 0 .. 2 * BufLen - 1
    BY <1>3
  <2>2. head' = x % BufLen
    BY <1>2, Zenon
  <2> HIDE DEF x
  <2>3. head' = IF x < BufLen THEN x ELSE x - BufLen
    BY <2>1, <2>2, WrapOnce
  <2> QED BY <1>1, <2>3, CapacityAssumption DEF x, TypeOK, Cells, BufLen
<1>5. Size \in 0 .. Capacity
  BY ContentsFacts DEF Held
<1>6. head' \in Cells
  BY <1>1, <1>4, CapacityAssumption DEF TypeOK, Cells, BufLen
<1>7. Size' = Size + n
  BY <1>1, <1>2, <1>4, CapacityAssumption DEF TypeOK, Size, Cells, BufLen
<1>8. Size + n <= Capacity
  BY <1>1, <1>2, <1>5, CapacityAssumption
<1> QED BY <1>2, <1>4, <1>6, <1>7, <1>8 DEF n

\* The bytes held before stay where they were, the chunk follows them.
LEMMA ReadFromAppends ==
    ASSUME TypeOK, NEW source \in Chunks, ReadFrom(source), TypeOK'
    PROVE  Contents' = Contents \o source
<1> DEFINE n == Len(source)
<1>1. n \in 0 .. Capacity /\ source \in Seq(Byte)
  BY ChunkIsSeq
<1>2. Size \in 0 .. Capacity /\ Size' = Size + n /\ tail' = tail
  BY ReadFromMoves, ContentsFacts DEF Held
<1>3. /\ Contents \in Seq(Byte) /\ Len(Contents) = Size
      /\ \A i \in 1 .. Size : Contents[i] = buf[Cell(tail, i)]
  BY ContentsFacts DEF Held
<1>4. /\ Contents' \in Seq(Byte) /\ Len(Contents') = Size'
      /\ \A i \in 1 .. Size' : Cell(tail, i) \in Cells /\ Contents'[i] = buf'[Cell(tail, i)]
  <2>1. /\ Contents' \in Seq(Byte) /\ Len(Contents') = Size'
        /\ \A i \in 1 .. Size' : Cell(tail', i) \in Cells /\ Contents'[i] = buf'[Cell(tail', i)]
    BY ContentsFactsNext DEF Held, Cell
  <2> QED BY <1>2, <2>1
<1>5. Size + n <= Capacity
  BY ReadFromMoves
<1>6. \A i \in 1 .. Size + n :
         buf'[Cell(tail, i)] = IF i <= Size THEN buf[Cell(tail, i)] ELSE source[i - Size]
  <2> SUFFICES ASSUME NEW i \in 1 .. Size + n
               PROVE  buf'[Cell(tail, i)] = IF i <= Size THEN buf[Cell(tail, i)]
                                                         ELSE source[i - Size]
    OBVIOUS
  <2> DEFINE p == Cell(tail, i)
  <2>1. p \in Cells
    BY <1>2, <1>4
  <2>2. buf'[p] = IF head <= p /\ p < head + n THEN source[p - head + 1]
                  ELSE IF p + BufLen < head + n THEN source[p + BufLen - head + 1]
                  ELSE buf[p]
    BY <2>1 DEF ReadFrom
  <2>3. CASE i <= Size
    <3>1. ~(head <= p /\ p < head + n) /\ ~(p + BufLen < head + n)
      BY <1>1, <1>2, <1>5, <2>3, CapacityAssumption DEF TypeOK, Size, Cells, BufLen, Cell
    <3> QED BY <2>2, <2>3, <3>1
  <2>4. CASE i > Size
    <3>1. \/ head <= p /\ p < head + n /\ p - head + 1 = i - Size
          \/ p < head /\ p + BufLen < head + n /\ p + BufLen - head + 1 = i - Size
      BY <1>1, <1>2, <1>5, <2>4, CapacityAssumption DEF TypeOK, Size, Cells, BufLen, Cell
    <3>2. ~(i <= Size)
      BY <1>2, <2>4
    <3>3. CASE head <= p /\ p < head + n /\ p - head + 1 = i - Size
      BY <2>2, <3>2, <3>3
    <3>4. CASE p < head /\ p + BufLen < head + n /\ p + BufLen - head + 1 = i - Size
      <4>1. ~(head <= p)
        BY <2>1, <3>4, CapacityAssumption DEF TypeOK, Cells
      <4> QED BY <2>2, <3>2, <3>4, <4>1
    <3> QED BY <3>1, <3>3, <3>4
  <2> QED BY <1>2, <2>3, <2>4
<1>7. /\ Contents \o source \in Seq(Byte)
      /\ Len(Contents \o source) = Size + n
      /\ \A i \in 1 .. Size + n : (Contents \o source)[i] =
            IF i <= Size THEN Contents[i] ELSE source[i - Size]
  BY <1>1, <1>3, ConcatProperties
<1> HIDE DEF n
<1>8. \A i \in 1 .. Size + n : Contents'[i] = (Contents \o source)[i]
  <2> SUFFICES ASSUME NEW i \in 1 .. Size + n
               PROVE  Contents'[i] = (Contents \o source)[i]
    OBVIOUS
  <2>1. Contents'[i] = buf'[Cell(tail, i)]
    BY <1>2, <1>4
  <2>2. CASE i <= Size
    BY <1>2, <1>3, <1>6, <1>7, <2>1, <2>2
  <2>3. CASE ~(i <= Size)
    BY <1>2, <1>6, <1>7, <2>1, <2>3
  <2> QED BY <2>2, <2>3
<1> QED BY <1>2, <1>4, <1>7, <1>8, SeqEqual

-------------------------------------------------------------------------------
(* write_to *)

\* Where write_to leaves head and tail: behind the w bytes taken, or both at 0
\* when nothing is left.
LEMMA WriteToMoves ==
    ASSUME TypeOK, NEW w \in 1 .. BufLen, WriteTo(w)
    PROVE  /\ head' \in Cells /\ tail' \in Cells
           /\ w <= Size /\ tail + w <= BufLen
           /\ Size' = Size - w
           /\ Size' > 0 => tail' = IF tail + w < BufLen THEN tail + w ELSE 0
<1> DEFINE next == IF head > tail THEN tail + w ELSE (tail + w) % BufLen
<1>0. w \in Nat /\ head # tail /\ w <= Contiguous
  BY CapacityAssumption DEF WriteTo, IsEmpty, BufLen, Contiguous, TypeOK, Cells
<1>1. tail + w <= BufLen /\ w >= 1
  BY <1>0, CapacityAssumption DEF Contiguous, TypeOK, Cells, BufLen
<1>3. next = IF tail + w < BufLen THEN tail + w ELSE 0
  <2> DEFINE x == tail + w
  <2>1. x \in 0 .. 2 * BufLen - 1
    BY <1>1, CapacityAssumption DEF TypeOK, Cells, BufLen
  <2>2. next = IF head > tail THEN x ELSE x % BufLen
    BY Zenon
  <2>3. x <= BufLen /\ (head > tail => x < BufLen)
    BY <1>0, <1>1, CapacityAssumption DEF Contiguous, TypeOK, Cells, BufLen
  <2> HIDE DEF x, next
  <2>4. x % BufLen = IF x < BufLen THEN x ELSE x - BufLen
    BY <2>1, WrapOnce
  <2>5. next = IF head > tail THEN x ELSE IF x < BufLen THEN x ELSE x - BufLen
    BY <2>2, <2>4
  <2>6. next = IF x < BufLen THEN x ELSE 0
    BY <2>1, <2>3, <2>5, CapacityAssumption DEF BufLen
  <2> QED BY <2>6 DEF x
<1>4. head' = (IF next = head THEN 0 ELSE head) /\ tail' = (IF next = head THEN 0 ELSE next)
  BY DEF WriteTo
<1> HIDE DEF next
<1>5. w <= Size
  BY <1>0, <1>1, CapacityAssumption DEF Contiguous, Size, TypeOK, Cells, BufLen
<1>6. head' \in Cells /\ tail' \in Cells
  BY <1>1, <1>3, <1>4, CapacityAssumption DEF TypeOK, Cells, BufLen
<1>7. Size' = Size - w
  BY <1>0, <1>1, <1>3, <1>4, CapacityAssumption DEF Contiguous, Size, TypeOK, Cells, BufLen
<1>8. Size' > 0 => tail' = next
  BY <1>4, CapacityAssumption DEF Size
<1> QED BY <1>1, <1>3, <1>5, <1>6, <1>7, <1>8

\* The w oldest bytes go out, the others stay and keep their order.
LEMMA WriteToTakes ==
    ASSUME TypeOK, NEW w \in 1 .. BufLen, WriteTo(w), TypeOK'
    PROVE  /\ w \in 1 .. Len(Contents)
           /\ out' = SubSeq(Contents, 1, w)
           /\ Contents' = SubSeq(Contents, w + 1, Len(Contents))
<1>1. /\ w <= Size /\ tail + w <= BufLen /\ Size' = Size - w
      /\ Size' > 0 => tail' = IF tail + w < BufLen THEN tail + w ELSE 0
  BY WriteToMoves
<1>2. /\ Size \in 0 .. Capacity
      /\ Contents \in Seq(Byte) /\ Len(Contents) = Size
      /\ \A i \in 1 .. Size : Contents[i] = buf[Cell(tail, i)]
  BY ContentsFacts DEF Held
<1>3. /\ Contents' \in Seq(Byte) /\ Len(Contents') = Size'
      /\ \A i \in 1 .. Size' : Contents'[i] = buf'[Cell(tail', i)]
  BY ContentsFactsNext DEF Held, Cell
<1>4. w \in Nat /\ w \in 1 .. Len(Contents) /\ Size \in Nat
  BY <1>1, <1>2, CapacityAssumption DEF BufLen
<1>5. \A i \in 1 .. Size : Contents[i] \in Byte
  BY <1>2
<1>6. out' = SubSeq(Contents, 1, w)
  <2> DEFINE s == SubSeq(Contents, 1, w)
  <2>1. s \in Seq(Byte) /\ Len(s) = w /\ \A i \in 1 .. w : s[i] = Contents[i]
    <3>1. \A i \in 1 .. w : Contents[i] \in Byte
      BY <1>1, <1>4, <1>5
    <3>2. /\ s \in Seq(Byte)
          /\ Len(s) = IF 1 <= w THEN w - 1 + 1 ELSE 0
          /\ \A i \in 1 .. w - 1 + 1 : s[i] = Contents[1 + i - 1]
      BY <1>4, <3>1, SubSeqProperties
    <3> QED BY <1>4, <3>2
  <2>2. out' = [i \in 1 .. w |-> buf[tail + i - 1]]
    BY DEF WriteTo
  <2>3. \A i \in 1 .. w : Contents[i] = buf[tail + i - 1]
    BY <1>1, <1>2, <1>4, CapacityAssumption DEF TypeOK, Cells, Cell, BufLen
  <2>4. out' \in Seq(Byte) /\ Len(out') = w /\ \A i \in 1 .. w : out'[i] = buf[tail + i - 1]
    BY <1>4, <2>2 DEF TypeOK
  <2> HIDE DEF s
  <2>5. out' = s
    BY <2>1, <2>3, <2>4, SeqEqual
  <2> QED BY <2>5 DEF s
<1>7. Contents' = SubSeq(Contents, w + 1, Len(Contents))
  <2> DEFINE s == SubSeq(Contents, w + 1, Size)
  <2>1. s \in Seq(Byte) /\ Len(s) = Size - w /\ \A i \in 1 .. Size - w : s[i] = Contents[w + i]
    <3>1. \A i \in w + 1 .. Size : Contents[i] \in Byte
      BY <1>1, <1>4, <1>5
    <3> DEFINE m == w + 1
    <3>2. m \in Int /\ Size \in Int /\ \A i \in m .. Size : Contents[i] \in Byte
      BY <1>4, <3>1
    <3> HIDE DEF m
    <3>3. /\ SubSeq(Contents, m, Size) \in Seq(Byte)
          /\ Len(SubSeq(Contents, m, Size)) = IF m <= Size THEN Size - m + 1 ELSE 0
          /\ \A i \in 1 .. Size - m + 1 : SubSeq(Contents, m, Size)[i] = Contents[m + i - 1]
      BY <3>2, SubSeqProperties
    <3>4. s = SubSeq(Contents, m, Size)
      BY DEF m
    <3> HIDE DEF s
    <3>5. s \in Seq(Byte) /\ Len(s) = IF m <= Size THEN Size - m + 1 ELSE 0
      BY <3>3, <3>4
    <3>6. \A i \in 1 .. Size - m + 1 : s[i] = Contents[m + i - 1]
      BY <3>3, <3>4
    <3>7. Len(s) = Size - w
      BY <1>1, <1>4, <3>5 DEF m
    <3>8. ASSUME NEW i \in 1 .. Size - w PROVE s[i] = Contents[w + i]
      <4>1. i \in 1 .. Size - m + 1 /\ m + i - 1 = w + i
        BY <1>4 DEF m
      <4> QED BY <3>6, <4>1
    <3> QED BY <3>5, <3>7, <3>8
  <2>2. \A i \in 1 .. Size - w : Contents'[i] = Contents[w + i]
    <3> SUFFICES ASSUME NEW i \in 1 .. Size - w
                 PROVE  Contents'[i] = Contents[w + i]
      OBVIOUS
    <3>0. tail \in Nat /\ i \in Nat /\ i >= 1 /\ i <= Capacity
          /\ tail + w <= BufLen /\ tail' = IF tail + w < BufLen THEN tail + w ELSE 0
      BY <1>1, <1>2, <1>4, CapacityAssumption DEF TypeOK, Cells
    <3>1. Cell(tail', i) = Cell(tail, w + i)
      BY <1>4, <3>0, CapacityAssumption DEF Cell, BufLen
    <3>2. buf' = buf
      BY DEF WriteTo
    <3>3. Contents'[i] = buf'[Cell(tail', i)]
      BY <1>1, <1>3
    <3>4. Contents[w + i] = buf[Cell(tail, w + i)]
      BY <1>2, <1>4
    <3> QED BY <3>1, <3>2, <3>3, <3>4
  <2> HIDE DEF s
  <2>3. Contents' = s
    BY <1>1, <1>3, <2>1, <2>2, SeqEqual
  <2> QED BY <1>2, <2>3 DEF s
<1> QED BY <1>4, <1>6, <1>7

-------------------------------------------------------------------------------
(* The theorems *)

\* A step of the ring keeps its cells and indices in range.
LEMMA TypeStep == TypeOK /\ [Next]_vars => TypeOK'
<1> SUFFICES ASSUME TypeOK, [Next]_vars PROVE TypeOK'
  OBVIOUS
<1>1. ASSUME NEW source \in Chunks, ReadFrom(source) PROVE TypeOK'
  <2>1. head' \in Cells /\ tail' \in Cells
    BY <1>1, ReadFromMoves DEF TypeOK
  <2>2. source \in [1 .. Len(source) -> Byte] /\ Len(source) \in 0 .. Capacity
    BY <1>1, ChunkIsSeq, LenProperties
  <2>3. buf' \in [Cells -> Byte]
    <3> SUFFICES ASSUME NEW i \in Cells
                 PROVE  (IF head <= i /\ i < head + Len(source) THEN source[i - head + 1]
                         ELSE IF i + BufLen < head + Len(source)
                              THEN source[i + BufLen - head + 1]
                         ELSE buf[i]) \in Byte
      BY <1>1 DEF ReadFrom
    <3>1. CASE head <= i /\ i < head + Len(source)
      <4>1. i - head + 1 \in 1 .. Len(source)
        BY <2>2, <3>1, CapacityAssumption DEF TypeOK, Cells
      <4> QED BY <2>2, <3>1, <4>1
    <3>2. CASE ~(head <= i /\ i < head + Len(source)) /\ i + BufLen < head + Len(source)
      <4>1. i + BufLen - head + 1 \in 1 .. Len(source)
        BY <2>2, <3>2, CapacityAssumption DEF TypeOK, Cells, BufLen
      <4> QED BY <2>2, <3>2, <4>1
    <3>3. CASE ~(head <= i /\ i < head + Len(source)) /\ ~(i + BufLen < head + Len(source))
      BY <3>3 DEF TypeOK
    <3> QED BY <3>1, <3>2, <3>3
  <2>4. out' \in Seq(Byte)
    BY <1>1 DEF ReadFrom
  <2> QED BY <2>1, <2>3, <2>4 DEF TypeOK
<1>2. ASSUME NEW w \in 1 .. BufLen, WriteTo(w) PROVE TypeOK'
  <2>1. head' \in Cells /\ tail' \in Cells /\ tail + w <= BufLen
    BY <1>2, WriteToMoves
  <2>2. buf' = buf /\ out' = [i \in 1 .. w |-> buf[tail + i - 1]]
    BY <1>2 DEF WriteTo
  <2>3. \A i \in 1 .. w : tail + i - 1 \in Cells
    BY <2>1, CapacityAssumption DEF TypeOK, Cells, BufLen
  <2>4. out' \in [1 .. w -> Byte] /\ w \in Nat
    BY <2>2, <2>3, CapacityAssumption DEF TypeOK, BufLen
  <2>5. out' \in Seq(Byte)
    BY <2>4
  <2> QED BY <2>1, <2>2, <2>5 DEF TypeOK
<1>3. CASE WriteNothing
  BY <1>3 DEF WriteNothing, TypeOK
<1>4. CASE UNCHANGED vars
  BY <1>4 DEF vars, TypeOK
<1> QED BY <1>1, <1>2, <1>3, <1>4 DEF Next

\* No call of the ring ever leaves its cells (read_from, write_to, optimize),
\* whatever the capacity.
THEOREM TypeCorrect == Spec => []TypeOK
<1>1. Init => TypeOK
  BY CapacityAssumption DEF Init, TypeOK, Cells
<1> QED BY <1>1, TypeStep, PTL DEF Spec

\* An empty ring always restarts at cell 0: read_from cannot fill a ring up to
\* its own tail, and write_to ends with optimize().
THEOREM Reset == Spec => []EmptyMeansReset
<1>1. Init => EmptyMeansReset
  BY DEF Init, EmptyMeansReset
<1>2. TypeOK /\ EmptyMeansReset /\ [Next]_vars => EmptyMeansReset'
  <2> SUFFICES ASSUME TypeOK, EmptyMeansReset, [Next]_vars PROVE EmptyMeansReset'
    OBVIOUS
  <2>1. ASSUME NEW source \in Chunks, ReadFrom(source) PROVE EmptyMeansReset'
    <3>1. /\ Len(source) \in 0 .. Capacity /\ Size \in 0 .. Capacity
          /\ tail' = tail /\ Size' = Size + Len(source)
          /\ head' = IF head + Len(source) < BufLen
                       THEN head + Len(source) ELSE head + Len(source) - BufLen
      BY <2>1, ChunkIsSeq, ReadFromMoves, ContentsFacts DEF Held
    <3> DEFINE n == Len(source)
    <3>2. /\ n \in Nat /\ Size \in Nat /\ Size' = Size + n
          /\ head' = IF head + n < BufLen THEN head + n ELSE head + n - BufLen
      BY <3>1
    <3> HIDE DEF n
    <3>3. ASSUME head' = tail' PROVE head = tail /\ head' = head
      <4>1. Size' = 0
        BY <3>1, <3>3, CapacityAssumption DEF Size, TypeOK, Cells
      <4>2. n = 0 /\ Size = 0
        BY <3>2, <4>1
      <4>3. head = tail
        BY <4>2, CapacityAssumption DEF Size, TypeOK, Cells, BufLen
      <4> QED BY <3>1, <3>3, <4>3
    <3> QED BY <3>3 DEF EmptyMeansReset, IsEmpty
  <2>2. ASSUME NEW w \in 1 .. BufLen, WriteTo(w) PROVE EmptyMeansReset'
    BY <2>2 DEF WriteTo, EmptyMeansReset, IsEmpty
  <2>3. CASE WriteNothing
    BY <2>3 DEF WriteNothing, EmptyMeansReset, IsEmpty
  <2>4. CASE UNCHANGED vars
    BY <2>4 DEF vars, EmptyMeansReset, IsEmpty
  <2> QED BY <2>1, <2>2, <2>3, <2>4 DEF Next
<1> QED BY <1>1, <1>2, TypeCorrect, PTL DEF Spec

\* The ring is a bounded FIFO of bytes: every byte read_from took is handed over
\* once and in order, across wrap-around, partial writes and optimize(), for
\* every capacity.
THEOREM Refinement == Spec => ImplementsFifo
<1>1. Init => Fifo!Init
  <2> SUFFICES ASSUME Init PROVE Fifo!Init
    OBVIOUS
  <2>1. TypeOK /\ Size = 0
    BY CapacityAssumption DEF Init, TypeOK, Cells, Size
  <2>2. Contents \in Seq(Byte) /\ Len(Contents) = 0
    BY <2>1, ContentsFacts DEF Held
  <2> QED BY <2>2, EmptySeq DEF Init, Fifo!Init
<1>2. TypeOK /\ TypeOK' /\ [Next]_vars => [Fifo!Next]_Fifo!vars
  <2> SUFFICES ASSUME TypeOK, TypeOK', [Next]_vars
               PROVE  [Fifo!Next]_Fifo!vars
    OBVIOUS
  <2>1. ASSUME NEW source \in Chunks, ReadFrom(source) PROVE Fifo!Next
    <3>1. Contents' = Contents \o source /\ out' = << >>
      BY <2>1, ReadFromAppends DEF ReadFrom
    <3>2. Len(Contents) + Len(source) <= Capacity
      BY <2>1, ReadFromMoves, ContentsFacts DEF Held
    <3>3. source \in Fifo!Chunks
      BY DEF Chunks, Fifo!Chunks
    <3> QED BY <3>1, <3>2, <3>3 DEF Fifo!Next, Fifo!Put
  <2>2. ASSUME NEW w \in 1 .. BufLen, WriteTo(w) PROVE Fifo!Next
    BY <2>2, WriteToTakes DEF Fifo!Next, Fifo!Take
  <2>3. CASE WriteNothing
    BY <2>3 DEF WriteNothing, Contents, Size, Fifo!Next, Fifo!Idle
  <2>4. CASE UNCHANGED vars
    BY <2>4 DEF vars, Contents, Size, Fifo!vars
  <2> QED BY <2>1, <2>2, <2>3, <2>4 DEF Next
<1> QED BY <1>1, <1>2, TypeCorrect, PTL DEF Spec, ImplementsFifo, Fifo!Spec
===============================================================================
