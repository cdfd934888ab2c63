------------------------- MODULE DatagramBufferProofs -------------------------
(***************************************************************************)
(* The ring of datagram_buffer.rs cuts and mixes no datagram, for every    *)
(* capacity, maximal length, header and payload.                           *)
(*                                                                         *)
(* A layout says where the block of each queued datagram begins, and last  *)
(* where head is. That each of them lies between the block handed over     *)
(* before it and head, whichever of the two is the greater, is stated for  *)
(* all the blocks that will be at tail: what is true after a write_to is   *)
(* then known before it. A ring that looks empty promises nothing, as its  *)
(* blocks may be overwritten (head can wrap onto a tail at 0).             *)
(***************************************************************************)
EXTENDS DatagramBuffer, SequenceTheorems, TLAPS

\* The end of a block of that length.
BlockEnd(q, length) == q + BlockHeader + length

\* A block at q lies in the part of the ring from t on to h.
Between(t, h, q, length) ==
    IF t < h THEN t <= q /\ BlockEnd(q, length) <= h
    ELSE h < t /\ (t <= q \/ BlockEnd(q, length) <= h)

\* The block at q of a buffer is datagram d.
Stored(b, q, d) ==
    /\ b[q] = d.length
    /\ \A i \in DOMAIN b : q + BlockHeader <= i /\ i < BlockEnd(q, d.length) => b[i] = d.content

\* The queue qu lies in b, from t on to h, at the places p.
Layout(b, h, t, qu, p) ==
    /\ p \in [1 .. Len(qu) + 1 -> 0 .. Capacity]
    /\ qu # << >>
    /\ p[1] = t /\ p[Len(qu) + 1] = h
    /\ \A k \in 1 .. Len(qu) : /\ Stored(b, p[k], qu[k])
                               /\ p[k + 1] = Wrap(BlockEnd(p[k], qu[k].length))
    /\ \A j, k \in 1 .. Len(qu) : j <= k => Between(p[j], h, p[k], qu[k].length)

LaidOut == ~IsEmpty => \E p : Layout(buf, head, tail, owed, p)

\* A ring looks empty while it owes datagrams only when head wrapped onto a tail at 0.
LooksEmptyAtZeroOnly == IsEmpty /\ owed # << >> => head = 0

RingInv == TypeOK /\ LaidOut /\ LooksEmptyAtZeroOnly

-------------------------------------------------------------------------------
(* Arithmetic. *)

\* A sequence from its elements, with its length.
LEMMA QueueFacts ==
    ASSUME NEW qu \in Seq(Datagram)
    PROVE  /\ Len(qu) \in Nat
           /\ qu # << >> <=> Len(qu) > 0
           /\ \A k \in 1 .. Len(qu) : /\ qu[k] \in Datagram /\ qu[k].length \in Nat
                                      /\ qu[k].length <= MaxDatagramLength
                                      /\ qu[k].content \in Payload
<1>1. Len(qu) \in Nat /\ \A k \in 1 .. Len(qu) : qu[k] \in Datagram
  OBVIOUS
<1>2. qu # << >> <=> Len(qu) > 0
  BY <1>1, EmptySeq
<1>3. \A d \in Datagram : d.length \in Nat /\ d.length <= MaxDatagramLength /\ d.content \in Payload
  BY BufferAssumption DEF Datagram
<1> QED
  BY <1>1, <1>2, <1>3

\* Places in the ring stay places in the ring.
LEMMA WrapFacts ==
    ASSUME NEW q \in 0 .. Capacity, NEW length \in Nat
    PROVE  /\ BlockEnd(q, length) \in Nat /\ BlockEnd(q, length) > q
           /\ Wrap(BlockEnd(q, length)) \in 0 .. Capacity
           /\ \/ Wrap(BlockEnd(q, length)) = BlockEnd(q, length)
              \/ Wrap(BlockEnd(q, length)) = 0 /\ BlockEnd(q, length) > Capacity
BY BufferAssumption DEF Wrap, BlockEnd, CircularBufferLength

\* A new block at h leaves room for itself only: where the blocks of the ring were
\* between t and h, they and the new one are between t and the new h.
LEMMA StillBetween ==
    ASSUME NEW t \in 0 .. Capacity, NEW h \in 0 .. Capacity, NEW n \in Nat,
           NEW first \in 0 .. Capacity, first # h,
           h >= first \/ BlockHeader + n <= first - h - 1,
           NEW g, g = Wrap(BlockEnd(h, n)), g # first,
           NEW m \in Nat, Between(first, h, t, m),
           NEW q \in 0 .. Capacity, NEW l \in Nat, Between(t, h, q, l)
    PROVE  Between(t, g, q, l) /\ Between(t, g, h, n)
<1>1. /\ BlockEnd(h, n) = h + BlockHeader + n /\ BlockEnd(t, m) = t + BlockHeader + m
      /\ BlockEnd(q, l) = q + BlockHeader + l
  BY DEF BlockEnd
<1>2. g = IF h + BlockHeader + n >= Capacity + 1 THEN 0 ELSE h + BlockHeader + n
  BY <1>1 DEF Wrap, CircularBufferLength
<1> QED
  BY <1>1, <1>2, BufferAssumption DEF Between

\* The new block by itself.
LEMMA NewBetween ==
    ASSUME NEW h \in 0 .. Capacity, NEW n \in Nat, NEW first \in 0 .. Capacity,
           h >= first \/ BlockHeader + n <= first - h - 1,
           NEW g, g = Wrap(BlockEnd(h, n)), g # first
    PROVE  Between(h, g, h, n)
<1>1. BlockEnd(h, n) = h + BlockHeader + n
  BY DEF BlockEnd
<1>2. g = IF h + BlockHeader + n >= Capacity + 1 THEN 0 ELSE h + BlockHeader + n
  BY <1>1 DEF Wrap, CircularBufferLength
<1> QED
  BY <1>1, <1>2, BufferAssumption DEF Between

\* What read_from writes touches no block of the queue.
LEMMA Untouched ==
    ASSUME NEW h \in 0 .. Capacity, NEW n \in Nat, NEW first \in 0 .. Capacity,
           h >= first \/ BlockHeader + n <= first - h - 1,
           NEW q \in 0 .. Capacity, NEW l \in Nat, Between(first, h, q, l),
           NEW i \in Nat, q <= i, i < BlockEnd(q, l)
    PROVE  ~(h <= i /\ i < BlockEnd(h, n))
BY BufferAssumption DEF Between, BlockEnd

-------------------------------------------------------------------------------
(* read_from and write_to. *)

\* The cells, as ReadFrom leaves them.
Written(b, h, d) ==
    [i \in DOMAIN b |->
        IF h <= i /\ i < h + BlockHeader THEN d.length
        ELSE IF h + BlockHeader <= i /\ i < h + BlockHeader + d.length THEN d.content
        ELSE b[i]]

\* read_from puts a whole block at head, inside the buffer.
LEMMA WrittenFacts ==
    ASSUME NEW b \in [0 .. BufLen - 1 -> 0 .. MaxDatagramLength \cup Payload],
           NEW h \in 0 .. Capacity, NEW d \in Datagram
    PROVE  /\ Written(b, h, d) \in [0 .. BufLen - 1 -> 0 .. MaxDatagramLength \cup Payload]
           /\ Stored(Written(b, h, d), h, d)
           /\ \A i \in 0 .. BufLen - 1 :
                ~(h <= i /\ i < BlockEnd(h, d.length)) => Written(b, h, d)[i] = b[i]
<1>1. d.length \in 0 .. MaxDatagramLength /\ d.content \in Payload
  BY DEF Datagram
<1>2. DOMAIN b = 0 .. BufLen - 1 /\ BufLen = Capacity + BlockHeader + MaxDatagramLength
  BY DEF BufLen
<1>3. h \in 0 .. BufLen - 1 /\ h <= h /\ h < h + BlockHeader
  BY <1>2, BufferAssumption
<1>4. Written(b, h, d)[h] = d.length
  BY <1>2, <1>3 DEF Written
<1>5. ASSUME NEW i \in 0 .. BufLen - 1, h + BlockHeader <= i, i < BlockEnd(h, d.length)
      PROVE  Written(b, h, d)[i] = d.content
  <2>1. ~(i < h + BlockHeader)
    BY <1>2, <1>5, BufferAssumption
  <2> QED
    BY <1>2, <1>5, <2>1 DEF Written, BlockEnd
<1>6. ASSUME NEW i \in 0 .. BufLen - 1, ~(h <= i /\ i < BlockEnd(h, d.length))
      PROVE  Written(b, h, d)[i] = b[i]
  <2>1. ~(h <= i /\ i < h + BlockHeader) /\ ~(h + BlockHeader <= i /\ i < h + BlockHeader + d.length)
    BY <1>1, <1>2, <1>6, BufferAssumption DEF BlockEnd
  <2> QED
    BY <1>2, <2>1 DEF Written
<1>7. DOMAIN Written(b, h, d) = 0 .. BufLen - 1
  BY <1>2 DEF Written
<1>8. Written(b, h, d) \in [0 .. BufLen - 1 -> 0 .. MaxDatagramLength \cup Payload]
  BY <1>1, <1>2 DEF Written
<1> QED
  BY <1>4, <1>5, <1>6, <1>7, <1>8 DEF Stored

\* A block that read_from does not touch is still there.
LEMMA StoredKept ==
    ASSUME NEW b \in [0 .. BufLen - 1 -> 0 .. MaxDatagramLength \cup Payload],
           NEW c \in [0 .. BufLen - 1 -> 0 .. MaxDatagramLength \cup Payload],
           NEW h \in 0 .. Capacity, NEW first \in 0 .. Capacity, NEW n \in Nat,
           h >= first \/ BlockHeader + n <= first - h - 1,
           \A i \in 0 .. BufLen - 1 : ~(h <= i /\ i < BlockEnd(h, n)) => c[i] = b[i],
           NEW q \in 0 .. Capacity, NEW e \in Datagram,
           Between(first, h, q, e.length), Stored(b, q, e)
    PROVE  Stored(c, q, e)
<1>1. e.length \in Nat
  BY BufferAssumption DEF Datagram
<1>2. ASSUME NEW i \in 0 .. BufLen - 1, q <= i, i < BlockEnd(q, e.length)
      PROVE  c[i] = b[i]
  <2>1. i \in Nat
    BY BufferAssumption DEF BufLen
  <2>2. ~(h <= i /\ i < BlockEnd(h, n))
    BY <1>1, <1>2, <2>1, Untouched
  <2> QED
    BY <2>2
<1>3. q \in 0 .. BufLen - 1 /\ q <= q
  BY BufferAssumption DEF BufLen
<1>4. q < BlockEnd(q, e.length)
  BY <1>1, WrapFacts
<1>5. c[q] = e.length
  BY <1>2, <1>3, <1>4 DEF Stored
<1>6. ASSUME NEW i \in 0 .. BufLen - 1, q + BlockHeader <= i, i < BlockEnd(q, e.length)
      PROVE  c[i] = e.content
  <2>1. q <= i
    BY <1>3, <1>6, BufferAssumption DEF BufLen
  <2>2. b[i] = e.content
    BY <1>6 DEF Stored
  <2> QED
    BY <1>2, <1>6, <2>1, <2>2
<1> QED
  BY <1>5, <1>6 DEF Stored

\* The queue with one datagram more has a layout too, unless the ring now looks
\* empty.
LEMMA Extended ==
    ASSUME NEW b \in [0 .. BufLen - 1 -> 0 .. MaxDatagramLength \cup Payload],
           NEW h \in 0 .. Capacity, NEW t \in 0 .. Capacity, h # t,
           NEW qu \in Seq(Datagram), NEW p, Layout(b, h, t, qu, p),
           NEW d \in Datagram, h >= t \/ BlockHeader + d.length <= t - h - 1,
           NEW g, g = Wrap(BlockEnd(h, d.length)), g # t
    PROVE  \E r : Layout(Written(b, h, d), g, t, Append(qu, d), r)
<1> DEFINE n == Len(qu)
           c == Written(b, h, d)
           qv == Append(qu, d)
           r == [k \in 1 .. n + 2 |-> IF k = n + 2 THEN g ELSE p[k]]
<1>1. /\ n \in Nat /\ n > 0
      /\ \A k \in 1 .. n : qu[k] \in Datagram /\ qu[k].length \in Nat
  BY QueueFacts DEF Layout
<1>2. d.length \in Nat
  BY BufferAssumption DEF Datagram
<1>3. g \in 0 .. Capacity
  BY <1>2, WrapFacts
<1>4. /\ qv \in Seq(Datagram) /\ Len(qv) = n + 1 /\ qv # << >>
      /\ \A k \in 1 .. n : qv[k] = qu[k]
      /\ qv[n + 1] = d
  <2>1. qv \in Seq(Datagram) /\ Len(qv) = n + 1 /\ qv[n + 1] = d
    OBVIOUS
  <2>2. \A k \in 1 .. n : qv[k] = qu[k]
    OBVIOUS
  <2> QED
    BY <1>1, <2>1, <2>2, EmptySeq
<1> HIDE DEF n, qv
<1>5. /\ p \in [1 .. n + 1 -> 0 .. Capacity]
      /\ p[1] = t /\ p[n + 1] = h
      /\ \A k \in 1 .. n : /\ Stored(b, p[k], qu[k])
                           /\ p[k + 1] = Wrap(BlockEnd(p[k], qu[k].length))
      /\ \A j, k \in 1 .. n : j <= k => Between(p[j], h, p[k], qu[k].length)
  BY DEF Layout, n
<1>6. /\ r \in [1 .. n + 2 -> 0 .. Capacity]
      /\ r[n + 2] = g
      /\ \A k \in 1 .. n + 1 : r[k] = p[k]
  BY <1>1, <1>3, <1>5
<1> HIDE DEF r
<1>7. r[1] = t /\ r[n + 1] = h
  BY <1>1, <1>5, <1>6
<1>8. /\ c \in [0 .. BufLen - 1 -> 0 .. MaxDatagramLength \cup Payload]
      /\ Stored(c, h, d)
      /\ \A i \in 0 .. BufLen - 1 :
           ~(h <= i /\ i < BlockEnd(h, d.length)) => c[i] = b[i]
  BY WrittenFacts
<1> HIDE DEF c
<1>9. ASSUME NEW k \in 1 .. n
      PROVE  Stored(c, p[k], qu[k])
  <2>0. k \in 1 .. n + 1
    BY <1>1
  <2>1. p[k] \in 0 .. Capacity /\ qu[k].length \in Nat /\ Stored(b, p[k], qu[k])
    BY <1>1, <1>5, <2>0
  <2>2. Between(t, h, p[k], qu[k].length)
    <3>1. 1 \in 1 .. n /\ 1 <= k
      BY <1>1
    <3> QED
      BY <1>5, <3>1
  <2>3. qu[k] \in Datagram
    BY <1>1
  <2> QED
    BY <1>2, <1>8, <2>1, <2>2, <2>3, StoredKept
<1>10. ASSUME NEW k \in 1 .. n + 1
       PROVE  /\ Stored(c, r[k], qv[k])
              /\ r[k + 1] = Wrap(BlockEnd(r[k], qv[k].length))
  <2>1. CASE k = n + 1
    <3>1. k + 1 = n + 2
      BY <1>1, <2>1
    <3> QED
      BY <1>4, <1>6, <1>7, <1>8, <2>1, <3>1
  <2>2. CASE k # n + 1
    <3>1. k \in 1 .. n /\ k + 1 \in 1 .. n + 1
      BY <1>1, <2>2
    <3> QED
      BY <1>4, <1>5, <1>6, <1>9, <3>1
  <2> QED
    BY <2>1, <2>2
<1>10a. ASSUME NEW a \in 0 .. Capacity, NEW m \in Nat, Between(t, h, a, m),
             NEW q \in 0 .. Capacity, NEW l \in Nat, Between(a, h, q, l)
      PROVE  Between(a, g, q, l)
  BY <1>10a, <1>2, StillBetween
<1>11. ASSUME NEW j \in 1 .. n + 1, NEW k \in 1 .. n + 1, j <= k
       PROVE  Between(r[j], g, r[k], qv[k].length)
  <2>1. CASE j = n + 1
    <3>1. k = n + 1
      BY <1>1, <1>11, <2>1
    <3> QED
      BY <1>2, <1>4, <1>7, <2>1, <3>1, NewBetween
  <2>2. CASE j # n + 1
    <3>1. j \in 1 .. n /\ r[j] = p[j] /\ p[j] \in 0 .. Capacity /\ qu[j].length \in Nat
      BY <1>1, <1>5, <1>6, <2>2
    <3>2. Between(t, h, p[j], qu[j].length) /\ Between(p[j], h, p[j], qu[j].length)
      BY <1>1, <1>5, <3>1
    <3>3. CASE k = n + 1
      <4>1. Between(p[j], g, h, d.length)
        BY <1>2, <3>1, <3>2, StillBetween
      <4> QED
        BY <1>4, <1>7, <3>1, <3>3, <4>1
    <3>4. CASE k # n + 1
      <4>1. k \in 1 .. n /\ r[k] = p[k] /\ p[k] \in 0 .. Capacity /\ qu[k].length \in Nat
        BY <1>1, <1>5, <1>6, <3>4
      <4>2. Between(p[j], h, p[k], qu[k].length)
        BY <1>5, <1>11, <3>1, <4>1
      <4>3. Between(p[j], g, p[k], qu[k].length)
        BY <1>10a, <3>1, <3>2, <4>1, <4>2
      <4> QED
        BY <1>4, <3>1, <4>1, <4>3
    <3> QED
      BY <3>3, <3>4
  <2> QED
    BY <2>1, <2>2
<1>12. Len(qv) + 1 = n + 2
  BY <1>1, <1>4
<1>13. Layout(c, g, t, qv, r)
  BY <1>4, <1>6, <1>7, <1>10, <1>11, <1>12 DEF Layout
<1> QED
  BY <1>13 DEF c, qv

\* The first datagram of a ring that was, or looked, empty.
LEMMA FirstBlock ==
    ASSUME NEW b \in [0 .. BufLen - 1 -> 0 .. MaxDatagramLength \cup Payload],
           NEW h \in 0 .. Capacity, NEW d \in Datagram,
           NEW g, g = Wrap(BlockEnd(h, d.length)), g # h
    PROVE  \E r : Layout(Written(b, h, d), g, h, <<d>>, r)
<1> DEFINE c == Written(b, h, d)
           r == [k \in 1 .. 2 |-> IF k = 2 THEN g ELSE h]
<1>1. d.length \in Nat
  BY BufferAssumption DEF Datagram
<1>2. g \in 0 .. Capacity
  BY <1>1, WrapFacts
<1>3. Stored(c, h, d)
  BY WrittenFacts
<1>4. Between(h, g, h, d.length)
  BY <1>1, NewBetween
<1>5. r \in [1 .. 2 -> 0 .. Capacity] /\ r[1] = h /\ r[2] = g
  BY <1>2
<1> HIDE DEF r, c
<1>6. Len(<<d>>) = 1 /\ <<d>>[1] = d /\ <<d>> # << >>
  OBVIOUS
<1>7. Layout(c, g, h, <<d>>, r)
  BY <1>3, <1>4, <1>5, <1>6 DEF Layout
<1> QED
  BY <1>7 DEF c

\* The block at tail is the oldest datagram of the queue.
LEMMA FrontIsFirst ==
    ASSUME RingInv, ~IsEmpty
    PROVE  /\ Len(owed) \in Nat /\ Len(owed) > 0
           /\ buf[tail] = owed[1].length /\ owed[1].length \in Nat
           /\ Matches(owed[1])
<1>1. PICK p : Layout(buf, head, tail, owed, p)
  BY DEF RingInv, LaidOut
<1>2. /\ Len(owed) \in Nat /\ Len(owed) > 0
      /\ \A k \in 1 .. Len(owed) : /\ owed[k].length \in Nat
                                    /\ owed[k].length <= MaxDatagramLength
  BY <1>1, QueueFacts DEF RingInv, TypeOK, Layout
<1> DEFINE d == owed[1]
<1>3. d.length \in Nat /\ d.length <= MaxDatagramLength /\ Stored(buf, tail, d)
  BY <1>1, <1>2 DEF Layout
<1> HIDE DEF d
<1>4. DOMAIN buf = 0 .. BufLen - 1 /\ tail \in 0 .. Capacity
  BY DEF RingInv, TypeOK
<1> DEFINE I == {j \in DOMAIN buf : /\ tail + BlockHeader <= j
                                    /\ j < tail + BlockHeader + buf[tail]}
<1>5. buf[tail] = d.length
  BY <1>3 DEF Stored
<1>6. \A i \in I : buf[i] = d.content
  BY <1>3, <1>5 DEF Stored, BlockEnd
<1>7. d.length = 0 => I = {}
  BY <1>4, <1>5, BufferAssumption DEF BufLen
<1>8. d.length # 0 => tail + BlockHeader \in I
  BY <1>3, <1>4, <1>5, BufferAssumption DEF BufLen
<1> HIDE DEF I
<1>9. Front.length = d.length /\ Front.content = {buf[i] : i \in I}
  BY <1>5 DEF Front, I
<1>10. {buf[i] : i \in I} = IF d.length = 0 THEN {} ELSE {d.content}
  <2>1. CASE d.length = 0
    BY <1>7, <2>1
  <2>2. CASE d.length # 0
    BY <1>6, <1>8, <2>2
  <2> QED
    BY <2>1, <2>2
<1>11. Matches(d)
  BY <1>9, <1>10 DEF Matches
<1> QED
  BY <1>2, <1>3, <1>5, <1>11 DEF d

\* Hence write_to hands over the oldest datagram and leaves the others.
LEMMA WriteToTakesFirst ==
    ASSUME RingInv, WriteTo
    PROVE  /\ ~IsEmpty
           /\ tail' = Wrap(BlockEnd(tail, owed[1].length))
           /\ out' = <<owed[1]>> /\ owed' = Tail(owed)
<1> DEFINE found == {k \in 1 .. Len(owed) : Matches(owed[k])}
<1>1. ~IsEmpty
  BY DEF WriteTo
<1>2. /\ Len(owed) \in Nat /\ Len(owed) > 0
      /\ buf[tail] = owed[1].length
      /\ Matches(owed[1])
  BY <1>1, FrontIsFirst
<1>3. 1 \in found /\ found # {}
  BY <1>2
<1>4. \A k \in found : k \in Nat /\ 1 <= k
  BY <1>2
<1> HIDE DEF found
<1>5. Min(found) = 1
  <2>1. Min(found) \in found /\ \A k \in found : Min(found) <= k
    BY <1>3, <1>4 DEF Min
  <2> QED
    BY <1>3, <1>4, <2>1
<1>6. /\ tail' = Wrap(tail + BlockHeader + buf[tail])
      /\ out' = <<owed[1]>> /\ owed' = SubSeq(owed, 2, Len(owed))
  <2>1. /\ tail' = Wrap(tail + BlockHeader + buf[tail])
        /\ out' = IF found = {} THEN << >> ELSE <<owed[Min(found)]>>
        /\ owed' = IF found = {} THEN << >> ELSE SubSeq(owed, Min(found) + 1, Len(owed))
    BY Zenon DEF WriteTo, found
  <2>2. 1 + 1 = 2
    OBVIOUS
  <2> QED
    BY <1>3, <1>5, <2>1, <2>2, Zenon
<1>7. owed \in Seq(Datagram)
  BY DEF RingInv, TypeOK
<1>8. owed' = Tail(owed)
  <2>1. owed # << >>
    BY <1>2, <1>7, EmptySeq
  <2> QED
    BY <1>6, <1>7, <2>1, TailIsSubSeq
<1> QED
  BY <1>1, <1>2, <1>6, <1>8 DEF BlockEnd

\* What is left has the rest of the layout.
LEMMA Shortened ==
    ASSUME NEW b, NEW h \in 0 .. Capacity, NEW t \in 0 .. Capacity,
           NEW qu \in Seq(Datagram), NEW p, Layout(b, h, t, qu, p),
           NEW u, u = Wrap(BlockEnd(t, qu[1].length)), u # h
    PROVE  \E r : Layout(b, h, u, Tail(qu), r)
<1> DEFINE n == Len(qu)
           qv == Tail(qu)
           r == [k \in 1 .. n |-> p[k + 1]]
<1>1. n \in Nat /\ n > 0
  BY QueueFacts DEF Layout
<1>2. /\ qv \in Seq(Datagram) /\ Len(qv) = n - 1
      /\ \A k \in 1 .. n - 1 : qv[k] = qu[k + 1]
  BY <1>1
<1> HIDE DEF n, qv
<1>3. /\ p \in [1 .. n + 1 -> 0 .. Capacity]
      /\ p[1] = t /\ p[n + 1] = h
      /\ \A k \in 1 .. n : /\ Stored(b, p[k], qu[k])
                           /\ p[k + 1] = Wrap(BlockEnd(p[k], qu[k].length))
      /\ \A j, k \in 1 .. n : j <= k => Between(p[j], h, p[k], qu[k].length)
  BY DEF Layout, n
<1>4. p[2] = u
  BY <1>1, <1>3
<1>5. n > 1
  BY <1>1, <1>3, <1>4
<1>6. qv # << >>
  BY <1>1, <1>2, <1>5, EmptySeq
<1>7. /\ r \in [1 .. n -> 0 .. Capacity] /\ \A k \in 1 .. n : r[k] = p[k + 1]
  BY <1>1, <1>3
<1> HIDE DEF r
<1>8. r[1] = u /\ r[n] = h
  BY <1>1, <1>3, <1>4, <1>7
<1>9. ASSUME NEW k \in 1 .. n - 1
      PROVE  /\ Stored(b, r[k], qv[k])
             /\ r[k + 1] = Wrap(BlockEnd(r[k], qv[k].length))
  <2>1. k + 1 \in 1 .. n /\ k \in 1 .. n
    BY <1>1
  <2> QED
    BY <1>2, <1>3, <1>7, <2>1
<1>10. ASSUME NEW j \in 1 .. n - 1, NEW k \in 1 .. n - 1, j <= k
       PROVE  Between(r[j], h, r[k], qv[k].length)
  <2>1. j + 1 \in 1 .. n /\ k + 1 \in 1 .. n /\ j \in 1 .. n /\ k \in 1 .. n /\ j + 1 <= k + 1
    BY <1>1, <1>10
  <2> QED
    BY <1>2, <1>3, <1>7, <2>1
<1>11. Len(qv) + 1 = n
  BY <1>1, <1>2
<1>12. Layout(b, h, u, qv, r)
  BY <1>2, <1>6, <1>7, <1>8, <1>9, <1>10, <1>11 DEF Layout
<1> QED
  BY <1>12 DEF qv

\* When head is reached, nothing is left.
LEMMA Drained ==
    ASSUME NEW b, NEW h \in 0 .. Capacity, NEW t \in 0 .. Capacity,
           NEW qu \in Seq(Datagram), NEW p, Layout(b, h, t, qu, p),
           h = Wrap(BlockEnd(t, qu[1].length))
    PROVE  Tail(qu) = << >>
<1> DEFINE n == Len(qu)
<1>1. n \in Nat /\ n > 0 /\ qu # << >>
  BY QueueFacts DEF Layout
<1>2. p[2] = h
  BY <1>1 DEF Layout
<1>3. n = 1
  <2>1. 2 \in 1 .. n => Between(p[2], h, p[2], qu[2].length)
    BY DEF Layout
  <2>2. ~Between(h, h, p[2], qu[2].length)
    BY DEF Between
  <2> HIDE DEF n
  <2>3. 2 \notin 1 .. n
    BY <1>2, <2>1, <2>2
  <2> QED
    BY <1>1, <2>3
<1>4. Tail(qu) \in Seq(Datagram) /\ Len(Tail(qu)) = 0
  BY <1>1, <1>3, HeadTailProperties
<1> QED
  BY <1>4, EmptySeq

-------------------------------------------------------------------------------
(* The theorems. *)

\* The ring starts empty.
LEMMA InitRing == Init => RingInv
<1> SUFFICES ASSUME Init
             PROVE  RingInv
  OBVIOUS
<1>1. TypeOK
  <2>1. 0 \in 0 .. MaxDatagramLength /\ 0 \in 0 .. Capacity
    BY BufferAssumption
  <2> QED
    BY <2>1 DEF Init, TypeOK
<1>2. LaidOut
  BY DEF Init, LaidOut, IsEmpty
<1>3. LooksEmptyAtZeroOnly
  BY DEF Init, LooksEmptyAtZeroOnly
<1> QED
  BY <1>1, <1>2, <1>3 DEF RingInv

\* read_from keeps the queue laid out.
LEMMA ReadFromRing ==
    ASSUME RingInv, NEW d \in Datagram, ReadFrom(d)
    PROVE  RingInv'
<1>1. /\ buf \in [0 .. BufLen - 1 -> 0 .. MaxDatagramLength \cup Payload]
      /\ head \in 0 .. Capacity /\ tail \in 0 .. Capacity
      /\ owed \in Seq(Datagram) /\ out \in Seq(Datagram)
  BY DEF RingInv, TypeOK
<1>2. tail' = tail /\ out' = << >>
  BY DEF ReadFrom
<1>3. CASE HasEnoughSpaceFor(d.length)
  <2>1. /\ buf' = Written(buf, head, d)
        /\ head' = Wrap(BlockEnd(head, d.length))
        /\ owed' = IF IsEmpty THEN <<d>> ELSE Append(owed, d)
    <3>1. Append(<< >>, d) = <<d>>
      OBVIOUS
    <3> QED
      BY <1>3, <3>1 DEF ReadFrom, Written, BlockEnd
  <2>2. head >= tail \/ BlockHeader + d.length <= tail - head - 1
    BY <1>3 DEF HasEnoughSpaceFor
  <2>3. d.length \in Nat
    BY BufferAssumption DEF Datagram
  <2>4. TypeOK'
    <3>1. buf' \in [0 .. BufLen - 1 -> 0 .. MaxDatagramLength \cup Payload]
      BY <1>1, <2>1, WrittenFacts
    <3>2. head' \in 0 .. Capacity
      BY <1>1, <2>1, <2>3, WrapFacts
    <3>3. owed' \in Seq(Datagram) /\ out' \in Seq(Datagram)
      BY <1>1, <1>2, <2>1
    <3> QED
      BY <1>1, <1>2, <3>1, <3>2, <3>3 DEF TypeOK
  <2>5. ASSUME head' # tail'
        PROVE  \E r : Layout(buf', head', tail', owed', r)
    <3>1. CASE IsEmpty
      <4>1. \E r : Layout(Written(buf, head, d), head', head, <<d>>, r)
        BY <1>1, <1>2, <2>1, <2>5, <3>1, FirstBlock DEF IsEmpty
      <4> QED
        BY <1>2, <2>1, <3>1, <4>1 DEF IsEmpty
    <3>2. CASE ~IsEmpty
      <4>1. PICK p : Layout(buf, head, tail, owed, p)
        BY <3>2 DEF RingInv, LaidOut
      <4>2. \E r : Layout(Written(buf, head, d), head', tail, Append(owed, d), r)
        BY <1>1, <1>2, <2>1, <2>2, <2>5, <3>2, <4>1, Extended DEF IsEmpty
      <4> QED
        BY <1>2, <2>1, <3>2, <4>2
    <3> QED
      BY <3>1, <3>2
  <2>6. ASSUME head' = tail'
        PROVE  head' = 0
    <3>1. /\ BlockEnd(head, d.length) = head + BlockHeader + d.length
          /\ \/ head' = BlockEnd(head, d.length)
             \/ head' = 0
      BY <1>1, <2>1, <2>3, WrapFacts DEF BlockEnd
    <3> QED
      BY <1>1, <1>2, <2>2, <2>3, <2>6, <3>1, BufferAssumption
  <2> QED
    BY <2>4, <2>5, <2>6 DEF RingInv, LaidOut, LooksEmptyAtZeroOnly, IsEmpty
<1>4. CASE ~HasEnoughSpaceFor(d.length)
  <2>1. buf' = buf /\ head' = head /\ owed' = owed
    BY <1>4 DEF ReadFrom
  <2> QED
    BY <1>1, <1>2, <2>1 DEF RingInv, TypeOK, LaidOut, LooksEmptyAtZeroOnly, IsEmpty
<1> QED
  BY <1>3, <1>4

\* write_to keeps the queue laid out.
LEMMA WriteToRing ==
    ASSUME RingInv, WriteTo
    PROVE  RingInv'
<1>1. /\ buf \in [0 .. BufLen - 1 -> 0 .. MaxDatagramLength \cup Payload]
      /\ head \in 0 .. Capacity /\ tail \in 0 .. Capacity
      /\ owed \in Seq(Datagram)
  BY DEF RingInv, TypeOK
<1>2. /\ ~IsEmpty
      /\ tail' = Wrap(BlockEnd(tail, owed[1].length))
      /\ out' = <<owed[1]>> /\ owed' = Tail(owed)
      /\ buf' = buf /\ head' = head
  BY WriteToTakesFirst DEF WriteTo
<1>3. Len(owed) \in Nat /\ Len(owed) > 0 /\ owed[1].length \in Nat
  BY <1>2, FrontIsFirst
<1>4. TypeOK'
  <2>1. tail' \in 0 .. Capacity
    BY <1>1, <1>2, <1>3, WrapFacts
  <2>2. owed' \in Seq(Datagram) /\ out' \in Seq(Datagram)
    BY <1>1, <1>2, <1>3
  <2> QED
    BY <1>1, <1>2, <2>1, <2>2 DEF TypeOK
<1>5. ASSUME head' # tail'
      PROVE  \E r : Layout(buf', head', tail', owed', r)
  <2>1. PICK p : Layout(buf, head, tail, owed, p)
    BY <1>2 DEF RingInv, LaidOut
  <2>2. \E r : Layout(buf, head, tail', Tail(owed), r)
    BY <1>1, <1>2, <1>5, <2>1, Shortened
  <2> QED
    BY <1>2, <2>2
<1>6. ASSUME head' = tail'
      PROVE  owed' = << >>
  <2>1. PICK p : Layout(buf, head, tail, owed, p)
    BY <1>2 DEF RingInv, LaidOut
  <2> QED
    BY <1>1, <1>2, <1>6, <2>1, Drained
<1> QED
  BY <1>4, <1>5, <1>6 DEF RingInv, LaidOut, LooksEmptyAtZeroOnly, IsEmpty

\* Every step keeps the queue laid out.
LEMMA RingStep == RingInv /\ [Next]_vars => RingInv'
<1> SUFFICES ASSUME RingInv, [Next]_vars
             PROVE  RingInv'
  OBVIOUS
<1>1. CASE \E d \in Datagram : ReadFrom(d)
  BY <1>1, ReadFromRing
<1>2. CASE WriteTo
  BY <1>2, WriteToRing
<1>3. CASE UNCHANGED vars
  BY <1>3 DEF vars, RingInv, TypeOK, LaidOut, LooksEmptyAtZeroOnly, IsEmpty
<1> QED
  BY <1>1, <1>2, <1>3 DEF Next

\* In such a ring no slice is out of range and the block at tail is a datagram.
LEMMA RingIsWhole == RingInv => DatagramsAreWhole
<1> SUFFICES ASSUME RingInv
             PROVE  DatagramsAreWhole
  OBVIOUS
<1>1. FrontIsWhole
  <2> SUFFICES ASSUME ~IsEmpty
               PROVE  \E k \in 1 .. Len(owed) : Matches(owed[k])
    BY DEF FrontIsWhole
  <2>1. Len(owed) \in Nat /\ Len(owed) > 0 /\ Matches(owed[1])
    BY FrontIsFirst
  <2> QED
    BY <2>1
<1>2. AcceptedFitsInBuffer
  BY BufferAssumption DEF RingInv, TypeOK, AcceptedFitsInBuffer, BufLen
<1> QED
  BY <1>1, <1>2 DEF DatagramsAreWhole

\* The queue is laid out in every reachable state.
THEOREM RingInvariance == Spec => []RingInv
BY InitRing, RingStep, PTL DEF Spec

\* Head and tail stay inside the circular length, whatever lengths are read back
\* from the buffer.
THEOREM RingTypeCorrect == Spec => []TypeOK
<1>1. RingInv => TypeOK
  BY DEF RingInv
<1> QED
  BY <1>1, RingInvariance, PTL

\* The block write_to slices is always one whole datagram that was accepted, and
\* read_from never slices past the buffer.
THEOREM RingKeepsDatagramsWhole == Spec => []DatagramsAreWhole
BY RingIsWhole, RingInvariance, PTL

\* The full ring that looks empty ("1 extra byte to distinguish empty vs full") is
\* met in one place only: head wraps onto a tail that is at 0.
THEOREM LooksEmptyOnlyAtZero == Spec => []LooksEmptyAtZeroOnly
<1>1. RingInv => LooksEmptyAtZeroOnly
  BY DEF RingInv
<1> QED
  BY <1>1, RingInvariance, PTL

\* Apart from that the ring is a FIFO: every step of a ring that does not look
\* empty while it owes datagrams is a step of DatagramFifo.
THEOREM FifoUnlessItLooksEmpty ==
    Spec => [][(IsEmpty => owed = << >>) => Fifo!Next \/ UNCHANGED <<owed, out>>]_vars
<1>1. RingInv /\ [Next]_vars
        => [(IsEmpty => owed = << >>) => Fifo!Next \/ UNCHANGED <<owed, out>>]_vars
  <2> SUFFICES ASSUME RingInv, Next, IsEmpty => owed = << >>
               PROVE  Fifo!Next \/ UNCHANGED <<owed, out>>
    OBVIOUS
  <2>1. ASSUME NEW d \in Datagram, ReadFrom(d)
        PROVE  Fifo!Next
    <3>1. CASE HasEnoughSpaceFor(d.length)
      <4>1. owed' = Append(owed, d) /\ out' = << >>
        BY <2>1, <3>1 DEF ReadFrom
      <4> QED
        BY <4>1 DEF Fifo!Next, Fifo!Accept
    <3>2. CASE ~HasEnoughSpaceFor(d.length)
      <4>1. owed' = owed /\ out' = << >>
        BY <2>1, <3>2 DEF ReadFrom
      <4> QED
        BY <4>1 DEF Fifo!Next, Fifo!Refuse
    <3> QED
      BY <3>1, <3>2
  <2>2. CASE WriteTo
    <3>1. ~IsEmpty /\ out' = <<owed[1]>> /\ owed' = Tail(owed)
      BY <2>2, WriteToTakesFirst
    <3>2. owed \in Seq(Datagram) /\ Len(owed) > 0 /\ Len(owed) \in Nat
      BY <3>1, FrontIsFirst DEF RingInv, TypeOK
    <3>3. owed # << >> /\ Head(owed) = owed[1]
      BY <3>2, EmptySeq
    <3> QED
      BY <3>1, <3>3 DEF Fifo!Next, Fifo!HandOver
  <2> QED
    BY <2>1, <2>2 DEF Next
<1> QED
  BY <1>1, RingInvariance, PTL DEF Spec
===============================================================================
