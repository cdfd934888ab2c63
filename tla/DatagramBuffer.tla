---------------------------- MODULE DatagramBuffer ----------------------------
(***************************************************************************)
(* relay/src/relay/datagram_buffer.rs: the circular buffer that holds the  *)
(* client's UDP datagrams until the socket is writable. A block is a       *)
(* length header followed by the payload and never wraps: past the         *)
(* circular length there is extra space for the end of one block.          *)
(***************************************************************************)
EXTENDS Integers, Sequences, FiniteSetsExt

CONSTANTS Capacity,           \* the argument of DatagramBuffer::new
          MaxDatagramLength,  \* MAX_DATAGRAM_LENGTH
          BlockHeader,        \* HEADER_LENGTH
          Payload             \* what a payload byte can be

ASSUME BufferAssumption ==
    /\ Capacity \in Nat \ {0}
    /\ MaxDatagramLength \in Nat
    /\ BlockHeader \in Nat \ {0}

VARIABLES buf, head, tail,
          owed,   \* history: datagrams accepted and not handed to the socket
          out     \* the datagram handed to the socket by the last step

vars == <<buf, head, tail, owed, out>>

BufLen == Capacity + BlockHeader + MaxDatagramLength

CircularBufferLength == Capacity + 1

\* A datagram, possibly empty, is a run of one value: its length and its content.
Datagram == [length : 0 .. MaxDatagramLength, content : Payload]

IsEmpty == head = tail

\* Mutant of HasEnoughSpaceFor: forgets the header of the block.
HasEnoughSpaceForPayload(length) == head >= tail \/ length <= tail - head - 1

HasEnoughSpaceFor(length) ==
    head >= tail \/ BlockHeader + length <= tail - head - 1

\* Mutant of Wrap: off by one at the circular length.
WrapLate(i) == IF i > CircularBufferLength THEN 0 ELSE i

Wrap(i) == IF i >= CircularBufferLength THEN 0 ELSE i

Init == /\ buf = [i \in 0 .. BufLen - 1 |-> 0]
        /\ head = 0
        /\ tail = 0
        /\ owed = << >>
        /\ out = << >>

\* read_from: write_length() stores the length at head, the payload follows. A
\* datagram that does not fit is an error and the caller drops it. A buffer that
\* looks empty can hand nothing over, so the history forgets what it still held.
ReadFrom(d) ==
    LET start == head + BlockHeader IN
    /\ IF HasEnoughSpaceFor(d.length)
       THEN /\ buf' = [i \in DOMAIN buf |->
                         IF head <= i /\ i < start THEN d.length
                         ELSE IF start <= i /\ i < start + d.length THEN d.content
                         ELSE buf[i]]
            /\ head' = Wrap(start + d.length)
            /\ owed' = Append(IF IsEmpty THEN << >> ELSE owed, d)
       ELSE UNCHANGED <<buf, head, owed>>
    /\ out' = << >>
    /\ UNCHANGED tail

\* The block write_to slices at tail: the length read_length() finds, the payload.
Front == [length |-> buf[tail],
          content |-> {buf[i] : i \in {j \in DOMAIN buf :
                          /\ tail + BlockHeader <= j
                          /\ j < tail + BlockHeader + buf[tail]}}]

Matches(d) == /\ d.length = Front.length
              /\ Front.content = IF d.length = 0 THEN {} ELSE {d.content}

\* write_to: tail moves before send() is called, so a socket that fails or blocks
\* loses the datagram but not the buffer. The history drops what Front stands for
\* and whatever was accepted before it.
WriteTo ==
    LET found == {k \in 1 .. Len(owed) : Matches(owed[k])} IN
    /\ ~IsEmpty
    /\ tail' = Wrap(tail + BlockHeader + buf[tail])
    /\ out' = IF found = {} THEN << >> ELSE <<owed[Min(found)]>>
    /\ owed' = IF found = {} THEN << >> ELSE SubSeq(owed, Min(found) + 1, Len(owed))
    /\ UNCHANGED <<buf, head>>

Next == \/ \E d \in Datagram : ReadFrom(d)
        \/ WriteTo

Spec == Init /\ [][Next]_vars

-------------------------------------------------------------------------------
TypeOK == /\ buf \in [0 .. BufLen - 1 -> 0 .. MaxDatagramLength \cup Payload]
          /\ head \in 0 .. Capacity
          /\ tail \in 0 .. Capacity
          /\ owed \in Seq(Datagram)
          /\ out \in Seq(Datagram)

\* Whatever has been accepted, lost or overwritten before, the block at tail is
\* one whole datagram the client sent, never the middle of one or a mix of two
\* (boundaries are preserved across wrap-around and the extra space).
FrontIsWhole == ~IsEmpty => \E k \in 1 .. Len(owed) : Matches(owed[k])

\* A datagram of the maximal length that has_enough_space_for() admits stays
\* inside buf, wherever head is: no slice of read_from is out of range.
AcceptedFitsInBuffer ==
    HasEnoughSpaceFor(MaxDatagramLength) =>
        head + BlockHeader + MaxDatagramLength <= BufLen

\* Neither call of the ring cuts or mixes datagrams (read_from, write_to).
DatagramsAreWhole == FrontIsWhole /\ AcceptedFitsInBuffer

Fifo == INSTANCE DatagramFifo WITH queue <- owed

\* "1 extra byte to distinguish empty vs full": no accepted datagram disappears
\* from the queue; they are handed over in order, all of them.
ImplementsFifo == Fifo!Spec
===============================================================================
