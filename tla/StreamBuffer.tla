----------------------------- MODULE StreamBuffer -----------------------------
(***************************************************************************)
(* relay/src/relay/stream_buffer.rs: the circular byte buffer used for     *)
(* both directions of every TCP flow and for the client link. The ring has *)
(* one cell more than its capacity, so that head = tail means empty.       *)
(***************************************************************************)
EXTENDS Integers, Sequences

CONSTANTS Capacity,   \* the argument of StreamBuffer::new
          Byte        \* the values a byte can take

ASSUME CapacityAssumption == Capacity \in Nat \ {0}
ASSUME ByteAssumption == Byte # {}

VARIABLES buf, head, tail,
          out           \* the bytes the destination accepted in the last step

vars == <<buf, head, tail, out>>

BufLen == Capacity + 1

Cells == 0 .. Capacity

IsEmpty == head = tail

Size == IF head < tail THEN head + BufLen - tail ELSE head - tail

\* Mutant of Remaining: the cell that keeps a full ring from looking empty is used.
RemainingOneTooMany == BufLen - Size

Remaining == Capacity - Size

Init == /\ buf \in [Cells -> Byte]
        /\ head = 0
        /\ tail = 0
        /\ out = << >>

(***************************************************************************)
(* read_from: the callers test remaining() first, so the assertion is the  *)
(* guard. Both branches of the copy are one function: a cell right of head *)
(* takes the start of the chunk, a cell left of it the part that wrapped.  *)
(***************************************************************************)
ReadFrom(source) ==
    LET n == Len(source) IN
    /\ n <= Remaining
    /\ buf' = [i \in Cells |->
                 IF head <= i /\ i < head + n THEN source[i - head + 1]
                 ELSE IF i + BufLen < head + n THEN source[i + BufLen - head + 1]
                 ELSE buf[i]]
    /\ head' = (head + n) % BufLen
    /\ out' = << >>
    /\ UNCHANGED tail

\* The slice write_to offers: up to head, or up to the end of the ring.
Contiguous == IF head > tail THEN head - tail ELSE BufLen - tail

\* write_to when the destination accepts w bytes of the slice, then optimize():
\* a buffer that became empty restarts at cell 0.
WriteTo(w) ==
    LET next == IF head > tail THEN tail + w ELSE (tail + w) % BufLen IN
    /\ ~IsEmpty
    /\ w \in 1 .. Contiguous
    /\ out' = [i \in 1 .. w |-> buf[tail + i - 1]]
    /\ head' = IF next = head THEN 0 ELSE head
    /\ tail' = IF next = head THEN 0 ELSE next
    /\ UNCHANGED buf

\* write_to on an empty buffer returns Ok(0); on an error of the destination
\* the `?` returns before tail moves.
WriteNothing == out' = << >> /\ UNCHANGED <<buf, head, tail>>

\* No caller passes a chunk longer than remaining(), hence than the capacity.
Chunks == UNION {[1 .. n -> Byte] : n \in 0 .. Capacity}

Next == \/ \E source \in Chunks : ReadFrom(source)
        \/ \E w \in 1 .. BufLen : WriteTo(w)
        \/ WriteNothing

Spec == Init /\ [][Next]_vars

-------------------------------------------------------------------------------
TypeOK == /\ buf \in [Cells -> Byte]
          /\ head \in Cells
          /\ tail \in Cells
          /\ out \in Seq(Byte)

\* The bytes held, oldest first.
Contents == [i \in 1 .. Size |->
               IF tail + i - 1 < BufLen THEN buf[tail + i - 1]
                                        ELSE buf[tail + i - 1 - BufLen]]

Fifo == INSTANCE ByteFifo WITH queue <- Contents

\* Every byte given to read_from comes out of write_to once, in order, across
\* wrap-around, partial writes and the reset of optimize(): the ring implements
\* a bounded FIFO of bytes.
ImplementsFifo == Fifo!Spec

\* An empty ring always restarts at cell 0 (stream_buffer.rs, comment of
\* optimize()), so a packet written into an empty buffer is one contiguous slice.
EmptyMeansReset == IsEmpty => head = 0
===============================================================================
