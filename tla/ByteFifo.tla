------------------------------- MODULE ByteFifo -------------------------------
(***************************************************************************)
(* What a stream buffer promises: a bounded FIFO of bytes. A producer      *)
(* appends a whole chunk when it fits; a consumer takes any non-empty      *)
(* prefix. out is the slice handed to the consumer by the last step.       *)
(***************************************************************************)
EXTENDS Naturals, Sequences

CONSTANTS Capacity,   \* the most bytes the buffer ever holds
          Byte        \* the values a byte can take

VARIABLES queue, out

vars == <<queue, out>>

Init == queue = << >> /\ out = << >>

Put(chunk) == /\ Len(queue) + Len(chunk) <= Capacity
              /\ queue' = queue \o chunk
              /\ out' = << >>

Take(n) == /\ out' = SubSeq(queue, 1, n)
           /\ queue' = SubSeq(queue, n + 1, Len(queue))

\* Nothing moves: an empty buffer, or a destination that refuses the write.
Idle == out' = << >> /\ UNCHANGED queue

Chunks == UNION {[1 .. n -> Byte] : n \in 0 .. Capacity}

Next == \/ \E chunk \in Chunks : Put(chunk)
        \/ \E n \in 1 .. Len(queue) : Take(n)
        \/ Idle

Spec == Init /\ [][Next]_vars
===============================================================================
