----------------------------- MODULE DatagramFifo -----------------------------
(***************************************************************************)
(* What a datagram buffer promises: datagrams leave whole, one at a time,  *)
(* in the order they were accepted. UDP may lose a datagram at the socket, *)
(* never one that is still queued.                                         *)
(***************************************************************************)
EXTENDS Naturals, Sequences

CONSTANT Datagram

VARIABLES queue,   \* accepted and not handed to the socket yet
          out      \* the datagram handed to the socket by the last step

vars == <<queue, out>>

Init == queue = << >> /\ out = << >>

Accept(d) == queue' = Append(queue, d) /\ out' = << >>

Refuse == UNCHANGED queue /\ out' = << >>

HandOver == /\ queue # << >>
            /\ out' = <<Head(queue)>>
            /\ queue' = Tail(queue)

Next == (\E d \in Datagram : Accept(d)) \/ Refuse \/ HandOver

Spec == Init /\ [][Next]_vars
===============================================================================
