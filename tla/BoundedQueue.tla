---------------------------- MODULE BoundedQueue ----------------------------
(***************************************************************************)
(* What the ring of accepted sockets of mongoose promises: a first in,     *)
(* first out queue that never holds more than Size elements.               *)
(***************************************************************************)
EXTENDS Naturals, Sequences

CONSTANTS Elements, Size

VARIABLE fifo

Init == fifo = <<>>

\* An element goes in at the end, if there is room.
Put(e) == Len(fifo) < Size /\ fifo' = Append(fifo, e)

\* The oldest element comes out.
Get == fifo # <<>> /\ fifo' = Tail(fifo)

Next == (\E e \in Elements : Put(e)) \/ Get

Spec == Init /\ [][Next]_fifo
=============================================================================
