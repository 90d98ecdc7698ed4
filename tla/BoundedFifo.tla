---------------------------- MODULE BoundedFifo -----------------------------
(***************************************************************************)
(* The bounded first-in first-out queue that several components of the      *)
(* repository implement, with a linked list or with an array used as a      *)
(* ring: an element is appended when there is room and taken from the       *)
(* front, and is neither lost, duplicated nor overtaken in between.         *)
(***************************************************************************)
EXTENDS Naturals, Sequences

CONSTANTS Elem, Capacity

VARIABLE fifo

FifoType == fifo \in Seq(Elem) /\ Len(fifo) <= Capacity

Init == fifo = <<>>

Put(x) == Len(fifo) < Capacity /\ fifo' = Append(fifo, x)

Get == fifo # <<>> /\ fifo' = Tail(fifo)

Next == Get \/ \E x \in Elem : Put(x)

Spec == Init /\ [][Next]_fifo
=============================================================================
