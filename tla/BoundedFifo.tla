---------------------------- MODULE BoundedFifo -----------------------------
(***************************************************************************)
(* What a message queue between two processes promises: a bounded FIFO in  *)
(* which every accepted message is handed out once, in order.  Messages    *)
(* are numbered in the order the writer offers them.                       *)
(***************************************************************************)
EXTENDS Naturals, Sequences

CONSTANTS Capacity, Messages

VARIABLES queue,      \* accepted, not yet handed out
          received    \* handed out, in order

vars == <<queue, received>>

Init == queue = <<>> /\ received = <<>>

Put(m) == /\ Len(queue) < Capacity
          /\ queue' = Append(queue, m)
          /\ UNCHANGED received

Take == /\ queue # <<>>
        /\ received' = Append(received, Head(queue))
        /\ queue' = Tail(queue)

Next == Take \/ \E m \in Messages : Put(m)

Spec == Init /\ [][Next]_vars
=============================================================================
