------------------------------- MODULE TxFifo -------------------------------
(***************************************************************************)
(* What a transmit path promises: a bounded first-in first-out queue of    *)
(* frames.  A frame is accepted whole, and the next frame on the wire is   *)
(* the oldest accepted one, unchanged.                                     *)
(***************************************************************************)
EXTENDS Naturals, Sequences

CONSTANTS Frame, Capacity

VARIABLES queue, wire

Init == queue = <<>> /\ wire = <<>>

Accept(p) == /\ Len(queue) < Capacity
             /\ queue' = Append(queue, p)
             /\ wire' = wire

Transmit == /\ queue # <<>>
            /\ wire' = Head(queue)
            /\ queue' = Tail(queue)

Next == (\E p \in Frame : Accept(p)) \/ Transmit

Spec == Init /\ [][Next]_<<queue, wire>>

=============================================================================
