------------------------------- MODULE RxFifo -------------------------------
(***************************************************************************)
(* What a receive path promises: frames are taken once each, in the order  *)
(* of their arrival, from a bounded queue.  Once memory has failed it      *)
(* promises no order any more.                                             *)
(***************************************************************************)
EXTENDS Naturals, Sequences

CONSTANTS Frame, NoFrame, Capacity

VARIABLES queue, received, broken

Init == queue = <<>> /\ received = NoFrame /\ broken = FALSE

Arrive(p) == /\ ~broken
             /\ Len(queue) < Capacity
             /\ queue' = Append(queue, p)
             /\ UNCHANGED <<received, broken>>

Take == /\ ~broken
        /\ queue # <<>>
        /\ received' = Head(queue)
        /\ queue' = Tail(queue)
        /\ UNCHANGED broken

Break == /\ ~broken
         /\ broken' = TRUE
         /\ queue' = <<>>
         /\ UNCHANGED received

TakeAny == /\ broken
           /\ received' \in Frame
           /\ UNCHANGED <<queue, broken>>

Next == (\E p \in Frame : Arrive(p)) \/ Take \/ Break \/ TakeAny

Spec == Init /\ [][Next]_<<queue, received, broken>>

=============================================================================
