------------------------------ MODULE MCGswRx ------------------------------
(* Model checking of the receive path: a small ring, few frames.           *)
EXTENDS GswRx

=============================================================================
