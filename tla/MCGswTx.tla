------------------------------ MODULE MCGswTx ------------------------------
(* Model checking of the transmit path: small rings, few buffers.          *)
EXTENDS GswTx

=============================================================================
