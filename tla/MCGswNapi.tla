----------------------------- MODULE MCGswNapi -----------------------------
(* Model checking of open and close with two devices.                     *)
EXTENDS GswNapi, TLC

=============================================================================
