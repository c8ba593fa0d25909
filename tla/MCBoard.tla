------------------------------ MODULE MCBoard ------------------------------
(* Model checking of the board: margins of no, one and two seconds, at most *)
(* two open files, and thresholds of two and four seconds.                  *)
EXTENDS Board

=============================================================================
