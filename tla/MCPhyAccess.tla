---------------------------- MODULE MCPhyAccess ----------------------------
(* Model checking of the PHY access: the LAN port's PHY 0 and the WAN       *)
(* port's PHY 9, whose high address bits differ.                            *)
EXTENDS PhyAccess

=============================================================================
