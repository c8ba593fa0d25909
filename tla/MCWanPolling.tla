---------------------------- MODULE MCWanPolling ----------------------------
(* Model checking of the WAN port's polling: no speed, 100 Mbps half and   *)
(* 1000 Mbps full duplex.                                                  *)
EXTENDS WanPolling

=============================================================================
