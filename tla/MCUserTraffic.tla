--------------------------- MODULE MCUserTraffic ---------------------------
(* UserTraffic for TLC: all constants are given in the configurations. *)
EXTENDS UserTraffic
=============================================================================
