--------------------------- MODULE MCFleetRollout ---------------------------
(* The fleet rollout with a driver and one scheduler host.                 *)
EXTENDS FleetRollout
=============================================================================
