--------------------------- MODULE MCHostPressure ---------------------------
(* Instances of HostPressure for TLC. *)
EXTENDS HostPressure

=============================================================================
