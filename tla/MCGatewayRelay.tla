--------------------------- MODULE MCGatewayRelay ---------------------------
(* The relay with interchangeable jobs.                                    *)
EXTENDS GatewayRelay, TLC

Symmetry == Permutations(Jobs)
=============================================================================
