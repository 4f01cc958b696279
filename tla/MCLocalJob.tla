----------------------------- MODULE MCLocalJob -----------------------------
(* Instances of LocalJob for TLC. *)
EXTENDS LocalJob, TLC

\* For the instances where every job is submitted and none is recovered: then
\* nothing tells one job from another.
JobSymmetry == Permutations(Jobs)

=============================================================================
