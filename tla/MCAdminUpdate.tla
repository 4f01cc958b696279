--------------------------- MODULE MCAdminUpdate ---------------------------
(* AdminUpdate for TLC: two jobs, every kind of environment.                 *)
EXTENDS AdminUpdate
=============================================================================
