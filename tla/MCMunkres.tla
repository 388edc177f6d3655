------------------------------ MODULE MCMunkres ------------------------------
(* The solver on every cost matrix up to a size. *)
EXTENDS Munkres
=============================================================================
