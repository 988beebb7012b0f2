---------------------------- MODULE MCSubworkflow ----------------------------
(* A parent, its first child and the child of a redriven call: p2 may die at *)
(* any point, p1 reconciles.                                                 *)
EXTENDS Subworkflow

CONSTANTS p1, p2
=============================================================================
