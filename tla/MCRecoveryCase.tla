--------------------------- MODULE MCRecoveryCase ---------------------------
(* Two nodes that run side by side.  One has a quarantining and an observing *)
(* detector, the other a quarantining one.  The replacement of the first     *)
(* passes until the second node has completed, and again once that output    *)
(* has been replaced too.                                                    *)
EXTENDS RecoveryCase, TLC

CONSTANTS first, second, shape, range, total, person, agent, r1

Sources == (shape :> first) @@ (range :> first) @@ (total :> second)
FitsWhile == {<<first, o>> : o \in {x \in Outputs : x[second] # "original"}}
             \cup {<<second, o>> : o \in Outputs}

(* The first quarantine can be validated at its revision 3, await approval,  *)
(* be sent back and be validated again at 6.                                 *)
Revisions == (shape :> 6) @@ (range :> 5) @@ (total :> 5)
=============================================================================
