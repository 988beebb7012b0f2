--------------------------- MODULE MCToolApproval ----------------------------
(* Two workers, the run's creator and one colleague.                         *)
EXTENDS ToolApproval

CONSTANTS alice, bob
=============================================================================
