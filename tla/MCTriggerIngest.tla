--------------------------- MODULE MCTriggerIngest ---------------------------
(* Two interchangeable events, whose deliveries may draw either arm.        *)
EXTENDS TriggerIngest, TLC

CONSTANTS hook

MCContract(d) == d
IngestSymmetry == Permutations(Request) \cup Permutations(Event)
=============================================================================
