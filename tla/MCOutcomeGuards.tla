--------------------------- MODULE MCOutcomeGuards ---------------------------
(* Documents with two trigger contracts; starts on either arm.              *)
EXTENDS OutcomeGuards

CONSTANTS hook, cron, inside, outside

MCContract(d) == d
GuardSymmetry == Permutations({hook, cron})

(* Versions, rollouts and events share a budget one short of their bounds:   *)
(* a state that exhausts all three is checked and not explored further.      *)
GuardBudget == Len(versions) + Len(rollouts) + events <= 6
=============================================================================
