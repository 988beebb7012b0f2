----------------------------- MODULE MCSchedule -----------------------------
(* A workflow whose documents have the schedule node or not.                *)
EXTENDS Schedule

CONSTANTS daily, manual

MCContract(d) == d
MCScheduled == {daily}
MCCanaryKey == {<<e, i>> : e \in 1..MaxEntries, i \in {2}}
=============================================================================
