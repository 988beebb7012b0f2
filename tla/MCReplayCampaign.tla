-------------------------- MODULE MCReplayCampaign --------------------------
(* One campaign over two dead letters, and two pumps.  What another campaign *)
(* does to a letter it shares, the operator's redrive does too.              *)
EXTENDS ReplayCampaign

CONSTANTS c1, p1, p2

Letters == 1..2
=============================================================================
