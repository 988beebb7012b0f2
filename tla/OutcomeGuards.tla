---------------------------- MODULE OutcomeGuards ----------------------------
(***************************************************************************)
(* What a workflow does about the outcomes of its own runs: the rollout    *)
(* counts them and rolls a failing canary back (engine/rolloutoutcomes.go) *)
(* and the circuit breaker pauses the workflow after a streak of failures  *)
(* (engine/circuitbreaker.go).  Both run after the commit that ended the   *)
(* run, in any order with other runs, redrives, operators and the upstream *)
(* poller, which pauses and resumes through the same status column         *)
(* (upstream/poller.go).                                                   *)
(***************************************************************************)
EXTENDS Deployment

CONSTANTS
    Key,            \* assignment keys: each start draws one, and forgets it
    Threshold,      \* consecutive failures that trip the breaker
    Source,         \* upstream status feeds the workflow is tagged with
    MaxEvents       \* bound on redrives, late failures, operator resumes,
                    \* deletes, restores, polls and lost evaluations together

ASSUME GuardBounds ==
    /\ Threshold \in Nat \ {0} /\ MaxEvents \in Nat

VARIABLES
    evaluating, \* runs in which a node failed and whose worker has not looked
                \* at the breaker yet
    tripping,   \* runs whose worker decided to trip it
    excused,    \* since the last node failure an operator acted on the
                \* workflow, a worker died before it looked, it looked while
                \* the upstream poller held the workflow paused, or a run
                \* failed unevaluated with nobody left to look
    pausedBy,   \* the source whose poll paused the workflow and has not
                \* recovered since (last_status is display only)
    events      \* events spent so far

gVars == <<evaluating, tripping, excused, pausedBy, events>>
vars  == <<dVars, gVars>>

GuardTypeOK ==
    /\ DeploymentTypeOK({"api"}, {"api"})
    /\ evaluating \subseteq DOMAIN runs /\ tripping \subseteq DOMAIN runs
    /\ excused \in BOOLEAN
    /\ pausedBy \in Source \cup {"none"}
    /\ events \in 0..MaxEvents

GuardInit ==
    /\ DeploymentInit
    /\ evaluating = {} /\ tripping = {} /\ excused = FALSE
    /\ pausedBy = "none"
    /\ events = 0

(* One of the bounded events happens.                                        *)
Event == events < MaxEvents /\ events' = events + 1

-----------------------------------------------------------------------------
(* A start by the API, of the latest version or of the arm its key is        *)
(* assigned.  The status of a deleted workflow is not found and stops        *)
(* nobody.                                                                   *)
StartRun(k) ==
    /\ deleted \/ status = "active"
    /\ Len(runs) < MaxRuns
    /\ runs' = IF Assigned THEN Inserted("api", "api", VersionFor(k), ArmFor(k))
               ELSE Inserted("api", "api", Latest, NoArm)
    /\ UNCHANGED <<status, deleted, versions, rollouts, gVars>>

(* failNodeTx: an execution fails unhandled, in a running run or, later, in  *)
(* one that has failed; its worker (or the reaper) goes on to the breaker.   *)
NodeFails(i) ==
    /\ \/ SettleRun(i, "failed") /\ UNCHANGED events
       \/ runs[i].status = "failed" /\ Event /\ UNCHANGED dVars
    /\ evaluating' = evaluating \cup {i}
    /\ excused' = deleted
    /\ UNCHANGED <<tripping, pausedBy>>

(* Every other end of a run.  One that fails here, by an approval deadline,  *)
(* an invalid timer, a failed child or a roll-up, counts in the streak, but  *)
(* nobody evaluates the breaker for it.                                      *)
RunEnds(i, outcome) ==
    /\ SettleRun(i, outcome)
    /\ excused' = (excused \/ (outcome = "failed" /\ evaluating = {}))
    /\ UNCHANGED <<evaluating, tripping, pausedBy, events>>

RunRevives(i) ==
    /\ ReviveRun(i)
    /\ Event
    /\ UNCHANGED <<evaluating, tripping, excused, pausedBy>>

(* The callback after the flip, or the repair sweep, whenever it comes.      *)
CountOutcome(i) == RecordOutcome(i) /\ UNCHANGED gVars

(* CountRecentWorkflowRunStatuses: the newest Threshold runs that succeeded  *)
(* or failed, all failed.                                                    *)
Finished == {i \in DOMAIN runs : runs[i].status \in {"succeeded", "failed"}}
NewestFinished(n) == {i \in Finished : Cardinality({j \in Finished : j > i}) < n}
Streak == /\ Cardinality(NewestFinished(Threshold)) = Threshold
          /\ \A i \in NewestFinished(Threshold) : runs[i].status = "failed"

StreakOverNewest == /\ Cardinality(NewestFinished(Threshold + 1)) = Threshold + 1
                    /\ \A i \in NewestFinished(Threshold + 1) : runs[i].status = "failed"

ShouldTripLate == StreakOverNewest
ShouldTrip == Streak

(* maybeTripCircuitBreaker reads the status and the streak, then trips with  *)
(* a compare-and-set.                                                        *)
EvaluateBreaker(i) ==
    /\ i \in evaluating
    /\ evaluating' = evaluating \ {i}
    /\ tripping' = IF ~deleted /\ status = "active" /\ ShouldTrip
                   THEN tripping \cup {i} ELSE tripping
    /\ excused' = (excused \/ status = "degraded")
    /\ UNCHANGED <<dVars, pausedBy, events>>

TripBreaker(i) ==
    /\ i \in tripping
    /\ tripping' = tripping \ {i}
    /\ status' = IF ~deleted /\ status = "active" THEN "paused" ELSE status
    /\ excused' = (excused \/ status = "degraded")
    /\ UNCHANGED <<deleted, versions, rollouts, runs, evaluating, pausedBy, events>>

(* The worker dies before it looked: the evaluation is best effort.          *)
LoseEvaluation(i) ==
    /\ i \in evaluating \cup tripping
    /\ Event
    /\ evaluating' = evaluating \ {i} /\ tripping' = tripping \ {i}
    /\ excused' = TRUE
    /\ UNCHANGED <<dVars, pausedBy>>

ResumeBreaker ==
    /\ status = "paused" /\ ~deleted
    /\ Event
    /\ status' = "active" /\ excused' = TRUE
    /\ UNCHANGED <<deleted, versions, rollouts, runs, evaluating, tripping, pausedBy>>

-----------------------------------------------------------------------------
(* The upstream poller.  A poll that fails open only records its reason and  *)
(* is a stuttering step.                                                     *)

PauseWorkflowsForUpstream(s) ==
    IF status = "active"
    THEN status' = "degraded" /\ pausedBy' = s
    ELSE UNCHANGED <<status, pausedBy>>

ResumeWorkflowsForUpstream(s) ==
    /\ status' = IF status = "degraded" THEN "active" ELSE status
    /\ pausedBy' = IF pausedBy = s THEN "none" ELSE pausedBy

PollOneSource(s, verdict) ==
    /\ Event
    /\ IF verdict THEN PauseWorkflowsForUpstream(s) ELSE ResumeWorkflowsForUpstream(s)
    /\ UNCHANGED <<deleted, versions, rollouts, runs, evaluating, tripping, excused>>

OperatorStep ==
    /\ \/ \E d \in Doc : AppendVersion(d)
       \/ \E v \in DOMAIN versions : RollbackTo(v)
       \/ \E b \in DOMAIN versions : CreateRollout(b)
       \/ \E r \in DOMAIN rollouts, d \in {"promoted", "rolled_back"} : FinishRollout(r, d)
    /\ UNCHANGED gVars

DeleteOrRestore ==
    /\ Deactivate \/ Reactivate
    /\ Event
    /\ excused' = TRUE
    /\ UNCHANGED <<evaluating, tripping, pausedBy>>

GuardNext ==
    \/ \E k \in Key : StartRun(k)
    \/ \E i \in DOMAIN runs :
         \/ NodeFails(i) \/ \E o \in Settled : RunEnds(i, o)
         \/ RunRevives(i) \/ CountOutcome(i)
         \/ EvaluateBreaker(i) \/ TripBreaker(i) \/ LoseEvaluation(i)
    \/ \E s \in Source, verdict \in BOOLEAN : PollOneSource(s, verdict)
    \/ ResumeBreaker \/ OperatorStep \/ DeleteOrRestore

GuardSpec == GuardInit /\ [][GuardNext]_vars

-----------------------------------------------------------------------------
(* Properties. *)

(* Once every worker has looked, a streak of Threshold failures has paused   *)
(* the workflow, however the failures and their evaluations interleaved -    *)
(* unless, since the last node failure, an operator acted, a crash lost an   *)
(* evaluation, the worker looked during an upstream pause, or a run failed   *)
(* in a way that is not evaluated after the last worker had looked           *)
(* (maybeTripCircuitBreaker, called only by afterTerminalFailure).           *)
NoUnnoticedStreak ==
    (Streak /\ evaluating = {} /\ tripping = {} /\ ~excused)
        => status \in {"paused", "degraded"}

(* A source that paused the workflow keeps it paused until that source       *)
(* recovers (poller.go: "RECOVERED -> resume the workflows this source had   *)
(* paused").                                                                 *)
UpstreamPauseHolds == pausedBy # "none" => status = "degraded"

=============================================================================
