----------------------------- MODULE Deployment -----------------------------
(***************************************************************************)
(* One workflow as its entry points see it: the workflow row (active,      *)
(* paused or tombstoned), its immutable versions, its canary rollouts and  *)
(* the runs it started.  Schedule and TriggerIngest extend this module     *)
(* with the two machines that start runs on their own.                     *)
(*                                                                         *)
(* Every operation below is one transaction of the code.  Version writes,  *)
(* rollout creation and the soft delete all lock the workflow row first    *)
(* (LockWorkflowForRollout, or the UPDATE itself), so each is one step.    *)
(***************************************************************************)
EXTENDS Naturals, Sequences, FiniteSets, SequencesExt

CONSTANTS
    Doc,            \* workflow documents a version may hold
    Contract(_),    \* the external trigger contract of a document
    CanaryKey,      \* assignment keys whose bucket lies below the traffic share
    MinSample,      \* minimum_sample_size of every rollout
    MinRate,        \* minimum_success_rate_percent of every rollout
    MaxVersions,    \* bound on saved versions
    MaxRollouts,    \* bound on created rollouts
    MaxRuns         \* bound on started runs

ASSUME DeploymentBounds ==
    /\ MinSample \in Nat \ {0} /\ MinRate \in 1..100
    /\ MaxVersions \in Nat \ {0} /\ MaxRollouts \in Nat /\ MaxRuns \in Nat

VARIABLES
    status,     \* workflows.status: active, paused (by the circuit breaker) or
                \* degraded (paused by the upstream poller)
    deleted,    \* workflows.deleted_at IS NOT NULL
    versions,   \* workflow_versions, oldest first: the document of each
    rollouts,   \* workflow_rollouts, oldest first
    runs        \* runs of the workflow, oldest first

dVars == <<status, deleted, versions, rollouts, runs>>

Latest  == Len(versions)
Variant == {"baseline", "canary"}
RolloutStatus == {"active", "promoted", "rolled_back", "cancelled"}
Settled == {"succeeded", "failed", "cancelled"}

Rollout == [baseline : 1..MaxVersions, canary : 1..MaxVersions,
            status : RolloutStatus,
            succeeded : [Variant -> 0..MaxRuns], failed : [Variant -> 0..MaxRuns]]

(* A run keeps the arm it was started on.  counted: it has a row in          *)
(* workflow_rollout_outcomes; tick: the instant or event it answers.         *)
NoArm == [rollout |-> 0, variant |-> "baseline"]
RunOf(Key, Tick) ==
    [key : Key, tick : Tick, version : 1..MaxVersions,
     rollout : 0..MaxRollouts, variant : Variant,
     status : {"running"} \cup Settled, counted : BOOLEAN]

DeploymentInit ==
    /\ status = "active" /\ deleted = FALSE
    /\ \E d \in Doc : versions = <<d>>
    /\ rollouts = <<>> /\ runs = <<>>

-----------------------------------------------------------------------------
(* The workflow row and its versions. *)

Active(r)     == rollouts[r].status = "active"
ActiveRollout == \E r \in DOMAIN rollouts : Active(r)

(* A save and a rollback both append a version, refused while a rollout is   *)
(* live; a rollback copies the document of an older version.                 *)
AppendVersionUnlocked(doc) ==
    /\ ~deleted
    /\ Latest < MaxVersions
    /\ versions' = Append(versions, doc)
    /\ UNCHANGED <<status, deleted, rollouts, runs>>

AppendVersion(doc) ==
    /\ ~deleted /\ ~ActiveRollout
    /\ Latest < MaxVersions
    /\ versions' = Append(versions, doc)
    /\ UNCHANGED <<status, deleted, rollouts, runs>>

RollbackTo(source) == AppendVersion(versions[source])

Cancelled(ros) == [r \in DOMAIN ros |->
    IF ros[r].status = "active" THEN [ros[r] EXCEPT !.status = "cancelled"] ELSE ros[r]]

Deactivate ==
    /\ ~deleted
    /\ deleted' = TRUE
    /\ rollouts' = Cancelled(rollouts)
    /\ UNCHANGED <<status, versions, runs>>

Reactivate ==
    /\ deleted
    /\ deleted' = FALSE
    /\ UNCHANGED <<status, versions, rollouts, runs>>

-----------------------------------------------------------------------------
(* Rollouts. *)

(* The canary must be the latest version and both arms must answer the same  *)
(* triggers.  (A qualification receipt, when a recovery contract asks for    *)
(* one, only removes steps.)                                                 *)
CreateRollout(b) ==
    /\ ~deleted /\ ~ActiveRollout
    /\ Len(rollouts) < MaxRollouts
    /\ b < Latest
    /\ Contract(versions[b]) = Contract(versions[Latest])
    /\ rollouts' = Append(rollouts,
         [baseline |-> b, canary |-> Latest, status |-> "active",
          succeeded |-> [x \in Variant |-> 0], failed |-> [x \in Variant |-> 0]])
    /\ UNCHANGED <<status, deleted, versions, runs>>

FinishRollout(r, decision) ==
    /\ Active(r)
    /\ rollouts' = [rollouts EXCEPT ![r].status = decision]
    /\ UNCHANGED <<status, deleted, versions, runs>>

(* The row GetLatestWorkflowRolloutRow returns: an active rollout first,     *)
(* else the newest; 0 when there is none or the workflow is tombstoned.      *)
CurrentRollout ==
    IF deleted \/ rollouts = <<>> THEN 0
    ELSE IF ActiveRollout THEN CHOOSE r \in DOMAIN rollouts : Active(r)
    ELSE Len(rollouts)

(* What a start keyed k must run: the arm of the current rollout while its   *)
(* canary is still the latest version, else the version the caller chose.    *)

VariantFor(r, k) ==
    CASE rollouts[r].status = "active" -> IF k \in CanaryKey THEN "canary" ELSE "baseline"
      [] rollouts[r].status = "promoted" -> "canary"
      [] OTHER -> "baseline"
ArmVersion(r, variant) ==
    IF variant = "canary" THEN rollouts[r].canary ELSE rollouts[r].baseline

Assigned   == CurrentRollout # 0 /\ rollouts[CurrentRollout].canary = Latest
ArmFor(k)   == [rollout |-> CurrentRollout, variant |-> VariantFor(CurrentRollout, k)]
VersionFor(k) == ArmVersion(CurrentRollout, VariantFor(CurrentRollout, k))

-----------------------------------------------------------------------------
(* Runs. *)

(* StartRun's insert, inside the transaction of its caller.                  *)
Inserted(key, tick, v, arm) ==
    Append(runs, [key |-> key, tick |-> tick, version |-> v, rollout |-> arm.rollout,
                  variant |-> arm.variant, status |-> "running", counted |-> FALSE])

KeyUsed(key) == \E i \in DOMAIN runs : runs[i].key = key

(* A run ends (RunEngine models how).                                        *)
SettleRun(i, outcome) ==
    /\ runs[i].status = "running"
    /\ runs' = [runs EXCEPT ![i].status = outcome]
    /\ UNCHANGED <<status, deleted, versions, rollouts>>

(* A redrive revives a failed run (redrive.go); its outcome row stays.       *)
ReviveRun(i) ==
    /\ runs[i].status = "failed"
    /\ runs' = [runs EXCEPT ![i].status = "running"]
    /\ UNCHANGED <<status, deleted, versions, rollouts>>

Sample(ro)   == ro.succeeded["canary"] + ro.failed["canary"]
Breached(ro) == /\ Sample(ro) >= MinSample
                /\ 100 * ro.succeeded["canary"] < MinRate * Sample(ro)

Counted(ro, run) ==
    CASE run.status = "succeeded" -> [ro EXCEPT !.succeeded[run.variant] = @ + 1]
      [] run.status = "failed"    -> [ro EXCEPT !.failed[run.variant] = @ + 1]
      [] OTHER -> ro

(* The guard on a breach looks only at the outcome being counted.            *)
GuardedOnFailure(ro, run) ==
    IF run.variant = "canary" /\ run.status = "failed" /\ Breached(ro)
    THEN [ro EXCEPT !.status = "rolled_back"] ELSE ro

Guarded(ro, run) ==
    IF run.variant = "canary" /\ run.status # "cancelled" /\ Breached(ro)
    THEN [ro EXCEPT !.status = "rolled_back"] ELSE ro

(* A settled run is counted once, only while its rollout is active, and the  *)
(* canary that breaches its success rate is rolled back in the same          *)
(* transaction.  The terminal flip's callback and the repair sweep both end  *)
(* here.                                                                     *)
RecordOutcomeAgain(i) ==
    LET run == runs[i] IN
    /\ run.rollout # 0 /\ run.status \in Settled
    /\ Active(run.rollout)
    /\ Sample(rollouts[run.rollout]) < MaxRuns
    /\ runs' = [runs EXCEPT ![i].counted = TRUE]
    /\ rollouts' = [rollouts EXCEPT ![run.rollout] = Guarded(Counted(@, run), run)]
    /\ UNCHANGED <<status, deleted, versions>>

RecordOutcome(i) ==
    LET run == runs[i] IN
    /\ run.rollout # 0 /\ run.status \in Settled
    /\ Active(run.rollout)
    /\ run.version = ArmVersion(run.rollout, run.variant)
    /\ ~run.counted
    /\ runs' = [runs EXCEPT ![i].counted = TRUE]
    /\ rollouts' = [rollouts EXCEPT ![run.rollout] = Guarded(Counted(@, run), run)]
    /\ UNCHANGED <<status, deleted, versions>>

DeploymentTypeOK(Key, Tick) ==
    /\ status \in {"active", "paused", "degraded"} /\ deleted \in BOOLEAN
    /\ versions \in Seq(Doc) /\ Latest \in 1..MaxVersions
    /\ rollouts \in Seq(Rollout) /\ Len(rollouts) <= MaxRollouts
    /\ runs \in Seq(RunOf(Key, Tick)) /\ Len(runs) <= MaxRuns

-----------------------------------------------------------------------------
(* Properties of the deployment. *)

(* While a rollout is active its workflow is not tombstoned, its canary is   *)
(* the newest version, no other rollout is active and both arms answer the   *)
(* same triggers (rollouts.go CreateWorkflowRollout: "an active rollout can  *)
(* never appear concurrently with either").                                  *)
ActiveRolloutIsDeployable ==
    \A r \in DOMAIN rollouts : Active(r) =>
        /\ ~deleted
        /\ rollouts[r].canary = Latest
        /\ \A s \in DOMAIN rollouts : Active(s) => s = r
        /\ Contract(versions[rollouts[r].baseline]) = Contract(versions[rollouts[r].canary])

(* A rollout whose canary has enough outcomes below the agreed success rate  *)
(* is never active: the outcome that tips it also ends it                    *)
(* (rolloutoutcomes.go RecordWorkflowRolloutOutcome).                        *)
NoActiveBreach == \A r \in DOMAIN rollouts : Active(r) => ~Breached(rollouts[r])

(* The counters of a rollout never claim more than the runs that were        *)
(* counted on that arm: callback, repair sweep and redrive of one run add up *)
(* to at most one outcome.                                                   *)
CountersAreEarned ==
    \A r \in DOMAIN rollouts, x \in Variant :
        rollouts[r].succeeded[x] + rollouts[r].failed[x] <=
            Cardinality({i \in DOMAIN runs : /\ runs[i].rollout = r
                                             /\ runs[i].variant = x /\ runs[i].counted})

=============================================================================
