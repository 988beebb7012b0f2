---------------------------- MODULE OutcomeProofs ----------------------------
(***************************************************************************)
(* Rollouts and the circuit breaker over the outcomes of runs: an active   *)
(* rollout can be deployed, a breaching canary does not stay active,       *)
(* counters are earned and a streak of failures is not missed; for every   *)
(* set of documents, keys and sources, and every threshold and bound.      *)
(***************************************************************************)
EXTENDS OutcomeGuards, TLAPS, FiniteSetTheorems, WellFoundedInduction

RunRow == RunOf({"api"}, {"api"})
CountedRollout == [baseline : 1..MaxVersions, canary : 1..MaxVersions, status : RolloutStatus,
                   succeeded : [Variant -> Nat], failed : [Variant -> Nat]]
CountedRuns(r, x) ==
    {i \in DOMAIN runs : runs[i].rollout = r /\ runs[i].variant = x /\ runs[i].counted}

-----------------------------------------------------------------------------
(***************************************************************************)
(* The strengthening.  Counters are typed as naturals: that they are       *)
(* bounded by the runs is CountersAreEarned itself.  A run's rollout       *)
(* exists.  Of the breaker, what holds is more than NoUnnoticedStreak      *)
(* says: once all have looked, the workflow is paused by the breaker, not  *)
(* degraded by the poller, whose recovery would make it active again.      *)
(***************************************************************************)
DeployTypes ==
    /\ status \in {"active", "paused", "degraded"} /\ deleted \in BOOLEAN
    /\ versions \in Seq(Doc) /\ Latest \in 1..MaxVersions
    /\ rollouts \in Seq(CountedRollout) /\ Len(rollouts) <= MaxRollouts
    /\ runs \in Seq(RunRow) /\ Len(runs) <= MaxRuns

ArmsExist == \A i \in DOMAIN runs : runs[i].rollout # 0 => runs[i].rollout \in DOMAIN rollouts

DeployInv ==
    /\ DeployTypes /\ ArmsExist
    /\ ActiveRolloutIsDeployable /\ NoActiveBreach /\ CountersAreEarned

GuardTypes ==
    /\ evaluating \subseteq DOMAIN runs /\ tripping \subseteq DOMAIN runs
    /\ excused \in BOOLEAN /\ pausedBy \in Source \cup {"none"} /\ events \in 0..MaxEvents

StreakPauses ==
    /\ deleted => excused
    /\ (Streak /\ evaluating = {} /\ tripping = {} /\ ~excused) => status = "paused"

StreakInv == GuardTypes /\ StreakPauses

-----------------------------------------------------------------------------
(* Lemmas about rollouts and runs. *)

LEMMA BreachDependsOnCanary ==
    ASSUME NEW a, NEW b, a.succeeded["canary"] = b.succeeded["canary"],
           a.failed["canary"] = b.failed["canary"]
    PROVE  Breached(a) <=> Breached(b)
BY DEF Breached, Sample

(* What RecordWorkflowRolloutOutcome adds to a rollout. *)
LEMMA CountedRow ==
    ASSUME NEW ro \in CountedRollout, NEW x \in RunRow
    PROVE  /\ Counted(ro, x) \in CountedRollout
           /\ Counted(ro, x).canary = ro.canary /\ Counted(ro, x).baseline = ro.baseline
           /\ Counted(ro, x).status = ro.status
           /\ \A y \in Variant :
                /\ Counted(ro, x).succeeded[y] + Counted(ro, x).failed[y] <=
                     ro.succeeded[y] + ro.failed[y] + (IF y = x.variant THEN 1 ELSE 0)
                /\ y # x.variant \/ x.status = "cancelled" =>
                     /\ Counted(ro, x).succeeded[y] = ro.succeeded[y]
                     /\ Counted(ro, x).failed[y] = ro.failed[y]
<1>0. x.variant \in Variant
  BY DEF RunRow, RunOf
<1>1. ro.succeeded \in [Variant -> Nat] /\ ro.failed \in [Variant -> Nat]
  BY DEF CountedRollout
<1> DEFINE s == [ro.succeeded EXCEPT ![x.variant] = @ + 1]
           f == [ro.failed EXCEPT ![x.variant] = @ + 1]
<1>2. /\ s \in [Variant -> Nat] /\ f \in [Variant -> Nat]
      /\ \A y \in Variant : /\ s[y] = ro.succeeded[y] + (IF y = x.variant THEN 1 ELSE 0)
                            /\ f[y] = ro.failed[y] + (IF y = x.variant THEN 1 ELSE 0)
  BY <1>0, <1>1
<1>3. Counted(ro, x) = IF x.status = "succeeded" THEN [ro EXCEPT !.succeeded = s]
                       ELSE IF x.status = "failed" THEN [ro EXCEPT !.failed = f] ELSE ro
  BY DEF Counted, CountedRollout
<1> HIDE DEF s, f
<1>4. CASE x.status = "succeeded"
  <2>1. /\ Counted(ro, x) \in CountedRollout /\ Counted(ro, x).canary = ro.canary
        /\ Counted(ro, x).baseline = ro.baseline /\ Counted(ro, x).status = ro.status
        /\ Counted(ro, x).succeeded = s /\ Counted(ro, x).failed = ro.failed
    BY <1>2, <1>3, <1>4 DEF CountedRollout
  <2> QED
    BY <1>0, <1>1, <1>2, <1>4, <2>1
<1>5. CASE x.status = "failed"
  <2>1. /\ Counted(ro, x) \in CountedRollout /\ Counted(ro, x).canary = ro.canary
        /\ Counted(ro, x).baseline = ro.baseline /\ Counted(ro, x).status = ro.status
        /\ Counted(ro, x).succeeded = ro.succeeded /\ Counted(ro, x).failed = f
    BY <1>2, <1>3, <1>5 DEF CountedRollout
  <2> QED
    BY <1>0, <1>1, <1>2, <1>5, <2>1
<1>6. CASE x.status \notin {"succeeded", "failed"}
  <2>1. Counted(ro, x) = ro
    BY <1>3, <1>6
  <2> QED
    BY <1>0, <1>1, <2>1
<1> QED
  BY <1>4, <1>5, <1>6

(* The automatic rollback changes nothing but the status, and leaves no      *)
(* breach active that the outcome could have caused.                         *)
LEMMA GuardedRow ==
    ASSUME NEW ro \in CountedRollout, NEW x
    PROVE  /\ Guarded(ro, x) \in CountedRollout
           /\ Guarded(ro, x).canary = ro.canary /\ Guarded(ro, x).baseline = ro.baseline
           /\ Guarded(ro, x).succeeded = ro.succeeded /\ Guarded(ro, x).failed = ro.failed
           /\ Guarded(ro, x).status = "active" =>
                /\ ro.status = "active"
                /\ x.variant = "canary" /\ x.status # "cancelled" => ~Breached(ro)
<1> DEFINE back == [ro EXCEPT !.status = "rolled_back"]
<1>1. /\ back \in CountedRollout /\ back.canary = ro.canary /\ back.baseline = ro.baseline
      /\ back.succeeded = ro.succeeded /\ back.failed = ro.failed /\ back.status = "rolled_back"
  BY DEF CountedRollout, RolloutStatus
<1>2. Guarded(ro, x) = IF x.variant = "canary" /\ x.status # "cancelled" /\ Breached(ro)
                       THEN back ELSE ro
  BY DEF Guarded
<1> HIDE DEF back
<1> QED
  BY <1>1, <1>2

LEMMA DeployRows ==
    ASSUME DeployTypes
    PROVE  /\ runs \in Seq(RunRow) /\ rollouts \in Seq(CountedRollout)
           /\ Len(runs) \in Nat /\ DOMAIN runs = 1..Len(runs)
           /\ \A i \in DOMAIN runs : runs[i] \in RunRow /\ runs[i].variant \in Variant
           /\ \A r \in DOMAIN rollouts :
                /\ rollouts[r] \in CountedRollout
                /\ rollouts[r].succeeded \in [Variant -> Nat] /\ rollouts[r].failed \in [Variant -> Nat]
<1>1. runs \in Seq(RunRow) /\ rollouts \in Seq(CountedRollout)
  BY DEF DeployTypes
<1>2. \A i \in DOMAIN runs : runs[i] \in RunRow
  BY <1>1
<1>3. \A r \in DOMAIN rollouts : rollouts[r] \in CountedRollout
  BY <1>1
<1>4. \A x \in RunRow : x.variant \in Variant
  BY DEF RunRow, RunOf
<1>5. \A ro \in CountedRollout : ro.succeeded \in [Variant -> Nat] /\ ro.failed \in [Variant -> Nat]
  BY DEF CountedRollout
<1> QED
  BY <1>1, <1>2, <1>3, <1>4, <1>5

(* Any set of runs is finite. *)
LEMMA FiniteRuns ==
    ASSUME NEW rs \in Seq(RunRow), NEW S \in SUBSET DOMAIN rs
    PROVE  IsFiniteSet(S) /\ Cardinality(S) \in Nat /\ Cardinality(S) <= Len(rs)
<1>1. PICK n \in Nat : n = Len(rs) /\ DOMAIN rs = 1..n
  OBVIOUS
<1>2. \A s \in S : s \in Nat /\ s >= 1 /\ s <= n
  BY <1>1
<1>3. 1 \in Int /\ n \in Int
  BY <1>1
<1>4. /\ IsFiniteSet(1..n)
      /\ Cardinality(1..n) = IF 1 > n THEN 0 ELSE n-1+1
  BY <1>3, FS_Interval
<1>5. Cardinality(1..n) = n
  BY <1>1, <1>4
<1>6. IsFiniteSet(S) /\ Cardinality(S) <= Cardinality(1..n)
  BY <1>1, <1>4, FS_Subset
<1> QED
  BY <1>1, <1>5, <1>6, FS_CardinalityType

LEMMA CountedRunsFinite ==
    ASSUME DeployTypes, NEW r, NEW x
    PROVE  /\ IsFiniteSet(CountedRuns(r, x)) /\ Cardinality(CountedRuns(r, x)) \in Nat
           /\ Cardinality(CountedRuns(r, x)) <= Len(runs)
<1>1. runs \in Seq(RunRow) /\ CountedRuns(r, x) \in SUBSET DOMAIN runs
  BY DEF CountedRuns, DeployTypes
<1> QED
  BY <1>1, FiniteRuns

(* More counted runs earn the same counters. *)
LEMMA CountersStayEarned ==
    ASSUME CountersAreEarned, DeployTypes, DeployTypes', NEW r \in DOMAIN rollouts, NEW x \in Variant,
           NEW n \in Nat, n <= rollouts[r].succeeded[x] + rollouts[r].failed[x],
           CountedRuns(r, x) \subseteq CountedRuns(r, x)'
    PROVE  n <= Cardinality(CountedRuns(r, x)')
<1>1. rollouts[r].succeeded[x] + rollouts[r].failed[x] <= Cardinality(CountedRuns(r, x))
  BY DEF CountersAreEarned, CountedRuns
<1>2. Cardinality(CountedRuns(r, x)) \in Nat
  BY CountedRunsFinite
<1>3. IsFiniteSet(CountedRuns(r, x)') /\ Cardinality(CountedRuns(r, x)') \in Nat
  <2>1. runs' \in Seq(RunRow) /\ CountedRuns(r, x)' \in SUBSET DOMAIN runs'
    BY DEF CountedRuns, DeployTypes
  <2> QED
    BY <2>1, FiniteRuns
<1>4. Cardinality(CountedRuns(r, x)) <= Cardinality(CountedRuns(r, x)')
  BY <1>3, FS_Subset
<1>5. rollouts[r].succeeded[x] \in Nat /\ rollouts[r].failed[x] \in Nat
  BY DeployRows
<1> QED
  BY <1>1, <1>2, <1>3, <1>4, <1>5

-----------------------------------------------------------------------------
(* Steps on the deployment. *)

(* A step that at most ends rollouts, and takes no counted run away. *)
RolloutsEase ==
    /\ versions' = versions /\ DOMAIN rollouts' = DOMAIN rollouts
    /\ \A r \in DOMAIN rollouts :
         /\ rollouts'[r].canary = rollouts[r].canary /\ rollouts'[r].baseline = rollouts[r].baseline
         /\ rollouts'[r].succeeded = rollouts[r].succeeded
         /\ rollouts'[r].failed = rollouts[r].failed
         /\ Active(r)' => Active(r) /\ ~deleted'
    /\ \A r \in DOMAIN rollouts, x \in Variant : CountedRuns(r, x) \subseteq CountedRuns(r, x)'

LEMMA EasedKeepsRollouts ==
    ASSUME DeployInv, DeployTypes', ArmsExist', RolloutsEase
    PROVE  DeployInv'
<1>0. DeployTypes /\ CountersAreEarned
  BY DEF DeployInv
<1>1. ActiveRolloutIsDeployable'
  <2> SUFFICES ASSUME NEW r \in DOMAIN rollouts, Active(r)'
               PROVE  /\ ~deleted' /\ rollouts'[r].canary = Latest'
                      /\ \A s \in DOMAIN rollouts : Active(s)' => s = r
                      /\ Contract(versions'[rollouts'[r].baseline]) = Contract(versions'[rollouts'[r].canary])
    BY DEF ActiveRolloutIsDeployable, RolloutsEase
  <2>1. Active(r) /\ ~deleted'
    BY DEF RolloutsEase
  <2>2. /\ rollouts[r].canary = Latest /\ \A s \in DOMAIN rollouts : Active(s) => s = r
        /\ Contract(versions[rollouts[r].baseline]) = Contract(versions[rollouts[r].canary])
    BY <2>1 DEF DeployInv, ActiveRolloutIsDeployable
  <2> QED
    BY <2>1, <2>2 DEF RolloutsEase, Latest
<1>2. NoActiveBreach'
  <2> SUFFICES ASSUME NEW r \in DOMAIN rollouts, Active(r)' PROVE ~Breached(rollouts'[r])
    BY DEF NoActiveBreach, RolloutsEase, Breached, Sample
  <2>1. ~Breached(rollouts[r])
    BY DEF RolloutsEase, DeployInv, NoActiveBreach
  <2>2. Breached(rollouts'[r]) <=> Breached(rollouts[r])
    BY BreachDependsOnCanary DEF RolloutsEase
  <2> QED
    BY <2>1, <2>2
<1>3. CountersAreEarned'
  <2> SUFFICES ASSUME NEW r \in DOMAIN rollouts, NEW x \in Variant
               PROVE  rollouts'[r].succeeded[x] + rollouts'[r].failed[x] <= Cardinality(CountedRuns(r, x)')
    BY DEF CountersAreEarned, CountedRuns, RolloutsEase
  <2>1. rollouts[r].succeeded[x] \in Nat /\ rollouts[r].failed[x] \in Nat
    BY <1>0, DeployRows
  <2>2. CountedRuns(r, x) \subseteq CountedRuns(r, x)'
    BY DEF RolloutsEase
  <2>3. rollouts[r].succeeded[x] + rollouts[r].failed[x] <= Cardinality(CountedRuns(r, x)')
    BY <1>0, <2>1, <2>2, CountersStayEarned
  <2> QED
    BY <2>3 DEF RolloutsEase
<1> QED
  BY <1>1, <1>2, <1>3 DEF DeployInv

(* Steps that touch the status column alone. *)
LEMMA StatusKeeps ==
    ASSUME DeployInv, UNCHANGED <<deleted, versions, rollouts, runs>>,
           status' \in {"active", "paused", "degraded"}
    PROVE  DeployInv'
<1>1. DeployTypes' /\ ArmsExist'
  BY DEF DeployInv, DeployTypes, ArmsExist, Latest
<1>2. RolloutsEase
  BY DEF RolloutsEase, Active, CountedRuns, DeployInv, ActiveRolloutIsDeployable
<1> QED
  BY <1>1, <1>2, EasedKeepsRollouts

(* A run ends or is revived: its status moves and nothing else of it. *)
LEMMA RunStatusKeeps ==
    ASSUME DeployInv, NEW i \in DOMAIN runs, NEW o \in {"running"} \cup Settled,
           runs' = [runs EXCEPT ![i].status = o],
           UNCHANGED <<status, deleted, versions, rollouts>>
    PROVE  /\ DeployInv'
           /\ DOMAIN runs' = DOMAIN runs /\ runs'[i].status = o
           /\ \A j \in DOMAIN runs : j # i => runs'[j] = runs[j]
<1>0. DeployTypes /\ runs \in Seq(RunRow) /\ runs[i] \in RunRow
  BY DeployRows DEF DeployInv
<1> DEFINE x == [runs[i] EXCEPT !.status = o]
<1>1. runs' = [runs EXCEPT ![i] = x]
  BY <1>0
<1>2. /\ x \in RunRow /\ x.status = o /\ x.rollout = runs[i].rollout /\ x.variant = runs[i].variant
      /\ x.counted = runs[i].counted
  BY <1>0 DEF RunRow, RunOf
<1> HIDE DEF x
<1>3. /\ runs' \in Seq(RunRow) /\ Len(runs') = Len(runs) /\ DOMAIN runs' = DOMAIN runs
      /\ runs'[i] = x /\ \A j \in DOMAIN runs : j # i => runs'[j] = runs[j]
  BY <1>0, <1>1, <1>2
<1>4. DeployTypes'
  BY <1>0, <1>3 DEF DeployTypes, Latest
<1>5. \A j \in DOMAIN runs : /\ runs'[j].rollout = runs[j].rollout
                             /\ runs'[j].variant = runs[j].variant
                             /\ runs'[j].counted = runs[j].counted
  BY <1>2, <1>3
<1>6. ArmsExist'
  BY <1>3, <1>5 DEF DeployInv, ArmsExist
<1>7. RolloutsEase
  BY <1>3, <1>5 DEF RolloutsEase, Active, CountedRuns, DeployInv, ActiveRolloutIsDeployable
<1> QED
  BY <1>2, <1>3, <1>4, <1>6, <1>7, EasedKeepsRollouts

(* The arm of a start is of a rollout that exists, and its version typed. *)
LEMMA StartedArm ==
    ASSUME DeployTypes, NEW k, Assigned
    PROVE  /\ ArmFor(k).rollout \in DOMAIN rollouts /\ ArmFor(k).rollout \in 0..MaxRollouts
           /\ ArmFor(k).variant \in Variant /\ VersionFor(k) \in 1..MaxVersions
<1> DEFINE c == CurrentRollout
           x == VariantFor(c, k)
<1>1. rollouts \in Seq(CountedRollout) /\ Len(rollouts) <= MaxRollouts
  BY DEF DeployTypes
<1>2. c \in DOMAIN rollouts
  <2>1. ~deleted /\ rollouts # <<>>
    BY DEF Assigned, CurrentRollout
  <2>2. CASE ActiveRollout
    <3>1. \E r \in DOMAIN rollouts : Active(r)
      BY <2>2 DEF ActiveRollout
    <3>2. c = CHOOSE r \in DOMAIN rollouts : Active(r)
      BY <2>1, <2>2 DEF CurrentRollout
    <3> QED
      BY <3>1, <3>2
  <2>3. CASE ~ActiveRollout
    BY <1>1, <2>1, <2>3 DEF CurrentRollout
  <2> QED
    BY <2>2, <2>3
<1>3. x \in Variant
  BY DEF VariantFor, Variant
<1>4. rollouts[c] \in CountedRollout
  BY <1>1, <1>2
<1>5. rollouts[c].canary \in 1..MaxVersions /\ rollouts[c].baseline \in 1..MaxVersions
  BY <1>4 DEF CountedRollout
<1>6. c \in 0..MaxRollouts
  BY <1>1, <1>2, DeploymentBounds
<1>7. ArmFor(k).rollout = c /\ ArmFor(k).variant = x
  BY DEF ArmFor
<1>8. VersionFor(k) = IF x = "canary" THEN rollouts[c].canary ELSE rollouts[c].baseline
  BY DEF VersionFor, ArmVersion
<1> QED
  BY <1>2, <1>3, <1>5, <1>6, <1>7, <1>8

LEMMA StartKeeps ==
    ASSUME DeployInv, NEW k \in Key, StartRun(k)
    PROVE  /\ DeployInv' /\ \A j \in DOMAIN runs : j \in DOMAIN runs' /\ runs'[j] = runs[j]
           /\ \A j \in DOMAIN runs' : j \notin DOMAIN runs => runs'[j].status = "running"
<1>0. /\ DeployTypes /\ runs \in Seq(RunRow) /\ Latest \in 1..MaxVersions
  BY DEF DeployInv, DeployTypes
<1> DEFINE v == IF Assigned THEN VersionFor(k) ELSE Latest
           arm == IF Assigned THEN ArmFor(k) ELSE NoArm
           x == [key |-> "api", tick |-> "api", version |-> v, rollout |-> arm.rollout,
                 variant |-> arm.variant, status |-> "running", counted |-> FALSE]
<1>1. /\ v \in 1..MaxVersions /\ arm.rollout \in 0..MaxRollouts /\ arm.variant \in Variant
      /\ arm.rollout # 0 => arm.rollout \in DOMAIN rollouts
  <2>1. CASE Assigned
    BY <1>0, <2>1, StartedArm
  <2>2. CASE ~Assigned
    BY <1>0, <2>2, DeploymentBounds DEF NoArm, Variant
  <2> QED
    BY <2>1, <2>2
<1>2. runs' = Append(runs, x) /\ Len(runs) < MaxRuns /\ UNCHANGED <<status, deleted, versions, rollouts>>
  BY DEF StartRun, Inserted
<1> HIDE DEF v, arm
<1>3. x \in RunRow /\ x.rollout = arm.rollout /\ x.counted = FALSE /\ x.status = "running"
  BY <1>1 DEF RunRow, RunOf
<1> HIDE DEF x
<1>4. PICK n : n = Len(runs) + 1
  OBVIOUS
<1>5. /\ runs' \in Seq(RunRow) /\ Len(runs') = n /\ DOMAIN runs' = DOMAIN runs \cup {n}
      /\ n \notin DOMAIN runs /\ runs'[n] = x /\ \A j \in DOMAIN runs : runs'[j] = runs[j]
  BY <1>0, <1>2, <1>3, <1>4
<1>6. Len(runs') <= MaxRuns
  BY <1>0, <1>2, <1>4, <1>5, DeploymentBounds
<1>7. DeployTypes'
  BY <1>0, <1>2, <1>5, <1>6 DEF DeployTypes, Latest
<1>8. ArmsExist'
  BY <1>1, <1>2, <1>3, <1>5 DEF DeployInv, ArmsExist
<1>9. RolloutsEase
  BY <1>2, <1>5 DEF RolloutsEase, Active, CountedRuns, DeployInv, ActiveRolloutIsDeployable
<1> QED
  BY <1>3, <1>5, <1>7, <1>8, <1>9, EasedKeepsRollouts

(* A save, while no rollout is active. *)
LEMMA AppendKeeps ==
    ASSUME DeployInv, NEW d \in Doc, AppendVersion(d)
    PROVE  DeployInv'
<1>0. DeployTypes /\ CountersAreEarned
  BY DEF DeployInv
<1>1. /\ versions' = Append(versions, d) /\ Len(versions) < MaxVersions /\ ~ActiveRollout
      /\ UNCHANGED <<status, deleted, rollouts, runs>>
  BY DEF AppendVersion, Latest
<1>2. versions' \in Seq(Doc) /\ Len(versions') \in 1..MaxVersions
  BY <1>0, <1>1, DeploymentBounds DEF DeployTypes, Latest
<1>3. DeployTypes' /\ ArmsExist'
  BY <1>0, <1>1, <1>2 DEF DeployInv, DeployTypes, ArmsExist, Latest
<1>4. \A r \in DOMAIN rollouts' : ~Active(r)'
  BY <1>1 DEF ActiveRollout, Active
<1>5. CountersAreEarned'
  BY <1>0, <1>1 DEF CountersAreEarned
<1> QED
  BY <1>3, <1>4, <1>5 DEF DeployInv, ActiveRolloutIsDeployable, NoActiveBreach

(* CreateWorkflowRollout *)
LEMMA CreateKeeps ==
    ASSUME DeployInv, NEW b \in DOMAIN versions, CreateRollout(b)
    PROVE  DeployInv'
<1>0. /\ DeployTypes /\ CountersAreEarned /\ rollouts \in Seq(CountedRollout)
      /\ versions \in Seq(Doc) /\ Latest \in 1..MaxVersions
  BY DEF DeployInv, DeployTypes
<1>1. /\ ~deleted /\ ~ActiveRollout /\ Len(rollouts) < MaxRollouts
      /\ Contract(versions[b]) = Contract(versions[Latest])
      /\ UNCHANGED <<status, deleted, versions, runs>>
  BY DEF CreateRollout
<1> DEFINE ro == [baseline |-> b, canary |-> Latest, status |-> "active",
                  succeeded |-> [x \in Variant |-> 0], failed |-> [x \in Variant |-> 0]]
<1>2. b \in 1..MaxVersions
  BY <1>0, DeploymentBounds DEF Latest
<1>3. /\ ro \in CountedRollout /\ ro.baseline = b /\ ro.canary = Latest
      /\ \A x \in Variant : ro.succeeded[x] = 0 /\ ro.failed[x] = 0
  BY <1>0, <1>2 DEF CountedRollout, RolloutStatus
<1>4. rollouts' = Append(rollouts, ro)
  BY DEF CreateRollout
<1> HIDE DEF ro
<1>5. PICK n : n = Len(rollouts) + 1
  OBVIOUS
<1>6. /\ rollouts' \in Seq(CountedRollout) /\ Len(rollouts') = n
      /\ DOMAIN rollouts' = DOMAIN rollouts \cup {n} /\ n \notin DOMAIN rollouts
      /\ rollouts'[n] = ro /\ \A r \in DOMAIN rollouts : rollouts'[r] = rollouts[r]
  BY <1>0, <1>3, <1>4, <1>5
<1>7. Len(rollouts') <= MaxRollouts
  BY <1>0, <1>1, <1>5, <1>6, DeploymentBounds
<1>8. DeployTypes' /\ ArmsExist'
  BY <1>0, <1>1, <1>6, <1>7 DEF DeployInv, DeployTypes, ArmsExist, Latest
<1>9. \A r \in DOMAIN rollouts' : Active(r)' => r = n
  BY <1>1, <1>6 DEF ActiveRollout, Active
<1>10. ActiveRolloutIsDeployable'
  BY <1>1, <1>3, <1>6, <1>9 DEF ActiveRolloutIsDeployable, Latest
<1>11. ~Breached(ro)
  <2>1. Sample(ro) = 0
    BY <1>3 DEF Sample, Variant
  <2> QED
    BY <2>1, DeploymentBounds DEF Breached
<1>12. NoActiveBreach'
  <2> SUFFICES ASSUME NEW r \in DOMAIN rollouts', Active(r)' PROVE ~Breached(rollouts'[r])
    BY DEF NoActiveBreach, Breached, Sample
  <2> QED
    BY <1>6, <1>9, <1>11
<1>13. CountersAreEarned'
  <2> SUFFICES ASSUME NEW r \in DOMAIN rollouts', NEW x \in Variant
               PROVE  rollouts'[r].succeeded[x] + rollouts'[r].failed[x] <= Cardinality(CountedRuns(r, x))
    BY <1>1 DEF CountersAreEarned, CountedRuns
  <2>1. Cardinality(CountedRuns(r, x)) \in Nat
    BY <1>0, CountedRunsFinite
  <2>2. CASE r = n
    BY <1>3, <1>6, <2>1, <2>2
  <2>3. CASE r # n
    BY <1>0, <1>6, <2>3 DEF CountersAreEarned, CountedRuns
  <2> QED
    BY <2>2, <2>3
<1> QED
  BY <1>8, <1>10, <1>12, <1>13 DEF DeployInv

(* Rollouts end one by one, or all at once with the workflow. *)
LEMMA EndKeeps ==
    ASSUME DeployInv,
           \/ \E r \in DOMAIN rollouts, d \in {"promoted", "rolled_back"} : FinishRollout(r, d)
           \/ Deactivate \/ Reactivate
    PROVE  DeployInv'
<1>0. DeployTypes /\ rollouts \in Seq(CountedRollout)
  BY DEF DeployInv, DeployTypes
<1>1. /\ UNCHANGED <<status, versions, runs>> /\ deleted' \in BOOLEAN
  BY <1>0 DEF FinishRollout, Deactivate, Reactivate, DeployTypes
<1> DEFINE Eased == /\ rollouts' \in Seq(CountedRollout) /\ Len(rollouts') = Len(rollouts)
                    /\ DOMAIN rollouts' = DOMAIN rollouts
                    /\ \A r \in DOMAIN rollouts :
                         /\ rollouts'[r].canary = rollouts[r].canary
                         /\ rollouts'[r].baseline = rollouts[r].baseline
                         /\ rollouts'[r].succeeded = rollouts[r].succeeded
                         /\ rollouts'[r].failed = rollouts[r].failed
                         /\ Active(r)' => Active(r) /\ ~deleted'
<1>2. \A ro \in CountedRollout, d \in RolloutStatus :
        /\ [ro EXCEPT !.status = d] \in CountedRollout /\ [ro EXCEPT !.status = d].status = d
        /\ [ro EXCEPT !.status = d].canary = ro.canary /\ [ro EXCEPT !.status = d].baseline = ro.baseline
        /\ [ro EXCEPT !.status = d].succeeded = ro.succeeded /\ [ro EXCEPT !.status = d].failed = ro.failed
  BY DEF CountedRollout
<1>3. \A r \in DOMAIN rollouts : Active(r) => ~deleted
  BY DEF DeployInv, ActiveRolloutIsDeployable
<1>4. ASSUME NEW r \in DOMAIN rollouts, NEW d \in {"promoted", "rolled_back"}, FinishRollout(r, d)
      PROVE  Eased
  <2> DEFINE ro == [rollouts[r] EXCEPT !.status = d]
  <2>1. rollouts' = [rollouts EXCEPT ![r] = ro] /\ UNCHANGED deleted
    BY <1>0, <1>4 DEF FinishRollout
  <2>2. rollouts[r] \in CountedRollout /\ d \in RolloutStatus
    BY <1>0 DEF RolloutStatus
  <2>3. /\ ro \in CountedRollout /\ ro.status = d /\ ro.canary = rollouts[r].canary
        /\ ro.baseline = rollouts[r].baseline /\ ro.succeeded = rollouts[r].succeeded
        /\ ro.failed = rollouts[r].failed
    BY <1>2, <2>2
  <2> HIDE DEF ro
  <2>4. /\ rollouts' \in Seq(CountedRollout) /\ Len(rollouts') = Len(rollouts)
        /\ DOMAIN rollouts' = DOMAIN rollouts /\ rollouts'[r] = ro
        /\ \A s \in DOMAIN rollouts : s # r => rollouts'[s] = rollouts[s]
    BY <1>0, <2>1, <2>3
  <2> QED
    BY <1>3, <2>1, <2>3, <2>4 DEF Active
<1>5. ASSUME Deactivate PROVE Eased
  <2>1. rollouts' = Cancelled(rollouts) /\ deleted' = TRUE
    BY <1>5 DEF Deactivate
  <2>2. \A r \in DOMAIN rollouts : rollouts[r] \in CountedRollout
    BY <1>0
  <2> DEFINE c(r) == IF rollouts[r].status = "active" THEN [rollouts[r] EXCEPT !.status = "cancelled"]
                     ELSE rollouts[r]
  <2>3. \A r \in DOMAIN rollouts :
          /\ c(r) \in CountedRollout /\ c(r).status # "active" /\ c(r).canary = rollouts[r].canary
          /\ c(r).baseline = rollouts[r].baseline /\ c(r).succeeded = rollouts[r].succeeded
          /\ c(r).failed = rollouts[r].failed
    <3>1. "cancelled" \in RolloutStatus
      BY DEF RolloutStatus
    <3> QED
      BY <1>2, <2>2, <3>1
  <2>4. rollouts' = [r \in DOMAIN rollouts |-> c(r)]
    BY <2>1 DEF Cancelled
  <2> HIDE DEF c
  <2>5. PICK n \in Nat : n = Len(rollouts) /\ DOMAIN rollouts = 1..n
    BY <1>0
  <2>6. rollouts' \in Seq(CountedRollout) /\ Len(rollouts') = n /\ DOMAIN rollouts' = 1..n
    BY <2>3, <2>4, <2>5
  <2>7. \A r \in DOMAIN rollouts : rollouts'[r] = c(r)
    BY <2>4
  <2> QED
    BY <2>3, <2>5, <2>6, <2>7 DEF Active
<1>6. ASSUME Reactivate PROVE Eased
  BY <1>0, <1>3, <1>6 DEF Reactivate, Active
<1>7. Eased
  BY <1>4, <1>5, <1>6
<1>8. DeployTypes' /\ ArmsExist'
  BY <1>0, <1>1, <1>7 DEF DeployInv, DeployTypes, ArmsExist, Latest
<1>9. RolloutsEase
  BY <1>1, <1>7 DEF RolloutsEase, CountedRuns
<1> QED
  BY <1>8, <1>9, EasedKeepsRollouts

(* RecordWorkflowRolloutOutcome *)
LEMMA CountKeeps ==
    ASSUME DeployInv, NEW i \in DOMAIN runs, RecordOutcome(i)
    PROVE  /\ DeployInv' /\ DOMAIN runs' = DOMAIN runs
           /\ \A j \in DOMAIN runs : runs'[j].status = runs[j].status
<1> DEFINE c == runs[i].rollout
           x == [runs[i] EXCEPT !.counted = TRUE]
           ro == Counted(rollouts[c], runs[i])
           go == Guarded(ro, runs[i])
<1>0. /\ DeployTypes /\ CountersAreEarned /\ runs \in Seq(RunRow) /\ runs[i] \in RunRow
      /\ rollouts \in Seq(CountedRollout) /\ runs[i].variant \in Variant
  BY DeployRows DEF DeployInv
<1>1. /\ c # 0 /\ Active(c) /\ ~runs[i].counted /\ UNCHANGED <<status, deleted, versions>>
      /\ runs' = [runs EXCEPT ![i] = x] /\ rollouts' = [rollouts EXCEPT ![c] = go]
  BY <1>0 DEF RecordOutcome
<1>2. c \in DOMAIN rollouts /\ rollouts[c] \in CountedRollout
  BY <1>0, <1>1 DEF DeployInv, ArmsExist
<1>3. /\ x \in RunRow /\ x.rollout = c /\ x.variant = runs[i].variant /\ x.counted = TRUE
      /\ x.status = runs[i].status
  BY <1>0 DEF RunRow, RunOf
<1>4. /\ ro \in CountedRollout /\ ro.canary = rollouts[c].canary /\ ro.baseline = rollouts[c].baseline
      /\ ro.status = rollouts[c].status
      /\ \A y \in Variant :
           /\ ro.succeeded[y] + ro.failed[y] <=
                rollouts[c].succeeded[y] + rollouts[c].failed[y] + (IF y = runs[i].variant THEN 1 ELSE 0)
           /\ y # runs[i].variant \/ runs[i].status = "cancelled" =>
                ro.succeeded[y] = rollouts[c].succeeded[y] /\ ro.failed[y] = rollouts[c].failed[y]
  BY <1>0, <1>2, CountedRow
<1> HIDE DEF x, ro
<1>5. /\ go \in CountedRollout /\ go.canary = ro.canary /\ go.baseline = ro.baseline
      /\ go.succeeded = ro.succeeded /\ go.failed = ro.failed
      /\ go.status = "active" =>
           (runs[i].variant = "canary" /\ runs[i].status # "cancelled" => ~Breached(ro))
  BY <1>4, GuardedRow
<1> HIDE DEF go, c
<1>6. /\ runs' \in Seq(RunRow) /\ Len(runs') = Len(runs) /\ DOMAIN runs' = DOMAIN runs
      /\ runs'[i] = x /\ \A j \in DOMAIN runs : j # i => runs'[j] = runs[j]
  BY <1>0, <1>1, <1>3
<1>7. /\ rollouts' \in Seq(CountedRollout) /\ Len(rollouts') = Len(rollouts)
      /\ DOMAIN rollouts' = DOMAIN rollouts
      /\ rollouts'[c] = go /\ \A r \in DOMAIN rollouts : r # c => rollouts'[r] = rollouts[r]
  BY <1>0, <1>1, <1>2, <1>5
<1>8. DeployTypes'
  BY <1>0, <1>1, <1>6, <1>7 DEF DeployTypes, Latest
<1>9. ArmsExist'
  BY <1>3, <1>6, <1>7 DEF DeployInv, ArmsExist, c
<1>10. \A r \in DOMAIN rollouts : /\ rollouts'[r].canary = rollouts[r].canary
                                  /\ rollouts'[r].baseline = rollouts[r].baseline
                                  /\ Active(r)' => Active(r)
  BY <1>1, <1>4, <1>5, <1>7 DEF Active
<1>11. ActiveRolloutIsDeployable'
  BY <1>1, <1>7, <1>10 DEF DeployInv, ActiveRolloutIsDeployable, Latest
<1>12. NoActiveBreach'
  <2> SUFFICES ASSUME NEW r \in DOMAIN rollouts, Active(r)' PROVE ~Breached(rollouts'[r])
    BY <1>7 DEF NoActiveBreach, Breached, Sample
  <2>1. ~Breached(rollouts[r])
    BY <1>10 DEF DeployInv, NoActiveBreach
  <2>2. CASE r # c
    BY <1>7, <2>1, <2>2
  <2>3. CASE r = c /\ runs[i].variant = "canary" /\ runs[i].status # "cancelled"
    <3>1. ~Breached(ro) /\ rollouts'[r] = go
      BY <1>5, <1>7, <2>3 DEF Active
    <3> QED
      BY <1>5, <3>1, BreachDependsOnCanary
  <2>4. CASE r = c /\ (runs[i].variant # "canary" \/ runs[i].status = "cancelled")
    <3>1. ro.succeeded["canary"] = rollouts[c].succeeded["canary"]
          /\ ro.failed["canary"] = rollouts[c].failed["canary"]
      BY <1>4, <2>4 DEF Variant
    <3>2. rollouts'[r].succeeded["canary"] = rollouts[r].succeeded["canary"]
          /\ rollouts'[r].failed["canary"] = rollouts[r].failed["canary"]
      BY <1>5, <1>7, <2>4, <3>1
    <3> QED
      BY <2>1, <3>2, BreachDependsOnCanary
  <2> QED
    BY <2>2, <2>3, <2>4
<1>13. CountersAreEarned'
  <2> SUFFICES ASSUME NEW r \in DOMAIN rollouts, NEW y \in Variant
               PROVE  rollouts'[r].succeeded[y] + rollouts'[r].failed[y] <= Cardinality(CountedRuns(r, y)')
    BY <1>7 DEF CountersAreEarned, CountedRuns
  <2> DEFINE before == CountedRuns(r, y)
             after == CountedRuns(r, y)'
  <2>1. /\ rollouts[r].succeeded[y] \in Nat /\ rollouts[r].failed[y] \in Nat
        /\ rollouts[r].succeeded[y] + rollouts[r].failed[y] <= Cardinality(before)
    BY <1>0, DeployRows DEF CountersAreEarned, CountedRuns
  <2>2. IsFiniteSet(before) /\ Cardinality(before) \in Nat
    BY <1>0, CountedRunsFinite
  <2>3. \A j \in DOMAIN runs : j # i => (j \in before <=> j \in after)
    BY <1>6 DEF CountedRuns
  <2>4. i \notin before /\ (i \in after <=> r = c /\ y = runs[i].variant)
    BY <1>1, <1>3, <1>6 DEF CountedRuns
  <2>5. before \subseteq DOMAIN runs /\ after \subseteq DOMAIN runs
    BY <1>6 DEF CountedRuns
  <2> HIDE DEF before, after
  <2>6. CASE r = c /\ y = runs[i].variant
    <3>1. after = before \cup {i}
      BY <2>3, <2>4, <2>5, <2>6
    <3>2. Cardinality(after) = Cardinality(before) + 1
      BY <2>2, <2>4, <3>1, FS_AddElement
    <3>3. rollouts'[r].succeeded[y] + rollouts'[r].failed[y] <=
            rollouts[r].succeeded[y] + rollouts[r].failed[y] + 1
      BY <1>4, <1>5, <1>7, <2>6
    <3>4. rollouts'[r].succeeded[y] \in Nat /\ rollouts'[r].failed[y] \in Nat
      BY <1>5, <1>7, <2>6 DEF CountedRollout
    <3> QED
      BY <2>1, <2>2, <3>2, <3>3, <3>4 DEF after
  <2>7. CASE ~(r = c /\ y = runs[i].variant)
    <3>1. after = before
      BY <2>3, <2>4, <2>5, <2>7
    <3>2. rollouts'[r].succeeded[y] = rollouts[r].succeeded[y]
          /\ rollouts'[r].failed[y] = rollouts[r].failed[y]
      BY <1>4, <1>5, <1>7, <2>7
    <3> QED
      BY <2>1, <3>1, <3>2 DEF after
  <2> QED
    BY <2>6, <2>7
<1> QED
  BY <1>3, <1>6, <1>8, <1>9, <1>11, <1>12, <1>13 DEF DeployInv

-----------------------------------------------------------------------------
(* The newest n of a finite set of numbers. *)

After(F, i) == {j \in F : j > i}
Newest(F, n) == {i \in F : Cardinality(After(F, i)) < n}

LEMMA LeastOfSet ==
    ASSUME NEW S \in SUBSET Nat, S # {}
    PROVE  \E m \in S : \A k \in S : m <= k
<1> DEFINE R == {ss \in Nat \X Nat : ss[1] < ss[2]}
<1>1. IsWellFoundedOn(R, Nat)
  BY NatLessThanWellFounded DEF OpToRel
<1> HIDE DEF R
<1>2. \E m \in S : \A k \in S : ~(<<k, m>> \in R)
  BY <1>1, WFMin
<1>3. \A m, k \in Nat : ~(<<k, m>> \in R) => m <= k
  BY DEF R
<1> QED
  BY <1>2, <1>3

LEMMA AfterIsFinite ==
    ASSUME NEW F \in SUBSET Nat, IsFiniteSet(F), NEW i
    PROVE  IsFiniteSet(After(F, i)) /\ Cardinality(After(F, i)) \in Nat
<1>1. After(F, i) \in SUBSET F
  BY DEF After
<1> QED
  BY <1>1, FS_Subset, FS_CardinalityType

(* A newcomer that is not among the newest leaves them as they were. *)
LEMMA NewestOfMore ==
    ASSUME NEW F \in SUBSET Nat, IsFiniteSet(F), NEW i \in Nat, i \notin F, NEW n \in Nat,
           i \notin Newest(F \cup {i}, n)
    PROVE  Newest(F \cup {i}, n) = Newest(F, n)
<1> DEFINE G == F \cup {i}
<1>1. IsFiniteSet(G) /\ G \in SUBSET Nat
  BY FS_AddElement
<1>2. Cardinality(After(G, i)) >= n /\ Cardinality(After(G, i)) \in Nat
  <2>1. Cardinality(After(G, i)) \in Nat
    BY <1>1, AfterIsFinite
  <2>2. ~(Cardinality(After(G, i)) < n)
    BY DEF Newest
  <2> QED
    BY <2>1, <2>2
<1>3. After(G, i) = After(F, i)
  BY DEF After
<1>4. ASSUME NEW k \in F, k > i PROVE After(G, k) = After(F, k)
  BY <1>4 DEF After
<1>5. ASSUME NEW k \in F, k < i
      PROVE  ~(Cardinality(After(G, k)) < n) /\ ~(Cardinality(After(F, k)) < n)
  <2>0. k \in Nat /\ \A j \in F : j \in Nat /\ (j > i => j > k)
    BY <1>5
  <2>1. After(F, i) \in SUBSET After(F, k) /\ After(F, i) \in SUBSET After(G, k)
    BY <2>0 DEF After
  <2>2. /\ IsFiniteSet(After(F, k)) /\ Cardinality(After(F, k)) \in Nat
        /\ IsFiniteSet(After(G, k)) /\ Cardinality(After(G, k)) \in Nat
    BY <1>1, AfterIsFinite
  <2>3. /\ Cardinality(After(F, i)) <= Cardinality(After(F, k))
        /\ Cardinality(After(F, i)) <= Cardinality(After(G, k))
    BY <2>1, <2>2, FS_Subset
  <2> QED
    BY <1>2, <1>3, <2>2, <2>3
<1>6. \A k \in F : k \in Newest(G, n) <=> k \in Newest(F, n)
  <2> SUFFICES ASSUME NEW k \in F PROVE k \in Newest(G, n) <=> k \in Newest(F, n)
    OBVIOUS
  <2>1. k \in Nat /\ k # i
    OBVIOUS
  <2>2. CASE k > i
    BY <1>4, <2>2 DEF Newest
  <2>3. CASE k < i
    BY <1>5, <2>3 DEF Newest
  <2> QED
    BY <2>1, <2>2, <2>3
<1> QED
  BY <1>6 DEF Newest

(* When one of a set goes and n newest remain, there were n newest before:   *)
(* the oldest of them replaces it.                                           *)
LEMMA NewestOfLess ==
    ASSUME NEW F \in SUBSET Nat, IsFiniteSet(F), NEW i \in F, NEW n \in Nat \ {0},
           Cardinality(Newest(F \ {i}, n)) = n
    PROVE  Cardinality(Newest(F, n)) = n /\ Newest(F, n) \subseteq Newest(F \ {i}, n) \cup {i}
<1> DEFINE G == F \ {i}
           N == Newest(G, n)
<1>0. i \in Nat
  OBVIOUS
<1>1. IsFiniteSet(G) /\ G \in SUBSET Nat
  BY FS_RemoveElement
<1>2. /\ \A k : IsFiniteSet(After(F, k)) /\ Cardinality(After(F, k)) \in Nat
      /\ \A k : IsFiniteSet(After(G, k)) /\ Cardinality(After(G, k)) \in Nat
  BY <1>1, AfterIsFinite
<1>3. N \subseteq G /\ IsFiniteSet(N) /\ i \notin N
  <2>1. N \in SUBSET G /\ i \notin G
    BY DEF Newest
  <2> QED
    BY <1>1, <2>1, FS_Subset
<1>4. \A k \in G : IF k < i THEN Cardinality(After(F, k)) = Cardinality(After(G, k)) + 1
                   ELSE Cardinality(After(F, k)) = Cardinality(After(G, k))
  <2> SUFFICES ASSUME NEW k \in G
               PROVE  IF k < i THEN Cardinality(After(F, k)) = Cardinality(After(G, k)) + 1
                      ELSE Cardinality(After(F, k)) = Cardinality(After(G, k))
    OBVIOUS
  <2>1. k \in Nat
    BY <1>1
  <2>2. CASE k < i
    <3>1. After(F, k) = After(G, k) \cup {i} /\ i \notin After(G, k)
      BY <1>0, <2>1, <2>2 DEF After
    <3>2. Cardinality(After(G, k) \cup {i}) = Cardinality(After(G, k)) + 1
      BY <1>2, <3>1, FS_AddElement
    <3> QED
      BY <2>2, <3>1, <3>2
  <2>3. CASE ~(k < i)
    <3>1. After(F, k) = After(G, k)
      BY <1>0, <2>1, <2>3 DEF After
    <3> QED
      BY <2>3, <3>1
  <2> QED
    BY <2>2, <2>3
<1>5. \A k \in G : k \in Newest(F, n) => k \in N
  BY <1>2, <1>4 DEF Newest
<1>6. Newest(F, n) \subseteq N \cup {i}
  BY <1>5 DEF Newest
<1>7. CASE i \notin Newest(F, n)
  <2>1. Cardinality(After(F, i)) >= n
    BY <1>2, <1>7 DEF Newest
  <2>2. \A k \in N : ~(k < i)
    <3> SUFFICES ASSUME NEW k \in N, k < i PROVE FALSE
      OBVIOUS
    <3>1. k \in Nat /\ Cardinality(After(G, k)) < n
      BY <1>1, <1>3 DEF Newest
    <3>2. After(F, i) \in SUBSET After(G, k)
      <4>1. \A j \in F : j \in Nat /\ (j > i => j > k /\ j # i)
        BY <1>0, <3>1
      <4> QED
        BY <4>1 DEF After
    <3>3. Cardinality(After(F, i)) <= Cardinality(After(G, k))
      BY <1>2, <3>2, FS_Subset
    <3> QED
      BY <1>2, <2>1, <3>1, <3>3
  <2>3. \A k \in N : k \in Newest(F, n)
    <3> SUFFICES ASSUME NEW k \in N PROVE k \in Newest(F, n)
      OBVIOUS
    <3>1. k \in G /\ k \in F /\ Cardinality(After(G, k)) < n
      BY <1>3 DEF Newest
    <3>2. Cardinality(After(F, k)) = Cardinality(After(G, k))
      BY <1>4, <2>2, <3>1
    <3> QED
      BY <3>1, <3>2 DEF Newest
  <2>4. Newest(F, n) = N
    BY <1>6, <1>7, <2>3
  <2> QED
    BY <1>6, <2>4
<1>8. CASE i \in Newest(F, n)
  <2>1. N # {} /\ N \in SUBSET Nat
    <3>1. N \in SUBSET Nat
      BY <1>1, <1>3
    <3>2. Cardinality({}) = 0
      BY FS_EmptySet
    <3> QED
      BY <3>1, <3>2
  <2>2. PICK m \in N : \A k \in N : m <= k
    BY <2>1, LeastOfSet
  <2>3. m \in G /\ m \in F /\ m \in Nat /\ m # i /\ Cardinality(After(G, m)) < n
    BY <1>1, <1>3, <2>2 DEF Newest
  <2> HIDE DEF G, N
  <2>4. IsFiniteSet(N \ {m}) /\ Cardinality(N \ {m}) = n - 1
    <3>1. Cardinality(N) = n
      BY DEF G, N
    <3> QED
      BY <1>3, <2>2, <3>1, FS_RemoveElement
  <2>5. N \ {m} \in SUBSET After(G, m)
    <3>1. \A k \in N \ {m} : k \in G /\ k \in Nat /\ m <= k /\ k # m
      BY <1>1, <1>3, <2>2
    <3>2. \A k \in N \ {m} : k \in G /\ k > m
      BY <2>3, <3>1
    <3> QED
      BY <3>2 DEF After
  <2>6. Cardinality(N \ {m}) <= Cardinality(After(G, m))
    BY <1>2, <2>5, FS_Subset
  <2>7. Cardinality(After(G, m)) = n - 1
    BY <1>2, <2>3, <2>4, <2>6
  <2>8. \A k \in N \ {m} : k \in Newest(F, n)
    <3> SUFFICES ASSUME NEW k \in N \ {m} PROVE k \in Newest(F, n)
      OBVIOUS
    <3>1. k \in G /\ k \in F /\ k \in Nat /\ m < k
      BY <1>1, <1>3, <2>2, <2>3 DEF G
    <3>2. After(G, k) \in SUBSET After(G, m) /\ k \in After(G, m) /\ k \notin After(G, k)
      <4>1. \A j \in G : j \in Nat /\ (j > k => j > m)
        BY <1>1, <2>3, <3>1
      <4>2. k > m /\ ~(k > k)
        BY <2>3, <3>1
      <4> QED
        BY <3>1, <4>1, <4>2 DEF After
    <3>3. Cardinality(After(G, k)) <= n - 1 /\ Cardinality(After(G, k)) # n - 1
      BY <1>2, <2>7, <3>2, FS_Subset
    <3>4. Cardinality(After(F, k)) <= Cardinality(After(G, k)) + 1
      BY <1>2, <1>4, <3>1
    <3> QED
      BY <1>2, <3>1, <3>3, <3>4 DEF Newest
  <2>9. m < i
    <3> SUFFICES ASSUME i < m PROVE FALSE
      BY <1>0, <2>3
    <3>1. N \in SUBSET After(F, i)
      <4>1. \A k \in N : k \in G /\ k \in F /\ k \in Nat /\ m <= k
        BY <1>1, <1>3, <2>2 DEF G
      <4>2. \A k \in N : k \in F /\ k > i
        BY <1>0, <2>3, <4>1
      <4> QED
        BY <4>2 DEF After
    <3>2. n <= Cardinality(After(F, i))
      <4>1. Cardinality(N) = n
        BY DEF G, N
      <4> QED
        BY <1>2, <3>1, <4>1, FS_Subset
    <3> QED
      BY <1>2, <1>8, <3>2 DEF Newest
  <2>10. m \notin Newest(F, n)
    <3>1. Cardinality(After(F, m)) = n - 1 + 1
      BY <1>4, <2>3, <2>7, <2>9
    <3>2. ~(Cardinality(After(F, m)) < n)
      BY <3>1
    <3> QED
      BY <3>2 DEF Newest
  <2>11. Newest(F, n) = (N \ {m}) \cup {i}
    BY <1>6, <1>8, <2>8, <2>10
  <2>12. Cardinality((N \ {m}) \cup {i}) = n - 1 + 1
    BY <1>3, <2>4, FS_AddElement
  <2> QED
    BY <1>6, <2>11, <2>12 DEF G, N
<1> QED
  BY <1>7, <1>8

-----------------------------------------------------------------------------
(* Every step keeps the deployment sound. *)

LEMMA DeployStarts == GuardInit => DeployInv
<1> SUFFICES ASSUME GuardInit PROVE DeployInv
  OBVIOUS
<1> USE DEF GuardInit, DeploymentInit
<1>1. PICK d \in Doc : versions = <<d>>
  OBVIOUS
<1>2. DeployTypes
  <2>1. status \in {"active", "paused", "degraded"} /\ deleted \in BOOLEAN
    OBVIOUS
  <2>2. versions \in Seq(Doc) /\ Len(versions) = 1 /\ 1 \in 1..MaxVersions
    BY <1>1, DeploymentBounds
  <2>3. rollouts \in Seq(CountedRollout) /\ Len(rollouts) = 0 /\ 0 <= MaxRollouts
    BY DeploymentBounds
  <2>4. runs \in Seq(RunRow) /\ Len(runs) = 0 /\ 0 <= MaxRuns
    BY DeploymentBounds
  <2> QED
    BY <2>1, <2>2, <2>3, <2>4 DEF DeployTypes, Latest
<1>3. DOMAIN rollouts = {} /\ DOMAIN runs = {}
  OBVIOUS
<1> QED
  BY <1>2, <1>3 DEF DeployInv, ArmsExist, ActiveRolloutIsDeployable, NoActiveBreach, CountersAreEarned

LEMMA DeployStep == DeployInv /\ [GuardNext]_vars => DeployInv'
<1> SUFFICES ASSUME DeployInv, [GuardNext]_vars PROVE DeployInv'
  OBVIOUS
<1>0. DeployTypes /\ status \in {"active", "paused", "degraded"} /\ versions \in Seq(Doc)
  BY DEF DeployInv, DeployTypes
<1>1. ASSUME NEW k \in Key, StartRun(k) PROVE DeployInv'
  BY <1>1, StartKeeps
<1>2. ASSUME NEW i \in DOMAIN runs, NEW o \in Settled, SettleRun(i, o) PROVE DeployInv'
  BY <1>2, RunStatusKeeps DEF SettleRun
<1>n. ASSUME UNCHANGED dVars PROVE DeployInv'
  BY <1>0, <1>n, StatusKeeps DEF dVars
<1>3. ASSUME NEW i \in DOMAIN runs, RunRevives(i) PROVE DeployInv'
  <2>1. "running" \in {"running"} \cup Settled
    OBVIOUS
  <2> QED
    BY <1>3, <2>1, RunStatusKeeps DEF RunRevives, ReviveRun
<1>4. ASSUME NEW i \in DOMAIN runs, CountOutcome(i) PROVE DeployInv'
  BY <1>4, CountKeeps DEF CountOutcome
<1>5. ASSUME NEW i \in DOMAIN runs, EvaluateBreaker(i) \/ TripBreaker(i) \/ LoseEvaluation(i)
      PROVE  DeployInv'
  <2>1. /\ UNCHANGED <<deleted, versions, rollouts, runs>>
        /\ status' \in {"active", "paused", "degraded"}
    BY <1>0, <1>5 DEF EvaluateBreaker, TripBreaker, LoseEvaluation, dVars
  <2> QED
    BY <2>1, StatusKeeps
<1>6. ASSUME NEW s \in Source, NEW verdict \in BOOLEAN, PollOneSource(s, verdict) PROVE DeployInv'
  <2>1. /\ UNCHANGED <<deleted, versions, rollouts, runs>>
        /\ status' \in {"active", "paused", "degraded"}
    BY <1>0, <1>6 DEF PollOneSource, PauseWorkflowsForUpstream, ResumeWorkflowsForUpstream
  <2> QED
    BY <2>1, StatusKeeps
<1>7. ASSUME ResumeBreaker PROVE DeployInv'
  <2>1. UNCHANGED <<deleted, versions, rollouts, runs>> /\ status' = "active"
    BY <1>7 DEF ResumeBreaker
  <2> QED
    BY <2>1, StatusKeeps
<1>8. ASSUME OperatorStep PROVE DeployInv'
  <2>1. ASSUME NEW d \in Doc, AppendVersion(d) PROVE DeployInv'
    BY <2>1, AppendKeeps
  <2>2. ASSUME NEW v \in DOMAIN versions, RollbackTo(v) PROVE DeployInv'
    <3>1. versions[v] \in Doc
      BY <1>0
    <3> QED
      BY <2>2, <3>1, AppendKeeps DEF RollbackTo
  <2>3. ASSUME NEW b \in DOMAIN versions, CreateRollout(b) PROVE DeployInv'
    BY <2>3, CreateKeeps
  <2> QED
    BY <1>8, <2>1, <2>2, <2>3, EndKeeps DEF OperatorStep
<1>9. ASSUME DeleteOrRestore PROVE DeployInv'
  BY <1>9, EndKeeps DEF DeleteOrRestore
<1>10. ASSUME UNCHANGED vars PROVE DeployInv'
  BY <1>10, <1>n DEF vars
<1>11. ASSUME NEW i \in DOMAIN runs, NodeFails(i) \/ \E o \in Settled : RunEnds(i, o)
       PROVE  DeployInv'
  <2>1. "failed" \in Settled
    BY DEF Settled
  <2> QED
    BY <1>2, <1>n, <1>11, <2>1 DEF NodeFails, RunEnds
<1> QED
  BY <1>1, <1>11, <1>3, <1>4, <1>5, <1>6, <1>7, <1>8, <1>9, <1>10 DEF GuardNext

THEOREM DeployInvariant == GuardSpec => []DeployInv
BY DeployStarts, DeployStep, PTL DEF GuardSpec

(* While a rollout is active its workflow is not tombstoned, its canary is   *)
(* the newest version, it is the only active one and both its arms answer    *)
(* the same triggers, however saves, rollbacks, deletes and outcomes         *)
(* interleave (rollouts.go CreateWorkflowRollout).                           *)
THEOREM RolloutIsDeployable == GuardSpec => []ActiveRolloutIsDeployable
<1>1. DeployInv => ActiveRolloutIsDeployable
  BY DEF DeployInv
<1> QED
  BY <1>1, DeployInvariant, PTL

(* The outcome that tips a canary below its agreed success rate also ends    *)
(* the rollout, for every sample size and rate (rolloutoutcomes.go           *)
(* RecordWorkflowRolloutOutcome).                                            *)
THEOREM BreachEndsRollout == GuardSpec => []NoActiveBreach
<1>1. DeployInv => NoActiveBreach
  BY DEF DeployInv
<1> QED
  BY <1>1, DeployInvariant, PTL

(* The callback after the flip, the repair sweep and a redrive of one run    *)
(* together add at most one outcome to its rollout (rolloutoutcomes.go).     *)
THEOREM OutcomesCountOnce == GuardSpec => []CountersAreEarned
<1>1. DeployInv => CountersAreEarned
  BY DEF DeployInv
<1> QED
  BY <1>1, DeployInvariant, PTL

-----------------------------------------------------------------------------
(* A step that is no failure makes no streak that was not there before. *)

LEMMA FinishedIsFinite ==
    ASSUME DeployTypes
    PROVE  Finished \in SUBSET Nat /\ IsFiniteSet(Finished)
<1>1. runs \in Seq(RunRow) /\ Finished \in SUBSET DOMAIN runs
  BY DEF DeployTypes, Finished
<1>2. DOMAIN runs \subseteq Nat
  BY <1>1
<1> QED
  BY <1>1, <1>2, FiniteRuns

LEMMA NewestOfFinished ==
    /\ NewestFinished(Threshold) = Newest(Finished, Threshold)
    /\ NewestFinished(Threshold)' = Newest(Finished', Threshold)
BY DEF NewestFinished, Newest, After

LEMMA SameStreak ==
    ASSUME Finished' = Finished, \A j \in Finished : runs'[j].status = runs[j].status
    PROVE  Streak' <=> Streak
<1>1. NewestFinished(Threshold)' = NewestFinished(Threshold)
  BY NewestOfFinished
<1>2. NewestFinished(Threshold) \subseteq Finished
  BY DEF NewestFinished
<1> QED
  BY <1>1, <1>2 DEF Streak

LEMMA StartKeepsStreak ==
    ASSUME DeployInv, NEW k \in Key, StartRun(k)
    PROVE  (Streak' <=> Streak) /\ DOMAIN runs \subseteq DOMAIN runs'
<1>1. /\ \A j \in DOMAIN runs : j \in DOMAIN runs' /\ runs'[j] = runs[j]
      /\ \A j \in DOMAIN runs' : j \notin DOMAIN runs => runs'[j].status = "running"
  BY StartKeeps
<1>2. Finished' = Finished /\ \A j \in Finished : runs'[j].status = runs[j].status
  BY <1>1 DEF Finished
<1> QED
  BY <1>1, <1>2, SameStreak

LEMMA CountKeepsStreak ==
    ASSUME DeployInv, NEW i \in DOMAIN runs, RecordOutcome(i)
    PROVE  (Streak' <=> Streak) /\ DOMAIN runs' = DOMAIN runs
<1>1. DOMAIN runs' = DOMAIN runs /\ \A j \in DOMAIN runs : runs'[j].status = runs[j].status
  BY CountKeeps
<1>2. Finished' = Finished /\ \A j \in Finished : runs'[j].status = runs[j].status
  BY <1>1 DEF Finished
<1> QED
  BY <1>1, <1>2, SameStreak

(* A success among the newest is no streak, and behind them it changes none. *)
LEMMA EndKeepsStreak ==
    ASSUME DeployInv, NEW i \in DOMAIN runs, NEW o \in Settled, o # "failed", SettleRun(i, o)
    PROVE  Streak' => Streak
<1>1. /\ DOMAIN runs' = DOMAIN runs /\ runs'[i].status = o
      /\ \A j \in DOMAIN runs : j # i => runs'[j] = runs[j]
  BY RunStatusKeeps DEF SettleRun
<1>2. runs[i].status = "running" /\ i \notin Finished
  BY DEF SettleRun, Finished
<1>3. CASE o = "cancelled"
  <2>1. Finished' = Finished /\ \A j \in Finished : runs'[j].status = runs[j].status
    BY <1>1, <1>2, <1>3 DEF Finished
  <2> QED
    BY <2>1, SameStreak
<1>4. CASE o = "succeeded"
  <2> SUFFICES ASSUME Streak' PROVE Streak
    OBVIOUS
  <2> DEFINE F == Finished
  <2>1. Finished' = F \cup {i} /\ \A j \in F : runs'[j].status = runs[j].status
    BY <1>1, <1>2, <1>4 DEF Finished
  <2>2. F \in SUBSET Nat /\ IsFiniteSet(F) /\ i \in Nat
    <3>1. DeployTypes /\ runs \in Seq(RunRow)
      BY DEF DeployInv, DeployTypes
    <3>2. i \in Nat
      BY <3>1
    <3> QED
      BY <3>1, <3>2, FinishedIsFinite
  <2>3. /\ Cardinality(Newest(F \cup {i}, Threshold)) = Threshold
        /\ \A j \in Newest(F \cup {i}, Threshold) : runs'[j].status = "failed"
    BY <2>1, NewestOfFinished DEF Streak
  <2>4. i \notin Newest(F \cup {i}, Threshold)
    BY <1>1, <1>4, <2>3
  <2>5. Newest(F \cup {i}, Threshold) = Newest(F, Threshold)
    <3> HIDE DEF F
    <3> QED
      BY <1>2, <2>2, <2>4, NewestOfMore, GuardBounds DEF F
  <2>6. Newest(F, Threshold) \subseteq F
    BY DEF Newest
  <2> QED
    BY <2>1, <2>3, <2>5, <2>6, NewestOfFinished DEF Streak
<1> QED
  BY <1>3, <1>4 DEF Settled

(* A redrive takes a failure out of the history; a streak that remains       *)
(* without it was a streak with it.                                          *)
LEMMA RevivalKeepsStreak ==
    ASSUME DeployInv, NEW i \in DOMAIN runs, ReviveRun(i)
    PROVE  (Streak' => Streak) /\ DOMAIN runs' = DOMAIN runs
<1>0. "running" \in {"running"} \cup Settled
  OBVIOUS
<1>1. /\ DOMAIN runs' = DOMAIN runs /\ runs'[i].status = "running"
      /\ \A j \in DOMAIN runs : j # i => runs'[j] = runs[j]
  BY <1>0, RunStatusKeeps DEF ReviveRun
<1>2. runs[i].status = "failed" /\ i \in Finished
  BY DEF ReviveRun, Finished
<1>3. ASSUME Streak' PROVE Streak
  <2> DEFINE F == Finished
  <2>1. Finished' = F \ {i} /\ \A j \in F \ {i} : runs'[j].status = runs[j].status
    BY <1>1, <1>2 DEF Finished
  <2>2. F \in SUBSET Nat /\ IsFiniteSet(F)
    BY FinishedIsFinite DEF DeployInv
  <2>3. /\ Cardinality(Newest(F \ {i}, Threshold)) = Threshold
        /\ \A j \in Newest(F \ {i}, Threshold) : runs'[j].status = "failed"
    BY <1>3, <2>1, NewestOfFinished DEF Streak
  <2>4. Newest(F \ {i}, Threshold) \subseteq F \ {i}
    BY DEF Newest
  <2>5. /\ Cardinality(Newest(F, Threshold)) = Threshold
        /\ Newest(F, Threshold) \subseteq Newest(F \ {i}, Threshold) \cup {i}
    <3>1. i \in F
      BY <1>2
    <3> HIDE DEF F
    <3> QED
      BY <2>2, <2>3, <3>1, NewestOfLess, GuardBounds
  <2>6. \A j \in Newest(F, Threshold) : runs[j].status = "failed"
    BY <1>2, <2>1, <2>3, <2>4, <2>5
  <2> QED
    BY <2>5, <2>6, NewestOfFinished DEF Streak
<1> QED
  BY <1>1, <1>3

-----------------------------------------------------------------------------
(* The circuit breaker. *)

LEMMA StreakStarts == GuardInit => StreakInv
<1> SUFFICES ASSUME GuardInit PROVE StreakInv
  OBVIOUS
<1>1. /\ DOMAIN runs = {} /\ deleted = FALSE /\ evaluating = {} /\ tripping = {}
      /\ excused = FALSE /\ pausedBy = "none" /\ events = 0
  BY DEF GuardInit, DeploymentInit
<1>2. GuardTypes
  <2>1. events \in 0..MaxEvents
    BY <1>1, GuardBounds
  <2>2. excused \in BOOLEAN /\ evaluating \subseteq DOMAIN runs /\ tripping \subseteq DOMAIN runs
    BY <1>1
  <2> QED
    BY <1>1, <2>1, <2>2 DEF GuardTypes
<1>3. ~Streak
  <2>1. NewestFinished(Threshold) = {}
    BY <1>1 DEF NewestFinished, Finished
  <2> QED
    BY <2>1, FS_EmptySet, GuardBounds DEF Streak
<1> QED
  BY <1>1, <1>2, <1>3 DEF StreakInv, StreakPauses

(* A step that leaves the breaker's own state alone, or only spends an event *)
LEMMA QuietStep ==
    ASSUME StreakInv, Streak' => Streak, DOMAIN runs \subseteq DOMAIN runs',
           UNCHANGED <<status, deleted, evaluating, tripping, excused, pausedBy>>,
           events' = events \/ Event
    PROVE  StreakInv'
<1>1. GuardTypes /\ events' \in 0..MaxEvents
  BY GuardBounds DEF StreakInv, GuardTypes, Event
<1>2. GuardTypes'
  BY <1>1 DEF GuardTypes
<1>3. StreakPauses'
  BY DEF StreakInv, StreakPauses
<1> QED
  BY <1>2, <1>3 DEF StreakInv

LEMMA StreakStep == DeployInv /\ StreakInv /\ [GuardNext]_vars => StreakInv'
<1> SUFFICES ASSUME DeployInv, StreakInv, [GuardNext]_vars PROVE StreakInv'
  OBVIOUS
<1>0. /\ GuardTypes /\ status \in {"active", "paused", "degraded"} /\ deleted \in BOOLEAN
      /\ excused \in BOOLEAN
  BY DEF DeployInv, DeployTypes, StreakInv, GuardTypes
<1>a. UNCHANGED runs => (Streak' <=> Streak)
  <2>1. UNCHANGED runs => Finished' = Finished /\ \A j \in Finished : runs'[j].status = runs[j].status
    BY DEF Finished
  <2> QED
    BY <2>1, SameStreak
<1>b. Event => events' \in 0..MaxEvents
  BY <1>0, GuardBounds DEF Event, GuardTypes
<1>1. ASSUME NEW k \in Key, StartRun(k) PROVE StreakInv'
  <2>1. (Streak' <=> Streak) /\ DOMAIN runs \subseteq DOMAIN runs'
    BY <1>1, StartKeepsStreak
  <2> QED
    BY <1>1, <2>1, QuietStep DEF StartRun, gVars
<1>2. ASSUME NEW i \in DOMAIN runs, NEW o \in Settled, RunEnds(i, o) PROVE StreakInv'
  <2>1. DOMAIN runs' = DOMAIN runs
    BY <1>2, RunStatusKeeps DEF RunEnds, SettleRun
  <2>2. CASE o = "failed"
    <3>1. /\ excused' = (excused \/ evaluating = {})
          /\ UNCHANGED <<deleted, evaluating, tripping, pausedBy, events>>
      BY <1>2, <2>2 DEF RunEnds, SettleRun
    <3>2. GuardTypes'
      BY <1>0, <2>1, <3>1 DEF GuardTypes
    <3>3. StreakPauses'
      BY <3>1 DEF StreakInv, StreakPauses
    <3> QED
      BY <3>2, <3>3 DEF StreakInv
  <2>3. CASE o # "failed"
    <3>1. Streak' => Streak
      BY <1>2, <2>3, EndKeepsStreak DEF RunEnds
    <3>2. UNCHANGED <<status, deleted, evaluating, tripping, excused, pausedBy, events>>
      <4>1. (excused \/ (o = "failed" /\ evaluating = {})) = excused
        BY <1>0, <2>3
      <4> QED
        BY <1>2, <4>1 DEF RunEnds, SettleRun
    <3> QED
      BY <2>1, <3>1, <3>2, QuietStep
  <2> QED
    BY <2>2, <2>3
<1>3. ASSUME NEW i \in DOMAIN runs, RunRevives(i) PROVE StreakInv'
  <2>1. (Streak' => Streak) /\ DOMAIN runs' = DOMAIN runs
    BY <1>3, RevivalKeepsStreak DEF RunRevives
  <2> QED
    BY <1>3, <2>1, QuietStep DEF RunRevives, ReviveRun
<1>4. ASSUME NEW i \in DOMAIN runs, CountOutcome(i) PROVE StreakInv'
  <2>1. (Streak' <=> Streak) /\ DOMAIN runs' = DOMAIN runs
    BY <1>4, CountKeepsStreak DEF CountOutcome
  <2>2. UNCHANGED <<status, deleted, evaluating, tripping, excused, pausedBy, events>>
    BY <1>4 DEF CountOutcome, RecordOutcome, gVars
  <2> QED
    BY <2>1, <2>2, QuietStep
<1>5. ASSUME NEW i \in DOMAIN runs, EvaluateBreaker(i) PROVE StreakInv'
  <2>1. /\ UNCHANGED <<status, deleted, runs, pausedBy, events>> /\ evaluating' = evaluating \ {i}
        /\ excused' = (excused \/ status = "degraded")
    BY <1>5 DEF EvaluateBreaker, dVars
  <2>2. GuardTypes'
    <3>1. tripping' \subseteq DOMAIN runs
      BY <1>0, <1>5 DEF EvaluateBreaker, GuardTypes
    <3> QED
      BY <1>0, <2>1, <3>1 DEF GuardTypes
  <2>3. ASSUME Streak', evaluating' = {}, tripping' = {}, ~excused' PROVE status' = "paused"
    <3>1. Streak /\ ~excused /\ ~deleted /\ status # "degraded"
      BY <1>a, <2>1, <2>3 DEF StreakInv, StreakPauses
    <3>2. status # "active"
      <4> SUFFICES ASSUME status = "active" PROVE FALSE
        OBVIOUS
      <4>1. i \in tripping'
        BY <1>5, <3>1 DEF EvaluateBreaker, ShouldTrip
      <4> QED
        BY <2>3, <4>1
    <3> QED
      BY <1>0, <2>1, <3>1, <3>2
  <2>4. deleted' => excused'
    BY <2>1 DEF StreakInv, StreakPauses
  <2> QED
    BY <2>2, <2>3, <2>4 DEF StreakInv, StreakPauses
<1>6. ASSUME NEW i \in DOMAIN runs, TripBreaker(i) PROVE StreakInv'
  <2>1. /\ UNCHANGED <<deleted, runs, evaluating, pausedBy, events>> /\ tripping' = tripping \ {i}
        /\ excused' = (excused \/ status = "degraded")
        /\ status' = IF ~deleted /\ status = "active" THEN "paused" ELSE status
    BY <1>6 DEF TripBreaker
  <2>2. GuardTypes'
    BY <1>0, <2>1 DEF GuardTypes
  <2>3. ASSUME ~excused' PROVE status' = "paused"
    <3>1. ~deleted /\ status # "degraded"
      BY <2>1, <2>3 DEF StreakInv, StreakPauses
    <3> QED
      BY <1>0, <2>1, <3>1
  <2>4. deleted' => excused'
    BY <2>1 DEF StreakInv, StreakPauses
  <2> QED
    BY <2>2, <2>3, <2>4 DEF StreakInv, StreakPauses
<1>7. ASSUME NEW i \in DOMAIN runs, LoseEvaluation(i) PROVE StreakInv'
  <2>1. /\ UNCHANGED <<deleted, runs, pausedBy>> /\ excused' = TRUE /\ events' \in 0..MaxEvents
        /\ evaluating' = evaluating \ {i} /\ tripping' = tripping \ {i}
    BY <1>7, <1>b DEF LoseEvaluation, dVars
  <2> QED
    BY <1>0, <2>1 DEF StreakInv, StreakPauses, GuardTypes
<1>8. ASSUME NEW s \in Source, NEW verdict \in BOOLEAN, PollOneSource(s, verdict) PROVE StreakInv'
  <2>1. /\ UNCHANGED <<deleted, runs, evaluating, tripping, excused>> /\ events' \in 0..MaxEvents
        /\ pausedBy' \in Source \cup {"none"} /\ (status = "paused" => status' = "paused")
    BY <1>0, <1>8, <1>b DEF PollOneSource, PauseWorkflowsForUpstream, ResumeWorkflowsForUpstream,
       GuardTypes
  <2>2. GuardTypes'
    BY <1>0, <2>1 DEF GuardTypes
  <2> QED
    BY <1>a, <2>1, <2>2 DEF StreakInv, StreakPauses
<1>9. ASSUME ResumeBreaker \/ DeleteOrRestore PROVE StreakInv'
  <2>1. /\ UNCHANGED <<runs, evaluating, tripping, pausedBy>> /\ events' \in 0..MaxEvents
        /\ excused' = TRUE
    BY <1>9, <1>b DEF ResumeBreaker, DeleteOrRestore, Deactivate, Reactivate
  <2> QED
    BY <1>0, <2>1 DEF StreakInv, StreakPauses, GuardTypes
<1>10. ASSUME OperatorStep \/ UNCHANGED vars PROVE StreakInv'
  <2>1. UNCHANGED <<status, deleted, runs, evaluating, tripping, excused, pausedBy, events>>
    BY <1>10 DEF OperatorStep, AppendVersion, RollbackTo, CreateRollout, FinishRollout,
       vars, dVars, gVars
  <2> QED
    BY <1>a, <2>1, QuietStep
<1>11. ASSUME NEW i \in DOMAIN runs, NodeFails(i) PROVE StreakInv'
  <2>1. /\ evaluating' = evaluating \cup {i} /\ excused' = deleted
        /\ UNCHANGED <<deleted, tripping, pausedBy>>
    BY <1>11 DEF NodeFails, SettleRun, dVars
  <2>2. DOMAIN runs' = DOMAIN runs /\ events' \in 0..MaxEvents
    <3>1. CASE SettleRun(i, "failed") /\ UNCHANGED events
      <4>1. "failed" \in {"running"} \cup Settled
        BY DEF Settled
      <4> QED
        BY <1>0, <3>1, <4>1, RunStatusKeeps DEF SettleRun, GuardTypes
    <3>2. CASE runs[i].status = "failed" /\ Event /\ UNCHANGED dVars
      BY <1>b, <3>2 DEF dVars
    <3> QED
      BY <1>11, <3>1, <3>2 DEF NodeFails
  <2>3. GuardTypes'
    BY <1>0, <2>1, <2>2 DEF GuardTypes
  <2>4. StreakPauses'
    BY <2>1 DEF StreakPauses
  <2> QED
    BY <2>3, <2>4 DEF StreakInv
<1> QED
  BY <1>1, <1>2, <1>3, <1>4, <1>5, <1>6, <1>7, <1>8, <1>9, <1>10, <1>11 DEF GuardNext

THEOREM StreakInvariant == GuardSpec => []StreakInv
BY DeployInvariant, StreakStarts, StreakStep, PTL DEF GuardSpec

(* A streak of Threshold failures, once every worker has looked, has paused  *)
(* the workflow, for every order in which runs end, are redriven, counted    *)
(* and evaluated, and for every threshold, unless the last to look was       *)
(* excused or a run failed unevaluated after it; the streak that a redrive   *)
(* or a late success leaves is one that was there before (circuitbreaker.go  *)
(* maybeTripCircuitBreaker).                                                 *)
THEOREM StreakIsNoticed == GuardSpec => []NoUnnoticedStreak
<1>1. StreakInv => NoUnnoticedStreak
  BY DEF StreakInv, StreakPauses, NoUnnoticedStreak
<1> QED
  BY <1>1, StreakInvariant, PTL

-----------------------------------------------------------------------------
(* Type correctness: a counter stays below the bound on runs because every   *)
(* outcome it claims belongs to a run of its own.                            *)
THEOREM GuardsAreTyped == GuardSpec => []GuardTypeOK
<1>1. DeployInv /\ StreakInv => GuardTypeOK
  <2> SUFFICES ASSUME DeployInv, StreakInv PROVE GuardTypeOK
    OBVIOUS
  <2>0. DeployTypes /\ CountersAreEarned /\ rollouts \in Seq(CountedRollout)
    BY DEF DeployInv, DeployTypes
  <2>1. ASSUME NEW r \in DOMAIN rollouts PROVE rollouts[r] \in Rollout
    <3>0. rollouts[r] \in CountedRollout
      BY <2>0
    <3>1. ASSUME NEW x \in Variant
          PROVE  rollouts[r].succeeded[x] \in 0..MaxRuns /\ rollouts[r].failed[x] \in 0..MaxRuns
      <4>1. rollouts[r].succeeded[x] \in Nat /\ rollouts[r].failed[x] \in Nat
        BY <3>0 DEF CountedRollout
      <4>2. rollouts[r].succeeded[x] + rollouts[r].failed[x] <= Cardinality(CountedRuns(r, x))
        BY <2>0 DEF CountersAreEarned, CountedRuns
      <4>3. /\ Cardinality(CountedRuns(r, x)) \in Nat /\ Cardinality(CountedRuns(r, x)) <= Len(runs)
            /\ Len(runs) \in Nat /\ Len(runs) <= MaxRuns
        <5>1. runs \in Seq(RunRow) /\ Len(runs) <= MaxRuns /\ CountedRuns(r, x) \in SUBSET DOMAIN runs
          BY <2>0 DEF DeployTypes, CountedRuns
        <5> QED
          BY <5>1, FiniteRuns
      <4> HIDE DEF CountedRuns
      <4> QED
        BY <4>1, <4>2, <4>3, DeploymentBounds
    <3>2. /\ rollouts[r].succeeded \in [Variant -> 0..MaxRuns]
          /\ rollouts[r].failed \in [Variant -> 0..MaxRuns]
      BY <3>0, <3>1 DEF CountedRollout
    <3> QED
      BY <3>0, <3>2 DEF CountedRollout, Rollout
  <2>2. rollouts \in Seq(Rollout)
    BY <2>0, <2>1
  <2>3. DeploymentTypeOK({"api"}, {"api"})
    BY <2>0, <2>2 DEF DeployTypes, DeploymentTypeOK, RunRow
  <2> QED
    BY <2>3 DEF GuardTypeOK, StreakInv, GuardTypes
<1> QED
  BY <1>1, DeployInvariant, StreakInvariant, PTL

=============================================================================
