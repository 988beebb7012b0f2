---------------------------- MODULE IngestProofs ----------------------------
(***************************************************************************)
(* Inbound trigger events: one run for an event, its budget spent once and *)
(* the version and arm it captured kept; for every set of events, requests *)
(* and documents, every rate, page size and bound.                         *)
(***************************************************************************)
EXTENDS TriggerIngest, TLAPS, FiniteSetTheorems

EventRow == [status : EventStatus, version : 1..MaxVersions, arm : Arm,
             admitted : BOOLEAN, claimed : BOOLEAN]
RequestRow == [pc : {"idle", "lookup", "insert", "guard", "decide"},
               event : Event \cup {NoEvent}, owner : {"active", "paused"},
               version : 1..MaxVersions, arm : Arm]
Run == RunOf(Path, Event)

-----------------------------------------------------------------------------
(***************************************************************************)
(* The strengthening.  A row captures its version and arm when it is       *)
(* inserted and keeps them; a delivery past the insert carries what the    *)
(* row captured; a captured arm names a rollout and that arm's version;    *)
(* an event with a run is started, which nothing undoes; and only events   *)
(* that were inserted, finitely many, are admitted or skipped.             *)
(***************************************************************************)
Truthful(ros, version, arm) ==
    arm.rollout # 0 =>
        /\ arm.rollout \in DOMAIN ros
        /\ version = IF arm.variant = "canary" THEN ros[arm.rollout].canary
                     ELSE ros[arm.rollout].baseline

Carries(q, ev) ==
    /\ q.pc # "idle" => q.event \in Event
    /\ q.pc \in {"guard", "decide"} =>
         /\ ev[q.event].status # "none"
         /\ q.version = ev[q.event].version /\ q.arm = ev[q.event].arm

RequestsCarry == \A r \in Request : Carries(request[r], event)

ArmsAreTruthful ==
    /\ \A e \in Event : Truthful(rollouts, event[e].version, event[e].arm)
    /\ \A r \in Request : Truthful(rollouts, request[r].version, request[r].arm)
    /\ \A i \in DOMAIN runs :
         Truthful(rollouts, runs[i].version, [rollout |-> runs[i].rollout, variant |-> runs[i].variant])

UnseenIsBlank == \A e \in Event : event[e].status = "none" => event[e] = NoRow

RunsAreStarted == \A i \in DOMAIN runs : event[runs[i].tick].status = "started"

Seen == {e \in Event : event[e].status # "none"}
Spent == {e \in Event : event[e].admitted \/ event[e].status = "skipped"}

IngestInv ==
    /\ IngestTypeOK /\ status \in {"active", "paused"} /\ IsFiniteSet(Seen)
    /\ UnseenIsBlank /\ RequestsCarry /\ ArmsAreTruthful
    /\ RunsAreStarted /\ OneRunPerEvent /\ DeliveryKeepsCapture /\ BudgetSpentOnce

-----------------------------------------------------------------------------
(* What a step may do, and that the invariant survives it. *)

(* Rollouts are only added, and keep both their versions. *)
RolloutsKept ==
    /\ DOMAIN rollouts \subseteq DOMAIN rollouts'
    /\ \A i \in DOMAIN rollouts : /\ rollouts'[i].canary = rollouts[i].canary
                                  /\ rollouts'[i].baseline = rollouts[i].baseline

(* A row is inserted, or keeps what it captured; a started one stays started. *)
RowMoves(e) ==
    \/ event'[e] = event[e]
    \/ /\ event[e].status # "none" /\ event'[e].status # "none"
       /\ event'[e].version = event[e].version /\ event'[e].arm = event[e].arm
       /\ event[e].status = "started" => event'[e].status = "started"
    \/ /\ event[e].status = "none" /\ event'[e].status # "none"
       /\ Truthful(rollouts, event'[e].version, event'[e].arm)

RequestMoves(r) ==
    \/ request'[r] = request[r]
    \/ /\ Carries(request'[r], event')
       /\ Truthful(rollouts, request'[r].version, request'[r].arm)

(* A run is for an event that was owed one and is now started. *)
StartedBy(e, x) ==
    /\ Owed(e) /\ event'[e].status = "started"
    /\ x.tick = e
    /\ Truthful(rollouts, x.version, [rollout |-> x.rollout, variant |-> x.variant])
    /\ x.key = "ingest" => x.version = event[e].version /\ x.rollout = event[e].arm.rollout
RunsMove ==
    \/ runs' = runs
    \/ \E e \in Event, x \in Run : StartedBy(e, x) /\ runs' = Append(runs, x)

HitsMove ==
    \/ hits' = hits /\ Spent' = Spent
    \/ \E e \in Seen : e \notin Spent /\ Spent' = Spent \cup {e} /\ hits' \in {1, hits + 1}

SeenMoves == Seen' = Seen \/ \E e \in Event : Seen' = Seen \cup {e}

SoundStep ==
    /\ IngestTypeOK' /\ status' \in {"active", "paused"}
    /\ RolloutsKept /\ SeenMoves /\ HitsMove /\ RunsMove
    /\ \A e \in Event : RowMoves(e)
    /\ \A r \in Request : RequestMoves(r)

LEMMA Rows ==
    ASSUME IngestTypeOK
    PROVE  /\ event \in [Event -> EventRow] /\ request \in [Request -> RequestRow]
           /\ runs \in Seq(Run) /\ rollouts \in Seq(Rollout) /\ versions \in Seq(Doc)
           /\ Latest \in 1..MaxVersions /\ hits \in Nat /\ faults \in 0..MaxFaults
           /\ backfill.page \in Seq(Event) /\ backfill.version \in 1..MaxVersions
           /\ \A i \in DOMAIN runs : runs[i] \in Run /\ runs[i].tick \in Event
<1>1. runs \in Seq(Run)
  BY DEF IngestTypeOK, DeploymentTypeOK, Run
<1>2. \A i \in DOMAIN runs : runs[i] \in Run
  BY <1>1
<1>3. \A x \in Run : x.tick \in Event
  BY DEF Run, RunOf
<1> QED
  BY <1>1, <1>2, <1>3 DEF IngestTypeOK, DeploymentTypeOK, EventRow, RequestRow

LEMMA TruthfulKept ==
    ASSUME RolloutsKept, NEW v, NEW arm, Truthful(rollouts, v, arm)
    PROVE  Truthful(rollouts', v, arm)
BY DEF RolloutsKept, Truthful

LEMMA SoundStepKeeps ==
    ASSUME IngestInv, SoundStep
    PROVE  IngestInv'
<1>0. /\ IngestTypeOK /\ event \in [Event -> EventRow] /\ runs \in Seq(Run)
      /\ \A i \in DOMAIN runs : runs[i].tick \in Event
  BY Rows DEF IngestInv
<1>1. RolloutsKept /\ \A e \in Event : RowMoves(e)
  BY DEF SoundStep
<1>2. IsFiniteSet(Seen')
  BY FS_AddElement DEF SoundStep, SeenMoves, IngestInv
<1>3. UnseenIsBlank'
  BY <1>1 DEF RowMoves, IngestInv, UnseenIsBlank
<1>4. RequestsCarry'
  <2> SUFFICES ASSUME NEW r \in Request PROVE Carries(request'[r], event')
    BY DEF RequestsCarry
  <2>1. CASE request'[r] = request[r]
    <3>1. Carries(request[r], event)
      BY DEF IngestInv, RequestsCarry
    <3>2. Carries(request[r], event')
      BY <1>1, <3>1 DEF Carries, RowMoves
    <3> QED
      BY <2>1, <3>2
  <2> QED
    BY <2>1 DEF SoundStep, RequestMoves
<1>5. \A e \in Event : Truthful(rollouts', event'[e].version, event'[e].arm)
  <2> SUFFICES ASSUME NEW e \in Event PROVE Truthful(rollouts', event'[e].version, event'[e].arm)
    OBVIOUS
  <2>1. Truthful(rollouts, event[e].version, event[e].arm)
    BY DEF IngestInv, ArmsAreTruthful
  <2>2. Truthful(rollouts, event'[e].version, event'[e].arm)
    BY <1>1, <2>1 DEF RowMoves
  <2> QED
    BY <1>1, <2>2, TruthfulKept
<1>6. \A r \in Request : Truthful(rollouts', request'[r].version, request'[r].arm)
  <2> SUFFICES ASSUME NEW r \in Request
               PROVE  Truthful(rollouts', request'[r].version, request'[r].arm)
    OBVIOUS
  <2>1. Truthful(rollouts, request[r].version, request[r].arm)
    BY DEF IngestInv, ArmsAreTruthful
  <2>2. Truthful(rollouts, request'[r].version, request'[r].arm)
    BY <2>1 DEF SoundStep, RequestMoves
  <2> QED
    BY <1>1, <2>2, TruthfulKept
<1>7. \A i \in DOMAIN runs : event'[runs[i].tick].status = "started"
        /\ event'[runs[i].tick].version = event[runs[i].tick].version
        /\ event'[runs[i].tick].arm = event[runs[i].tick].arm
  BY <1>0, <1>1 DEF IngestInv, RunsAreStarted, RowMoves
<1>8. \A i \in DOMAIN runs :
        Truthful(rollouts', runs[i].version, [rollout |-> runs[i].rollout, variant |-> runs[i].variant])
  BY <1>1, TruthfulKept DEF IngestInv, ArmsAreTruthful
<1> DEFINE Runs == /\ \A i \in DOMAIN runs' :
                        Truthful(rollouts', runs'[i].version,
                                 [rollout |-> runs'[i].rollout, variant |-> runs'[i].variant])
                   /\ RunsAreStarted' /\ OneRunPerEvent' /\ DeliveryKeepsCapture'
<1>9. Runs
  <2>1. CASE runs' = runs
    <3>1. DeliveryKeepsCapture'
      BY <1>7, <2>1 DEF IngestInv, DeliveryKeepsCapture
    <3> QED
      BY <1>7, <1>8, <2>1, <3>1 DEF IngestInv, RunsAreStarted, OneRunPerEvent
  <2>2. CASE \E e \in Event, x \in Run : StartedBy(e, x) /\ runs' = Append(runs, x)
    <3>1. PICK e \in Event, x \in Run : StartedBy(e, x) /\ runs' = Append(runs, x)
      BY <2>2
    <3>2. PICK k : k = Len(runs) + 1
      OBVIOUS
    <3>3. /\ DOMAIN runs' = DOMAIN runs \cup {k} /\ k \notin DOMAIN runs
          /\ runs'[k] = x /\ \A i \in DOMAIN runs : runs'[i] = runs[i]
      BY <1>0, <3>1, <3>2
    <3>4. \A i \in DOMAIN runs : runs[i].tick # e
      BY <3>1 DEF IngestInv, RunsAreStarted, StartedBy, Owed
    <3>5. /\ event'[e].status = "started" /\ x.tick = e /\ event[e].status \in {"received", "buffered"}
          /\ x.key = "ingest" => x.version = event[e].version /\ x.rollout = event[e].arm.rollout
      BY <3>1 DEF StartedBy, Owed
    <3>6. event'[e].version = event[e].version /\ event'[e].arm = event[e].arm
      BY <1>1, <3>5 DEF RowMoves
    <3>7. Truthful(rollouts', x.version, [rollout |-> x.rollout, variant |-> x.variant])
      BY <1>1, <3>1, TruthfulKept DEF StartedBy
    <3>8. RunsAreStarted'
      BY <1>7, <3>3, <3>5 DEF RunsAreStarted
    <3>9. OneRunPerEvent'
      BY <3>3, <3>4, <3>5 DEF IngestInv, OneRunPerEvent
    <3>10. DeliveryKeepsCapture'
      BY <1>7, <3>3, <3>5, <3>6 DEF IngestInv, DeliveryKeepsCapture
    <3>11. \A i \in DOMAIN runs' :
             Truthful(rollouts', runs'[i].version,
                      [rollout |-> runs'[i].rollout, variant |-> runs'[i].variant])
      BY <1>8, <3>3, <3>7
    <3> QED
      BY <3>8, <3>9, <3>10, <3>11
  <2> QED
    BY <2>1, <2>2 DEF SoundStep, RunsMove
<1>10. BudgetSpentOnce'
  <2>1. hits \in Nat /\ hits <= Cardinality(Spent) /\ IsFiniteSet(Seen)
    BY Rows DEF IngestInv, BudgetSpentOnce, Spent
  <2>2. Spent \subseteq Seen
    BY DEF IngestInv, UnseenIsBlank, Spent, Seen, NoRow
  <2>3. IsFiniteSet(Spent) /\ Cardinality(Spent) \in Nat
    BY <2>1, <2>2, FS_Subset, FS_CardinalityType
  <2>4. hits' <= Cardinality(Spent')
    <3>1. CASE hits' = hits /\ Spent' = Spent
      BY <2>1, <3>1
    <3>2. CASE \E e \in Seen : e \notin Spent /\ Spent' = Spent \cup {e} /\ hits' \in {1, hits + 1}
      <4>1. PICK e \in Seen : e \notin Spent /\ Spent' = Spent \cup {e} /\ hits' \in {1, hits + 1}
        BY <3>2
      <4>2. Cardinality(Spent') = Cardinality(Spent) + 1
        BY <2>3, <4>1, FS_AddElement
      <4> QED
        BY <2>1, <2>3, <4>1, <4>2
    <3> QED
      BY <3>1, <3>2 DEF SoundStep, HitsMove
  <2> QED
    BY <2>4 DEF BudgetSpentOnce, Spent
<1> QED
  BY <1>2, <1>3, <1>4, <1>5, <1>6, <1>9, <1>10 DEF IngestInv, ArmsAreTruthful, SoundStep

-----------------------------------------------------------------------------
(* The pieces of a delivery. *)

LEMMA IdleRows ==
    /\ Idle \in RequestRow /\ NoRow \in EventRow /\ NoArm \in Arm
    /\ Idle.pc = "idle" /\ Idle.arm = NoArm /\ NoArm.rollout = 0
<1>1. 1 \in 1..MaxVersions /\ 0 \in 0..MaxRollouts
  BY DeploymentBounds
<1>2. NoArm \in Arm /\ NoArm.rollout = 0
  BY <1>1 DEF NoArm, Arm, Variant
<1> QED
  BY <1>1, <1>2 DEF Idle, NoRow, RequestRow, EventRow, EventStatus

Backfill == [pc : {"idle", "claim", "load", "drain"}, page : Seq(Event), version : 1..MaxVersions]

(* A step that leaves deployments alone keeps the types it writes. *)
LEMMA TypesFrom ==
    ASSUME IngestTypeOK, UNCHANGED <<deleted, versions, rollouts>>,
           status' \in {"active", "paused"}, runs' \in Seq(Run), Len(runs') <= MaxRuns,
           event' \in [Event -> EventRow], request' \in [Request -> RequestRow],
           hits' \in Nat, faults' \in 0..MaxFaults, backfill' \in Backfill
    PROVE  IngestTypeOK' /\ RolloutsKept
BY DEF IngestTypeOK, DeploymentTypeOK, Run, EventRow, RequestRow, Backfill, Latest, RolloutsKept

RequestsMove == request' \in [Request -> RequestRow] /\ \A s \in Request : RequestMoves(s)

LEMMA AnswersMoves ==
    ASSUME IngestTypeOK, NEW r \in Request, Answers(r)
    PROVE  RequestsMove
<1>1. request \in [Request -> RequestRow] /\ request' = [request EXCEPT ![r] = Idle]
  BY Rows DEF Answers
<1>2. request' \in [Request -> RequestRow] /\ request'[r] = Idle
      /\ \A s \in Request : s # r => request'[s] = request[s]
  BY <1>1, IdleRows
<1>3. Carries(Idle, event') /\ Truthful(rollouts, Idle.version, Idle.arm)
  BY IdleRows DEF Carries, Truthful
<1> QED
  BY <1>2, <1>3 DEF RequestsMove, RequestMoves

LEMMA GoesMoves ==
    ASSUME IngestInv, NEW r \in Request, NEW pc \in {"guard", "decide"}, Goes(r, pc),
           request[r].pc # "idle", event'[request[r].event].status # "none",
           request[r].version = event'[request[r].event].version,
           request[r].arm = event'[request[r].event].arm
    PROVE  RequestsMove
<1> DEFINE q == [request[r] EXCEPT !.pc = pc]
<1>1. request \in [Request -> RequestRow] /\ request' = [request EXCEPT ![r] = q]
  BY Rows DEF Goes, IngestInv
<1>2. /\ q \in RequestRow /\ q.pc = pc /\ q.event = request[r].event
      /\ q.version = request[r].version /\ q.arm = request[r].arm
  BY <1>1 DEF RequestRow
<1> HIDE DEF q
<1>3. request' \in [Request -> RequestRow] /\ request'[r] = q
      /\ \A s \in Request : s # r => request'[s] = request[s]
  BY <1>1, <1>2
<1>4. request[r].event \in Event /\ Truthful(rollouts, request[r].version, request[r].arm)
  BY DEF IngestInv, RequestsCarry, Carries, ArmsAreTruthful
<1>5. Carries(q, event') /\ Truthful(rollouts, q.version, q.arm)
  BY <1>2, <1>4 DEF Carries
<1> QED
  BY <1>3, <1>5 DEF RequestsMove, RequestMoves

(* adoptExisting *)
LEMMA AdoptsMoves ==
    ASSUME IngestInv, NEW r \in Request, request[r].pc # "idle", Adopts(r), UNCHANGED event
    PROVE  RequestsMove
<1> DEFINE row == event[request[r].event]
<1>0. /\ IngestTypeOK /\ request \in [Request -> RequestRow] /\ event \in [Event -> EventRow]
      /\ request[r].event \in Event
  BY Rows DEF IngestInv, RequestsCarry, Carries
<1>1. CASE row.status # "received"
  BY <1>0, <1>1, AnswersMoves DEF Adopts
<1>2. CASE row.status = "received"
  <2>1. row \in EventRow /\ row.version \in 1..MaxVersions /\ row.arm \in Arm
    BY <1>0 DEF EventRow
  <2>2. Truthful(rollouts, row.version, row.arm)
    BY <1>0 DEF IngestInv, ArmsAreTruthful
  <2> DEFINE q == [[[request[r] EXCEPT !.pc = "guard"] EXCEPT !.version = row.version]
                     EXCEPT !.arm = row.arm]
  <2>3. request' = [request EXCEPT ![r] = q]
    BY <1>0, <1>2 DEF Adopts
  <2>4. /\ q \in RequestRow /\ q.pc = "guard" /\ q.event = request[r].event
        /\ q.version = row.version /\ q.arm = row.arm
    BY <1>0, <2>1 DEF RequestRow
  <2> HIDE DEF q
  <2>5. request' \in [Request -> RequestRow] /\ request'[r] = q
        /\ \A s \in Request : s # r => request'[s] = request[s]
    BY <1>0, <2>3, <2>4
  <2>6. Carries(q, event') /\ Truthful(rollouts, q.version, q.arm)
    BY <1>0, <1>2, <2>2, <2>4 DEF Carries
  <2> QED
    BY <2>5, <2>6 DEF RequestsMove, RequestMoves
<1> QED
  BY <1>1, <1>2

(* The arm a start is assigned names the current rollout and its version. *)
LEMMA AssignedArm ==
    ASSUME IngestTypeOK, NEW k \in Key, Assigned
    PROVE  /\ ArmFor(k) \in Arm /\ VersionFor(k) \in 1..MaxVersions
           /\ Truthful(rollouts, VersionFor(k), ArmFor(k))
<1> DEFINE c == CurrentRollout
           x == VariantFor(c, k)
<1>1. rollouts \in Seq(Rollout) /\ Len(rollouts) <= MaxRollouts
  BY DEF IngestTypeOK, DeploymentTypeOK
<1>2. c \in DOMAIN rollouts
  <2>1. ~deleted /\ rollouts # <<>>
    BY DEF Assigned, CurrentRollout
  <2>2. CASE ActiveRollout
    <3>1. \E r \in DOMAIN rollouts : Active(r)
      BY <2>2 DEF ActiveRollout
    <3>2. c = CHOOSE r \in DOMAIN rollouts : Active(r)
      BY <2>1, <2>2 DEF CurrentRollout
    <3> QED
      BY <3>1, <3>2
  <2>3. CASE ~ActiveRollout
    BY <1>1, <2>1, <2>3 DEF CurrentRollout
  <2> QED
    BY <2>2, <2>3
<1>3. x \in Variant
  BY DEF VariantFor, Variant
<1>4. rollouts[c] \in Rollout
  BY <1>1, <1>2
<1>5. rollouts[c].canary \in 1..MaxVersions /\ rollouts[c].baseline \in 1..MaxVersions
  BY <1>4 DEF Rollout
<1>6. c \in 0..MaxRollouts /\ c # 0
  BY <1>1, <1>2, DeploymentBounds
<1>7. ArmFor(k).rollout = c /\ ArmFor(k).variant = x /\ ArmFor(k) \in Arm
  BY <1>3, <1>6 DEF ArmFor, Arm
<1>8. VersionFor(k) = IF x = "canary" THEN rollouts[c].canary ELSE rollouts[c].baseline
  BY DEF VersionFor, ArmVersion
<1> QED
  BY <1>2, <1>5, <1>7, <1>8 DEF Truthful

-----------------------------------------------------------------------------
(* The pieces that change a row, and the steps made of them. *)

EventsMove == event' \in [Event -> EventRow] /\ \A e \in Event : RowMoves(e)
EventsSettle == EventsMove /\ Seen' = Seen /\ Spent' = Spent

LEMMA StepFrom ==
    ASSUME IngestInv, RequestsMove, UNCHANGED <<deleted, versions, rollouts>>,
           status' \in {"active", "paused"}, RunsMove, Len(runs') <= MaxRuns,
           EventsMove, SeenMoves, HitsMove, faults' \in 0..MaxFaults, backfill' \in Backfill
    PROVE  SoundStep
<1>1. IngestTypeOK /\ runs \in Seq(Run) /\ hits \in Nat
  BY Rows DEF IngestInv
<1>2. runs' \in Seq(Run)
  BY <1>1 DEF RunsMove
<1>3. hits' \in Nat
  BY <1>1 DEF HitsMove
<1> QED
  BY <1>1, <1>2, <1>3, TypesFrom DEF SoundStep, RequestsMove, EventsMove

LEMMA UnchangedEvents ==
    ASSUME IngestInv, UNCHANGED event
    PROVE  EventsSettle
<1>1. event' \in [Event -> EventRow]
  BY Rows DEF IngestInv
<1> QED
  BY <1>1 DEF EventsSettle, EventsMove, RowMoves, Seen, Spent

LEMMA UnchangedRequests ==
    ASSUME IngestInv, UNCHANGED request
    PROVE  RequestsMove
<1>1. request' \in [Request -> RequestRow]
  BY Rows DEF IngestInv
<1> QED
  BY <1>1 DEF RequestsMove, RequestMoves

(* A step that moves requests or the backfill alone. *)
LEMMA QuietStep ==
    ASSUME IngestInv, RequestsMove, UNCHANGED <<deleted, versions, rollouts, runs, event, hits>>,
           status' \in {"active", "paused"}, faults' \in 0..MaxFaults, backfill' \in Backfill
    PROVE  SoundStep
<1>1. EventsSettle
  BY UnchangedEvents
<1>2. RunsMove /\ Len(runs') <= MaxRuns
  BY DEF RunsMove, IngestInv, IngestTypeOK, DeploymentTypeOK
<1>3. SeenMoves /\ HitsMove
  BY <1>1 DEF EventsSettle, SeenMoves, HitsMove
<1> QED
  BY <1>1, <1>2, <1>3, StepFrom DEF EventsSettle

LEMMA RowEdited ==
    ASSUME NEW e \in Event, event' \in [Event -> EventRow],
           \A x \in Event : x # e => event'[x] = event[x],
           event[e].status # "none", event'[e].status # "none",
           event'[e].version = event[e].version, event'[e].arm = event[e].arm,
           event'[e].admitted = event[e].admitted,
           event[e].status = "started" => event'[e].status = "started",
           event[e].status = "skipped" <=> event'[e].status = "skipped"
    PROVE  EventsSettle
<1>1. \A x \in Event : RowMoves(x)
  BY DEF RowMoves
<1>2. Seen' = Seen
  BY DEF Seen
<1>3. Spent' = Spent
  BY DEF Spent
<1> QED
  BY <1>1, <1>2, <1>3 DEF EventsSettle, EventsMove

(* MarkTriggerEventOutcome *)
LEMMA MarkedSettles ==
    ASSUME IngestInv, NEW e \in Event, NEW to \in {"buffered", "failed"}, event' = Marked(e, to)
    PROVE  EventsSettle
<1>0. event \in [Event -> EventRow] /\ event[e] \in EventRow
  BY Rows DEF IngestInv
<1>1. CASE event[e].status # "received"
  BY <1>1, UnchangedEvents DEF Marked
<1>2. CASE event[e].status = "received"
  <2> DEFINE row == [event[e] EXCEPT !.status = to]
  <2>1. event' = [event EXCEPT ![e] = row]
    BY <1>0, <1>2 DEF Marked
  <2>2. /\ row \in EventRow /\ row.status = to /\ row.version = event[e].version
        /\ row.arm = event[e].arm /\ row.admitted = event[e].admitted
    BY <1>0 DEF EventRow, EventStatus
  <2> HIDE DEF row
  <2>3. event' \in [Event -> EventRow] /\ event'[e] = row
        /\ \A x \in Event : x # e => event'[x] = event[x]
    BY <1>0, <2>1, <2>2
  <2> QED
    BY <1>2, <2>2, <2>3, RowEdited
<1> QED
  BY <1>1, <1>2

(* ClaimTriggerEventStart *)
LEMMA StartForSettles ==
    ASSUME IngestInv, NEW e \in Event, NEW path \in Path, NEW v \in 1..MaxVersions, NEW arm \in Arm,
           Truthful(rollouts, v, arm),
           path = "ingest" => v = event[e].version /\ arm = event[e].arm,
           StartFor(e, path, v, arm)
    PROVE  EventsSettle /\ RunsMove /\ Len(runs') <= MaxRuns
<1>0. /\ event \in [Event -> EventRow] /\ event[e] \in EventRow /\ runs \in Seq(Run)
      /\ Owed(e) /\ Len(runs) < MaxRuns
  BY Rows DEF IngestInv, StartFor
<1> DEFINE row == [[event[e] EXCEPT !.status = "started"] EXCEPT !.claimed = FALSE]
<1>1. event' = [event EXCEPT ![e] = row]
  BY <1>0 DEF StartFor
<1>2. /\ row \in EventRow /\ row.status = "started" /\ row.version = event[e].version
      /\ row.arm = event[e].arm /\ row.admitted = event[e].admitted
  BY <1>0 DEF EventRow, EventStatus
<1> HIDE DEF row
<1>3. event' \in [Event -> EventRow] /\ event'[e] = row
      /\ \A x \in Event : x # e => event'[x] = event[x]
  BY <1>0, <1>1, <1>2
<1>4. EventsSettle
  BY <1>0, <1>2, <1>3, RowEdited DEF Owed
<1> DEFINE x == [key |-> path, tick |-> e, version |-> v, rollout |-> arm.rollout,
                 variant |-> arm.variant, status |-> "running", counted |-> FALSE]
<1>5. arm.rollout \in 0..MaxRollouts /\ arm.variant \in Variant
      /\ arm = [rollout |-> arm.rollout, variant |-> arm.variant]
  BY DEF Arm
<1>6. /\ x \in Run /\ x.tick = e /\ x.key = path /\ x.version = v
      /\ x.rollout = arm.rollout /\ x.variant = arm.variant
  BY <1>5 DEF Run, RunOf
<1>7. runs' = Append(runs, x)
  BY DEF StartFor, Inserted
<1> HIDE DEF x
<1>8. StartedBy(e, x)
  BY <1>0, <1>2, <1>3, <1>5, <1>6 DEF StartedBy
<1>9. Len(runs') <= MaxRuns
  <2>1. Len(runs') = Len(runs) + 1
    BY <1>0, <1>6, <1>7
  <2> QED
    BY <1>0, <2>1, DeploymentBounds
<1> QED
  BY <1>4, <1>6, <1>7, <1>8, <1>9 DEF RunsMove

-----------------------------------------------------------------------------
(* The actions. *)

LEMMA BackfillRow ==
    ASSUME IngestTypeOK
    PROVE  backfill \in Backfill
BY DEF IngestTypeOK, Backfill

LEMMA DeliverSound ==
    ASSUME IngestInv, NEW r \in Request, NEW e \in Event, Deliver(r, e)
    PROVE  SoundStep
<1> DEFINE q == [[[Idle EXCEPT !.pc = "lookup"] EXCEPT !.event = e] EXCEPT !.owner = status]
<1>0. IngestTypeOK /\ request \in [Request -> RequestRow] /\ status \in {"active", "paused"}
      /\ faults \in 0..MaxFaults
  BY Rows DEF IngestInv
<1>1. request' = [request EXCEPT ![r] = q]
  BY <1>0 DEF Deliver
<1>2. q \in RequestRow /\ q.pc = "lookup" /\ q.event = e /\ q.arm = NoArm
  BY <1>0, IdleRows DEF RequestRow
<1> HIDE DEF q
<1>3. request' \in [Request -> RequestRow] /\ request'[r] = q
      /\ \A s \in Request : s # r => request'[s] = request[s]
  BY <1>0, <1>1, <1>2
<1>4. Carries(q, event') /\ Truthful(rollouts, q.version, q.arm)
  BY <1>2, IdleRows DEF Carries, Truthful
<1>5. RequestsMove
  BY <1>3, <1>4 DEF RequestsMove, RequestMoves
<1> QED
  BY <1>0, <1>5, BackfillRow, QuietStep DEF Deliver, RequestOnly, dVars

LEMMA LookUpSound ==
    ASSUME IngestInv, NEW r \in Request, NEW k \in Key, LookUp(r, k)
    PROVE  SoundStep
<1> DEFINE e == request[r].event
           v == IF Assigned THEN VersionFor(k) ELSE Latest
           arm == IF Assigned THEN ArmFor(k) ELSE NoArm
<1>0. /\ IngestTypeOK /\ request \in [Request -> RequestRow] /\ status \in {"active", "paused"}
      /\ faults \in 0..MaxFaults /\ Latest \in 1..MaxVersions
  BY Rows DEF IngestInv
<1>1. request[r].pc = "lookup" /\ UNCHANGED <<dVars, event, hits, backfill, faults>>
  BY DEF LookUp, RequestOnly
<1>2. e \in Event
  BY <1>1 DEF IngestInv, RequestsCarry, Carries
<1>3. v \in 1..MaxVersions /\ arm \in Arm /\ Truthful(rollouts, v, arm)
  <2>1. CASE Assigned
    BY <1>0, <1>2, <2>1, AssignedArm
  <2>2. CASE ~Assigned
    BY <1>0, <2>2, IdleRows DEF Truthful
  <2> QED
    BY <2>1, <2>2
<1>4. RequestsMove
  <2>1. CASE event[e].status # "none"
    BY <1>1, <2>1, AdoptsMoves DEF LookUp
  <2>2. CASE event[e].status = "none"
    <3> HIDE DEF v, arm
    <3> DEFINE q == [[[request[r] EXCEPT !.pc = "insert"] EXCEPT !.version = v] EXCEPT !.arm = arm]
    <3>1. request' = [request EXCEPT ![r] = q]
      BY <1>0, <2>2 DEF LookUp, v, arm
    <3>2. q \in RequestRow /\ q.pc = "insert" /\ q.event = e /\ q.version = v /\ q.arm = arm
      BY <1>0, <1>3 DEF RequestRow
    <3> HIDE DEF q
    <3>3. request' \in [Request -> RequestRow] /\ request'[r] = q
          /\ \A s \in Request : s # r => request'[s] = request[s]
      BY <1>0, <3>1, <3>2
    <3>4. Carries(q, event') /\ Truthful(rollouts, q.version, q.arm)
      BY <1>2, <1>3, <3>2 DEF Carries
    <3> QED
      BY <3>3, <3>4 DEF RequestsMove, RequestMoves
  <2> QED
    BY <2>1, <2>2
<1> QED
  BY <1>0, <1>1, <1>4, BackfillRow, QuietStep DEF dVars

LEMMA InsertEventSound ==
    ASSUME IngestInv, NEW r \in Request, InsertEvent(r)
    PROVE  SoundStep
<1> DEFINE e == request[r].event
<1>0. /\ IngestTypeOK /\ request \in [Request -> RequestRow] /\ event \in [Event -> EventRow]
      /\ status \in {"active", "paused"} /\ faults \in 0..MaxFaults /\ backfill \in Backfill
      /\ Len(runs) <= MaxRuns
  BY Rows, BackfillRow DEF IngestInv, IngestTypeOK, DeploymentTypeOK
<1>1. request[r].pc = "insert" /\ UNCHANGED <<dVars, hits, backfill, faults>>
  BY DEF InsertEvent, RequestOnly
<1>2. /\ e \in Event /\ request[r].version \in 1..MaxVersions /\ request[r].arm \in Arm
      /\ Truthful(rollouts, request[r].version, request[r].arm)
  BY <1>0, <1>1 DEF IngestInv, RequestsCarry, Carries, ArmsAreTruthful, RequestRow
<1>3. CASE event[e].status # "none"
  <2>1. UNCHANGED event /\ Adopts(r)
    BY <1>3 DEF InsertEvent
  <2>2. RequestsMove
    BY <1>1, <2>1, AdoptsMoves
  <2> QED
    BY <1>0, <1>1, <2>1, <2>2, QuietStep DEF dVars
<1>4. CASE event[e].status = "none"
  <2> DEFINE row == [[[NoRow EXCEPT !.status = "received"] EXCEPT !.version = request[r].version]
                       EXCEPT !.arm = request[r].arm]
  <2>1. event' = [event EXCEPT ![e] = row] /\ Goes(r, "guard")
    BY <1>4 DEF InsertEvent
  <2>2. /\ row \in EventRow /\ row.status = "received" /\ row.version = request[r].version
        /\ row.arm = request[r].arm /\ row.admitted = FALSE
    BY <1>2, IdleRows DEF EventRow, EventStatus, NoRow
  <2> HIDE DEF row
  <2>3. event' \in [Event -> EventRow] /\ event'[e] = row
        /\ \A x \in Event : x # e => event'[x] = event[x]
    BY <1>0, <1>2, <2>1, <2>2
  <2>4. RequestsMove
    BY <1>1, <2>1, <2>2, <2>3, GoesMoves
  <2>5. EventsMove
    BY <1>2, <1>4, <2>2, <2>3 DEF EventsMove, RowMoves
  <2>6. Seen' = Seen \cup {e}
    BY <1>2, <2>2, <2>3 DEF Seen
  <2>7. Spent' = Spent
    <3>1. event[e].admitted = FALSE /\ event[e].status # "skipped"
      BY <1>2, <1>4 DEF IngestInv, UnseenIsBlank, NoRow
    <3> QED
      BY <1>2, <2>2, <2>3, <3>1 DEF Spent
  <2>8. SeenMoves /\ HitsMove /\ RunsMove /\ Len(runs') <= MaxRuns
    BY <1>0, <1>1, <1>2, <2>6, <2>7 DEF SeenMoves, HitsMove, RunsMove, dVars
  <2> QED
    BY <1>0, <1>1, <2>4, <2>5, <2>8, StepFrom DEF dVars
<1> QED
  BY <1>3, <1>4

(* EnforceTriggerEvent *)
LEMMA GuardSound ==
    ASSUME IngestInv, NEW r \in Request, Guard(r)
    PROVE  SoundStep
<1> DEFINE e == request[r].event
<1>0. /\ IngestTypeOK /\ request \in [Request -> RequestRow] /\ event \in [Event -> EventRow]
      /\ status \in {"active", "paused"} /\ faults \in 0..MaxFaults /\ backfill \in Backfill
      /\ Len(runs) <= MaxRuns
  BY Rows, BackfillRow DEF IngestInv, IngestTypeOK, DeploymentTypeOK
<1>1. request[r].pc = "guard" /\ UNCHANGED <<dVars, backfill, faults>>
  BY DEF Guard, RequestOnly
<1>2. /\ e \in Event /\ event[e].status # "none" /\ event[e] \in EventRow
      /\ request[r].version = event[e].version /\ request[r].arm = event[e].arm
  BY <1>0, <1>1 DEF IngestInv, RequestsCarry, Carries
<1>3. CASE UNCHANGED <<event, hits>> /\ (Answers(r) \/ Goes(r, "decide"))
  <2>1. RequestsMove
    BY <1>0, <1>1, <1>2, <1>3, AnswersMoves, GoesMoves
  <2> QED
    BY <1>0, <1>1, <1>3, <2>1, QuietStep DEF dVars
<1>4. CASE /\ event[e].status = "received" /\ ~event[e].admitted /\ hits' \in {1, hits + 1}
           /\ \/ event' = [event EXCEPT ![e].status = "skipped"] /\ Answers(r)
              \/ event' = [event EXCEPT ![e].admitted = TRUE] /\ Goes(r, "decide")
  <2> DEFINE skip == [event[e] EXCEPT !.status = "skipped"]
             admit == [event[e] EXCEPT !.admitted = TRUE]
  <2>1. \/ event' = [event EXCEPT ![e] = skip] /\ Answers(r)
        \/ event' = [event EXCEPT ![e] = admit] /\ Goes(r, "decide")
    BY <1>0, <1>4
  <2>2. /\ skip \in EventRow /\ skip.status = "skipped" /\ skip.version = event[e].version
        /\ skip.arm = event[e].arm
    BY <1>2 DEF EventRow, EventStatus
  <2>3. /\ admit \in EventRow /\ admit.status = event[e].status /\ admit.version = event[e].version
        /\ admit.arm = event[e].arm /\ admit.admitted = TRUE
    BY <1>2 DEF EventRow
  <2> HIDE DEF skip, admit
  <2>4. /\ event' \in [Event -> EventRow] /\ event'[e] \in {skip, admit}
        /\ \A x \in Event : x # e => event'[x] = event[x]
    BY <1>0, <1>2, <2>1, <2>2, <2>3
  <2>5. /\ event'[e].version = event[e].version /\ event'[e].arm = event[e].arm
        /\ event'[e].status # "none"
    BY <1>4, <2>2, <2>3, <2>4
  <2>6. RequestsMove
    BY <1>0, <1>1, <1>2, <2>1, <2>5, AnswersMoves, GoesMoves
  <2>7. EventsMove
    BY <1>2, <1>4, <2>4, <2>5 DEF EventsMove, RowMoves
  <2>8. Seen' = Seen /\ e \in Seen
    BY <1>2, <2>4, <2>5 DEF Seen
  <2>9. event'[e].admitted \/ event'[e].status = "skipped"
    BY <2>2, <2>3, <2>4
  <2>10. e \notin Spent /\ Spent' = Spent \cup {e}
    BY <1>2, <1>4, <2>4, <2>9 DEF Spent
  <2>11. SeenMoves /\ HitsMove /\ RunsMove /\ Len(runs') <= MaxRuns
    BY <1>0, <1>1, <1>4, <2>8, <2>10 DEF SeenMoves, HitsMove, RunsMove, dVars
  <2> QED
    BY <1>0, <1>1, <2>6, <2>7, <2>11, StepFrom DEF dVars
<1> QED
  BY <1>3, <1>4 DEF Guard, AlreadyAdmitted

LEMMA FaultSound ==
    ASSUME IngestInv, NEW r \in Request, FailOpen(r) \/ Abort(r)
    PROVE  SoundStep
<1>0. /\ IngestTypeOK /\ status \in {"active", "paused"} /\ faults \in 0..MaxFaults
      /\ backfill \in Backfill
  BY Rows, BackfillRow DEF IngestInv
<1>1. /\ faults < MaxFaults /\ faults' = faults + 1
      /\ UNCHANGED <<dVars, event, hits, backfill>>
  BY DEF FailOpen, Abort
<1>2. faults' \in 0..MaxFaults
  BY <1>0, <1>1, IngestBounds
<1>3. RequestsMove
  <2>1. CASE FailOpen(r)
    <3>1. request[r].pc = "guard" /\ Goes(r, "decide")
      BY <2>1 DEF FailOpen
    <3>2. /\ event[request[r].event].status # "none"
          /\ request[r].version = event[request[r].event].version
          /\ request[r].arm = event[request[r].event].arm
      BY <3>1 DEF IngestInv, RequestsCarry, Carries
    <3> QED
      BY <1>1, <3>1, <3>2, GoesMoves
  <2>2. CASE Abort(r)
    BY <1>0, <2>2, AnswersMoves DEF Abort
  <2> QED
    BY <2>1, <2>2
<1> QED
  BY <1>0, <1>1, <1>2, <1>3, QuietStep DEF dVars

LEMMA DecideSound ==
    ASSUME IngestInv, NEW r \in Request, Decide(r)
    PROVE  SoundStep
<1> DEFINE e == request[r].event
<1>0. /\ IngestTypeOK /\ request \in [Request -> RequestRow]
      /\ status \in {"active", "paused"} /\ faults \in 0..MaxFaults /\ backfill \in Backfill
      /\ Len(runs) <= MaxRuns
  BY Rows, BackfillRow DEF IngestInv, IngestTypeOK, DeploymentTypeOK
<1>1. /\ request[r].pc = "decide" /\ Answers(r)
      /\ UNCHANGED <<status, deleted, versions, rollouts, hits, backfill, faults>>
  BY DEF Decide
<1>2. /\ e \in Event /\ request[r].version = event[e].version /\ request[r].arm = event[e].arm
      /\ request[r].version \in 1..MaxVersions /\ request[r].arm \in Arm
      /\ Truthful(rollouts, request[r].version, request[r].arm)
  BY <1>0, <1>1 DEF IngestInv, RequestsCarry, Carries, ArmsAreTruthful, RequestRow
<1>3. RequestsMove
  BY <1>0, <1>1, AnswersMoves
<1>4. EventsSettle /\ RunsMove /\ Len(runs') <= MaxRuns
  <2>1. CASE UNCHANGED runs /\ (event' = Marked(e, "buffered") \/ event' = Marked(e, "failed"))
    BY <1>0, <1>2, <2>1, MarkedSettles DEF RunsMove
  <2>2. CASE StartFor(e, "ingest", request[r].version, request[r].arm)
    BY <1>2, <2>2, StartForSettles DEF Path
  <2>3. CASE UNCHANGED <<event, runs>>
    BY <1>0, <2>3, UnchangedEvents DEF RunsMove
  <2> QED
    BY <2>1, <2>2, <2>3 DEF Decide
<1>5. SeenMoves /\ HitsMove
  BY <1>1, <1>4 DEF EventsSettle, SeenMoves, HitsMove
<1> QED
  BY <1>0, <1>1, <1>3, <1>4, <1>5, StepFrom DEF EventsSettle

(* TripWorkflowCircuitBreaker and the first step of a resume. *)
LEMMA StatusSound ==
    ASSUME IngestInv, Pause \/ Resume
    PROVE  SoundStep
<1>0. IngestTypeOK /\ faults \in 0..MaxFaults /\ backfill \in Backfill
  BY Rows, BackfillRow DEF IngestInv
<1>1. /\ UNCHANGED <<deleted, versions, rollouts, runs, event, hits, request, faults>>
      /\ status' \in {"active", "paused"}
  BY DEF Pause, Resume, BackfillIdle
<1>2. backfill' \in Backfill
  BY <1>0 DEF Pause, Resume, Backfills, Backfill
<1> QED
  BY <1>0, <1>1, <1>2, UnchangedRequests, QuietStep

(* ClaimBufferedTriggerEvents *)
LEMMA ClaimBufferedSound ==
    ASSUME IngestInv, ClaimBuffered
    PROVE  SoundStep
<1>0. /\ IngestTypeOK /\ event \in [Event -> EventRow] /\ Len(runs) <= MaxRuns
      /\ status \in {"active", "paused"} /\ faults \in 0..MaxFaults /\ backfill \in Backfill
  BY Rows, BackfillRow DEF IngestInv, IngestTypeOK, DeploymentTypeOK
<1>1. PICK page \in SetToAllKPermutations(Claimable) :
        /\ event' = [e \in Event |-> IF e \in ToSet(page) THEN [event[e] EXCEPT !.claimed = TRUE]
                                     ELSE event[e]]
        /\ backfill' = [backfill EXCEPT !.pc = "load", !.page = page]
  BY DEF ClaimBuffered
<1>2. UNCHANGED <<dVars, hits, request, faults>>
  BY DEF ClaimBuffered, BackfillIdle
<1>3. page \in Seq(Claimable)
  <2>1. PICK S \in SUBSET Claimable : page \in SetToSeqs(S)
    BY DEF SetToAllKPermutations
  <2>2. IsFiniteSet(Seen) /\ S \subseteq Seen
    BY DEF IngestInv, Claimable, Seen
  <2>3. Cardinality(S) \in Nat
    BY <2>2, FS_Subset, FS_CardinalityType
  <2>4. page \in [1..Cardinality(S) -> S]
    BY <2>1 DEF SetToSeqs
  <2> QED
    BY <2>3, <2>4
<1>4. ToSet(page) \subseteq Claimable
  BY <1>3 DEF ToSet
<1>5. page \in Seq(Event)
  BY <1>3 DEF Claimable
<1>6. backfill' \in Backfill
  BY <1>0, <1>1, <1>5 DEF Backfill
<1>7. \A e \in Event : /\ event'[e] \in EventRow
                       /\ event'[e].status = event[e].status /\ event'[e].version = event[e].version
                       /\ event'[e].arm = event[e].arm /\ event'[e].admitted = event[e].admitted
                       /\ event[e].status = "none" => event'[e] = event[e]
  <2> SUFFICES ASSUME NEW e \in Event
               PROVE  /\ event'[e] \in EventRow
                      /\ event'[e].status = event[e].status /\ event'[e].version = event[e].version
                      /\ event'[e].arm = event[e].arm /\ event'[e].admitted = event[e].admitted
                      /\ event[e].status = "none" => event'[e] = event[e]
    OBVIOUS
  <2>1. CASE e \notin ToSet(page)
    BY <1>0, <1>1, <2>1
  <2>2. CASE e \in ToSet(page)
    <3>1. event'[e] = [event[e] EXCEPT !.claimed = TRUE] /\ event[e].status = "buffered"
      BY <1>1, <1>4, <2>2 DEF Claimable
    <3>2. event[e] \in EventRow
      BY <1>0
    <3> QED
      BY <3>1, <3>2 DEF EventRow
  <2> QED
    BY <2>1, <2>2
<1>8. event' \in [Event -> EventRow]
  BY <1>1, <1>7
<1>9. EventsMove
  BY <1>7, <1>8 DEF EventsMove, RowMoves
<1>10. Seen' = Seen /\ Spent' = Spent
  BY <1>7 DEF Seen, Spent
<1>11. SeenMoves /\ HitsMove /\ RunsMove /\ Len(runs') <= MaxRuns
  BY <1>0, <1>2, <1>10 DEF SeenMoves, HitsMove, RunsMove, dVars
<1> QED
  BY <1>0, <1>2, <1>6, <1>9, <1>11, UnchangedRequests, StepFrom DEF dVars

(* What is left of a page is of events, and so is what is next. *)
LEMMA PageRest ==
    ASSUME IngestTypeOK, backfill.page # <<>>
    PROVE  /\ Head(backfill.page) \in Event
           /\ [backfill EXCEPT !.page = Tail(@)] \in Backfill
<1>1. backfill \in Backfill /\ backfill.page \in Seq(Event)
  BY Rows, BackfillRow
<1>2. Head(backfill.page) \in Event /\ Tail(backfill.page) \in Seq(Event)
  BY <1>1
<1> QED
  BY <1>1, <1>2 DEF Backfill

LEMMA BackfillOneSound ==
    ASSUME IngestInv, BackfillOne \/ BackfillFallsBack
    PROVE  SoundStep
<1> DEFINE e == Head(backfill.page)
<1>0. /\ IngestTypeOK /\ event \in [Event -> EventRow] /\ Len(runs) <= MaxRuns
      /\ status \in {"active", "paused"} /\ faults \in 0..MaxFaults
      /\ backfill.version \in 1..MaxVersions
  BY Rows DEF IngestInv, IngestTypeOK, DeploymentTypeOK
<1>1. /\ backfill.page # <<>> /\ backfill' = [backfill EXCEPT !.page = Tail(@)]
      /\ UNCHANGED <<status, deleted, versions, rollouts, hits, request>>
  BY DEF BackfillOne, BackfillFallsBack, BackfillIdle
<1>2. e \in Event /\ backfill' \in Backfill
  BY <1>0, <1>1, PageRest
<1>3. faults' \in 0..MaxFaults
  BY <1>0, IngestBounds DEF BackfillOne, BackfillFallsBack
<1>4. EventsSettle /\ RunsMove /\ Len(runs') <= MaxRuns
  <2>1. CASE StartFor(e, "backfill", BackfillVersion(e), event[e].arm)
    <3>1. event[e] \in EventRow
      BY <1>0, <1>2
    <3>2. event[e].version \in 1..MaxVersions /\ event[e].arm \in Arm
      BY <3>1 DEF EventRow
    <3>3. BackfillVersion(e) \in 1..MaxVersions
      BY <1>0, <3>2 DEF BackfillVersion
    <3>4. Truthful(rollouts, BackfillVersion(e), event[e].arm)
      <4>1. Truthful(rollouts, event[e].version, event[e].arm)
        BY <1>2 DEF IngestInv, ArmsAreTruthful
      <4>2. CASE event[e].arm = NoArm
        BY <4>2, IdleRows DEF Truthful
      <4>3. CASE event[e].arm # NoArm
        BY <4>1, <4>3 DEF BackfillVersion, KeepsArm
      <4> QED
        BY <4>2, <4>3
    <3> QED
      BY <1>2, <2>1, <3>2, <3>3, <3>4, StartForSettles DEF Path
  <2>2. CASE StartFor(e, "backfill", backfill.version, NoArm)
    <3>1. Truthful(rollouts, backfill.version, NoArm)
      BY IdleRows DEF Truthful
    <3> QED
      BY <1>0, <1>2, <2>2, <3>1, IdleRows, StartForSettles DEF Path
  <2>3. CASE UNCHANGED <<event, runs>>
    BY <1>0, <2>3, UnchangedEvents DEF RunsMove
  <2> QED
    BY <2>1, <2>2, <2>3 DEF BackfillOne, BackfillFallsBack
<1>5. SeenMoves /\ HitsMove
  BY <1>1, <1>4 DEF EventsSettle, SeenMoves, HitsMove
<1> QED
  BY <1>0, <1>1, <1>2, <1>3, <1>4, <1>5, UnchangedRequests, StepFrom DEF EventsSettle

LEMMA BackfillRestSound ==
    ASSUME IngestInv, LoadLatest \/ BackfillFails \/ BackfillEnds
    PROVE  SoundStep
<1>0. /\ IngestTypeOK /\ status \in {"active", "paused"} /\ faults \in 0..MaxFaults
      /\ backfill \in Backfill /\ Latest \in 1..MaxVersions
  BY Rows, BackfillRow DEF IngestInv
<1>1. UNCHANGED <<dVars, event, hits, request>>
  BY DEF LoadLatest, BackfillFails, BackfillEnds, BackfillIdle
<1>2. faults' \in 0..MaxFaults
  BY <1>0, IngestBounds DEF LoadLatest, BackfillFails, BackfillEnds
<1>3. NoResume \in Backfill
  BY DeploymentBounds DEF NoResume, Backfill
<1>4. backfill' \in Backfill
  <2>1. CASE LoadLatest
    BY <1>0, <2>1 DEF LoadLatest, Backfill
  <2>2. CASE BackfillFails \/ BackfillEnds
    BY <1>0, <1>3, <2>2, PageRest DEF BackfillFails, BackfillEnds
  <2> QED
    BY <2>1, <2>2
<1> QED
  BY <1>0, <1>1, <1>2, <1>4, UnchangedRequests, QuietStep DEF dVars

(* A save, a rollout and the end of one. *)
LEMMA DeploymentSound ==
    ASSUME IngestInv, DeploymentStep
    PROVE  SoundStep
<1>0. /\ IngestTypeOK /\ versions \in Seq(Doc) /\ Latest \in 1..MaxVersions
      /\ rollouts \in Seq(Rollout) /\ Len(rollouts) <= MaxRollouts /\ Len(runs) <= MaxRuns
      /\ status \in {"active", "paused"}
  BY Rows DEF IngestInv, IngestTypeOK, DeploymentTypeOK
<1>1. UNCHANGED <<status, deleted, runs, event, hits, request, backfill, faults>>
  BY DEF DeploymentStep, AppendVersion, CreateRollout, FinishRollout
<1>2. /\ versions' \in Seq(Doc) /\ Len(versions') \in 1..MaxVersions
      /\ rollouts' \in Seq(Rollout) /\ Len(rollouts') <= MaxRollouts /\ RolloutsKept
  <2>1. ASSUME NEW d \in Doc, AppendVersion(d)
        PROVE  /\ versions' \in Seq(Doc) /\ Len(versions') \in 1..MaxVersions
               /\ UNCHANGED rollouts
    <3>1. versions' = Append(versions, d) /\ Len(versions) < MaxVersions /\ UNCHANGED rollouts
      BY <2>1 DEF AppendVersion, Latest
    <3> QED
      BY <1>0, <3>1, DeploymentBounds DEF Latest
  <2>2. ASSUME NEW b \in DOMAIN versions, CreateRollout(b)
        PROVE  /\ rollouts' \in Seq(Rollout) /\ Len(rollouts') <= MaxRollouts /\ RolloutsKept
               /\ UNCHANGED versions
    <3> DEFINE ro == [baseline |-> b, canary |-> Latest, status |-> "active",
                      succeeded |-> [x \in Variant |-> 0], failed |-> [x \in Variant |-> 0]]
    <3>1. b \in 1..MaxVersions
      BY <1>0, DeploymentBounds DEF Latest
    <3>2. ro \in Rollout
      BY <1>0, <3>1, DeploymentBounds DEF Rollout, RolloutStatus
    <3>3. rollouts' = Append(rollouts, ro) /\ Len(rollouts) < MaxRollouts /\ UNCHANGED versions
      BY <2>2 DEF CreateRollout
    <3> HIDE DEF ro
    <3>4. /\ rollouts' \in Seq(Rollout) /\ Len(rollouts') = Len(rollouts) + 1
          /\ \A i \in DOMAIN rollouts : i \in DOMAIN rollouts' /\ rollouts'[i] = rollouts[i]
      BY <1>0, <3>2, <3>3
    <3>5. Len(rollouts') <= MaxRollouts
      BY <1>0, <3>3, <3>4, DeploymentBounds
    <3> QED
      BY <3>3, <3>4, <3>5 DEF RolloutsKept
  <2>3. ASSUME NEW r \in DOMAIN rollouts, NEW d \in {"promoted", "rolled_back"}, FinishRollout(r, d)
        PROVE  /\ rollouts' \in Seq(Rollout) /\ Len(rollouts') <= MaxRollouts /\ RolloutsKept
               /\ UNCHANGED versions
    <3> DEFINE ro == [rollouts[r] EXCEPT !.status = d]
    <3>1. rollouts' = [rollouts EXCEPT ![r] = ro] /\ UNCHANGED versions
      BY <1>0, <2>3 DEF FinishRollout
    <3>2. rollouts[r] \in Rollout
      BY <1>0
    <3>3. ro \in Rollout /\ ro.canary = rollouts[r].canary /\ ro.baseline = rollouts[r].baseline
      BY <3>2 DEF Rollout, RolloutStatus
    <3> HIDE DEF ro
    <3>4. /\ rollouts' \in Seq(Rollout) /\ Len(rollouts') = Len(rollouts)
          /\ DOMAIN rollouts' = DOMAIN rollouts /\ rollouts'[r] = ro
          /\ \A i \in DOMAIN rollouts : i # r => rollouts'[i] = rollouts[i]
      BY <1>0, <3>1, <3>3
    <3> QED
      BY <1>0, <3>1, <3>3, <3>4 DEF RolloutsKept
  <2> QED
    BY <1>0, <2>1, <2>2, <2>3 DEF DeploymentStep, Latest, AppendVersion, RolloutsKept
<1>3. IngestTypeOK'
  BY <1>0, <1>1, <1>2 DEF IngestTypeOK, DeploymentTypeOK, Latest
<1>4. EventsSettle /\ RequestsMove
  BY <1>1, UnchangedEvents, UnchangedRequests
<1>5. SeenMoves /\ HitsMove /\ RunsMove
  BY <1>1, <1>4 DEF EventsSettle, SeenMoves, HitsMove, RunsMove
<1> QED
  BY <1>0, <1>1, <1>2, <1>3, <1>4, <1>5 DEF SoundStep, EventsSettle, EventsMove, RequestsMove

LEMMA IngestInvariant == IngestSpec => []IngestInv
<1>1. IngestInit => IngestInv
  <2> SUFFICES ASSUME IngestInit PROVE IngestInv
    OBVIOUS
  <2>1. /\ status = "active" /\ deleted = FALSE /\ rollouts = <<>> /\ runs = <<>>
        /\ \E d \in Doc : versions = <<d>>
    BY DEF IngestInit, DeploymentInit
  <2>2. /\ event = [e \in Event |-> NoRow] /\ hits = 0 /\ faults = 0
        /\ request = [r \in Request |-> Idle] /\ backfill = NoResume
    BY DEF IngestInit
  <2>3. /\ NoRow.status = "none" /\ NoRow.admitted = FALSE /\ NoRow.arm = NoArm
    BY DEF NoRow
  <2>4. backfill \in Backfill
    BY <2>2, DeploymentBounds DEF NoResume, Backfill
  <2>5. event \in [Event -> EventRow] /\ request \in [Request -> RequestRow]
    BY <2>2, IdleRows
  <2>6. versions \in Seq(Doc) /\ Len(versions) \in 1..MaxVersions
    BY <2>1, DeploymentBounds
  <2>7. IngestTypeOK
    <3>1. rollouts \in Seq(Rollout) /\ Len(rollouts) = 0 /\ runs \in Seq(Run) /\ Len(runs) = 0
      BY <2>1
    <3>2. DeploymentTypeOK(Path, Event)
      <4>1. status \in {"active", "paused", "degraded"} /\ deleted \in BOOLEAN
        BY <2>1
      <4>2. Len(rollouts) <= MaxRollouts /\ Len(runs) <= MaxRuns
        BY <3>1, DeploymentBounds
      <4> QED
        BY <2>6, <3>1, <4>1, <4>2 DEF DeploymentTypeOK, Latest, Run
    <3>3. hits \in Nat /\ faults \in 0..MaxFaults
      BY <2>2, IngestBounds
    <3> QED
      BY <2>4, <2>5, <3>2, <3>3 DEF IngestTypeOK, EventRow, RequestRow, Backfill
  <2>8. Seen = {} /\ Spent = {} /\ UnseenIsBlank
    BY <2>2, <2>3 DEF Seen, Spent, UnseenIsBlank
  <2>9. RequestsCarry /\ ArmsAreTruthful
    BY <2>1, <2>2, <2>3, IdleRows DEF RequestsCarry, Carries, ArmsAreTruthful, Truthful
  <2>10. RunsAreStarted /\ OneRunPerEvent /\ DeliveryKeepsCapture
    BY <2>1 DEF RunsAreStarted, OneRunPerEvent, DeliveryKeepsCapture
  <2>11. BudgetSpentOnce /\ IsFiniteSet(Seen)
    BY <2>2, <2>8, FS_EmptySet DEF BudgetSpentOnce, Spent
  <2> QED
    BY <2>1, <2>7, <2>8, <2>9, <2>10, <2>11 DEF IngestInv
<1>2. IngestInv /\ [IngestNext]_vars => IngestInv'
  <2> SUFFICES ASSUME IngestInv, [IngestNext]_vars PROVE IngestInv'
    OBVIOUS
  <2>1. CASE UNCHANGED vars
    <3>1. UNCHANGED <<deleted, versions, rollouts, runs, event, hits, request, backfill, faults, status>>
      BY <2>1 DEF vars, dVars
    <3>2. IngestTypeOK /\ faults \in 0..MaxFaults /\ status \in {"active", "paused"}
      BY Rows DEF IngestInv
    <3> QED
      BY <3>1, <3>2, BackfillRow, UnchangedRequests, QuietStep, SoundStepKeeps
  <2>2. CASE IngestNext
    <3>1. SoundStep
      BY <2>2, DeliverSound, LookUpSound, InsertEventSound, GuardSound, DecideSound, FaultSound,
         StatusSound, ClaimBufferedSound, BackfillOneSound, BackfillRestSound, DeploymentSound
         DEF IngestNext, RequestStep, BackfillStep
    <3> QED
      BY <3>1, SoundStepKeeps
  <2> QED
    BY <2>1, <2>2
<1> QED
  BY <1>1, <1>2, PTL DEF IngestSpec

-----------------------------------------------------------------------------
(* The theorems. *)

(* Every row, request and drain keeps its type (webhooks.go,                 *)
(* circuitbreaker.go).                                                       *)
THEOREM IngestIsTyped == IngestSpec => []IngestTypeOK
<1>1. IngestInv => IngestTypeOK
  BY DEF IngestInv
<1> QED
  BY <1>1, IngestInvariant, PTL

(* An event starts at most one run, however often it is delivered, retried   *)
(* or drained (ClaimTriggerEventStart).                                      *)
THEOREM EventStartsOnce == IngestSpec => []OneRunPerEvent
<1>1. IngestInv => OneRunPerEvent
  BY DEF IngestInv
<1> QED
  BY <1>1, IngestInvariant, PTL

(* A run of a delivery runs the version and rollout its event captured       *)
(* (adoptExisting).                                                          *)
THEOREM CaptureIsKept == IngestSpec => []DeliveryKeepsCapture
<1>1. IngestInv => DeliveryKeepsCapture
  BY DEF IngestInv
<1> QED
  BY <1>1, IngestInvariant, PTL

(* A run that carries an arm runs that arm's version, through deliveries,    *)
(* captures, pauses and backfills (rolloutoutcomes.go counts on it).         *)
THEOREM ArmsTellTheTruth == IngestSpec => []ArmIsTruthful
<1>1. IngestInv => ArmIsTruthful
  BY DEF IngestInv, ArmsAreTruthful, Truthful, ArmIsTruthful, ArmVersion
<1> QED
  BY <1>1, IngestInvariant, PTL

(* No more hits are in a window than events were admitted or refused: a      *)
(* retried event is not counted again (EnforceTriggerEvent).                 *)
THEOREM AdmissionIsSpentOnce == IngestSpec => []BudgetSpentOnce
<1>1. IngestInv => BudgetSpentOnce
  BY DEF IngestInv
<1> QED
  BY <1>1, IngestInvariant, PTL

=============================================================================
