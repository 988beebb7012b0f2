---------------------------- MODULE TriggerIngest ----------------------------
(***************************************************************************)
(* Inbound trigger events (httpapi/webhooks.go), the storm guard that      *)
(* admits them (ratelimit/ratelimit.go) and the backfill that drains what  *)
(* a pause parked (engine/circuitbreaker.go).  A delivery runs statement   *)
(* by statement between other deliveries, the breaker (OutcomeGuards       *)
(* models when it trips) and the operator.                                 *)
(***************************************************************************)
EXTENDS Deployment

CONSTANTS
    Event,          \* inbound events, by dedupe key
    Key,            \* assignment keys: each delivery draws a trigger event id
    Request,        \* HTTP requests in flight at once
    NoEvent,        \* the event of an idle request
    RateMax,        \* rateLimitPerMin of the trigger node
    PageLimit,      \* events one resume claims (50)
    MaxFaults       \* bound on failed statements and crashes

ASSUME IngestBounds ==
    /\ NoEvent \notin Event /\ RateMax \in Nat
    /\ PageLimit \in Nat \ {0} /\ MaxFaults \in Nat

VARIABLES
    event,      \* trigger_events
    hits,       \* the storm guard's count in the current window
    request,    \* what each request is doing
    backfill,   \* the resume call in progress
    faults

vars == <<dVars, event, hits, request, backfill, faults>>

EventStatus == {"none", "received", "buffered", "skipped", "failed", "started"}
NoRow    == [status |-> "none", version |-> 1, arm |-> NoArm, admitted |-> FALSE, claimed |-> FALSE]
Idle     == [pc |-> "idle", event |-> NoEvent, owner |-> "active", version |-> 1, arm |-> NoArm]
NoResume == [pc |-> "idle", page |-> <<>>, version |-> 1]
Arm      == [rollout : 0..MaxRollouts, variant : Variant]
Path     == {"ingest", "backfill"}

IngestTypeOK ==
    /\ DeploymentTypeOK(Path, Event)
    /\ event \in [Event -> [status : EventStatus, version : 1..MaxVersions, arm : Arm,
                            admitted : BOOLEAN, claimed : BOOLEAN]]
    /\ hits \in Nat /\ faults \in 0..MaxFaults
    /\ request \in [Request ->
         [pc : {"idle", "lookup", "insert", "guard", "decide"},
          event : Event \cup {NoEvent}, owner : {"active", "paused"},
          version : 1..MaxVersions, arm : Arm]]
    /\ backfill \in [pc : {"idle", "claim", "load", "drain"}, page : Seq(Event),
                     version : 1..MaxVersions]

IngestInit ==
    /\ DeploymentInit
    /\ event = [e \in Event |-> NoRow]
    /\ hits = 0 /\ faults = 0
    /\ request = [r \in Request |-> Idle]
    /\ backfill = NoResume

-----------------------------------------------------------------------------
(* A delivery. *)

Goes(r, pc) == request' = [request EXCEPT ![r].pc = pc]
Answers(r)  == request' = [request EXCEPT ![r] = Idle]
RequestOnly == UNCHANGED <<dVars, backfill, faults>>

(* GetWorkflowIngestState: the owner's status is read once, before anything  *)
(* else, and used at the end.                                                *)
Deliver(r, e) ==
    /\ request[r].pc = "idle" /\ ~deleted
    /\ request' = [request EXCEPT ![r] =
         [Idle EXCEPT !.pc = "lookup", !.event = e, !.owner = status]]
    /\ UNCHANGED <<event, hits>> /\ RequestOnly

(* A delivery that finds the event still received adopts the version and arm *)
(* the row captured; a settled event is a duplicate.                         *)
AdoptsNothing(r) ==
    IF event[request[r].event].status = "received" THEN Goes(r, "guard") ELSE Answers(r)
Adopts(r) ==
    LET row == event[request[r].event] IN
    IF row.status = "received"
    THEN request' = [request EXCEPT ![r].pc = "guard", ![r].version = row.version,
                                    ![r].arm = row.arm]
    ELSE Answers(r)

(* A first delivery is bound to the latest version, or to the arm its fresh  *)
(* key is assigned; only the one whose insert wins keeps it.                 *)
LookUp(r, k) ==
    /\ request[r].pc = "lookup"
    /\ IF event[request[r].event].status # "none" THEN Adopts(r)
       ELSE request' = [request EXCEPT ![r].pc = "insert",
              ![r].version = IF Assigned THEN VersionFor(k) ELSE Latest,
              ![r].arm = IF Assigned THEN ArmFor(k) ELSE NoArm]
    /\ UNCHANGED <<event, hits>> /\ RequestOnly

(* InsertTriggerEvent, ON CONFLICT DO NOTHING then re-read.                  *)
InsertEvent(r) ==
    LET q == request[r] IN
    /\ q.pc = "insert"
    /\ IF event[q.event].status = "none"
       THEN /\ event' = [event EXCEPT ![q.event] =
                 [NoRow EXCEPT !.status = "received", !.version = q.version, !.arm = q.arm]]
            /\ Goes(r, "guard")
       ELSE UNCHANGED event /\ Adopts(r)
    /\ UNCHANGED hits /\ RequestOnly

(* EnforceTriggerEvent: the hit and the admission marker commit together, so *)
(* an admitted event is not counted again.                                   *)
AdmittedInWindow(e) == event[e].admitted /\ hits = 0
AlreadyAdmitted(e) == event[e].admitted
Guard(r) ==
    LET e == request[r].event IN
    /\ request[r].pc = "guard"
    /\ \/ /\ event[e].status # "received"
          /\ Answers(r) /\ UNCHANGED <<event, hits>>
       \/ /\ event[e].status = "received" /\ AlreadyAdmitted(e)
          /\ Goes(r, "decide") /\ UNCHANGED <<event, hits>>
       \/ /\ event[e].status = "received" /\ ~AlreadyAdmitted(e)
          /\ hits' \in {1, hits + 1}
          /\ IF hits' > RateMax
             THEN event' = [event EXCEPT ![e].status = "skipped"] /\ Answers(r)
             ELSE event' = [event EXCEPT ![e].admitted = TRUE] /\ Goes(r, "decide")
    /\ RequestOnly

(* A store error lets the delivery through unadmitted.                       *)
FailOpen(r) ==
    /\ request[r].pc = "guard" /\ faults < MaxFaults
    /\ faults' = faults + 1
    /\ Goes(r, "decide")
    /\ UNCHANGED <<dVars, event, hits, backfill>>

(* MarkTriggerEventOutcome: only a received event.                           *)
Marked(e, to) ==
    IF event[e].status = "received" THEN [event EXCEPT ![e].status = to] ELSE event

(* ClaimTriggerEventStart inside StartRun's transaction; a run is owed to a  *)
(* received or buffered event.                                               *)
OwedUnlessSkipped(e) == event[e].status \notin {"none", "skipped"}
Owed(e) == event[e].status \in {"received", "buffered"}

StartFor(e, path, v, arm) ==
    /\ Owed(e) /\ Len(runs) < MaxRuns
    /\ event' = [event EXCEPT ![e].status = "started", ![e].claimed = FALSE]
    /\ runs' = Inserted(path, e, v, arm)

(* Buffer on pause, fail what does not validate, else start; a start that    *)
(* finds the event taken answers as a duplicate.                             *)
Decide(r) ==
    LET q == request[r] IN
    /\ q.pc = "decide"
    /\ \/ /\ q.owner # "active"
          /\ event' = Marked(q.event, "buffered") /\ UNCHANGED runs
       \/ /\ q.owner = "active"
          /\ \/ event' = Marked(q.event, "failed") /\ UNCHANGED runs
             \/ StartFor(q.event, "ingest", q.version, q.arm)
             \/ ~Owed(q.event) /\ UNCHANGED <<event, runs>>
    /\ Answers(r)
    /\ UNCHANGED <<status, deleted, versions, rollouts, hits, backfill, faults>>

(* A failed statement or a crash: the caller delivers again.                 *)
Abort(r) ==
    /\ request[r].pc # "idle" /\ faults < MaxFaults
    /\ faults' = faults + 1
    /\ Answers(r)
    /\ UNCHANGED <<dVars, event, hits, backfill>>

-----------------------------------------------------------------------------
(* TripWorkflowCircuitBreaker. *)
Pause ==
    /\ status = "active" /\ ~deleted
    /\ status' = "paused"
    /\ UNCHANGED <<deleted, versions, rollouts, runs, event, hits, request, backfill, faults>>

-----------------------------------------------------------------------------
(* ResumeWorkflowCircuitBreaker and its backfill. *)

BackfillIdle == UNCHANGED <<hits, request>>
Backfills(pc) == backfill' = [backfill EXCEPT !.pc = pc]

(* A second resume of an active workflow drains the next page.               *)
Resume ==
    /\ backfill.pc = "idle" /\ ~deleted
    /\ status' = "active"
    /\ Backfills("claim")
    /\ UNCHANGED <<deleted, versions, rollouts, runs, event, faults>> /\ BackfillIdle

Claimable == {e \in Event : event[e].status = "buffered" /\ ~event[e].claimed}

ClaimBuffered ==
    /\ backfill.pc = "claim"
    /\ \E page \in SetToAllKPermutations(Claimable) :
         /\ Len(page) = IF Cardinality(Claimable) < PageLimit THEN Cardinality(Claimable) ELSE PageLimit
         /\ event' = [e \in Event |-> IF e \in ToSet(page) THEN [event[e] EXCEPT !.claimed = TRUE]
                                      ELSE event[e]]
         /\ backfill' = [backfill EXCEPT !.pc = "load", !.page = page]
    /\ UNCHANGED <<dVars, faults>> /\ BackfillIdle

LoadLatest ==
    /\ backfill.pc = "load"
    /\ backfill' = [backfill EXCEPT !.pc = "drain", !.version = Latest]
    /\ UNCHANGED <<dVars, event, faults>> /\ BackfillIdle

(* An event that captured an arm keeps it; the others run the latest.        *)
KeepsArm(e) == event[e].arm # NoArm
BackfillLatest(e) == backfill.version
BackfillVersion(e) == IF KeepsArm(e) THEN event[e].version ELSE backfill.version

BackfillOne ==
    /\ backfill.pc = "drain" /\ backfill.page # <<>>
    /\ LET e == Head(backfill.page) IN
       \/ StartFor(e, "backfill", BackfillVersion(e), event[e].arm)
       \/ ~Owed(e) /\ UNCHANGED <<event, runs>>
    /\ backfill' = [backfill EXCEPT !.page = Tail(@)]
    /\ UNCHANGED <<status, deleted, versions, rollouts, faults>> /\ BackfillIdle

(* The captured version cannot be read: the event runs the latest instead.   *)
BackfillFallsBack ==
    /\ backfill.pc = "drain" /\ backfill.page # <<>> /\ faults < MaxFaults
    /\ LET e == Head(backfill.page) IN
       KeepsArm(e) /\ StartFor(e, "backfill", backfill.version, NoArm)
    /\ backfill' = [backfill EXCEPT !.page = Tail(@)]
    /\ faults' = faults + 1
    /\ UNCHANGED <<status, deleted, versions, rollouts>> /\ BackfillIdle

(* One start fails (counted as Failed) and the drain goes on, or the call    *)
(* itself stops; either way the claim stays on the rows.                     *)
BackfillFails ==
    /\ backfill.pc # "idle" /\ faults < MaxFaults
    /\ faults' = faults + 1
    /\ \/ backfill.page # <<>> /\ backfill.pc = "drain" /\ backfill' = [backfill EXCEPT !.page = Tail(@)]
       \/ backfill' = NoResume
    /\ UNCHANGED <<dVars, event>> /\ BackfillIdle

BackfillEnds ==
    /\ backfill.pc = "drain" /\ backfill.page = <<>>
    /\ backfill' = NoResume
    /\ UNCHANGED <<dVars, event, faults>> /\ BackfillIdle

-----------------------------------------------------------------------------
(* Deployment changes under way meanwhile. *)
DeploymentStep ==
    /\ \/ \E d \in Doc : AppendVersion(d)
       \/ \E b \in DOMAIN versions : CreateRollout(b)
       \/ \E ro \in DOMAIN rollouts, d \in {"promoted", "rolled_back"} : FinishRollout(ro, d)
    /\ UNCHANGED <<event, hits, request, backfill, faults>>

RequestStep(r) ==
    (\E k \in Key : LookUp(r, k)) \/ InsertEvent(r) \/ Guard(r) \/ Decide(r)

BackfillStep == ClaimBuffered \/ LoadLatest \/ BackfillOne \/ BackfillEnds

IngestNext ==
    \/ \E r \in Request :
         (\E e \in Event : Deliver(r, e)) \/ RequestStep(r) \/ FailOpen(r) \/ Abort(r)
    \/ Pause \/ Resume \/ BackfillStep \/ BackfillFallsBack \/ BackfillFails
    \/ DeploymentStep

IngestSpec == IngestInit /\ [][IngestNext]_vars

(* The operator calls resume again and again and every drain goes on.        *)
ResumedSpec == IngestSpec /\ WF_vars(Resume) /\ WF_vars(BackfillStep)

-----------------------------------------------------------------------------
(* Properties. *)

(* However often an event is delivered, and whatever a backfill and a late   *)
(* delivery do at once, it starts at most one run.                           *)
OneRunPerEvent ==
    \A i, j \in DOMAIN runs : runs[i].tick = runs[j].tick => i = j

(* The storm guard spends one hit on an event: retries of an admitted event, *)
(* after a crash too, never use the window's budget again.                   *)
BudgetSpentOnce ==
    hits <= Cardinality({e \in Event : event[e].admitted \/ event[e].status = "skipped"})

(* A run started by a delivery runs the version the event captured when it   *)
(* was accepted, whatever was saved, promoted or rolled back since           *)
(* (webhooks.go adoptExisting).                                              *)
DeliveryKeepsCapture ==
    \A i \in DOMAIN runs : runs[i].key = "ingest" =>
        /\ runs[i].version = event[runs[i].tick].version
        /\ runs[i].rollout = event[runs[i].tick].arm.rollout

(* A run that carries an arm runs that arm's version: outcome counting       *)
(* relies on it (rolloutoutcomes.go).                                        *)
ArmIsTruthful ==
    \A i \in DOMAIN runs : runs[i].rollout # 0 =>
        runs[i].version = ArmVersion(runs[i].rollout, runs[i].variant)

(* circuitbreaker.go: "repeated calls drain the next page" - an operator     *)
(* who keeps resuming eventually starts every buffered event.                *)
BufferedEventsDrain ==
    \A e \in Event : event[e].status = "buffered" ~> event[e].status # "buffered"

=============================================================================
