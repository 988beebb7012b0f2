------------------------------ MODULE Schedule ------------------------------
(***************************************************************************)
(* The schedule sweep (engine/schedule.go): a workflow with one schedule   *)
(* node, the schedule_entries row its latest version put there, and        *)
(* replicas that lease the row when it is due and fire or drop the tick    *)
(* statement by statement.  The lease is stored in the column that held    *)
(* the due time, so a second replica may claim the same tick while the     *)
(* first is still working on it.                                           *)
(***************************************************************************)
EXTENDS Deployment

CONSTANTS
    Replica,        \* processes running RunScheduleSweep
    Scheduled,      \* documents with an enabled schedule node
    Instants,       \* the instants the cron expression names
    MaxTime,        \* bound on the clock
    MaxEntries,     \* bound on schedule_entries rows ever inserted
    MaxFaults,      \* bound on failed reads, failed starts and crashes
    CanCorrupt      \* whether a stored cron expression may stop parsing

ASSUME ScheduleBounds ==
    /\ Scheduled \subseteq Doc
    /\ Instants \subseteq Nat /\ MaxTime \in Nat /\ MaxFaults \in Nat
    /\ \A t \in 0..MaxTime : \E i \in Instants : i > t
    /\ MaxEntries \in Nat \ {0}
    /\ CanCorrupt \in BOOLEAN

VARIABLES
    now,        \* the clock all replicas and PostgreSQL share
    entry,      \* the schedule_entries row, or NoEntry
    entries,    \* rows inserted so far: the id of the newest
    sweep,      \* what each replica is doing
    faults      \* faults so far

vars == <<dVars, now, entry, entries, sweep, faults>>

(* cron.Schedule.Next: the first instant strictly after t.                   *)
NextInstant(t) == CHOOSE i \in Instants : i > t /\ \A j \in Instants : j > t => i <= j

(* next_fire_at holds an instant, or the lease that replaced it;             *)
(* claimed_due_at an instant, or NULL.  The stand-ins for a running lease    *)
(* and for NULL are no instants.                                             *)
Leased  == MaxTime + 1000
Lapsed  == 0
NoTime  == MaxTime + 1001
ASSUME StandInsAreNoInstants == Leased \notin Instants /\ NoTime \notin Instants

NoEntry == [id |-> 0, version |-> 0, enabled |-> FALSE, next |-> NoTime, claimed |-> NoTime]
Idle    == [pc |-> "idle", id |-> 0, due |-> NoTime, at |-> 0, version |-> 0,
            status |-> "active", arm |-> NoArm]

Due(e)  == IF e.claimed = NoTime THEN e.next ELSE e.claimed
Tick(h) == <<h.id, h.due>>

ScheduleTypeOK ==
    /\ DeploymentTypeOK((1..MaxEntries) \X Nat, Nat)
    /\ now \in 0..MaxTime /\ entries \in 0..MaxEntries /\ faults \in 0..MaxFaults
    /\ entry = NoEntry \/
       entry \in [id : 1..entries, version : 1..Latest, enabled : BOOLEAN,
                  next : Nat, claimed : Nat]
    /\ sweep \in [Replica -> {Idle} \cup
         [pc : {"owner", "lookup", "load", "start", "advance", "drop"},
          id : 1..MaxEntries, due : Nat, at : 0..MaxTime, version : 1..MaxVersions,
          status : {"active", "paused"},
          arm : [rollout : 0..MaxRollouts, variant : Variant]]]

-----------------------------------------------------------------------------
(* The row. *)

(* SyncWorkflowSchedules, in the transaction that wrote the version: every   *)
(* row of the workflow is replaced, the first instant is in the future.      *)
Synced(doc, v) ==
    IF doc \in Scheduled
    THEN [id |-> entries + 1, version |-> v, enabled |-> TRUE,
          next |-> NextInstant(now), claimed |-> NoTime]
    ELSE NoEntry

Sync(doc, v) ==
    /\ doc \in Scheduled => entries < MaxEntries
    /\ entry' = Synced(doc, v)
    /\ entries' = IF doc \in Scheduled THEN entries + 1 ELSE entries

(* ClaimDueScheduleEntries: which row is due, and what the claim writes.     *)
ClaimableUnclaimed(e) ==
    e # NoEntry /\ e.enabled /\ e.next <= now /\ e.claimed = NoTime
Claimable(e) == e # NoEntry /\ e.enabled /\ e.next <= now
ClaimedRow(e) == [e EXCEPT !.next = Leased, !.claimed = Due(e)]

AdvancedRow(e, h) == [e EXCEPT !.next = NextInstant(h.at), !.claimed = NoTime]

(* AdvanceScheduleEntry: only for the claim the holder took.                 *)
HoldsRow(h) == entry.id = h.id
HoldsClaim(h) == entry.id = h.id /\ entry.claimed = h.due

-----------------------------------------------------------------------------
ScheduleInit ==
    /\ DeploymentInit
    /\ now = 0 /\ faults = 0
    /\ sweep = [s \in Replica |-> Idle]
    /\ LET scheduled == versions[1] \in Scheduled IN
       /\ entries = (IF scheduled THEN 1 ELSE 0)
       /\ entry = IF scheduled
                  THEN [id |-> 1, version |-> 1, enabled |-> TRUE,
                        next |-> NextInstant(0), claimed |-> NoTime]
                  ELSE NoEntry

Clock ==
    /\ now < MaxTime
    /\ now' = now + 1
    /\ UNCHANGED <<dVars, entry, entries, sweep, faults>>

(* The lease of a claimed row runs out, whoever holds it.                    *)
LeaseLapses ==
    /\ entry.next = Leased
    /\ entry' = [entry EXCEPT !.next = Lapsed]
    /\ UNCHANGED <<dVars, now, entries, sweep, faults>>

(* Operators: save, roll back, delete, restore, pause, resume, roll out.     *)
OperatorIdle == UNCHANGED <<now, sweep, faults>>

SaveVersion(doc) == AppendVersion(doc) /\ Sync(doc, Latest + 1) /\ OperatorIdle

RollbackVersion(source) ==
    RollbackTo(source) /\ Sync(versions[source], Latest + 1) /\ OperatorIdle

DeactivateKeepsEntry == Deactivate /\ UNCHANGED <<entry, entries>> /\ OperatorIdle
DeactivateWorkflow == Deactivate /\ entry' = NoEntry /\ UNCHANGED entries /\ OperatorIdle

ReactivateWorkflow == Reactivate /\ Sync(versions[Latest], Latest) /\ OperatorIdle

PauseOrResume ==
    /\ ~deleted
    /\ status' = IF status = "active" THEN "paused" ELSE "active"
    /\ UNCHANGED <<deleted, versions, rollouts, runs, entry, entries>> /\ OperatorIdle

RolloutStep ==
    /\ \/ \E b \in DOMAIN versions : CreateRollout(b)
       \/ \E r \in DOMAIN rollouts, d \in {"promoted", "rolled_back"} : FinishRollout(r, d)
    /\ UNCHANGED <<entry, entries>> /\ OperatorIdle

-----------------------------------------------------------------------------
(* One replica fires one tick. *)

Goes(s, pc)    == sweep' = [sweep EXCEPT ![s].pc = pc]
Finishes(s)    == sweep' = [sweep EXCEPT ![s] = Idle]
RowUntouched   == UNCHANGED <<entry, entries>>
KeepsRest      == UNCHANGED <<now, faults>>

(* The due row, leased; the tick's identity is the due time of its first     *)
(* claim.                                                                    *)
Claim(s) ==
    /\ sweep[s].pc = "idle"
    /\ Claimable(entry)
    /\ entry' = ClaimedRow(entry)
    /\ sweep' = [sweep EXCEPT ![s] =
         [Idle EXCEPT !.pc = "owner", !.id = entry.id, !.due = Due(entry),
                      !.at = now, !.version = entry.version]]
    /\ UNCHANGED <<dVars, entries>> /\ KeepsRest

(* A cron expression that no longer parses disables the row.                 *)
Disable(s) ==
    /\ CanCorrupt /\ sweep[s].pc = "owner"
    /\ entry' = IF entry.id = sweep[s].id THEN [entry EXCEPT !.enabled = FALSE] ELSE entry
    /\ Finishes(s)
    /\ UNCHANGED <<dVars, entries>> /\ KeepsRest

(* GetWorkflowIngestState: an orphan row is deleted, else the status is kept *)
(* for the decision below.                                                   *)
ReadOwner(s) ==
    /\ sweep[s].pc = "owner"
    /\ \/ /\ deleted
          /\ entry' = IF entry.id = sweep[s].id THEN NoEntry ELSE entry
          /\ Finishes(s)
       \/ /\ ~deleted
          /\ sweep' = [sweep EXCEPT ![s].pc = "lookup", ![s].status = status]
          /\ UNCHANGED entry
    /\ UNCHANGED <<dVars, entries>> /\ KeepsRest

(* A tick whose run exists is only recorded; a paused workflow drops it.     *)
LookUp(s) ==
    /\ sweep[s].pc = "lookup"
    /\ Goes(s, IF KeyUsed(Tick(sweep[s])) THEN "advance"
               ELSE IF sweep[s].status # "active" THEN "drop" ELSE "load")
    /\ UNCHANGED dVars /\ RowUntouched /\ KeepsRest

(* The entry's version, or the rollout's arm for this tick.                  *)
LoadVersion(s) ==
    LET h == sweep[s]
        k == Tick(h) IN
    /\ h.pc = "load"
    /\ IF Assigned THEN sweep' = [sweep EXCEPT ![s].pc = "start",
                                    ![s].version = VersionFor(k), ![s].arm = ArmFor(k)]
       ELSE Goes(s, "start")
    /\ UNCHANGED dVars /\ RowUntouched /\ KeepsRest

(* StartRun: the run and its idempotency key commit together.                *)
StartKeyAttempt(h) == <<h.id, h.at>>
StartKey(h) == Tick(h)
StartTick(s) ==
    LET h == sweep[s] IN
    /\ h.pc = "start"
    /\ IF KeyUsed(StartKey(h)) THEN UNCHANGED runs
       ELSE Len(runs) < MaxRuns /\ runs' = Inserted(StartKey(h), h.due, h.version, h.arm)
    /\ Goes(s, "advance")
    /\ UNCHANGED <<status, deleted, versions, rollouts>> /\ RowUntouched /\ KeepsRest

(* A document that no longer parses, a rollout arm that cannot run, or an    *)
(* input the document refuses: the tick is dropped instead.                  *)
Refuse(s) ==
    /\ sweep[s].pc \in {"load", "start"}
    /\ Goes(s, "drop")
    /\ UNCHANGED dVars /\ RowUntouched /\ KeepsRest

(* A drop and a fire both move the row on from the cron expression; only the *)
(* holder that moves it audits a drop.                                       *)
Advance(s) ==
    /\ sweep[s].pc \in {"advance", "drop"}
    /\ entry' = IF HoldsClaim(sweep[s]) THEN AdvancedRow(entry, sweep[s]) ELSE entry
    /\ Finishes(s)
    /\ UNCHANGED <<dVars, entries>> /\ KeepsRest

(* A failed statement, a spent wall budget or a crash: the claim stays until *)
(* its lease lapses.                                                         *)
GiveUp(s) ==
    /\ sweep[s].pc # "idle" /\ faults < MaxFaults
    /\ faults' = faults + 1
    /\ Finishes(s)
    /\ UNCHANGED <<dVars, now>> /\ RowUntouched

SweepStep(s) ==
    \/ ReadOwner(s) \/ LookUp(s) \/ LoadVersion(s) \/ StartTick(s)
    \/ Advance(s)

ScheduleNext ==
    \/ Clock \/ LeaseLapses
    \/ \E d \in Doc : SaveVersion(d)
    \/ \E v \in DOMAIN versions : RollbackVersion(v)
    \/ DeactivateWorkflow \/ ReactivateWorkflow \/ PauseOrResume \/ RolloutStep
    \/ \E s \in Replica :
         Claim(s) \/ Disable(s) \/ SweepStep(s) \/ Refuse(s) \/ GiveUp(s)

ScheduleFairness ==
    /\ WF_vars(LeaseLapses)
    /\ \A s \in Replica : WF_vars(Claim(s)) /\ WF_vars(SweepStep(s))

ScheduleSpec == ScheduleInit /\ [][ScheduleNext]_vars /\ ScheduleFairness

-----------------------------------------------------------------------------
(* Properties. *)

(* One cron instant starts at most one run, whichever rows and replicas      *)
(* handled it: a lease that lapses mid-flight, a crash between the start and *)
(* the advance, and a save that replaces the row all resolve to one run.     *)
OneRunPerInstant ==
    \A i, j \in DOMAIN runs : runs[i].tick = runs[j].tick => i = j

(* The row is of the newest version and exists only while the workflow lives:*)
(* saves, rollbacks, deletes and restores replace it in their own            *)
(* transaction.  A sweep that holds the row's tick is not stopped by that    *)
(* (TombstonedNeverFires).                                                   *)
EntryFollowsLatest ==
    entry # NoEntry => /\ ~deleted /\ entry.version = Latest
                       /\ entry.id = entries /\ versions[Latest] \in Scheduled

(* A claimed tick is released only when its run exists or a holder of that   *)
(* very tick drops it: a stale holder never releases a newer claim.          *)
ClaimIsAnswered ==
    [][\A d \in Instants :
         (entry.claimed = d /\ entry'.id = entry.id /\ entry'.claimed = NoTime) =>
             \/ \E i \in DOMAIN runs : runs[i].tick = d
             \/ \E s \in Replica : sweep[s].pc = "drop" /\ Tick(sweep[s]) = <<entry.id, d>>]_vars

(* A due row never stays due for ever: whatever replica crashed on its tick, *)
(* the tick is claimed again and the row moves past it, is disabled or is    *)
(* replaced.  (The clock stops at MaxTime, so every instant is covered.)     *)
Overdue == entry # NoEntry /\ entry.enabled /\ Due(entry) <= now
TickSettles == Overdue ~> ~Overdue

(* schedule.go: "a tombstoned workflow must never fire".                     *)
TombstonedNeverFires == [][runs' # runs => ~deleted]_vars

=============================================================================
