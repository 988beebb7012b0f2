# A TLA+ verification of the Janusly engine

Janusly executes workflows: directed acyclic graphs whose nodes are HTTP calls, AI calls, routers, timers, approvals, forms, calls of other workflows and other steps. Its core is a durable engine in Go (`internal/engine`) over PostgreSQL. A run and its nodes are rows; workers on any number of replicas claim queued rows, execute them and commit the outcome. Around a run stand the machines that start runs (schedules, triggers, rollouts, subworkflows), the ones that watch their outcomes (circuit breaker, rollout guard, upstream poller) and the ones with which people repair them (dead letters, replay campaigns, tool approvals, recovery cases). All of them act on the same rows at the same time, from several processes, and any process may die between two statements.

This project models these machines as state machines, checks them with TLC on small instances, and proves their safety properties with TLAPS for every workflow, every number of workers and every bound.

## 1. Inventory

### Parts, their state and their operations

| Part | State | Operations | What makes it correct |
|---|---|---|---|
| Run lifecycle (`start.go`, `complete.go`, `downstream.go`, `readiness.go`, `terminalfailure.go`, `cancel.go`) | `runs.status`; `run_nodes.status`, `attempts`, `queue_publication_generation` | start, complete, retry, fail, scan and roll up, cancel | work starts in order; success means nothing is left to do; a running run always has something that moves; outcomes are final |
| Worker pool (`worker.go`, `persistretry.go`) | the claims in memory | claim, execute, commit, replay a commit, die | a publication is executed by one worker; no row stays running for ever |
| Waits and clocks (`waiting.go`, `dispatch.sql`) | `run_wakeups`; the waiting checkpoint of the row | pause, sweep, fire a timer, expire or escalate an approval, resume | a clock belongs to the wait that armed it; a stale deadline expires nothing |
| Reaper (`reaper.go`) | candidates read by a scan | scan, fail a candidate | every abandoned row is failed, and can be redriven |
| Dead letters and redrive (`redrive.go`) | `dead_letters`; the recovery stamp on the row; recovery impact events | dead-letter, redrive a dead letter, redrive a node, credit | each failure can be redriven; credit is earned |
| Semantic quarantine and governed recovery (`complete.go`, `recoverydiagnosis.go`, `recoveryoperations.go`, `recoverygovernance.go`, `semanticresolution.go`, `semanticmonitoring.go`) | `recovery_cases`, artifacts, approval grants, `runs.outcome_status` | detect, park, diagnose, propose, validate, approve, apply, accept the loss, monitor | an open quarantine holds its run and contains its outcome; what closes a case was approved for exactly that; a recovery is shown only when it happened |
| Workflow versions and rollouts (`workflowversions.go`, `workflowlifecycle.go`, `rollouts.go`, `rolloutoutcomes.go`) | `workflows`, `workflow_versions`, `workflow_rollouts`, outcome rows | save, roll back, delete, restore, roll out, assign, count, decide | an active rollout is deployable; a breaching canary is not active; counters are earned |
| Schedules (`schedule.go`) | `schedule_entries` with lease and logical due time | sync, lease, fire, drop, advance | one run for each instant; no tick left for ever |
| Circuit breaker and upstream health (`circuitbreaker.go`, `upstream/poller.go`) | `workflows.status` | evaluate, trip, resume, pause and resume by health | a streak is not missed |
| Trigger ingestion (`webhooks.go`, `ratelimit.go`, `circuitbreaker.go`) | `trigger_events`, the window of the storm guard | accept, admit, buffer, start, backfill | one run for each event, on the version it captured; one hit of the budget for each event |
| Subworkflows (`subworkflow.go`) | parent checkpoint, child run, its notification marker | start a child, notify the parent, reconcile | the parent resumes with its child's outcome, whatever crashes |
| Tool approvals (`toolapproval.go`) | `tool_approval_requests`, the waiting checkpoint | gate, decide, expire, spend, retire | one decision covers one execution of exactly one call, and is nobody's own |
| Replay campaigns (`campaign.go`) | campaign, items, counters | preview, create, cancel, lease, redrive, settle, complete | an item is replayed by its own redrive; counters are the items; no crash wedges a campaign |
| Retry policy, cron, limiter of the HTTP routes, auto-healing, retention, executors, AI, MCP, authoring, store, identity, platform, web | – | – | see section 7 and `PROJECT.json`, which lists each with the reason it is not modelled |

### How the parts interact

Inside a run everything meets in its rows. A transaction that writes more than one row of a run takes the run's advisory lock first (`inCompletionTx`), so transactions of one run are serial; the claim locks only the row it takes, and claims a row only while its run is running. Between transactions nothing is held: a worker executes for minutes on a claim it read, a reaper fails rows it listed earlier, a sweep holds deadlines another replica has handled. What protects a row is the compare-and-set of each statement, and it compares the row's *status*.

Between runs, the parts meet in three places. The `workflows` row is locked by every version write, rollout creation and deletion; its `status` column is shared by the breaker, the upstream poller and the operator, and read without a lock by everything that starts runs. Idempotency keys and event rows are claimed in the transaction that inserts a run, so a start happens once whoever attempts it. And a terminal flip of a run is followed, after its commit and in the memory of one worker, by the rollout outcome, the breaker evaluation and the parent's notification; for the first and the last a sweep repairs what the worker did not live to do.

### What is hard

* late commits: the row a worker claimed has been reaped, redriven and claimed again;
* joins: two predecessors complete concurrently; the scan, where a skip decides nodes visited before it;
* demotion: a failed run empties its queue, and a redrive must refill it;
* clocks and leases: one row has a retry clock, then a timer, then a deadline; a schedule lease, a campaign item or an approval runs out while its holder is alive;
* crashes between two transactions of one operation, and commits whose acknowledgement is lost;
* reads outside the transaction that uses them: the parent's status in the subworkflow handoff, the streak of the breaker, the owner's status in a delivery, the run that a candidate is validated against;
* authority that outlives what it was given for: approvals of a call, grants of a candidate, arms of a rollout;
* liveness that rests only on periodic sweeps.

`PROJECT.json` lists each as a hazard, at its line, with the properties that would catch it.

## 2. The modules

| Module | What it is |
|---|---|
| `Readiness` | Operators: when dependencies are satisfied or doomed, when conditions let a node run, and the scan's result in closed form |
| `DownstreamScan` | The loop of `scheduleDownstream` itself, visiting nodes in any order, checked against the closed form |
| `RunEngine` | One run with its workers, reaper, sweeps and operators. Extends `Readiness` |
| `RunContract` | What a run promises to those who read its status; `RunEngine` implements it |
| `RecoveryCase` | The cases of one run, their governance, and what they make of the run's posture |
| `Deployment` | One workflow as its entry points see it: row, versions, rollouts, runs |
| `Schedule`, `TriggerIngest`, `OutcomeGuards` | Three compositions with `Deployment`: the schedule sweep; deliveries with storm guard and backfill; rollout counting, circuit breaker and upstream poller |
| `Subworkflow` | A tree of runs and the terminal handoff from child to parent |
| `ToolApproval` | One gated tool step, its requests and its workers |
| `ReplayCampaign` | Campaigns over dead letters, their pumps, and everybody else who touches the letters |
| `RunEngineProofs` | Theorems about `RunEngine`, its `Readiness` operators and `DownstreamScan` |
| `RecoveryProofs`, `ScheduleProofs`, `IngestProofs`, `OutcomeProofs`, `SubworkflowProofs`, `ApprovalProofs`, `CampaignProofs` | Theorems about `RecoveryCase`, `Schedule`, `TriggerIngest`, `OutcomeGuards` with `Deployment`, `Subworkflow`, `ToolApproval`, `ReplayCampaign` |
| `MC...` | The small instances |

### `RunEngine`

State. `run`, `node`, `attempts` and `generation` are columns of `runs` and `run_nodes`. `wakeup` and `due` are the wake-up rows and whether their instant has passed. `escalated`, `chosen` and `recoveryClaim` are fields of a node's `state_json` and of its row. `cases`, `deadLetters` and `credited` are rows of their tables. `claim`, `stalled` and `listed` are what a worker, a reaper and a sweep hold in memory between two transactions. `holds` fixes, for the run, which conditions are true. `redrives` and `replays` only count against their bounds.

| Action | Code | Notes |
|---|---|---|
| `ClaimNode` | `claimBatch` | the run is running, the row queued, its clock passed |
| `CompleteNode` | `CompleteNode`, `CompleteRouterNode`, `completeNode`, `persistSemanticViolations` | includes the router's losers, the case, parking, the scan, the roll-up and the credit |
| `MarkNodeWaiting` | `MarkNodeWaiting` | the checkpoint and its clock |
| `RetryNode`, `FailNode` | `RetryOrFail`, `FailNode`, `failClaim` | the failure includes the on-error scan or the dead letter, the flip and the demotion |
| `SkipCommit` | `errSkipCommit` | the compare-and-set lost; nothing is written |
| `Acknowledged` | `persistOutcome` | each commit is acknowledged, or must be replayed |
| `Crash` | – | the process dies, or gives up on the database; the row stays |
| `ReaperScan`, `Reap` | `ReapStalledNodes`, `reapStalledCandidate` | two steps |
| `Clock`, `SweepDueWakeups`, `ListDueWakeup`, `TimerFires`, `ApprovalTimeout` | `sweepWakeups`, `processDueWaitingWakeups`, `processApprovalTimeout` | an entry may be processed more than once: several replicas sweep |
| `ResumeRun`, `CancelRun` | `resumeCore`, `ResumeRunAs`, `CancelRun` | executing rows are left to finish |
| `RedriveDeadLetter`, `RedriveRunNode` | `RedriveDeadLetterWithOptions`, `RedriveRunNode` | |
| `ResolveCase` | `ResolveSemanticOutcomeCase` | includes the scan of the resumed run |

Abstractions. An execution is its outcome. A retry policy is its number of attempts and, through the outcome `fatal`, the errors it excludes. A node has at most one semantic case at a time (`RecoveryCase` has several). An approval always has a deadline: without one it behaves like a form, and so does a webhook wait. A deadline is identified by the generation that armed it. Outputs, events, audit entries, metrics and notifications are left out. So are the redrive that swaps the stored workflow and the timer of a run whose stored workflow does not parse. The stalled threshold is not a clock: any running row may be read as stalled, which covers every slow worker. Assumptions on the constants: the graph is acyclic and no on-error edge carries a condition; the authoring validator rejects both.

### `RecoveryCase`

`case` is a row of `recovery_cases` with state and revision for each detector; `candidates`, `validations` and `publications` are its artifacts; `grants` the approvals in the order they were given; `check` what a validation request read before it records it; `run`, `outcome` and `output` are the run as far as cases see it. `CompleteNode` opens cases and may park the run; `EndRun` and `CancelRun` include `finalizeSemanticRecoveryMonitoring`; `DiagnoseRecoveryCase`, `CreateRecoveryCandidates`, `ValidateSemanticRecoveryCandidate` (the read), `ValidateRecoveryCaseCandidate` (the write), `ApproveRecoveryCandidate` and `ResolveSemanticOutcomeCase` are the engine operations of those names. `Fits` says against which outputs of the run a replacement passes every detector of its node, so that a validation can become wrong. `ReconsiderCandidates` is a transition the engine allows and only a test asks for; the constant `Reopening` switches it. The scan and roll-up that end the transaction of a resolution are `EndRun`, a step that may come later; that only adds behaviours. The state `abandoned` is in the code's table and nothing enters it, so it is left out. Diagnosis text, evidence and size limits are left out.

### `Deployment` and its compositions

`status` and `deleted` are the `workflows` row, `versions` the documents in order, `rollouts` and `runs` the rows. `AppendVersion`, `RollbackTo`, `Deactivate`, `Reactivate`, `CreateRollout`, `FinishRollout`, `SettleRun`, `ReviveRun` and `RecordOutcome` are one transaction each. `VersionFor` and `ArmFor` are `resolveRolloutAssignment`; the bucket hash is the set `CanaryKey`, fixed for each key, and every start or first delivery draws a key of its own. The success rate is compared exactly in integers; the code divides in `float64` (`rolloutoutcomes.go:93`, where 29 of 50 is 57.99...). Qualification receipts only remove steps and are left out.

* `Schedule` adds the entry, the clock and the replicas. A sweep is `Claim`, `ReadOwner`, `LookUp`, `LoadVersion`, `StartTick`, `Advance`, each its own transaction, and may give up anywhere. The replicas share one clock; the code compares with each process's `time.Now()`, and skew between them is not modelled. The code stores the lease in the column that held the due time and keeps the due time as the claimed instant; so does the model (`ClaimedRow`). Cron is the set `Instants`.
* `TriggerIngest` adds event rows, requests and one backfill. A delivery is `Deliver` (the owner's status is read here and used at the end), `LookUp`, `InsertEvent`, `Guard`, `Decide`. `LookUp` reads the event, the latest version and the rollout in one step; the arm it draws counts only if its insert wins. The storm guard counts in a window that may roll over before any hit; the code keeps a bucket for each version and node, the model one window. `FailOpen` is the limiter's database error. `Resume`, `ClaimBuffered`, `LoadLatest`, `BackfillOne` are the operator's resume and its page.
* `OutcomeGuards` adds the evaluations in flight (`evaluating`, `tripping`: the read and the compare-and-set are two steps), and `pausedBy`, a history variable with the source that paused the workflow. Runs fail in two ways: `NodeFails` is an execution that fails unhandled (`failNodeTx`, the worker's or the reaper's), the only one after which the breaker is evaluated; `RunEnds` is every other end of a run, failures by an approval deadline, an invalid timer, a failed child or a roll-up included, which the streak counts and nobody evaluates. `excused` records what takes the code's promise away: since the last execution failure an operator acted, a crash lost an evaluation, a worker looked during an upstream pause, or a run failed unevaluated when no worker was left to look. `StartRun` reads the rollout, the status and inserts the run in one step, and `EvaluateBreaker` reads status and streak in one; in the code they are separate statements (`runstart/start.go:113`, `142`, `201`; `circuitbreaker.go:40`, `67`). A deleted workflow has no status to stop a start, and its document runs ad hoc, as in the code. Replays and reruns neither count nor are evaluated, and are left out.

### `Subworkflow`

`runs` holds a tree of runs, each with a plain step and possibly a call; `calling` is what a worker executes, `notice` what a notifier has read. `StartChild` is `StartRun` with its parent checkpoint. The handoff is `ReadTerminalChild`, `ReadParent`, `SettleParent` and `ClearParentNotification`, as in `notifyParentOnTerminal`; when the compare-and-set missed, `RecheckNode`, `RecheckRun` and `RerunTail` are the reads and the transaction of the recheck. Only the two reads of the child (`subworkflow.go:303`, `329`) are one step, since the second refuses a child that changed. A notifier that dies takes no further step. `ResumeCall` is `ResumeRunAs` on a call that waits: it accepts any waiting node but a tool approval, overwrites the checkpoint and leaves the child to run.

### `ToolApproval`

`run` is the run's status, `step` and `awaiting` are the row of the tool step and its checkpoint, `requests` the table, `barred` the run's actors, `call` the call as it renders now (document and credential revision), `claim` what each worker is doing, `executed` the calls that reached the tool, `swept` whether a sweep has listed the step's wake-up. The gate (`GateAsks`, `GateWaits`, `GateSpends`) and the pause (`MarkNodeWaiting`) are separate transactions; `Decide` and `Expire` commit with the requeue or not at all. The sweep lists a due wake-up only in a running run (`ListDueWaitingWakeup`) and settles it later, whatever became of the run (`Expire`, `ExpireMisses`); one sweep at a time is in flight. The other steps of the run appear as far as they reach this one: they fail the run or park it (`OtherStops`), bring it back (`OtherRevives`) and let the step be scheduled again (`ScheduleStep`). The run never succeeds here, since its other steps may always go on.

### `ReplayCampaign`

`letter` is a dead letter with who claimed it and the state of its node; `campaign` and `item` are the rows with their counters and tokens; `pump` what a pump holds by the statement it executes next. `Interfere` is everybody else: an operator's redrive, a node redrive or rerun, resolution, purge.

## 3. What is checked

| Run | Instance | Properties |
|---|---|---|
| `scan` | all workflows of three nodes with at most one edge of each kind between two, all starting statuses, all visiting orders | `ScanIsOrderIndependent` |
| `branches` | two roots, an on-error route, a conditional join; two workers, a retry, crashes, one redrive | `DependenciesFirst`, `SucceededRunIsSettled`, `NoStrandedRun`, `ExecutionFailureIsRecoverable`, `OutcomesAreFinal`, `ImplementsContract` |
| `decisions` | a router that ranks two quarantining branches, which join in an observed node; one redrive, one lost acknowledgement | `RouterIsExclusive`, `QuarantineHoldsRun`, `QuarantineContainsOutcome`, `OneClaimPerGeneration`, `CreditIsEarned` |
| `liveness` | a task that leads, on a condition, to an escalating approval and, on error, to a retrying timer and a second approval; a worker that may crash, one redrive; fair | `WaitingRowHasItsClock`, `DeadlineIsItsOwn`, `RunSettles` |
| `recoverycase` | two nodes side by side, three detectors of which one observes; a replacement that fits until the other node completes; one person, one agent, two grants; one case may be sent back and validated again | `PublicationIsAuthorized`, `PostureIsEarned`, `ParkedRunHasACase` |
| `schedule` | two replicas, two instants within the clock, two versions with and without a schedule node, one rollout, one fault; fair | `OneRunPerInstant`, `EntryFollowsLatest`, `ClaimIsAnswered`, `TickSettles` |
| `triggers` | two events, two requests at once whose deliveries draw either arm, two versions, one rollout, a budget of one, a page of one, one fault | `OneRunPerEvent`, `BudgetSpentOnce`, `DeliveryKeepsCapture`, `ArmIsTruthful` |
| `outcomes` | two runs on either arm, three versions with two trigger contracts, two rollouts, a streak of two, a sample of two, one source, two redrives, late failures, polls, operator actions or crashes | `ActiveRolloutIsDeployable`, `NoActiveBreach`, `CountersAreEarned`, `NoUnnoticedStreak` |
| `subworkflow` | a parent, its child and the child of a redriven call; an operator who redrives, cancels or answers the call; two notifiers of which one may die anywhere; fair | `HandoffIsOwed`, `ChildIsAwaited`, `OutcomeIsTheChilds`, `HandoffCompletes` |
| `toolapproval` | two workers, the run's creator and a colleague, two attempts, three requests, two redrives, rotations, policy edits, reaps or stops of the run by other steps; fair | `EachCallIsApproved`, `NoSelfApproval`, `ApprovalSettles` |
| `campaign` | one campaign over two letters, two pumps, four leases, two faults; fair | `ReplayedItemIsItsOwn`, `CountersMatchItems`, `CampaignDrains` |

Bounds. Redrives, faults and edits are bounded by one or two: one produces every stale holder (worker, reaper candidate, deadline, notifier, lease) that a second would produce again, and the proofs carry no such bound. Two workers, replicas, pumps or requests give the one stale and one current holder the races need. In `schedule` and `triggers` two versions and one rollout are enough for a version to be superseded and for a rollout to end; `outcomes` has three versions, of either trigger contract, and two rollouts, so that a save competes with an active rollout and a second rollout can follow or be refused; its constraint `GuardBudget` lets versions, rollouts and events together reach six, one short of all three bounds at once. In `campaign` four leases let each item be reclaimed once; in `recoverycase` two grants let one be spent and one be superseded or left over, and the revision bound (6 for one quarantine, 5 for the other cases) lets a case reach `awaiting_approval`, be sent back, validated and approved again, with its first grant left over. Where interchangeable processes, events or keys are declared symmetric, no liveness property is checked. A system that has come to rest takes no further step, so deadlock is not checked; `NoStrandedRun`, `ParkedRunHasACase` and the liveness properties say instead what must not get stuck.

Fairness. In `RunEngine` each worker polls, and an executor runs under a timeout, so a claimable row is eventually claimed and a held claim is eventually committed or lost; the reaper and the sweeps run on tickers on every replica; clocks advance. In `Schedule` leases lapse, and each replica sweeps and continues a sweep it began; it may give up only as often as faults are bounded. In `Subworkflow` only the reconciler is fair, the other notifier may stop for ever. It takes the oldest marker first and sends it to the back, so an armed child that is passed over again and again is eventually read: strong fairness of that read, weak fairness of the rest. In `ToolApproval` only the clock and the sweep are fair. In `ReplayCampaign` clocks run and pumps finish their steps; a due campaign is taken in the order of the due clocks, hence strong fairness of taking it. Nothing is assumed of operators or approvers anywhere.

Where the liveness properties stop. `RunSettles` ends where a row waits for a person who was asked. `ApprovalSettles` is about a run that keeps running, because no sweep lists the wake-ups of another, and excludes steps a reaper gave up on, for the reason in section 4. `CampaignDrains` ends when the leases of the instance are used up.

Each property has a slip in `PROJECT.json`: a definition is replaced by a plausible mistake (a dropped guard, a missing reset, a stale read), and TLC finds the property violated. The slips are the operators defined just before what they replace: `openNotQueued`, `depsSatisfiedOne`, `depsDoomedNever` in `Readiness`; `VisitStale` in `DownstreamScan`; `StillRunningUnchecked`, `CreditCurrent`, `LosersKept`, `QuarantinedByMonitoring`, `SameGeneration`, `InsertFirstDeadLetter`, `ConsumedAll`, `AnyDeadline`, `EarlierDeadline`, `Uncancelled`, `UnblockedAlways` in `RunEngine`; `EvaluatesPolicy`, `VerdictUnread`, `ResumesReplaced` in `RecoveryCase`; `AppendVersionUnlocked`, `GuardedOnFailure`, `RecordOutcomeAgain` in `Deployment`; `ShouldTripLate` in `OutcomeGuards`; `StartKeyAttempt`, `DeactivateKeepsEntry`, `HoldsRow`, `ClaimableUnclaimed` in `Schedule`; `OwedUnlessSkipped`, `AdmittedInWindow`, `AdoptsNothing`, `BackfillLatest` in `TriggerIngest`; `FlippedSilently`, `AwaitsAnyChild`, `SettledCallLenient`, `ReadFinishedChild` in `Subworkflow`; `PassesUnread`, `RequestersCreator`, `ExpirableStale` in `ToolApproval`; `OutcomeFromLetter`, `HoldsItemAlways`, `OpenPending` in `ReplayCampaign`.

## 4. Where code and documents disagree

Each configuration below checks what a document, comment or test says, and TLC finds a behaviour of the code that contradicts it. The first is a run of `PROJECT.json`; the others are kept for whoever changes that code, and are run the same way.

| Configuration | The sentence | The code |
|---|---|---|
| `MCSubworkflow_stranded` | `subworkflow.go:12`: the notifier clears the marker "only after the exact parent checkpoint plus downstream readiness (or run rollup) settles" | the parent's status is read before the transaction; when the parent was failed then and a redrive of another step revived it since, the call is settled without a scan or a roll-up, and the parent stays running with nothing left to do |
| `MCRunEngine_stale_completion` | `engine-persistence.md:7`: "A claim must match its generation before completion can write output" | completion compares the status: a worker reaped while executing completes the generation a redrive published |
| `MCRunEngine_cancelled_overwritten` | `run-cancellation.md:8`: "Late completion, resume, timeout, or replay delivery cannot overwrite a cancelled generation" | a node finishing with a quarantined outcome takes its run out of `cancelled` |
| `MCRunEngine_failed_run_queue` | `queuehygiene_integration_test.go:52`: "a failed run must leave no queued rows" | a retry that commits after a sibling failed the run leaves one |
| `MCRunEngine_replayed_retry` | `persistretry.go:13`: replaying an outcome "after a transient database error is safe" | a replayed retry requeues a row another worker has claimed since |
| `MCRunEngine_redrive_cancelled` | `redrive.go:126`: "nothing to revive, and the claim must not burn" | a dead letter of a cancelled run is claimed by a redrive that revives no run |
| `MCRunEngine_credit_old_claim` | `redrive.go:145`: "an old claim can never credit a different execution" | a redrive by node keeps the stamp of an earlier redrive, and its success credits that dead letter |
| `MCSchedule_tombstone` | `schedule.go:9`: a tombstoned workflow must never fire | a deletion that commits between the sweep's read of the owner and its start does not stop the run |
| `MCTriggerIngest_stranded` | `circuitbreaker.go:217`: "repeated calls drain the next page" | an event whose backfill failed stays claimed, and no later call claims it again |
| `MCOutcomeGuards_upstream` | `upstream/poller.go:9`: a recovered source resumes "the workflows this source had paused" | it resumes what another source paused |
| `MCToolApproval_deadwait` | `toolapproval.go:289`: expiry settles a request nobody decided in time | a worker that was reaped between gate and pause parks the redriven step on a request the redrive retired; no decision and no expiry moves it |
| `MCReplayCampaign_untruthful` | `campaign.go:9`: an in-flight item "finishes truthfully" | when the pump dies or loses the answer after the redrive committed, the item is settled as failed although it was redriven |
| `MCRecoveryCase_contained` | `recovery.md:105`: observe-only findings "never claim that downstream work was contained" | a replacement that closes an observed case beside its own writes it a `detected -> contained` receipt |
| `MCRecoveryCase_deadend` | `semantic_integration_test.go:355` sends an awaiting case back with "Operator requested fresh validation" | the engine allows the transition but no HTTP or MCP route asks for it: a case whose validated replacement no longer fits stays in `awaiting_approval` |

`MCRunEngine_stranded_handler` is of another kind: it shows where `NoStrandedRun` stops being true, for a workflow with both a quarantine detector and an on-error route. The handler of a failed node is executing, the failed node is redriven and then cancelled with its run, the handler's retry puts it back in the queue, and a late quarantined commit takes the run out of `cancelled` (the third row above). When a sibling now fails the run, the handler is demoted to pending, and its only source is cancelled: neither failed, so the route does not open, nor finished, so it is not doomed. After a redrive of the sibling the run stays running with nothing to run. The theorem of section 5 has the hypothesis this takes away.

Further behaviours that are in the models without a configuration of their own:

* a failure in a cancelled run is dropped, so its row stays running and no reaper reads it; an approval deadline fails the run without a dead letter;
* the breaker is evaluated only after an execution failure: a streak that is completed by a run that failed through an approval deadline, an invalid timer, a failed child or a roll-up goes unnoticed until the next one;
* an operator who resumes a waiting subworkflow call completes it with an empty output; its child keeps running and nobody awaits it;
* a tool step that waits for an approval in a run that another step failed, or that a quarantine parked, is listed by no sweep: its request does not expire until the run is revived;
* a redrive of a handled failure leaves a queued row in a run that has succeeded, which no worker claims;
* the recheck of a late notifier of a failed child can fail again a parent that a redrive of another step revived between its read and its transaction;
* a streak that completes while the upstream poller holds the workflow paused is not evaluated again when it resumes;
* a notifier that read a child as failed fails the parent although the child was redriven in between, and the marker of a superseded child is retried every minute until its parent ends;
* `ClaimDeadLetterReplay` compares `replay_claimed_at`, not the status, so a resolved letter can be redriven;
* a campaign cancelled while a pump holds an item keeps that item in `processing` if the pump dies, and a pump that took the campaign before may still reclaim a stale item;
* the quarantine case of a cancelled run can never be resolved, because resolution needs a waiting run;
* a validation looks at the autonomy level of its own detector while application combines those of all open detectors of the node, so a validated replacement is refused until the stricter case is accepted as a loss;
* `CountRunSemanticCases` counts monitored cases, so an observed violation parks a run whose only quarantine is already replaced; acknowledging the observation resumes it;
* the posture of a run depends on the order of decisions: a loss accepted before a replacement shows as recovered, after it as accepted loss.

Consequences for the other properties: `SucceededRunIsSettled` is about steps: a run that becomes succeeded has no open row at all, and afterwards only an operator's redrive of a failed row may put one, queued, into it; `ChildIsAwaited` excepts a call that an operator answered; `NoUnnoticedStreak` excuses what is listed above; the contract is stated for runs without quarantine detectors; `OutcomeIsTheChilds` excepts children that were redriven; `ReplayedItemIsItsOwn` says nothing of failed items.

## 5. What is proved

The theorems hold for every set of nodes, edges, workers, events, documents, people, campaigns, letters, pumps and notifiers that satisfies the assumptions of the modules, and for any bounds. Each rests on an inductive invariant, named below, that is at least as strong as the property.

About `RunEngine`:

* `TypeCorrect`: `TypeOK` is inductive.
* `WorkIsOrdered`: `DependenciesFirst`. It is inductive with the types. A node becomes started only through the scan, and `ScanKeepsOrder` shows that the scan queues a node only when its predecessors are finished in the statuses it leaves behind, skips included. Every other step moves a row that has already started, or takes it back; `Moves` is the lifecycle of a row, and every action moves each row along it (`NextKeepsOrder`).
* `FinishedWorkIsFinal`: `OutcomesAreFinal`, from that lifecycle.
* `SuccessIsSettled`: the action property `SucceededRunIsSettled`, from the invariant that a succeeded run has no pending, executing or waiting row. A run becomes succeeded only in a roll-up that found nothing open.
* `QuarantineHolds`: `QuarantineHoldsRun` is inductive with the types: a quarantine is opened only by a step that parks the run, and the run resumes only when none is left.
* `QuarantineContains`: needs both of the above families. When the case is opened its node is running, hence unfinished, hence by the order of work nothing after it has started; while the case is open the run is held and no scan queues.
* `PublicationIsClaimedOnce`: `OneClaimPerGeneration` is not inductive. The strengthening `ClaimsAreCurrent` says that a claim is of its node's current generation or an earlier one, and that a row whose current generation is claimed is neither pending nor queued. `NextPublishes` shows that each step other than a claim publishes new generations only.
* `RunKeepsContract`: `Spec => ImplementsContract` when `Quarantining = {}`. Beside the types and the order of work it needs that such a run is never parked and that a cancelled row belongs to a cancelled run (`Unparked`), so that a roll-up to success finds every node finished or failed.
* `DecisionIsExclusive`: `RouterIsExclusive`. `RuledOut` says that only a succeeded node has chosen and that the candidates it ruled out are skipped or cancelled, which no step undoes. When a router commits it was running, so by the order of work no successor of it had started, and every pending one that lost is skipped in the same transaction.
* `WaitsAreClocked`: `WaitingRowHasItsClock`. `ClockInv` adds that only approvals have approval deadlines, in the table and in the hands of sweepers, so that a sweeper that re-arms a deadline late does not put it on a timer or a form.
* `DeadlinesAreTheirOwn`: the action property `DeadlineIsItsOwn`. `DeadlineInv` is about what sweepers hold: a listed deadline is of its row's current generation or an earlier one; while it is of the current one the row has not gone back to the queue, and if it still waits, its instant has passed or it is escalated. It rests on the same fact as the claims, that every queue entry is a new generation.
* `CreditIsDeserved` and `FailuresAreRecoverable`: `CreditIsEarned` and `ExecutionFailureIsRecoverable`. `CreditInv` says that the dead letter stamped on a row was replayed and that only a succeeded node has a case (a replacement earns credit too). The second property needs that a failure inserts the letter of the generation that is current when it commits, and that a redrive, which claims that letter, takes the row out of failed in the same step (`FailureStep`).
* `RunIsNeverStranded`: `NoStrandedRun`, when no node has a quarantine detector or no edge is an on-error route; with both it is false (section 4). The set of nodes the scan skips is closed under its own rule, because skipping more never makes a node less doomed or less satisfied (`SkipsAreMonotone`, `LeastSkipsAreClosed`). So a pending node that a scan leaves behind has a predecessor that is neither finished nor failed; in an acyclic graph the earliest such node has one that is not pending either, hence is live, unless it is cancelled (`ScanLeavesLive`). The strengthening `Awaitable` excludes that: no pending row waits on a cancelled one. A row becomes pending again only by demotion; its normal predecessors have finished by the order of work, and on an on-error edge `Unparked` excludes a cancelled row in a run that can still be failed.

About `DownstreamScan`:

* `ScanReachesClosedForm`: `ScanIsOrderIndependent`, the fact that lets `RunEngine` use the scan's result in one step. The closed form skips the least set of pending nodes closed under the skipping rule, and queues the pending nodes that are then ready. `ScanInv` says of every state of the loop, in every order of visits: it has changed no row but pending ones (`DecisionsOnly`, `QueuedRows`); what it skipped the closed form skips too, because a visit sees a working copy with fewer skips than the closed form and skipping more never un-dooms a node (`SkipsAreForced`); what it queued is ready for good, because a satisfied node is not doomed (`QueuedAreReady`, `SatisfiedIsNotDoomed`); and a node visited since the last change and left pending is neither doomed nor ready in the present copy (`VisitedAreStuck`). A pass without a change therefore ends in a closed set of skips, which contains the least one.

About `RecoveryCase`:

* `RecoveryCasesAreTyped`: its `TypeOK`.
* `ResolutionIsAuthorized`: `PublicationIsAuthorized`. `GrantInv` has `LiveGrantIsCurrent` (a grant that could be consumed is bound to the present revision of a case that awaits approval, and is the only one), that every grant was given by a person for a validation that passed two revisions before, that a consumed grant belongs to a case that is done and is the only one of it, and that a case is done exactly when it was published.
* `RecoveryIsEarned`, `ParkedRunIsDecidable`: `PostureIsEarned` and `ParkedRunHasACase` are inductive together once it is added that a node without an output has no case and that a monitored case has a replaced output (`PostureInv`).

About `Schedule`:

* `ScheduleIsTyped`, `InstantStartsOneRun`, `RowFollowsNewest`: `ScheduleTypeOK`, `OneRunPerInstant`, `EntryFollowsLatest`, from `ScheduleInv`. The key of a start is the row and the instant, so it excludes a second run only while the row stays the same; a save or a restore makes a new row, under which the same instant would have another key. `TicksAreOrdered` closes that gap: the instants held or started under an earlier row are before those of a later one, and before the present row's due time, because a new row begins after the present instant and a row is claimed only when its instant has passed. `HoldersAreSound` adds that a holder that is to advance after a start has its run; `RowIsSound` that a claimed row keeps the instant of its first claim; `KeyIsTick` that a run's key names its instant.
* `ClaimsAreAnswered`: the action property `ClaimIsAnswered`. `OnlyHoldersRelease` shows that a step that keeps the row and clears its claim is the advance of a holder of that very instant.
* `ScheduleIsNeverLost`: the other direction of `EntryFollowsLatest`, which no run checks: a live workflow whose newest version has a schedule node has a row. It is inductive with `ScheduleInv`.

These rest on the assumption `StandInsAreNoInstants`: the two values that stand for "leased" and "no time" in the row's columns are not instants of the schedule.

About `TriggerIngest`:

* `IngestIsTyped`, `EventStartsOnce`, `CaptureIsKept`, `ArmsTellTheTruth`, `AdmissionIsSpentOnce`: `IngestTypeOK`, `OneRunPerEvent`, `DeliveryKeepsCapture`, `ArmIsTruthful`, `BudgetSpentOnce`, from one invariant, `IngestInv`. A row captures its version and arm when it is inserted and keeps them; a delivery past the insert carries what the row captured; every arm in flight names an existing rollout and that arm's version; an event with a run is started, and nothing undoes that; only events that were inserted are admitted or skipped. `RolloutsKept` is what the deployment's steps guarantee: rollouts are added, and keep both their versions.

About `OutcomeGuards` and `Deployment`:

* `GuardsAreTyped`, `RolloutIsDeployable`, `BreachEndsRollout`, `OutcomesCountOnce`: `GuardTypeOK`, `ActiveRolloutIsDeployable`, `NoActiveBreach`, `CountersAreEarned`, inductive together with the existence of the rollouts that runs name (`DeployInv`). The bound on the counters in the types is itself a consequence of `CountersAreEarned`.
* `StreakIsNoticed`: `NoUnnoticedStreak`. What is inductive is more: once all have looked, the workflow is paused by the breaker and not merely degraded by the poller, whose recovery would make it active again (`StreakInv`). A failure that is not evaluated keeps this only while a worker that has yet to look will see it; otherwise it is excused. The streak looks at the newest runs that ended, a set defined by counting; `NewestOfMore` and `NewestOfLess` say how it changes when a run ends or revives, and rest on the least-number principle (`LeastOfSet`), which follows from the library's well-foundedness of the naturals.

About `Subworkflow`:

* `HandoffIsDurable`, `RunningChildIsAwaited`, `CallEndsAsItsChild`: `HandoffIsOwed`, `ChildIsAwaited`, `OutcomeIsTheChilds`, from `HandoffInv`. A call names a child that names it back (`RowsAreLinked`); what a notifier read of a child stays true of it unless the child is revived, and a notifier that settled the call, or found its checkpoint gone, will never find it waiting for that child again (`NoticesHold`). That is what makes it safe to clear the marker last. A call that an operator answered names no child any more, which is the exception of `ChildIsAwaited`, and what keeps a late notifier from settling it.
* `NestingStaysBounded`, `SubworkflowIsTyped`: no run is nested deeper than the limit, and `TypeOK`, which includes it. `Depth` is a recursive function, hence a choice: that there is a function to choose is part of the invariant (`DepthInv`), and that there is only one follows from the parents being older rows, by the least-number principle (`LevelsAreUnique`, `DepthIsLevel`). The limit is checked against links read when the child is started; `ExecutionKeepsLinks` and `HandoffKeepsLinks` show that no other step moves one, and `StartAddsLink` that a child is added only below the run that was measured.

About `ToolApproval`:

* `ApprovalsAreTyped`: its `TypeOK`.
* `CallsAreApproved`: `EachCallIsApproved`. A worker past the gate holds a spent approval of the very call it will make (`ClearanceIsBacked`), which no other worker holds and no execution has used (`ClearanceIsUnique`); a spent request never changes again.
* `ApproversAreOthers`: `NoSelfApproval`. An unspent request knows everybody who is barred now, and was decided by none of those it knows (`RequestKnowsBarred`): a redrive bars its actor and retires open requests in one transaction.

About `ReplayCampaign`:

* `CampaignTypes`: its `TypeOK` is inductive.
* `ReplayedItemsAreOwned`: `ReplayedItemIsItsOwn`. It is not inductive, because an item becomes replayed when a pump settles what an earlier transaction of it did, while crashes, other pumps and operators act in between. `SettlesItsOwn` says that a pump about to settle its item as replayed made the redrive itself; it survives because no step changes the owner of a claimed letter (`ClaimsAreKept`). `ReplayedBySettle` and `SettlesByRedrive` show that nothing else makes an item replayed, or a pump about to say so.
* `CountersAreItems`: `CountersMatchItems`. `CounterInv` adds that the total counts all items, that a running campaign has no cancelled item, and that a completed one has neither open nor cancelled items.

Only model-checked: the liveness properties `RunSettles`, `TickSettles`, `HandoffCompletes`, `ApprovalSettles` and `CampaignDrains`. Fairness and `ENABLED` are outside the prover. That a scan ends at all is not claimed anywhere: `ScanIsOrderIndependent` is about a scan that has ended.

## 6. Plan

Done: the readiness scan, the run engine and its contract, recovery cases, deployments with schedules, triggers and outcome guards, subworkflows, tool approvals, replay campaigns, and the theorems of section 5. Next, in this order:

1. `RecoveryCase` as a refinement of the cases of `RunEngine`; `Subworkflow` with `RunEngine` in place of its plain steps.
2. Auto-healing (`autohealing.go`), which drives the redrive operations by itself.

## 7. Not modelled

* Retry delays and cron arithmetic: `float64` and calendar computation of one expression; the models take their results (number of attempts, sequence of instants).
* The plain counter of the HTTP routes (`ratelimit.Enforce`): one statement.
* Auto-healing, playbooks, drills, replay lab, validation of fixes: they reach a run through starts and redrives that are modelled; auto-healing is in the plan.
* Retention, digests, alerts, heartbeats: they delete or report rows that have come to rest. A purge of a dead letter is part of `ReplayCampaign`.
* Executors and tools, the AI pipeline, the MCP adapters: external effects and protocol adapters behind or around the operations modelled.
* Expression grammar, templates, parsing and validation of workflow documents: pure evaluation. The engine model takes the truth of each condition as a choice fixed for the run, and what the validator ensures as assumptions.
* Identity, permissions, signatures and secrets: decided before an operation begins. The rules that are part of an operation (who may decide a tool approval, who may approve a recovery) are modelled.
* HTTP rendering, generated store code, migrations, configuration, telemetry, commands and the web application.

## 8. Running it

```
tlc -workers 2 -config MCRunEngine_branches.cfg MCRunEngine
tlc -workers 2 -config MCRecoveryCase.cfg MCRecoveryCase
tlc -workers 2 -config MCTriggerIngest.cfg MCTriggerIngest
tlapm RunEngineProofs.tla
```

A configuration belongs to the module its name begins with. Every passing run ends within four minutes on two workers, and every proof module within a few minutes from nothing.
