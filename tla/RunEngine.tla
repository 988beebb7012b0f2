----------------------------- MODULE RunEngine -----------------------------
(***************************************************************************)
(* One run of the durable execution engine (internal/engine).              *)
(*                                                                         *)
(* The state is the run's rows in PostgreSQL (the run, its node rows, the  *)
(* wake-up clocks, the dead letters, the semantic recovery cases) and what *)
(* the processes around it remember: the claim each worker executes and    *)
(* the candidates a reaper has read but not yet failed.                    *)
(*                                                                         *)
(* Every transaction that writes more than one row of a run holds the      *)
(* run's completion lock (inCompletionTx), so a transaction is one action. *)
(* What interleaves is what lies between two transactions: a worker reads  *)
(* its claim, executes for as long as it likes, and only then commits; a   *)
(* reaper scans and fails the candidates later; an operator cancels,       *)
(* resumes or redrives at any moment; a process dies; a commit succeeds    *)
(* while its acknowledgement is lost, and is replayed.                     *)
(***************************************************************************)
EXTENDS Readiness, Naturals, FiniteSets

CONSTANTS
    NoNode,         \* no node
    Worker,         \* worker goroutines, over all processes
    Edge,           \* the workflow's edges
    Kind,           \* node -> "task", "router", "timer", "approval", "form"
    Candidates,     \* router -> the nodes its decision ranks
    MaxAttempts,    \* node -> its retry policy's attempts
    Escalating,     \* approvals whose onTimeout policy is "escalate"
    Quarantining,   \* nodes with a semantic detector of action quarantine
    Observing,      \* nodes with a semantic detector of action observe
    Fallible,       \* nodes whose execution may return an error
    CanCrash,       \* whether a worker process may die mid-execution
    MaxRedrives,    \* bound: operator redrives
    MaxReplays      \* bound: commits replayed after a lost acknowledgement

ASSUME NodeAssumption == Node # {} /\ NoNode \notin Node

ASSUME EdgeAssumption ==
    /\ Edge \subseteq EdgeSpace
    /\ \A e \in Edge : ~(e.onError /\ e.cond)

\* The authoring validator rejects cycles: every nonempty set of nodes has a
\* member none of whose predecessors is in the set.
ASSUME AcyclicAssumption ==
    \A S \in SUBSET Node :
        S # {} => \E n \in S : \A e \in Edge : e.to = n => e.from \notin S

ASSUME KindAssumption ==
    /\ Kind \in [Node -> {"task", "router", "timer", "approval", "form"}]
    /\ Candidates \in [Node -> SUBSET Node]
    /\ MaxAttempts \in [Node -> Nat \ {0}]
    /\ Escalating \subseteq Node
    /\ Quarantining \subseteq Node
    /\ Observing \subseteq Node
    /\ Fallible \subseteq Node

ASSUME BoundAssumption ==
    CanCrash \in BOOLEAN /\ MaxRedrives \in Nat /\ MaxReplays \in Nat

VARIABLES
    run,            \* runs.status
    node,           \* run_nodes.status
    attempts,       \* run_nodes.attempts
    generation,     \* run_nodes.queue_publication_generation
    holds,          \* conditional edges whose condition is true in this run
    wakeup,         \* run_wakeups.reason per node row, "none" without a row
    due,            \* nodes whose wake-up instant has passed
    escalated,      \* approvals with waiting.timeoutState = "escalated"
    chosen,         \* the decision a router persisted
    cases,          \* the node's semantic recovery case
    deadLetters,    \* dead_letters rows
    recoveryClaim,  \* the dead letter a redrive stamped on the node row
    credited,       \* dead letters with a recovery impact event
    claim,          \* the claim each worker executes
    stalled,        \* candidates a reaper scan returned
    listed,         \* due wake-ups a sweep has read and not yet processed
    redrives,       \* operator redrives so far
    replays         \* commits replayed so far

runVars   == <<run, node, attempts, generation, wakeup, due, escalated, chosen, cases>>
dlqVars   == <<deadLetters, recoveryClaim, credited>>
countVars == <<redrives, replays>>
vars == <<runVars, holds, dlqVars, claim, stalled, listed, countVars>>

RunStatus == {"running", "waiting", "succeeded", "failed", "cancelled"}
TerminalRun == {"succeeded", "failed", "cancelled"}

Outcome == {"success", "waiting", "error", "fatal"}

IdleClaim == [phase |-> "idle", node |-> NoNode, attempt |-> 0,
              generation |-> 0, outcome |-> "none"]

Claim == [phase : {"executing", "replaying"}, node : Node, attempt : Nat,
          generation : Nat, outcome : Outcome \cup {"none"}]

\* A dead letter is identified by the failed node and the generation of the
\* queue entry that failed.
DeadLetterId == [node : Node, generation : Nat]
DeadLetter   == [id : DeadLetterId, replayed : BOOLEAN]

HumanKinds == {"approval", "form"}
WaitKinds  == {"timer", "approval", "form"}

Successors(n) == {e.to : e \in {f \in Edge : f.from = n}}

-----------------------------------------------------------------------------
(***************************************************************************)
(* StartRun: the run skeleton commits whole, roots queued with their first *)
(* attempt and generation 1, everything else pending.                      *)
(***************************************************************************)
Roots == {n \in Node : Incoming(Edge, n) = {}}

Init ==
    /\ run = "running"
    /\ node = [n \in Node |-> IF n \in Roots THEN "queued" ELSE "pending"]
    /\ attempts = [n \in Node |-> IF n \in Roots THEN 1 ELSE 0]
    /\ generation = [n \in Node |-> IF n \in Roots THEN 1 ELSE 0]
    /\ holds \in SUBSET {e \in Edge : e.cond}
    /\ wakeup = [n \in Node |-> "none"]
    /\ due = {}
    /\ escalated = {}
    /\ chosen = [n \in Node |-> NoNode]
    /\ cases = [n \in Node |-> "none"]
    /\ deadLetters = {}
    /\ recoveryClaim = [n \in Node |-> 0]
    /\ credited = {}
    /\ claim = [w \in Worker |-> IdleClaim]
    /\ stalled = {}
    /\ listed = {}
    /\ redrives = 0
    /\ replays = 0
-----------------------------------------------------------------------------
(***************************************************************************)
(* Pieces of the transactions.                                             *)
(***************************************************************************)
DeleteWakeup(n) ==
    /\ wakeup' = [wakeup EXCEPT ![n] = "none"]
    /\ due' = due \ {n}

UpsertWakeup(n, reason) ==
    /\ wakeup' = [wakeup EXCEPT ![n] = reason]
    /\ due' = due \ {n}

(***************************************************************************)
(* flipRunTerminal moves a running run to `status'.  A failed run sends    *)
(* its queued rows back to pending; a terminal run closes the recovery     *)
(* cases that were monitoring.  status = "running" is no flip.             *)
(***************************************************************************)
Demoted(st) == [n \in Node |-> IF st[n] = "queued" THEN "pending" ELSE st[n]]

Finalized(cs) == [n \in Node |-> IF cs[n] = "monitoring" THEN "closed" ELSE cs[n]]

FlipRunTerminal(status, st, att, cs) ==
    /\ run' = status
    /\ node' = IF status = "failed" THEN Demoted(st) ELSE st
    /\ attempts' = [n \in Node |->
                      IF status = "failed" /\ st[n] = "queued" THEN 0 ELSE att[n]]
    /\ cases' = IF status \in TerminalRun THEN Finalized(cs) ELSE cs

(***************************************************************************)
(* scheduleDownstream, on a transaction that reads run status r, node      *)
(* statuses st and cases cs: queue what became ready; when nothing did,    *)
(* roll the run up.                                                        *)
(***************************************************************************)
RolledUp(st) ==
    IF \E n \in Node : st[n] = "failed" /\ ~nodeFailureHandled(Edge, n) THEN "failed"
    ELSE IF \A n \in Node : st[n] \notin openNodeStatuses THEN "succeeded"
    ELSE "running"

ScheduleDownstream(r, st, cs) ==
    LET ready == QueueSet(Edge, st, holds)
        after == Scanned(Edge, st, holds)
    IN  IF r # "running"
          THEN /\ run' = r /\ node' = st /\ cases' = cs
               /\ UNCHANGED <<attempts, generation>>
          ELSE /\ FlipRunTerminal(
                    IF ready # {} THEN "running" ELSE RolledUp(after), after,
                    [n \in Node |-> IF n \in ready THEN 1 ELSE attempts[n]], cs)
               /\ generation' = [n \in Node |->
                    IF n \in ready THEN generation[n] + 1 ELSE generation[n]]

-----------------------------------------------------------------------------
(***************************************************************************)
(* The worker pool.                                                        *)
(***************************************************************************)
\* claimBatch: lock a claimable row, flip it to running.  The row lock is
\* held to the commit, and a cancellation or a demotion must update that row
\* before it commits, so the two statements are one step.
ClaimNode(w, n) ==
    /\ claim[w] = IdleClaim
    /\ run = "running"
    /\ node[n] = "queued"
    /\ wakeup[n] # "none" => n \in due
    /\ node' = [node EXCEPT ![n] = "running"]
    /\ claim' = [claim EXCEPT ![w] =
                   [phase |-> "executing", node |-> n, attempt |-> attempts[n],
                    generation |-> generation[n], outcome |-> "none"]]
    /\ UNCHANGED <<run, attempts, generation, wakeup, due, escalated, chosen,
                   cases, holds, dlqVars, stalled, listed, countVars>>

\* executeClaim has outcome o to commit: the executor just returned it, or an
\* earlier commit of it came back as a transient error.
Reports(w, o) ==
    \/ claim[w].phase = "executing"
    \/ claim[w].phase = "replaying" /\ claim[w].outcome = o

\* persistOutcome: the commit is acknowledged, or the connection is lost after
\* the server committed and the worker will replay the same outcome.
Replaying(cl, o) ==
    [phase |-> "replaying", node |-> cl.node, attempt |-> cl.attempt,
     generation |-> cl.generation, outcome |-> o]

Acknowledged(w, o) ==
    \/ /\ claim' = [claim EXCEPT ![w] = IdleClaim]
       /\ UNCHANGED replays
    \/ /\ replays < MaxReplays
       /\ replays' = replays + 1
       /\ claim' = [claim EXCEPT ![w] = Replaying(claim[w], o)]

\* The compare-and-set of every outcome: the row is still running.  Neither the
\* worker nor the generation is compared.
StillRunningUnchecked(n) == TRUE

StillRunning(n) == node[n] = "running"

\* What the completing node's detectors may find.
Violations(n) ==
    {"none"} \cup (IF n \in Quarantining THEN {"quarantine"} ELSE {})
             \cup (IF n \in Observing THEN {"observe"} ELSE {})

\* recordRecoveryImpact: the redrive stamped on the row earns its win.
CreditCurrent(n) ==
    credited' = IF recoveryClaim[n] = 0 THEN credited
                ELSE credited \cup {[node |-> n, generation |-> generation[n]]}

Credit(n) ==
    credited' = IF recoveryClaim[n] = 0 THEN credited
                ELSE credited \cup {[node |-> n, generation |-> recoveryClaim[n]]}

\* The ranked direct successors a router's decision rules out.
LosersKept(n, choice) == {}

Losers(n, choice) ==
    IF choice = NoNode THEN {}
    ELSE {m \in (Candidates[n] \cap Successors(n)) \ {choice} : node[m] = "pending"}

\* persistSemanticViolations: a new violation parks the run while any quarantine
\* case of the run, the new one included, is unfinished.
QuarantinedByMonitoring(violation, cs) ==
    violation # "none" /\ \E m \in Node : cs[m] = "monitoring"

Quarantined(violation, cs) ==
    violation # "none" /\ \E m \in Node : cs[m] \in {"quarantine", "monitoring"}

\* CompleteNode and CompleteRouterNode: the node's outcome, its case, the losing
\* branches of a router, and downstream work unless the run was parked.
CompleteNode(w, violation, choice) ==
    LET n  == claim[w].node
        cs == IF violation = "none" THEN cases ELSE [cases EXCEPT ![n] = violation]
        st == Skipping([node EXCEPT ![n] = "succeeded"], Losers(n, choice))
    IN  /\ Reports(w, "success")
        /\ Kind[n] \notin WaitKinds
        /\ violation \in Violations(n)
        /\ choice \in IF Kind[n] = "router" THEN Candidates[n] \cup {NoNode} ELSE {NoNode}
        /\ StillRunning(n)
        /\ IF Quarantined(violation, cs)
             THEN /\ run' = "waiting" /\ node' = st /\ cases' = cs
                  /\ UNCHANGED <<attempts, generation>>
             ELSE ScheduleDownstream(run, st, cs)
        /\ DeleteWakeup(n)
        /\ chosen' = [chosen EXCEPT ![n] = choice]
        /\ Credit(n)
        /\ Acknowledged(w, "success")
        /\ UNCHANGED <<escalated, holds, deadLetters, recoveryClaim, stalled,
                       listed, redrives>>

\* MarkNodeWaiting: the pause checkpoint, with its clock.
MarkNodeWaiting(w) ==
    LET n == claim[w].node
    IN  /\ Reports(w, "waiting")
        /\ Kind[n] \in WaitKinds
        /\ StillRunning(n)
        /\ node' = [node EXCEPT ![n] = "waiting"]
        /\ \/ Kind[n] = "timer"    /\ UpsertWakeup(n, "wait_until")
           \/ Kind[n] = "approval" /\ UpsertWakeup(n, "approval_timeout")
           \/ Kind[n] = "form"     /\ DeleteWakeup(n)
        /\ escalated' = escalated \ {n}
        /\ Acknowledged(w, "waiting")
        /\ UNCHANGED <<run, attempts, generation, chosen, cases, holds, dlqVars,
                       stalled, listed, redrives>>

\* Every publication of a row to the queue is a new generation.
SameGeneration(n) == generation

NextGeneration(n) == [generation EXCEPT ![n] = @ + 1]

\* The policy has no attempt left for this failure, or excludes it.
Exhausted(w, o) ==
    \/ o = "fatal"
    \/ o = "error" /\ claim[w].attempt >= MaxAttempts[claim[w].node]

\* RetryOrFail, the requeue: attempt + 1 behind a backoff clock.
RetryNode(w) ==
    LET n == claim[w].node
    IN  /\ Reports(w, "error")
        /\ n \in Fallible
        /\ ~Exhausted(w, "error")
        /\ StillRunning(n)
        /\ node' = [node EXCEPT ![n] = "queued"]
        /\ attempts' = [attempts EXCEPT ![n] = claim[w].attempt + 1]
        /\ generation' = NextGeneration(n)
        /\ UpsertWakeup(n, "retry")
        /\ Acknowledged(w, "error")
        /\ UNCHANGED <<run, escalated, chosen, cases, holds, dlqVars, stalled,
                       listed, redrives>>

\* insertDeadLetter.
InsertFirstDeadLetter(n) ==
    deadLetters' = IF run = "failed" THEN deadLetters ELSE deadLetters \cup
        {[id |-> [node |-> n, generation |-> generation[n]], replayed |-> FALSE]}

InsertDeadLetter(n) ==
    deadLetters' = deadLetters \cup
        {[id |-> [node |-> n, generation |-> generation[n]], replayed |-> FALSE]}

\* failNodeTx: a failure with an on-error route schedules it; any other one
\* dead-letters the node and fails a running run.
FailRunNode(n) ==
    LET failed == [node EXCEPT ![n] = "failed"]
    IN  /\ run \in {"running", "failed"}
        /\ StillRunning(n)
        /\ IF run = "running" /\ nodeFailureHandled(Edge, n)
             THEN /\ ScheduleDownstream(run, failed, cases)
                  /\ UNCHANGED deadLetters
             ELSE /\ InsertDeadLetter(n)
                  /\ IF run = "running"
                       THEN FlipRunTerminal("failed", failed, attempts, cases)
                       ELSE node' = failed /\ UNCHANGED <<run, attempts, cases>>
                  /\ UNCHANGED generation
        /\ DeleteWakeup(n)
        /\ UNCHANGED <<escalated, chosen, holds, recoveryClaim, credited>>

\* RetryOrFail and failClaim, the terminal failure.
FailNode(w, o) ==
    /\ Reports(w, o)
    /\ Exhausted(w, o)
    /\ claim[w].node \in Fallible
    /\ FailRunNode(claim[w].node)
    /\ Acknowledged(w, o)
    /\ UNCHANGED <<stalled, listed, redrives>>

\* errSkipCommit: the row is no longer running, or a failure arrives in a run
\* that is neither running nor failed.  Nothing is written.
SkipCommit(w, o) ==
    /\ claim[w].phase # "idle"
    /\ Reports(w, o)
    /\ \/ ~StillRunning(claim[w].node)
       \/ Exhausted(w, o) /\ run \notin {"running", "failed"}
    /\ o \in {"error", "fatal"} => claim[w].node \in Fallible
    /\ claim' = [claim EXCEPT ![w] = IdleClaim]
    /\ UNCHANGED <<runVars, holds, dlqVars, stalled, listed, countVars>>

\* The process dies, or a permanent database error ends persistOutcome: the
\* claim is gone and the row stays as it is.
Crash(w) ==
    /\ CanCrash
    /\ claim[w].phase # "idle"
    /\ claim' = [claim EXCEPT ![w] = IdleClaim]
    /\ UNCHANGED <<runVars, holds, dlqVars, stalled, listed, countVars>>

-----------------------------------------------------------------------------
(***************************************************************************)
(* The stalled-node reaper, on every replica: a scan reads the rows left   *)
(* running past the threshold, and each candidate is failed later, in a    *)
(* transaction of its own that compares nothing but the row's status.      *)
(***************************************************************************)

Reapable == run \in {"running", "failed"}

ReaperScan(n) ==
    /\ node[n] = "running"
    /\ Reapable
    /\ stalled' = stalled \cup {[node |-> n, generation |-> generation[n]]}
    /\ UNCHANGED <<runVars, holds, dlqVars, claim, listed, countVars>>

Reap(c) ==
    /\ stalled' = stalled \ {c}
    /\ IF run \in {"running", "failed"} /\ StillRunning(c.node)
         THEN FailRunNode(c.node)
         ELSE UNCHANGED <<runVars, holds, dlqVars>>
    /\ UNCHANGED <<claim, listed, countVars>>

-----------------------------------------------------------------------------
(***************************************************************************)
(* Wake-up clocks.                                                         *)
(***************************************************************************)
\* Time passes a wake-up instant.
Clock(n) ==
    /\ wakeup[n] # "none"
    /\ n \notin due
    /\ due' = due \cup {n}
    /\ UNCHANGED <<run, node, attempts, generation, wakeup, escalated, chosen,
                   cases, holds, dlqVars, claim, stalled, listed, countVars>>

\* SweepDueWakeups: consumed clocks of rows that do not wait.
ConsumedAll == due

Consumed == {n \in due : node[n] # "waiting"}

SweepDueWakeups ==
    /\ Consumed # {}
    /\ wakeup' = [n \in Node |-> IF n \in Consumed THEN "none" ELSE wakeup[n]]
    /\ due' = due \ Consumed
    /\ UNCHANGED <<run, node, attempts, generation, escalated, chosen, cases,
                   holds, dlqVars, claim, stalled, listed, countVars>>

\* ListDueWaitingWakeups: a sweeper reads a due clock.  The deadline it read is
\* the one the row's current generation armed.
ListDueWakeup(n) ==
    /\ run = "running"
    /\ node[n] = "waiting"
    /\ n \in due
    /\ wakeup[n] \in {"wait_until", "approval_timeout"}
    /\ listed' = listed \cup {[node |-> n, reason |-> wakeup[n],
                               deadline |-> generation[n]]}
    /\ UNCHANGED <<runVars, holds, dlqVars, claim, stalled, countVars>>

\* A sweeper is done with the entry it read; another replica's sweeper may
\* hold a copy of it.
Processed(l) == listed' = listed \ {l} \/ UNCHANGED listed

\* ResumeRunAs: the waiting row succeeds whatever the run's status is, and
\* downstream work is scheduled when the run is running.
ResumeNode(n) ==
    /\ node[n] = "waiting"
    /\ ScheduleDownstream(run, [node EXCEPT ![n] = "succeeded"], cases)
    /\ DeleteWakeup(n)
    /\ escalated' = escalated \ {n}
    /\ UNCHANGED <<chosen, holds, dlqVars, claim, stalled, countVars>>

\* An operator resumes a waiting node.
ResumeRun(n) == ResumeNode(n) /\ UNCHANGED listed

\* processDueWaitingWakeups, a timer: a due timer resumes like an operator would.
TimerFires(l) ==
    /\ l.reason = "wait_until"
    /\ \/ ResumeNode(l.node)
       \/ /\ node[l.node] # "waiting"
          /\ UNCHANGED <<runVars, holds, dlqVars, claim, stalled, countVars>>
    /\ Processed(l)

\* The delivery is for the deadline the row persists now.
AnyDeadline(l) == TRUE

EarlierDeadline(l) == l.deadline < generation[l.node]

CurrentDeadline(l) == l.deadline = generation[l.node]

\* processApprovalTimeout: escalate, or fail the node and the run.  A stale
\* delivery re-arms the current deadline; a handled one clears its clock.
ApprovalTimeout(l) ==
    LET n == l.node
    IN  /\ l.reason = "approval_timeout"
        /\ \/ /\ run # "running" \/ node[n] # "waiting"
              /\ UNCHANGED runVars
           \/ /\ run = "running" /\ node[n] = "waiting"
              /\ \/ /\ n \in escalated
                    /\ DeleteWakeup(n)
                    /\ UNCHANGED <<run, node, attempts, cases, escalated>>
                 \/ /\ n \notin escalated /\ ~CurrentDeadline(l)
                    /\ wakeup' = [wakeup EXCEPT ![n] = "approval_timeout"]
                    /\ UNCHANGED <<run, node, attempts, cases, escalated, due>>
                 \/ /\ n \notin escalated /\ CurrentDeadline(l) /\ n \in Escalating
                    /\ escalated' = escalated \cup {n}
                    /\ DeleteWakeup(n)
                    /\ UNCHANGED <<run, node, attempts, cases>>
                 \/ /\ n \notin escalated /\ CurrentDeadline(l) /\ n \notin Escalating
                    /\ FlipRunTerminal("failed", [node EXCEPT ![n] = "failed"], attempts, cases)
                    /\ DeleteWakeup(n)
                    /\ UNCHANGED escalated
              /\ UNCHANGED <<generation, chosen>>
        /\ Processed(l)
        /\ UNCHANGED <<holds, dlqVars, claim, stalled, countVars>>

-----------------------------------------------------------------------------
(***************************************************************************)
(* Operators.                                                              *)
(***************************************************************************)
\* CancelRun: an executing node is left to finish.
Uncancelled == run # "cancelled"

Cancellable == run \notin TerminalRun

CancelRun ==
    /\ Cancellable
    /\ run' = "cancelled"
    /\ node' = [n \in Node |-> IF node[n] \in {"pending", "queued", "waiting"}
                                 THEN "cancelled" ELSE node[n]]
    /\ cases' = Finalized(cases)
    /\ UNCHANGED <<attempts, generation, wakeup, due, escalated, chosen, holds,
                   dlqVars, claim, stalled, listed, countVars>>

\* ReviveFailedRun.

Revived == IF run = "failed" THEN "running" ELSE run

\* RedriveFailedRunNode and ReviveFailedRun: requeue the failed node with a
\* fresh attempt and generation; a failed run is running again, a run in any
\* other status stays as it is.
Revive(n) ==
    /\ redrives < MaxRedrives
    /\ redrives' = redrives + 1
    /\ node[n] = "failed"
    /\ node' = [node EXCEPT ![n] = "queued"]
    /\ attempts' = [attempts EXCEPT ![n] = 1]
    /\ generation' = NextGeneration(n)
    /\ run' = Revived
    /\ UNCHANGED <<wakeup, due, escalated, chosen, cases, holds, credited,
                   claim, stalled, listed, replays>>

\* RedriveDeadLetterWithOptions: claim the dead letter, revive its node, stamp
\* the row with the claim the next success will credit.
RedriveDeadLetter(d) ==
    /\ ~d.replayed
    /\ Revive(d.id.node)
    /\ deadLetters' = (deadLetters \ {d}) \cup {[id |-> d.id, replayed |-> TRUE]}
    /\ recoveryClaim' = [recoveryClaim EXCEPT ![d.id.node] = d.id.generation]

\* RedriveRunNode: the same revival by run and node id, without a dead letter.
RedriveRunNode(n) ==
    /\ Revive(n)
    /\ UNCHANGED <<deadLetters, recoveryClaim>>

\* ResolveSemanticOutcomeCase.  A quarantine is resolved while the run waits:
\* by a replacement output that is then monitored, or as an accepted loss.  An
\* observation is only acknowledged.  The run resumes with the last quarantine.
Resolution(n, decision) ==
    \/ cases[n] = "quarantine" /\ run = "waiting"
    \/ cases[n] = "observe" /\ decision = "accept_loss"

\* CountBlockingSemanticRecoveryCases: no quarantine is left to decide.
UnblockedAlways(cs) == TRUE

Unblocked(cs) == \A m \in Node : cs[m] # "quarantine"

ResolveCase(n, decision) ==
    LET cs == [cases EXCEPT ![n] =
                 IF decision = "replace" THEN "monitoring" ELSE "closed"]
        resumed == run = "waiting" /\ Unblocked(cs)
    IN  /\ decision \in {"replace", "accept_loss"}
        /\ Resolution(n, decision)
        /\ IF resumed
             THEN ScheduleDownstream("running", node, cs)
             ELSE cases' = cs /\ UNCHANGED <<run, node, attempts, generation>>
        /\ IF decision = "replace" THEN Credit(n) ELSE UNCHANGED credited
        /\ UNCHANGED <<wakeup, due, escalated, chosen, holds, deadLetters,
                       recoveryClaim, claim, stalled, listed, countVars>>

-----------------------------------------------------------------------------
\* A worker commits what it executed, or gives up.
Commit(w) ==
    \/ \E v \in {"none", "quarantine", "observe"}, c \in Node \cup {NoNode} :
          CompleteNode(w, v, c)
    \/ MarkNodeWaiting(w)
    \/ RetryNode(w)
    \/ \E o \in Outcome : FailNode(w, o) \/ SkipCommit(w, o)

Sweep ==
    \/ SweepDueWakeups
    \/ \E n \in Node : ListDueWakeup(n)
    \/ \E l \in listed : TimerFires(l) \/ ApprovalTimeout(l)

Operator ==
    \/ CancelRun
    \/ \E n \in Node : ResumeRun(n) \/ RedriveRunNode(n)
    \/ \E d \in deadLetters : RedriveDeadLetter(d)
    \/ \E n \in Node, decision \in {"replace", "accept_loss"} : ResolveCase(n, decision)

Next ==
    \/ \E w \in Worker : Commit(w) \/ Crash(w) \/ \E n \in Node : ClaimNode(w, n)
    \/ \E n \in Node : ReaperScan(n) \/ Clock(n)
    \/ \E c \in stalled : Reap(c)
    \/ Sweep
    \/ Operator

Spec == Init /\ [][Next]_vars

(***************************************************************************)
(* Scheduling: every worker polls for a claim and commits what it executed *)
(* (executors run under timeouts), each sweep and the reaper run           *)
(* periodically, and clocks advance.  Operators owe nothing.               *)
(***************************************************************************)
Fairness ==
    /\ \A n \in Node :
         /\ WF_vars(\E w \in Worker : ClaimNode(w, n))
         /\ WF_vars(ReaperScan(n))
         /\ WF_vars(\E c \in stalled : c.node = n /\ Reap(c))
         /\ WF_vars(Clock(n))
         /\ WF_vars(ListDueWakeup(n))
         /\ WF_vars(\E l \in listed : l.node = n /\ (TimerFires(l) \/ ApprovalTimeout(l)))
    /\ \A w \in Worker : WF_vars(Commit(w) \/ Crash(w))

FairSpec == Spec /\ Fairness

-----------------------------------------------------------------------------
(***************************************************************************)
(* Safety.                                                                 *)
(***************************************************************************)
TypeOK ==
    /\ run \in RunStatus
    /\ node \in [Node -> NodeStatus]
    /\ attempts \in [Node -> Nat]
    /\ generation \in [Node -> Nat]
    /\ holds \subseteq Edge
    /\ wakeup \in [Node -> {"none", "retry", "wait_until", "approval_timeout"}]
    /\ due \subseteq Node
    /\ escalated \subseteq Node
    /\ chosen \in [Node -> Node \cup {NoNode}]
    /\ cases \in [Node -> {"none", "quarantine", "observe", "monitoring", "closed"}]
    /\ deadLetters \subseteq DeadLetter
    /\ recoveryClaim \in [Node -> Nat]
    /\ credited \subseteq DeadLetterId
    /\ claim \in [Worker -> Claim \cup {IdleClaim}]
    /\ stalled \subseteq DeadLetterId
    /\ listed \subseteq [node : Node, reason : {"wait_until", "approval_timeout"},
                         deadline : Nat]
    /\ redrives \in Nat
    /\ replays \in Nat

Started == {"queued", "running", "waiting", "succeeded", "failed"}
Live    == {"queued", "running", "waiting"}

(***************************************************************************)
(* A node is queued only after every normal predecessor finished, and that *)
(* stays true through retries, demotion by a failing sibling, redrives and *)
(* late commits of several workers.                                        *)
(***************************************************************************)
DependenciesFirst ==
    \A e \in Edge :
        ~e.onError /\ node[e.to] \in Started => node[e.from] \in Fulfilled

(***************************************************************************)
(* A running run always has a node that some actor will move: the scan     *)
(* never leaves only pending nodes behind (scheduleDownstream rolls up     *)
(* what it does not queue; a redrive requeues what it revives).            *)
(***************************************************************************)
NoStrandedRun == run = "running" => \E n \in Node : node[n] \in Live

(***************************************************************************)
(* One queue publication is executed by one worker: two claims of a node   *)
(* are of different generations, whatever was retried, reaped or redriven. *)
(***************************************************************************)
OneClaimPerGeneration ==
    \A v, w \in Worker :
        /\ v # w
        /\ claim[v].phase # "idle" /\ claim[w].phase # "idle"
        /\ claim[v].node = claim[w].node
        => claim[v].generation # claim[w].generation

(***************************************************************************)
(* An execution failure the workflow does not handle can be redriven: its  *)
(* dead letter, for exactly the generation that failed, is unclaimed.      *)
(* (An approval deadline fails its node without a dead letter.)            *)
(***************************************************************************)
ExecutionFailureIsRecoverable ==
    \A n \in Node :
        Kind[n] # "approval" /\ node[n] = "failed" /\ ~nodeFailureHandled(Edge, n) =>
            [id |-> [node |-> n, generation |-> generation[n]], replayed |-> FALSE]
                \in deadLetters

(***************************************************************************)
(* A router's decision is exclusive: once it has chosen, no other ranked   *)
(* direct successor is ever started, whoever scans the run afterwards.     *)
(***************************************************************************)
RouterIsExclusive ==
    \A e \in Edge :
        LET r == e.from
        IN  /\ ~e.onError
            /\ node[r] = "succeeded" /\ chosen[r] # NoNode
            /\ e.to \in Candidates[r] \ {chosen[r]}
            => node[e.to] \notin Started

(***************************************************************************)
(* A waiting row holds exactly the clock of its own kind of wait: a retry  *)
(* clock never resumes a human wait, and no sweep loses a timer.           *)
(***************************************************************************)
WaitingRowHasItsClock ==
    \A n \in Node : node[n] = "waiting" =>
        wakeup[n] = IF Kind[n] = "timer" THEN "wait_until"
                    ELSE IF Kind[n] = "approval" /\ n \notin escalated
                    THEN "approval_timeout" ELSE "none"

(***************************************************************************)
(* An unresolved quarantine holds its run: no transaction resumes the run, *)
(* or finishes it, past an open quarantine case.                           *)
(***************************************************************************)
QuarantineHoldsRun ==
    (\E n \in Node : cases[n] = "quarantine") => run \in {"waiting", "cancelled"}

(***************************************************************************)
(* Nothing downstream of a quarantined outcome starts.                     *)
(***************************************************************************)
QuarantineContainsOutcome ==
    \A e \in Edge :
        cases[e.from] = "quarantine" /\ ~e.onError => node[e.to] \notin Started

(***************************************************************************)
(* Recovery credit is earned: the credited dead letter was replayed, and   *)
(* its node has succeeded.                                                 *)
(***************************************************************************)
CreditIsEarned ==
    \A c \in credited :
        /\ node[c.node] = "succeeded"
        /\ [id |-> c, replayed |-> TRUE] \in deadLetters

-----------------------------------------------------------------------------
(***************************************************************************)
(* What a step may never do.                                               *)
(***************************************************************************)
\* Finished work is never undone or redone.
OutcomesAreFinal ==
    [][\A n \in Node : node[n] \in Fulfilled => node'[n] = node[n]]_vars

\* A run reports success only when no row of it is open, queued rows included:
\* the roll-up of one transaction never overlooks what another left to do.
\* Afterwards no commit, sweep, reaper or cancellation opens or starts a row;
\* only an operator's redrive of a failed row does, and that row stays queued.
SucceededRunIsSettled ==
    [][run' = "succeeded" =>
         \A n \in Node : node'[n] \in Live \cup {"pending"} =>
            /\ run = "succeeded"
            /\ node'[n] = "queued"
            /\ node[n] = "queued" \/ (node[n] = "failed" /\ redrives' > redrives)]_vars

\* An approval expires only when its own, current deadline has passed: a stale
\* delivery of an earlier deadline never applies to a revived approval.
DeadlineIsItsOwn ==
    [][\A n \in Node :
          node[n] = "waiting" /\ node'[n] = "failed" => n \in due]_vars

\* The run implements its contract.
Contract == INSTANCE RunContract WITH
    status <- run,
    done   <- {n \in Node : node[n] \in Fulfilled},
    failed <- {n \in Node : node[n] = "failed"}

ImplementsContract == Contract!Spec

-----------------------------------------------------------------------------
(***************************************************************************)
(* Liveness.                                                               *)
(***************************************************************************)
\* Every running run ends, or is held by an operator or by a person who has
\* been asked.
RunSettles ==
    run = "running" ~>
        \/ run # "running"
        \/ \E n \in Node : node[n] = "waiting" /\ wakeup[n] = "none"

-----------------------------------------------------------------------------
(***************************************************************************)
(* What the repository's documents and comments say, and the code does not *)
(* do; each is refuted by a run.                                           *)
(***************************************************************************)
\* "A claim must match its generation before completion can write output"
\* (docs/architecture/engine-persistence.md).
CompletionMatchesGeneration ==
    [][\A w \in Worker :
          LET n == claim[w].node
          IN  /\ claim[w].phase # "idle" /\ claim'[w] = IdleClaim
              /\ node[n] = "running" /\ node'[n] = "succeeded"
              => claim[w].generation = generation[n]]_vars

\* "Late completion, resume, timeout, or replay delivery cannot overwrite a
\* cancelled generation" (docs/architecture/run-cancellation.md).
CancellationIsFinal == [][run = "cancelled" => run' = "cancelled"]_vars

\* "a failed run must leave no queued rows" (queuehygiene_integration_test.go).
FailedRunHasNoQueuedRows ==
    run = "failed" => \A n \in Node : node[n] # "queued"

\* "replaying it after a transient database error is safe" (persistretry.go):
\* a replayed commit of an outcome that was applied changes no row.
ReplayIsHarmless ==
    [][\A w \in Worker :
          claim[w].phase = "replaying" /\ claim'[w] # claim[w] => node' = node]_vars

\* "(an earlier redrive, a cancel): nothing to revive, and the claim must not
\* burn" (redrive.go): a dead letter is claimed only by a redrive that leaves
\* its run running.
RedriveRevivesRun ==
    [][\A d \in deadLetters :
          ~d.replayed /\ d \notin deadLetters' => run' = "running"]_vars

\* "an old claim can never credit a different execution" (redrive.go): the
\* credited dead letter is the last one its node left.
CreditGoesToItsExecution ==
    \A c \in credited, d \in deadLetters :
        d.id.node = c.node => d.id.generation <= c.generation

=============================================================================
