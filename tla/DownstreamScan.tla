--------------------------- MODULE DownstreamScan ---------------------------
(***************************************************************************)
(* The readiness loop of scheduleDownstream (internal/engine/downstream.go)*)
(* as the code runs it: passes over the workflow's nodes, one decision at  *)
(* a time, each decision visible to the next, until a pass changes         *)
(* nothing.  A pass may visit the nodes in any order, so the model covers  *)
(* every declaration order a workflow document can have.                   *)
(*                                                                         *)
(* The loop runs inside one transaction under the run's completion lock:   *)
(* nothing interleaves with it.                                            *)
(***************************************************************************)
EXTENDS Readiness

CONSTANTS
    Workflows,      \* the edge sets to scan
    InitStatuses    \* the row statuses a scan may start from

ASSUME WorkflowsAssumption == Workflows \subseteq SUBSET EdgeSpace
ASSUME StatusesAssumption  == InitStatuses \subseteq [Node -> NodeStatus]

VARIABLES
    wf,         \* the workflow of the claim
    truths,     \* the conditional edges whose condition is true
    before,     \* the statuses the transaction read
    statuses,   \* the working copy the loop updates
    queued,     \* the nodes this scan queued
    changed,    \* whether the current pass decided a node
    visit,      \* nodes the current pass has still to visit
    done

scanVars == <<wf, truths, before, statuses, queued, changed, visit, done>>

ScanInit ==
    /\ wf \in Workflows
    /\ truths \in SUBSET {e \in wf : e.cond}
    /\ before \in InitStatuses
    /\ statuses = before
    /\ queued = {}
    /\ changed = FALSE
    /\ visit = Node
    /\ done = FALSE

\* One iteration of the inner loop for node n, decided on the statuses `read'.
VisitOn(n, read) ==
    LET doomed == depsDoomed(wf, n, read)
        ready  == doomed \/ depsSatisfied(wf, n, read)
        skip   == doomed \/ ~edgeAllowsRun(wf, n, truths)
    IN  /\ n \in visit
        /\ visit' = visit \ {n}
        /\ IF statuses[n] = "pending" /\ ready
             THEN /\ statuses' = [statuses EXCEPT ![n] =
                                    IF skip THEN "skipped" ELSE "queued"]
                  /\ queued' = IF skip THEN queued ELSE queued \cup {n}
                  /\ changed' = TRUE
             ELSE UNCHANGED <<statuses, queued, changed>>
        /\ UNCHANGED <<wf, truths, before, done>>

\* The loop reads what it has written; the slip reads what was there before.
VisitStale(n) == VisitOn(n, before)
Visit(n) == VisitOn(n, statuses)

\* The pass is over: another one if it changed something, or the scan ends.
EndPass ==
    /\ visit = {} /\ ~done
    /\ IF changed THEN visit' = Node /\ changed' = FALSE /\ done' = FALSE
                  ELSE done' = TRUE /\ UNCHANGED <<visit, changed>>
    /\ UNCHANGED <<wf, truths, before, statuses, queued>>

ScanNext == EndPass \/ \E n \in Node : Visit(n)

ScanSpec == ScanInit /\ [][ScanNext]_scanVars

-----------------------------------------------------------------------------
ScanTypeOK ==
    /\ wf \in Workflows
    /\ truths \subseteq wf
    /\ before \in InitStatuses
    /\ statuses \in [Node -> NodeStatus]
    /\ queued \subseteq Node
    /\ changed \in BOOLEAN /\ done \in BOOLEAN
    /\ visit \subseteq Node

(***************************************************************************)
(* Whatever order the nodes are declared in, the loop ends in the closed   *)
(* form Readiness defines: an in-scan skip enables further nodes           *)
(* "regardless of declaration order" (complete.go, scheduleDownstream).    *)
(***************************************************************************)
ScanIsOrderIndependent ==
    done => /\ statuses = Scanned(wf, before, truths)
            /\ queued = QueueSet(wf, before, truths)
=============================================================================
