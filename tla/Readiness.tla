----------------------------- MODULE Readiness -----------------------------
(***************************************************************************)
(* DAG readiness (internal/engine/readiness.go and the condition gate of   *)
(* downstream.go), and what the readiness scan of scheduleDownstream       *)
(* computes, in closed form.                                               *)
(*                                                                         *)
(* A workflow is its set of edges wf.  An edge goes `from' one node `to'   *)
(* another; it is an on-error edge or a normal one, and it may carry a     *)
(* condition.  `holds' is the set of edges whose condition evaluates to    *)
(* true in the run context.  `statuses' maps each node to its row status.  *)
(*                                                                         *)
(* Definitions named ...One, ...Never and openNotQueued are the slips the  *)
(* README's table of mutants refers to; no specification uses them.        *)
(***************************************************************************)
CONSTANT Node

EdgeSpace == [from : Node, to : Node, onError : BOOLEAN, cond : BOOLEAN]

NodeStatus == {"pending", "queued", "running", "waiting",
               "succeeded", "failed", "skipped", "cancelled"}

\* The statuses a run still schedules work for.
openNotQueued == {"pending", "running", "waiting"}

openNodeStatuses == {"pending", "queued", "running", "waiting"}

\* A skipped predecessor satisfies a normal edge like a succeeded one.
Fulfilled == {"succeeded", "skipped"}

Incoming(wf, n) == {e \in wf : e.to = n}

depsSatisfiedOne(wf, n, statuses) ==
    Incoming(wf, n) # {} => \E e \in Incoming(wf, n) :
        IF e.onError THEN statuses[e.from] = "failed"
                     ELSE statuses[e.from] \in Fulfilled

depsSatisfied(wf, n, statuses) ==
    \A e \in Incoming(wf, n) :
        IF e.onError THEN statuses[e.from] = "failed"
                     ELSE statuses[e.from] \in Fulfilled

depsDoomedNever(wf, n, statuses) == FALSE

depsDoomed(wf, n, statuses) ==
    \E e \in Incoming(wf, n) :
        IF e.onError THEN statuses[e.from] \in Fulfilled
                     ELSE statuses[e.from] = "failed"

nodeFailureHandled(wf, n) == \E e \in wf : e.onError /\ e.from = n

edgeAllowsRun(wf, n, holds) ==
    \/ Incoming(wf, n) = {}
    \/ \E e \in Incoming(wf, n) : e.cond => e \in holds

(***************************************************************************)
(* The scan repeats over the nodes until nothing changes.  A pending node  *)
(* that is doomed, or satisfied behind false conditions only, is skipped,  *)
(* which may decide further nodes.  The nodes skipped are the least set of *)
(* pending nodes closed under that rule; the nodes queued are the pending  *)
(* ones left whose dependencies are then satisfied.                        *)
(***************************************************************************)
Pending(statuses) == {n \in Node : statuses[n] = "pending"}

Skipping(statuses, S) ==
    [n \in Node |-> IF n \in S THEN "skipped" ELSE statuses[n]]

MustSkip(wf, n, statuses, holds) ==
    \/ depsDoomed(wf, n, statuses)
    \/ depsSatisfied(wf, n, statuses) /\ ~edgeAllowsRun(wf, n, holds)

SkipClosed(wf, S, statuses, holds) ==
    \A n \in Pending(statuses) :
        MustSkip(wf, n, Skipping(statuses, S), holds) => n \in S

SkipSet(wf, statuses, holds) ==
    {n \in Pending(statuses) :
        \A S \in SUBSET Pending(statuses) :
            SkipClosed(wf, S, statuses, holds) => n \in S}

QueueSet(wf, statuses, holds) ==
    LET skips == SkipSet(wf, statuses, holds)
    IN  {n \in Pending(statuses) \ skips :
            depsSatisfied(wf, n, Skipping(statuses, skips))}

\* The statuses the scan leaves behind.
Scanned(wf, statuses, holds) ==
    LET skips  == SkipSet(wf, statuses, holds)
        queues == QueueSet(wf, statuses, holds)
    IN  [n \in Node |-> IF n \in skips THEN "skipped"
                        ELSE IF n \in queues THEN "queued" ELSE statuses[n]]

=============================================================================
