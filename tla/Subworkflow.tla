---------------------------- MODULE Subworkflow -----------------------------
(***************************************************************************)
(* A tree of runs joined by subworkflow nodes (engine/subworkflow.go).     *)
(*                                                                         *)
(* Every run has a plain step `side' and, if its workflow calls another,   *)
(* a subworkflow step `call'; neither depends on the other.  A child start *)
(* and its parent's checkpoint are one transaction.  A child's terminal    *)
(* flip arms a marker on the child; a notifier (the worker that flipped    *)
(* it, or the reconciler) then reads the child, reads the parent, settles  *)
(* the parent's call in a transaction of its own, and clears the marker    *)
(* last.                                                                   *)
(* Several may be at work on the same child, and one that dies simply      *)
(* takes no further step.                                                  *)
(*                                                                         *)
(* RunEngine models how a plain step is claimed and executed; here it ends *)
(* in one step.                                                            *)
(***************************************************************************)
EXTENDS Naturals, Sequences, FiniteSets

CONSTANTS
    Worker,         \* workers that execute call steps
    Notifier,       \* notifying workers and reconcilers
    Reconciler,     \* the notifier that is assumed to keep going
    MaxDepth,       \* subworkflow.maxDepth
    MaxRuns,        \* bound on runs
    MaxRedrives     \* bound on operator redrives

ASSUME SubworkflowBounds ==
    /\ MaxDepth \in Nat \ {0} /\ MaxRuns \in Nat \ {0} /\ MaxRedrives \in Nat
    /\ Reconciler \in Notifier

VARIABLES
    runs,       \* the rows, oldest first; the first is the root
    calling,    \* the run whose call step each worker executes, 0 for none
    notice,     \* what each notifier has read
    redrives

vars == <<runs, calling, notice, redrives>>

Terminal == {"succeeded", "failed", "cancelled"}

(* child: the run the call waits for or was settled by, 0 for none; armed:   *)
(* parent_notification_after is set; revived: an operator redrove the run.   *)
Run == [status : {"running"} \cup Terminal, parent : 0..MaxRuns,
        call : {"absent", "pending", "queued", "running", "waiting"} \cup Terminal,
        child : 0..MaxRuns,
        side : {"pending", "queued"} \cup Terminal,
        armed : BOOLEAN, revived : BOOLEAN]

Idle == [phase |-> "idle", child |-> 0, status |-> "none", parentRuns |-> FALSE]
Notice == [phase : {"child", "read", "missed", "exact", "inexact", "tail", "settled"},
           child : 1..MaxRuns, status : Terminal, parentRuns : BOOLEAN]

NewRun(parent, calls) ==
    [status |-> "running", parent |-> parent, call |-> IF calls THEN "queued" ELSE "absent",
     child |-> 0, side |-> "queued", armed |-> FALSE, revived |-> FALSE]

Init ==
    /\ runs = <<NewRun(0, TRUE)>>
    /\ calling = [w \in Worker |-> 0]
    /\ notice = [p \in Notifier |-> Idle]
    /\ redrives = 0

-----------------------------------------------------------------------------
(* Pieces of the transactions, as functions of a run's rows.                 *)

(* MarkRunTerminalFromRunning; a failed run's queued rows are demoted.       *)
Demoted(x) == IF x = "queued" THEN "pending" ELSE x
FlippedSilently(run, status) ==
    IF run.status # "running" THEN run
    ELSE [run EXCEPT !.status = status,
                     !.call = IF status = "failed" THEN Demoted(@) ELSE @,
                     !.side = IF status = "failed" THEN Demoted(@) ELSE @]
Flipped(run, status) ==
    IF run.status # "running" THEN run
    ELSE [run EXCEPT !.status = status, !.armed = @ \/ run.parent # 0,
                     !.call = IF status = "failed" THEN Demoted(@) ELSE @,
                     !.side = IF status = "failed" THEN Demoted(@) ELSE @]

(* scheduleDownstream: queue what is ready, else roll the run up.            *)
Requeued(x) == IF x = "pending" THEN "queued" ELSE x
Scheduled(run) ==
    IF run.status # "running" THEN run
    ELSE IF "pending" \in {run.call, run.side}
         THEN [run EXCEPT !.call = Requeued(@), !.side = Requeued(@)]
    ELSE IF "failed" \in {run.call, run.side} THEN Flipped(run, "failed")
    ELSE IF run.call \in {"absent", "succeeded", "cancelled"}
            /\ run.side \in {"succeeded", "cancelled"} THEN Flipped(run, "succeeded")
    ELSE run

(* failNodeTx: the step fails with an error of its own, and the run with it. *)
CallFailed(run) == Flipped([run EXCEPT !.call = "failed", !.child = 0], "failed")

-----------------------------------------------------------------------------
(* Execution. *)

SideEnds(r) ==
    /\ runs[r].status = "running" /\ runs[r].side = "queued"
    /\ \/ runs' = [runs EXCEPT ![r] = Scheduled([@ EXCEPT !.side = "succeeded"])]
       \/ runs' = [runs EXCEPT ![r] = Flipped([@ EXCEPT !.side = "failed"], "failed")]
    /\ UNCHANGED <<calling, notice, redrives>>

ClaimCall(w, r) ==
    /\ calling[w] = 0
    /\ runs[r].status = "running" /\ runs[r].call = "queued"
    /\ runs' = [runs EXCEPT ![r].call = "running"]
    /\ calling' = [calling EXCEPT ![w] = r]
    /\ UNCHANGED <<notice, redrives>>

(* computeSubworkflowDepth: parent links above the run.                      *)
Depth(r) ==
    LET up[i \in 0..Len(runs)] == IF i = 0 THEN 0 ELSE 1 + up[runs[i].parent]
    IN  up[r] - 1
DepthAllowed(r) == Depth(r) < MaxDepth

(* StartRun with its ParentCheckpoint: both rows, or neither when the        *)
(* parent's step is no longer running.                                       *)
StartChild(w, calls) ==
    LET r == calling[w] IN
    /\ r # 0 /\ DepthAllowed(r) /\ Len(runs) < MaxRuns
    /\ calling' = [calling EXCEPT ![w] = 0]
    /\ runs' = IF runs[r].call = "running"
               THEN Append([runs EXCEPT ![r].call = "waiting", ![r].child = Len(runs) + 1],
                           NewRun(r, calls))
               ELSE runs
    /\ UNCHANGED <<notice, redrives>>

(* The depth limit, an unknown workflow or a lost checkpoint: the worker     *)
(* fails the step, if it is still running.                                   *)
CallFails(w) ==
    LET r == calling[w] IN
    /\ r # 0
    /\ calling' = [calling EXCEPT ![w] = 0]
    /\ runs' = IF runs[r].call = "running" THEN [runs EXCEPT ![r] = CallFailed(@)] ELSE runs
    /\ UNCHANGED <<notice, redrives>>

(* The reaper fails a running step; its worker may still be alive.           *)
ReapCall(r) ==
    /\ runs[r].call = "running"
    /\ runs' = [runs EXCEPT ![r] = CallFailed(@)]
    /\ UNCHANGED <<calling, notice, redrives>>

-----------------------------------------------------------------------------
(* Operators. *)

Withdrawn(x) == IF x \in {"pending", "queued", "waiting"} THEN "cancelled" ELSE x
Cancelled(run) ==
    [run EXCEPT !.status = "cancelled", !.armed = @ \/ run.parent # 0,
                !.call = Withdrawn(@), !.side = Withdrawn(@)]
CancelRun(r) ==
    /\ runs[r].status = "running"
    /\ runs' = [runs EXCEPT ![r] = Cancelled(@)]
    /\ UNCHANGED <<calling, notice, redrives>>

(* RedriveDeadLetter, and RedriveRunNode, which needs no dead letter.        *)
Redriven(run, step) ==
    [run EXCEPT ![step] = "queued", !.revived = TRUE,
                !.status = IF @ = "failed" THEN "running" ELSE @]
Redrive(r, step) ==
    /\ redrives < MaxRedrives
    /\ runs[r][step] = "failed"
    /\ runs' = [runs EXCEPT ![r] = Redriven(@, step)]
    /\ redrives' = redrives + 1
    /\ UNCHANGED <<calling, notice>>

(* ResumeRunAs completes any waiting node but a tool approval, a call        *)
(* included and whatever the run's status: its checkpoint is overwritten     *)
(* with an empty output, and the child is not told.                          *)
Answered(run) == Scheduled([run EXCEPT !.call = "succeeded", !.child = 0])
ResumeCall(r) ==
    /\ runs[r].call = "waiting"
    /\ runs' = [runs EXCEPT ![r] = Answered(@)]
    /\ UNCHANGED <<calling, notice, redrives>>

-----------------------------------------------------------------------------
(* The terminal handoff.  A notifier holds no lock between its reads.        *)

(* DeliverParentNotifications, or a reconciler's lease, reads the child's    *)
(* terminal row; notifyParentOnTerminal then reads the parent's status.      *)
ReadFinishedChild(p, c) ==
    /\ notice[p] = Idle
    /\ runs[c].armed /\ runs[c].status \in {"succeeded", "failed"}
    /\ notice' = [notice EXCEPT ![p] =
         [phase |-> "child", child |-> c, status |-> runs[c].status, parentRuns |-> FALSE]]
    /\ UNCHANGED <<runs, calling, redrives>>

ReadTerminalChild(p, c) ==
    /\ notice[p] = Idle
    /\ runs[c].armed /\ runs[c].status \in Terminal
    /\ notice' = [notice EXCEPT ![p] =
         [phase |-> "child", child |-> c, status |-> runs[c].status, parentRuns |-> FALSE]]
    /\ UNCHANGED <<runs, calling, redrives>>

ReadParent(p) ==
    LET n == notice[p] IN
    /\ n.phase = "child"
    /\ notice' = [notice EXCEPT ![p].phase = "read",
         ![p].parentRuns = runs[runs[n.child].parent].status = "running"]
    /\ UNCHANGED <<runs, calling, redrives>>

(* MarkWaitingSubworkflowSucceeded and ...Failed: the exact checkpoint.      *)
AwaitsAnyChild(r, c) == runs[r].call = "waiting"
Awaits(r, c) == runs[r].call = "waiting" /\ runs[r].child = c

(* settleParentOnChildSuccess and ...Failure.  Downstream work follows only  *)
(* if the parent was running when it was read.                               *)
SettledCallLenient(parent, n) ==
    IF n.status # "failed" THEN Scheduled([parent EXCEPT !.call = "succeeded"])
    ELSE Flipped([parent EXCEPT !.call = "failed"], "failed")

SettledCall(parent, n) ==
    IF n.status = "succeeded"
    THEN LET done == [parent EXCEPT !.call = "succeeded"]
         IN  IF n.parentRuns THEN Scheduled(done) ELSE done
    ELSE LET failed == [parent EXCEPT !.call = "failed"]
         IN  IF n.parentRuns THEN Flipped(failed, "failed") ELSE failed

SettleParent(p) ==
    LET n == notice[p]  r == runs[n.child].parent IN
    /\ n.phase = "read"
    /\ IF Awaits(r, n.child)
       THEN /\ runs' = [runs EXCEPT ![r] = SettledCall(@, n)]
            /\ notice' = [notice EXCEPT ![p].phase = "settled", ![p].parentRuns = FALSE]
       ELSE /\ notice' = [notice EXCEPT ![p].phase = "missed", ![p].parentRuns = FALSE]
            /\ UNCHANGED runs
    /\ UNCHANGED <<calling, redrives>>

(* The compare-and-set missed: an exact settled checkpoint reruns the        *)
(* idempotent tail in a parent that runs, a terminal parent is owed nothing, *)
(* anything else stays armed.  The step, the run's status and the tail's     *)
(* transaction are three steps.                                              *)
RecheckNode(p) ==
    LET n == notice[p]  r == runs[n.child].parent
        exact == /\ runs[r].child = n.child
                 /\ runs[r].call = IF n.status = "succeeded" THEN "succeeded" ELSE "failed"
    IN
    /\ n.phase = "missed"
    /\ notice' = [notice EXCEPT ![p].phase = IF exact THEN "exact" ELSE "inexact"]
    /\ UNCHANGED <<runs, calling, redrives>>

RecheckRun(p) ==
    LET n == notice[p]  status == runs[runs[n.child].parent].status IN
    /\ n.phase \in {"exact", "inexact"}
    /\ notice' = [notice EXCEPT ![p] =
         IF n.phase = "exact"
         THEN [n EXCEPT !.phase = IF status = "running" THEN "tail" ELSE "settled"]
         ELSE IF status \in Terminal THEN [n EXCEPT !.phase = "settled"] ELSE Idle]
    /\ UNCHANGED <<runs, calling, redrives>>

RerunTail(p) ==
    LET n == notice[p]  r == runs[n.child].parent IN
    /\ n.phase = "tail"
    /\ runs' = [runs EXCEPT ![r] = IF n.status = "succeeded" THEN Scheduled(@)
                                   ELSE Flipped(@, "failed")]
    /\ notice' = [notice EXCEPT ![p].phase = "settled"]
    /\ UNCHANGED <<calling, redrives>>

(* ClearParentNotification compares the status it notified.                  *)
ClearParentNotification(p) ==
    LET n == notice[p] IN
    /\ n.phase = "settled"
    /\ runs' = IF runs[n.child].status = n.status
               THEN [runs EXCEPT ![n.child].armed = FALSE] ELSE runs
    /\ notice' = [notice EXCEPT ![p] = Idle]
    /\ UNCHANGED <<calling, redrives>>

-----------------------------------------------------------------------------
HandsOff(p) ==
    \/ ReadParent(p) \/ SettleParent(p)
    \/ RecheckNode(p) \/ RecheckRun(p) \/ RerunTail(p)
    \/ ClearParentNotification(p)

Next ==
    \/ \E r \in DOMAIN runs :
         \/ SideEnds(r) \/ ReapCall(r) \/ CancelRun(r) \/ ResumeCall(r)
         \/ \E step \in {"call", "side"} : Redrive(r, step)
         \/ \E w \in Worker : ClaimCall(w, r)
         \/ \E p \in Notifier : ReadTerminalChild(p, r)
    \/ \E w \in Worker : CallFails(w) \/ \E calls \in BOOLEAN : StartChild(w, calls)
    \/ \E p \in Notifier : HandsOff(p)

(* The reconciler sweeps every minute for as long as a marker is armed, the  *)
(* oldest marker first, and a lease sends the one it took to the back: no    *)
(* marker is passed over for ever.  No other notifier is assumed to finish   *)
(* what it began.                                                            *)
Notify(p) ==
    \/ \E c \in DOMAIN runs : ReadTerminalChild(p, c)
    \/ HandsOff(p)

Fairness ==
    /\ WF_vars(Notify(Reconciler))
    /\ \A c \in 2..MaxRuns : SF_vars(c \in DOMAIN runs /\ ReadTerminalChild(Reconciler, c))

Spec == Init /\ [][Next]_vars /\ Fairness

-----------------------------------------------------------------------------
(* Properties. *)

TypeOK ==
    /\ runs \in Seq(Run) /\ Len(runs) \in 1..MaxRuns
    /\ \A r \in DOMAIN runs : runs[r].parent < r /\ Depth(r) <= MaxDepth
    /\ calling \in [Worker -> 0..Len(runs)]
    /\ notice \in [Notifier -> Notice \cup {Idle}]
    /\ redrives \in 0..MaxRedrives

(* A parent that waits for a child which has ended is still owed its         *)
(* notification: no crash, duplicate notifier or redrive loses the marker    *)
(* (subworkflow.go: "Terminal handoff is durable").                          *)
HandoffIsOwed ==
    \A r \in DOMAIN runs :
        (runs[r].call = "waiting" /\ runs[runs[r].child].status \in Terminal)
            => runs[runs[r].child].armed

(* No child runs for nobody: unless an operator revived it, a running child  *)
(* is the one its parent's call waits for, or waited for when the parent was *)
(* cancelled - or an operator answered the call himself, which forgets the   *)
(* child (the atomic start contract, and ResumeRunAs).                       *)
CallOf(c, parent) ==
    \/ parent.child = c /\ parent.call \in {"waiting", "cancelled"}
    \/ parent.child = 0 /\ parent.call = "succeeded"
ChildIsAwaited ==
    \A c \in DOMAIN runs :
        (runs[c].parent # 0 /\ runs[c].status = "running" /\ ~runs[c].revived)
            => CallOf(c, runs[runs[c].parent])

(* A call that a handoff settled ended the way its own child did, however    *)
(* late a notifier of an earlier child arrives (the exact childRunId         *)
(* compare-and-set).                                                         *)
OutcomeIsTheChilds ==
    \A r \in DOMAIN runs : (runs[r].child # 0 /\ runs[r].call \in {"succeeded", "failed"}) =>
        LET child == runs[runs[r].child]
        IN  IF runs[r].call = "succeeded" THEN child.status = "succeeded"
            ELSE child.status \in {"failed", "cancelled"} \/ child.revived

(* Nothing in a running run waits on nobody: some step of it is queued or    *)
(* executing, its call waits for a child, or a notifier still has it in hand *)
(* (subworkflow.go: the notifier clears the marker only after "the exact     *)
(* parent checkpoint plus downstream readiness (or run rollup) settles").    *)
NoStrandedParent ==
    \A r \in DOMAIN runs : runs[r].status = "running" =>
        \/ runs[r].side = "queued"
        \/ runs[r].call \in {"queued", "running", "waiting"}
        \/ runs[r].child # 0 /\ runs[runs[r].child].armed

(* The end of a child reaches the parent that waits for it, wherever another *)
(* notifier died on the way, unless a redrive revives the child first.       *)
OwesHandoff(r) == /\ r \in DOMAIN runs /\ runs[r].call = "waiting"
                  /\ runs[runs[r].child].status \in Terminal
HandoffCompletes == \A r \in 1..(MaxRuns - 1) : OwesHandoff(r) ~> ~OwesHandoff(r)

=============================================================================
