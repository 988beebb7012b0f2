---------------------------- MODULE ToolApproval ----------------------------
(***************************************************************************)
(* One tool step that the organisation's policy puts behind a human        *)
(* approval (engine/toolapproval.go, the gate of engine/dispatch.go).      *)
(*                                                                         *)
(* The gate, a decision and an expiry are transactions under the run's     *)
(* completion lock.  What lies between them interleaves: a worker reads    *)
(* the policy, passes the gate, and only later parks the step or calls the *)
(* tool; a reaper may give up on it meanwhile; an operator redrives the    *)
(* step, with or without a corrected document; a credential is rotated;    *)
(* another step of the run fails or is quarantined, which stops the run    *)
(* around a step that waits.                                               *)
(***************************************************************************)
EXTENDS Naturals, Sequences, FiniteSets

CONSTANTS
    Worker,
    Actor,          \* people who may decide or redrive
    Creator,        \* the person who started the run
    MaxAttempts,    \* the step's retry policy
    MaxRequests,    \* bound on approval requests
    MaxEdits        \* bound on redrives, rotations, policy edits, reaps and
                    \* stops of the run by another step together

ASSUME ApprovalBounds ==
    /\ Creator \in Actor
    /\ MaxAttempts \in Nat \ {0} /\ MaxRequests \in Nat /\ MaxEdits \in Nat

VARIABLES
    run,        \* runs.status: "waiting" is parked by a quarantine
    step,       \* run_nodes.status of the tool step
    attempt,    \* run_nodes.attempts
    awaiting,   \* state_json.waiting.approvalId, 0 for none
    requests,   \* tool_approval_requests, oldest first
    barred,     \* the creator and the redrivers of the step (run_actors)
    call,       \* the call as it renders now: document and credential revision
    listed,     \* the policy names the tool
    claim,      \* what each worker is doing
    executed,   \* the calls that reached the tool
    swept,      \* a sweep has listed the step's due wake-up
    edits,
    reaped      \* a worker was given up on while it may still be alive

vars == <<run, step, attempt, awaiting, requests, barred, call, listed, claim, executed, swept,
          edits, reaped>>

Call == [doc : 0..MaxEdits, cred : 0..MaxEdits]
Decision == {"approved", "denied"}

(* overdue: expires_at has passed; stale: decided more than 30 minutes ago.  *)
Request == [call : Call, requesters : SUBSET Actor,
            status : {"pending", "expired"} \cup Decision, by : Actor \cup {"nobody"},
            spent : BOOLEAN, overdue : BOOLEAN, stale : BOOLEAN]

Idle == [phase |-> "idle", call |-> [doc |-> 0, cred |-> 0], request |-> 0, attempt |-> 0]

Init ==
    /\ run = "running" /\ step = "queued" /\ attempt = 1 /\ awaiting = 0
    /\ requests = <<>> /\ barred = {Creator}
    /\ call = [doc |-> 0, cred |-> 0] /\ listed = TRUE
    /\ claim = [w \in Worker |-> Idle]
    /\ executed = <<>> /\ swept = FALSE /\ edits = 0 /\ reaped = FALSE

Edit == edits < MaxEdits /\ edits' = edits + 1

-----------------------------------------------------------------------------
(* Statements. *)

(* GetLiveToolApproval: at most one request is unspent, by a unique index.   *)
Live == {a \in DOMAIN requests : ~requests[a].spent}

(* RetireToolApprovals: an undecided or unspent request is given up.         *)
Retired(rs) == [a \in DOMAIN rs |->
    IF rs[a].spent THEN rs[a]
    ELSE [rs[a] EXCEPT !.spent = TRUE, !.status = IF @ = "pending" THEN "expired" ELSE @]]

(* ListToolApprovalRequesters.                                               *)
RequestersCreator == {Creator}
Requesters == barred \cup UNION {requests[a].requesters : a \in DOMAIN requests}

NewRequest(c) ==
    [call |-> c, requesters |-> Requesters, status |-> "pending", by |-> "nobody",
     spent |-> FALSE, overdue |-> FALSE, stale |-> FALSE]

ExpirableStale(a) == requests[a].status = "pending" /\ ~requests[a].spent /\ requests[a].stale
Expirable(a) == requests[a].status = "pending" /\ ~requests[a].spent /\ requests[a].overdue

-----------------------------------------------------------------------------
(* The worker. *)

ClaimStep(w) ==
    /\ claim[w] = Idle /\ run = "running" /\ step = "queued"
    /\ step' = "running"
    /\ claim' = [claim EXCEPT ![w] =
         [phase |-> "claimed", call |-> call, request |-> 0, attempt |-> attempt]]
    /\ UNCHANGED <<run, swept, attempt, awaiting, requests, barred, call, listed, executed,
                   edits, reaped>>

(* The dispatcher: the policy lists the tool, or a request already raised    *)
(* still decides it; otherwise the call is free.                             *)
ReadPolicy(w) ==
    /\ claim[w].phase = "claimed"
    /\ claim' = [claim EXCEPT ![w].phase = IF listed \/ Live # {} THEN "gate" ELSE "free"]
    /\ UNCHANGED <<run, step, attempt, awaiting, requests, barred, call, listed, executed,
                   swept, edits, reaped>>

(* gateToolCall.  The document is the one the worker rendered, the credential *)
(* revision is read here.                                                    *)
Rendered(w) == [doc |-> claim[w].call.doc, cred |-> call.cred]

GateAsks(w) ==
    /\ claim[w].phase = "gate" /\ Live = {}
    /\ Len(requests) < MaxRequests
    /\ requests' = Append(requests, NewRequest(Rendered(w)))
    /\ claim' = [claim EXCEPT ![w].phase = "pause", ![w].request = Len(requests) + 1]
    /\ UNCHANGED <<run, swept, step, attempt, awaiting, barred, call, listed, executed, edits,
                   reaped>>

GateWaits(w, a) ==
    /\ claim[w].phase = "gate" /\ a \in Live
    /\ requests[a].status = "pending" /\ ~Expirable(a)
    /\ claim' = [claim EXCEPT ![w].phase = "pause", ![w].request = a]
    /\ UNCHANGED <<run, step, attempt, awaiting, requests, barred, call, listed, executed,
                   swept, edits, reaped>>

(* The decision is spent, whichever way it went; only a timely approval of   *)
(* this very call lets the worker through.                                   *)
PassesUnread(a, c) == requests[a].status = "approved" /\ ~requests[a].stale
Passes(a, c) == /\ requests[a].status = "approved" /\ ~requests[a].stale
                /\ requests[a].call = c

GateSpends(w, a) ==
    /\ claim[w].phase = "gate" /\ a \in Live
    /\ requests[a].status # "pending" \/ Expirable(a)
    /\ requests' = [requests EXCEPT ![a].spent = TRUE,
                      ![a].status = IF @ = "pending" THEN "expired" ELSE @]
    /\ claim' = [claim EXCEPT ![w] = [@ EXCEPT
         !.phase = IF Passes(a, Rendered(w)) THEN "cleared" ELSE "refused",
         !.call = Rendered(w), !.request = a]]
    /\ UNCHANGED <<run, swept, step, attempt, awaiting, barred, call, listed, executed, edits,
                   reaped>>

(* MarkNodeWaiting: the step is parked if it is still running, whoever runs  *)
(* it now.                                                                   *)
MarkNodeWaiting(w) ==
    /\ claim[w].phase = "pause"
    /\ IF step = "running" THEN step' = "waiting" /\ awaiting' = claim[w].request
       ELSE UNCHANGED <<step, awaiting>>
    /\ claim' = [claim EXCEPT ![w] = Idle]
    /\ UNCHANGED <<run, swept, attempt, requests, barred, call, listed, executed, edits,
                   reaped>>

(* The tool runs.  A credential rotated since the gate stops it: the         *)
(* integration finds another revision than the pinned one.                   *)
Execute(w) ==
    /\ claim[w].phase \in {"cleared", "free"}
    /\ claim[w].phase = "cleared" => claim[w].call.cred = call.cred
    /\ executed' = Append(executed, [request |-> claim[w].request, call |-> claim[w].call])
    /\ claim' = [claim EXCEPT ![w].phase = "called"]
    /\ UNCHANGED <<run, swept, step, attempt, awaiting, requests, barred, call, listed, edits,
                   reaped>>

CompleteNode(w) ==
    /\ claim[w].phase = "called"
    /\ step' = IF step = "running" THEN "succeeded" ELSE step
    /\ claim' = [claim EXCEPT ![w] = Idle]
    /\ UNCHANGED <<run, swept, attempt, awaiting, requests, barred, call, listed, executed,
                   edits, reaped>>

(* RetryOrFail, after a tool error or a rotated credential.  A refusal is    *)
(* never retried: the approver answered for one execution (shouldRetry).  A  *)
(* retry gives the request up, a failure leaves it for the redrive to.       *)
Erred(w) == claim[w].phase \in {"called", "cleared", "free", "claimed", "gate"}
RetryStep(w) ==
    /\ Erred(w) /\ claim[w].attempt < MaxAttempts
    /\ IF step = "running"
       THEN /\ step' = "queued" /\ attempt' = claim[w].attempt + 1
            /\ requests' = Retired(requests)
       ELSE UNCHANGED <<step, attempt, requests>>
    /\ claim' = [claim EXCEPT ![w] = Idle]
    /\ UNCHANGED <<run, swept, awaiting, barred, call, listed, executed, edits, reaped>>

(* failNodeTx: the step fails, and a running run with it unless an on-error  *)
(* route takes over; in a run that is parked or cancelled nothing is         *)
(* written.                                                                  *)
StepFails ==
    /\ step' = "failed"
    /\ \/ run = "running" /\ run' = "failed"
       \/ UNCHANGED run
Failable == run \in {"running", "failed"} /\ step = "running"

FailStep(w) ==
    /\ Erred(w) \/ claim[w].phase = "refused"
    /\ IF Failable THEN StepFails ELSE UNCHANGED <<run, step>>
    /\ claim' = [claim EXCEPT ![w] = Idle]
    /\ UNCHANGED <<attempt, awaiting, requests, barred, call, listed, executed, swept,
                   edits, reaped>>

-----------------------------------------------------------------------------
(* Approvers and the clock. *)

(* RequeueToolApprovalNode: the step waits on exactly this request.          *)
Requeues(a) == step = "waiting" /\ awaiting = a

(* DecideToolApproval: decision and requeue commit together or not at all.   *)
Decide(a, actor, decision) ==
    /\ actor \notin requests[a].requesters
    /\ requests[a].status = "pending" /\ ~requests[a].spent /\ ~requests[a].overdue
    /\ Requeues(a)
    /\ requests' = [requests EXCEPT ![a].status = decision, ![a].by = actor]
    /\ step' = "queued"
    /\ UNCHANGED <<run, swept, attempt, awaiting, barred, call, listed, claim, executed, edits,
                   reaped>>

(* The sweep of due wake-ups lists the step in a running run only, and       *)
(* expireToolApproval settles it later, whatever became of the run: expiry   *)
(* and requeue together, or nothing.  A second replica's sweep finds what    *)
(* the first left.                                                           *)
ListDueWaitingWakeup ==
    /\ ~swept /\ run = "running"
    /\ step = "waiting" /\ requests[awaiting].overdue
    /\ swept' = TRUE
    /\ UNCHANGED <<run, step, attempt, awaiting, requests, barred, call, listed, claim,
                   executed, edits, reaped>>

Expire(a) ==
    /\ swept /\ swept' = FALSE
    /\ a \in Live /\ Expirable(a)
    /\ Requeues(a)
    /\ requests' = [requests EXCEPT ![a].status = "expired"]
    /\ step' = "queued"
    /\ UNCHANGED <<run, attempt, awaiting, barred, call, listed, claim, executed, edits,
                   reaped>>

ExpireMisses ==
    /\ swept /\ swept' = FALSE
    /\ ~\E a \in Live : Expirable(a) /\ Requeues(a)
    /\ UNCHANGED <<run, step, attempt, awaiting, requests, barred, call, listed, claim,
                   executed, edits, reaped>>

DeadlinePasses(a) ==
    /\ ~requests[a].overdue /\ requests[a].status = "pending" /\ ~requests[a].spent
    /\ requests' = [requests EXCEPT ![a].overdue = TRUE]
    /\ UNCHANGED <<run, swept, step, attempt, awaiting, barred, call, listed, claim, executed,
                   edits, reaped>>

ApprovalAges(a) ==
    /\ ~requests[a].stale /\ requests[a].status = "approved" /\ ~requests[a].spent
    /\ requests' = [requests EXCEPT ![a].stale = TRUE]
    /\ UNCHANGED <<run, swept, step, attempt, awaiting, barred, call, listed, claim, executed,
                   edits, reaped>>

-----------------------------------------------------------------------------
(* Operators and faults. *)

(* RedriveRunNode and RedriveDeadLetter; fix: the redrive replaces the       *)
(* document.                                                                 *)
Redrive(actor, fix) ==
    /\ step = "failed"
    /\ Edit
    /\ step' = "queued" /\ attempt' = 1
    /\ run' = IF run = "failed" THEN "running" ELSE run
    /\ barred' = barred \cup {actor}
    /\ requests' = Retired(requests)
    /\ call' = IF fix THEN [call EXCEPT !.doc = @ + 1] ELSE call
    /\ UNCHANGED <<awaiting, listed, claim, executed, swept, reaped>>

RotateCredential ==
    /\ Edit
    /\ call' = [call EXCEPT !.cred = @ + 1]
    /\ UNCHANGED <<run, swept, step, attempt, awaiting, requests, barred, listed, claim,
                   executed, reaped>>

SetToolApprovalPolicy ==
    /\ Edit
    /\ listed' = ~listed
    /\ UNCHANGED <<run, swept, step, attempt, awaiting, requests, barred, call, claim,
                   executed, reaped>>

CancelRun ==
    /\ run \in {"running", "waiting"}
    /\ run' = "cancelled"
    /\ step' = IF step \in {"pending", "queued", "waiting"} THEN "cancelled" ELSE step
    /\ UNCHANGED <<attempt, awaiting, requests, barred, call, listed, claim, executed, swept,
                   edits, reaped>>

(* The reaper fails a running step although its worker may be alive.         *)
Reap ==
    /\ Failable
    /\ Edit
    /\ StepFails /\ reaped' = TRUE
    /\ UNCHANGED <<attempt, awaiting, requests, barred, call, listed, claim, executed, swept>>

-----------------------------------------------------------------------------
(* The run's other steps, as far as they reach this one. *)

(* Another step fails the run, which demotes a queued step, or a quarantine  *)
(* parks it; neither touches a step that waits.                              *)
OtherStops(status) ==
    /\ run = "running"
    /\ Edit
    /\ run' = status
    /\ step' = IF status = "failed" /\ step = "queued" THEN "pending" ELSE step
    /\ UNCHANGED <<attempt, awaiting, requests, barred, call, listed, claim, executed, swept,
                   reaped>>

(* A redrive of that step, or the resolution of the quarantine, brings the   *)
(* run back; scheduleDownstream then queues a pending step, at once or with  *)
(* a later commit.                                                           *)
OtherRevives ==
    /\ run \in {"failed", "waiting"}
    /\ run' = "running"
    /\ UNCHANGED <<step, attempt, awaiting, requests, barred, call, listed, claim, executed,
                   swept, edits, reaped>>

ScheduleStep ==
    /\ run = "running" /\ step = "pending"
    /\ step' = "queued" /\ attempt' = 1
    /\ UNCHANGED <<run, awaiting, requests, barred, call, listed, claim, executed, swept,
                   edits, reaped>>

-----------------------------------------------------------------------------
Next ==
    \/ \E w \in Worker :
         \/ ClaimStep(w) \/ ReadPolicy(w) \/ GateAsks(w) \/ MarkNodeWaiting(w)
         \/ Execute(w) \/ CompleteNode(w) \/ RetryStep(w) \/ FailStep(w)
         \/ \E a \in DOMAIN requests : GateWaits(w, a) \/ GateSpends(w, a)
    \/ \E a \in DOMAIN requests :
         \/ \E actor \in Actor, d \in Decision : Decide(a, actor, d)
         \/ Expire(a) \/ DeadlinePasses(a) \/ ApprovalAges(a)
    \/ ListDueWaitingWakeup \/ ExpireMisses
    \/ \E actor \in Actor, fix \in BOOLEAN : Redrive(actor, fix)
    \/ RotateCredential \/ SetToolApprovalPolicy \/ CancelRun \/ Reap
    \/ (\E status \in {"failed", "waiting"} : OtherStops(status))
    \/ OtherRevives \/ ScheduleStep

(* The clock runs and the sweep comes back.                                  *)
Spec == /\ Init /\ [][Next]_vars
        /\ WF_vars(ListDueWaitingWakeup) /\ WF_vars(ExpireMisses)
        /\ \A a \in 1..MaxRequests :
             /\ WF_vars(a \in DOMAIN requests /\ DeadlinePasses(a))
             /\ WF_vars(a \in DOMAIN requests /\ Expire(a))

-----------------------------------------------------------------------------
(* Properties. *)

TypeOK ==
    /\ run \in {"running", "waiting", "failed", "cancelled"} /\ swept \in BOOLEAN
    /\ step \in {"pending", "queued", "running", "waiting", "succeeded", "failed", "cancelled"}
    /\ attempt \in 1..MaxAttempts /\ awaiting \in 0..Len(requests)
    /\ requests \in Seq(Request) /\ Len(requests) <= MaxRequests
    /\ \A a, b \in DOMAIN requests : requests[a].spent \/ requests[b].spent \/ a = b
    /\ barred \subseteq Actor /\ call \in Call /\ listed \in BOOLEAN
    /\ \A w \in Worker : /\ claim[w].phase \in {"idle", "claimed", "gate", "pause", "cleared",
                                                "refused", "free", "called"}
                         /\ claim[w].call \in Call /\ claim[w].request \in 0..Len(requests)
                         /\ claim[w].attempt \in 0..MaxAttempts
    /\ \A i \in DOMAIN executed : /\ executed[i].call \in Call
                                  /\ executed[i].request \in 0..Len(requests)
    /\ edits \in 0..MaxEdits /\ reaped \in BOOLEAN

(* A gated call reaches the tool only on an approval of its own, of exactly  *)
(* the parameters and credential revision it runs with, and no approval is   *)
(* used twice: not by a retry, a redrive, or a reaped worker that is still   *)
(* alive ("one human decision per tool execution", toolapprovals.sql).       *)
EachCallIsApproved ==
    \A i \in DOMAIN executed : executed[i].request # 0 =>
        /\ requests[executed[i].request].status = "approved"
        /\ requests[executed[i].request].call = executed[i].call
        /\ \A j \in DOMAIN executed : executed[j].request = executed[i].request => i = j

(* Nobody approves a call they caused: not the creator of the run, nor       *)
(* whoever redrove the step before the request that was approved was spent.  *)
NoSelfApproval ==
    \A a \in DOMAIN requests : requests[a].by # "nobody" /\ ~requests[a].spent =>
        requests[a].by \notin barred

(* A parked step waits on an undecided request, so a decision or the clock   *)
(* can still move it (expireToolApproval: "settles a request nobody decided  *)
(* in time; the step then passes through the gate").                         *)
WaitsOnOpenRequest ==
    step = "waiting" => requests[awaiting].status = "pending" /\ ~requests[awaiting].spent

(* A parked step of a running run does not wait for ever: if nobody decides, *)
(* its request expires and the step goes back to the gate - unless the run   *)
(* stops first, whose wake-ups no sweep lists (ListDueWaitingWakeups), or a  *)
(* reaped worker parked the step.                                            *)
ApprovalSettles ==
    (step = "waiting" /\ run = "running" /\ ~reaped)
        ~> (step # "waiting" \/ run # "running" \/ reaped)

=============================================================================
