--------------------------- MODULE ApprovalProofs ---------------------------
(***************************************************************************)
(* One human decision per tool execution, and nobody decides on their own  *)
(* call: for every number of workers, people, retries, redrives, rotations *)
(* and reaps.                                                              *)
(***************************************************************************)
EXTENDS ToolApproval, TLAPS

-----------------------------------------------------------------------------
(* Types. *)

Phase == {"idle", "claimed", "gate", "pause", "cleared", "refused", "free", "called"}
ClaimRecord == [phase : Phase, call : Call, request : Nat, attempt : 0..MaxAttempts]
Executed == [request : Nat, call : Call]
StepStatus == {"pending", "queued", "running", "waiting", "succeeded", "failed", "cancelled"}
RunStatus == {"running", "waiting", "failed", "cancelled"}

(* What the types need to be inductive: the call's two revisions are counted *)
(* by the edits, and TypeOK's functions and sequences are such.              *)
ApprovalTypes ==
    /\ TypeOK
    /\ claim \in [Worker -> ClaimRecord]
    /\ executed \in Seq(Executed)
    /\ call.doc <= edits /\ call.cred <= edits

-----------------------------------------------------------------------------
(***************************************************************************)
(* The strengthening of EachCallIsApproved.  A worker past the gate holds  *)
(* a spent approval of the call it is about to make, which no other worker *)
(* holds and no call has used; a worker that did not pass holds none.      *)
(* What was called was called on a spent approval, and a spent request     *)
(* never changes again.                                                    *)
(***************************************************************************)
Backs(rs, a, c) ==
    /\ a \in DOMAIN rs
    /\ rs[a].spent /\ rs[a].status = "approved" /\ rs[a].call = c

ClearanceIsBacked ==
    \A w \in Worker :
        /\ claim[w].phase = "cleared" => Backs(requests, claim[w].request, claim[w].call)
        /\ claim[w].phase \in {"idle", "claimed", "gate", "free"} => claim[w].request = 0

ClearanceIsUnique ==
    \A w \in Worker : claim[w].phase = "cleared" =>
        /\ \A v \in Worker : claim[v].phase = "cleared" /\ claim[v].request = claim[w].request
                               => v = w
        /\ \A i \in DOMAIN executed : executed[i].request # claim[w].request

CallsAreBacked ==
    \A i \in DOMAIN executed : executed[i].request # 0 =>
        /\ Backs(requests, executed[i].request, executed[i].call)
        /\ \A j \in DOMAIN executed : executed[j].request = executed[i].request => i = j

(* The strengthening of NoSelfApproval: an unspent request knows everyone    *)
(* who is barred now, and was decided by none of those it knows.             *)
RequestKnowsBarred ==
    \A a \in DOMAIN requests :
        /\ ~requests[a].spent => barred \subseteq requests[a].requesters
        /\ requests[a].by # "nobody" => requests[a].by \notin requests[a].requesters

ApprovalInv ==
    /\ ApprovalTypes
    /\ ClearanceIsBacked /\ ClearanceIsUnique /\ CallsAreBacked
    /\ RequestKnowsBarred

-----------------------------------------------------------------------------
(* Lemmas about the operators. *)

(* Replacing one element of a sequence. *)
LEMMA ExceptSeq ==
    ASSUME NEW S, NEW s \in Seq(S), NEW a \in DOMAIN s, NEW x \in S
    PROVE  /\ [s EXCEPT ![a] = x] \in Seq(S)
           /\ Len([s EXCEPT ![a] = x]) = Len(s)
           /\ DOMAIN [s EXCEPT ![a] = x] = DOMAIN s
BY SMT

(* RetireToolApprovals spends every request and changes no spent one. *)
LEMMA RetiredSpends ==
    ASSUME NEW rs \in Seq(Request)
    PROVE  /\ Retired(rs) \in Seq(Request)
           /\ DOMAIN Retired(rs) = DOMAIN rs /\ Len(Retired(rs)) = Len(rs)
           /\ \A a \in DOMAIN rs :
                /\ rs[a].spent => Retired(rs)[a] = rs[a]
                /\ Retired(rs)[a].spent
                /\ Retired(rs)[a].requesters = rs[a].requesters
                /\ Retired(rs)[a].by = rs[a].by
<1> DEFINE ret(r) == [r EXCEPT !.spent = TRUE,
                               !.status = IF @ = "pending" THEN "expired" ELSE @]
           f == [a \in DOMAIN rs |-> IF rs[a].spent THEN rs[a] ELSE ret(rs[a])]
<1>1. ASSUME NEW r \in Request
      PROVE  /\ ret(r) \in Request /\ ret(r).spent
             /\ ret(r).requesters = r.requesters /\ ret(r).by = r.by
  BY <1>1 DEF Request
<1>2. DOMAIN rs = 1..Len(rs) /\ Len(rs) \in Nat /\ \A a \in DOMAIN rs : rs[a] \in Request
  OBVIOUS
<1>3. Retired(rs) = f
  BY DEF Retired
<1> HIDE DEF ret
<1>4. f \in [1..Len(rs) -> Request]
  BY <1>1, <1>2
<1>5. f \in Seq(Request) /\ Len(f) = Len(rs) /\ DOMAIN f = DOMAIN rs
  BY <1>2, <1>4
<1> QED
  BY <1>1, <1>2, <1>3, <1>5

(* What every step does to the requests: none is removed, a spent one never  *)
(* changes, who asked is fixed, and at most one is unspent.                  *)
Requested(rs, rs2) ==
    /\ rs2 \in Seq(Request) /\ Len(rs) <= Len(rs2) /\ Len(rs2) <= MaxRequests
    /\ \A a \in DOMAIN rs :
         /\ a \in DOMAIN rs2
         /\ rs[a].spent => rs2[a] = rs[a]
         /\ rs2[a].requesters = rs[a].requesters
    /\ \A a, b \in DOMAIN rs2 : rs2[a].spent \/ rs2[b].spent \/ a = b

(* Changing a request that is not spent is such a step. *)
LEMMA ExceptRequested ==
    ASSUME TypeOK, NEW a \in DOMAIN requests, ~requests[a].spent,
           NEW r \in Request, r.requesters = requests[a].requesters
    PROVE  Requested(requests, [requests EXCEPT ![a] = r])
<1> DEFINE rs == [requests EXCEPT ![a] = r]
<1>1. requests \in Seq(Request) /\ Len(requests) <= MaxRequests
  BY DEF TypeOK
<1>2. rs \in Seq(Request) /\ Len(rs) = Len(requests) /\ DOMAIN rs = DOMAIN requests
  BY <1>1, ExceptSeq
<1>3. \A b \in DOMAIN requests : rs[b] = IF b = a THEN r ELSE requests[b]
  BY <1>1
<1>4. \A b, c \in DOMAIN requests : requests[b].spent \/ requests[c].spent \/ b = c
  BY DEF TypeOK
<1> HIDE DEF rs
<1>5. \A b, c \in DOMAIN rs : rs[b].spent \/ rs[c].spent \/ b = c
  BY <1>2, <1>3, <1>4
<1>6. Len(requests) \in Nat /\ Len(rs) \in Nat
  BY <1>1, <1>2
<1>7. Requested(requests, rs)
  BY <1>1, <1>2, <1>3, <1>5, <1>6 DEF Requested
<1> QED
  BY <1>7 DEF rs

(* So is retiring them all. *)
LEMMA RetiredRequested ==
    ASSUME TypeOK
    PROVE  Requested(requests, Retired(requests))
<1>1. requests \in Seq(Request) /\ Len(requests) <= MaxRequests /\ Len(requests) \in Nat
  BY DEF TypeOK
<1> QED
  BY <1>1, RetiredSpends DEF Requested

(* So is leaving them alone. *)
LEMMA SameRequested ==
    ASSUME TypeOK
    PROVE  Requested(requests, requests)
BY DEF TypeOK, Requested

(* And so is asking for a new one while none is unspent. *)
LEMMA AppendRequested ==
    ASSUME ApprovalTypes, NEW c \in Call, Live = {}, Len(requests) < MaxRequests
    PROVE  /\ Requested(requests, Append(requests, NewRequest(c)))
           /\ NewRequest(c) \in Request
           /\ Len(Append(requests, NewRequest(c))) = Len(requests) + 1
<1>1. requests \in Seq(Request) /\ barred \subseteq Actor
  BY DEF TypeOK, ApprovalTypes
<1>2. \A a \in DOMAIN requests : requests[a] \in Request /\ requests[a].spent
  BY <1>1 DEF Live
<1>3. Requesters \subseteq Actor
  BY <1>1, <1>2 DEF Requesters, Request
<1>4. NewRequest(c) \in Request
  BY <1>3 DEF NewRequest, Request
<1> DEFINE rs == Append(requests, NewRequest(c))
<1>5. /\ rs \in Seq(Request) /\ Len(rs) = Len(requests) + 1
      /\ DOMAIN rs = 1..(Len(requests) + 1) /\ Len(requests) \in Nat
      /\ \A a \in DOMAIN requests : a \in DOMAIN rs /\ rs[a] = requests[a]
      /\ DOMAIN requests = 1..Len(requests)
  BY <1>1, <1>4
<1> HIDE DEF rs
<1>6. \A a, b \in DOMAIN rs : rs[a].spent \/ rs[b].spent \/ a = b
  BY <1>2, <1>5
<1>7. Requested(requests, rs)
  BY <1>5, <1>6, ApprovalBounds DEF Requested
<1> QED
  BY <1>4, <1>5, <1>7 DEF rs

-----------------------------------------------------------------------------
(* The sweep's listing and the run's other steps leave all of this alone. *)
Around ==
    \/ ListDueWaitingWakeup \/ ExpireMisses
    \/ (\E status \in {"failed", "waiting"} : OtherStops(status))
    \/ OtherRevives \/ ScheduleStep

LEMMA AroundLeaves ==
    ASSUME Around
    PROVE  UNCHANGED <<requests, barred, call, listed, claim, awaiting, executed, reaped>>
BY DEF Around, ListDueWaitingWakeup, ExpireMisses, OtherStops, OtherRevives, ScheduleStep

(* Every step treats the requests so. *)
LEMMA NextRequested ==
    ASSUME ApprovalTypes, Next
    PROVE  Requested(requests, requests')
<1> USE DEF ApprovalTypes
<1>0. requests \in Seq(Request)
  BY DEF TypeOK
<1>a. \A a \in DOMAIN requests : requests[a] \in Request
  BY <1>0
<1>b. ASSUME UNCHANGED requests PROVE Requested(requests, requests')
  BY <1>b, SameRequested
<1>1. ASSUME NEW w \in Worker, GateAsks(w)
      PROVE  Requested(requests, requests')
  <2>1. Rendered(w) \in Call
    BY DEF TypeOK, Rendered, Call, ClaimRecord
  <2> QED
    BY <1>1, <2>1, AppendRequested DEF GateAsks
<1>2. ASSUME NEW w \in Worker, NEW a \in DOMAIN requests, GateSpends(w, a)
      PROVE  Requested(requests, requests')
  <2> DEFINE r == [[requests[a] EXCEPT !.spent = TRUE]
                     EXCEPT !.status = IF @ = "pending" THEN "expired" ELSE @]
  <2>1. r \in Request /\ r.requesters = requests[a].requesters
    BY <1>a DEF Request
  <2>2. requests' = [requests EXCEPT ![a] = r] /\ ~requests[a].spent
    BY <1>0, <1>a, <1>2 DEF GateSpends, Live, Request
  <2> QED
    BY <2>1, <2>2, ExceptRequested
<1>3. ASSUME NEW a \in DOMAIN requests, NEW actor \in Actor, NEW d \in Decision,
             Decide(a, actor, d)
      PROVE  Requested(requests, requests')
  <2> DEFINE r == [[requests[a] EXCEPT !.status = d] EXCEPT !.by = actor]
  <2>1. r \in Request /\ r.requesters = requests[a].requesters
    BY <1>a DEF Request
  <2>2. requests' = [requests EXCEPT ![a] = r] /\ ~requests[a].spent
    BY <1>0, <1>a, <1>3 DEF Decide
  <2> QED
    BY <2>1, <2>2, ExceptRequested
<1>4. ASSUME NEW a \in DOMAIN requests, Expire(a) \/ DeadlinePasses(a) \/ ApprovalAges(a)
      PROVE  Requested(requests, requests')
  <2>1. PICK r \in Request : /\ r.requesters = requests[a].requesters
                             /\ requests' = [requests EXCEPT ![a] = r]
    <3>1. /\ [requests[a] EXCEPT !.status = "expired"] \in Request
          /\ [requests[a] EXCEPT !.overdue = TRUE] \in Request
          /\ [requests[a] EXCEPT !.stale = TRUE] \in Request
      BY <1>a DEF Request
    <3>2. \E r \in {[requests[a] EXCEPT !.status = "expired"],
                    [requests[a] EXCEPT !.overdue = TRUE],
                    [requests[a] EXCEPT !.stale = TRUE]} : requests' = [requests EXCEPT ![a] = r]
      BY <1>4 DEF Expire, DeadlinePasses, ApprovalAges
    <3> QED
      BY <1>a, <3>1, <3>2 DEF Request
  <2>2. ~requests[a].spent
    BY <1>4 DEF Expire, DeadlinePasses, ApprovalAges, Live
  <2> QED
    BY <2>1, <2>2, ExceptRequested
<1>5. ASSUME NEW w \in Worker, RetryStep(w)
      PROVE  Requested(requests, requests')
  BY <1>5, <1>b, RetiredRequested DEF RetryStep
<1>6. ASSUME NEW actor \in Actor, NEW fix \in BOOLEAN, Redrive(actor, fix)
      PROVE  Requested(requests, requests')
  BY <1>6, RetiredRequested DEF Redrive
<1>7. ASSUME NEW w \in Worker,
             \/ ClaimStep(w) \/ ReadPolicy(w) \/ MarkNodeWaiting(w) \/ Execute(w)
             \/ CompleteNode(w) \/ FailStep(w) \/ \E a \in DOMAIN requests : GateWaits(w, a)
      PROVE  Requested(requests, requests')
  BY <1>7, <1>b DEF ClaimStep, ReadPolicy, MarkNodeWaiting, Execute, CompleteNode, FailStep,
                    GateWaits
<1>8. ASSUME RotateCredential \/ SetToolApprovalPolicy \/ CancelRun \/ Reap \/ Around
      PROVE  Requested(requests, requests')
  BY <1>8, <1>b, AroundLeaves DEF RotateCredential, SetToolApprovalPolicy, CancelRun, Reap
<1> QED
  BY <1>1, <1>2, <1>3, <1>4, <1>5, <1>6, <1>7, <1>8 DEF Next, Around

(* The worker's steps keep the claims claims. *)
ClaimsTyped ==
    /\ claim \in [Worker -> ClaimRecord]
    /\ \A w \in Worker : claim[w].request <= Len(requests)

LEMMA ClaimTypes ==
    ASSUME ApprovalTypes, Next
    PROVE  ClaimsTyped'
<1> USE DEF ApprovalTypes
<1>0. /\ claim \in [Worker -> ClaimRecord] /\ requests \in Seq(Request) /\ call \in Call
      /\ attempt \in 1..MaxAttempts /\ MaxAttempts \in Nat
      /\ \A w \in Worker : claim[w].request \in 0..Len(requests)
  BY ApprovalBounds DEF TypeOK
<1>1. Len(requests) \in Nat /\ Len(requests') \in Nat /\ Len(requests) <= Len(requests')
  BY <1>0, NextRequested DEF Requested
<1>2. Idle \in ClaimRecord /\ Idle.request = 0
  BY ApprovalBounds DEF Idle, ClaimRecord, Phase, Call
<1>3. ASSUME NEW w \in Worker, claim' = [claim EXCEPT ![w] = Idle]
      PROVE  ClaimsTyped'
  BY <1>0, <1>1, <1>2, <1>3 DEF ClaimRecord, ClaimsTyped
<1>4. ASSUME UNCHANGED claim
      PROVE  ClaimsTyped'
  BY <1>0, <1>1, <1>4 DEF ClaimRecord, ClaimsTyped
<1>5. ASSUME NEW w \in Worker,
             MarkNodeWaiting(w) \/ CompleteNode(w) \/ RetryStep(w) \/ FailStep(w)
      PROVE  claim' = [claim EXCEPT ![w] = Idle]
  BY <1>5 DEF MarkNodeWaiting, CompleteNode, RetryStep, FailStep
<1>6. ASSUME NEW w \in Worker, ClaimStep(w)
      PROVE  ClaimsTyped'
  <2> DEFINE cl == [phase |-> "claimed", call |-> call, request |-> 0, attempt |-> attempt]
  <2>1. cl \in ClaimRecord /\ cl.request = 0
    BY <1>0 DEF ClaimRecord, Phase
  <2>2. claim' = [claim EXCEPT ![w] = cl]
    BY <1>6 DEF ClaimStep
  <2> QED
    BY <1>0, <1>1, <2>1, <2>2 DEF ClaimRecord, ClaimsTyped
<1>7. ASSUME NEW w \in Worker, ReadPolicy(w) \/ Execute(w)
      PROVE  ClaimsTyped'
  <2>1. PICK p \in Phase : claim' = [claim EXCEPT ![w] = [@ EXCEPT !.phase = p]]
    BY <1>0, <1>7 DEF ReadPolicy, Execute, Phase
  <2>2. /\ [claim[w] EXCEPT !.phase = p] \in ClaimRecord
        /\ [claim[w] EXCEPT !.phase = p].request = claim[w].request
    BY <1>0 DEF ClaimRecord
  <2> QED
    BY <1>0, <1>1, <2>1, <2>2 DEF ClaimRecord, ClaimsTyped
<1>8. ASSUME NEW w \in Worker, GateAsks(w)
       PROVE  ClaimsTyped'
  <2>1. PICK k \in Nat : k = Len(requests) + 1 /\ k = Len(requests')
    BY <1>0, <1>8 DEF GateAsks
  <2> DEFINE cl == [[claim[w] EXCEPT !.phase = "pause"] EXCEPT !.request = k]
  <2>2. claim' = [claim EXCEPT ![w] = cl]
    BY <1>0, <1>8, <2>1 DEF GateAsks
  <2>3. cl \in ClaimRecord /\ cl.request = k
    BY <1>0 DEF ClaimRecord, Phase
  <2> HIDE DEF cl
  <2> QED
    BY <1>0, <1>1, <2>1, <2>2, <2>3 DEF ClaimRecord, ClaimsTyped
<1>9. ASSUME NEW w \in Worker, NEW a \in DOMAIN requests, GateWaits(w, a)
       PROVE  ClaimsTyped'
  <2>1. a \in Nat /\ a <= Len(requests)
    BY <1>0
  <2> DEFINE cl == [[claim[w] EXCEPT !.phase = "pause"] EXCEPT !.request = a]
  <2>2. claim' = [claim EXCEPT ![w] = cl]
    BY <1>0, <1>9 DEF GateWaits
  <2>3. cl \in ClaimRecord /\ cl.request = a
    BY <1>0, <2>1 DEF ClaimRecord, Phase
  <2> HIDE DEF cl
  <2> QED
    BY <1>0, <1>1, <2>1, <2>2, <2>3 DEF ClaimRecord, ClaimsTyped
<1>10. ASSUME NEW w \in Worker, NEW a \in DOMAIN requests, GateSpends(w, a)
       PROVE  ClaimsTyped'
  <2> DEFINE p  == IF Passes(a, Rendered(w)) THEN "cleared" ELSE "refused"
             cl == [[[claim[w] EXCEPT !.phase = p] EXCEPT !.call = Rendered(w)]
                      EXCEPT !.request = a]
  <2>1. a \in Nat /\ a <= Len(requests)
    BY <1>0
  <2>2. Rendered(w) \in Call
    BY <1>0 DEF Rendered, Call, ClaimRecord
  <2>3. cl \in ClaimRecord /\ cl.request = a
    BY <1>0, <2>1, <2>2 DEF ClaimRecord, Phase
  <2>4. claim' = [claim EXCEPT ![w] = cl]
    BY <1>0, <1>10 DEF GateSpends
  <2> HIDE DEF cl
  <2> QED
    BY <1>0, <1>1, <2>1, <2>3, <2>4 DEF ClaimRecord, ClaimsTyped
<1>11. CASE \/ \E a \in DOMAIN requests :
                 \/ \E actor \in Actor, d \in Decision : Decide(a, actor, d)
                 \/ Expire(a) \/ DeadlinePasses(a) \/ ApprovalAges(a)
            \/ \E actor \in Actor, fix \in BOOLEAN : Redrive(actor, fix)
            \/ RotateCredential \/ SetToolApprovalPolicy \/ CancelRun \/ Reap \/ Around
  <2>1. UNCHANGED claim
    BY <1>11, AroundLeaves DEF Decide, Expire, DeadlinePasses, ApprovalAges, Redrive,
                               RotateCredential, SetToolApprovalPolicy, CancelRun, Reap
  <2> QED
    BY <1>4, <2>1
<1> QED
  BY <1>3, <1>5, <1>6, <1>7, <1>8, <1>9, <1>10, <1>11 DEF Next, Around

-----------------------------------------------------------------------------
(* The types hold initially and every step keeps them. *)
LEMMA TypesInit == Init => ApprovalTypes
<1> SUFFICES ASSUME Init PROVE ApprovalTypes
  OBVIOUS
<1>1. Idle \in ClaimRecord /\ [doc |-> 0, cred |-> 0] \in Call
  BY ApprovalBounds DEF Idle, ClaimRecord, Phase, Call
<1>2. claim \in [Worker -> ClaimRecord]
  BY <1>1 DEF Init
<1>3. \A w \in Worker : claim[w].phase \in Phase /\ claim[w].call \in Call
                        /\ claim[w].request = 0 /\ claim[w].attempt = 0
  BY <1>1 DEF Init, Idle, Phase
<1>4. /\ requests = <<>> /\ executed = <<>> /\ awaiting = 0 /\ edits = 0 /\ barred = {Creator}
      /\ attempt = 1 /\ step = "queued" /\ listed = TRUE /\ reaped = FALSE /\ call \in Call
  BY <1>1 DEF Init
<1>a. run = "running" /\ swept = FALSE
  BY DEF Init
<1>5. requests \in Seq(Request) /\ Len(requests) = 0 /\ DOMAIN requests = {} /\ DOMAIN executed = {}
  BY <1>4
<1>6. /\ attempt \in 1..MaxAttempts /\ awaiting \in 0..Len(requests) /\ edits \in 0..MaxEdits
      /\ barred \subseteq Actor /\ Len(requests) <= MaxRequests
  BY <1>4, <1>5, ApprovalBounds
<1>7. \A w \in Worker : /\ claim[w].phase \in Phase /\ claim[w].call \in Call
                        /\ claim[w].request \in 0..Len(requests)
                        /\ claim[w].attempt \in 0..MaxAttempts
  BY <1>3, <1>5, ApprovalBounds
<1>8. listed \in BOOLEAN /\ reaped \in BOOLEAN /\ swept \in BOOLEAN
  BY <1>4, <1>a
<1>9. TypeOK
  BY <1>4, <1>a, <1>5, <1>6, <1>7, <1>8 DEF TypeOK, Phase
<1> QED
  BY <1>2, <1>9, ApprovalBounds DEF Init, ApprovalTypes

LEMMA TypesStep ==
    ASSUME ApprovalTypes, [Next]_vars
    PROVE  ApprovalTypes'
<1>1. CASE UNCHANGED vars
  BY <1>1 DEF vars, ApprovalTypes, TypeOK, Call, Request, Live
<1>2. CASE Next
  <2>0. /\ requests \in Seq(Request) /\ Len(requests) \in Nat
        /\ step \in StepStatus /\ run \in RunStatus /\ swept \in BOOLEAN
        /\ attempt \in 1..MaxAttempts /\ awaiting \in 0..Len(requests)
        /\ barred \subseteq Actor /\ call \in Call /\ listed \in BOOLEAN
        /\ edits \in 0..MaxEdits /\ reaped \in BOOLEAN
        /\ call.doc <= edits /\ call.cred <= edits
        /\ claim \in [Worker -> ClaimRecord] /\ executed \in Seq(Executed)
        /\ \A w \in Worker : claim[w].request \in 0..Len(requests)
        /\ \A i \in DOMAIN executed : executed[i] \in Executed
                                      /\ executed[i].request \in 0..Len(requests)
    BY DEF ApprovalTypes, TypeOK, StepStatus, RunStatus
  <2>1. Requested(requests, requests') /\ ClaimsTyped'
    BY <1>2, NextRequested, ClaimTypes
  <2>2. Len(requests') \in Nat /\ Len(requests) <= Len(requests')
    BY <2>1 DEF Requested
  <2>3. step' \in StepStatus
    <3>1. \/ step' = step
          \/ step' \in StepStatus
      <4>1. ASSUME NEW w \in Worker,
                   ClaimStep(w) \/ MarkNodeWaiting(w) \/ CompleteNode(w) \/ RetryStep(w) \/ FailStep(w)
            PROVE  step' \in {step, "queued", "running", "waiting", "succeeded", "failed"}
        BY <4>1 DEF ClaimStep, MarkNodeWaiting, CompleteNode, RetryStep, FailStep, StepFails
      <4>2. ASSUME NEW w \in Worker,
                   \/ ReadPolicy(w) \/ GateAsks(w) \/ Execute(w)
                   \/ \E a \in DOMAIN requests : GateWaits(w, a) \/ GateSpends(w, a)
            PROVE  step' = step
        BY <4>2 DEF ReadPolicy, GateAsks, Execute, GateWaits, GateSpends
      <4>3. ASSUME NEW a \in DOMAIN requests,
                   \/ \E actor \in Actor, d \in Decision : Decide(a, actor, d)
                   \/ Expire(a) \/ DeadlinePasses(a) \/ ApprovalAges(a)
            PROVE  step' = step \/ step' = "queued"
        BY <4>3 DEF Decide, Expire, DeadlinePasses, ApprovalAges
      <4>4. ASSUME \/ \E actor \in Actor, fix \in BOOLEAN : Redrive(actor, fix)
                   \/ RotateCredential \/ SetToolApprovalPolicy \/ CancelRun \/ Reap
            PROVE  step' \in {step, "queued", "cancelled", "failed"}
        BY <4>4 DEF Redrive, RotateCredential, SetToolApprovalPolicy, CancelRun, Reap, StepFails
      <4>5. ASSUME Around
            PROVE  step' \in {step, "pending", "queued"}
        BY <4>5 DEF Around, ListDueWaitingWakeup, ExpireMisses, OtherStops, OtherRevives,
                    ScheduleStep
      <4> QED
        BY <1>2, <4>1, <4>2, <4>3, <4>4, <4>5 DEF Next, Around, StepStatus
    <3> QED
      BY <2>0, <3>1
  <2>10. run' \in RunStatus
    <3>1. ASSUME NEW w \in Worker,
                 \/ ClaimStep(w) \/ ReadPolicy(w) \/ GateAsks(w) \/ MarkNodeWaiting(w)
                 \/ Execute(w) \/ CompleteNode(w) \/ RetryStep(w) \/ FailStep(w)
                 \/ \E a \in DOMAIN requests : GateWaits(w, a) \/ GateSpends(w, a)
          PROVE  run' \in {run, "failed"}
      BY <3>1 DEF ClaimStep, ReadPolicy, GateAsks, MarkNodeWaiting, Execute, CompleteNode,
                  RetryStep, FailStep, StepFails, GateWaits, GateSpends
    <3>2. ASSUME NEW a \in DOMAIN requests,
                 \/ \E actor \in Actor, d \in Decision : Decide(a, actor, d)
                 \/ Expire(a) \/ DeadlinePasses(a) \/ ApprovalAges(a)
          PROVE  run' = run
      BY <3>2 DEF Decide, Expire, DeadlinePasses, ApprovalAges
    <3>3. ASSUME \/ \E actor \in Actor, fix \in BOOLEAN : Redrive(actor, fix)
                 \/ RotateCredential \/ SetToolApprovalPolicy \/ CancelRun \/ Reap
          PROVE  run' \in {run, "running", "cancelled", "failed"}
      BY <3>3 DEF Redrive, RotateCredential, SetToolApprovalPolicy, CancelRun, Reap, StepFails
    <3>4. ASSUME Around
          PROVE  run' \in {run, "running", "waiting", "failed"}
      BY <3>4 DEF Around, ListDueWaitingWakeup, ExpireMisses, OtherStops, OtherRevives,
                  ScheduleStep
    <3> QED
      BY <1>2, <2>0, <3>1, <3>2, <3>3, <3>4 DEF Next, Around, RunStatus
  <2>11. swept' \in BOOLEAN
    <3>1. swept' = swept \/ swept' = TRUE \/ swept' = FALSE
      BY <1>2 DEF Next, ClaimStep, ReadPolicy, GateAsks, MarkNodeWaiting, Execute,
         CompleteNode, RetryStep, FailStep, GateWaits, GateSpends, Decide, Expire,
         DeadlinePasses, ApprovalAges, Redrive, RotateCredential, SetToolApprovalPolicy,
         CancelRun, Reap, ListDueWaitingWakeup, ExpireMisses, OtherStops, OtherRevives,
         ScheduleStep
    <3> QED
      BY <2>0, <3>1
  <2>4. attempt' \in 1..MaxAttempts
    <3>1. \/ attempt' = attempt \/ attempt' = 1
          \/ \E w \in Worker : claim[w].attempt < MaxAttempts /\ attempt' = claim[w].attempt + 1
      BY <1>2 DEF Next, ClaimStep, ReadPolicy, GateAsks, MarkNodeWaiting, Execute,
         CompleteNode, RetryStep, FailStep, GateWaits, GateSpends, Decide, Expire,
         DeadlinePasses, ApprovalAges, Redrive, RotateCredential, SetToolApprovalPolicy,
         CancelRun, Reap, ListDueWaitingWakeup, ExpireMisses, OtherStops, OtherRevives,
         ScheduleStep
    <3> QED
      BY <2>0, <3>1, ApprovalBounds DEF ClaimRecord
  <2>5. awaiting' \in 0..Len(requests')
    <3>1. awaiting' = awaiting \/ \E w \in Worker : awaiting' = claim[w].request
      BY <1>2, AroundLeaves DEF Next, ClaimStep, ReadPolicy, GateAsks, MarkNodeWaiting,
         Execute, CompleteNode, RetryStep, FailStep, GateWaits, GateSpends, Decide, Expire,
         DeadlinePasses, ApprovalAges, Redrive, RotateCredential, SetToolApprovalPolicy,
         CancelRun, Reap, Around
    <3> QED
      BY <2>0, <2>2, <3>1
  <2>6. /\ edits' \in 0..MaxEdits /\ call' \in Call /\ call'.doc <= edits' /\ call'.cred <= edits'
        /\ barred' \subseteq Actor /\ listed' \in BOOLEAN /\ reaped' \in BOOLEAN
    <3>1. CASE \E actor \in Actor, fix \in BOOLEAN : Redrive(actor, fix)
      BY <2>0, <3>1, ApprovalBounds DEF Redrive, Edit, Call
    <3>2. CASE RotateCredential
      BY <2>0, <3>2, ApprovalBounds DEF RotateCredential, Edit, Call
    <3>3. CASE \/ SetToolApprovalPolicy \/ Reap
               \/ \E status \in {"failed", "waiting"} : OtherStops(status)
      <4>1. edits' = edits + 1 /\ edits < MaxEdits /\ UNCHANGED <<call, barred>>
        BY <3>3 DEF SetToolApprovalPolicy, Reap, OtherStops, Edit
      <4>2. listed' \in BOOLEAN /\ reaped' \in BOOLEAN
        BY <2>0, <3>3, Zenon DEF SetToolApprovalPolicy, Reap, OtherStops
      <4> QED
        BY <2>0, <4>1, <4>2, ApprovalBounds DEF Call
    <3>4. CASE UNCHANGED <<edits, call, barred, listed, reaped>>
      BY <2>0, <3>4
    <3> QED
      BY <1>2, <3>1, <3>2, <3>3, <3>4 DEF Next, ClaimStep, ReadPolicy, GateAsks,
         MarkNodeWaiting, Execute, CompleteNode, RetryStep, FailStep, GateWaits, GateSpends,
         Decide, Expire, DeadlinePasses, ApprovalAges, CancelRun, ListDueWaitingWakeup,
         ExpireMisses, OtherRevives, ScheduleStep
  <2>7. /\ executed' \in Seq(Executed)
        /\ \A i \in DOMAIN executed' : executed'[i].call \in Call
                                       /\ executed'[i].request \in 0..Len(requests')
    <3>1. CASE \E w \in Worker : Execute(w)
      <4> PICK w \in Worker : Execute(w)
        BY <3>1
      <4> DEFINE e == [request |-> claim[w].request, call |-> claim[w].call]
      <4>1. e \in Executed /\ e.request \in 0..Len(requests)
        BY <2>0 DEF Executed, ClaimRecord
      <4>2. executed' = Append(executed, e)
        BY DEF Execute
      <4> HIDE DEF e
      <4>3. executed' \in Seq(Executed)
            /\ \A i \in DOMAIN executed' : executed'[i] = e
                                           \/ (i \in DOMAIN executed /\ executed'[i] = executed[i])
        BY <2>0, <4>1, <4>2
      <4>4. \A i \in DOMAIN executed' : executed'[i].request \in 0..Len(requests)
        BY <2>0, <4>1, <4>3
      <4>5. \A i \in DOMAIN executed' : executed'[i].call \in Call
        BY <2>0, <4>1, <4>3 DEF Executed
      <4> QED
        BY <2>0, <2>2, <4>3, <4>4, <4>5
    <3>2. CASE UNCHANGED executed
      BY <2>0, <2>2, <3>2 DEF Executed
    <3> QED
      BY <1>2, <3>1, <3>2, AroundLeaves DEF Next, ClaimStep, ReadPolicy, GateAsks,
         MarkNodeWaiting, CompleteNode, RetryStep, FailStep, GateWaits, GateSpends,
         Decide, Expire, DeadlinePasses, ApprovalAges, Redrive, RotateCredential,
         SetToolApprovalPolicy, CancelRun, Reap, Around
  <2>8. \A w \in Worker : /\ claim'[w].phase \in Phase /\ claim'[w].call \in Call
                          /\ claim'[w].request \in 0..Len(requests')
                          /\ claim'[w].attempt \in 0..MaxAttempts
    BY <2>1, <2>2 DEF ClaimsTyped, ClaimRecord
  <2>9. TypeOK'
    BY <2>1, <2>3, <2>4, <2>5, <2>6, <2>7, <2>8, <2>10, <2>11
       DEF TypeOK, Requested, Phase, StepStatus, RunStatus
  <2> QED
    BY <2>1, <2>6, <2>7, <2>9 DEF ApprovalTypes, ClaimsTyped
<1> QED
  BY <1>1, <1>2

-----------------------------------------------------------------------------
(* A backing request stays one: it is spent, and nothing changes it. *)
LEMMA BackingStays ==
    ASSUME ApprovalTypes, Next, NEW a, NEW c, Backs(requests, a, c)
    PROVE  Backs(requests', a, c)
BY NextRequested DEF Backs, Requested

(* The claims and the calls: only GateSpends clears a worker, on a request   *)
(* that was unspent and so backs nobody else; only a call uses a clearance.  *)
LEMMA ClearanceStep ==
    ASSUME ApprovalInv, [Next]_vars
    PROVE  (ClearanceIsBacked /\ ClearanceIsUnique /\ CallsAreBacked)'
<1> USE DEF ApprovalInv
<1>0. /\ claim \in [Worker -> ClaimRecord] /\ executed \in Seq(Executed)
      /\ requests \in Seq(Request)
  BY DEF ApprovalTypes, TypeOK
<1>1. CASE UNCHANGED vars
  BY <1>1 DEF vars, ClearanceIsBacked, ClearanceIsUnique, CallsAreBacked, Backs
<1>2. ASSUME Next, UNCHANGED executed,
             \A w \in Worker : \/ claim'[w] = claim[w]
                               \/ claim'[w].phase # "cleared"
                                  /\ (claim'[w].phase \in {"idle", "claimed", "gate", "free"}
                                        => claim'[w].request = 0)
      PROVE  (ClearanceIsBacked /\ ClearanceIsUnique /\ CallsAreBacked)'
  <2>1. ClearanceIsBacked'
    BY <1>2, BackingStays DEF ClearanceIsBacked
  <2>2. ClearanceIsUnique'
    BY <1>2 DEF ClearanceIsUnique
  <2>3. CallsAreBacked'
    BY <1>2, BackingStays DEF CallsAreBacked
  <2> QED
    BY <2>1, <2>2, <2>3
<1>3. ASSUME NEW w \in Worker, Next,
             \/ ClaimStep(w) \/ MarkNodeWaiting(w) \/ CompleteNode(w)
             \/ RetryStep(w) \/ FailStep(w)
      PROVE  (ClearanceIsBacked /\ ClearanceIsUnique /\ CallsAreBacked)'
  <2>1. UNCHANGED executed
    BY <1>3 DEF ClaimStep, MarkNodeWaiting, CompleteNode, RetryStep, FailStep
  <2>2. PICK cl : claim' = [claim EXCEPT ![w] = cl] /\ cl.request = 0 /\ cl.phase # "cleared"
    BY <1>3 DEF ClaimStep, MarkNodeWaiting, CompleteNode, RetryStep, FailStep, Idle
  <2> QED
    BY <1>0, <1>2, <1>3, <2>1, <2>2
<1>4. ASSUME NEW w \in Worker, Next, ReadPolicy(w) \/ GateAsks(w)
                                    \/ \E a \in DOMAIN requests : GateWaits(w, a)
      PROVE  (ClearanceIsBacked /\ ClearanceIsUnique /\ CallsAreBacked)'
  <2>1. UNCHANGED executed
    BY <1>4 DEF ReadPolicy, GateAsks, GateWaits
  <2>2. claim[w].phase \in {"claimed", "gate"} => claim[w].request = 0
    BY DEF ClearanceIsBacked
  <2>3. \A v \in Worker : \/ claim'[v] = claim[v]
                          \/ claim'[v].phase # "cleared"
                             /\ (claim'[v].phase \in {"idle", "claimed", "gate", "free"}
                                   => claim'[v].request = 0)
    BY <1>0, <1>4, <2>2 DEF ReadPolicy, GateAsks, GateWaits, ClaimRecord
  <2> QED
    BY <1>2, <1>4, <2>1, <2>3
<1>5. ASSUME NEW w \in Worker, NEW a \in DOMAIN requests, Next, GateSpends(w, a)
      PROVE  (ClearanceIsBacked /\ ClearanceIsUnique /\ CallsAreBacked)'
  <2>1. UNCHANGED executed /\ ~requests[a].spent
    BY <1>5 DEF GateSpends, Live
  <2>2. /\ \A v \in Worker : v # w => claim'[v] = claim[v]
        /\ claim'[w].request = a /\ claim'[w].call = Rendered(w)
        /\ claim'[w].phase = IF Passes(a, Rendered(w)) THEN "cleared" ELSE "refused"
    BY <1>0, <1>5 DEF GateSpends, ClaimRecord
  <2>3. CASE claim'[w].phase # "cleared"
    BY <1>2, <1>5, <2>1, <2>2, <2>3
  <2>4. CASE claim'[w].phase = "cleared"
    <3>1. Backs(requests', a, claim'[w].call)
      <4>1. requests[a].status = "approved" /\ requests[a].call = Rendered(w)
        BY <2>2, <2>4 DEF Passes
      <4>2. requests'[a].spent /\ requests'[a].status = "approved" /\ requests'[a].call = Rendered(w)
            /\ a \in DOMAIN requests'
        <5> DEFINE r == [[requests[a] EXCEPT !.spent = TRUE]
                           EXCEPT !.status = IF @ = "pending" THEN "expired" ELSE @]
        <5>1. requests[a] \in Request
          BY <1>0
        <5>2. r.spent /\ r.status = "approved" /\ r.call = Rendered(w)
          BY <4>1, <5>1 DEF Request
        <5>3. requests' = [requests EXCEPT ![a] = r]
          BY <1>0, <1>5, <5>1 DEF GateSpends, Request
        <5> HIDE DEF r
        <5> QED
          BY <1>0, <5>2, <5>3
      <4> QED
        BY <2>2, <4>2 DEF Backs
    <3>2. ClearanceIsBacked'
      BY <1>5, <2>2, <3>1, BackingStays DEF ClearanceIsBacked
    <3>3. /\ \A v \in Worker : claim[v].phase = "cleared" => claim[v].request # a
          /\ \A i \in DOMAIN executed : executed[i].request # a
      <4>1. a # 0
        BY <1>0
      <4> QED
        BY <2>1, <4>1 DEF ClearanceIsBacked, CallsAreBacked, Backs
    <3>4. ClearanceIsUnique'
      BY <2>1, <2>2, <3>3 DEF ClearanceIsUnique
    <3>5. CallsAreBacked'
      BY <1>5, <2>1, BackingStays DEF CallsAreBacked
    <3> QED
      BY <3>2, <3>4, <3>5
  <2> QED
    BY <2>3, <2>4
<1>6. ASSUME NEW w \in Worker, Next, Execute(w)
      PROVE  (ClearanceIsBacked /\ ClearanceIsUnique /\ CallsAreBacked)'
  <2> DEFINE e == [request |-> claim[w].request, call |-> claim[w].call]
  <2>1. /\ e \in Executed /\ executed' = Append(executed, e)
        /\ e.request = claim[w].request /\ e.call = claim[w].call
    BY <1>0, <1>6 DEF Execute, Executed, ClaimRecord
  <2> HIDE DEF e
  <2>2. /\ DOMAIN executed = 1..Len(executed) /\ Len(executed) \in Nat
        /\ DOMAIN executed' = 1..(Len(executed) + 1)
        /\ \A i \in DOMAIN executed : executed'[i] = executed[i]
        /\ executed'[Len(executed) + 1] = e
    BY <1>0, <2>1
  <2>3. /\ \A v \in Worker : v # w => claim'[v] = claim[v]
        /\ claim'[w].phase = "called"
        /\ claim[w].phase \in {"cleared", "free"}
    BY <1>0, <1>6 DEF Execute, ClaimRecord
  <2>4. ClearanceIsBacked'
    BY <1>6, <2>3, BackingStays DEF ClearanceIsBacked
  <2>5. e.request # 0 =>
          /\ Backs(requests, e.request, e.call)
          /\ \A v \in Worker \ {w} : claim[v].phase = "cleared" => claim[v].request # e.request
          /\ \A i \in DOMAIN executed : executed[i].request # e.request
    BY <2>1, <2>3 DEF ClearanceIsBacked, ClearanceIsUnique
  <2>6. \A v \in Worker : claim[v].phase = "cleared" => claim[v].request # 0
    BY <1>0 DEF ClearanceIsBacked, Backs
  <2>7. ClearanceIsUnique'
    BY <2>2, <2>3, <2>5, <2>6 DEF ClearanceIsUnique
  <2>8. \A i \in DOMAIN executed' : executed'[i].request # 0 =>
          Backs(requests', executed'[i].request, executed'[i].call)
    BY <1>6, <2>2, <2>5, BackingStays DEF CallsAreBacked
  <2>9. \A i, j \in DOMAIN executed' : executed'[i].request # 0
          /\ executed'[j].request = executed'[i].request => i = j
    BY <2>2, <2>5 DEF CallsAreBacked
  <2>10. CallsAreBacked'
    BY <2>8, <2>9 DEF CallsAreBacked
  <2> QED
    BY <2>4, <2>7, <2>10
<1>7. CASE /\ Next
           /\ \/ \E a \in DOMAIN requests :
                   \/ \E actor \in Actor, d \in Decision : Decide(a, actor, d)
                   \/ Expire(a) \/ DeadlinePasses(a) \/ ApprovalAges(a)
              \/ \E actor \in Actor, fix \in BOOLEAN : Redrive(actor, fix)
              \/ RotateCredential \/ SetToolApprovalPolicy \/ CancelRun \/ Reap \/ Around
  <2>1. UNCHANGED <<claim, executed>>
    BY <1>7, AroundLeaves DEF Decide, Expire, DeadlinePasses, ApprovalAges, Redrive,
                              RotateCredential, SetToolApprovalPolicy, CancelRun, Reap
  <2> QED
    BY <1>2, <1>7, <2>1
<1> QED
  BY <1>1, <1>3, <1>4, <1>5, <1>6, <1>7 DEF Next, Around

(* Who asked and who is barred: a redrive bars somebody only by giving up    *)
(* every unspent request, and a new request names all who are barred.        *)
LEMMA BarredStep ==
    ASSUME ApprovalInv, [Next]_vars
    PROVE  RequestKnowsBarred'
<1> USE DEF ApprovalInv
<1>0. requests \in Seq(Request) /\ \A a \in DOMAIN requests : requests[a] \in Request
  BY DEF ApprovalTypes, TypeOK
<1>1. CASE UNCHANGED vars
  BY <1>1 DEF vars, RequestKnowsBarred
<1>2. ASSUME Next, UNCHANGED barred, DOMAIN requests' = DOMAIN requests,
             \A a \in DOMAIN requests : /\ requests'[a].by = requests[a].by
                                        /\ requests[a].spent => requests'[a].spent
      PROVE  RequestKnowsBarred'
  BY <1>2, NextRequested DEF RequestKnowsBarred, Requested
<1>3. ASSUME NEW w \in Worker, GateAsks(w)
      PROVE  RequestKnowsBarred'
  <2> DEFINE r == NewRequest(Rendered(w))
  <2>1. r.by = "nobody" /\ r.requesters = Requesters /\ barred \subseteq Requesters
    BY DEF NewRequest, Requesters
  <2>2. Rendered(w) \in Call
    BY DEF Rendered, Call, ClaimRecord, ApprovalTypes, TypeOK
  <2>3. r \in Request
    BY <1>3, <2>2, AppendRequested DEF GateAsks
  <2>4. requests' = Append(requests, r) /\ barred' = barred
    BY <1>3 DEF GateAsks
  <2> HIDE DEF r
  <2>5. \A a \in DOMAIN requests' : \/ a \in DOMAIN requests /\ requests'[a] = requests[a]
                                    \/ requests'[a] = r
    BY <1>0, <2>3, <2>4
  <2> QED
    BY <2>1, <2>4, <2>5 DEF RequestKnowsBarred
<1>4. ASSUME NEW w \in Worker, NEW a \in DOMAIN requests, Next, GateSpends(w, a)
      PROVE  RequestKnowsBarred'
  <2> DEFINE r == [[requests[a] EXCEPT !.spent = TRUE]
                     EXCEPT !.status = IF @ = "pending" THEN "expired" ELSE @]
  <2>1. r.spent /\ r.by = requests[a].by
    BY <1>0 DEF Request
  <2>2. requests' = [requests EXCEPT ![a] = r] /\ UNCHANGED barred
    BY <1>0, <1>4 DEF GateSpends, Request
  <2> HIDE DEF r
  <2> QED
    BY <1>0, <1>2, <1>4, <2>1, <2>2
<1>5. ASSUME NEW a \in DOMAIN requests, NEW actor \in Actor, NEW d \in Decision, Next,
             Decide(a, actor, d)
      PROVE  RequestKnowsBarred'
  <2> DEFINE r == [[requests[a] EXCEPT !.status = d] EXCEPT !.by = actor]
  <2>1. r.by = actor /\ r.requesters = requests[a].requesters /\ actor \notin r.requesters
    BY <1>0, <1>5 DEF Request, Decide
  <2>2. requests' = [requests EXCEPT ![a] = r] /\ UNCHANGED barred /\ ~requests[a].spent
    BY <1>0, <1>5 DEF Decide
  <2> HIDE DEF r
  <2>3. \A b \in DOMAIN requests' : b \in DOMAIN requests
                                    /\ requests'[b] = IF b = a THEN r ELSE requests[b]
    BY <1>0, <2>2
  <2> QED
    BY <2>1, <2>2, <2>3 DEF RequestKnowsBarred
<1>6. ASSUME NEW a \in DOMAIN requests, Next, Expire(a) \/ DeadlinePasses(a) \/ ApprovalAges(a)
      PROVE  RequestKnowsBarred'
  <2>1. PICK r : /\ r.by = requests[a].by /\ r.spent = requests[a].spent
                 /\ requests' = [requests EXCEPT ![a] = r]
    <3>1. CASE Expire(a)
      <4>1. requests' = [requests EXCEPT ![a] = [requests[a] EXCEPT !.status = "expired"]]
        BY <3>1 DEF Expire
      <4> QED
        BY <1>0, <4>1 DEF Request
    <3>2. CASE DeadlinePasses(a)
      <4>1. requests' = [requests EXCEPT ![a] = [requests[a] EXCEPT !.overdue = TRUE]]
        BY <3>2 DEF DeadlinePasses
      <4> QED
        BY <1>0, <4>1 DEF Request
    <3>3. CASE ApprovalAges(a)
      <4>1. requests' = [requests EXCEPT ![a] = [requests[a] EXCEPT !.stale = TRUE]]
        BY <3>3 DEF ApprovalAges
      <4> QED
        BY <1>0, <4>1 DEF Request
    <3> QED
      BY <1>6, <3>1, <3>2, <3>3
  <2>2. UNCHANGED barred
    BY <1>6 DEF Expire, DeadlinePasses, ApprovalAges
  <2> QED
    BY <1>0, <1>2, <1>6, <2>1, <2>2
<1>7. ASSUME NEW w \in Worker, Next, RetryStep(w)
      PROVE  RequestKnowsBarred'
  <2>1. UNCHANGED barred /\ (requests' = Retired(requests) \/ UNCHANGED requests)
    BY <1>7 DEF RetryStep
  <2> QED
    BY <1>0, <1>2, <1>7, <2>1, RetiredSpends
<1>8. ASSUME NEW actor \in Actor, NEW fix \in BOOLEAN, Redrive(actor, fix)
      PROVE  RequestKnowsBarred'
  <2>1. requests' = Retired(requests)
    BY <1>8 DEF Redrive
  <2> QED
    BY <1>0, <2>1, RetiredSpends DEF RequestKnowsBarred
<1>9. CASE \/ \E w \in Worker :
                \/ ClaimStep(w) \/ ReadPolicy(w) \/ MarkNodeWaiting(w) \/ Execute(w)
                \/ CompleteNode(w) \/ FailStep(w) \/ \E a \in DOMAIN requests : GateWaits(w, a)
           \/ RotateCredential \/ SetToolApprovalPolicy \/ CancelRun \/ Reap \/ Around
  <2>1. UNCHANGED <<requests, barred>>
    BY <1>9, AroundLeaves DEF ClaimStep, ReadPolicy, MarkNodeWaiting, Execute, CompleteNode,
                              FailStep, GateWaits, RotateCredential, SetToolApprovalPolicy, CancelRun, Reap
  <2> QED
    BY <2>1 DEF RequestKnowsBarred
<1> QED
  BY <1>1, <1>3, <1>4, <1>5, <1>6, <1>7, <1>8, <1>9 DEF Next, Around

-----------------------------------------------------------------------------
(* The invariant, and what it says. *)
LEMMA ApprovalInvariant == Spec => []ApprovalInv
<1>1. Init => ApprovalInv
  <2> SUFFICES ASSUME Init PROVE ApprovalInv
    OBVIOUS
  <2>1. \A w \in Worker : claim[w].phase = "idle" /\ claim[w].request = 0
    BY DEF Init, Idle
  <2>2. DOMAIN requests = {} /\ DOMAIN executed = {}
    BY DEF Init
  <2> QED
    BY <2>1, <2>2, TypesInit DEF ApprovalInv, ClearanceIsBacked, ClearanceIsUnique,
                                 CallsAreBacked, RequestKnowsBarred
<1>2. ApprovalInv /\ [Next]_vars => ApprovalInv'
  BY TypesStep, ClearanceStep, BarredStep DEF ApprovalInv
<1> QED
  BY <1>1, <1>2, PTL DEF Spec

(* The tool step's state keeps its types: at most one approval request is    *)
(* ever live (the unique index GetLiveToolApproval relies on is never hit).  *)
THEOREM ApprovalsAreTyped == Spec => []TypeOK
<1>1. ApprovalInv => TypeOK
  BY DEF ApprovalInv, ApprovalTypes
<1> QED
  BY <1>1, ApprovalInvariant, PTL

(* One human decision per tool execution: every gated call ran on a spent    *)
(* approval of exactly that call, and no two calls on the same one, whatever *)
(* workers were reaped, steps retried or redriven and credentials rotated    *)
(* in between (gateToolCall).                                                *)
THEOREM CallsAreApproved == Spec => []EachCallIsApproved
<1>1. ApprovalInv => EachCallIsApproved
  BY DEF ApprovalInv, CallsAreBacked, Backs, EachCallIsApproved
<1> QED
  BY <1>1, ApprovalInvariant, PTL

(* Nobody approves a call they caused: whoever starts the run or redrives    *)
(* the step is a requester of every request that can still be decided.       *)
THEOREM ApproversAreOthers == Spec => []NoSelfApproval
<1>1. ApprovalInv => NoSelfApproval
  BY DEF ApprovalInv, RequestKnowsBarred, NoSelfApproval
<1> QED
  BY <1>1, ApprovalInvariant, PTL

=============================================================================
