-------------------------- MODULE RunEngineProofs --------------------------
(***************************************************************************)
(* Theorems about RunEngine, for every workflow, every number of workers,  *)
(* every retry policy and every bound: the order and finality of work,     *)
(* what a run's status says of its rows and its recovery cases, what a     *)
(* claim says of its queue publication, the engine as an implementation    *)
(* of RunContract, the decisions of routers, the clocks of waits, dead     *)
(* letters and their credit, and that a running run has something to run;  *)
(* and about DownstreamScan, that the loop of scheduleDownstream computes  *)
(* the closed form RunEngine schedules with.                               *)
(***************************************************************************)
EXTENDS RunEngine, DownstreamScan, TLAPS

StatusMap == [Node -> NodeStatus]
CaseMap   == [Node -> {"none", "quarantine", "observe", "monitoring", "closed"}]

-----------------------------------------------------------------------------
(***************************************************************************)
(* What the pieces of the transactions return.                             *)
(***************************************************************************)
\* The scan maps node statuses to node statuses.
LEMMA ScannedType ==
    ASSUME NEW st \in StatusMap
    PROVE  /\ Scanned(Edge, st, holds) \in StatusMap
           /\ QueueSet(Edge, st, holds) \subseteq Node
BY DEF Scanned, QueueSet, SkipSet, Pending, StatusMap, NodeStatus

\* A terminal flip keeps the types of what it writes.
LEMMA FlipType ==
    ASSUME NEW status \in RunStatus, NEW st \in StatusMap,
           NEW att \in [Node -> Nat], NEW cs \in CaseMap,
           FlipRunTerminal(status, st, att, cs)
    PROVE  /\ run' \in RunStatus /\ node' \in StatusMap
           /\ attempts' \in [Node -> Nat] /\ cases' \in CaseMap
BY DEF FlipRunTerminal, Demoted, Finalized, StatusMap, NodeStatus, CaseMap, RunStatus

\* So does the scheduling of downstream work.
LEMMA ScheduleType ==
    ASSUME TypeOK, NEW r \in RunStatus, NEW st \in StatusMap, NEW cs \in CaseMap,
           ScheduleDownstream(r, st, cs)
    PROVE  /\ run' \in RunStatus /\ node' \in StatusMap
           /\ attempts' \in [Node -> Nat] /\ generation' \in [Node -> Nat]
           /\ cases' \in CaseMap
<1> DEFINE ready == QueueSet(Edge, st, holds)
           after == Scanned(Edge, st, holds)
           flip  == IF ready # {} THEN "running" ELSE RolledUp(after)
           att   == [n \in Node |-> IF n \in ready THEN 1 ELSE attempts[n]]
<1>1. CASE r # "running"
  BY <1>1 DEF ScheduleDownstream, TypeOK
<1>2. CASE r = "running"
  <2>1. after \in StatusMap
    BY ScannedType
  <2>2. flip \in RunStatus
    BY DEF RolledUp, RunStatus
  <2>3. att \in [Node -> Nat]
    BY DEF TypeOK
  <2>4. FlipRunTerminal(flip, after, att, cs)
    BY <1>2 DEF ScheduleDownstream
  <2>5. generation' \in [Node -> Nat]
    BY <1>2 DEF ScheduleDownstream, TypeOK
  <2> HIDE DEF ready, after, flip, att
  <2> QED
    BY <2>1, <2>2, <2>3, <2>4, <2>5, FlipType
<1> QED
  BY <1>1, <1>2

-----------------------------------------------------------------------------
(***************************************************************************)
(* Type correctness.                                                       *)
(***************************************************************************)
\* A claim that is not idle names a node.
LEMMA ClaimNamesNode ==
    ASSUME TypeOK, NEW w \in Worker, claim[w].phase # "idle"
    PROVE  claim[w] \in Claim
BY DEF TypeOK, IdleClaim

\* Acknowledging a commit, or preparing its replay, keeps claims well formed.
LEMMA AcknowledgedType ==
    ASSUME TypeOK, NEW w \in Worker, NEW o \in Outcome, Reports(w, o), Acknowledged(w, o)
    PROVE  /\ claim' \in [Worker -> Claim \cup {IdleClaim}]
           /\ replays' \in Nat
<1>1. claim[w] \in Claim
  BY ClaimNamesNode DEF Reports
<1>2. CASE claim' = [claim EXCEPT ![w] = IdleClaim] /\ UNCHANGED replays
  BY <1>2 DEF TypeOK
<1>3. CASE /\ replays' = replays + 1
           /\ claim' = [claim EXCEPT ![w] = Replaying(claim[w], o)]
  <2>1. Replaying(claim[w], o) \in Claim
    BY <1>1 DEF Claim, Replaying
  <2> QED
    BY <1>3, <2>1 DEF TypeOK
<1> QED
  BY <1>2, <1>3 DEF Acknowledged

\* A completing node leaves rows, cases, clocks and claims well formed.
LEMMA CompleteNodeType ==
    ASSUME TypeOK, NEW w \in Worker, NEW v \in {"none", "quarantine", "observe"},
           NEW c \in Node \cup {NoNode}, CompleteNode(w, v, c)
    PROVE  TypeOK'
<1> DEFINE n  == claim[w].node
           cs == IF v = "none" THEN cases ELSE [cases EXCEPT ![n] = v]
           st == Skipping([node EXCEPT ![n] = "succeeded"], Losers(n, c))
<1>1. n \in Node
  BY ClaimNamesNode DEF CompleteNode, Reports, Claim
<1>2. cs \in CaseMap
  BY <1>1 DEF TypeOK, CaseMap
<1>3. st \in StatusMap
  BY <1>1 DEF TypeOK, StatusMap, NodeStatus, Skipping
<1>4. /\ run' \in RunStatus /\ node' \in StatusMap
      /\ attempts' \in [Node -> Nat] /\ generation' \in [Node -> Nat]
      /\ cases' \in CaseMap
  <2>1. CASE Quarantined(v, cs)
    BY <2>1, <1>2, <1>3 DEF CompleteNode, TypeOK, RunStatus
  <2>2. CASE ~Quarantined(v, cs)
    <3>1. ScheduleDownstream(run, st, cs)
      BY <2>2 DEF CompleteNode
    <3>2. run \in RunStatus
      BY DEF TypeOK
    <3> HIDE DEF cs, st
    <3> QED
      BY <3>1, <3>2, <1>2, <1>3, ScheduleType
  <2> QED
    BY <2>1, <2>2
<1>5. claim' \in [Worker -> Claim \cup {IdleClaim}] /\ replays' \in Nat
  BY AcknowledgedType DEF CompleteNode, Outcome
<1>6. credited' \subseteq DeadLetterId
  BY <1>1 DEF CompleteNode, Credit, TypeOK, DeadLetterId
<1>7. /\ wakeup' \in [Node -> {"none", "retry", "wait_until", "approval_timeout"}]
      /\ due' \subseteq Node /\ chosen' \in [Node -> Node \cup {NoNode}]
  BY <1>1 DEF CompleteNode, DeleteWakeup, TypeOK
<1> QED
  BY <1>4, <1>5, <1>6, <1>7 DEF CompleteNode, TypeOK, StatusMap, CaseMap

\* So does a failing one.
LEMMA FailRunNodeType ==
    ASSUME TypeOK, NEW n \in Node, FailRunNode(n)
    PROVE  /\ run' \in RunStatus /\ node' \in StatusMap
           /\ attempts' \in [Node -> Nat] /\ generation' \in [Node -> Nat]
           /\ cases' \in CaseMap /\ deadLetters' \subseteq DeadLetter
           /\ wakeup' \in [Node -> {"none", "retry", "wait_until", "approval_timeout"}]
           /\ due' \subseteq Node
<1> DEFINE failed == [node EXCEPT ![n] = "failed"]
<1>0. /\ failed \in StatusMap /\ run \in RunStatus /\ cases \in CaseMap
      /\ attempts \in [Node -> Nat]
  BY DEF TypeOK, StatusMap, NodeStatus, CaseMap
<1>1. /\ wakeup' \in [Node -> {"none", "retry", "wait_until", "approval_timeout"}]
      /\ due' \subseteq Node
  BY DEF FailRunNode, DeleteWakeup, TypeOK
<1>2. CASE run = "running" /\ nodeFailureHandled(Edge, n)
  <2>1. ScheduleDownstream(run, failed, cases) /\ UNCHANGED deadLetters
    BY <1>2 DEF FailRunNode
  <2>2. deadLetters' \subseteq DeadLetter
    BY <2>1 DEF TypeOK
  <2> HIDE DEF failed
  <2> QED
    BY <1>0, <1>1, <2>1, <2>2, ScheduleType
<1>3. CASE ~(run = "running" /\ nodeFailureHandled(Edge, n))
  <2>0. [id |-> [node |-> n, generation |-> generation[n]], replayed |-> FALSE]
            \in DeadLetter
    BY DEF DeadLetter, DeadLetterId, TypeOK
  <2>1. deadLetters' \subseteq DeadLetter /\ generation' \in [Node -> Nat]
    BY <1>3, <2>0 DEF FailRunNode, InsertDeadLetter, TypeOK
  <2>2. CASE run = "running"
    <3>1. FlipRunTerminal("failed", failed, attempts, cases)
      BY <1>3, <2>2 DEF FailRunNode
    <3>2. "failed" \in RunStatus
      BY DEF RunStatus
    <3> HIDE DEF failed
    <3> QED
      BY <1>0, <1>1, <2>1, <3>1, <3>2, FlipType
  <2>3. CASE run # "running"
    BY <1>0, <1>1, <1>3, <2>1, <2>3 DEF FailRunNode
  <2> QED
    BY <2>2, <2>3
<1> QED
  BY <1>2, <1>3

\* Every action preserves the types.
LEMMA NextType ==
    ASSUME TypeOK, Next
    PROVE  TypeOK'
<1> USE DEF StatusMap, CaseMap
<1>1. ASSUME NEW w \in Worker, NEW n \in Node, ClaimNode(w, n)
      PROVE  TypeOK'
  <2>1. [phase |-> "executing", node |-> n, attempt |-> attempts[n],
         generation |-> generation[n], outcome |-> "none"] \in Claim
    BY DEF Claim, Outcome, TypeOK
  <2> QED
    BY <1>1, <2>1 DEF ClaimNode, TypeOK, NodeStatus, dlqVars, countVars
<1>2. ASSUME NEW w \in Worker, NEW v \in {"none", "quarantine", "observe"},
             NEW c \in Node \cup {NoNode}, CompleteNode(w, v, c)
      PROVE  TypeOK'
  BY <1>2, CompleteNodeType
<1>3. ASSUME NEW w \in Worker, MarkNodeWaiting(w)
      PROVE  TypeOK'
  <2>1. claim[w].node \in Node
    BY <1>3, ClaimNamesNode DEF MarkNodeWaiting, Reports, Claim
  <2>2. claim' \in [Worker -> Claim \cup {IdleClaim}] /\ replays' \in Nat
    BY <1>3, AcknowledgedType DEF MarkNodeWaiting, Outcome
  <2> QED
    BY <1>3, <2>1, <2>2 DEF MarkNodeWaiting, UpsertWakeup, DeleteWakeup, TypeOK,
                            NodeStatus, dlqVars
<1>4. ASSUME NEW w \in Worker, RetryNode(w)
      PROVE  TypeOK'
  <2>1. claim[w].node \in Node /\ claim[w].attempt \in Nat
    BY <1>4, ClaimNamesNode DEF RetryNode, Reports, Claim
  <2>2. claim' \in [Worker -> Claim \cup {IdleClaim}] /\ replays' \in Nat
    BY <1>4, AcknowledgedType DEF RetryNode, Outcome
  <2> QED
    BY <1>4, <2>1, <2>2 DEF RetryNode, NextGeneration, UpsertWakeup, TypeOK,
                            NodeStatus, dlqVars
<1>5. ASSUME NEW w \in Worker, NEW o \in Outcome, FailNode(w, o)
      PROVE  TypeOK'
  <2>1. claim[w].node \in Node
    BY <1>5, ClaimNamesNode DEF FailNode, Reports, Claim
  <2>2. claim' \in [Worker -> Claim \cup {IdleClaim}] /\ replays' \in Nat
    BY <1>5, AcknowledgedType DEF FailNode
  <2>3. FailRunNode(claim[w].node)
    BY <1>5 DEF FailNode
  <2>4. UNCHANGED <<escalated, chosen, holds, recoveryClaim, credited, stalled,
                    listed, redrives>>
    BY <1>5 DEF FailNode, FailRunNode
  <2> QED
    BY <2>1, <2>2, <2>3, <2>4, FailRunNodeType DEF TypeOK
<1>6. ASSUME NEW w \in Worker, NEW o \in Outcome, SkipCommit(w, o)
      PROVE  TypeOK'
  BY <1>6 DEF SkipCommit, TypeOK, runVars, dlqVars, countVars
<1>7. ASSUME NEW w \in Worker, Crash(w)
      PROVE  TypeOK'
  BY <1>7 DEF Crash, TypeOK, runVars, dlqVars, countVars
<1>8. ASSUME NEW n \in Node, ReaperScan(n)
      PROVE  TypeOK'
  BY <1>8 DEF ReaperScan, TypeOK, DeadLetterId, runVars, dlqVars, countVars
<1>9. ASSUME NEW c \in stalled, Reap(c)
      PROVE  TypeOK'
  <2>1. c.node \in Node
    BY DEF TypeOK, DeadLetterId
  <2>2. CASE FailRunNode(c.node)
    <3>1. UNCHANGED <<escalated, chosen, holds, recoveryClaim, credited, claim,
                      listed, redrives, replays>>
      BY <1>9, <2>2 DEF Reap, FailRunNode, countVars
    <3> QED
      BY <1>9, <2>1, <2>2, <3>1, FailRunNodeType DEF Reap, TypeOK
  <2>3. CASE UNCHANGED <<runVars, holds, dlqVars>>
    BY <1>9, <2>3 DEF Reap, TypeOK, runVars, dlqVars, countVars
  <2> QED
    BY <1>9, <2>2, <2>3 DEF Reap
<1>10. ASSUME NEW n \in Node, Clock(n)
       PROVE  TypeOK'
  BY <1>10 DEF Clock, TypeOK, dlqVars, countVars
<1>11. ASSUME SweepDueWakeups
       PROVE  TypeOK'
  BY <1>11 DEF SweepDueWakeups, TypeOK, dlqVars, countVars
<1>12. ASSUME NEW n \in Node, ListDueWakeup(n)
       PROVE  TypeOK'
  BY <1>12 DEF ListDueWakeup, TypeOK, runVars, dlqVars, countVars
<1>13. ASSUME NEW n \in Node, ResumeNode(n),
              listed' \subseteq [node : Node, reason : {"wait_until", "approval_timeout"},
                                 deadline : Nat]
       PROVE  TypeOK'
  <2>1. [node EXCEPT ![n] = "succeeded"] \in StatusMap
    BY DEF TypeOK, NodeStatus
  <2>2. /\ run \in RunStatus /\ cases \in CaseMap
        /\ ScheduleDownstream(run, [node EXCEPT ![n] = "succeeded"], cases)
    BY <1>13 DEF ResumeNode, TypeOK
  <2>3. /\ run' \in RunStatus /\ node' \in StatusMap
        /\ attempts' \in [Node -> Nat] /\ generation' \in [Node -> Nat]
        /\ cases' \in CaseMap
    BY <2>1, <2>2, ScheduleType
  <2> QED
    BY <1>13, <2>3 DEF ResumeNode, DeleteWakeup, TypeOK, dlqVars, countVars
<1>14. ASSUME NEW l \in listed, TimerFires(l)
       PROVE  TypeOK'
  <2>1. /\ l.node \in Node
        /\ listed' \subseteq [node : Node, reason : {"wait_until", "approval_timeout"},
                              deadline : Nat]
    BY <1>14 DEF TimerFires, Processed, TypeOK
  <2>2. CASE ResumeNode(l.node)
    BY <2>1, <2>2, <1>13
  <2>3. CASE UNCHANGED <<runVars, holds, dlqVars, claim, stalled, countVars>>
    BY <2>1, <2>3 DEF TypeOK, runVars, dlqVars, countVars
  <2> QED
    BY <1>14, <2>2, <2>3 DEF TimerFires
<1>15. ASSUME NEW l \in listed, ApprovalTimeout(l)
       PROVE  TypeOK'
  <2>1. /\ l.node \in Node
        /\ listed' \subseteq [node : Node, reason : {"wait_until", "approval_timeout"},
                              deadline : Nat]
    BY <1>15 DEF ApprovalTimeout, Processed, TypeOK
  <2>2. UNCHANGED <<holds, dlqVars, claim, stalled, countVars>>
    BY <1>15 DEF ApprovalTimeout
  <2>3. CASE FlipRunTerminal("failed", [node EXCEPT ![l.node] = "failed"], attempts, cases)
    <3>1. /\ "failed" \in RunStatus /\ [node EXCEPT ![l.node] = "failed"] \in StatusMap
          /\ attempts \in [Node -> Nat] /\ cases \in CaseMap
      BY <2>1 DEF TypeOK, RunStatus, NodeStatus
    <3>2. /\ run' \in RunStatus /\ node' \in StatusMap
          /\ attempts' \in [Node -> Nat] /\ cases' \in CaseMap
      BY <2>3, <3>1, FlipType
    <3>3. UNCHANGED <<generation, chosen>> \/ UNCHANGED runVars
      BY <1>15 DEF ApprovalTimeout
    <3>4. escalated' \subseteq Node /\ due' \subseteq Node
      BY <1>15, <2>1 DEF ApprovalTimeout, DeleteWakeup, TypeOK, runVars
    <3>5. wakeup' \in [Node -> {"none", "retry", "wait_until", "approval_timeout"}]
      BY <1>15, <2>1 DEF ApprovalTimeout, DeleteWakeup, TypeOK, runVars
    <3> QED
      BY <2>1, <2>2, <3>2, <3>3, <3>4, <3>5 DEF TypeOK, runVars, dlqVars, countVars
  <2>4. CASE UNCHANGED runVars
    BY <2>1, <2>2, <2>4 DEF TypeOK, runVars, dlqVars, countVars
  <2>5. CASE /\ UNCHANGED <<run, node, attempts, generation, chosen, cases>>
             /\ escalated' \subseteq Node
             /\ wakeup' \in [Node -> {"none", "retry", "wait_until", "approval_timeout"}]
             /\ due' \subseteq Node
    BY <2>1, <2>2, <2>5 DEF TypeOK, dlqVars, countVars
  <2> QED
    BY <1>15, <2>1, <2>3, <2>4, <2>5 DEF ApprovalTimeout, DeleteWakeup, TypeOK
<1>16. ASSUME CancelRun
       PROVE  TypeOK'
  BY <1>16 DEF CancelRun, Finalized, TypeOK, RunStatus, NodeStatus, dlqVars, countVars
<1>17. ASSUME NEW n \in Node, ResumeRun(n)
       PROVE  TypeOK'
  BY <1>13, <1>17 DEF ResumeRun, TypeOK
<1>18. ASSUME NEW n \in Node, Revive(n),
              deadLetters' \subseteq DeadLetter, recoveryClaim' \in [Node -> Nat]
       PROVE  TypeOK'
  BY <1>18 DEF Revive, Revived, NextGeneration, TypeOK, RunStatus, NodeStatus
<1>19. ASSUME NEW n \in Node, RedriveRunNode(n)
       PROVE  TypeOK'
  BY <1>18, <1>19 DEF RedriveRunNode, TypeOK
<1>20. ASSUME NEW d \in deadLetters, RedriveDeadLetter(d)
       PROVE  TypeOK'
  <2>1. d.id.node \in Node /\ d.id.generation \in Nat
    BY DEF TypeOK, DeadLetter, DeadLetterId
  <2>2. [id |-> d.id, replayed |-> TRUE] \in DeadLetter
    BY DEF TypeOK, DeadLetter
  <2>3. Revive(d.id.node) /\ recoveryClaim' \in [Node -> Nat]
    BY <1>20, <2>1 DEF RedriveDeadLetter, TypeOK
  <2>4. deadLetters' \subseteq DeadLetter
    BY <1>20, <2>2 DEF RedriveDeadLetter, TypeOK
  <2> QED
    BY <1>18, <2>1, <2>3, <2>4
<1>21. ASSUME NEW n \in Node, NEW decision \in {"replace", "accept_loss"},
              ResolveCase(n, decision)
       PROVE  TypeOK'
  <2> DEFINE cs == [cases EXCEPT ![n] =
                      IF decision = "replace" THEN "monitoring" ELSE "closed"]
  <2>1. cs \in CaseMap /\ node \in StatusMap /\ "running" \in RunStatus
    BY DEF TypeOK, RunStatus
  <2>2. \/ ScheduleDownstream("running", node, cs)
        \/ cases' = cs /\ UNCHANGED <<run, node, attempts, generation>>
    BY <1>21 DEF ResolveCase
  <2>3. /\ run' \in RunStatus /\ node' \in StatusMap
        /\ attempts' \in [Node -> Nat] /\ generation' \in [Node -> Nat]
        /\ cases' \in CaseMap
    <3>1. CASE ScheduleDownstream("running", node, cs)
      <4> HIDE DEF cs
      <4> QED BY <2>1, <3>1, ScheduleType
    <3>2. CASE cases' = cs /\ UNCHANGED <<run, node, attempts, generation>>
      BY <2>1, <3>2 DEF TypeOK
    <3> QED
      BY <2>2, <3>1, <3>2
  <2>4. credited' \subseteq DeadLetterId
    BY <1>21 DEF ResolveCase, Credit, TypeOK, DeadLetterId
  <2> QED
    BY <1>21, <2>3, <2>4 DEF ResolveCase, TypeOK, countVars
<1> QED
  BY <1>1, <1>2, <1>3, <1>4, <1>5, <1>6, <1>7, <1>8, <1>9, <1>10, <1>11, <1>12,
     <1>14, <1>15, <1>16, <1>17, <1>19, <1>20, <1>21
     DEF Next, Commit, Sweep, Operator

\* A stuttering step changes no variable.
LEMMA StutterType ==
    ASSUME TypeOK, UNCHANGED vars
    PROVE  TypeOK'
BY DEF TypeOK, vars, runVars, dlqVars, countVars

\* A started run is well formed.
LEMMA InitType == Init => TypeOK
BY NodeAssumption, EdgeAssumption
   DEF Init, TypeOK, RunStatus, NodeStatus, EdgeSpace, IdleClaim

(***************************************************************************)
(* The rows of a run always hold values of their types: no interleaving of *)
(* workers, sweeps, reaper and operators writes a status that the scan or  *)
(* a compare-and-set does not know.                                        *)
(***************************************************************************)
THEOREM TypeCorrect == Spec => []TypeOK
<1>1. TypeOK /\ [Next]_vars => TypeOK'
  BY NextType, StutterType
<1> QED
  BY InitType, <1>1, PTL DEF Spec

-----------------------------------------------------------------------------
(***************************************************************************)
(* What scheduling does to node statuses and to the run.                   *)
(***************************************************************************)
Ordered(st) ==
    \A e \in Edge : ~e.onError /\ st[e.to] \in Started => st[e.from] \in Fulfilled

\* The scan decides pending nodes only.
LEMMA ScanDecidesPending ==
    ASSUME NEW st \in StatusMap, NEW n \in Node
    PROVE  /\ st[n] # "pending" => Scanned(Edge, st, holds)[n] = st[n]
           /\ st[n] = "pending" =>
                Scanned(Edge, st, holds)[n] \in {"pending", "queued", "skipped"}
           /\ Scanned(Edge, st, holds)[n] = "queued" =>
                st[n] = "queued" \/ n \in QueueSet(Edge, st, holds)
BY DEF Scanned, QueueSet, SkipSet, Pending, StatusMap

\* A node the scan queues has its normal predecessors finished, in the statuses
\* the scan leaves behind.
LEMMA ScanKeepsOrder ==
    ASSUME NEW st \in StatusMap, Ordered(st)
    PROVE  Ordered(Scanned(Edge, st, holds))
<1> DEFINE after == Scanned(Edge, st, holds)
           skips == SkipSet(Edge, st, holds)
<1> SUFFICES ASSUME NEW e \in Edge, ~e.onError, after[e.to] \in Started
             PROVE  after[e.from] \in Fulfilled
  BY DEF Ordered
<1>0. e.from \in Node /\ e.to \in Node /\ e \in Incoming(Edge, e.to)
  BY EdgeAssumption DEF EdgeSpace, Incoming
<1>1. CASE st[e.to] \in Started
  <2>1. st[e.from] \in Fulfilled
    BY <1>1 DEF Ordered
  <2>2. st[e.from] # "pending"
    BY <2>1 DEF Fulfilled
  <2>3. after[e.from] = st[e.from]
    BY <1>0, <2>2, ScanDecidesPending
  <2> QED
    BY <2>1, <2>3
<1>2. CASE st[e.to] \notin Started
  <2>1. e.to \in QueueSet(Edge, st, holds)
    BY <1>0, <1>2, ScanDecidesPending DEF Started
  <2>2. depsSatisfied(Edge, e.to, Skipping(st, skips))
    BY <2>1 DEF QueueSet
  <2>3. Skipping(st, skips)[e.from] \in Fulfilled
    BY <1>0, <2>2 DEF depsSatisfied
  <2>4. CASE e.from \in skips
    BY <1>0, <2>4 DEF Scanned, Fulfilled
  <2>5. CASE e.from \notin skips
    <3>1. st[e.from] \in Fulfilled
      BY <1>0, <2>3, <2>5 DEF Skipping
    <3>2. after[e.from] = st[e.from]
      BY <1>0, <3>1, ScanDecidesPending DEF Fulfilled
    <3> QED
      BY <3>1, <3>2
  <2> QED
    BY <2>4, <2>5
<1> QED
  BY <1>1, <1>2

\* A terminal flip undoes queue entries at most.
LEMMA FlipEffect ==
    ASSUME NEW status \in RunStatus, NEW st \in StatusMap, NEW att, NEW cs \in CaseMap,
           FlipRunTerminal(status, st, att, cs)
    PROVE  /\ run' = status
           /\ \A n \in Node :
                /\ st[n] # "queued" => node'[n] = st[n]
                /\ st[n] = "queued" => node'[n] \in {"queued", "pending"}
           /\ status # "failed" => node' = st
           /\ Ordered(st) => Ordered(node')
           /\ \A n \in Node : cases'[n] = "quarantine" <=> cs[n] = "quarantine"
<1>1. /\ run' = status
      /\ \A n \in Node :
           /\ st[n] # "queued" => node'[n] = st[n]
           /\ st[n] = "queued" => node'[n] \in {"queued", "pending"}
      /\ status # "failed" => node' = st
  BY DEF FlipRunTerminal, Demoted
<1>2. ASSUME Ordered(st) PROVE Ordered(node')
  <2> SUFFICES ASSUME NEW e \in Edge, ~e.onError, node'[e.to] \in Started
               PROVE  node'[e.from] \in Fulfilled
    BY DEF Ordered
  <2>1. e.from \in Node /\ e.to \in Node
    BY EdgeAssumption DEF EdgeSpace
  <2>2. st[e.to] \in Started
    BY <1>1, <2>1 DEF Started
  <2>3. st[e.from] \in Fulfilled
    BY <1>2, <2>2 DEF Ordered
  <2> QED
    BY <1>1, <2>1, <2>3 DEF Fulfilled
<1>3. \A n \in Node : cases'[n] = "quarantine" <=> cs[n] = "quarantine"
  BY DEF FlipRunTerminal, Finalized
<1> QED
  BY <1>1, <1>2, <1>3

\* What scheduling leaves behind: an untouched run when it does not run; else
\* pending rows decided, queued rows kept or demoted, everything else as it was,
\* success only with nothing open, and a new generation for what it queues.
LEMMA ScheduleEffect ==
    ASSUME TypeOK, NEW r \in RunStatus, NEW st \in StatusMap, NEW cs \in CaseMap,
           ScheduleDownstream(r, st, cs)
    PROVE  /\ r # "running" => /\ run' = r /\ node' = st /\ cases' = cs
                               /\ UNCHANGED <<attempts, generation>>
           /\ run' = "succeeded" /\ r = "running" =>
                \A n \in Node : node'[n] \notin openNodeStatuses
           /\ r = "running" => run' \in {"running", "failed", "succeeded"}
           /\ \A n \in Node :
                /\ st[n] \notin {"pending", "queued"} => node'[n] = st[n]
                /\ st[n] = "pending" => node'[n] \in {"pending", "queued", "skipped"}
                /\ st[n] = "queued" => node'[n] \in {"queued", "pending"}
           /\ Ordered(st) => Ordered(node')
           /\ \A n \in Node : cases'[n] = "quarantine" <=> cs[n] = "quarantine"
           /\ \A n \in Node :
                /\ generation'[n] >= generation[n]
                /\ node'[n] = "queued" => st[n] = "queued" \/ generation'[n] > generation[n]
                /\ generation'[n] = generation[n] /\ st[n] \notin {"pending", "queued"}
                      => node'[n] \notin {"pending", "queued"}
<1> DEFINE ready == QueueSet(Edge, st, holds)
           after == Scanned(Edge, st, holds)
           flip  == IF ready # {} THEN "running" ELSE RolledUp(after)
           att   == [n \in Node |-> IF n \in ready THEN 1 ELSE attempts[n]]
<1>0. generation \in [Node -> Nat]
  BY DEF TypeOK
<1>1. CASE r # "running"
  <2>1. run' = r /\ node' = st /\ cases' = cs /\ UNCHANGED <<attempts, generation>>
    BY <1>1 DEF ScheduleDownstream
  <2> QED
    BY <1>0, <1>1, <2>1
<1>2. CASE r = "running"
  <2>1. after \in StatusMap
    BY ScannedType
  <2>2. flip \in {"running", "failed", "succeeded"}
    BY DEF RolledUp
  <2>3. FlipRunTerminal(flip, after, att, cs)
    BY <1>2 DEF ScheduleDownstream
  <2>4. /\ run' = flip
        /\ \A n \in Node :
             /\ after[n] # "queued" => node'[n] = after[n]
             /\ after[n] = "queued" => node'[n] \in {"queued", "pending"}
        /\ flip # "failed" => node' = after
        /\ Ordered(after) => Ordered(node')
        /\ \A n \in Node : cases'[n] = "quarantine" <=> cs[n] = "quarantine"
    <3>1. flip \in RunStatus
      BY <2>2 DEF RunStatus
    <3> HIDE DEF flip, after, att
    <3> QED
      BY <2>1, <2>3, <3>1, FlipEffect
  <2>5. ASSUME run' = "succeeded"
        PROVE  \A n \in Node : node'[n] \notin openNodeStatuses
    BY <2>4, <2>5 DEF RolledUp
  <2>6. ASSUME NEW n \in Node
        PROVE  /\ st[n] \notin {"pending", "queued"} => node'[n] = st[n]
               /\ st[n] = "pending" => node'[n] \in {"pending", "queued", "skipped"}
               /\ st[n] = "queued" => node'[n] \in {"queued", "pending"}
    <3>1. /\ st[n] # "pending" => after[n] = st[n]
          /\ st[n] = "pending" => after[n] \in {"pending", "queued", "skipped"}
      BY ScanDecidesPending
    <3> HIDE DEF after
    <3> QED
      BY <2>4, <3>1
  <2>7. Ordered(st) => Ordered(node')
    BY <2>4, ScanKeepsOrder
  <2>8. ASSUME NEW n \in Node
        PROVE  /\ generation'[n] >= generation[n]
               /\ node'[n] = "queued" => st[n] = "queued" \/ generation'[n] > generation[n]
    <3>1. generation'[n] = IF n \in ready THEN generation[n] + 1 ELSE generation[n]
      BY <1>2 DEF ScheduleDownstream
    <3>2. after[n] = "queued" => st[n] = "queued" \/ n \in ready
      BY ScanDecidesPending
    <3>3. node'[n] = "queued" => after[n] = "queued"
      BY <2>4
    <3> QED
      BY <1>0, <3>1, <3>2, <3>3
  <2> HIDE DEF ready, after, flip, att
  <2> QED
    BY <1>2, <2>2, <2>4, <2>5, <2>6, <2>7, <2>8
<1> QED
  BY <1>1, <1>2
-----------------------------------------------------------------------------
(***************************************************************************)
(* The order of work.  DependenciesFirst is inductive with the types: a    *)
(* node enters Started through the scan only, every other step moves a row *)
(* that is already in Started or leaves it, and no step takes a row out of *)
(* Fulfilled.                                                              *)
(***************************************************************************)
\* One row moves along its lifecycle.
Moves(was, after) ==
    \/ after = was
    \/ was = "pending" /\ after \in {"queued", "skipped", "cancelled"}
    \/ was = "queued"  /\ after \in {"running", "pending", "cancelled"}
    \/ was = "running" /\ after \in {"succeeded", "failed", "waiting", "queued"}
    \/ was = "waiting" /\ after \in {"succeeded", "failed", "cancelled"}
    \/ was = "failed"  /\ after = "queued"

\* A scan, and the flip after it, moves rows along their lifecycle.
LEMMA ScheduleMoves ==
    ASSUME TypeOK, NEW r \in RunStatus, NEW st \in StatusMap, NEW cs \in CaseMap,
           ScheduleDownstream(r, st, cs),
           NEW n \in Node, NEW x,
           Moves(x, st[n]), st[n] \in {"pending", "queued"} => x = st[n]
    PROVE  Moves(x, node'[n])
<1>1. /\ st[n] \notin {"pending", "queued"} => node'[n] = st[n]
      /\ st[n] = "pending" => node'[n] \in {"pending", "queued", "skipped"}
      /\ st[n] = "queued" => node'[n] \in {"queued", "pending"}
  BY ScheduleEffect
<1> QED
  BY <1>1 DEF Moves

\* A change of one started row into another started or finished status.
LEMMA MoveKeepsOrder ==
    ASSUME node \in StatusMap, Ordered(node), NEW n \in Node, NEW x \in NodeStatus,
           node[n] \in Started, node[n] \notin Fulfilled
    PROVE  Ordered([node EXCEPT ![n] = x])
<1> SUFFICES ASSUME NEW e \in Edge, ~e.onError, [node EXCEPT ![n] = x][e.to] \in Started
             PROVE  [node EXCEPT ![n] = x][e.from] \in Fulfilled
  BY DEF Ordered
<1>1. e.from \in Node /\ e.to \in Node
  BY EdgeAssumption DEF EdgeSpace
<1>2. node[e.to] \in Started
  BY <1>1 DEF StatusMap
<1>3. node[e.from] \in Fulfilled
  BY <1>2 DEF Ordered
<1> QED
  BY <1>1, <1>3 DEF StatusMap

\* Every action keeps the order of work and moves rows along their lifecycle.
LEMMA NextKeepsOrder ==
    ASSUME TypeOK, Ordered(node), Next
    PROVE  Ordered(node') /\ \A n \in Node : Moves(node[n], node'[n])
<1> USE DEF StatusMap, CaseMap
<1> DEFINE Goal == Ordered(node') /\ \A n \in Node : Moves(node[n], node'[n])
<1>0. node \in StatusMap /\ run \in RunStatus /\ cases \in CaseMap
  BY DEF TypeOK
<1>a. ASSUME node' = node PROVE Goal
  BY <1>a DEF Moves
<1>b. ASSUME NEW n \in Node, NEW x \in NodeStatus, node' = [node EXCEPT ![n] = x],
             node[n] \in Started, node[n] \notin Fulfilled, Moves(node[n], x)
      PROVE  Goal
  <2>1. Ordered(node')
    BY <1>0, <1>b, MoveKeepsOrder
  <2>2. \A m \in Node : Moves(node[m], node'[m])
    BY <1>0, <1>b DEF Moves
  <2> QED
    BY <2>1, <2>2
<1>c. ASSUME NEW r \in RunStatus, NEW st \in StatusMap, NEW cs \in CaseMap,
             ScheduleDownstream(r, st, cs), Ordered(st),
             \A n \in Node : /\ Moves(node[n], st[n])
                             /\ st[n] \in {"pending", "queued"} => node[n] = st[n]
      PROVE  Goal
  BY <1>c, ScheduleEffect, ScheduleMoves
<1>1. ASSUME NEW w \in Worker, NEW n \in Node, ClaimNode(w, n)
      PROVE  Goal
  <2>1. /\ node' = [node EXCEPT ![n] = "running"] /\ node[n] = "queued"
    BY <1>1 DEF ClaimNode
  <2> QED
    BY <1>b, <2>1 DEF Started, Fulfilled, Moves, NodeStatus
<1>2. ASSUME NEW w \in Worker, NEW v \in {"none", "quarantine", "observe"},
             NEW c \in Node \cup {NoNode}, CompleteNode(w, v, c)
      PROVE  Goal
  <2> DEFINE n  == claim[w].node
             cs == IF v = "none" THEN cases ELSE [cases EXCEPT ![n] = v]
             mid == [node EXCEPT ![n] = "succeeded"]
             st == Skipping(mid, Losers(n, c))
  <2>1. n \in Node /\ node[n] = "running"
    BY <1>2, ClaimNamesNode DEF CompleteNode, Reports, Claim, StillRunning
  <2>2. cs \in CaseMap /\ st \in StatusMap
    BY <1>0, <2>1 DEF NodeStatus, Skipping
  <2>3. \A m \in Losers(n, c) : m \in Node /\ node[m] = "pending"
    BY KindAssumption, <2>1 DEF Losers
  <2>4. \A m \in Node : /\ Moves(node[m], st[m])
                        /\ st[m] \in {"pending", "queued"} => node[m] = st[m]
    BY <1>0, <2>1, <2>3 DEF Moves, Skipping
  <2>5. Ordered(st)
    <3>1. Ordered(mid)
      BY <1>0, <2>1, MoveKeepsOrder DEF Started, Fulfilled, NodeStatus
    <3> SUFFICES ASSUME NEW e \in Edge, ~e.onError, st[e.to] \in Started
                 PROVE  st[e.from] \in Fulfilled
      BY DEF Ordered
    <3>2. e.from \in Node /\ e.to \in Node
      BY EdgeAssumption DEF EdgeSpace
    <3>3. mid[e.to] \in Started
      BY <3>2 DEF Skipping, Started
    <3>4. mid[e.from] \in Fulfilled
      BY <3>1, <3>3 DEF Ordered
    <3> QED
      BY <3>2, <3>4 DEF Skipping, Fulfilled
  <2>6. CASE Quarantined(v, cs)
    <3>1. node' = st
      BY <1>2, <2>6 DEF CompleteNode
    <3> HIDE DEF st
    <3> QED
      BY <2>4, <2>5, <3>1
  <2>7. CASE ~Quarantined(v, cs)
    <3>1. ScheduleDownstream(run, st, cs)
      BY <1>2, <2>7 DEF CompleteNode
    <3> HIDE DEF st, cs
    <3> QED
      BY <1>0, <1>c, <2>2, <2>4, <2>5, <3>1
  <2> QED
    BY <2>6, <2>7
<1>3. ASSUME NEW w \in Worker, MarkNodeWaiting(w)
      PROVE  Goal
  <2>1. /\ claim[w].node \in Node /\ node[claim[w].node] = "running"
        /\ node' = [node EXCEPT ![claim[w].node] = "waiting"]
    BY <1>3, ClaimNamesNode DEF MarkNodeWaiting, Reports, Claim, StillRunning
  <2> QED
    BY <1>b, <2>1 DEF Started, Fulfilled, Moves, NodeStatus
<1>4. ASSUME NEW w \in Worker, RetryNode(w)
      PROVE  Goal
  <2>1. /\ claim[w].node \in Node /\ node[claim[w].node] = "running"
        /\ node' = [node EXCEPT ![claim[w].node] = "queued"]
    BY <1>4, ClaimNamesNode DEF RetryNode, Reports, Claim, StillRunning
  <2> QED
    BY <1>b, <2>1 DEF Started, Fulfilled, Moves, NodeStatus
<1>5. ASSUME NEW n \in Node, FailRunNode(n)
      PROVE  Goal
  <2> DEFINE failed == [node EXCEPT ![n] = "failed"]
  <2>1. node[n] = "running"
    BY <1>5 DEF FailRunNode, StillRunning
  <2>2. Ordered(failed) /\ failed \in StatusMap
    BY <1>0, <2>1, MoveKeepsOrder DEF Started, Fulfilled, NodeStatus
  <2>3. \A m \in Node : /\ Moves(node[m], failed[m])
                        /\ failed[m] \in {"pending", "queued"} => node[m] = failed[m]
    BY <1>0, <2>1 DEF Moves
  <2>4. \/ ScheduleDownstream(run, failed, cases)
        \/ FlipRunTerminal("failed", failed, attempts, cases)
        \/ node' = failed
    BY <1>5 DEF FailRunNode
  <2> HIDE DEF failed
  <2>5. CASE ScheduleDownstream(run, failed, cases)
    BY <1>0, <1>c, <2>2, <2>3, <2>5
  <2>6. CASE FlipRunTerminal("failed", failed, attempts, cases)
    <3>1. /\ Ordered(node')
          /\ \A m \in Node : /\ failed[m] # "queued" => node'[m] = failed[m]
                             /\ failed[m] = "queued" => node'[m] \in {"queued", "pending"}
      BY <1>0, <2>2, <2>6, FlipEffect DEF RunStatus
    <3> QED
      BY <2>3, <3>1 DEF Moves
  <2>7. CASE node' = failed
    BY <2>2, <2>3, <2>7
  <2> QED
    BY <2>4, <2>5, <2>6, <2>7
<1>6. ASSUME NEW w \in Worker, NEW o \in Outcome, FailNode(w, o)
      PROVE  Goal
  BY <1>5, <1>6, ClaimNamesNode DEF FailNode, Reports, Claim
<1>7. ASSUME NEW c \in stalled, Reap(c)
      PROVE  Goal
  <2>1. c.node \in Node
    BY DEF TypeOK, DeadLetterId
  <2>2. FailRunNode(c.node) \/ node' = node
    BY <1>7 DEF Reap, runVars
  <2> QED
    BY <1>a, <1>5, <2>1, <2>2
<1>8. ASSUME NEW n \in Node, ResumeNode(n)
      PROVE  Goal
  <2> DEFINE st == [node EXCEPT ![n] = "succeeded"]
  <2>1. node[n] = "waiting" /\ ScheduleDownstream(run, st, cases)
    BY <1>8 DEF ResumeNode
  <2>2. Ordered(st) /\ st \in StatusMap
    BY <1>0, <2>1, MoveKeepsOrder DEF Started, Fulfilled, NodeStatus
  <2>3. \A m \in Node : /\ Moves(node[m], st[m])
                        /\ st[m] \in {"pending", "queued"} => node[m] = st[m]
    BY <1>0, <2>1 DEF Moves
  <2> HIDE DEF st
  <2> QED
    BY <1>0, <1>c, <2>1, <2>2, <2>3
<1>9. ASSUME NEW l \in listed, ApprovalTimeout(l)
      PROVE  Goal
  <2> DEFINE st == [node EXCEPT ![l.node] = "failed"]
  <2>0. l.node \in Node
    BY DEF TypeOK
  <2>1. \/ node' = node
        \/ node[l.node] = "waiting" /\ FlipRunTerminal("failed", st, attempts, cases)
    BY <1>9 DEF ApprovalTimeout, runVars
  <2>2. CASE node[l.node] = "waiting" /\ FlipRunTerminal("failed", st, attempts, cases)
    <3>1. Ordered(st) /\ st \in StatusMap
      BY <1>0, <2>0, <2>2, MoveKeepsOrder DEF Started, Fulfilled, NodeStatus
    <3>2. \A m \in Node : /\ Moves(node[m], st[m])
                          /\ st[m] \in {"pending", "queued"} => node[m] = st[m]
      BY <1>0, <2>0, <2>2 DEF Moves
    <3> HIDE DEF st
    <3>3. /\ Ordered(node')
          /\ \A m \in Node : /\ st[m] # "queued" => node'[m] = st[m]
                             /\ st[m] = "queued" => node'[m] \in {"queued", "pending"}
      BY <1>0, <2>2, <3>1, FlipEffect DEF RunStatus
    <3> QED
      BY <3>2, <3>3 DEF Moves
  <2> QED
    BY <1>a, <2>1, <2>2
<1>10. ASSUME CancelRun
       PROVE  Goal
  <2>1. node' = [n \in Node |-> IF node[n] \in {"pending", "queued", "waiting"}
                                  THEN "cancelled" ELSE node[n]]
    BY <1>10 DEF CancelRun
  <2>2. Ordered(node')
    <3> SUFFICES ASSUME NEW e \in Edge, ~e.onError, node'[e.to] \in Started
                 PROVE  node'[e.from] \in Fulfilled
      BY DEF Ordered
    <3>1. e.from \in Node /\ e.to \in Node
      BY EdgeAssumption DEF EdgeSpace
    <3>2. node[e.to] \in Started
      BY <2>1, <3>1 DEF Started
    <3>3. node[e.from] \in Fulfilled
      BY <3>2 DEF Ordered
    <3> QED
      BY <2>1, <3>1, <3>3 DEF Fulfilled
  <2> QED
    BY <2>1, <2>2 DEF Moves
<1>11. ASSUME NEW n \in Node, Revive(n)
       PROVE  Goal
  <2>1. node[n] = "failed" /\ node' = [node EXCEPT ![n] = "queued"]
    BY <1>11 DEF Revive
  <2> QED
    BY <1>b, <2>1 DEF Started, Fulfilled, Moves, NodeStatus
<1>12. ASSUME NEW d \in deadLetters, RedriveDeadLetter(d)
       PROVE  Goal
  BY <1>11, <1>12 DEF RedriveDeadLetter, TypeOK, DeadLetter, DeadLetterId
<1>13. ASSUME NEW n \in Node, NEW decision \in {"replace", "accept_loss"},
              ResolveCase(n, decision)
       PROVE  Goal
  <2> DEFINE cs == [cases EXCEPT ![n] =
                      IF decision = "replace" THEN "monitoring" ELSE "closed"]
  <2>1. ScheduleDownstream("running", node, cs) \/ node' = node
    BY <1>13 DEF ResolveCase
  <2>2. cs \in CaseMap /\ "running" \in RunStatus
    BY <1>0 DEF RunStatus
  <2>3. \A m \in Node : Moves(node[m], node[m])
    BY DEF Moves
  <2> HIDE DEF cs
  <2> QED
    BY <1>0, <1>a, <1>c, <2>1, <2>2, <2>3
<1>14. ASSUME NEW w \in Worker, (\E o \in Outcome : SkipCommit(w, o)) \/ Crash(w)
       PROVE  Goal
  BY <1>14, <1>a DEF SkipCommit, Crash, runVars
<1>15. ASSUME NEW n \in Node, ReaperScan(n) \/ Clock(n) \/ ListDueWakeup(n)
       PROVE  Goal
  BY <1>15, <1>a DEF ReaperScan, Clock, ListDueWakeup, runVars
<1>16. ASSUME SweepDueWakeups
       PROVE  Goal
  BY <1>16, <1>a DEF SweepDueWakeups
<1>17. ASSUME NEW l \in listed, TimerFires(l)
       PROVE  Goal
  <2>1. l.node \in Node
    BY DEF TypeOK
  <2>2. ResumeNode(l.node) \/ node' = node
    BY <1>17 DEF TimerFires, runVars
  <2> QED
    BY <1>a, <1>8, <2>1, <2>2
<1> HIDE DEF Goal
<1>18. Goal
  BY <1>1, <1>2, <1>3, <1>4, <1>6, <1>7, <1>8, <1>9, <1>10, <1>11, <1>12, <1>13,
     <1>14, <1>15, <1>16, <1>17
     DEF Next, Commit, Sweep, Operator, ResumeRun, RedriveRunNode
<1> QED
  BY <1>18 DEF Goal

(***************************************************************************)
(* For every workflow and every interleaving, a node is queued only after  *)
(* all its normal predecessors have finished.                              *)
(***************************************************************************)
THEOREM WorkIsOrdered == Spec => []DependenciesFirst
<1> DEFINE Inv == TypeOK /\ DependenciesFirst
<1>1. Init => Inv
  <2> SUFFICES ASSUME Init PROVE DependenciesFirst
    BY InitType
  <2> SUFFICES ASSUME NEW e \in Edge PROVE node[e.to] \notin Started
    BY DEF DependenciesFirst
  <2>1. e.to \in Node /\ e \in Incoming(Edge, e.to)
    BY EdgeAssumption DEF EdgeSpace, Incoming
  <2> QED
    BY <2>1 DEF Init, Roots, Started
<1>2. Inv /\ [Next]_vars => Inv'
  <2> SUFFICES ASSUME Inv, [Next]_vars PROVE Inv'
    OBVIOUS
  <2>1. CASE Next
    BY <2>1, NextType, NextKeepsOrder DEF DependenciesFirst, Ordered
  <2>2. CASE UNCHANGED vars
    BY <2>2, StutterType DEF DependenciesFirst, vars, runVars
  <2> QED
    BY <2>1, <2>2
<1> QED
  BY <1>1, <1>2, PTL DEF Spec

(***************************************************************************)
(* No step undoes a finished node: not a late commit, a redrive, a reaper  *)
(* or a cancellation.                                                      *)
(***************************************************************************)
THEOREM FinishedWorkIsFinal == Spec => OutcomesAreFinal
<1>1. TypeOK /\ DependenciesFirst /\ [Next]_vars =>
        [\A n \in Node : node[n] \in Fulfilled => node'[n] = node[n]]_vars
  <2> SUFFICES ASSUME TypeOK, DependenciesFirst, Next, NEW n \in Node,
                      node[n] \in Fulfilled
               PROVE  node'[n] = node[n]
    BY DEF vars
  <2>1. Moves(node[n], node'[n])
    BY NextKeepsOrder DEF DependenciesFirst, Ordered
  <2> QED
    BY <2>1 DEF Moves, Fulfilled
<1> QED
  BY <1>1, TypeCorrect, WorkIsOrdered, PTL DEF Spec, OutcomesAreFinal

-----------------------------------------------------------------------------
(***************************************************************************)
(* The run's status.  A run becomes succeeded only by the roll-up of a     *)
(* scan that left nothing open (SettledStep), so a succeeded run has no    *)
(* row from which a worker, a sweep or a person could go on (Settled); and *)
(* every action that opens a row or moves a run asks for a status that     *)
(* excludes a held one (Held).                                             *)
(***************************************************************************)
Settled(r, st) == r = "succeeded" =>
    \A n \in Node : st[n] \notin {"pending", "running", "waiting"}

Held(r, cs) == (\E n \in Node : cs[n] = "quarantine") => r \in {"waiting", "cancelled"}

SettledStep == run' = "succeeded" =>
    \A n \in Node : node'[n] \in Live \cup {"pending"} =>
        /\ run = "succeeded"
        /\ node'[n] = "queued"
        /\ node[n] = "queued" \/ (node[n] = "failed" /\ redrives' > redrives)

\* Every action keeps a succeeded run settled and a quarantined run held, and
\* opens nothing behind a success but the row an operator redrives.
LEMMA NextKeepsStatus ==
    ASSUME TypeOK, Settled(run, node), Held(run, cases), Next
    PROVE  Settled(run', node') /\ Held(run', cases') /\ SettledStep
<1> USE DEF StatusMap, CaseMap
<1> DEFINE Goal == Settled(run', node') /\ Held(run', cases') /\ SettledStep
<1>0. node \in StatusMap /\ run \in RunStatus /\ cases \in CaseMap
  BY DEF TypeOK
<1>a. ASSUME UNCHANGED <<run, node, cases>> PROVE Goal
  BY <1>a DEF Settled, Held, SettledStep, Live
<1>c. ASSUME NEW r \in RunStatus, NEW st \in StatusMap, NEW cs \in CaseMap,
             ScheduleDownstream(r, st, cs), r # "succeeded", Held(r, cs)
      PROVE  Goal
  <2>1. /\ r # "running" => run' = r /\ node' = st
        /\ run' = "succeeded" /\ r = "running" =>
             \A n \in Node : node'[n] \notin openNodeStatuses
        /\ \A n \in Node : cases'[n] = "quarantine" <=> cs[n] = "quarantine"
    BY <1>c, ScheduleEffect
  <2> QED
    BY <1>c, <2>1 DEF Settled, Held, SettledStep, Live, openNodeStatuses
<1>f. ASSUME NEW st \in StatusMap, run = "running",
             FlipRunTerminal("failed", st, attempts, cases)
      PROVE  Goal
  <2>1. run' = "failed" /\ \A n \in Node : cases'[n] = "quarantine" <=> cases[n] = "quarantine"
    BY <1>0, <1>f, FlipEffect DEF RunStatus
  <2> QED
    BY <1>f, <2>1 DEF Settled, Held, SettledStep
<1>1. ASSUME NEW w \in Worker, NEW n \in Node, ClaimNode(w, n)
      PROVE  Goal
  BY <1>1 DEF ClaimNode, Settled, Held, SettledStep
<1>2. ASSUME NEW w \in Worker, NEW v \in {"none", "quarantine", "observe"},
             NEW c \in Node \cup {NoNode}, CompleteNode(w, v, c)
      PROVE  Goal
  <2> DEFINE n  == claim[w].node
             cs == IF v = "none" THEN cases ELSE [cases EXCEPT ![n] = v]
             st == Skipping([node EXCEPT ![n] = "succeeded"], Losers(n, c))
  <2>1. n \in Node /\ node[n] = "running"
    BY <1>2, ClaimNamesNode DEF CompleteNode, Reports, Claim, StillRunning
  <2>2. cs \in CaseMap /\ st \in StatusMap
    BY <1>0, <2>1 DEF NodeStatus, Skipping
  <2>3. run # "succeeded"
    BY <2>1 DEF Settled
  <2>4. CASE Quarantined(v, cs)
    BY <1>2, <2>4 DEF CompleteNode, Settled, Held, SettledStep
  <2>5. CASE ~Quarantined(v, cs)
    <3>1. ScheduleDownstream(run, st, cs)
      BY <1>2, <2>5 DEF CompleteNode
    <3>2. Held(run, cs)
      BY <1>0, <2>1, <2>5 DEF Quarantined, Held
    <3> HIDE DEF st, cs
    <3> QED
      BY <1>0, <1>c, <2>2, <2>3, <3>1, <3>2
  <2> QED
    BY <2>4, <2>5
<1>3. ASSUME NEW w \in Worker, MarkNodeWaiting(w) \/ RetryNode(w)
      PROVE  Goal
  <2>1. claim[w].node \in Node /\ node[claim[w].node] = "running"
    BY <1>3, ClaimNamesNode DEF MarkNodeWaiting, RetryNode, Reports, Claim, StillRunning
  <2>2. run' = run /\ cases' = cases
    BY <1>3 DEF MarkNodeWaiting, RetryNode
  <2> QED
    BY <2>1, <2>2 DEF Settled, Held, SettledStep
<1>4. ASSUME NEW n \in Node, FailRunNode(n)
      PROVE  Goal
  <2> DEFINE failed == [node EXCEPT ![n] = "failed"]
  <2>1. /\ failed \in StatusMap /\ run \in {"running", "failed"}
        /\ \/ run = "running" /\ ScheduleDownstream(run, failed, cases)
           \/ run = "running" /\ FlipRunTerminal("failed", failed, attempts, cases)
           \/ run = "failed" /\ UNCHANGED <<run, cases>>
    BY <1>0, <1>4 DEF FailRunNode, NodeStatus
  <2> HIDE DEF failed
  <2>2. Held("failed", cases) /\ Held("running", cases)
    BY <2>1 DEF Held
  <2>3. CASE run = "running" /\ ScheduleDownstream(run, failed, cases)
    BY <1>0, <1>c, <2>1, <2>3
  <2>4. CASE run = "running" /\ FlipRunTerminal("failed", failed, attempts, cases)
    BY <1>f, <2>1, <2>4
  <2>5. CASE run = "failed" /\ UNCHANGED <<run, cases>>
    BY <2>5 DEF Settled, Held, SettledStep
  <2> QED
    BY <2>1, <2>3, <2>4, <2>5
<1>5. ASSUME NEW w \in Worker, NEW o \in Outcome, FailNode(w, o)
      PROVE  Goal
  BY <1>4, <1>5, ClaimNamesNode DEF FailNode, Reports, Claim
<1>6. ASSUME NEW c \in stalled, Reap(c)
      PROVE  Goal
  <2>1. c.node \in Node
    BY DEF TypeOK, DeadLetterId
  <2>2. FailRunNode(c.node) \/ UNCHANGED <<run, node, cases>>
    BY <1>6 DEF Reap, runVars
  <2> QED
    BY <1>a, <1>4, <2>1, <2>2
<1>7. ASSUME NEW n \in Node, ResumeNode(n)
      PROVE  Goal
  <2> DEFINE st == [node EXCEPT ![n] = "succeeded"]
  <2>1. node[n] = "waiting" /\ ScheduleDownstream(run, st, cases)
    BY <1>7 DEF ResumeNode
  <2>2. st \in StatusMap /\ run # "succeeded"
    BY <1>0, <2>1 DEF NodeStatus, Settled
  <2> HIDE DEF st
  <2> QED
    BY <1>0, <1>c, <2>1, <2>2
<1>8. ASSUME NEW l \in listed, TimerFires(l)
      PROVE  Goal
  <2>1. l.node \in Node /\ (ResumeNode(l.node) \/ UNCHANGED <<run, node, cases>>)
    BY <1>8 DEF TimerFires, TypeOK, runVars
  <2> QED
    BY <1>a, <1>7, <2>1
<1>9. ASSUME NEW l \in listed, ApprovalTimeout(l)
      PROVE  Goal
  <2> DEFINE st == [node EXCEPT ![l.node] = "failed"]
  <2>1. \/ UNCHANGED <<run, node, cases>>
        \/ run = "running" /\ FlipRunTerminal("failed", st, attempts, cases)
    BY <1>9 DEF ApprovalTimeout, runVars
  <2>2. st \in StatusMap
    BY <1>0 DEF NodeStatus
  <2> HIDE DEF st
  <2> QED
    BY <1>a, <1>f, <2>1, <2>2
<1>10. ASSUME CancelRun
       PROVE  Goal
  BY <1>10 DEF CancelRun, Settled, Held, SettledStep
<1>11. ASSUME NEW n \in Node, Revive(n)
       PROVE  Goal
  <2>1. /\ run' = IF run = "failed" THEN "running" ELSE run
        /\ cases' = cases /\ node' = [node EXCEPT ![n] = "queued"]
    BY <1>11 DEF Revive, Revived
  <2>2. node[n] = "failed" /\ redrives' > redrives
    BY <1>11 DEF Revive, TypeOK
  <2> QED
    BY <1>0, <2>1, <2>2 DEF Settled, Held, SettledStep, Live
<1>12. ASSUME NEW d \in deadLetters, RedriveDeadLetter(d)
       PROVE  Goal
  BY <1>11, <1>12 DEF RedriveDeadLetter, TypeOK, DeadLetter, DeadLetterId
<1>13. ASSUME NEW n \in Node, NEW decision \in {"replace", "accept_loss"},
              ResolveCase(n, decision)
       PROVE  Goal
  <2> DEFINE cs == [cases EXCEPT ![n] =
                      IF decision = "replace" THEN "monitoring" ELSE "closed"]
  <2>1. cs \in CaseMap /\ "running" \in RunStatus
    BY <1>0 DEF RunStatus
  <2>2. \A m \in Node : cs[m] = "quarantine" => cases[m] = "quarantine"
    BY <1>0
  <2>3. \/ Unblocked(cs) /\ ScheduleDownstream("running", node, cs)
        \/ UNCHANGED <<run, node>> /\ cases' = cs
    BY <1>13 DEF ResolveCase
  <2> HIDE DEF cs
  <2>4. CASE Unblocked(cs) /\ ScheduleDownstream("running", node, cs)
    <3>1. Held("running", cs)
      BY <2>4 DEF Unblocked, Held
    <3> QED
      BY <1>0, <1>c, <2>1, <2>4, <3>1
  <2>5. CASE UNCHANGED <<run, node>> /\ cases' = cs
    BY <2>2, <2>5 DEF Settled, Held, SettledStep, Live
  <2> QED
    BY <2>3, <2>4, <2>5
<1>14. ASSUME NEW w \in Worker, (\E o \in Outcome : SkipCommit(w, o)) \/ Crash(w)
       PROVE  Goal
  BY <1>14, <1>a DEF SkipCommit, Crash, runVars
<1>15. ASSUME NEW n \in Node, ReaperScan(n) \/ Clock(n) \/ ListDueWakeup(n)
       PROVE  Goal
  BY <1>15, <1>a DEF ReaperScan, Clock, ListDueWakeup, runVars
<1>16. ASSUME SweepDueWakeups
       PROVE  Goal
  BY <1>16, <1>a DEF SweepDueWakeups
<1> HIDE DEF Goal
<1>17. Goal
  BY <1>1, <1>2, <1>3, <1>5, <1>6, <1>7, <1>8, <1>9, <1>10, <1>11, <1>12, <1>13,
     <1>14, <1>15, <1>16
     DEF Next, Commit, Sweep, Operator, ResumeRun, RedriveRunNode
<1> QED
  BY <1>17 DEF Goal

\* The two invariants hold together, from the start and through stuttering.
LEMMA StatusInvariant ==
    Spec => [](TypeOK /\ Settled(run, node) /\ QuarantineHoldsRun)
<1> DEFINE Inv == TypeOK /\ Settled(run, node) /\ QuarantineHoldsRun
<1>1. Init => Inv
  BY InitType DEF Init, Settled, QuarantineHoldsRun
<1>2. Inv /\ [Next]_vars => Inv'
  <2> SUFFICES ASSUME Inv, [Next]_vars PROVE Inv'
    OBVIOUS
  <2>1. CASE Next
    BY <2>1, NextType, NextKeepsStatus DEF QuarantineHoldsRun, Settled, Held
  <2>2. CASE UNCHANGED vars
    BY <2>2, StutterType DEF Settled, QuarantineHoldsRun, vars, runVars
  <2> QED
    BY <2>1, <2>2
<1> QED
  BY <1>1, <1>2, PTL DEF Spec

(***************************************************************************)
(* A run reports success only when none of its rows is open, and after     *)
(* that no commit, resume, sweep or reaper opens or starts one: only an    *)
(* operator's redrive of a failed row puts a row back in the queue.        *)
(***************************************************************************)
THEOREM SuccessIsSettled == Spec => SucceededRunIsSettled
<1>1. TypeOK /\ Settled(run, node) /\ QuarantineHoldsRun /\ [Next]_vars => [SettledStep]_vars
  BY NextKeepsStatus DEF QuarantineHoldsRun, Held
<1> QED
  BY <1>1, StatusInvariant, PTL DEF Spec, SucceededRunIsSettled, SettledStep

(***************************************************************************)
(* No transaction resumes or finishes a run past an open quarantine: only  *)
(* a cancellation ends it.                                                 *)
(***************************************************************************)
THEOREM QuarantineHolds == Spec => []QuarantineHoldsRun
BY StatusInvariant, PTL

-----------------------------------------------------------------------------
(***************************************************************************)
(* Containment.  When a node's outcome is quarantined the node was still   *)
(* running, so by the order of work nothing after it had started; while    *)
(* the case is open the run is held, so no scan queues anything.           *)
(***************************************************************************)
Contained(cs, st) ==
    \A e \in Edge : cs[e.from] = "quarantine" /\ ~e.onError => st[e.to] \notin Started

\* Every action keeps what follows a quarantined outcome from starting.
LEMMA NextKeepsContained ==
    ASSUME TypeOK, Ordered(node), Held(run, cases), Contained(cases, node), Next
    PROVE  Contained(cases', node')
<1> USE DEF StatusMap, CaseMap
<1> DEFINE Goal == Contained(cases', node')
<1>0. node \in StatusMap /\ run \in RunStatus /\ cases \in CaseMap
  BY DEF TypeOK
<1>e. \A e \in Edge : e.from \in Node /\ e.to \in Node
  BY EdgeAssumption DEF EdgeSpace
<1>a. ASSUME UNCHANGED <<node, cases>> PROVE Goal
  BY <1>a DEF Contained
<1>q. ASSUME \A n \in Node : cases'[n] # "quarantine" PROVE Goal
  BY <1>e, <1>q DEF Contained
<1>b. ASSUME NEW n \in Node, NEW x, cases' = cases, node[n] \in Started,
             node' = [node EXCEPT ![n] = x]
      PROVE  Goal
  BY <1>0, <1>e, <1>b DEF Contained
<1>c. ASSUME NEW r \in RunStatus, NEW st \in StatusMap, NEW cs \in CaseMap,
             ScheduleDownstream(r, st, cs), Held(r, cs), Contained(cs, st)
      PROVE  Goal
  <2>1. /\ r # "running" => node' = st /\ cases' = cs
        /\ \A n \in Node : cases'[n] = "quarantine" <=> cs[n] = "quarantine"
    BY <1>c, ScheduleEffect
  <2>2. CASE r # "running"
    BY <1>c, <2>1, <2>2
  <2>3. CASE r = "running"
    BY <1>c, <1>q, <2>1, <2>3 DEF Held
  <2> QED
    BY <2>2, <2>3
<1>f. ASSUME run \in {"running", "failed"},
             \A n \in Node : cases'[n] = "quarantine" => cases[n] = "quarantine"
      PROVE  Goal
  BY <1>f, <1>q DEF Held
<1>1. ASSUME NEW w \in Worker, NEW n \in Node, ClaimNode(w, n)
      PROVE  Goal
  BY <1>b, <1>1 DEF ClaimNode, Started
<1>2. ASSUME NEW w \in Worker, NEW v \in {"none", "quarantine", "observe"},
             NEW c \in Node \cup {NoNode}, CompleteNode(w, v, c)
      PROVE  Goal
  <2> DEFINE n  == claim[w].node
             cs == IF v = "none" THEN cases ELSE [cases EXCEPT ![n] = v]
             st == Skipping([node EXCEPT ![n] = "succeeded"], Losers(n, c))
  <2>1. n \in Node /\ node[n] = "running"
    BY <1>2, ClaimNamesNode DEF CompleteNode, Reports, Claim, StillRunning
  <2>2. cs \in CaseMap /\ st \in StatusMap
    BY <1>0, <2>1 DEF NodeStatus, Skipping
  <2>3. Contained(cs, st)
    <3> SUFFICES ASSUME NEW e \in Edge, cs[e.from] = "quarantine", ~e.onError
                 PROVE  st[e.to] \notin Started
      BY DEF Contained
    <3>1. node[e.to] \notin Started
      <4>1. CASE e.from = n
        BY <2>1, <4>1 DEF Ordered, Fulfilled
      <4>2. CASE e.from # n
        BY <1>0, <1>e, <2>1, <4>2 DEF Contained
      <4> QED
        BY <4>1, <4>2
    <3>2. e.to # n
      BY <2>1, <3>1 DEF Started
    <3> QED
      BY <1>0, <1>e, <3>1, <3>2 DEF Skipping, Started
  <2>4. CASE Quarantined(v, cs)
    <3>1. node' = st /\ cases' = cs
      BY <1>2, <2>4 DEF CompleteNode
    <3> QED
      BY <2>3, <3>1
  <2>5. CASE ~Quarantined(v, cs)
    <3>1. ScheduleDownstream(run, st, cs)
      BY <1>2, <2>5 DEF CompleteNode
    <3>2. Held(run, cs)
      BY <1>0, <2>1, <2>5 DEF Quarantined, Held
    <3> HIDE DEF st, cs
    <3> QED
      BY <1>0, <1>c, <2>2, <2>3, <3>1, <3>2
  <2> QED
    BY <2>4, <2>5
<1>3. ASSUME NEW w \in Worker, MarkNodeWaiting(w) \/ RetryNode(w)
      PROVE  Goal
  <2>1. claim[w].node \in Node /\ node[claim[w].node] = "running"
    BY <1>3, ClaimNamesNode DEF MarkNodeWaiting, RetryNode, Reports, Claim, StillRunning
  <2>2. cases' = cases /\ \E x : node' = [node EXCEPT ![claim[w].node] = x]
    BY <1>3 DEF MarkNodeWaiting, RetryNode
  <2> QED
    BY <1>b, <2>1, <2>2 DEF Started
<1>4. ASSUME NEW n \in Node, FailRunNode(n)
      PROVE  Goal
  <2> DEFINE failed == [node EXCEPT ![n] = "failed"]
  <2>1. /\ failed \in StatusMap /\ run \in {"running", "failed"}
        /\ \/ ScheduleDownstream(run, failed, cases)
           \/ FlipRunTerminal("failed", failed, attempts, cases)
           \/ UNCHANGED cases
    BY <1>0, <1>4 DEF FailRunNode, NodeStatus
  <2> HIDE DEF failed
  <2>2. \A m \in Node : cases'[m] = "quarantine" => cases[m] = "quarantine"
    BY <1>0, <2>1, ScheduleEffect, FlipEffect DEF RunStatus
  <2> QED
    BY <1>f, <2>1, <2>2
<1>5. ASSUME NEW w \in Worker, NEW o \in Outcome, FailNode(w, o)
      PROVE  Goal
  BY <1>4, <1>5, ClaimNamesNode DEF FailNode, Reports, Claim
<1>6. ASSUME NEW c \in stalled, Reap(c)
      PROVE  Goal
  <2>1. c.node \in Node
    BY DEF TypeOK, DeadLetterId
  <2>2. FailRunNode(c.node) \/ UNCHANGED <<node, cases>>
    BY <1>6 DEF Reap, runVars
  <2> QED
    BY <1>a, <1>4, <2>1, <2>2
<1>7. ASSUME NEW n \in Node, ResumeNode(n)
      PROVE  Goal
  <2> DEFINE st == [node EXCEPT ![n] = "succeeded"]
  <2>1. node[n] = "waiting" /\ ScheduleDownstream(run, st, cases)
    BY <1>7 DEF ResumeNode
  <2>2. st \in StatusMap /\ Contained(cases, st)
    BY <1>0, <1>e, <2>1 DEF NodeStatus, Contained, Started
  <2> HIDE DEF st
  <2> QED
    BY <1>0, <1>c, <2>1, <2>2
<1>8. ASSUME NEW l \in listed, TimerFires(l)
      PROVE  Goal
  <2>1. l.node \in Node /\ (ResumeNode(l.node) \/ UNCHANGED <<node, cases>>)
    BY <1>8 DEF TimerFires, TypeOK, runVars
  <2> QED
    BY <1>a, <1>7, <2>1
<1>9. ASSUME NEW l \in listed, ApprovalTimeout(l)
      PROVE  Goal
  <2> DEFINE st == [node EXCEPT ![l.node] = "failed"]
  <2>1. \/ UNCHANGED <<node, cases>>
        \/ run = "running" /\ FlipRunTerminal("failed", st, attempts, cases)
    BY <1>9 DEF ApprovalTimeout, runVars
  <2>2. st \in StatusMap
    BY <1>0 DEF NodeStatus
  <2> HIDE DEF st
  <2>3. CASE run = "running" /\ FlipRunTerminal("failed", st, attempts, cases)
    <3>1. \A m \in Node : cases'[m] = "quarantine" => cases[m] = "quarantine"
      BY <1>0, <2>2, <2>3, FlipEffect DEF RunStatus
    <3> QED
      BY <1>f, <2>3, <3>1
  <2> QED
    BY <1>a, <2>1, <2>3
<1>10. ASSUME CancelRun
       PROVE  Goal
  <2>1. /\ \A n \in Node : node'[n] = node[n] \/ node'[n] = "cancelled"
        /\ \A n \in Node : cases'[n] = "quarantine" => cases[n] = "quarantine"
    BY <1>0, <1>10 DEF CancelRun, Finalized
  <2> QED
    BY <1>e, <2>1 DEF Contained, Started
<1>11. ASSUME NEW n \in Node, Revive(n)
       PROVE  Goal
  BY <1>b, <1>11 DEF Revive, Started
<1>12. ASSUME NEW d \in deadLetters, RedriveDeadLetter(d)
       PROVE  Goal
  BY <1>11, <1>12 DEF RedriveDeadLetter, TypeOK, DeadLetter, DeadLetterId
<1>13. ASSUME NEW n \in Node, NEW decision \in {"replace", "accept_loss"},
              ResolveCase(n, decision)
       PROVE  Goal
  <2> DEFINE cs == [cases EXCEPT ![n] =
                      IF decision = "replace" THEN "monitoring" ELSE "closed"]
  <2>1. cs \in CaseMap /\ "running" \in RunStatus
    BY <1>0 DEF RunStatus
  <2>2. \A m \in Node : cs[m] = "quarantine" => cases[m] = "quarantine"
    BY <1>0
  <2>3. \/ Unblocked(cs) /\ ScheduleDownstream("running", node, cs)
        \/ UNCHANGED <<run, node>> /\ cases' = cs
    BY <1>13 DEF ResolveCase
  <2> HIDE DEF cs
  <2>4. Contained(cs, node)
    BY <1>e, <2>2 DEF Contained
  <2>5. CASE Unblocked(cs) /\ ScheduleDownstream("running", node, cs)
    BY <1>0, <1>c, <2>1, <2>4, <2>5 DEF Unblocked, Held
  <2>6. CASE UNCHANGED <<run, node>> /\ cases' = cs
    BY <2>4, <2>6
  <2> QED
    BY <2>3, <2>5, <2>6
<1>14. ASSUME NEW w \in Worker, (\E o \in Outcome : SkipCommit(w, o)) \/ Crash(w)
       PROVE  Goal
  BY <1>14, <1>a DEF SkipCommit, Crash, runVars
<1>15. ASSUME NEW n \in Node, ReaperScan(n) \/ Clock(n) \/ ListDueWakeup(n)
       PROVE  Goal
  BY <1>15, <1>a DEF ReaperScan, Clock, ListDueWakeup, runVars
<1>16. ASSUME SweepDueWakeups
       PROVE  Goal
  BY <1>16, <1>a DEF SweepDueWakeups
<1> HIDE DEF Goal
<1>17. Goal
  BY <1>1, <1>2, <1>3, <1>5, <1>6, <1>7, <1>8, <1>9, <1>10, <1>11, <1>12, <1>13,
     <1>14, <1>15, <1>16
     DEF Next, Commit, Sweep, Operator, ResumeRun, RedriveRunNode
<1> QED
  BY <1>17 DEF Goal

(***************************************************************************)
(* Nothing that depends on a quarantined outcome starts while its case is  *)
(* open, whatever a late worker, a resume or a second case does.           *)
(***************************************************************************)
THEOREM QuarantineContains == Spec => []QuarantineContainsOutcome
<1> DEFINE Inv == TypeOK /\ DependenciesFirst /\ QuarantineHoldsRun
           C   == QuarantineContainsOutcome
<1>1. Init => C
  BY EdgeAssumption DEF Init, QuarantineContainsOutcome, EdgeSpace
<1>2. Inv /\ C /\ [Next]_vars => C'
  <2> SUFFICES ASSUME Inv, C, [Next]_vars PROVE C'
    OBVIOUS
  <2>1. CASE Next
    BY <2>1, NextKeepsContained
       DEF DependenciesFirst, Ordered, QuarantineHoldsRun, Held,
           QuarantineContainsOutcome, Contained
  <2>2. CASE UNCHANGED vars
    BY <2>2 DEF QuarantineContainsOutcome, vars, runVars
  <2> QED
    BY <2>1, <2>2
<1>3. Spec => []Inv
  BY TypeCorrect, WorkIsOrdered, QuarantineHolds, PTL
<1> QED
  BY <1>1, <1>2, <1>3, PTL DEF Spec

-----------------------------------------------------------------------------
(* A queue publication is claimed once, whatever crashes, replayed commits,  *)
(* reaps and redrives come in between.                                       *)

(***************************************************************************)
(* The strengthening: a claim is of its node's current generation or of an *)
(* earlier one, and while it is of the current one the row is neither      *)
(* pending nor queued, so no other worker can take it.  A row enters the   *)
(* queue only with a generation no claim has seen.                         *)
(***************************************************************************)
Current(cl, gen, st) ==
    cl.phase # "idle" =>
        /\ cl.generation <= gen[cl.node]
        /\ cl.generation = gen[cl.node] => st[cl.node] \notin {"pending", "queued"}

ClaimsAreCurrent == \A w \in Worker : Current(claim[w], generation, node)

\* What a step other than a claim may do to a row: leave the queue and its
\* generation alone, or publish a generation that is new.
Publishes(n) ==
    /\ generation'[n] >= generation[n]
    /\ generation'[n] = generation[n] /\ node[n] \notin {"pending", "queued"}
          => node'[n] \notin {"pending", "queued"}

\* A step other than a claim drops a claim or keeps the publication it is of.
Keeps(w) ==
    \/ claim'[w].phase = "idle"
    \/ /\ claim[w].phase # "idle"
       /\ claim'[w].node = claim[w].node
       /\ claim'[w].generation = claim[w].generation

\* Acknowledging a commit, or preparing its replay, keeps every claim.
LEMMA AcknowledgedKeeps ==
    ASSUME TypeOK, NEW w \in Worker, NEW o \in Outcome, Reports(w, o), Acknowledged(w, o)
    PROVE  \A v \in Worker : claim'[v] = claim[v] \/ Keeps(v)
<1>1. claim[w] \in Claim /\ claim \in [Worker -> Claim \cup {IdleClaim}]
  BY ClaimNamesNode DEF Reports, TypeOK
<1>2. claim[w].phase # "idle"
  BY DEF Reports
<1>3. CASE claim' = [claim EXCEPT ![w] = IdleClaim]
  BY <1>1, <1>3 DEF Keeps, IdleClaim
<1>4. CASE claim' = [claim EXCEPT ![w] = Replaying(claim[w], o)]
  BY <1>1, <1>2, <1>4 DEF Keeps, Replaying
<1> QED
  BY <1>3, <1>4 DEF Acknowledged

\* Scheduling publishes new generations only.
LEMMA SchedulePublishes ==
    ASSUME TypeOK, NEW r \in RunStatus, NEW st \in StatusMap, NEW cs \in CaseMap,
           ScheduleDownstream(r, st, cs), NEW n \in Node,
           node[n] \notin {"pending", "queued"} => st[n] \notin {"pending", "queued"}
    PROVE  Publishes(n)
BY ScheduleEffect DEF Publishes

\* Every step other than a claim publishes new generations only, and keeps or
\* drops each claim.
LEMMA NextPublishes ==
    ASSUME TypeOK, Next, ~(\E w \in Worker, n \in Node : ClaimNode(w, n))
    PROVE  /\ \A n \in Node : Publishes(n)
           /\ \A w \in Worker : claim'[w] = claim[w] \/ Keeps(w)
<1> USE DEF StatusMap, CaseMap
<1> DEFINE Goal == /\ \A n \in Node : Publishes(n)
                   /\ \A w \in Worker : claim'[w] = claim[w] \/ Keeps(w)
<1>0. /\ node \in StatusMap /\ run \in RunStatus /\ cases \in CaseMap
      /\ generation \in [Node -> Nat] /\ claim \in [Worker -> Claim \cup {IdleClaim}]
  BY DEF TypeOK
<1>a. ASSUME UNCHANGED <<node, generation>> PROVE \A n \in Node : Publishes(n)
  BY <1>0, <1>a DEF Publishes
<1>b. ASSUME NEW w \in Worker, claim' = [claim EXCEPT ![w] = IdleClaim]
      PROVE  \A v \in Worker : claim'[v] = claim[v] \/ Keeps(v)
  BY <1>0, <1>b DEF Keeps, IdleClaim
<1>1. ASSUME NEW w \in Worker, NEW v \in {"none", "quarantine", "observe"},
             NEW c \in Node \cup {NoNode}, CompleteNode(w, v, c)
      PROVE  Goal
  <2> DEFINE n  == claim[w].node
             cs == IF v = "none" THEN cases ELSE [cases EXCEPT ![n] = v]
             st == Skipping([node EXCEPT ![n] = "succeeded"], Losers(n, c))
  <2>1. n \in Node
    BY <1>1, ClaimNamesNode DEF CompleteNode, Reports, Claim
  <2>2. cs \in CaseMap /\ st \in StatusMap
    BY <1>0, <2>1 DEF NodeStatus, Skipping
  <2>3. \A m \in Node : node[m] \notin {"pending", "queued"}
                          => st[m] \notin {"pending", "queued"}
    BY <1>0, <2>1 DEF Skipping
  <2>4. \/ ScheduleDownstream(run, st, cs)
        \/ node' = st /\ UNCHANGED generation
    BY <1>1 DEF CompleteNode
  <2>5. \A u \in Worker : claim'[u] = claim[u] \/ Keeps(u)
    BY <1>1, AcknowledgedKeeps DEF CompleteNode, Outcome
  <2> HIDE DEF st, cs
  <2>6. CASE ScheduleDownstream(run, st, cs)
    BY <1>0, <2>2, <2>3, <2>5, <2>6, SchedulePublishes
  <2>7. CASE node' = st /\ UNCHANGED generation
    BY <1>0, <2>3, <2>5, <2>7 DEF Publishes
  <2> QED
    BY <2>4, <2>6, <2>7
<1>2. ASSUME NEW w \in Worker, MarkNodeWaiting(w)
      PROVE  Goal
  <2>1. node' = [node EXCEPT ![claim[w].node] = "waiting"] /\ UNCHANGED generation
    BY <1>2 DEF MarkNodeWaiting
  <2>2. \A n \in Node : Publishes(n)
    BY <1>0, <2>1 DEF Publishes
  <2> QED
    BY <1>2, <2>2, AcknowledgedKeeps DEF MarkNodeWaiting, Outcome
<1>3. ASSUME NEW w \in Worker, RetryNode(w)
      PROVE  Goal
  <2>1. /\ node' = [node EXCEPT ![claim[w].node] = "queued"]
        /\ generation' = [generation EXCEPT ![claim[w].node] = @ + 1]
        /\ claim[w].node \in Node
    BY <1>3, ClaimNamesNode DEF RetryNode, NextGeneration, Reports, Claim
  <2>2. \A n \in Node : Publishes(n)
    BY <1>0, <2>1 DEF Publishes
  <2> QED
    BY <1>3, <2>2, AcknowledgedKeeps DEF RetryNode, Outcome
<1>4. ASSUME NEW n \in Node, FailRunNode(n)
      PROVE  \A m \in Node : Publishes(m)
  <2> DEFINE failed == [node EXCEPT ![n] = "failed"]
  <2>1. /\ failed \in StatusMap
        /\ \A m \in Node : node[m] \notin {"pending", "queued"}
                             => failed[m] \notin {"pending", "queued"}
    BY <1>0 DEF NodeStatus
  <2>2. \/ ScheduleDownstream(run, failed, cases)
        \/ FlipRunTerminal("failed", failed, attempts, cases) /\ UNCHANGED generation
        \/ node' = failed /\ UNCHANGED generation
    BY <1>4 DEF FailRunNode
  <2> HIDE DEF failed
  <2>3. CASE ScheduleDownstream(run, failed, cases)
    BY <1>0, <2>1, <2>3, SchedulePublishes
  <2>4. CASE FlipRunTerminal("failed", failed, attempts, cases) /\ UNCHANGED generation
    <3>1. \A m \in Node : failed[m] # "queued" => node'[m] = failed[m]
      BY <1>0, <2>1, <2>4, FlipEffect DEF RunStatus
    <3> QED
      BY <1>0, <2>1, <2>4, <3>1 DEF Publishes
  <2>5. CASE node' = failed /\ UNCHANGED generation
    BY <1>0, <2>1, <2>5 DEF Publishes
  <2> QED
    BY <2>2, <2>3, <2>4, <2>5
<1>5. ASSUME NEW w \in Worker, NEW o \in Outcome, FailNode(w, o)
      PROVE  Goal
  <2>1. claim[w].node \in Node
    BY <1>5, ClaimNamesNode DEF FailNode, Reports, Claim
  <2> QED
    BY <1>4, <1>5, <2>1, AcknowledgedKeeps DEF FailNode
<1>6. ASSUME NEW c \in stalled, Reap(c)
      PROVE  Goal
  <2>1. c.node \in Node
    BY DEF TypeOK, DeadLetterId
  <2>2. FailRunNode(c.node) \/ UNCHANGED <<node, generation>>
    BY <1>6 DEF Reap, runVars
  <2>3. claim' = claim
    BY <1>6 DEF Reap
  <2> QED
    BY <1>a, <1>4, <2>1, <2>2, <2>3
<1>7. ASSUME NEW n \in Node, ResumeNode(n)
      PROVE  Goal
  <2> DEFINE st == [node EXCEPT ![n] = "succeeded"]
  <2>1. ScheduleDownstream(run, st, cases) /\ claim' = claim
    BY <1>7 DEF ResumeNode
  <2>2. /\ st \in StatusMap
        /\ \A m \in Node : node[m] \notin {"pending", "queued"}
                             => st[m] \notin {"pending", "queued"}
    BY <1>0 DEF NodeStatus
  <2> HIDE DEF st
  <2> QED
    BY <1>0, <2>1, <2>2, SchedulePublishes
<1>8. ASSUME NEW l \in listed, TimerFires(l)
      PROVE  Goal
  <2>1. /\ l.node \in Node
        /\ ResumeNode(l.node) \/ (UNCHANGED <<node, generation>> /\ claim' = claim)
    BY <1>8 DEF TimerFires, TypeOK, runVars
  <2> QED
    BY <1>a, <1>7, <2>1
<1>9. ASSUME NEW l \in listed, ApprovalTimeout(l)
      PROVE  Goal
  <2> DEFINE st == [node EXCEPT ![l.node] = "failed"]
  <2>1. /\ UNCHANGED <<generation, claim>>
        /\ UNCHANGED node \/ FlipRunTerminal("failed", st, attempts, cases)
    BY <1>9 DEF ApprovalTimeout, runVars
  <2>2. /\ st \in StatusMap
        /\ \A m \in Node : node[m] \notin {"pending", "queued"}
                             => st[m] \notin {"pending", "queued"}
    BY <1>0 DEF NodeStatus
  <2> HIDE DEF st
  <2>3. CASE FlipRunTerminal("failed", st, attempts, cases)
    <3>1. \A m \in Node : st[m] # "queued" => node'[m] = st[m]
      BY <1>0, <2>2, <2>3, FlipEffect DEF RunStatus
    <3> QED
      BY <1>0, <2>1, <2>2, <3>1 DEF Publishes
  <2> QED
    BY <1>a, <2>1, <2>3
<1>10. ASSUME CancelRun
       PROVE  Goal
  <2>1. /\ UNCHANGED <<generation, claim>>
        /\ \A n \in Node : node'[n] = node[n] \/ node'[n] = "cancelled"
    BY <1>0, <1>10 DEF CancelRun
  <2> QED
    BY <1>0, <2>1 DEF Publishes
<1>11. ASSUME NEW n \in Node, Revive(n)
       PROVE  Goal
  <2>1. /\ claim' = claim
        /\ node' = [node EXCEPT ![n] = "queued"]
        /\ generation' = [generation EXCEPT ![n] = @ + 1]
    BY <1>11 DEF Revive, NextGeneration
  <2> QED
    BY <1>0, <2>1 DEF Publishes
<1>12. ASSUME NEW d \in deadLetters, RedriveDeadLetter(d)
       PROVE  Goal
  BY <1>11, <1>12 DEF RedriveDeadLetter, TypeOK, DeadLetter, DeadLetterId
<1>13. ASSUME NEW n \in Node, NEW decision \in {"replace", "accept_loss"},
              ResolveCase(n, decision)
       PROVE  Goal
  <2> DEFINE cs == [cases EXCEPT ![n] =
                      IF decision = "replace" THEN "monitoring" ELSE "closed"]
  <2>1. cs \in CaseMap /\ "running" \in RunStatus
    BY <1>0 DEF RunStatus
  <2>2. /\ claim' = claim
        /\ ScheduleDownstream("running", node, cs) \/ UNCHANGED <<node, generation>>
    BY <1>13 DEF ResolveCase
  <2> HIDE DEF cs
  <2> QED
    BY <1>0, <1>a, <2>1, <2>2, SchedulePublishes
<1>14. ASSUME NEW w \in Worker, (\E o \in Outcome : SkipCommit(w, o)) \/ Crash(w)
       PROVE  Goal
  BY <1>14, <1>a, <1>b DEF SkipCommit, Crash, runVars
<1>15. ASSUME NEW n \in Node, ReaperScan(n) \/ Clock(n) \/ ListDueWakeup(n)
       PROVE  Goal
  BY <1>15, <1>a DEF ReaperScan, Clock, ListDueWakeup, runVars
<1>16. ASSUME SweepDueWakeups
       PROVE  Goal
  BY <1>16, <1>a DEF SweepDueWakeups
<1> HIDE DEF Goal
<1>17. Goal
  BY <1>1, <1>2, <1>3, <1>5, <1>6, <1>7, <1>8, <1>9, <1>10, <1>11, <1>12, <1>13,
     <1>14, <1>15, <1>16
     DEF Next, Commit, Sweep, Operator, ResumeRun, RedriveRunNode
<1> QED
  BY <1>17 DEF Goal

\* Claiming a queued row takes a generation no other claim holds.
LEMMA ClaimTakesNewGeneration ==
    ASSUME TypeOK, ClaimsAreCurrent, OneClaimPerGeneration,
           NEW w \in Worker, NEW n \in Node, ClaimNode(w, n)
    PROVE  ClaimsAreCurrent' /\ OneClaimPerGeneration'
<1> DEFINE cl == [phase |-> "executing", node |-> n, attempt |-> attempts[n],
                  generation |-> generation[n], outcome |-> "none"]
<1>1. /\ node[n] = "queued" /\ node' = [node EXCEPT ![n] = "running"]
      /\ claim' = [claim EXCEPT ![w] = cl] /\ generation' = generation
      /\ claim \in [Worker -> Claim \cup {IdleClaim}]
      /\ node \in [Node -> NodeStatus] /\ generation \in [Node -> Nat]
  BY DEF ClaimNode, TypeOK
<1>2. claim'[w] = cl /\ \A v \in Worker : v # w => claim'[v] = claim[v]
  BY <1>1
<1>3. \A v \in Worker : claim[v].phase # "idle" => claim[v].node \in Node
  BY ClaimNamesNode DEF Claim
<1>4. \A v \in Worker : claim[v].phase # "idle" /\ claim[v].node = n
                          => claim[v].generation # generation[n]
  BY <1>1 DEF ClaimsAreCurrent, Current
<1>5. \A m \in Node : node[m] \notin {"pending", "queued"}
                        => node'[m] \notin {"pending", "queued"}
  BY <1>1
<1>6. cl.phase = "executing" /\ cl.node = n /\ cl.generation = generation[n]
  OBVIOUS
<1> HIDE DEF cl
<1>7. ClaimsAreCurrent'
  <2> SUFFICES ASSUME NEW v \in Worker, claim'[v].phase # "idle"
               PROVE  /\ claim'[v].generation <= generation'[claim'[v].node]
                      /\ claim'[v].generation = generation'[claim'[v].node] =>
                           node'[claim'[v].node] \notin {"pending", "queued"}
    BY DEF ClaimsAreCurrent, Current
  <2>1. CASE v = w
    BY <1>1, <1>2, <1>6, <2>1
  <2>2. CASE v # w
    BY <1>1, <1>2, <1>3, <1>5, <2>2 DEF ClaimsAreCurrent, Current
  <2> QED
    BY <2>1, <2>2
<1>8. OneClaimPerGeneration'
  BY <1>2, <1>4, <1>6 DEF OneClaimPerGeneration
<1> QED
  BY <1>7, <1>8

\* A step that publishes only new generations and keeps claims keeps them current.
LEMMA KeptClaimsAreCurrent ==
    ASSUME TypeOK, TypeOK', ClaimsAreCurrent, OneClaimPerGeneration,
           \A n \in Node : Publishes(n),
           \A w \in Worker : claim'[w] = claim[w] \/ Keeps(w)
    PROVE  ClaimsAreCurrent' /\ OneClaimPerGeneration'
<1>1. ASSUME NEW w \in Worker, claim'[w].phase # "idle"
      PROVE  /\ claim[w].phase # "idle" /\ claim'[w].node = claim[w].node
             /\ claim'[w].generation = claim[w].generation
  BY <1>1 DEF Keeps
<1>2. ASSUME NEW w \in Worker, claim[w].phase # "idle"
      PROVE  claim[w].node \in Node /\ claim[w].generation \in Nat
  BY <1>2, ClaimNamesNode DEF Claim
<1>3. \A n \in Node : generation[n] \in Nat /\ generation'[n] \in Nat
  BY DEF TypeOK
<1>4. ClaimsAreCurrent'
  <2> SUFFICES ASSUME NEW w \in Worker, claim'[w].phase # "idle"
               PROVE  /\ claim'[w].generation <= generation'[claim'[w].node]
                      /\ claim'[w].generation = generation'[claim'[w].node] =>
                           node'[claim'[w].node] \notin {"pending", "queued"}
    BY DEF ClaimsAreCurrent, Current
  <2> DEFINE n == claim[w].node
             g == claim[w].generation
  <2>1. /\ claim[w].phase # "idle" /\ claim'[w].node = n /\ claim'[w].generation = g
        /\ n \in Node /\ g \in Nat
    BY <1>1, <1>2
  <2>2. /\ g <= generation[n]
        /\ g = generation[n] => node[n] \notin {"pending", "queued"}
    BY <2>1 DEF ClaimsAreCurrent, Current
  <2> HIDE DEF n, g
  <2> QED
    BY <1>3, <2>1, <2>2 DEF Publishes
<1>5. OneClaimPerGeneration'
  BY <1>1 DEF OneClaimPerGeneration
<1> QED
  BY <1>4, <1>5

(***************************************************************************)
(* Two workers never execute the same publication of a node, however many  *)
(* workers there are and whatever was retried, reaped, redriven, replayed  *)
(* or left behind by a dead process.                                       *)
(***************************************************************************)
THEOREM PublicationIsClaimedOnce == Spec => []OneClaimPerGeneration
<1> DEFINE Inv == TypeOK /\ ClaimsAreCurrent /\ OneClaimPerGeneration
<1>1. Init => Inv
  <2> SUFFICES ASSUME Init PROVE Inv
    OBVIOUS
  <2>1. \A w \in Worker : claim[w].phase = "idle"
    BY DEF Init, IdleClaim
  <2> QED
    BY <2>1, InitType DEF ClaimsAreCurrent, Current, OneClaimPerGeneration
<1>2. Inv /\ [Next]_vars => Inv'
  <2> SUFFICES ASSUME Inv, [Next]_vars PROVE Inv'
    OBVIOUS
  <2>1. CASE UNCHANGED vars
    BY <2>1, StutterType
       DEF ClaimsAreCurrent, Current, OneClaimPerGeneration, vars, runVars
  <2>2. CASE Next /\ \E w \in Worker, n \in Node : ClaimNode(w, n)
    BY <2>2, NextType, ClaimTakesNewGeneration
  <2>3. CASE Next /\ ~(\E w \in Worker, n \in Node : ClaimNode(w, n))
    BY <2>3, NextType, NextPublishes, KeptClaimsAreCurrent
  <2> QED
    BY <2>1, <2>2, <2>3
<1> QED
  BY <1>1, <1>2, PTL DEF Spec

-----------------------------------------------------------------------------
(* The engine implements RunContract for every workflow whose nodes have no  *)
(* quarantine detector.  (With one, a late commit may park a cancelled run:  *)
(* see CancellationIsFinal.)                                                 *)

(***************************************************************************)
(* What the refinement needs beyond the types and the order of work: such  *)
(* a run is never parked, and a cancelled row belongs to a cancelled run,  *)
(* so a roll-up that finds nothing open finds only finished or failed      *)
(* nodes.                                                                  *)
(***************************************************************************)
Unparked(r, st, cs) ==
    /\ r # "waiting"
    /\ \A n \in Node : cs[n] \notin {"quarantine", "monitoring"}
    /\ \A n \in Node : st[n] = "cancelled" => r = "cancelled"

\* A run status changes by success with all nodes decided, by failure with a
\* failed node, or not at all; failed nodes stay failed.
Shape ==
    /\ Unparked(run', node', cases')
    /\ \A n \in Node : node[n] = "failed" => node'[n] = "failed"
    /\ \/ run' = run
       \/ run = "running" /\ run' = "failed" /\ \E n \in Node : node'[n] = "failed"
       \/ run = "running" /\ run' = "succeeded"
            /\ \A n \in Node : node'[n] \notin openNodeStatuses

\* A flip to failed, of a status map with a failed node, has that shape.
LEMMA FlipShape ==
    ASSUME TypeOK, NEW n \in Node, run = "running", Unparked(run, node, cases),
           node[n] # "failed",
           FlipRunTerminal("failed", [node EXCEPT ![n] = "failed"], attempts, cases)
    PROVE  Shape
<1> DEFINE st == [node EXCEPT ![n] = "failed"]
<1>1. node \in [Node -> NodeStatus] /\ cases \in CaseMap
  BY DEF TypeOK, CaseMap
<1>2. st \in StatusMap /\ st[n] = "failed"
  BY <1>1 DEF StatusMap, NodeStatus
<1>3. \A m \in Node : node[m] = "failed" => st[m] = "failed"
  BY <1>1
<1>4. \A m \in Node : st[m] # "cancelled"
  BY <1>1 DEF Unparked
<1>5. \A m \in Node : cases'[m] \in {cases[m], "closed"}
  BY DEF FlipRunTerminal, Finalized
<1>6. FlipRunTerminal("failed", st, attempts, cases)
  OBVIOUS
<1> HIDE DEF st
<1>7. /\ run' = "failed"
      /\ \A m \in Node : /\ st[m] # "queued" => node'[m] = st[m]
                         /\ st[m] = "queued" => node'[m] \in {"queued", "pending"}
  BY <1>1, <1>2, <1>6, FlipEffect DEF RunStatus
<1> QED
  BY <1>2, <1>3, <1>4, <1>5, <1>7 DEF Shape, Unparked

\* So does scheduling, after one row has moved.
LEMMA ScheduleShape ==
    ASSUME TypeOK, NEW st \in StatusMap, NEW cs \in CaseMap,
           Unparked(run, node, cases), Unparked(run, st, cs),
           \A n \in Node : node[n] = "failed" => st[n] = "failed",
           ScheduleDownstream(run, st, cs)
    PROVE  Shape
<1>0. run \in RunStatus
  BY DEF TypeOK
<1>1. /\ run # "running" => run' = run /\ node' = st /\ cases' = cs
      /\ run' = "succeeded" /\ run = "running" =>
           \A n \in Node : node'[n] \notin openNodeStatuses
      /\ run = "running" => run' \in {"running", "failed", "succeeded"}
      /\ \A n \in Node :
           /\ st[n] \notin {"pending", "queued"} => node'[n] = st[n]
           /\ st[n] = "pending" => node'[n] \in {"pending", "queued", "skipped"}
           /\ st[n] = "queued" => node'[n] \in {"queued", "pending"}
  BY <1>0, ScheduleEffect
<1>2. CASE run # "running"
  BY <1>1, <1>2 DEF Shape
<1>3. CASE run = "running"
  <2> DEFINE after == Scanned(Edge, st, holds)
  <2>1. \A n \in Node : cases'[n] \in {cs[n], "closed"}
    BY <1>3 DEF ScheduleDownstream, FlipRunTerminal, Finalized
  <2>2. ASSUME run' = "failed" PROVE \E n \in Node : node'[n] = "failed"
    <3>1. PICK n \in Node : after[n] = "failed"
      BY <1>3, <2>2 DEF ScheduleDownstream, FlipRunTerminal, RolledUp
    <3>2. st[n] = "failed"
      BY <3>1, ScanDecidesPending
    <3> QED
      BY <1>1, <3>2
  <2>3. \A n \in Node : node[n] = "failed" => node'[n] = "failed"
    BY <1>1
  <2>4. \A n \in Node : node'[n] # "cancelled"
    <3> SUFFICES ASSUME NEW n \in Node PROVE node'[n] # "cancelled"
      OBVIOUS
    <3>1. st[n] # "cancelled"
      BY <1>3 DEF Unparked
    <3> QED
      BY <1>1, <3>1
  <2> QED
    BY <1>1, <1>3, <2>1, <2>2, <2>3, <2>4 DEF Shape, Unparked
<1> QED
  BY <1>2, <1>3

\* Every step keeps the run unparked, and is a step of that shape, a
\* cancellation or the revival of a failed node.
LEMMA NextShape ==
    ASSUME Quarantining = {}, TypeOK, Unparked(run, node, cases), Next
    PROVE  /\ Unparked(run', node', cases')
           /\ Shape \/ CancelRun \/ \E n \in Node : Revive(n)
<1> USE DEF StatusMap, CaseMap
<1> DEFINE Goal == /\ Unparked(run', node', cases')
                   /\ Shape \/ CancelRun \/ \E n \in Node : Revive(n)
<1>0. node \in StatusMap /\ run \in RunStatus /\ cases \in CaseMap
  BY DEF TypeOK
<1>a. ASSUME UNCHANGED <<run, node, cases>> PROVE Goal
  BY <1>a DEF Shape, Unparked
<1>b. ASSUME NEW n \in Node, NEW x, x # "cancelled", node[n] # "failed",
             UNCHANGED <<run, cases>>, node' = [node EXCEPT ![n] = x]
      PROVE  Goal
  BY <1>0, <1>b DEF Shape, Unparked
<1>s. ASSUME Shape PROVE Goal
  BY <1>s DEF Shape
<1>1. ASSUME NEW w \in Worker, NEW n \in Node, ClaimNode(w, n)
      PROVE  Goal
  BY <1>1, <1>b DEF ClaimNode
<1>2. ASSUME NEW w \in Worker, NEW v \in {"none", "quarantine", "observe"},
             NEW c \in Node \cup {NoNode}, CompleteNode(w, v, c)
      PROVE  Goal
  <2> DEFINE n  == claim[w].node
             cs == IF v = "none" THEN cases ELSE [cases EXCEPT ![n] = v]
             st == Skipping([node EXCEPT ![n] = "succeeded"], Losers(n, c))
  <2>1. n \in Node /\ node[n] = "running"
    BY <1>2, ClaimNamesNode DEF CompleteNode, Reports, Claim, StillRunning
  <2>2. cs \in CaseMap /\ st \in StatusMap
    BY <1>0, <2>1 DEF NodeStatus, Skipping
  <2>3. v # "quarantine"
    BY <1>2 DEF CompleteNode, Violations
  <2>4. ~Quarantined(v, cs)
    BY <1>0, <2>1, <2>3 DEF Unparked, Quarantined
  <2>5. ScheduleDownstream(run, st, cs)
    BY <1>2, <2>4 DEF CompleteNode
  <2>6. Unparked(run, st, cs)
    BY <1>0, <2>1, <2>3 DEF Unparked, Skipping
  <2>7. \A m \in Node : node[m] = "failed" => st[m] = "failed"
    <3>1. \A m \in Losers(n, c) : node[m] = "pending"
      BY DEF Losers
    <3> QED
      BY <1>0, <2>1, <3>1 DEF Skipping
  <2> HIDE DEF st, cs
  <2> QED
    BY <1>s, <2>2, <2>5, <2>6, <2>7, ScheduleShape
<1>3. ASSUME NEW w \in Worker, MarkNodeWaiting(w) \/ RetryNode(w)
      PROVE  Goal
  <2>1. claim[w].node \in Node /\ node[claim[w].node] = "running"
    BY <1>3, ClaimNamesNode DEF MarkNodeWaiting, RetryNode, Reports, Claim, StillRunning
  <2>2. /\ UNCHANGED <<run, cases>>
        /\ \E x \in {"waiting", "queued"} : node' = [node EXCEPT ![claim[w].node] = x]
    BY <1>3 DEF MarkNodeWaiting, RetryNode
  <2> QED
    BY <1>b, <2>1, <2>2
<1>4. ASSUME NEW n \in Node, FailRunNode(n)
      PROVE  Goal
  <2> DEFINE failed == [node EXCEPT ![n] = "failed"]
  <2>1. node[n] = "running"
    BY <1>4 DEF FailRunNode, StillRunning
  <2>2. /\ failed \in StatusMap /\ Unparked(run, failed, cases)
        /\ \A m \in Node : node[m] = "failed" => failed[m] = "failed"
    BY <1>0, <2>1 DEF NodeStatus, Unparked
  <2>3. \/ ScheduleDownstream(run, failed, cases)
        \/ run = "running" /\ FlipRunTerminal("failed", failed, attempts, cases)
        \/ node' = failed /\ UNCHANGED <<run, cases>>
    BY <1>4 DEF FailRunNode
  <2>4. CASE run = "running" /\ FlipRunTerminal("failed", failed, attempts, cases)
    BY <1>s, <2>1, <2>4, FlipShape
  <2>5. CASE node' = failed /\ UNCHANGED <<run, cases>>
    BY <1>b, <2>1, <2>5
  <2> HIDE DEF failed
  <2>6. CASE ScheduleDownstream(run, failed, cases)
    BY <1>0, <1>s, <2>2, <2>6, ScheduleShape
  <2> QED
    BY <2>3, <2>4, <2>5, <2>6
<1>5. ASSUME NEW w \in Worker, NEW o \in Outcome, FailNode(w, o)
      PROVE  Goal
  BY <1>4, <1>5, ClaimNamesNode DEF FailNode, Reports, Claim
<1>6. ASSUME NEW c \in stalled, Reap(c)
      PROVE  Goal
  <2>1. c.node \in Node
    BY DEF TypeOK, DeadLetterId
  <2>2. FailRunNode(c.node) \/ UNCHANGED <<run, node, cases>>
    BY <1>6 DEF Reap, runVars
  <2> QED
    BY <1>a, <1>4, <2>1, <2>2
<1>7. ASSUME NEW n \in Node, ResumeNode(n)
      PROVE  Goal
  <2> DEFINE st == [node EXCEPT ![n] = "succeeded"]
  <2>1. node[n] = "waiting" /\ ScheduleDownstream(run, st, cases)
    BY <1>7 DEF ResumeNode
  <2>2. /\ st \in StatusMap /\ Unparked(run, st, cases)
        /\ \A m \in Node : node[m] = "failed" => st[m] = "failed"
    BY <1>0, <2>1 DEF NodeStatus, Unparked
  <2> HIDE DEF st
  <2> QED
    BY <1>0, <1>s, <2>1, <2>2, ScheduleShape
<1>8. ASSUME NEW l \in listed, TimerFires(l)
      PROVE  Goal
  <2>1. l.node \in Node /\ (ResumeNode(l.node) \/ UNCHANGED <<run, node, cases>>)
    BY <1>8 DEF TimerFires, TypeOK, runVars
  <2> QED
    BY <1>a, <1>7, <2>1
<1>9. ASSUME NEW l \in listed, ApprovalTimeout(l)
      PROVE  Goal
  <2>1. \/ UNCHANGED <<run, node, cases>>
        \/ /\ run = "running" /\ node[l.node] = "waiting"
           /\ FlipRunTerminal("failed", [node EXCEPT ![l.node] = "failed"], attempts, cases)
    BY <1>9 DEF ApprovalTimeout, runVars
  <2>2. l.node \in Node
    BY DEF TypeOK
  <2> QED
    BY <1>a, <1>s, <2>1, <2>2, FlipShape
<1>10. ASSUME CancelRun
       PROVE  Goal
  <2>1. run' = "cancelled" /\ cases' = Finalized(cases)
    BY <1>10 DEF CancelRun
  <2> QED
    BY <1>0, <1>10, <2>1 DEF Unparked, Finalized
<1>11. ASSUME NEW n \in Node, Revive(n)
       PROVE  Goal
  <2>1. /\ run' = IF run = "failed" THEN "running" ELSE run
        /\ cases' = cases /\ node' = [node EXCEPT ![n] = "queued"]
    BY <1>11 DEF Revive, Revived
  <2> QED
    BY <1>0, <1>11, <2>1 DEF Unparked
<1>12. ASSUME NEW d \in deadLetters, RedriveDeadLetter(d)
       PROVE  Goal
  BY <1>11, <1>12 DEF RedriveDeadLetter, TypeOK, DeadLetter, DeadLetterId
<1>13. ASSUME NEW n \in Node, NEW decision \in {"replace", "accept_loss"},
              ResolveCase(n, decision)
       PROVE  Goal
  <2>1. run # "waiting" /\ cases[n] = "observe" /\ decision = "accept_loss"
    BY <1>13 DEF ResolveCase, Resolution, Unparked
  <2>2. cases' = [cases EXCEPT ![n] = "closed"] /\ UNCHANGED <<run, node>>
    BY <1>13, <2>1 DEF ResolveCase
  <2> QED
    BY <1>0, <2>2 DEF Shape, Unparked
<1>14. ASSUME NEW w \in Worker, (\E o \in Outcome : SkipCommit(w, o)) \/ Crash(w)
       PROVE  Goal
  BY <1>14, <1>a DEF SkipCommit, Crash, runVars
<1>15. ASSUME NEW n \in Node, ReaperScan(n) \/ Clock(n) \/ ListDueWakeup(n)
       PROVE  Goal
  BY <1>15, <1>a DEF ReaperScan, Clock, ListDueWakeup, runVars
<1>16. ASSUME SweepDueWakeups
       PROVE  Goal
  BY <1>16, <1>a DEF SweepDueWakeups
<1> HIDE DEF Goal
<1>17. Goal
  BY <1>1, <1>2, <1>3, <1>5, <1>6, <1>7, <1>8, <1>9, <1>10, <1>11, <1>12, <1>13,
     <1>14, <1>15, <1>16
     DEF Next, Commit, Sweep, Operator, ResumeRun, RedriveRunNode
<1> QED
  BY <1>17 DEF Goal

-----------------------------------------------------------------------------
Done(st)   == {n \in Node : st[n] \in Fulfilled}
Failed(st) == {n \in Node : st[n] = "failed"}

\* Every step of the engine is a step of the contract, or leaves what the
\* contract sees unchanged.
LEMMA NextImplements ==
    ASSUME Quarantining = {}, TypeOK, TypeOK', Ordered(node),
           Unparked(run, node, cases), Next
    PROVE  Contract!Next
<1>0. node \in [Node -> NodeStatus] /\ node' \in [Node -> NodeStatus]
  BY DEF TypeOK
<1>1. Done(node) \subseteq Done(node')
  BY NextKeepsOrder DEF Moves, Fulfilled, Done
<1>2. CASE Shape
  <2>1. Failed(node) \subseteq Failed(node')
    BY <1>2 DEF Shape, Failed
  <2>2. CASE run' = run
    <3>1. Contract!Progress
      BY <1>1, <2>1, <2>2 DEF Contract!Progress, Done, Failed
    <3> QED
      BY <3>1 DEF Contract!Next
  <2>3. CASE run = "running" /\ run' = "failed" /\ \E n \in Node : node'[n] = "failed"
    <3>1. Failed(node') # {}
      BY <2>3 DEF Failed
    <3>2. Contract!Fail
      BY <1>1, <2>1, <2>3, <3>1 DEF Contract!Fail, Done, Failed
    <3> QED
      BY <3>2 DEF Contract!Next
  <2>4. CASE /\ run = "running" /\ run' = "succeeded"
             /\ \A n \in Node : node'[n] \notin openNodeStatuses
    <3>1. \A n \in Node : node'[n] # "cancelled"
      BY <1>2, <2>4 DEF Shape, Unparked
    <3>2. Done(node') \cup Failed(node') = Node
      BY <1>0, <2>4, <3>1 DEF NodeStatus, openNodeStatuses, Fulfilled, Done, Failed
    <3>3. Contract!Succeed
      BY <1>1, <2>1, <2>4, <3>2 DEF Contract!Succeed, Done, Failed
    <3> QED
      BY <3>3 DEF Contract!Next
  <2> QED
    BY <1>2, <2>2, <2>3, <2>4 DEF Shape
<1>3. CASE CancelRun
  <2>1. Done(node') = Done(node) /\ Failed(node') = Failed(node)
    BY <1>0, <1>3 DEF CancelRun, Fulfilled, Done, Failed
  <2>2. run = "running" /\ run' = "cancelled"
    BY <1>3 DEF CancelRun, Cancellable, TerminalRun, Unparked, TypeOK, RunStatus
  <2>3. Contract!Cancel
    BY <2>1, <2>2 DEF Contract!Cancel, Done, Failed
  <2> QED
    BY <2>3 DEF Contract!Next
<1>4. CASE \E n \in Node : Revive(n)
  <2>1. PICK n \in Node : Revive(n)
    BY <1>4
  <2>2. /\ node[n] = "failed" /\ node' = [node EXCEPT ![n] = "queued"]
        /\ run' = IF run = "failed" THEN "running" ELSE run
    BY <2>1 DEF Revive, Revived
  <2>3. /\ n \in Failed(node) /\ Failed(node') = Failed(node) \ {n}
        /\ Done(node') = Done(node)
    BY <1>0, <2>2 DEF Failed, Done, Fulfilled
  <2>4. Contract!Redrive(n)
    BY <2>2, <2>3 DEF Contract!Redrive, Done, Failed
  <2> QED
    BY <2>4 DEF Contract!Next
<1> QED
  BY <1>2, <1>3, <1>4, NextShape

(***************************************************************************)
(* The refinement: under the mapping of RunEngine's Contract, every        *)
(* behaviour of the engine is one of RunContract, when no node has a       *)
(* quarantine detector.                                                    *)
(***************************************************************************)
THEOREM RunKeepsContract ==
    ASSUME Quarantining = {}
    PROVE  Spec => ImplementsContract
<1> DEFINE U == Unparked(run, node, cases)
<1>1. Init => U /\ Contract!Init
  <2> SUFFICES ASSUME Init PROVE U /\ Contract!Init
    OBVIOUS
  <2>1. /\ run = "running" /\ \A n \in Node : cases[n] = "none"
        /\ \A n \in Node : node[n] \in {"queued", "pending"}
    BY DEF Init
  <2> QED
    BY <2>1 DEF Unparked, Contract!Init, Fulfilled
<1>2. TypeOK /\ U /\ [Next]_vars => U'
  <2>1. CASE UNCHANGED vars
    BY <2>1 DEF vars, runVars, Unparked
  <2> QED
    BY <2>1, NextShape
<1>3. TypeOK /\ TypeOK' /\ DependenciesFirst /\ U /\ [Next]_vars
        => [Contract!Next]_(Contract!vars)
  <2>1. CASE UNCHANGED vars
    BY <2>1 DEF vars, runVars, Contract!vars
  <2> QED
    BY <2>1, NextImplements DEF DependenciesFirst, Ordered
<1> QED
  BY <1>1, <1>2, <1>3, TypeCorrect, WorkIsOrdered, PTL
     DEF Spec, ImplementsContract, Contract!Spec

-----------------------------------------------------------------------------
(* A router's decision.                                                      *)

(***************************************************************************)
(* The strengthening: only a node that succeeded has chosen, and the       *)
(* candidates it ruled out are skipped or cancelled, statuses no step      *)
(* leaves.  When a router commits it was still running, so by the order of *)
(* work none of its successors had started: they are pending, and skipped  *)
(* with the commit, or decided already.                                    *)
(***************************************************************************)
RuledOut(st, ch) ==
    /\ \A r \in Node : ch[r] # NoNode => st[r] = "succeeded"
    /\ \A e \in Edge :
         /\ ~e.onError /\ ch[e.from] # NoNode
         /\ e.to \in Candidates[e.from] \ {ch[e.from]}
         => st[e.to] \in {"skipped", "cancelled"}

\* Only the commit of a node writes a decision.
LEMMA ChosenByCompletion ==
    ASSUME Next
    PROVE  \/ chosen' = chosen
           \/ \E w \in Worker, v \in {"none", "quarantine", "observe"}, c \in Node \cup {NoNode} :
                 CompleteNode(w, v, c)
<1>1. ASSUME NEW w \in Worker, Commit(w) \/ Crash(w) \/ \E n \in Node : ClaimNode(w, n)
      PROVE  \/ chosen' = chosen
             \/ \E v \in {"none", "quarantine", "observe"}, c \in Node \cup {NoNode} :
                   CompleteNode(w, v, c)
  BY <1>1 DEF Commit, MarkNodeWaiting, RetryNode, FailNode, FailRunNode, SkipCommit, Crash,
     ClaimNode, runVars
<1>2. ASSUME NEW n \in Node, ReaperScan(n) \/ Clock(n) PROVE chosen' = chosen
  BY <1>2 DEF ReaperScan, Clock, runVars
<1>3. ASSUME NEW c \in stalled, Reap(c) PROVE chosen' = chosen
  BY <1>3 DEF Reap, FailRunNode, runVars
<1>4. ASSUME Sweep PROVE chosen' = chosen
  BY <1>4 DEF Sweep, SweepDueWakeups, ListDueWakeup, TimerFires, ApprovalTimeout, ResumeNode,
     runVars
<1>5. ASSUME Operator PROVE chosen' = chosen
  BY <1>5 DEF Operator, CancelRun, ResumeRun, ResumeNode, RedriveRunNode, RedriveDeadLetter,
     Revive, ResolveCase
<1> QED
  BY <1>1, <1>2, <1>3, <1>4, <1>5 DEF Next

LEMMA NextKeepsRuledOut ==
    ASSUME TypeOK, Ordered(node), RuledOut(node, chosen), Next
    PROVE  RuledOut(node', chosen')
<1> USE DEF StatusMap, CaseMap
<1>0. /\ node \in StatusMap /\ run \in RunStatus /\ cases \in CaseMap
      /\ chosen \in [Node -> Node \cup {NoNode}]
  BY DEF TypeOK
<1>e. \A e \in Edge : e.from \in Node /\ e.to \in Node
  BY EdgeAssumption DEF EdgeSpace
<1>m. \A n \in Node : Moves(node[n], node'[n])
  BY NextKeepsOrder
<1>f. \A n \in Node : node[n] \in {"succeeded", "skipped", "cancelled"} => node'[n] = node[n]
  BY <1>m DEF Moves
<1>1. CASE chosen' = chosen
  BY <1>1, <1>e, <1>f DEF RuledOut
<1>2. ASSUME NEW w \in Worker, NEW v \in {"none", "quarantine", "observe"},
             NEW c \in Node \cup {NoNode}, CompleteNode(w, v, c)
      PROVE  RuledOut(node', chosen')
  <2> DEFINE n  == claim[w].node
             cs == IF v = "none" THEN cases ELSE [cases EXCEPT ![n] = v]
             st == Skipping([node EXCEPT ![n] = "succeeded"], Losers(n, c))
  <2>1. n \in Node /\ node[n] = "running"
    BY <1>2, ClaimNamesNode DEF CompleteNode, Reports, Claim, StillRunning
  <2>2. cs \in CaseMap /\ st \in StatusMap
    BY <1>0, <2>1 DEF NodeStatus, Skipping
  <2>3. chosen' = [chosen EXCEPT ![n] = c]
    BY <1>2 DEF CompleteNode
  <2>4. \A m \in Node : st[m] \in {"succeeded", "skipped"} => node'[m] = st[m]
    <3>1. CASE Quarantined(v, cs)
      BY <1>2, <3>1 DEF CompleteNode
    <3>2. CASE ~Quarantined(v, cs)
      <4>1. ScheduleDownstream(run, st, cs)
        BY <1>2, <3>2 DEF CompleteNode
      <4> HIDE DEF st, cs
      <4> QED
        BY <1>0, <2>2, <4>1, ScheduleEffect
    <3> QED
      BY <3>1, <3>2
  <2>5. node'[n] = "succeeded"
    <3>1. n \notin Losers(n, c)
      BY <2>1 DEF Losers
    <3>2. st[n] = "succeeded"
      BY <1>0, <2>1, <3>1 DEF Skipping
    <3> QED
      BY <2>1, <2>4, <3>2
  <2>6. ASSUME NEW r \in Node, chosen'[r] # NoNode PROVE node'[r] = "succeeded"
    BY <1>0, <1>f, <2>1, <2>3, <2>5, <2>6 DEF RuledOut
  <2>7. ASSUME NEW e \in Edge, ~e.onError, chosen'[e.from] # NoNode,
               e.to \in Candidates[e.from] \ {chosen'[e.from]}
        PROVE  node'[e.to] \in {"skipped", "cancelled"}
    <3>1. CASE e.from # n
      <4>1. chosen'[e.from] = chosen[e.from]
        BY <1>0, <1>e, <2>3, <3>1
      <4> QED
        BY <1>e, <1>f, <2>7, <4>1 DEF RuledOut
    <3>2. CASE e.from = n
      <4>1. chosen'[e.from] = c /\ c # NoNode
        BY <1>0, <2>1, <2>3, <2>7, <3>2
      <4>2. node[e.to] \notin Started
        BY <2>1, <2>7, <3>2 DEF Ordered, Fulfilled
      <4>3. node[e.to] \in {"pending", "skipped", "cancelled"}
        BY <1>0, <1>e, <4>2 DEF Started, NodeStatus
      <4>4. CASE node[e.to] = "pending"
        <5>1. e.to \in Losers(n, c)
          BY <2>7, <3>2, <4>1, <4>4 DEF Losers, Successors
        <5>2. st[e.to] = "skipped"
          BY <1>e, <5>1 DEF Skipping
        <5> HIDE DEF st
        <5> QED
          BY <1>e, <2>4, <5>2
      <4> QED
        BY <1>e, <1>f, <4>3, <4>4
    <3> QED
      BY <3>1, <3>2
  <2> QED
    BY <2>6, <2>7 DEF RuledOut
<1> QED
  BY <1>1, <1>2, ChosenByCompletion

(***************************************************************************)
(* Once a router has chosen, none of the other candidates it leads to      *)
(* starts, whoever scans, redrives or resumes the run afterwards, for      *)
(* every workflow and every ranking (CompleteRouterNode).                  *)
(***************************************************************************)
THEOREM DecisionIsExclusive == Spec => []RouterIsExclusive
<1> DEFINE Inv == TypeOK /\ DependenciesFirst
           R   == RuledOut(node, chosen)
<1>1. Init => R
  <2> SUFFICES ASSUME Init PROVE R
    OBVIOUS
  <2>1. \A n \in Node : chosen[n] = NoNode
    BY DEF Init
  <2>2. \A e \in Edge : e.from \in Node
    BY EdgeAssumption DEF EdgeSpace
  <2> QED
    BY <2>1, <2>2 DEF RuledOut
<1>2. Inv /\ R /\ [Next]_vars => R'
  <2> SUFFICES ASSUME Inv, R, [Next]_vars PROVE R'
    OBVIOUS
  <2>1. CASE Next
    BY <2>1, NextKeepsRuledOut DEF DependenciesFirst, Ordered
  <2>2. CASE UNCHANGED vars
    BY <2>2 DEF RuledOut, vars, runVars
  <2> QED
    BY <2>1, <2>2
<1>3. R => RouterIsExclusive
  BY DEF RuledOut, RouterIsExclusive, Started
<1>4. Spec => []Inv
  BY TypeCorrect, WorkIsOrdered, PTL
<1> QED
  BY <1>1, <1>2, <1>3, <1>4, PTL DEF Spec

-----------------------------------------------------------------------------
(* Clocks.                                                                   *)

(***************************************************************************)
(* The strengthening: only an approval is ever given an approval deadline, *)
(* and a sweeper that holds one read it from an approval, so handling it   *)
(* late does not disturb the clock of another kind of wait.                *)
(***************************************************************************)
Clocked(n) ==
    node[n] = "waiting" =>
        wakeup[n] = IF Kind[n] = "timer" THEN "wait_until"
                    ELSE IF Kind[n] = "approval" /\ n \notin escalated
                    THEN "approval_timeout" ELSE "none"

ClockInv ==
    /\ \A n \in Node : Clocked(n)
    /\ \A n \in Node : wakeup[n] = "approval_timeout" => Kind[n] = "approval"
    /\ \A l \in listed : l.reason = "approval_timeout" => Kind[l.node] = "approval"

LEMMA NextKeepsClocks ==
    ASSUME TypeOK, ClockInv, Next
    PROVE  ClockInv'
<1> USE DEF StatusMap, CaseMap
<1>0. /\ node \in StatusMap /\ run \in RunStatus /\ cases \in CaseMap
      /\ wakeup \in [Node -> {"none", "retry", "wait_until", "approval_timeout"}]
  BY DEF TypeOK
<1> DEFINE NoNewWaits == \A m \in Node : node'[m] = "waiting" => node[m] = "waiting"
\* Nothing about clocks changes.
<1>a. ASSUME NoNewWaits, UNCHANGED <<wakeup, escalated>>, listed' \subseteq listed
      PROVE  ClockInv'
  BY <1>a DEF ClockInv, Clocked
\* A row that does not wait gets another clock, or none.
<1>b. ASSUME NoNewWaits, NEW n \in Node, node'[n] # "waiting", NEW x \in {"none", "retry"},
             wakeup' = [wakeup EXCEPT ![n] = x], escalated' \in {escalated, escalated \ {n}},
             listed' \subseteq listed
      PROVE  ClockInv'
  <2>1. /\ wakeup'[n] = x
        /\ \A m \in Node : m # n => wakeup'[m] = wakeup[m] /\ (m \in escalated' <=> m \in escalated)
    BY <1>0, <1>b
  <2>2. \A m \in Node : Clocked(m)'
    BY <1>b, <2>1 DEF ClockInv, Clocked
  <2>3. \A m \in Node : wakeup'[m] = "approval_timeout" => Kind[m] = "approval"
    BY <2>1 DEF ClockInv
  <2> QED
    BY <1>b, <2>2, <2>3 DEF ClockInv
<1>c. ASSUME NEW r \in RunStatus, NEW st \in StatusMap, NEW cs \in CaseMap,
             ScheduleDownstream(r, st, cs)
      PROVE  \A m \in Node : node'[m] = "waiting" => st[m] = "waiting"
  <2>1. \A n \in Node : /\ st[n] \notin {"pending", "queued"} => node'[n] = st[n]
                        /\ st[n] = "pending" => node'[n] \in {"pending", "queued", "skipped"}
                        /\ st[n] = "queued" => node'[n] \in {"queued", "pending"}
    BY <1>c, ScheduleEffect
  <2> QED
    BY <2>1
<1>f. ASSUME NEW st \in StatusMap, FlipRunTerminal("failed", st, attempts, cases)
      PROVE  \A m \in Node : node'[m] = "waiting" => st[m] = "waiting"
  <2>1. \A n \in Node : /\ st[n] # "queued" => node'[n] = st[n]
                        /\ st[n] = "queued" => node'[n] \in {"queued", "pending"}
    BY <1>0, <1>f, FlipEffect DEF RunStatus
  <2> QED
    BY <2>1
<1>1. ASSUME NEW w \in Worker, NEW n \in Node, ClaimNode(w, n)
      PROVE  ClockInv'
  BY <1>0, <1>1, <1>a DEF ClaimNode
<1>2. ASSUME NEW w \in Worker, NEW v \in {"none", "quarantine", "observe"},
             NEW c \in Node \cup {NoNode}, CompleteNode(w, v, c)
      PROVE  ClockInv'
  <2> DEFINE n  == claim[w].node
             cs == IF v = "none" THEN cases ELSE [cases EXCEPT ![n] = v]
             st == Skipping([node EXCEPT ![n] = "succeeded"], Losers(n, c))
  <2>1. n \in Node /\ node[n] = "running"
    BY <1>2, ClaimNamesNode DEF CompleteNode, Reports, Claim, StillRunning
  <2>2. cs \in CaseMap /\ st \in StatusMap
    BY <1>0, <2>1 DEF NodeStatus, Skipping
  <2>3. \A m \in Node : node'[m] = "waiting" => st[m] = "waiting"
    <3>1. CASE Quarantined(v, cs)
      BY <1>2, <3>1 DEF CompleteNode
    <3>2. CASE ~Quarantined(v, cs)
      <4>1. ScheduleDownstream(run, st, cs)
        BY <1>2, <3>2 DEF CompleteNode
      <4> HIDE DEF st, cs
      <4> QED
        BY <1>0, <1>c, <2>2, <4>1
    <3> QED
      BY <3>1, <3>2
  <2>4. \A m \in Node : st[m] = "waiting" => node[m] = "waiting" /\ m # n
    BY <1>0, <2>1 DEF Skipping
  <2>5. wakeup' = [wakeup EXCEPT ![n] = "none"] /\ UNCHANGED <<escalated, listed>>
    BY <1>2 DEF CompleteNode, DeleteWakeup
  <2> HIDE DEF n, st, cs
  <2> QED
    BY <1>b, <2>1, <2>3, <2>4, <2>5
<1>3. ASSUME NEW w \in Worker, MarkNodeWaiting(w)
      PROVE  ClockInv'
  <2> DEFINE n == claim[w].node
  <2>1. n \in Node
    BY <1>3, ClaimNamesNode DEF MarkNodeWaiting, Reports, Claim
  <2>2. /\ node' = [node EXCEPT ![n] = "waiting"] /\ Kind[n] \in WaitKinds
        /\ escalated' = escalated \ {n} /\ UNCHANGED listed
        /\ wakeup' = [wakeup EXCEPT ![n] = IF Kind[n] = "timer" THEN "wait_until"
                                           ELSE IF Kind[n] = "approval" THEN "approval_timeout"
                                           ELSE "none"]
    BY <1>3 DEF MarkNodeWaiting, UpsertWakeup, DeleteWakeup
  <2> HIDE DEF n
  <2>3. \A m \in Node : m # n => /\ wakeup'[m] = wakeup[m] /\ node'[m] = node[m]
                                 /\ (m \in escalated' <=> m \in escalated)
    BY <1>0, <2>1, <2>2
  <2>4. /\ n \notin escalated'
        /\ wakeup'[n] = IF Kind[n] = "timer" THEN "wait_until"
                        ELSE IF Kind[n] = "approval" THEN "approval_timeout" ELSE "none"
    BY <1>0, <2>1, <2>2
  <2>5. \A m \in Node : Clocked(m)'
    BY <2>3, <2>4 DEF ClockInv, Clocked
  <2>6. \A m \in Node : wakeup'[m] = "approval_timeout" => Kind[m] = "approval"
    BY <2>3, <2>4 DEF ClockInv
  <2> QED
    BY <2>2, <2>5, <2>6 DEF ClockInv
<1>4. ASSUME NEW w \in Worker, RetryNode(w)
      PROVE  ClockInv'
  <2>1. claim[w].node \in Node
    BY <1>4, ClaimNamesNode DEF RetryNode, Reports, Claim
  <2>2. /\ node' = [node EXCEPT ![claim[w].node] = "queued"] /\ UNCHANGED <<escalated, listed>>
        /\ wakeup' = [wakeup EXCEPT ![claim[w].node] = "retry"]
    BY <1>4 DEF RetryNode, UpsertWakeup
  <2> QED
    BY <1>0, <1>b, <2>1, <2>2
<1>5. ASSUME NEW n \in Node, FailRunNode(n), listed' \subseteq listed
      PROVE  ClockInv'
  <2> DEFINE failed == [node EXCEPT ![n] = "failed"]
  <2>1. /\ failed \in StatusMap /\ wakeup' = [wakeup EXCEPT ![n] = "none"] /\ UNCHANGED escalated
        /\ \/ ScheduleDownstream(run, failed, cases)
           \/ FlipRunTerminal("failed", failed, attempts, cases)
           \/ node' = failed
    BY <1>0, <1>5 DEF FailRunNode, NodeStatus, DeleteWakeup
  <2>2. \A m \in Node : failed[m] = "waiting" => node[m] = "waiting" /\ m # n
    BY <1>0
  <2> HIDE DEF failed
  <2>3. \A m \in Node : node'[m] = "waiting" => failed[m] = "waiting"
    BY <1>0, <1>c, <1>f, <2>1
  <2> QED
    BY <1>b, <1>5, <2>1, <2>2, <2>3
<1>6. ASSUME NEW w \in Worker, NEW o \in Outcome, FailNode(w, o)
      PROVE  ClockInv'
  BY <1>5, <1>6, ClaimNamesNode DEF FailNode, Reports, Claim
<1>7. ASSUME NEW c \in stalled, Reap(c)
      PROVE  ClockInv'
  <2>1. c.node \in Node /\ UNCHANGED listed
    BY <1>7 DEF TypeOK, DeadLetterId, Reap
  <2>2. FailRunNode(c.node) \/ UNCHANGED <<node, wakeup, escalated>>
    BY <1>7 DEF Reap, runVars
  <2> QED
    BY <1>a, <1>5, <2>1, <2>2
<1>8. ASSUME NEW n \in Node, ResumeNode(n), listed' \subseteq listed
      PROVE  ClockInv'
  <2> DEFINE st == [node EXCEPT ![n] = "succeeded"]
  <2>1. /\ ScheduleDownstream(run, st, cases) /\ wakeup' = [wakeup EXCEPT ![n] = "none"]
        /\ escalated' = escalated \ {n} /\ st \in StatusMap
    BY <1>0, <1>8 DEF ResumeNode, DeleteWakeup, NodeStatus
  <2>2. \A m \in Node : st[m] = "waiting" => node[m] = "waiting" /\ m # n
    BY <1>0
  <2> HIDE DEF st
  <2>3. \A m \in Node : node'[m] = "waiting" => st[m] = "waiting"
    BY <1>0, <1>c, <2>1
  <2> QED
    BY <1>b, <1>8, <2>1, <2>2, <2>3
<1>9. ASSUME NEW l \in listed, TimerFires(l)
      PROVE  ClockInv'
  <2>1. l.node \in Node /\ listed' \subseteq listed
    BY <1>9 DEF TypeOK, TimerFires, Processed
  <2>2. ResumeNode(l.node) \/ UNCHANGED <<node, wakeup, escalated>>
    BY <1>9 DEF TimerFires, runVars
  <2> QED
    BY <1>a, <1>8, <2>1, <2>2
<1>10. ASSUME NEW l \in listed, ApprovalTimeout(l)
       PROVE  ClockInv'
  <2> DEFINE n  == l.node
             st == [node EXCEPT ![n] = "failed"]
  <2>1. n \in Node /\ Kind[n] = "approval" /\ listed' \subseteq listed
    BY <1>10 DEF TypeOK, ApprovalTimeout, Processed, ClockInv
  <2>2. \/ UNCHANGED <<node, wakeup, escalated>>
        \/ UNCHANGED <<node, escalated>> /\ n \in escalated /\ wakeup' = [wakeup EXCEPT ![n] = "none"]
        \/ /\ UNCHANGED <<node, escalated>> /\ n \notin escalated
           /\ wakeup' = [wakeup EXCEPT ![n] = "approval_timeout"]
        \/ /\ UNCHANGED node /\ escalated' = escalated \cup {n}
           /\ wakeup' = [wakeup EXCEPT ![n] = "none"]
        \/ /\ FlipRunTerminal("failed", st, attempts, cases) /\ UNCHANGED escalated
           /\ wakeup' = [wakeup EXCEPT ![n] = "none"]
    BY <1>10 DEF ApprovalTimeout, runVars, DeleteWakeup
  <2>3. st \in StatusMap /\ \A m \in Node : st[m] = "waiting" => node[m] = "waiting" /\ m # n
    BY <1>0, <2>1 DEF NodeStatus
  <2> HIDE DEF n, st
  <2>4. CASE UNCHANGED <<node, wakeup, escalated>>
    BY <1>a, <2>1, <2>4
  <2>5. CASE /\ FlipRunTerminal("failed", st, attempts, cases) /\ UNCHANGED escalated
             /\ wakeup' = [wakeup EXCEPT ![n] = "none"]
    <3>1. \A m \in Node : node'[m] = "waiting" => st[m] = "waiting"
      BY <1>f, <2>3, <2>5
    <3> QED
      BY <1>b, <2>1, <2>3, <2>5, <3>1
  <2>6. ASSUME UNCHANGED node, NEW x \in {"none", "approval_timeout"},
               wakeup' = [wakeup EXCEPT ![n] = x], escalated' \in {escalated, escalated \cup {n}},
               x = "none" <=> n \in escalated'
        PROVE  ClockInv'
    <3>1. /\ wakeup'[n] = x
          /\ \A m \in Node : m # n => wakeup'[m] = wakeup[m] /\ (m \in escalated' <=> m \in escalated)
      BY <1>0, <2>1, <2>6
    <3>2. \A m \in Node : Clocked(m)'
      BY <2>1, <2>6, <3>1 DEF ClockInv, Clocked
    <3>3. \A m \in Node : wakeup'[m] = "approval_timeout" => Kind[m] = "approval"
      BY <2>1, <3>1 DEF ClockInv
    <3> QED
      BY <2>1, <3>2, <3>3 DEF ClockInv
  <2> QED
    BY <2>2, <2>4, <2>5, <2>6
<1>11. ASSUME CancelRun
       PROVE  ClockInv'
  <2>1. /\ \A m \in Node : node'[m] = "waiting" => node[m] = "waiting"
        /\ UNCHANGED <<wakeup, escalated, listed>>
    BY <1>0, <1>11 DEF CancelRun
  <2> QED
    BY <1>a, <2>1
<1>12. ASSUME NEW n \in Node, Revive(n)
       PROVE  ClockInv'
  BY <1>0, <1>a, <1>12 DEF Revive
<1>13. ASSUME NEW d \in deadLetters, RedriveDeadLetter(d)
       PROVE  ClockInv'
  BY <1>12, <1>13 DEF RedriveDeadLetter, TypeOK, DeadLetter, DeadLetterId
<1>14. ASSUME NEW n \in Node, NEW decision \in {"replace", "accept_loss"},
              ResolveCase(n, decision)
       PROVE  ClockInv'
  <2> DEFINE cs == [cases EXCEPT ![n] =
                      IF decision = "replace" THEN "monitoring" ELSE "closed"]
  <2>1. /\ ScheduleDownstream("running", node, cs) \/ node' = node
        /\ UNCHANGED <<wakeup, escalated, listed>>
    BY <1>14 DEF ResolveCase
  <2>2. cs \in CaseMap /\ "running" \in RunStatus
    BY <1>0 DEF RunStatus
  <2> HIDE DEF cs
  <2>3. \A m \in Node : node'[m] = "waiting" => node[m] = "waiting"
    BY <1>0, <1>c, <2>1, <2>2
  <2> QED
    BY <1>a, <2>1, <2>3
<1>15. ASSUME NEW w \in Worker, (\E o \in Outcome : SkipCommit(w, o)) \/ Crash(w)
       PROVE  ClockInv'
  BY <1>15, <1>a DEF SkipCommit, Crash, runVars
<1>16. ASSUME NEW n \in Node, ReaperScan(n) \/ Clock(n)
       PROVE  ClockInv'
  BY <1>16, <1>a DEF ReaperScan, Clock, runVars
<1>17. ASSUME NEW n \in Node, ListDueWakeup(n)
       PROVE  ClockInv'
  <2>1. /\ UNCHANGED <<node, wakeup, escalated>>
        /\ \A l \in listed' : l \in listed \/ (l.node = n /\ l.reason = wakeup[n])
    BY <1>17 DEF ListDueWakeup, runVars
  <2> QED
    BY <2>1 DEF ClockInv, Clocked
<1>18. ASSUME SweepDueWakeups
       PROVE  ClockInv'
  <2>1. /\ UNCHANGED <<node, escalated, listed>>
        /\ \A m \in Node : \/ wakeup'[m] = wakeup[m]
                           \/ wakeup'[m] = "none" /\ node[m] # "waiting"
    BY <1>18 DEF SweepDueWakeups, Consumed
  <2> QED
    BY <2>1 DEF ClockInv, Clocked
<1> QED
  BY <1>1, <1>2, <1>3, <1>4, <1>6, <1>7, <1>8, <1>9, <1>10, <1>11, <1>12, <1>13, <1>14,
     <1>15, <1>16, <1>17, <1>18
     DEF Next, Commit, Sweep, Operator, ResumeRun, RedriveRunNode

LEMMA ClockInvariant == Spec => []ClockInv
<1>1. Init => ClockInv
  BY DEF Init, ClockInv, Clocked
<1>2. TypeOK /\ ClockInv /\ [Next]_vars => ClockInv'
  <2>1. CASE UNCHANGED vars
    BY <2>1 DEF ClockInv, Clocked, vars, runVars
  <2> QED
    BY <2>1, NextKeepsClocks
<1> QED
  BY <1>1, <1>2, TypeCorrect, PTL DEF Spec

(***************************************************************************)
(* A waiting row always holds the clock of its own kind of wait: retries,  *)
(* sweeps of other replicas, stale deadlines and escalations never leave a *)
(* timer without its clock or a human wait with a foreign one.             *)
(***************************************************************************)
THEOREM WaitsAreClocked == Spec => []WaitingRowHasItsClock
<1>1. ClockInv => WaitingRowHasItsClock
  BY DEF ClockInv, Clocked, WaitingRowHasItsClock
<1> QED
  BY <1>1, ClockInvariant, PTL

\* What a step does to deadlines in flight: a row that goes on waiting keeps its
\* passed instant or is escalated; a sweeper lists what is due now; and a wait
\* fails only by a listed deadline of the row's current generation.
StaysDue(m) ==
    node[m] = "waiting" /\ node'[m] = "waiting" /\ m \in due \cup escalated
        => m \in due' \cup escalated'

ExpiresBy(m) ==
    node[m] = "waiting" /\ node'[m] = "failed" =>
        \E l \in listed : l.node = m /\ l.deadline = generation[m] /\ m \notin escalated

ListsDue ==
    \/ listed' \subseteq listed
    \/ /\ UNCHANGED <<node, generation, due, escalated>>
       /\ \A l \in listed' : l \in listed \/ /\ l.node \in due
                                             /\ l.deadline = generation[l.node]
                                             /\ node[l.node] = "waiting"

LEMMA NextHandlesDue ==
    ASSUME TypeOK, Next
    PROVE  ListsDue /\ \A m \in Node : StaysDue(m) /\ ExpiresBy(m)
<1> USE DEF StatusMap, CaseMap
<1> DEFINE Goal == ListsDue /\ \A m \in Node : StaysDue(m) /\ ExpiresBy(m)
<1>0. node \in StatusMap /\ run \in RunStatus /\ cases \in CaseMap
  BY DEF TypeOK
\* No row changes, and no instant is forgotten.
<1>a. ASSUME UNCHANGED <<node, escalated>>, ListsDue,
             \A m \in Node : node[m] = "waiting" /\ m \in due => m \in due'
      PROVE  Goal
  BY <1>a DEF StaysDue, ExpiresBy
\* One row, which did not wait or waits no longer, moves and loses its clock.
<1>b. ASSUME NEW n \in Node, listed' \subseteq listed,
             node[n] # "waiting" \/ node'[n] \notin {"waiting", "failed"},
             \A m \in Node : m # n => /\ m \in due => m \in due'
                                      /\ m \in escalated => m \in escalated'
                                      /\ node[m] = "waiting" => node'[m] # "failed"
      PROVE  Goal
  BY <1>b DEF StaysDue, ExpiresBy, ListsDue
\* Scheduling fails no row.
<1>c. ASSUME NEW r \in RunStatus, NEW st \in StatusMap, NEW cs \in CaseMap,
             ScheduleDownstream(r, st, cs)
      PROVE  \A m \in Node : st[m] \notin {"pending", "queued"} => node'[m] = st[m]
  BY <1>c, ScheduleEffect
<1>f. ASSUME NEW st \in StatusMap, FlipRunTerminal("failed", st, attempts, cases)
      PROVE  \A m \in Node : st[m] # "queued" => node'[m] = st[m]
  BY <1>0, <1>f, FlipEffect DEF RunStatus
<1>1. ASSUME NEW w \in Worker, NEW n \in Node, ClaimNode(w, n)
      PROVE  Goal
  <2>1. /\ node[n] = "queued" /\ node' = [node EXCEPT ![n] = "running"]
        /\ UNCHANGED <<due, escalated, listed>>
    BY <1>1 DEF ClaimNode
  <2> QED
    BY <1>0, <1>b, <2>1
<1>2. ASSUME NEW w \in Worker, NEW v \in {"none", "quarantine", "observe"},
             NEW c \in Node \cup {NoNode}, CompleteNode(w, v, c)
      PROVE  Goal
  <2> DEFINE n  == claim[w].node
             cs == IF v = "none" THEN cases ELSE [cases EXCEPT ![n] = v]
             st == Skipping([node EXCEPT ![n] = "succeeded"], Losers(n, c))
  <2>1. n \in Node /\ node[n] = "running"
    BY <1>2, ClaimNamesNode DEF CompleteNode, Reports, Claim, StillRunning
  <2>2. cs \in CaseMap /\ st \in StatusMap
    BY <1>0, <2>1 DEF NodeStatus, Skipping
  <2>3. \A m \in Node : m # n /\ node[m] = "waiting" => st[m] = "waiting"
    <3>1. \A m \in Losers(n, c) : node[m] = "pending"
      BY DEF Losers
    <3> QED
      BY <1>0, <2>1, <3>1 DEF Skipping
  <2>4. node' = st \/ ScheduleDownstream(run, st, cs)
    BY <1>2 DEF CompleteNode
  <2>5. due' = due \ {n} /\ UNCHANGED <<escalated, listed>>
    BY <1>2 DEF CompleteNode, DeleteWakeup
  <2> HIDE DEF n, st, cs
  <2>6. \A m \in Node : st[m] \notin {"pending", "queued"} => node'[m] = st[m]
    BY <1>0, <1>c, <2>2, <2>4
  <2>7. \A m \in Node : m # n /\ node[m] = "waiting" => node'[m] # "failed"
    BY <2>3, <2>6
  <2> QED
    BY <1>b, <2>1, <2>5, <2>7
<1>3. ASSUME NEW w \in Worker, MarkNodeWaiting(w)
      PROVE  Goal
  <2> DEFINE n == claim[w].node
  <2>1. n \in Node /\ node[n] = "running"
    BY <1>3, ClaimNamesNode DEF MarkNodeWaiting, Reports, Claim, StillRunning
  <2>2. /\ node' = [node EXCEPT ![n] = "waiting"] /\ UNCHANGED listed
        /\ escalated' = escalated \ {n} /\ due' = due \ {n}
    BY <1>3 DEF MarkNodeWaiting, UpsertWakeup, DeleteWakeup
  <2> HIDE DEF n
  <2> QED
    BY <1>0, <1>b, <2>1, <2>2
<1>4. ASSUME NEW w \in Worker, RetryNode(w)
      PROVE  Goal
  <2> DEFINE n == claim[w].node
  <2>1. n \in Node /\ node[n] = "running"
    BY <1>4, ClaimNamesNode DEF RetryNode, Reports, Claim, StillRunning
  <2>2. /\ node' = [node EXCEPT ![n] = "queued"] /\ UNCHANGED <<escalated, listed>>
        /\ due' = due \ {n}
    BY <1>4 DEF RetryNode, UpsertWakeup
  <2> HIDE DEF n
  <2> QED
    BY <1>0, <1>b, <2>1, <2>2
<1>5. ASSUME NEW n \in Node, FailRunNode(n), UNCHANGED listed
      PROVE  Goal
  <2> DEFINE failed == [node EXCEPT ![n] = "failed"]
  <2>1. /\ node[n] = "running" /\ due' = due \ {n} /\ UNCHANGED escalated
        /\ \/ ScheduleDownstream(run, failed, cases)
           \/ FlipRunTerminal("failed", failed, attempts, cases)
           \/ node' = failed
    BY <1>5 DEF FailRunNode, StillRunning, DeleteWakeup
  <2>2. /\ failed \in StatusMap
        /\ \A m \in Node : m # n => failed[m] = node[m]
    BY <1>0 DEF NodeStatus
  <2> HIDE DEF failed
  <2>3. \A m \in Node : failed[m] \notin {"pending", "queued"} => node'[m] = failed[m]
    BY <1>0, <1>c, <1>f, <2>1, <2>2
  <2>4. \A m \in Node : m # n /\ node[m] = "waiting" => node'[m] # "failed"
    BY <2>2, <2>3
  <2> QED
    BY <1>b, <1>5, <2>1, <2>4
<1>6. ASSUME NEW w \in Worker, NEW o \in Outcome, FailNode(w, o)
      PROVE  Goal
  BY <1>5, <1>6, ClaimNamesNode DEF FailNode, Reports, Claim
<1>7. ASSUME NEW c \in stalled, Reap(c)
      PROVE  Goal
  <2>1. c.node \in Node /\ UNCHANGED listed
    BY <1>7 DEF TypeOK, DeadLetterId, Reap
  <2>2. FailRunNode(c.node) \/ UNCHANGED <<node, due, escalated>>
    BY <1>7 DEF Reap, runVars
  <2> QED
    BY <1>a, <1>5, <2>1, <2>2 DEF ListsDue
<1>8. ASSUME NEW n \in Node, ResumeNode(n), listed' \subseteq listed
      PROVE  Goal
  <2> DEFINE st == [node EXCEPT ![n] = "succeeded"]
  <2>1. /\ ScheduleDownstream(run, st, cases) /\ due' = due \ {n}
        /\ escalated' = escalated \ {n}
    BY <1>8 DEF ResumeNode, DeleteWakeup
  <2>2. /\ st \in StatusMap /\ st[n] = "succeeded"
        /\ \A m \in Node : m # n => st[m] = node[m]
    BY <1>0 DEF NodeStatus
  <2> HIDE DEF st
  <2>3. \A m \in Node : st[m] \notin {"pending", "queued"} => node'[m] = st[m]
    BY <1>0, <1>c, <2>1, <2>2
  <2>4. /\ node'[n] = "succeeded"
        /\ \A m \in Node : m # n /\ node[m] = "waiting" => node'[m] # "failed"
    BY <2>2, <2>3
  <2> QED
    BY <1>b, <1>8, <2>1, <2>4
<1>9. ASSUME NEW l \in listed, TimerFires(l)
      PROVE  Goal
  <2>1. l.node \in Node /\ listed' \subseteq listed
    BY <1>9 DEF TypeOK, TimerFires, Processed
  <2>2. ResumeNode(l.node) \/ UNCHANGED <<node, due, escalated>>
    BY <1>9 DEF TimerFires, runVars
  <2> QED
    BY <1>a, <1>8, <2>1, <2>2 DEF ListsDue
<1>10. ASSUME NEW l \in listed, ApprovalTimeout(l)
       PROVE  Goal
  <2> DEFINE n  == l.node
             st == [node EXCEPT ![n] = "failed"]
  <2>1. n \in Node /\ listed' \subseteq listed
    BY <1>10 DEF TypeOK, ApprovalTimeout, Processed
  <2>2. \/ UNCHANGED <<node, due, escalated>>
        \/ UNCHANGED <<node, escalated>> /\ n \in escalated /\ due' = due \ {n}
        \/ UNCHANGED node /\ escalated' = escalated \cup {n} /\ due' = due \ {n}
        \/ /\ n \notin escalated /\ l.deadline = generation[n] /\ UNCHANGED escalated
           /\ FlipRunTerminal("failed", st, attempts, cases) /\ due' = due \ {n}
    BY <1>10 DEF ApprovalTimeout, CurrentDeadline, runVars, DeleteWakeup
  <2>3. /\ st \in StatusMap /\ st[n] = "failed"
        /\ \A m \in Node : m # n => st[m] = node[m]
    BY <1>0, <2>1 DEF NodeStatus
  <2> HIDE DEF st
  <2>4. CASE UNCHANGED node /\ n \in escalated' /\ escalated \subseteq escalated' /\ due' = due \ {n}
    BY <2>1, <2>4 DEF StaysDue, ExpiresBy, ListsDue
  <2>5. CASE /\ n \notin escalated /\ l.deadline = generation[n] /\ UNCHANGED escalated
             /\ FlipRunTerminal("failed", st, attempts, cases) /\ due' = due \ {n}
    <3>1. \A m \in Node : st[m] # "queued" => node'[m] = st[m]
      BY <1>f, <2>3, <2>5
    <3>2. node'[n] = "failed" /\ \A m \in Node : m # n /\ node[m] = "waiting" => node'[m] = "waiting"
      BY <2>1, <2>3, <3>1
    <3>3. \A m \in Node : StaysDue(m)
      BY <2>5, <3>2 DEF StaysDue
    <3>4. \A m \in Node : ExpiresBy(m)
      BY <2>5, <3>2 DEF ExpiresBy
    <3> QED
      BY <2>1, <3>3, <3>4 DEF ListsDue
  <2> QED
    BY <1>a, <2>1, <2>2, <2>4, <2>5 DEF ListsDue
<1>11. ASSUME CancelRun
       PROVE  Goal
  <2>1. /\ \A m \in Node : node[m] = "waiting" => node'[m] = "cancelled"
        /\ UNCHANGED <<due, escalated, listed>>
    BY <1>11 DEF CancelRun
  <2> QED
    BY <2>1 DEF StaysDue, ExpiresBy, ListsDue
<1>12. ASSUME NEW n \in Node, Revive(n)
       PROVE  Goal
  <2>1. /\ node[n] = "failed" /\ node' = [node EXCEPT ![n] = "queued"]
        /\ UNCHANGED <<due, escalated, listed>>
    BY <1>12 DEF Revive
  <2> QED
    BY <1>0, <1>b, <2>1
<1>13. ASSUME NEW d \in deadLetters, RedriveDeadLetter(d)
       PROVE  Goal
  BY <1>12, <1>13 DEF RedriveDeadLetter, TypeOK, DeadLetter, DeadLetterId
<1>14. ASSUME NEW n \in Node, NEW decision \in {"replace", "accept_loss"},
              ResolveCase(n, decision)
       PROVE  Goal
  <2> DEFINE cs == [cases EXCEPT ![n] =
                      IF decision = "replace" THEN "monitoring" ELSE "closed"]
  <2>1. /\ ScheduleDownstream("running", node, cs) \/ node' = node
        /\ UNCHANGED <<due, escalated, listed>>
    BY <1>14 DEF ResolveCase
  <2>2. cs \in CaseMap /\ "running" \in RunStatus
    BY <1>0 DEF RunStatus
  <2> HIDE DEF cs
  <2>3. \A m \in Node : node[m] \notin {"pending", "queued"} => node'[m] = node[m]
    BY <1>0, <1>c, <2>1, <2>2
  <2> QED
    BY <2>1, <2>3 DEF StaysDue, ExpiresBy, ListsDue
<1>15. ASSUME NEW w \in Worker, (\E o \in Outcome : SkipCommit(w, o)) \/ Crash(w)
       PROVE  Goal
  BY <1>15, <1>a DEF SkipCommit, Crash, runVars, ListsDue
<1>16. ASSUME NEW n \in Node, ReaperScan(n) \/ Clock(n)
       PROVE  Goal
  BY <1>16, <1>a DEF ReaperScan, Clock, runVars, ListsDue
<1>17. ASSUME NEW n \in Node, ListDueWakeup(n)
       PROVE  Goal
  <2>1. /\ UNCHANGED <<node, generation, due, escalated>> /\ n \in due /\ node[n] = "waiting"
        /\ \A l \in listed' : l \in listed \/ (l.node = n /\ l.deadline = generation[n])
    BY <1>17 DEF ListDueWakeup, runVars
  <2>2. ListsDue
    BY <2>1 DEF ListsDue
  <2> QED
    BY <1>a, <2>1, <2>2
<1>18. ASSUME SweepDueWakeups
       PROVE  Goal
  <2>1. /\ UNCHANGED <<node, escalated, listed>>
        /\ \A m \in Node : node[m] = "waiting" /\ m \in due => m \in due'
    BY <1>18 DEF SweepDueWakeups, Consumed
  <2> QED
    BY <1>a, <2>1 DEF ListsDue
<1> HIDE DEF Goal
<1>19. Goal
  BY <1>1, <1>2, <1>3, <1>4, <1>6, <1>7, <1>8, <1>9, <1>10, <1>11, <1>12, <1>13, <1>14,
     <1>15, <1>16, <1>17, <1>18
     DEF Next, Commit, Sweep, Operator, ResumeRun, RedriveRunNode
<1> QED
  BY <1>19 DEF Goal

(***************************************************************************)
(* The strengthening: a deadline some sweeper holds is of its row's        *)
(* current generation or an earlier one; while it is of the current one    *)
(* the row has not been queued again, and if it still waits its instant    *)
(* has passed or it is escalated.                                          *)
(***************************************************************************)
Idle(s) == s \notin {"pending", "queued", "running"}

DeadlineInv ==
    \A l \in listed :
        /\ l.deadline <= generation[l.node]
        /\ l.deadline = generation[l.node] =>
             /\ Idle(node[l.node])
             /\ node[l.node] = "waiting" => l.node \in due \cup escalated

LEMMA NextKeepsDeadlines ==
    ASSUME TypeOK, TypeOK', Ordered(node), DeadlineInv, Next
    PROVE  DeadlineInv'
<1>0. /\ generation \in [Node -> Nat] /\ generation' \in [Node -> Nat]
      /\ \A l \in listed : l.node \in Node /\ l.deadline \in Nat
  BY DEF TypeOK
<1>1. ASSUME NEW n \in Node
      PROVE  /\ generation'[n] >= generation[n]
             /\ generation'[n] = generation[n] /\ Idle(node[n]) => Idle(node'[n])
             /\ node'[n] = "waiting" /\ Idle(node[n]) => node[n] = "waiting"
  <2>1. Moves(node[n], node'[n])
    BY NextKeepsOrder
  <2>2. CASE \E w \in Worker, m \in Node : ClaimNode(w, m)
    <3>1. PICK m \in Node : /\ node[m] = "queued" /\ node' = [node EXCEPT ![m] = "running"]
                            /\ UNCHANGED generation
      BY <2>2 DEF ClaimNode
    <3>2. node \in [Node -> NodeStatus]
      BY DEF TypeOK
    <3>3. Idle(node[n]) => node'[n] = node[n]
      BY <3>1, <3>2 DEF Idle
    <3> QED
      BY <1>0, <3>1, <3>3
  <2>3. CASE ~\E w \in Worker, m \in Node : ClaimNode(w, m)
    <3>1. Publishes(n)
      BY <2>3, NextPublishes
    <3> QED
      BY <2>1, <3>1 DEF Publishes, Moves, Idle
  <2> QED
    BY <2>2, <2>3
<1>2. ASSUME NEW l \in listed
      PROVE  /\ l.deadline <= generation'[l.node]
             /\ l.deadline = generation'[l.node] =>
                  /\ Idle(node'[l.node])
                  /\ node'[l.node] = "waiting" => l.node \in due' \cup escalated'
  <2>1. l.node \in Node /\ l.deadline <= generation[l.node]
    BY <1>0 DEF DeadlineInv
  <2>2. l.deadline <= generation'[l.node]
    BY <1>0, <1>1, <2>1
  <2>3. ASSUME l.deadline = generation'[l.node]
        PROVE  /\ Idle(node'[l.node])
               /\ node'[l.node] = "waiting" => l.node \in due' \cup escalated'
    <3>1. l.deadline = generation[l.node] /\ generation'[l.node] = generation[l.node]
      BY <1>0, <1>1, <2>1, <2>3
    <3>2. /\ Idle(node[l.node])
          /\ node[l.node] = "waiting" => l.node \in due \cup escalated
      BY <3>1 DEF DeadlineInv
    <3>3. StaysDue(l.node)
      BY <2>1, NextHandlesDue
    <3> QED
      BY <1>1, <2>1, <3>1, <3>2, <3>3 DEF StaysDue
  <2> QED
    BY <2>2, <2>3
<1>3. ListsDue
  BY NextHandlesDue
<1>4. CASE listed' \subseteq listed
  BY <1>2, <1>4 DEF DeadlineInv
<1>5. CASE /\ UNCHANGED <<node, generation, due, escalated>>
           /\ \A l \in listed' : l \in listed \/ /\ l.node \in due
                                                 /\ l.deadline = generation[l.node]
                                                 /\ node[l.node] = "waiting"
  <2> SUFFICES ASSUME NEW l \in listed'
               PROVE  /\ l.deadline <= generation'[l.node]
                      /\ l.deadline = generation'[l.node] =>
                           /\ Idle(node'[l.node])
                           /\ node'[l.node] = "waiting" => l.node \in due' \cup escalated'
    BY DEF DeadlineInv
  <2>1. CASE l \in listed
    BY <1>2, <2>1
  <2>2. CASE l.node \in due /\ l.deadline = generation[l.node] /\ node[l.node] = "waiting"
    <3>1. l.node \in Node
      BY <2>2 DEF TypeOK
    <3> QED
      BY <1>0, <1>5, <2>2, <3>1 DEF Idle
  <2> QED
    BY <1>5, <2>1, <2>2
<1> QED
  BY <1>3, <1>4, <1>5 DEF ListsDue

(***************************************************************************)
(* A wait expires only when its own deadline has passed: an entry another  *)
(* sweeper read for an earlier wait of the node, delivered after a redrive *)
(* or a second time, never fails the wait that is on now.                  *)
(***************************************************************************)
THEOREM DeadlinesAreTheirOwn == Spec => DeadlineIsItsOwn
<1>1. Init => DeadlineInv
  BY DEF Init, DeadlineInv
<1>2. TypeOK /\ TypeOK' /\ DependenciesFirst /\ DeadlineInv /\ [Next]_vars => DeadlineInv'
  <2>1. CASE UNCHANGED vars
    BY <2>1 DEF DeadlineInv, vars, runVars
  <2> QED
    BY <2>1, NextKeepsDeadlines DEF DependenciesFirst, Ordered
<1>3. TypeOK /\ DeadlineInv /\ [Next]_vars =>
        [\A n \in Node : node[n] = "waiting" /\ node'[n] = "failed" => n \in due]_vars
  <2> SUFFICES ASSUME TypeOK, DeadlineInv, Next, NEW n \in Node,
                      node[n] = "waiting", node'[n] = "failed"
               PROVE  n \in due
    OBVIOUS
  <2>1. PICK l \in listed : l.node = n /\ l.deadline = generation[n] /\ n \notin escalated
    BY NextHandlesDue DEF ExpiresBy
  <2> QED
    BY <2>1 DEF DeadlineInv
<1>4. Spec => []TypeOK /\ []DependenciesFirst
  BY TypeCorrect, WorkIsOrdered
<1>5. Spec => []DeadlineInv
  BY <1>1, <1>2, <1>4, PTL DEF Spec
<1> QED
  BY <1>3, <1>4, <1>5, PTL DEF Spec, DeadlineIsItsOwn

-----------------------------------------------------------------------------
(* Dead letters and recovery credit.                                         *)

(***************************************************************************)
(* The strengthening: the claim a redrive stamped on a row is of a dead    *)
(* letter that was replayed, and only a node that succeeded has a case.    *)
(***************************************************************************)
LetterOf(n, g, r) == [id |-> [node |-> n, generation |-> g], replayed |-> r]

CreditInv ==
    /\ CreditIsEarned
    /\ \A n \in Node : recoveryClaim[n] # 0 => LetterOf(n, recoveryClaim[n], TRUE) \in deadLetters
    /\ \A n \in Node : cases[n] # "none" => node[n] = "succeeded"

\* What a step may do to dead letters, claims, credit and cases.
CreditStep ==
    /\ \A d \in deadLetters : d.replayed => d \in deadLetters'
    /\ \A n \in Node : \/ recoveryClaim'[n] = recoveryClaim[n]
                       \/ LetterOf(n, recoveryClaim'[n], TRUE) \in deadLetters'
    /\ \A c \in credited' :
         \/ c \in credited
         \/ \E n \in Node : /\ recoveryClaim[n] # 0 /\ node'[n] = "succeeded"
                            /\ c = [node |-> n, generation |-> recoveryClaim[n]]
    /\ \A n \in Node : cases'[n] # "none" => cases[n] # "none" \/ node'[n] = "succeeded"

\* How a node comes to be failed, or stays it.
FailureStep(n) ==
    node'[n] = "failed" =>
        \/ /\ node[n] = "failed" /\ generation'[n] = generation[n]
           /\ \A d \in deadLetters : d.id.node = n => d \in deadLetters'
        \/ Kind[n] = "approval" \/ nodeFailureHandled(Edge, n)
        \/ LetterOf(n, generation'[n], FALSE) \in deadLetters'

\* Scheduling opens no case, and keeps the generation of what is not pending.
LEMMA ScheduleKeepsOthers ==
    ASSUME TypeOK, NEW r \in RunStatus, NEW st \in StatusMap, NEW cs \in CaseMap,
           ScheduleDownstream(r, st, cs), NEW n \in Node
    PROVE  /\ cases'[n] # "none" => cs[n] # "none"
           /\ st[n] # "pending" => generation'[n] = generation[n]
           /\ node'[n] = "failed" <=> st[n] = "failed"
           /\ st[n] = "succeeded" => node'[n] = "succeeded"
<1>1. cases'[n] # "none" => cs[n] # "none"
  BY DEF ScheduleDownstream, FlipRunTerminal, Finalized
<1>2. st[n] # "pending" => generation'[n] = generation[n]
  BY DEF ScheduleDownstream, QueueSet, Pending
<1>3. /\ st[n] \notin {"pending", "queued"} => node'[n] = st[n]
      /\ st[n] = "pending" => node'[n] \in {"pending", "queued", "skipped"}
      /\ st[n] = "queued" => node'[n] \in {"queued", "pending"}
  BY ScheduleEffect
<1> QED
  BY <1>1, <1>2, <1>3

LEMMA NextCredits ==
    ASSUME TypeOK, Ordered(node), ClockInv, CreditInv, Next
    PROVE  CreditStep /\ \A n \in Node : FailureStep(n)
<1> USE DEF StatusMap, CaseMap
<1> DEFINE Goal == CreditStep /\ \A n \in Node : FailureStep(n)
<1>0. /\ node \in StatusMap /\ run \in RunStatus /\ cases \in CaseMap
      /\ generation \in [Node -> Nat] /\ recoveryClaim \in [Node -> Nat]
  BY DEF TypeOK
<1>s. \A n \in Node : node[n] = "succeeded" => node'[n] = "succeeded"
  BY NextKeepsOrder DEF Moves
<1> DEFINE CasesKept  == \A m \in Node : cases'[m] # "none" => cases[m] # "none"
           FailedKept == \A m \in Node : node'[m] = "failed" =>
                             node[m] = "failed" /\ generation'[m] = generation[m]
\* A step that neither fails a node nor touches its dead letters.
<1>a. ASSUME UNCHANGED dlqVars, CasesKept, FailedKept
      PROVE  Goal
  BY <1>a DEF CreditStep, FailureStep, dlqVars
<1>c. ASSUME NEW r \in RunStatus, NEW st \in StatusMap, NEW cs \in CaseMap,
             ScheduleDownstream(r, st, cs)
      PROVE  \A m \in Node : /\ cases'[m] # "none" => cs[m] # "none"
                             /\ st[m] # "pending" => generation'[m] = generation[m]
                             /\ node'[m] = "failed" <=> st[m] = "failed"
                             /\ st[m] = "succeeded" => node'[m] = "succeeded"
  BY <1>c, ScheduleKeepsOthers
<1>f. ASSUME NEW st \in StatusMap, FlipRunTerminal("failed", st, attempts, cases)
      PROVE  \A m \in Node : /\ cases'[m] # "none" => cases[m] # "none"
                             /\ node'[m] = "failed" <=> st[m] = "failed"
  BY <1>f DEF FlipRunTerminal, Finalized, Demoted, TerminalRun
<1>1. ASSUME NEW w \in Worker, NEW n \in Node, ClaimNode(w, n)
      PROVE  Goal
  <2>1. /\ node' = [node EXCEPT ![n] = "running"] /\ UNCHANGED <<generation, cases, dlqVars>>
    BY <1>1 DEF ClaimNode
  <2> QED
    BY <1>0, <1>a, <2>1
<1>2. ASSUME NEW w \in Worker, NEW v \in {"none", "quarantine", "observe"},
             NEW c \in Node \cup {NoNode}, CompleteNode(w, v, c)
      PROVE  Goal
  <2> DEFINE n  == claim[w].node
             cs == IF v = "none" THEN cases ELSE [cases EXCEPT ![n] = v]
             st == Skipping([node EXCEPT ![n] = "succeeded"], Losers(n, c))
  <2>1. n \in Node /\ node[n] = "running"
    BY <1>2, ClaimNamesNode DEF CompleteNode, Reports, Claim, StillRunning
  <2>2. cs \in CaseMap /\ st \in StatusMap
    BY <1>0, <2>1 DEF NodeStatus, Skipping
  <2>3. \A m \in Node : /\ cs[m] # "none" => cases[m] # "none" \/ m = n
                        /\ st[m] = "failed" => node[m] = "failed"
    BY <1>0, <2>1 DEF Skipping
  <2>4. st[n] = "succeeded"
    BY <1>0, <2>1 DEF Skipping, Losers
  <2>5. \A m \in Node : /\ cases'[m] # "none" => cs[m] # "none"
                        /\ node'[m] = "failed" => st[m] = "failed" /\ generation'[m] = generation[m]
                        /\ st[m] = "succeeded" => node'[m] = "succeeded"
    <3>1. CASE Quarantined(v, cs)
      BY <1>2, <3>1 DEF CompleteNode
    <3>2. CASE ~Quarantined(v, cs)
      <4>1. ScheduleDownstream(run, st, cs)
        BY <1>2, <3>2 DEF CompleteNode
      <4> HIDE DEF st, cs
      <4> QED
        BY <1>0, <1>c, <2>2, <4>1
    <3> QED
      BY <3>1, <3>2
  <2>6. UNCHANGED <<deadLetters, recoveryClaim>> /\ Credit(n)
    BY <1>2 DEF CompleteNode
  <2> HIDE DEF n, cs, st
  <2>7. CreditStep
    BY <2>1, <2>3, <2>4, <2>5, <2>6 DEF CreditStep, Credit
  <2>8. \A m \in Node : FailureStep(m)
    BY <2>3, <2>5, <2>6 DEF FailureStep
  <2> QED
    BY <2>7, <2>8
<1>3. ASSUME NEW w \in Worker, MarkNodeWaiting(w) \/ RetryNode(w)
      PROVE  Goal
  <2> DEFINE n == claim[w].node
  <2>1. n \in Node
    BY <1>3, ClaimNamesNode DEF MarkNodeWaiting, RetryNode, Reports, Claim
  <2>2. /\ \E x \in {"waiting", "queued"} : node' = [node EXCEPT ![n] = x]
        /\ UNCHANGED <<cases, dlqVars>>
        /\ generation' = generation \/ generation' = [generation EXCEPT ![n] = @ + 1]
    BY <1>3 DEF MarkNodeWaiting, RetryNode, NextGeneration
  <2> HIDE DEF n
  <2> QED
    BY <1>0, <1>a, <2>1, <2>2
<1>4. ASSUME NEW n \in Node, FailRunNode(n)
      PROVE  Goal
  <2> DEFINE failed == [node EXCEPT ![n] = "failed"]
  <2>1. failed \in StatusMap /\ \A m \in Node : failed[m] = "failed" <=> (m = n \/ node[m] = "failed")
    BY <1>0 DEF NodeStatus
  <2>2. UNCHANGED <<recoveryClaim, credited>>
    BY <1>4 DEF FailRunNode
  <2>3. CASE run = "running" /\ nodeFailureHandled(Edge, n)
    <3>1. ScheduleDownstream(run, failed, cases) /\ UNCHANGED deadLetters
      BY <1>4, <2>3 DEF FailRunNode
    <3> HIDE DEF failed
    <3>2. \A m \in Node : /\ cases'[m] # "none" => cases[m] # "none"
                          /\ node'[m] = "failed" => failed[m] = "failed" /\ generation'[m] = generation[m]
      BY <1>0, <1>c, <2>1, <3>1
    <3> QED
      BY <2>1, <2>2, <2>3, <3>1, <3>2 DEF CreditStep, FailureStep
  <2>4. CASE ~(run = "running" /\ nodeFailureHandled(Edge, n))
    <3>1. /\ deadLetters' = deadLetters \cup {LetterOf(n, generation[n], FALSE)}
          /\ UNCHANGED generation
          /\ \/ FlipRunTerminal("failed", failed, attempts, cases)
             \/ node' = failed /\ UNCHANGED cases
      BY <1>4, <2>4 DEF FailRunNode, InsertDeadLetter, LetterOf
    <3> HIDE DEF failed
    <3>2. \A m \in Node : /\ cases'[m] # "none" => cases[m] # "none"
                          /\ node'[m] = "failed" => failed[m] = "failed"
      BY <1>f, <2>1, <3>1
    <3>3. CreditStep
      BY <2>2, <3>1, <3>2 DEF CreditStep
    <3>4. \A m \in Node : FailureStep(m)
      BY <2>1, <3>1, <3>2 DEF FailureStep
    <3> QED
      BY <3>3, <3>4
  <2> QED
    BY <2>3, <2>4
<1>5. ASSUME NEW w \in Worker, NEW o \in Outcome, FailNode(w, o)
      PROVE  Goal
  BY <1>4, <1>5, ClaimNamesNode DEF FailNode, Reports, Claim
<1>6. ASSUME NEW c \in stalled, Reap(c)
      PROVE  Goal
  <2>1. c.node \in Node
    BY DEF TypeOK, DeadLetterId
  <2>2. FailRunNode(c.node) \/ UNCHANGED <<node, generation, cases, dlqVars>>
    BY <1>6 DEF Reap, runVars
  <2> QED
    BY <1>a, <1>4, <2>1, <2>2
<1>7. ASSUME NEW n \in Node, ResumeNode(n)
      PROVE  Goal
  <2> DEFINE st == [node EXCEPT ![n] = "succeeded"]
  <2>1. /\ ScheduleDownstream(run, st, cases) /\ UNCHANGED dlqVars /\ st \in StatusMap
    BY <1>0, <1>7 DEF ResumeNode, NodeStatus
  <2>2. \A m \in Node : st[m] = "failed" => node[m] = "failed"
    BY <1>0
  <2> HIDE DEF st
  <2>3. CasesKept /\ FailedKept
    BY <1>0, <1>c, <2>1, <2>2
  <2> QED
    BY <1>a, <2>1, <2>3
<1>8. ASSUME NEW l \in listed, TimerFires(l)
      PROVE  Goal
  <2>1. /\ l.node \in Node
        /\ ResumeNode(l.node) \/ UNCHANGED <<node, generation, cases, dlqVars>>
    BY <1>8 DEF TimerFires, TypeOK, runVars
  <2> QED
    BY <1>a, <1>7, <2>1
<1>9. ASSUME NEW l \in listed, ApprovalTimeout(l)
      PROVE  Goal
  <2> DEFINE st == [node EXCEPT ![l.node] = "failed"]
  <2>1. /\ l.node \in Node /\ Kind[l.node] = "approval" /\ UNCHANGED <<generation, dlqVars>>
        /\ \/ UNCHANGED <<node, cases>>
           \/ FlipRunTerminal("failed", st, attempts, cases)
    BY <1>9 DEF ApprovalTimeout, runVars, TypeOK, ClockInv
  <2>2. st \in StatusMap /\ \A m \in Node : st[m] = "failed" => m = l.node \/ node[m] = "failed"
    BY <1>0, <2>1 DEF NodeStatus
  <2> HIDE DEF st
  <2>3. /\ \A m \in Node : cases'[m] # "none" => cases[m] # "none"
        /\ \A m \in Node : node'[m] = "failed" => m = l.node \/ node[m] = "failed"
    BY <1>f, <2>1, <2>2
  <2> QED
    BY <2>1, <2>3 DEF CreditStep, FailureStep, dlqVars
<1>10. ASSUME CancelRun
       PROVE  Goal
  <2>1. /\ UNCHANGED <<generation, dlqVars>>
        /\ \A m \in Node : node'[m] = "failed" => node[m] = "failed"
        /\ \A m \in Node : cases'[m] # "none" => cases[m] # "none"
    BY <1>10 DEF CancelRun, Finalized
  <2> QED
    BY <1>a, <2>1
<1>11. ASSUME NEW n \in Node, Revive(n)
       PROVE  /\ node'[n] = "queued" /\ UNCHANGED <<cases, credited>>
              /\ \A m \in Node : m # n => node'[m] = node[m] /\ generation'[m] = generation[m]
  BY <1>0, <1>11 DEF Revive, NextGeneration
<1>12. ASSUME NEW n \in Node, RedriveRunNode(n)
       PROVE  Goal
  BY <1>a, <1>11, <1>12 DEF RedriveRunNode, dlqVars
<1>13. ASSUME NEW d \in deadLetters, RedriveDeadLetter(d)
       PROVE  Goal
  <2> DEFINE n == d.id.node
             g == d.id.generation
  <2>1. n \in Node /\ g \in Nat /\ d.id = [node |-> n, generation |-> g]
    BY DEF TypeOK, DeadLetter, DeadLetterId
  <2>2. /\ ~d.replayed /\ Revive(n)
        /\ deadLetters' = (deadLetters \ {d}) \cup {LetterOf(n, g, TRUE)}
        /\ recoveryClaim' = [recoveryClaim EXCEPT ![n] = g]
    BY <1>13, <2>1 DEF RedriveDeadLetter, LetterOf
  <2>3. \A m \in Node : recoveryClaim'[m] = IF m = n THEN g ELSE recoveryClaim[m]
    BY <1>0, <2>1, <2>2
  <2>4. /\ node'[n] = "queued" /\ UNCHANGED <<cases, credited>>
        /\ \A m \in Node : m # n => node'[m] = node[m] /\ generation'[m] = generation[m]
    BY <1>11, <2>1, <2>2
  <2>5. CreditStep
    <3> HIDE DEF n, g
    <3>1. \A e \in deadLetters : e.replayed => e \in deadLetters'
      BY <2>2
    <3>2. \A m \in Node : \/ recoveryClaim'[m] = recoveryClaim[m]
                         \/ LetterOf(m, recoveryClaim'[m], TRUE) \in deadLetters'
      <4>1. LetterOf(n, g, TRUE) \in deadLetters'
        BY <2>2
      <4> QED
        BY <2>3, <4>1 DEF LetterOf
    <3> QED
      BY <2>4, <3>1, <3>2 DEF CreditStep
  <2>6. \A m \in Node : FailureStep(m)
    BY <2>2, <2>4 DEF FailureStep
  <2> QED
    BY <2>5, <2>6
<1>14. ASSUME NEW n \in Node, NEW decision \in {"replace", "accept_loss"},
              ResolveCase(n, decision)
       PROVE  Goal
  <2> DEFINE cs == [cases EXCEPT ![n] =
                      IF decision = "replace" THEN "monitoring" ELSE "closed"]
  <2>1. /\ \/ ScheduleDownstream("running", node, cs)
           \/ cases' = cs /\ UNCHANGED <<node, generation>>
        /\ UNCHANGED <<deadLetters, recoveryClaim>>
        /\ Credit(n) \/ UNCHANGED credited
        /\ cases[n] # "none"
    BY <1>14 DEF ResolveCase, Resolution
  <2>2. /\ cs \in CaseMap /\ "running" \in RunStatus
        /\ \A m \in Node : cs[m] # "none" => cases[m] # "none"
    BY <1>0, <2>1 DEF RunStatus
  <2>3. node'[n] = "succeeded"
    BY <1>s, <2>1 DEF CreditInv
  <2> HIDE DEF cs
  <2>4. CasesKept /\ FailedKept
    BY <1>0, <1>c, <2>1, <2>2
  <2>5. CreditStep
    BY <2>1, <2>3, <2>4 DEF CreditStep, Credit
  <2>6. \A m \in Node : FailureStep(m)
    BY <2>1, <2>4 DEF FailureStep
  <2> QED
    BY <2>5, <2>6
<1>15. ASSUME NEW w \in Worker, (\E o \in Outcome : SkipCommit(w, o)) \/ Crash(w)
       PROVE  Goal
  BY <1>15, <1>a DEF SkipCommit, Crash, runVars
<1>16. ASSUME NEW n \in Node, ReaperScan(n) \/ Clock(n) \/ ListDueWakeup(n)
       PROVE  Goal
  BY <1>16, <1>a DEF ReaperScan, Clock, ListDueWakeup, runVars
<1>17. ASSUME SweepDueWakeups
       PROVE  Goal
  BY <1>17, <1>a DEF SweepDueWakeups
<1> HIDE DEF Goal
<1>18. Goal
  BY <1>1, <1>2, <1>3, <1>5, <1>6, <1>7, <1>8, <1>9, <1>10, <1>12, <1>13, <1>14,
     <1>15, <1>16, <1>17
     DEF Next, Commit, Sweep, Operator, ResumeRun
<1> QED
  BY <1>18 DEF Goal

LEMMA NextKeepsCredit ==
    ASSUME TypeOK, Ordered(node), ClockInv, CreditInv, Next
    PROVE  CreditInv'
<1>1. CreditStep /\ \A n \in Node : node[n] = "succeeded" => node'[n] = "succeeded"
  BY NextCredits, NextKeepsOrder DEF Moves
<1>0. \A c \in credited : c.node \in Node
  BY DEF TypeOK, DeadLetterId
<1>2. \A n \in Node : recoveryClaim[n] # 0 => LetterOf(n, recoveryClaim[n], TRUE) \in deadLetters'
  BY <1>1 DEF CreditInv, CreditStep, LetterOf
<1>3. \A n \in Node : recoveryClaim'[n] # 0 => LetterOf(n, recoveryClaim'[n], TRUE) \in deadLetters'
  BY <1>1, <1>2 DEF CreditStep
<1>4. \A n \in Node : cases'[n] # "none" => node'[n] = "succeeded"
  BY <1>1 DEF CreditInv, CreditStep
<1>5. ASSUME NEW c \in credited'
      PROVE  node'[c.node] = "succeeded" /\ [id |-> c, replayed |-> TRUE] \in deadLetters'
  <2>1. CASE c \in credited
    <3>1. node[c.node] = "succeeded" /\ [id |-> c, replayed |-> TRUE] \in deadLetters
      BY <2>1 DEF CreditInv, CreditIsEarned
    <3>2. [id |-> c, replayed |-> TRUE].replayed
      OBVIOUS
    <3> QED
      BY <1>0, <1>1, <2>1, <3>1, <3>2 DEF CreditStep
  <2>2. CASE c \notin credited
    <3>1. PICK n \in Node : /\ recoveryClaim[n] # 0 /\ node'[n] = "succeeded"
                            /\ c = [node |-> n, generation |-> recoveryClaim[n]]
      BY <1>1, <2>2 DEF CreditStep
    <3> QED
      BY <1>2, <3>1 DEF LetterOf
  <2> QED
    BY <2>1, <2>2
<1> QED
  BY <1>3, <1>4, <1>5 DEF CreditInv, CreditIsEarned, LetterOf

LEMMA CreditInvariant == Spec => []CreditInv
<1> DEFINE Inv == TypeOK /\ DependenciesFirst /\ ClockInv
<1>1. Init => CreditInv
  BY DEF Init, CreditInv, CreditIsEarned
<1>2. Inv /\ CreditInv /\ [Next]_vars => CreditInv'
  <2> SUFFICES ASSUME Inv, CreditInv, [Next]_vars PROVE CreditInv'
    OBVIOUS
  <2>1. CASE Next
    BY <2>1, NextKeepsCredit DEF DependenciesFirst, Ordered
  <2>2. CASE UNCHANGED vars
    BY <2>2 DEF CreditInv, CreditIsEarned, vars, runVars, dlqVars
  <2> QED
    BY <2>1, <2>2
<1>3. Spec => []Inv
  BY TypeCorrect, WorkIsOrdered, ClockInvariant, PTL
<1> QED
  BY <1>1, <1>2, <1>3, PTL DEF Spec

(***************************************************************************)
(* A dead letter is credited only after it was replayed and its node       *)
(* succeeded, whether the success or the resolution of a quarantine earned *)
(* it (recordRecoveryImpact).                                              *)
(***************************************************************************)
THEOREM CreditIsDeserved == Spec => []CreditIsEarned
<1>1. CreditInv => CreditIsEarned
  BY DEF CreditInv
<1> QED
  BY <1>1, CreditInvariant, PTL

(***************************************************************************)
(* An execution failure that nothing handles can always be redriven: the   *)
(* dead letter of exactly the generation that failed is there, unclaimed,  *)
(* whichever worker or reaper failed the node and whatever earlier dead    *)
(* letters of it were claimed (insertDeadLetter).                          *)
(***************************************************************************)
THEOREM FailuresAreRecoverable == Spec => []ExecutionFailureIsRecoverable
<1> DEFINE Inv == TypeOK /\ DependenciesFirst /\ ClockInv /\ CreditInv
           F   == ExecutionFailureIsRecoverable
<1>1. Init => F
  BY DEF Init, ExecutionFailureIsRecoverable
<1>2. Inv /\ F /\ [Next]_vars => F'
  <2> SUFFICES ASSUME Inv, F, [Next]_vars PROVE F'
    OBVIOUS
  <2>1. CASE Next
    <3> SUFFICES ASSUME NEW n \in Node, Kind[n] # "approval", node'[n] = "failed",
                        ~nodeFailureHandled(Edge, n)
                 PROVE  LetterOf(n, generation'[n], FALSE) \in deadLetters'
      BY DEF ExecutionFailureIsRecoverable, LetterOf
    <3>1. FailureStep(n)
      BY <2>1, NextCredits DEF DependenciesFirst, Ordered
    <3>2. CASE /\ node[n] = "failed" /\ generation'[n] = generation[n]
               /\ \A d \in deadLetters : d.id.node = n => d \in deadLetters'
      <4>1. LetterOf(n, generation[n], FALSE) \in deadLetters
        BY <3>2 DEF ExecutionFailureIsRecoverable, LetterOf
      <4>2. LetterOf(n, generation[n], FALSE).id.node = n
        BY DEF LetterOf
      <4> QED
        BY <3>2, <4>1, <4>2
    <3> QED
      BY <3>1, <3>2 DEF FailureStep
  <2>2. CASE UNCHANGED vars
    BY <2>2 DEF ExecutionFailureIsRecoverable, vars, runVars, dlqVars
  <2> QED
    BY <2>1, <2>2
<1>3. Spec => []Inv
  BY TypeCorrect, WorkIsOrdered, ClockInvariant, CreditInvariant, PTL
<1> QED
  BY <1>1, <1>2, <1>3, PTL DEF Spec

-----------------------------------------------------------------------------
(* Progress: a running run has something to run.                             *)

(***************************************************************************)
(* What the scan skips is closed under its own rule, because skipping more *)
(* never makes a node less doomed or less satisfied; so a pending node the *)
(* scan leaves behind has a predecessor that is neither finished nor       *)
(* failed.  In an acyclic workflow the earliest such node waits on a row   *)
(* that is live - unless it is cancelled, which the strengthening rules    *)
(* out.                                                                    *)
(***************************************************************************)
\* More skips leave every decision of the predecessors as it was.
LEMMA SkipsAreMonotone ==
    ASSUME NEW g \in SUBSET EdgeSpace, NEW st \in [Node -> NodeStatus], NEW h,
           NEW S \in SUBSET Pending(st), NEW T \in SUBSET Pending(st), S \subseteq T,
           NEW n \in Node
    PROVE  /\ depsDoomed(g, n, Skipping(st, S)) => depsDoomed(g, n, Skipping(st, T))
           /\ depsSatisfied(g, n, Skipping(st, S)) => depsSatisfied(g, n, Skipping(st, T))
           /\ MustSkip(g, n, Skipping(st, S), h) => MustSkip(g, n, Skipping(st, T), h)
<1>1. \A e \in g : e.from \in Node
  BY DEF EdgeSpace
<1>2. \A m \in Node :
        /\ Skipping(st, S)[m] \in Fulfilled => Skipping(st, T)[m] \in Fulfilled
        /\ Skipping(st, S)[m] = "failed" => Skipping(st, T)[m] = "failed"
  BY DEF Skipping, Fulfilled, Pending
<1>3. \A e \in Incoming(g, n) : e \in g
  BY DEF Incoming
<1>4. depsDoomed(g, n, Skipping(st, S)) => depsDoomed(g, n, Skipping(st, T))
  BY <1>1, <1>2, <1>3 DEF depsDoomed
<1>5. depsSatisfied(g, n, Skipping(st, S)) => depsSatisfied(g, n, Skipping(st, T))
  BY <1>1, <1>2, <1>3 DEF depsSatisfied
<1> QED
  BY <1>4, <1>5 DEF MustSkip

\* The intersection of the closed sets is closed.
LEMMA LeastSkipsAreClosed ==
    ASSUME NEW g \in SUBSET EdgeSpace, NEW st \in [Node -> NodeStatus], NEW h
    PROVE  /\ SkipClosed(g, SkipSet(g, st, h), st, h)
           /\ SkipSet(g, st, h) \in SUBSET Pending(st)
           /\ \A S \in SUBSET Pending(st) : SkipClosed(g, S, st, h) => SkipSet(g, st, h) \subseteq S
<1> DEFINE K == SkipSet(g, st, h)
<1>1. K \in SUBSET Pending(st) /\ Pending(st) \in SUBSET Node
  BY DEF SkipSet, Pending
<1>2. \A S \in SUBSET Pending(st) : SkipClosed(g, S, st, h) => K \subseteq S
  BY DEF SkipSet
<1>3. SUFFICES ASSUME NEW n \in Pending(st), MustSkip(g, n, Skipping(st, K), h)
               PROVE  n \in K
  BY <1>1, <1>2 DEF SkipClosed
<1>4. SUFFICES ASSUME NEW S \in SUBSET Pending(st), SkipClosed(g, S, st, h) PROVE n \in S
  BY DEF SkipSet
<1>5. K \subseteq S /\ n \in Node
  BY <1>1, <1>2, <1>4
<1> HIDE DEF K
<1>6. MustSkip(g, n, Skipping(st, S), h)
  BY <1>1, <1>3, <1>5, SkipsAreMonotone
<1> QED
  BY <1>6, <1>4 DEF SkipClosed

\* No pending row waits on a cancelled one.
Awaitable(st) == \A e \in Edge : st[e.to] = "pending" => st[e.from] # "cancelled"

LEMMA ScanLeavesLive ==
    ASSUME NEW st \in StatusMap, Awaitable(st), QueueSet(Edge, st, holds) = {},
           NEW p \in Node, Scanned(Edge, st, holds)[p] \in openNodeStatuses
    PROVE  \E n \in Node : Scanned(Edge, st, holds)[n] \in Live
<1> DEFINE K     == SkipSet(Edge, st, holds)
           after == Scanned(Edge, st, holds)
           S     == {n \in Node : after[n] = "pending"}
<1> SUFFICES ASSUME \A n \in Node : after[n] \notin Live PROVE FALSE
  OBVIOUS
<1>0. after \in StatusMap
  BY ScannedType
<1>1. \A n \in Node : after[n] = Skipping(st, K)[n]
  BY DEF Scanned, Skipping
<1>2. p \in S
  BY DEF Live, openNodeStatuses
<1>3. PICK n \in S : \A e \in Edge : e.to = n => e.from \notin S
  <2>1. S \in SUBSET Node /\ S # {}
    BY <1>2
  <2> HIDE DEF S
  <2> QED
    BY <2>1, AcyclicAssumption
<1>4. n \in Node /\ after[n] = "pending"
  BY <1>3
<1>5. n \in Pending(st) /\ n \notin K
  <2>1. n \notin K
    BY <1>4 DEF Scanned
  <2> QED
    BY <1>1, <1>4, <2>1 DEF Skipping, Pending
<1>6. ASSUME NEW e \in Incoming(Edge, n)
      PROVE  Skipping(st, K)[e.from] \in {"succeeded", "skipped", "failed"}
  <2>1. e \in Edge /\ e.to = n /\ e.from \in Node
    BY EdgeAssumption DEF EdgeSpace, Incoming
  <2>2. after[e.from] # "pending"
    BY <1>3, <2>1
  <2>3. after[e.from] # "cancelled"
    <3>1. st[e.from] # "cancelled"
      BY <1>5, <2>1 DEF Awaitable, Pending
    <3>2. after[e.from] = st[e.from] \/ after[e.from] \in {"skipped", "queued"}
      BY <2>1 DEF Scanned
    <3> QED
      BY <3>1, <3>2
  <2>4. after[e.from] \in NodeStatus
    BY <1>0, <2>1 DEF StatusMap
  <2>5. after[e.from] \notin {"queued", "running", "waiting"}
    BY <2>1 DEF Live
  <2>6. after[e.from] \in {"succeeded", "skipped", "failed"}
    BY <2>2, <2>3, <2>4, <2>5 DEF NodeStatus
  <2> QED
    BY <1>1, <2>1, <2>6
<1>7. ~depsDoomed(Edge, n, Skipping(st, K))
  BY <1>5, EdgeAssumption, LeastSkipsAreClosed DEF SkipClosed, MustSkip, StatusMap
<1>8. depsSatisfied(Edge, n, Skipping(st, K))
  <2> HIDE DEF K
  <2> QED
    BY <1>6, <1>7 DEF depsSatisfied, depsDoomed, Fulfilled
<1>9. n \in QueueSet(Edge, st, holds)
  BY <1>5, <1>8 DEF QueueSet
<1> QED
  BY <1>9

LEMMA ScheduleLeavesLive ==
    ASSUME TypeOK, NEW r \in RunStatus, NEW st \in StatusMap, NEW cs \in CaseMap,
           ScheduleDownstream(r, st, cs), Awaitable(st), r = "running", run' = "running"
    PROVE  \E n \in Node : node'[n] \in Live
<1> DEFINE ready == QueueSet(Edge, st, holds)
           after == Scanned(Edge, st, holds)
           flip  == IF ready # {} THEN "running" ELSE RolledUp(after)
           att   == [n \in Node |-> IF n \in ready THEN 1 ELSE attempts[n]]
<1>1. FlipRunTerminal(flip, after, att, cs)
  BY DEF ScheduleDownstream
<1>2. flip = "running" /\ node' = after
  BY <1>1 DEF FlipRunTerminal
<1>3. CASE ready # {}
  <2>1. PICK n \in Node : n \in ready
    BY <1>3, ScannedType
  <2>2. after[n] = "queued"
    BY <2>1 DEF Scanned, QueueSet
  <2> HIDE DEF after
  <2> QED
    BY <1>2, <2>2 DEF Live
<1>4. CASE ready = {}
  <2>1. RolledUp(after) = "running"
    BY <1>2, <1>4
  <2>2. PICK p \in Node : after[p] \in openNodeStatuses
    BY <2>1 DEF RolledUp
  <2>3. \E n \in Node : after[n] \in Live
    BY <1>4, <2>2, ScanLeavesLive
  <2> HIDE DEF after
  <2> QED
    BY <1>2, <2>3
<1> QED
  BY <1>3, <1>4

\* What every step owes progress: a run it leaves running has a live row, only
\* a cancellation cancels rows, and only a run that runs, or resumes, has its
\* queue emptied.
LEMMA NextLeavesLive ==
    ASSUME TypeOK, Awaitable(node), NoStrandedRun, Next
    PROVE  /\ run' = "running" => \E n \in Node : node'[n] \in Live
           /\ CancelRun \/ \A n \in Node : node'[n] = "cancelled" => node[n] = "cancelled"
           /\ \A n \in Node : node[n] = "queued" /\ node'[n] = "pending" =>
                run \in {"running", "waiting"}
<1> USE DEF StatusMap, CaseMap
<1> DEFINE Cancels == \A n \in Node : node'[n] = "cancelled" => node[n] = "cancelled"
           Empties == \A n \in Node : node[n] = "queued" /\ node'[n] = "pending" =>
                        run \in {"running", "waiting"}
           Goal == /\ run' = "running" => \E n \in Node : node'[n] \in Live
                   /\ CancelRun \/ Cancels
                   /\ Empties
<1>0. node \in StatusMap /\ run \in RunStatus /\ cases \in CaseMap
  BY DEF TypeOK
<1>a. ASSUME UNCHANGED <<run, node>> PROVE Goal
  BY <1>a DEF NoStrandedRun
<1>b. ASSUME NEW n \in Node, NEW x \in Live, node' = [node EXCEPT ![n] = x] PROVE Goal
  BY <1>0, <1>b DEF Live
<1>c. ASSUME NEW r \in RunStatus, NEW st \in StatusMap, NEW cs \in CaseMap,
             ScheduleDownstream(r, st, cs),
             r = "running" => run \in {"running", "waiting"},
             \A m \in Node : st[m] \in {"pending", "queued", "cancelled"} => node[m] = st[m]
      PROVE  (r = "running" \/ run' # "running") => Goal
  <2> SUFFICES ASSUME r = "running" \/ run' # "running" PROVE Goal
    OBVIOUS
  <2>1. /\ r # "running" => node' = st
        /\ \A m \in Node :
             /\ st[m] \notin {"pending", "queued"} => node'[m] = st[m]
             /\ st[m] = "pending" => node'[m] \in {"pending", "queued", "skipped"}
             /\ st[m] = "queued" => node'[m] \in {"queued", "pending"}
    BY <1>c, ScheduleEffect
  <2>2. Awaitable(st)
    <3> SUFFICES ASSUME NEW e \in Edge, st[e.to] = "pending", st[e.from] = "cancelled"
                 PROVE  FALSE
      BY DEF Awaitable
    <3>1. e.from \in Node /\ e.to \in Node
      BY EdgeAssumption DEF EdgeSpace
    <3>2. node[e.to] = "pending" /\ node[e.from] = "cancelled"
      BY <1>c, <3>1
    <3> QED
      BY <3>2 DEF Awaitable
  <2>3. run' = "running" => \E n \in Node : node'[n] \in Live
    BY <1>c, <2>2, ScheduleLeavesLive
  <2>4. Cancels
    BY <1>c, <2>1
  <2>5. Empties
    BY <1>c, <2>1
  <2> QED
    BY <2>3, <2>4, <2>5
<1>d. ASSUME NEW st \in StatusMap, NEW cs \in CaseMap, ScheduleDownstream(run, st, cs),
             \A m \in Node : st[m] \in {"pending", "queued", "cancelled"} => node[m] = st[m]
      PROVE  Goal
  <2>1. run # "running" => run' # "running"
    BY <1>0, <1>d, ScheduleEffect
  <2>2. (run = "running" \/ run' # "running") => Goal
    BY <1>0, <1>c, <1>d
  <2> QED
    BY <2>1, <2>2
<1>e. ASSUME NEW n \in Node, run = "running",
             FlipRunTerminal("failed", [node EXCEPT ![n] = "failed"], attempts, cases)
      PROVE  Goal
  <2>1. run' = "failed" /\ node' = Demoted([node EXCEPT ![n] = "failed"])
    BY <1>e DEF FlipRunTerminal
  <2> QED
    BY <1>0, <1>e, <2>1 DEF Demoted
<1>1. ASSUME NEW w \in Worker, NEW n \in Node, ClaimNode(w, n)
      PROVE  Goal
  BY <1>1, <1>b DEF ClaimNode, Live
<1>2. ASSUME NEW w \in Worker, NEW v \in {"none", "quarantine", "observe"},
             NEW c \in Node \cup {NoNode}, CompleteNode(w, v, c)
      PROVE  Goal
  <2> DEFINE n  == claim[w].node
             cs == IF v = "none" THEN cases ELSE [cases EXCEPT ![n] = v]
             st == Skipping([node EXCEPT ![n] = "succeeded"], Losers(n, c))
  <2>1. n \in Node /\ node[n] = "running"
    BY <1>2, ClaimNamesNode DEF CompleteNode, Reports, Claim, StillRunning
  <2>2. cs \in CaseMap /\ st \in StatusMap
    BY <1>0, <2>1 DEF NodeStatus, Skipping
  <2>3. \A m \in Node : st[m] \in {"pending", "queued", "cancelled"} => node[m] = st[m]
    BY <1>0, <2>1 DEF Skipping
  <2>4. \/ run' = "waiting" /\ node' = st
        \/ ScheduleDownstream(run, st, cs)
    BY <1>2 DEF CompleteNode
  <2> HIDE DEF st, cs
  <2>5. CASE run' = "waiting" /\ node' = st
    BY <2>3, <2>5
  <2> QED
    BY <1>d, <2>2, <2>3, <2>4, <2>5
<1>3. ASSUME NEW w \in Worker, MarkNodeWaiting(w) \/ RetryNode(w)
      PROVE  Goal
  <2>1. claim[w].node \in Node
    BY <1>3, ClaimNamesNode DEF MarkNodeWaiting, RetryNode, Reports, Claim, StillRunning
  <2>2. \E x \in {"waiting", "queued"} : node' = [node EXCEPT ![claim[w].node] = x]
    BY <1>3 DEF MarkNodeWaiting, RetryNode
  <2> QED
    BY <1>b, <2>1, <2>2 DEF Live
<1>4. ASSUME NEW n \in Node, FailRunNode(n)
      PROVE  Goal
  <2> DEFINE failed == [node EXCEPT ![n] = "failed"]
  <2>1. failed \in StatusMap /\ \A m \in Node :
          failed[m] \in {"pending", "queued", "cancelled"} => node[m] = failed[m]
    BY <1>0 DEF NodeStatus
  <2>2. \/ ScheduleDownstream(run, failed, cases)
        \/ run = "running" /\ FlipRunTerminal("failed", failed, attempts, cases)
        \/ run = "failed" /\ node' = failed /\ UNCHANGED run
    BY <1>4 DEF FailRunNode
  <2>3. CASE run = "running" /\ FlipRunTerminal("failed", failed, attempts, cases)
    BY <1>e, <2>3
  <2> HIDE DEF failed
  <2>4. CASE ScheduleDownstream(run, failed, cases)
    BY <1>0, <1>d, <2>1, <2>4
  <2>5. CASE run = "failed" /\ node' = failed /\ UNCHANGED run
    BY <2>1, <2>5
  <2> QED
    BY <2>2, <2>3, <2>4, <2>5
<1>5. ASSUME NEW w \in Worker, NEW o \in Outcome, FailNode(w, o)
      PROVE  Goal
  BY <1>4, <1>5, ClaimNamesNode DEF FailNode, Reports, Claim
<1>6. ASSUME NEW c \in stalled, Reap(c)
      PROVE  Goal
  <2>1. c.node \in Node
    BY DEF TypeOK, DeadLetterId
  <2>2. FailRunNode(c.node) \/ UNCHANGED <<run, node>>
    BY <1>6 DEF Reap, runVars
  <2> QED
    BY <1>a, <1>4, <2>1, <2>2
<1>7. ASSUME NEW n \in Node, ResumeNode(n)
      PROVE  Goal
  <2> DEFINE st == [node EXCEPT ![n] = "succeeded"]
  <2>1. ScheduleDownstream(run, st, cases)
    BY <1>7 DEF ResumeNode
  <2>2. st \in StatusMap /\ \A m \in Node :
          st[m] \in {"pending", "queued", "cancelled"} => node[m] = st[m]
    BY <1>0 DEF NodeStatus
  <2> HIDE DEF st
  <2> QED
    BY <1>0, <1>d, <2>1, <2>2
<1>8. ASSUME NEW l \in listed, TimerFires(l)
      PROVE  Goal
  <2>1. l.node \in Node /\ (ResumeNode(l.node) \/ UNCHANGED <<run, node>>)
    BY <1>8 DEF TimerFires, TypeOK, runVars
  <2> QED
    BY <1>a, <1>7, <2>1
<1>9. ASSUME NEW l \in listed, ApprovalTimeout(l)
      PROVE  Goal
  <2>1. \/ UNCHANGED <<run, node>>
        \/ /\ run = "running"
           /\ FlipRunTerminal("failed", [node EXCEPT ![l.node] = "failed"], attempts, cases)
    BY <1>9 DEF ApprovalTimeout, runVars
  <2>2. l.node \in Node
    BY DEF TypeOK
  <2> QED
    BY <1>a, <1>e, <2>1, <2>2
<1>10. ASSUME CancelRun
       PROVE  Goal
  <2>1. run' = "cancelled"
        /\ node' = [n \in Node |-> IF node[n] \in {"pending", "queued", "waiting"}
                                     THEN "cancelled" ELSE node[n]]
    BY <1>10 DEF CancelRun
  <2>2. Empties
    BY <2>1
  <2> QED
    BY <1>10, <2>1, <2>2
<1>11. ASSUME NEW n \in Node, Revive(n)
       PROVE  Goal
  <2>1. node' = [node EXCEPT ![n] = "queued"]
    BY <1>11 DEF Revive
  <2> QED
    BY <1>b, <2>1 DEF Live
<1>12. ASSUME NEW d \in deadLetters, RedriveDeadLetter(d)
       PROVE  Goal
  BY <1>11, <1>12 DEF RedriveDeadLetter, TypeOK, DeadLetter, DeadLetterId
<1>13. ASSUME NEW n \in Node, NEW decision \in {"replace", "accept_loss"},
              ResolveCase(n, decision)
       PROVE  Goal
  <2> DEFINE cs == [cases EXCEPT ![n] =
                      IF decision = "replace" THEN "monitoring" ELSE "closed"]
  <2>1. \/ run = "waiting" /\ ScheduleDownstream("running", node, cs)
        \/ UNCHANGED <<run, node>>
    BY <1>13 DEF ResolveCase
  <2>2. cs \in CaseMap /\ "running" \in RunStatus
    BY <1>0 DEF RunStatus
  <2> HIDE DEF cs
  <2> QED
    BY <1>0, <1>a, <1>c, <2>1, <2>2
<1>14. ASSUME NEW w \in Worker, (\E o \in Outcome : SkipCommit(w, o)) \/ Crash(w)
       PROVE  Goal
  BY <1>14, <1>a DEF SkipCommit, Crash, runVars
<1>15. ASSUME NEW n \in Node, ReaperScan(n) \/ Clock(n) \/ ListDueWakeup(n)
       PROVE  Goal
  BY <1>15, <1>a DEF ReaperScan, Clock, ListDueWakeup, runVars
<1>16. ASSUME SweepDueWakeups
       PROVE  Goal
  BY <1>16, <1>a DEF SweepDueWakeups
<1> HIDE DEF Goal
<1>17. Goal
  BY <1>1, <1>2, <1>3, <1>5, <1>6, <1>7, <1>8, <1>9, <1>10, <1>11, <1>12, <1>13,
     <1>14, <1>15, <1>16
     DEF Next, Commit, Sweep, Operator, ResumeRun, RedriveRunNode
<1> QED
  BY <1>17 DEF Goal

\* A row that waits on a cancelled one: no step makes one, when a demoted row's
\* predecessors have all finished, or when nothing resumes a cancelled run.
LEMMA NextKeepsAwaitable ==
    ASSUME TypeOK, Ordered(node), Awaitable(node), NoStrandedRun, Next,
           \/ \A e \in Edge : ~e.onError
           \/ Quarantining = {} /\ Unparked(run, node, cases)
    PROVE  Awaitable(node')
<1> SUFFICES ASSUME NEW e \in Edge, node'[e.to] = "pending", node'[e.from] = "cancelled"
             PROVE  FALSE
  BY DEF Awaitable
<1>0. e.from \in Node /\ e.to \in Node
  BY EdgeAssumption DEF EdgeSpace
<1>1. ~CancelRun
  <2> SUFFICES ASSUME CancelRun PROVE FALSE
    OBVIOUS
  <2>1. node'[e.to] = IF node[e.to] \in {"pending", "queued", "waiting"}
                        THEN "cancelled" ELSE node[e.to]
    BY <1>0 DEF CancelRun
  <2> QED
    BY <2>1
<1>2. /\ node[e.from] = "cancelled"
      /\ node[e.to] = "queued" => run \in {"running", "waiting"}
  BY <1>0, <1>1, NextLeavesLive
<1>3. node[e.to] \in {"pending", "queued"}
  <2>1. Moves(node[e.to], node'[e.to])
    BY <1>0, NextKeepsOrder
  <2> QED
    BY <2>1 DEF Moves
<1>4. node[e.to] = "queued"
  BY <1>2, <1>3 DEF Awaitable
<1>5. CASE ~e.onError
  BY <1>2, <1>4, <1>5 DEF Ordered, Started, Fulfilled
<1>6. CASE Quarantining = {} /\ Unparked(run, node, cases)
  BY <1>0, <1>2, <1>4, <1>6 DEF Unparked
<1> QED
  BY <1>5, <1>6

(***************************************************************************)
(* A running run has a node that some actor will move, for every workflow  *)
(* without on-error routes and for every workflow without a quarantine     *)
(* detector.  With both, the claim is false: the strengthening fails for a *)
(* run that is cancelled and then resumed by a late quarantine, where a    *)
(* demoted handler waits on a redriven, then cancelled, source.            *)
(***************************************************************************)
THEOREM RunIsNeverStranded ==
    ASSUME Quarantining = {} \/ \A e \in Edge : ~e.onError
    PROVE  Spec => []NoStrandedRun
<1> DEFINE P == /\ Awaitable(node)
                /\ NoStrandedRun
                /\ Quarantining = {} => Unparked(run, node, cases)
<1>1. Init => P
  <2> SUFFICES ASSUME Init PROVE P
    OBVIOUS
  <2>1. /\ run = "running" /\ \A n \in Node : cases[n] = "none"
        /\ \A n \in Node : node[n] \in {"queued", "pending"}
        /\ \A n \in Roots : node[n] = "queued"
    BY DEF Init, Roots
  <2>2. PICK n \in Node : \A e \in Edge : e.to = n => e.from \notin Node
    BY NodeAssumption, AcyclicAssumption
  <2>3. n \in Roots
    BY <2>2, EdgeAssumption DEF Roots, Incoming, EdgeSpace
  <2>4. NoStrandedRun
    BY <2>1, <2>3 DEF NoStrandedRun, Live
  <2>5. Awaitable(node)
    BY <2>1, EdgeAssumption DEF Awaitable, EdgeSpace
  <2> QED
    BY <2>1, <2>4, <2>5 DEF Unparked
<1>2. TypeOK /\ DependenciesFirst /\ P /\ [Next]_vars => P'
  <2> SUFFICES ASSUME TypeOK, DependenciesFirst, P, [Next]_vars PROVE P'
    OBVIOUS
  <2>1. CASE Next
    <3>1. Ordered(node)
      BY DEF DependenciesFirst, Ordered
    <3>2. Awaitable(node')
      BY <2>1, <3>1, NextKeepsAwaitable
    <3>3. NoStrandedRun'
      BY <2>1, NextLeavesLive DEF NoStrandedRun
    <3>4. Quarantining = {} => Unparked(run', node', cases')
      BY <2>1, NextShape
    <3> QED
      BY <3>2, <3>3, <3>4
  <2>2. CASE UNCHANGED vars
    BY <2>2 DEF vars, runVars, Unparked, Awaitable, NoStrandedRun
  <2> QED
    BY <2>1, <2>2
<1> QED
  BY <1>1, <1>2, TypeCorrect, WorkIsOrdered, PTL DEF Spec

-----------------------------------------------------------------------------
(***************************************************************************)
(* The readiness scan.  A decision of the loop is final, and a skip only   *)
(* adds fulfilled predecessors: what the predecessors of a node decide,    *)
(* they decide for good.  So the nodes skipped so far lie in every closed  *)
(* set, hence in SkipSet; the nodes queued so far lie outside it, since    *)
(* SkipSet without one of them would still be closed; and a pass that      *)
(* changes nothing leaves no undecided node that could be decided.         *)
(***************************************************************************)
Skips == {n \in Pending(before) : statuses[n] = "skipped"}

DecisionsOnly ==
    \A n \in Node : IF before[n] = "pending"
                    THEN statuses[n] \in {"pending", "queued", "skipped"}
                    ELSE statuses[n] = before[n]

QueuedRows == queued = {n \in Pending(before) : statuses[n] = "queued"}

SkipsAreForced == Skips \subseteq SkipSet(wf, before, truths)

QueuedAreReady ==
    \A n \in queued : /\ depsSatisfied(wf, n, Skipping(before, Skips))
                      /\ n \notin SkipSet(wf, before, truths)

\* What the pass has visited is decided or cannot be, unless it changed something.
VisitedAreStuck ==
    ~changed => \A n \in Node \ visit : statuses[n] = "pending" =>
                    /\ ~depsDoomed(wf, n, statuses)
                    /\ ~depsSatisfied(wf, n, statuses)

ScanInv ==
    /\ ScanTypeOK /\ DecisionsOnly /\ QueuedRows /\ SkipsAreForced /\ QueuedAreReady
    /\ VisitedAreStuck /\ (done => visit = {} /\ ~changed)

\* SkipSet holds no node that its own members do not force.
LEMMA LeastSkipsAreForced ==
    ASSUME NEW g \in SUBSET EdgeSpace, NEW st \in [Node -> NodeStatus], NEW h,
           NEW n \in SkipSet(g, st, h)
    PROVE  MustSkip(g, n, Skipping(st, SkipSet(g, st, h)), h)
<1> DEFINE K == SkipSet(g, st, h)
           S == K \ {n}
<1>1. /\ SkipClosed(g, K, st, h) /\ K \in SUBSET Pending(st)
      /\ \A X \in SUBSET Pending(st) : SkipClosed(g, X, st, h) => K \subseteq X
  BY LeastSkipsAreClosed
<1>2. Pending(st) \in SUBSET Node /\ n \in K
  BY DEF Pending
<1> HIDE DEF K
<1>3. SUFFICES ASSUME ~MustSkip(g, n, Skipping(st, K), h) PROVE FALSE
  BY DEF K
<1>4. \A m \in Pending(st) : MustSkip(g, m, Skipping(st, S), h) => MustSkip(g, m, Skipping(st, K), h)
  <2>1. S \in SUBSET Pending(st) /\ S \subseteq K
    BY <1>1
  <2> HIDE DEF S
  <2> QED
    BY <1>1, <1>2, <2>1, SkipsAreMonotone
<1>5. SkipClosed(g, S, st, h)
  BY <1>1, <1>3, <1>4 DEF SkipClosed
<1> QED
  BY <1>1, <1>2, <1>5

LEMMA ScanRows ==
    ASSUME ScanTypeOK
    PROVE  /\ wf \in SUBSET EdgeSpace /\ before \in [Node -> NodeStatus]
           /\ statuses \in [Node -> NodeStatus] /\ \A e \in wf : e.from \in Node
<1>1. wf \in SUBSET EdgeSpace /\ before \in [Node -> NodeStatus]
  BY WorkflowsAssumption, StatusesAssumption DEF ScanTypeOK
<1> QED
  BY <1>1 DEF ScanTypeOK, EdgeSpace

\* The working copy says of a node's predecessors what the skips so far say.
LEMMA WorkingCopy ==
    ASSUME ScanTypeOK, DecisionsOnly, NEW n \in Node
    PROVE  /\ depsDoomed(wf, n, statuses) = depsDoomed(wf, n, Skipping(before, Skips))
           /\ depsSatisfied(wf, n, statuses) = depsSatisfied(wf, n, Skipping(before, Skips))
<1> DEFINE st == Skipping(before, Skips)
<1>1. \A m \in Node : /\ statuses[m] \in Fulfilled <=> st[m] \in Fulfilled
                      /\ statuses[m] = "failed" <=> st[m] = "failed"
  BY DEF DecisionsOnly, Skipping, Skips, Pending, Fulfilled
<1>2. \A e \in Incoming(wf, n) : e.from \in Node
  BY ScanRows DEF Incoming
<1> HIDE DEF st
<1>3. depsDoomed(wf, n, statuses) = depsDoomed(wf, n, st)
  BY <1>1, <1>2 DEF depsDoomed
<1>4. depsSatisfied(wf, n, statuses) = depsSatisfied(wf, n, st)
  BY <1>1, <1>2 DEF depsSatisfied
<1> QED
  BY <1>3, <1>4 DEF st

\* A node whose dependencies are satisfied is not doomed, now or later.
LEMMA SatisfiedIsNotDoomed ==
    ASSUME NEW g, NEW n, NEW st
    PROVE  ~(depsSatisfied(g, n, st) /\ depsDoomed(g, n, st))
BY DEF depsSatisfied, depsDoomed, Fulfilled

-----------------------------------------------------------------------------
LEMMA ScanStarts == ScanInit => ScanInv
<1> SUFFICES ASSUME ScanInit PROVE ScanInv
  OBVIOUS
<1>1. ScanTypeOK
  BY StatusesAssumption DEF ScanInit, ScanTypeOK
<1>2. \A n \in Node : statuses[n] = before[n]
  BY DEF ScanInit
<1>3. DecisionsOnly /\ QueuedRows
  BY <1>2 DEF DecisionsOnly, QueuedRows, Pending, ScanInit
<1>4. SkipsAreForced /\ QueuedAreReady /\ VisitedAreStuck
  BY <1>2 DEF SkipsAreForced, Skips, Pending, QueuedAreReady, VisitedAreStuck, ScanInit
<1> QED
  BY <1>1, <1>3, <1>4 DEF ScanInv, ScanInit

\* A visit that decides nothing: the node is settled, or stuck for this pass.
LEMMA IdleVisit ==
    ASSUME ScanInv, NEW n \in Node, n \in visit, visit' = visit \ {n},
           ~(statuses[n] = "pending" /\
             (depsDoomed(wf, n, statuses) \/ depsSatisfied(wf, n, statuses))),
           UNCHANGED <<wf, truths, before, statuses, queued, changed, done>>
    PROVE  ScanInv'
<1>1. ScanTypeOK' /\ DecisionsOnly' /\ QueuedRows'
  BY DEF ScanInv, ScanTypeOK, DecisionsOnly, QueuedRows
<1>2. Skips' = Skips
  BY DEF Skips
<1>3. SkipsAreForced' /\ QueuedAreReady'
  BY <1>2 DEF ScanInv, SkipsAreForced, QueuedAreReady
<1>4. VisitedAreStuck'
  BY DEF ScanInv, VisitedAreStuck
<1>5. (done => visit = {} /\ ~changed)'
  BY DEF ScanInv
<1> QED
  BY <1>1, <1>3, <1>4, <1>5 DEF ScanInv

LEMMA SkippingVisit ==
    ASSUME ScanInv, NEW n \in Node, n \in visit, visit' = visit \ {n}, statuses[n] = "pending",
           MustSkip(wf, n, statuses, truths),
           statuses' = [statuses EXCEPT ![n] = "skipped"], changed' = TRUE,
           UNCHANGED <<wf, truths, before, queued, done>>
    PROVE  ScanInv'
<1> DEFINE K == SkipSet(wf, before, truths)
<1>0. /\ ScanTypeOK /\ DecisionsOnly /\ QueuedRows /\ SkipsAreForced /\ QueuedAreReady
      /\ done => visit = {}
  BY DEF ScanInv
<1>1. wf \in SUBSET EdgeSpace /\ before \in [Node -> NodeStatus]
      /\ statuses \in [Node -> NodeStatus]
  BY <1>0, ScanRows
<1>2. /\ statuses' \in [Node -> NodeStatus] /\ statuses'[n] = "skipped"
      /\ \A m \in Node : m # n => statuses'[m] = statuses[m]
  BY <1>1 DEF NodeStatus
<1>3. n \in Pending(before)
  BY <1>0, <1>1 DEF DecisionsOnly, Pending
<1>4. Skips' = Skips \cup {n} /\ Skips \in SUBSET Pending(before) /\ Skips' \in SUBSET Pending(before)
  BY <1>2, <1>3 DEF Skips, Pending
<1>5. K \in SUBSET Pending(before) /\ SkipClosed(wf, K, before, truths)
  BY <1>1, LeastSkipsAreClosed
<1>6. n \in K
  <2>1. MustSkip(wf, n, Skipping(before, Skips), truths)
    BY <1>0, WorkingCopy DEF MustSkip
  <2>2. Skips \subseteq K
    BY <1>0 DEF SkipsAreForced
  <2> HIDE DEF K
  <2>3. MustSkip(wf, n, Skipping(before, K), truths)
    BY <1>1, <1>4, <1>5, <2>1, <2>2, SkipsAreMonotone
  <2> QED
    BY <1>3, <1>5, <2>3 DEF SkipClosed
<1>7. ScanTypeOK'
  BY <1>0, <1>2 DEF ScanTypeOK
<1>8. DecisionsOnly'
  BY <1>0, <1>2, <1>3 DEF DecisionsOnly, Pending
<1>9. QueuedRows'
  BY <1>0, <1>2 DEF QueuedRows, Pending
<1>10. SkipsAreForced'
  BY <1>0, <1>4, <1>6 DEF SkipsAreForced
<1>11. QueuedAreReady'
  <2> SUFFICES ASSUME NEW m \in queued
               PROVE  depsSatisfied(wf, m, Skipping(before, Skips')) /\ m \notin K
    BY DEF QueuedAreReady
  <2>1. depsSatisfied(wf, m, Skipping(before, Skips)) /\ m \notin K /\ m \in Node
    BY <1>0 DEF QueuedAreReady, ScanTypeOK
  <2>2. Skips \subseteq Skips'
    BY <1>4
  <2>3. \A T \in SUBSET Pending(before) :
          Skips \subseteq T => depsSatisfied(wf, m, Skipping(before, T))
    BY <1>1, <1>4, <2>1, SkipsAreMonotone
  <2> QED
    BY <1>4, <2>1, <2>2, <2>3
<1>12. VisitedAreStuck'
  BY DEF VisitedAreStuck
<1> QED
  BY <1>0, <1>7, <1>8, <1>9, <1>10, <1>11, <1>12 DEF ScanInv

LEMMA QueueingVisit ==
    ASSUME ScanInv, NEW n \in Node, n \in visit, visit' = visit \ {n}, statuses[n] = "pending",
           depsSatisfied(wf, n, statuses), edgeAllowsRun(wf, n, truths),
           statuses' = [statuses EXCEPT ![n] = "queued"], changed' = TRUE,
           queued' = queued \cup {n}, UNCHANGED <<wf, truths, before, done>>
    PROVE  ScanInv'
<1> DEFINE K == SkipSet(wf, before, truths)
<1>0. /\ ScanTypeOK /\ DecisionsOnly /\ QueuedRows /\ SkipsAreForced /\ QueuedAreReady
      /\ done => visit = {}
  BY DEF ScanInv
<1>1. wf \in SUBSET EdgeSpace /\ before \in [Node -> NodeStatus]
      /\ statuses \in [Node -> NodeStatus]
  BY <1>0, ScanRows
<1>2. /\ statuses' \in [Node -> NodeStatus] /\ statuses'[n] = "queued"
      /\ \A m \in Node : m # n => statuses'[m] = statuses[m]
  BY <1>1 DEF NodeStatus
<1>3. n \in Pending(before)
  BY <1>0, <1>1 DEF DecisionsOnly, Pending
<1>4. Skips' = Skips /\ Skips \in SUBSET Pending(before)
  BY <1>2, <1>3 DEF Skips, Pending
<1>5. depsSatisfied(wf, n, Skipping(before, Skips))
  BY <1>0, WorkingCopy
<1>6. n \notin K
  <2>1. K \in SUBSET Pending(before) /\ Skips \subseteq K
    BY <1>0, <1>1, LeastSkipsAreClosed DEF SkipsAreForced
  <2>2. n \in K => MustSkip(wf, n, Skipping(before, K), truths)
    BY <1>1, LeastSkipsAreForced
  <2> HIDE DEF K
  <2>3. depsSatisfied(wf, n, Skipping(before, K))
    BY <1>1, <1>4, <1>5, <2>1, SkipsAreMonotone
  <2> QED
    BY <2>2, <2>3, SatisfiedIsNotDoomed DEF MustSkip
<1>7. ScanTypeOK'
  BY <1>0, <1>2 DEF ScanTypeOK
<1>8. DecisionsOnly'
  BY <1>0, <1>2, <1>3 DEF DecisionsOnly, Pending
<1>9. QueuedRows'
  BY <1>0, <1>2, <1>3 DEF QueuedRows, Pending
<1>10. SkipsAreForced'
  BY <1>0, <1>4 DEF SkipsAreForced
<1>11. QueuedAreReady'
  BY <1>0, <1>4, <1>5, <1>6 DEF QueuedAreReady
<1>12. VisitedAreStuck'
  BY DEF VisitedAreStuck
<1> QED
  BY <1>0, <1>7, <1>8, <1>9, <1>10, <1>11, <1>12 DEF ScanInv

LEMMA ScanStep == ScanInv /\ [ScanNext]_scanVars => ScanInv'
<1> SUFFICES ASSUME ScanInv, [ScanNext]_scanVars PROVE ScanInv'
  OBVIOUS
<1>1. CASE EndPass
  <2>1. Skips' = Skips
    BY <1>1 DEF EndPass, Skips
  <2>2. ScanTypeOK' /\ DecisionsOnly' /\ QueuedRows'
    BY <1>1 DEF EndPass, ScanInv, ScanTypeOK, DecisionsOnly, QueuedRows
  <2>3. SkipsAreForced' /\ QueuedAreReady'
    BY <1>1, <2>1 DEF EndPass, ScanInv, SkipsAreForced, QueuedAreReady
  <2>4. VisitedAreStuck'
    BY <1>1 DEF EndPass, ScanInv, VisitedAreStuck
  <2>5. (done => visit = {} /\ ~changed)'
    BY <1>1 DEF EndPass, ScanInv
  <2> QED
    BY <2>2, <2>3, <2>4, <2>5 DEF ScanInv
<1>2. ASSUME NEW n \in Node, Visit(n) PROVE ScanInv'
  <2> DEFINE doomed == depsDoomed(wf, n, statuses)
             satisfied == depsSatisfied(wf, n, statuses)
             allowed == edgeAllowsRun(wf, n, truths)
  <2>1. CASE ~(statuses[n] = "pending" /\ (doomed \/ satisfied))
    <3>1. /\ n \in visit /\ visit' = visit \ {n}
          /\ UNCHANGED <<wf, truths, before, statuses, queued, changed, done>>
      BY <1>2, <2>1 DEF Visit, VisitOn
    <3> QED
      BY <2>1, <3>1, IdleVisit
  <2>2. CASE statuses[n] = "pending" /\ (doomed \/ satisfied) /\ (doomed \/ ~allowed)
    <3>1. /\ n \in visit /\ visit' = visit \ {n} /\ changed' = TRUE
          /\ statuses' = [statuses EXCEPT ![n] = "skipped"]
          /\ UNCHANGED <<wf, truths, before, queued, done>>
      BY <1>2, <2>2 DEF Visit, VisitOn
    <3> QED
      BY <2>2, <3>1, SkippingVisit DEF MustSkip
  <2>3. CASE statuses[n] = "pending" /\ satisfied /\ ~doomed /\ allowed
    <3>1. /\ n \in visit /\ visit' = visit \ {n} /\ changed' = TRUE
          /\ statuses' = [statuses EXCEPT ![n] = "queued"]
          /\ queued' = queued \cup {n} /\ UNCHANGED <<wf, truths, before, done>>
      BY <1>2, <2>3 DEF Visit, VisitOn
    <3> QED
      BY <2>3, <3>1, QueueingVisit
  <2> QED
    BY <2>1, <2>2, <2>3
<1>3. CASE UNCHANGED scanVars
  BY <1>3 DEF scanVars, ScanInv, ScanTypeOK, DecisionsOnly, QueuedRows, SkipsAreForced,
              QueuedAreReady, VisitedAreStuck, Skips
<1> QED
  BY <1>1, <1>2, <1>3 DEF ScanNext

\* A pass that changed nothing leaves the closed form.
LEMMA ScanEnds == ScanInv => ScanIsOrderIndependent
<1> SUFFICES ASSUME ScanInv, done
             PROVE  /\ statuses = Scanned(wf, before, truths)
                    /\ queued = QueueSet(wf, before, truths)
  BY DEF ScanIsOrderIndependent
<1> DEFINE K == SkipSet(wf, before, truths)
           Q == QueueSet(wf, before, truths)
<1>0. /\ ScanTypeOK /\ DecisionsOnly /\ QueuedRows /\ SkipsAreForced /\ QueuedAreReady
      /\ \A n \in Node : statuses[n] = "pending" =>
           ~depsDoomed(wf, n, statuses) /\ ~depsSatisfied(wf, n, statuses)
  BY DEF ScanInv, VisitedAreStuck
<1>1. wf \in SUBSET EdgeSpace /\ before \in [Node -> NodeStatus]
      /\ statuses \in [Node -> NodeStatus]
  BY <1>0, ScanRows
<1>2. /\ SkipClosed(wf, K, before, truths) /\ K \in SUBSET Pending(before)
      /\ \A S \in SUBSET Pending(before) : SkipClosed(wf, S, before, truths) => K \subseteq S
  BY <1>1, LeastSkipsAreClosed
<1>3. /\ Skips \in SUBSET Pending(before) /\ Skips \subseteq K
      /\ Pending(before) \in SUBSET Node
  BY <1>0 DEF Skips, SkipsAreForced, Pending
<1>4. SkipClosed(wf, Skips, before, truths)
  <2> SUFFICES ASSUME NEW n \in Pending(before), MustSkip(wf, n, Skipping(before, Skips), truths)
               PROVE  n \in Skips
    BY DEF SkipClosed
  <2>1. statuses[n] \in {"pending", "queued", "skipped"}
    BY <1>0, <1>3 DEF DecisionsOnly, Pending
  <2>2. statuses[n] # "pending"
    BY <1>0, <1>3, WorkingCopy DEF MustSkip
  <2>3. statuses[n] # "queued"
    <3>1. statuses[n] = "queued" => n \notin K
      BY <1>0 DEF QueuedRows, QueuedAreReady
    <3> HIDE DEF K
    <3>2. MustSkip(wf, n, Skipping(before, K), truths)
      BY <1>1, <1>2, <1>3, SkipsAreMonotone
    <3> QED
      BY <1>2, <3>1, <3>2 DEF SkipClosed
  <2> QED
    BY <2>1, <2>2, <2>3 DEF Skips
<1>5. K = Skips
  BY <1>2, <1>3, <1>4
<1>6. queued = Q
  <2>1. \A n \in queued : n \in Q
    BY <1>0, <1>5 DEF QueuedRows, QueuedAreReady, QueueSet
  <2>2. ASSUME NEW n \in Q PROVE n \in queued
    <3>1. n \in Pending(before) /\ n \notin Skips /\ depsSatisfied(wf, n, Skipping(before, Skips))
      BY <1>5, <2>2 DEF QueueSet
    <3>2. statuses[n] \in {"pending", "queued"}
      BY <1>0, <1>3, <3>1 DEF DecisionsOnly, Skips, Pending
    <3>3. depsSatisfied(wf, n, statuses)
      BY <1>0, <1>3, <3>1, WorkingCopy
    <3> QED
      BY <1>0, <1>3, <3>1, <3>2, <3>3 DEF QueuedRows
  <2> QED
    BY <2>1, <2>2
<1>7. \A n \in Node : statuses[n] = Scanned(wf, before, truths)[n]
  <2> SUFFICES ASSUME NEW n \in Node PROVE statuses[n] = Scanned(wf, before, truths)[n]
    OBVIOUS
  <2>1. Scanned(wf, before, truths)[n] =
          IF n \in Skips THEN "skipped" ELSE IF n \in queued THEN "queued" ELSE before[n]
    BY <1>5, <1>6 DEF Scanned
  <2> QED
    BY <1>0, <2>1 DEF DecisionsOnly, QueuedRows, Skips, Pending
<1>8. Scanned(wf, before, truths) = [n \in Node |-> Scanned(wf, before, truths)[n]]
  BY DEF Scanned
<1> QED
  BY <1>1, <1>6, <1>7, <1>8

(***************************************************************************)
(* For every workflow (acyclic or not), every starting row statuses and    *)
(* every order of visits, a scan of scheduleDownstream that ends has       *)
(* skipped exactly SkipSet and queued exactly QueueSet: the closed form    *)
(* that RunEngine takes as one step is what the loop computes.             *)
(***************************************************************************)
THEOREM ScanReachesClosedForm == ScanSpec => []ScanIsOrderIndependent
<1>1. ScanInit => ScanInv
  BY ScanStarts
<1>2. ScanInv /\ [ScanNext]_scanVars => ScanInv'
  BY ScanStep
<1>3. ScanInv => ScanIsOrderIndependent
  BY ScanEnds
<1> QED
  BY <1>1, <1>2, <1>3, PTL DEF ScanSpec

=============================================================================
