------------------------- MODULE SubworkflowProofs --------------------------
(***************************************************************************)
(* The handoff between a child run and the call that waits for it, for     *)
(* every number of runs, workers, notifiers, crashes, reaps, cancellations *)
(* and redrives.                                                           *)
(***************************************************************************)
EXTENDS Subworkflow, WellFoundedInduction, TLAPS

-----------------------------------------------------------------------------
(***************************************************************************)
(* The invariant.  A call names a child that names it back; only a child   *)
(* is ever armed; what a notifier read of a child stays true of it (a      *)
(* terminal status is final unless an operator revives a failed run); and  *)
(* a notifier that found the checkpoint gone, or settled it, will never    *)
(* find it again, because a call waits only for a child that is new.       *)
(***************************************************************************)
RunTypes ==
    /\ runs \in Seq(Run) /\ Len(runs) <= MaxRuns
    /\ calling \in [Worker -> 0..Len(runs)]
    /\ notice \in [Notifier -> Notice \cup {Idle}]
    /\ \A r \in DOMAIN runs : runs[r].parent < r

RowsAreLinked ==
    \A r \in DOMAIN runs :
        /\ runs[r].child # 0 => /\ runs[r].child \in DOMAIN runs
                                /\ runs[runs[r].child].parent = r
        /\ runs[r].call = "waiting" => runs[r].child # 0
        /\ runs[r].armed => runs[r].parent # 0

StillHolds(status, run) == run.status = status \/ (status = "failed" /\ run.revived)

(* Before it tried to settle, a notifier knows nothing of the checkpoint. *)
Early == {"child", "read"}

NoticeHolds(n, rs) ==
    n # Idle =>
        /\ n.child \in DOMAIN rs
        /\ rs[n.child].parent # 0
        /\ StillHolds(n.status, rs[n.child])
        /\ n.phase \notin Early => LET parent == rs[rs[n.child].parent]
                                   IN  ~(parent.call = "waiting" /\ parent.child = n.child)

NoticesHold == \A p \in Notifier : NoticeHolds(notice[p], runs)

HandoffInv ==
    /\ RunTypes /\ RowsAreLinked /\ NoticesHold
    /\ HandoffIsOwed /\ ChildIsAwaited /\ OutcomeIsTheChilds

-----------------------------------------------------------------------------
(***************************************************************************)
(* What a step may do to a row.  Evolves: parent links are fixed, a run is *)
(* never un-revived or disarmed, a terminal status comes from a running    *)
(* run and arms a child, and only a failed run leaves its terminal status. *)
(* NoNewWait: no handoff starts.  CallKept: none is settled either.        *)
(***************************************************************************)
Evolves(x, y) ==
    /\ y.parent = x.parent
    /\ x.revived => y.revived
    /\ x.armed => y.armed
    /\ y.armed => x.armed \/ x.parent # 0
    /\ y.status \in Terminal => \/ y.status = x.status
                                \/ x.status = "running" /\ (x.parent # 0 => y.armed)
    /\ y.status # x.status => \/ x.status = "running"
                              \/ x.status = "failed" /\ y.revived

NoNewWait(x, y) ==
    /\ y.call = "waiting" => x.call = "waiting" /\ y.child = x.child
    /\ y.child # 0 => y.child = x.child

CallKept(x, y) ==
    /\ NoNewWait(x, y)
    /\ x.call \in {"waiting", "cancelled"} => y.child = x.child /\ y.call \in {x.call, "cancelled"}
    /\ x.call = "succeeded" => y.call = "succeeded"
    /\ y.call \in {"succeeded", "failed"} /\ y.child # 0 => y.call = x.call

(* A call that is not queued keeps its state and its child. *)
CallQueues(x, y) ==
    /\ y.child = x.child
    /\ IF x.call \in {"pending", "queued"} THEN y.call \in {"pending", "queued"}
                                           ELSE y.call = x.call

(* A queued row goes back to pending, no other changes. *)
LEMMA DemotedRow ==
    ASSUME NEW x \in Run
    PROVE  /\ Demoted(x.call) \in {"absent", "pending", "queued", "running", "waiting"} \cup Terminal
           /\ Demoted(x.side) \in {"pending", "queued"} \cup Terminal
           /\ IF x.call \in {"pending", "queued"} THEN Demoted(x.call) \in {"pending", "queued"}
                                                  ELSE Demoted(x.call) = x.call
BY DEF Demoted, Run, Terminal

(* MarkRunTerminalFromRunning. *)
LEMMA FlippedRow ==
    ASSUME NEW x \in Run, NEW s \in {"succeeded", "failed"}
    PROVE  /\ Flipped(x, s) \in Run
           /\ Evolves(x, Flipped(x, s)) /\ CallQueues(x, Flipped(x, s))
<1>1. CASE x.status # "running"
  <2>1. Flipped(x, s) = x
    BY <1>1 DEF Flipped
  <2> QED
    BY <2>1 DEF Evolves, CallQueues
<1>2. CASE x.status = "running"
  <2> DEFINE c == IF s = "failed" THEN Demoted(x.call) ELSE x.call
             d == IF s = "failed" THEN Demoted(x.side) ELSE x.side
             m == x.armed \/ x.parent # 0
             y == [[[[x EXCEPT !.status = s] EXCEPT !.armed = m] EXCEPT !.call = c]
                      EXCEPT !.side = d]
  <2>1. /\ c \in {"absent", "pending", "queued", "running", "waiting"} \cup Terminal
        /\ d \in {"pending", "queued"} \cup Terminal
        /\ IF x.call \in {"pending", "queued"} THEN c \in {"pending", "queued"} ELSE c = x.call
    BY DemotedRow DEF Run
  <2>2. Flipped(x, s) = y
    BY <1>2 DEF Flipped, Run
  <2>m. m \in BOOLEAN
    OBVIOUS
  <2> HIDE DEF c, d, m
  <2>3. /\ y \in Run /\ y.status = s /\ y.parent = x.parent /\ y.revived = x.revived
        /\ y.call = c /\ y.child = x.child /\ y.armed = m
    BY <2>1, <2>m DEF Run, Terminal
  <2> HIDE DEF y
  <2>4. x.armed \in BOOLEAN
    BY DEF Run
  <2> QED
    BY <1>2, <2>1, <2>2, <2>3, <2>4 DEF Evolves, CallQueues, Terminal, m
<1> QED
  BY <1>1, <1>2

(* scheduleDownstream. *)
LEMMA ScheduledRow ==
    ASSUME NEW x \in Run
    PROVE  /\ Scheduled(x) \in Run
           /\ Evolves(x, Scheduled(x)) /\ CallQueues(x, Scheduled(x))
<1>1. \/ Scheduled(x) = x
      \/ Scheduled(x) = Flipped(x, "failed")
      \/ Scheduled(x) = Flipped(x, "succeeded")
      \/ /\ x.status = "running"
         /\ Scheduled(x) = [x EXCEPT !.call = Requeued(@), !.side = Requeued(@)]
  BY DEF Scheduled
<1>2. CASE Scheduled(x) = x
  BY <1>2 DEF Evolves, CallQueues
<1>3. CASE Scheduled(x) = Flipped(x, "failed") \/ Scheduled(x) = Flipped(x, "succeeded")
  BY <1>3, FlippedRow
<1>4. CASE /\ x.status = "running"
           /\ Scheduled(x) = [x EXCEPT !.call = Requeued(@), !.side = Requeued(@)]
  <2> DEFINE c == Requeued(x.call)
             d == Requeued(x.side)
             y == [[x EXCEPT !.call = c] EXCEPT !.side = d]
  <2>1. /\ c \in {"absent", "pending", "queued", "running", "waiting"} \cup Terminal
        /\ d \in {"pending", "queued"} \cup Terminal
        /\ IF x.call \in {"pending", "queued"} THEN c \in {"pending", "queued"} ELSE c = x.call
    BY DEF Requeued, Run, Terminal
  <2>2. Scheduled(x) = y
    BY <1>4 DEF Run
  <2> HIDE DEF c, d
  <2>3. /\ y \in Run /\ y.status = x.status /\ y.parent = x.parent /\ y.revived = x.revived
        /\ y.call = c /\ y.child = x.child /\ y.armed = x.armed
    BY <2>1 DEF Run
  <2> HIDE DEF y
  <2> QED
    BY <2>1, <2>2, <2>3 DEF Evolves, CallQueues
<1> QED
  BY <1>1, <1>2, <1>3, <1>4

(* failNodeTx, on a call that is running. *)
LEMMA CallFailedRow ==
    ASSUME NEW x \in Run, x.call = "running"
    PROVE  /\ CallFailed(x) \in Run
           /\ Evolves(x, CallFailed(x)) /\ CallKept(x, CallFailed(x))
<1> DEFINE z == [[x EXCEPT !.call = "failed"] EXCEPT !.child = 0]
<1>0. 0 \in 0..MaxRuns
  BY SubworkflowBounds
<1>1. /\ z \in Run /\ z.status = x.status /\ z.parent = x.parent /\ z.armed = x.armed
      /\ z.revived = x.revived /\ z.call = "failed" /\ z.child = 0
  BY <1>0 DEF Run, Terminal
<1>2. CallFailed(x) = Flipped(z, "failed")
  BY DEF CallFailed
<1> HIDE DEF z
<1>3. /\ Flipped(z, "failed") \in Run /\ Evolves(z, Flipped(z, "failed"))
      /\ CallQueues(z, Flipped(z, "failed"))
  BY <1>1, FlippedRow
<1> QED
  BY <1>1, <1>2, <1>3 DEF Evolves, CallKept, NoNewWait, CallQueues

(* CancelRun. *)
LEMMA CancelledRow ==
    ASSUME NEW x \in Run, x.status = "running"
    PROVE  /\ Cancelled(x) \in Run
           /\ Evolves(x, Cancelled(x)) /\ CallKept(x, Cancelled(x))
<1> DEFINE c == Withdrawn(x.call)
           d == Withdrawn(x.side)
           m == x.armed \/ x.parent # 0
           y == [[[[x EXCEPT !.status = "cancelled"] EXCEPT !.armed = m] EXCEPT !.call = c]
                    EXCEPT !.side = d]
<1>1. /\ c \in {"absent", "running"} \cup Terminal /\ d \in Terminal /\ m \in BOOLEAN
      /\ c = x.call \/ c = "cancelled"
      /\ x.call \in {"waiting", "cancelled"} => c = "cancelled"
      /\ x.call = "succeeded" => c = "succeeded"
  BY DEF Withdrawn, Run, Terminal
<1>2. Cancelled(x) = y
  BY DEF Cancelled, Run
<1> HIDE DEF c, d, m
<1>3. /\ y \in Run /\ y.status = "cancelled" /\ y.parent = x.parent /\ y.revived = x.revived
      /\ y.call = c /\ y.child = x.child /\ y.armed = m
  BY <1>1 DEF Run, Terminal
<1> HIDE DEF y
<1>4. x.armed \in BOOLEAN
  BY DEF Run
<1>5. Evolves(x, y)
  BY <1>3, <1>4 DEF Evolves, m
<1>6. CallKept(x, y)
  BY <1>1, <1>3 DEF CallKept, NoNewWait, Terminal
<1> QED
  BY <1>2, <1>3, <1>5, <1>6

(* RedriveDeadLetter and RedriveRunNode. *)
LEMMA RedrivenRow ==
    ASSUME NEW x \in Run, NEW step \in {"call", "side"}, x[step] = "failed"
    PROVE  /\ Redriven(x, step) \in Run
           /\ Evolves(x, Redriven(x, step)) /\ CallKept(x, Redriven(x, step))
<1> DEFINE t == IF x.status = "failed" THEN "running" ELSE x.status
<1>0. t \in {"running"} \cup Terminal /\ (t = x.status \/ (x.status = "failed" /\ t = "running"))
  <2>1. x.status \in {"running"} \cup Terminal
    BY DEF Run
  <2> QED
    BY <2>1, Zenon DEF Terminal
<1>1. CASE step = "call"
  <2> DEFINE u == [[[x EXCEPT !.call = "queued"] EXCEPT !.revived = TRUE] EXCEPT !.status = t]
  <2>1. x.call = "failed" /\ Redriven(x, step) = u
    BY <1>1 DEF Redriven, Run
  <2> HIDE DEF t
  <2>2. /\ u \in Run /\ u.status = t /\ u.parent = x.parent /\ u.revived
        /\ u.call = "queued" /\ u.child = x.child /\ u.armed = x.armed
    BY <1>0 DEF Run
  <2> HIDE DEF u
  <2> QED
    BY <1>0, <2>1, <2>2 DEF Evolves, CallKept, NoNewWait, Terminal
<1>2. CASE step = "side"
  <2> DEFINE u == [[[x EXCEPT !.side = "queued"] EXCEPT !.revived = TRUE] EXCEPT !.status = t]
  <2>1. Redriven(x, step) = u
    BY <1>2 DEF Redriven, Run
  <2> HIDE DEF t
  <2>2. /\ u \in Run /\ u.status = t /\ u.parent = x.parent /\ u.revived
        /\ u.call = x.call /\ u.child = x.child /\ u.armed = x.armed
    BY <1>0 DEF Run
  <2> HIDE DEF u
  <2> QED
    BY <1>0, <2>1, <2>2 DEF Evolves, CallKept, NoNewWait, Terminal
<1> QED
  BY <1>1, <1>2

(* A row that only queues its call keeps its handoff. *)
LEMMA QueuesKeeps ==
    ASSUME NEW x \in Run, NEW y, CallQueues(x, y)
    PROVE  CallKept(x, y)
BY DEF CallQueues, CallKept, NoNewWait

-----------------------------------------------------------------------------
(* Replacing one row of the table. *)
LEMMA ExceptRow ==
    ASSUME RunTypes, NEW r \in DOMAIN runs, NEW y \in Run, y.parent = runs[r].parent,
           runs' = [runs EXCEPT ![r] = y]
    PROVE  /\ runs' \in Seq(Run) /\ Len(runs') = Len(runs) /\ DOMAIN runs' = DOMAIN runs
           /\ \A q \in DOMAIN runs : /\ runs'[q] = IF q = r THEN y ELSE runs[q]
                                     /\ runs'[q].parent < q
           /\ Len(runs') <= MaxRuns
<1>1. /\ runs \in Seq(Run) /\ Len(runs) <= MaxRuns
      /\ \A q \in DOMAIN runs : runs[q].parent < q
  BY DEF RunTypes
<1>2. runs' \in Seq(Run) /\ Len(runs') = Len(runs) /\ DOMAIN runs' = DOMAIN runs
  BY <1>1
<1>3. \A q \in DOMAIN runs : runs'[q] = IF q = r THEN y ELSE runs[q]
  BY <1>1
<1> QED
  BY <1>1, <1>2, <1>3

(* A parent is a row. *)
LEMMA ParentIsARow ==
    ASSUME RunTypes, NEW c \in DOMAIN runs, runs[c].parent # 0
    PROVE  runs[c].parent \in DOMAIN runs /\ runs[c].parent # c
<1>1. runs[c] \in Run /\ runs[c].parent < c /\ DOMAIN runs = 1..Len(runs) /\ Len(runs) \in Nat
  BY DEF RunTypes
<1>2. runs[c].parent \in Nat
  BY <1>1, SubworkflowBounds DEF Run
<1> QED
  BY <1>1, <1>2

(* A step that evolves one row and starts no handoff keeps the links, owes   *)
(* what it owed, and contradicts no notifier.                                *)
LEMMA EvolvingStep ==
    ASSUME HandoffInv, NEW r \in DOMAIN runs, NEW y \in Run,
           Evolves(runs[r], y), NoNewWait(runs[r], y),
           runs' = [runs EXCEPT ![r] = y]
    PROVE  /\ RowsAreLinked' /\ HandoffIsOwed'
           /\ \A n \in Notice \cup {Idle} : NoticeHolds(n, runs) => NoticeHolds(n, runs')
<1>0. /\ RunTypes /\ runs \in Seq(Run)
      /\ \A q \in DOMAIN runs : runs[q] \in Run
  BY DEF HandoffInv, RunTypes
<1>1. /\ DOMAIN runs' = DOMAIN runs
      /\ \A q \in DOMAIN runs : runs'[q] = IF q = r THEN y ELSE runs[q]
  BY <1>0, ExceptRow DEF Evolves
<1>2. \A q \in DOMAIN runs : Evolves(runs[q], runs'[q]) /\ NoNewWait(runs[q], runs'[q])
  BY <1>0, <1>1 DEF Evolves, NoNewWait
<1>3. \A q \in DOMAIN runs : runs[q].child # 0 => /\ runs[q].child \in DOMAIN runs
                                                   /\ runs[runs[q].child].parent = q
                                                   /\ q # 0
  BY <1>0 DEF HandoffInv, RowsAreLinked
<1>4. \A q \in DOMAIN runs : runs[q].call = "waiting" => runs[q].child # 0
  BY DEF HandoffInv, RowsAreLinked
<1>5. \A q \in DOMAIN runs : runs[q].armed => runs[q].parent # 0
  BY DEF HandoffInv, RowsAreLinked
<1>6. RowsAreLinked'
  <2> SUFFICES ASSUME NEW q \in DOMAIN runs
               PROVE  /\ runs'[q].child # 0 => /\ runs'[q].child \in DOMAIN runs
                                               /\ runs'[runs'[q].child].parent = q
                      /\ runs'[q].call = "waiting" => runs'[q].child # 0
                      /\ runs'[q].armed => runs'[q].parent # 0
    BY <1>1 DEF RowsAreLinked
  <2> QED
    BY <1>2, <1>3, <1>4, <1>5 DEF Evolves, NoNewWait
<1>7. HandoffIsOwed'
  <2> SUFFICES ASSUME NEW q \in DOMAIN runs, runs'[q].call = "waiting",
                      runs'[runs'[q].child].status \in Terminal
               PROVE  runs'[runs'[q].child].armed
    BY <1>1 DEF HandoffIsOwed
  <2>1. runs[q].call = "waiting" /\ runs'[q].child = runs[q].child
    BY <1>2 DEF NoNewWait
  <2> DEFINE c == runs[q].child
  <2>2. c \in DOMAIN runs /\ runs[c].parent # 0
    BY <1>3, <1>4, <2>1
  <2>3. runs[c].status \in Terminal => runs[c].armed
    BY <2>1 DEF HandoffInv, HandoffIsOwed
  <2>4. Evolves(runs[c], runs'[c])
    BY <1>2, <2>2
  <2> QED
    BY <2>1, <2>2, <2>3, <2>4 DEF Evolves, Terminal
<1>8. ASSUME NEW n \in Notice \cup {Idle}, NoticeHolds(n, runs)
       PROVE  NoticeHolds(n, runs')
  <2> SUFFICES ASSUME n # Idle
               PROVE  /\ n.child \in DOMAIN runs /\ runs'[n.child].parent # 0
                      /\ StillHolds(n.status, runs'[n.child])
                      /\ n.phase \notin Early =>
                           ~(/\ runs'[runs'[n.child].parent].call = "waiting"
                             /\ runs'[runs'[n.child].parent].child = n.child)
    BY <1>1 DEF NoticeHolds
  <2>1. /\ n.child \in DOMAIN runs /\ runs[n.child].parent # 0
        /\ StillHolds(n.status, runs[n.child]) /\ n.status \in Terminal
    BY <1>8 DEF NoticeHolds, Notice
  <2>2. Evolves(runs[n.child], runs'[n.child])
    BY <1>2, <2>1
  <2>3. runs'[n.child].parent = runs[n.child].parent
    BY <2>2 DEF Evolves
  <2>4. StillHolds(n.status, runs'[n.child])
    BY <2>1, <2>2 DEF Evolves, StillHolds, Terminal
  <2> DEFINE q == runs[n.child].parent
  <2>5. q \in DOMAIN runs
    BY <1>0, <2>1, ParentIsARow
  <2>6. NoNewWait(runs[q], runs'[q])
    BY <1>2, <2>5
  <2>7. n.phase \notin Early => ~(runs[q].call = "waiting" /\ runs[q].child = n.child)
    BY <1>8 DEF NoticeHolds
  <2> QED
    BY <2>1, <2>3, <2>4, <2>6, <2>7 DEF NoNewWait
<1> QED
  BY <1>6, <1>7, <1>8

(* A step that settles no handoff either keeps the other two invariants. *)
LEMMA KeptStep ==
    ASSUME HandoffInv, NEW r \in DOMAIN runs, NEW y \in Run,
           Evolves(runs[r], y), CallKept(runs[r], y),
           runs' = [runs EXCEPT ![r] = y]
    PROVE  /\ RowsAreLinked' /\ HandoffIsOwed' /\ ChildIsAwaited' /\ OutcomeIsTheChilds'
           /\ \A n \in Notice \cup {Idle} : NoticeHolds(n, runs) => NoticeHolds(n, runs')
<1>0. /\ RunTypes /\ runs \in Seq(Run)
      /\ \A q \in DOMAIN runs : runs[q] \in Run
  BY DEF HandoffInv, RunTypes
<1>1. /\ DOMAIN runs' = DOMAIN runs
      /\ \A q \in DOMAIN runs : runs'[q] = IF q = r THEN y ELSE runs[q]
  BY <1>0, ExceptRow DEF Evolves
<1>2. \A q \in DOMAIN runs : Evolves(runs[q], runs'[q]) /\ CallKept(runs[q], runs'[q])
  BY <1>0, <1>1 DEF Evolves, CallKept, NoNewWait
<1>3. \A q \in DOMAIN runs : runs[q].child # 0 => /\ runs[q].child \in DOMAIN runs
                                                   /\ runs[runs[q].child].parent = q
                                                   /\ q # 0
  BY <1>0 DEF HandoffInv, RowsAreLinked
<1>4. ChildIsAwaited'
  <2> SUFFICES ASSUME NEW c \in DOMAIN runs, runs'[c].parent # 0, runs'[c].status = "running",
                      ~runs'[c].revived
               PROVE  CallOf(c, runs'[runs'[c].parent])
    BY <1>1 DEF ChildIsAwaited
  <2>1. Evolves(runs[c], runs'[c])
    BY <1>2
  <2>2. runs[c].parent = runs'[c].parent /\ runs[c].status = "running" /\ ~runs[c].revived
    BY <2>1 DEF Evolves
  <2> DEFINE q == runs[c].parent
  <2>3. q \in DOMAIN runs
    BY <1>0, <2>2, ParentIsARow
  <2>4. CallOf(c, runs[q])
    BY <2>2 DEF HandoffInv, ChildIsAwaited
  <2>5. CallKept(runs[q], runs'[q])
    BY <1>2, <2>3
  <2> QED
    BY <2>2, <2>4, <2>5 DEF CallKept, NoNewWait, CallOf
<1>5. OutcomeIsTheChilds'
  <2> SUFFICES ASSUME NEW q \in DOMAIN runs, runs'[q].child # 0,
                      runs'[q].call \in {"succeeded", "failed"}
               PROVE  IF runs'[q].call = "succeeded"
                      THEN runs'[runs'[q].child].status = "succeeded"
                      ELSE \/ runs'[runs'[q].child].status \in {"failed", "cancelled"}
                           \/ runs'[runs'[q].child].revived
    BY <1>1 DEF OutcomeIsTheChilds
  <2> DEFINE c == runs[q].child
  <2>1. runs'[q].call = runs[q].call /\ runs'[q].child = c
    BY <1>2 DEF CallKept, NoNewWait
  <2>2. IF runs[q].call = "succeeded" THEN runs[c].status = "succeeded"
        ELSE runs[c].status \in {"failed", "cancelled"} \/ runs[c].revived
    BY <2>1 DEF HandoffInv, OutcomeIsTheChilds
  <2>3. Evolves(runs[c], runs'[c])
    BY <1>2, <1>3, <2>1
  <2> QED
    BY <2>1, <2>2, <2>3 DEF Evolves
<1>6. NoNewWait(runs[r], y)
  BY DEF CallKept
<1> QED
  BY <1>4, <1>5, <1>6, EvolvingStep

(* The same, with the rest of the state. *)
LEMMA KeptInv ==
    ASSUME HandoffInv, NEW r \in DOMAIN runs, NEW y \in Run,
           Evolves(runs[r], y), CallKept(runs[r], y),
           runs' = [runs EXCEPT ![r] = y],
           calling' \in [Worker -> 0..Len(runs)],
           notice' \in [Notifier -> Notice \cup {Idle}],
           \A p \in Notifier : notice'[p] = notice[p] \/ NoticeHolds(notice'[p], runs')
    PROVE  HandoffInv'
<1>0. RunTypes /\ notice \in [Notifier -> Notice \cup {Idle}]
  BY DEF HandoffInv, RunTypes
<1>1. RunTypes'
  <2>1. /\ runs' \in Seq(Run) /\ Len(runs') = Len(runs) /\ DOMAIN runs' = DOMAIN runs
        /\ \A q \in DOMAIN runs : runs'[q].parent < q
        /\ Len(runs') <= MaxRuns
    BY <1>0, ExceptRow DEF Evolves
  <2> QED
    BY <2>1 DEF RunTypes
<1>2. /\ RowsAreLinked' /\ HandoffIsOwed' /\ ChildIsAwaited' /\ OutcomeIsTheChilds'
      /\ \A n \in Notice \cup {Idle} : NoticeHolds(n, runs) => NoticeHolds(n, runs')
  BY KeptStep
<1>3. NoticesHold'
  <2>1. \A p \in Notifier : NoticeHolds(notice[p], runs)
    BY DEF HandoffInv, NoticesHold
  <2>2. \A p \in Notifier : NoticeHolds(notice'[p], runs')
    BY <1>0, <1>2, <2>1
  <2> QED
    BY <2>2 DEF NoticesHold
<1> QED
  BY <1>1, <1>2, <1>3 DEF HandoffInv

(* The same when no row changes. *)
LEMMA SameRowsInv ==
    ASSUME HandoffInv, UNCHANGED runs,
           calling' \in [Worker -> 0..Len(runs)],
           notice' \in [Notifier -> Notice \cup {Idle}],
           \A p \in Notifier : notice'[p] = notice[p] \/ NoticeHolds(notice'[p], runs)
    PROVE  HandoffInv'
<1>1. RunTypes'
  BY DEF HandoffInv, RunTypes
<1>2. RowsAreLinked' /\ HandoffIsOwed' /\ ChildIsAwaited' /\ OutcomeIsTheChilds'
  BY DEF HandoffInv, RowsAreLinked, HandoffIsOwed, ChildIsAwaited, OutcomeIsTheChilds
<1>3. NoticesHold'
  BY DEF HandoffInv, NoticesHold
<1> QED
  BY <1>1, <1>2, <1>3 DEF HandoffInv

-----------------------------------------------------------------------------
(* The actions. *)

LEMMA ExecutionKeeps ==
    ASSUME HandoffInv, NEW r \in DOMAIN runs,
           SideEnds(r) \/ ReapCall(r) \/ CancelRun(r) \/ (\E w \in Worker : ClaimCall(w, r))
           \/ \E step \in {"call", "side"} : Redrive(r, step)
    PROVE  HandoffInv'
<1>0. /\ runs[r] \in Run /\ calling \in [Worker -> 0..Len(runs)]
      /\ notice \in [Notifier -> Notice \cup {Idle}] /\ DOMAIN runs = 1..Len(runs)
  BY DEF HandoffInv, RunTypes
<1> DEFINE x == runs[r]
           Kept(y) == y \in Run /\ Evolves(x, y) /\ CallKept(x, y)
<1>1. notice' = notice
  BY DEF SideEnds, ReapCall, CancelRun, ClaimCall, Redrive
<1>2. calling' \in [Worker -> 0..Len(runs)]
  <2>1. calling' = calling \/ \E w \in Worker : calling' = [calling EXCEPT ![w] = r]
    BY DEF SideEnds, ReapCall, CancelRun, ClaimCall, Redrive
  <2> QED
    BY <1>0, <2>1
<1>3. ASSUME NEW y, Kept(y), runs' = [runs EXCEPT ![r] = y]
      PROVE  HandoffInv'
  BY <1>0, <1>1, <1>2, <1>3, KeptInv
<1>4. CASE SideEnds(r)
  <2> DEFINE z(s) == [x EXCEPT !.side = s]
  <2>1. \A s \in {"succeeded", "failed"} :
          /\ z(s) \in Run /\ z(s).status = x.status /\ z(s).parent = x.parent
          /\ z(s).armed = x.armed /\ z(s).revived = x.revived
          /\ z(s).call = x.call /\ z(s).child = x.child
    BY <1>0 DEF Run, Terminal
  <2>2. \/ runs' = [runs EXCEPT ![r] = Scheduled(z("succeeded"))]
        \/ runs' = [runs EXCEPT ![r] = Flipped(z("failed"), "failed")]
    BY <1>4 DEF SideEnds
  <2> HIDE DEF z
  <2>3. Kept(Scheduled(z("succeeded")))
    <3>1. /\ Scheduled(z("succeeded")) \in Run
          /\ Evolves(z("succeeded"), Scheduled(z("succeeded")))
          /\ CallKept(z("succeeded"), Scheduled(z("succeeded")))
      BY <2>1, ScheduledRow, QueuesKeeps
    <3> QED
      BY <2>1, <3>1 DEF Evolves, CallKept, NoNewWait
  <2>4. Kept(Flipped(z("failed"), "failed"))
    <3>1. /\ Flipped(z("failed"), "failed") \in Run
          /\ Evolves(z("failed"), Flipped(z("failed"), "failed"))
          /\ CallKept(z("failed"), Flipped(z("failed"), "failed"))
      BY <2>1, FlippedRow, QueuesKeeps
    <3> QED
      BY <2>1, <3>1 DEF Evolves, CallKept, NoNewWait
  <2> QED
    BY <1>3, <2>2, <2>3, <2>4
<1>5. CASE ReapCall(r)
  <2>1. x.call = "running" /\ runs' = [runs EXCEPT ![r] = CallFailed(x)]
    BY <1>5 DEF ReapCall
  <2>2. Kept(CallFailed(x))
    BY <1>0, <2>1, CallFailedRow
  <2> QED
    BY <1>3, <2>1, <2>2
<1>6. CASE CancelRun(r)
  <2>1. x.status = "running" /\ runs' = [runs EXCEPT ![r] = Cancelled(x)]
    BY <1>6 DEF CancelRun
  <2>2. Kept(Cancelled(x))
    BY <1>0, <2>1, CancelledRow
  <2> QED
    BY <1>3, <2>1, <2>2
<1>7. ASSUME NEW w \in Worker, ClaimCall(w, r)
      PROVE  HandoffInv'
  <2> DEFINE y == [x EXCEPT !.call = "running"]
  <2>1. runs' = [runs EXCEPT ![r] = y] /\ x.call = "queued"
    BY <1>7 DEF ClaimCall
  <2>2. Kept(y)
    BY <1>0, <2>1 DEF Run, Evolves, CallKept, NoNewWait
  <2> QED
    BY <1>3, <2>1, <2>2
<1>8. ASSUME NEW step \in {"call", "side"}, Redrive(r, step)
      PROVE  HandoffInv'
  <2>1. x[step] = "failed" /\ runs' = [runs EXCEPT ![r] = Redriven(x, step)]
    BY <1>8 DEF Redrive
  <2>2. Kept(Redriven(x, step))
    BY <1>0, <2>1, RedrivenRow
  <2> QED
    BY <1>3, <2>1, <2>2
<1> QED
  BY <1>4, <1>5, <1>6, <1>7, <1>8

LEMMA CallFailsKeeps ==
    ASSUME HandoffInv, NEW w \in Worker, CallFails(w)
    PROVE  HandoffInv'
<1> DEFINE r == calling[w]
<1>0. /\ runs \in Seq(Run) /\ calling \in [Worker -> 0..Len(runs)]
      /\ notice \in [Notifier -> Notice \cup {Idle}]
  BY DEF HandoffInv, RunTypes
<1>1. r \in DOMAIN runs /\ runs[r] \in Run /\ Len(runs) \in Nat
  BY <1>0 DEF CallFails
<1>2. calling' \in [Worker -> 0..Len(runs)] /\ notice' = notice
  BY <1>0, <1>1 DEF CallFails
<1>3. CASE runs[r].call = "running"
  <2>1. runs' = [runs EXCEPT ![r] = CallFailed(runs[r])]
    BY <1>3 DEF CallFails
  <2>2. /\ CallFailed(runs[r]) \in Run /\ Evolves(runs[r], CallFailed(runs[r]))
        /\ CallKept(runs[r], CallFailed(runs[r]))
    BY <1>1, <1>3, CallFailedRow
  <2> HIDE DEF r
  <2> QED
    BY <1>0, <1>1, <1>2, <2>1, <2>2, KeptInv
<1>4. CASE runs[r].call # "running"
  <2>1. UNCHANGED runs
    BY <1>4 DEF CallFails
  <2> QED
    BY <1>0, <1>2, <2>1, SameRowsInv
<1> QED
  BY <1>3, <1>4

(* A notifier reads a child that is armed, so one with a parent. *)
LEMMA ReadKeeps ==
    ASSUME HandoffInv, NEW p \in Notifier, NEW c \in DOMAIN runs, ReadTerminalChild(p, c)
    PROVE  HandoffInv'
<1> DEFINE n == [phase |-> "child", child |-> c, status |-> runs[c].status,
                 parentRuns |-> FALSE]
<1>0. /\ runs \in Seq(Run) /\ Len(runs) <= MaxRuns /\ calling \in [Worker -> 0..Len(runs)]
      /\ notice \in [Notifier -> Notice \cup {Idle}]
  BY DEF HandoffInv, RunTypes
<1>1. runs[c].status \in Terminal /\ runs[c].armed
  BY DEF ReadTerminalChild
<1>2. c \in 1..MaxRuns
  BY <1>0, SubworkflowBounds
<1>3. /\ n \in Notice /\ n.child = c /\ n.phase = "child" /\ n.status = runs[c].status
  BY <1>1, <1>2 DEF Notice
<1>4. UNCHANGED <<runs, calling>> /\ notice' = [notice EXCEPT ![p] = n]
  BY DEF ReadTerminalChild
<1>5. NoticeHolds(n, runs)
  <2>1. runs[c].parent # 0
    BY <1>1 DEF HandoffInv, RowsAreLinked
  <2> HIDE DEF n
  <2> QED
    BY <1>3, <2>1 DEF NoticeHolds, StillHolds, Early
<1> HIDE DEF n
<1>6. /\ notice' \in [Notifier -> Notice \cup {Idle}]
      /\ \A q \in Notifier : notice'[q] = notice[q] \/ NoticeHolds(notice'[q], runs)
  BY <1>0, <1>3, <1>4, <1>5
<1> QED
  BY <1>0, <1>4, <1>6, SameRowsInv

(* What a notifier learns of the parent moves its own phase only: past the   *)
(* miss it stays past it.                                                    *)
LEMMA PhaseKeeps ==
    ASSUME HandoffInv, NEW p \in Notifier,
           ReadParent(p) \/ RecheckNode(p) \/ RecheckRun(p)
    PROVE  HandoffInv'
<1> DEFINE n == notice[p]
           next(ph, b) == [[n EXCEPT !.phase = ph] EXCEPT !.parentRuns = b]
           Late == {"exact", "inexact", "tail", "settled"}
<1>0. /\ calling \in [Worker -> 0..Len(runs)] /\ notice \in [Notifier -> Notice \cup {Idle}]
  BY DEF HandoffInv, RunTypes
<1>1. n.phase \in {"child", "missed", "exact", "inexact"}
  BY DEF ReadParent, RecheckNode, RecheckRun
<1>2. n \in Notice /\ n # Idle /\ NoticeHolds(n, runs)
  BY <1>0, <1>1 DEF Idle, HandoffInv, NoticesHold
<1>3. \A ph \in Late \cup {"read"}, b \in BOOLEAN :
        /\ next(ph, b) \in Notice /\ next(ph, b).child = n.child /\ next(ph, b).status = n.status
        /\ next(ph, b).phase = ph /\ next(ph, b) # Idle
  BY <1>2 DEF Notice, Idle
<1>4. UNCHANGED <<runs, calling>>
  BY DEF ReadParent, RecheckNode, RecheckRun
<1>5. \/ notice' = [notice EXCEPT ![p] = Idle]
      \/ \E ph \in Late \cup {"read"}, b \in BOOLEAN :
           /\ notice' = [notice EXCEPT ![p] = next(ph, b)]
           /\ ph = "read" \/ n.phase \notin Early
  <2>1. CASE ReadParent(p)
    <3> DEFINE b == runs[runs[n.child].parent].status = "running"
    <3>1. b \in BOOLEAN /\ notice' = [notice EXCEPT ![p] = next("read", b)]
      BY <1>0, <2>1 DEF ReadParent
    <3> HIDE DEF b, next
    <3> QED
      BY <3>1
  <2>2. CASE RecheckNode(p) \/ RecheckRun(p)
    <3>1. n.phase \notin Early
      BY <2>2 DEF RecheckNode, RecheckRun, Early
    <3>2. \A ph \in Late : [n EXCEPT !.phase = ph] = next(ph, n.parentRuns)
      BY <1>2 DEF Notice
    <3>3. n.parentRuns \in BOOLEAN
      BY <1>2 DEF Notice
    <3>4. \/ notice' = [notice EXCEPT ![p] = Idle]
          \/ \E ph \in Late : notice' = [notice EXCEPT ![p] = [n EXCEPT !.phase = ph]]
      BY <1>0, <2>2 DEF RecheckNode, RecheckRun
    <3> HIDE DEF next
    <3> QED
      BY <3>1, <3>2, <3>3, <3>4
  <2> QED
    BY <2>1, <2>2
<1>6. /\ notice' \in [Notifier -> Notice \cup {Idle}]
      /\ \A q \in Notifier : notice'[q] = notice[q] \/ NoticeHolds(notice'[q], runs)
  <2> HIDE DEF next
  <2>1. NoticeHolds(Idle, runs)
    BY DEF NoticeHolds
  <2>2. ASSUME NEW ph \in Late \cup {"read"}, NEW b \in BOOLEAN,
               ph = "read" \/ n.phase \notin Early
        PROVE  NoticeHolds(next(ph, b), runs)
    BY <1>2, <1>3, <2>2 DEF NoticeHolds, Early
  <2> QED
    BY <1>0, <1>3, <1>5, <2>1, <2>2
<1> QED
  BY <1>0, <1>4, <1>6, SameRowsInv

(* The tail of a settlement, once more. *)
LEMMA TailKeeps ==
    ASSUME HandoffInv, NEW p \in Notifier, RerunTail(p)
    PROVE  HandoffInv'
<1> DEFINE n == notice[p]
           r == runs[n.child].parent
           settled == [n EXCEPT !.phase = "settled"]
           y == IF n.status = "succeeded" THEN Scheduled(runs[r]) ELSE Flipped(runs[r], "failed")
<1>0. /\ runs \in Seq(Run) /\ Len(runs) <= MaxRuns /\ calling \in [Worker -> 0..Len(runs)]
      /\ notice \in [Notifier -> Notice \cup {Idle}] /\ RunTypes
  BY DEF HandoffInv, RunTypes
<1>1. n.phase = "tail"
  BY DEF RerunTail
<1>2. n \in Notice /\ n # Idle
  BY <1>0, <1>1 DEF Idle
<1>3. /\ n.child \in DOMAIN runs /\ r # 0 /\ StillHolds(n.status, runs[n.child])
      /\ ~(runs[r].call = "waiting" /\ runs[r].child = n.child)
  BY <1>1, <1>2 DEF HandoffInv, NoticesHold, NoticeHolds, Early
<1>4. r \in DOMAIN runs /\ runs[r] \in Run
  BY <1>0, <1>3, ParentIsARow
<1>5. /\ settled \in Notice /\ settled.child = n.child /\ settled.status = n.status
      /\ settled.phase = "settled"
  BY <1>2 DEF Notice
<1>6. /\ calling' = calling /\ runs' = [runs EXCEPT ![r] = y]
      /\ notice' = [notice EXCEPT ![p] = settled]
  BY <1>0 DEF RerunTail
<1>7. NoticeHolds(settled, runs)
  <2> HIDE DEF settled
  <2> QED
    BY <1>3, <1>5 DEF NoticeHolds
<1>8. y \in Run /\ Evolves(runs[r], y) /\ CallKept(runs[r], y)
  BY <1>4, ScheduledRow, FlippedRow, QueuesKeeps
<1> HIDE DEF y, r, settled
<1>9. NoticeHolds(settled, runs')
  BY <1>4, <1>5, <1>6, <1>7, <1>8, KeptStep
<1>10. /\ notice' \in [Notifier -> Notice \cup {Idle}]
       /\ \A q \in Notifier : notice'[q] = notice[q] \/ NoticeHolds(notice'[q], runs')
  BY <1>0, <1>5, <1>6, <1>9
<1> QED
  BY <1>0, <1>4, <1>6, <1>8, <1>10, KeptInv

(* settleParentOnChildSuccess and ...Failure. *)
LEMMA SettledRow ==
    ASSUME NEW x \in Run, NEW n \in Notice, x.call = "waiting"
    PROVE  LET y == SettledCall(x, n)
           IN  /\ y \in Run /\ Evolves(x, y) /\ y.child = x.child
               /\ y.call = IF n.status = "succeeded" THEN "succeeded" ELSE "failed"
<1> DEFINE z(c) == [x EXCEPT !.call = c]
           y == SettledCall(x, n)
<1>1. \A c \in {"succeeded", "failed"} :
        /\ z(c) \in Run /\ z(c).status = x.status /\ z(c).parent = x.parent
        /\ z(c).armed = x.armed /\ z(c).revived = x.revived
        /\ z(c).call = c /\ z(c).child = x.child
  BY DEF Run, Terminal
<1>2. IF n.status = "succeeded" THEN y = Scheduled(z("succeeded")) \/ y = z("succeeded")
      ELSE y = Flipped(z("failed"), "failed") \/ y = z("failed")
  BY DEF SettledCall
<1> HIDE DEF z, y
<1>3. CASE n.status = "succeeded"
  <2>1. /\ Scheduled(z("succeeded")) \in Run
        /\ Evolves(z("succeeded"), Scheduled(z("succeeded")))
        /\ CallQueues(z("succeeded"), Scheduled(z("succeeded")))
    BY <1>1, ScheduledRow
  <2>2. CASE y = Scheduled(z("succeeded"))
    BY <1>1, <1>3, <2>1, <2>2 DEF Evolves, CallQueues, y
  <2>3. CASE y = z("succeeded")
    BY <1>1, <1>3, <2>3 DEF Evolves, y
  <2> QED
    BY <1>2, <1>3, <2>2, <2>3
<1>4. CASE n.status # "succeeded"
  <2>1. /\ Flipped(z("failed"), "failed") \in Run
        /\ Evolves(z("failed"), Flipped(z("failed"), "failed"))
        /\ CallQueues(z("failed"), Flipped(z("failed"), "failed"))
    BY <1>1, FlippedRow
  <2>2. CASE y = Flipped(z("failed"), "failed")
    BY <1>1, <1>4, <2>1, <2>2 DEF Evolves, CallQueues, y
  <2>3. CASE y = z("failed")
    BY <1>1, <1>4, <2>3 DEF Evolves, y
  <2> QED
    BY <1>2, <1>4, <2>2, <2>3
<1> QED
  BY <1>3, <1>4

(* The exact checkpoint is settled with what its own child's notice says, or *)
(* the compare-and-set misses.                                               *)
LEMMA SettleKeeps ==
    ASSUME HandoffInv, NEW p \in Notifier, SettleParent(p)
    PROVE  HandoffInv'
<1> DEFINE n == notice[p]
           r == runs[n.child].parent
           after(ph) == [[n EXCEPT !.phase = ph] EXCEPT !.parentRuns = FALSE]
<1>0. /\ runs \in Seq(Run) /\ Len(runs) <= MaxRuns /\ calling \in [Worker -> 0..Len(runs)]
      /\ notice \in [Notifier -> Notice \cup {Idle}] /\ RunTypes
      /\ \A q \in DOMAIN runs : runs[q] \in Run
  BY DEF HandoffInv, RunTypes
<1>1. n.phase = "read"
  BY DEF SettleParent
<1>2. n \in Notice /\ n # Idle
  BY <1>0, <1>1 DEF Idle
<1>3. /\ n.child \in DOMAIN runs /\ r # 0 /\ StillHolds(n.status, runs[n.child])
      /\ n.status \in Terminal
  BY <1>1, <1>2 DEF HandoffInv, NoticesHold, NoticeHolds, Notice
<1>4. r \in DOMAIN runs /\ runs[r] \in Run /\ r # n.child
  BY <1>0, <1>3, ParentIsARow
<1>5. \A ph \in {"missed", "settled"} :
        /\ after(ph) \in Notice /\ after(ph).child = n.child /\ after(ph).status = n.status
        /\ after(ph).phase = ph /\ after(ph) # Idle
  BY <1>2 DEF Notice, Idle
<1>6. CASE ~Awaits(r, n.child)
  <2>1. UNCHANGED <<runs, calling>> /\ notice' = [notice EXCEPT ![p] = after("missed")]
    BY <1>0, <1>6 DEF SettleParent
  <2> HIDE DEF after
  <2>2. NoticeHolds(after("missed"), runs)
    BY <1>3, <1>5, <1>6 DEF NoticeHolds, Awaits
  <2>3. /\ notice' \in [Notifier -> Notice \cup {Idle}]
        /\ \A q \in Notifier : notice'[q] = notice[q] \/ NoticeHolds(notice'[q], runs)
    BY <1>0, <1>5, <2>1, <2>2
  <2> QED
    BY <1>0, <2>1, <2>3, SameRowsInv
<1>7. CASE Awaits(r, n.child)
  <2> DEFINE y == SettledCall(runs[r], n)
  <2>1. /\ runs' = [runs EXCEPT ![r] = y] /\ calling' = calling
        /\ notice' = [notice EXCEPT ![p] = after("settled")]
    BY <1>0, <1>7 DEF SettleParent
  <2>2. runs[r].call = "waiting" /\ runs[r].child = n.child
    BY <1>7 DEF Awaits
  <2>3. /\ y \in Run /\ Evolves(runs[r], y) /\ y.child = n.child
        /\ y.call = IF n.status = "succeeded" THEN "succeeded" ELSE "failed"
    BY <1>2, <1>4, <2>2, SettledRow
  <2>4. NoNewWait(runs[r], y)
    BY <2>2, <2>3 DEF NoNewWait
  <2> HIDE DEF y, after
  <2>5. /\ RowsAreLinked' /\ HandoffIsOwed'
        /\ \A m \in Notice \cup {Idle} : NoticeHolds(m, runs) => NoticeHolds(m, runs')
    BY <1>4, <2>1, <2>3, <2>4, EvolvingStep
  <2>6. /\ runs' \in Seq(Run) /\ Len(runs') = Len(runs) /\ DOMAIN runs' = DOMAIN runs
        /\ Len(runs') <= MaxRuns
        /\ \A q \in DOMAIN runs : /\ runs'[q] = IF q = r THEN y ELSE runs[q]
                                  /\ runs'[q].parent < q
    BY <1>0, <1>4, <2>1, <2>3, ExceptRow DEF Evolves
  <2>7. runs'[n.child] = runs[n.child] /\ runs'[r] = y
    BY <1>3, <1>4, <2>6
  <2>8. NoticeHolds(after("settled"), runs')
    BY <1>3, <1>5, <2>3, <2>6, <2>7 DEF NoticeHolds
  <2>9. /\ notice' \in [Notifier -> Notice \cup {Idle}]
        /\ \A q \in Notifier : notice'[q] = notice[q] \/ NoticeHolds(notice'[q], runs')
    BY <1>0, <1>5, <2>1, <2>8
  <2>10. NoticesHold'
    <3>1. \A q \in Notifier : NoticeHolds(notice[q], runs)
      BY DEF HandoffInv, NoticesHold
    <3>2. \A q \in Notifier : NoticeHolds(notice'[q], runs')
      BY <1>0, <2>5, <2>9, <3>1
    <3> QED
      BY <3>2 DEF NoticesHold
  <2>11. RunTypes'
    BY <1>0, <2>1, <2>6, <2>9 DEF RunTypes
  <2>12. ChildIsAwaited'
    <3> SUFFICES ASSUME NEW c \in DOMAIN runs, runs'[c].parent # 0, runs'[c].status = "running",
                        ~runs'[c].revived
                 PROVE  CallOf(c, runs'[runs'[c].parent])
      BY <2>6 DEF ChildIsAwaited
    <3>1. /\ runs[c].parent = runs'[c].parent /\ runs[c].status = "running" /\ ~runs[c].revived
      BY <2>3, <2>6 DEF Evolves
    <3>2. CallOf(c, runs[runs[c].parent])
      BY <3>1 DEF HandoffInv, ChildIsAwaited
    <3>3. runs[c].parent \in DOMAIN runs
      BY <1>0, <3>1, ParentIsARow
    <3>4. c # n.child
      BY <1>3, <3>1 DEF StillHolds, Terminal
    <3>5. runs[c].parent # r
      BY <2>2, <3>2, <3>4 DEF CallOf
    <3> QED
      BY <2>6, <3>1, <3>2, <3>3, <3>5
  <2>13. OutcomeIsTheChilds'
    <3> SUFFICES ASSUME NEW q \in DOMAIN runs, runs'[q].child # 0,
                        runs'[q].call \in {"succeeded", "failed"}
                 PROVE  IF runs'[q].call = "succeeded"
                        THEN runs'[runs'[q].child].status = "succeeded"
                        ELSE \/ runs'[runs'[q].child].status \in {"failed", "cancelled"}
                             \/ runs'[runs'[q].child].revived
      BY <2>6 DEF OutcomeIsTheChilds
    <3>1. CASE q = r
      BY <1>3, <2>3, <2>7, <3>1 DEF StillHolds, Terminal
    <3>2. CASE q # r
      <4> DEFINE c == runs[q].child
      <4>1. runs'[q] = runs[q]
        BY <2>6, <3>2
      <4>2. IF runs[q].call = "succeeded" THEN runs[c].status = "succeeded"
            ELSE runs[c].status \in {"failed", "cancelled"} \/ runs[c].revived
        BY <4>1 DEF HandoffInv, OutcomeIsTheChilds
      <4>3. c \in DOMAIN runs
        BY <4>1 DEF HandoffInv, RowsAreLinked
      <4>4. runs'[c] = runs[c] \/ (c = r /\ runs'[c] = y)
        BY <2>6, <4>3
      <4> QED
        BY <2>3, <4>1, <4>2, <4>4 DEF Evolves
    <3> QED
      BY <3>1, <3>2
  <2> QED
    BY <2>5, <2>10, <2>11, <2>12, <2>13 DEF HandoffInv
<1> QED
  BY <1>6, <1>7

(* ResumeRunAs. *)
LEMMA AnsweredRow ==
    ASSUME NEW x \in Run
    PROVE  LET y == Answered(x)
           IN  y \in Run /\ Evolves(x, y) /\ y.child = 0 /\ y.call = "succeeded"
<1> DEFINE z == [[x EXCEPT !.call = "succeeded"] EXCEPT !.child = 0]
<1>0. 0 \in 0..MaxRuns
  BY SubworkflowBounds
<1>1. /\ z \in Run /\ z.status = x.status /\ z.parent = x.parent /\ z.armed = x.armed
      /\ z.revived = x.revived /\ z.call = "succeeded" /\ z.child = 0
  BY <1>0 DEF Run, Terminal
<1>2. Answered(x) = Scheduled(z)
  BY DEF Answered
<1> HIDE DEF z
<1>3. Scheduled(z) \in Run /\ Evolves(z, Scheduled(z)) /\ CallQueues(z, Scheduled(z))
  BY <1>1, ScheduledRow
<1> QED
  BY <1>1, <1>2, <1>3 DEF Evolves, CallQueues

(* An operator answers a waiting call: its child runs on, forgotten, and     *)
(* every notice about it will miss.                                          *)
LEMMA ResumeKeeps ==
    ASSUME HandoffInv, NEW r \in DOMAIN runs, ResumeCall(r)
    PROVE  HandoffInv'
<1> DEFINE y == Answered(runs[r])
<1>0. /\ runs \in Seq(Run) /\ RunTypes /\ notice \in [Notifier -> Notice \cup {Idle}]
      /\ \A q \in DOMAIN runs : runs[q] \in Run
  BY DEF HandoffInv, RunTypes
<1>1. runs' = [runs EXCEPT ![r] = y] /\ UNCHANGED <<calling, notice>>
  BY DEF ResumeCall
<1>2. y \in Run /\ Evolves(runs[r], y) /\ y.child = 0 /\ y.call = "succeeded"
  BY <1>0, AnsweredRow
<1> HIDE DEF y
<1>3. NoNewWait(runs[r], y)
  BY <1>2 DEF NoNewWait
<1>4. /\ RowsAreLinked' /\ HandoffIsOwed'
      /\ \A m \in Notice \cup {Idle} : NoticeHolds(m, runs) => NoticeHolds(m, runs')
  BY <1>1, <1>2, <1>3, EvolvingStep
<1>5. /\ runs' \in Seq(Run) /\ Len(runs') = Len(runs) /\ DOMAIN runs' = DOMAIN runs
      /\ Len(runs') <= MaxRuns
      /\ \A q \in DOMAIN runs : /\ runs'[q] = IF q = r THEN y ELSE runs[q]
                                /\ runs'[q].parent < q
  BY <1>0, <1>1, <1>2, ExceptRow DEF Evolves
<1>6. RunTypes'
  BY <1>0, <1>1, <1>5 DEF RunTypes
<1>7. NoticesHold'
  <2>1. \A q \in Notifier : NoticeHolds(notice[q], runs)
    BY DEF HandoffInv, NoticesHold
  <2> QED
    BY <1>0, <1>1, <1>4, <2>1 DEF NoticesHold
<1>8. ChildIsAwaited'
  <2> SUFFICES ASSUME NEW c \in DOMAIN runs, runs'[c].parent # 0, runs'[c].status = "running",
                      ~runs'[c].revived
               PROVE  CallOf(c, runs'[runs'[c].parent])
    BY <1>5 DEF ChildIsAwaited
  <2>1. runs[c].parent = runs'[c].parent /\ ~runs[c].revived
        /\ (c # r => runs[c].status = "running")
    BY <1>2, <1>5 DEF Evolves
  <2>2. runs[c].parent \in DOMAIN runs
    BY <1>0, <2>1, ParentIsARow
  <2>3. runs[c].status = "running"
    BY <1>2, <1>5, <2>1 DEF Evolves
  <2>4. CallOf(c, runs[runs[c].parent])
    BY <2>1, <2>3 DEF HandoffInv, ChildIsAwaited
  <2>5. CASE runs[c].parent = r
    BY <1>2, <1>5, <2>1, <2>5 DEF CallOf
  <2>6. CASE runs[c].parent # r
    BY <1>5, <2>1, <2>2, <2>4, <2>6
  <2> QED
    BY <2>5, <2>6
<1>9. OutcomeIsTheChilds'
  <2> SUFFICES ASSUME NEW q \in DOMAIN runs, runs'[q].child # 0,
                      runs'[q].call \in {"succeeded", "failed"}
               PROVE  IF runs'[q].call = "succeeded"
                      THEN runs'[runs'[q].child].status = "succeeded"
                      ELSE \/ runs'[runs'[q].child].status \in {"failed", "cancelled"}
                           \/ runs'[runs'[q].child].revived
    BY <1>5 DEF OutcomeIsTheChilds
  <2> DEFINE c == runs[q].child
  <2>1. q # r /\ runs'[q] = runs[q]
    BY <1>2, <1>5
  <2>2. IF runs[q].call = "succeeded" THEN runs[c].status = "succeeded"
        ELSE runs[c].status \in {"failed", "cancelled"} \/ runs[c].revived
    BY <2>1 DEF HandoffInv, OutcomeIsTheChilds
  <2>3. c \in DOMAIN runs
    BY <2>1 DEF HandoffInv, RowsAreLinked
  <2>4. runs'[c] = runs[c] \/ (c = r /\ runs'[c] = y)
    BY <1>5, <2>3
  <2> QED
    BY <1>2, <2>1, <2>2, <2>4 DEF Evolves
<1> QED
  BY <1>4, <1>6, <1>7, <1>8, <1>9 DEF HandoffInv

(* Only a notifier that settled, or found nothing left to settle, disarms.   *)
LEMMA ClearKeeps ==
    ASSUME HandoffInv, NEW p \in Notifier, ClearParentNotification(p)
    PROVE  HandoffInv'
<1> DEFINE n == notice[p]
           c == n.child
           y == [runs[c] EXCEPT !.armed = FALSE]
<1>0. /\ runs \in Seq(Run) /\ Len(runs) <= MaxRuns /\ calling \in [Worker -> 0..Len(runs)]
      /\ notice \in [Notifier -> Notice \cup {Idle}] /\ RunTypes
      /\ \A q \in DOMAIN runs : runs[q] \in Run
  BY DEF HandoffInv, RunTypes
<1>1. n.phase = "settled"
  BY DEF ClearParentNotification
<1>2. n \in Notice /\ n # Idle
  BY <1>0, <1>1 DEF Idle
<1>3. /\ c \in DOMAIN runs /\ runs[c].parent # 0
      /\ ~(runs[runs[c].parent].call = "waiting" /\ runs[runs[c].parent].child = c)
  BY <1>1, <1>2 DEF HandoffInv, NoticesHold, NoticeHolds, Early
<1>4. calling' = calling /\ notice' = [notice EXCEPT ![p] = Idle]
  BY DEF ClearParentNotification
<1>5. NoticeHolds(Idle, runs) /\ NoticeHolds(Idle, runs')
  BY DEF NoticeHolds
<1>6. /\ notice' \in [Notifier -> Notice \cup {Idle}]
      /\ \A q \in Notifier : notice'[q] = notice[q] \/ NoticeHolds(notice'[q], runs)
      /\ \A q \in Notifier : notice'[q] = notice[q] \/ notice'[q] = Idle
  BY <1>0, <1>4, <1>5
<1>7. CASE UNCHANGED runs
  BY <1>0, <1>4, <1>6, <1>7, SameRowsInv
<1>8. CASE runs' = [runs EXCEPT ![c] = y]
  <2>1. /\ y \in Run /\ y.parent = runs[c].parent /\ y.status = runs[c].status
        /\ y.call = runs[c].call /\ y.child = runs[c].child /\ y.revived = runs[c].revived
        /\ ~y.armed
    BY <1>0, <1>3 DEF Run
  <2> HIDE DEF y
  <2>2. /\ runs' \in Seq(Run) /\ Len(runs') = Len(runs) /\ DOMAIN runs' = DOMAIN runs
        /\ Len(runs') <= MaxRuns
        /\ \A q \in DOMAIN runs : /\ runs'[q] = IF q = c THEN y ELSE runs[q]
                                  /\ runs'[q].parent < q
    BY <1>0, <1>3, <1>8, <2>1, ExceptRow
  <2>3. \A q \in DOMAIN runs :
          /\ runs'[q].parent = runs[q].parent /\ runs'[q].status = runs[q].status
          /\ runs'[q].call = runs[q].call /\ runs'[q].child = runs[q].child
          /\ runs'[q].revived = runs[q].revived
          /\ runs'[q].armed => runs[q].armed
          /\ q # c => runs'[q].armed = runs[q].armed
    BY <2>1, <2>2
  <2>4. RunTypes'
    BY <1>0, <1>4, <1>6, <2>2 DEF RunTypes
  <2>5. RowsAreLinked'
    BY <2>2, <2>3 DEF HandoffInv, RowsAreLinked
  <2>6. HandoffIsOwed'
    <3> SUFFICES ASSUME NEW q \in DOMAIN runs, runs'[q].call = "waiting",
                        runs'[runs'[q].child].status \in Terminal
                 PROVE  runs'[runs'[q].child].armed
      BY <2>2 DEF HandoffIsOwed
    <3>1. runs[q].call = "waiting" /\ runs'[q].child = runs[q].child
      BY <2>3
    <3>2. runs[q].child \in DOMAIN runs /\ runs[runs[q].child].parent = q
      BY <3>1 DEF HandoffInv, RowsAreLinked
    <3>3. runs[q].child # c
      BY <1>3, <3>1, <3>2
    <3> QED
      BY <2>3, <3>1, <3>2, <3>3 DEF HandoffInv, HandoffIsOwed
  <2>7. ChildIsAwaited'
    <3>1. \A q \in DOMAIN runs : runs[q].parent # 0 => runs[q].parent \in DOMAIN runs
      BY <1>0, ParentIsARow
    <3> QED
      BY <2>2, <2>3, <3>1 DEF HandoffInv, ChildIsAwaited, CallOf
  <2>8. OutcomeIsTheChilds'
    <3>1. \A q \in DOMAIN runs : runs[q].child # 0 => runs[q].child \in DOMAIN runs
      BY DEF HandoffInv, RowsAreLinked
    <3> QED
      BY <2>2, <2>3, <3>1 DEF HandoffInv, OutcomeIsTheChilds
  <2>9. NoticesHold'
    <3>1. \A q \in DOMAIN runs : runs[q].parent # 0 => runs[q].parent \in DOMAIN runs
      BY <1>0, ParentIsARow
    <3>2. \A q \in Notifier : NoticeHolds(notice[q], runs) => NoticeHolds(notice[q], runs')
      BY <2>2, <2>3, <3>1 DEF NoticeHolds, StillHolds
    <3> QED
      BY <1>5, <1>6, <3>2 DEF HandoffInv, NoticesHold
  <2> QED
    BY <2>4, <2>5, <2>6, <2>7, <2>8, <2>9 DEF HandoffInv
<1> QED
  BY <1>7, <1>8 DEF ClearParentNotification

(* StartRun with its ParentCheckpoint: the call waits for a child that is    *)
(* new, so no notice, settled call or other wait is about it.                *)
LEMMA StartKeeps ==
    ASSUME HandoffInv, NEW w \in Worker, NEW calls \in BOOLEAN, StartChild(w, calls)
    PROVE  HandoffInv'
<1> DEFINE r == calling[w]
           new == NewRun(r, calls)
<1>0. /\ runs \in Seq(Run) /\ Len(runs) <= MaxRuns /\ calling \in [Worker -> 0..Len(runs)]
      /\ notice \in [Notifier -> Notice \cup {Idle}] /\ RunTypes
      /\ \A q \in DOMAIN runs : runs[q] \in Run /\ runs[q].parent < q
  BY DEF HandoffInv, RunTypes
<1>1. /\ r \in DOMAIN runs /\ Len(runs) \in Nat /\ Len(runs) < MaxRuns /\ MaxRuns \in Nat
      /\ DOMAIN runs = 1..Len(runs) /\ r # 0
  BY <1>0, SubworkflowBounds DEF StartChild
<1>2. notice' = notice /\ calling' = [calling EXCEPT ![w] = 0]
  BY DEF StartChild
<1>3. CASE runs[r].call # "running"
  <2>1. UNCHANGED runs
    BY <1>3 DEF StartChild
  <2>2. calling' \in [Worker -> 0..Len(runs)]
    BY <1>0, <1>1, <1>2
  <2> QED
    BY <1>0, <1>2, <2>1, <2>2, SameRowsInv
<1>4. CASE runs[r].call = "running"
  <2>1. PICK k \in 1..MaxRuns : k = Len(runs) + 1 /\ r < k /\ k \notin DOMAIN runs
    BY <1>0, <1>1
  <2> DEFINE y == [[runs[r] EXCEPT !.call = "waiting"] EXCEPT !.child = k]
  <2>2. /\ y \in Run /\ y.call = "waiting" /\ y.child = k /\ y.parent = runs[r].parent
        /\ y.status = runs[r].status /\ y.armed = runs[r].armed /\ y.revived = runs[r].revived
    <3>1. runs[r] \in Run /\ k \in 0..MaxRuns
      BY <1>0, <1>1
    <3> QED
      BY <3>1 DEF Run
  <2>3. /\ new \in Run /\ new.parent = r /\ new.status = "running" /\ new.child = 0
        /\ ~new.armed /\ ~new.revived /\ new.call \in {"queued", "absent"}
    BY <1>1, <2>1 DEF NewRun, Run
  <2>4. runs' = Append([runs EXCEPT ![r] = y], new)
    BY <1>0, <1>1, <1>4, <2>1 DEF StartChild
  <2> HIDE DEF y, new
  <2>5. /\ runs' \in Seq(Run) /\ Len(runs') = k /\ DOMAIN runs' = (DOMAIN runs) \cup {k}
        /\ \A q \in DOMAIN runs : runs'[q] = IF q = r THEN y ELSE runs[q]
        /\ runs'[k] = new
    <3>1. /\ [runs EXCEPT ![r] = y] \in Seq(Run) /\ Len([runs EXCEPT ![r] = y]) = Len(runs)
      BY <1>0, <1>1, <2>2
    <3> QED
      BY <1>0, <1>1, <2>1, <2>2, <2>3, <2>4, <3>1
  <2>6. \A q \in DOMAIN runs :
          /\ runs'[q].parent = runs[q].parent /\ runs'[q].status = runs[q].status
          /\ runs'[q].armed = runs[q].armed /\ runs'[q].revived = runs[q].revived
          /\ q # r => runs'[q] = runs[q]
    BY <2>2, <2>5
  <2>7. runs'[r].call = "waiting" /\ runs'[r].child = k
    BY <1>1, <2>2, <2>5
  <2>8. \A q \in DOMAIN runs : runs[q].child # 0 => /\ runs[q].child \in DOMAIN runs
                                                    /\ runs[runs[q].child].parent = q
    BY DEF HandoffInv, RowsAreLinked
  <2>9. \A q \in DOMAIN runs : runs[q].parent # 0 => runs[q].parent \in DOMAIN runs
    BY <1>0, ParentIsARow
  <2>10. RunTypes'
    <3>1. calling' \in [Worker -> 0..Len(runs')]
      BY <1>0, <1>1, <1>2, <2>1, <2>5
    <3>2. \A q \in DOMAIN runs' : runs'[q].parent < q
      BY <1>0, <2>1, <2>3, <2>5, <2>6
    <3>3. Len(runs') <= MaxRuns
      BY <1>1, <2>1, <2>5
    <3> QED
      BY <1>0, <1>2, <2>5, <3>1, <3>2, <3>3 DEF RunTypes
  <2>11. RowsAreLinked'
    <3>1. ASSUME NEW q \in DOMAIN runs, q # r
          PROVE  /\ runs'[q].child # 0 => /\ runs'[q].child \in DOMAIN runs'
                                          /\ runs'[runs'[q].child].parent = q
                 /\ runs'[q].call = "waiting" => runs'[q].child # 0
                 /\ runs'[q].armed => runs'[q].parent # 0
      BY <2>5, <2>6, <2>8, <3>1 DEF HandoffInv, RowsAreLinked
    <3>2. /\ runs'[r].child \in DOMAIN runs' /\ runs'[runs'[r].child].parent = r
          /\ runs'[r].child # 0 /\ (runs'[r].armed => runs'[r].parent # 0)
      BY <1>1, <2>1, <2>3, <2>5, <2>6, <2>7 DEF HandoffInv, RowsAreLinked
    <3>3. /\ runs'[k].child = 0 /\ runs'[k].call # "waiting" /\ ~runs'[k].armed
      BY <2>3, <2>5
    <3> QED
      BY <2>5, <3>1, <3>2, <3>3 DEF RowsAreLinked
  <2>12. HandoffIsOwed'
    <3> SUFFICES ASSUME NEW q \in DOMAIN runs', runs'[q].call = "waiting",
                        runs'[runs'[q].child].status \in Terminal
                 PROVE  runs'[runs'[q].child].armed
      BY DEF HandoffIsOwed
    <3>1. q # k /\ q # r
      BY <2>3, <2>5, <2>7 DEF Terminal
    <3>2. q \in DOMAIN runs /\ runs'[q] = runs[q]
      BY <2>5, <2>6, <3>1
    <3>3. runs[q].child \in DOMAIN runs
      BY <2>8, <3>2 DEF HandoffInv, RowsAreLinked
    <3> QED
      BY <2>6, <3>2, <3>3 DEF HandoffInv, HandoffIsOwed
  <2>13. ChildIsAwaited'
    <3> SUFFICES ASSUME NEW c \in DOMAIN runs', runs'[c].parent # 0,
                        runs'[c].status = "running", ~runs'[c].revived
                 PROVE  CallOf(c, runs'[runs'[c].parent])
      BY DEF ChildIsAwaited
    <3>1. CASE c = k
      BY <2>3, <2>5, <2>7, <3>1 DEF CallOf
    <3>2. CASE c # k
      <4>1. /\ c \in DOMAIN runs /\ runs[c].parent = runs'[c].parent
            /\ runs[c].status = "running" /\ ~runs[c].revived
        BY <2>5, <2>6, <3>2
      <4>2. CallOf(c, runs[runs[c].parent])
        BY <4>1 DEF HandoffInv, ChildIsAwaited
      <4>3. runs[c].parent # r /\ runs[c].parent \in DOMAIN runs
        BY <1>4, <2>9, <4>1, <4>2 DEF CallOf
      <4> QED
        BY <2>6, <4>1, <4>2, <4>3
    <3> QED
      BY <3>1, <3>2
  <2>14. OutcomeIsTheChilds'
    <3> SUFFICES ASSUME NEW q \in DOMAIN runs', runs'[q].child # 0,
                        runs'[q].call \in {"succeeded", "failed"}
                 PROVE  IF runs'[q].call = "succeeded"
                        THEN runs'[runs'[q].child].status = "succeeded"
                        ELSE \/ runs'[runs'[q].child].status \in {"failed", "cancelled"}
                             \/ runs'[runs'[q].child].revived
      BY DEF OutcomeIsTheChilds
    <3>1. q # k /\ q # r
      BY <2>3, <2>5, <2>7
    <3>2. q \in DOMAIN runs /\ runs'[q] = runs[q] /\ runs[q].child \in DOMAIN runs
      BY <2>5, <2>6, <2>8, <3>1
    <3> QED
      BY <2>6, <3>2 DEF HandoffInv, OutcomeIsTheChilds
  <2>15. NoticesHold'
    <3> SUFFICES ASSUME NEW p \in Notifier PROVE NoticeHolds(notice[p], runs')
      BY <1>2 DEF NoticesHold
    <3>1. NoticeHolds(notice[p], runs)
      BY DEF HandoffInv, NoticesHold
    <3> DEFINE n == notice[p]
    <3> SUFFICES ASSUME n # Idle
                 PROVE  /\ n.child \in DOMAIN runs' /\ runs'[n.child].parent # 0
                        /\ StillHolds(n.status, runs'[n.child])
                        /\ n.phase \notin Early =>
                             ~(/\ runs'[runs'[n.child].parent].call = "waiting"
                               /\ runs'[runs'[n.child].parent].child = n.child)
      BY DEF NoticeHolds
    <3>2. /\ n.child \in DOMAIN runs /\ runs[n.child].parent # 0
          /\ StillHolds(n.status, runs[n.child])
          /\ n.phase \notin Early => ~(/\ runs[runs[n.child].parent].call = "waiting"
                                   /\ runs[runs[n.child].parent].child = n.child)
      BY <3>1 DEF NoticeHolds
    <3>3. n.child # k /\ runs[n.child].parent \in DOMAIN runs
      BY <2>1, <2>9, <3>2
    <3> QED
      BY <2>5, <2>6, <2>7, <3>2, <3>3 DEF StillHolds
  <2> QED
    BY <2>10, <2>11, <2>12, <2>13, <2>14, <2>15 DEF HandoffInv
<1> QED
  BY <1>3, <1>4

-----------------------------------------------------------------------------
(* The invariant holds initially and every step keeps it. *)
LEMMA HandoffStep ==
    ASSUME HandoffInv, [Next]_vars
    PROVE  HandoffInv'
<1>1. CASE UNCHANGED vars
  <2>1. /\ calling \in [Worker -> 0..Len(runs)] /\ notice \in [Notifier -> Notice \cup {Idle}]
        /\ UNCHANGED <<runs, calling, notice>>
    BY <1>1 DEF vars, HandoffInv, RunTypes
  <2> QED
    BY <2>1, SameRowsInv
<1>2. CASE Next
  BY <1>2, ExecutionKeeps, CallFailsKeeps, ReadKeeps, PhaseKeeps, TailKeeps, SettleKeeps,
     ClearKeeps, StartKeeps, ResumeKeeps DEF Next, HandsOff
<1> QED
  BY <1>1, <1>2

LEMMA HandoffInvariant == Spec => []HandoffInv
<1>1. Init => HandoffInv
  <2> SUFFICES ASSUME Init PROVE HandoffInv
    OBVIOUS
  <2> DEFINE new == NewRun(0, TRUE)
  <2>1. 0 \in 0..MaxRuns /\ 1 <= MaxRuns
    BY SubworkflowBounds
  <2>2. /\ new \in Run /\ new.parent = 0 /\ new.status = "running" /\ new.child = 0
        /\ ~new.armed /\ new.call = "queued"
    BY <2>1 DEF NewRun, Run
  <2>3. runs = <<new>>
    BY DEF Init
  <2> HIDE DEF new
  <2>4. runs \in Seq(Run) /\ Len(runs) = 1 /\ DOMAIN runs = {1} /\ runs[1] = new
    BY <2>2, <2>3
  <2>5. RunTypes
    <3>1. calling \in [Worker -> 0..Len(runs)] /\ notice \in [Notifier -> Notice \cup {Idle}]
      BY <2>4 DEF Init
    <3> QED
      BY <2>1, <2>2, <2>4, <3>1 DEF RunTypes
  <2>6. \A p \in Notifier : NoticeHolds(notice[p], runs)
    BY DEF Init, NoticeHolds
  <2>7. RowsAreLinked /\ HandoffIsOwed /\ ChildIsAwaited /\ OutcomeIsTheChilds
    BY <2>2, <2>4 DEF RowsAreLinked, HandoffIsOwed, ChildIsAwaited, OutcomeIsTheChilds
  <2> QED
    BY <2>5, <2>6, <2>7 DEF HandoffInv, NoticesHold
<1>2. HandoffInv /\ [Next]_vars => HandoffInv'
  BY HandoffStep
<1> QED
  BY <1>1, <1>2, PTL DEF Spec

(* A parent that waits for a child which has ended is still owed its         *)
(* notification, whatever notifiers died, raced or were late, and whatever   *)
(* was redriven ("Terminal handoff is durable").                             *)
THEOREM HandoffIsDurable == Spec => []HandoffIsOwed
<1>1. HandoffInv => HandoffIsOwed
  BY DEF HandoffInv
<1> QED
  BY <1>1, HandoffInvariant, PTL

(* No child runs for nobody: start and checkpoint commit together, and a     *)
(* call leaves its wait only for the end of that child, with its run's       *)
(* cancellation, or when an operator answers it, which leaves the call       *)
(* succeeded without a child for good (ResumeRunAs).                         *)
THEOREM RunningChildIsAwaited == Spec => []ChildIsAwaited
<1>1. HandoffInv => ChildIsAwaited
  BY DEF HandoffInv
<1> QED
  BY <1>1, HandoffInvariant, PTL

(* A call that a handoff settled ended the way its own child did: the        *)
(* compare-and-set on childRunId keeps late notices of an earlier child out. *)
THEOREM CallEndsAsItsChild == Spec => []OutcomeIsTheChilds
<1>1. HandoffInv => OutcomeIsTheChilds
  BY DEF HandoffInv
<1> QED
  BY <1>1, HandoffInvariant, PTL

-----------------------------------------------------------------------------
(***************************************************************************)
(* The nesting limit (computeSubworkflowDepth against subworkflow.maxDepth *)
(* in executeSubworkflow).  A depth is computed from the parent links when *)
(* a worker starts a child, long after the run itself was started, so what *)
(* bounds the tree is that no step moves a link.                           *)
(*                                                                         *)
(* Levels(f, rs): f counts the runs from each row up to its root, as the   *)
(* recursion in Depth does.  DepthInv says that such a count exists, which *)
(* Depth as a choice does not say by itself, and where it stays.           *)
(***************************************************************************)
Levels(f, rs) == f = [i \in 0..Len(rs) |-> IF i = 0 THEN 0 ELSE 1 + f[rs[i].parent]]

DepthInv ==
    \E f \in [0..Len(runs) -> Nat] :
        Levels(f, runs) /\ \A r \in DOMAIN runs : f[r] \in 1..(MaxDepth + 1)

(* Every set of row numbers has a first one. *)
LEMMA FirstRow ==
    ASSUME NEW S \in SUBSET Nat, S # {}
    PROVE  \E m \in S : \A k \in S : m <= k
<1> DEFINE R == {ss \in Nat \X Nat : ss[1] < ss[2]}
<1>1. IsWellFoundedOn(R, Nat)
  BY NatLessThanWellFounded DEF OpToRel
<1> HIDE DEF R
<1>2. \E m \in S : \A k \in S : ~(<<k, m>> \in R)
  BY <1>1, WFMin
<1>3. \A m, k \in Nat : ~(<<k, m>> \in R) => m <= k
  BY DEF R
<1> QED
  BY <1>2, <1>3

(* A parent is an older row, so the count is unique. *)
LEMMA LevelsAreUnique ==
    ASSUME RunTypes, NEW f, NEW g, Levels(f, runs), Levels(g, runs)
    PROVE  g = f
<1> DEFINE S == {i \in 0..Len(runs) : g[i] # f[i]}
<1>1. /\ Len(runs) \in Nat /\ DOMAIN runs = 1..Len(runs)
      /\ \A r \in DOMAIN runs : runs[r].parent \in Nat /\ runs[r].parent < r
  <2>1. /\ runs \in Seq(Run) /\ \A r \in DOMAIN runs : runs[r].parent < r
    BY DEF RunTypes
  <2>2. \A r \in DOMAIN runs : runs[r] \in Run
    BY <2>1
  <2>3. \A r \in DOMAIN runs : runs[r].parent \in 0..MaxRuns
    BY <2>2 DEF Run
  <2> QED
    BY <2>1, <2>3, SubworkflowBounds
<1>2. /\ \A i \in 0..Len(runs) : f[i] = IF i = 0 THEN 0 ELSE 1 + f[runs[i].parent]
      /\ \A i \in 0..Len(runs) : g[i] = IF i = 0 THEN 0 ELSE 1 + g[runs[i].parent]
  BY DEF Levels
<1>3. S = {}
  <2> SUFFICES ASSUME S # {} PROVE FALSE
    OBVIOUS
  <2>1. S \in SUBSET Nat
    BY <1>1
  <2>2. PICK m \in S : \A k \in S : m <= k
    BY <2>1, FirstRow
  <2>3. m \in 0..Len(runs) /\ g[m] # f[m] /\ m # 0
    BY <1>1, <1>2
  <2>4. runs[m].parent \in 0..Len(runs) /\ runs[m].parent < m /\ m \in Nat
    BY <1>1, <2>3
  <2>5. runs[m].parent \notin S
    BY <1>1, <2>2, <2>4
  <2> QED
    BY <1>2, <2>3, <2>4, <2>5
<1>4. /\ f = [i \in 0..Len(runs) |-> f[i]] /\ g = [i \in 0..Len(runs) |-> g[i]]
  <2>1. f = [i \in 0..Len(runs) |-> IF i = 0 THEN 0 ELSE 1 + f[runs[i].parent]]
    BY DEF Levels
  <2>2. g = [i \in 0..Len(runs) |-> IF i = 0 THEN 0 ELSE 1 + g[runs[i].parent]]
    BY DEF Levels
  <2> QED
    BY <2>1, <2>2, Zenon
<1> QED
  BY <1>3, <1>4

(* Depth is one less than that count: it is the number of links. *)
LEMMA DepthIsLevel ==
    ASSUME RunTypes, NEW r, NEW f, Levels(f, runs)
    PROVE  Depth(r) = f[r] - 1
<1> DEFINE up == CHOOSE g : g = [i \in 0..Len(runs) |-> IF i = 0 THEN 0 ELSE 1 + g[runs[i].parent]]
<1>1. Depth(r) = up[r] - 1
  BY DEF Depth
<1>2. Levels(up, runs)
  BY DEF Levels
<1>3. up = f
  <2> HIDE DEF up
  <2> QED
    BY <1>2, LevelsAreUnique
<1> QED
  BY <1>1, <1>3

LinksKept ==
    Len(runs') = Len(runs) /\ \A q \in DOMAIN runs : runs'[q].parent = runs[q].parent

LEMMA RowKeepsLinks ==
    ASSUME RunTypes, NEW r \in DOMAIN runs, NEW y, y.parent = runs[r].parent,
           runs' = [runs EXCEPT ![r] = y]
    PROVE  LinksKept
<1>1. runs \in Seq(Run)
  BY DEF RunTypes
<1>2. Len(runs') = Len(runs)
  BY <1>1
<1>3. \A q \in DOMAIN runs : runs'[q] = IF q = r THEN y ELSE runs[q]
  BY <1>1
<1> QED
  BY <1>2, <1>3 DEF LinksKept

(* A step that executes, reaps, cancels, resumes or redrives moves no link. *)
LEMMA ExecutionKeepsLinks ==
    ASSUME HandoffInv, NEW r \in DOMAIN runs,
           \/ SideEnds(r) \/ ReapCall(r) \/ CancelRun(r) \/ ResumeCall(r)
           \/ \E w \in Worker : ClaimCall(w, r)
           \/ \E step \in {"call", "side"} : Redrive(r, step)
    PROVE  LinksKept
<1> DEFINE x == runs[r]
           z(s) == [x EXCEPT !.side = s]
<1>0. RunTypes /\ x \in Run
  BY DEF HandoffInv, RunTypes
<1>1. ASSUME NEW y, Evolves(x, y), runs' = [runs EXCEPT ![r] = y]
      PROVE  LinksKept
  <2>1. y.parent = runs[r].parent
    BY <1>1 DEF Evolves
  <2> QED
    BY <1>0, <1>1, <2>1, RowKeepsLinks
<1>2. CASE SideEnds(r)
  <2>1. \A s \in {"succeeded", "failed"} : z(s) \in Run /\ z(s).parent = x.parent
    BY <1>0 DEF Run, Terminal
  <2>2. \/ runs' = [runs EXCEPT ![r] = Scheduled(z("succeeded"))]
        \/ runs' = [runs EXCEPT ![r] = Flipped(z("failed"), "failed")]
    BY <1>2 DEF SideEnds
  <2> HIDE DEF z
  <2>3. /\ Scheduled(z("succeeded")).parent = runs[r].parent
        /\ Flipped(z("failed"), "failed").parent = runs[r].parent
    <3>1. /\ Evolves(z("succeeded"), Scheduled(z("succeeded")))
          /\ Evolves(z("failed"), Flipped(z("failed"), "failed"))
      BY <2>1, ScheduledRow, FlippedRow
    <3> QED
      BY <2>1, <3>1 DEF Evolves
  <2> QED
    BY <1>0, <2>2, <2>3, RowKeepsLinks
<1>3. CASE ReapCall(r)
  <2>1. x.call = "running" /\ runs' = [runs EXCEPT ![r] = CallFailed(x)]
    BY <1>3 DEF ReapCall
  <2> QED
    BY <1>0, <1>1, <2>1, CallFailedRow
<1>4. CASE CancelRun(r)
  <2>1. x.status = "running" /\ runs' = [runs EXCEPT ![r] = Cancelled(x)]
    BY <1>4 DEF CancelRun
  <2> QED
    BY <1>0, <1>1, <2>1, CancelledRow
<1>5. ASSUME NEW w \in Worker, ClaimCall(w, r)
      PROVE  LinksKept
  <2> DEFINE y == [x EXCEPT !.call = "running"]
  <2>1. runs' = [runs EXCEPT ![r] = y] /\ y.parent = runs[r].parent
    BY <1>0, <1>5 DEF ClaimCall, Run
  <2> HIDE DEF y
  <2> QED
    BY <1>0, <2>1, RowKeepsLinks
<1>6. ASSUME NEW step \in {"call", "side"}, Redrive(r, step)
      PROVE  LinksKept
  <2>1. x[step] = "failed" /\ runs' = [runs EXCEPT ![r] = Redriven(x, step)]
    BY <1>6 DEF Redrive
  <2> QED
    BY <1>0, <1>1, <2>1, RedrivenRow
<1>7. CASE ResumeCall(r)
  <2>1. runs' = [runs EXCEPT ![r] = Answered(x)]
    BY <1>7 DEF ResumeCall
  <2> QED
    BY <1>0, <1>1, <2>1, AnsweredRow
<1> QED
  BY <1>2, <1>3, <1>4, <1>5, <1>6, <1>7

(* Nor does a call that fails, or any step of a notifier. *)
LEMMA HandoffKeepsLinks ==
    ASSUME HandoffInv,
           \/ \E w \in Worker : CallFails(w)
           \/ \E p \in Notifier, c \in DOMAIN runs : ReadTerminalChild(p, c)
           \/ \E p \in Notifier : HandsOff(p)
    PROVE  LinksKept
<1>0. /\ RunTypes /\ runs \in Seq(Run) /\ calling \in [Worker -> 0..Len(runs)]
      /\ notice \in [Notifier -> Notice \cup {Idle}]
      /\ \A q \in DOMAIN runs : runs[q] \in Run
  BY DEF HandoffInv, RunTypes
<1>1. ASSUME NEW r \in DOMAIN runs, NEW y, Evolves(runs[r], y), runs' = [runs EXCEPT ![r] = y]
      PROVE  LinksKept
  <2>1. y.parent = runs[r].parent
    BY <1>1 DEF Evolves
  <2> QED
    BY <1>0, <1>1, <2>1, RowKeepsLinks
<1>2. UNCHANGED runs => LinksKept
  BY DEF LinksKept
<1>3. ASSUME NEW w \in Worker, CallFails(w)
      PROVE  LinksKept
  <2> DEFINE r == calling[w]
  <2>1. r \in DOMAIN runs
    BY <1>0, <1>3 DEF CallFails
  <2>2. \/ UNCHANGED runs
        \/ runs[r].call = "running" /\ runs' = [runs EXCEPT ![r] = CallFailed(runs[r])]
    BY <1>3 DEF CallFails
  <2> HIDE DEF r
  <2> QED
    BY <1>0, <1>1, <1>2, <2>1, <2>2, CallFailedRow
<1>4. ASSUME NEW p \in Notifier,
             SettleParent(p) \/ RerunTail(p) \/ ClearParentNotification(p)
      PROVE  LinksKept
  <2> DEFINE n == notice[p]
             c == n.child
             r == runs[c].parent
  <2>1. n \in Notice /\ n # Idle
    <3>1. n.phase \in {"read", "tail", "settled"}
      BY <1>4 DEF SettleParent, RerunTail, ClearParentNotification
    <3> QED
      BY <1>0, <3>1 DEF Idle
  <2>2. c \in DOMAIN runs /\ r # 0
    BY <2>1 DEF HandoffInv, NoticesHold, NoticeHolds
  <2>3. r \in DOMAIN runs
    BY <1>0, <2>2, ParentIsARow
  <2>4. CASE SettleParent(p)
    <3>1. \/ UNCHANGED runs
          \/ runs[r].call = "waiting" /\ runs' = [runs EXCEPT ![r] = SettledCall(runs[r], n)]
      BY <2>4 DEF SettleParent, Awaits
    <3> HIDE DEF r, n
    <3> QED
      BY <1>0, <1>1, <1>2, <2>1, <2>3, <3>1, SettledRow
  <2>5. CASE RerunTail(p)
    <3>1. \/ runs' = [runs EXCEPT ![r] = Scheduled(runs[r])]
          \/ runs' = [runs EXCEPT ![r] = Flipped(runs[r], "failed")]
      BY <2>5 DEF RerunTail
    <3> HIDE DEF r, n
    <3> QED
      BY <1>0, <1>1, <2>3, <3>1, ScheduledRow, FlippedRow
  <2>6. CASE ClearParentNotification(p)
    <3> DEFINE y == [runs[c] EXCEPT !.armed = FALSE]
    <3>1. UNCHANGED runs \/ runs' = [runs EXCEPT ![c] = y]
      BY <2>6 DEF ClearParentNotification
    <3>2. y.parent = runs[c].parent
      BY <1>0, <2>2 DEF Run
    <3> HIDE DEF y, c
    <3> QED
      BY <1>0, <1>2, <2>2, <3>1, <3>2, RowKeepsLinks
  <2> QED
    BY <1>4, <2>4, <2>5, <2>6
<1>5. ASSUME NEW p \in Notifier, NEW c \in DOMAIN runs, ReadTerminalChild(p, c)
      PROVE  LinksKept
  BY <1>2, <1>5 DEF ReadTerminalChild
<1>6. ASSUME NEW p \in Notifier, ReadParent(p) \/ RecheckNode(p) \/ RecheckRun(p)
      PROVE  LinksKept
  BY <1>2, <1>6 DEF ReadParent, RecheckNode, RecheckRun
<1> QED
  BY <1>3, <1>4, <1>5, <1>6 DEF HandsOff

(* Only StartChild adds a row, below the run it has just measured. *)
LEMMA StartAddsLink ==
    ASSUME HandoffInv, NEW w \in Worker, NEW calls \in BOOLEAN, StartChild(w, calls)
    PROVE  \/ LinksKept
           \/ \E r \in DOMAIN runs :
                /\ DepthAllowed(r)
                /\ Len(runs') = Len(runs) + 1
                /\ \A q \in DOMAIN runs : runs'[q].parent = runs[q].parent
                /\ runs'[Len(runs) + 1].parent = r
<1> DEFINE r == calling[w]
           new == NewRun(r, calls)
<1>0. /\ runs \in Seq(Run) /\ calling \in [Worker -> 0..Len(runs)]
      /\ \A q \in DOMAIN runs : runs[q] \in Run
  BY DEF HandoffInv, RunTypes
<1>1. /\ r \in DOMAIN runs /\ DepthAllowed(r) /\ Len(runs) \in Nat /\ DOMAIN runs = 1..Len(runs)
      /\ Len(runs) < MaxRuns /\ MaxRuns \in Nat
  BY <1>0, SubworkflowBounds DEF StartChild
<1>2. CASE runs[r].call # "running"
  BY <1>2 DEF StartChild, LinksKept
<1>3. CASE runs[r].call = "running"
  <2>1. PICK k \in 1..MaxRuns : k = Len(runs) + 1 /\ r < k /\ k \notin DOMAIN runs
    BY <1>0, <1>1
  <2> DEFINE y == [[runs[r] EXCEPT !.call = "waiting"] EXCEPT !.child = k]
  <2>2. y \in Run /\ y.parent = runs[r].parent
    <3>1. runs[r] \in Run /\ k \in 0..MaxRuns
      BY <1>0, <1>1
    <3> QED
      BY <3>1 DEF Run
  <2>3. new \in Run /\ new.parent = r
    BY <1>1, <2>1 DEF NewRun, Run
  <2>4. runs' = Append([runs EXCEPT ![r] = y], new)
    BY <1>0, <1>1, <1>3, <2>1 DEF StartChild
  <2> HIDE DEF y, new, r
  <2>5. /\ Len(runs') = k /\ runs'[k] = new
        /\ \A q \in DOMAIN runs : runs'[q] = IF q = r THEN y ELSE runs[q]
    <3>1. [runs EXCEPT ![r] = y] \in Seq(Run) /\ Len([runs EXCEPT ![r] = y]) = Len(runs)
      BY <1>0, <1>1, <2>2
    <3> QED
      BY <1>0, <1>1, <2>1, <2>2, <2>3, <2>4, <3>1
  <2> QED
    BY <1>1, <2>1, <2>2, <2>3, <2>5
<1> QED
  BY <1>2, <1>3

(* So the count extends by one level under a run that was not at the limit. *)
LEMMA DepthStep ==
    ASSUME HandoffInv, DepthInv, [Next]_vars
    PROVE  DepthInv'
<1>0. /\ RunTypes /\ Len(runs) \in Nat /\ DOMAIN runs = 1..Len(runs)
      /\ \A q \in DOMAIN runs : runs[q].parent \in 0..Len(runs)
  <2>1. RunTypes /\ runs \in Seq(Run) /\ \A q \in DOMAIN runs : runs[q].parent < q
    BY DEF HandoffInv, RunTypes
  <2>2. \A q \in DOMAIN runs : runs[q].parent = 0 \/ runs[q].parent \in DOMAIN runs
    BY <2>1, ParentIsARow
  <2> QED
    BY <2>1, <2>2
<1>r. HandoffInv'
  BY HandoffStep
<1>1. runs' \in Seq(Run)
  BY <1>r DEF HandoffInv, RunTypes
<1>2. PICK f \in [0..Len(runs) -> Nat] :
        Levels(f, runs) /\ \A r \in DOMAIN runs : f[r] \in 1..(MaxDepth + 1)
  BY DEF DepthInv
<1>3. \A i \in 0..Len(runs) : f[i] = IF i = 0 THEN 0 ELSE 1 + f[runs[i].parent]
  BY <1>2 DEF Levels
<1>4. CASE LinksKept
  <2>1. Len(runs') = Len(runs) /\ \A q \in 1..Len(runs) : runs'[q].parent = runs[q].parent
    BY <1>0, <1>4 DEF LinksKept
  <2>2. f = [i \in 0..Len(runs') |-> IF i = 0 THEN 0 ELSE 1 + f[runs'[i].parent]]
    BY <1>0, <1>2, <1>3, <2>1
  <2>3. DOMAIN runs' = DOMAIN runs
    BY <1>0, <1>1, <2>1
  <2> QED
    BY <1>2, <2>1, <2>2, <2>3 DEF DepthInv, Levels
<1>5. ASSUME NEW r \in DOMAIN runs, DepthAllowed(r), Len(runs') = Len(runs) + 1,
             \A q \in DOMAIN runs : runs'[q].parent = runs[q].parent,
             runs'[Len(runs) + 1].parent = r
      PROVE  DepthInv'
  <2>1. PICK k \in Nat : k = Len(runs) + 1
    BY <1>0
  <2> DEFINE g == [i \in 0..k |-> IF i = k THEN 1 + f[r] ELSE f[i]]
  <2>2. Len(runs') = k /\ DOMAIN runs' = 1..k /\ runs'[k].parent = r
    BY <1>1, <1>5, <2>1
  <2>3. f[r] \in Nat /\ 1 + f[r] \in 1..(MaxDepth + 1)
    <3>1. Depth(r) = f[r] - 1 /\ f[r] \in 1..(MaxDepth + 1)
      BY <1>0, <1>2, DepthIsLevel
    <3>2. f[r] - 1 < MaxDepth
      BY <1>5, <3>1 DEF DepthAllowed
    <3> QED
      BY <3>1, <3>2, SubworkflowBounds
  <2>4. /\ g \in [0..k -> Nat] /\ g[k] = 1 + f[r]
        /\ \A i \in 0..Len(runs) : g[i] = f[i] /\ i # k
    BY <1>0, <2>1, <2>3
  <2>5. \A i \in 0..k : g[i] = IF i = 0 THEN 0 ELSE 1 + g[runs'[i].parent]
    <3> HIDE DEF g
    <3> SUFFICES ASSUME NEW i \in 0..k PROVE g[i] = IF i = 0 THEN 0 ELSE 1 + g[runs'[i].parent]
      OBVIOUS
    <3>1. CASE i = k
      <4>1. r \in 0..Len(runs) /\ k # 0
        BY <1>0, <2>1
      <4> QED
        BY <2>2, <2>4, <3>1, <4>1
    <3>2. CASE i = 0
      BY <1>0, <1>3, <2>4, <3>2
    <3>3. CASE i # k /\ i # 0
      <4>1. i \in DOMAIN runs /\ i \in 0..Len(runs)
        BY <1>0, <2>1, <3>3
      <4>2. runs'[i].parent = runs[i].parent /\ runs[i].parent \in 0..Len(runs)
        BY <1>0, <1>5, <4>1
      <4> QED
        BY <1>3, <2>4, <3>3, <4>1, <4>2
    <3> QED
      BY <3>1, <3>2, <3>3
  <2>6. g = [i \in 0..Len(runs') |-> IF i = 0 THEN 0 ELSE 1 + g[runs'[i].parent]]
    <3>1. g = [i \in 0..k |-> g[i]]
      BY <2>4
    <3> HIDE DEF g
    <3> QED
      BY <2>2, <2>5, <3>1
  <2>7. \A q \in DOMAIN runs' : g[q] \in 1..(MaxDepth + 1)
    <3> HIDE DEF g
    <3>1. \A q \in 1..k : q = k \/ q \in DOMAIN runs
      BY <1>0, <2>1
    <3>2. \A q \in DOMAIN runs : q \in 0..Len(runs)
      BY <1>0
    <3> QED
      BY <1>2, <2>2, <2>3, <2>4, <3>1, <3>2
  <2> HIDE DEF g
  <2> QED
    BY <2>2, <2>4, <2>6, <2>7 DEF DepthInv, Levels
<1>6. CASE UNCHANGED vars
  BY <1>4, <1>6 DEF vars, LinksKept
<1>7. CASE Next
  <2>1. CASE \E w \in Worker, calls \in BOOLEAN : StartChild(w, calls)
    BY <1>4, <1>5, <2>1, StartAddsLink
  <2>2. CASE ~ \E w \in Worker, calls \in BOOLEAN : StartChild(w, calls)
    BY <1>4, <1>7, <2>2, ExecutionKeepsLinks, HandoffKeepsLinks DEF Next
  <2> QED
    BY <2>1, <2>2
<1> QED
  BY <1>6, <1>7

NestingIsBounded ==
    \A r \in DOMAIN runs :
        /\ Depth(r) \in 0..MaxDepth
        /\ Depth(r) = IF runs[r].parent = 0 THEN 0 ELSE 1 + Depth(runs[r].parent)

LEMMA DepthInvariant == Spec => [](HandoffInv /\ DepthInv)
<1>1. Init => DepthInv
  <2> SUFFICES ASSUME Init PROVE DepthInv
    OBVIOUS
  <2> DEFINE f == [i \in 0..1 |-> i]
             new == NewRun(0, TRUE)
  <2>1. runs = <<new>> /\ new.parent = 0
    BY DEF Init, NewRun
  <2> HIDE DEF new
  <2>2. Len(runs) = 1 /\ DOMAIN runs = {1} /\ runs[1].parent = 0
    BY <2>1
  <2>3. f \in [0..1 -> Nat] /\ f[0] = 0 /\ f[1] = 1
    OBVIOUS
  <2>4. \A i \in 0..1 : i = 0 \/ i = 1
    OBVIOUS
  <2>5. \A i \in 0..1 : f[i] = IF i = 0 THEN 0 ELSE 1 + f[runs[i].parent]
    BY <2>2, <2>3, <2>4
  <2>6. f = [i \in 0..1 |-> IF i = 0 THEN 0 ELSE 1 + f[runs[i].parent]]
    BY <2>3, <2>5
  <2>7. 1 \in 1..(MaxDepth + 1)
    BY SubworkflowBounds
  <2> HIDE DEF f
  <2> QED
    BY <2>2, <2>3, <2>6, <2>7 DEF DepthInv, Levels
<1>2. HandoffInv /\ DepthInv /\ [Next]_vars => DepthInv'
  BY DepthStep
<1> QED
  BY <1>1, <1>2, HandoffInvariant, PTL DEF Spec

LEMMA DepthInvBounds ==
    ASSUME HandoffInv, DepthInv
    PROVE  NestingIsBounded
<1>1. /\ RunTypes /\ runs \in Seq(Run)
  BY DEF HandoffInv, RunTypes
<1>2. PICK f \in [0..Len(runs) -> Nat] :
        Levels(f, runs) /\ \A r \in DOMAIN runs : f[r] \in 1..(MaxDepth + 1)
  BY DEF DepthInv
<1>3. \A i \in 0..Len(runs) : f[i] = IF i = 0 THEN 0 ELSE 1 + f[runs[i].parent]
  BY <1>2 DEF Levels
<1>4. \A r : Depth(r) = f[r] - 1
  BY <1>1, <1>2, DepthIsLevel
<1> SUFFICES ASSUME NEW r \in DOMAIN runs
             PROVE  /\ Depth(r) \in 0..MaxDepth
                    /\ Depth(r) = IF runs[r].parent = 0 THEN 0 ELSE 1 + Depth(runs[r].parent)
  BY DEF NestingIsBounded
<1>5. f[r] \in 1..(MaxDepth + 1) /\ r \in 0..Len(runs) /\ r # 0 /\ 0 \in 0..Len(runs)
  BY <1>1, <1>2
<1>6. Depth(r) \in 0..MaxDepth
  BY <1>4, <1>5, SubworkflowBounds
<1>7. f[r] = 1 + f[runs[r].parent]
  BY <1>3, <1>5
<1>8. runs[r].parent \in 0..Len(runs)
  <2>1. runs[r].parent = 0 \/ runs[r].parent \in DOMAIN runs
    BY <1>1, ParentIsARow
  <2> QED
    BY <1>1, <1>5, <2>1
<1>9. f[runs[r].parent] \in Nat /\ f[0] = 0
  BY <1>2, <1>3, <1>5, <1>8
<1>10. Depth(r) = IF runs[r].parent = 0 THEN 0 ELSE 1 + Depth(runs[r].parent)
  <2>1. Depth(r) = f[runs[r].parent]
    BY <1>4, <1>7, <1>9
  <2>2. Depth(runs[r].parent) = f[runs[r].parent] - 1
    BY <1>4
  <2> QED
    BY <1>9, <2>1, <2>2
<1> QED
  BY <1>6, <1>10

(* However long after its own start a run calls, and whatever was reaped,    *)
(* cancelled or redriven meanwhile, no run is nested deeper than the limit,  *)
(* and the depth measured is the number of runs above it                     *)
(* (computeSubworkflowDepth, checked in executeSubworkflow).                 *)
THEOREM NestingStaysBounded == Spec => []NestingIsBounded
<1>1. HandoffInv /\ DepthInv => NestingIsBounded
  BY DepthInvBounds
<1> QED
  BY <1>1, DepthInvariant, PTL

(* The tree of runs is typed, its depth limit included: a parent is an older *)
(* row, and a worker or notifier only names rows that exist.                 *)
THEOREM SubworkflowIsTyped == Spec => []TypeOK
<1> DEFINE Counted == Len(runs) >= 1 /\ redrives \in 0..MaxRedrives
<1>1. Init => Counted
  BY SubworkflowBounds DEF Init
<1>2. HandoffInv /\ Counted /\ [Next]_vars => Counted'
  <2> SUFFICES ASSUME HandoffInv, Counted, [Next]_vars PROVE Counted'
    OBVIOUS
  <2>0. runs \in Seq(Run) /\ Len(runs) \in Nat
    BY DEF HandoffInv, RunTypes
  <2>1. Len(runs') >= 1
    <3>1. LinksKept => Len(runs') >= 1
      BY DEF LinksKept
    <3>2. CASE UNCHANGED vars
      BY <3>2 DEF vars
    <3>3. CASE \E w \in Worker, calls \in BOOLEAN : StartChild(w, calls)
      BY <2>0, <3>1, <3>3, StartAddsLink
    <3>4. CASE Next /\ ~ \E w \in Worker, calls \in BOOLEAN : StartChild(w, calls)
      BY <3>1, <3>4, ExecutionKeepsLinks, HandoffKeepsLinks DEF Next
    <3> QED
      BY <3>2, <3>3, <3>4
  <2>2. redrives' \in 0..MaxRedrives
    <3>1. redrives' = redrives \/ (redrives < MaxRedrives /\ redrives' = redrives + 1)
      BY DEF Next, vars, SideEnds, ReapCall, CancelRun, Redrive, ClaimCall, ReadTerminalChild,
             CallFails, StartChild, ResumeCall, HandsOff, ReadParent, SettleParent, RecheckNode,
             RecheckRun, RerunTail, ClearParentNotification
    <3> QED
      BY <3>1, SubworkflowBounds
  <2> QED
    BY <2>1, <2>2
<1>3. HandoffInv /\ NestingIsBounded /\ Counted => TypeOK
  <2> SUFFICES ASSUME HandoffInv, NestingIsBounded, Counted PROVE TypeOK
    OBVIOUS
  <2>1. Len(runs) \in 1..MaxRuns
    BY SubworkflowBounds DEF HandoffInv, RunTypes
  <2>2. \A r \in DOMAIN runs : Depth(r) <= MaxDepth
    BY SubworkflowBounds DEF NestingIsBounded
  <2> QED
    BY <2>1, <2>2 DEF HandoffInv, RunTypes, TypeOK
<1> QED
  BY <1>1, <1>2, <1>3, HandoffInvariant, NestingStaysBounded, PTL DEF Spec

=============================================================================
