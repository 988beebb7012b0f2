---------------------------- MODULE RunContract ----------------------------
(***************************************************************************)
(* What a run promises to everyone who reads its status (docs/architecture *)
(* run-model.md, run-cancellation.md, engine-persistence.md), with nothing *)
(* said about queues, workers, clocks or transactions.                     *)
(*                                                                         *)
(*   - finished work is never undone;                                      *)
(*   - a run succeeds only when every node is finished or has failed;      *)
(*   - succeeded and cancelled are final; only an operator's redrive of a  *)
(*     failed node leaves failed;                                          *)
(*   - a run fails only together with a node.                              *)
(***************************************************************************)
CONSTANT Node

VARIABLES
    status,     \* the run's status
    done,       \* nodes that succeeded or were skipped
    failed      \* nodes that failed and were not redriven since

vars == <<status, done, failed>>

Init ==
    /\ status = "running"
    /\ done = {}
    /\ failed = {}

\* Nodes finish, or fail where the workflow handles it.  A node that was still
\* executing when its run ended may finish or fail too.
Progress ==
    /\ done \subseteq done'
    /\ failed \subseteq failed'
    /\ status' = status

Succeed ==
    /\ status = "running"
    /\ status' = "succeeded"
    /\ done \subseteq done'
    /\ failed \subseteq failed'
    /\ done' \cup failed' = Node

Fail ==
    /\ status = "running"
    /\ status' = "failed"
    /\ done \subseteq done'
    /\ failed \subseteq failed'
    /\ failed' # {}

Cancel ==
    /\ status = "running"
    /\ status' = "cancelled"
    /\ UNCHANGED <<done, failed>>

Redrive(n) ==
    /\ n \in failed
    /\ failed' = failed \ {n}
    /\ status' = IF status = "failed" THEN "running" ELSE status
    /\ done' = done

Next ==
    \/ Progress \/ Succeed \/ Fail \/ Cancel
    \/ \E n \in Node : Redrive(n)

Spec == Init /\ [][Next]_vars

=============================================================================
