---------------------------- MODULE MCRunEngine ----------------------------
(* Small workflows for the engine model. *)
EXTENDS RunEngine, TLC

CONSTANTS a, b, c, d

E(f, t)    == [from |-> f, to |-> t, onError |-> FALSE, cond |-> FALSE]
Cond(f, t) == [from |-> f, to |-> t, onError |-> FALSE, cond |-> TRUE]
Err(f, t)  == [from |-> f, to |-> t, onError |-> TRUE, cond |-> FALSE]

NoCandidates == [n \in Node |-> {}]
Tasks == [n \in Node |-> "task"]
Once  == [n \in Node |-> 1]
AFirstTwice == [n \in Node |-> IF n = a THEN 2 ELSE 1]

(* Two roots; a handles its failure through c, and d joins a and b under a  *)
(* condition on each edge.                                                  *)
BranchNodes == {a, b, c, d}
BranchEdges == {Err(a, c), Cond(a, d), Cond(b, d)}

(* A task a that leads to an approval b, or fails into a timer c, which      *)
(* retries, and then an approval d.                                          *)
WaitNodes == {a, b, c, d}
WaitEdges == {Err(a, c), Cond(a, b), E(c, d)}
WaitKindsOf == [n \in Node |-> CASE n \in {b, d} -> "approval" [] n = c -> "timer"
                                 [] OTHER -> "task"]
CTwice == [n \in Node |-> IF n = c THEN 2 ELSE 1]

(* A router a ranks b and c; d joins the branches.                           *)
RouterKinds      == [n \in Node |-> IF n = a THEN "router" ELSE "task"]
RouterCandidates == [n \in Node |-> IF n = a THEN {b, c} ELSE {}]
RouterEdges      == {E(a, b), E(a, c), E(b, d), E(c, d)}

(* Two independent roots a and b; c follows a.                               *)
PairNodes == {a, b, c}
PairEdges == {E(a, c)}

(* b handles the failure of a, and retries; c and d stand alone.             *)
HandlerNodes == {a, b, c, d}
HandlerEdges == {Err(a, b)}
BTwice == [n \in Node |-> IF n = b THEN 2 ELSE 1]

WorkerSymmetry == Permutations(Worker)
=============================================================================
