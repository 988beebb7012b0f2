-------------------------- MODULE MCDownstreamScan --------------------------
(* All three-node acyclic workflows with at most one edge per kind between *)
(* two nodes, over the statuses a run can be in when a scan starts.        *)
EXTENDS DownstreamScan, Naturals

E(f, t, err, c) == [from |-> f, to |-> t, onError |-> err, cond |-> c]

\* Between two nodes: nothing, a plain, a conditional, an on-error edge, or
\* a plain or conditional edge doubled by an on-error one.
Between(f, t) ==
    { {}, {E(f, t, FALSE, FALSE)}, {E(f, t, FALSE, TRUE)}, {E(f, t, TRUE, FALSE)},
      {E(f, t, FALSE, FALSE), E(f, t, TRUE, FALSE)} }

MCNode == 1..3
MCWorkflows ==
    {a \cup b \cup c : a \in Between(1, 2), b \in Between(1, 3), c \in Between(2, 3)}

MCInitStatuses ==
    {s \in [MCNode -> {"pending", "running", "succeeded", "failed", "skipped"}] :
        \E n \in MCNode : s[n] = "pending"}

=============================================================================
