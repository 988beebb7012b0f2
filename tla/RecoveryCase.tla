---------------------------- MODULE RecoveryCase ----------------------------
(***************************************************************************)
(* Governed recovery of a semantic outcome (engine/recoverydiagnosis.go,   *)
(* recoveryoperations.go, recoverygovernance.go, semanticresolution.go,    *)
(* semanticmonitoring.go).                                                 *)
(*                                                                         *)
(* A detector that a completed node violates opens a case.  People and     *)
(* agents diagnose it, record candidates, validate one, a person approves  *)
(* exactly that validation, and anybody may then apply it.  Every step is  *)
(* a compare-and-set on the revision of the case.  What a validation read  *)
(* of the run is not covered by that revision: other nodes complete, other *)
(* cases of the run are resolved and the run is cancelled in between.      *)
(*                                                                         *)
(* RunEngine models how nodes get to run and keeps one case for a node;    *)
(* here a node may have several cases, and the nodes are ones whose turn   *)
(* has come.  The rest of the run ends it in one step.                     *)
(***************************************************************************)
EXTENDS Naturals, Sequences, FiniteSets

CONSTANTS
    Node,           \* nodes with detectors
    Detector,       \* detectors of the run's contract; each opens one case
    Source,         \* the node of a detector
    Quarantining,   \* the detectors whose action is quarantine, not observe
    Permitting,     \* detectors whose autonomy level grants apply-with-approval
    Fits,           \* <<node, outputs>>: its replacement passes every detector of node
    Versioned,      \* the run is of a stored version of its workflow
    Human, Agent,
    Requester,      \* validation requests under way
    Reopening,      \* whether somebody sends an awaiting case back to its candidates
    MaxRevision,    \* for each detector, the last revision a validation starts from
    MaxGrants       \* bound on approvals

Output == {"none", "original", "replaced"}
Outputs == [Node -> Output]

ASSUME RecoveryConstants ==
    /\ Source \in [Detector -> Node]
    /\ Quarantining \subseteq Detector /\ Permitting \subseteq Detector
    /\ Fits \subseteq Node \X Outputs
    /\ Human \cap Agent = {} /\ Reopening \in BOOLEAN /\ Versioned \in BOOLEAN
    /\ MaxRevision \in [Detector -> Nat] /\ MaxGrants \in Nat

VARIABLES
    run,            \* runs.status
    outcome,        \* runs.outcome_status
    output,         \* run_nodes: what each node has produced
    case,           \* recovery_cases
    contained,      \* recovery_case_transitions: cases with a detected -> contained receipt
    candidates,     \* recovery_case_artifacts of kind candidate,
    validations,    \*   validation
    publications,   \*   and publication
    grants,         \* recovery_approval_grants, oldest first
    check           \* what each validation request has evaluated

vars == <<run, outcome, output, case, contained, candidates, validations, publications, grants,
          check>>
runVars == <<run, outcome, output>>
artifactVars == <<contained, candidates, validations, publications>>

TerminalRun == {"succeeded", "failed", "cancelled"}
Closed == {"verified_recovered", "recurred", "accepted_loss"}
Ladder == <<"detected", "contained", "diagnosed", "candidates_ready", "validating",
            "awaiting_approval", "publishing", "monitoring">>

CaseRow == [state : {"none"} \cup {Ladder[i] : i \in 1..Len(Ladder)} \cup Closed, revision : Nat]
NoCase == [state |-> "none", revision |-> 0]

Candidate == {"replace", "follow_up", "accept_loss"}
Validation == [candidate : Candidate, revision : Nat, passed : BOOLEAN]
Grant == [case : Detector, validation : Validation, revision : Nat, by : Human \cup Agent,
          state : {"live", "consumed", "revoked"}, expired : BOOLEAN]
Publication == [case : Detector, authority : Detector, validation : Validation,
                revision : Nat, outputs : Outputs]

NoCheck == [phase |-> "idle"]
Check == [phase : {"evaluated"}, case : Detector, validation : Validation]

Init ==
    /\ run = "running" /\ outcome = "none"
    /\ output = [n \in Node |-> "none"]
    /\ case = [d \in Detector |-> NoCase]
    /\ contained = {}
    /\ candidates = [d \in Detector |-> {}]
    /\ validations = [d \in Detector |-> {}]
    /\ publications = {}
    /\ grants = <<>>
    /\ check = [r \in Requester |-> NoCheck]

Open(d) == case[d].state \notin Closed \cup {"none"}
OpenCases(n) == {d \in Detector : Source[d] = n /\ Open(d)}

(* RevokeRecoveryApprovalGrants, for every case of S.                        *)
Revoked(gs, S) ==
    [i \in DOMAIN gs |-> IF gs[i].case \in S /\ gs[i].state = "live"
                         THEN [gs[i] EXCEPT !.state = "revoked"] ELSE gs[i]]

(* A case moves along k transitions to state s, each with its receipt.       *)
Moved(row, s, k) == [state |-> s, revision |-> row.revision + k]

-----------------------------------------------------------------------------
(* The run. *)

(* persistSemanticViolations opens a case for each violated detector.  The   *)
(* run is parked while any quarantine is unfinished: CountRunSemanticCases   *)
(* counts cases that are monitored too.                                      *)
Detected(n, V) ==
    [d \in Detector |-> IF d \in V /\ case[d] = NoCase
       THEN [state |-> IF d \in Quarantining THEN "contained" ELSE "detected", revision |-> 1]
       ELSE case[d]]
Parks(cs) == \E d \in Quarantining : cs[d].state \notin Closed \cup {"none"}

CompleteNode(n, V) ==
    LET cs == Detected(n, V) IN
    /\ output[n] = "none" /\ run # "succeeded"
    /\ \A d \in V : Source[d] = n
    /\ output' = [output EXCEPT ![n] = "original"]
    /\ case' = cs
    /\ IF V = {} THEN UNCHANGED <<run, outcome>>
       ELSE IF Parks(cs) THEN run' = "waiting" /\ outcome' = "semantic_quarantined"
       ELSE outcome' = "semantic_violation" /\ UNCHANGED run
    /\ contained' = contained \cup (V \cap Quarantining)
    /\ UNCHANGED <<candidates, validations, publications, grants, check>>

(* finalizeSemanticRecoveryMonitoring, in the transaction of the flip.       *)
VerdictUnread(status) == "verified_recovered"
Verdict(status) == IF status = "succeeded" THEN "verified_recovered" ELSE "recurred"
Monitored == {d \in Detector : case[d].state = "monitoring"}
Finalize(status) ==
    /\ run' = status
    /\ case' = [d \in Detector |-> IF d \in Monitored THEN Moved(case[d], Verdict(status), 1)
                                   ELSE case[d]]
    /\ outcome' = IF Monitored # {} /\ outcome = "semantic_recovering"
                  THEN IF status = "succeeded" THEN "semantic_recovered" ELSE "none"
                  ELSE outcome
    /\ UNCHANGED <<output, artifactVars, grants, check>>

(* The last node ends the run, or one of its nodes fails it.                 *)
EndRun(status) ==
    /\ run = "running"
    /\ status = "succeeded" => \A n \in Node : output[n] # "none"
    /\ Finalize(status)

CancelRun ==
    /\ run \in {"running", "waiting"}
    /\ Finalize("cancelled")

(* A redrive of the failed node revives the run.                             *)
RedriveRun ==
    /\ run = "failed" /\ run' = "running"
    /\ UNCHANGED <<outcome, output, case, artifactVars, grants, check>>

-----------------------------------------------------------------------------
(* AdvanceRecoveryCase: artifacts, transitions and receipts in one           *)
(* transaction, at the revision the caller read.                             *)
Advance(d, from, to, k) ==
    /\ case[d].state = from
    /\ case' = [case EXCEPT ![d] = Moved(case[d], to, k)]
    /\ grants' = Revoked(grants, {d})
    /\ UNCHANGED <<runVars, contained, publications>>

(* An observed case is never contained.                                      *)
DiagnoseRecoveryCase(d) ==
    /\ Advance(d, IF d \in Quarantining THEN "contained" ELSE "detected", "diagnosed", 1)
    /\ UNCHANGED <<candidates, validations, check>>

(* A loss can always be accepted; a follow-up needs a stored version of the  *)
(* workflow; only a quarantine can be replaced, when an output is proposed.  *)
CreateRecoveryCandidates(d, proposed) ==
    /\ proposed => d \in Quarantining
    /\ Advance(d, "diagnosed", "candidates_ready", 1)
    /\ candidates' = [candidates EXCEPT ![d] = {"accept_loss"}
                         \cup (IF Versioned THEN {"follow_up"} ELSE {})
                         \cup (IF proposed THEN {"replace"} ELSE {})]
    /\ UNCHANGED <<validations, check>>

(* ValidateSemanticRecoveryCandidate reads case, candidate and run.          *)
Passes(d, c) ==
    \/ c = "accept_loss"
    \/ c = "replace" /\ d \in Permitting /\ <<Source[d], output>> \in Fits

ValidateSemanticRecoveryCandidate(r, d, c) ==
    /\ check[r] = NoCheck
    /\ c \in candidates[d] /\ case[d].revision <= MaxRevision[d]
    /\ check' = [check EXCEPT ![r] =
         [phase |-> "evaluated", case |-> d,
          validation |-> [candidate |-> c, revision |-> case[d].revision, passed |-> Passes(d, c)]]]
    /\ UNCHANGED <<runVars, case, artifactVars, grants>>

(* ValidateRecoveryCaseCandidate: candidates_ready, validating, and on or    *)
(* back; nothing is written when the case has moved since.                   *)
ValidateRecoveryCaseCandidate(r) ==
    LET d == check[r].case
        v == check[r].validation IN
    /\ check[r] # NoCheck
    /\ v.revision = case[d].revision
    /\ Advance(d, "candidates_ready",
               IF v.passed THEN "awaiting_approval" ELSE "candidates_ready", 2)
    /\ validations' = [validations EXCEPT ![d] = @ \cup {v}]
    /\ check' = [check EXCEPT ![r] = NoCheck]
    /\ UNCHANGED candidates

(* The request lost its compare-and-set, or its connection.                  *)
ValidationLost(r) ==
    /\ check[r] # NoCheck
    /\ check' = [check EXCEPT ![r] = NoCheck]
    /\ UNCHANGED <<runVars, case, artifactVars, grants>>

(* The transition is legal and AdvanceRecoveryCase takes it; no route of the *)
(* API asks for it.                                                          *)
ReconsiderCandidates(d) ==
    /\ Reopening
    /\ Advance(d, "awaiting_approval", "candidates_ready", 1)
    /\ UNCHANGED <<candidates, validations, check>>

-----------------------------------------------------------------------------
(* Approval. *)

(* currentRecoveryValidation: the validation that led to this revision.      *)
CurrentValidation(v, revision) == revision > 2 /\ v.revision = revision - 2
Approvable(d, v) ==
    /\ case[d].state = "awaiting_approval"
    /\ v \in validations[d] /\ v.passed /\ v.candidate \in candidates[d]
    /\ CurrentValidation(v, case[d].revision)

(* A service token cannot approve.  A new grant supersedes a live one.       *)
MayApprove(a) == a \in Human
ApproveRecoveryCandidate(d, v, a) ==
    /\ MayApprove(a) /\ Approvable(d, v) /\ Len(grants) < MaxGrants
    /\ grants' = Append(Revoked(grants, {d}),
         [case |-> d, validation |-> v, revision |-> case[d].revision, by |-> a,
          state |-> "live", expired |-> FALSE])
    /\ UNCHANGED <<runVars, case, artifactVars, check>>

(* Thirty minutes pass.                                                      *)
GrantExpires(i) ==
    /\ grants[i].state = "live" /\ ~grants[i].expired
    /\ grants' = [grants EXCEPT ![i].expired = TRUE]
    /\ UNCHANGED <<runVars, case, artifactVars, check>>

(* FindActiveRecoveryApprovalGrant, and what is left once it is consumed.    *)
Authorizes(g, d, v) ==
    /\ g.case = d /\ g.validation = v /\ g.revision = case[d].revision
    /\ g.state = "live" /\ ~g.expired
Consumed(gs, i) == [gs EXCEPT ![i].state = "consumed"]

-----------------------------------------------------------------------------
(* ResolveSemanticOutcomeCase. *)

(* lockSemanticResolutionTarget: the run must still wait for a quarantine.   *)
Resolvable(d, v) ==
    /\ Approvable(d, v) /\ v.candidate \in {"replace", "accept_loss"}
    /\ \/ d \in Quarantining /\ run = "waiting"
       \/ d \notin Quarantining /\ v.candidate = "accept_loss"

(* evaluateSemanticReplacement: every open detector of the node permits it,  *)
(* and the output passes against the run as it is now.                       *)
EvaluatesPolicy(n) == OpenCases(n) \subseteq Permitting
Evaluates(n) ==
    /\ OpenCases(n) \subseteq Permitting
    /\ <<n, output>> \in Fits
(* semanticRecoveryReplacementPaths                                          *)
Replaceable(d) == case[d].state # "monitoring"
StepsToMonitoring(s) == Len(Ladder) - (CHOOSE i \in 1..Len(Ladder) : Ladder[i] = s)

(* A replacement closes every open case of its node, a loss only its own.    *)
CasesToResolve(d, decision) == IF decision = "replace" THEN OpenCases(Source[d]) ELSE {d}
Resolved(d, decision) ==
    [c \in Detector |->
       IF c \notin CasesToResolve(d, decision) THEN case[c]
       ELSE IF decision = "replace"
            THEN Moved(case[c], "monitoring", StepsToMonitoring(case[c].state))
            ELSE Moved(case[c], "accepted_loss", 1)]

(* CountBlockingSemanticRecoveryCases and what the run becomes.              *)
Blocking(cs) == {c \in Detector : cs[c].state \notin Closed \cup {"none", "publishing", "monitoring"}}
ResumesReplaced(cs, decision) == run = "waiting" /\ decision = "replace"
                                 /\ Blocking(cs) \cap Quarantining = {}
Resumes(cs, decision) == run = "waiting" /\ Blocking(cs) \cap Quarantining = {}
Posture(cs, decision) ==
    IF Blocking(cs) \cap Quarantining # {} THEN "semantic_quarantined"
    ELSE IF Blocking(cs) # {} THEN "semantic_violation"
    ELSE IF decision = "replace" THEN "semantic_recovering" ELSE "semantic_accepted_loss"

(* applySemanticResolution                                                   *)
ResolveSemanticOutcomeCase(d, v, i) ==
    LET decision == v.candidate
        cs == Resolved(d, decision) IN
    /\ Resolvable(d, v) /\ Authorizes(grants[i], d, v)
    /\ decision = "replace" =>
         /\ Evaluates(Source[d])
         /\ \A c \in OpenCases(Source[d]) : Replaceable(c)
    /\ output' = IF decision = "replace" THEN [output EXCEPT ![Source[d]] = "replaced"] ELSE output
    /\ publications' = publications \cup
         {[case |-> c, authority |-> d, validation |-> v, revision |-> case[d].revision,
           outputs |-> output] : c \in CasesToResolve(d, decision)}
    /\ grants' = Revoked(Consumed(grants, i), CasesToResolve(d, decision))
    /\ case' = cs
    /\ contained' = contained \cup {c \in CasesToResolve(d, decision) :
                        decision = "replace" /\ case[c].state = "detected"}
    /\ run' = IF Resumes(cs, decision) THEN "running" ELSE run
    /\ outcome' = Posture(cs, decision)
    /\ UNCHANGED <<candidates, validations, check>>

Next ==
    \/ \E n \in Node : \E V \in SUBSET Detector : CompleteNode(n, V)
    \/ \E status \in {"succeeded", "failed"} : EndRun(status)
    \/ CancelRun \/ RedriveRun
    \/ \E d \in Detector : \/ DiagnoseRecoveryCase(d)
                           \/ \E proposed \in BOOLEAN : CreateRecoveryCandidates(d, proposed)
                           \/ ReconsiderCandidates(d)
    \/ \E r \in Requester : \/ \E d \in Detector, c \in Candidate :
                                 ValidateSemanticRecoveryCandidate(r, d, c)
                            \/ ValidateRecoveryCaseCandidate(r)
                            \/ ValidationLost(r)
    \/ \E d \in Detector : \E v \in validations[d] :
         \/ \E a \in Human \cup Agent : ApproveRecoveryCandidate(d, v, a)
         \/ \E i \in DOMAIN grants : ResolveSemanticOutcomeCase(d, v, i)
    \/ \E i \in DOMAIN grants : GrantExpires(i)

Spec == Init /\ [][Next]_vars

-----------------------------------------------------------------------------
TypeOK ==
    /\ run \in {"running", "waiting"} \cup TerminalRun
    /\ outcome \in {"none", "semantic_quarantined", "semantic_violation", "semantic_recovering",
                    "semantic_accepted_loss", "semantic_recovered"}
    /\ output \in Outputs
    /\ case \in [Detector -> CaseRow]
    /\ contained \subseteq Detector
    /\ candidates \in [Detector -> SUBSET Candidate]
    /\ validations \in [Detector -> SUBSET Validation]
    /\ publications \subseteq Publication
    /\ grants \in Seq(Grant)
    /\ check \in [Requester -> {NoCheck} \cup Check]

(* Whatever closed or replaced a case rests on one approval: a grant that a  *)
(* person gave, consumed once, for a validation of that very candidate that  *)
(* passed two revisions earlier.  A replacement passed every detector of its *)
(* node against the outputs of the run at the moment it was published, which *)
(* may differ from the ones its validation read; a loss closes no case but   *)
(* the one it was approved for; and no grant is spent without effect         *)
(* (lockSemanticResolutionTarget, evaluateSemanticReplacement,               *)
(* casesToResolve).                                                          *)
Authority(p) ==
    {i \in DOMAIN grants : grants[i].state = "consumed" /\ grants[i].case = p.authority
                           /\ grants[i].validation = p.validation /\ grants[i].revision = p.revision}
PublicationIsAuthorized ==
    /\ \A d \in Detector : case[d].state \in Closed \cup {"monitoring"}
          => \E p \in publications : p.case = d
    /\ \A p \in publications :
          /\ Cardinality(Authority(p)) = 1 /\ \A i \in Authority(p) : grants[i].by \in Human
          /\ p.validation \in validations[p.authority] /\ p.validation.passed
          /\ p.validation.revision + 2 = p.revision
          /\ \A q \in publications : q.case = p.case => q = p
          /\ IF p.validation.candidate = "replace"
             THEN <<Source[p.case], p.outputs>> \in Fits
             ELSE p.case = p.authority
    /\ \A i \in DOMAIN grants : grants[i].state = "consumed"
          => \E p \in publications : i \in Authority(p)

(* A grant that could still be consumed is bound to the present revision of  *)
(* a case that awaits approval, and it is the only one of its case           *)
(* (RevokeRecoveryApprovalGrants in every transaction that moves a case).    *)
LiveGrantIsCurrent ==
    \A i \in DOMAIN grants : grants[i].state = "live" =>
        /\ case[grants[i].case].state = "awaiting_approval"
        /\ case[grants[i].case].revision = grants[i].revision
        /\ \A j \in DOMAIN grants :
              grants[j].state = "live" /\ grants[j].case = grants[i].case => i = j

(* A run is shown, and a case is closed, as recovered only when the run      *)
(* succeeded after the replacement; a run shown as recovering has one under  *)
(* way and nothing left to decide; and an undecided quarantine is shown      *)
(* (finalizeSemanticRecoveryMonitoring, UpdateRunSemanticResolution,         *)
(* SetRunSemanticOutcome).                                                   *)
PostureIsEarned ==
    /\ \A d \in Detector : case[d].state = "verified_recovered"
          => run = "succeeded" /\ output[Source[d]] = "replaced"
    /\ Monitored # {} => run \notin TerminalRun
    /\ outcome = "semantic_recovered" =>
          /\ run = "succeeded" /\ Blocking(case) = {}
          /\ \E d \in Detector : case[d].state = "verified_recovered"
    /\ outcome = "semantic_recovering" => Monitored # {} /\ Blocking(case) = {}
    /\ Blocking(case) \cap Quarantining # {} => outcome = "semantic_quarantined"

(* A run is parked only while some case of it is undecided: resolving the    *)
(* last one resumes the run, however many detectors and nodes parked it      *)
(* (persistSemanticViolations, applySemanticResolution).  That somebody can  *)
(* decide that case is another matter (AwaitingCaseCanBeApplied).            *)
ParkedRunHasACase == run = "waiting" => Blocking(case) # {}

(* "Observe-only findings move directly from detected to diagnosed; they     *)
(* never claim that downstream work was contained"                           *)
(* (docs/architecture/recovery.md:105).  A replacement that closes an        *)
(* observed case beside its own takes it through contained.                  *)
ObservationIsNotContained == contained \subseteq Quarantining

(* A quarantine that awaits approval can be applied once it is approved, at  *)
(* least when no further node of the run is to complete.  "Operator          *)
(* requested fresh validation" (engine/semantic_integration_test.go:355) is  *)
(* a transition of the engine that no route asks for.                        *)
AwaitingCaseCanBeApplied ==
    \A d \in Quarantining :
        /\ case[d].state = "awaiting_approval" /\ run = "waiting"
        /\ \A n \in Node : output[n] # "none"
        => \E v \in validations[d] :
              /\ Approvable(d, v)
              /\ v.candidate = "replace" => <<Source[d], output>> \in Fits
=============================================================================
