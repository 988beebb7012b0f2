--------------------------- MODULE RecoveryProofs ---------------------------
(***************************************************************************)
(* Governed recovery: what closes a case is authorized by one approval,    *)
(* the posture of the run is earned, and a parked run can be resumed; for  *)
(* every set of nodes, detectors, policies, people, agents and requests,   *)
(* and every number of revisions and approvals.                            *)
(***************************************************************************)
EXTENDS RecoveryCase, TLAPS, FiniteSetTheorems

-----------------------------------------------------------------------------
(***************************************************************************)
(* The strengthening.  A live grant is bound to the present revision of a  *)
(* case that awaits approval (LiveGrantIsCurrent); every grant was given   *)
(* by a person for a validation that passed two revisions earlier; a       *)
(* consumed one belongs to a case that is done and is the only one of it;  *)
(* a case is done exactly when it was published, and no done case is       *)
(* reopened.  A node that has produced nothing has no cases, so that what  *)
(* a completion violates is new and undecided.                             *)
(***************************************************************************)
Done == Closed \cup {"monitoring"}

GrantsAreSound ==
    \A i \in DOMAIN grants :
        /\ grants[i].by \in Human
        /\ grants[i].validation \in validations[grants[i].case]
        /\ grants[i].validation.passed
        /\ grants[i].validation.revision + 2 = grants[i].revision

ConsumedIsDone ==
    \A i \in DOMAIN grants : grants[i].state = "consumed" =>
        /\ case[grants[i].case].state \in Done
        /\ \A j \in DOMAIN grants :
              grants[j].state = "consumed" /\ grants[j].case = grants[i].case => i = j
        /\ \E p \in publications : i \in Authority(p)

DoneIsPublished ==
    \A d \in Detector : case[d].state \in Done <=> \E p \in publications : p.case = d

PublicationsAreSound ==
    \A p \in publications :
        /\ Authority(p) # {}
        /\ \A q \in publications : q.case = p.case => q = p
        /\ IF p.validation.candidate = "replace"
           THEN <<Source[p.case], p.outputs>> \in Fits
           ELSE p.case = p.authority

CasesFollowOutputs ==
    \A d \in Detector :
        /\ output[Source[d]] = "none" => case[d] = NoCase
        /\ case[d].state = "monitoring" => output[Source[d]] = "replaced"

GrantInv ==
    /\ TypeOK
    /\ LiveGrantIsCurrent /\ GrantsAreSound /\ ConsumedIsDone
    /\ DoneIsPublished /\ PublicationsAreSound

PostureInv ==
    /\ TypeOK
    /\ CasesFollowOutputs /\ PostureIsEarned /\ ParkedRunHasACase

-----------------------------------------------------------------------------
(* Lemmas about the operators. *)

CaseState == {"none", "detected", "contained", "diagnosed", "candidates_ready", "validating",
              "awaiting_approval", "publishing", "monitoring",
              "verified_recovered", "recurred", "accepted_loss"}

LEMMA LadderStates ==
    /\ Len(Ladder) = 8
    /\ \A s : s \in {Ladder[i] : i \in 1..Len(Ladder)} <=>
              s \in CaseState \ (Closed \cup {"none"})
<1>1. /\ Len(Ladder) = 8 /\ Ladder[1] = "detected" /\ Ladder[2] = "contained"
      /\ Ladder[3] = "diagnosed" /\ Ladder[4] = "candidates_ready" /\ Ladder[5] = "validating"
      /\ Ladder[6] = "awaiting_approval" /\ Ladder[7] = "publishing" /\ Ladder[8] = "monitoring"
  BY DEF Ladder
<1>2. 1..8 = {1, 2, 3, 4, 5, 6, 7, 8}
  OBVIOUS
<1> QED
  BY <1>1, <1>2 DEF CaseState, Closed

LEMMA CaseRows ==
    CaseRow = [state : CaseState, revision : Nat]
<1>1. {"none"} \cup {Ladder[i] : i \in 1..Len(Ladder)} \cup Closed = CaseState
  BY LadderStates DEF CaseState, Closed
<1> QED
  BY <1>1 DEF CaseRow

(* An open case is some number of transitions away from monitoring. *)
LEMMA StepsAreNat ==
    ASSUME NEW s \in CaseState \ (Closed \cup {"none"})
    PROVE  StepsToMonitoring(s) \in Nat
<1>1. \E i \in 1..Len(Ladder) : Ladder[i] = s
  BY LadderStates
<1> DEFINE k == CHOOSE i \in 1..Len(Ladder) : Ladder[i] = s
<1>2. k \in 1..8
  BY <1>1, LadderStates
<1>3. StepsToMonitoring(s) = 8 - k
  BY LadderStates DEF StepsToMonitoring
<1> HIDE DEF k
<1> QED
  BY <1>2, <1>3

(* A case that moves. *)
LEMMA MovedRow ==
    ASSUME NEW row \in CaseRow, NEW s \in CaseState, NEW k \in Nat
    PROVE  /\ Moved(row, s, k) \in CaseRow
           /\ Moved(row, s, k).state = s
           /\ Moved(row, s, k).revision = row.revision + k
BY CaseRows DEF Moved

(* RevokeRecoveryApprovalGrants changes only the state of live grants. *)
LEMMA RevokedGrants ==
    ASSUME NEW gs \in Seq(Grant), NEW S
    PROVE  /\ Revoked(gs, S) \in Seq(Grant)
           /\ DOMAIN Revoked(gs, S) = DOMAIN gs /\ Len(Revoked(gs, S)) = Len(gs)
           /\ \A i \in DOMAIN gs :
                /\ Revoked(gs, S)[i].case = gs[i].case
                /\ Revoked(gs, S)[i].validation = gs[i].validation
                /\ Revoked(gs, S)[i].revision = gs[i].revision
                /\ Revoked(gs, S)[i].by = gs[i].by
                /\ Revoked(gs, S)[i].state =
                     IF gs[i].case \in S /\ gs[i].state = "live" THEN "revoked" ELSE gs[i].state
<1> DEFINE rev(g) == [g EXCEPT !.state = "revoked"]
           f == [i \in DOMAIN gs |-> IF gs[i].case \in S /\ gs[i].state = "live"
                                     THEN rev(gs[i]) ELSE gs[i]]
<1>1. ASSUME NEW g \in Grant
      PROVE  /\ rev(g) \in Grant /\ rev(g).case = g.case /\ rev(g).validation = g.validation
             /\ rev(g).revision = g.revision /\ rev(g).by = g.by /\ rev(g).state = "revoked"
  BY <1>1 DEF Grant
<1>2. DOMAIN gs = 1..Len(gs) /\ Len(gs) \in Nat /\ \A i \in DOMAIN gs : gs[i] \in Grant
  OBVIOUS
<1>3. Revoked(gs, S) = f
  BY DEF Revoked
<1> HIDE DEF rev
<1>4. f \in [1..Len(gs) -> Grant]
  BY <1>1, <1>2
<1>5. f \in Seq(Grant) /\ Len(f) = Len(gs) /\ DOMAIN f = DOMAIN gs
  BY <1>2, <1>4
<1> QED
  BY <1>1, <1>2, <1>3, <1>5

LEMMA ConsumedGrants ==
    ASSUME NEW gs \in Seq(Grant), NEW i \in DOMAIN gs
    PROVE  /\ Consumed(gs, i) \in Seq(Grant)
           /\ DOMAIN Consumed(gs, i) = DOMAIN gs
           /\ \A j \in DOMAIN gs :
                /\ Consumed(gs, i)[j].case = gs[j].case
                /\ Consumed(gs, i)[j].validation = gs[j].validation
                /\ Consumed(gs, i)[j].revision = gs[j].revision
                /\ Consumed(gs, i)[j].by = gs[j].by
                /\ Consumed(gs, i)[j].state = IF j = i THEN "consumed" ELSE gs[j].state
<1> DEFINE g == [gs[i] EXCEPT !.state = "consumed"]
<1>1. /\ g \in Grant /\ g.case = gs[i].case /\ g.validation = gs[i].validation
      /\ g.revision = gs[i].revision /\ g.by = gs[i].by /\ g.state = "consumed"
  <2>1. gs[i] \in Grant
    OBVIOUS
  <2> QED
    BY <2>1 DEF Grant
<1>2. Consumed(gs, i) = [gs EXCEPT ![i] = g]
  BY DEF Consumed
<1> HIDE DEF g
<1> QED
  BY <1>1, <1>2

-----------------------------------------------------------------------------
(* What the actions do to the cases and the grants. *)

BlockingState == CaseState \ (Closed \cup {"none", "publishing", "monitoring"})

(* AdvanceRecoveryCase moves one undecided case and revokes its grants. *)
LEMMA AdvanceEffect ==
    ASSUME TypeOK, NEW d \in Detector, NEW from \in BlockingState, NEW to \in BlockingState,
           NEW k \in Nat, Advance(d, from, to, k)
    PROVE  /\ case' \in [Detector -> CaseRow]
           /\ case[d].state = from /\ case'[d].state = to
           /\ case'[d].revision = case[d].revision + k
           /\ \A c \in Detector : c # d => case'[c] = case[c]
           /\ grants' = Revoked(grants, {d})
           /\ UNCHANGED <<run, outcome, output, contained, publications>>
<1>1. case \in [Detector -> CaseRow]
  BY DEF TypeOK
<1>2. to \in CaseState
  BY DEF BlockingState
<1>3. case' = [case EXCEPT ![d] = Moved(case[d], to, k)]
  BY DEF Advance
<1>4. /\ Moved(case[d], to, k) \in CaseRow /\ Moved(case[d], to, k).state = to
      /\ Moved(case[d], to, k).revision = case[d].revision + k
  BY <1>1, <1>2, MovedRow
<1> QED
  BY <1>1, <1>3, <1>4 DEF Advance, runVars

(* The four uses of it. *)
Advances(d) ==
    \E from, to \in BlockingState, k \in Nat : Advance(d, from, to, k)

LEMMA AdvanceActions ==
    ASSUME TypeOK, NEW d \in Detector
    PROVE  /\ DiagnoseRecoveryCase(d) => Advances(d) /\ UNCHANGED <<candidates, validations, check>>
           /\ \A proposed \in BOOLEAN : CreateRecoveryCandidates(d, proposed) =>
                /\ Advances(d) /\ candidates' \in [Detector -> SUBSET Candidate]
                /\ UNCHANGED <<validations, check>>
           /\ ReconsiderCandidates(d) => Advances(d) /\ UNCHANGED <<candidates, validations, check>>
<1>0. {"detected", "contained", "diagnosed", "candidates_ready", "awaiting_approval"}
        \subseteq BlockingState
  BY DEF BlockingState, CaseState, Closed
<1>1. ASSUME DiagnoseRecoveryCase(d)
      PROVE  Advances(d) /\ UNCHANGED <<candidates, validations, check>>
  BY <1>0, <1>1 DEF DiagnoseRecoveryCase, Advances
<1>2. ASSUME NEW proposed \in BOOLEAN, CreateRecoveryCandidates(d, proposed)
      PROVE  /\ Advances(d) /\ candidates' \in [Detector -> SUBSET Candidate]
             /\ UNCHANGED <<validations, check>>
  <2>1. Advance(d, "diagnosed", "candidates_ready", 1) /\ UNCHANGED <<validations, check>>
    BY <1>2 DEF CreateRecoveryCandidates
  <2>2. PICK C \in SUBSET Candidate : candidates' = [candidates EXCEPT ![d] = C]
    BY <1>2 DEF CreateRecoveryCandidates, Candidate
  <2>3. candidates' \in [Detector -> SUBSET Candidate]
    BY <2>2 DEF TypeOK
  <2> QED
    BY <1>0, <2>1, <2>3 DEF Advances
<1>3. ASSUME ReconsiderCandidates(d)
      PROVE  Advances(d) /\ UNCHANGED <<candidates, validations, check>>
  BY <1>0, <1>3 DEF ReconsiderCandidates, Advances
<1> QED
  BY <1>1, <1>2, <1>3

LEMMA ValidateEffect ==
    ASSUME TypeOK, NEW r \in Requester, ValidateRecoveryCaseCandidate(r)
    PROVE  /\ check[r] \in Check /\ check[r].case \in Detector
           /\ check[r].validation \in Validation
           /\ Advances(check[r].case)
           /\ validations' = [validations EXCEPT ![check[r].case] = @ \cup {check[r].validation}]
           /\ check' = [check EXCEPT ![r] = NoCheck]
           /\ UNCHANGED candidates
<1>0. {"candidates_ready", "awaiting_approval"} \subseteq BlockingState
  BY DEF BlockingState, CaseState, Closed
<1>1. check[r] \in Check
  BY DEF TypeOK, ValidateRecoveryCaseCandidate
<1>2. check[r].case \in Detector /\ check[r].validation \in Validation
  BY <1>1 DEF Check
<1>3. Advances(check[r].case)
  BY <1>0 DEF ValidateRecoveryCaseCandidate, Advances
<1> QED
  BY <1>1, <1>2, <1>3 DEF ValidateRecoveryCaseCandidate

(* persistSemanticViolations opens cases where there were none. *)
LEMMA CompleteEffect ==
    ASSUME TypeOK, NEW n \in Node, NEW V \in SUBSET Detector, CompleteNode(n, V)
    PROVE  /\ case' \in [Detector -> CaseRow]
           /\ \A d \in Detector :
                \/ case'[d] = case[d] /\ ~(d \in V /\ case[d] = NoCase)
                \/ /\ d \in V /\ case[d] = NoCase /\ case[d].state = "none"
                   /\ case'[d].state \in {"contained", "detected"}
<1>1. case' = Detected(n, V) /\ case \in [Detector -> CaseRow]
  BY DEF CompleteNode, TypeOK
<1>2. \A s \in {"contained", "detected"} :
        [state |-> s, revision |-> 1] \in CaseRow /\ [state |-> s, revision |-> 1].state = s
  BY CaseRows DEF CaseState
<1>3. NoCase.state = "none"
  BY DEF NoCase
<1> DEFINE fresh(d) == [state |-> IF d \in Quarantining THEN "contained" ELSE "detected",
                        revision |-> 1]
<1>4. \A d \in Detector : fresh(d) \in CaseRow /\ fresh(d).state \in {"contained", "detected"}
  BY <1>2
<1>5. \A d \in Detector : case'[d] = IF d \in V /\ case[d] = NoCase THEN fresh(d) ELSE case[d]
  BY <1>1 DEF Detected
<1> HIDE DEF fresh
<1>6. case' \in [Detector -> CaseRow]
  <2>1. case' = [d \in Detector |-> IF d \in V /\ case[d] = NoCase THEN fresh(d) ELSE case[d]]
    BY <1>1 DEF Detected, fresh
  <2> QED
    BY <1>1, <1>4, <2>1
<1> QED
  BY <1>3, <1>4, <1>5, <1>6

(* finalizeSemanticRecoveryMonitoring decides the monitored cases. *)
LEMMA FinalizeEffect ==
    ASSUME TypeOK, NEW status \in TerminalRun, Finalize(status)
    PROVE  /\ case' \in [Detector -> CaseRow]
           /\ \A d \in Detector :
                IF case[d].state = "monitoring"
                THEN case'[d].state = Verdict(status) ELSE case'[d] = case[d]
           /\ Verdict(status) \in Closed
<1>1. case \in [Detector -> CaseRow]
  BY DEF TypeOK
<1>2. Verdict(status) \in Closed /\ Verdict(status) \in CaseState
  BY DEF Verdict, Closed, CaseState
<1>3. \A d \in Detector : /\ Moved(case[d], Verdict(status), 1) \in CaseRow
                          /\ Moved(case[d], Verdict(status), 1).state = Verdict(status)
  BY <1>1, <1>2, MovedRow
<1>4. case' = [d \in Detector |-> IF d \in Monitored THEN Moved(case[d], Verdict(status), 1)
                                  ELSE case[d]]
  BY DEF Finalize
<1> QED
  BY <1>1, <1>2, <1>3, <1>4 DEF Monitored

(* applySemanticResolution: the case of the approval, and with a replacement *)
(* every open case of its node.                                              *)
LEMMA ResolveEffect ==
    ASSUME TypeOK, NEW d \in Detector, NEW v \in validations[d], NEW i \in DOMAIN grants,
           ResolveSemanticOutcomeCase(d, v, i)
    PROVE  /\ case' \in [Detector -> CaseRow]
           /\ case[d].state = "awaiting_approval"
           /\ v.candidate \in {"replace", "accept_loss"}
           /\ d \in CasesToResolve(d, v.candidate)
           /\ \A c \in Detector :
                IF c \in CasesToResolve(d, v.candidate)
                THEN /\ case[c].state \in CaseState \ (Done \cup {"none"})
                     /\ case'[c].state =
                          IF v.candidate = "replace" THEN "monitoring" ELSE "accepted_loss"
                ELSE case'[c] = case[c]
           /\ CasesToResolve(d, v.candidate) \subseteq Detector
<1> DEFINE S == CasesToResolve(d, v.candidate)
<1>0. case \in [Detector -> CaseRow] /\ \A c \in Detector : case[c].state \in CaseState
  BY CaseRows DEF TypeOK
<1>1. case[d].state = "awaiting_approval" /\ v.candidate \in {"replace", "accept_loss"}
  BY DEF ResolveSemanticOutcomeCase, Resolvable, Approvable
<1>2. S \subseteq Detector /\ d \in S
  BY <1>1 DEF CasesToResolve, OpenCases, Open, Closed
<1>3. case' = Resolved(d, v.candidate)
  BY DEF ResolveSemanticOutcomeCase
<1>4. \A c \in S : case[c].state \in CaseState \ (Done \cup {"none"})
  <2>1. CASE v.candidate = "replace"
    <3>1. S = OpenCases(Source[d]) /\ \A c \in S : case[c].state # "monitoring"
      BY <2>1 DEF CasesToResolve, ResolveSemanticOutcomeCase, Replaceable
    <3> QED
      BY <1>0, <3>1 DEF OpenCases, Open, Done
  <2>2. CASE v.candidate # "replace"
    BY <1>0, <1>1, <2>2 DEF CasesToResolve, Done, Closed
  <2> QED
    BY <2>1, <2>2
<1>5. CASE v.candidate = "replace"
  <2>1. ASSUME NEW c \in S
        PROVE  /\ Moved(case[c], "monitoring", StepsToMonitoring(case[c].state)) \in CaseRow
               /\ Moved(case[c], "monitoring", StepsToMonitoring(case[c].state)).state = "monitoring"
    <3>1. StepsToMonitoring(case[c].state) \in Nat
      BY <1>4, StepsAreNat DEF Done
    <3>2. case[c] \in CaseRow /\ "monitoring" \in CaseState
      BY <1>0, <1>2 DEF CaseState
    <3> QED
      BY <3>1, <3>2, MovedRow
  <2>2. case' = [c \in Detector |-> IF c \notin S THEN case[c]
                   ELSE Moved(case[c], "monitoring", StepsToMonitoring(case[c].state))]
    BY <1>3, <1>5 DEF Resolved
  <2> HIDE DEF S
  <2>3. case' \in [Detector -> CaseRow]
    BY <1>0, <2>1, <2>2
  <2> QED
    BY <1>1, <1>2, <1>4, <1>5, <2>1, <2>2, <2>3 DEF S
<1>6. CASE v.candidate # "replace"
  <2>1. ASSUME NEW c \in S
        PROVE  /\ Moved(case[c], "accepted_loss", 1) \in CaseRow
               /\ Moved(case[c], "accepted_loss", 1).state = "accepted_loss"
    <3>1. case[c] \in CaseRow /\ "accepted_loss" \in CaseState /\ 1 \in Nat
      BY <1>0, <1>2 DEF CaseState
    <3> QED
      BY <3>1, MovedRow
  <2>2. case' = [c \in Detector |-> IF c \notin S THEN case[c]
                                    ELSE Moved(case[c], "accepted_loss", 1)]
    BY <1>3, <1>6 DEF Resolved
  <2> HIDE DEF S
  <2>3. case' \in [Detector -> CaseRow]
    BY <1>0, <2>1, <2>2
  <2> QED
    BY <1>1, <1>2, <1>4, <1>6, <2>1, <2>2, <2>3 DEF S
<1> QED
  BY <1>5, <1>6

-----------------------------------------------------------------------------
(* The types. *)

LEMMA TypesInit == Init => TypeOK
<1> SUFFICES ASSUME Init PROVE TypeOK
  OBVIOUS
<1>1. NoCase \in CaseRow
  BY CaseRows DEF NoCase, CaseState
<1>2. case \in [Detector -> CaseRow] /\ grants \in Seq(Grant)
  BY <1>1 DEF Init
<1> QED
  BY <1>2 DEF Init, TypeOK, Outputs, Output

(* The actions of one person, agent or request keep the types. *)
LEMMA AdvanceTypes ==
    ASSUME TypeOK, NEW d \in Detector, Advances(d),
           candidates' \in [Detector -> SUBSET Candidate],
           validations' \in [Detector -> SUBSET Validation],
           check' \in [Requester -> {NoCheck} \cup Check]
    PROVE  TypeOK'
<1>1. PICK from \in BlockingState, to \in BlockingState, k \in Nat : Advance(d, from, to, k)
  BY DEF Advances
<1>2. /\ case' \in [Detector -> CaseRow] /\ grants' = Revoked(grants, {d})
      /\ UNCHANGED <<run, outcome, output, contained, publications>>
  BY <1>1, AdvanceEffect
<1>3. grants' \in Seq(Grant)
  BY <1>2, RevokedGrants DEF TypeOK
<1> QED
  BY <1>2, <1>3 DEF TypeOK, Outputs

LEMMA TypesStep ==
    ASSUME TypeOK, [Next]_vars
    PROVE  TypeOK'
<1> USE RecoveryConstants
<1>0. /\ run \in {"running", "waiting"} \cup TerminalRun
      /\ outcome \in {"none", "semantic_quarantined", "semantic_violation", "semantic_recovering",
                      "semantic_accepted_loss", "semantic_recovered"}
      /\ output \in Outputs /\ case \in [Detector -> CaseRow] /\ contained \subseteq Detector
      /\ candidates \in [Detector -> SUBSET Candidate]
      /\ validations \in [Detector -> SUBSET Validation]
      /\ publications \subseteq Publication /\ grants \in Seq(Grant)
      /\ check \in [Requester -> {NoCheck} \cup Check]
  BY DEF TypeOK
<1>1. CASE UNCHANGED vars
  BY <1>0, <1>1 DEF vars, TypeOK
<1>2. ASSUME NEW n \in Node, NEW V \in SUBSET Detector, CompleteNode(n, V)
      PROVE  TypeOK'
  <2>1. case' \in [Detector -> CaseRow]
    BY <1>2, CompleteEffect
  <2>2. /\ output' \in Outputs /\ contained' \subseteq Detector
        /\ UNCHANGED <<candidates, validations, publications, grants, check>>
    BY <1>0, <1>2 DEF CompleteNode, Outputs, Output
  <2>3. /\ run' = run \/ run' = "waiting"
        /\ outcome' \in {outcome, "semantic_quarantined", "semantic_violation"}
    BY <1>2 DEF CompleteNode
  <2> QED
    BY <1>0, <2>1, <2>2, <2>3 DEF TypeOK
<1>3. ASSUME NEW status \in TerminalRun, Finalize(status)
      PROVE  TypeOK'
  <2>1. case' \in [Detector -> CaseRow]
    BY <1>3, FinalizeEffect
  <2>2. /\ run' = status /\ outcome' \in {outcome, "semantic_recovered", "none"}
        /\ UNCHANGED <<output, contained, candidates, validations, publications, grants, check>>
    BY <1>3 DEF Finalize, artifactVars
  <2> QED
    BY <1>0, <2>1, <2>2 DEF TypeOK
<1>4. ASSUME RedriveRun
      PROVE  TypeOK'
  BY <1>0, <1>4 DEF RedriveRun, artifactVars, TypeOK
<1>5. ASSUME NEW d \in Detector, DiagnoseRecoveryCase(d) \/ ReconsiderCandidates(d)
      PROVE  TypeOK'
  <2>1. Advances(d) /\ UNCHANGED <<candidates, validations, check>>
    BY <1>5, AdvanceActions
  <2> QED
    BY <1>0, <2>1, AdvanceTypes
<1>6. ASSUME NEW d \in Detector, NEW proposed \in BOOLEAN, CreateRecoveryCandidates(d, proposed)
      PROVE  TypeOK'
  <2>1. /\ Advances(d) /\ candidates' \in [Detector -> SUBSET Candidate]
        /\ UNCHANGED <<validations, check>>
    BY <1>6, AdvanceActions
  <2> QED
    BY <1>0, <2>1, AdvanceTypes
<1>7. ASSUME NEW r \in Requester, NEW d \in Detector, NEW c \in Candidate,
             ValidateSemanticRecoveryCandidate(r, d, c)
      PROVE  TypeOK'
  <2> DEFINE v == [candidate |-> c, revision |-> case[d].revision, passed |-> Passes(d, c)]
             k == [phase |-> "evaluated", case |-> d, validation |-> v]
  <2>1. Passes(d, c) \in BOOLEAN
    BY DEF Passes
  <2>2. case[d].revision \in Nat
    BY <1>0 DEF CaseRow
  <2>3. v \in Validation
    BY <2>1, <2>2 DEF Validation
  <2> HIDE DEF v
  <2>4. k \in Check
    BY <2>3 DEF Check
  <2>5. check' = [check EXCEPT ![r] = k]
    BY <1>7 DEF ValidateSemanticRecoveryCandidate, v
  <2> HIDE DEF k
  <2>6. check' \in [Requester -> {NoCheck} \cup Check]
    BY <1>0, <2>4, <2>5
  <2>7. UNCHANGED <<run, outcome, output, case, contained, candidates, validations,
                    publications, grants>>
    BY <1>7 DEF ValidateSemanticRecoveryCandidate, runVars, artifactVars
  <2> QED
    BY <1>0, <2>6, <2>7 DEF TypeOK
<1>8. ASSUME NEW r \in Requester, ValidateRecoveryCaseCandidate(r)
      PROVE  TypeOK'
  <2>1. /\ check[r].case \in Detector /\ check[r].validation \in Validation
        /\ Advances(check[r].case)
        /\ validations' = [validations EXCEPT ![check[r].case] = @ \cup {check[r].validation}]
        /\ check' = [check EXCEPT ![r] = NoCheck]
        /\ UNCHANGED candidates
    BY <1>8, ValidateEffect
  <2>2. validations' \in [Detector -> SUBSET Validation]
    BY <1>0, <2>1
  <2>3. check' \in [Requester -> {NoCheck} \cup Check]
    BY <1>0, <2>1
  <2> QED
    BY <1>0, <2>1, <2>2, <2>3, AdvanceTypes
<1>9. ASSUME NEW r \in Requester, ValidationLost(r)
      PROVE  TypeOK'
  <2>1. /\ check' \in [Requester -> {NoCheck} \cup Check]
        /\ UNCHANGED <<run, outcome, output, case, contained, candidates, validations,
                       publications, grants>>
    BY <1>0, <1>9 DEF ValidationLost, runVars, artifactVars
  <2> QED
    BY <1>0, <2>1 DEF TypeOK
<1>10. ASSUME NEW d \in Detector, NEW v \in validations[d], NEW a \in Human \cup Agent,
              ApproveRecoveryCandidate(d, v, a)
       PROVE  TypeOK'
  <2> DEFINE g == [case |-> d, validation |-> v, revision |-> case[d].revision, by |-> a,
                   state |-> "live", expired |-> FALSE]
  <2>1. case[d].revision \in Nat /\ v \in Validation
    BY <1>0 DEF CaseRow
  <2>2. g \in Grant
    BY <2>1 DEF Grant
  <2>3. grants' = Append(Revoked(grants, {d}), g)
    BY <1>10 DEF ApproveRecoveryCandidate
  <2>4. grants' \in Seq(Grant)
    BY <1>0, <2>2, <2>3, RevokedGrants
  <2>5. UNCHANGED <<run, outcome, output, case, contained, candidates, validations,
                    publications, check>>
    BY <1>10 DEF ApproveRecoveryCandidate, runVars, artifactVars
  <2> QED
    BY <1>0, <2>4, <2>5 DEF TypeOK
<1>11. ASSUME NEW i \in DOMAIN grants, GrantExpires(i)
       PROVE  TypeOK'
  <2> DEFINE g == [grants[i] EXCEPT !.expired = TRUE]
  <2>1. grants[i] \in Grant
    BY <1>0
  <2>2. g \in Grant /\ grants' = [grants EXCEPT ![i] = g]
    BY <1>11, <2>1 DEF GrantExpires, Grant
  <2> HIDE DEF g
  <2>3. grants' \in Seq(Grant)
    BY <1>0, <2>2
  <2>4. UNCHANGED <<run, outcome, output, case, contained, candidates, validations,
                    publications, check>>
    BY <1>11 DEF GrantExpires, runVars, artifactVars
  <2> QED
    BY <1>0, <2>3, <2>4 DEF TypeOK
<1>12. ASSUME NEW d \in Detector, NEW v \in validations[d], NEW i \in DOMAIN grants,
              ResolveSemanticOutcomeCase(d, v, i)
       PROVE  TypeOK'
  <2> DEFINE S == CasesToResolve(d, v.candidate)
  <2>1. case' \in [Detector -> CaseRow] /\ S \subseteq Detector
    BY <1>12, ResolveEffect
  <2>2. output' \in Outputs
    BY <1>0, <1>12 DEF ResolveSemanticOutcomeCase, Outputs, Output
  <2>3. publications' \subseteq Publication
    <3>1. v \in Validation /\ case[d].revision \in Nat
      BY <1>0 DEF CaseRow
    <3>2. \A c \in S : [case |-> c, authority |-> d, validation |-> v,
                        revision |-> case[d].revision, outputs |-> output] \in Publication
      BY <1>0, <2>1, <3>1 DEF Publication
    <3>3. publications' = publications \cup
            {[case |-> c, authority |-> d, validation |-> v, revision |-> case[d].revision,
              outputs |-> output] : c \in S}
      BY <1>12 DEF ResolveSemanticOutcomeCase
    <3> HIDE DEF S
    <3> QED
      BY <1>0, <3>2, <3>3
  <2>4. grants' \in Seq(Grant)
    <3>1. grants' = Revoked(Consumed(grants, i), S)
      BY <1>12 DEF ResolveSemanticOutcomeCase
    <3> QED
      BY <1>0, <3>1, ConsumedGrants, RevokedGrants
  <2>5. contained' \subseteq Detector
    BY <1>0, <1>12, <2>1 DEF ResolveSemanticOutcomeCase
  <2>6. /\ run' = run \/ run' = "running"
        /\ outcome' \in {"semantic_quarantined", "semantic_violation", "semantic_recovering",
                         "semantic_accepted_loss"}
        /\ UNCHANGED <<candidates, validations, check>>
    BY <1>12 DEF ResolveSemanticOutcomeCase, Posture
  <2> QED
    BY <1>0, <2>1, <2>2, <2>3, <2>4, <2>5, <2>6 DEF TypeOK
<1>13. ASSUME (\E status \in {"succeeded", "failed"} : EndRun(status)) \/ CancelRun
       PROVE  \E status \in TerminalRun : Finalize(status)
  BY <1>13 DEF EndRun, CancelRun, TerminalRun
<1> QED
  BY <1>1, <1>2, <1>3, <1>4, <1>5, <1>6, <1>7, <1>8, <1>9, <1>10, <1>11, <1>12, <1>13 DEF Next

-----------------------------------------------------------------------------
(***************************************************************************)
(* Grants and publications.                                                *)
(***************************************************************************)

(* A grant is of a case. *)
LEMMA GrantRows ==
    ASSUME TypeOK
    PROVE  grants \in Seq(Grant) /\ \A i \in DOMAIN grants : /\ grants[i] \in Grant
                                                             /\ grants[i].case \in Detector
<1>1. grants \in Seq(Grant)
  BY DEF TypeOK
<1>2. \A i \in DOMAIN grants : grants[i] \in Grant
  BY <1>1
<1>3. \A g \in Grant : g.case \in Detector
  BY DEF Grant
<1> QED
  BY <1>1, <1>2, <1>3

(* What a step that grants and resolves nothing does: it may revoke grants,  *)
(* and it moves no case whose grant it leaves live, into or out of done.     *)
SameGrant(i) ==
    /\ grants'[i].case = grants[i].case /\ grants'[i].validation = grants[i].validation
    /\ grants'[i].revision = grants[i].revision /\ grants'[i].by = grants[i].by

GrantQuiet ==
    /\ UNCHANGED publications
    /\ \A d \in Detector : validations[d] \subseteq validations'[d]
    /\ DOMAIN grants' = DOMAIN grants
    /\ \A i \in DOMAIN grants :
         /\ SameGrant(i)
         /\ grants[i].state = "consumed" <=> grants'[i].state = "consumed"
         /\ grants'[i].state = "live" => /\ grants[i].state = "live"
                                         /\ case'[grants[i].case].state = case[grants[i].case].state
                                         /\ case'[grants[i].case].revision = case[grants[i].case].revision
    /\ \A d \in Detector : case[d].state \in Done <=> case'[d].state \in Done

LEMMA QuietStep ==
    ASSUME GrantInv, TypeOK', GrantQuiet
    PROVE  GrantInv'
<1>0. \A i \in DOMAIN grants : grants[i] \in Grant /\ grants[i].case \in Detector
  BY GrantRows DEF GrantInv
<1>1. LiveGrantIsCurrent'
  BY <1>0 DEF GrantInv, LiveGrantIsCurrent, GrantQuiet, SameGrant
<1>2. GrantsAreSound'
  BY <1>0 DEF GrantInv, GrantsAreSound, GrantQuiet, SameGrant
<1>3. \A p \in publications : Authority(p)' = Authority(p)
  BY DEF Authority, GrantQuiet, SameGrant
<1>4. ConsumedIsDone'
  <2> SUFFICES ASSUME NEW i \in DOMAIN grants, grants'[i].state = "consumed"
               PROVE  /\ case'[grants'[i].case].state \in Done
                      /\ \A j \in DOMAIN grants :
                           grants'[j].state = "consumed" /\ grants'[j].case = grants'[i].case => i = j
                      /\ \E p \in publications : i \in Authority(p)'
    BY DEF ConsumedIsDone, GrantQuiet
  <2>1. grants[i].state = "consumed" /\ grants'[i].case = grants[i].case
    BY DEF GrantQuiet, SameGrant
  <2>2. case'[grants'[i].case].state \in Done
    BY <1>0, <2>1 DEF GrantInv, ConsumedIsDone, GrantQuiet
  <2>3. \A j \in DOMAIN grants :
          grants'[j].state = "consumed" /\ grants'[j].case = grants'[i].case => i = j
    BY <2>1 DEF GrantInv, ConsumedIsDone, GrantQuiet, SameGrant
  <2>4. \E p \in publications : i \in Authority(p)
    BY <2>1 DEF GrantInv, ConsumedIsDone
  <2> QED
    BY <1>3, <2>2, <2>3, <2>4
<1>5. DoneIsPublished'
  BY DEF GrantInv, DoneIsPublished, GrantQuiet
<1>6. PublicationsAreSound'
  <2>1. publications' = publications
    BY DEF GrantQuiet
  <2> QED
    BY <1>3, <2>1 DEF GrantInv, PublicationsAreSound
<1> QED
  BY <1>1, <1>2, <1>4, <1>5, <1>6 DEF GrantInv

(* The steps that are so. *)
LEMMA AdvanceQuiet ==
    ASSUME GrantInv, NEW d \in Detector, Advances(d),
           \A c \in Detector : validations[c] \subseteq validations'[c]
    PROVE  GrantQuiet
<1>0. TypeOK /\ grants \in Seq(Grant) /\ \A i \in DOMAIN grants : grants[i].case \in Detector
  BY GrantRows DEF GrantInv
<1>1. PICK from \in BlockingState, to \in BlockingState, k \in Nat : Advance(d, from, to, k)
  BY DEF Advances
<1>2. /\ case[d].state = from /\ case'[d].state = to
      /\ \A c \in Detector : c # d => case'[c] = case[c]
      /\ grants' = Revoked(grants, {d}) /\ UNCHANGED publications
  BY <1>0, <1>1, AdvanceEffect
<1>3. from \notin Done /\ to \notin Done
  BY DEF BlockingState, Done
<1>4. /\ DOMAIN grants' = DOMAIN grants
      /\ \A i \in DOMAIN grants : SameGrant(i)
      /\ \A i \in DOMAIN grants :
           grants'[i].state = IF grants[i].case \in {d} /\ grants[i].state = "live"
                              THEN "revoked" ELSE grants[i].state
  BY <1>0, <1>2, RevokedGrants DEF SameGrant
<1> QED
  BY <1>0, <1>2, <1>3, <1>4 DEF GrantQuiet

LEMMA RunQuiet ==
    ASSUME GrantInv, UNCHANGED <<publications, validations, grants>>,
           \A d \in Detector : \/ case'[d] = case[d]
                               \/ /\ case[d].state = "none"
                                  /\ case'[d].state \in {"contained", "detected"}
                               \/ case[d].state = "monitoring" /\ case'[d].state \in Closed
    PROVE  GrantQuiet
<1>0. \A i \in DOMAIN grants : grants[i].case \in Detector
  BY GrantRows DEF GrantInv
<1>1. \A d \in Detector : case[d].state \in Done <=> case'[d].state \in Done
  BY DEF Done, Closed
<1>2. \A i \in DOMAIN grants : grants[i].state = "live" =>
        case'[grants[i].case] = case[grants[i].case]
  BY <1>0 DEF GrantInv, LiveGrantIsCurrent
<1> QED
  BY <1>0, <1>1, <1>2 DEF GrantQuiet, SameGrant

(* A person approves: the new grant is the only live one of its case. *)
LEMMA ApproveGrants ==
    ASSUME GrantInv, TypeOK', NEW d \in Detector, NEW v \in validations[d], NEW a \in Human \cup Agent,
           ApproveRecoveryCandidate(d, v, a)
    PROVE  GrantInv'
<1> DEFINE g == [case |-> d, validation |-> v, revision |-> case[d].revision, by |-> a,
                 state |-> "live", expired |-> FALSE]
           rs == Revoked(grants, {d})
           k == Len(grants) + 1
<1>0. /\ TypeOK /\ grants \in Seq(Grant) /\ \A i \in DOMAIN grants : grants[i].case \in Detector
      /\ v \in Validation /\ case[d].revision \in Nat /\ v.revision \in Nat
  <2>1. TypeOK /\ v \in Validation
    BY DEF GrantInv, TypeOK
  <2>2. case[d].revision \in Nat
    BY <2>1 DEF TypeOK, CaseRow
  <2> QED
    BY <2>1, <2>2, GrantRows DEF Validation
<1>1. /\ a \in Human /\ case[d].state = "awaiting_approval" /\ v.passed
      /\ v.revision + 2 = case[d].revision
  BY <1>0 DEF ApproveRecoveryCandidate, MayApprove, Approvable, CurrentValidation
<1>2. UNCHANGED <<case, validations, publications>> /\ grants' = Append(rs, g)
  BY DEF ApproveRecoveryCandidate, artifactVars
<1>3. /\ g.case = d /\ g.validation = v /\ g.revision = case[d].revision /\ g.by = a
      /\ g.state = "live" /\ g \in Grant
  BY <1>0 DEF Grant
<1>4. /\ rs \in Seq(Grant) /\ DOMAIN rs = DOMAIN grants /\ Len(rs) = Len(grants)
      /\ \A i \in DOMAIN grants :
           /\ rs[i].case = grants[i].case /\ rs[i].validation = grants[i].validation
           /\ rs[i].revision = grants[i].revision /\ rs[i].by = grants[i].by
           /\ rs[i].state = IF grants[i].case \in {d} /\ grants[i].state = "live"
                            THEN "revoked" ELSE grants[i].state
  BY <1>0, RevokedGrants
<1> HIDE DEF rs, g
<1>5. /\ DOMAIN grants' = DOMAIN grants \cup {k} /\ k \notin DOMAIN grants
      /\ grants'[k] = g /\ \A i \in DOMAIN grants : grants'[i] = rs[i]
  BY <1>0, <1>2, <1>3, <1>4
<1> HIDE DEF k
<1>6. \A i \in DOMAIN grants :
        /\ SameGrant(i)
        /\ grants'[i].state = "consumed" <=> grants[i].state = "consumed"
        /\ grants'[i].state = "live" => grants[i].state = "live" /\ grants[i].case # d
  BY <1>4, <1>5 DEF SameGrant
<1>7. LiveGrantIsCurrent'
  <2> SUFFICES ASSUME NEW i \in DOMAIN grants', grants'[i].state = "live"
               PROVE  /\ case[grants'[i].case].state = "awaiting_approval"
                      /\ case[grants'[i].case].revision = grants'[i].revision
                      /\ \A j \in DOMAIN grants' :
                           grants'[j].state = "live" /\ grants'[j].case = grants'[i].case => i = j
    BY <1>2 DEF LiveGrantIsCurrent
  <2>1. CASE i = k
    BY <1>1, <1>3, <1>5, <1>6, <2>1 DEF SameGrant
  <2>2. CASE i # k
    <3>1. i \in DOMAIN grants /\ grants[i].state = "live" /\ SameGrant(i) /\ grants[i].case # d
      BY <1>5, <1>6, <2>2
    <3>2. grants'[k].case # grants'[i].case
      BY <1>3, <1>5, <3>1 DEF SameGrant
    <3> QED
      BY <1>5, <1>6, <3>1, <3>2 DEF GrantInv, LiveGrantIsCurrent, SameGrant
  <2> QED
    BY <2>1, <2>2
<1>8. GrantsAreSound'
  <2>1. \A i \in DOMAIN grants :
          /\ grants'[i].by \in Human
          /\ grants'[i].validation \in validations[grants'[i].case]
          /\ grants'[i].validation.passed
          /\ grants'[i].validation.revision + 2 = grants'[i].revision
    BY <1>6 DEF GrantInv, GrantsAreSound, SameGrant
  <2>2. /\ g.by \in Human /\ g.validation \in validations[g.case] /\ g.validation.passed
        /\ g.validation.revision + 2 = g.revision
    BY <1>1, <1>3
  <2> QED
    BY <1>2, <1>5, <2>1, <2>2 DEF GrantsAreSound
<1>9. \A p \in publications : Authority(p)' = Authority(p)
  BY <1>3, <1>5, <1>6 DEF Authority, SameGrant
<1>10. ConsumedIsDone'
  <2> SUFFICES ASSUME NEW i \in DOMAIN grants', grants'[i].state = "consumed"
               PROVE  /\ case[grants'[i].case].state \in Done
                      /\ \A j \in DOMAIN grants' :
                           grants'[j].state = "consumed" /\ grants'[j].case = grants'[i].case => i = j
                      /\ \E p \in publications : i \in Authority(p)'
    BY <1>2 DEF ConsumedIsDone
  <2>1. i \in DOMAIN grants /\ grants[i].state = "consumed" /\ SameGrant(i)
    BY <1>3, <1>5, <1>6
  <2>2. \A j \in DOMAIN grants' : grants'[j].state = "consumed" =>
          j \in DOMAIN grants /\ grants[j].state = "consumed" /\ SameGrant(j)
    BY <1>3, <1>5, <1>6
  <2>3. \E p \in publications : i \in Authority(p)
    BY <2>1 DEF GrantInv, ConsumedIsDone
  <2> QED
    BY <1>9, <2>1, <2>2, <2>3 DEF GrantInv, ConsumedIsDone, SameGrant
<1>11. DoneIsPublished'
  BY <1>2 DEF GrantInv, DoneIsPublished
<1>12. PublicationsAreSound'
  BY <1>2, <1>9 DEF GrantInv, PublicationsAreSound
<1> QED
  BY <1>7, <1>8, <1>10, <1>11, <1>12 DEF GrantInv

(* A resolution consumes the one live grant of its case and publishes for    *)
(* cases that were not done.                                                 *)
LEMMA ResolveGrants ==
    ASSUME GrantInv, TypeOK', NEW d \in Detector, NEW v \in validations[d], NEW k \in DOMAIN grants,
           ResolveSemanticOutcomeCase(d, v, k)
    PROVE  GrantInv'
<1> DEFINE S == CasesToResolve(d, v.candidate)
           pub(c) == [case |-> c, authority |-> d, validation |-> v,
                      revision |-> case[d].revision, outputs |-> output]
<1>0. /\ TypeOK /\ grants \in Seq(Grant)
      /\ \A i \in DOMAIN grants : grants[i] \in Grant /\ grants[i].case \in Detector
  BY GrantRows DEF GrantInv
<1>1. /\ case[d].state = "awaiting_approval" /\ v.candidate \in {"replace", "accept_loss"}
      /\ d \in S /\ S \subseteq Detector
      /\ \A c \in Detector :
           IF c \in S THEN /\ case[c].state \in CaseState \ (Done \cup {"none"})
                           /\ case'[c].state =
                                IF v.candidate = "replace" THEN "monitoring" ELSE "accepted_loss"
                      ELSE case'[c] = case[c]
  BY <1>0, ResolveEffect
<1>2. /\ grants[k].case = d /\ grants[k].validation = v /\ grants[k].state = "live"
      /\ grants[k].revision = case[d].revision
  BY DEF ResolveSemanticOutcomeCase, Authorizes
<1>3. /\ publications' = publications \cup {pub(c) : c \in S}
      /\ validations' = validations
      /\ grants' = Revoked(Consumed(grants, k), S)
  BY DEF ResolveSemanticOutcomeCase
<1>4. v.candidate = "replace" => <<Source[d], output>> \in Fits /\ \A c \in S : Source[c] = Source[d]
  BY DEF ResolveSemanticOutcomeCase, Evaluates, CasesToResolve, OpenCases
<1>5. v.candidate # "replace" => S = {d}
  BY DEF CasesToResolve
<1>6. \A c \in S : /\ pub(c).case = c /\ pub(c).authority = d /\ pub(c).validation = v
                   /\ pub(c).revision = case[d].revision /\ pub(c).outputs = output
  OBVIOUS
<1> HIDE DEF S, pub
<1>7. /\ DOMAIN grants' = DOMAIN grants
      /\ \A i \in DOMAIN grants :
           /\ SameGrant(i)
           /\ i # k => grants'[i].state = IF grants[i].case \in S /\ grants[i].state = "live"
                                          THEN "revoked" ELSE grants[i].state
      /\ grants'[k].state = "consumed"
  <2> DEFINE cs == Consumed(grants, k)
  <2>1. /\ cs \in Seq(Grant) /\ DOMAIN cs = DOMAIN grants
        /\ \A j \in DOMAIN grants :
             /\ cs[j].case = grants[j].case /\ cs[j].validation = grants[j].validation
             /\ cs[j].revision = grants[j].revision /\ cs[j].by = grants[j].by
             /\ cs[j].state = IF j = k THEN "consumed" ELSE grants[j].state
    BY <1>0, ConsumedGrants
  <2> HIDE DEF cs
  <2>2. /\ DOMAIN Revoked(cs, S) = DOMAIN cs
        /\ \A i \in DOMAIN cs :
             /\ Revoked(cs, S)[i].case = cs[i].case
             /\ Revoked(cs, S)[i].validation = cs[i].validation
             /\ Revoked(cs, S)[i].revision = cs[i].revision
             /\ Revoked(cs, S)[i].by = cs[i].by
             /\ Revoked(cs, S)[i].state =
                  IF cs[i].case \in S /\ cs[i].state = "live" THEN "revoked" ELSE cs[i].state
    BY <2>1, RevokedGrants
  <2>3. grants' = Revoked(cs, S)
    BY <1>3 DEF cs
  <2> QED
    BY <2>1, <2>2, <2>3 DEF SameGrant
<1>8. \A i \in DOMAIN grants : grants[i].state = "consumed" => grants[i].case \notin S
  BY <1>0, <1>1 DEF GrantInv, ConsumedIsDone
<1>9. \A p \in publications : p.case \in Detector /\ p.case \notin S
  <2>1. \A p \in publications : p.case \in Detector
    BY <1>0 DEF TypeOK, Publication
  <2>2. \A p \in publications : case[p.case].state \in Done
    BY <2>1 DEF GrantInv, DoneIsPublished
  <2> QED
    BY <1>1, <2>1, <2>2
<1>10. LiveGrantIsCurrent'
  <2> SUFFICES ASSUME NEW i \in DOMAIN grants, grants'[i].state = "live"
               PROVE  /\ case'[grants'[i].case].state = "awaiting_approval"
                      /\ case'[grants'[i].case].revision = grants'[i].revision
                      /\ \A j \in DOMAIN grants :
                           grants'[j].state = "live" /\ grants'[j].case = grants'[i].case => i = j
    BY <1>7 DEF LiveGrantIsCurrent
  <2>1. grants[i].state = "live" /\ SameGrant(i) /\ grants[i].case \notin S
    BY <1>7
  <2>2. case'[grants[i].case] = case[grants[i].case]
    BY <1>0, <1>1, <2>1
  <2>3. \A j \in DOMAIN grants : grants'[j].state = "live" => grants[j].state = "live" /\ SameGrant(j)
    BY <1>7
  <2> QED
    BY <2>1, <2>2, <2>3 DEF GrantInv, LiveGrantIsCurrent, SameGrant
<1>11. GrantsAreSound'
  BY <1>3, <1>7 DEF GrantInv, GrantsAreSound, SameGrant
<1>12. \A i \in DOMAIN grants : grants'[i].state = "consumed" <=> (i = k \/ grants[i].state = "consumed")
  BY <1>2, <1>7
<1>13. \A p \in publications' : p.authority = d /\ p.validation = v /\ p.revision = case[d].revision
                                 => k \in Authority(p)'
  BY <1>2, <1>7 DEF Authority, SameGrant
<1>14. \A p \in publications : Authority(p) \subseteq Authority(p)'
  BY <1>7, <1>12 DEF Authority, SameGrant
<1>15. ConsumedIsDone'
  <2> SUFFICES ASSUME NEW i \in DOMAIN grants, grants'[i].state = "consumed"
               PROVE  /\ case'[grants'[i].case].state \in Done
                      /\ \A j \in DOMAIN grants :
                           grants'[j].state = "consumed" /\ grants'[j].case = grants'[i].case => i = j
                      /\ \E p \in publications' : i \in Authority(p)'
    BY <1>7 DEF ConsumedIsDone
  <2>1. \A j \in DOMAIN grants : grants'[j].case = grants[j].case
    BY <1>7 DEF SameGrant
  <2>2. CASE i = k
    <3>1. case'[d].state \in Done
      BY <1>1 DEF Done, Closed
    <3>2. \A j \in DOMAIN grants : grants[j].state = "consumed" => grants[j].case # d
      BY <1>1, <1>8
    <3>3. \A j \in DOMAIN grants :
            grants'[j].state = "consumed" /\ grants'[j].case = grants'[i].case => i = j
      BY <1>2, <1>12, <2>1, <2>2, <3>2
    <3>4. PICK p \in publications' : p = pub(d)
      BY <1>1, <1>3
    <3>5. k \in Authority(p)'
      BY <1>1, <1>6, <1>13, <3>4
    <3> QED
      BY <1>2, <2>1, <2>2, <3>1, <3>3, <3>5
  <2>3. CASE i # k
    <3>1. grants[i].state = "consumed" /\ grants[i].case \notin S
      BY <1>8, <1>12, <2>3
    <3>2. case'[grants[i].case] = case[grants[i].case]
      BY <1>0, <1>1, <3>1
    <3>3. case[grants[i].case].state \in Done
      BY <3>1 DEF GrantInv, ConsumedIsDone
    <3>4. grants[k].case # grants[i].case
      BY <1>1, <1>2, <3>1
    <3>5. \A j \in DOMAIN grants :
            grants'[j].state = "consumed" /\ grants'[j].case = grants'[i].case => i = j
      BY <1>12, <2>1, <3>1, <3>4 DEF GrantInv, ConsumedIsDone
    <3>6. PICK p \in publications : i \in Authority(p)
      BY <3>1 DEF GrantInv, ConsumedIsDone
    <3>7. p \in publications' /\ i \in Authority(p)'
      BY <1>3, <1>14, <3>6
    <3> QED
      BY <2>1, <3>2, <3>3, <3>5, <3>7
  <2> QED
    BY <2>2, <2>3
<1>16. DoneIsPublished'
  <2> SUFFICES ASSUME NEW c \in Detector
               PROVE  case'[c].state \in Done <=> \E p \in publications' : p.case = c
    BY DEF DoneIsPublished
  <2>1. CASE c \in S
    <3>1. case'[c].state \in Done
      BY <1>1, <2>1 DEF Done, Closed
    <3>2. pub(c) \in publications' /\ pub(c).case = c
      BY <1>3, <1>6, <2>1
    <3> QED
      BY <3>1, <3>2
  <2>2. CASE c \notin S
    <3>1. case'[c] = case[c]
      BY <1>1, <2>2
    <3>2. (\E p \in publications' : p.case = c) <=> (\E p \in publications : p.case = c)
      BY <1>3, <1>6, <2>2
    <3> QED
      BY <3>1, <3>2 DEF GrantInv, DoneIsPublished
  <2> QED
    BY <2>1, <2>2
<1>17. PublicationsAreSound'
  <2> SUFFICES ASSUME NEW p \in publications'
               PROVE  /\ Authority(p)' # {}
                      /\ \A q \in publications' : q.case = p.case => q = p
                      /\ IF p.validation.candidate = "replace"
                         THEN <<Source[p.case], p.outputs>> \in Fits
                         ELSE p.case = p.authority
    BY DEF PublicationsAreSound
  <2>1. CASE p \in publications
    <3>1. Authority(p)' # {}
      BY <1>14, <2>1 DEF GrantInv, PublicationsAreSound
    <3>2. \A q \in publications' : q.case = p.case => q = p
      <4>1. \A q \in publications : q.case = p.case => q = p
        BY <2>1 DEF GrantInv, PublicationsAreSound
      <4>2. \A c \in S : pub(c).case # p.case
        BY <1>6, <1>9, <2>1
      <4> QED
        BY <1>3, <4>1, <4>2
    <3> QED
      BY <2>1, <3>1, <3>2 DEF GrantInv, PublicationsAreSound
  <2>2. CASE p \in {pub(c) : c \in S}
    <3>1. PICK c \in S : p = pub(c)
      BY <2>2
    <3>2. Authority(p)' # {}
      BY <1>6, <1>13, <3>1
    <3>3. \A q \in publications' : q.case = p.case => q = p
      BY <1>3, <1>6, <1>9, <3>1
    <3>4. IF v.candidate = "replace" THEN <<Source[c], output>> \in Fits ELSE c = d
      BY <1>1, <1>4, <1>5, <3>1
    <3> QED
      BY <1>6, <3>1, <3>2, <3>3, <3>4
  <2> QED
    BY <1>3, <2>1, <2>2
<1> QED
  BY <1>10, <1>11, <1>15, <1>16, <1>17 DEF GrantInv

LEMMA GrantInvariant == Spec => []GrantInv
<1>1. Init => GrantInv
  <2> SUFFICES ASSUME Init PROVE GrantInv
    OBVIOUS
  <2>1. DOMAIN grants = {} /\ publications = {} /\ \A d \in Detector : case[d].state = "none"
    BY DEF Init, NoCase
  <2> QED
    BY <2>1, TypesInit DEF GrantInv, LiveGrantIsCurrent, GrantsAreSound, ConsumedIsDone,
       DoneIsPublished, PublicationsAreSound, Done, Closed
<1>2. GrantInv /\ [Next]_vars => GrantInv'
  <2> SUFFICES ASSUME GrantInv, [Next]_vars PROVE GrantInv'
    OBVIOUS
  <2>0. TypeOK /\ TypeOK'
    BY TypesStep DEF GrantInv
  <2>1. CASE UNCHANGED vars
    <3>1. GrantQuiet
      BY <2>1, RunQuiet DEF vars
    <3> QED
      BY <2>0, <3>1, QuietStep
  <2>2. ASSUME NEW n \in Node, NEW V \in SUBSET Detector, CompleteNode(n, V)
        PROVE  GrantQuiet
    <3>1. UNCHANGED <<publications, validations, grants>>
      BY <2>2 DEF CompleteNode
    <3>2. \A d \in Detector : \/ case'[d] = case[d]
                              \/ /\ case[d].state = "none"
                                 /\ case'[d].state \in {"contained", "detected"}
      BY <2>0, <2>2, CompleteEffect
    <3> QED
      BY <3>1, <3>2, RunQuiet
  <2>3. ASSUME NEW status \in TerminalRun, Finalize(status)
        PROVE  GrantQuiet
    <3>1. UNCHANGED <<publications, validations, grants>>
      BY <2>3 DEF Finalize, artifactVars
    <3>2. \A d \in Detector : \/ case'[d] = case[d]
                              \/ case[d].state = "monitoring" /\ case'[d].state \in Closed
      BY <2>0, <2>3, FinalizeEffect
    <3> QED
      BY <3>1, <3>2, RunQuiet
  <2>4. ASSUME RedriveRun \/ \E r \in Requester :
                 \/ ValidationLost(r)
                 \/ \E d \in Detector, c \in Candidate : ValidateSemanticRecoveryCandidate(r, d, c)
        PROVE  GrantQuiet
    <3>1. UNCHANGED <<publications, validations, grants, case>>
      BY <2>4 DEF RedriveRun, ValidationLost, ValidateSemanticRecoveryCandidate, artifactVars
    <3> QED
      BY <3>1, RunQuiet
  <2>5. ASSUME NEW d \in Detector,
               \/ DiagnoseRecoveryCase(d) \/ ReconsiderCandidates(d)
               \/ \E proposed \in BOOLEAN : CreateRecoveryCandidates(d, proposed)
        PROVE  GrantQuiet
    <3>1. Advances(d) /\ UNCHANGED validations
      BY <2>0, <2>5, AdvanceActions
    <3> QED
      BY <3>1, AdvanceQuiet
  <2>6. ASSUME NEW r \in Requester, ValidateRecoveryCaseCandidate(r)
        PROVE  GrantQuiet
    <3>1. /\ check[r].case \in Detector /\ Advances(check[r].case)
          /\ validations' = [validations EXCEPT ![check[r].case] = @ \cup {check[r].validation}]
      BY <2>0, <2>6, ValidateEffect
    <3>2. \A c \in Detector : validations[c] \subseteq validations'[c]
      BY <2>0, <3>1 DEF TypeOK
    <3> QED
      BY <3>1, <3>2, AdvanceQuiet
  <2>7. ASSUME NEW i \in DOMAIN grants, GrantExpires(i)
        PROVE  GrantQuiet
    <3> DEFINE g == [grants[i] EXCEPT !.expired = TRUE]
    <3>1. grants \in Seq(Grant) /\ grants[i] \in Grant
      BY <2>0, GrantRows
    <3>2. /\ g.case = grants[i].case /\ g.validation = grants[i].validation
          /\ g.revision = grants[i].revision /\ g.by = grants[i].by /\ g.state = grants[i].state
      BY <3>1 DEF Grant
    <3>3. grants' = [grants EXCEPT ![i] = g] /\ UNCHANGED <<case, publications, validations>>
      BY <2>7 DEF GrantExpires, artifactVars
    <3> HIDE DEF g
    <3>4. DOMAIN grants' = DOMAIN grants
          /\ \A j \in DOMAIN grants : SameGrant(j) /\ grants'[j].state = grants[j].state
      BY <3>1, <3>2, <3>3 DEF SameGrant
    <3> QED
      BY <3>3, <3>4 DEF GrantQuiet
  <2>8. ASSUME (\E status \in {"succeeded", "failed"} : EndRun(status)) \/ CancelRun
        PROVE  \E status \in TerminalRun : Finalize(status)
    BY <2>8 DEF EndRun, CancelRun, TerminalRun
  <2>9. CASE Next
    BY <2>0, <2>2, <2>3, <2>4, <2>5, <2>6, <2>7, <2>8, <2>9, QuietStep, ApproveGrants,
       ResolveGrants DEF Next
  <2> QED
    BY <2>1, <2>9
<1> QED
  BY <1>1, <1>2, PTL DEF Spec

(* Whatever closed or replaced a case rests on one consumed approval of a    *)
(* person for a validation of that candidate that passed; a replacement      *)
(* passed the node's detectors against the outputs it was published with;    *)
(* and no grant is spent without effect (ResolveSemanticOutcomeCase).        *)
THEOREM ResolutionIsAuthorized == Spec => []PublicationIsAuthorized
<1>1. GrantInv => PublicationIsAuthorized
  <2> SUFFICES ASSUME GrantInv PROVE PublicationIsAuthorized
    OBVIOUS
  <2>1. \A d \in Detector : case[d].state \in Closed \cup {"monitoring"}
          => \E p \in publications : p.case = d
    BY DEF GrantInv, DoneIsPublished, Done
  <2>2. ASSUME NEW p \in publications
        PROVE  /\ Cardinality(Authority(p)) = 1 /\ \A i \in Authority(p) : grants[i].by \in Human
               /\ p.validation \in validations[p.authority] /\ p.validation.passed
               /\ p.validation.revision + 2 = p.revision
    <3>1. PICK i : i \in Authority(p)
      BY DEF GrantInv, PublicationsAreSound
    <3>2. Authority(p) = {i}
      BY <3>1 DEF GrantInv, ConsumedIsDone, Authority
    <3>3. Cardinality(Authority(p)) = 1
      BY <3>2, FS_Singleton
    <3> QED
      BY <3>2, <3>3 DEF GrantInv, GrantsAreSound, Authority
  <2>3. \A p \in publications :
          /\ \A q \in publications : q.case = p.case => q = p
          /\ IF p.validation.candidate = "replace"
             THEN <<Source[p.case], p.outputs>> \in Fits
             ELSE p.case = p.authority
    BY DEF GrantInv, PublicationsAreSound
  <2>4. \A i \in DOMAIN grants : grants[i].state = "consumed"
          => \E p \in publications : i \in Authority(p)
    BY DEF GrantInv, ConsumedIsDone
  <2> QED
    BY <2>1, <2>2, <2>3, <2>4 DEF PublicationIsAuthorized
<1> QED
  BY <1>1, GrantInvariant, PTL

-----------------------------------------------------------------------------
(* The posture of the run. *)

(* CountBlockingSemanticRecoveryCases counts the cases in a blocking state. *)
LEMMA BlockingCases ==
    ASSUME NEW cs \in [Detector -> CaseRow]
    PROVE  Blocking(cs) = {c \in Detector : cs[c].state \in BlockingState}
<1>1. \A c \in Detector : cs[c].state \in CaseState
  BY CaseRows
<1> QED
  BY <1>1 DEF Blocking, BlockingState

(* A step that moves cases between blocking states at most keeps the posture. *)
LEMMA PostureFrame ==
    ASSUME PostureInv, TypeOK', UNCHANGED runVars,
           \A c \in Detector : \/ case'[c] = case[c]
                               \/ case[c].state \in BlockingState /\ case'[c].state \in BlockingState
    PROVE  PostureInv'
<1>0. TypeOK /\ run' = run /\ outcome' = outcome /\ output' = output
  BY DEF PostureInv, runVars
<1>1. Blocking(case)' = Blocking(case)
  BY <1>0, BlockingCases DEF TypeOK
<1>2. \A s \in BlockingState : s \notin {"none", "monitoring", "verified_recovered"}
  BY DEF BlockingState, Closed
<1>3. Monitored' = Monitored
  BY <1>2 DEF Monitored
<1>4. \A c \in Detector : case[c].state = "verified_recovered" <=> case'[c].state = "verified_recovered"
  BY <1>2
<1>5. CasesFollowOutputs'
  BY <1>0, <1>2 DEF PostureInv, CasesFollowOutputs, NoCase
<1>6. PostureIsEarned'
  BY <1>0, <1>1, <1>3, <1>4 DEF PostureInv, PostureIsEarned
<1>7. ParkedRunHasACase'
  BY <1>0, <1>1 DEF PostureInv, ParkedRunHasACase
<1> QED
  BY <1>5, <1>6, <1>7 DEF PostureInv

(* A completion opens a new case for whatever it violates. *)
LEMMA CompletePosture ==
    ASSUME PostureInv, TypeOK', NEW n \in Node, NEW V \in SUBSET Detector, CompleteNode(n, V)
    PROVE  PostureInv'
<1>0. TypeOK /\ case \in [Detector -> CaseRow] /\ case' \in [Detector -> CaseRow]
      /\ output \in [Node -> Output] /\ Source \in [Detector -> Node]
  BY CompleteEffect, RecoveryConstants DEF PostureInv, TypeOK, Outputs
<1>1. \A d \in Detector :
        \/ case'[d] = case[d] /\ ~(d \in V /\ case[d] = NoCase)
        \/ /\ d \in V /\ case[d] = NoCase /\ case[d].state = "none"
           /\ case'[d].state \in {"contained", "detected"}
  BY <1>0, CompleteEffect
<1>2. /\ output[n] = "none" /\ run # "succeeded" /\ \A d \in V : Source[d] = n
      /\ output' = [output EXCEPT ![n] = "original"]
  BY DEF CompleteNode
<1>3. \A d \in Detector : Source[d] = n => case[d] = NoCase
  BY <1>2 DEF PostureInv, CasesFollowOutputs
<1>4. \A d \in Detector :
        IF d \in V THEN case[d].state = "none" /\ case'[d].state \in {"contained", "detected"}
                   ELSE case'[d] = case[d]
  BY <1>1, <1>2, <1>3
<1>5. {"contained", "detected"} \subseteq BlockingState
  BY DEF BlockingState, CaseState, Closed
<1>6. /\ Blocking(case)' = {c \in Detector : case'[c].state \in BlockingState}
      /\ Blocking(case) = {c \in Detector : case[c].state \in BlockingState}
  BY <1>0, BlockingCases
<1>7. Blocking(case) \cup V \subseteq Blocking(case)' /\ Blocking(case)' \subseteq Blocking(case) \cup V
  <2>1. "none" \notin BlockingState
    BY DEF BlockingState
  <2> QED
    BY <1>4, <1>5, <1>6, <2>1
<1>8. Monitored' = Monitored
  BY <1>4 DEF Monitored
<1>9. \A c \in Detector : case[c].state = "verified_recovered" <=> case'[c].state = "verified_recovered"
  BY <1>4
<1>10. CasesFollowOutputs'
  <2>1. \A d \in Detector : Source[d] = n => output'[Source[d]] = "original" /\ case[d].state = "none"
    BY <1>0, <1>2, <1>3 DEF NoCase
  <2>2. \A d \in Detector : Source[d] # n => output'[Source[d]] = output[Source[d]] /\ case'[d] = case[d]
    BY <1>0, <1>2, <1>4
  <2>3. \A d \in Detector : Source[d] = n => case'[d].state # "monitoring"
    BY <1>4, <2>1
  <2> QED
    BY <2>1, <2>2, <2>3 DEF PostureInv, CasesFollowOutputs
<1>11. \A d \in Detector : case[d].state # "verified_recovered"
  BY <1>2 DEF PostureInv, PostureIsEarned
<1>12. CASE V = {}
  <2>1. Blocking(case)' = Blocking(case)
    BY <1>7, <1>12
  <2>2. run' = run /\ outcome' = outcome
    BY <1>12 DEF CompleteNode
  <2>3. PostureIsEarned'
    BY <1>2, <1>8, <1>9, <1>11, <2>1, <2>2 DEF PostureInv, PostureIsEarned
  <2>4. ParkedRunHasACase'
    BY <2>1, <2>2 DEF PostureInv, ParkedRunHasACase
  <2> QED
    BY <1>10, <2>3, <2>4 DEF PostureInv
<1>13. CASE V # {}
  <2>1. Blocking(case)' # {}
    BY <1>7, <1>13
  <2>2. IF Parks(case)' THEN run' = "waiting" /\ outcome' = "semantic_quarantined"
        ELSE outcome' = "semantic_violation" /\ run' = run
    BY <1>13 DEF CompleteNode, Parks
  <2>3. Blocking(case)' \cap Quarantining # {} => Parks(case)'
    BY DEF Blocking, Parks
  <2>4. Monitored # {} => run' \notin TerminalRun
    BY <2>2 DEF PostureInv, PostureIsEarned, TerminalRun
  <2>5. PostureIsEarned'
    BY <1>8, <1>9, <1>11, <2>2, <2>3, <2>4 DEF PostureIsEarned
  <2> QED
    BY <1>10, <2>1, <2>5 DEF PostureInv, ParkedRunHasACase
<1> QED
  BY <1>12, <1>13

(* The end of a run that was not yet over decides the cases it monitored. *)
LEMMA FinalizePosture ==
    ASSUME PostureInv, TypeOK', NEW status \in TerminalRun, Finalize(status),
           run \in {"running", "waiting"}
    PROVE  PostureInv'
<1>0. TypeOK /\ case \in [Detector -> CaseRow] /\ case' \in [Detector -> CaseRow]
  BY FinalizeEffect DEF PostureInv, TypeOK
<1>1. /\ run' = status /\ output' = output
      /\ outcome' = IF Monitored # {} /\ outcome = "semantic_recovering"
                    THEN IF status = "succeeded" THEN "semantic_recovered" ELSE "none"
                    ELSE outcome
  BY DEF Finalize
<1>2. /\ Verdict(status) \in Closed
      /\ \A d \in Detector : IF case[d].state = "monitoring"
                             THEN case'[d].state = Verdict(status) ELSE case'[d] = case[d]
  BY <1>0, FinalizeEffect
<1>3. \A s \in Closed : s \notin BlockingState /\ s \notin {"none", "monitoring"}
  BY DEF BlockingState, Closed
<1>4. Blocking(case)' = Blocking(case)
  <2>1. "monitoring" \notin BlockingState
    BY DEF BlockingState
  <2> QED
    BY <1>0, <1>2, <1>3, <2>1, BlockingCases
<1>5. Monitored' = {}
  BY <1>2, <1>3 DEF Monitored
<1>6. \A d \in Detector : case[d].state # "verified_recovered"
  BY DEF PostureInv, PostureIsEarned
<1>7. outcome # "semantic_recovered"
  BY DEF PostureInv, PostureIsEarned
<1>8. \A d \in Detector : case'[d].state = "verified_recovered"
        => case[d].state = "monitoring" /\ status = "succeeded"
  BY <1>2, <1>6 DEF Verdict
<1>9. CasesFollowOutputs'
  BY <1>1, <1>2, <1>3 DEF PostureInv, CasesFollowOutputs, NoCase
<1>10. \A d \in Detector : case'[d].state = "verified_recovered"
         => run' = "succeeded" /\ output'[Source[d]] = "replaced"
  BY <1>1, <1>8 DEF PostureInv, CasesFollowOutputs
<1>11. outcome' = "semantic_recovered" =>
         /\ run' = "succeeded" /\ Blocking(case)' = {}
         /\ \E d \in Detector : case'[d].state = "verified_recovered"
  <2> SUFFICES ASSUME outcome' = "semantic_recovered"
               PROVE  /\ run' = "succeeded" /\ Blocking(case)' = {}
                      /\ \E d \in Detector : case'[d].state = "verified_recovered"
    OBVIOUS
  <2>1. Monitored # {} /\ outcome = "semantic_recovering" /\ status = "succeeded"
    BY <1>1, <1>7
  <2>2. Blocking(case) = {}
    BY <2>1 DEF PostureInv, PostureIsEarned
  <2>3. PICK d \in Detector : case[d].state = "monitoring"
    BY <2>1 DEF Monitored
  <2>4. case'[d].state = "verified_recovered"
    BY <1>2, <2>1, <2>3 DEF Verdict
  <2> QED
    BY <1>1, <1>4, <2>1, <2>2, <2>4
<1>12. outcome' # "semantic_recovering"
  BY <1>1 DEF PostureInv, PostureIsEarned
<1>13. Blocking(case)' \cap Quarantining # {} => outcome' = "semantic_quarantined"
  BY <1>1, <1>4 DEF PostureInv, PostureIsEarned
<1>14. PostureIsEarned'
  BY <1>5, <1>10, <1>11, <1>12, <1>13 DEF PostureIsEarned
<1>15. run' # "waiting"
  BY <1>1 DEF TerminalRun
<1> QED
  BY <1>9, <1>14, <1>15 DEF PostureInv, ParkedRunHasACase

(* A resolution counts what is still blocking after it. *)
LEMMA ResolvePosture ==
    ASSUME PostureInv, TypeOK', NEW d \in Detector, NEW v \in validations[d], NEW k \in DOMAIN grants,
           ResolveSemanticOutcomeCase(d, v, k)
    PROVE  PostureInv'
<1> DEFINE S == CasesToResolve(d, v.candidate)
<1>0. /\ TypeOK /\ case \in [Detector -> CaseRow] /\ case' \in [Detector -> CaseRow]
      /\ output \in [Node -> Output] /\ Source \in [Detector -> Node]
  BY ResolveEffect, RecoveryConstants DEF PostureInv, TypeOK, Outputs
<1>1. /\ v.candidate \in {"replace", "accept_loss"} /\ d \in S /\ S \subseteq Detector
      /\ \A c \in Detector :
           IF c \in S THEN /\ case[c].state \in CaseState \ (Done \cup {"none"})
                           /\ case'[c].state =
                                IF v.candidate = "replace" THEN "monitoring" ELSE "accepted_loss"
                      ELSE case'[c] = case[c]
  BY <1>0, ResolveEffect
<1>2. /\ run' = IF Resumes(case', v.candidate) THEN "running" ELSE run
      /\ outcome' = Posture(case', v.candidate)
      /\ output' = IF v.candidate = "replace" THEN [output EXCEPT ![Source[d]] = "replaced"]
                   ELSE output
  BY DEF ResolveSemanticOutcomeCase
<1>3. v.candidate = "replace" => run = "waiting" /\ \A c \in S : Source[c] = Source[d]
  BY DEF ResolveSemanticOutcomeCase, Resolvable, CasesToResolve, OpenCases
<1> HIDE DEF S
<1>4. \A c \in Detector : c \in S => case'[c].state \notin {"none", "verified_recovered"}
                                     /\ case[c].state \notin {"none", "verified_recovered", "monitoring"}
  BY <1>1 DEF Done, Closed
<1>5. CasesFollowOutputs'
  <2> SUFFICES ASSUME NEW c \in Detector
               PROVE  /\ output'[Source[c]] = "none" => case'[c] = NoCase
                      /\ case'[c].state = "monitoring" => output'[Source[c]] = "replaced"
    BY DEF CasesFollowOutputs
  <2>1. output'[Source[c]] \in {output[Source[c]], "replaced"}
    BY <1>0, <1>2
  <2>2. CASE c \in S
    <3>1. output[Source[c]] # "none"
      BY <1>4, <2>2 DEF PostureInv, CasesFollowOutputs, NoCase
    <3>2. case'[c].state = "monitoring" => output'[Source[c]] = "replaced"
      BY <1>0, <1>1, <1>2, <1>3, <2>2
    <3> QED
      BY <2>1, <3>1, <3>2
  <2>3. CASE c \notin S
    BY <1>1, <2>1, <2>3 DEF PostureInv, CasesFollowOutputs
  <2> QED
    BY <2>2, <2>3
<1>6. \A c \in Detector : case'[c].state = "verified_recovered"
        => run' = "succeeded" /\ output'[Source[c]] = "replaced"
  <2> SUFFICES ASSUME NEW c \in Detector, case'[c].state = "verified_recovered"
               PROVE  run' = "succeeded" /\ output'[Source[c]] = "replaced"
    OBVIOUS
  <2>1. case[c].state = "verified_recovered"
    BY <1>1, <1>4
  <2>2. run = "succeeded" /\ output[Source[c]] = "replaced"
    BY <2>1 DEF PostureInv, PostureIsEarned
  <2> QED
    BY <1>1, <1>2, <1>3, <2>2 DEF Resumes
<1>7. Monitored' # {} => run' \notin TerminalRun
  <2>1. CASE v.candidate = "replace"
    BY <1>2, <1>3, <2>1 DEF TerminalRun
  <2>2. CASE v.candidate # "replace"
    <3>1. Monitored' \subseteq Monitored
      BY <1>1, <2>2 DEF Monitored
    <3> QED
      BY <1>2, <3>1 DEF PostureInv, PostureIsEarned, TerminalRun
  <2> QED
    BY <2>1, <2>2
<1>8. outcome' # "semantic_recovered"
  BY <1>2 DEF Posture
<1>9. outcome' = "semantic_recovering" => Monitored' # {} /\ Blocking(case)' = {}
  <2> SUFFICES ASSUME outcome' = "semantic_recovering"
               PROVE  Monitored' # {} /\ Blocking(case') = {}
    BY DEF Blocking
  <2>1. v.candidate = "replace" /\ Blocking(case') = {}
    BY <1>2 DEF Posture
  <2>2. case'[d].state = "monitoring"
    BY <1>1, <2>1
  <2> QED
    BY <2>1, <2>2 DEF Monitored
<1>10. Blocking(case)' \cap Quarantining # {} => outcome' = "semantic_quarantined"
  BY <1>2 DEF Posture, Blocking
<1>11. PostureIsEarned'
  BY <1>6, <1>7, <1>8, <1>9, <1>10 DEF PostureIsEarned
<1>12. ParkedRunHasACase'
  BY <1>2 DEF ParkedRunHasACase, Resumes, Blocking
<1> QED
  BY <1>5, <1>11, <1>12 DEF PostureInv

LEMMA PostureInvariant == Spec => []PostureInv
<1>1. Init => PostureInv
  <2> SUFFICES ASSUME Init PROVE PostureInv
    OBVIOUS
  <2>1. /\ TypeOK /\ run = "running" /\ outcome = "none"
        /\ \A d \in Detector : case[d] = NoCase /\ case[d].state = "none"
    BY TypesInit DEF Init, NoCase
  <2>2. Blocking(case) = {} /\ Monitored = {}
    BY <2>1 DEF Blocking, Monitored
  <2> QED
    BY <2>1, <2>2 DEF PostureInv, CasesFollowOutputs, PostureIsEarned, ParkedRunHasACase
<1>2. PostureInv /\ [Next]_vars => PostureInv'
  <2> SUFFICES ASSUME PostureInv, [Next]_vars PROVE PostureInv'
    OBVIOUS
  <2>0. TypeOK /\ TypeOK'
    BY TypesStep DEF PostureInv
  <2>1. ASSUME UNCHANGED <<runVars, case>>
        PROVE  PostureInv'
    BY <2>0, <2>1, PostureFrame
  <2>2. ASSUME NEW d \in Detector, Advances(d)
        PROVE  PostureInv'
    <3>1. PICK from \in BlockingState, to \in BlockingState, k \in Nat : Advance(d, from, to, k)
      BY <2>2 DEF Advances
    <3>2. /\ case[d].state = from /\ case'[d].state = to
          /\ \A c \in Detector : c # d => case'[c] = case[c]
          /\ UNCHANGED <<run, outcome, output>>
      BY <2>0, <3>1, AdvanceEffect
    <3> QED
      BY <2>0, <3>2, PostureFrame DEF runVars
  <2>3. ASSUME NEW d \in Detector,
               \/ DiagnoseRecoveryCase(d) \/ ReconsiderCandidates(d)
               \/ \E proposed \in BOOLEAN : CreateRecoveryCandidates(d, proposed)
        PROVE  PostureInv'
    BY <2>0, <2>2, <2>3, AdvanceActions
  <2>4. ASSUME NEW r \in Requester, ValidateRecoveryCaseCandidate(r)
        PROVE  PostureInv'
    BY <2>0, <2>2, <2>4, ValidateEffect
  <2>5. ASSUME \/ \E r \in Requester :
                    \/ ValidationLost(r)
                    \/ \E d \in Detector, c \in Candidate : ValidateSemanticRecoveryCandidate(r, d, c)
               \/ \E d \in Detector : \E v \in validations[d], a \in Human \cup Agent :
                    ApproveRecoveryCandidate(d, v, a)
               \/ \E i \in DOMAIN grants : GrantExpires(i)
        PROVE  PostureInv'
    <3>1. UNCHANGED <<runVars, case>>
      BY <2>5 DEF ValidationLost, ValidateSemanticRecoveryCandidate, ApproveRecoveryCandidate,
         GrantExpires
    <3> QED
      BY <2>1, <3>1
  <2>6. ASSUME NEW status \in {"succeeded", "failed"}, EndRun(status)
        PROVE  PostureInv'
    BY <2>0, <2>6, FinalizePosture DEF EndRun, TerminalRun
  <2>7. ASSUME CancelRun PROVE PostureInv'
    BY <2>0, <2>7, FinalizePosture DEF CancelRun, TerminalRun
  <2>8. ASSUME RedriveRun PROVE PostureInv'
    <3>1. run = "failed" /\ run' = "running" /\ UNCHANGED <<outcome, output, case>>
      BY <2>8 DEF RedriveRun
    <3>2. Monitored' = Monitored /\ Blocking(case)' = Blocking(case)
      BY <3>1 DEF Monitored, Blocking
    <3>3. CasesFollowOutputs'
      BY <3>1 DEF PostureInv, CasesFollowOutputs
    <3>4. PostureIsEarned'
      BY <3>1, <3>2 DEF PostureInv, PostureIsEarned, TerminalRun
    <3> QED
      BY <2>0, <3>1, <3>3, <3>4 DEF PostureInv, ParkedRunHasACase
  <2>9. CASE UNCHANGED vars
    BY <2>1, <2>9 DEF vars, runVars
  <2>10. CASE Next
    BY <2>0, <2>3, <2>4, <2>5, <2>6, <2>7, <2>8, <2>10, CompletePosture, ResolvePosture DEF Next
  <2> QED
    BY <2>9, <2>10
<1> QED
  BY <1>1, <1>2, PTL DEF Spec

(* A run is shown, and a case is closed, as recovered only when the run      *)
(* succeeded after its replacement; recovering means that nothing is left to *)
(* decide; an undecided quarantine is always shown                           *)
(* (finalizeSemanticRecoveryMonitoring, UpdateRunSemanticResolution).        *)
THEOREM RecoveryIsEarned == Spec => []PostureIsEarned
<1>1. PostureInv => PostureIsEarned
  BY DEF PostureInv
<1> QED
  BY <1>1, PostureInvariant, PTL

(* A parked run always has a case that is not yet decided                    *)
(* (persistSemanticViolations, applySemanticResolution).                     *)
THEOREM ParkedRunIsDecidable == Spec => []ParkedRunHasACase
<1>1. PostureInv => ParkedRunHasACase
  BY DEF PostureInv
<1> QED
  BY <1>1, PostureInvariant, PTL

(* Every record of a case keeps its type: revisions are natural numbers, and *)
(* artifacts and grants name cases of the run.                               *)
THEOREM RecoveryCasesAreTyped == Spec => []TypeOK
<1>1. PostureInv => TypeOK
  BY DEF PostureInv
<1> QED
  BY <1>1, PostureInvariant, PTL

=============================================================================
