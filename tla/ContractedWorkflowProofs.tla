---------------------- MODULE ContractedWorkflowProofs ----------------------
(***************************************************************************)
(* The supervisor graph is correct for all caps: it judges, stores and     *)
(* ends its runs as AgentWorkflow claims.  None of the claims is inductive *)
(* alone.  Ready says which work is still owed when a phase is entered or  *)
(* retried; Spent counts the phases visited by the counters of the state,  *)
(* one owed phase less, and bounds the super-steps of an invocation.       *)
(***************************************************************************)
EXTENDS ContractedWorkflow, Integers, FiniteSetTheorems, TLAPS

Count(b) == IF b THEN 1 ELSE 0

\* The work for which a phase may be entered or retried.
Ready(p) ==
  /\ p = "research" => ~researchComplete
  /\ p = "analysis" => researchComplete /\ ~analysisComplete
  /\ p = "writing" => ~finalReview \/ needsRevision
  /\ p = "peer_review" => finalReview /\ ~peerReviewComplete /\ ~needsRevision

Caps ==
  /\ ~terminalFailure => \A p \in Phases : phaseAttempts[p] < MaxPhaseAttempts
  /\ ~researchComplete => researchRound < MaxResearchRounds
  /\ researchComplete => papers /\ researchRound >= 1
  /\ needsRevision => revisionAttempt < MaxRevisions

Routing ==
  /\ ~researchComplete => ~analysisComplete
  /\ finalReview => writingComplete \/ needsRevision
  /\ needsRevision => finalReview
  /\ status = "needs_revision" => needsRevision
  /\ status = "needs_more_research" =>
       node = "supervisor" /\ failedPhase = NoPhase /\ researchComplete /\ ~analysisComplete
  /\ node = "supervisor" /\ terminalFailure => failedPhase # NoPhase
  /\ \A p \in Phases : node = p \/ failedPhase = p => Ready(p)
  /\ node \in Phases => status = "running" /\ ~terminalFailure /\ failedPhase = NoPhase
  /\ node = "finalize" /\ ~terminalFailure =>
       finalReview /\ peerReviewComplete /\ ~needsRevision

Judged ==
  /\ errors => terminalFailure
  /\ peerReviewComplete => score \in {"pass", "fail"}
  /\ peerReviewComplete /\ score = "fail" => warnings

Stored == finalReview /\ ~needsRevision => saved = "match"

Closed ==
  node = "end" =>
    /\ status \in {"completed", "completed_with_warnings", "failed"}
    /\ status # "failed" => /\ ~terminalFailure /\ finalReview /\ peerReviewComplete
                            /\ ~needsRevision /\ artifact = "match"
    /\ status = "completed" => ~warnings

OwedAnalysis ==
  researchComplete /\ ~analysisComplete /\ status # "needs_more_research" /\ ~terminalFailure
OwedReview == finalReview /\ ~peerReviewComplete /\ ~needsRevision

Attempts ==
  phaseAttempts["research"] + phaseAttempts["analysis"]
  + phaseAttempts["writing"] + phaseAttempts["peer_review"]

\* Phases visited: every attempt that failed, a research and an analysis per
\* round, a draft and a review per revision and one more, less what is owed.
RoundsSpent == 2 * researchRound - Count(OwedAnalysis)
DraftsSpent == 2 * (Count(finalReview) + revisionAttempt) - Count(OwedReview)
Spent == Attempts + RoundsSpent + DraftsSpent

Metered ==
  steps <= 2 * Spent + (IF node = "supervisor" THEN 0 ELSE IF node = "end" THEN 2 ELSE 1)

WorkflowInv == TypeOK /\ Caps /\ Routing /\ Judged /\ Stored /\ Closed /\ Metered

-----------------------------------------------------------------------------
\* TypeOK, one group of variables at a time.
RetryTypes ==
  /\ failedPhase \in Phases \cup {NoPhase} /\ terminalFailure \in BOOLEAN
  /\ phaseAttempts \in [Phases -> 0..MaxPhaseAttempts]
  /\ warnings \in BOOLEAN /\ errors \in BOOLEAN
ResearchTypes ==
  /\ papers \in BOOLEAN /\ researchComplete \in BOOLEAN
  /\ researchRound \in 0..MaxResearchRounds
  /\ analysisComplete \in BOOLEAN
WritingTypes ==
  /\ finalReview \in BOOLEAN /\ writingComplete \in BOOLEAN
  /\ needsRevision \in BOOLEAN /\ revisionAttempt \in 0..MaxRevisions
  /\ peerReviewComplete \in BOOLEAN /\ score \in {"none", "pass", "fail", "stale"}
RunTypes ==
  /\ status \in Statuses /\ node \in Phases \cup {"supervisor", "finalize", "end"}
  /\ steps \in 0..RecursionLimit /\ run \in {"running", "stopped"}
TableTypes ==
  saved \in {"nothing", "match", "other"} /\ artifact \in {"nothing", "match", "other"}

\* The groups make up the type invariant, in this state and in the next.
LEMMA TypeInGroups ==
  /\ TypeOK <=> RetryTypes /\ ResearchTypes /\ WritingTypes /\ RunTypes /\ TableTypes
  /\ TypeOK' <=> RetryTypes' /\ ResearchTypes' /\ WritingTypes' /\ RunTypes' /\ TableTypes'
<1>1. TypeOK <=> RetryTypes /\ ResearchTypes /\ WritingTypes /\ RunTypes /\ TableTypes
  BY Zenon DEF TypeOK, RetryTypes, ResearchTypes, WritingTypes, RunTypes, TableTypes
<1>2. (TypeOK <=> RetryTypes /\ ResearchTypes /\ WritingTypes /\ RunTypes /\ TableTypes)'
  BY <1>1, PTL
<1> QED BY <1>1, <1>2

\* The invariant holds of a new execution.
LEMMA InitWorkflowInv == Init => WorkflowInv
<1> SUFFICES ASSUME Init PROVE WorkflowInv
  OBVIOUS
<1> USE WorkflowAssumption DEF Init
<1>1. TypeOK
  <2>1. phaseAttempts \in [Phases -> 0..MaxPhaseAttempts]
    OBVIOUS
  <2>2. /\ researchRound \in 0..MaxResearchRounds /\ revisionAttempt \in 0..MaxRevisions
        /\ steps \in 0..RecursionLimit
    OBVIOUS
  <2>3. saved \in {"nothing", "match", "other"} /\ artifact \in {"nothing", "match", "other"}
    OBVIOUS
  <2> QED BY <2>1, <2>2, <2>3 DEF TypeOK, Statuses
<1>2. Caps /\ Judged /\ Stored /\ Closed
  BY DEF Caps, Judged, Stored, Closed
<1>3. Routing
  BY DEF Routing, Ready, Phases, NoPhase
<1>4. Metered
  BY DEF Metered, Spent, Attempts, RoundsSpent, DraftsSpent, OwedAnalysis, OwedReview,
         Count, Phases
<1> QED BY <1>1, <1>2, <1>3, <1>4 DEF WorkflowInv

\* The terms of the sum are natural numbers, in this state and in the next.
LEMMA SpentIsNatural ==
  /\ TypeOK /\ Caps =>
       Attempts \in Nat /\ RoundsSpent \in Nat /\ DraftsSpent \in Nat /\ Spent \in Nat
  /\ TypeOK' /\ Caps' =>
       Attempts' \in Nat /\ RoundsSpent' \in Nat /\ DraftsSpent' \in Nat /\ Spent' \in Nat
<1>1. TypeOK /\ Caps =>
        Attempts \in Nat /\ RoundsSpent \in Nat /\ DraftsSpent \in Nat /\ Spent \in Nat
  <2> SUFFICES ASSUME TypeOK, Caps
               PROVE  Attempts \in Nat /\ RoundsSpent \in Nat /\ DraftsSpent \in Nat
                      /\ Spent \in Nat
    OBVIOUS
  <2>1. \A p \in Phases : phaseAttempts[p] \in Nat
    BY WorkflowAssumption DEF TypeOK
  <2>2. Attempts \in Nat
    BY <2>1 DEF Attempts, Phases
  <2>3. RoundsSpent \in Nat
    BY WorkflowAssumption DEF TypeOK, Caps, Count, OwedAnalysis, RoundsSpent
  <2>4. DraftsSpent \in Nat
    BY WorkflowAssumption DEF TypeOK, Count, OwedReview, DraftsSpent
  <2> QED BY <2>2, <2>3, <2>4 DEF Spent
<1>2. (TypeOK /\ Caps =>
         Attempts \in Nat /\ RoundsSpent \in Nat /\ DraftsSpent \in Nat /\ Spent \in Nat)'
  BY <1>1, PTL
<1> QED BY <1>1, <1>2

\* The meter after the supervisor's step: nothing is spent by deciding.
LEMMA MeterAfterSupervise ==
  ASSUME WorkflowInv, node = "supervisor", steps' = steps + 1,
         TypeOK', Caps', Spent' >= Spent, node' # "supervisor"
  PROVE  Metered'
<1>1. Spent \in Nat /\ Spent' \in Nat
  BY SpentIsNatural DEF WorkflowInv
<1>2. steps \in Nat /\ steps <= 2 * Spent
  BY <1>1, WorkflowAssumption DEF WorkflowInv, TypeOK, Metered
<1>3. \A a, b, c \in Nat : a <= 2 * b /\ c >= b => a + 1 <= 2 * c + 1 /\ a + 1 <= 2 * c + 2
  OBVIOUS
<1>4. steps' <= 2 * Spent' + 1 /\ steps' <= 2 * Spent' + 2
  BY <1>1, <1>2, <1>3
<1> QED BY <1>4 DEF Metered

\* The meter after a phase: going through it spends one.
LEMMA MeterAfterPhase ==
  ASSUME WorkflowInv, node # "end", steps' = steps + 1,
         TypeOK', Caps', Spent' >= Spent + 1
  PROVE  Metered'
<1>1. Spent \in Nat /\ Spent' \in Nat
  BY SpentIsNatural DEF WorkflowInv
<1>2. steps \in Nat /\ steps <= 2 * Spent + 1
  BY <1>1, WorkflowAssumption DEF WorkflowInv, TypeOK, Metered
<1>3. \A a, b, c \in Nat : a <= 2 * b + 1 /\ c >= b + 1 =>
        a + 1 <= 2 * c /\ a + 1 <= 2 * c + 1 /\ a + 1 <= 2 * c + 2
  OBVIOUS
<1>4. steps' <= 2 * Spent' /\ steps' <= 2 * Spent' + 1 /\ steps' <= 2 * Spent' + 2
  BY <1>1, <1>2, <1>3
<1> QED BY <1>1, <1>4 DEF Metered

\* What holds while a phase is next.
LEMMA PhaseFacts ==
  ASSUME WorkflowInv, node \in Phases
  PROVE  /\ status = "running" /\ ~terminalFailure /\ failedPhase = NoPhase /\ ~errors
         /\ Ready(node)
         /\ \A p \in Phases : phaseAttempts[p] \in Nat /\ phaseAttempts[p] < MaxPhaseAttempts
<1>1. status = "running" /\ ~terminalFailure /\ failedPhase = NoPhase /\ Ready(node)
  BY DEF WorkflowInv, Routing
<1>2. \A p \in Phases : phaseAttempts[p] \in Nat
  BY WorkflowAssumption DEF WorkflowInv, TypeOK
<1> QED BY <1>1, <1>2 DEF WorkflowInv, Caps, Judged

\* A failed attempt is counted, owes the same work again, and is the last one
\* or may be retried.
LEMMA PhaseFailureKeepsInv ==
  ASSUME WorkflowInv, NEW p \in Phases, node = p, steps < RecursionLimit,
         steps' = steps + 1, run' = run, node' = "supervisor",
         PhaseFailure(p),
         papers' = papers, researchComplete' = researchComplete,
         researchRound' = researchRound, analysisComplete' = analysisComplete,
         finalReview' = finalReview, writingComplete' = writingComplete,
         needsRevision' = needsRevision, revisionAttempt' = revisionAttempt,
         peerReviewComplete' = peerReviewComplete, score' = score,
         saved' = saved \/ (p = "writing" /\ saved' = "other"), artifact' = artifact
  PROVE  WorkflowInv'
<1>1. /\ status = "running" /\ ~terminalFailure /\ failedPhase = NoPhase /\ ~errors
      /\ Ready(p)
      /\ \A q \in Phases : phaseAttempts[q] \in Nat /\ phaseAttempts[q] < MaxPhaseAttempts
  BY PhaseFacts
<1>2. TypeOK /\ Caps /\ Routing /\ Judged /\ Stored
  BY DEF WorkflowInv
<1>3. /\ phaseAttempts' = [phaseAttempts EXCEPT ![p] = @ + 1]
      /\ status' = "phase_failed" /\ failedPhase' = p
      /\ \/ terminalFailure' = TRUE /\ errors' = TRUE /\ warnings' = warnings
         \/ /\ terminalFailure' = FALSE /\ errors' = FALSE /\ warnings' = TRUE
            /\ phaseAttempts[p] + 1 < MaxPhaseAttempts
  <2>1. ~(phaseAttempts[p] + 1 >= MaxPhaseAttempts) => phaseAttempts[p] + 1 < MaxPhaseAttempts
    BY <1>1, WorkflowAssumption
  <2>2. errors = FALSE
    BY <1>1, <1>2 DEF TypeOK
  <2> QED BY <2>1, <2>2 DEF PhaseFailure
<1>4. TypeOK'
  <2>1. status' \in Statuses /\ failedPhase' \in Phases \cup {NoPhase}
    BY <1>3 DEF Statuses
  <2>2. terminalFailure' \in BOOLEAN /\ errors' \in BOOLEAN /\ warnings' \in BOOLEAN
    BY <1>2, <1>3 DEF TypeOK
  <2>3. phaseAttempts' \in [Phases -> 0..MaxPhaseAttempts]
    BY <1>1, <1>2, <1>3, WorkflowAssumption DEF TypeOK
  <2>4. node' \in Phases \cup {"supervisor", "finalize", "end"}
    OBVIOUS
  <2>5. steps' \in 0..RecursionLimit /\ run' \in {"running", "stopped"}
    BY <1>2, WorkflowAssumption DEF TypeOK
  <2>6. saved' \in {"nothing", "match", "other"} /\ artifact' \in {"nothing", "match", "other"}
    BY <1>2 DEF TypeOK
  <2> QED BY <1>2, <2>1, <2>2, <2>3, <2>4, <2>5, <2>6 DEF TypeOK
<1>5. Caps'
  <2>1. ~terminalFailure' => \A q \in Phases : phaseAttempts'[q] < MaxPhaseAttempts
    BY <1>1, <1>2, <1>3, WorkflowAssumption DEF TypeOK
  <2> QED BY <1>2, <2>1 DEF Caps
<1>6. Routing'
  BY <1>1, <1>2, <1>3 DEF Routing, Ready, Phases, NoPhase
<1>7. Judged' /\ Closed'
  BY <1>2, <1>3 DEF Judged, Closed
<1>8. Stored'
  BY <1>1, <1>2 DEF Stored, Ready
<1>9. Spent' >= Spent + 1
  <2>1. Attempts' = Attempts + 1
    BY <1>1, <1>2, <1>3 DEF Attempts, Phases, TypeOK
  <2>2. Count(OwedAnalysis') \in Int /\ Count(OwedAnalysis') <= Count(OwedAnalysis)
    BY <1>1, <1>3 DEF Count, OwedAnalysis
  <2>3. RoundsSpent' >= RoundsSpent
    BY <1>2, <2>2, WorkflowAssumption DEF RoundsSpent, TypeOK, Count
  <2>4. DraftsSpent' = DraftsSpent
    BY DEF DraftsSpent, OwedReview
  <2> QED BY <1>2, <1>4, <1>5, <2>1, <2>3, <2>4, SpentIsNatural DEF Spent
<1> QED BY <1>4, <1>5, <1>6, <1>7, <1>8, <1>9, MeterAfterPhase, <1>1 DEF WorkflowInv, Phases

\* A research round is one the cap allows and owes an analysis.
LEMMA ResearchKeepsInv == WorkflowInv /\ Research => WorkflowInv'
<1> SUFFICES ASSUME WorkflowInv, Research PROVE WorkflowInv'
  OBVIOUS
<1>1. /\ node = "research" /\ steps < RecursionLimit
      /\ steps' = steps + 1 /\ run' = run /\ node' = "supervisor"
      /\ finalReview' = finalReview /\ writingComplete' = writingComplete
      /\ needsRevision' = needsRevision /\ revisionAttempt' = revisionAttempt
      /\ peerReviewComplete' = peerReviewComplete /\ score' = score
      /\ saved' = saved /\ artifact' = artifact
  BY DEF Research, Visit, writingVars, reviewVars, tables
<1>2. CASE PhaseFailure("research") /\ UNCHANGED researchVars
  BY <1>1, <1>2, PhaseFailureKeepsInv DEF researchVars, Phases
<1>3. CASE ~(PhaseFailure("research") /\ UNCHANGED researchVars)
  <2>1. /\ failedPhase' = NoPhase /\ terminalFailure' = FALSE
        /\ phaseAttempts' = phaseAttempts /\ errors' = errors /\ warnings' = warnings
        /\ status' = "running" /\ papers' = TRUE /\ researchComplete' = TRUE
        /\ researchRound' = researchRound + 1 /\ analysisComplete' = analysisComplete
    BY <1>3 DEF Research, Succeeded
  <2>2. /\ status = "running" /\ ~terminalFailure /\ ~errors
        /\ ~researchComplete
    BY <1>1, PhaseFacts DEF Ready, Phases
  <2>3. TypeOK /\ Caps /\ Routing /\ Judged /\ Stored
    BY DEF WorkflowInv
  <2>4. researchRound' \in 1..MaxResearchRounds /\ steps' \in 0..RecursionLimit
    BY <1>1, <2>1, <2>2, <2>3, WorkflowAssumption DEF TypeOK, Caps
  <2>5. TypeOK'
    <3>1. RetryTypes'
      BY <2>1, <2>3, TypeInGroups DEF RetryTypes
    <3>2. ResearchTypes'
      BY <2>1, <2>3, <2>4, TypeInGroups DEF ResearchTypes
    <3>3. WritingTypes'
      BY <1>1, <2>3, TypeInGroups DEF WritingTypes
    <3>4. RunTypes' /\ TableTypes'
      BY <1>1, <2>1, <2>3, <2>4, TypeInGroups DEF RunTypes, TableTypes, Statuses
    <3> QED BY <3>1, <3>2, <3>3, <3>4, TypeInGroups
  <2>6. Caps'
    BY <1>1, <2>1, <2>2, <2>3, <2>4 DEF Caps
  <2>7. Routing'
    BY <1>1, <2>1, <2>2, <2>3 DEF Routing, Ready, Phases, NoPhase
  <2>8. Judged' /\ Stored' /\ Closed'
    BY <1>1, <2>1, <2>2, <2>3 DEF Judged, Stored, Closed
  <2>9. Spent' >= Spent + 1
    <3>1. OwedAnalysis' /\ ~OwedAnalysis
      BY <2>1, <2>2, <2>3 DEF OwedAnalysis, Routing
    <3>2. RoundsSpent' = RoundsSpent + 1
      BY <2>1, <2>3, <3>1, WorkflowAssumption DEF RoundsSpent, TypeOK, Count
    <3>3. Attempts' = Attempts /\ DraftsSpent' = DraftsSpent
      BY <1>1, <2>1 DEF Attempts, DraftsSpent, OwedReview
    <3> QED BY <2>3, <2>5, <2>6, <3>2, <3>3, SpentIsNatural DEF Spent
  <2> QED BY <1>1, <2>5, <2>6, <2>7, <2>8, <2>9, MeterAfterPhase DEF WorkflowInv
<1> QED BY <1>2, <1>3

\* An analysis is owed, and asks for another round or clears the way to writing.
LEMMA AnalyseKeepsInv == WorkflowInv /\ Analyse => WorkflowInv'
<1> SUFFICES ASSUME WorkflowInv, Analyse PROVE WorkflowInv'
  OBVIOUS
<1>1. /\ node = "analysis" /\ steps < RecursionLimit
      /\ steps' = steps + 1 /\ run' = run /\ node' = "supervisor"
      /\ finalReview' = finalReview /\ writingComplete' = writingComplete
      /\ needsRevision' = needsRevision /\ revisionAttempt' = revisionAttempt
      /\ peerReviewComplete' = peerReviewComplete /\ score' = score
      /\ saved' = saved /\ artifact' = artifact
  BY DEF Analyse, Visit, writingVars, reviewVars, tables
<1>2. CASE PhaseFailure("analysis") /\ UNCHANGED researchVars
  BY <1>1, <1>2, PhaseFailureKeepsInv DEF researchVars, Phases
<1>3. CASE ~(PhaseFailure("analysis") /\ UNCHANGED researchVars)
  <2>1. /\ failedPhase' = NoPhase /\ terminalFailure' = FALSE
        /\ phaseAttempts' = phaseAttempts /\ errors' = errors /\ warnings' \in {warnings, TRUE}
        /\ papers' = papers /\ researchComplete' = researchComplete
        /\ researchRound' = researchRound
        /\ \/ status' = "needs_more_research" /\ analysisComplete' = FALSE
           \/ status' = "running" /\ analysisComplete' = TRUE
    BY <1>3 DEF Analyse, Succeeded
  <2>2. /\ status = "running" /\ ~terminalFailure /\ ~errors
        /\ researchComplete /\ ~analysisComplete
    BY <1>1, PhaseFacts DEF Ready, Phases
  <2>3. TypeOK /\ Caps /\ Routing /\ Judged /\ Stored
    BY DEF WorkflowInv
  <2>4. steps' \in 0..RecursionLimit
    BY <1>1, <2>3, WorkflowAssumption DEF TypeOK
  <2>5. TypeOK'
    <3>1. RetryTypes'
      BY <2>1, <2>3, TypeInGroups DEF RetryTypes
    <3>2. ResearchTypes'
      BY <2>1, <2>3, TypeInGroups DEF ResearchTypes
    <3>3. WritingTypes'
      BY <1>1, <2>3, TypeInGroups DEF WritingTypes
    <3>4. RunTypes' /\ TableTypes'
      BY <1>1, <2>1, <2>3, <2>4, TypeInGroups DEF RunTypes, TableTypes, Statuses
    <3> QED BY <3>1, <3>2, <3>3, <3>4, TypeInGroups
  <2>6. Caps'
    BY <1>1, <2>1, <2>2, <2>3 DEF Caps
  <2>7. Routing'
    BY <1>1, <2>1, <2>2, <2>3 DEF Routing, Ready, Phases, NoPhase
  <2>8. Judged' /\ Stored' /\ Closed'
    BY <1>1, <2>1, <2>2, <2>3 DEF Judged, Stored, Closed
  <2>9. Spent' >= Spent + 1
    <3>1. ~OwedAnalysis' /\ OwedAnalysis
      BY <2>1, <2>2 DEF OwedAnalysis
    <3>2. RoundsSpent' = RoundsSpent + 1
      BY <2>1, <2>3, <3>1, WorkflowAssumption DEF RoundsSpent, TypeOK, Count
    <3>3. Attempts' = Attempts /\ DraftsSpent' = DraftsSpent
      BY <1>1, <2>1 DEF Attempts, DraftsSpent, OwedReview
    <3> QED BY <2>3, <2>5, <2>6, <3>2, <3>3, SpentIsNatural DEF Spent
  <2> QED BY <1>1, <2>5, <2>6, <2>7, <2>8, <2>9, MeterAfterPhase DEF WorkflowInv
<1> QED BY <1>2, <1>3

\* A draft is the first one or a revision that the cap allows; it is saved and
\* owes a peer review.
LEMMA WriteKeepsInv == WorkflowInv /\ Write => WorkflowInv'
<1> SUFFICES ASSUME WorkflowInv, Write PROVE WorkflowInv'
  OBVIOUS
<1>1. /\ node = "writing" /\ steps < RecursionLimit
      /\ steps' = steps + 1 /\ run' = run /\ node' = "supervisor"
      /\ papers' = papers /\ researchComplete' = researchComplete
      /\ researchRound' = researchRound /\ analysisComplete' = analysisComplete
  BY DEF Write, Visit, researchVars
<1>2. CASE /\ PhaseFailure("writing") /\ PersistDraft
           /\ UNCHANGED <<writingVars, reviewVars, artifact>>
  BY <1>1, <1>2, PhaseFailureKeepsInv DEF writingVars, reviewVars, PersistDraft, Phases
<1>3. CASE ~(PhaseFailure("writing") /\ PersistDraft
             /\ UNCHANGED <<writingVars, reviewVars, artifact>>)
  <2>1. /\ failedPhase' = NoPhase /\ terminalFailure' = FALSE
        /\ phaseAttempts' = phaseAttempts /\ errors' = errors /\ warnings' = warnings
        /\ status' = "running" /\ finalReview' = TRUE /\ writingComplete' = TRUE
        /\ needsRevision' = FALSE /\ peerReviewComplete' = FALSE
        /\ revisionAttempt' = IF needsRevision THEN revisionAttempt + 1 ELSE revisionAttempt
        /\ score' \in {"none", "stale"} /\ saved' = "match"
        /\ artifact' \in {"other", artifact}
    BY <1>3 DEF Write, Succeeded
  <2>2. /\ status = "running" /\ ~terminalFailure /\ ~errors
        /\ ~finalReview \/ needsRevision
    BY <1>1, PhaseFacts DEF Ready, Phases
  <2>3. TypeOK /\ Caps /\ Routing /\ Judged
    BY DEF WorkflowInv
  <2>4. steps' \in 0..RecursionLimit /\ revisionAttempt' \in 0..MaxRevisions
    BY <1>1, <2>1, <2>3, WorkflowAssumption DEF TypeOK, Caps
  <2>5. TypeOK'
    <3>1. RetryTypes'
      BY <2>1, <2>3, TypeInGroups DEF RetryTypes
    <3>2. ResearchTypes'
      BY <1>1, <2>3, TypeInGroups DEF ResearchTypes
    <3>3. WritingTypes'
      BY <2>1, <2>4 DEF WritingTypes
    <3>4. RunTypes' /\ TableTypes'
      BY <1>1, <2>1, <2>3, <2>4, TypeInGroups DEF RunTypes, TableTypes, Statuses
    <3> QED BY <3>1, <3>2, <3>3, <3>4, TypeInGroups
  <2>6. Caps'
    BY <1>1, <2>1, <2>2, <2>3 DEF Caps
  <2>7. Routing'
    BY <1>1, <2>1, <2>2, <2>3 DEF Routing, Ready, Phases, NoPhase
  <2>8. Judged' /\ Stored' /\ Closed'
    BY <1>1, <2>1, <2>2, <2>3 DEF Judged, Stored, Closed
  <2>9. Spent' >= Spent + 1
    <3>1. OwedReview' /\ ~OwedReview
      BY <2>1, <2>2 DEF OwedReview
    <3>2. Count(finalReview') = 1 /\ (needsRevision => Count(finalReview) = 1)
          /\ (~needsRevision => Count(finalReview) = 0)
      BY <2>1, <2>2, <2>3 DEF Count, Routing
    <3>3. DraftsSpent' = DraftsSpent + 1
      BY <2>1, <2>3, <3>1, <3>2, WorkflowAssumption DEF DraftsSpent, TypeOK, Count
    <3>4. Attempts' = Attempts /\ RoundsSpent' = RoundsSpent
      BY <1>1, <2>1, <2>2 DEF Attempts, RoundsSpent, OwedAnalysis
    <3> QED BY <2>3, <2>5, <2>6, <3>3, <3>4, SpentIsNatural DEF Spent
  <2> QED BY <1>1, <2>5, <2>6, <2>7, <2>8, <2>9, MeterAfterPhase DEF WorkflowInv
<1> QED BY <1>2, <1>3

\* A peer review is owed; it asks for a revision that the cap allows, or closes.
LEMMA PeerReviewKeepsInv == WorkflowInv /\ PeerReview => WorkflowInv'
<1> SUFFICES ASSUME WorkflowInv, PeerReview PROVE WorkflowInv'
  OBVIOUS
<1>1. /\ node = "peer_review" /\ steps < RecursionLimit
      /\ steps' = steps + 1 /\ run' = run /\ node' = "supervisor"
      /\ papers' = papers /\ researchComplete' = researchComplete
      /\ researchRound' = researchRound /\ analysisComplete' = analysisComplete
      /\ finalReview' = finalReview /\ writingComplete' = writingComplete
      /\ revisionAttempt' = revisionAttempt /\ saved' = saved /\ artifact' = artifact
  BY DEF PeerReview, Visit, researchVars, tables
<1>2. CASE PhaseFailure("peer_review") /\ UNCHANGED <<needsRevision, reviewVars>>
  BY <1>1, <1>2, PhaseFailureKeepsInv DEF reviewVars, Phases
<1>3. CASE ~(PhaseFailure("peer_review") /\ UNCHANGED <<needsRevision, reviewVars>>)
  <2>1. /\ failedPhase' = NoPhase
        /\ phaseAttempts' = phaseAttempts /\ errors' = errors
        /\ LowScore \/ GoodScore
    BY <1>3 DEF PeerReview
  <2>2. /\ status = "running" /\ terminalFailure = FALSE /\ ~errors
        /\ finalReview /\ ~peerReviewComplete /\ ~needsRevision
    BY <1>1, PhaseFacts DEF Ready, Phases, WorkflowInv, TypeOK
  <2>3. TypeOK /\ Caps /\ Routing /\ Judged /\ Stored
    BY DEF WorkflowInv
  <2>4. /\ steps' \in 0..RecursionLimit
        /\ ~(revisionAttempt >= MaxRevisions) <=> revisionAttempt < MaxRevisions
    BY <1>1, <2>3, WorkflowAssumption DEF TypeOK
  <2>5. /\ terminalFailure' = FALSE
        /\ \/ /\ score' = "fail" /\ status' = "needs_revision" /\ peerReviewComplete' = FALSE
              /\ needsRevision' = TRUE /\ warnings' = warnings
              /\ revisionAttempt < MaxRevisions
           \/ /\ score' = "fail" /\ status' = "completed_with_warnings"
              /\ peerReviewComplete' = TRUE /\ needsRevision' = FALSE /\ warnings' = TRUE
           \/ /\ score' = "pass" /\ status' = "running" /\ peerReviewComplete' = TRUE
              /\ needsRevision' = FALSE /\ warnings' = warnings
    BY <2>1, <2>2 DEF LowScore, GoodScore
  <2>6. TypeOK'
    <3>1. RetryTypes'
      BY <2>1, <2>3, <2>5, TypeInGroups DEF RetryTypes
    <3>2. ResearchTypes'
      BY <1>1, <2>3, TypeInGroups DEF ResearchTypes
    <3>3. WritingTypes'
      BY <1>1, <2>3, <2>5, TypeInGroups DEF WritingTypes
    <3>4. RunTypes' /\ TableTypes'
      BY <1>1, <2>3, <2>4, <2>5, TypeInGroups DEF RunTypes, TableTypes, Statuses
    <3> QED BY <3>1, <3>2, <3>3, <3>4, TypeInGroups
  <2>7. Caps'
    BY <1>1, <2>1, <2>2, <2>3, <2>5 DEF Caps
  <2>8. Routing'
    BY <1>1, <2>1, <2>2, <2>3, <2>5 DEF Routing, Ready, Phases, NoPhase
  <2>9. Judged' /\ Stored' /\ Closed'
    BY <1>1, <2>1, <2>2, <2>3, <2>5 DEF Judged, Stored, Closed
  <2>10. Spent' >= Spent + 1
    <3>1. ~OwedReview' /\ OwedReview
      BY <1>1, <2>2, <2>5 DEF OwedReview
    <3>2. DraftsSpent' = DraftsSpent + 1
      BY <1>1, <2>2, <2>3, <3>1, WorkflowAssumption DEF DraftsSpent, TypeOK, Count
    <3>3. Attempts' = Attempts /\ RoundsSpent' = RoundsSpent
      BY <1>1, <2>1, <2>2, <2>5 DEF Attempts, RoundsSpent, OwedAnalysis
    <3> QED BY <2>3, <2>6, <2>7, <3>2, <3>3, SpentIsNatural DEF Spent
  <2> QED BY <1>1, <2>6, <2>7, <2>8, <2>9, <2>10, MeterAfterPhase DEF WorkflowInv
<1> QED BY <1>2, <1>3

\* The supervisor's decision leads to a phase only if its work is owed and
\* its cap is not reached; a failed attempt of a phase is retried at most to
\* that cap.
LEMMA SuperviseKeepsInv == WorkflowInv /\ Supervise => WorkflowInv'
<1> SUFFICES ASSUME WorkflowInv, Supervise PROVE WorkflowInv'
  OBVIOUS
<1> DEFINE decision == DecideNextPhase
<1>1. /\ node = "supervisor" /\ steps < RecursionLimit
      /\ steps' = steps + 1 /\ run' = run /\ node' = decision
      /\ score' = score /\ saved' = saved /\ artifact' = artifact
      /\ finalReview' = finalReview /\ revisionAttempt' = revisionAttempt
      /\ phaseAttempts' = phaseAttempts /\ papers' = papers
      /\ researchRound' = researchRound
  BY DEF Supervise, Visit, SupplementResearch, RetryPhase, Revise, Advance,
         retryVars, researchVars, writingVars, tables
<1>2. \/ SupplementResearch(decision) \/ RetryPhase(decision)
      \/ Revise(decision) \/ Advance(decision)
  BY DEF Supervise
<1>3. TypeOK /\ Caps /\ Routing /\ Judged /\ Stored
  BY DEF WorkflowInv
<1>4. /\ TableTypes'
      /\ steps' \in 0..RecursionLimit /\ run' \in {"running", "stopped"}
  BY <1>1, <1>3, WorkflowAssumption DEF TypeOK, TableTypes
<1>5. CASE SupplementResearch(decision)
  <2>1. /\ status = "needs_more_research" /\ failedPhase = NoPhase
        /\ researchComplete /\ ~analysisComplete /\ ~terminalFailure
    BY <1>1, <1>3, <1>5 DEF SupplementResearch, Routing
  <2>2. decision \in {"research", "finalize"}
        /\ (decision = "research" => researchRound < MaxResearchRounds)
    BY <2>1 DEF DecideNextPhase, RoundsLeft
  <2> HIDE DEF decision
  <2>3. /\ failedPhase' = failedPhase /\ warnings' = warnings
        /\ writingComplete' = writingComplete
        /\ needsRevision' = needsRevision /\ peerReviewComplete' = peerReviewComplete
        /\ \/ /\ decision = "research" /\ status' = "running"
              /\ researchComplete' = FALSE /\ analysisComplete' = FALSE
              /\ terminalFailure' = terminalFailure /\ errors' = errors
           \/ /\ decision = "finalize" /\ status' = "failed"
              /\ terminalFailure' = TRUE /\ errors' = TRUE
              /\ researchComplete' = researchComplete /\ analysisComplete' = analysisComplete
    BY <1>5 DEF SupplementResearch, retryVars, researchVars, writingVars
  <2>4. TypeOK'
    <3>1. RetryTypes'
      BY <1>1, <1>3, <2>3, TypeInGroups DEF RetryTypes
    <3>2. ResearchTypes'
      BY <1>1, <1>3, <2>3, TypeInGroups DEF ResearchTypes
    <3>3. WritingTypes'
      BY <1>1, <1>3, <2>3, TypeInGroups DEF WritingTypes
    <3>4. RunTypes'
      BY <1>1, <1>4, <2>2, <2>3 DEF RunTypes, Statuses, Phases
    <3> QED BY <1>4, <3>1, <3>2, <3>3, <3>4, TypeInGroups
  <2>5. Caps'
    BY <1>1, <1>3, <2>1, <2>2, <2>3 DEF Caps
  <2>6. Routing'
    <3>1. CASE decision = "research"
      BY <1>1, <1>3, <2>1, <2>3, <3>1 DEF Routing, Ready, Phases, NoPhase
    <3>2. CASE decision = "finalize"
      BY <1>1, <1>3, <2>1, <2>3, <3>2 DEF Routing, Ready, Phases, NoPhase
    <3> QED BY <2>2, <3>1, <3>2
  <2>7. Judged' /\ Stored' /\ Closed'
    <3>1. node' # "end"
      BY <1>1, <2>2
    <3>2. Judged'
      <4>1. errors' => terminalFailure'
        BY <1>3, <2>3 DEF Judged
      <4> QED BY <1>1, <1>3, <2>3, <4>1 DEF Judged
    <3>3. Stored' /\ Closed'
      BY <1>1, <1>3, <2>1, <2>3, <3>1 DEF Stored, Closed
    <3> QED BY <3>2, <3>3
  <2>8. Spent' >= Spent
    <3>1. ~OwedAnalysis /\ ~OwedAnalysis'
      BY <2>1, <2>3 DEF OwedAnalysis
    <3>2. RoundsSpent' = RoundsSpent
      BY <1>1, <3>1 DEF RoundsSpent, Count
    <3>3. Attempts' = Attempts /\ DraftsSpent' = DraftsSpent
      BY <1>1, <2>3 DEF Attempts, DraftsSpent, OwedReview
    <3> QED BY <1>3, <2>4, <2>5, <3>2, <3>3, SpentIsNatural DEF Spent
  <2> QED
    BY <1>1, <2>2, <2>4, <2>5, <2>6, <2>7, <2>8, MeterAfterSupervise DEF WorkflowInv
<1>6. CASE RetryPhase(decision)
  <2>1. status # "needs_more_research" /\ failedPhase \in Phases /\ Ready(failedPhase)
    BY <1>3, <1>6 DEF RetryPhase, TypeOK, Routing
  <2>2. /\ decision \in {failedPhase, "finalize"}
        /\ decision = failedPhase => ~terminalFailure
    BY <2>1 DEF DecideNextPhase, Retryable, Phases, NoPhase
  <2> HIDE DEF decision
  <2>3. /\ warnings' = warnings /\ errors' = errors
        /\ researchComplete' = researchComplete /\ analysisComplete' = analysisComplete
        /\ writingComplete' = writingComplete
        /\ needsRevision' = needsRevision /\ peerReviewComplete' = peerReviewComplete
        /\ \/ /\ decision = failedPhase /\ status' = "running" /\ failedPhase' = NoPhase
              /\ terminalFailure' = terminalFailure
           \/ /\ decision = "finalize" /\ status' = "failed" /\ terminalFailure' = TRUE
              /\ failedPhase' = failedPhase
    BY <1>6, <2>2 DEF RetryPhase, researchVars, writingVars
  <2>4. TypeOK'
    <3>1. RetryTypes'
      BY <1>1, <1>3, <2>3, TypeInGroups DEF RetryTypes
    <3>2. ResearchTypes'
      BY <1>1, <1>3, <2>3, TypeInGroups DEF ResearchTypes
    <3>3. WritingTypes'
      BY <1>1, <1>3, <2>3, TypeInGroups DEF WritingTypes
    <3>4. RunTypes'
      BY <1>1, <1>4, <2>1, <2>2, <2>3 DEF RunTypes, Statuses, Phases
    <3> QED BY <1>4, <3>1, <3>2, <3>3, <3>4, TypeInGroups
  <2>5. Caps'
    BY <1>1, <1>3, <2>2, <2>3 DEF Caps
  <2>6. Routing'
    BY <1>1, <1>3, <2>1, <2>2, <2>3 DEF Routing, Ready, Phases, NoPhase
  <2>7. Judged' /\ Stored' /\ Closed'
    BY <1>1, <1>3, <2>1, <2>2, <2>3 DEF Judged, Stored, Closed, Phases
  <2>8. Spent' >= Spent
    <3>1. Count(OwedAnalysis') \in Int /\ Count(OwedAnalysis') <= Count(OwedAnalysis)
      BY <2>1, <2>3 DEF Count, OwedAnalysis
    <3>2. RoundsSpent' >= RoundsSpent
      BY <1>1, <1>3, <3>1, WorkflowAssumption DEF RoundsSpent, TypeOK, Count
    <3>3. Attempts' = Attempts /\ DraftsSpent' = DraftsSpent
      BY <1>1, <2>3 DEF Attempts, DraftsSpent, OwedReview
    <3> QED BY <1>3, <2>4, <2>5, <3>2, <3>3, SpentIsNatural DEF Spent
  <2>9. node' # "supervisor"
    BY <1>1, <2>1, <2>2 DEF Phases
  <2> QED
    BY <1>1, <2>4, <2>5, <2>6, <2>7, <2>8, <2>9, MeterAfterSupervise DEF WorkflowInv
<1>7. CASE Revise(decision)
  <2>1. /\ status # "needs_more_research" /\ failedPhase = NoPhase /\ ~terminalFailure
        /\ needsRevision /\ finalReview /\ revisionAttempt < MaxRevisions
    BY <1>1, <1>3, <1>7 DEF Revise, RevisionDue, Routing, Caps
  <2>2. decision = "writing"
    BY <2>1 DEF DecideNextPhase, RevisionDue
  <2> HIDE DEF decision
  <2>3. /\ failedPhase' = failedPhase /\ warnings' = warnings /\ errors' = errors
        /\ terminalFailure' = terminalFailure /\ needsRevision' = needsRevision
        /\ researchComplete' = researchComplete /\ analysisComplete' = analysisComplete
        /\ status' = "running" /\ writingComplete' = FALSE /\ peerReviewComplete' = FALSE
    BY <1>7, <2>2 DEF Revise, researchVars
  <2>4. TypeOK'
    <3>1. RetryTypes'
      BY <1>1, <1>3, <2>3, TypeInGroups DEF RetryTypes
    <3>2. ResearchTypes'
      BY <1>1, <1>3, <2>3, TypeInGroups DEF ResearchTypes
    <3>3. WritingTypes'
      BY <1>1, <1>3, <2>3, TypeInGroups DEF WritingTypes
    <3>4. RunTypes'
      BY <1>1, <1>4, <2>2, <2>3 DEF RunTypes, Statuses, Phases
    <3> QED BY <1>4, <3>1, <3>2, <3>3, <3>4, TypeInGroups
  <2>5. Caps'
    BY <1>1, <1>3, <2>3 DEF Caps
  <2>6. Routing'
    BY <1>1, <1>3, <2>1, <2>2, <2>3 DEF Routing, Ready, Phases, NoPhase
  <2>7. Judged' /\ Stored' /\ Closed'
    BY <1>1, <1>3, <2>1, <2>2, <2>3 DEF Judged, Stored, Closed
  <2>8. Spent' >= Spent
    <3>1. OwedAnalysis' = OwedAnalysis /\ ~OwedReview /\ ~OwedReview'
      BY <1>1, <2>1, <2>3 DEF OwedAnalysis, OwedReview
    <3>2. Attempts' = Attempts /\ RoundsSpent' = RoundsSpent /\ DraftsSpent' = DraftsSpent
      BY <1>1, <3>1 DEF Attempts, RoundsSpent, DraftsSpent, Count
    <3> QED BY <1>3, <2>4, <2>5, <3>2, SpentIsNatural DEF Spent
  <2> QED
    BY <1>1, <2>2, <2>4, <2>5, <2>6, <2>7, <2>8, MeterAfterSupervise DEF WorkflowInv
<1>8. CASE Advance(decision)
  <2>1. /\ status # "needs_more_research" /\ failedPhase = NoPhase /\ ~terminalFailure
        /\ ~needsRevision /\ status # "needs_revision"
    BY <1>1, <1>3, <1>8 DEF Advance, RevisionDue, Routing
  <2>2. decision = IF ~researchComplete \/ ~papers THEN "research"
                   ELSE IF ~analysisComplete THEN "analysis"
                   ELSE IF ~writingComplete \/ ~finalReview THEN "writing"
                   ELSE IF ~peerReviewComplete THEN "peer_review" ELSE "finalize"
    BY <2>1 DEF DecideNextPhase, RevisionDue
  <2>3. /\ decision = "research" => ~researchComplete
        /\ decision = "analysis" => researchComplete /\ ~analysisComplete
        /\ decision = "writing" => ~finalReview
        /\ decision = "peer_review" => finalReview /\ ~peerReviewComplete
        /\ decision = "finalize" => finalReview /\ peerReviewComplete
        /\ decision \in Phases \cup {"finalize"}
    BY <1>3, <2>1, <2>2 DEF Caps, Routing, Phases
  <2> HIDE DEF decision
  <2>4. /\ failedPhase' = failedPhase /\ warnings' = warnings /\ errors' = errors
        /\ terminalFailure' = terminalFailure /\ needsRevision' = needsRevision
        /\ researchComplete' = researchComplete /\ analysisComplete' = analysisComplete
        /\ writingComplete' = writingComplete /\ peerReviewComplete' = peerReviewComplete
        /\ status' = IF decision = "finalize" THEN "finalizing" ELSE "running"
    BY <1>8 DEF Advance, retryVars, researchVars, writingVars
  <2>5. TypeOK'
    <3>1. RetryTypes'
      BY <1>1, <1>3, <2>4, TypeInGroups DEF RetryTypes
    <3>2. ResearchTypes'
      BY <1>1, <1>3, <2>4, TypeInGroups DEF ResearchTypes
    <3>3. WritingTypes'
      BY <1>1, <1>3, <2>4, TypeInGroups DEF WritingTypes
    <3>4. RunTypes'
      BY <1>1, <1>4, <2>3, <2>4 DEF RunTypes, Statuses, Phases
    <3> QED BY <1>4, <3>1, <3>2, <3>3, <3>4, TypeInGroups
  <2>6. Caps'
    BY <1>1, <1>3, <2>4 DEF Caps
  <2>7. Routing'
    BY <1>1, <1>3, <2>1, <2>3, <2>4 DEF Routing, Ready, Phases, NoPhase
  <2>8. Judged' /\ Stored' /\ Closed'
    BY <1>1, <1>3, <2>1, <2>3, <2>4 DEF Judged, Stored, Closed, Phases
  <2>9. Spent' >= Spent
    <3>1. OwedAnalysis' = OwedAnalysis /\ OwedReview' = OwedReview
      BY <1>1, <2>1, <2>4 DEF OwedAnalysis, OwedReview
    <3>2. Attempts' = Attempts /\ RoundsSpent' = RoundsSpent /\ DraftsSpent' = DraftsSpent
      BY <1>1, <3>1 DEF Attempts, RoundsSpent, DraftsSpent
    <3> QED BY <1>3, <2>5, <2>6, <3>2, SpentIsNatural DEF Spent
  <2>10. node' # "supervisor"
    BY <1>1, <2>3 DEF Phases
  <2> QED
    BY <1>1, <2>5, <2>6, <2>7, <2>8, <2>9, <2>10, MeterAfterSupervise DEF WorkflowInv
<1> QED BY <1>2, <1>5, <1>6, <1>7, <1>8

\* What finalize reports is what the state says, and the artifact is written.
LEMMA FinalizeKeepsInv == WorkflowInv /\ Finalize => WorkflowInv'
<1> SUFFICES ASSUME WorkflowInv, Finalize PROVE WorkflowInv'
  OBVIOUS
<1>1. /\ node = "finalize" /\ steps < RecursionLimit
      /\ steps' = steps + 1 /\ run' = run /\ node' = "end"
      /\ failedPhase' = failedPhase /\ terminalFailure' = terminalFailure
      /\ phaseAttempts' = phaseAttempts /\ warnings' = warnings /\ errors' = errors
      /\ papers' = papers /\ researchComplete' = researchComplete
      /\ researchRound' = researchRound /\ analysisComplete' = analysisComplete
      /\ finalReview' = finalReview /\ writingComplete' = writingComplete
      /\ needsRevision' = needsRevision /\ revisionAttempt' = revisionAttempt
      /\ peerReviewComplete' = peerReviewComplete /\ score' = score
      /\ saved' = saved
      /\ artifact' = IF finalReview THEN "match" ELSE artifact
  BY DEF Finalize, Visit, SaveArtifact, retryVars, researchVars, writingVars, reviewVars
<1>2. /\ status' \in {"completed", "completed_with_warnings", "failed"}
      /\ status' # "failed" => ~terminalFailure /\ finalReview
      /\ status' = "completed" => ~warnings
  BY DEF Finalize, FinalStatus
<1>3. TypeOK /\ Caps /\ Routing /\ Judged /\ Stored
  BY DEF WorkflowInv
<1>4. steps' \in 0..RecursionLimit
  BY <1>1, <1>3, WorkflowAssumption DEF TypeOK
<1>5. TypeOK'
  <2>1. RetryTypes'
    BY <1>1, <1>3, TypeInGroups DEF RetryTypes
  <2>2. ResearchTypes'
    BY <1>1, <1>3, TypeInGroups DEF ResearchTypes
  <2>3. WritingTypes'
    BY <1>1, <1>3, TypeInGroups DEF WritingTypes
  <2>4. RunTypes' /\ TableTypes'
    BY <1>1, <1>2, <1>3, <1>4, TypeInGroups DEF RunTypes, TableTypes, Statuses
  <2> QED BY <2>1, <2>2, <2>3, <2>4, TypeInGroups
<1>6. Caps' /\ Judged' /\ Stored'
  BY <1>1, <1>3 DEF Caps, Judged, Stored
<1>7. Routing'
  BY <1>1, <1>2, <1>3 DEF Routing, Ready, Phases, NoPhase
<1>8. Closed'
  BY <1>1, <1>2, <1>3 DEF Closed, Routing
<1>9. Metered'
  <2>1. OwedAnalysis' = OwedAnalysis /\ OwedReview' = OwedReview
    BY <1>1, <1>2, <1>3 DEF OwedAnalysis, OwedReview, Routing
  <2>2. Spent' = Spent
    BY <1>1, <2>1 DEF Spent, Attempts, RoundsSpent, DraftsSpent
  <2>3. Spent \in Nat /\ steps \in Nat /\ steps <= 2 * Spent + 1
    BY <1>1, <1>3, SpentIsNatural, WorkflowAssumption DEF WorkflowInv, TypeOK, Metered
  <2> QED BY <1>1, <2>2, <2>3 DEF Metered
<1> QED BY <1>5, <1>6, <1>7, <1>8, <1>9 DEF WorkflowInv

\* An invocation that is cut short may leave sections of an unfinished draft,
\* or a review that finalize was about to report; the rest of the state is that
\* of the checkpoint.
LEMMA StopKeepsInv == WorkflowInv /\ Stop => WorkflowInv'
<1> SUFFICES ASSUME WorkflowInv, Stop PROVE WorkflowInv'
  OBVIOUS
<1>1. /\ node # "end" /\ run' = "stopped"
      /\ status' = status /\ node' = node /\ steps' = steps
      /\ failedPhase' = failedPhase /\ terminalFailure' = terminalFailure
      /\ phaseAttempts' = phaseAttempts /\ warnings' = warnings /\ errors' = errors
      /\ papers' = papers /\ researchComplete' = researchComplete
      /\ researchRound' = researchRound /\ analysisComplete' = analysisComplete
      /\ finalReview' = finalReview /\ writingComplete' = writingComplete
      /\ needsRevision' = needsRevision /\ revisionAttempt' = revisionAttempt
      /\ peerReviewComplete' = peerReviewComplete /\ score' = score
      /\ saved' = saved \/ (node = "writing" /\ saved' = "other")
      /\ artifact' \in {artifact, "match"}
  BY DEF Stop, PersistDraft, SaveArtifact, retryVars, researchVars, writingVars, reviewVars
<1>2. TypeOK /\ Caps /\ Routing /\ Judged /\ Stored
  BY DEF WorkflowInv
<1>3. TypeOK'
  <2>1. RetryTypes'
    BY <1>1, <1>2, TypeInGroups DEF RetryTypes
  <2>2. ResearchTypes'
    BY <1>1, <1>2, TypeInGroups DEF ResearchTypes
  <2>3. WritingTypes'
    BY <1>1, <1>2, TypeInGroups DEF WritingTypes
  <2>4. RunTypes' /\ TableTypes'
    BY <1>1, <1>2, TypeInGroups DEF RunTypes, TableTypes
  <2> QED BY <2>1, <2>2, <2>3, <2>4, TypeInGroups
<1>4. Caps' /\ Judged' /\ Closed'
  BY <1>1, <1>2 DEF Caps, Judged, Closed
<1>5. Routing'
  BY <1>1, <1>2 DEF Routing, Ready
<1>6. Stored'
  <2>1. node = "writing" => ~finalReview \/ needsRevision
    BY <1>2 DEF Routing, Ready, Phases
  <2> QED BY <1>1, <1>2, <2>1 DEF Stored
<1>7. Metered'
  <2>1. Spent' = Spent
    BY <1>1 DEF Spent, Attempts, RoundsSpent, DraftsSpent, OwedAnalysis, OwedReview
  <2> QED BY <1>1, <2>1 DEF Metered, WorkflowInv
<1> QED BY <1>3, <1>4, <1>5, <1>6, <1>7 DEF WorkflowInv

\* The next invocation starts from the checkpoint with its steps at zero.
LEMMA ResumeKeepsInv == WorkflowInv /\ Resume => WorkflowInv'
<1> SUFFICES ASSUME WorkflowInv, Resume PROVE WorkflowInv'
  OBVIOUS
<1>1. /\ run' = "running" /\ steps' = 0
      /\ status' = status /\ node' = node
      /\ failedPhase' = failedPhase /\ terminalFailure' = terminalFailure
      /\ phaseAttempts' = phaseAttempts /\ warnings' = warnings /\ errors' = errors
      /\ papers' = papers /\ researchComplete' = researchComplete
      /\ researchRound' = researchRound /\ analysisComplete' = analysisComplete
      /\ finalReview' = finalReview /\ writingComplete' = writingComplete
      /\ needsRevision' = needsRevision /\ revisionAttempt' = revisionAttempt
      /\ peerReviewComplete' = peerReviewComplete /\ score' = score
      /\ saved' = saved /\ artifact' = artifact
  BY DEF Resume, retryVars, researchVars, writingVars, reviewVars, tables
<1>2. TypeOK /\ Caps /\ Routing /\ Judged /\ Stored /\ Closed
  BY DEF WorkflowInv
<1>3. TypeOK'
  <2>1. RetryTypes'
    BY <1>1, <1>2, TypeInGroups DEF RetryTypes
  <2>2. ResearchTypes'
    BY <1>1, <1>2, TypeInGroups DEF ResearchTypes
  <2>3. WritingTypes'
    BY <1>1, <1>2, TypeInGroups DEF WritingTypes
  <2>4. RunTypes' /\ TableTypes'
    BY <1>1, <1>2, TypeInGroups, WorkflowAssumption DEF RunTypes, TableTypes
  <2> QED BY <2>1, <2>2, <2>3, <2>4, TypeInGroups
<1>4. Caps' /\ Judged' /\ Stored' /\ Closed'
  BY <1>1, <1>2 DEF Caps, Judged, Stored, Closed
<1>5. Routing'
  BY <1>1, <1>2 DEF Routing, Ready
<1>6. Metered'
  <2>1. Spent' \in Nat
    BY <1>2, <1>3, <1>4, SpentIsNatural
  <2>2. \A a \in Nat : 0 <= 2 * a /\ 0 <= 2 * a + 1 /\ 0 <= 2 * a + 2
    OBVIOUS
  <2>3. steps' <= 2 * Spent' /\ steps' <= 2 * Spent' + 1 /\ steps' <= 2 * Spent' + 2
    BY <1>1, <2>1, <2>2
  <2> QED BY <2>1, <2>3 DEF Metered
<1> QED BY <1>3, <1>4, <1>5, <1>6 DEF WorkflowInv

\* Every step of the graph keeps the invariant.
LEMMA NextKeepsInv == WorkflowInv /\ [Next]_vars => WorkflowInv'
<1> SUFFICES ASSUME WorkflowInv, [Next]_vars PROVE WorkflowInv'
  OBVIOUS
<1>1. CASE NodeStep
  BY <1>1, SuperviseKeepsInv, ResearchKeepsInv, AnalyseKeepsInv, WriteKeepsInv,
     PeerReviewKeepsInv, FinalizeKeepsInv DEF NodeStep
<1>2. CASE Stop
  BY <1>2, StopKeepsInv
<1>3. CASE Resume
  BY <1>3, ResumeKeepsInv
<1>4. CASE UNCHANGED vars
  BY <1>4 DEF vars, retryVars, researchVars, writingVars, reviewVars, tables, WorkflowInv,
     TypeOK, Caps, Routing, Ready, Judged, Stored, Closed, Metered, Spent, Attempts,
     RoundsSpent, DraftsSpent, OwedAnalysis, OwedReview
<1> QED BY <1>1, <1>2, <1>3, <1>4 DEF Next

\* The inductive invariant holds in every reachable state, for all caps.
THEOREM WorkflowInvariant == Spec => []WorkflowInv
  BY InitWorkflowInv, NextKeepsInv, PTL DEF Spec

\* The types of AgentState and of the tables.
THEOREM WorkflowTypes == Spec => []TypeOK
<1>1. WorkflowInv => TypeOK
  BY DEF WorkflowInv
<1> QED BY <1>1, WorkflowInvariant, PTL

\* The execution row, the project row and a later resume judge a finished
\* graph alike (_record_graph_outcome, run_agent_graph, _inspect_checkpoint).
THEOREM WorkflowVerdictsAgree == Spec => []VerdictsAgree
<1>1. WorkflowInv => VerdictsAgree
  <2> SUFFICES ASSUME WorkflowInv, node = "end" PROVE VerdictsAgree
    BY DEF VerdictsAgree
  <2>1. /\ status \in {"completed", "completed_with_warnings", "failed"}
        /\ status # "failed" => ~errors
    BY DEF WorkflowInv, Closed, Judged
  <2> QED BY <2>1 DEF VerdictsAgree, Disposition, RunSucceeded, ProjectCompleted
<1> QED BY <1>1, WorkflowInvariant, PTL

\* No review is reported as completed that peer review has not scored.
THEOREM WorkflowCompletedIsScored == Spec => []CompletedIsScored
<1>1. WorkflowInv => CompletedIsScored
  BY DEF WorkflowInv, Closed, Judged, CompletedIsScored
<1> QED BY <1>1, WorkflowInvariant, PTL

\* Peer review always reads the text whose sections are in the database.
THEOREM WorkflowReviewedTextIsSaved == Spec => []ReviewedTextIsSaved
<1>1. WorkflowInv => ReviewedTextIsSaved
  BY DEF WorkflowInv, Routing, Ready, Stored, Phases, ReviewedTextIsSaved
<1> QED BY <1>1, WorkflowInvariant, PTL

\* A completed review is in the artifact row and in the section tables.
THEOREM WorkflowCompletedIsStored == Spec => []CompletedIsStored
<1>1. WorkflowInv => CompletedIsStored
  BY DEF WorkflowInv, Closed, Stored, CompletedIsStored
<1> QED BY <1>1, WorkflowInvariant, PTL

\* Caps that satisfy this inequality end every run before the recursion limit.
CapsFitLimit ==
  2 * (4 * MaxPhaseAttempts + 2 * MaxResearchRounds + 2 * (MaxRevisions + 1)) + 1
    < RecursionLimit

\* The limit that _thread_config fixes is never met by a run whose caps fit it;
\* the configuration, which checks each cap alone, does not ensure that.
THEOREM RunFitsRecursionLimit ==
  ASSUME CapsFitLimit PROVE Spec => []WithinRecursionLimit
<1>1. WorkflowInv => WithinRecursionLimit
  <2> SUFFICES ASSUME WorkflowInv, node # "end" PROVE steps < RecursionLimit
    BY DEF WithinRecursionLimit
  <2>1. TypeOK /\ Caps
    BY DEF WorkflowInv
  <2>2. \A p \in Phases : phaseAttempts[p] \in Nat /\ phaseAttempts[p] <= MaxPhaseAttempts
    BY <2>1, WorkflowAssumption DEF TypeOK
  <2>3. Attempts <= 4 * MaxPhaseAttempts
    BY <2>2, WorkflowAssumption DEF Attempts, Phases
  <2>4. RoundsSpent <= 2 * MaxResearchRounds
    BY <2>1, WorkflowAssumption DEF RoundsSpent, TypeOK, Count
  <2>5. DraftsSpent <= 2 * (MaxRevisions + 1)
    BY <2>1, WorkflowAssumption DEF DraftsSpent, TypeOK, Count
  <2>6. Spent <= 4 * MaxPhaseAttempts + 2 * MaxResearchRounds + 2 * (MaxRevisions + 1)
    BY <2>1, <2>3, <2>4, <2>5, SpentIsNatural, WorkflowAssumption DEF Spent
  <2>7. steps \in Nat /\ steps <= 2 * Spent + 1
    BY <2>1, SpentIsNatural, WorkflowAssumption DEF WorkflowInv, TypeOK, Metered
  <2> QED BY <2>1, <2>6, <2>7, SpentIsNatural, WorkflowAssumption DEF CapsFitLimit
<1> QED BY <1>1, WorkflowInvariant, PTL

-----------------------------------------------------------------------------
(***************************************************************************)
(* The contracts around the graph, for all caps: the contracted graph takes *)
(* only steps of AgentWorkflow, so its theorems carry over; what a contract *)
(* has declared terminal stays so; and the data that meet in one state are  *)
(* of one round and one draft.                                             *)
(***************************************************************************)
(***************************************************************************)
(* A draft, a revision and their review exist only when the analysis is    *)
(* done, whatever failed in between.                                       *)
(***************************************************************************)
Ordered ==
  finalReview \/ node = "writing" \/ failedPhase = "writing" => analysisComplete

\* A declared outcome is one the graph cannot get away from.
Settled ==
  /\ declared \in {"none", "failed", "completed_with_warnings"}
  /\ declared # "none" => node \in {"supervisor", "finalize", "end"}
  /\ declared # "none" /\ node = "end" => status = declared
  /\ declared = "failed" => terminalFailure
  /\ declared = "completed_with_warnings" /\ node # "end" =>
       /\ warnings /\ ~terminalFailure /\ failedPhase = NoPhase
       /\ finalReview /\ peerReviewComplete /\ ~needsRevision /\ writingComplete
       /\ node = "supervisor" => status = "completed_with_warnings"

\* The node that runs, and what it leaves the checkpoint with.
LEMMA NodeOfStep ==
  /\ Supervise => node = "supervisor"
  /\ Research => node = "research" /\ node' = "supervisor"
  /\ Analyse => node = "analysis" /\ node' = "supervisor"
  /\ Write => node = "writing" /\ node' = "supervisor"
  /\ PeerReview => node = "peer_review" /\ node' = "supervisor"
  /\ Finalize => node = "finalize" /\ node' = "end"
BY DEF Supervise, Research, Analyse, Write, PeerReview, Finalize, Visit

\* A step of the contracted graph is a step of the graph.
LEMMA ContractedIsStep ==
  ContractedInit /\ [][ContractedNext]_contractedVars => Init /\ [][Next]_vars
<1>1. ContractedInit => Init
  BY DEF ContractedInit
<1>2. [ContractedNext]_contractedVars => [Next]_vars
  BY DEF ContractedNext, ContractedStep, contractedVars, Next
<1> QED BY <1>1, <1>2, PTL

\* Contracts that accept every update change nothing of what the graph does:
\* the graph's theorems are theorems of the contracted graph.
THEOREM ContractedImplementsWorkflow == ContractedSpec => Spec
  BY ContractedIsStep, PTL DEF ContractedSpec, Spec

\* The graph's invariant holds of the contracted graph.
THEOREM ContractedWorkflowInvariant == ContractedSpec => []WorkflowInv
  BY ContractedImplementsWorkflow, WorkflowInvariant, PTL
-----------------------------------------------------------------------------
\* The supervisor enters writing only when the analysis is done.
LEMMA SuperviseKeepsOrdered == WorkflowInv /\ Ordered /\ Supervise => Ordered'
<1> SUFFICES ASSUME WorkflowInv, Ordered, Supervise PROVE Ordered'
  OBVIOUS
<1>1. node = "supervisor" /\ node' = DecideNextPhase
  BY DEF Supervise, Visit
<1>2. Routing /\ Caps /\ failedPhase \in Phases \cup {NoPhase}
  BY DEF WorkflowInv, TypeOK
<1>3. DecideNextPhase = "writing" => analysisComplete
  <2> SUFFICES ASSUME DecideNextPhase = "writing" PROVE analysisComplete
    OBVIOUS
  <2>1. ~terminalFailure
    BY DEF DecideNextPhase
  <2>2. CASE failedPhase # NoPhase
    <3>1. failedPhase = "writing"
      BY <2>1, <2>2 DEF DecideNextPhase, Retryable
    <3> QED BY <3>1 DEF Ordered
  <2>3. CASE failedPhase = NoPhase /\ RevisionDue
    BY <1>2, <2>3 DEF RevisionDue, Routing, Ordered
  <2>4. CASE failedPhase = NoPhase /\ ~RevisionDue
    BY <2>1, <2>4 DEF DecideNextPhase
  <2> QED BY <2>2, <2>3, <2>4
<1>4. CASE SupplementResearch(DecideNextPhase)
  BY <1>1, <1>2, <1>3, <1>4
     DEF SupplementResearch, Ordered, Routing, NoPhase, retryVars, researchVars, writingVars
<1>5. CASE RetryPhase(DecideNextPhase)
  BY <1>1, <1>3, <1>5 DEF RetryPhase, Ordered, NoPhase, researchVars, writingVars
<1>6. CASE Revise(DecideNextPhase)
  BY <1>1, <1>3, <1>6 DEF Revise, Ordered, NoPhase, researchVars
<1>7. CASE Advance(DecideNextPhase)
  BY <1>1, <1>3, <1>7 DEF Advance, Ordered, NoPhase, retryVars, researchVars, writingVars
<1> QED BY <1>4, <1>5, <1>6, <1>7 DEF Supervise

\* So does every other step.
LEMMA NextKeepsOrdered == WorkflowInv /\ Ordered /\ [Next]_vars => Ordered'
<1> SUFFICES ASSUME WorkflowInv, Ordered, [Next]_vars PROVE Ordered'
  OBVIOUS
<1>1. Routing
  BY DEF WorkflowInv
<1>2. CASE Supervise
  BY <1>2, SuperviseKeepsOrdered
<1>3. CASE Research
  BY <1>1, <1>3 DEF Research, Visit, Routing, Ready, Phases, NoPhase, Ordered, Succeeded,
                    PhaseFailure, researchVars, writingVars
<1>4. CASE Analyse
  BY <1>1, <1>4 DEF Analyse, Visit, Routing, Ready, Phases, NoPhase, Ordered, Succeeded,
                    PhaseFailure, researchVars, writingVars
<1>5. CASE Write
  BY <1>5 DEF Write, Visit, NoPhase, Ordered, Succeeded, PhaseFailure, researchVars, writingVars
<1>6. CASE PeerReview
  BY <1>6 DEF PeerReview, Visit, NoPhase, Ordered, PhaseFailure, researchVars
<1>7. CASE Finalize
  BY <1>7 DEF Finalize, Visit, Ordered, retryVars, researchVars, writingVars
<1>8. CASE Stop \/ Resume
  BY <1>8 DEF Stop, Resume, Ordered, retryVars, researchVars, writingVars
<1>9. CASE UNCHANGED vars
  BY <1>9 DEF vars, Ordered, retryVars, researchVars, writingVars
<1> QED BY <1>2, <1>3, <1>4, <1>5, <1>6, <1>7, <1>8, <1>9 DEF Next, NodeStep
-----------------------------------------------------------------------------
\* The outcomes that the contract of each node calls terminal.
LEMMA TerminalOutcomes ==
  /\ Contract("supervisor").terminal = {"failed", "completed_with_warnings"}
  /\ Contract("research").terminal = {} /\ Contract("analysis").terminal = {}
  /\ Contract("writing").terminal = {}
  /\ Contract("peer_review").terminal = {"completed_with_warnings"}
  /\ Contract("finalize").terminal = {"failed", "completed_with_warnings"}
<1>1. Contract("supervisor").terminal = {"failed", "completed_with_warnings"}
  BY DEF Contract, SupervisorContract
<1>2. Contract("research").terminal = {}
  BY DEF Contract, ResearchContract
<1>3. Contract("analysis").terminal = {}
  BY DEF Contract, AnalysisContract
<1>4. Contract("writing").terminal = {}
  BY DEF Contract, WritingContract
<1>5. Contract("peer_review").terminal = {"completed_with_warnings"}
  BY DEF Contract, PeerReviewContract
<1>6. Contract("finalize").terminal = {"failed", "completed_with_warnings"}
  BY DEF Contract, FinalizeContract
<1> QED BY <1>1, <1>2, <1>3, <1>4, <1>5, <1>6

\* What the update of the node that ran declares.
LEMMA DeclaredByNode ==
  ASSUME node \in NodeNames, update' = NodeUpdate(node),
         node \in Phases \/ status' # "phase_failed"
  PROVE  DeclaredOutcome(update', Exhausted(node)) =
           IF node \in Phases /\ status' = "phase_failed"
           THEN IF terminalFailure' THEN "failed" ELSE "none"
           ELSE IF status' \in Contract(node).terminal THEN status' ELSE "none"
<1>1. /\ update'.node = node
      /\ update'.status = IF status' = "phase_failed" THEN FailureStatus(node) ELSE status'
  BY DEF NodeUpdate
<1>2. CASE node \in Phases /\ status' = "phase_failed"
  <2>1. FailureStatus(node) \notin Contract(node).terminal
    <3>1. CASE node = "peer_review"
      BY <3>1, TerminalOutcomes DEF FailureStatus
    <3>2. CASE node # "peer_review"
      BY <1>2, <3>2, TerminalOutcomes DEF Phases
    <3> QED BY <3>1, <3>2
  <2> QED BY <1>1, <1>2, <2>1 DEF DeclaredOutcome, Exhausted
<1>3. CASE ~(node \in Phases /\ status' = "phase_failed")
  <2>1. ~Exhausted(node) /\ update'.status = status'
    BY <1>1, <1>3 DEF Exhausted
  <2> QED BY <1>1, <1>3, <2>1 DEF DeclaredOutcome
<1> QED BY <1>2, <1>3
\* What the supervisor decides: a failure it declares is final, and it never
\* runs out of revisions, which peer review has seen to.
LEMMA SuperviseOutcome ==
  ASSUME WorkflowInv, Supervise
  PROVE  /\ node' = DecideNextPhase
         /\ status' \in {"running", "finalizing", "failed"}
         /\ status' = "failed" => terminalFailure' /\ node' = "finalize"
<1>1. node = "supervisor" /\ node' = DecideNextPhase
  BY DEF Supervise, Visit
<1>2. Routing /\ Caps /\ failedPhase \in Phases \cup {NoPhase}
  BY DEF WorkflowInv, TypeOK
<1>3. CASE SupplementResearch(DecideNextPhase)
  BY <1>1, <1>3 DEF SupplementResearch
<1>4. CASE RetryPhase(DecideNextPhase)
  <2>1. failedPhase # NoPhase
    BY <1>4 DEF RetryPhase
  <2>2. DecideNextPhase \in {failedPhase, "finalize"}
    BY <2>1 DEF DecideNextPhase, Retryable
  <2> QED BY <1>1, <1>4, <2>2 DEF RetryPhase
<1>5. CASE Revise(DecideNextPhase)
  <2>1. /\ failedPhase = NoPhase /\ RevisionDue /\ status # "needs_more_research"
        /\ needsRevision /\ revisionAttempt < MaxRevisions /\ ~terminalFailure
    BY <1>1, <1>2, <1>5 DEF Revise, RevisionDue, Routing, Caps
  <2>2. DecideNextPhase = "writing"
    BY <2>1 DEF DecideNextPhase
  <2> QED BY <1>1, <1>5, <2>2 DEF Revise
<1>6. CASE Advance(DecideNextPhase)
  BY <1>1, <1>6 DEF Advance
<1> QED BY <1>3, <1>4, <1>5, <1>6 DEF Supervise

\* A declared failure, or a completion with warnings, is followed by finalize.
LEMMA SuperviseKeepsSettled ==
  ASSUME WorkflowInv, Ordered, Settled, Supervise,
         declared # "none", declared' = declared
  PROVE  Settled'
<1>1. node = "supervisor"
  BY NodeOfStep
<1>2. Routing /\ Caps /\ failedPhase \in Phases \cup {NoPhase}
  BY DEF WorkflowInv, TypeOK
<1>3. CASE declared = "failed"
  <2>1. terminalFailure /\ failedPhase # NoPhase /\ status # "needs_more_research"
    BY <1>1, <1>2, <1>3 DEF Settled, Routing
  <2>2. DecideNextPhase = "finalize"
    BY <2>1 DEF DecideNextPhase
  <2>3. terminalFailure'
    BY <1>2, <2>1, <2>2 DEF Supervise, SupplementResearch, RetryPhase, Revise, Advance, Phases
  <2> QED BY <1>3, <2>2, <2>3, SuperviseOutcome DEF Settled
<1>4. CASE declared = "completed_with_warnings"
  <2>1. /\ warnings /\ ~terminalFailure /\ failedPhase = NoPhase
        /\ finalReview /\ peerReviewComplete /\ ~needsRevision /\ writingComplete
        /\ status = "completed_with_warnings"
    BY <1>1, <1>4 DEF Settled
  <2>2. analysisComplete /\ researchComplete /\ papers
    BY <1>2, <2>1 DEF Ordered, Routing, Caps
  <2>3. ~RevisionDue
    BY <2>1 DEF RevisionDue
  <2>4. DecideNextPhase = "finalize"
    BY <2>1, <2>2, <2>3 DEF DecideNextPhase
  <2>5. Advance(DecideNextPhase)
    BY <2>1, <2>3 DEF Supervise, SupplementResearch, RetryPhase, Revise
  <2>6. /\ warnings' /\ ~terminalFailure' /\ failedPhase' = NoPhase
        /\ finalReview' /\ peerReviewComplete' /\ ~needsRevision' /\ writingComplete'
    BY <2>1, <2>5 DEF Advance, retryVars, writingVars
  <2> QED BY <1>4, <2>4, <2>6, SuperviseOutcome DEF Settled
<1> QED BY <1>3, <1>4 DEF Settled

\* A phase declares a failure with its last attempt, and peer review a
\* completion with warnings when no revision is left.
LEMMA PhaseKeepsSettled ==
  ASSUME WorkflowInv, Settled, node \in Phases, update' = NodeUpdate(node),
         Research \/ Analyse \/ Write \/ PeerReview,
         declared' = IF declared # "none" THEN declared
                     ELSE DeclaredOutcome(update', Exhausted(node))
  PROVE  Settled'
<1>1. declared = "none" /\ node \in NodeNames
  BY DEF Settled, Phases, NodeNames
<1>2. node' = "supervisor"
  BY NodeOfStep
<1>3. declared' = IF status' = "phase_failed" THEN IF terminalFailure' THEN "failed" ELSE "none"
                  ELSE IF status' \in Contract(node).terminal THEN status' ELSE "none"
  BY <1>1, DeclaredByNode
<1>4. CASE status' = "phase_failed"
  BY <1>2, <1>3, <1>4 DEF Settled
<1>5. CASE status' # "phase_failed" /\ node # "peer_review"
  <2>1. Contract(node).terminal = {}
    BY <1>5, TerminalOutcomes DEF Phases
  <2> QED BY <1>2, <1>3, <1>5, <2>1 DEF Settled
<1>6. CASE status' # "phase_failed" /\ node = "peer_review"
  <2>1. PeerReview /\ (LowScore \/ GoodScore) /\ failedPhase' = NoPhase
    BY <1>6, NodeOfStep DEF PeerReview, PhaseFailure
  <2>2. /\ ~terminalFailure /\ finalReview /\ ~needsRevision /\ writingComplete
    BY <1>6 DEF WorkflowInv, Routing, Ready, Phases
  <2>3. Contract(node).terminal = {"completed_with_warnings"}
    BY <1>6, TerminalOutcomes
  <2>4. CASE status' = "completed_with_warnings"
    <3>1. warnings' /\ terminalFailure' = terminalFailure /\ peerReviewComplete' /\ ~needsRevision'
      BY <2>1, <2>4 DEF LowScore, GoodScore
    <3>2. finalReview' = finalReview /\ writingComplete' = writingComplete
      BY <2>1 DEF PeerReview
    <3> QED BY <1>2, <1>3, <1>6, <2>1, <2>2, <2>3, <2>4, <3>1, <3>2 DEF Settled
  <2>5. CASE status' # "completed_with_warnings"
    BY <1>2, <1>3, <1>6, <2>3, <2>5 DEF Settled
  <2> QED BY <2>4, <2>5
<1> QED BY <1>4, <1>5, <1>6

\* Finalize ends with the status that was declared, or declares its own.
LEMMA FinalizeKeepsSettled ==
  ASSUME WorkflowInv, Settled, Finalize, update' = NodeUpdate(node),
         declared' = IF declared # "none" THEN declared
                     ELSE DeclaredOutcome(update', Exhausted(node))
  PROVE  Settled'
<1>1. /\ node = "finalize" /\ node' = "end" /\ status' = FinalStatus
      /\ terminalFailure' = terminalFailure
  BY DEF Finalize, Visit, retryVars
<1>2. FinalStatus \in {"completed", "completed_with_warnings", "failed"}
  BY DEF FinalStatus
<1>3. ~terminalFailure => finalReview
  BY <1>1 DEF WorkflowInv, Routing
<1>4. CASE declared = "none"
  <2>1. node \in NodeNames /\ node \notin Phases /\ status' # "phase_failed"
    BY <1>1, <1>2 DEF NodeNames, Phases
  <2>2. declared' = IF status' \in {"failed", "completed_with_warnings"} THEN status' ELSE "none"
    BY <1>1, <1>4, <2>1, DeclaredByNode, TerminalOutcomes
  <2>3. status' = "failed" => terminalFailure'
    BY <1>1, <1>3 DEF FinalStatus
  <2> QED BY <1>1, <2>2, <2>3 DEF Settled
<1>5. CASE declared = "failed"
  <2>1. terminalFailure /\ status' = "failed"
    BY <1>1, <1>5 DEF Settled, FinalStatus
  <2> QED BY <1>1, <1>5, <2>1 DEF Settled
<1>6. CASE declared = "completed_with_warnings"
  <2>1. ~terminalFailure /\ finalReview /\ warnings
    BY <1>1, <1>6 DEF Settled
  <2>2. status' = "completed_with_warnings"
    BY <1>1, <2>1 DEF FinalStatus
  <2> QED BY <1>1, <1>6, <2>2 DEF Settled
<1> QED BY <1>4, <1>5, <1>6 DEF Settled
\* Every step of the contracted graph.
LEMMA NextKeepsSettled ==
  WorkflowInv /\ Ordered /\ Settled /\ [ContractedNext]_contractedVars => Settled'
<1> SUFFICES ASSUME WorkflowInv, Ordered, Settled, [ContractedNext]_contractedVars
             PROVE  Settled'
  OBVIOUS
<1>1. CASE ContractedStep
  <2>1. /\ node \in NodeNames /\ NodeStep /\ update' = NodeUpdate(node)
        /\ declared' = IF declared # "none" THEN declared
                       ELSE DeclaredOutcome(update', Exhausted(node))
    BY <1>1 DEF ContractedStep
  <2>2. CASE Supervise
    <3>1. node = "supervisor"
      BY <2>2, NodeOfStep
    <3>2. CASE declared = "none"
      <4>1. status' \in {"running", "finalizing", "failed"}
            /\ (status' = "failed" => terminalFailure' /\ node' = "finalize")
        BY <2>2, SuperviseOutcome
      <4>2. declared' = IF status' = "failed" THEN status' ELSE "none"
        BY <2>1, <3>1, <3>2, <4>1, DeclaredByNode, TerminalOutcomes DEF Phases
      <4> QED BY <4>1, <4>2 DEF Settled
    <3>3. CASE declared # "none"
      BY <2>1, <2>2, <3>3, SuperviseKeepsSettled
    <3> QED BY <3>2, <3>3
  <2>3. CASE Research \/ Analyse \/ Write \/ PeerReview
    <3>1. node \in Phases
      BY <2>3, NodeOfStep DEF Phases
    <3> QED BY <2>1, <2>3, <3>1, PhaseKeepsSettled
  <2>4. CASE Finalize
    BY <2>1, <2>4, FinalizeKeepsSettled
  <2> QED BY <2>1, <2>2, <2>3, <2>4 DEF NodeStep
<1>2. CASE (Stop \/ Resume) /\ UNCHANGED <<update, origin, declared>>
  BY <1>2 DEF Stop, Resume, Settled, retryVars, writingVars, reviewVars
<1>3. CASE UNCHANGED contractedVars
  BY <1>3 DEF contractedVars, vars, Settled, retryVars, writingVars, reviewVars
<1> QED BY <1>1, <1>2, <1>3 DEF ContractedNext

\* The draft follows the analysis, in every reachable state.
LEMMA OrderedInvariant == ContractedSpec => []Ordered
<1>1. Init => Ordered
  BY DEF Init, Ordered, NoPhase
<1> QED BY <1>1, NextKeepsOrdered, ContractedIsStep, WorkflowInvariant, PTL
        DEF ContractedSpec, Spec

\* Once the contract of a node has declared an outcome terminal - the last
\* failure of a phase, a supervisor that gives up, a review accepted with
\* warnings - no phase runs again and the graph ends with that status.
THEOREM DeclaredOutcomesHold == ContractedSpec => []DeclaredOutcomeHolds
<1>1. ContractedInit => Settled
  BY DEF ContractedInit, Settled
<1>2. ContractedSpec => []Settled
  BY <1>1, NextKeepsSettled, OrderedInvariant, ContractedWorkflowInvariant, PTL DEF ContractedSpec
<1>3. Settled => DeclaredOutcomeHolds
  BY DEF Settled, DeclaredOutcomeHolds, Phases
<1> QED BY <1>2, <1>3, PTL
-----------------------------------------------------------------------------
(***************************************************************************)
(* The data of the state: which of them belong together, and when.         *)
(***************************************************************************)
OnePiece ==
  /\ \A f \in PaperFields : origin[f] = origin["papers"]
  /\ \A f \in DraftFields : origin[f] = origin["final_review"]
  /\ analysisComplete => \A f \in AnalysisFields : origin[f] = origin["papers"]
  /\ origin["reference_map"] = IF finalReview THEN origin["papers"] ELSE 0
  /\ peerReviewComplete => \A f \in ReviewFields : origin[f] = origin["final_review"]

\* The supervisor sets no data.
LEMMA SupervisorSetsNoData == SupervisorFields \cap DataFields = {}
BY DEF SupervisorFields, Progress, DataFields, PaperFields, AnalysisFields, DraftFields,
       ReviewFields

\* A failed phase, and what every branch sets of its progress, set none.
LEMMA FailureSetsNoData ==
  PhaseFailureFields \cap DataFields = {} /\ Progress \cap DataFields = {}
BY DEF PhaseFailureFields, Progress, Retry, Journal, DataFields, PaperFields, AnalysisFields,
       DraftFields, ReviewFields

\* Research sets the papers.
LEMMA ResearchSetsPapers == ResearchFields \cap DataFields = PaperFields
BY DEF ResearchFields, SuccessFields, Progress, DataFields, PaperFields, AnalysisFields,
       DraftFields, ReviewFields

\* Analysis sets the evidence, or, when it asks for more research, the coverage alone.
LEMMA AnalysisSetsEvidence ==
  AnalysisNodeFields \cap DataFields =
    IF status' = "needs_more_research" THEN {"coverage", "coverage_score"} ELSE AnalysisFields
BY DEF AnalysisNodeFields, SuccessFields, Progress, DataFields, PaperFields, AnalysisFields,
       DraftFields, ReviewFields

\* Writing sets the draft and the numbering.
LEMMA WritingSetsDraft == WritingFields \cap DataFields = DraftFields \cup {"reference_map"}
BY DEF WritingFields, SuccessFields, Progress, DataFields, PaperFields, AnalysisFields,
       DraftFields, ReviewFields

\* Peer review sets the report and the score.
LEMMA PeerReviewSetsReport == PeerReviewFields \cap DataFields = ReviewFields
BY DEF PeerReviewFields, Progress, DataFields, PaperFields, AnalysisFields, DraftFields,
       ReviewFields
\* The origins after a node: new for the fields of its branch, old for others.
LEMMA OriginAfterNode ==
  ASSUME node \in NodeNames, update' = NodeUpdate(node), origin' = Merge(node)
  PROVE  /\ update'.fields = NodeFields(node)
         /\ \A f \in DataFields :
              origin'[f] = IF f \notin NodeFields(node) THEN origin[f]
                           ELSE IF f = "reference_map"
                                THEN IF origin[f] = 0 THEN origin["papers"] ELSE origin[f]
                           ELSE Made(node)
<1>1. update'.fields = NodeFields(node)
  BY DEF NodeUpdate
<1> QED BY <1>1 DEF Merge

\* The parts of the data are data fields, and have no field in common.
LEMMA PartsOfData ==
  /\ PaperFields \subseteq DataFields /\ AnalysisFields \subseteq DataFields
  /\ DraftFields \subseteq DataFields /\ ReviewFields \subseteq DataFields
  /\ "reference_map" \in DataFields
  /\ "reference_map" \notin PaperFields \cup AnalysisFields \cup DraftFields \cup ReviewFields
  /\ "papers" \in PaperFields /\ "final_review" \in DraftFields
  /\ PaperFields \cap (AnalysisFields \cup DraftFields \cup ReviewFields) = {}
  /\ AnalysisFields \cap (DraftFields \cup ReviewFields) = {}
  /\ DraftFields \cap ReviewFields = {}
  /\ {"coverage", "coverage_score"} \subseteq AnalysisFields
BY DEF DataFields, PaperFields, AnalysisFields, DraftFields, ReviewFields

\* A branch that sets no data keeps them together.
LEMMA NoDataKeepsOnePiece ==
  ASSUME OnePiece, \A f \in DataFields : origin'[f] = origin[f],
         analysisComplete' => analysisComplete, finalReview' = finalReview,
         peerReviewComplete' => peerReviewComplete
  PROVE  OnePiece'
BY PartsOfData DEF OnePiece

\* A node keeps the data of each part together.
LEMMA NodeKeepsOnePiece ==
  ASSUME WorkflowInv, Ordered, OnePiece, node \in NodeNames, NodeStep,
         update' = NodeUpdate(node), origin' = Merge(node)
  PROVE  OnePiece'
<1>1. Routing
  BY DEF WorkflowInv
<1> DEFINE Changed == NodeFields(node) \cap DataFields
<1>2. \A f \in DataFields :
         origin'[f] = IF f \notin Changed THEN origin[f]
                      ELSE IF f = "reference_map"
                           THEN IF origin[f] = 0 THEN origin["papers"] ELSE origin[f]
                      ELSE Made(node)
  BY OriginAfterNode
<1>3. CASE Supervise
  <2>1. Changed = {}
    <3>1. node = "supervisor"
      BY <1>3, NodeOfStep
    <3>2. NodeFields(node) = SupervisorFields
      BY <3>1 DEF NodeFields, Phases
    <3> QED BY <3>2, SupervisorSetsNoData
  <2>2. /\ analysisComplete' => analysisComplete
        /\ finalReview' = finalReview
        /\ peerReviewComplete' => peerReviewComplete
    BY <1>3 DEF Supervise, SupplementResearch, RetryPhase, Revise, Advance, researchVars,
                writingVars
  <2> HIDE DEF Changed
  <2> QED BY <1>2, <2>1, <2>2, NoDataKeepsOnePiece
<1>4. CASE Finalize
  <2>1. Changed = {}
    BY <1>4, NodeOfStep, FailureSetsNoData DEF NodeFields
  <2>2. UNCHANGED <<analysisComplete, finalReview, peerReviewComplete>>
    BY <1>4 DEF Finalize, researchVars, writingVars, reviewVars
  <2> HIDE DEF Changed
  <2> QED BY <1>2, <2>1, <2>2, NoDataKeepsOnePiece
<1>5. CASE status' = "phase_failed" /\ (Research \/ Analyse \/ Write \/ PeerReview)
  <2>1. node \in Phases /\ node # "supervisor" /\ node # "finalize"
    BY <1>5, NodeOfStep DEF Phases
  <2>2. Changed = {}
    BY <1>5, <2>1, FailureSetsNoData DEF NodeFields
  <2>3. UNCHANGED <<analysisComplete, finalReview, peerReviewComplete>>
    BY <1>5 DEF Research, Analyse, Write, PeerReview, LowScore, GoodScore, researchVars,
                writingVars, reviewVars
  <2> HIDE DEF Changed
  <2> QED BY <1>2, <2>2, <2>3, NoDataKeepsOnePiece
<1>6. CASE status' # "phase_failed" /\ Research
  <2>1. Changed = PaperFields /\ node = "research"
    BY <1>6, NodeOfStep, ResearchSetsPapers DEF NodeFields, Phases
  <2>2. ~analysisComplete /\ ~finalReview
    BY <1>1, <2>1 DEF Routing, Ready, Ordered, Phases
  <2>3. UNCHANGED <<analysisComplete, finalReview, peerReviewComplete>>
    BY <1>6 DEF Research, PhaseFailure, writingVars, reviewVars
  <2> HIDE DEF Changed
  <2> QED BY <1>2, <2>1, <2>2, <2>3, PartsOfData DEF OnePiece
<1>7. CASE status' # "phase_failed" /\ Analyse
  <2>1. Changed = IF status' = "needs_more_research" THEN {"coverage", "coverage_score"}
                  ELSE AnalysisFields
    BY <1>7, NodeOfStep, AnalysisSetsEvidence DEF NodeFields, Phases
  <2>2. Made(node) = origin["papers"]
    BY <1>7, NodeOfStep DEF Made
  <2>3. /\ UNCHANGED <<finalReview, peerReviewComplete>>
        /\ analysisComplete' => status' # "needs_more_research"
    BY <1>7 DEF Analyse, PhaseFailure, writingVars, reviewVars
  <2> HIDE DEF Changed
  <2> QED BY <1>2, <2>1, <2>2, <2>3, PartsOfData DEF OnePiece
<1>8. CASE status' # "phase_failed" /\ Write
  <2>1. Changed = DraftFields \cup {"reference_map"}
    BY <1>8, NodeOfStep, WritingSetsDraft DEF NodeFields, Phases
  <2>2. UNCHANGED analysisComplete /\ finalReview' = TRUE /\ ~peerReviewComplete'
    BY <1>8 DEF Write, PhaseFailure, researchVars
  <2>3. origin'["reference_map"] = origin["papers"]
    BY <1>2, <2>1, PartsOfData DEF OnePiece
  <2> HIDE DEF Changed
  <2> QED BY <1>2, <2>1, <2>2, <2>3, PartsOfData DEF OnePiece
<1>9. CASE status' # "phase_failed" /\ PeerReview
  <2>1. Changed = ReviewFields
    BY <1>9, NodeOfStep, PeerReviewSetsReport DEF NodeFields, Phases
  <2>2. Made(node) = origin["final_review"]
    BY <1>9, NodeOfStep DEF Made
  <2>3. UNCHANGED <<analysisComplete, finalReview>>
    BY <1>9 DEF PeerReview, researchVars
  <2> HIDE DEF Changed
  <2> QED BY <1>2, <2>1, <2>2, <2>3, PartsOfData DEF OnePiece
<1> QED BY <1>3, <1>4, <1>5, <1>6, <1>7, <1>8, <1>9 DEF NodeStep
\* Every step of the contracted graph.
LEMMA NextKeepsOnePiece ==
  WorkflowInv /\ Ordered /\ OnePiece /\ [ContractedNext]_contractedVars => OnePiece'
<1> SUFFICES ASSUME WorkflowInv, Ordered, OnePiece, [ContractedNext]_contractedVars
             PROVE  OnePiece'
  OBVIOUS
<1>1. CASE ContractedStep
  BY <1>1, NodeKeepsOnePiece DEF ContractedStep
<1>2. CASE ((Stop \/ Resume) /\ UNCHANGED <<update, origin, declared>>) \/ UNCHANGED contractedVars
  <2>1. UNCHANGED <<origin, analysisComplete, finalReview, peerReviewComplete>>
    BY <1>2 DEF Stop, Resume, contractedVars, vars, researchVars, writingVars, reviewVars
  <2> QED BY <2>1, NoDataKeepsOnePiece
<1> QED BY <1>1, <1>2 DEF ContractedNext

\* LangGraph merges every field on its own, retries and supplements come in
\* between, and yet writing is given evidence of the papers in the state, and
\* what finalize stores of a completed review is of one draft.
THEOREM DataStaysOfOnePiece == ContractedSpec => []DataIsOfOnePiece
<1>1. ContractedInit => OnePiece
  <2> SUFFICES ASSUME ContractedInit PROVE OnePiece
    OBVIOUS
  <2>1. \A f \in DataFields : origin[f] = 0
    BY DEF ContractedInit
  <2>2. ~finalReview
    BY DEF ContractedInit, Init
  <2> QED BY <2>1, <2>2, PartsOfData DEF OnePiece
<1>2. ContractedSpec => []OnePiece
  BY <1>1, NextKeepsOnePiece, OrderedInvariant, ContractedWorkflowInvariant, PTL DEF ContractedSpec
<1>3. WorkflowInv /\ Ordered /\ OnePiece => DataIsOfOnePiece
  <2> SUFFICES ASSUME WorkflowInv, Ordered, OnePiece PROVE DataIsOfOnePiece
    OBVIOUS
  <2>1. EvidenceIsCurrent
    BY PartsOfData DEF EvidenceIsCurrent, Ordered, OnePiece
  <2>2. ArtifactIsOnePiece
    <3> SUFFICES ASSUME node = "end", status # "failed"
                 PROVE  /\ \A f \in DraftFields \cup ReviewFields :
                             origin[f] = origin["final_review"]
                        /\ origin["coverage"] = origin["papers"]
                        /\ origin["reference_map"] = origin["papers"]
      BY DEF ArtifactIsOnePiece
    <3>1. finalReview /\ peerReviewComplete
      BY DEF WorkflowInv, Closed
    <3>2. analysisComplete
      BY <3>1 DEF Ordered
    <3> QED BY <3>1, <3>2, PartsOfData DEF OnePiece
  <2> QED BY <2>1, <2>2 DEF DataIsOfOnePiece
<1> QED BY <1>2, <1>3, OrderedInvariant, ContractedWorkflowInvariant, PTL

-----------------------------------------------------------------------------
\* An update is accepted when it fits one branch of its contract; that no
\* other branch has the same status was checked when the contract was declared.
LEMMA FitsBranch ==
  ASSUME node \in NodeNames, NEW b \in Contract(node).variants,
         b.status = NodeUpdate(node).status,
         NodeFields(node) \subseteq Contract(node).output,
         Contract(node).required \cup b.required \subseteq NodeFields(node)
  PROVE  OutputAccepted(NodeUpdate(node))
<1> DEFINE u == NodeUpdate(node)
           matching == {v \in Contract(node).variants : v.status = u.status}
<1>1. u.node = node /\ u.fields = NodeFields(node) /\ u.nulls \subseteq {"failed_phase"}
  BY DEF NodeUpdate
<1>2. u.nulls \subseteq NullableFields
  BY <1>1 DEF NullableFields
<1>3. \A v, w \in Contract(node).variants : v.status = w.status => v = w
  BY ContractsDeclared DEF WellDeclared, VariantsDeclared
<1>4. matching = {b}
  BY <1>3
<1>5. Cardinality(matching) = 1
  BY <1>4, FS_Singleton
<1> HIDE DEF u
<1> QED BY <1>1, <1>2, <1>4, <1>5 DEF OutputAccepted, u

\* A failed attempt of a phase fits the branch that its errors declare.
LEMMA FailureAccepted ==
  ASSUME node \in Phases, status' = "phase_failed"
  PROVE  OutputAccepted(NodeUpdate(node))
<1>1. NodeFields(node) = PhaseFailureFields /\ NodeUpdate(node).status = FailureStatus(node)
  BY DEF NodeFields, NodeUpdate
<1>2. CASE node = "research"
  <2> DEFINE b == Variant(FailureStatus("research"), {"phase_attempts"} \cup Journal)
  <2>1. b \in Contract(node).variants /\ b.status = FailureStatus(node)
    BY <1>2 DEF Contract, ResearchContract, Variant
  <2>2. /\ PhaseFailureFields \subseteq Contract(node).output
        /\ Contract(node).required \cup b.required \subseteq PhaseFailureFields
    BY <1>2 DEF Contract, ResearchContract, Variant, ResearchOutput, PhaseFailureFields,
                Progress, Retry, Journal
  <2> QED BY <1>1, <1>2, <2>1, <2>2, FitsBranch DEF NodeNames
<1>3. CASE node = "analysis"
  <2> DEFINE b == Variant(FailureStatus("analysis"), {"phase_attempts", "errors"})
  <2>1. b \in Contract(node).variants /\ b.status = FailureStatus(node)
    BY <1>3 DEF Contract, AnalysisContract, Variant
  <2>2. /\ PhaseFailureFields \subseteq Contract(node).output
        /\ Contract(node).required \cup b.required \subseteq PhaseFailureFields
    BY <1>3 DEF Contract, AnalysisContract, Variant, AnalysisOutput, PhaseFailureFields,
                Progress, Retry, Journal
  <2> QED BY <1>1, <1>3, <2>1, <2>2, FitsBranch DEF NodeNames
<1>4. CASE node = "writing"
  <2> DEFINE b == Variant(FailureStatus("writing"), {"phase_attempts"} \cup Journal)
  <2>1. b \in Contract(node).variants /\ b.status = FailureStatus(node)
    BY <1>4 DEF Contract, WritingContract, Variant
  <2>2. /\ PhaseFailureFields \subseteq Contract(node).output
        /\ Contract(node).required \cup b.required \subseteq PhaseFailureFields
    BY <1>4 DEF Contract, WritingContract, Variant, WritingOutput, PhaseFailureFields,
                Progress, Retry, Journal
  <2> QED BY <1>1, <1>4, <2>1, <2>2, FitsBranch DEF NodeNames
<1>5. CASE node = "peer_review"
  <2> DEFINE b == Variant(FailureStatus("peer_review"),
                          {"terminal_failure", "phase_attempts"} \cup Journal)
  <2>1. b \in Contract(node).variants /\ b.status = FailureStatus(node)
    BY <1>5 DEF Contract, PeerReviewContract, Variant
  <2>2. /\ PhaseFailureFields \subseteq Contract(node).output
        /\ Contract(node).required \cup b.required \subseteq PhaseFailureFields
    BY <1>5 DEF Contract, PeerReviewContract, Variant, PeerReviewOutput, PhaseFailureFields,
                Progress, Retry, Journal
  <2> QED BY <1>1, <1>5, <2>1, <2>2, FitsBranch DEF NodeNames
<1> QED BY <1>2, <1>3, <1>4, <1>5 DEF Phases
\* Whatever the supervisor decides fits a branch of its contract.
LEMMA SupervisorAccepted ==
  ASSUME WorkflowInv, Supervise
  PROVE  OutputAccepted(NodeUpdate(node))
<1>1. node = "supervisor" /\ node \in NodeNames
  BY NodeOfStep DEF NodeNames
<1>2. /\ node' = DecideNextPhase /\ status' \in {"running", "finalizing", "failed"}
      /\ status' = "failed" => node' = "finalize"
  BY SuperviseOutcome
<1>3. NodeFields(node) = SupervisorFields /\ NodeUpdate(node).status = status'
  BY <1>1, <1>2 DEF NodeFields, NodeUpdate, Phases
<1>4. /\ SupervisorFields \subseteq SupervisorOutput
      /\ Progress \cup {"decision_reason"} \subseteq SupervisorFields
  BY DEF SupervisorFields, SupervisorOutput, Progress, Journal
<1>5. Contract(node).output = SupervisorOutput
      /\ Contract(node).required = Progress \cup {"decision_reason"}
  BY <1>1 DEF Contract, SupervisorContract
<1>6. CASE status' \in {"running", "finalizing"}
  <2> DEFINE b == Variant(status', {})
  <2>1. b \in Contract(node).variants /\ b.status = status' /\ b.required = {}
    BY <1>1, <1>6 DEF Contract, SupervisorContract, Variant
  <2> HIDE DEF b
  <2> QED BY <1>1, <1>3, <1>4, <1>5, <2>1, FitsBranch
<1>7. CASE status' = "failed"
  <2> DEFINE b == Variant("failed", {"terminal_failure"})
  <2>1. b \in Contract(node).variants /\ b.status = status' /\ b.required = {"terminal_failure"}
    BY <1>1, <1>7 DEF Contract, SupervisorContract, Variant
  <2>2. status = "needs_more_research" \/ failedPhase # NoPhase
    BY <1>7 DEF Supervise, SupplementResearch, RetryPhase, Revise, Advance
  <2>3. node' # "research" /\ node' # failedPhase
    <3>1. failedPhase \in Phases \cup {NoPhase}
      BY DEF WorkflowInv, TypeOK
    <3> QED BY <1>2, <1>7, <3>1 DEF Phases, NoPhase
  <2>4. "terminal_failure" \in SupervisorFields
    BY <2>2, <2>3 DEF SupervisorFields
  <2> HIDE DEF b
  <2> QED BY <1>1, <1>3, <1>4, <1>5, <2>1, <2>4, FitsBranch
<1> QED BY <1>2, <1>6, <1>7

\* So does a phase that succeeds, and finalize.
LEMMA SuccessAccepted ==
  ASSUME Research \/ Analyse \/ Write \/ PeerReview \/ Finalize, status' # "phase_failed"
  PROVE  OutputAccepted(NodeUpdate(node))
<1>1. NodeUpdate(node).status = status'
  BY DEF NodeUpdate
<1>2. CASE Research
  <2> DEFINE b == Variant("running", {"papers", "paper_ids", "research_summary",
                            "research_complete", "research_round", "suggested_queries"})
  <2>1. node = "research" /\ node \in NodeNames /\ status' = "running"
    BY <1>2, NodeOfStep DEF Research, PhaseFailure, NodeNames
  <2>2. NodeFields(node) = ResearchFields
    BY <2>1 DEF NodeFields
  <2>3. b \in Contract(node).variants /\ b.status = status'
    BY <2>1 DEF Contract, ResearchContract, Variant
  <2>4. /\ ResearchFields \subseteq Contract(node).output
        /\ Contract(node).required \cup b.required \subseteq ResearchFields
    BY <2>1 DEF Contract, ResearchContract, ResearchOutput, Variant, ResearchFields,
                SuccessFields, PaperFields, Progress, Retry, Journal
  <2> HIDE DEF b
  <2> QED BY <1>1, <2>1, <2>2, <2>3, <2>4, FitsBranch
<1>3. CASE Analyse
  <2> DEFINE measured == {"embeddings_ready", "embedding_model", "coverage", "coverage_score",
                          "analysis_complete"}
             b == IF status' = "running"
                  THEN Variant("running",
                         measured \cup {"knowledge_graph", "evidence_cards", "gap_analysis"})
                  ELSE Variant("needs_more_research", measured \cup {"suggested_queries"})
  <2>1. /\ node = "analysis" /\ node \in NodeNames
        /\ status' \in {"running", "needs_more_research"}
    BY <1>3, NodeOfStep DEF Analyse, PhaseFailure, NodeNames
  <2>2. NodeFields(node) = AnalysisNodeFields
    BY <2>1 DEF NodeFields
  <2>3. b \in Contract(node).variants /\ b.status = status'
    BY <2>1 DEF Contract, AnalysisContract, Variant
  <2>4. /\ AnalysisNodeFields \subseteq Contract(node).output
        /\ Contract(node).required \cup b.required \subseteq AnalysisNodeFields
    BY <2>1 DEF Contract, AnalysisContract, AnalysisOutput, Variant, AnalysisNodeFields,
                SuccessFields, Progress, Retry, Journal
  <2> HIDE DEF b
  <2> QED BY <1>1, <2>1, <2>2, <2>3, <2>4, FitsBranch
<1>4. CASE Write
  <2> DEFINE b == Variant("running", WritingOutput \ (Progress \cup Retry \cup Journal))
  <2>1. node = "writing" /\ node \in NodeNames /\ status' = "running"
    BY <1>4, NodeOfStep DEF Write, PhaseFailure, NodeNames
  <2>2. NodeFields(node) = WritingFields
    BY <2>1 DEF NodeFields
  <2>3. b \in Contract(node).variants /\ b.status = status'
    BY <2>1 DEF Contract, WritingContract, Variant
  <2>4. /\ WritingFields \subseteq Contract(node).output
        /\ Contract(node).required \cup b.required \subseteq WritingFields
    BY <2>1 DEF Contract, WritingContract, WritingOutput, Variant, WritingFields,
                SuccessFields, DraftFields, Progress, Retry, Journal
  <2> HIDE DEF b
  <2> QED BY <1>1, <2>1, <2>2, <2>3, <2>4, FitsBranch
<1>5. CASE PeerReview
  <2> DEFINE judged == {"peer_review_report", "quality_score", "peer_review_complete",
                        "needs_revision"}
             b == Variant(status',
                    judged \cup {CASE status' = "needs_revision" -> "revision_feedback"
                                   [] status' = "completed_with_warnings" -> "warnings"
                                   [] status' = "running" -> "terminal_failure"})
  <2>1. /\ node = "peer_review" /\ node \in NodeNames
        /\ status' \in {"running", "needs_revision", "completed_with_warnings"}
    BY <1>5, NodeOfStep DEF PeerReview, LowScore, GoodScore, PhaseFailure, NodeNames
  <2>2. NodeFields(node) = PeerReviewFields
    BY <2>1 DEF NodeFields
  <2>3. b \in Contract(node).variants /\ b.status = status'
    BY <2>1 DEF Contract, PeerReviewContract, Variant
  <2>4. /\ PeerReviewFields \subseteq Contract(node).output
        /\ Contract(node).required \cup b.required \subseteq PeerReviewFields
    BY <2>1 DEF Contract, PeerReviewContract, PeerReviewOutput, Variant, PeerReviewFields,
                ReviewFields, Progress, Retry, Journal
  <2> HIDE DEF b
  <2> QED BY <1>1, <2>1, <2>2, <2>3, <2>4, FitsBranch
<1>6. CASE Finalize
  <2> DEFINE b == Variant(status', {})
  <2>1. /\ node = "finalize" /\ node \in NodeNames
        /\ status' \in {"completed", "completed_with_warnings", "failed"}
    BY <1>6, NodeOfStep DEF Finalize, FinalStatus, NodeNames
  <2>2. NodeFields(node) = Progress
    BY <2>1 DEF NodeFields, Phases
  <2>3. b \in Contract(node).variants /\ b.status = status' /\ b.required = {}
    BY <2>1 DEF Contract, FinalizeContract, Variant
  <2>4. Contract(node).output = Progress /\ Contract(node).required = Progress
    BY <2>1 DEF Contract, FinalizeContract, FinalizeOutput
  <2> HIDE DEF b
  <2> QED BY <1>1, <2>1, <2>2, <2>3, <2>4, FitsBranch
<1> QED BY <1>2, <1>3, <1>4, <1>5, <1>6

\* enforce_node_contract never rejects what a node returns, for all caps: in no
\* state of retries, supplements and revisions does a contract violation end a
\* run.  What the validators check when the contracts are declared is assumed.
THEOREM ContractsAcceptUpdates == ContractedSpec => []UpdatesAccepted
<1>1. ContractedInit => UpdatesAccepted
  BY DEF ContractedInit, UpdatesAccepted
<1>2. WorkflowInv /\ UpdatesAccepted /\ [ContractedNext]_contractedVars => UpdatesAccepted'
  <2> SUFFICES ASSUME WorkflowInv, UpdatesAccepted, [ContractedNext]_contractedVars
               PROVE  UpdatesAccepted'
    OBVIOUS
  <2>1. CASE ContractedStep
    <3>1. NodeStep /\ update' = NodeUpdate(node)
      BY <2>1 DEF ContractedStep
    <3>2. OutputAccepted(NodeUpdate(node))
      <4>1. CASE Supervise
        BY <4>1, SupervisorAccepted
      <4>2. CASE Research \/ Analyse \/ Write \/ PeerReview \/ Finalize
        <5>1. CASE status' = "phase_failed" /\ ~Finalize
          <6>1. node \in Phases
            BY <4>2, <5>1, NodeOfStep DEF Phases
          <6> QED BY <5>1, <6>1, FailureAccepted
        <5>2. CASE status' = "phase_failed" /\ Finalize
          BY <5>2 DEF Finalize, FinalStatus
        <5>3. CASE status' # "phase_failed"
          BY <4>2, <5>3, SuccessAccepted
        <5> QED BY <5>1, <5>2, <5>3
      <4> QED BY <3>1, <4>1, <4>2 DEF NodeStep
    <3> QED BY <3>1, <3>2 DEF UpdatesAccepted, OutputAccepted
  <2>2. CASE UNCHANGED update
    BY <2>2 DEF UpdatesAccepted, OutputAccepted
  <2> QED BY <2>1, <2>2 DEF ContractedNext, contractedVars
<1> QED BY <1>1, <1>2, ContractedWorkflowInvariant, PTL DEF ContractedSpec
=============================================================================
