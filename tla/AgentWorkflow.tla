--------------------------- MODULE AgentWorkflow ---------------------------
(***************************************************************************)
(* The supervisor graph of one execution (agents/agent_graph.py): research,*)
(* analysis, writing and peer review, their retries and revisions, and the *)
(* checkpoint that LangGraph saves after every node.                       *)
(*                                                                         *)
(* The variables of AgentState are those of the last checkpoint.  A node   *)
(* that completes is one step; a node that is cancelled, crashes or raises *)
(* leaves the checkpoint as it was, but not the tables it wrote to before. *)
(* Lists and texts are reduced to what the routing tells apart.            *)
(***************************************************************************)
EXTENDS Naturals

CONSTANTS
  MaxPhaseAttempts,   \* max_phase_attempts
  MaxResearchRounds,  \* max_research_rounds
  MaxRevisions,       \* max_revision_attempts
  RecursionLimit      \* recursion_limit of _thread_config

ASSUME WorkflowAssumption ==
  /\ MaxPhaseAttempts \in Nat \ {0}
  /\ MaxResearchRounds \in Nat \ {0}
  /\ MaxRevisions \in Nat
  /\ RecursionLimit \in Nat

VARIABLES
  \* AgentState
  status, failedPhase, terminalFailure, phaseAttempts,
  papers, researchComplete, researchRound, analysisComplete,
  finalReview, writingComplete, needsRevision, revisionAttempt,
  peerReviewComplete, score, warnings, errors,
  \* LangGraph: the next node, super-steps of this invocation, its fate
  node, steps, run,
  \* outlines / written_content and the final_review_artifact row, compared
  \* with the review that is in the state
  saved, artifact

retryVars    == <<failedPhase, terminalFailure, phaseAttempts, warnings, errors>>
researchVars == <<papers, researchComplete, researchRound, analysisComplete>>
writingVars  == <<finalReview, writingComplete, needsRevision, revisionAttempt>>
reviewVars   == <<peerReviewComplete, score>>
tables       == <<saved, artifact>>
vars == <<status, retryVars, researchVars, writingVars, reviewVars, node, steps, run, tables>>

Phases == {"research", "analysis", "writing", "peer_review"}
NoPhase == "none"

\* The tables may hold the review of an earlier execution of the project.
Init ==
  /\ status = "created"
  /\ failedPhase = NoPhase /\ terminalFailure = FALSE
  /\ phaseAttempts = [p \in Phases |-> 0]
  /\ papers = FALSE /\ researchComplete = FALSE /\ researchRound = 0
  /\ analysisComplete = FALSE
  /\ finalReview = FALSE /\ writingComplete = FALSE
  /\ needsRevision = FALSE /\ revisionAttempt = 0
  /\ peerReviewComplete = FALSE /\ score = "none"
  /\ warnings = FALSE /\ errors = FALSE
  /\ node = "supervisor" /\ steps = 0 /\ run = "running"
  /\ \/ saved = "nothing" /\ artifact = "nothing"
     \/ saved = "other" /\ artifact = "other"

-----------------------------------------------------------------------------
(* decide_next_phase, in the order of its tests.                           *)

RevisionDue == status = "needs_revision" \/ needsRevision

RoundsLeft == researchRound < MaxResearchRounds

Retryable ==
  IF phaseAttempts[failedPhase] < MaxPhaseAttempts THEN failedPhase ELSE "finalize"

DecideNextPhase ==
  CASE terminalFailure -> "finalize"
    [] ~terminalFailure /\ failedPhase # NoPhase -> Retryable
    [] OTHER ->
  IF status = "needs_more_research"
  THEN IF RoundsLeft THEN "research" ELSE "finalize"
  ELSE IF RevisionDue
  THEN IF revisionAttempt < MaxRevisions THEN "writing" ELSE "finalize"
  ELSE IF ~researchComplete \/ ~papers THEN "research"
  ELSE IF ~analysisComplete THEN "analysis"
  ELSE IF ~writingComplete \/ ~finalReview THEN "writing"
  ELSE IF ~peerReviewComplete THEN "peer_review"
  ELSE "finalize"

\* LangGraph runs the next node while the recursion limit allows a step.
Visit(n) ==
  /\ run = "running"
  /\ node = n
  /\ steps < RecursionLimit
  /\ steps' = steps + 1
  /\ UNCHANGED run

-----------------------------------------------------------------------------
(* _supervisor_node: the update that goes with the decision.               *)

SupplementResearch(decision) ==
  /\ status = "needs_more_research"
  /\ \/ /\ decision = "research"
        /\ status' = "running"
        /\ researchComplete' = FALSE /\ analysisComplete' = FALSE
        /\ UNCHANGED <<retryVars, papers, researchRound>>
     \/ /\ decision = "finalize"
        /\ status' = "failed" /\ terminalFailure' = TRUE /\ errors' = TRUE
        /\ UNCHANGED <<failedPhase, phaseAttempts, warnings, researchVars>>
  /\ UNCHANGED <<writingVars, peerReviewComplete>>

RetryPhase(decision) ==
  /\ status # "needs_more_research" /\ failedPhase # NoPhase
  /\ \/ decision = failedPhase /\ status' = "running" /\ failedPhase' = NoPhase
        /\ UNCHANGED terminalFailure
     \/ decision # failedPhase /\ status' = "failed" /\ terminalFailure' = TRUE
        /\ UNCHANGED failedPhase
  /\ UNCHANGED <<phaseAttempts, warnings, errors, researchVars, writingVars, peerReviewComplete>>

Revise(decision) ==
  /\ status # "needs_more_research" /\ failedPhase = NoPhase /\ RevisionDue
  /\ IF decision = "writing"
     THEN /\ status' = "running" /\ writingComplete' = FALSE /\ peerReviewComplete' = FALSE
          /\ UNCHANGED <<needsRevision, warnings>>
     ELSE /\ status' = "completed_with_warnings" /\ needsRevision' = FALSE /\ warnings' = TRUE
          /\ UNCHANGED <<writingComplete, peerReviewComplete>>
  /\ UNCHANGED <<failedPhase, terminalFailure, phaseAttempts, errors, researchVars,
                 finalReview, revisionAttempt>>

Advance(decision) ==
  /\ status # "needs_more_research" /\ failedPhase = NoPhase /\ ~RevisionDue
  /\ status' = IF decision = "finalize" THEN "finalizing" ELSE "running"
  /\ UNCHANGED <<retryVars, researchVars, writingVars, peerReviewComplete>>

Supervise ==
  /\ Visit("supervisor")
  /\ LET decision == DecideNextPhase IN
       /\ node' = decision
       /\ \/ SupplementResearch(decision) \/ RetryPhase(decision)
          \/ Revise(decision) \/ Advance(decision)
  /\ UNCHANGED <<score, tables>>

-----------------------------------------------------------------------------
(* The phases.  Each one but finalize goes back to the supervisor.         *)

\* Mutant: a failure is not counted against the phase's attempts.
PhaseFailureUncounted(p) ==
  /\ status' = "phase_failed" /\ failedPhase' = p
  /\ warnings' = TRUE
  /\ UNCHANGED <<phaseAttempts, terminalFailure, errors>>

\* _phase_failure
PhaseFailure(p) ==
  LET last == phaseAttempts[p] + 1 >= MaxPhaseAttempts IN
  /\ phaseAttempts' = [phaseAttempts EXCEPT ![p] = @ + 1]
  /\ status' = "phase_failed" /\ failedPhase' = p
  /\ \/ last /\ terminalFailure' = TRUE /\ errors' = TRUE /\ UNCHANGED warnings
     \/ ~last /\ terminalFailure' = FALSE /\ warnings' = TRUE /\ UNCHANGED errors

Succeeded ==
  /\ failedPhase' = NoPhase /\ terminalFailure' = FALSE
  /\ UNCHANGED <<phaseAttempts, errors>>

\* Mutant: the round that has been done is not counted.
ResearchUncounted ==
  /\ Visit("research") /\ node' = "supervisor"
  /\ \/ /\ Succeeded /\ UNCHANGED warnings
        /\ status' = "running" /\ papers' = TRUE /\ researchComplete' = TRUE
        /\ UNCHANGED <<researchRound, analysisComplete>>
     \/ PhaseFailure("research") /\ UNCHANGED researchVars
  /\ UNCHANGED <<writingVars, reviewVars, tables>>

Research ==
  /\ Visit("research") /\ node' = "supervisor"
  /\ \/ /\ Succeeded /\ UNCHANGED warnings
        /\ status' = "running" /\ papers' = TRUE /\ researchComplete' = TRUE
        /\ researchRound' = researchRound + 1
        /\ UNCHANGED analysisComplete
     \/ PhaseFailure("research") /\ UNCHANGED researchVars
  /\ UNCHANGED <<writingVars, reviewVars, tables>>

\* Coverage below 0.55 asks for another round; tools may add warnings.
Analyse ==
  /\ Visit("analysis") /\ node' = "supervisor"
  /\ \/ /\ papers /\ Succeeded
        /\ warnings' \in {warnings, TRUE}
        /\ \/ status' = "needs_more_research" /\ analysisComplete' = FALSE
           \/ status' = "running" /\ analysisComplete' = TRUE
        /\ UNCHANGED <<papers, researchComplete, researchRound>>
     \/ PhaseFailure("analysis") /\ UNCHANGED researchVars
  /\ UNCHANGED <<writingVars, reviewVars, tables>>

\* The sections of a draft, or only the first of them, are in the tables; the
\* draft itself is not yet in the state and may never be.
PersistDraft == saved' \in {saved, "other"}

\* Mutant: a failure to persist the sections does not fail the phase.
WriteUnsaved ==
  /\ Visit("writing") /\ node' = "supervisor"
  /\ papers /\ Succeeded /\ UNCHANGED warnings
  /\ status' = "running" /\ finalReview' = TRUE /\ writingComplete' = TRUE
  /\ needsRevision' = FALSE /\ peerReviewComplete' = FALSE
  /\ revisionAttempt' = IF needsRevision THEN revisionAttempt + 1 ELSE revisionAttempt
  /\ score' = "stale"
  /\ PersistDraft
  /\ artifact' = IF artifact = "match" THEN "other" ELSE artifact
  /\ UNCHANGED researchVars

\* _writing_node: _persist_writing_artifacts is its last await.
Write ==
  /\ Visit("writing") /\ node' = "supervisor"
  /\ \/ /\ papers /\ Succeeded /\ UNCHANGED warnings
        /\ status' = "running" /\ finalReview' = TRUE /\ writingComplete' = TRUE
        /\ needsRevision' = FALSE /\ peerReviewComplete' = FALSE
        /\ revisionAttempt' = IF needsRevision THEN revisionAttempt + 1 ELSE revisionAttempt
        /\ score' = IF score = "none" THEN "none" ELSE "stale"
        /\ saved' = "match"
        /\ artifact' = IF artifact = "match" THEN "other" ELSE artifact
     \/ /\ PhaseFailure("writing")
        /\ PersistDraft
        /\ UNCHANGED <<writingVars, reviewVars, artifact>>
  /\ UNCHANGED researchVars

\* Mutant: out of revisions, a low score passes without a warning.
LowScorePasses ==
  /\ score' = "fail" /\ status' = "running" /\ peerReviewComplete' = TRUE
  /\ needsRevision' = FALSE
  /\ UNCHANGED <<terminalFailure, warnings>>

\* The score is below the threshold.
LowScore ==
  /\ score' = "fail"
  /\ UNCHANGED terminalFailure
  /\ \/ /\ revisionAttempt < MaxRevisions
        /\ status' = "needs_revision" /\ peerReviewComplete' = FALSE /\ needsRevision' = TRUE
        /\ UNCHANGED warnings
     \/ /\ revisionAttempt >= MaxRevisions
        /\ status' = "completed_with_warnings" /\ peerReviewComplete' = TRUE
        /\ needsRevision' = FALSE /\ warnings' = TRUE

GoodScore ==
  /\ score' = "pass" /\ status' = "running" /\ peerReviewComplete' = TRUE
  /\ needsRevision' = FALSE /\ terminalFailure' = FALSE
  /\ UNCHANGED warnings

PeerReview ==
  /\ Visit("peer_review") /\ node' = "supervisor"
  /\ \/ /\ finalReview
        /\ LowScore \/ GoodScore
        /\ failedPhase' = NoPhase
        /\ UNCHANGED <<phaseAttempts, errors>>
     \/ PhaseFailure("peer_review") /\ UNCHANGED <<needsRevision, reviewVars>>
  /\ UNCHANGED <<researchVars, finalReview, writingComplete, revisionAttempt, tables>>

-----------------------------------------------------------------------------
\* Mutant: an artifact that is there is not replaced.
SaveArtifactOnce == artifact' = IF finalReview /\ artifact = "nothing" THEN "match" ELSE artifact

SaveArtifact == artifact' = IF finalReview THEN "match" ELSE artifact

\* Mutant: a review that exists is reported whatever happened to its revision.
FinalStatusOfReview ==
  IF ~finalReview THEN "failed"
  ELSE IF status = "completed_with_warnings" \/ warnings THEN "completed_with_warnings"
  ELSE "completed"

FinalStatus ==
  IF terminalFailure \/ ~finalReview THEN "failed"
  ELSE IF status = "completed_with_warnings" \/ warnings THEN "completed_with_warnings"
  ELSE "completed"

Finalize ==
  /\ Visit("finalize")
  /\ node' = "end"
  /\ status' = FinalStatus
  /\ SaveArtifact
  /\ UNCHANGED <<retryVars, researchVars, writingVars, reviewVars, saved>>

(***************************************************************************)
(* The invocation ends before the graph does: cancelled, crashed, a node   *)
(* that raises (its contract, or the database in finalize), or the         *)
(* recursion limit.  What the interrupted node had written stays.          *)
(***************************************************************************)
Stop ==
  /\ run = "running" /\ node # "end"
  /\ run' = "stopped"
  /\ IF node = "writing" /\ steps < RecursionLimit THEN PersistDraft ELSE UNCHANGED saved
  /\ \/ node = "finalize" /\ steps < RecursionLimit /\ SaveArtifact
     \/ UNCHANGED artifact
  /\ UNCHANGED <<status, retryVars, researchVars, writingVars, reviewVars, node, steps>>

\* run_agent_graph with resume: from the checkpoint, with a fresh step count.
Resume ==
  /\ run = "stopped"
  /\ run' = "running" /\ steps' = 0
  /\ UNCHANGED <<status, retryVars, researchVars, writingVars, reviewVars, node, tables>>

NodeStep == Supervise \/ Research \/ Analyse \/ Write \/ PeerReview \/ Finalize

Next == NodeStep \/ Stop \/ Resume

Spec == Init /\ [][Next]_vars

\* A node that the graph has reached is run to its end; provider calls have
\* deadlines.  Nothing obliges a user to resume.
FairSpec == Spec /\ WF_vars(NodeStep)

-----------------------------------------------------------------------------
Statuses ==
  {"created", "running", "finalizing", "phase_failed", "needs_more_research",
   "needs_revision", "completed", "completed_with_warnings", "failed"}

TypeOK ==
  /\ status \in Statuses
  /\ failedPhase \in Phases \cup {NoPhase} /\ terminalFailure \in BOOLEAN
  /\ phaseAttempts \in [Phases -> 0..MaxPhaseAttempts]
  /\ papers \in BOOLEAN /\ researchComplete \in BOOLEAN
  /\ researchRound \in 0..MaxResearchRounds
  /\ analysisComplete \in BOOLEAN
  /\ finalReview \in BOOLEAN /\ writingComplete \in BOOLEAN
  /\ needsRevision \in BOOLEAN /\ revisionAttempt \in 0..MaxRevisions
  /\ peerReviewComplete \in BOOLEAN /\ score \in {"none", "pass", "fail", "stale"}
  /\ warnings \in BOOLEAN /\ errors \in BOOLEAN
  /\ node \in Phases \cup {"supervisor", "finalize", "end"}
  /\ steps \in 0..RecursionLimit /\ run \in {"running", "stopped"}
  /\ saved \in {"nothing", "match", "other"} /\ artifact \in {"nothing", "match", "other"}

\* _inspect_checkpoint for a checkpoint without a next node.
Disposition ==
  IF status \in {"completed", "completed_with_warnings"} /\ ~errors THEN "success"
  ELSE IF status = "failed" \/ terminalFailure \/ errors THEN "failure"
  ELSE "unknown"

\* What _run records for the execution, and run_agent_graph for the project.
RunSucceeded == status # "failed" /\ ~errors
ProjectCompleted == status # "failed"

\* Three places judge a finished graph - the execution row, the project row,
\* and the resume that finds it finished after a crash - and they agree; no
\* finished checkpoint is one that a resume can neither run nor close.
VerdictsAgree ==
  node = "end" =>
    /\ Disposition # "unknown"
    /\ RunSucceeded <=> Disposition = "success"
    /\ ProjectCompleted <=> RunSucceeded

\* A review is reported as completed only if peer review has scored this very
\* text, and without a warning only if the score passed.
CompletedIsScored ==
  node = "end" =>
    /\ status = "completed" => score = "pass"
    /\ status = "completed_with_warnings" => score \in {"pass", "fail"}

\* Peer review judges the text whose sections are in the database, whatever
\* failed or interrupted attempts wrote before.
ReviewedTextIsSaved == node = "peer_review" => finalReview /\ saved = "match"

\* A completed review, its artifact row and its sections are the same text,
\* although each is written by another step that may be cut short and redone.
CompletedIsStored ==
  node = "end" /\ status # "failed" => artifact = "match" /\ saved = "match"

\* The caps on attempts, rounds and revisions end every run before the
\* recursion limit does.
WithinRecursionLimit == node # "end" => steps < RecursionLimit

\* A run that is left alone ends.
EveryRunEnds == <>[](run = "running") => <>(node = "end")
=============================================================================
