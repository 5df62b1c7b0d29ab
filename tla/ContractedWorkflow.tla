------------------------- MODULE ContractedWorkflow -------------------------
(***************************************************************************)
(* The graph of AgentWorkflow with the update that each node returns: the  *)
(* fields it sets, the contract that checks it (enforce_node_contract in   *)
(* agents/node_runtime.py) and the state LangGraph merges it into.  A      *)
(* field that a branch does not set keeps the value an earlier node gave   *)
(* it, so data of different rounds and drafts meet in one state.           *)
(*                                                                         *)
(* Of a field's value the model keeps its origin: the number of the        *)
(* research result, for what is made from papers, or of the draft, for     *)
(* what is made from its text; 0 is the default of AgentState.             *)
(***************************************************************************)
EXTENDS AgentWorkflow, NodeContracts

VARIABLES
  update,    \* the last node update, or NoUpdate
  origin,    \* the origin of each data field
  declared   \* the final status a contract has declared so far, or "none"

contractedVars == <<vars, update, origin, declared>>

NoUpdate == [node |-> "none", status |-> "none", fields |-> {}, nulls |-> {}]

PaperFields    == {"papers", "paper_ids", "research_summary"}
AnalysisFields == {"coverage", "coverage_score", "knowledge_graph", "evidence_cards", "gap_analysis"}
DraftFields    == {"outline", "sections", "cited_reference_numbers", "final_references",
                   "abstract", "final_review"}
ReviewFields   == {"peer_review_report", "quality_score"}
DataFields == PaperFields \cup AnalysisFields \cup DraftFields \cup ReviewFields \cup {"reference_map"}

ContractedInit ==
  /\ Init
  /\ update = NoUpdate
  /\ origin = [f \in DataFields |-> 0]
  /\ declared = "none"

-----------------------------------------------------------------------------
(* The fields that each branch of a node sets.                             *)

\* _supervisor_node
SupervisorFields ==
  Progress \cup {"decision_reason"} \cup
  IF status = "needs_more_research"
  THEN IF node' = "research"
       THEN {"research_complete", "analysis_complete", "embeddings_ready"}
       ELSE {"terminal_failure", "errors"}
  ELSE IF failedPhase # NoPhase
  THEN IF node' = failedPhase THEN {"failed_phase"} ELSE {"terminal_failure"}
  ELSE IF RevisionDue
  THEN IF node' = "writing" THEN {"writing_complete", "peer_review_complete"}
                            ELSE {"needs_revision", "warnings"}
  ELSE {}

\* Mutant: the failure update leaves the warnings to the success branch.
FailureWithoutWarnings == Progress \cup Retry \cup {"errors"}

\* _phase_failure
PhaseFailureFields == Progress \cup Retry \cup Journal

\* Every phase that succeeds clears the failure.
SuccessFields == Progress \cup {"failed_phase", "terminal_failure"}

\* _research_node
ResearchFields ==
  SuccessFields \cup PaperFields \cup {"research_complete", "research_round", "suggested_queries"}

\* _analysis_node: too little coverage returns before the evidence is made.
AnalysisNodeFields ==
  SuccessFields \cup {"warnings", "embeddings_ready", "embedding_model", "coverage",
                      "coverage_score", "analysis_complete"} \cup
  IF status' = "needs_more_research" THEN {"suggested_queries"}
  ELSE {"knowledge_graph", "evidence_cards", "gap_analysis"}

\* Mutant: a revision does not return the outline it started from.
RevisionKeepsOutline ==
  SuccessFields \cup (DraftFields \ (IF needsRevision THEN {"outline"} ELSE {})) \cup
  {"reference_map", "writing_complete", "needs_revision", "revision_feedback",
   "peer_review_complete", "revision_attempt"}

\* _writing_node
WritingFields ==
  SuccessFields \cup DraftFields \cup
  {"reference_map", "writing_complete", "needs_revision", "revision_feedback",
   "peer_review_complete", "revision_attempt"}

\* _peer_review_node
PeerReviewFields ==
  Progress \cup ReviewFields \cup {"peer_review_complete", "needs_revision", "failed_phase"} \cup
  CASE status' = "needs_revision"          -> {"revision_feedback"}
    [] status' = "completed_with_warnings" -> {"warnings"}
    [] OTHER                               -> {"terminal_failure"}

\* The update of the node that runs in this step.
NodeFields(n) ==
  IF n \in Phases /\ status' = "phase_failed" THEN PhaseFailureFields
  ELSE CASE n = "supervisor"  -> SupervisorFields
         [] n = "research"    -> ResearchFields
         [] n = "analysis"    -> AnalysisNodeFields
         [] n = "writing"     -> WritingFields
         [] n = "peer_review" -> PeerReviewFields
         [] n = "finalize"    -> Progress

NodeUpdate(n) ==
  LET fields == NodeFields(n) IN
  [node   |-> n,
   status |-> IF status' = "phase_failed" THEN FailureStatus(n) ELSE status',
   fields |-> fields,
   nulls  |-> IF "failed_phase" \in fields /\ failedPhase' = NoPhase THEN {"failed_phase"} ELSE {}]

-----------------------------------------------------------------------------
(* What a node makes its new values from.                                  *)

Made(n) ==
  CASE n = "research"    -> origin["papers"] + 1
    [] n = "analysis"    -> origin["papers"]
    [] n = "writing"     -> origin["final_review"] + 1
    [] n = "peer_review" -> origin["final_review"]
    [] OTHER             -> 0

\* LangGraph's merge: the fields of the update, and no others.  The reference
\* map is made once, from the papers of the first draft.
Merge(n) ==
  [f \in DataFields |->
     IF f \notin update'.fields THEN origin[f]
     ELSE IF f = "reference_map"
          THEN IF origin[f] = 0 THEN origin["papers"] ELSE origin[f]
     ELSE Made(n)]

\* The fields of the state that are None.
NullsOfState ==
  (IF failedPhase = NoPhase THEN {"failed_phase"} ELSE {}) \cup
  (IF score = "none" THEN {"quality_score"} ELSE {})

\* The last failure a phase is allowed.
Exhausted(n) == n \in Phases /\ status' = "phase_failed" /\ terminalFailure'

\* enforce_node_contract: the node runs once and its update is validated and
\* returned as it is.  A rejected update would raise instead - UpdatesAccepted
\* says that there is none.
ContractedStep ==
  \E n \in NodeNames :
    /\ node = n /\ InputAccepted(n, NullsOfState)
    /\ NodeStep
    /\ update' = NodeUpdate(n)
    /\ origin' = Merge(n)
    /\ declared' = IF declared # "none" THEN declared
                   ELSE DeclaredOutcome(update', Exhausted(n))

ContractedNext ==
  \/ ContractedStep
  \/ (Stop \/ Resume) /\ UNCHANGED <<update, origin, declared>>

ContractedSpec ==
  ContractedInit /\ [][ContractedNext]_contractedVars /\ WF_contractedVars(ContractedStep)

-----------------------------------------------------------------------------
\* Whatever branch a node takes, in whatever state of retries, supplements and
\* revisions, its contract accepts the update: a rejection would raise out of
\* the graph, past the phase's own retry.
UpdatesAccepted == update # NoUpdate => OutputAccepted(update)

\* What writing is given was made from the papers that are in the state: a
\* supplement that changed the papers leaves no older coverage or evidence.
EvidenceIsCurrent ==
  node = "writing" =>
    \A f \in AnalysisFields \cup PaperFields : origin[f] = origin["papers"]

\* What finalize stores of a review that completed is of one piece: text,
\* outline, references, abstract, report and score of the same draft, coverage
\* and numbering of the papers it was written from - although every field is
\* merged on its own and failed attempts come in between.
ArtifactIsOnePiece ==
  node = "end" /\ status # "failed" =>
    /\ \A f \in DraftFields \cup ReviewFields : origin[f] = origin["final_review"]
    /\ origin["coverage"] = origin["papers"] /\ origin["reference_map"] = origin["papers"]

\* LangGraph's merge never lets data of two drafts or two rounds be used
\* together: neither by writing nor in what is stored.
DataIsOfOnePiece == EvidenceIsCurrent /\ ArtifactIsOnePiece

\* Once a contract has declared an outcome terminal, no phase runs any more and
\* the graph ends with the declared status.
DeclaredOutcomeHolds ==
  declared # "none" =>
    /\ node \notin Phases
    /\ node = "end" => status = declared
=============================================================================
