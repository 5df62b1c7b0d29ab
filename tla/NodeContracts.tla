--------------------------- MODULE NodeContracts ---------------------------
(***************************************************************************)
(* The contracts of the six graph nodes (agents/node_contracts.py): which  *)
(* fields of the state a node is given, which ones each of its branches    *)
(* must and may update, and which outcomes the contract calls terminal.    *)
(*                                                                         *)
(* An update is a record: the node, the value of its "status" field, the   *)
(* fields it sets and those it sets to None.  The JSON kinds of the other  *)
(* values, the prose and the acceptance criteria are left out.             *)
(***************************************************************************)
EXTENDS FiniteSets

NodeNames == {"supervisor", "research", "analysis", "writing", "peer_review", "finalize"}

\* The fields of AgentState.
AgentStateFields ==
  {"project_id", "execution_id", "topic", "target_papers", "target_words",
   "quality_threshold", "minimum_body_ratio", "minimum_body_tolerance",
   "current_phase", "status", "decision_reason",
   "papers", "paper_ids", "research_summary", "research_complete", "research_round",
   "max_research_rounds", "suggested_queries",
   "embeddings_ready", "embedding_model", "coverage", "coverage_score",
   "knowledge_graph", "evidence_cards", "gap_analysis", "analysis_complete",
   "outline", "sections", "reference_map", "cited_reference_numbers",
   "final_references", "abstract", "final_review", "writing_complete",
   "peer_review_report", "quality_score", "peer_review_complete", "needs_revision",
   "revision_feedback", "revision_attempt", "max_revision_attempts",
   "phase_attempts", "max_phase_attempts", "failed_phase", "terminal_failure",
   "warnings", "errors"}

\* _STATE_FIELD_SHAPES: what a contract may name, and what may be None.
ContractFields == AgentStateFields \ {"minimum_body_ratio", "minimum_body_tolerance"}
NullableFields == {"quality_score", "failed_phase"}

-----------------------------------------------------------------------------
(* The field lists.                                                        *)

Identity == {"project_id", "execution_id"}
Journal  == {"warnings", "errors"}
AttemptFields == {"phase_attempts", "max_phase_attempts"}
Progress == {"current_phase", "status"}
Retry    == {"failed_phase", "terminal_failure", "phase_attempts"}

SupervisorInput ==
  Identity \cup Journal \cup AttemptFields \cup
  {"status", "terminal_failure", "failed_phase", "research_round", "max_research_rounds",
   "needs_revision", "revision_attempt", "max_revision_attempts", "research_complete",
   "papers", "analysis_complete", "writing_complete", "final_review", "peer_review_complete"}
SupervisorOutput ==
  Progress \cup Journal \cup
  {"decision_reason", "research_complete", "analysis_complete", "embeddings_ready",
   "terminal_failure", "failed_phase", "writing_complete", "peer_review_complete",
   "needs_revision"}

ResearchInput ==
  Identity \cup Journal \cup AttemptFields \cup
  {"topic", "target_papers", "suggested_queries", "research_round"}
ResearchOutput ==
  Progress \cup Retry \cup Journal \cup
  {"papers", "paper_ids", "research_summary", "research_complete", "research_round",
   "suggested_queries"}

AnalysisInput ==
  Identity \cup Journal \cup AttemptFields \cup {"topic", "target_papers", "papers"}
AnalysisOutput ==
  Progress \cup Retry \cup Journal \cup
  {"embeddings_ready", "embedding_model", "coverage", "coverage_score",
   "suggested_queries", "analysis_complete", "knowledge_graph", "evidence_cards",
   "gap_analysis"}

WritingInput ==
  Identity \cup Journal \cup AttemptFields \cup
  {"topic", "target_words", "papers", "evidence_cards", "coverage", "reference_map",
   "needs_revision", "outline", "sections", "final_references", "revision_feedback",
   "revision_attempt", "quality_score"}
WritingOutput ==
  Progress \cup Retry \cup Journal \cup
  {"outline", "sections", "reference_map", "cited_reference_numbers", "final_references",
   "abstract", "final_review", "writing_complete", "needs_revision", "revision_feedback",
   "peer_review_complete", "revision_attempt"}

PeerReviewInput ==
  Identity \cup Journal \cup AttemptFields \cup
  {"topic", "final_review", "quality_threshold", "revision_attempt", "max_revision_attempts"}
PeerReviewOutput ==
  Progress \cup Retry \cup Journal \cup
  {"peer_review_report", "quality_score", "peer_review_complete", "needs_revision",
   "revision_feedback"}

FinalizeInput ==
  {"project_id", "terminal_failure", "final_review", "status", "warnings",
   "final_references", "abstract", "outline", "peer_review_report", "quality_score",
   "coverage"}
FinalizeOutput == Progress

-----------------------------------------------------------------------------
(* The contracts: input, output, what every update has, what the branch    *)
(* that a status selects has besides, the fields bound to the parameters   *)
(* of the declared invocations, and the statuses that are declared to be   *)
(* terminal, with the status the execution is declared to end with.        *)

Variant(status, required) == [status |-> status, required |-> required]

\* _phase_retry_errors: the failures of a phase; the last one is terminal.
FailureStatus(phase) ==
  CASE phase = "research"    -> "research_failed"
    [] phase = "analysis"    -> "analysis_failed"
    [] phase = "writing"     -> "writing_failed"
    [] phase = "peer_review" -> "peer_review_failed"

SupervisorContract ==
  [input |-> SupervisorInput, output |-> SupervisorOutput,
   required |-> Progress \cup {"decision_reason"},
   variants |-> {Variant("running", {}), Variant("finalizing", {}),
                 Variant("failed", {"terminal_failure"}),
                 Variant("completed_with_warnings", {"needs_revision", "warnings"})},
   reads |-> SupervisorInput,
   terminal |-> {"failed", "completed_with_warnings"}]

ResearchContract ==
  [input |-> ResearchInput, output |-> ResearchOutput,
   required |-> Progress \cup {"failed_phase", "terminal_failure"},
   variants |-> {Variant("running", {"papers", "paper_ids", "research_summary",
                           "research_complete", "research_round", "suggested_queries"}),
                 Variant(FailureStatus("research"), {"phase_attempts"} \cup Journal)},
   reads |-> {"topic", "project_id", "target_papers", "suggested_queries"},
   terminal |-> {}]

AnalysisContract ==
  LET measured == {"embeddings_ready", "embedding_model", "coverage", "coverage_score",
                   "analysis_complete"} IN
  [input |-> AnalysisInput, output |-> AnalysisOutput,
   required |-> Progress \cup {"failed_phase", "terminal_failure", "warnings"},
   variants |-> {Variant("needs_more_research", measured \cup {"suggested_queries"}),
                 Variant("running", measured \cup
                           {"knowledge_graph", "evidence_cards", "gap_analysis"}),
                 Variant(FailureStatus("analysis"), {"phase_attempts", "errors"})},
   reads |-> {"papers", "topic", "target_papers", "evidence_cards"},
   terminal |-> {}]

WritingContract ==
  [input |-> WritingInput, output |-> WritingOutput,
   required |-> Progress \cup {"failed_phase", "terminal_failure"},
   variants |-> {Variant("running", WritingOutput \ (Progress \cup Retry \cup Journal)),
                 Variant(FailureStatus("writing"), {"phase_attempts"} \cup Journal)},
   reads |-> {"topic", "evidence_cards", "target_words", "outline", "papers",
              "reference_map", "coverage", "sections", "final_references",
              "revision_feedback", "project_id", "revision_attempt", "quality_score"},
   terminal |-> {}]

PeerReviewContract ==
  LET judged == {"peer_review_report", "quality_score", "peer_review_complete",
                 "needs_revision"} IN
  [input |-> PeerReviewInput, output |-> PeerReviewOutput,
   required |-> Progress \cup {"failed_phase"},
   variants |-> {Variant("needs_revision", judged \cup {"revision_feedback"}),
                 Variant("completed_with_warnings", judged \cup {"warnings"}),
                 Variant("running", judged \cup {"terminal_failure"}),
                 Variant(FailureStatus("peer_review"),
                         {"terminal_failure", "phase_attempts"} \cup Journal)},
   reads |-> {"final_review", "topic"},
   terminal |-> {"completed_with_warnings"}]

FinalizeContract ==
  [input |-> FinalizeInput, output |-> FinalizeOutput,
   required |-> FinalizeOutput,
   variants |-> {Variant("completed", {}), Variant("completed_with_warnings", {}),
                 Variant("failed", {})},
   reads |-> FinalizeInput,
   terminal |-> {"failed", "completed_with_warnings"}]

Contract(node) ==
  CASE node = "supervisor"  -> SupervisorContract
    [] node = "research"    -> ResearchContract
    [] node = "analysis"    -> AnalysisContract
    [] node = "writing"     -> WritingContract
    [] node = "peer_review" -> PeerReviewContract
    [] node = "finalize"    -> FinalizeContract

-----------------------------------------------------------------------------
(* Declaring a contract raises, and the module does not load, unless its   *)
(* fields are fields of the state, its branches require fields it has, and *)
(* no status selects two of them.                                          *)

ArtifactFieldsKnown(names, required) == names \subseteq ContractFields /\ required \subseteq names

VariantsDeclared(output, variants) ==
  /\ \A v \in variants : v.required \subseteq output
  /\ \A v, w \in variants : v.status = w.status => v = w

WellDeclared(c) ==
  /\ ArtifactFieldsKnown(c.input, c.input)
  /\ ArtifactFieldsKnown(c.output, c.required)
  /\ VariantsDeclared(c.output, c.variants)

\* The module of the contracts loads, and no declared invocation is bound to a
\* field that the node neither receives nor makes.
ASSUME ContractsDeclared ==
  \A n \in NodeNames :
    WellDeclared(Contract(n)) /\ Contract(n).reads \subseteq Contract(n).input \cup Contract(n).output

-----------------------------------------------------------------------------
(* Validation at run time.                                                 *)

\* project_node_input: every field the node reads is there, and None only
\* where it may be.  "nulls" are the fields of the state that are None.
InputAccepted(node, nulls) ==
  /\ Contract(node).input \subseteq AgentStateFields
  /\ Contract(node).input \cap nulls \subseteq NullableFields

\* _validate_payload, validate_node_output: no unknown field, the required
\* ones, None only where it may be, one branch for the status and its fields.
OutputAccepted(u) ==
  LET c == Contract(u.node)
      matching == {v \in c.variants : v.status = u.status} IN
  /\ u.fields \subseteq c.output
  /\ c.required \subseteq u.fields
  /\ u.nulls \subseteq NullableFields
  /\ Cardinality(matching) = 1
  /\ \A v \in matching : v.required \subseteq u.fields

\* What an update settles by the declared errors and fallbacks: the status the
\* execution ends with, or "none".
DeclaredOutcome(u, exhausted) ==
  IF exhausted THEN "failed"
  ELSE IF u.status \in Contract(u.node).terminal THEN u.status ELSE "none"
=============================================================================
