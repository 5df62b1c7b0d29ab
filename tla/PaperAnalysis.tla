---------------------------- MODULE PaperAnalysis ---------------------------
(***************************************************************************)
(* The analysis node (agents/agent_graph.py) after the research node:      *)
(* clusters and coverage, knowledge graph, evidence cards and gaps         *)
(* (tools/agent_tools.py), each stored in transactions of its own, with a  *)
(* failure or an interruption possible between any two of them.            *)
(*                                                                         *)
(* The tables outlive the state: a failed phase starts again from the      *)
(* state it began with, an interrupted execution is resumed from there or  *)
(* is followed by a new one, which starts with an empty state.             *)
(***************************************************************************)
EXTENDS ResearchAgent

CONSTANTS
  ClusterLimit,  \* papers read for clustering
  MinClustered,  \* with fewer papers there is no clustering
  KgLimit, EvidenceLimit,  \* papers extracted, papers carded in one analysis
  OldCards,      \* papers with a placeholder card, the row of an older version
  KgAnswers      \* what a model may extract: names, relations, its paper's id

ASSUME AnalysisAssumption ==
  /\ {ClusterLimit, MinClustered, KgLimit, EvidenceLimit} \subseteq Nat \ {0}
  /\ \A a \in KgAnswers : a.own \in BOOLEAN

VARIABLES
  clusters,    \* tables clusters and cluster_assignments
  entities,    \* table kg_entities: name -> the papers that mention it
  relations,   \* table kg_relations
  cards,       \* table evidence_cards: "none", "placeholder" or "genuine"
  coverage, evidence,  \* coverage.clusters and evidence_cards of the state
  warned,      \* its warnings say that clusters were not saved
  work         \* the locals of the node

tables == <<clusters, entities, relations, cards>>
analysisState == <<coverage, evidence, warned>>
vars == <<researchVars, tables, analysisState, work>>

NoGraph == [mentions |-> <<>>, relations |-> {}]
Idle == [step |-> "idle", warned |-> FALSE, enough |-> FALSE,
         found |-> {}, todo |-> {}, now |-> {},  \* clusters: all, not saved yet, being saved
         got |-> NoGraph, ids |-> {},            \* the extracted graph, its names read back
         unsaved |-> {}, evidence |-> {}]
Ids == UNION {{r.id : r \in found} : found \in UNION {SourceAnswers[s] : s \in Enabled}}

Init ==
  /\ ResearchInit
  /\ clusters = {} /\ entities = <<>> /\ relations = {}
  /\ cards = [p \in Ids |-> IF p \in OldCards THEN "placeholder" ELSE "none"]
  /\ coverage = {} /\ evidence = {} /\ warned = FALSE /\ work = Idle

Goto(w) ==
  /\ work' = w
  /\ UNCHANGED <<researchVars, analysisState>>

AnalysisFails ==
  /\ work # Idle /\ PhaseFailure("analysis") /\ work' = Idle
  /\ UNCHANGED <<links, papers, rounds, stops, agent, calls, counted, tables, analysisState>>

\* Every paper of the state has an embedding, or the phase has failed.
StartAnalysis ==
  /\ phase = "analysis" /\ work = Idle
  /\ Goto([work EXCEPT !.step = "embedded", !.warned = warned])
  /\ UNCHANGED tables

(***************************************************************************)
(* Clusters and coverage, of the papers linked to the project, those       *)
(* beyond the target too.  Which graph is built and how it is divided is   *)
(* left open: communities, or connected components without igraph, put     *)
(* every paper that was read in one cluster.                               *)
(***************************************************************************)
Partitions(ids) ==
  {part \in SUBSET (SUBSET ids \ {{}}) :
     UNION part = ids /\ \A c, d \in part : c # d => c \cap d = {}}

ClustersOf == [read \in SUBSET Ids |-> Partitions(read)]

\* The score is the model's, but never above papers / target.
Ceiling(read) == 100 * Cardinality(read) >= 55 * Target

\* A second reading of the links, after that of FinishResearch: above its limit it need
\* not hold all the papers of the state, for their order depends on citation counts, which
\* any project that saves a paper may have raised since.
ClusterAndEvaluate ==
  /\ work.step = "embedded"
  /\ \E read \in ProjectPapers(ClusterLimit), scored \in BOOLEAN :
       IF Cardinality(read) < MinClustered
         THEN Goto([work EXCEPT !.step = "covered", !.enough = Ceiling(read)])
         ELSE \E found \in ClustersOf[read] :
                Goto([work EXCEPT !.step = "replacing", !.enough = scored /\ Ceiling(read),
                                  !.found = found])
  /\ UNCHANGED tables

\* Mutant: the clusters of the last analysis are kept beside the new ones.
KeepProjectClusters ==
  /\ work.step = "replacing"
  /\ Goto([work EXCEPT !.step = "saving", !.todo = work.found])
  /\ UNCHANGED tables

DeleteProjectClusters ==
  /\ work.step = "replacing"
  /\ clusters' = {}
  /\ Goto([work EXCEPT !.step = "saving", !.todo = work.found])
  /\ UNCHANGED <<entities, relations, cards>>

(***************************************************************************)
(* A cluster is a row and then its assignments, in two transactions.  A    *)
(* failure of either is counted, and the next cluster is saved.            *)
(***************************************************************************)
SaveCluster ==
  /\ work.step = "saving"
  /\ \E c \in work.todo :
       /\ clusters' = clusters \cup {[members |-> c, assigned |-> FALSE]}
       /\ Goto([work EXCEPT !.step = "assigning", !.now = c])
  /\ UNCHANGED <<entities, relations, cards>>

NextCluster(c) == [work EXCEPT !.step = "saving", !.todo = @ \ {c}, !.now = {}]

SaveClusterAssignments ==
  /\ work.step = "assigning"
  /\ clusters' = (clusters \ {[members |-> work.now, assigned |-> FALSE]})
                   \cup {[members |-> work.now, assigned |-> TRUE]}
  /\ Goto(NextCluster(work.now))
  /\ UNCHANGED <<entities, relations, cards>>

ClusterSaveFails ==
  /\ work.step \in {"saving", "assigning"} /\ work.todo # {}
  /\ \E c \in IF work.step = "saving" THEN work.todo ELSE {work.now} :
       Goto([NextCluster(c) EXCEPT !.warned = TRUE])
  /\ UNCHANGED tables

ClustersSaved ==
  /\ work.step = "saving" /\ work.todo = {}
  /\ Goto([work EXCEPT !.step = "covered"])
  /\ UNCHANGED tables

(***************************************************************************)
(* Too little is covered: the supervisor sends the state back to research, *)
(* or gives up after the last round.                                       *)
(***************************************************************************)
NeedsMoreResearch ==
  /\ work.step = "covered" /\ ~work.enough
  /\ coverage' = work.found /\ warned' = work.warned
  /\ phase' = IF rounds < MaxRounds THEN "research" ELSE "finalize"
  /\ work' = Idle
  /\ UNCHANGED <<links, papers, rounds, failures, stops, agent, calls, counted, tables, evidence>>

CoverageEnough ==
  /\ work.step = "covered" /\ work.enough
  /\ Goto([work EXCEPT !.step = "graph"])
  /\ UNCHANGED tables

(***************************************************************************)
(* The knowledge graph.  Papers that some entity names are not extracted   *)
(* again, whoever extracted them; a lookup that fails skips none.  The     *)
(* extractions share nothing and are one step; if all fail, or any other   *)
(* call does, the analysis goes on.                                        *)
(***************************************************************************)
KnownPapers == UNION {entities[n] : n \in DOMAIN entities}

KnowledgeGraphFails ==
  /\ work.step = "graph"
  /\ Goto([work EXCEPT !.step = "evidence"])
  /\ UNCHANGED tables

AllExtracted ==
  /\ work.step = "graph" /\ papers \subseteq KnownPapers
  /\ Goto([work EXCEPT !.step = "evidence"])
  /\ UNCHANGED tables

Failed == [names |-> {}, relations |-> {}, own |-> FALSE]

\* normalize_kg: names merge their papers; a relation needs two known ends.
Normalized(answers) ==
  LET got == DOMAIN answers
      names == UNION {answers[p].names : p \in got}
  IN  [mentions |-> [n \in names |-> {p \in got : n \in answers[p].names /\ answers[p].own}],
       relations |-> {r \in UNION {answers[p].relations : p \in got} :
                        {r[1], r[2]} \subseteq names /\ r[1] # r[2]}]

ExtractKnowledgeGraph ==
  /\ work.step = "graph"
  /\ \E skipped \in {{}, papers \cap KnownPapers} :
       LET fresh == papers \ skipped
           size == Min({KgLimit, Cardinality(fresh)})
       IN  \E batch \in kSubset(size, fresh) : \E answers \in [batch -> KgAnswers \cup {Failed}] :
             /\ \E p \in batch : answers[p] # Failed
             /\ Goto([work EXCEPT !.step = "entities", !.got = Normalized(answers)])
  /\ UNCHANGED tables

(***************************************************************************)
(* All entities in one transaction, then their ids are read back; a        *)
(* failure of either is only logged, and no relation finds its ends.       *)
(***************************************************************************)
Mentions(n) == IF n \in DOMAIN entities THEN entities[n] ELSE {}

KgEntitiesSaved(readBack) ==
  LET got == work.got.mentions
  IN  /\ work.step = "entities"
      /\ entities' = [n \in DOMAIN entities \cup DOMAIN got |->
                        Mentions(n) \cup IF n \in DOMAIN got THEN got[n] ELSE {}]
      /\ Goto([work EXCEPT !.step = "relations",
                            !.ids = IF readBack THEN DOMAIN got ELSE {}])
      /\ UNCHANGED <<clusters, relations, cards>>

KgEntitiesLost ==
  /\ work.step = "entities"
  /\ Goto([work EXCEPT !.step = "relations"])
  /\ UNCHANGED tables

Bound == {r \in work.got.relations : {r[1], r[2]} \subseteq work.ids}

SaveKgRelations ==
  /\ work.step = "relations"
  /\ relations' \in {relations \cup Bound, relations}
  /\ Goto([work EXCEPT !.step = "evidence", !.got = NoGraph, !.ids = {}])
  /\ UNCHANGED <<clusters, entities, cards>>

(***************************************************************************)
(* Evidence cards.  Papers with a genuine card are skipped.  The batch is  *)
(* one step: a card that fails becomes a placeholder, which is discarded;  *)
(* past the deadline the phase fails and the whole batch is lost.          *)
(***************************************************************************)
Genuine == {p \in papers : cards[p] = "genuine"}

StoredCards == Genuine

GenerateEvidence ==
  /\ work.step = "evidence"
  /\ LET fresh == papers \ Genuine
         size == Min({EvidenceLimit, Cardinality(fresh)})
     IN  \E batch \in kSubset(size, fresh) : \E made \in SUBSET batch :
           Goto([work EXCEPT !.step = "storing", !.unsaved = made])
  /\ UNCHANGED tables

SaveEvidenceCard ==
  /\ work.step = "storing"
  /\ \E p \in work.unsaved :
       /\ cards' = [cards EXCEPT ![p] = "genuine"]
       /\ Goto([work EXCEPT !.unsaved = @ \ {p}])
  /\ UNCHANGED <<clusters, entities, relations>>

EvidenceSaveFails ==
  /\ work.step = "storing"
  /\ \E p \in work.unsaved :
       Goto([work EXCEPT !.unsaved = @ \ {p}])
  /\ UNCHANGED tables

\* The cards are read back; without any, the phase fails.
ReloadEvidence ==
  /\ work.step = "storing" /\ work.unsaved = {} /\ StoredCards # {}
  /\ Goto([work EXCEPT !.step = "gaps", !.evidence = StoredCards])
  /\ UNCHANGED tables

\* The gap analysis may fail: the analysis is complete without it.
FinishAnalysis ==
  /\ work.step = "gaps"
  /\ coverage' = work.found /\ evidence' = work.evidence /\ warned' = work.warned
  /\ phase' = "writing" /\ work' = Idle
  /\ UNCHANGED <<links, papers, rounds, failures, stops, agent, calls, counted, tables>>

(***************************************************************************)
(* The execution is interrupted anywhere, and is resumed from the state    *)
(* its node began with, or a new execution of the project starts.          *)
(***************************************************************************)
Interrupt ==
  /\ stops < MaxStops /\ stops' = stops + 1
  /\ AgentGone /\ work' = Idle
  /\ UNCHANGED <<links, tables>>

Resume == Interrupt /\ UNCHANGED <<phase, papers, rounds, failures, analysisState>>

StartAgain ==
  /\ Interrupt
  /\ phase' = "research" /\ papers' = {} /\ rounds' = 0
  /\ failures' = [p \in DOMAIN failures |-> 0]
  /\ coverage' = {} /\ evidence' = {} /\ warned' = FALSE

\* Another project of the organisation extracts a paper the two share.  Only
\* this part of the node reads the table: at other times is as good as here.
OtherProject ==
  /\ work.step = "graph" /\ DOMAIN entities = {}
  /\ \E a \in KgAnswers, p \in Ids :
       entities' = [n \in a.names |-> IF a.own THEN {p} ELSE {}]
  /\ UNCHANGED <<researchVars, clusters, relations, cards, analysisState, work>>

AnalysisNext ==
  \/ StartAnalysis \/ AnalysisFails \/ ClusterAndEvaluate \/ DeleteProjectClusters
  \/ SaveCluster \/ SaveClusterAssignments \/ ClusterSaveFails \/ ClustersSaved
  \/ NeedsMoreResearch \/ CoverageEnough
  \/ KnowledgeGraphFails \/ AllExtracted \/ ExtractKnowledgeGraph
  \/ (\E readBack \in BOOLEAN : KgEntitiesSaved(readBack)) \/ KgEntitiesLost \/ SaveKgRelations
  \/ GenerateEvidence \/ SaveEvidenceCard \/ EvidenceSaveFails \/ ReloadEvidence \/ FinishAnalysis

Work == (ResearchNext /\ UNCHANGED <<tables, analysisState, work>>) \/ AnalysisNext

Next == Work \/ Resume \/ StartAgain \/ OtherProject

Spec == Init /\ [][Next]_vars

\* Every call of the nodes has a time-out, so a node goes on.
FairSpec == Spec /\ WF_vars(Work)

(***************************************************************************)
(* After an analysis that reports no failed save, the tables hold exactly  *)
(* the clusters of the state, with all their papers - after retries,       *)
(* further rounds, interruptions and earlier executions.  Every paper of   *)
(* the review is in one of them, unless more papers are linked than a      *)
(* clustering reads.                                                       *)
(***************************************************************************)
ClustersMatch ==
  (phase = "writing" /\ ~warned) =>
    /\ clusters = {[members |-> c, assigned |-> TRUE] : c \in coverage}
    /\ coverage # {} /\ Cardinality(links) <= ClusterLimit => papers \subseteq UNION coverage

(***************************************************************************)
(* The writer's evidence is what the tables hold for its papers: no        *)
(* placeholder, no card whose save failed, none of a lost batch forgotten. *)
(***************************************************************************)
EvidenceIsStored ==
  phase = "writing" => evidence # {} /\ evidence = Genuine

(***************************************************************************)
(* A stored relation joins two stored entities, also when the entities of  *)
(* its batch were not saved or could not be read back.                     *)
(***************************************************************************)
RelationsHaveEnds == \A r \in relations : {r[1], r[2]} \subseteq DOMAIN entities

(***************************************************************************)
(* The tables that an analysis leaves agree with the state that goes to    *)
(* writing, and with one another: all of the above.                        *)
(***************************************************************************)
TablesAgree == ClustersMatch /\ EvidenceIsStored /\ RelationsHaveEnds

(***************************************************************************)
(* However the model and the sources behave, research and analysis end     *)
(* after a bounded number of attempts and rounds.                          *)
(***************************************************************************)
PhasesEnd == []<>(phase \in {"writing", "finalize"})
=============================================================================
