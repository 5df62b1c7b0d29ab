------------------------- MODULE PaperAnalysisProofs -------------------------
(***************************************************************************)
(* ResearchAgent and PaperAnalysis, for any sources, answers, budgets and  *)
(* numbers of calls, papers and attempts: what the searches found is       *)
(* linked (FoundIsLinked), the agent's calls report every new paper once   *)
(* (NewPapersCountedOnce), and the tables that an analysis leaves agree    *)
(* with the state it hands on (TablesAgree).                               *)
(*                                                                         *)
(* The invariant follows a search from its answer to its links: what open  *)
(* transactions have inserted is new to the table, and each has inserted   *)
(* papers of its own.  It follows an analysis through its transactions:    *)
(* which clusters are in the tables at each step, as long as no save       *)
(* failed; that names read back are stored; that the evidence was read     *)
(* from the cards of the state's papers.                                   *)
(* Clusters stay in the tables when an analysis skips the clustering, so   *)
(* it must also say that it never does once it has made any: papers are    *)
(* linked and never unlinked.                                              *)
(***************************************************************************)
EXTENDS PaperAnalysis, FiniteSetTheorems, TLAPS

-----------------------------------------------------------------------------
(* The inductive invariant *)

\* The papers linked to the project, and those of the state.
LinksOK == IsFiniteSet(links) /\ links \subseteq Ids /\ papers \subseteq links

\* ids has a paper of every one of the titles.
Covers(ids, titles) == \A title \in titles : \E id \in ids : id[2] = title

\* What a call has inserted is not linked yet; with that, and with what it has still to
\* insert, every title found is.
CallOK(call, linked) ==
  /\ call.pc = "linking" =>
       /\ call = [pc |-> "linking", new |-> call.new, todo |-> call.todo,
                  finished |-> call.finished]
       /\ IsFiniteSet(call.new) /\ call.new \cap linked = {}
       /\ call.new \cup call.todo \subseteq Ids
       /\ Covers(linked \cup call.new \cup call.todo, call.finished)
  /\ call.pc = "done" => Covers(linked, call.finished)

\* Of two open transactions, neither has inserted what the other has.
Rivals(call, other) ==
  call.pc = "linking" /\ other.pc = "linking" => call.new \cap other.new = {}

CallsOK ==
  /\ DOMAIN calls = CallIds
  /\ \A c \in CallIds : CallOK(calls[c], links)
  /\ \A c, d \in CallIds : c # d => Rivals(calls[c], calls[d])

CountOK ==
  /\ counted = [before |-> counted.before, reported |-> counted.reported]
  /\ counted.before \in Nat /\ counted.reported \in Nat
  /\ NewPapersCountedOnce

\* Only one of the nodes runs, and only in its phase.
Apart ==
  /\ agent = [on |-> agent.on, steps |-> agent.steps, searches |-> agent.searches,
              finalized |-> agent.finalized]
  /\ agent.on \in BOOLEAN /\ (agent.on => phase = "research")
  /\ work # Idle => phase = "analysis"

WorkShape ==
  work = [step |-> work.step, warned |-> work.warned, enough |-> work.enough,
          found |-> work.found, todo |-> work.todo, now |-> work.now, got |-> work.got,
          ids |-> work.ids, unsaved |-> work.unsaved, evidence |-> work.evidence]

\* Enough papers are linked, and read, for a clustering.
Clusterable == ClusterLimit >= MinClustered /\ Cardinality(links) >= MinClustered

Saved(found) == {[members |-> c, assigned |-> TRUE] : c \in found}

Clustering == {"replacing", "saving", "assigning"}
Clustered == {"covered", "graph", "entities", "relations", "evidence", "storing", "gaps"}

\* Which of the clusters the tables hold at each step, as long as no save failed.
ClustersOK ==
  /\ clusters # {} \/ work.found # {} \/ work.step \in Clustering => Clusterable
  /\ work.step \in {"idle", "embedded"} => work.found = {}
  /\ work.found # {} /\ Cardinality(links) <= ClusterLimit => papers \subseteq UNION work.found
  /\ work.step = "saving" => work.todo \subseteq work.found
  /\ work.step = "assigning" => work.todo \subseteq work.found /\ work.now \in work.todo
  /\ work.step = "saving" /\ ~work.warned => clusters = Saved(work.found \ work.todo)
  /\ work.step = "assigning" /\ ~work.warned =>
       clusters = Saved(work.found \ work.todo) \cup {[members |-> work.now, assigned |-> FALSE]}
  /\ work.step \in Clustered /\ ~work.warned => clusters = Saved(work.found)

\* Relations are bound to names that were read back from the table.
GraphOK ==
  /\ RelationsHaveEnds
  /\ work.ids \subseteq DOMAIN entities

EvidenceOK == work.step = "gaps" => work.evidence # {} /\ work.evidence = Genuine

ResearchInv == LinksOK /\ CallsOK /\ CountOK

TablesInv == ClustersOK /\ GraphOK /\ EvidenceOK /\ ClustersMatch /\ EvidenceIsStored

AnalysisInv == ResearchInv /\ Apart /\ WorkShape /\ TablesInv

-----------------------------------------------------------------------------
(* What a search finds *)

\* The least of two numbers is one of them and not above either.
LEMMA LeastOfTwo ==
  ASSUME NEW a \in Nat, NEW b \in Nat
  PROVE  Min({a, b}) = IF a <= b THEN a ELSE b
<1> DEFINE m == IF a <= b THEN a ELSE b
<1>1. m \in {a, b} /\ \A y \in {a, b} : m <= y
  OBVIOUS
<1>2. \A x \in {a, b} : (\A y \in {a, b} : x <= y) => x = m
  OBVIOUS
<1> QED BY <1>1, <1>2 DEF Min

\* A paper's id tells its title: that of a record without a DOI too.
LEMMA AnswerNamesPapers ==
  ASSUME NEW s \in Enabled, NEW answer \in SourceAnswers[s]
  PROVE  \A r \in answer : r.id[2] = r.title
<1> DEFINE Told(a) == \A r \in a : r.id[2] = r.title
<1>1. Told({})
  OBVIOUS
<1>2. ASSUME NEW src, NEW found PROVE Told({Record(src, p, <<src, p>>) : p \in found})
  BY DEF Record
<1>3. ASSUME NEW found \in Answers["crossref"]
      PROVE  Told({Record("crossref", p, <<"crossref", "">>) : p \in found})
  <2>1. \A p \in found : p \in WithDoi["crossref"]
    BY SourcesAssumption
  <2>2. \A p \in found : /\ Record("crossref", p, <<"crossref", "">>).id[2] = p
                          /\ Record("crossref", p, <<"crossref", "">>).title = p
    BY <2>1 DEF Record
  <2> QED BY <2>2
<1>4. s \in AllSources
  BY ResearchAssumption
<1> HIDE DEF Told
<1>5. \A a \in SearchSemanticScholar : Told(a)
  BY <1>1, <1>2 DEF SearchSemanticScholar
<1>6. \A a \in SearchPubmed : Told(a)
  <2>1. \A described : Told({Record("pubmed", p, <<"pubmed", p>>) : p \in described})
    BY <1>2
  <2> QED BY <1>1, <2>1, Zenon DEF SearchPubmed
<1>7. \A a \in SearchArxiv : Told(a)
  BY <1>1, <1>2 DEF SearchArxiv
<1>8. \A a \in SearchOpenalex : Told(a)
  BY <1>1, <1>2 DEF SearchOpenalex
<1>9. \A a \in SearchCrossref : Told(a)
  BY <1>1, <1>3 DEF SearchCrossref
<1>10. Told(answer)
  BY <1>4, <1>5, <1>6, <1>7, <1>8, <1>9 DEF SourceAnswers, AllSources
<1> QED BY <1>10 DEF Told

\* The records that a search keeps are papers of this project's sources, and have one of every
\* title that a source had delivered in time.
LEMMA SearchFinds ==
  ASSUME NEW result \in SearchAllSources, NEW kept \in OnePerTitle(result.merged)
  PROVE  LET ids == {SavePaper(r) : r \in kept}
         IN  ids \subseteq Ids /\ Covers(ids, {r.title : r \in result.finished})
<1>1. PICK answer \in EverySourceAnswers, done \in SUBSET Enabled :
        result = [finished |-> Finished(answer, done), merged |-> Merged(answer, done)]
  BY DEF SearchAllSources
<1>2. result.finished = UNION {answer[s] : s \in done} /\ result.merged = result.finished
  BY <1>1 DEF Finished, Merged
<1>3. /\ DOMAIN answer = Enabled /\ \A s \in Enabled : answer[s] \in SourceAnswers[s]
      /\ answer \in [Enabled -> UNION {SourceAnswers[s] : s \in Enabled}]
  BY DEF EverySourceAnswers
<1>4. \A s \in done : \A r \in answer[s] : r.id[2] = r.title
  BY <1>3, AnswerNamesPapers
<1>5. kept \subseteq result.finished /\ \A r \in result.finished : \E k \in kept : k.title = r.title
  BY <1>2 DEF OnePerTitle
<1>6. ASSUME NEW r \in result.finished PROVE r.id \in Ids /\ r.id[2] = r.title
  <2>1. PICK s \in done : r \in answer[s]
    BY <1>2
  <2>2. answer[s] \in UNION {SourceAnswers[t] : t \in Enabled}
    BY <1>3
  <2> QED BY <1>4, <2>1, <2>2 DEF Ids
<1>7. Covers({r.id : r \in kept}, {r.title : r \in result.finished})
  BY <1>5, <1>6 DEF Covers
<1> QED BY <1>5, <1>6, <1>7 DEF SavePaper

\* What is read for a clustering, and what is made of it.
LEMMA ReadingIsOfLinks ==
  ASSUME LinksOK, NEW read \in ProjectPapers(ClusterLimit)
  PROVE  /\ read \subseteq links /\ (Cardinality(read) < MinClustered <=> ~Clusterable)
         /\ Cardinality(links) <= ClusterLimit => read = links
<1>1. ClusterLimit \in Nat /\ MinClustered \in Nat /\ Cardinality(links) \in Nat
  BY AnalysisAssumption, FS_CardinalityType DEF LinksOK
<1>2. read \in SUBSET links /\ Cardinality(read) = Min({ClusterLimit, Cardinality(links)})
  BY DEF ProjectPapers, kSubset
<1>3. Min({ClusterLimit, Cardinality(links)})
        = IF ClusterLimit <= Cardinality(links) THEN ClusterLimit ELSE Cardinality(links)
  BY <1>1, LeastOfTwo
<1>4. Cardinality(read) = Cardinality(links) => read = links
  BY <1>2, FS_Subset DEF LinksOK
<1> QED BY <1>1, <1>2, <1>3, <1>4 DEF Clusterable

\* However they are divided, the clusters have all the papers that were read.
LEMMA ClustersHaveAll ==
  ASSUME NEW read \in SUBSET Ids, NEW found \in ClustersOf[read]
  PROVE  read = UNION found
BY DEF ClustersOf, Partitions

-----------------------------------------------------------------------------
(* Steps that leave most things alone *)

\* Nobody searches.
LEMMA ResearchRests ==
  ASSUME ResearchInv, UNCHANGED <<links, calls, counted, agent>>, papers' \subseteq links
  PROVE  ResearchInv'
BY DEF ResearchInv, LinksOK, CallsOK, CountOK, NewPapersCountedOnce

\* The agent is gone, with its calls.
LEMMA AgentGoes ==
  ASSUME LinksOK, AgentGone, UNCHANGED links, papers' \subseteq links
  PROVE  /\ ResearchInv' /\ agent'.on = FALSE
         /\ agent' = [on |-> agent'.on, steps |-> agent'.steps, searches |-> agent'.searches,
                      finalized |-> agent'.finalized]
<1>1. agent' = NoAgent /\ calls' = NoCalls /\ counted' = NoCount /\ links' = links
  BY DEF AgentGone
<1>2. LinksOK'
  BY <1>1 DEF LinksOK
<1>3. CallsOK'
  BY <1>1 DEF CallsOK, CallOK, Rivals, NoCalls, NoCall
<1>4. CountOK'
  BY <1>1 DEF CountOK, NewPapersCountedOnce, NoCount, NoAgent
<1> QED BY <1>1, <1>2, <1>3, <1>4 DEF ResearchInv, NoAgent

\* The tables and the analysis rest, while the research links papers or hands them on.
LEMMA TablesRest ==
  ASSUME AnalysisInv, UNCHANGED <<tables, analysisState, work>>, LinksOK', links \subseteq links',
         UNCHANGED <<phase, papers>> \/ (phase' # "writing" /\ work = Idle)
  PROVE  TablesInv'
<1>1. UNCHANGED <<clusters, entities, relations, cards, coverage, evidence, warned, work>>
  BY DEF tables, analysisState
<1>2. Clusterable => Clusterable'
  <2>1. Cardinality(links) \in Nat /\ Cardinality(links') \in Nat
    BY FS_CardinalityType DEF AnalysisInv, ResearchInv, LinksOK
  <2>2. Cardinality(links) <= Cardinality(links')
    BY FS_Subset DEF LinksOK
  <2>3. MinClustered \in Nat
    BY AnalysisAssumption
  <2> QED BY <2>1, <2>2, <2>3 DEF Clusterable
<1>3. Cardinality(links') <= ClusterLimit => Cardinality(links) <= ClusterLimit
  <2>1. Cardinality(links) \in Nat /\ Cardinality(links') \in Nat
    BY FS_CardinalityType DEF AnalysisInv, ResearchInv, LinksOK
  <2>2. Cardinality(links) <= Cardinality(links')
    BY FS_Subset DEF LinksOK
  <2> QED BY <2>1, <2>2, AnalysisAssumption
<1>4. work.found # {} /\ Cardinality(links') <= ClusterLimit => papers' \subseteq UNION work.found
  BY <1>3 DEF AnalysisInv, TablesInv, ClustersOK, Idle
<1>5. ClustersOK'
  BY <1>1, <1>2, <1>4 DEF AnalysisInv, TablesInv, ClustersOK
<1>6. GraphOK'
  BY <1>1 DEF AnalysisInv, TablesInv, GraphOK, RelationsHaveEnds
<1>7. EvidenceOK' /\ ClustersMatch' /\ EvidenceIsStored'
  BY <1>1, <1>3
     DEF AnalysisInv, TablesInv, EvidenceOK, ClustersMatch, EvidenceIsStored, Genuine, Idle
<1> QED BY <1>5, <1>6, <1>7 DEF TablesInv

\* The analysis stops, and what it has stored stays.
LEMMA WorkStops ==
  ASSUME AnalysisInv, work' = Idle, UNCHANGED <<links, tables>>,
         phase' # "writing" \/ UNCHANGED <<phase, papers, analysisState>>
  PROVE  WorkShape' /\ TablesInv'
<1>1. UNCHANGED <<links, clusters, entities, relations, cards>>
  BY DEF tables
<1>2. WorkShape'
  BY DEF WorkShape, Idle
<1>3. work'.step = "idle" /\ work'.found = {} /\ work'.ids = {}
  BY DEF Idle
<1>4. ClustersOK'
  BY <1>1, <1>3 DEF AnalysisInv, TablesInv, ClustersOK, Clusterable, Clustering, Clustered
<1>5. GraphOK' /\ EvidenceOK'
  BY <1>1, <1>3 DEF AnalysisInv, TablesInv, GraphOK, RelationsHaveEnds, EvidenceOK
<1>6. ClustersMatch' /\ EvidenceIsStored'
  BY <1>1 DEF AnalysisInv, TablesInv, ClustersMatch, EvidenceIsStored, Genuine, analysisState
<1> QED BY <1>2, <1>4, <1>5, <1>6 DEF TablesInv

\* A step within the analysis.
LEMMA WorkGoesOn ==
  ASSUME AnalysisInv, work.step # "idle", NEW w, Goto(w), WorkShape', ClustersOK', GraphOK',
         EvidenceOK'
  PROVE  AnalysisInv'
<1>1. UNCHANGED <<links, phase, papers, agent, calls, counted>>
  BY DEF Goto, researchVars
<1>2. ResearchInv'
  BY <1>1, ResearchRests DEF AnalysisInv, ResearchInv, LinksOK
<1>3. phase' = "analysis" /\ Apart'
  <2>1. work # Idle
    BY DEF Idle
  <2> QED BY <1>1, <2>1 DEF AnalysisInv, Apart
<1>4. ClustersMatch' /\ EvidenceIsStored'
  BY <1>3 DEF ClustersMatch, EvidenceIsStored
<1> QED BY <1>2, <1>3, <1>4 DEF AnalysisInv, TablesInv

\* Once the clusters are saved, the other parts of the analysis leave them alone.
LEMMA ClustersStay ==
  ASSUME AnalysisInv, work.step \in Clustered, work'.step \in Clustered,
         work'.found = work.found, work'.warned = work.warned,
         UNCHANGED <<links, papers, clusters>>
  PROVE  ClustersOK'
BY DEF AnalysisInv, TablesInv, ClustersOK, Clusterable, Clustering, Clustered

\* A step of the research node.
LEMMA ResearchGoesOn ==
  ASSUME AnalysisInv, UNCHANGED <<tables, analysisState, work>>, ResearchInv', Apart',
         links \subseteq links', UNCHANGED <<phase, papers>> \/ (phase' # "writing" /\ work = Idle)
  PROVE  AnalysisInv'
<1>1. WorkShape'
  BY DEF AnalysisInv, WorkShape
<1>2. TablesInv'
  BY TablesRest DEF ResearchInv
<1> QED BY <1>1, <1>2 DEF AnalysisInv

\* One call of the agent moves on, and is no rival of the others.
LEMMA CallMoves ==
  ASSUME CallsOK, NEW c \in CallIds, NEW call, calls' = [calls EXCEPT ![c] = call],
         links \subseteq links', CallOK(call, links'),
         \A d \in CallIds \ {c} :
           Rivals(call, calls[d]) /\ (calls[d].pc = "linking" => calls[d].new \cap links' = {})
  PROVE  CallsOK'
<1>1. DOMAIN calls' = CallIds /\ \A d \in CallIds : calls'[d] = IF d = c THEN call ELSE calls[d]
  BY DEF CallsOK
<1>2. \A titles, more : Covers(links \cup more, titles) => Covers(links' \cup more, titles)
  BY DEF Covers
<1>3. ASSUME NEW d \in CallIds \ {c} PROVE CallOK(calls[d], links')
  <2>1. CallOK(calls[d], links)
    BY DEF CallsOK
  <2>2. CASE calls[d].pc = "linking"
    <3>1. Covers(links \cup (calls[d].new \cup calls[d].todo), calls[d].finished)
      BY <2>1, <2>2 DEF CallOK, Covers
    <3>2. Covers(links' \cup calls[d].new \cup calls[d].todo, calls[d].finished)
      BY <1>2, <3>1 DEF Covers
    <3> QED BY <2>1, <2>2, <3>2 DEF CallOK
  <2>3. CASE calls[d].pc = "done"
    BY <2>1, <2>3 DEF CallOK, Covers
  <2> QED BY <2>2, <2>3 DEF CallOK
<1>4. \A d, e \in CallIds : d # e => Rivals(calls'[d], calls'[e])
  BY <1>1 DEF CallsOK, Rivals
<1> QED BY <1>1, <1>3, <1>4 DEF CallsOK

\* One call moves on, and links nothing.
LEMMA CallLinksNothing ==
  ASSUME CallsOK, NEW c \in CallIds, NEW call, calls' = [calls EXCEPT ![c] = call],
         UNCHANGED links, CallOK(call, links), \A d \in CallIds \ {c} : Rivals(call, calls[d])
  PROVE  CallsOK'
<1>1. \A d \in CallIds : calls[d].pc = "linking" => calls[d].new \cap links' = {}
  BY DEF CallsOK, CallOK
<1> QED BY <1>1, CallMoves

-----------------------------------------------------------------------------
(* Every action of the research node keeps the invariant *)

\* A new agent counts from the papers that the project has.
LEMMA StartResearchKeeps ==
  ASSUME AnalysisInv, StartResearch, UNCHANGED <<tables, analysisState, work>>
  PROVE  AnalysisInv'
<1>1. /\ UNCHANGED <<links, calls, phase, papers>> /\ phase = "research"
      /\ agent' = [NoAgent EXCEPT !.on = TRUE]
      /\ counted' = [before |-> Cardinality(links), reported |-> 0]
  BY DEF StartResearch
<1>2. LinksOK' /\ CallsOK'
  BY <1>1 DEF AnalysisInv, ResearchInv, LinksOK, CallsOK
<1>3. CountOK'
  <2>1. Cardinality(links) \in Nat
    BY FS_CardinalityType DEF AnalysisInv, ResearchInv, LinksOK
  <2> QED BY <1>1, <2>1 DEF CountOK, NewPapersCountedOnce
<1>4. Apart'
  BY <1>1 DEF AnalysisInv, Apart, NoAgent
<1> QED BY <1>1, <1>2, <1>3, <1>4, ResearchGoesOn DEF ResearchInv

\* An agent that fails leaves what its searches have linked.
LEMMA ResearchFailsKeeps ==
  ASSUME AnalysisInv, ResearchFails, UNCHANGED <<tables, analysisState, work>>
  PROVE  AnalysisInv'
<1>1. /\ UNCHANGED <<links, papers>> /\ agent.on /\ AgentGone
      /\ phase' \in {"research", "finalize"}
  BY DEF ResearchFails, PhaseFailure
<1>2. work = Idle
  BY <1>1 DEF AnalysisInv, Apart
<1>3. ResearchInv' /\ Apart'
  BY <1>1, <1>2, AgentGoes DEF AnalysisInv, ResearchInv, LinksOK, Apart
<1> QED BY <1>1, <1>2, <1>3, ResearchGoesOn

\* What a finished agent hands on are papers of the project.
LEMMA FinishResearchKeeps ==
  ASSUME AnalysisInv, FinishResearch, UNCHANGED <<tables, analysisState, work>>
  PROVE  AnalysisInv'
<1>1. links' = links /\ papers' \subseteq links /\ agent.on /\ AgentGone /\ phase' = "analysis"
  BY DEF FinishResearch, Between, ProjectPapers, kSubset
<1>2. work = Idle
  BY <1>1 DEF AnalysisInv, Apart
<1>3. ResearchInv' /\ Apart'
  BY <1>1, <1>2, AgentGoes DEF AnalysisInv, ResearchInv, Apart
<1> QED BY <1>1, <1>2, <1>3, ResearchGoesOn

\* A new message of the model replaces the calls of the last one.
LEMMA CallToolsKeeps ==
  ASSUME AnalysisInv, NEW searching, NEW finalizing, CallTools(searching, finalizing),
         UNCHANGED <<tables, analysisState, work>>
  PROVE  AnalysisInv'
<1>1. /\ UNCHANGED <<links, phase, papers, counted>>
      /\ calls' = [c \in CallIds |-> IF c <= searching THEN [pc |-> "called"] ELSE NoCall]
      /\ agent' = [agent EXCEPT !.steps = agent.steps + 2,
                                !.finalized = agent.finalized \/ finalizing = 1]
  BY DEF CallTools
<1>2. CallsOK'
  BY <1>1 DEF CallsOK, CallOK, Rivals, NoCall
<1>3. /\ agent' = [on |-> agent'.on, steps |-> agent'.steps, searches |-> agent'.searches,
                   finalized |-> agent'.finalized]
      /\ agent'.on = agent.on
  BY <1>1 DEF AnalysisInv, Apart
<1>4. LinksOK' /\ CountOK' /\ Apart'
  BY <1>1, <1>3 DEF AnalysisInv, ResearchInv, LinksOK, CountOK, NewPapersCountedOnce, Apart
<1> QED BY <1>1, <1>2, <1>4, ResearchGoesOn DEF ResearchInv

\* A search over the budget is refused.
LEMMA RefuseKeeps ==
  ASSUME AnalysisInv, NEW c \in CallIds, Refuse(c), UNCHANGED <<tables, analysisState, work>>
  PROVE  AnalysisInv'
<1>1. /\ UNCHANGED <<links, phase, papers, agent, counted>>
      /\ calls' = [calls EXCEPT ![c] = NoCall]
  BY DEF Refuse
<1>2. CallsOK'
  <2> DEFINE call == NoCall
  <2>1. CallOK(call, links) /\ \A d \in CallIds \ {c} : Rivals(call, calls[d])
    BY DEF NoCall, CallOK, Rivals
  <2>2. calls' = [calls EXCEPT ![c] = call] /\ links' = links
    BY <1>1
  <2> HIDE DEF call
  <2> QED BY <2>1, <2>2, CallLinksNothing DEF AnalysisInv, ResearchInv
<1>3. LinksOK' /\ CountOK' /\ Apart'
  BY <1>1 DEF AnalysisInv, ResearchInv, LinksOK, CountOK, NewPapersCountedOnce, Apart
<1> QED BY <1>1, <1>2, <1>3, ResearchGoesOn DEF ResearchInv

\* A search is counted before it is made.
LEMMA SearchPapersKeeps ==
  ASSUME AnalysisInv, NEW c \in CallIds, SearchPapers(c),
         UNCHANGED <<tables, analysisState, work>>
  PROVE  AnalysisInv'
<1>1. /\ UNCHANGED <<links, phase, papers, counted>>
      /\ calls' = [calls EXCEPT ![c] = [pc |-> "searching"]]
      /\ agent' = [agent EXCEPT !.searches = agent.searches + 1]
  BY DEF SearchPapers
<1>2. CallsOK'
  <2> DEFINE call == [pc |-> "searching"]
  <2>1. CallOK(call, links) /\ \A d \in CallIds \ {c} : Rivals(call, calls[d])
    BY DEF CallOK, Rivals
  <2>2. calls' = [calls EXCEPT ![c] = call] /\ links' = links
    BY <1>1
  <2> HIDE DEF call
  <2> QED BY <2>1, <2>2, CallLinksNothing DEF AnalysisInv, ResearchInv
<1>3. /\ agent' = [on |-> agent'.on, steps |-> agent'.steps, searches |-> agent'.searches,
                   finalized |-> agent'.finalized]
      /\ agent'.on = agent.on
  BY <1>1 DEF AnalysisInv, Apart
<1>4. LinksOK' /\ CountOK' /\ Apart'
  BY <1>1, <1>3 DEF AnalysisInv, ResearchInv, LinksOK, CountOK, NewPapersCountedOnce, Apart
<1> QED BY <1>1, <1>2, <1>4, ResearchGoesOn DEF ResearchInv

\* What is to be linked of an answer has a paper of every title that arrived in time.
LEMMA SearchAnswersKeeps ==
  ASSUME AnalysisInv, NEW c \in CallIds, SearchAnswers(c),
         UNCHANGED <<tables, analysisState, work>>
  PROVE  AnalysisInv'
<1>1. PICK result \in SearchAllSources : \E kept \in OnePerTitle(result.merged) :
        calls' = [calls EXCEPT ![c] = [pc |-> "linking", new |-> {},
                                       todo |-> {SavePaper(r) : r \in kept},
                                       finished |-> {r.title : r \in result.finished}]]
  BY DEF SearchAnswers
<1>2. PICK kept \in OnePerTitle(result.merged) :
        calls' = [calls EXCEPT ![c] = [pc |-> "linking", new |-> {},
                                       todo |-> {SavePaper(r) : r \in kept},
                                       finished |-> {r.title : r \in result.finished}]]
  BY <1>1
<1> DEFINE ids == {SavePaper(r) : r \in kept}
           titles == {r.title : r \in result.finished}
           call == [pc |-> "linking", new |-> {}, todo |-> ids, finished |-> titles]
<1>3. ids \subseteq Ids /\ Covers(ids, titles)
  BY SearchFinds
<1>4. UNCHANGED <<links, phase, papers, agent, counted>> /\ calls' = [calls EXCEPT ![c] = call]
  BY <1>2 DEF SearchAnswers
<1> HIDE DEF ids, titles
<1>5. CallOK(call, links)
  BY <1>3, FS_EmptySet DEF CallOK, Covers
<1>6. \A d \in CallIds \ {c} : Rivals(call, calls[d])
  BY DEF Rivals
<1> HIDE DEF call
<1>7. CallsOK'
  BY <1>4, <1>5, <1>6, CallLinksNothing DEF AnalysisInv, ResearchInv
<1>8. LinksOK' /\ CountOK' /\ Apart'
  BY <1>4 DEF AnalysisInv, ResearchInv, LinksOK, CountOK, NewPapersCountedOnce, Apart
<1> QED BY <1>4, <1>7, <1>8, ResearchGoesOn DEF ResearchInv

\* A row is new when neither the table nor an open transaction has it.
LEMMA InsertLinkKeeps ==
  ASSUME AnalysisInv, NEW c \in CallIds, InsertLink(c),
         UNCHANGED <<tables, analysisState, work>>
  PROVE  AnalysisInv'
<1>1. PICK id \in calls[c].todo \ InsertedByOthers(c) :
        calls' = [calls EXCEPT ![c] = Inserting(calls[c], id)]
  BY DEF InsertLink
<1>2. calls[c].pc = "linking" /\ UNCHANGED <<links, phase, papers, agent, counted>>
  BY DEF InsertLink
<1> DEFINE old == calls[c]
           new == old.new \cup ({id} \ links)
           call == Inserting(old, id)
<1>3. /\ old = [pc |-> "linking", new |-> old.new, todo |-> old.todo, finished |-> old.finished]
      /\ IsFiniteSet(old.new) /\ old.new \cap links = {}
      /\ old.new \cup old.todo \subseteq Ids
      /\ Covers(links \cup old.new \cup old.todo, old.finished)
  BY <1>2 DEF AnalysisInv, ResearchInv, CallsOK, CallOK
<1>4. \A d \in CallIds \ {c} : calls[d].pc = "linking" =>
        id \notin calls[d].new /\ old.new \cap calls[d].new = {}
  BY <1>1, <1>2 DEF InsertedByOthers, AnalysisInv, ResearchInv, CallsOK, Rivals
<1> HIDE DEF old
<1>5. /\ call = [pc |-> "linking", new |-> call.new, todo |-> call.todo,
                 finished |-> call.finished]
      /\ call.new = new /\ call.todo = old.todo \ {id} /\ call.finished = old.finished
      /\ call.pc = "linking"
  <2>1. call = [pc |-> "linking", new |-> new, todo |-> old.todo \ {id},
                finished |-> old.finished]
    <3> HIDE DEF new
    <3>1. call = [old EXCEPT !.todo = old.todo \ {id}, !.new = new]
      BY DEF Inserting, new
    <3>2. DOMAIN old = {"pc", "new", "todo", "finished"} /\ old.pc = "linking"
      BY <1>3
    <3> QED BY <3>1, <3>2
  <2> HIDE DEF call, new
  <2> QED BY <2>1
<1> HIDE DEF call
<1>6. IsFiniteSet(new)
  <2>1. IsFiniteSet(old.new \cup {id})
    BY <1>3, FS_AddElement
  <2> QED BY <1>3, <2>1
<1>7. CallOK(call, links)
  <2>1. id \in old.todo
    BY <1>1 DEF old
  <2>2. new \cap links = {} /\ new \cup (old.todo \ {id}) \subseteq Ids
    BY <1>3, <2>1
  <2>3. Covers(links \cup new \cup (old.todo \ {id}), old.finished)
    BY <1>3 DEF Covers
  <2> HIDE DEF new
  <2> QED BY <1>5, <1>6, <2>2, <2>3 DEF CallOK
<1>8. \A d \in CallIds \ {c} : Rivals(call, calls[d])
  BY <1>4, <1>5 DEF Rivals
<1>9. CallsOK'
  <2>1. calls' = [calls EXCEPT ![c] = call]
    BY <1>1 DEF call, old
  <2> QED BY <1>2, <1>7, <1>8, <2>1, CallLinksNothing DEF AnalysisInv, ResearchInv
<1>10. LinksOK' /\ CountOK' /\ Apart'
  BY <1>2 DEF AnalysisInv, ResearchInv, LinksOK, CountOK, NewPapersCountedOnce, Apart
<1> QED BY <1>2, <1>9, <1>10, ResearchGoesOn DEF ResearchInv

\* What a transaction commits is new to the table, and no rival has inserted it.
LEMMA CommitLinksKeeps ==
  ASSUME AnalysisInv, NEW c \in CallIds, CommitLinks(c),
         UNCHANGED <<tables, analysisState, work>>
  PROVE  AnalysisInv'
<1> DEFINE new == calls[c].new
           call == [pc |-> "done", finished |-> calls[c].finished]
<1>1. /\ UNCHANGED <<phase, papers, agent>> /\ calls[c].pc = "linking" /\ calls[c].todo = {}
      /\ links' = links \cup new /\ calls' = [calls EXCEPT ![c] = call]
      /\ counted' = [counted EXCEPT !.reported = counted.reported + Cardinality(new)]
  BY DEF CommitLinks
<1>2. /\ IsFiniteSet(new) /\ new \cap links = {} /\ new \subseteq Ids
      /\ Covers(links', calls[c].finished)
  <2>1. CallOK(calls[c], links)
    BY DEF AnalysisInv, ResearchInv, CallsOK
  <2>2. links \cup calls[c].new \cup calls[c].todo = links'
    BY <1>1
  <2> QED BY <1>1, <2>1, <2>2 DEF CallOK
<1>3. \A d \in CallIds \ {c} : calls[d].pc = "linking" =>
        calls[d].new \cap links = {} /\ calls[d].new \cap new = {}
  BY <1>1 DEF AnalysisInv, ResearchInv, CallsOK, CallOK, Rivals
<1> HIDE DEF new
<1>4. IsFiniteSet(links) /\ links \subseteq Ids /\ papers \subseteq links
  BY DEF AnalysisInv, ResearchInv, LinksOK
<1>5. LinksOK'
  BY <1>1, <1>2, <1>4, FS_Union DEF LinksOK
<1>6. CountOK'
  <2>1. Cardinality(links) \in Nat /\ Cardinality(new) \in Nat /\ Cardinality({}) = 0
    BY <1>2, <1>4, FS_CardinalityType, FS_EmptySet
  <2>2. Cardinality(links \cup new)
          = Cardinality(links) + Cardinality(new) - Cardinality(links \cap new)
    BY <1>2, <1>4, FS_Union
  <2>3. links \cap new = {}
    BY <1>2
  <2>4. Cardinality(links \cap new) = 0 /\ Cardinality(links') = Cardinality(links \cup new)
    BY <1>1, <2>1, <2>3, Zenon
  <2>5. Cardinality(links') = Cardinality(links) + Cardinality(new)
    BY <2>1, <2>2, <2>4
  <2>6. /\ counted'.before = counted.before
        /\ counted'.reported = counted.reported + Cardinality(new)
        /\ counted' = [before |-> counted'.before, reported |-> counted'.reported]
    BY <1>1 DEF AnalysisInv, ResearchInv, CountOK
  <2> QED BY <1>1, <2>1, <2>5, <2>6 DEF AnalysisInv, ResearchInv, CountOK, NewPapersCountedOnce
<1>7. CallsOK'
  <2>1. CallOK(call, links') /\ \A d \in CallIds \ {c} : Rivals(call, calls[d])
    BY <1>2 DEF CallOK, Rivals
  <2> HIDE DEF call
  <2>2. \A d \in CallIds \ {c} : calls[d].pc = "linking" => calls[d].new \cap links' = {}
    BY <1>1, <1>3
  <2> QED BY <1>1, <2>1, <2>2, CallMoves DEF AnalysisInv, ResearchInv
<1>8. Apart' /\ links \subseteq links'
  BY <1>1 DEF AnalysisInv, Apart
<1> QED BY <1>1, <1>5, <1>6, <1>7, <1>8, ResearchGoesOn DEF ResearchInv

\* The research node.
LEMMA ResearchKeeps ==
  ASSUME AnalysisInv, ResearchNext, UNCHANGED <<tables, analysisState, work>>
  PROVE  AnalysisInv'
BY StartResearchKeeps, ResearchFailsKeeps, FinishResearchKeeps, CallToolsKeeps, RefuseKeeps,
   SearchPapersKeeps, SearchAnswersKeeps, InsertLinkKeeps, CommitLinksKeeps DEF ResearchNext

-----------------------------------------------------------------------------
(* Every action of the analysis node keeps the invariant *)

\* Nothing is known of the clusters before they are saved.
LEMMA StartAnalysisKeeps ==
  ASSUME AnalysisInv, StartAnalysis
  PROVE  AnalysisInv'
<1>1. /\ phase = "analysis" /\ work = Idle /\ UNCHANGED tables
      /\ Goto([work EXCEPT !.step = "embedded", !.warned = warned])
  BY DEF StartAnalysis
<1>2. /\ UNCHANGED <<links, phase, papers, agent, calls, counted, clusters, entities, relations,
                     cards, coverage, evidence, warned>>
      /\ work' = [work EXCEPT !.step = "embedded", !.warned = warned]
  BY <1>1 DEF Goto, researchVars, tables, analysisState
<1>3. WorkShape' /\ work'.step = "embedded" /\ work'.found = {} /\ work'.ids = {}
  BY <1>1, <1>2 DEF WorkShape, Idle
<1>4. ClustersOK'
  BY <1>2, <1>3 DEF AnalysisInv, TablesInv, ClustersOK, Clusterable, Clustering, Clustered
<1>5. GraphOK' /\ EvidenceOK'
  BY <1>2, <1>3 DEF AnalysisInv, TablesInv, GraphOK, RelationsHaveEnds, EvidenceOK
<1>6. ResearchInv' /\ Apart'
  BY <1>1, <1>2, ResearchRests DEF AnalysisInv, ResearchInv, LinksOK, Apart
<1>7. ClustersMatch' /\ EvidenceIsStored'
  BY <1>1, <1>2 DEF ClustersMatch, EvidenceIsStored
<1> QED BY <1>3, <1>4, <1>5, <1>6, <1>7 DEF AnalysisInv, TablesInv

\* Without a clustering there are no clusters in the tables; otherwise there are enough papers.
LEMMA ClusterAndEvaluateKeeps ==
  ASSUME AnalysisInv, ClusterAndEvaluate
  PROVE  AnalysisInv'
<1>1. PICK read \in ProjectPapers(ClusterLimit), scored \in BOOLEAN :
        IF Cardinality(read) < MinClustered
          THEN Goto([work EXCEPT !.step = "covered", !.enough = Ceiling(read)])
          ELSE \E found \in ClustersOf[read] :
                 Goto([work EXCEPT !.step = "replacing", !.enough = scored /\ Ceiling(read),
                                   !.found = found])
  BY DEF ClusterAndEvaluate
<1>2. /\ read \in SUBSET Ids /\ (Cardinality(read) < MinClustered <=> ~Clusterable)
      /\ Cardinality(links) <= ClusterLimit => papers \subseteq read
  BY ReadingIsOfLinks DEF AnalysisInv, ResearchInv, LinksOK
<1>3. work.step = "embedded" /\ work.found = {} /\ UNCHANGED tables
  BY DEF ClusterAndEvaluate, AnalysisInv, TablesInv, ClustersOK
<1>4. UNCHANGED <<clusters, entities, relations, cards>>
  BY <1>3 DEF tables
<1>5. CASE Cardinality(read) < MinClustered
  <2>1. Goto([work EXCEPT !.step = "covered", !.enough = Ceiling(read)])
    BY <1>1, <1>5
  <2>2. /\ UNCHANGED <<links, papers>>
        /\ work' = [work EXCEPT !.step = "covered", !.enough = Ceiling(read)]
    BY <2>1 DEF Goto, researchVars
  <2>3. WorkShape' /\ work'.step = "covered" /\ work'.found = {} /\ work'.ids = work.ids
    BY <1>3, <2>2 DEF AnalysisInv, WorkShape
  <2>4. clusters = {} /\ Saved({}) = {}
    BY <1>2, <1>5 DEF AnalysisInv, TablesInv, ClustersOK, Saved
  <2>5. ClustersOK'
    BY <1>4, <2>2, <2>3, <2>4 DEF ClustersOK, Clustering
  <2>6. GraphOK' /\ EvidenceOK'
    BY <1>4, <2>3 DEF AnalysisInv, TablesInv, GraphOK, RelationsHaveEnds, EvidenceOK
  <2> QED BY <1>3, <2>1, <2>3, <2>5, <2>6, WorkGoesOn
<1>6. CASE ~(Cardinality(read) < MinClustered)
  <2>1. PICK found \in ClustersOf[read] :
          Goto([work EXCEPT !.step = "replacing", !.enough = scored /\ Ceiling(read),
                            !.found = found])
    BY <1>1, <1>6
  <2>2. /\ UNCHANGED <<links, papers>>
        /\ work' = [work EXCEPT !.step = "replacing", !.enough = scored /\ Ceiling(read),
                                !.found = found]
    BY <2>1 DEF Goto, researchVars
  <2>3. WorkShape' /\ work'.step = "replacing" /\ work'.found = found /\ work'.ids = work.ids
    BY <2>2 DEF AnalysisInv, WorkShape
  <2>4. Cardinality(links) <= ClusterLimit => papers \subseteq UNION found
    BY <1>2, ClustersHaveAll
  <2>5. Clusterable'
    BY <1>2, <1>6, <2>2 DEF Clusterable
  <2>6. ClustersOK'
    BY <2>2, <2>3, <2>4, <2>5 DEF ClustersOK, Clustering, Clustered
  <2>7. GraphOK' /\ EvidenceOK'
    BY <1>4, <2>3 DEF AnalysisInv, TablesInv, GraphOK, RelationsHaveEnds, EvidenceOK
  <2> QED BY <1>3, <2>1, <2>3, <2>6, <2>7, WorkGoesOn
<1> QED BY <1>5, <1>6

\* What is left of an earlier analysis goes first.
LEMMA DeleteProjectClustersKeeps ==
  ASSUME AnalysisInv, DeleteProjectClusters
  PROVE  AnalysisInv'
<1>1. /\ work.step = "replacing" /\ clusters' = {} /\ UNCHANGED <<entities, relations, cards>>
      /\ Goto([work EXCEPT !.step = "saving", !.todo = work.found])
  BY DEF DeleteProjectClusters
<1>2. UNCHANGED <<links, papers>> /\ work' = [work EXCEPT !.step = "saving", !.todo = work.found]
  BY <1>1 DEF Goto, researchVars
<1>3. /\ WorkShape' /\ work'.step = "saving" /\ work'.todo = work.found /\ work'.found = work.found
      /\ work'.ids = work.ids
  BY <1>1, <1>2 DEF AnalysisInv, WorkShape
<1>4. Saved(work.found \ work.found) = {}
  BY DEF Saved
<1>5. ClustersOK'
  BY <1>1, <1>2, <1>3, <1>4
     DEF AnalysisInv, TablesInv, ClustersOK, Clusterable, Clustering, Clustered
<1>6. GraphOK' /\ EvidenceOK'
  BY <1>1, <1>3 DEF AnalysisInv, TablesInv, GraphOK, RelationsHaveEnds, EvidenceOK
<1> QED BY <1>1, <1>3, <1>5, <1>6, WorkGoesOn

\* A cluster's row is there before its papers are.
LEMMA SaveClusterKeeps ==
  ASSUME AnalysisInv, SaveCluster
  PROVE  AnalysisInv'
<1>1. PICK c \in work.todo :
        /\ clusters' = clusters \cup {[members |-> c, assigned |-> FALSE]}
        /\ Goto([work EXCEPT !.step = "assigning", !.now = c])
  BY DEF SaveCluster
<1>2. work.step = "saving" /\ UNCHANGED <<entities, relations, cards>>
  BY DEF SaveCluster
<1>3. UNCHANGED <<links, papers>> /\ work' = [work EXCEPT !.step = "assigning", !.now = c]
  BY <1>1 DEF Goto, researchVars
<1>4. /\ WorkShape' /\ work'.step = "assigning" /\ work'.now = c /\ work'.todo = work.todo
      /\ work'.found = work.found /\ work'.warned = work.warned /\ work'.ids = work.ids
  BY <1>2, <1>3 DEF AnalysisInv, WorkShape
<1>5. ClustersOK'
  BY <1>1, <1>2, <1>3, <1>4
     DEF AnalysisInv, TablesInv, ClustersOK, Clusterable, Clustering, Clustered
<1>6. GraphOK' /\ EvidenceOK'
  BY <1>2, <1>4 DEF AnalysisInv, TablesInv, GraphOK, RelationsHaveEnds, EvidenceOK
<1> QED BY <1>1, <1>2, <1>4, <1>5, <1>6, WorkGoesOn

\* A cluster with its papers replaces the row without.
LEMMA SaveClusterAssignmentsKeeps ==
  ASSUME AnalysisInv, SaveClusterAssignments
  PROVE  AnalysisInv'
<1> DEFINE bare == [members |-> work.now, assigned |-> FALSE]
           full == [members |-> work.now, assigned |-> TRUE]
<1>1. /\ work.step = "assigning" /\ clusters' = (clusters \ {bare}) \cup {full}
      /\ UNCHANGED <<entities, relations, cards>> /\ Goto(NextCluster(work.now))
  BY DEF SaveClusterAssignments
<1>2. /\ UNCHANGED <<links, papers>>
      /\ work' = [work EXCEPT !.step = "saving", !.todo = work.todo \ {work.now}, !.now = {}]
  BY <1>1 DEF Goto, NextCluster, researchVars
<1>3. /\ WorkShape' /\ work'.step = "saving" /\ work'.todo = work.todo \ {work.now}
      /\ work'.found = work.found /\ work'.warned = work.warned /\ work'.ids = work.ids
  BY <1>1, <1>2 DEF AnalysisInv, WorkShape
<1>4. work.todo \subseteq work.found /\ work.now \in work.todo /\ Clusterable
  BY <1>1 DEF AnalysisInv, TablesInv, ClustersOK, Clustering
<1>5. ~work.warned => clusters' = Saved(work.found \ (work.todo \ {work.now}))
  <2> SUFFICES ASSUME ~work.warned PROVE clusters' = Saved(work.found \ (work.todo \ {work.now}))
    OBVIOUS
  <2>1. clusters = Saved(work.found \ work.todo) \cup {bare}
    BY <1>1 DEF AnalysisInv, TablesInv, ClustersOK
  <2>2. bare \notin Saved(work.found \ work.todo)
    BY DEF Saved
  <2>3. Saved(work.found \ (work.todo \ {work.now})) = Saved(work.found \ work.todo) \cup {full}
    <3>1. work.found \ (work.todo \ {work.now}) = (work.found \ work.todo) \cup {work.now}
      BY <1>4
    <3> QED BY <3>1 DEF Saved
  <2> HIDE DEF bare, full
  <2> QED BY <1>1, <2>1, <2>2, <2>3
<1>6. ClustersOK'
  BY <1>2, <1>3, <1>4, <1>5
     DEF AnalysisInv, TablesInv, ClustersOK, Clusterable, Clustering, Clustered
<1>7. GraphOK' /\ EvidenceOK'
  BY <1>1, <1>3 DEF AnalysisInv, TablesInv, GraphOK, RelationsHaveEnds, EvidenceOK
<1> QED BY <1>1, <1>3, <1>6, <1>7, WorkGoesOn

\* After a save that failed nothing more is claimed of the clusters.
LEMMA ClusterSaveFailsKeeps ==
  ASSUME AnalysisInv, ClusterSaveFails
  PROVE  AnalysisInv'
<1>1. PICK c : Goto([NextCluster(c) EXCEPT !.warned = TRUE])
  BY DEF ClusterSaveFails
<1>2. work.step \in {"saving", "assigning"} /\ UNCHANGED <<clusters, entities, relations, cards>>
  BY DEF ClusterSaveFails, tables
<1>3. UNCHANGED <<links, papers>> /\ work' = [NextCluster(c) EXCEPT !.warned = TRUE]
  BY <1>1 DEF Goto, researchVars
<1>4. /\ WorkShape' /\ work'.step = "saving" /\ work'.todo = work.todo \ {c}
      /\ work'.found = work.found /\ work'.warned = TRUE /\ work'.ids = work.ids
  BY <1>2, <1>3 DEF AnalysisInv, WorkShape, NextCluster
<1>5. ClustersOK'
  BY <1>2, <1>3, <1>4
     DEF AnalysisInv, TablesInv, ClustersOK, Clusterable, Clustering, Clustered
<1>6. GraphOK' /\ EvidenceOK'
  BY <1>2, <1>4 DEF AnalysisInv, TablesInv, GraphOK, RelationsHaveEnds, EvidenceOK
<1> QED BY <1>1, <1>2, <1>4, <1>5, <1>6, WorkGoesOn

\* When no cluster is left to save, all of them are saved.
LEMMA ClustersSavedKeeps ==
  ASSUME AnalysisInv, ClustersSaved
  PROVE  AnalysisInv'
<1>1. /\ work.step = "saving" /\ work.todo = {}
      /\ UNCHANGED <<clusters, entities, relations, cards>>
      /\ Goto([work EXCEPT !.step = "covered"])
  BY DEF ClustersSaved, tables
<1>2. UNCHANGED <<links, papers>> /\ work' = [work EXCEPT !.step = "covered"]
  BY <1>1 DEF Goto, researchVars
<1>3. /\ WorkShape' /\ work'.step = "covered" /\ work'.found = work.found
      /\ work'.warned = work.warned /\ work'.ids = work.ids
  BY <1>1, <1>2 DEF AnalysisInv, WorkShape
<1>4. work.found \ work.todo = work.found
  BY <1>1
<1>5. ClustersOK'
  BY <1>1, <1>2, <1>3, <1>4
     DEF AnalysisInv, TablesInv, ClustersOK, Clusterable, Clustering, Clustered
<1>6. GraphOK' /\ EvidenceOK'
  BY <1>1, <1>3 DEF AnalysisInv, TablesInv, GraphOK, RelationsHaveEnds, EvidenceOK
<1> QED BY <1>1, <1>3, <1>5, <1>6, WorkGoesOn

\* The phase fails: it starts again with the state it began with, or the graph ends.
LEMMA AnalysisFailsKeeps ==
  ASSUME AnalysisInv, AnalysisFails
  PROVE  AnalysisInv'
<1>1. /\ work # Idle /\ work' = Idle /\ phase' \in {"analysis", "finalize"}
      /\ UNCHANGED <<links, papers, agent, calls, counted, tables, analysisState>>
  BY DEF AnalysisFails, PhaseFailure
<1>2. WorkShape' /\ TablesInv'
  BY <1>1, WorkStops
<1>3. ResearchInv'
  BY <1>1, ResearchRests DEF AnalysisInv, ResearchInv, LinksOK
<1>4. Apart'
  BY <1>1 DEF AnalysisInv, Apart
<1> QED BY <1>2, <1>3, <1>4 DEF AnalysisInv

\* Too little is covered: nothing goes to writing.
LEMMA NeedsMoreResearchKeeps ==
  ASSUME AnalysisInv, NeedsMoreResearch
  PROVE  AnalysisInv'
<1>1. /\ work.step = "covered" /\ work' = Idle /\ phase' \in {"research", "finalize"}
      /\ UNCHANGED <<links, papers, agent, calls, counted, tables>>
  BY DEF NeedsMoreResearch
<1>2. WorkShape' /\ TablesInv'
  BY <1>1, WorkStops
<1>3. ResearchInv'
  BY <1>1, ResearchRests DEF AnalysisInv, ResearchInv, LinksOK
<1>4. Apart'
  <2>1. work # Idle
    BY <1>1 DEF Idle
  <2> QED BY <1>1, <2>1 DEF AnalysisInv, Apart
<1> QED BY <1>2, <1>3, <1>4 DEF AnalysisInv

\* A step that changes neither the tables nor what is known of them.
LEMMA TablesStay ==
  ASSUME AnalysisInv, work.step \in Clustered, UNCHANGED tables, NEW w, Goto(w), WorkShape',
         work'.step \in Clustered, work'.found = work.found, work'.warned = work.warned,
         work'.ids \in {work.ids, {}}, EvidenceOK'
  PROVE  AnalysisInv'
<1>1. UNCHANGED <<links, papers, clusters, entities, relations>>
  BY DEF Goto, researchVars, tables
<1>2. ClustersOK'
  BY <1>1, ClustersStay
<1>3. GraphOK'
  BY <1>1 DEF AnalysisInv, TablesInv, GraphOK, RelationsHaveEnds
<1>4. work.step # "idle"
  BY DEF Clustered
<1> QED BY <1>2, <1>3, <1>4, WorkGoesOn

\* The steps of the knowledge graph that store nothing.
LEMMA GraphGoesOn ==
  ASSUME AnalysisInv, CoverageEnough \/ KnowledgeGraphFails \/ AllExtracted \/ KgEntitiesLost
  PROVE  AnalysisInv'
<1>1. PICK next \in {"graph", "evidence", "relations"} : Goto([work EXCEPT !.step = next])
  BY DEF CoverageEnough, KnowledgeGraphFails, AllExtracted, KgEntitiesLost
<1>2. work.step \in {"covered", "graph", "entities"} /\ UNCHANGED tables
  BY DEF CoverageEnough, KnowledgeGraphFails, AllExtracted, KgEntitiesLost
<1>3. work' = [work EXCEPT !.step = next]
  BY <1>1 DEF Goto
<1>4. /\ WorkShape' /\ work'.step = next /\ work'.found = work.found
      /\ work'.warned = work.warned /\ work'.ids = work.ids
  BY <1>3 DEF AnalysisInv, WorkShape
<1>5. EvidenceOK'
  BY <1>4 DEF EvidenceOK
<1>6. work.step \in Clustered /\ work'.step \in Clustered
  BY <1>2, <1>4 DEF Clustered
<1> QED BY <1>1, <1>2, <1>4, <1>5, <1>6, TablesStay

\* What was extracted is only in the locals.
LEMMA ExtractKnowledgeGraphKeeps ==
  ASSUME AnalysisInv, ExtractKnowledgeGraph
  PROVE  AnalysisInv'
<1>1. PICK graph : Goto([work EXCEPT !.step = "entities", !.got = graph])
  BY DEF ExtractKnowledgeGraph
<1>2. work.step = "graph" /\ UNCHANGED tables
  BY DEF ExtractKnowledgeGraph
<1>3. work' = [work EXCEPT !.step = "entities", !.got = graph]
  BY <1>1 DEF Goto
<1>4. /\ WorkShape' /\ work'.step = "entities" /\ work'.found = work.found
      /\ work'.warned = work.warned /\ work'.ids = work.ids
  BY <1>3 DEF AnalysisInv, WorkShape
<1>5. EvidenceOK'
  BY <1>4 DEF EvidenceOK
<1>6. work.step \in Clustered /\ work'.step \in Clustered
  BY <1>2, <1>4 DEF Clustered
<1> QED BY <1>1, <1>2, <1>4, <1>5, <1>6, TablesStay

\* The names read back are those just stored, and none is taken away.
LEMMA KgEntitiesSavedKeeps ==
  ASSUME AnalysisInv, NEW readBack \in BOOLEAN, KgEntitiesSaved(readBack)
  PROVE  AnalysisInv'
<1> DEFINE got == work.got.mentions
           back == IF readBack THEN DOMAIN got ELSE {}
<1>1. /\ work.step = "entities" /\ UNCHANGED <<clusters, relations, cards>>
      /\ Goto([work EXCEPT !.step = "relations", !.ids = back])
      /\ DOMAIN entities' = DOMAIN entities \cup DOMAIN got
  BY DEF KgEntitiesSaved
<1>2. back \subseteq DOMAIN got
  OBVIOUS
<1> HIDE DEF back, got
<1>3. UNCHANGED <<links, papers>> /\ work' = [work EXCEPT !.step = "relations", !.ids = back]
  BY <1>1 DEF Goto, researchVars
<1>4. /\ WorkShape' /\ work'.step = "relations" /\ work'.found = work.found
      /\ work'.warned = work.warned /\ work'.ids = back
  BY <1>3 DEF AnalysisInv, WorkShape
<1>5. ClustersOK'
  <2>1. work.step \in Clustered /\ work'.step \in Clustered
    BY <1>1, <1>4 DEF Clustered
  <2> QED BY <1>1, <1>3, <1>4, <2>1, ClustersStay
<1>6. GraphOK'
  BY <1>1, <1>2, <1>4 DEF AnalysisInv, TablesInv, GraphOK, RelationsHaveEnds
<1>7. EvidenceOK'
  BY <1>4 DEF EvidenceOK
<1> QED BY <1>1, <1>4, <1>5, <1>6, <1>7, WorkGoesOn

\* A relation is stored when both its ends were read back.
LEMMA SaveKgRelationsKeeps ==
  ASSUME AnalysisInv, SaveKgRelations
  PROVE  AnalysisInv'
<1>1. /\ work.step = "relations" /\ UNCHANGED <<clusters, entities, cards>>
      /\ relations' \in {relations \cup Bound, relations}
      /\ Goto([work EXCEPT !.step = "evidence", !.got = NoGraph, !.ids = {}])
  BY DEF SaveKgRelations
<1>2. /\ UNCHANGED <<links, papers>>
      /\ work' = [work EXCEPT !.step = "evidence", !.got = NoGraph, !.ids = {}]
  BY <1>1 DEF Goto, researchVars
<1>3. /\ WorkShape' /\ work'.step = "evidence" /\ work'.found = work.found
      /\ work'.warned = work.warned /\ work'.ids = {}
  BY <1>2 DEF AnalysisInv, WorkShape
<1>4. ClustersOK'
  <2>1. work.step \in Clustered /\ work'.step \in Clustered
    BY <1>1, <1>3 DEF Clustered
  <2> QED BY <1>1, <1>2, <1>3, <2>1, ClustersStay
<1>5. GraphOK'
  <2>1. \A r \in Bound : {r[1], r[2]} \subseteq DOMAIN entities
    BY DEF Bound, AnalysisInv, TablesInv, GraphOK
  <2>2. RelationsHaveEnds'
    BY <1>1, <2>1 DEF AnalysisInv, TablesInv, GraphOK, RelationsHaveEnds
  <2> QED BY <1>3, <2>2 DEF GraphOK
<1>6. EvidenceOK'
  BY <1>3 DEF EvidenceOK
<1> QED BY <1>1, <1>3, <1>4, <1>5, <1>6, WorkGoesOn

\* A batch of cards is only in the locals, and a card may fail to be saved.
LEMMA CardsGoOn ==
  ASSUME AnalysisInv, GenerateEvidence \/ EvidenceSaveFails
  PROVE  AnalysisInv'
<1>1. PICK unsaved : Goto([work EXCEPT !.step = "storing", !.unsaved = unsaved])
  <2>1. CASE GenerateEvidence
    BY <2>1 DEF GenerateEvidence
  <2>2. CASE EvidenceSaveFails
    <3>1. PICK p : Goto([work EXCEPT !.unsaved = work.unsaved \ {p}])
      BY <2>2 DEF EvidenceSaveFails
    <3>2. [work EXCEPT !.unsaved = work.unsaved \ {p}]
            = [work EXCEPT !.step = "storing", !.unsaved = work.unsaved \ {p}]
      BY <2>2 DEF EvidenceSaveFails, AnalysisInv, WorkShape
    <3> QED BY <3>1, <3>2
  <2> QED BY <2>1, <2>2
<1>2. work.step \in {"evidence", "storing"} /\ UNCHANGED tables
  BY DEF GenerateEvidence, EvidenceSaveFails
<1>3. work' = [work EXCEPT !.step = "storing", !.unsaved = unsaved]
  BY <1>1 DEF Goto
<1>4. /\ WorkShape' /\ work'.step = "storing" /\ work'.found = work.found
      /\ work'.warned = work.warned /\ work'.ids = work.ids
  BY <1>3 DEF AnalysisInv, WorkShape
<1>5. EvidenceOK'
  BY <1>4 DEF EvidenceOK
<1>6. work.step \in Clustered /\ work'.step \in Clustered
  BY <1>2, <1>4 DEF Clustered
<1> QED BY <1>1, <1>2, <1>4, <1>5, <1>6, TablesStay

\* Nothing is claimed of the cards until they are read back.
LEMMA SaveEvidenceCardKeeps ==
  ASSUME AnalysisInv, SaveEvidenceCard
  PROVE  AnalysisInv'
<1>1. PICK p \in work.unsaved : Goto([work EXCEPT !.unsaved = work.unsaved \ {p}])
  BY DEF SaveEvidenceCard
<1>2. work.step = "storing" /\ UNCHANGED <<clusters, entities, relations>>
  BY DEF SaveEvidenceCard
<1>3. UNCHANGED <<links, papers>> /\ work' = [work EXCEPT !.unsaved = work.unsaved \ {p}]
  BY <1>1 DEF Goto, researchVars
<1>4. /\ WorkShape' /\ work'.step = "storing" /\ work'.found = work.found
      /\ work'.warned = work.warned /\ work'.ids = work.ids
  BY <1>2, <1>3 DEF AnalysisInv, WorkShape
<1>5. ClustersOK'
  <2>1. work.step \in Clustered /\ work'.step \in Clustered
    BY <1>2, <1>4 DEF Clustered
  <2> QED BY <1>2, <1>3, <1>4, <2>1, ClustersStay
<1>6. GraphOK' /\ EvidenceOK'
  BY <1>2, <1>4 DEF AnalysisInv, TablesInv, GraphOK, RelationsHaveEnds, EvidenceOK
<1> QED BY <1>1, <1>2, <1>4, <1>5, <1>6, WorkGoesOn

\* The evidence is what the table holds when all the cards are saved.
LEMMA ReloadEvidenceKeeps ==
  ASSUME AnalysisInv, ReloadEvidence
  PROVE  AnalysisInv'
<1>1. /\ work.step = "storing" /\ UNCHANGED tables /\ Genuine # {}
      /\ Goto([work EXCEPT !.step = "gaps", !.evidence = Genuine])
  BY DEF ReloadEvidence, StoredCards
<1>2. UNCHANGED <<papers, cards>> /\ work' = [work EXCEPT !.step = "gaps", !.evidence = Genuine]
  BY <1>1 DEF Goto, researchVars, tables
<1>3. /\ WorkShape' /\ work'.step = "gaps" /\ work'.found = work.found
      /\ work'.warned = work.warned /\ work'.ids = work.ids /\ work'.evidence = Genuine
  BY <1>2 DEF AnalysisInv, WorkShape
<1>4. Genuine' = Genuine
  BY <1>2 DEF Genuine
<1>5. EvidenceOK'
  BY <1>1, <1>3, <1>4 DEF EvidenceOK
<1>6. work.step \in Clustered /\ work'.step \in Clustered
  BY <1>1, <1>3 DEF Clustered
<1> QED BY <1>1, <1>3, <1>5, <1>6, TablesStay

\* What goes to writing is what the tables hold.
LEMMA FinishAnalysisKeeps ==
  ASSUME AnalysisInv, FinishAnalysis
  PROVE  AnalysisInv'
<1>1. /\ work.step = "gaps" /\ work' = Idle /\ phase' = "writing"
      /\ coverage' = work.found /\ evidence' = work.evidence /\ warned' = work.warned
      /\ UNCHANGED <<links, papers, agent, calls, counted, clusters, entities, relations, cards>>
  BY DEF FinishAnalysis, tables
<1>2. work'.step = "idle" /\ work'.found = {} /\ work'.ids = {}
  BY <1>1 DEF Idle
<1>3. WorkShape'
  BY <1>1 DEF WorkShape, Idle
<1>4. ResearchInv'
  BY <1>1, ResearchRests DEF AnalysisInv, ResearchInv, LinksOK
<1>5. Apart'
  <2>1. work # Idle
    BY <1>1 DEF Idle
  <2> QED BY <1>1, <2>1 DEF AnalysisInv, Apart
<1>6. ClustersOK'
  BY <1>1, <1>2 DEF AnalysisInv, TablesInv, ClustersOK, Clusterable, Clustering, Clustered
<1>7. GraphOK' /\ EvidenceOK'
  BY <1>1, <1>2 DEF AnalysisInv, TablesInv, GraphOK, RelationsHaveEnds, EvidenceOK
<1>8. ClustersMatch'
  <2>1. ~work.warned => clusters = Saved(work.found)
    BY <1>1 DEF AnalysisInv, TablesInv, ClustersOK, Clustered
  <2>2. work.found # {} /\ Cardinality(links) <= ClusterLimit => papers \subseteq UNION work.found
    BY DEF AnalysisInv, TablesInv, ClustersOK
  <2> QED BY <1>1, <2>1, <2>2 DEF ClustersMatch, Saved
<1>9. EvidenceIsStored'
  BY <1>1 DEF AnalysisInv, TablesInv, EvidenceOK, EvidenceIsStored, Genuine
<1> QED BY <1>3, <1>4, <1>5, <1>6, <1>7, <1>8, <1>9 DEF AnalysisInv, TablesInv

\* The analysis node.
LEMMA AnalysisKeeps ==
  ASSUME AnalysisInv, AnalysisNext
  PROVE  AnalysisInv'
BY StartAnalysisKeeps, AnalysisFailsKeeps, ClusterAndEvaluateKeeps, DeleteProjectClustersKeeps,
   SaveClusterKeeps, SaveClusterAssignmentsKeeps, ClusterSaveFailsKeeps, ClustersSavedKeeps,
   NeedsMoreResearchKeeps, GraphGoesOn, ExtractKnowledgeGraphKeeps, KgEntitiesSavedKeeps,
   SaveKgRelationsKeeps, CardsGoOn, SaveEvidenceCardKeeps, ReloadEvidenceKeeps,
   FinishAnalysisKeeps DEF AnalysisNext

-----------------------------------------------------------------------------
(* Interruptions, and other projects *)

\* An interrupted execution leaves the tables as they are, and is resumed or followed by another.
LEMMA InterruptKeeps ==
  ASSUME AnalysisInv, Resume \/ StartAgain
  PROVE  AnalysisInv'
<1>1. work' = Idle /\ AgentGone /\ UNCHANGED <<links, tables>> /\ papers' \in {papers, {}}
  BY DEF Resume, StartAgain, Interrupt
<1>2. phase' # "writing" \/ UNCHANGED <<phase, papers, analysisState>>
  BY DEF Resume, StartAgain
<1>3. WorkShape' /\ TablesInv'
  BY <1>1, <1>2, WorkStops
<1>4. /\ ResearchInv' /\ agent'.on = FALSE
      /\ agent' = [on |-> agent'.on, steps |-> agent'.steps, searches |-> agent'.searches,
                   finalized |-> agent'.finalized]
  BY <1>1, AgentGoes DEF AnalysisInv, ResearchInv, LinksOK
<1>5. Apart'
  BY <1>1, <1>4 DEF Apart
<1> QED BY <1>3, <1>4, <1>5 DEF AnalysisInv

\* Entities of another project come where there were none, and so no relations either.
LEMMA OtherProjectKeeps ==
  ASSUME AnalysisInv, OtherProject
  PROVE  AnalysisInv'
<1>1. DOMAIN entities = {}
  BY DEF OtherProject
<1>2. UNCHANGED <<links, phase, papers, agent, calls, counted, clusters, relations, cards,
                  coverage, evidence, warned, work>>
  BY DEF OtherProject, researchVars, analysisState
<1>3. ResearchInv' /\ Apart' /\ WorkShape'
  BY <1>2, ResearchRests DEF AnalysisInv, ResearchInv, LinksOK, Apart, WorkShape
<1>4. ClustersOK' /\ EvidenceOK' /\ ClustersMatch' /\ EvidenceIsStored'
  BY <1>2 DEF AnalysisInv, TablesInv, ClustersOK, Clusterable, EvidenceOK, ClustersMatch,
              EvidenceIsStored, Genuine
<1>5. GraphOK'
  <2>1. relations = {} /\ work.ids = {}
    BY <1>1 DEF AnalysisInv, TablesInv, GraphOK, RelationsHaveEnds
  <2> QED BY <1>2, <2>1 DEF GraphOK, RelationsHaveEnds
<1> QED BY <1>3, <1>4, <1>5 DEF AnalysisInv, TablesInv

-----------------------------------------------------------------------------
(* The theorems *)

\* Nothing is found, stored or claimed at first.
LEMMA AnalysisStarts == Init => AnalysisInv
<1> SUFFICES ASSUME Init PROVE AnalysisInv
  OBVIOUS
<1>1. /\ links = {} /\ phase = "research" /\ agent = NoAgent /\ calls = NoCalls
      /\ counted = NoCount /\ papers = {} /\ clusters = {} /\ relations = {} /\ work = Idle
  BY DEF Init, ResearchInit
<1>2. ResearchInv
  BY <1>1, FS_EmptySet DEF ResearchInv, LinksOK, CallsOK, CallOK, Rivals, NoCalls, NoCall,
                           CountOK, NewPapersCountedOnce, NoCount, NoAgent
<1>3. Apart
  BY <1>1 DEF Apart, NoAgent
<1>4. WorkShape
  BY <1>1 DEF WorkShape, Idle
<1>5. work.step = "idle" /\ work.found = {} /\ work.ids = {}
  BY <1>1 DEF Idle
<1>6. TablesInv
  BY <1>1, <1>5 DEF TablesInv, ClustersOK, Clustering, Clustered, GraphOK, RelationsHaveEnds,
                    EvidenceOK, ClustersMatch, EvidenceIsStored
<1> QED BY <1>2, <1>3, <1>4, <1>6 DEF AnalysisInv

\* A stutter of the two nodes.
LEMMA StutterKeeps ==
  ASSUME AnalysisInv, UNCHANGED vars
  PROVE  AnalysisInv'
<1>1. UNCHANGED <<links, phase, papers, agent, calls, counted>>
  BY DEF vars, researchVars
<1>2. UNCHANGED <<tables, analysisState, work>>
  BY DEF vars
<1>3. ResearchInv' /\ Apart'
  BY <1>1, <1>2, ResearchRests DEF AnalysisInv, ResearchInv, LinksOK, Apart
<1> QED BY <1>1, <1>2, <1>3, ResearchGoesOn

\* Research and analysis, with failures, interruptions and other projects between any of their
\* steps, keep what each of them relies on.
THEOREM AnalysisInvariant == Spec => []AnalysisInv
<1>1. Init => AnalysisInv
  BY AnalysisStarts
<1>2. AnalysisInv /\ [Next]_vars => AnalysisInv'
  <2> SUFFICES ASSUME AnalysisInv, [Next]_vars PROVE AnalysisInv'
    OBVIOUS
  <2> QED BY ResearchKeeps, AnalysisKeeps, InterruptKeeps, OtherProjectKeeps, StutterKeeps
          DEF Next, Work
<1> QED BY <1>1, <1>2, PTL DEF Spec

\* What the searches of an agent found is linked to the project, for any sources, answers,
\* budget, step limit and number of parallel calls.
THEOREM FoundStaysLinked == Spec => []FoundIsLinked
<1>1. AnalysisInv => FoundIsLinked
  BY DEF AnalysisInv, ResearchInv, CallsOK, CallOK, Covers, FoundIsLinked
<1> QED BY <1>1, AnalysisInvariant, PTL

\* The calls of an agent have reported every new paper once, however many of them link the same
\* papers at the same time.
THEOREM NewPapersStayCounted == Spec => []NewPapersCountedOnce
<1>1. AnalysisInv => NewPapersCountedOnce
  BY DEF AnalysisInv, ResearchInv, CountOK
<1> QED BY <1>1, AnalysisInvariant, PTL

\* The clusters, the cards and the relations in the tables agree with the state that goes to
\* writing, after any retries, rounds, failed saves and interruptions; that every paper of the
\* review is in a cluster is part of it only while a clustering reads all the papers linked.
THEOREM TablesStayInAgreement == Spec => []TablesAgree
<1>1. AnalysisInv => TablesAgree
  BY DEF AnalysisInv, TablesInv, GraphOK, TablesAgree
<1> QED BY <1>1, AnalysisInvariant, PTL
=============================================================================
