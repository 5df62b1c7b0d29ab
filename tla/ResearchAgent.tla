---------------------------- MODULE ResearchAgent ---------------------------
(***************************************************************************)
(* The research node of one execution (agents/agent_graph.py): a tool-     *)
(* calling agent (agents/research_team.py) with a bounded search tool,     *)
(* the search of several sources at once (tools/academic_search.py), and   *)
(* the links from the project to the papers found (services/database.py).  *)
(*                                                                         *)
(* A paper's row is known by its external id: the DOI, or the source's own *)
(* id, <<source, title>>.  Rows are shared by all projects and never       *)
(* deleted, so only the links are a variable.                              *)
(***************************************************************************)
EXTENDS Naturals, FiniteSets, FiniteSetsExt, Functions

CONSTANTS
  Enabled,      \* policy.enabled_sources
  Answers,      \* Answers[s]: the sets of titles source s may answer with
  WithDoi,      \* WithDoi[s]: the titles for which s knows a DOI
  MaxSearches,  \* policy.max_search_calls
  StepLimit,    \* recursion_limit of the agent's graph
  MaxParallel,  \* bound: tool calls in one message of the model
  Target,       \* target_papers
  MaxAttempts, MaxRounds,
  MaxStops      \* bound: interruptions of the execution

AllSources == {"semantic_scholar", "pubmed", "arxiv", "openalex", "crossref"}

ASSUME ResearchAssumption ==
  /\ Enabled \subseteq AllSources
  /\ DOMAIN Answers = AllSources /\ DOMAIN WithDoi = AllSources
  /\ {MaxSearches, MaxParallel, Target, MaxAttempts, MaxRounds} \subseteq Nat \ {0}
  /\ MaxStops \in Nat
  /\ StepLimit \in Nat

\* Crossref lists a work under its DOI.
ASSUME SourcesAssumption ==
  \A found \in Answers["crossref"] : found \subseteq WithDoi["crossref"]

VARIABLES
  links,     \* table project_papers
  phase,     \* the node the supervisor runs next
  papers,    \* papers of the graph's state
  rounds, failures,
  stops,     \* interruptions so far
  agent,     \* the running agent
  calls,     \* the tool calls of its last message
  counted    \* history: links before this agent, links its calls reported

researchVars == <<links, phase, papers, rounds, failures, stops, agent, calls, counted>>

CallIds == 1..MaxParallel
NoCall == [pc |-> "none"]
NoCalls == [c \in CallIds |-> NoCall]
NoCount == [before |-> 0, reported |-> 0]
NoAgent == [on |-> FALSE, steps |-> 0, searches |-> 0, finalized |-> FALSE]

ResearchInit ==
  /\ links = {} /\ phase = "research" /\ papers = {} /\ rounds = 0
  /\ failures = [p \in {"research", "analysis"} |-> 0] /\ stops = 0
  /\ agent = NoAgent /\ calls = NoCalls
  /\ counted = NoCount

(***************************************************************************)
(* What a source answers: a set of records.  Every source catches its own  *)
(* errors and then answers nothing; they differ in the id a record gets.   *)
(***************************************************************************)
Record(s, p, own) == [title |-> p, id |-> IF p \in WithDoi[s] THEN <<"doi", p>> ELSE own]

SearchSemanticScholar ==
  {{}} \cup {{Record("semantic_scholar", p, <<"semantic_scholar", p>>) : p \in found} :
               found \in Answers["semantic_scholar"]}

\* Two requests: the ids, then a summary of each; an id without one is left out.
SearchPubmed ==
  {{}} \cup {{Record("pubmed", p, <<"pubmed", p>>) : p \in described} :
               described \in UNION {SUBSET listed : listed \in Answers["pubmed"]}}

SearchArxiv ==
  {{}} \cup {{Record("arxiv", p, <<"arxiv", p>>) : p \in found} : found \in Answers["arxiv"]}

SearchOpenalex ==
  {{}} \cup {{Record("openalex", p, <<"openalex", p>>) : p \in found} :
               found \in Answers["openalex"]}

\* Without a DOI every record would get the same id, "crossref:".
SearchCrossref ==
  {{}} \cup {{Record("crossref", p, <<"crossref", "">>) : p \in found} :
               found \in Answers["crossref"]}

SourceAnswers ==
  [semantic_scholar |-> SearchSemanticScholar, pubmed |-> SearchPubmed,
   arxiv |-> SearchArxiv, openalex |-> SearchOpenalex, crossref |-> SearchCrossref]

(***************************************************************************)
(* The sources run side by side and share nothing until all of them have   *)
(* ended or the time is up: one step.  Those that are done by then count,  *)
(* the others are cancelled.                                               *)
(***************************************************************************)
Finished(answer, done) == UNION {answer[s] : s \in done}

\* Mutant: when the time is up the answers that did arrive are lost too.
AllOrNothing(answer, done) == IF done = Enabled THEN Finished(answer, done) ELSE {}

Merged(answer, done) == Finished(answer, done)

EverySourceAnswers ==
  {answer \in [Enabled -> UNION {SourceAnswers[s] : s \in Enabled}] :
     \A s \in Enabled : answer[s] \in SourceAnswers[s]}

SearchAllSources ==
  {[finished |-> Finished(answer, done), merged |-> Merged(answer, done)] :
     answer \in EverySourceAnswers, done \in SUBSET Enabled}

\* The reranker gives any order; of the records of one title the first is kept.
OnePerTitle(records) ==
  {kept \in SUBSET records :
     /\ \A r \in records : \E k \in kept : k.title = r.title
     /\ \A k, l \in kept : k.title = l.title => k = l}

(***************************************************************************)
(* The node fails: the phase is tried again, or the graph ends.            *)
(***************************************************************************)
\* Mutant: the attempt is not counted.
UncountedFailure(p) ==
  /\ failures' = failures
  /\ phase' = IF failures[p] + 1 < MaxAttempts THEN p ELSE "finalize"

PhaseFailure(p) ==
  /\ failures' = [failures EXCEPT ![p] = @ + 1]
  /\ phase' = IF failures[p] + 1 < MaxAttempts THEN p ELSE "finalize"

AgentGone == agent' = NoAgent /\ calls' = NoCalls /\ counted' = NoCount

ResearchFails ==
  /\ agent.on /\ PhaseFailure("research") /\ AgentGone
  /\ UNCHANGED <<links, papers, rounds, stops>>

StartResearch ==
  /\ phase = "research" /\ ~agent.on
  /\ agent' = [NoAgent EXCEPT !.on = TRUE]
  /\ counted' = [before |-> Cardinality(links), reported |-> 0]
  /\ UNCHANGED <<links, phase, papers, rounds, failures, stops, calls>>

(***************************************************************************)
(* One message of the model and the tools it calls: two steps of the graph *)
(* of the agent.  Told to use one tool at a time, it may yet search more   *)
(* than once, finalize, do both, or search after it was refused.           *)
(***************************************************************************)
Between == agent.on /\ \A c \in CallIds : calls[c].pc \in {"none", "done"}

CallTools(searching, finalizing) ==
  /\ Between /\ searching + finalizing \in 1..MaxParallel
  /\ agent.steps + 2 <= StepLimit
  /\ agent' = [agent EXCEPT
                 !.steps = @ + 2,
                 !.finalized = @ \/ finalizing = 1]
  /\ calls' = [c \in CallIds |-> IF c <= searching THEN [pc |-> "called"] ELSE NoCall]
  /\ UNCHANGED <<links, phase, papers, rounds, failures, stops, counted>>

(***************************************************************************)
(* The bounded tool: the check and the increment have no await between.    *)
(***************************************************************************)
OverBudget == agent.searches >= MaxSearches

Refuse(c) ==
  /\ calls[c].pc = "called" /\ OverBudget
  /\ calls' = [calls EXCEPT ![c] = NoCall]
  /\ UNCHANGED <<links, phase, papers, rounds, failures, stops, agent, counted>>

SearchPapers(c) ==
  /\ calls[c].pc = "called" /\ ~OverBudget
  /\ agent' = [agent EXCEPT !.searches = @ + 1]
  /\ calls' = [calls EXCEPT ![c] = [pc |-> "searching"]]
  /\ UNCHANGED <<links, phase, papers, rounds, failures, stops, counted>>

\* Each record is saved in a transaction of its own, which answers with the row of that
\* external id, old or new; a failure leaves rows that no project is linked to.
SavePaper(record) == record.id

SearchAnswers(c) ==
  /\ calls[c].pc = "searching"
  /\ \E result \in SearchAllSources : \E kept \in OnePerTitle(result.merged) :
       calls' = [calls EXCEPT ![c] = [pc |-> "linking", new |-> {},
                                      todo |-> {SavePaper(r) : r \in kept},
                                      finished |-> {r.title : r \in result.finished}]]
  /\ UNCHANGED <<links, phase, papers, rounds, failures, stops, agent, counted>>

(***************************************************************************)
(* link_project_papers: one transaction that inserts the missing links,    *)
(* row by row, and learns which of them are new.  A row that a rival's     *)
(* open transaction has inserted makes it wait for the rival's end.  Of    *)
(* two that wait for each other the database aborts one, and the error of  *)
(* its tool ends the agent (ResearchFails); if the other still commits     *)
(* before that, it is as if it had come first.                             *)
(***************************************************************************)
Inserting(call, id) == [call EXCEPT !.todo = @ \ {id}, !.new = @ \cup ({id} \ links)]

InsertedByOthers(c) ==
  UNION {calls[d].new : d \in {d \in CallIds \ {c} : calls[d].pc = "linking"}}

\* Mutant: what is new is judged by the committed links alone.
InsertUnlocked(c) ==
  /\ calls[c].pc = "linking"
  /\ \E id \in calls[c].todo : calls' = [calls EXCEPT ![c] = Inserting(calls[c], id)]
  /\ UNCHANGED <<links, phase, papers, rounds, failures, stops, agent, counted>>

InsertLink(c) ==
  /\ calls[c].pc = "linking"
  /\ \E id \in calls[c].todo \ InsertedByOthers(c) :
       calls' = [calls EXCEPT ![c] = Inserting(calls[c], id)]
  /\ UNCHANGED <<links, phase, papers, rounds, failures, stops, agent, counted>>

CommitLinks(c) ==
  /\ calls[c].pc = "linking" /\ calls[c].todo = {}
  /\ links' = links \cup calls[c].new
  /\ counted' = [counted EXCEPT !.reported = @ + Cardinality(calls[c].new)]
  /\ calls' = [calls EXCEPT ![c] = [pc |-> "done", finished |-> calls[c].finished]]
  /\ UNCHANGED <<phase, papers, rounds, failures, stops, agent>>

(***************************************************************************)
(* The model stops calling tools.  Only a finalized search counts; the     *)
(* state then gets the best of the papers linked to the project.           *)
(***************************************************************************)
ProjectPapers(limit) == kSubset(Min({limit, Cardinality(links)}), links)

FinishResearch ==
  /\ Between /\ agent.finalized /\ agent.steps + 1 <= StepLimit /\ links # {}
  /\ \E best \in ProjectPapers(Target) : papers' = best
  /\ rounds' = rounds + 1 /\ phase' = "analysis"
  /\ AgentGone
  /\ UNCHANGED <<links, failures, stops>>

ResearchNext ==
  \/ StartResearch \/ ResearchFails \/ FinishResearch
  \/ \E searching \in 0..MaxParallel, finalizing \in 0..1 : CallTools(searching, finalizing)
  \/ \E c \in CallIds :
       Refuse(c) \/ SearchPapers(c) \/ SearchAnswers(c) \/ InsertLink(c) \/ CommitLinks(c)

(***************************************************************************)
(* When a search has answered, the project is linked to a paper of every   *)
(* title that any source had delivered by then, time-out or not.           *)
(***************************************************************************)
FoundIsLinked ==
  \A c \in CallIds : calls[c].pc = "done" =>
    \A title \in calls[c].finished : \E id \in links : id[2] = title

(***************************************************************************)
(* The searches of one agent together report every new paper once, also    *)
(* those that find and link the same papers at the same time: the agent    *)
(* stops on "nothing new".                                                 *)
(***************************************************************************)
NewPapersCountedOnce ==
  agent.on => Cardinality(links) = counted.before + counted.reported
=============================================================================
