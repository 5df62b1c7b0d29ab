---------------------------- MODULE ReviewWriting ---------------------------
(***************************************************************************)
(* The writing, peer-review and finalize nodes of one execution            *)
(* (agents/agent_graph.py), with the tools they call, the numbering of     *)
(* citations and the rows they store.                                      *)
(*                                                                         *)
(* A text is the sequence of citation numbers in it.  A model writes in    *)
(* the project's reference numbers; the stored review is numbered by first *)
(* use; a revision first restores the reference numbers.  The history      *)
(* variable meant records, beside each number of the review, the paper     *)
(* its author meant.  The review's title stands for the section titles     *)
(* too: all of them take the same way.  Section ids are distinct.          *)
(***************************************************************************)
EXTENDS CitationPlan

CONSTANTS
  Named,         \* what an outline may name as a section's clusters
  ClusterMaps,   \* the clusterings an analysis may have left
  SectionCounts, \* sections of an outline (at least 3 in the code)
  SourceLimit,   \* _build_section_sources: limit
  Texts, Titles, \* what the model may write as a section, as a title
  MaxCites,      \* bound: citations in a revised section
  MaxAttempts, MaxRevisions

ASSUME WritingAssumption ==
  /\ Named # {} /\ ClusterMaps # {}
  /\ SectionCounts \subseteq Nat \ {0} /\ SectionCounts # {}
  /\ Texts \cup Titles \subseteq Seq(Nat \ {0}) /\ \A t \in Texts \cup Titles : IsInjective(t)
  /\ {SourceLimit, MaxCites, MaxAttempts} \subseteq Nat \ {0} /\ MaxRevisions \in Nat

VARIABLES
  clusterOf,     \* coverage.clusters: paper -> cluster
  phase,         \* the node the supervisor runs next
  review,        \* outline, sections, abstract and final_references of the state
  needsRevision, feedback,  \* feedback: a citation number in it, 0 for none
  revision, failures,
  work,          \* the node's locals
  outline, rows, artifact,  \* tables outlines and written_content, the artifact
  meant          \* history

tables == <<outline, rows>>
stateVars == <<review, needsRevision, feedback, revision, meant>>
vars == <<clusterOf, phase, stateVars, failures, work, tables, artifact>>

Absent == <<0, 0>>
Leftover == <<0>>         \* the text of an earlier execution of the project
NoReview == [title |-> <<>>, abstract |-> <<>>, bodies |-> <<>>, refs |-> <<>>,
             allowed |-> <<>>]
NoMeaning == [title |-> <<>>, bodies |-> <<>>]
NoOutline == [title |-> Absent, sections |-> 0]
Idle == [step |-> "idle"]
Sections == 1..Max(SectionCounts)

Init ==
  /\ clusterOf \in ClusterMaps
  /\ phase = "writing" /\ review = NoReview /\ meant = NoMeaning
  /\ needsRevision = FALSE /\ feedback = 0 /\ revision = 0
  /\ failures = [p \in {"writing", "peer_review"} |-> 0]
  /\ work = Idle
  /\ \E old \in BOOLEAN :
       /\ outline = IF old THEN [title |-> Leftover, sections |-> 0] ELSE NoOutline
       /\ rows = [s \in Sections |-> IF old THEN Leftover ELSE Absent]
  /\ artifact = [review |-> NoReview, status |-> "none"]

(***************************************************************************)
(* A phase that raises is retried until its attempts are used up; then the *)
(* graph finalizes what the state holds.                                   *)
(***************************************************************************)
Exhausted(p) == failures[p] >= MaxAttempts

PhaseFailure(p) ==
  /\ failures' = [failures EXCEPT ![p] = @ + 1]
  /\ phase' = IF failures[p] + 1 >= MaxAttempts THEN "finalize" ELSE phase
  /\ work' = Idle
  /\ UNCHANGED <<stateVars, artifact>>

(***************************************************************************)
(* First draft: an outline, a plan per section, the sections in parallel.  *)
(* They share nothing until the task group ends, so they are one step.     *)
(***************************************************************************)
\* The evidence planner orders a plan by scores, so in any way.
Ranked(plan) == SetToSeqs(ToSet(plan))

SourceSets(plan) ==
  {ToSet(SubSeq(order, 1, Min({SourceLimit, Len(plan)}))) : order \in Ranked(plan)}

OutlineAnswers ==
  {[title |-> t, keys |-> k] : t \in Titles, k \in UNION {[1..n -> Named] : n \in SectionCounts}}

SectionAnswers(sections) == [sections -> Texts]

MakeOutline ==
  /\ phase = "writing" /\ work = Idle /\ ~needsRevision
  /\ \E answer \in OutlineAnswers :
       work' = [step |-> "outlined", title |-> answer.title, keys |-> answer.keys,
                plans |-> [s \in DOMAIN answer.keys |-> SectionPlan(s, answer.keys, clusterOf)]]
  /\ UNCHANGED <<clusterOf, phase, stateVars, failures, tables, artifact>>

(***************************************************************************)
(* The numbering: final_references lists the reference numbers in the      *)
(* order of their first use in title, abstract and sections; a text is     *)
(* renumbered by its position in that list, and restored from it.          *)
(***************************************************************************)
Assembled(title, abstract, bodies) == title \o abstract \o FlattenSeq(bodies)

FirstUse(document) == Distinct(document)

Remap(text, refs) == [k \in DOMAIN text |-> SelectInSeq(refs, LAMBDA r : r = text[k])]

\* Mutant: the review is revised in the numbers of its reference list.
RestoreNothing(text, refs) == text

Restore(text, refs) == [k \in DOMAIN text |-> refs[text[k]]]

(***************************************************************************)
(* _build_abstract: the openings of the sections, each with its first      *)
(* citation or cut before it.                                              *)
(***************************************************************************)
Abstract(bodies, cut) ==
  FlattenSeq([s \in DOMAIN bodies |-> SubSeq(bodies[s], 1, IF s \in cut THEN 0 ELSE 1)])

(***************************************************************************)
(* A draft is accepted only if every section cites, and cites only what    *)
(* its plan offered, and the title cites only references of the project.   *)
(***************************************************************************)
Cited(text) == ToSet(text)

\* Mutant: revised or written, a section may cite every reference.
GroundedInProject(bodies, allowed) ==
  \A s \in DOMAIN bodies : bodies[s] # <<>> /\ Cited(bodies[s]) \subseteq Refs

Grounded(bodies, allowed) ==
  \A s \in DOMAIN bodies : bodies[s] # <<>> /\ Cited(bodies[s]) \subseteq allowed[s] \cap Refs

Accepted(title, bodies, allowed) ==
  Grounded(bodies, allowed) /\ Cited(title) \subseteq Refs

Numbered(title, bodies, allowed, cut) ==
  LET abstract == Abstract(bodies, cut)
      refs == FirstUse(Assembled(title, abstract, bodies))
  IN  [title |-> Remap(title, refs), abstract |-> Remap(abstract, refs),
       bodies |-> [s \in DOMAIN bodies |-> Remap(bodies[s], refs)],
       refs |-> refs, allowed |-> allowed]

\* The end of the generation: checked, numbered, and next to be stored.
\* A body below the length floor fails as well, which WritingFails stands for.
Submit(title, bodies, allowed, meaning) ==
  IF Accepted(title, bodies, allowed)
  THEN /\ \E cut \in SUBSET DOMAIN bodies :
            work' = [step |-> "outline", draft |-> Numbered(title, bodies, allowed, cut),
                     meant |-> meaning]
       /\ UNCHANGED <<phase, failures, stateVars, artifact>>
  ELSE PhaseFailure("writing")

WriteSections ==
  /\ work.step = "outlined"
  /\ \E allowed \in [DOMAIN work.plans -> SUBSET Refs] :
       /\ \A s \in DOMAIN allowed : allowed[s] \in SourceSets(work.plans[s])
       /\ \E bodies \in SectionAnswers(DOMAIN allowed) :
            Submit(work.title, bodies, allowed, [title |-> work.title, bodies |-> bodies])
  /\ UNCHANGED <<clusterOf, tables>>

(***************************************************************************)
(* A revision: the model sees each section, and the feedback, in reference *)
(* numbers.  It keeps some citations, in any order, and may add the one    *)
(* the feedback names.  sel picks positions of the section; 0 is the       *)
(* feedback's citation.                                                    *)
(***************************************************************************)
Selections == {sel \in UNION {[1..k -> 0..MaxCites] : k \in 0..MaxCites} : IsInjective(sel)}

Offers(text) == (1..Len(text)) \cup (IF feedback = 0 THEN {} ELSE {0})

Pick(sel, text, named) == [k \in DOMAIN sel |-> IF sel[k] = 0 THEN named ELSE text[sel[k]]]

Revise ==
  /\ phase = "writing" /\ work = Idle /\ needsRevision
  /\ LET shown == [s \in DOMAIN review.bodies |-> Restore(review.bodies[s], review.refs)]
         named == IF feedback = 0 THEN 0 ELSE Restore(<<feedback>>, review.refs)[1]
         asked == IF feedback = 0 THEN 0 ELSE review.refs[feedback]
     IN  \E sel \in [DOMAIN shown -> Selections] :
           /\ \A s \in DOMAIN shown : ToSet(sel[s]) \subseteq Offers(shown[s])
           /\ LET bodies == [s \in DOMAIN shown |-> Pick(sel[s], shown[s], named)]
                  meaning == [s \in DOMAIN shown |-> Pick(sel[s], meant.bodies[s], asked)]
              IN  /\ \A s \in DOMAIN bodies : IsInjective(bodies[s])
                  /\ Submit(review.title, bodies, review.allowed,
                            [title |-> meant.title, bodies |-> meaning])
  /\ UNCHANGED <<clusterOf, tables>>

\* A model call fails or returns too little, or the whole review is too short.
WritingFails ==
  /\ phase = "writing" /\ work.step \in {"idle", "outlined"}
  /\ PhaseFailure("writing")
  /\ UNCHANGED <<clusterOf, tables>>

(***************************************************************************)
(* _persist_writing_artifacts: the outline with the pruning of other       *)
(* sections' rows in one transaction, then one transaction per section;    *)
(* only then does the node return its result to the state.                 *)
(***************************************************************************)
\* Mutant: rows of sections the new outline does not have stay.
StoreOutlineOnly(new) ==
  /\ outline' = [title |-> new.title, sections |-> Len(new.bodies)]
  /\ rows' = rows

StoreOutline(new) ==
  /\ outline' = [title |-> new.title, sections |-> Len(new.bodies)]
  /\ rows' = [s \in Sections |-> IF s \in DOMAIN new.bodies THEN rows[s] ELSE Absent]

SaveOutline ==
  /\ work.step = "outline"
  /\ StoreOutline(work.draft)
  /\ work' = [step |-> "section", next |-> 1, draft |-> work.draft, meant |-> work.meant]
  /\ UNCHANGED <<clusterOf, phase, stateVars, failures, artifact>>

SaveSection ==
  /\ work.step = "section" /\ work.next \in DOMAIN work.draft.bodies
  /\ rows' = [rows EXCEPT ![work.next] = work.draft.bodies[work.next]]
  /\ work' = [work EXCEPT !.next = @ + 1]
  /\ UNCHANGED <<clusterOf, phase, stateVars, failures, outline, artifact>>

SaveFails ==
  /\ work.step \in {"outline", "section"}
  /\ PhaseFailure("writing")
  /\ UNCHANGED <<clusterOf, tables>>

WritingReturns ==
  /\ work.step = "section" /\ work.next > Len(work.draft.bodies)
  /\ review' = work.draft /\ meant' = work.meant
  /\ revision' = IF needsRevision THEN revision + 1 ELSE revision
  /\ needsRevision' = FALSE /\ feedback' = 0
  /\ phase' = "peer_review" /\ work' = Idle
  /\ UNCHANGED <<clusterOf, failures, tables, artifact>>

\* A crash or a cancellation: the node starts again from the last state.
Stop ==
  /\ work # Idle
  /\ work' = Idle
  /\ UNCHANGED <<clusterOf, phase, stateVars, failures, tables, artifact>>

(***************************************************************************)
(* Peer review: every part of the review is scored, or the phase fails.    *)
(* A low score asks for a revision while revisions are left.               *)
(***************************************************************************)
Reports == {[low |-> l, named |-> n] : l \in BOOLEAN, n \in 0..Len(review.refs)}

PeerReview ==
  /\ phase = "peer_review"
  /\ \E report \in Reports :
       IF report.low /\ revision < MaxRevisions
       THEN needsRevision' = TRUE /\ feedback' = report.named /\ phase' = "writing"
       ELSE phase' = "finalize" /\ UNCHANGED <<feedback, needsRevision>>
  /\ UNCHANGED <<clusterOf, review, meant, revision, failures, work, tables, artifact>>

PeerReviewFails ==
  /\ phase = "peer_review"
  /\ PhaseFailure("peer_review")
  /\ UNCHANGED <<clusterOf, tables>>

Failed == \E p \in DOMAIN failures : Exhausted(p)

Finalize ==
  /\ phase = "finalize"
  /\ phase' = "done"
  /\ artifact' = IF review = NoReview THEN artifact
                  ELSE [review |-> review, status |-> IF Failed THEN "failed" ELSE "completed"]
  /\ UNCHANGED <<clusterOf, stateVars, failures, work, tables>>

Next ==
  \/ MakeOutline \/ WriteSections \/ Revise \/ WritingFails
  \/ SaveOutline \/ SaveSection \/ SaveFails \/ WritingReturns
  \/ Stop \/ PeerReview \/ PeerReviewFails \/ Finalize

Spec == Init /\ [][Next]_vars
-----------------------------------------------------------------------------
Means(text, refs, meaning) ==
  Len(text) = Len(meaning) /\ \A k \in DOMAIN text : refs[text[k]] = meaning[k]

(***************************************************************************)
(* Through numbering, storing, restoring and revising, a citation in a     *)
(* section goes on pointing at the paper its author meant.                 *)
(***************************************************************************)
CitationsKeepMeaning ==
  /\ Len(meant.bodies) = Len(review.bodies)
  /\ \A s \in DOMAIN review.bodies : Means(review.bodies[s], review.refs, meant.bodies[s])

(***************************************************************************)
(* docs/architecture.md:209: a number never points at different papers in  *)
(* different revisions.  For titles it does.                               *)
(***************************************************************************)
TitlesKeepMeaning == Means(review.title, review.refs, meant.title)

(***************************************************************************)
(* The reference list is exactly what the review cites, in reading order:  *)
(* title, abstract and sections use the numbers 1, 2, ... for the first    *)
(* time one after the other, and every number has its entry.               *)
(***************************************************************************)
ReferencesAreUsed ==
  /\ Distinct(Assembled(review.title, review.abstract, review.bodies)) = [k \in DOMAIN review.refs |-> k]
  /\ IsInjective(review.refs)

(***************************************************************************)
(* A section cites at least one paper, and none outside the evidence its   *)
(* first draft was given, however often it was revised and renumbered.     *)
(***************************************************************************)
GroundedSections ==
  \A s \in DOMAIN review.bodies :
    /\ meant.bodies[s] # <<>>
    /\ ToSet(meant.bodies[s]) \subseteq review.allowed[s]

(***************************************************************************)
(* What is reviewed and published is what the tables hold, and they hold   *)
(* nothing else: no section of a draft that failed, was cut short or       *)
(* belongs to an earlier execution.  (A writing phase that used up its     *)
(* attempts in the middle of storing a revision is the exception.)         *)
(***************************************************************************)
StoredIsReviewed ==
  (phase # "writing" /\ ~Exhausted("writing")) =>
    /\ outline = [title |-> review.title, sections |-> Len(review.bodies)]
    /\ \A s \in Sections :
         rows[s] = IF s \in DOMAIN review.bodies THEN review.bodies[s] ELSE Absent
    /\ phase = "done" => artifact.review = review

(***************************************************************************)
(* A section is offered as many papers as the policy allows, the best of   *)
(* its own clusters first; no paper twice, none passed over for a worse.   *)
(***************************************************************************)
PlansAreBestFirst ==
  work.step = "outlined" =>
    \A s \in DOMAIN work.plans : BestFirst(work.plans[s], s, work.keys, clusterOf)

(***************************************************************************)
(* When the outline names no clusters, the windows of the sections cover   *)
(* every cluster, each with enough papers of its own where there are any.  *)
(***************************************************************************)
WindowsCoverClusters ==
  work.step = "outlined" /\ (\A s \in DOMAIN work.keys : work.keys[s] = {}) =>
    LET own(s) == PrimaryClusters(s, work.keys, clusterOf)
    IN  ToSet(OrderedClusters(clusterOf)) = UNION {own(s) : s \in DOMAIN work.keys}

(***************************************************************************)
(* What plan_review_citations offers the writers: both of the above.       *)
(***************************************************************************)
PlansServeSections == PlansAreBestFirst /\ WindowsCoverClusters

(***************************************************************************)
(* A reader who follows a number in the body of a section finds the paper  *)
(* its writer meant, in a list without other entries: both of the above.   *)
(***************************************************************************)
CitationsAreTrue == CitationsKeepMeaning /\ ReferencesAreUsed
=============================================================================
