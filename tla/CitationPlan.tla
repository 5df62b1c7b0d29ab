---------------------------- MODULE CitationPlan ----------------------------
(***************************************************************************)
(* Which papers each section of a review is offered                        *)
(* (services/citation_planner.py, services/section_evidence_planner.py).   *)
(* Paper i of the stable list is reference i of the project                *)
(* (build_reference_map); a planning context says which cluster each paper *)
(* is in and which clusters the outline named for each section.  No caller *)
(* passes hybrid edges, so the two tiers of graph neighbours stay empty.   *)
(***************************************************************************)
EXTENDS Naturals, Sequences, FiniteSets, SequencesExt

CONSTANTS
  NRefs,     \* references of the project (at most 50)
  Core,      \* core_reference_count: the first papers count as core
  Target,    \* policy.max_references_per_section
  NoCluster  \* a paper that no cluster lists

ASSUME PlanAssumption ==
  NRefs \in Nat \ {0} /\ Core \in Nat \ {0} /\ Target \in Nat \ {0}

Refs == 1..NRefs
Quota == Min({Target, NRefs})

\* list(dict.fromkeys(s)): the first occurrence of each element.
Distinct(s) ==
  FoldLeft(LAMBDA acc, x : IF Contains(acc, x) THEN acc ELSE Append(acc, x), <<>>, s)

(***************************************************************************)
(* The window of clusters a section gets when its outline names none: it   *)
(* starts at the section's share of the cluster list, and grows until it   *)
(* is as wide as an even split and holds enough papers.                    *)
(***************************************************************************)
InCluster(clusterOf, C) == {i \in Refs : clusterOf[i] \in C}

OrderedClusters(clusterOf) ==
  Distinct(FlattenSeq([i \in Refs |-> IF clusterOf[i] = NoCluster THEN <<>> ELSE <<clusterOf[i]>>]))

WindowStart(s, sections, count) ==
  IF sections <= count THEN ((s - 1) * count) \div sections ELSE (s - 1) % count

FallbackWindow(s, sections, clusterOf) ==
  LET ordered == OrderedClusters(clusterOf)
      count == Len(ordered)
      first == WindowStart(s, sections, count)
      Window(w) == {ordered[1 + ((first + k) % count)] : k \in 0..w - 1}
      even == (count + sections - 1) \div sections
      Wide(w) == w >= even /\ Cardinality(InCluster(clusterOf, Window(w))) >= Quota
  IN  Window(Min({w \in 1..count : Wide(w)} \cup {count}))

(***************************************************************************)
(* keys[s] are the clusters the outline named for section s.  Clusters     *)
(* that exist nowhere are kept: the section then has no paper of its own.  *)
(***************************************************************************)
FallsBack(s, keys, clusterOf) ==
  keys[s] = {} /\ Len(keys) > 1 /\ Len(OrderedClusters(clusterOf)) > 1

PrimaryClusters(s, keys, clusterOf) ==
  IF keys[s] # {} THEN keys[s]
  ELSE IF FallsBack(s, keys, clusterOf) THEN FallbackWindow(s, Len(keys), clusterOf)
  ELSE ToSet(OrderedClusters(clusterOf))

\* The papers of S in the order of the list; core papers before auxiliary ones.
Listed(S) == FlattenSeq([i \in Refs |-> IF i \in S THEN <<i>> ELSE <<>>])

CoreFirst(S) == Listed({i \in S : i <= Core}) \o Listed({i \in S : i > Core})

Community(s, keys, clusterOf) ==
  InCluster(clusterOf, PrimaryClusters(s, keys, clusterOf) \ {NoCluster})

Remaining(s, keys, clusterOf) ==
  IF FallsBack(s, keys, clusterOf)
  THEN {i \in Refs : clusterOf[i] # NoCluster} \ Community(s, keys, clusterOf)
  ELSE {}

\* Mutant: papers already selected are pushed again.
SectionPlanWithRepeats(s, keys, clusterOf) ==
  LET tiers == CoreFirst(Community(s, keys, clusterOf)) \o CoreFirst(Refs)
  IN  SubSeq(tiers, 1, Quota)

SectionPlan(s, keys, clusterOf) ==
  LET tiers == CoreFirst(Community(s, keys, clusterOf))
                 \o CoreFirst(Remaining(s, keys, clusterOf))
                 \o CoreFirst(Refs)
  IN  SubSeq(Distinct(tiers), 1, Quota)

(***************************************************************************)
(* What a plan promises, by rank rather than by construction.              *)
(***************************************************************************)
Tier(i, s, keys, clusterOf) ==
  LET aux == IF i <= Core THEN 0 ELSE 1
  IN  IF i \in Community(s, keys, clusterOf) THEN aux
      ELSE IF i \in Remaining(s, keys, clusterOf) THEN 2 + aux
      ELSE 4 + aux

Before(i, j, s, keys, clusterOf) ==
  LET t(k) == Tier(k, s, keys, clusterOf)
  IN  t(i) < t(j) \/ (t(i) = t(j) /\ i < j)

BestFirst(plan, s, keys, clusterOf) ==
  /\ Len(plan) = Quota
  /\ \A k \in 1..Len(plan) - 1 : Before(plan[k], plan[k + 1], s, keys, clusterOf)
  /\ \A i \in ToSet(plan), j \in Refs \ ToSet(plan) : Before(i, j, s, keys, clusterOf)
=============================================================================
