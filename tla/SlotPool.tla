------------------------------ MODULE SlotPool ------------------------------
(***************************************************************************)
(* What BoundedFifoGate promises: a pool of Capacity slots and one line of *)
(* tasks.  A slot is never idle while somebody stands in the line, and the *)
(* line is served strictly from its head.  The pool says nothing of        *)
(* futures, counters, time-outs or cancellation.                           *)
(***************************************************************************)
EXTENDS Naturals, Sequences, FiniteSets, SequencesExt

CONSTANTS Tasks, Capacity, MaxWaiters

VARIABLES
  holders,  \* the tasks that own a slot
  line      \* the tasks that wait for one, oldest first

poolVars == <<holders, line>>

Init ==
  /\ holders = {}
  /\ line = <<>>

\* A free slot goes to a newcomer only when nobody is in the line.
Take(t) ==
  /\ t \notin holders
  /\ line = <<>>
  /\ Cardinality(holders) < Capacity
  /\ holders' = holders \cup {t}
  /\ UNCHANGED line

Queue(t) ==
  /\ t \notin holders
  /\ t \notin ToSet(line)
  /\ Cardinality(holders) = Capacity
  /\ Len(line) < MaxWaiters
  /\ line' = Append(line, t)
  /\ UNCHANGED holders

\* A returned slot passes to the head of the line in the same step.
Return(t) ==
  /\ t \in holders
  /\ \/ /\ line = <<>>
        /\ holders' = holders \ {t}
        /\ UNCHANGED line
     \/ /\ line # <<>>
        /\ holders' = (holders \ {t}) \cup {Head(line)}
        /\ line' = Tail(line)

Abandon(i) ==
  /\ line' = RemoveAt(line, i)
  /\ UNCHANGED holders

Next ==
  \/ \E t \in Tasks : Take(t) \/ Queue(t) \/ Return(t)
  \/ \E i \in DOMAIN line : Abandon(i)

Spec == Init /\ [][Next]_poolVars
=============================================================================
