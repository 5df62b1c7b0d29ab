--------------------------- MODULE FifoGateProofs ---------------------------
(***************************************************************************)
(* The gate is correct for any set of tasks, finite or not, any capacity   *)
(* and any queue length.  The inductive invariant joins the slot count to  *)
(* the queue: without LineOK a handover could wake a task that is not      *)
(* waiting and SlotsConserved would not survive ReleaseSlot; without       *)
(* NoIdleSlot a task could queue while a slot is free.                     *)
(***************************************************************************)
EXTENDS FifoGate, SequenceTheorems, FiniteSetTheorems, TLAPS

\* QueueIsWaiting, element by element.
LineOK ==
  /\ \A i \in 1..Len(waiters) : stage[waiters[i]] = "waiting"
  /\ \A t \in Tasks : stage[t] = "waiting" => \E i \in 1..Len(waiters) : waiters[i] = t
  /\ \A i, j \in 1..Len(waiters) : waiters[i] = waiters[j] => i = j

CountOK ==
  /\ IsFiniteSet(Holders)
  /\ available + Cardinality(Holders) = Capacity

QueueBounded == Len(waiters) <= MaxWaiters

GateInv == TypeOK /\ LineOK /\ CountOK /\ NoIdleSlot /\ QueueBounded

-----------------------------------------------------------------------------
\* What taking the i-th element out of a sequence leaves.
LEMMA RemoveAtProperties ==
  ASSUME NEW S, NEW s \in Seq(S), NEW i \in 1..Len(s)
  PROVE  /\ RemoveAt(s, i) \in Seq(S)
         /\ Len(RemoveAt(s, i)) = Len(s) - 1
         /\ \A j \in 1..Len(s) - 1 :
              RemoveAt(s, i)[j] = IF j < i THEN s[j] ELSE s[j + 1]
<1> DEFINE front == SubSeq(s, 1, i - 1)
           back  == SubSeq(s, i + 1, Len(s))
<1>1. Len(s) \in Nat /\ \A j \in 1..Len(s) : s[j] \in S
  BY LenProperties, ElementOfSeq
<1>2. /\ front \in Seq(S)
      /\ Len(front) = i - 1
      /\ \A j \in 1..i - 1 : front[j] = s[j]
  <2>1. \A j \in 1..i - 1 : s[j] \in S
    BY <1>1
  <2>2. 1 \in Int /\ i - 1 \in Int
    BY <1>1
  <2>3. /\ front \in Seq(S)
        /\ Len(front) = IF 1 <= i - 1 THEN i - 1 - 1 + 1 ELSE 0
        /\ \A j \in 1..(i - 1) - 1 + 1 : front[j] = s[1 + j - 1]
    BY <2>1, <2>2, SubSeqProperties
  <2> QED BY <2>3, <1>1
<1>3. /\ back \in Seq(S)
      /\ Len(back) = Len(s) - i
      /\ \A j \in 1..Len(s) - i : back[j] = s[i + j]
  <2>1. \A j \in i + 1..Len(s) : s[j] \in S
    BY <1>1
  <2>2. i + 1 \in Int /\ Len(s) \in Int
    BY <1>1
  <2>3. /\ back \in Seq(S)
        /\ Len(back) = IF i + 1 <= Len(s) THEN Len(s) - (i + 1) + 1 ELSE 0
        /\ \A j \in 1..Len(s) - (i + 1) + 1 : back[j] = s[i + 1 + j - 1]
    BY <2>1, <2>2, SubSeqProperties
  <2> QED BY <2>3, <1>1
<1> HIDE DEF front, back
<1>4. /\ front \o back \in Seq(S)
      /\ Len(front \o back) = Len(front) + Len(back)
      /\ \A j \in 1..Len(front) + Len(back) :
           (front \o back)[j] = IF j <= Len(front) THEN front[j] ELSE back[j - Len(front)]
  BY <1>2, <1>3, ConcatProperties
<1>5. RemoveAt(s, i) = front \o back
  BY DEF RemoveAt, front, back
<1>6. ASSUME NEW j \in 1..Len(s) - 1
      PROVE  (front \o back)[j] = IF j < i THEN s[j] ELSE s[j + 1]
  <2>1. i \in Nat /\ j \in Nat /\ Len(s) \in Nat /\ Len(front) = i - 1
    BY <1>1, <1>2
  <2>2. j \in 1..Len(front) + Len(back)
    BY <2>1, <1>3
  <2>3. CASE j < i
    BY <2>1, <2>2, <2>3, <1>2, <1>4
  <2>4. CASE ~(j < i)
    <3>1. (front \o back)[j] = back[j - (i - 1)]
      BY <2>1, <2>2, <2>4, <1>4
    <3>2. j - (i - 1) \in 1..Len(s) - i
      BY <2>1, <2>4
    <3>3. i + (j - (i - 1)) = j + 1
      BY <2>1
    <3> QED BY <3>1, <3>2, <3>3, <2>4, <1>3
  <2> QED BY <2>3, <2>4
<1>7. Len(front) + Len(back) = Len(s) - 1
  BY <1>1, <1>2, <1>3
<1> QED BY <1>4, <1>5, <1>6, <1>7

\* LineOK is what the runs check as QueueIsWaiting.
LEMMA LineMeansQueue == TypeOK /\ LineOK => QueueIsWaiting
<1> SUFFICES ASSUME TypeOK, LineOK PROVE QueueIsWaiting
  OBVIOUS
<1>1. DOMAIN waiters = 1..Len(waiters) /\ \A i \in 1..Len(waiters) : waiters[i] \in Tasks
  BY LenProperties, ElementOfSeq DEF TypeOK
<1>2. ToSet(waiters) = {t \in Tasks : stage[t] = "waiting"}
  BY <1>1 DEF ToSet, LineOK
<1>3. IsInjective(waiters)
  BY <1>1 DEF IsInjective, LineOK
<1> QED BY <1>2, <1>3 DEF QueueIsWaiting

-----------------------------------------------------------------------------
\* An empty gate with all its slots free satisfies the invariant.
LEMMA InitGateInv == Init => GateInv
<1> SUFFICES ASSUME Init PROVE GateInv
  OBVIOUS
<1>1. Holders = {}
  BY DEF Init, Holders
<1>2. TypeOK
  BY GateAssumption DEF Init, TypeOK, Stages
<1>3. Len(waiters) = 0
  BY DEF Init
<1>4. LineOK
  BY <1>3 DEF LineOK, Init
<1>5. CountOK
  BY <1>1, FS_EmptySet, GateAssumption DEF CountOK, Init
<1>6. NoIdleSlot /\ QueueBounded
  BY <1>3, GateAssumption DEF NoIdleSlot, QueueBounded, Init
<1> QED BY <1>2, <1>4, <1>5, <1>6 DEF GateInv

\* Facts every step uses about the queue as a sequence.
LEMMA QueueFacts ==
  ASSUME TypeOK
  PROVE  /\ Len(waiters) \in Nat
         /\ \A i \in 1..Len(waiters) : waiters[i] \in Tasks
         /\ waiters = <<>> <=> Len(waiters) = 0
         /\ waiters # <<>> =>
              /\ Head(waiters) = waiters[1]
              /\ Len(Tail(waiters)) = Len(waiters) - 1
              /\ \A i \in 1..Len(waiters) - 1 : Tail(waiters)[i] = waiters[i + 1]
<1>1. Len(waiters) \in Nat /\ \A i \in 1..Len(waiters) : waiters[i] \in Tasks
  BY LenProperties, ElementOfSeq DEF TypeOK
<1>2. waiters = <<>> <=> Len(waiters) = 0
  BY EmptySeq DEF TypeOK
<1>3. ASSUME waiters # <<>>
      PROVE  /\ Head(waiters) = waiters[1]
             /\ Len(Tail(waiters)) = Len(waiters) - 1
             /\ \A i \in 1..Len(waiters) - 1 : Tail(waiters)[i] = waiters[i + 1]
  BY <1>3, HeadTailProperties DEF TypeOK
<1> QED BY <1>1, <1>2, <1>3

(***************************************************************************)
(* release() keeps the invariant whoever calls it, as long as the caller   *)
(* owns the slot it returns.                                               *)
(***************************************************************************)
LEMMA ReleaseKeepsGate ==
  ASSUME GateInv, NEW t \in Holders, NEW next \in {"idle", "gaveUp"},
         ReleaseSlot(t, next), interrupted' \subseteq Tasks
  PROVE  GateInv'
<1>1. t \in Tasks /\ stage[t] \in {"granted", "holding"}
  BY DEF Holders
<1>2. /\ available \in Nat /\ Cardinality(Holders) \in Nat
      /\ IsFiniteSet(Holders) /\ available + Cardinality(Holders) = Capacity
  BY FS_CardinalityType DEF GateInv, CountOK, TypeOK
<1>3. /\ IsFiniteSet(Holders \ {t})
      /\ Cardinality(Holders \ {t}) = Cardinality(Holders) - 1
  BY <1>2, FS_RemoveElement
<1>4. Cardinality(Holders \ {t}) \in Nat
  BY <1>3, FS_CardinalityType
<1>5. CASE waiters = <<>>
  <2>1. /\ available' = available + 1
        /\ stage' = [stage EXCEPT ![t] = next]
        /\ waiters' = <<>>
    BY <1>2, <1>3, <1>4, <1>5, GateAssumption DEF ReleaseSlot
  <2>2. Holders' = Holders \ {t}
    BY <1>1, <2>1 DEF GateInv, TypeOK, Holders
  <2>3. CountOK'
    BY <1>2, <1>3, <2>1, <2>2 DEF CountOK
  <2>4. TypeOK'
    BY <1>1, <1>2, <1>3, <1>4, <2>1, GateAssumption DEF GateInv, TypeOK, Stages
  <2>5. Len(waiters) = 0 /\ Len(waiters') = 0
    BY <1>5, <2>1
  <2>6. LineOK'
    BY <1>1, <2>1, <2>5 DEF GateInv, TypeOK, LineOK
  <2>7. NoIdleSlot' /\ QueueBounded'
    BY <2>1, <2>5, GateAssumption DEF NoIdleSlot, QueueBounded
  <2> QED BY <2>3, <2>4, <2>6, <2>7 DEF GateInv
<1>6. CASE waiters # <<>>
  <2> DEFINE h == Head(waiters)
  <2>1. /\ available' = available
        /\ stage' = [stage EXCEPT ![t] = next, ![h] = "granted"]
        /\ waiters' = Tail(waiters)
    BY <1>6 DEF ReleaseSlot
  <2>2. /\ Len(waiters) \in Nat /\ Len(waiters) >= 1
        /\ \A i \in 1..Len(waiters) : waiters[i] \in Tasks
        /\ h = waiters[1]
        /\ Len(waiters') = Len(waiters) - 1
        /\ \A i \in 1..Len(waiters) - 1 : waiters'[i] = waiters[i + 1]
    BY <1>6, <2>1, QueueFacts DEF GateInv
  <2>3. h \in Tasks /\ stage[h] = "waiting" /\ h # t /\ h \notin Holders
    BY <1>1, <2>2 DEF GateInv, LineOK, Holders
  <2> HIDE DEF h
  <2>4. Holders' = (Holders \ {t}) \cup {h}
    BY <1>1, <2>1, <2>3 DEF GateInv, TypeOK, Holders
  <2>5. CountOK'
    <3>1. /\ IsFiniteSet((Holders \ {t}) \cup {h})
          /\ Cardinality((Holders \ {t}) \cup {h}) = Cardinality(Holders \ {t}) + 1
      BY <1>3, <2>3, FS_AddElement
    <3> QED BY <1>2, <1>3, <2>1, <2>4, <3>1 DEF CountOK
  <2>6. TypeOK'
    <3>1. Tail(waiters) \in Seq(Tasks)
      BY <1>6, HeadTailProperties DEF GateInv, TypeOK
    <3> QED BY <1>1, <2>1, <2>3, <3>1 DEF GateInv, TypeOK, Stages
  <2>7. LineOK'
    <3>1. \A u \in Tasks : stage'[u] = "waiting" <=> (stage[u] = "waiting" /\ u # h)
      BY <1>1, <2>1, <2>3 DEF GateInv, TypeOK
    <3>2. \A i, j \in 1..Len(waiters) : waiters[i] = waiters[j] => i = j
      BY DEF GateInv, LineOK
    <3>3. \A i \in 1..Len(waiters') : stage'[waiters'[i]] = "waiting"
      BY <2>2, <3>1, <3>2 DEF GateInv, LineOK
    <3>4. ASSUME NEW u \in Tasks, stage'[u] = "waiting"
          PROVE  \E i \in 1..Len(waiters') : waiters'[i] = u
      <4>1. PICK i \in 1..Len(waiters) : waiters[i] = u
        BY <3>1, <3>4 DEF GateInv, LineOK
      <4>2. i # 1
        BY <2>2, <3>1, <3>4, <4>1
      <4>3. i - 1 \in 1..Len(waiters) - 1 /\ waiters'[i - 1] = waiters[(i - 1) + 1]
        BY <2>2, <4>2
      <4>4. waiters'[i - 1] = u
        BY <4>1, <4>3
      <4> QED BY <2>2, <4>3, <4>4
    <3>5. \A i, j \in 1..Len(waiters') : waiters'[i] = waiters'[j] => i = j
      BY <2>2, <3>2
    <3> QED BY <3>3, <3>4, <3>5 DEF LineOK
  <2>8. NoIdleSlot' /\ QueueBounded'
    BY <1>6, <2>1, <2>2, GateAssumption DEF GateInv, NoIdleSlot, QueueBounded
  <2> QED BY <2>5, <2>6, <2>7, <2>8 DEF GateInv
<1> QED BY <1>5, <1>6

-----------------------------------------------------------------------------
\* Taking a free slot while nobody waits keeps the invariant.
LEMMA AcquireFreeKeepsGate ==
  ASSUME GateInv, NEW t \in Tasks, AcquireFree(t)
  PROVE  GateInv'
<1>1. /\ available' = available - 1 /\ available > 0 /\ available \in Nat
      /\ waiters = <<>> /\ waiters' = waiters
      /\ stage' = [stage EXCEPT ![t] = "holding"]
      /\ stage[t] = "idle" /\ interrupted' = interrupted
  BY DEF AcquireFree, SlotIsFree, GateInv, TypeOK
<1>2. Holders' = Holders \cup {t} /\ t \notin Holders
  BY <1>1 DEF Holders, GateInv, TypeOK
<1>3. CountOK'
  <2>1. /\ IsFiniteSet(Holders \cup {t})
        /\ Cardinality(Holders \cup {t}) = Cardinality(Holders) + 1
    BY <1>2, FS_AddElement DEF GateInv, CountOK
  <2>2. Cardinality(Holders) \in Nat /\ available + Cardinality(Holders) = Capacity
    BY FS_CardinalityType DEF GateInv, CountOK
  <2> QED BY <1>1, <1>2, <2>1, <2>2 DEF CountOK
<1>4. TypeOK'
  BY <1>1, GateAssumption DEF GateInv, TypeOK, Stages
<1>5. Len(waiters) = 0
  BY <1>1
<1>6. LineOK' /\ NoIdleSlot' /\ QueueBounded'
  BY <1>1, <1>5 DEF GateInv, TypeOK, LineOK, NoIdleSlot, QueueBounded
<1> QED BY <1>3, <1>4, <1>6 DEF GateInv

\* Joining the queue, at its end and within its bound, keeps the invariant.
LEMMA JoinQueueKeepsGate ==
  ASSUME GateInv, NEW t \in Tasks, JoinQueue(t)
  PROVE  GateInv'
<1>1. /\ available' = available /\ ~SlotIsFree /\ Len(waiters) < MaxWaiters
      /\ waiters' = Append(waiters, t)
      /\ stage' = [stage EXCEPT ![t] = "waiting"]
      /\ stage[t] = "idle" /\ interrupted' = interrupted
  BY DEF JoinQueue
<1>2. /\ Len(waiters) \in Nat
      /\ waiters' \in Seq(Tasks)
      /\ Len(waiters') = Len(waiters) + 1
      /\ \A i \in 1..Len(waiters) : waiters'[i] = waiters[i]
      /\ waiters'[Len(waiters) + 1] = t
  BY <1>1, QueueFacts, AppendProperties DEF GateInv, TypeOK
<1>3. Holders' = Holders
  BY <1>1 DEF Holders, GateInv, TypeOK
<1>4. CountOK' /\ TypeOK' /\ QueueBounded'
  BY <1>1, <1>2, <1>3, GateAssumption DEF GateInv, CountOK, TypeOK, Stages, QueueBounded
<1>5. NoIdleSlot'
  BY <1>1 DEF GateInv, NoIdleSlot, SlotIsFree, TypeOK
<1>6. LineOK'
  <2>1. \A i \in 1..Len(waiters) : waiters[i] # t
    BY <1>1 DEF GateInv, LineOK
  <2>2. \A i \in 1..Len(waiters') : stage'[waiters'[i]] = "waiting"
    BY <1>1, <1>2, <2>1 DEF GateInv, LineOK, TypeOK
  <2>3. \A u \in Tasks : stage'[u] = "waiting" =>
           \E i \in 1..Len(waiters') : waiters'[i] = u
    BY <1>1, <1>2 DEF GateInv, LineOK, TypeOK
  <2>4. \A i, j \in 1..Len(waiters') : waiters'[i] = waiters'[j] => i = j
    BY <1>2, <2>1 DEF GateInv, LineOK
  <2> QED BY <2>2, <2>3, <2>4 DEF LineOK
<1> QED BY <1>4, <1>5, <1>6 DEF GateInv

\* Leaving the queue before a slot was handed over keeps the invariant.
LEMMA LeaveQueueKeepsGate ==
  ASSUME GateInv, NEW t \in Tasks, LeaveQueue(t)
  PROVE  GateInv'
<1>1. PICK k \in DOMAIN waiters : waiters[k] = t /\ waiters' = RemoveAt(waiters, k)
  BY DEF LeaveQueue
<1>2. /\ available' = available
      /\ stage' = [stage EXCEPT ![t] = "gaveUp"]
      /\ stage[t] = "waiting" /\ interrupted' = interrupted \ {t}
  BY DEF LeaveQueue
<1>3. k \in 1..Len(waiters) /\ Len(waiters) \in Nat
  BY <1>1, QueueFacts, LenProperties DEF GateInv, TypeOK
<1>4. /\ waiters' \in Seq(Tasks)
      /\ Len(waiters') = Len(waiters) - 1
      /\ \A j \in 1..Len(waiters) - 1 :
           waiters'[j] = IF j < k THEN waiters[j] ELSE waiters[j + 1]
  BY <1>1, <1>3, RemoveAtProperties DEF GateInv, TypeOK
<1>5. Holders' = Holders
  BY <1>2 DEF Holders, GateInv, TypeOK
<1>6. CountOK' /\ TypeOK' /\ QueueBounded'
  BY <1>2, <1>3, <1>4, <1>5, GateAssumption
  DEF GateInv, CountOK, TypeOK, Stages, QueueBounded
<1>7. NoIdleSlot'
  <2>1. waiters # <<>>
    BY <1>3
  <2> QED BY <1>2, <2>1 DEF GateInv, NoIdleSlot
<1>8. LineOK'
  <2>1. \A i, j \in 1..Len(waiters) : waiters[i] = waiters[j] => i = j
    BY DEF GateInv, LineOK
  <2>2. ASSUME NEW i \in 1..Len(waiters')
        PROVE  stage'[waiters'[i]] = "waiting"
    <3>1. PICK m \in 1..Len(waiters) : waiters'[i] = waiters[m] /\ m # k
      BY <1>3, <1>4
    <3> QED BY <1>1, <1>2, <1>3, <2>1, <3>1 DEF GateInv, LineOK, TypeOK
  <2>3. ASSUME NEW u \in Tasks, stage'[u] = "waiting"
        PROVE  \E i \in 1..Len(waiters') : waiters'[i] = u
    <3>1. u # t /\ stage[u] = "waiting"
      BY <1>2, <2>3 DEF GateInv, TypeOK
    <3>2. PICK m \in 1..Len(waiters) : waiters[m] = u
      BY <3>1 DEF GateInv, LineOK
    <3>3. m # k
      BY <1>1, <3>1, <3>2
    <3>4. CASE m < k
      BY <1>3, <1>4, <3>2, <3>4
    <3>5. CASE m > k
      <4>1. m - 1 \in 1..Len(waiters) - 1 /\ ~(m - 1 < k) /\ (m - 1) + 1 = m
        BY <1>3, <3>5
      <4>2. waiters'[m - 1] = u
        BY <1>4, <3>2, <4>1
      <4> QED BY <1>4, <4>1, <4>2
    <3> QED BY <1>3, <3>3, <3>4, <3>5
  <2>4. \A i, j \in 1..Len(waiters') : waiters'[i] = waiters'[j] => i = j
    BY <1>3, <1>4, <2>1
  <2> QED BY <2>2, <2>3, <2>4 DEF LineOK
<1> QED BY <1>6, <1>7, <1>8 DEF GateInv

\* The steps that touch neither the count nor the queue.
LEMMA StageOnlyKeepsGate ==
  ASSUME GateInv, NEW t \in Tasks, Refuse(t) \/ Interrupt(t) \/ Resume(t) \/ Forget(t)
  PROVE  GateInv'
<1>1. available' = available /\ waiters' = waiters
  BY DEF Refuse, Interrupt, Resume, Forget
<1>2. /\ TypeOK'
      /\ Holders' = Holders
      /\ \A u \in Tasks : stage'[u] = "waiting" <=> stage[u] = "waiting"
  BY DEF Refuse, Interrupt, Resume, Forget, GateInv, TypeOK, Stages, Holders
<1>3. \A i \in 1..Len(waiters) : waiters[i] \in Tasks
  BY QueueFacts DEF GateInv
<1>4. LineOK'
  BY <1>1, <1>2, <1>3 DEF GateInv, LineOK
<1>5. CountOK' /\ NoIdleSlot' /\ QueueBounded'
  BY <1>1, <1>2 DEF GateInv, CountOK, NoIdleSlot, QueueBounded
<1> QED BY <1>2, <1>4, <1>5 DEF GateInv

\* Every step of the gate keeps the invariant.
LEMMA NextKeepsGate == GateInv /\ [Next]_gateVars => GateInv'
<1> SUFFICES ASSUME GateInv, [Next]_gateVars PROVE GateInv'
  OBVIOUS
<1>1. CASE UNCHANGED gateVars
  BY <1>1 DEF gateVars, GateInv, TypeOK, LineOK, CountOK, NoIdleSlot, QueueBounded, Holders
<1>2. ASSUME NEW t \in Tasks, Step(t) PROVE GateInv'
  <2>1. CASE AcquireFree(t)
    BY <2>1, AcquireFreeKeepsGate
  <2>2. CASE JoinQueue(t)
    BY <2>2, JoinQueueKeepsGate
  <2>3. CASE LeaveQueue(t)
    BY <2>3, LeaveQueueKeepsGate
  <2>4. CASE ReturnHandoff(t)
    <3>1. t \in Holders /\ interrupted' \subseteq Tasks
      BY <2>4 DEF ReturnHandoff, Holders, GateInv, TypeOK
    <3> QED BY <2>4, <3>1, ReleaseKeepsGate DEF ReturnHandoff
  <2>5. CASE Release(t)
    <3>1. t \in Holders /\ interrupted' \subseteq Tasks
      BY <2>5 DEF Release, Holders, GateInv, TypeOK
    <3> QED BY <2>5, <3>1, ReleaseKeepsGate DEF Release
  <2>6. CASE Refuse(t) \/ Interrupt(t) \/ Resume(t) \/ Forget(t)
    BY <2>6, StageOnlyKeepsGate
  <2> QED BY <1>2, <2>1, <2>2, <2>3, <2>4, <2>5, <2>6 DEF Step
<1> QED BY <1>1, <1>2 DEF Next

\* The inductive invariant holds in every reachable state of the gate.
THEOREM GateInvariant == Spec => []GateInv
BY InitGateInv, NextKeepsGate, PTL DEF Spec

\* Slots are neither lost nor minted by acquire, handover, time-out,
\* cancellation and release, for every number of tasks and slots.
THEOREM GateConservesSlots == Spec => [](TypeOK /\ SlotsConserved)
<1>1. GateInv => TypeOK /\ SlotsConserved
  BY DEF GateInv, CountOK, SlotsConserved
<1> QED BY <1>1, GateInvariant, PTL

\* No task ever waits while a slot is free.
THEOREM GateNeverIdles == Spec => []NoIdleSlot
<1>1. GateInv => NoIdleSlot
  BY DEF GateInv
<1> QED BY <1>1, GateInvariant, PTL

\* The deque is exactly the suspended tasks, once each.
THEOREM GateQueueExact == Spec => []QueueIsWaiting
<1>1. GateInv => QueueIsWaiting
  BY LineMeansQueue DEF GateInv
<1> QED BY <1>1, GateInvariant, PTL

-----------------------------------------------------------------------------
(***************************************************************************)
(* Refinement: a task that was handed a slot owns it in the pool, whether  *)
(* or not it has run since; so a handover is one step of the pool, and a   *)
(* late time-out is the pool's Return.                                     *)
(***************************************************************************)
LEMMA ReleaseIsReturn ==
  ASSUME GateInv, NEW t \in Holders, NEW next \in {"idle", "gaveUp"},
         ReleaseSlot(t, next)
  PROVE  Pool!Return(t)
<1>1. t \in Tasks
  BY DEF Holders
<1>2. CASE waiters = <<>>
  <2>1. waiters' = waiters /\ stage' = [stage EXCEPT ![t] = next]
    BY <1>2 DEF ReleaseSlot
  <2>2. Holders' = Holders \ {t}
    BY <1>1, <2>1 DEF GateInv, TypeOK, Holders
  <2> QED BY <1>2, <2>1, <2>2 DEF Pool!Return
<1>3. CASE waiters # <<>>
  <2> DEFINE h == Head(waiters)
  <2>1. stage' = [stage EXCEPT ![t] = next, ![h] = "granted"] /\ waiters' = Tail(waiters)
    BY <1>3 DEF ReleaseSlot
  <2>2. h = waiters[1] /\ 1 \in 1..Len(waiters)
    BY <1>3, QueueFacts DEF GateInv
  <2>3. h \in Tasks /\ stage[h] = "waiting" /\ h # t
    BY <1>1, <2>2, QueueFacts DEF GateInv, LineOK, Holders
  <2> HIDE DEF h
  <2>4. Holders' = (Holders \ {t}) \cup {h}
    BY <1>1, <2>1, <2>3 DEF GateInv, TypeOK, Holders
  <2> QED BY <1>3, <2>1, <2>4 DEF Pool!Return, h
<1> QED BY <1>2, <1>3

\* Every step of the gate is a step of the slot pool or leaves the pool alone.
LEMMA StepIsPoolStep ==
  ASSUME GateInv, NEW t \in Tasks, Step(t)
  PROVE  Pool!Next \/ UNCHANGED <<Holders, waiters>>
<1>1. CASE AcquireFree(t)
  <2>1. /\ waiters = <<>> /\ waiters' = waiters /\ available > 0
        /\ Holders' = Holders \cup {t} /\ t \notin Holders
    BY <1>1 DEF AcquireFree, SlotIsFree, Holders, GateInv, TypeOK
  <2>2. Cardinality(Holders) < Capacity
    BY <2>1, FS_CardinalityType, GateAssumption DEF GateInv, CountOK, TypeOK
  <2>3. Pool!Cardinality(Holders) < Capacity
    BY <2>2 DEF Pool!Cardinality, Cardinality
  <2> QED BY <2>1, <2>3 DEF Pool!Take, Pool!Next
<1>2. CASE JoinQueue(t)
  <2>1. /\ ~SlotIsFree /\ Len(waiters) < MaxWaiters /\ waiters' = Append(waiters, t)
        /\ Holders' = Holders /\ t \notin Holders /\ stage[t] = "idle"
    BY <1>2 DEF JoinQueue, Holders, GateInv, TypeOK
  <2>2. available = 0
    BY <2>1 DEF SlotIsFree, GateInv, NoIdleSlot, TypeOK
  <2>3. Cardinality(Holders) = Capacity
    BY <2>2, FS_CardinalityType, GateAssumption DEF GateInv, CountOK
  <2>4. t \notin Pool!ToSet(waiters)
    <3>1. \A i \in DOMAIN waiters : stage[waiters[i]] = "waiting"
      BY LenProperties DEF GateInv, TypeOK, LineOK
    <3> QED BY <2>1, <3>1 DEF Pool!ToSet
  <2>5. Pool!Cardinality(Holders) = Capacity
    BY <2>3 DEF Pool!Cardinality, Cardinality
  <2> QED BY <2>1, <2>4, <2>5 DEF Pool!Queue, Pool!Next
<1>3. CASE LeaveQueue(t)
  <2>1. Holders' = Holders
    BY <1>3 DEF LeaveQueue, Holders, GateInv, TypeOK
  <2>2. PICK k \in DOMAIN waiters : waiters' = RemoveAt(waiters, k)
    BY <1>3 DEF LeaveQueue
  <2>3. waiters' = Pool!RemoveAt(waiters, k)
    BY <2>2 DEF RemoveAt, Pool!RemoveAt
  <2> QED BY <2>1, <2>2, <2>3 DEF Pool!Abandon, Pool!Next
<1>4. CASE ReturnHandoff(t)
  <2>1. t \in Holders
    BY <1>4 DEF ReturnHandoff, Holders
  <2>2. Pool!Return(t)
    BY <1>4, <2>1, ReleaseIsReturn DEF ReturnHandoff
  <2> QED BY <2>2 DEF Pool!Next
<1>5. CASE Release(t)
  <2>1. t \in Holders
    BY <1>5 DEF Release, Holders
  <2>2. Pool!Return(t)
    BY <1>5, <2>1, ReleaseIsReturn DEF Release
  <2> QED BY <2>2 DEF Pool!Next
<1>6. CASE Refuse(t) \/ Interrupt(t) \/ Resume(t) \/ Forget(t)
  BY <1>6 DEF Refuse, Interrupt, Resume, Forget, Holders, GateInv, TypeOK
<1> QED BY <1>1, <1>2, <1>3, <1>4, <1>5, <1>6 DEF Step

\* BoundedFifoGate implements the slot pool: strict arrival order, no
\* overtaking, at most Capacity owners and MaxWaiters waiting.
THEOREM GateImplementsPool == Spec => ImplementsPool
<1>1. Init => Pool!Init
  BY DEF Init, Pool!Init, Holders
<1>2. GateInv /\ [Next]_gateVars => [Pool!Next]_(Pool!poolVars)
  BY StepIsPoolStep DEF Next, gateVars, Pool!poolVars, Holders
<1> QED BY <1>1, <1>2, GateInvariant, PTL DEF Spec, ImplementsPool, Pool!Spec
=============================================================================
