------------------------------ MODULE FifoGate ------------------------------
(***************************************************************************)
(* BoundedFifoGate (services/concurrency.py): the cancellation-safe gate   *)
(* in front of Agent runs and of every provider call.                      *)
(*                                                                         *)
(* The event loop is single threaded and no critical section of the gate   *)
(* awaits, so each section is one step.  What interleaves is the time      *)
(* between a task's suspension on its future and its next step: a release  *)
(* may complete the future of a task whose deadline has passed or that was *)
(* cancelled, and that task must give the slot back.                       *)
(***************************************************************************)
EXTENDS Naturals, Sequences, FiniteSets, SequencesExt

CONSTANTS
  Tasks,       \* the asyncio tasks that use the gate
  Capacity,    \* capacity: slots
  MaxWaiters   \* max_waiters: places in the queue

ASSUME GateAssumption ==
  /\ Capacity \in Nat \ {0}
  /\ MaxWaiters \in Nat

VARIABLES
  available,    \* _available
  waiters,      \* _waiters: the tasks whose futures are in the deque
  stage,        \* where each task is in acquire / slot
  interrupted   \* tasks whose pending await will raise: time-out or cancel

gateVars == <<available, waiters, stage, interrupted>>

(***************************************************************************)
(* "waiting": suspended on a pending future.  "granted": the future has    *)
(* its result but the task has not run since.  "refused" and "gaveUp":     *)
(* acquire raised ConcurrencyQueueFullError, or a time-out / cancellation. *)
(***************************************************************************)
Stages == {"idle", "waiting", "granted", "holding", "refused", "gaveUp"}

Holders == {t \in Tasks : stage[t] \in {"granted", "holding"}}

Init ==
  /\ available = Capacity
  /\ waiters = <<>>
  /\ stage = [t \in Tasks |-> "idle"]
  /\ interrupted = {}

-----------------------------------------------------------------------------
SlotIsFree == available > 0 /\ waiters = <<>>

AcquireFree(t) ==
  /\ stage[t] = "idle"
  /\ SlotIsFree
  /\ available' = available - 1
  /\ stage' = [stage EXCEPT ![t] = "holding"]
  /\ UNCHANGED <<waiters, interrupted>>

Refuse(t) ==
  /\ stage[t] = "idle"
  /\ ~SlotIsFree
  /\ Len(waiters) >= MaxWaiters
  /\ stage' = [stage EXCEPT ![t] = "refused"]
  /\ UNCHANGED <<available, waiters, interrupted>>

JoinQueue(t) ==
  /\ stage[t] = "idle"
  /\ ~SlotIsFree
  /\ Len(waiters) < MaxWaiters
  /\ waiters' = Append(waiters, t)
  /\ stage' = [stage EXCEPT ![t] = "waiting"]
  /\ UNCHANGED <<available, interrupted>>

\* wait_for's deadline, or task.cancel(): noticed only at the task's next step.
Interrupt(t) ==
  /\ stage[t] \in {"waiting", "granted"}
  /\ interrupted' = interrupted \cup {t}
  /\ UNCHANGED <<available, waiters, stage>>

Resume(t) ==
  /\ stage[t] = "granted"
  /\ t \notin interrupted
  /\ stage' = [stage EXCEPT ![t] = "holding"]
  /\ UNCHANGED <<available, waiters, interrupted>>

\* Mutant: the slot is put back although somebody waits for it.
ReleaseToCount(t, next) ==
  /\ available' = IF available + 1 > Capacity THEN Capacity ELSE available + 1
  /\ stage' = [stage EXCEPT ![t] = next]
  /\ UNCHANGED waiters

\* Mutant: the youngest waiter is served first.
ReleaseToYoungest(t, next) ==
  \/ waiters = <<>> /\ ReleaseToCount(t, next)
  \/ /\ waiters # <<>>
     /\ waiters' = Front(waiters)
     /\ stage' = [stage EXCEPT ![t] = next, ![Last(waiters)] = "granted"]
     /\ UNCHANGED available

(***************************************************************************)
(* release(): the oldest waiter gets the slot and _available stays as it   *)
(* is; only with an empty queue does the count go up.  Futures that are    *)
(* already done are skipped by the code; none is ever in the deque, which  *)
(* is what QueueIsWaiting says.                                            *)
(***************************************************************************)
ReleaseSlot(t, next) ==
  \/ /\ waiters = <<>>
     /\ available' = IF available + 1 > Capacity THEN Capacity ELSE available + 1
     /\ stage' = [stage EXCEPT ![t] = next]
     /\ UNCHANGED waiters
  \/ /\ waiters # <<>>
     /\ waiters' = Tail(waiters)
     /\ stage' = [stage EXCEPT ![t] = next, ![Head(waiters)] = "granted"]
     /\ UNCHANGED available

\* The finally block of acquire, the future still pending: leave the queue.
LeaveQueue(t) ==
  /\ stage[t] = "waiting"
  /\ t \in interrupted
  /\ \E i \in DOMAIN waiters :
       /\ waiters[i] = t
       /\ waiters' = RemoveAt(waiters, i)
  /\ stage' = [stage EXCEPT ![t] = "gaveUp"]
  /\ interrupted' = interrupted \ {t}
  /\ UNCHANGED available

\* Mutant: a slot handed to a task whose wait has timed out is lost.
LoseHandoff(t) ==
  /\ stage[t] = "granted"
  /\ t \in interrupted
  /\ stage' = [stage EXCEPT ![t] = "gaveUp"]
  /\ interrupted' = interrupted \ {t}
  /\ UNCHANGED <<available, waiters>>

\* The finally block of acquire, the slot already handed over: return it.
ReturnHandoff(t) ==
  /\ stage[t] = "granted"
  /\ t \in interrupted
  /\ ReleaseSlot(t, "gaveUp")
  /\ interrupted' = interrupted \ {t}

\* slot(): the body has ended, by whichever exit.
Release(t) ==
  /\ stage[t] = "holding"
  /\ ReleaseSlot(t, "idle")
  /\ UNCHANGED interrupted

\* The caller has dealt with the exception of acquire.
Forget(t) ==
  /\ stage[t] \in {"refused", "gaveUp"}
  /\ stage' = [stage EXCEPT ![t] = "idle"]
  /\ UNCHANGED <<available, waiters, interrupted>>

Step(t) ==
  \/ AcquireFree(t) \/ Refuse(t) \/ JoinQueue(t)
  \/ Interrupt(t) \/ Resume(t) \/ LeaveQueue(t) \/ ReturnHandoff(t)
  \/ Release(t) \/ Forget(t)

Next == \E t \in Tasks : Step(t)

Spec == Init /\ [][Next]_gateVars

(***************************************************************************)
(* A task that the loop can run is run, and the body of slot() ends.       *)
(* Nobody is obliged to call acquire, and no deadline has to fire.         *)
(***************************************************************************)
FairSpec ==
  /\ Spec
  /\ \A t \in Tasks : WF_gateVars(Resume(t)) /\ WF_gateVars(Release(t))
  /\ \A t \in Tasks : WF_gateVars(LeaveQueue(t)) /\ WF_gateVars(ReturnHandoff(t))

-----------------------------------------------------------------------------
TypeOK ==
  /\ available \in 0..Capacity
  /\ waiters \in Seq(Tasks)
  /\ stage \in [Tasks -> Stages]
  /\ interrupted \subseteq Tasks

\* No slot is lost or minted on any path through acquire and release,
\* however time-outs and cancellations interleave with handovers.
SlotsConserved == available + Cardinality(Holders) = Capacity

\* A free slot and a waiting task never coexist, so nobody waits in vain.
NoIdleSlot == waiters # <<>> => available = 0

\* The deque holds each suspended task exactly once and nobody else: a task
\* that has left or been served can never be handed a slot again.
QueueIsWaiting ==
  /\ ToSet(waiters) = {t \in Tasks : stage[t] = "waiting"}
  /\ IsInjective(waiters)

\* The gate implements the slot pool: in particular the line is served in
\* arrival order and a newcomer never overtakes it (docstring of the class).
Pool == INSTANCE SlotPool WITH holders <- Holders, line <- waiters

ImplementsPool == Pool!Spec

\* A waiting task is served, or its own deadline or cancellation ends the wait.
WaiterServed ==
  \A t \in Tasks : stage[t] = "waiting" ~> stage[t] \in {"holding", "gaveUp"}
=============================================================================
