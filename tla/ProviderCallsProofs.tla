------------------------ MODULE ProviderCallsProofs ------------------------
(***************************************************************************)
(* A provider call, for any callers, capacity, queue, attempts, dimensions *)
(* and bounds: what is open stays within the gate's capacity, what has     *)
(* ended has left nothing open, and a batch of embeddings that was stored  *)
(* has the dimension it was asked for.                                     *)
(*                                                                         *)
(* The inductive invariant says where each call stands in the gate and     *)
(* whether its request is open there (Fits); FifoGateProofs bounds those   *)
(* who hold a slot.  For the batches it says that a group that nobody      *)
(* aborted has no cancelled paper: then a group that ended without a       *)
(* failure has a vector of its dimension for every paper (BatchInv).       *)
(***************************************************************************)
EXTENDS ProviderCalls, FiniteSetTheorems, TLAPS

Users == Callers \cup Others
GateProofs == INSTANCE FifoGateProofs WITH Tasks <- Users, interrupted <- Due

CallType == [pc : Places, try : 1..Attempts, audit : {"none", "running", "success", "error"},
             flight : {"none", "open", "cancelling"},
             result : {"none", "answered", "passed", "failed", "cancelled"},
             cut : BOOLEAN, answered : BOOLEAN, behind : BOOLEAN, vec : Dims \cup {0}]

\* Where a call stands in the gate, and when its request is open; only the LLM client
\* waits for a request that it cancelled.
Fits(r, s) ==
  /\ r.pc = "waiting" => s \in {"waiting", "granted"}
  /\ r.pc \in {"sent", "draining"} => s = "holding"
  /\ r.pc \in {"sleeping", "closing"} => s \in {"idle", "refused", "gaveUp"}
  /\ r.pc = "ended" => s = "idle" \/ (kind = "rerank" /\ s = "gaveUp")
  /\ r.pc \notin {"waiting", "sent", "draining", "sleeping", "closing", "ended"} => s = "idle"
  /\ r.pc \in {"draining", "cancelDrain"} => kind = "llm"
  /\ r.flight = "open" <=> r.pc = "sent"
  /\ r.flight = "cancelling" <=> r.pc \in {"draining", "cancelDrain"}

\* The audit rows of a call that has nothing more to write to them: only one that was
\* cancelled may have left its last row open, and then its answer had come or it reranks.
RowOK(r) ==
  /\ ~r.behind
  /\ r.pc \in {"idle", "cached"} => r.audit # "running"
  /\ r.pc = "pricing" => r.answered
  /\ r.pc = "saving" => ~Unclosed(r)
  /\ r.pc = "ended" /\ Unclosed(r) => r.result = "cancelled" /\ (kind = "rerank" \/ r.answered)

\* A paper of a group that nobody aborted: d is the group's dimension.
VecOK(r, d) ==
  /\ r.result \in {"none", "answered", "failed"}
  /\ r.result = "answered" => r.vec = d
  /\ r.pc = "pricing" => r.vec = d
  /\ r.pc \in {"closing", "ended"} => r.result # "none"
  /\ r.pc = "saving" => r.result = "answered"

BatchInv ==
  /\ batch.pc # "none" => kind = "embedding"
  /\ batch.pc = "none" /\ kind = "embedding" => \A c \in Callers : call[c].pc = "idle"
  /\ batch.pc = "group" => cancelled = {} /\ \A c \in Callers : VecOK(call[c], batch.dim)
  /\ batch.pc \in {"storing", "stored", "over"} => AllEnded
  /\ batch.pc = "storing" => \A c \in Callers : call[c].vec = batch.dim
  /\ batch.pc = "stored" => \A c \in Callers : stored[c] = batch.dim

\* The variables beside the gate and the calls.
Typed ==
  /\ kind \in {"llm", "embedding", "rerank"} /\ expired \subseteq Callers
  /\ cancelled \subseteq asked /\ asked \subseteq Callers
  /\ batch \in [pc : {"none", "group", "aborting", "storing", "stored", "over"}, dim : Dims]
  /\ target \in Dims
  /\ cache \in [Callers -> Dims \cup {0}] /\ stored \in [Callers -> Dims \cup {0}]
  /\ batches \in 0..MaxBatches /\ targets \in 0..MaxTargets /\ faults \in 0..MaxFaults

CallInv ==
  /\ GateProofs!GateInv /\ Typed /\ call \in [Callers -> CallType]
  /\ \A c \in Callers : Fits(call[c], stage[c]) /\ RowOK(call[c])
  /\ BatchInv

-----------------------------------------------------------------------------
(* The gate *)

\* The gate's own assumption.
LEMMA GateIsSound == GateProofs!GateAssumption
BY CallsAssumption DEF GateProofs!GateAssumption

\* A step of one user leaves the others where they are, or hands one of them a slot.
OthersStay(u) == \A d \in Callers \ {u} :
  stage'[d] = stage[d] \/ (stage[d] = "waiting" /\ stage'[d] = "granted")

\* A deadline that passes, or a cancellation that is asked for, is not the gate's step.
LEMMA GateUntouched ==
  ASSUME GateProofs!GateInv, UNCHANGED <<available, waiters, stage>>, Due' \subseteq Users
  PROVE  GateProofs!GateInv'
BY DEF GateProofs!GateInv, GateProofs!TypeOK, GateProofs!LineOK, GateProofs!CountOK,
       GateProofs!NoIdleSlot, GateProofs!QueueBounded, GateProofs!Holders

\* Who is due is one of the callers.
LEMMA DueAreUsers ==
  ASSUME cancelled' \subseteq Callers, expired' \subseteq Callers
  PROVE  Due' \subseteq Users
BY DEF Due, Users

\* What the gate's steps ask of the task and where they take it.
LEMMA GateStages ==
  ASSUME GateProofs!GateInv, NEW u \in Users
  PROVE  /\ Gate!AcquireFree(u) => stage[u] = "idle" /\ stage' = [stage EXCEPT ![u] = "holding"]
         /\ Gate!JoinQueue(u) => stage[u] = "idle" /\ stage' = [stage EXCEPT ![u] = "waiting"]
         /\ Gate!Refuse(u) => stage[u] = "idle" /\ stage' = [stage EXCEPT ![u] = "refused"]
         /\ Gate!Resume(u) => stage[u] = "granted" /\ stage' = [stage EXCEPT ![u] = "holding"]
         /\ Gate!Forget(u) => /\ stage[u] \in {"refused", "gaveUp"}
                              /\ stage' = [stage EXCEPT ![u] = "idle"]
         /\ Gate!LeaveQueue(u) => /\ stage[u] = "waiting"
                                  /\ stage' = [stage EXCEPT ![u] = "gaveUp"]
         /\ stage \in [Users -> GateProofs!Stages]
BY DEF Gate!AcquireFree, Gate!JoinQueue, Gate!Refuse, Gate!Resume, Gate!Forget, Gate!LeaveQueue,
       GateProofs!GateInv, GateProofs!TypeOK

\* A user's step in the gate keeps the gate's invariant.
LEMMA GateStep ==
  ASSUME GateProofs!GateInv, NEW u \in Users, Gate!Step(u)
  PROVE  GateProofs!GateInv'
<1>1. GateProofs!Step(u)
  BY DEF Gate!Step, GateProofs!Step, Gate!AcquireFree, GateProofs!AcquireFree, Gate!Refuse,
     GateProofs!Refuse, Gate!JoinQueue, GateProofs!JoinQueue, Gate!Interrupt,
     GateProofs!Interrupt, Gate!Resume, GateProofs!Resume, Gate!LeaveQueue,
     GateProofs!LeaveQueue, Gate!ReturnHandoff, GateProofs!ReturnHandoff, Gate!Release,
     GateProofs!Release, Gate!Forget, GateProofs!Forget, Gate!ReleaseSlot,
     GateProofs!ReleaseSlot, Gate!SlotIsFree, GateProofs!SlotIsFree, Gate!RemoveAt,
     GateProofs!RemoveAt
<1>2. GateProofs!Next
  BY <1>1 DEF GateProofs!Next
<1> QED BY <1>2, GateIsSound, GateProofs!NextKeepsGate

\* A slot that is given up goes to the head of the queue.
LEMMA SlotGoesOn ==
  ASSUME GateProofs!GateInv, NEW u \in Users, NEW next \in {"idle", "gaveUp"},
         stage[u] \in {"granted", "holding"}, Gate!ReleaseSlot(u, next)
  PROVE  /\ stage'[u] = next /\ OthersStay(u)
         /\ Due' \subseteq Users => GateProofs!GateInv'
<1>1. stage \in [Users -> GateProofs!Stages]
  BY DEF GateProofs!GateInv, GateProofs!TypeOK
<1>2. ASSUME waiters = <<>> PROVE stage'[u] = next /\ OthersStay(u)
  <2>1. stage' = [stage EXCEPT ![u] = next]
    BY <1>2 DEF Gate!ReleaseSlot
  <2> QED BY <1>1, <2>1 DEF OthersStay, Users
<1>3. ASSUME waiters # <<>> PROVE stage'[u] = next /\ OthersStay(u)
  <2>1. Head(waiters) \in Users /\ stage[Head(waiters)] = "waiting"
    <3>1. /\ Head(waiters) = waiters[1] /\ 1 \in 1..Len(waiters)
          /\ \A i \in 1..Len(waiters) : waiters[i] \in Users
      BY <1>3, GateIsSound, GateProofs!QueueFacts DEF GateProofs!GateInv
    <3> QED BY <3>1 DEF GateProofs!GateInv, GateProofs!LineOK
  <2>2. stage' = [stage EXCEPT ![u] = next, ![Head(waiters)] = "granted"]
    BY <1>3 DEF Gate!ReleaseSlot
  <2> QED BY <1>1, <2>1, <2>2 DEF OthersStay, Users
<1>4. ASSUME Due' \subseteq Users PROVE GateProofs!GateInv'
  <2>1. u \in GateProofs!Holders /\ GateProofs!ReleaseSlot(u, next)
    BY DEF GateProofs!Holders, Gate!ReleaseSlot, GateProofs!ReleaseSlot
  <2> QED BY <1>4, <2>1, GateIsSound, GateProofs!ReleaseKeepsGate
<1> QED BY <1>2, <1>3, <1>4

-----------------------------------------------------------------------------
(* What an outcome makes of a call *)

\* A call whose request is over, that has ended, or that is to close its row.
LEMMA Endings ==
  ASSUME NEW r \in CallType, NEW result \in {"none", "answered", "passed", "failed", "cancelled"}
  PROVE  /\ Over(r) \in CallType /\ Over(r).flight = "none"
         /\ Over(r).pc = r.pc /\ Over(r).audit = r.audit /\ Over(r).cut = r.cut
         /\ Over(r).vec = r.vec /\ Over(r).result = r.result /\ Over(r).try = r.try
         /\ Over(r).behind = r.behind
         /\ Ended(r, result) \in CallType /\ Ended(r, result).pc = "ended"
         /\ Ended(r, result).result = result /\ Ended(r, result).flight = r.flight
         /\ Ended(r, result).audit = r.audit /\ Ended(r, result).cut = r.cut
         /\ Ended(r, result).vec = r.vec /\ Ended(r, result).behind = r.behind
         /\ Ended(r, result).answered = r.answered
         /\ Closing(r, result) \in CallType /\ Closing(r, result).pc = "closing"
         /\ Closing(r, result).result = result /\ Closing(r, result).flight = r.flight
         /\ Closing(r, result).audit = r.audit /\ Closing(r, result).cut = r.cut
         /\ Closing(r, result).vec = r.vec /\ Closing(r, result).behind = r.behind
BY DEF Over, Ended, Closing, CallType, Places

\* After a time-out the call sleeps before the next attempt, or fails.
LEMMA AfterTimeOut ==
  ASSUME NEW r \in CallType
  PROVE  /\ TimedOut(r) \in CallType /\ TimedOut(r).flight = r.flight
         /\ TimedOut(r).pc \in {"sleeping", "closing"}
         /\ TimedOut(r).vec = r.vec /\ TimedOut(r).behind = r.behind
         /\ TimedOut(r).pc = "closing" => TimedOut(r).result = "failed"
         /\ TimedOut(r).pc = "sleeping" => TimedOut(r).result = r.result
<1>1. CASE kind = "llm" /\ r.try < Attempts
  <2>1. TimedOut(r) = [r EXCEPT !.pc = "sleeping", !.try = r.try + 1]
    BY <1>1 DEF TimedOut, CallType
  <2>2. r.try + 1 \in 1..Attempts
    BY <1>1, CallsAssumption DEF CallType
  <2> QED BY <2>1, <2>2 DEF CallType, Places
<1>2. CASE ~(kind = "llm" /\ r.try < Attempts)
  <2>1. TimedOut(r) = Closing(r, "failed")
    BY <1>2 DEF TimedOut
  <2> QED BY <2>1, Endings
<1> QED BY <1>1, <1>2

\* After a cancellation an open LLM request is drained; otherwise the row is closed,
\* and a reranking just ends.
LEMMA AfterStop ==
  ASSUME NEW r \in CallType, kind \in {"llm", "embedding", "rerank"}
  PROVE  /\ Stopped(r) \in CallType
         /\ Stopped(r).pc \in {"cancelDrain", "closing", "ended"}
         /\ Stopped(r).pc = "cancelDrain" => /\ Stopped(r).flight = "cancelling"
                                             /\ r.flight = "open" /\ kind = "llm"
         /\ Stopped(r).pc # "cancelDrain" => Stopped(r).flight \in {"none", r.flight}
         /\ Stopped(r).pc # "cancelDrain" => Stopped(r).flight # "open"
         /\ Stopped(r).pc = "ended" => kind = "rerank" /\ Stopped(r).result = "cancelled"
         /\ Stopped(r).behind = r.behind
<1>1. CASE kind = "llm" /\ r.flight = "open"
  <2>1. Stopped(r) = [r EXCEPT !.pc = "cancelDrain", !.flight = "cancelling"]
    BY <1>1 DEF Stopped
  <2> QED BY <1>1, <2>1 DEF CallType, Places
<1>2. CASE kind = "llm" /\ r.flight # "open"
  <2>1. Stopped(r) = Closing(r, "cancelled")
    BY <1>2 DEF Stopped
  <2> QED BY <1>2, <2>1, Endings
<1>3. CASE kind = "embedding"
  <2>1. Stopped(r) = Closing(Over(r), "cancelled")
    BY <1>3 DEF Stopped
  <2>2. Over(r) \in CallType /\ Over(r).flight = "none" /\ Over(r).behind = r.behind
    BY Endings
  <2> QED BY <2>1, <2>2, Endings
<1>4. CASE kind = "rerank"
  <2>1. Stopped(r) = Ended(Over(r), "cancelled")
    BY <1>4 DEF Stopped
  <2>2. Over(r) \in CallType /\ Over(r).flight = "none" /\ Over(r).behind = r.behind
    BY Endings
  <2> QED BY <1>4, <2>1, <2>2, Endings
<1> QED BY <1>1, <1>2, <1>3, <1>4

\* Closing the row leaves it closed, and nothing else changed.
LEMMA AfterFinish ==
  ASSUME NEW r \in CallType
  PROVE  /\ Finish(r) \in CallType /\ Finish(r).audit # "running"
         /\ Finish(r).pc = r.pc /\ Finish(r).flight = r.flight /\ Finish(r).cut = r.cut
         /\ Finish(r).vec = r.vec /\ Finish(r).result = r.result /\ Finish(r).behind = r.behind
BY DEF Finish, CallType

\* What follows when the rows are closed.
LEMMA AfterRows ==
  ASSUME NEW r \in CallType, r.flight = "none", ~r.behind, ~Unclosed(r), NEW q \in Results(r)
  PROVE  /\ q \in CallType /\ q.flight = "none" /\ q.pc \in {"row", "saving", "ended"}
         /\ ~q.behind /\ (q.pc # "row" => ~Unclosed(q))
         /\ kind # "rerank" => /\ q.audit = r.audit /\ q.cut = r.cut
                               /\ q.vec = r.vec /\ q.result = r.result
                               /\ q.pc = "saving" => r.result = "answered"
<1>1. r.result \in {"none", "answered", "passed", "failed", "cancelled"}
  BY DEF CallType
<1>2. CASE kind = "rerank" /\ r.result = "failed"
  <2>1. CASE r.try < Attempts
    <3>1. q = [NewCall EXCEPT !.pc = "row", !.try = r.try + 1, !.behind = FALSE]
      BY <1>2, <2>1 DEF Results
    <3>2. r.try + 1 \in 1..Attempts
      BY <2>1, CallsAssumption DEF CallType
    <3> QED BY <1>2, <3>1, <3>2 DEF NewCall, CallType, Places
  <2>2. CASE ~(r.try < Attempts)
    <3>1. q \in {Ended(r, "failed"), Ended(r, "passed")}
      BY <1>2, <2>2 DEF Results
    <3>2. q \in CallType /\ q.pc = "ended" /\ q.flight = "none" /\ q.behind = r.behind
          /\ q.audit = r.audit /\ q.cut = r.cut
      BY <3>1, Endings
    <3> QED BY <1>2, <3>2 DEF Unclosed
  <2> QED BY <2>1, <2>2
<1>3. CASE kind = "embedding" /\ r.result = "answered"
  <2>1. q = [r EXCEPT !.pc = "saving"]
    BY <1>3 DEF Results
  <2> QED BY <1>3, <2>1 DEF CallType, Places, Unclosed
<1>4. CASE /\ ~(kind = "rerank" /\ r.result = "failed")
           /\ ~(kind = "embedding" /\ r.result = "answered")
  <2>1. q = Ended(r, r.result)
    BY <1>4 DEF Results
  <2>2. /\ q \in CallType /\ q.pc = "ended" /\ q.flight = "none" /\ q.behind = r.behind
        /\ q.audit = r.audit /\ q.cut = r.cut /\ q.vec = r.vec /\ q.result = r.result
    BY <1>1, <2>1, Endings
  <2> QED BY <2>2 DEF Unclosed
<1> QED BY <1>2, <1>3, <1>4

-----------------------------------------------------------------------------
(* The steps of one call *)

\* What no step of a call changes, and the types of what it may.
CallsOnly ==
  /\ UNCHANGED <<kind, batch, target, stored, batches, targets, asked>>
  /\ cancelled' \subseteq cancelled /\ expired' \subseteq Callers
  /\ cache' \in [Callers -> Dims \cup {0}] /\ faults' \in 0..MaxFaults

\* A call that has begun takes a step and stands where it should: the invariant is kept.
LEMMA CallStep ==
  ASSUME CallInv, NEW c \in Callers, NEW r \in CallType,
         call' = [call EXCEPT ![c] = r], CallsOnly, GateProofs!GateInv', OthersStay(c),
         Fits(r, stage'[c]), RowOK(r), batch.pc = "group" => VecOK(r, batch.dim),
         call[c].pc # "ended", kind = "embedding" => call[c].pc # "idle"
  PROVE  CallInv'
<1>1. Typed' /\ kind' = kind /\ batch' = batch /\ stored' = stored
  BY DEF CallInv, Typed, CallsOnly
<1>2. /\ call' \in [Callers -> CallType]
      /\ \A d \in Callers : call'[d] = IF d = c THEN r ELSE call[d]
  BY DEF CallInv
<1>3. ASSUME NEW d \in Callers PROVE Fits(call[d], stage[d])' /\ RowOK(call[d])'
  <2>1. CASE d = c
    BY <1>1, <1>2, <2>1 DEF Fits, RowOK
  <2>2. CASE d # c
    <3>1. Fits(call[d], stage[d]) /\ RowOK(call[d]) /\ call'[d] = call[d]
      BY <1>2, <2>2 DEF CallInv
    <3>2. stage'[d] = stage[d] \/ (stage[d] = "waiting" /\ stage'[d] = "granted")
      BY <2>2 DEF OthersStay
    <3>3. call[d].pc \in Places
      BY DEF CallInv, CallType
    <3> QED BY <1>1, <3>1, <3>2, <3>3 DEF Fits, RowOK, Unclosed, Places
  <2> QED BY <2>1, <2>2
<1>4. BatchInv'
  <2>1. /\ batch.pc # "none" => kind = "embedding"
        /\ batch.pc \notin {"storing", "stored", "over"}
        /\ kind = "embedding" => batch.pc # "none"
        /\ batch.pc = "group" => cancelled = {} /\ \A d \in Callers : VecOK(call[d], batch.dim)
    BY DEF CallInv, BatchInv, AllEnded
  <2>2. batch.pc = "group" => cancelled' = {}
    BY <2>1 DEF CallsOnly
  <2>3. batch.pc = "group" => \A d \in Callers : VecOK(call[d], batch.dim)'
    BY <1>1, <1>2, <2>1 DEF VecOK
  <2> QED BY <1>1, <2>1, <2>2, <2>3 DEF BatchInv
<1> QED BY <1>1, <1>2, <1>3, <1>4 DEF CallInv

\* A step of a call that leaves the gate alone.
LEMMA QuietStep ==
  ASSUME CallInv, NEW c \in Callers, NEW r \in CallType, UNCHANGED gateVars,
         call' = [call EXCEPT ![c] = r], CallsOnly,
         Fits(r, stage[c]), RowOK(r), batch.pc = "group" => VecOK(r, batch.dim),
         call[c].pc # "ended", kind = "embedding" => call[c].pc # "idle"
  PROVE  CallInv'
<1>1. Due' \subseteq Users
  <2>1. cancelled' \subseteq Callers /\ expired' \subseteq Callers
    BY DEF CallsOnly, CallInv, Typed
  <2> QED BY <2>1, DueAreUsers
<1>2. UNCHANGED <<available, waiters, stage>>
  BY DEF gateVars
<1>3. GateProofs!GateInv'
  BY <1>1, <1>2, GateUntouched DEF CallInv
<1>4. OthersStay(c) /\ Fits(r, stage'[c])
  BY <1>2 DEF OthersStay
<1> QED BY <1>3, <1>4, CallStep

\* A step of a call that moves only itself in the gate.
LEMMA MovingStep ==
  ASSUME CallInv, NEW c \in Callers, NEW r \in CallType, NEW s, Gate!Step(c),
         stage' = [stage EXCEPT ![c] = s], call' = [call EXCEPT ![c] = r], CallsOnly,
         Fits(r, s), RowOK(r), batch.pc = "group" => VecOK(r, batch.dim),
         call[c].pc # "ended", kind = "embedding" => call[c].pc # "idle"
  PROVE  CallInv'
<1>1. c \in Users /\ Callers \subseteq Users
  BY DEF Users
<1>2. GateProofs!GateInv'
  BY <1>1, GateStep DEF CallInv
<1>3. stage \in [Users -> GateProofs!Stages]
  BY <1>1, GateStages DEF CallInv
<1>4. OthersStay(c) /\ stage'[c] = s
  BY <1>1, <1>3 DEF OthersStay
<1> QED BY <1>2, <1>4, CallStep

\* A call gives its slot up, to next.
LEMMA SlotStep ==
  ASSUME CallInv, NEW c \in Callers, NEW r \in CallType, NEW next \in {"idle", "gaveUp"},
         stage[c] \in {"granted", "holding"}, Gate!ReleaseSlot(c, next),
         call' = [call EXCEPT ![c] = r], CallsOnly,
         Fits(r, next), RowOK(r), batch.pc = "group" => VecOK(r, batch.dim),
         call[c].pc # "ended", kind = "embedding" => call[c].pc # "idle"
  PROVE  CallInv'
<1>1. c \in Users
  BY DEF Users
<1>2. cancelled' \subseteq Callers /\ expired' \subseteq Callers
  BY DEF CallsOnly, CallInv, Typed
<1>3. stage'[c] = next /\ OthersStay(c) /\ GateProofs!GateInv'
  BY <1>1, <1>2, SlotGoesOn, DueAreUsers DEF CallInv
<1> QED BY <1>3, CallStep

\* What the invariant says of one call; whoever can be cancelled is in no running group.
LEMMA AboutCall ==
  ASSUME CallInv, NEW c \in Callers
  PROVE  /\ call[c] \in CallType /\ Fits(call[c], stage[c]) /\ RowOK(call[c])
         /\ batch.pc = "group" => VecOK(call[c], batch.dim)
         /\ c \in cancelled => batch.pc # "group"
         /\ kind \in {"llm", "embedding", "rerank"} /\ faults \in 0..MaxFaults
         /\ cache \in [Callers -> Dims \cup {0}] /\ expired \subseteq Callers
         /\ Fault => faults' \in 0..MaxFaults
         /\ batch.pc = "group" => kind = "embedding"
<1>1. Fault => faults' \in 0..MaxFaults
  BY CallsAssumption DEF Fault, CallInv, Typed
<1> QED BY <1>1 DEF CallInv, BatchInv, Typed

\* Most steps leave all but the call, its cancellation and the queue's deadlines.
LEMMA OnlyCalls ==
  ASSUME CallInv, NEW c \in Callers, UNCHANGED <<kind, groupVars>>, faults' \in 0..MaxFaults,
         Deliver(c) \/ NotCancelled(c) \/ UNCHANGED <<cancelled, asked>>,
         expired' = expired \/ expired' = expired \ {c}
  PROVE  CallsOnly
BY DEF CallsOnly, groupVars, Deliver, NotCancelled, CallInv, Typed

\* On the way to the gate a call gets a slot, a place in the queue or a refusal.
LEMMA EnterStep ==
  ASSUME CallInv, NEW c \in Callers, NEW r \in CallType, EnterGate(c, r),
         UNCHANGED <<kind, groupVars>>, faults' \in 0..MaxFaults,
         call[c].pc \in {"row", "rate", "sleeping"}, r.flight = "none", ~r.behind,
         batch.pc = "group" => VecOK(r, batch.dim)
  PROVE  CallInv'
<1>1. CallsOnly
  BY OnlyCalls DEF EnterGate
<1>2. c \in Users
  BY DEF Users
<1>3. CASE Gate!AcquireFree(c) /\ Set(c, Send(r))
  <2>1. /\ Send(r) \in CallType /\ Send(r).pc = "sent" /\ Send(r).flight = "open"
        /\ Send(r).result = r.result /\ Send(r).behind = r.behind
    BY DEF Send, CallType, Places
  <2>2. /\ Fits(Send(r), "holding") /\ RowOK(Send(r))
        /\ batch.pc = "group" => VecOK(Send(r), batch.dim)
        /\ Send(r).vec = r.vec
    BY <2>1 DEF Fits, RowOK, VecOK, Send, CallType
  <2>3. stage' = [stage EXCEPT ![c] = "holding"] /\ Gate!Step(c)
    BY <1>2, <1>3, GateStages DEF CallInv, Gate!Step
  <2>4. call' = [call EXCEPT ![c] = Send(r)]
    BY <1>3 DEF Set
  <2> QED BY <1>1, <2>1, <2>2, <2>3, <2>4, MovingStep
<1>4. CASE Gate!JoinQueue(c) /\ Set(c, [r EXCEPT !.pc = "waiting"])
  <2> DEFINE q == [r EXCEPT !.pc = "waiting"]
  <2>1. /\ q \in CallType /\ q.pc = "waiting" /\ q.flight = "none" /\ q.result = r.result
        /\ q.vec = r.vec /\ q.behind = r.behind
    BY DEF CallType, Places
  <2>2. stage' = [stage EXCEPT ![c] = "waiting"] /\ Gate!Step(c)
    BY <1>2, <1>4, GateStages DEF CallInv, Gate!Step
  <2>3. call' = [call EXCEPT ![c] = q]
    BY <1>4 DEF Set
  <2> HIDE DEF q
  <2>4. /\ Fits(q, "waiting") /\ RowOK(q)
        /\ batch.pc = "group" => VecOK(q, batch.dim)
    BY <2>1 DEF Fits, RowOK, VecOK
  <2> QED BY <1>1, <2>1, <2>2, <2>3, <2>4, MovingStep
<1>5. CASE Gate!Refuse(c) /\ Set(c, Closing(r, "failed"))
  <2> DEFINE q == Closing(r, "failed")
  <2>1. /\ q \in CallType /\ q.pc = "closing" /\ q.flight = "none" /\ q.result = "failed"
        /\ q.behind = r.behind
    BY Endings
  <2>2. stage' = [stage EXCEPT ![c] = "refused"] /\ Gate!Step(c)
    BY <1>2, <1>5, GateStages DEF CallInv, Gate!Step
  <2>3. call' = [call EXCEPT ![c] = q]
    BY <1>5 DEF Set
  <2> HIDE DEF q
  <2>4. /\ Fits(q, "refused") /\ RowOK(q)
        /\ batch.pc = "group" => VecOK(q, batch.dim)
    BY <2>1 DEF Fits, RowOK, VecOK
  <2> QED BY <1>1, <2>1, <2>2, <2>3, <2>4, MovingStep
<1> QED BY <1>3, <1>4, <1>5 DEF EnterGate

-----------------------------------------------------------------------------
(* Every action of a call keeps the invariant *)

\* A call of the LLM client or the reranker begins.
LEMMA BeginKeeps ==
  ASSUME CallInv, NEW c \in Callers, Begin(c)
  PROVE  CallInv'
<1> DEFINE r == [call[c] EXCEPT !.pc = "row"]
<1>1. /\ kind # "embedding" /\ call[c].pc = "idle" /\ call' = [call EXCEPT ![c] = r]
      /\ UNCHANGED gateVars
  BY DEF Begin, Set
<1>2. call[c] \in CallType /\ Fits(call[c], stage[c]) /\ RowOK(call[c]) /\ batch.pc # "group"
  BY <1>1, AboutCall
<1>3. r \in CallType /\ r.pc = "row" /\ r.flight = call[c].flight /\ r.behind = call[c].behind
  BY <1>2 DEF CallType, Places
<1>4. CallsOnly
  BY DEF Begin, CallsOnly, gateVars, groupVars, CallInv, Typed
<1> HIDE DEF r
<1>5. Fits(r, stage[c]) /\ RowOK(r)
  BY <1>1, <1>2, <1>3 DEF Fits, RowOK
<1> QED BY <1>1, <1>2, <1>3, <1>4, <1>5, QuietStep

\* The audit row is written, or its insert fails and the call goes on without it.
LEMMA CreateRowKeeps ==
  ASSUME CallInv, NEW c \in Callers, CreateRow(c)
  PROVE  CallInv'
<1>1. /\ call[c].pc = "row" /\ call[c] \in CallType /\ Fits(call[c], stage[c])
      /\ call[c].flight = "none" /\ kind \in {"llm", "embedding", "rerank"}
      /\ batch.pc = "group" => VecOK(call[c], batch.dim)
      /\ batch.pc = "group" => kind = "embedding"
      /\ ~call[c].behind
  BY AboutCall DEF CreateRow, Fits, CallType, RowOK
<1>2. /\ UNCHANGED <<kind, groupVars>> /\ faults' \in 0..MaxFaults
  BY AboutCall DEF CreateRow
<1>3. PICK r \in {call[c], [call[c] EXCEPT !.audit = "running"]} : AfterRow(c, r)
  BY DEF CreateRow
<1>4. /\ r \in CallType /\ r.flight = "none" /\ r.pc = "row" /\ r.result = call[c].result
      /\ r.vec = call[c].vec /\ ~r.behind
  <2>1. CASE r = [call[c] EXCEPT !.audit = "running"]
    BY <1>1, <2>1 DEF CallType
  <2> QED BY <1>1, <1>3, <2>1
<1>5. batch.pc = "group" => VecOK(r, batch.dim)
  BY <1>1, <1>4 DEF VecOK
<1>6. CASE kind = "rerank"
  <2> DEFINE q == [r EXCEPT !.pc = "rate"]
  <2>1. /\ call' = [call EXCEPT ![c] = q] /\ UNCHANGED gateVars /\ NotCancelled(c)
    BY <1>3, <1>6 DEF AfterRow, Set
  <2>2. q \in CallType /\ q.pc = "rate" /\ q.flight = "none" /\ ~q.behind
    BY <1>4 DEF CallType, Places
  <2>3. CallsOnly
    BY <1>2, <2>1, OnlyCalls DEF gateVars
  <2> HIDE DEF q
  <2>4. Fits(q, stage[c]) /\ RowOK(q) /\ batch.pc # "group"
    BY <1>1, <1>6, <2>2 DEF Fits, RowOK
  <2> QED BY <1>1, <1>6, <2>1, <2>2, <2>3, <2>4, QuietStep
<1>7. CASE kind # "rerank"
  <2>1. EnterGate(c, r)
    BY <1>3, <1>7 DEF AfterRow
  <2> QED BY <1>1, <1>2, <1>4, <1>5, <2>1, EnterStep
<1> QED BY <1>6, <1>7

\* A cancellation, or the database, ends the call on the spot.
LEMMA CutKeeps ==
  ASSUME CallInv, NEW c \in Callers,
         CreateRowCut(c) \/ PriceCut(c) \/ CloseCut(c) \/ CacheCut(c)
  PROVE  CallInv'
<1>1. /\ Deliver(c) /\ UNCHANGED gateVars /\ UNCHANGED <<kind, groupVars, faults>>
      /\ stage[c] = "idle" /\ call[c].flight = "none" /\ call[c].pc \notin {"idle", "ended"}
      /\ call[c] \in CallType /\ RowOK(call[c]) /\ batch.pc # "group"
  BY AboutCall DEF CreateRowCut, PriceCut, CloseCut, CacheCut, Fits, CallType, Deliver
<1>2. PICK r : /\ r \in CallType /\ r.pc = "ended" /\ r.flight = "none"
               /\ r.result = "cancelled" /\ ~r.behind
               /\ r.cut \/ r.audit # "running" \/ r.answered
               /\ call' = [call EXCEPT ![c] = r]
  <2>1. CASE CreateRowCut(c)
    <3>1. PICK a \in {"none", "running"} :
             Set(c, [Ended(call[c], "cancelled") EXCEPT !.audit = a, !.cut = TRUE])
      BY <2>1 DEF CreateRowCut
    <3> DEFINE e == Ended(call[c], "cancelled")
               q == [e EXCEPT !.audit = a, !.cut = TRUE]
    <3>2. /\ e \in CallType /\ e.pc = "ended" /\ e.flight = "none"
          /\ e.result = "cancelled" /\ ~e.behind
      BY <1>1, Endings DEF RowOK
    <3> HIDE DEF e
    <3>3. /\ q \in CallType /\ q.pc = "ended" /\ q.flight = "none" /\ q.cut
          /\ q.result = "cancelled" /\ ~q.behind
      BY <3>2 DEF CallType
    <3>4. call' = [call EXCEPT ![c] = q]
      BY <3>1 DEF Set, e
    <3> QED BY <3>3, <3>4
  <2>2. CASE PriceCut(c)
    <3> DEFINE q == Ended(call[c], "cancelled")
    <3>1. /\ q \in CallType /\ q.pc = "ended" /\ q.flight = "none"
          /\ q.result = "cancelled" /\ ~q.behind /\ q.answered
      BY <1>1, <2>2, Endings DEF RowOK, PriceCut
    <3>2. call' = [call EXCEPT ![c] = q]
      BY <2>2 DEF PriceCut, Set
    <3> QED BY <3>1, <3>2
  <2>3. CASE CloseCut(c)
    <3>1. PICK b \in {call[c], Finish(call[c])} :
             Set(c, [Ended(b, "cancelled") EXCEPT !.cut = TRUE])
      BY <2>3 DEF CloseCut
    <3> DEFINE e == Ended(b, "cancelled")
               q == [e EXCEPT !.cut = TRUE]
    <3>2. b \in CallType /\ b.flight = "none" /\ ~b.behind
      BY <1>1, AfterFinish DEF RowOK
    <3>3. /\ e \in CallType /\ e.pc = "ended" /\ e.flight = "none"
          /\ e.result = "cancelled" /\ ~e.behind
      BY <3>2, Endings
    <3> HIDE DEF e
    <3>4. /\ q \in CallType /\ q.pc = "ended" /\ q.flight = "none" /\ q.cut
          /\ q.result = "cancelled" /\ ~q.behind
      BY <3>3 DEF CallType
    <3>5. call' = [call EXCEPT ![c] = q]
      BY <3>1 DEF Set, e
    <3> QED BY <3>4, <3>5
  <2>4. CASE CacheCut(c)
    <3> DEFINE q == Ended(call[c], "cancelled")
    <3>1. /\ q \in CallType /\ q.pc = "ended" /\ q.flight = "none" /\ q.audit = call[c].audit
          /\ q.cut = call[c].cut /\ q.result = "cancelled" /\ ~q.behind
      BY <1>1, Endings DEF RowOK
    <3>2. q.cut \/ q.audit # "running"
      BY <1>1, <2>4, <3>1 DEF CacheCut, RowOK, Unclosed
    <3>3. call' = [call EXCEPT ![c] = q]
      BY <2>4 DEF CacheCut, Set
    <3> QED BY <3>1, <3>2, <3>3
  <2> QED BY <2>1, <2>2, <2>3, <2>4
<1>3. CallsOnly
  BY <1>1, OnlyCalls, AboutCall DEF gateVars
<1>4. Fits(r, stage[c]) /\ RowOK(r)
  BY <1>1, <1>2 DEF Fits, RowOK, Unclosed
<1> QED BY <1>1, <1>2, <1>3, <1>4, QuietStep

\* A call goes to the gate after the provider's rate limit, or after a pause.
LEMMA ReturnKeeps ==
  ASSUME CallInv, NEW c \in Callers, RateWait(c) \/ Wake(c)
  PROVE  CallInv'
<1>1. /\ call[c].pc \in {"rate", "sleeping"} /\ EnterGate(c, call[c])
      /\ UNCHANGED <<kind, groupVars, faults>>
  BY DEF RateWait, Wake
<1>2. /\ call[c] \in CallType /\ call[c].flight = "none" /\ faults' \in 0..MaxFaults
      /\ batch.pc = "group" => VecOK(call[c], batch.dim)
      /\ ~call[c].behind
  BY <1>1, AboutCall DEF Fits, CallType, RowOK
<1> QED BY <1>1, <1>2, EnterStep

\* A cancellation finds the call before or between its requests, or at the gate.
LEMMA StopFits ==
  ASSUME CallInv, NEW c \in Callers, c \in cancelled,
         call[c].pc \notin {"idle", "ended", "draining", "cancelDrain"},
         NEW s \in {"idle", "gaveUp"}
  PROVE  /\ Stopped(call[c]) \in CallType /\ batch.pc # "group"
         /\ s = "idle" \/ call[c].flight # "open" => Fits(Stopped(call[c]), s)
         /\ RowOK(Stopped(call[c]))
<1>1. /\ call[c] \in CallType /\ call[c].flight # "cancelling"
      /\ batch.pc # "group" /\ kind \in {"llm", "embedding", "rerank"} /\ ~call[c].behind
  BY AboutCall DEF Fits, RowOK
<1>2. /\ Stopped(call[c]) \in CallType
      /\ Stopped(call[c]).pc \in {"cancelDrain", "closing", "ended"}
      /\ Stopped(call[c]).pc = "cancelDrain" => Stopped(call[c]).flight = "cancelling"
      /\ Stopped(call[c]).pc = "cancelDrain" => call[c].flight = "open" /\ kind = "llm"
      /\ Stopped(call[c]).pc # "cancelDrain" => Stopped(call[c]).flight = "none"
      /\ Stopped(call[c]).pc = "ended" => kind = "rerank" /\ Stopped(call[c]).result = "cancelled"
      /\ Stopped(call[c]).behind = call[c].behind
  <2>1. call[c].flight \in {"none", "open"}
    BY <1>1 DEF CallType
  <2> QED BY <1>1, <2>1, AfterStop
<1>3. RowOK(Stopped(call[c]))
  BY <1>1, <1>2 DEF RowOK
<1> QED BY <1>1, <1>2, <1>3 DEF Fits

\* The call waits for the provider's minute, or sleeps between two attempts.
LEMMA PauseCutKeeps ==
  ASSUME CallInv, NEW c \in Callers, RateCut(c) \/ SleepCut(c)
  PROVE  CallInv'
<1> DEFINE r == Stopped(call[c])
<1>1. /\ call[c].pc \in {"rate", "sleeping"} /\ Deliver(c) /\ UNCHANGED gateVars
      /\ UNCHANGED <<kind, groupVars, faults>> /\ call' = [call EXCEPT ![c] = r]
  BY DEF RateCut, SleepCut, Set
<1>2. c \in cancelled /\ Fits(call[c], stage[c])
  BY <1>1, AboutCall DEF Deliver
<1>3. stage[c] = "idle"
  BY <1>1, <1>2 DEF RateCut, SleepCut, Fits
<1>4. r \in CallType /\ batch.pc # "group" /\ Fits(r, stage[c]) /\ RowOK(r)
  BY <1>1, <1>2, <1>3, StopFits
<1>5. CallsOnly
  BY <1>1, OnlyCalls, AboutCall DEF gateVars
<1> HIDE DEF r
<1> QED BY <1>1, <1>4, <1>5, QuietStep

\* A call that was handed a slot sends its request.
LEMMA GrantedKeeps ==
  ASSUME CallInv, NEW c \in Callers, Granted(c)
  PROVE  CallInv'
<1> DEFINE r == Send(call[c])
<1>1. /\ Gate!Resume(c) /\ UNCHANGED <<kind, expired, cancelled, asked, groupVars, faults>>
      /\ call' = [call EXCEPT ![c] = r]
  BY DEF Granted, Set
<1>2. c \in Users
  BY DEF Users
<1>3. /\ stage[c] = "granted" /\ stage' = [stage EXCEPT ![c] = "holding"] /\ Gate!Step(c)
  BY <1>1, <1>2, GateStages DEF CallInv, Gate!Step
<1>4. /\ call[c] \in CallType /\ Fits(call[c], stage[c]) /\ ~call[c].behind
      /\ batch.pc = "group" => VecOK(call[c], batch.dim)
  BY AboutCall DEF RowOK
<1>5. call[c].pc = "waiting"
  BY <1>3, <1>4 DEF Fits, CallType, Places
<1>6. /\ r \in CallType /\ r.pc = "sent" /\ r.flight = "open" /\ r.result = call[c].result
      /\ r.vec = call[c].vec /\ ~r.behind
  BY <1>4 DEF Send, CallType, Places
<1>7. CallsOnly
  BY <1>1, OnlyCalls, AboutCall
<1> HIDE DEF r
<1>8. Fits(r, "holding") /\ RowOK(r) /\ (batch.pc = "group" => VecOK(r, batch.dim))
  BY <1>4, <1>6 DEF Fits, RowOK, VecOK
<1> QED BY <1>3, <1>5, <1>6, <1>7, <1>8, <1>1, MovingStep

\* The wait ends without the slot: it timed out, or was cancelled.
LEMMA LeaveWaitKeeps ==
  ASSUME CallInv, NEW c \in Callers, LeaveWait(c)
  PROVE  CallInv'
<1>1. /\ call[c] \in CallType /\ Fits(call[c], stage[c]) /\ stage[c] \in {"waiting", "granted"}
      /\ UNCHANGED <<kind, groupVars, faults>>
  BY AboutCall DEF LeaveWait, Gate!LeaveQueue, Gate!ReturnHandoff
<1>2. call[c].pc = "waiting" /\ call[c].flight = "none"
  BY <1>1 DEF Fits, CallType, Places
<1>3. CallsOnly
  BY OnlyCalls, AboutCall DEF LeaveWait
<1>4. PICK r \in CallType : /\ call' = [call EXCEPT ![c] = r] /\ Fits(r, "gaveUp") /\ RowOK(r)
                            /\ batch.pc = "group" => VecOK(r, batch.dim)
  <2>1. CASE Deliver(c) /\ Set(c, Stopped(call[c]))
    <3>1. /\ Stopped(call[c]) \in CallType /\ Fits(Stopped(call[c]), "gaveUp")
          /\ RowOK(Stopped(call[c])) /\ batch.pc # "group"
      BY <1>2, <2>1, StopFits DEF Deliver
    <3> QED BY <2>1, <3>1 DEF Set
  <2>2. CASE NotCancelled(c) /\ Set(c, TimedOut(call[c]))
    <3> DEFINE q == TimedOut(call[c])
    <3>1. /\ q \in CallType /\ q.flight = "none" /\ q.pc \in {"sleeping", "closing"}
          /\ q.vec = call[c].vec /\ q.behind = call[c].behind
          /\ q.pc = "closing" => q.result = "failed"
          /\ q.pc = "sleeping" => q.result = call[c].result
      BY <1>1, <1>2, AfterTimeOut
    <3>2. ~call[c].behind /\ (batch.pc = "group" => VecOK(call[c], batch.dim))
      BY AboutCall DEF RowOK
    <3>3. call' = [call EXCEPT ![c] = q]
      BY <2>2 DEF Set
    <3> HIDE DEF q
    <3>4. Fits(q, "gaveUp") /\ RowOK(q) /\ (batch.pc = "group" => VecOK(q, batch.dim))
      BY <3>1, <3>2 DEF Fits, RowOK, VecOK
    <3> QED BY <3>1, <3>3, <3>4
  <2> QED BY <2>1, <2>2 DEF LeaveWait
<1>5. CASE Gate!LeaveQueue(c)
  <2>1. c \in Users
    BY DEF Users
  <2>2. stage' = [stage EXCEPT ![c] = "gaveUp"] /\ Gate!Step(c)
    BY <1>5, <2>1, GateStages DEF CallInv, Gate!Step
  <2> QED BY <1>2, <1>3, <1>4, <2>2, MovingStep
<1>6. CASE Gate!ReturnHandoff(c)
  <2>1. stage[c] = "granted" /\ Gate!ReleaseSlot(c, "gaveUp")
    BY <1>6 DEF Gate!ReturnHandoff
  <2> QED BY <1>2, <1>3, <1>4, <2>1, SlotStep
<1> QED BY <1>5, <1>6 DEF LeaveWait

\* A request that was sent comes to its end, whatever that is.
LEMMA SentEnds ==
  ASSUME CallInv, NEW c \in Callers, NEW r \in CallType,
         call[c].pc \in {"sent", "draining"}, LeaveSlot(c), Set(c, r), CallsOnly,
         Fits(r, "idle"), RowOK(r), batch.pc = "group" => VecOK(r, batch.dim)
  PROVE  CallInv'
<1>1. stage[c] = "holding" /\ Gate!ReleaseSlot(c, "idle") /\ call' = [call EXCEPT ![c] = r]
  BY AboutCall DEF LeaveSlot, Set, Fits
<1> QED BY <1>1, SlotStep

\* A request that timed out is over: the call sleeps, or fails.
LEMMA TimeOutFits ==
  ASSUME CallInv, NEW c \in Callers, NEW r, r = TimedOut(Over(call[c]))
  PROVE  /\ r \in CallType /\ Fits(r, "idle") /\ RowOK(r)
         /\ batch.pc = "group" => VecOK(r, batch.dim)
<1> DEFINE o == Over(call[c])
<1>1. /\ call[c] \in CallType /\ (batch.pc = "group" => VecOK(call[c], batch.dim))
      /\ ~call[c].behind
  BY AboutCall DEF RowOK
<1>2. /\ o \in CallType /\ o.flight = "none" /\ o.vec = call[c].vec
      /\ o.result = call[c].result /\ r = TimedOut(o) /\ o.behind = call[c].behind
  BY <1>1, Endings
<1> HIDE DEF o
<1>3. /\ r \in CallType /\ r.flight = "none" /\ r.pc \in {"sleeping", "closing"}
      /\ r.vec = call[c].vec /\ r.behind = call[c].behind
      /\ r.pc = "closing" => r.result = "failed"
      /\ r.pc = "sleeping" => r.result = call[c].result
  BY <1>2, AfterTimeOut
<1> QED BY <1>1, <1>3 DEF Fits, RowOK, VecOK

\* The provider answers, and what it answers is used only if it fits.
LEMMA AnswerKeeps ==
  ASSUME CallInv, NEW c \in Callers, Answer(c)
  PROVE  CallInv'
<1> DEFINE o == Over(call[c])
<1>1. /\ call[c] \in CallType /\ (batch.pc = "group" => VecOK(call[c], batch.dim))
      /\ batch.pc = "group" => kind = "embedding"
      /\ ~call[c].behind
  BY AboutCall DEF RowOK
<1>2. /\ call[c].pc = "sent" /\ LeaveSlot(c) /\ NotCancelled(c)
      /\ UNCHANGED <<kind, groupVars, faults>>
  BY DEF Answer
<1>3. PICK r : /\ Set(c, r)
               /\ r \in {Closing(o, "failed"), TimedOut(o)} \cup
                  (IF kind = "embedding"
                   THEN {[o EXCEPT !.pc = "pricing", !.answered = TRUE, !.vec = d] :
                           d \in Dims \cap {batch.dim}}
                   ELSE {[o EXCEPT !.pc = "pricing", !.answered = TRUE]})
  BY DEF Answer
<1>4. /\ o \in CallType /\ o.flight = "none" /\ o.vec = call[c].vec
      /\ o.result = call[c].result /\ o.pc = "sent" /\ ~o.behind
  BY <1>1, <1>2, Endings
<1>5. CallsOnly
  BY <1>2, OnlyCalls, AboutCall DEF LeaveSlot
<1>6. CASE r = TimedOut(o)
  BY <1>2, <1>3, <1>5, <1>6, TimeOutFits, SentEnds
<1> HIDE DEF o
<1>7. CASE r = Closing(o, "failed")
  <2>1. /\ r \in CallType /\ r.pc = "closing" /\ r.flight = "none" /\ r.result = "failed"
        /\ ~r.behind
    BY <1>4, <1>7, Endings
  <2>2. Fits(r, "idle") /\ RowOK(r) /\ VecOK(r, batch.dim)
    BY <2>1 DEF Fits, RowOK, VecOK
  <2> QED BY <1>2, <1>3, <1>5, <2>1, <2>2, SentEnds
<1>8. CASE /\ kind = "embedding"
           /\ r \in {[o EXCEPT !.pc = "pricing", !.answered = TRUE, !.vec = d] :
                       d \in Dims \cap {batch.dim}}
  <2>1. /\ r \in CallType /\ r.pc = "pricing" /\ r.flight = "none" /\ r.vec = batch.dim
        /\ r.result = call[c].result /\ r.answered /\ ~r.behind
    BY <1>4, <1>8 DEF CallType, Places
  <2>2. Fits(r, "idle") /\ RowOK(r) /\ (batch.pc = "group" => VecOK(r, batch.dim))
    BY <1>1, <2>1 DEF Fits, RowOK, VecOK
  <2> QED BY <1>2, <1>3, <1>5, <2>1, <2>2, SentEnds
<1>9. CASE kind # "embedding" /\ r = [o EXCEPT !.pc = "pricing", !.answered = TRUE]
  <2>1. r \in CallType /\ r.pc = "pricing" /\ r.flight = "none" /\ r.answered /\ ~r.behind
    BY <1>4, <1>9 DEF CallType, Places
  <2>2. Fits(r, "idle") /\ RowOK(r) /\ batch.pc # "group"
    BY <1>1, <1>9, <2>1 DEF Fits, RowOK
  <2> QED BY <1>2, <1>3, <1>5, <2>1, <2>2, SentEnds
<1> QED BY <1>3, <1>6, <1>7, <1>8, <1>9

\* A deadline passes: the LLM client keeps its slot while the request is cancelled.
LEMMA DeadlineKeeps ==
  ASSUME CallInv, NEW c \in Callers, Deadline(c)
  PROVE  CallInv'
<1>1. /\ call[c].pc = "sent" /\ NotCancelled(c) /\ UNCHANGED <<kind, groupVars, faults>>
      /\ call[c] \in CallType /\ Fits(call[c], stage[c]) /\ ~call[c].behind
      /\ batch.pc = "group" => kind = "embedding"
  BY AboutCall DEF Deadline, RowOK
<1>2. CASE kind = "llm"
  <2> DEFINE r == [call[c] EXCEPT !.pc = "draining", !.flight = "cancelling"]
  <2>1. /\ r \in CallType /\ r.pc = "draining" /\ r.flight = "cancelling" /\ ~r.behind
    BY <1>1 DEF CallType, Places
  <2>2. call' = [call EXCEPT ![c] = r] /\ UNCHANGED gateVars
    BY <1>2 DEF Deadline, Set
  <2>3. CallsOnly
    BY <1>1, <2>2, OnlyCalls, AboutCall DEF gateVars
  <2> HIDE DEF r
  <2>4. Fits(r, stage[c]) /\ RowOK(r) /\ batch.pc # "group"
    BY <1>1, <1>2, <2>1 DEF Fits, RowOK
  <2> QED BY <1>1, <2>1, <2>2, <2>3, <2>4, QuietStep
<1>3. CASE kind # "llm"
  <2>1. LeaveSlot(c) /\ Set(c, TimedOut(Over(call[c])))
    BY <1>3 DEF Deadline
  <2>2. CallsOnly
    BY <1>1, <2>1, OnlyCalls, AboutCall DEF LeaveSlot
  <2> QED BY <1>1, <2>1, <2>2, TimeOutFits, SentEnds
<1> QED BY <1>2, <1>3

\* The request that was cancelled at its deadline is over.
LEMMA DrainedKeeps ==
  ASSUME CallInv, NEW c \in Callers, Drained(c)
  PROVE  CallInv'
<1>1. /\ call[c].pc = "draining" /\ LeaveSlot(c) /\ Set(c, TimedOut(Over(call[c])))
      /\ UNCHANGED <<kind, groupVars, faults, asked>> /\ cancelled' = cancelled \ {c}
  BY DEF Drained
<1>2. CallsOnly
  BY <1>1 DEF LeaveSlot, CallsOnly, groupVars, CallInv, Typed
<1> QED BY <1>1, <1>2, TimeOutFits, SentEnds

\* A cancellation finds the call with its request in flight.
LEMMA CancelSentKeeps ==
  ASSUME CallInv, NEW c \in Callers, CancelSent(c)
  PROVE  CallInv'
<1>1. /\ call[c].pc = "sent" /\ Deliver(c) /\ LeaveSlot(c) /\ Set(c, Stopped(call[c]))
      /\ UNCHANGED <<kind, groupVars, faults>>
  BY DEF CancelSent
<1>2. /\ Stopped(call[c]) \in CallType /\ batch.pc # "group"
      /\ Fits(Stopped(call[c]), "idle") /\ RowOK(Stopped(call[c]))
  BY <1>1, StopFits DEF Deliver
<1>3. CallsOnly
  BY <1>1, OnlyCalls, AboutCall DEF LeaveSlot
<1> QED BY <1>1, <1>2, <1>3, SentEnds

\* The cancelled request is over; only a cancelled call of the LLM client drains.
LEMMA CancelDrainedKeeps ==
  ASSUME CallInv, NEW c \in Callers, CancelDrained(c)
  PROVE  CallInv'
<1> DEFINE o == Over(call[c])
           r == Closing(o, "cancelled")
<1>1. /\ call[c].pc = "cancelDrain" /\ call' = [call EXCEPT ![c] = r] /\ UNCHANGED gateVars
      /\ UNCHANGED <<kind, groupVars, faults, asked>> /\ cancelled' = cancelled \ {c}
  BY DEF CancelDrained, Set
<1>2. /\ call[c] \in CallType /\ Fits(call[c], stage[c]) /\ ~call[c].behind
      /\ batch.pc = "group" => kind = "embedding"
  BY AboutCall DEF RowOK
<1>3. o \in CallType /\ o.flight = "none" /\ ~o.behind
  BY <1>2, Endings
<1>4. r \in CallType /\ r.pc = "closing" /\ r.flight = "none" /\ ~r.behind
  BY <1>3, Endings
<1>5. CallsOnly
  BY <1>1 DEF CallsOnly, gateVars, groupVars, CallInv, Typed
<1> HIDE DEF r
<1>6. Fits(r, stage[c]) /\ RowOK(r)
  BY <1>1, <1>2, <1>4 DEF Fits, RowOK
<1>7. batch.pc # "group"
  BY <1>1, <1>2 DEF Fits
<1> QED BY <1>1, <1>4, <1>5, <1>6, <1>7, QuietStep

\* The price of an answer is known, or the reranker fails for lack of it.
LEMMA PriceKeeps ==
  ASSUME CallInv, NEW c \in Callers, Price(c)
  PROVE  CallInv'
<1>1. /\ call[c].pc = "pricing" /\ NotCancelled(c) /\ UNCHANGED gateVars
      /\ UNCHANGED <<kind, groupVars>> /\ faults' \in 0..MaxFaults
  BY AboutCall DEF Price
<1>2. /\ call[c] \in CallType /\ Fits(call[c], stage[c]) /\ ~call[c].behind
      /\ batch.pc = "group" => VecOK(call[c], batch.dim)
      /\ batch.pc = "group" => kind = "embedding"
  BY AboutCall DEF RowOK
<1>3. PICK result \in {"answered", "failed"} :
         Set(c, Closing(call[c], result)) /\ (result = "failed" => kind = "rerank")
  BY DEF Price
<1> DEFINE r == Closing(call[c], result)
<1>4. /\ r \in CallType /\ r.pc = "closing" /\ r.flight = call[c].flight
      /\ r.result = result /\ r.vec = call[c].vec /\ ~r.behind
  BY <1>2, Endings
<1>5. CallsOnly
  BY <1>1, OnlyCalls DEF gateVars
<1>6. call' = [call EXCEPT ![c] = r]
  BY <1>3 DEF Set
<1> HIDE DEF r
<1>7. Fits(r, stage[c]) /\ RowOK(r) /\ (batch.pc = "group" => VecOK(r, batch.dim))
  BY <1>1, <1>2, <1>3, <1>4 DEF Fits, RowOK, VecOK
<1> QED BY <1>1, <1>4, <1>5, <1>6, <1>7, QuietStep

\* The row is closed, or its write failed: what follows the rows.
LEMMA RowsKeep ==
  ASSUME CallInv, NEW c \in Callers, NEW r \in CallType, NEW q \in Results(r),
         call[c].pc = "closing", stage[c] = "idle", UNCHANGED gateVars, CallsOnly,
         Set(c, q), r.flight = "none", r.vec = call[c].vec,
         kind # "rerank" => r.result = call[c].result,
         ~r.behind, ~Unclosed(r)
  PROVE  CallInv'
<1>1. /\ batch.pc = "group" => VecOK(call[c], batch.dim)
      /\ batch.pc = "group" => kind = "embedding"
  BY AboutCall
<1>2. /\ q \in CallType /\ q.flight = "none" /\ q.pc \in {"row", "saving", "ended"}
      /\ kind # "rerank" => /\ q.audit = r.audit /\ q.cut = r.cut
                            /\ q.vec = r.vec /\ q.result = r.result
                            /\ q.pc = "saving" => r.result = "answered"
      /\ ~q.behind /\ (q.pc # "row" => ~Unclosed(q))
  BY AfterRows
<1>3. RowOK(q) /\ Fits(q, stage[c])
  BY <1>2 DEF RowOK, Fits
<1>4. batch.pc = "group" => VecOK(q, batch.dim)
  BY <1>1, <1>2 DEF VecOK
<1>5. call' = [call EXCEPT ![c] = q]
  BY DEF Set
<1> QED BY <1>2, <1>3, <1>4, <1>5, QuietStep

\* The audit row is closed.
LEMMA CloseKeeps ==
  ASSUME CallInv, NEW c \in Callers, Close(c)
  PROVE  CallInv'
<1> DEFINE f == Finish(call[c])
<1>1. /\ call[c].pc = "closing" /\ stage[c] = "idle" /\ NotCancelled(c) /\ UNCHANGED gateVars
      /\ UNCHANGED <<kind, groupVars, faults>>
  BY DEF Close
<1>2. call[c] \in CallType /\ call[c].flight = "none" /\ ~call[c].behind
  BY <1>1, AboutCall DEF Fits, CallType, RowOK
<1>3. /\ f \in CallType /\ f.flight = "none" /\ ~Unclosed(f) /\ f.audit # "running"
      /\ f.vec = call[c].vec /\ f.result = call[c].result /\ ~f.behind
  BY <1>2, AfterFinish DEF Unclosed
<1>4. CallsOnly
  BY <1>1, OnlyCalls, AboutCall DEF gateVars
<1>5. PICK q : /\ Set(c, q)
               /\ \/ q \in Results(f)
                  \/ kind = "rerank" /\ q \in Results([f EXCEPT !.result = "failed"])
  BY DEF Close
<1> HIDE DEF f
<1>6. CASE q \in Results(f)
  BY <1>1, <1>3, <1>4, <1>5, <1>6, RowsKeep
<1>7. CASE kind = "rerank" /\ q \in Results([f EXCEPT !.result = "failed"])
  <2> DEFINE g == [f EXCEPT !.result = "failed"]
  <2>1. g \in CallType /\ g.flight = "none" /\ ~Unclosed(g) /\ g.vec = call[c].vec /\ ~g.behind
    BY <1>3 DEF CallType, Unclosed
  <2>2. q \in Results(g) /\ kind = "rerank"
    BY <1>7
  <2> HIDE DEF g
  <2> QED BY <1>1, <1>4, <1>5, <2>1, <2>2, RowsKeep
<1> QED BY <1>5, <1>6, <1>7

\* The write that closes the row fails.
LEMMA CloseFailsKeeps ==
  ASSUME CallInv, NEW c \in Callers, CloseFails(c)
  PROVE  CallInv'
<1> DEFINE r == [call[c] EXCEPT !.cut = TRUE]
<1>1. /\ call[c].pc = "closing" /\ stage[c] = "idle" /\ NotCancelled(c) /\ UNCHANGED gateVars
      /\ UNCHANGED <<kind, groupVars>> /\ faults' \in 0..MaxFaults
  BY AboutCall DEF CloseFails
<1>2. /\ call[c] \in CallType /\ call[c].flight = "none" /\ ~call[c].behind
      /\ batch.pc = "group" => kind = "embedding"
  BY <1>1, AboutCall DEF Fits, CallType, RowOK
<1>3. /\ r \in CallType /\ r.flight = "none" /\ ~Unclosed(r) /\ r.vec = call[c].vec
      /\ r.result = call[c].result /\ ~r.behind
  BY <1>2 DEF CallType, Unclosed
<1>4. CallsOnly
  BY <1>1, OnlyCalls DEF gateVars
<1>5. \/ kind = "rerank" /\ Set(c, Closing(r, "failed"))
      \/ \E q \in Results(r) : Set(c, q)
  BY DEF CloseFails
<1> HIDE DEF r
<1>6. CASE \E q \in Results(r) : Set(c, q)
  BY <1>1, <1>3, <1>4, <1>6, RowsKeep
<1>7. CASE kind = "rerank" /\ Set(c, Closing(r, "failed"))
  <2> DEFINE q == Closing(r, "failed")
  <2>1. q \in CallType /\ q.pc = "closing" /\ q.flight = "none" /\ ~q.behind
    BY <1>3, Endings
  <2>2. call' = [call EXCEPT ![c] = q] /\ kind = "rerank"
    BY <1>7 DEF Set
  <2> HIDE DEF q
  <2>3. Fits(q, stage[c]) /\ RowOK(q) /\ batch.pc # "group"
    BY <1>1, <1>2, <2>1, <2>2 DEF Fits, RowOK
  <2> QED BY <1>1, <1>4, <2>1, <2>2, <2>3, QuietStep
<1> QED BY <1>5, <1>6, <1>7

\* The cache is asked before the provider; what it holds in another dimension is not used.
LEMMA LookUpKeeps ==
  ASSUME CallInv, NEW c \in Callers, LookUp(c)
  PROVE  CallInv'
<1>1. /\ call[c].pc = "cached" /\ NotCancelled(c) /\ UNCHANGED gateVars
      /\ UNCHANGED <<kind, groupVars, faults>>
  BY DEF LookUp
<1>2. /\ call[c] \in CallType /\ Fits(call[c], stage[c]) /\ RowOK(call[c])
      /\ batch.pc = "group" => VecOK(call[c], batch.dim)
      /\ cache \in [Callers -> Dims \cup {0}]
  BY AboutCall
<1>3. CallsOnly
  BY <1>1, OnlyCalls, AboutCall DEF gateVars
<1>4. CASE cache[c] = batch.dim
  <2> DEFINE e == Ended(call[c], "answered")
             r == [e EXCEPT !.vec = cache[c]]
  <2>1. /\ e \in CallType /\ e.pc = "ended" /\ e.result = "answered"
        /\ e.flight = call[c].flight /\ e.audit = call[c].audit /\ e.behind = call[c].behind
    BY <1>2, Endings
  <2>2. call' = [call EXCEPT ![c] = r]
    BY <1>4 DEF LookUp, Set
  <2> HIDE DEF e
  <2>3. /\ r \in CallType /\ r.pc = "ended" /\ r.result = "answered" /\ r.vec = batch.dim
        /\ r.flight = call[c].flight /\ r.audit = call[c].audit /\ r.behind = call[c].behind
    BY <1>2, <1>4, <2>1 DEF CallType
  <2> HIDE DEF r
  <2>4. Fits(r, stage[c]) /\ RowOK(r) /\ VecOK(r, batch.dim)
    BY <1>1, <1>2, <2>3 DEF Fits, RowOK, VecOK, Unclosed
  <2> QED BY <1>1, <1>3, <2>2, <2>3, <2>4, QuietStep
<1>5. CASE cache[c] # batch.dim
  <2> DEFINE r == [call[c] EXCEPT !.pc = "row"]
  <2>1. /\ r \in CallType /\ r.pc = "row" /\ r.flight = call[c].flight
        /\ r.result = call[c].result /\ r.vec = call[c].vec /\ r.behind = call[c].behind
    BY <1>2 DEF CallType, Places
  <2>2. call' = [call EXCEPT ![c] = r]
    BY <1>5 DEF LookUp, Set
  <2> HIDE DEF r
  <2>3. Fits(r, stage[c]) /\ RowOK(r) /\ (batch.pc = "group" => VecOK(r, batch.dim))
    BY <1>1, <1>2, <2>1 DEF Fits, RowOK, VecOK
  <2> QED BY <1>1, <1>3, <2>1, <2>2, <2>3, QuietStep
<1> QED BY <1>4, <1>5

\* The vector goes to the cache, if the cache takes it.
LEMMA SaveVectorKeeps ==
  ASSUME CallInv, NEW c \in Callers, SaveVector(c)
  PROVE  CallInv'
<1> DEFINE r == Ended(call[c], "answered")
<1>1. /\ call[c].pc = "saving" /\ NotCancelled(c) /\ UNCHANGED gateVars
      /\ UNCHANGED <<kind, batch, target, stored, batches, targets, faults>>
      /\ call' = [call EXCEPT ![c] = r]
  BY DEF SaveVector, Set
<1>2. /\ call[c] \in CallType /\ Fits(call[c], stage[c]) /\ RowOK(call[c])
      /\ batch.pc = "group" => VecOK(call[c], batch.dim)
      /\ cache \in [Callers -> Dims \cup {0}]
  BY AboutCall
<1>3. PICK d \in {cache[c], call[c].vec} : cache' = [cache EXCEPT ![c] = d]
  BY DEF SaveVector
<1>4. cache' \in [Callers -> Dims \cup {0}]
  <2>1. d \in Dims \cup {0}
    BY <1>2, <1>3 DEF CallType
  <2> QED BY <1>2, <1>3, <2>1
<1>5. CallsOnly
  BY <1>1, <1>4 DEF CallsOnly, NotCancelled, gateVars, CallInv, Typed
<1>6. /\ r \in CallType /\ r.pc = "ended" /\ r.result = "answered" /\ r.cut = call[c].cut
      /\ r.flight = call[c].flight /\ r.audit = call[c].audit /\ r.vec = call[c].vec
      /\ r.behind = call[c].behind
  BY <1>2, Endings
<1> HIDE DEF r
<1>7. Fits(r, stage[c]) /\ RowOK(r) /\ (batch.pc = "group" => VecOK(r, batch.dim))
  BY <1>1, <1>2, <1>6 DEF Fits, RowOK, VecOK, Unclosed
<1> QED BY <1>1, <1>5, <1>6, <1>7, QuietStep

\* An earlier attempt's refusal or time-out is dealt with.
LEMMA ForgetKeeps ==
  ASSUME CallInv, NEW c \in Callers, Forget(c)
  PROVE  CallInv'
<1>1. /\ call[c].pc \in {"row", "sleeping", "closing"} /\ call' = call /\ Gate!Forget(c)
      /\ UNCHANGED <<kind, expired, cancelled, asked, groupVars, faults>>
  BY DEF Forget
<1>2. c \in Users
  BY DEF Users
<1>3. stage' = [stage EXCEPT ![c] = "idle"] /\ Gate!Step(c)
  BY <1>1, <1>2, GateStages DEF CallInv, Gate!Step
<1>4. /\ call[c] \in CallType /\ Fits(call[c], stage[c]) /\ RowOK(call[c])
      /\ batch.pc = "group" => VecOK(call[c], batch.dim)
  BY AboutCall
<1>5. call' = [call EXCEPT ![c] = call[c]]
  BY <1>1 DEF CallInv
<1>6. CallsOnly
  BY <1>1, OnlyCalls, AboutCall
<1>7. Fits(call[c], "idle")
  BY <1>1, <1>4 DEF Fits
<1> QED BY <1>1, <1>3, <1>4, <1>5, <1>6, <1>7, MovingStep

\* A wait in the queue runs out: only a call that waits there has a deadline.
LEMMA QueueDeadlineKeeps ==
  ASSUME CallInv, NEW c \in Callers, QueueDeadline(c)
  PROVE  CallInv'
<1>1. /\ expired' = expired \cup {c} /\ call' = call /\ stage[c] \in {"waiting", "granted"}
      /\ UNCHANGED <<kind, available, waiters, stage, cancelled, asked, groupVars, faults>>
  BY DEF QueueDeadline
<1>2. cancelled' \subseteq Callers /\ expired' \subseteq Callers
  BY <1>1 DEF CallInv, Typed
<1>3. GateProofs!GateInv'
  BY <1>1, <1>2, DueAreUsers, GateUntouched DEF CallInv
<1>4. Typed' /\ BatchInv' /\ call' \in [Callers -> CallType]
  BY <1>1, <1>2 DEF CallInv, Typed, BatchInv, AllEnded, groupVars, VecOK
<1>5. \A d \in Callers : (Fits(call[d], stage[d]) /\ RowOK(call[d]))'
  BY <1>1 DEF CallInv, Fits, RowOK
<1> QED BY <1>3, <1>4, <1>5 DEF CallInv

\* The gate's other users may be handed a slot by a call, and hand theirs to one.
LEMMA OthersKeep ==
  ASSUME CallInv, NEW o \in Others, OtherComes(o) \/ OtherGoes(o)
  PROVE  CallInv'
<1>1. /\ UNCHANGED <<kind, expired, call, cancelled, asked, groupVars, faults>>
      /\ Gate!AcquireFree(o) \/ Gate!JoinQueue(o) \/ Gate!Resume(o) \/ Gate!Release(o)
  BY DEF OtherComes, OtherGoes
<1>2. o \in Users /\ o \notin Callers /\ Callers \subseteq Users
  BY CallsAssumption DEF Users
<1>3. GateProofs!GateInv'
  BY <1>1, <1>2, GateStep DEF CallInv, Gate!Step
<1>4. OthersStay(o)
  <2>1. CASE Gate!Release(o)
    BY <1>2, <2>1, SlotGoesOn DEF CallInv, Gate!Release
  <2>2. CASE Gate!AcquireFree(o) \/ Gate!JoinQueue(o) \/ Gate!Resume(o)
    <3>1. /\ stage \in [Users -> GateProofs!Stages]
          /\ \E s \in {"holding", "waiting"} : stage' = [stage EXCEPT ![o] = s]
      BY <1>2, <2>2, GateStages DEF CallInv
    <3> QED BY <1>2, <3>1 DEF OthersStay
  <2> QED BY <1>1, <2>1, <2>2
<1>5. ASSUME NEW d \in Callers PROVE (Fits(call[d], stage[d]) /\ RowOK(call[d]))'
  <2>1. /\ Fits(call[d], stage[d]) /\ RowOK(call[d]) /\ call'[d] = call[d] /\ kind' = kind
        /\ call[d].pc \in Places
        /\ stage'[d] = stage[d] \/ (stage[d] = "waiting" /\ stage'[d] = "granted")
    BY <1>1, <1>2, <1>4 DEF CallInv, OthersStay, CallType
  <2> QED BY <2>1 DEF Fits, RowOK, Unclosed, Places
<1>6. Typed' /\ BatchInv' /\ call' \in [Callers -> CallType]
  BY <1>1 DEF CallInv, Typed, BatchInv, AllEnded, groupVars, VecOK
<1> QED BY <1>3, <1>5, <1>6 DEF CallInv

-----------------------------------------------------------------------------
(* Cancellations, batches and the configuration *)

\* A step that leaves the calls and their gate alone.
LEMMA BesideTheCalls ==
  ASSUME CallInv, UNCHANGED <<kind, available, waiters, stage, call>>, Typed', BatchInv'
  PROVE  CallInv'
<1>1. cancelled' \subseteq Callers /\ expired' \subseteq Callers
  BY DEF Typed
<1>2. GateProofs!GateInv'
  BY <1>1, DueAreUsers, GateUntouched DEF CallInv
<1>3. \A c \in Callers : (Fits(call[c], stage[c]) /\ RowOK(call[c]))'
  BY DEF CallInv, Fits, RowOK
<1>4. call' \in [Callers -> CallType]
  BY DEF CallInv
<1> QED BY <1>2, <1>3, <1>4 DEF CallInv

\* Somebody asks a call to stop; it is delivered later.
LEMMA CancelKeeps ==
  ASSUME CallInv, NEW c \in Callers, Cancel(c)
  PROVE  CallInv'
<1>1. /\ kind # "embedding" /\ UNCHANGED <<kind, available, waiters, stage, call>>
      /\ UNCHANGED <<expired, batch, target, cache, stored, batches, targets, faults>>
      /\ cancelled' = cancelled \cup {c} /\ asked' = asked \cup {c}
  BY DEF Cancel, gateVars, groupVars
<1>2. Typed'
  BY <1>1 DEF CallInv, Typed
<1>3. BatchInv'
  BY <1>1 DEF CallInv, BatchInv
<1> QED BY <1>1, <1>2, <1>3, BesideTheCalls

\* A batch starts when no paper of an earlier one is on its way.
LEMMA StartBatchKeeps ==
  ASSUME CallInv, StartBatch
  PROVE  CallInv'
<1> DEFINE fresh == [NewCall EXCEPT !.pc = "cached"]
           there == [Ended(NewCall, "answered") EXCEPT !.vec = target]
<1>1. /\ kind = "embedding" /\ batch.pc \in {"none", "stored", "over"}
      /\ batch' = [pc |-> "group", dim |-> target]
      /\ call' = [c \in Callers |-> IF c \in Missing THEN fresh ELSE there]
      /\ asked' = {} /\ cancelled' = {} /\ batches' \in 0..MaxBatches
      /\ UNCHANGED <<kind, expired, available, waiters, stage>>
      /\ UNCHANGED <<target, cache, stored, targets, faults>>
  <2>1. batches' \in 0..MaxBatches
    BY CallsAssumption DEF StartBatch, CallInv, Typed
  <2> QED BY <2>1 DEF StartBatch, gateVars
<1>2. Typed'
  BY <1>1 DEF CallInv, Typed
<1>3. NewCall \in CallType
  BY CallsAssumption DEF NewCall, CallType, Places
<1>4. /\ fresh \in CallType /\ fresh.pc = "cached" /\ fresh.flight = "none"
      /\ fresh.audit = "none" /\ fresh.result = "none" /\ ~fresh.behind
  BY <1>3 DEF NewCall, CallType, Places
<1>5. /\ there \in CallType /\ there.pc = "ended" /\ there.flight = "none"
      /\ there.audit = "none" /\ there.result = "answered" /\ there.vec = target
      /\ ~there.behind
  <2> DEFINE e == Ended(NewCall, "answered")
  <2>1. /\ e \in CallType /\ e.pc = "ended" /\ e.flight = "none" /\ e.audit = "none"
        /\ e.result = "answered" /\ ~e.behind
    BY <1>3, Endings DEF NewCall
  <2>2. target \in Dims \cup {0}
    BY DEF CallInv, Typed
  <2> HIDE DEF e
  <2>3. there = [e EXCEPT !.vec = target]
    BY DEF e
  <2> HIDE DEF there
  <2> QED BY <2>1, <2>2, <2>3 DEF CallType
<1> HIDE DEF fresh, there
<1>6. \A c \in Callers : call'[c] \in {fresh, there} /\ stage'[c] = "idle" /\ stage[c] = "idle"
  <2>1. \A c \in Callers : call[c].pc \in {"idle", "ended"} /\ Fits(call[c], stage[c])
    BY <1>1 DEF CallInv, BatchInv, AllEnded
  <2> QED BY <1>1, <2>1 DEF Fits
<1>7. call' \in [Callers -> CallType]
  BY <1>1, <1>4, <1>5
<1>8. \A c \in Callers : (Fits(call[c], stage[c]) /\ RowOK(call[c]))'
  BY <1>4, <1>5, <1>6 DEF Fits, RowOK, Unclosed
<1>9. BatchInv'
  <2>1. \A c \in Callers : VecOK(call'[c], target)
    BY <1>4, <1>5, <1>6 DEF VecOK
  <2>2. \A c \in Callers : VecOK(call[c], batch.dim)'
    BY <1>1, <2>1 DEF VecOK
  <2> QED BY <1>1, <2>2 DEF BatchInv
<1>10. GateProofs!GateInv'
  <2>1. cancelled' \subseteq Callers /\ expired' \subseteq Callers
    BY <1>2 DEF Typed
  <2> QED BY <1>1, <2>1, DueAreUsers, GateUntouched DEF CallInv
<1> QED BY <1>2, <1>7, <1>8, <1>9, <1>10 DEF CallInv

\* The group is told to stop.
LEMMA AbortKeeps ==
  ASSUME CallInv, AbortGroup
  PROVE  CallInv'
<1>1. PICK rest \in SUBSET Callers : cancelled' = cancelled \cup rest /\ asked' = asked \cup rest
  BY DEF AbortGroup
<1>2. /\ batch.pc = "group" /\ batch' = [batch EXCEPT !.pc = "aborting"]
      /\ UNCHANGED <<kind, available, waiters, stage, call>>
      /\ UNCHANGED <<expired, target, cache, stored, batches, targets, faults>>
  BY DEF AbortGroup, gateVars
<1>3. Typed' /\ batch'.pc = "aborting"
  BY <1>1, <1>2 DEF CallInv, Typed
<1>4. BatchInv'
  BY <1>2, <1>3 DEF CallInv, BatchInv
<1> QED BY <1>2, <1>3, <1>4, BesideTheCalls

\* A group that nobody aborted and in which no paper failed has every vector.
LEMMA GroupEndsKeeps ==
  ASSUME CallInv, GroupEnds
  PROVE  CallInv'
<1>1. PICK next \in {"storing", "over"} :
         /\ batch' = [batch EXCEPT !.pc = next]
         /\ next = "storing" => batch.pc = "group" /\ ~PaperFailed
         /\ next = "over" => batch.pc = "aborting"
  BY DEF GroupEnds
<1>2. /\ AllEnded /\ UNCHANGED <<kind, available, waiters, stage, call>>
      /\ UNCHANGED <<expired, cancelled, asked, target, cache, stored, batches, targets, faults>>
  BY DEF GroupEnds, gateVars
<1>3. Typed' /\ batch'.pc = next /\ batch'.dim = batch.dim
  BY <1>1, <1>2 DEF CallInv, Typed
<1>4. next = "storing" => \A c \in Callers : call[c].vec = batch.dim
  BY <1>1, <1>2 DEF CallInv, BatchInv, VecOK, AllEnded, PaperFailed
<1>5. BatchInv'
  BY <1>1, <1>2, <1>3, <1>4 DEF CallInv, BatchInv, AllEnded
<1> QED BY <1>2, <1>3, <1>5, BesideTheCalls

\* The vectors are stored together, or the transaction fails.
LEMMA StoreKeeps ==
  ASSUME CallInv, Store
  PROVE  CallInv'
<1>1. /\ batch.pc = "storing" /\ UNCHANGED <<kind, available, waiters, stage, call>>
      /\ UNCHANGED <<expired, cancelled, asked, target, cache, batches, targets, faults>>
  BY DEF Store, gateVars
<1>2. AllEnded /\ kind = "embedding" /\ \A c \in Callers : call[c].vec = batch.dim
  BY <1>1 DEF CallInv, BatchInv
<1>3. CASE /\ stored' = [c \in Callers |-> call[c].vec]
           /\ batch' = [batch EXCEPT !.pc = "stored"]
  <2>1. Typed' /\ batch'.pc = "stored" /\ batch'.dim = batch.dim
    BY <1>1, <1>3 DEF CallInv, Typed, CallType
  <2>2. BatchInv'
    BY <1>1, <1>2, <1>3, <2>1 DEF BatchInv, AllEnded
  <2> QED BY <1>1, <2>1, <2>2, BesideTheCalls
<1>4. CASE batch' = [batch EXCEPT !.pc = "over"] /\ UNCHANGED stored
  <2>1. Typed' /\ batch'.pc = "over"
    BY <1>1, <1>4 DEF CallInv, Typed
  <2>2. BatchInv'
    BY <1>1, <1>2, <2>1 DEF BatchInv, AllEnded
  <2> QED BY <1>1, <2>1, <2>2, BesideTheCalls
<1> QED BY <1>3, <1>4 DEF Store

\* A new dimension changes nothing about the batch that runs.
LEMMA ChangeTargetKeeps ==
  ASSUME CallInv, ChangeTarget
  PROVE  CallInv'
<1>1. /\ UNCHANGED <<kind, available, waiters, stage, call>>
      /\ UNCHANGED <<expired, cancelled, asked, batch, cache, stored, batches, faults>>
      /\ target' \in Dims /\ targets < MaxTargets /\ targets' = targets + 1
  BY DEF ChangeTarget, gateVars
<1>2. targets' \in 0..MaxTargets
  BY <1>1, CallsAssumption DEF CallInv, Typed
<1>3. Typed'
  BY <1>1, <1>2 DEF CallInv, Typed
<1>4. BatchInv'
  BY <1>1 DEF CallInv, BatchInv, AllEnded, VecOK
<1> QED BY <1>1, <1>3, <1>4, BesideTheCalls

-----------------------------------------------------------------------------
(* The invariant *)

\* Nobody has called anything yet.
LEMMA InitCallInv == Init => CallInv
<1> SUFFICES ASSUME Init PROVE CallInv
  OBVIOUS
<1>1. GateProofs!GateInv
  <2>1. Due = {} /\ Gate!Init
    BY DEF Init, Due
  <2>2. GateProofs!Init
    BY <2>1 DEF Gate!Init, GateProofs!Init, Users
  <2> QED BY <2>2, GateIsSound, GateProofs!InitGateInv
<1>2. target \in Dims
  BY CallsAssumption DEF Init
<1>3. Typed
  BY <1>2, CallsAssumption DEF Init, Typed
<1>4. /\ NewCall \in CallType /\ NewCall.pc = "idle" /\ NewCall.flight = "none"
      /\ NewCall.audit = "none" /\ ~NewCall.behind
  BY CallsAssumption DEF NewCall, CallType, Places
<1>5. call = [c \in Callers |-> NewCall] /\ batch.pc = "none"
  BY DEF Init
<1>6. \A c \in Callers : stage[c] = "idle"
  BY DEF Init, Gate!Init
<1>7. \A c \in Callers : Fits(call[c], stage[c]) /\ RowOK(call[c])
  BY <1>4, <1>5, <1>6 DEF Fits, RowOK, Unclosed
<1>8. BatchInv
  BY <1>4, <1>5 DEF BatchInv
<1> QED BY <1>1, <1>3, <1>4, <1>5, <1>7, <1>8 DEF CallInv

\* Every step keeps the invariant.
LEMMA NextCallInv == CallInv /\ [Next]_vars => CallInv'
<1> SUFFICES ASSUME CallInv, [Next]_vars PROVE CallInv'
  OBVIOUS
<1>1. ASSUME NEW c \in Callers, Step(c) PROVE CallInv'
  BY <1>1, CreateRowKeeps, CutKeeps, ReturnKeeps, PauseCutKeeps, ForgetKeeps, GrantedKeeps,
     LeaveWaitKeeps, AnswerKeeps, DrainedKeeps, CancelSentKeeps, CancelDrainedKeeps, PriceKeeps,
     CloseKeeps, LookUpKeeps, SaveVectorKeeps DEF Step
<1>2. ASSUME NEW c \in Callers,
             Begin(c) \/ QueueDeadline(c) \/ Deadline(c) \/ CloseFails(c) \/ Cancel(c)
      PROVE  CallInv'
  BY <1>2, BeginKeeps, QueueDeadlineKeeps, DeadlineKeeps, CloseFailsKeeps, CancelKeeps
<1>3. ASSUME NEW o \in Others, OtherComes(o) \/ OtherGoes(o) PROVE CallInv'
  BY <1>3, OthersKeep
<1>4. CASE StartBatch \/ GroupFails \/ PhaseCancelled \/ GroupEnds \/ Store \/ ChangeTarget
  BY <1>4, StartBatchKeeps, AbortKeeps, GroupEndsKeeps, StoreKeeps, ChangeTargetKeeps
     DEF GroupFails, PhaseCancelled
<1>5. CASE UNCHANGED vars
  <2>1. /\ UNCHANGED <<kind, available, waiters, stage, call>>
        /\ UNCHANGED <<expired, cancelled, asked, batch, target, cache, stored>>
        /\ UNCHANGED <<batches, targets, faults>>
    BY <1>5 DEF vars, gateVars, groupVars
  <2>2. Typed' /\ BatchInv'
    BY <2>1 DEF CallInv, Typed, BatchInv, AllEnded, VecOK
  <2> QED BY <2>1, <2>2, BesideTheCalls
<1> QED BY <1>1, <1>2, <1>3, <1>4, <1>5 DEF Next

\* Every call is where its place in the gate and its request say, and a batch that runs
\* undisturbed has no cancelled paper.
THEOREM CallInvariant == Spec => []CallInv
BY InitCallInv, NextCallInv, PTL DEF Spec

\* A call that has ended has no request and no place in the gate, and has closed the audit
\* rows of all its attempts, whatever path of llm_client, embedding_service or rerank_service
\* it took, except where EndedIsClosed says: a row whose write went wrong, and the last row
\* of a call that was cancelled after its answer or while it reranked.
THEOREM EndedCallsAreClosed == Spec => []EndedIsClosed
<1>1. CallInv => EndedIsClosed
  BY DEF CallInv, CallType, Fits, RowOK, EndedIsClosed
<1> QED BY <1>1, CallInvariant, PTL

\* The requests that are open, or cancelled at their deadline and not over, are of callers
\* that hold a slot of the gate: there are never more than it has slots.
THEOREM RequestsWithinCapacity == Spec => []OpenWithinCapacity
<1>1. ASSUME CallInv PROVE OpenWithinCapacity
  <2> DEFINE open == {c \in Callers : call[c].flight = "open"}
                     \cup {c \in Callers : call[c].pc = "draining"}
  <2>1. /\ IsFiniteSet(GateProofs!Holders) /\ available \in 0..Capacity
        /\ available + Cardinality(GateProofs!Holders) = Capacity
    <3>1. GateProofs!CountOK /\ available \in 0..Capacity
      BY <1>1 DEF CallInv, GateProofs!GateInv, GateProofs!TypeOK
    <3>2. IsFiniteSet(GateProofs!Holders)
      BY <3>1 DEF GateProofs!CountOK, GateProofs!IsFiniteSet, IsFiniteSet
    <3>3. available + Cardinality(GateProofs!Holders) = Capacity
      BY <3>1 DEF GateProofs!CountOK, GateProofs!Cardinality, Cardinality
    <3> QED BY <3>1, <3>2, <3>3
  <2>2. open \subseteq GateProofs!Holders
    BY <1>1 DEF CallInv, CallType, Fits, GateProofs!Holders, Users
  <2>3. /\ Cardinality(open) \in Nat /\ Cardinality(GateProofs!Holders) \in Nat
        /\ Cardinality(open) <= Cardinality(GateProofs!Holders)
    BY <2>1, <2>2, FS_Subset, FS_CardinalityType
  <2>4. Cardinality(open) <= Capacity
    BY <2>1, <2>3, CallsAssumption
  <2>5. Gate!TypeOK
    BY <1>1 DEF CallInv, GateProofs!GateInv, GateProofs!TypeOK, Gate!TypeOK, Users,
       Gate!Stages, GateProofs!Stages
  <2>6. TypeOK
    BY <1>1, <2>5 DEF CallInv, Typed, CallType, TypeOK
  <2> QED BY <2>4, <2>6 DEF OpenWithinCapacity
<1> QED BY <1>1, CallInvariant, PTL

\* A batch that reports its embeddings ready has, for every paper, a vector of the dimension
\* that it was asked for, whatever the cache and the earlier batches held.
THEOREM BatchesFit == Spec => []VectorsFit
<1>1. CallInv => VectorsFit
  BY DEF CallInv, BatchInv, VectorsFit
<1> QED BY <1>1, CallInvariant, PTL
=============================================================================
