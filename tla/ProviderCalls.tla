---------------------------- MODULE ProviderCalls ----------------------------
(***************************************************************************)
(* One call to a provider, from its audit row to its result: LLM calls     *)
(* (services/llm_client.py), embeddings (services/embedding_service.py,    *)
(* with the batch that a research phase waits for) and reranking           *)
(* (services/rerank_service.py).  Each kind has a FifoGate of its own, so a *)
(* behaviour is about one kind; the three differ in what is retried, in    *)
(* what a cancellation does and in which failed writes they tolerate.      *)
(*                                                                         *)
(* Cancellation is asyncio's: asked for at any time, delivered where the   *)
(* task is suspended.  cancelled holds the requests not yet delivered.     *)
(***************************************************************************)
EXTENDS Naturals, Sequences, FiniteSets

CONSTANTS
  Callers,     \* calls; for embeddings, the papers of one project
  Others,      \* calls of other projects: only their use of the gate is modelled
  Capacity, MaxWaiters,
  Attempts,    \* provider.timeout_retries, rerank.max_retries
  Dims,        \* vector dimensions a provider may return
  MaxBatches,  \* bound: calls of ensure_paper_embeddings
  MaxTargets,  \* bound: changes of embedding.target_dimensions
  MaxFaults    \* bound: failed database writes

ASSUME CallsAssumption ==
  /\ Callers \cap Others = {}
  /\ Capacity \in Nat \ {0} /\ MaxWaiters \in Nat
  /\ Attempts \in Nat \ {0}
  /\ Dims \subseteq Nat \ {0} /\ Dims # {}
  /\ MaxBatches \in Nat /\ MaxTargets \in Nat /\ MaxFaults \in Nat

VARIABLES
  kind,                       \* which of the three services
  available, waiters, stage,  \* its request gate
  expired,                    \* callers whose wait in the queue has run out
  call,                       \* [Callers -> the call's progress]
  cancelled,                  \* cancellations asked for, not yet delivered
  asked,                      \* history: callers ever asked to stop
  batch,                      \* ensure_paper_embeddings: where it is, its dimension
  target,                     \* the configured embedding dimension
  cache, stored,              \* [Callers -> dimension of the cached, of the stored vector]
  batches, targets, faults

gateVars == <<available, waiters, stage, expired>>
groupVars == <<batch, target, cache, stored, batches, targets>>
vars == <<kind, gateVars, call, cancelled, asked, groupVars, faults>>

Due == {c \in cancelled \cup expired : stage[c] \in {"waiting", "granted"}}
Gate == INSTANCE FifoGate WITH Tasks <- Callers \cup Others, interrupted <- Due

(***************************************************************************)
(* flight: the request itself.  audit: the row of the current attempt.     *)
(* cut: a write to that row failed or was cut short.  answered: a usable   *)
(* answer has arrived.  behind (history): an earlier attempt left its row  *)
(* running although no write to it failed.                                 *)
(***************************************************************************)
NewCall == [pc |-> "idle", try |-> 1, audit |-> "none", flight |-> "none",
            result |-> "none", cut |-> FALSE, answered |-> FALSE, behind |-> FALSE,
            vec |-> 0]

Places == {"idle", "cached", "row", "rate", "waiting", "sent", "draining",
           "cancelDrain", "sleeping", "pricing", "closing", "saving", "ended"}

TypeOK ==
  /\ kind \in {"llm", "embedding", "rerank"}
  /\ Gate!TypeOK /\ expired \subseteq Callers
  /\ call \in [Callers ->
        [pc : Places, try : 1..Attempts, audit : {"none", "running", "success", "error"},
         flight : {"none", "open", "cancelling"},
         result : {"none", "answered", "passed", "failed", "cancelled"},
         cut : BOOLEAN, answered : BOOLEAN, behind : BOOLEAN, vec : Dims \cup {0}]]
  /\ cancelled \subseteq asked /\ asked \subseteq Callers
  /\ batch \in [pc : {"none", "group", "aborting", "storing", "stored", "over"}, dim : Dims]
  /\ target \in Dims
  /\ cache \in [Callers -> Dims \cup {0}] /\ stored \in [Callers -> Dims \cup {0}]
  /\ batches \in 0..MaxBatches /\ targets \in 0..MaxTargets /\ faults \in 0..MaxFaults

Init ==
  /\ kind \in {"llm", "embedding", "rerank"}
  /\ expired = {} /\ cancelled = {} /\ asked = {}
  /\ Gate!Init
  /\ call = [c \in Callers |-> NewCall]
  /\ target = CHOOSE d \in Dims : TRUE
  /\ batch = [pc |-> "none", dim |-> target]
  /\ cache = [c \in Callers |-> 0] /\ stored = [c \in Callers |-> 0]
  /\ batches = 0 /\ targets = 0 /\ faults = 0

-----------------------------------------------------------------------------
(* What an outcome does to a call.                                         *)

Over(r) == [r EXCEPT !.flight = "none"]
Ended(r, result) == [r EXCEPT !.pc = "ended", !.result = result]
Closing(r, result) == [r EXCEPT !.pc = "closing", !.result = result]

\* Mutant: attempts are not counted.
TimedOutUncounted(r) ==
  IF kind = "llm" THEN [r EXCEPT !.pc = "sleeping"] ELSE Closing(r, "failed")

\* only the LLM client tries again after a time-out, of the queue or of the request
TimedOut(r) ==
  IF kind = "llm" /\ r.try < Attempts
  THEN [r EXCEPT !.pc = "sleeping", !.try = @ + 1]
  ELSE Closing(r, "failed")

\* Mutant: only the LLM client has a handler for CancelledError.
StoppedUnhandled(r) ==
  CASE kind = "llm" /\ r.flight = "open" -> [r EXCEPT !.pc = "cancelDrain", !.flight = "cancelling"]
    [] kind = "llm" /\ r.flight # "open" -> Closing(r, "cancelled")
    [] kind # "llm" -> Ended(Over(r), "cancelled")

\* CancelledError: the LLM client waits for its request to end and closes the row,
\* the embedding service closes the row, the reranker has no handler for it
Stopped(r) ==
  CASE kind = "llm" /\ r.flight = "open" -> [r EXCEPT !.pc = "cancelDrain", !.flight = "cancelling"]
    [] kind = "llm" /\ r.flight # "open" -> Closing(r, "cancelled")
    [] kind = "embedding" -> Closing(Over(r), "cancelled")
    [] kind = "rerank" -> Ended(Over(r), "cancelled")

\* The row is left as it was created, and no write to it went wrong
Unclosed(r) == r.audit = "running" /\ ~r.cut

\* The rows are closed: a failed rerank attempt is followed by another provider's,
\* and the last one either fails the search or leaves the papers in their order
Results(r) ==
  IF kind = "rerank" /\ r.result = "failed"
  THEN IF r.try < Attempts THEN {[NewCall EXCEPT !.pc = "row", !.try = r.try + 1,
                                                 !.behind = r.behind \/ Unclosed(r)]}
       ELSE {Ended(r, "failed"), Ended(r, "passed")}
  ELSE IF kind = "embedding" /\ r.result = "answered" THEN {[r EXCEPT !.pc = "saving"]}
  ELSE {Ended(r, r.result)}

Set(c, r) == call' = [call EXCEPT ![c] = r]
Fault == faults < MaxFaults /\ faults' = faults + 1

\* the cancellation has reached the task
Deliver(c) == c \in cancelled /\ cancelled' = cancelled \ {c} /\ UNCHANGED asked
NotCancelled(c) == c \notin cancelled /\ UNCHANGED <<cancelled, asked>>

-----------------------------------------------------------------------------
(* Before the request *)

Begin(c) ==
  /\ kind # "embedding" /\ call[c].pc = "idle"
  /\ Set(c, [call[c] EXCEPT !.pc = "row"])
  /\ UNCHANGED <<kind, gateVars, cancelled, asked, groupVars, faults>>

Send(r) == [r EXCEPT !.pc = "sent", !.flight = "open"]

\* gate.slot(), without a suspension before it; r is the call by then
EnterGate(c, r) ==
  /\ NotCancelled(c) /\ UNCHANGED expired
  /\ \/ Gate!AcquireFree(c) /\ Set(c, Send(r))
     \/ Gate!JoinQueue(c) /\ Set(c, [r EXCEPT !.pc = "waiting"])
     \/ Gate!Refuse(c) /\ Set(c, Closing(r, "failed"))

\* create_llm_call; without its row the call goes on, to the gate or, for a
\* reranking, to the provider's rate limit
AfterRow(c, r) ==
  IF kind = "rerank" THEN NotCancelled(c) /\ Set(c, [r EXCEPT !.pc = "rate"]) /\ UNCHANGED gateVars
  ELSE EnterGate(c, r)

CreateRow(c) ==
  /\ call[c].pc = "row"
  /\ \/ AfterRow(c, [call[c] EXCEPT !.audit = "running"]) /\ UNCHANGED faults
     \/ Fault /\ AfterRow(c, call[c])
  /\ UNCHANGED <<kind, groupVars>>

\* cancelled in the insert, which may have been committed
CreateRowCut(c) ==
  /\ call[c].pc = "row" /\ Deliver(c)
  /\ \E a \in {"none", "running"} :
        Set(c, [Ended(call[c], "cancelled") EXCEPT !.audit = a, !.cut = TRUE])
  /\ UNCHANGED <<kind, gateVars, groupVars, faults>>

\* _respect_rpm: the wait for a place in the provider's minute
RateWait(c) ==
  /\ call[c].pc = "rate" /\ EnterGate(c, call[c])
  /\ UNCHANGED <<kind, groupVars, faults>>

RateCut(c) ==
  /\ call[c].pc = "rate" /\ Deliver(c)
  /\ Set(c, Stopped(call[c]))
  /\ UNCHANGED <<kind, gateVars, groupVars, faults>>

\* an earlier attempt was refused or gave up; a new one starts clean
Forget(c) ==
  /\ call[c].pc \in {"row", "sleeping", "closing"}
  /\ UNCHANGED <<kind, expired, call, cancelled, asked, groupVars, faults>>
  /\ Gate!Forget(c)

QueueDeadline(c) ==
  /\ stage[c] \in {"waiting", "granted"} /\ c \notin expired
  /\ expired' = expired \cup {c}
  /\ UNCHANGED <<kind, available, waiters, stage, call, cancelled, asked, groupVars, faults>>

Granted(c) ==
  /\ UNCHANGED <<kind, expired, cancelled, asked, groupVars, faults>>
  /\ Gate!Resume(c) /\ Set(c, Send(call[c]))

LeaveWait(c) ==
  /\ expired' = expired \ {c}
  /\ \/ Deliver(c) /\ Set(c, Stopped(call[c]))
     \/ NotCancelled(c) /\ Set(c, TimedOut(call[c]))
  /\ Gate!LeaveQueue(c) \/ Gate!ReturnHandoff(c)
  /\ UNCHANGED <<kind, groupVars, faults>>

\* the gate's other users come, wait their turn and go
OtherComes(o) ==
  /\ UNCHANGED <<kind, expired, call, cancelled, asked, groupVars, faults>>
  /\ Gate!AcquireFree(o) \/ Gate!JoinQueue(o)

OtherGoes(o) ==
  /\ UNCHANGED <<kind, expired, call, cancelled, asked, groupVars, faults>>
  /\ Gate!Resume(o) \/ Gate!Release(o)

-----------------------------------------------------------------------------
(* The request *)

LeaveSlot(c) == Gate!ReleaseSlot(c, "idle") /\ UNCHANGED expired

\* a usable answer, an answer of the wrong shape, an error, or a transport time-out
Answer(c) ==
  /\ call[c].pc = "sent" /\ NotCancelled(c)
  /\ LeaveSlot(c)
  /\ LET r == Over(call[c]) IN
     \E next \in {Closing(r, "failed"), TimedOut(r)} \cup
        (IF kind = "embedding"
         THEN {[r EXCEPT !.pc = "pricing", !.answered = TRUE, !.vec = d] : d \in Dims \cap {batch.dim}}
         ELSE {[r EXCEPT !.pc = "pricing", !.answered = TRUE]}) :
        Set(c, next)
  /\ UNCHANGED <<kind, groupVars, faults>>

\* Mutant: the slot is left before the request has ended.
DeadlineOutsideSlot(c) ==
  /\ call[c].pc = "sent" /\ NotCancelled(c)
  /\ LeaveSlot(c)
  /\ Set(c, [call[c] EXCEPT !.pc = "draining", !.flight = "cancelling"])
  /\ UNCHANGED <<kind, groupVars, faults>>

\* The LLM client cancels its request and waits for it with the slot in hand; the
\* others' requests end with the time-out
Deadline(c) ==
  /\ call[c].pc = "sent" /\ NotCancelled(c)
  /\ IF kind = "llm"
     THEN /\ Set(c, [call[c] EXCEPT !.pc = "draining", !.flight = "cancelling"])
          /\ UNCHANGED gateVars
     ELSE LeaveSlot(c) /\ Set(c, TimedOut(Over(call[c])))
  /\ UNCHANGED <<kind, groupVars, faults>>

\* _cancel_and_wait suppresses every CancelledError, the task's own included: a
\* cancellation that arrives during this wait is gone
Drained(c) ==
  /\ call[c].pc = "draining"
  /\ LeaveSlot(c) /\ Set(c, TimedOut(Over(call[c])))
  /\ cancelled' = cancelled \ {c} /\ UNCHANGED asked
  /\ UNCHANGED <<kind, groupVars, faults>>

CancelSent(c) ==
  /\ call[c].pc = "sent" /\ Deliver(c)
  /\ LeaveSlot(c) /\ Set(c, Stopped(call[c]))
  /\ UNCHANGED <<kind, groupVars, faults>>

CancelDrained(c) ==
  /\ call[c].pc = "cancelDrain"
  /\ Set(c, Closing(Over(call[c]), "cancelled"))
  /\ cancelled' = cancelled \ {c} /\ UNCHANGED asked
  /\ UNCHANGED <<kind, gateVars, groupVars, faults>>

\* the pause before the next attempt
Wake(c) ==
  /\ call[c].pc = "sleeping" /\ EnterGate(c, call[c])
  /\ UNCHANGED <<kind, groupVars, faults>>

SleepCut(c) ==
  /\ call[c].pc = "sleeping" /\ stage[c] = "idle" /\ Deliver(c)
  /\ Set(c, Stopped(call[c]))
  /\ UNCHANGED <<kind, gateVars, groupVars, faults>>

-----------------------------------------------------------------------------
(* After the request *)

\* get_provider_pricing: only the reranker minds when it fails, and it is asked for
\* only when there is a row
Price(c) ==
  /\ call[c].pc = "pricing" /\ NotCancelled(c)
  /\ \/ Set(c, Closing(call[c], "answered")) /\ UNCHANGED faults
     \/ kind = "rerank" /\ call[c].audit = "running" /\ Fault /\ Set(c, Closing(call[c], "failed"))
  /\ UNCHANGED <<kind, gateVars, groupVars>>

\* CancelledError in the wait for the price: its handlers catch Exception only, so it
\* leaves the service at once, and nobody writes to the row
PriceCut(c) ==
  /\ call[c].pc = "pricing" /\ Deliver(c)
  /\ Set(c, Ended(call[c], "cancelled"))
  /\ UNCHANGED <<kind, gateVars, groupVars, faults>>

Finish(r) ==
  IF r.audit = "none" THEN r
  ELSE [r EXCEPT !.audit = IF r.result = "answered" THEN "success" ELSE "error"]

\* finish_llm_call; the reranker may still find the answer unusable
Close(c) ==
  /\ call[c].pc = "closing" /\ stage[c] = "idle"
  /\ NotCancelled(c)
  /\ LET r == Finish(call[c]) IN
     \E next \in Results(r) \cup
        (IF kind = "rerank" /\ r.result = "answered" THEN Results([r EXCEPT !.result = "failed"]) ELSE {}) :
        Set(c, next)
  /\ UNCHANGED <<kind, gateVars, groupVars, faults>>

\* The write fails: tolerated, except that the reranker takes it for a failure of the
\* attempt, and records that
CloseFails(c) ==
  /\ call[c].pc = "closing" /\ stage[c] = "idle" /\ call[c].audit = "running"
  /\ NotCancelled(c) /\ Fault
  /\ LET r == [call[c] EXCEPT !.cut = TRUE] IN
     IF kind = "rerank" /\ r.result = "answered"
     THEN Set(c, Closing(r, "failed"))
     ELSE \E next \in Results(r) : Set(c, next)
  /\ UNCHANGED <<kind, gateVars, groupVars>>

CloseCut(c) ==
  /\ call[c].pc = "closing" /\ stage[c] = "idle" /\ Deliver(c)
  /\ \E r \in {call[c], Finish(call[c])} :
        Set(c, [Ended(r, "cancelled") EXCEPT !.cut = TRUE])
  /\ UNCHANGED <<kind, gateVars, groupVars, faults>>

\* task.cancel() on the task of an LLM call or a reranking
Cancel(c) ==
  /\ kind # "embedding" /\ call[c].pc \notin {"idle", "ended"}
  /\ c \notin asked
  /\ cancelled' = cancelled \cup {c} /\ asked' = asked \cup {c}
  /\ UNCHANGED <<kind, gateVars, call, groupVars, faults>>

-----------------------------------------------------------------------------
(* ensure_paper_embeddings: a task group over the papers without a vector of the   *)
(* configured dimension; its vectors are stored together or not at all             *)

Missing == {c \in Callers : stored[c] # target}

StartBatch ==
  /\ kind = "embedding" /\ batch.pc \in {"none", "stored", "over"}
  /\ batches < MaxBatches /\ batches' = batches + 1
  /\ Missing # {}
  /\ batch' = [pc |-> "group", dim |-> target]
  /\ call' = [c \in Callers |->
                IF c \in Missing THEN [NewCall EXCEPT !.pc = "cached"]
                ELSE [Ended(NewCall, "answered") EXCEPT !.vec = target]]
  /\ asked' = {} /\ cancelled' = {}
  /\ UNCHANGED <<kind, gateVars, target, cache, stored, targets, faults>>

\* Mutant: whatever is cached is used.
LookUpUnchecked(c) ==
  /\ call[c].pc = "cached" /\ NotCancelled(c)
  /\ Set(c, IF cache[c] # 0 THEN [Ended(call[c], "answered") EXCEPT !.vec = cache[c]]
            ELSE [call[c] EXCEPT !.pc = "row"])
  /\ UNCHANGED <<kind, gateVars, groupVars, faults>>

\* the cache knows paper and model, not the dimension: its vector is checked
LookUp(c) ==
  /\ call[c].pc = "cached" /\ NotCancelled(c)
  /\ Set(c, IF cache[c] = batch.dim THEN [Ended(call[c], "answered") EXCEPT !.vec = cache[c]]
            ELSE [call[c] EXCEPT !.pc = "row"])
  /\ UNCHANGED <<kind, gateVars, groupVars, faults>>

\* the cache is best effort
SaveVector(c) ==
  /\ call[c].pc = "saving" /\ NotCancelled(c)
  /\ Set(c, Ended(call[c], "answered"))
  /\ \E d \in {cache[c], call[c].vec} : cache' = [cache EXCEPT ![c] = d]
  /\ UNCHANGED <<kind, gateVars, batch, target, stored, batches, targets, faults>>

CacheCut(c) ==
  /\ call[c].pc \in {"cached", "saving"} /\ Deliver(c)
  /\ Set(c, Ended(call[c], "cancelled"))
  /\ UNCHANGED <<kind, gateVars, groupVars, faults>>

\* a paper failed, or the phase was cancelled: the group cancels the others
AbortGroup ==
  /\ batch.pc = "group"
  /\ batch' = [batch EXCEPT !.pc = "aborting"]
  /\ LET rest == {c \in Callers : call[c].pc # "ended"} IN
        cancelled' = cancelled \cup rest /\ asked' = asked \cup rest
  /\ UNCHANGED <<kind, gateVars, call, target, cache, stored, batches, targets, faults>>

PaperFailed == \E c \in Callers : call[c].result = "failed" /\ call[c].pc = "ended"
GroupFails == PaperFailed /\ AbortGroup
PhaseCancelled == AbortGroup

AllEnded == \A c \in Callers : call[c].pc = "ended"

GroupEnds ==
  /\ AllEnded
  /\ \/ batch.pc = "group" /\ ~PaperFailed /\ batch' = [batch EXCEPT !.pc = "storing"]
     \/ batch.pc = "aborting" /\ batch' = [batch EXCEPT !.pc = "over"]
  /\ UNCHANGED <<kind, gateVars, call, cancelled, asked, target, cache, stored, batches, targets, faults>>

\* add_embeddings: one transaction
Store ==
  /\ batch.pc = "storing"
  /\ \/ /\ stored' = [c \in Callers |-> call[c].vec]
        /\ batch' = [batch EXCEPT !.pc = "stored"]
     \/ batch' = [batch EXCEPT !.pc = "over"] /\ UNCHANGED stored
  /\ UNCHANGED <<kind, gateVars, call, cancelled, asked, target, cache, batches, targets, faults>>

\* an administrator changes embedding.target_dimensions
ChangeTarget ==
  /\ kind = "embedding" /\ targets < MaxTargets /\ targets' = targets + 1
  /\ \E d \in Dims \ {target} : target' = d
  /\ UNCHANGED <<kind, gateVars, call, cancelled, asked, batch, cache, stored, batches, faults>>

-----------------------------------------------------------------------------
Step(c) ==
  \/ CreateRow(c) \/ CreateRowCut(c) \/ RateWait(c) \/ RateCut(c) \/ Forget(c)
  \/ Granted(c) \/ LeaveWait(c) \/ Answer(c) \/ Drained(c) \/ CancelSent(c) \/ CancelDrained(c)
  \/ Wake(c) \/ SleepCut(c) \/ Price(c) \/ PriceCut(c) \/ Close(c) \/ CloseCut(c)
  \/ LookUp(c) \/ SaveVector(c) \/ CacheCut(c)

Next ==
  \/ \E c \in Callers : Step(c) \/ Begin(c) \/ QueueDeadline(c) \/ Deadline(c) \/ CloseFails(c) \/ Cancel(c)
  \/ \E o \in Others : OtherComes(o) \/ OtherGoes(o)
  \/ StartBatch \/ GroupFails \/ PhaseCancelled \/ GroupEnds \/ Store \/ ChangeTarget

Spec == Init /\ [][Next]_vars

(***************************************************************************)
(* The loop runs what it can run, a statement sent to the database ends,   *)
(* a request that was cancelled ends, and deadlines fire.                  *)
(***************************************************************************)
FairSpec ==
  /\ Spec
  /\ \A c \in Callers : WF_vars(Step(c)) /\ WF_vars(QueueDeadline(c)) /\ WF_vars(Deadline(c))
  /\ \A o \in Others : WF_vars(OtherGoes(o))
  /\ WF_vars(GroupFails) /\ WF_vars(GroupEnds) /\ WF_vars(Store)

-----------------------------------------------------------------------------
(* Properties *)

\* A call that has ended has no request in flight and no place in the gate, and it has
\* closed the audit row of each of its attempts: on every path through refusals,
\* time-outs, retries, errors and cancellations.  Besides rows whose write itself failed
\* or was cut short, the code leaves two open: of a call that is cancelled after its
\* answer came, while its price is looked up, and of a reranking that is cancelled.
EndedIsClosed ==
  \A c \in Callers : call[c].pc = "ended" =>
     /\ call[c].flight = "none" /\ stage[c] \notin {"waiting", "granted", "holding"}
     /\ ~call[c].behind
     /\ Unclosed(call[c]) => call[c].result = "cancelled" /\ (kind = "rerank" \/ call[c].answered)

\* The requests that are open, or are being drained after their deadline, never
\* outnumber the gate's capacity, retries included.  A cancelled LLM call leaves its
\* slot and drains its request afterwards: that request is not among them.  Types are
\* part of it.
OpenWithinCapacity ==
  /\ TypeOK
  /\ Cardinality({c \in Callers : call[c].flight = "open"}
                 \cup {c \in Callers : call[c].pc = "draining"}) <= Capacity

\* When a batch reports its embeddings ready, every paper has a vector of the
\* dimension the batch was asked for, whatever was cached or stored under an earlier
\* dimension and whatever the providers returned.
VectorsFit ==
  batch.pc = "stored" => \A c \in Callers : stored[c] = batch.dim

\* Every call and every batch that has begun ends.
EveryCallEnds ==
  /\ \A c \in Callers : call[c].pc # "idle" ~> call[c].pc = "ended"
  /\ batch.pc = "group" ~> batch.pc \in {"stored", "over"}

\* What the handlers of CancelledError are there for ("LLM call cancelled", "Embedding call
\* cancelled" in the row): a cancelled LLM or embedding call has closed its row unless
\* the write went wrong.  It does not hold, see PriceCut.
CancelledIsClosed ==
  kind # "rerank" => \A c \in Callers : call[c].pc = "ended" => ~Unclosed(call[c])

\* "cancellation: propagate" (docs/node-contracts.md:190 and 207): a call that was
\* told to stop ends as cancelled once the cancellation was delivered.
CancellationPropagates ==
  \A c \in asked \ cancelled : call[c].pc = "ended" => call[c].result = "cancelled"

=============================================================================
