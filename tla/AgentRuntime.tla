---------------------------- MODULE AgentRuntime ----------------------------
(***************************************************************************)
(* The Agent run manager (services/agent_runtime.py) with what it drives:  *)
(* the FIFO gate, one asyncio task per execution, the execution and        *)
(* project rows of PostgreSQL, the checkpoint of each execution, project   *)
(* deletion (services/project_cleanup.py), shutdown, crash and the startup *)
(* reconciliation (api/main.py).                                           *)
(*                                                                         *)
(* One process, one event loop: what is between two awaits is one step.    *)
(* Every database call is an await of its own; it commits in one step, and *)
(* a task whose cancellation is pending when it suspends there gets        *)
(* CancelledError whether or not the statement has committed.              *)
(***************************************************************************)
EXTENDS Naturals, Sequences, FiniteSets, SequencesExt

CONSTANTS
  Projects,
  Owner,        \* user of each project
  Capacity,     \* agent_max_concurrent_runs
  MaxWaiters,   \* agent_max_queued_runs
  OwnerQuota,   \* agent_max_admitted_runs_per_user
  Pausers,      \* concurrent POST /agent/{id}/pause requests
  Deletable,    \* projects that DELETE may be called on
  MayStop,      \* whether the process may shut down or crash
  MaxTasks,     \* bound: background tasks ever created
  MaxExecs,     \* bound: execution rows ever inserted
  MaxFaults     \* bound: database calls that raise

ASSUME RuntimeAssumption ==
  /\ Capacity \in Nat \ {0} /\ MaxWaiters \in Nat /\ OwnerQuota \in Nat \ {0}
  /\ Deletable \subseteq Projects /\ MayStop \in BOOLEAN
  /\ Pausers \cap ({"delete", "stop"} \X Projects) = {}
  /\ MaxTasks \in Nat \ {0} /\ MaxExecs \in Nat \ {0} /\ MaxFaults \in Nat

VARIABLES
  \* AgentRunManager; _scheduled is task[t], found wherever registered finds t
  accepting, registered, starting, admitted, deleting,
  \* its BoundedFifoGate, and the exceptions due at a task's next step
  available, waiters, stage, cancelled, expired,
  \* program counters: background tasks, start() calls, callers that wait for
  \* a cancelled task, delete_project_data calls, the process itself
  task, start, waiter, deletion, process,
  \* PostgreSQL
  rows, projStatus,
  \* faults so far, and executions whose closing write was lost
  faults, cut

manager == <<accepting, registered, starting, admitted, deleting>>
slots   == <<available, waiters, stage>>
flags   == <<cancelled, expired>>
pcs     == <<task, start, waiter, deletion, process>>
db      == <<rows, projStatus>>
history == <<faults, cut>>
vars    == <<manager, slots, flags, pcs, db, history>>

TaskIds == 1..MaxTasks
ExecIds == 1..MaxExecs
None    == 0

Deleter(p) == <<"delete", p>>
Stopper(p) == <<"stop", p>>
Actors == Pausers \cup {Deleter(p) : p \in Projects} \cup {Stopper(p) : p \in Projects}

Active == {"pending", "running"}
Resumable == {"interrupted", "failed"}

-----------------------------------------------------------------------------
(* The gate: a task's wait ends by cancellation or by the queue deadline.  *)

Due == {t \in cancelled \cup expired : stage[t] \in {"waiting", "granted"}}

Gate == INSTANCE FifoGate WITH Tasks <- TaskIds, interrupted <- Due

NoStart == [pc |-> "idle", resume |-> FALSE, exec |-> None, prior |-> None,
            priorFailed |-> FALSE]
NoTask  == [pc |-> "unborn", project |-> None, exec |-> None, resume |-> FALSE,
            started |-> FALSE, persisted |-> FALSE, outcome |-> "none"]
Resting == [pc |-> "idle", task |-> None]
NoRow   == [project |-> None, status |-> "absent", ckpt |-> "missing"]

Live(t) == t # None /\ task[t].pc \notin {"unborn", "done"}

(***************************************************************************)
(* The statements of services/database.py.                                 *)
(***************************************************************************)
\* UPDATE agent_executions ... WHERE id: no condition on the old status.
Write(e, s) ==
  rows' = [r \in ExecIds |->
             IF r = e /\ rows[r].status \notin {"absent", "deleted"}
             THEN [rows[r] EXCEPT !.status = s] ELSE rows[r]]

\* UPDATE projects SET status: nothing to update once the row is deleted.
Publish(p, s) ==
  projStatus' = [projStatus EXCEPT ![p] = IF @ = "deleted" THEN @ ELSE s]

RowsOf(p) == {e \in ExecIds : rows[e].project = p
                              /\ rows[e].status \notin {"absent", "deleted"}}

\* The partial unique index: one pending or running execution per project.
HasActiveRow(p) == \E e \in RowsOf(p) : rows[e].status \in Active

\* The greatest and the least of a set of ids, if it has any.
Newest(S) == {e \in S : \A f \in S : f <= e}
Fresh(S)  == {e \in S : \A f \in S : e <= f}
UnusedRows  == {e \in ExecIds : rows[e].status = "absent"}
UnusedTasks == {t \in TaskIds : task[t].pc = "unborn"}

Init ==
  /\ accepting = TRUE
  /\ registered = [p \in Projects |-> None]
  /\ starting = {} /\ admitted = {} /\ deleting = {}
  /\ cancelled = {} /\ expired = {}
  /\ Gate!Init
  /\ task = [t \in TaskIds |-> NoTask]
  /\ start = [p \in Projects |-> NoStart]
  /\ waiter = [a \in Actors |-> Resting]
  /\ deletion = [p \in Projects |-> "idle"]
  /\ process = "up"
  /\ rows = [e \in ExecIds |-> NoRow]
  /\ projStatus = [p \in Projects |-> "created"]
  /\ faults = 0 /\ cut = {}

-----------------------------------------------------------------------------
(***************************************************************************)
(* start().  One call per project can be past admission; earlier calls     *)
(* have no effect, so one in flight per project stands for all of them.    *)
(***************************************************************************)
\* Mutant: a task that is still draining does not stop a new start.
AdmissibleWhileDraining(p) ==
  /\ accepting /\ p \notin deleting /\ p \notin starting
  /\ Cardinality(admitted) < Capacity + MaxWaiters

Admissible(p) ==
  /\ accepting
  /\ p \notin deleting
  /\ ~Live(registered[p])
  /\ p \notin starting
  /\ Cardinality(admitted) < Capacity + MaxWaiters
  /\ Cardinality({q \in admitted : Owner[q] = Owner[p]}) < OwnerQuota

StartAt(p, pc) == process = "up" /\ start[p].pc = pc

StartGoto(p, pc) == start' = [start EXCEPT ![p].pc = pc]

\* The finally block when no task was scheduled.
Withdraw(p) ==
  /\ start' = [start EXCEPT ![p] = NoStart]
  /\ starting' = starting \ {p}
  /\ admitted' = admitted \ {p}
  /\ UNCHANGED <<accepting, registered, deleting>>

StartUnchanged == UNCHANGED <<slots, flags, task, waiter, deletion, process>>

\* Bounds: a start takes a task, and a row of its own unless it resumes one; a
\* resume that turns into a new execution waits where no row is left.
RoomForStart(resume) ==
  LET inFlight == Cardinality({q \in Projects : start[q].pc # "idle"})
  IN  /\ Cardinality(UnusedTasks) > inFlight
      /\ resume \/ Cardinality(UnusedRows) > inFlight

\* _verify_project_access has found the project; what follows awaits.
Request(p, resume) ==
  /\ StartAt(p, "idle")
  /\ projStatus[p] # "deleted"
  /\ RoomForStart(resume)
  /\ start' = [start EXCEPT ![p] = [NoStart EXCEPT !.pc = "requested", !.resume = resume]]
  /\ StartUnchanged /\ UNCHANGED <<manager, db, history>>

Admit(p) ==
  /\ StartAt(p, "requested")
  /\ Admissible(p)
  /\ starting' = starting \cup {p}
  /\ admitted' = admitted \cup {p}
  /\ StartGoto(p, IF start[p].resume THEN "latest" ELSE "create")
  /\ StartUnchanged
  /\ UNCHANGED <<accepting, registered, deleting, db, history>>

Reject(p) ==
  /\ StartAt(p, "requested")
  /\ ~Admissible(p)
  /\ start' = [start EXCEPT ![p] = NoStart]
  /\ StartUnchanged /\ UNCHANGED <<manager, db, history>>

NewestResumable(p) == {e \in Newest(RowsOf(p)) : rows[e].status \in Resumable}

\* get_latest_agent_execution: only an interrupted or failed one can resume.
Latest(p) ==
  /\ StartAt(p, "latest")
  /\ \/ /\ \E e \in NewestResumable(p) :
             start' = [start EXCEPT ![p].pc = "inspect", ![p].prior = e,
                             ![p].priorFailed = rows[e].status = "failed"]
        /\ UNCHANGED manager
     \/ NewestResumable(p) = {} /\ Withdraw(p)
  /\ StartUnchanged /\ UNCHANGED <<db, history>>

\* Mutant: a checkpoint is resumed whether or not it has a next node.
InspectValuesOnly(p) ==
  /\ StartAt(p, "inspect")
  /\ IF rows[start[p].prior].ckpt = "missing"
     THEN Withdraw(p)
     ELSE StartGoto(p, "claim") /\ UNCHANGED manager
  /\ StartUnchanged /\ UNCHANGED <<db, history>>

\* _inspect_checkpoint and the choice start() makes on the disposition.
Inspect(p) ==
  /\ StartAt(p, "inspect")
  /\ LET ckpt == rows[start[p].prior].ckpt
         retry == ckpt = "failure" \/ (ckpt = "missing" /\ start[p].priorFailed)
     IN
     \/ ckpt = "runnable" /\ StartGoto(p, "claim") /\ UNCHANGED manager
     \/ ckpt = "success" /\ StartGoto(p, "reconcile") /\ UNCHANGED manager
     \/ retry /\ StartGoto(p, "create") /\ UNCHANGED manager
     \/ ckpt = "missing" /\ ~retry /\ Withdraw(p)
  /\ StartUnchanged /\ UNCHANGED <<db, history>>

Claimable(p, e) ==
  e \in RowsOf(p) /\ rows[e].status \in Resumable /\ ~HasActiveRow(p)

\* _claim_resumable_execution: compare-and-set on the row's status.
Claim(p) ==
  LET e == start[p].prior IN
  /\ StartAt(p, "claim")
  /\ \/ /\ Claimable(p, e)
        /\ Write(e, "pending")
        /\ start' = [start EXCEPT ![p].pc = "publish", ![p].exec = e]
        /\ cut' = cut \ {e}
        /\ UNCHANGED manager
     \/ /\ ~Claimable(p, e)
        /\ Withdraw(p)
        /\ UNCHANGED <<rows, cut>>
  /\ StartUnchanged /\ UNCHANGED <<projStatus, faults>>

\* The graph had finished before the row could say so.
Reconcile(p) ==
  /\ StartAt(p, "reconcile")
  /\ Write(start[p].prior, "succeeded")
  /\ StartGoto(p, "reconcileProject")
  /\ StartUnchanged /\ UNCHANGED <<manager, projStatus, history>>

ReconcileProject(p) ==
  /\ StartAt(p, "reconcileProject")
  /\ Publish(p, "completed")
  /\ Withdraw(p)
  /\ StartUnchanged /\ UNCHANGED <<rows, history>>

\* create_agent_execution; an IntegrityError (active row, or no project row)
\* goes through the same handler as every other failure of start().
Create(p) ==
  /\ StartAt(p, "create")
  /\ \/ /\ ~HasActiveRow(p) /\ projStatus[p] # "deleted"
        /\ \E e \in Fresh(UnusedRows) :
             /\ rows' = [rows EXCEPT ![e] =
                           [project |-> p, status |-> "pending", ckpt |-> "missing"]]
             /\ start' = [start EXCEPT ![p].pc = "publish", ![p].exec = e,
                             ![p].resume = FALSE]
     \/ /\ HasActiveRow(p) \/ projStatus[p] = "deleted"
        /\ StartGoto(p, "abortProject")
        /\ UNCHANGED rows
  /\ StartUnchanged /\ UNCHANGED <<manager, projStatus, history>>

\* Best effort: a failure is logged and the start goes on.
PublishStart(p) ==
  /\ StartAt(p, "publish")
  /\ \/ Publish(p, "running") /\ UNCHANGED faults
     \/ faults < MaxFaults /\ faults' = faults + 1 /\ UNCHANGED projStatus
  /\ StartGoto(p, "schedule")
  /\ StartUnchanged /\ UNCHANGED <<manager, rows, cut>>

Schedule(p) ==
  /\ StartAt(p, "schedule")
  /\ accepting /\ p \notin deleting
  /\ \E t \in Fresh(UnusedTasks) :
       /\ task' = [task EXCEPT ![t] =
                     [NoTask EXCEPT !.pc = "new", !.project = p, !.exec = start[p].exec,
                                    !.resume = start[p].resume]]
       /\ registered' = [registered EXCEPT ![p] = t]
  /\ starting' = starting \ {p}
  /\ start' = [start EXCEPT ![p] = NoStart]
  /\ UNCHANGED <<accepting, admitted, deleting, slots, flags, waiter, deletion, process,
                 db, history>>

\* Shutdown or deletion began while start() awaited the database.
Stopped(p) ==
  /\ StartAt(p, "schedule")
  /\ ~accepting \/ p \in deleting
  /\ StartGoto(p, "stop")
  /\ StartUnchanged /\ UNCHANGED <<manager, db, history>>

\* _persist_unscheduled_interruption, first call; a failure leads to the
\* handler of start(), which calls it again and suppresses what it raises.
StopRow(p) ==
  /\ StartAt(p, "stop")
  /\ \/ /\ Write(start[p].exec, "interrupted")
        /\ StartGoto(p, "stopProject")
        /\ UNCHANGED faults
     \/ /\ faults < MaxFaults /\ faults' = faults + 1
        /\ StartGoto(p, "abort")
        /\ UNCHANGED rows
  /\ StartUnchanged /\ UNCHANGED <<manager, projStatus, cut>>

StopProject(p) ==
  /\ StartAt(p, "stopProject")
  /\ \/ Publish(p, "interrupted") /\ Withdraw(p) /\ UNCHANGED faults
     \/ /\ faults < MaxFaults /\ faults' = faults + 1
        /\ StartGoto(p, "abort")
        /\ UNCHANGED <<projStatus, manager>>
  /\ StartUnchanged /\ UNCHANGED <<rows, cut>>

AbortRow(p) ==
  /\ StartAt(p, "abort")
  /\ \/ /\ Write(start[p].exec, "interrupted")
        /\ StartGoto(p, "abortProject")
        /\ UNCHANGED <<manager, history>>
     \/ /\ faults < MaxFaults /\ faults' = faults + 1
        /\ cut' = cut \cup {start[p].exec}
        /\ Withdraw(p)
        /\ UNCHANGED rows
  /\ StartUnchanged /\ UNCHANGED projStatus

AbortProject(p) ==
  /\ StartAt(p, "abortProject")
  /\ \/ Publish(p, "interrupted") /\ UNCHANGED faults
     \/ faults < MaxFaults /\ faults' = faults + 1 /\ UNCHANGED projStatus
  /\ Withdraw(p)
  /\ StartUnchanged /\ UNCHANGED <<rows, cut>>

\* A database call before the row is this call's own raises: nothing to close
\* but, after a failed insert, a row that does not exist.
StartRaises(p) ==
  /\ process = "up" /\ faults < MaxFaults /\ faults' = faults + 1
  /\ \/ start[p].pc \in {"latest", "inspect", "claim", "reconcile", "reconcileProject"}
        /\ Withdraw(p)
     \/ start[p].pc = "create" /\ StartGoto(p, "abortProject") /\ UNCHANGED manager
  /\ StartUnchanged /\ UNCHANGED <<db, cut>>

StartStep(p) ==
  \/ Admit(p) \/ Reject(p) \/ Latest(p) \/ Inspect(p) \/ Claim(p)
  \/ Reconcile(p) \/ ReconcileProject(p) \/ Create(p) \/ PublishStart(p)
  \/ Schedule(p) \/ Stopped(p) \/ StopRow(p) \/ StopProject(p)
  \/ AbortRow(p) \/ AbortProject(p) \/ StartRaises(p)

-----------------------------------------------------------------------------
(***************************************************************************)
(* The background task: _run_scheduled around _run around run_agent_graph. *)
(***************************************************************************)
TaskAt(t, pc) == process = "up" /\ task[t].pc = pc

ProjectOf(t) == task[t].project
ExecOf(t) == task[t].exec

\* Mutant: the slot is released on the success path only.
EndKeepingSlot(t) ==
  /\ task' = [task EXCEPT ![t].pc = "done"]
  /\ registered' = [p \in Projects |-> IF registered[p] = t THEN None ELSE registered[p]]
  /\ UNCHANGED admitted
  /\ IF task[t].outcome = "success" THEN Gate!Release(t) ELSE UNCHANGED slots

\* finally of _run, release of the slot, finally of _run_scheduled: the
\* first has unregistered the task, so the last finds another task or none
\* and leaves _scheduled and _project_owners alone.
EndStarted(t) ==
  /\ task' = [task EXCEPT ![t].pc = "done"]
  /\ registered' = [p \in Projects |-> IF registered[p] = t THEN None ELSE registered[p]]
  /\ UNCHANGED admitted
  /\ Gate!Release(t)

\* The three pops made under "self._tasks.get(project_id) is task".
ForgetTask(t) ==
  IF registered[ProjectOf(t)] = t
  THEN /\ registered' = [registered EXCEPT ![ProjectOf(t)] = None]
       /\ admitted' = admitted \ {ProjectOf(t)}
  ELSE UNCHANGED <<registered, admitted>>

EndUnstarted(t, persisted) ==
  /\ task' = [task EXCEPT ![t].pc = "done", ![t].persisted = persisted]
  /\ ForgetTask(t)
  /\ UNCHANGED slots

Goto(t, pc) ==
  \/ pc \notin {"done", "persisted"} /\ task' = [task EXCEPT ![t].pc = pc]
     /\ UNCHANGED <<registered, admitted, slots>>
  \/ pc = "done" /\ task[t].started /\ EndStarted(t)
  \/ pc = "done" /\ ~task[t].started /\ EndUnstarted(t, task[t].persisted)
  \/ pc = "persisted" /\ EndUnstarted(t, TRUE)

TaskUnchanged ==
  UNCHANGED <<accepting, starting, deleting, start, waiter, deletion, process>>

(***************************************************************************)
(* One await of a task on the database.  It returns, raises, or the task   *)
(* is cancelled there; a cancelled statement may or may not have committed.*)
(* cut remembers an execution whose last closing write never happened.     *)
(***************************************************************************)
Closing == {"cancel1", "fail1"}
QueueClosing == {"expire1", "queueCancel1"}

Await(t, at, effect, ok, raised, onCancel) ==
  /\ TaskAt(t, at)
  /\ cancelled' = cancelled \ {t} /\ UNCHANGED expired
  /\ \/ /\ t \notin cancelled
        /\ effect /\ Goto(t, ok)
        /\ UNCHANGED history
     \/ /\ t \notin cancelled
        /\ faults < MaxFaults /\ faults' = faults + 1
        /\ UNCHANGED db /\ Goto(t, raised)
        /\ cut' = IF at \in Closing \cup QueueClosing THEN cut \cup {ExecOf(t)} ELSE cut
     \/ /\ t \in cancelled
        /\ effect \/ UNCHANGED db
        /\ Goto(t, onCancel)
        /\ cut' = IF at \in Closing /\ UNCHANGED db THEN cut \cup {ExecOf(t)} ELSE cut
        /\ UNCHANGED faults
  /\ TaskUnchanged

WriteRow(t, s) == Write(ExecOf(t), s) /\ UNCHANGED projStatus
PublishFor(t, s) == Publish(ProjectOf(t), s) /\ UNCHANGED rows

\* A task cancelled before its first step never enters _run_scheduled.
DieUnstarted(t) ==
  /\ TaskAt(t, "new") /\ t \in cancelled
  /\ task' = [task EXCEPT ![t].pc = "done"]
  /\ cancelled' = cancelled \ {t}
  /\ UNCHANGED <<registered, admitted, slots, expired, db, history>>
  /\ TaskUnchanged

EnterGate(t) ==
  /\ TaskAt(t, "new") /\ t \notin cancelled
  /\ UNCHANGED flags
  /\ IF Gate!SlotIsFree
     THEN /\ Gate!AcquireFree(t)
          /\ task' = [task EXCEPT ![t].pc = "markRunning", ![t].started = TRUE]
     ELSE IF Len(waiters) < MaxWaiters
     THEN Gate!JoinQueue(t) /\ task' = [task EXCEPT ![t].pc = "queued"]
     ELSE Gate!Refuse(t) /\ task' = [task EXCEPT ![t].pc = "expire1"]
  /\ UNCHANGED <<registered, admitted, db, history>>
  /\ TaskUnchanged

\* The queue deadline fires; the task learns of it at its next step.
QueueDeadline(t) ==
  /\ TaskAt(t, "queued") /\ t \notin expired
  /\ expired' = expired \cup {t}
  /\ UNCHANGED <<cancelled, registered, admitted, slots, task, db, history>>
  /\ TaskUnchanged

\* Mutant: acquire's finally block only clears the queue, although the slot
\* may have been handed over.
LeaveQueueKeepingSlot(t) ==
  /\ waiters' = SelectSeq(waiters, LAMBDA u : u # t)
  /\ stage' = [stage EXCEPT ![t] = "gaveUp"]
  /\ UNCHANGED available

LeaveQueueFor(t) == Gate!LeaveQueue(t) \/ Gate!ReturnHandoff(t)

Granted(t) ==
  /\ TaskAt(t, "queued")
  /\ UNCHANGED flags
  /\ Gate!Resume(t)
  /\ task' = [task EXCEPT ![t].pc = "markRunning", ![t].started = TRUE]
  /\ UNCHANGED <<registered, admitted, db, history>>
  /\ TaskUnchanged

\* Cancellation prevails when both are due.
LeaveGate(t) ==
  /\ TaskAt(t, "queued") /\ t \in cancelled \cup expired
  /\ task' = [task EXCEPT ![t].pc = IF t \in cancelled THEN "queueCancel" ELSE "expire1"]
  /\ cancelled' = cancelled \ {t} /\ expired' = expired \ {t}
  /\ LeaveQueueFor(t)
  /\ UNCHANGED <<registered, admitted, db, history>>
  /\ TaskUnchanged

\* Mutant: only the project learns that the queue deadline has passed.
ExpireProjectOnly(t) ==
  Await(t, "expire1", PublishFor(t, "interrupted"), "done", "done", "done")

\* Queue full or queue deadline: _persist_unscheduled_interruption.
ExpireRow(t) == Await(t, "expire1", WriteRow(t, "interrupted"), "expire2", "done", "done")
ExpireProject(t) == Await(t, "expire2", PublishFor(t, "interrupted"), "done", "done", "done")

(***************************************************************************)
(* _persist_queued_interruption runs under the execution's own lock, which *)
(* the task and the callers that cancelled it contend for.                 *)
(***************************************************************************)
InPersist == {"late1", "late2", "fin1", "fin2"}

LockFree(t) ==
  /\ task[t].pc \notin {"queueCancel1", "queueCancel2"}
  /\ \A a \in Actors : waiter[a].task = t => waiter[a].pc \notin InPersist

EnterQueueCancel(t) ==
  /\ TaskAt(t, "queueCancel")
  /\ \/ /\ LockFree(t)
        /\ Goto(t, IF task[t].persisted THEN "done" ELSE "queueCancel1")
        /\ UNCHANGED cancelled
     \/ /\ ~LockFree(t) /\ t \in cancelled
        /\ Goto(t, "done")
        /\ cancelled' = cancelled \ {t}
  /\ UNCHANGED <<expired, db, history>>
  /\ TaskUnchanged

QueueCancelRow(t) ==
  Await(t, "queueCancel1", WriteRow(t, "interrupted"), "queueCancel2", "done", "done")

\* Then interruption_persisted := True, release of the lock, end of the task.
QueueCancelProject(t) ==
  Await(t, "queueCancel2", PublishFor(t, "interrupted"), "persisted", "done", "done")

\* _run, up to the graph.
MarkRunning(t) == Await(t, "markRunning", WriteRow(t, "running"), "prepare", "fail1", "cancel1")

\* Policy and checkpointer reads; resuming without a checkpoint raises.
Prepare(t) ==
  LET lost == task[t].resume /\ rows[ExecOf(t)].ckpt = "missing"
  IN  Await(t, "prepare", UNCHANGED db, IF lost THEN "fail1" ELSE "publishRun",
            "fail1", "cancel1")

PublishRun(t) == Await(t, "publishRun", PublishFor(t, "running"), "graph", "fail1", "cancel1")

\* A super-step: its checkpoint is saved and the phase is published.
SuperStep(t) ==
  /\ rows' = [rows EXCEPT ![ExecOf(t)].ckpt = "runnable"]
  /\ Publish(ProjectOf(t), "running")

GraphStep(t) ==
  /\ TaskAt(t, "graph") /\ t \notin cancelled
  /\ SuperStep(t)
  /\ UNCHANGED <<registered, admitted, slots, flags, task, history>>
  /\ TaskUnchanged

\* CancelledError reaches whatever the graph is awaiting.
GraphInterrupted(t) ==
  /\ t \in cancelled
  /\ Await(t, "graph", SuperStep(t), "graph", "graph", "graphCancel")

\* The graph reaches END with a terminal state, or raises.
GraphEnd(t) ==
  /\ TaskAt(t, "graph") /\ t \notin cancelled
  /\ rows[ExecOf(t)].ckpt = "runnable"
  /\ \E result \in {"success", "failure"} :
       /\ rows' = [rows EXCEPT ![ExecOf(t)].ckpt = result]
       /\ task' = [task EXCEPT ![t].pc = "graphDone", ![t].outcome = result]
  /\ UNCHANGED <<registered, admitted, slots, flags, projStatus, history>>
  /\ TaskUnchanged

GraphRaises(t) ==
  /\ TaskAt(t, "graph") /\ t \notin cancelled
  /\ Goto(t, "graphFail")
  /\ UNCHANGED <<flags, db, history>>
  /\ TaskUnchanged

ProjectResult(t) == IF task[t].outcome = "success" THEN "completed" ELSE "failed"
RowResult(t) == IF task[t].outcome = "success" THEN "succeeded" ELSE "failed"

GraphDone(t) ==
  Await(t, "graphDone", PublishFor(t, ProjectResult(t)), "record", "graphFail", "graphCancel")

\* run_agent_graph's own handlers; a database error in the first turns the
\* cancellation into an ordinary failure.
GraphCancel(t) ==
  Await(t, "graphCancel", PublishFor(t, "interrupted"), "cancel1", "fail1", "cancel1")
GraphFail(t) == Await(t, "graphFail", PublishFor(t, "failed"), "fail1", "fail1", "cancel1")

\* _run, after the graph, and its handlers.
Record(t) == Await(t, "record", WriteRow(t, RowResult(t)), "recordProject", "fail1", "cancel1")
RecordProject(t) ==
  Await(t, "recordProject", PublishFor(t, ProjectResult(t)), "done", "fail1", "cancel1")

CancelRow(t) == Await(t, "cancel1", WriteRow(t, "interrupted"), "cancel2", "cancel2", "done")
CancelProject(t) == Await(t, "cancel2", PublishFor(t, "interrupted"), "done", "done", "done")

FailRow(t) == Await(t, "fail1", WriteRow(t, "failed"), "fail2", "fail2", "done")
FailProject(t) == Await(t, "fail2", PublishFor(t, "failed"), "done", "done", "done")

\* The steps the event loop owes a task; the queue deadline is not one.
TaskStep(t) ==
  \/ DieUnstarted(t) \/ EnterGate(t) \/ Granted(t) \/ LeaveGate(t)
  \/ ExpireRow(t) \/ ExpireProject(t)
  \/ EnterQueueCancel(t) \/ QueueCancelRow(t) \/ QueueCancelProject(t)
  \/ MarkRunning(t) \/ Prepare(t) \/ PublishRun(t)
  \/ GraphInterrupted(t) \/ GraphEnd(t) \/ GraphRaises(t) \/ GraphDone(t) \/ GraphCancel(t) \/ GraphFail(t)
  \/ Record(t) \/ RecordProject(t) \/ CancelRow(t) \/ CancelProject(t)
  \/ FailRow(t) \/ FailProject(t)

-----------------------------------------------------------------------------
(***************************************************************************)
(* Whoever cancels a task waits for it: _await_cancelled_task, called by   *)
(* cancel(), begin_project_deletion() and shutdown().                      *)
(***************************************************************************)
WaiterAt(a, pc) == process = "up" /\ waiter[a].pc = pc

WaiterGoto(a, pc) == waiter' = [waiter EXCEPT ![a].pc = pc]

\* task.cancel() asks nothing of a task that is done.
CancelTasks(S) == cancelled' = cancelled \cup {t \in S : Live(t)}

WaiterUnchanged ==
  UNCHANGED <<accepting, starting, deleting, slots, flags, start, deletion, process>>

Awaiting(a, t) == [waiter EXCEPT ![a] = [pc |-> "await", task |-> t]]

\* Leave _await_cancelled_task; drop what a task that never ran left behind.
StopWaiting(a) ==
  LET t == waiter[a].task IN
  /\ waiter' = [waiter EXCEPT ![a] = Resting]
  /\ IF Live(t) THEN UNCHANGED <<registered, admitted>> ELSE ForgetTask(t)

\* Mutant: the canceller leaves the row to a task that may never have run.
SkipFinally(a) == StopWaiting(a)

\* The finally block persists only for a task that never got its slot.
ToFinally(a) ==
  IF task[waiter[a].task].started
  THEN StopWaiting(a)
  ELSE WaiterGoto(a, "fin") /\ UNCHANGED <<registered, admitted>>

TaskEnded(a) ==
  /\ WaiterAt(a, "await") /\ ~Live(waiter[a].task)
  /\ ToFinally(a)
  /\ UNCHANGED <<task, db, history>>
  /\ WaiterUnchanged

CancelDeadline(a) ==
  /\ WaiterAt(a, "await") /\ Live(waiter[a].task)
  /\ WaiterGoto(a, "late")
  /\ UNCHANGED <<registered, admitted, task, db, history>>
  /\ WaiterUnchanged

\* _persist_queued_interruption as "late" (after the deadline, started or not)
\* and as "fin" (in the finally block).
PersistEnter(a) ==
  /\ WaiterAt(a, "late") \/ WaiterAt(a, "fin")
  /\ LockFree(waiter[a].task)
  /\ \/ /\ ~task[waiter[a].task].persisted
        /\ WaiterGoto(a, IF waiter[a].pc = "late" THEN "late1" ELSE "fin1")
        /\ UNCHANGED <<registered, admitted>>
     \/ task[waiter[a].task].persisted /\ waiter[a].pc = "late" /\ ToFinally(a)
     \/ task[waiter[a].task].persisted /\ waiter[a].pc = "fin" /\ StopWaiting(a)
  /\ UNCHANGED <<task, db, history>>
  /\ WaiterUnchanged

AfterPersist(a) ==
  IF waiter[a].pc \in {"late1", "late2"} THEN ToFinally(a) ELSE StopWaiting(a)

PersistRow(a) ==
  LET e == ExecOf(waiter[a].task) IN
  /\ WaiterAt(a, "late1") \/ WaiterAt(a, "fin1")
  /\ \/ /\ Write(e, "interrupted")
        /\ WaiterGoto(a, IF waiter[a].pc = "late1" THEN "late2" ELSE "fin2")
        /\ UNCHANGED <<registered, admitted, history>>
     \/ /\ faults < MaxFaults /\ faults' = faults + 1
        /\ cut' = IF waiter[a].pc = "fin1" THEN cut \cup {e} ELSE cut
        /\ AfterPersist(a)
        /\ UNCHANGED rows
  /\ UNCHANGED <<task, projStatus>>
  /\ WaiterUnchanged

PersistProject(a) ==
  LET t == waiter[a].task IN
  /\ WaiterAt(a, "late2") \/ WaiterAt(a, "fin2")
  /\ \/ /\ Publish(ProjectOf(t), "interrupted")
        /\ task' = [task EXCEPT ![t].persisted = TRUE]
        /\ UNCHANGED faults
     \/ /\ faults < MaxFaults /\ faults' = faults + 1
        /\ UNCHANGED <<projStatus, task>>
  /\ AfterPersist(a)
  /\ UNCHANGED <<rows, cut>>
  /\ WaiterUnchanged

WaiterStep(a) == TaskEnded(a) \/ PersistEnter(a) \/ PersistRow(a) \/ PersistProject(a)

\* cancel(), from POST /agent/{id}/pause.
Pause(a, p) ==
  /\ WaiterAt(a, "idle")
  /\ Live(registered[p])
  /\ CancelTasks({registered[p]})
  /\ waiter' = Awaiting(a, registered[p])
  /\ UNCHANGED <<manager, slots, expired, task, start, deletion, process, db, history>>

-----------------------------------------------------------------------------
(* delete_project_data, from DELETE /projects/{id}.                        *)

DeletionAt(p, pc) == process = "up" /\ deletion[p] = pc
DeletionGoto(p, pc) == deletion' = [deletion EXCEPT ![p] = pc]
DeletionUnchanged ==
  UNCHANGED <<accepting, registered, starting, admitted, slots, expired,
              task, start, process>>

BeginDeletion(p) ==
  /\ DeletionAt(p, "idle")
  /\ p \in Deletable /\ projStatus[p] # "deleted"
  /\ deleting' = deleting \cup {p}
  /\ \/ /\ registered[p] # None
        /\ CancelTasks({registered[p]})
        /\ waiter' = Awaiting(Deleter(p), registered[p])
        /\ DeletionGoto(p, "awaiting")
     \/ /\ registered[p] = None
        /\ DeletionGoto(p, "checkpoints")
        /\ UNCHANGED <<cancelled, waiter>>
  /\ DeletionUnchanged /\ UNCHANGED <<db, history>>

DeletionAwaited(p) ==
  /\ DeletionAt(p, "awaiting") /\ waiter[Deleter(p)].pc = "idle"
  /\ DeletionGoto(p, "checkpoints")
  /\ DeletionUnchanged /\ UNCHANGED <<deleting, cancelled, waiter, db, history>>

DeleteCheckpoints(p) ==
  /\ DeletionAt(p, "checkpoints")
  /\ rows' = [e \in ExecIds |-> IF rows[e].project = p
                                THEN [rows[e] EXCEPT !.ckpt = "missing"] ELSE rows[e]]
  /\ DeletionGoto(p, "rows")
  /\ DeletionUnchanged /\ UNCHANGED <<deleting, cancelled, waiter, projStatus, faults, cut>>

\* One transaction; the project row takes its executions with it.
DeleteRows(p) ==
  /\ DeletionAt(p, "rows")
  /\ rows' = [e \in ExecIds |-> IF rows[e].project = p
                                THEN [rows[e] EXCEPT !.status = "deleted"] ELSE rows[e]]
  /\ projStatus' = [projStatus EXCEPT ![p] = "deleted"]
  /\ DeletionGoto(p, "end")
  /\ DeletionUnchanged /\ UNCHANGED <<deleting, cancelled, waiter, faults, cut>>

\* Either call raises; only the barrier is taken back.
DeletionFails(p) ==
  /\ DeletionAt(p, "checkpoints") \/ DeletionAt(p, "rows")
  /\ faults < MaxFaults /\ faults' = faults + 1
  /\ DeletionGoto(p, "end")
  /\ DeletionUnchanged /\ UNCHANGED <<deleting, cancelled, waiter, db, cut>>

EndDeletion(p) ==
  /\ DeletionAt(p, "end")
  /\ deleting' = deleting \ {p}
  /\ DeletionGoto(p, "idle")
  /\ DeletionUnchanged /\ UNCHANGED <<cancelled, waiter, db, history>>

DeletionStep(p) ==
  DeletionAwaited(p) \/ DeleteCheckpoints(p) \/ DeleteRows(p) \/ DeletionFails(p) \/ EndDeletion(p)

-----------------------------------------------------------------------------
(* shutdown(), the end of the process, and the next startup.               *)

Shutdown ==
  /\ MayStop /\ process = "up" /\ accepting
  /\ accepting' = FALSE
  /\ CancelTasks({registered[p] : p \in {q \in Projects : registered[q] # None}})
  /\ waiter' = [a \in Actors |->
                 IF \E p \in Projects : a = Stopper(p) /\ registered[p] # None
                 THEN [pc |-> "await",
                       task |-> registered[CHOOSE p \in Projects : a = Stopper(p)]]
                 ELSE waiter[a]]
  /\ UNCHANGED <<registered, starting, admitted, deleting, slots, expired,
                 task, start, deletion, process, db, history>>

\* Every task has been awaited, within the deadline or not.
ClearManager ==
  /\ process = "up" /\ ~accepting
  /\ \A p \in Projects : waiter[Stopper(p)].pc = "idle"
  /\ \E p \in Projects : registered[p] # None \/ p \in starting \cup admitted \cup deleting
  /\ registered' = [p \in Projects |-> None]
  /\ starting' = {} /\ admitted' = {} /\ deleting' = {}
  /\ UNCHANGED <<accepting, slots, flags, pcs, db, history>>

\* A crash, or the exit after shutdown: everything in memory is gone.
ProcessEnds ==
  /\ MayStop /\ process = "up"
  /\ process' = "down"
  /\ accepting' = FALSE
  /\ registered' = [p \in Projects |-> None]
  /\ starting' = {} /\ admitted' = {} /\ deleting' = {}
  /\ cancelled' = {} /\ expired' = {}
  /\ available' = Capacity /\ waiters' = <<>>
  /\ stage' = [t \in TaskIds |-> "idle"]
  /\ task' = [t \in TaskIds |-> IF Live(t) THEN [task[t] EXCEPT !.pc = "done"] ELSE task[t]]
  /\ start' = [p \in Projects |-> NoStart]
  /\ waiter' = [a \in Actors |-> Resting]
  /\ deletion' = [p \in Projects |-> "idle"]
  /\ UNCHANGED <<db, history>>

\* cleanup_stale_agent_executions, and a version that keeps to its docstring.
StaleRunning(e) == rows[e].status = "running"
Stale(e) == rows[e].status \in Active

\* _cleanup_stale_executions, before the application serves: two independent
\* transactions, each of which only logs its failure.
Startup ==
  /\ process = "down"
  /\ process' = "up" /\ accepting' = TRUE
  /\ \E projectsFail, rowsFail \in BOOLEAN :
       /\ faults' = faults + Cardinality({i \in {1, 2} : <<projectsFail, rowsFail>>[i]})
       /\ faults' <= MaxFaults
       /\ projStatus' = [p \in Projects |->
             IF ~projectsFail /\ projStatus[p] = "running" THEN "interrupted" ELSE projStatus[p]]
       /\ rows' = [e \in ExecIds |->
             IF ~rowsFail /\ Stale(e)
             THEN [rows[e] EXCEPT !.status = "interrupted"] ELSE rows[e]]
       /\ cut' = {e \in ExecIds : rowsFail /\ rows[e].status \in Active}
  /\ UNCHANGED <<registered, starting, admitted, deleting, slots, flags,
                 task, start, waiter, deletion>>

-----------------------------------------------------------------------------
Next ==
  \/ \E p \in Projects : (\E resume \in BOOLEAN : Request(p, resume)) \/ StartStep(p)
  \/ \E t \in TaskIds : TaskStep(t) \/ GraphStep(t) \/ QueueDeadline(t)
  \/ \E a \in Pausers, p \in Projects : Pause(a, p)
  \/ \E a \in Actors : WaiterStep(a) \/ CancelDeadline(a)
  \/ \E p \in Projects : BeginDeletion(p) \/ DeletionStep(p)
  \/ Shutdown \/ ClearManager \/ ProcessEnds \/ Startup

Spec == Init /\ [][Next]_vars

(***************************************************************************)
(* The event loop runs what is ready and the database answers; the graph   *)
(* ends (every provider call has a time-out and the recursion is bounded). *)
(* Users, deadlines and failures owe nothing.  A process that went down    *)
(* comes back.                                                             *)
(***************************************************************************)
FairSpec ==
  /\ Spec
  /\ \A p \in Projects : WF_vars(StartStep(p)) /\ WF_vars(DeletionStep(p))
  /\ \A t \in TaskIds : WF_vars(TaskStep(t))
  /\ \A a \in Actors : WF_vars(WaiterStep(a))
  /\ WF_vars(Startup)

-----------------------------------------------------------------------------
TaskPCs ==
  {"unborn", "new", "queued", "expire1", "expire2", "queueCancel", "queueCancel1",
   "queueCancel2", "markRunning", "prepare", "publishRun", "graph", "graphDone",
   "graphCancel", "graphFail", "record", "recordProject", "cancel1", "cancel2",
   "fail1", "fail2", "done"}

StartPCs ==
  {"idle", "requested", "latest", "inspect", "claim", "reconcile", "reconcileProject",
   "create", "publish", "schedule", "stop", "stopProject", "abort", "abortProject"}

TypeOK ==
  /\ accepting \in BOOLEAN
  /\ registered \in [Projects -> TaskIds \cup {None}]
  /\ starting \subseteq Projects /\ admitted \subseteq Projects /\ deleting \subseteq Projects
  /\ available \in 0..Capacity
  /\ waiters \in Seq(TaskIds)
  /\ stage \in [TaskIds -> Gate!Stages]
  /\ cancelled \subseteq TaskIds /\ expired \subseteq TaskIds
  /\ \A t \in TaskIds : task[t].pc \in TaskPCs /\ task[t].exec \in ExecIds \cup {None}
  /\ \A p \in Projects : start[p].pc \in StartPCs /\ start[p].exec \in ExecIds \cup {None}
  /\ \A a \in Actors : /\ waiter[a].pc \in {"idle", "await", "late", "fin"} \cup InPersist
                       /\ waiter[a].pc # "idle" => waiter[a].task \in TaskIds
  /\ \A e \in ExecIds :
       /\ rows[e].status \in Active \cup Resumable \cup {"absent", "succeeded", "deleted"}
       /\ rows[e].ckpt \in {"missing", "runnable", "success", "failure"}

LiveTasks == {t \in TaskIds : Live(t)}

\* Two tasks never work on one project, so no checkpoint thread and no
\* project row has two writers: the lock, the registration and the barriers
\* of start() exclude it, although start() awaits between its checks.
OneTaskPerProject ==
  \A t, u \in LiveTasks : ProjectOf(t) = ProjectOf(u) => t = u

\* However a run ends - result, error, pause, queue deadline, deletion,
\* shutdown, a second cancellation during the first one's cleanup - its slot
\* is back in the gate and its future is out of the queue.  Types are part of it.
NoSlotLeak ==
  /\ TypeOK
  /\ \A t \in TaskIds : stage[t] \in {"waiting", "granted", "holding"} => Live(t)

\* Somebody is still going to close a pending or running row, unless its
\* closing write itself failed or was cancelled: the row never outlives
\* start() call, task and canceller.
Owned(e) ==
  \/ \E p \in Projects : start[p].exec = e /\ start[p].pc \in {"publish", "schedule", "stop", "abort"}
  \/ \E t \in LiveTasks : ExecOf(t) = e
  \/ \E a \in Actors : /\ waiter[a].pc \in {"await", "late", "late1", "fin", "fin1"}
                       /\ ExecOf(waiter[a].task) = e /\ ~task[waiter[a].task].started

ActiveRowsOwned ==
  process = "up" =>
    \A e \in ExecIds : rows[e].status \in Active => Owned(e) \/ e \in cut

\* Work that reached END is never run again: no resume, whatever raced with
\* it, takes a terminal checkpoint back to a runnable one.
TerminalCheckpointsStay ==
  [][\A e \in ExecIds : rows[e].ckpt \in {"success", "failure"} => rows'[e].ckpt # "runnable"]_vars

\* Every pending or running row is eventually closed - across pauses,
\* deadlines, shutdowns and crashes - or its closing write was cut.
RowsSettle ==
  \A e \in ExecIds : rows[e].status \in Active ~> (rows[e].status \notin Active \/ e \in cut)

\* Every step the tasks take on the gate is a step of the gate's own module,
\* so what is proved there of slots and queue holds for Agent runs.
UsesGate == Gate!Spec

-----------------------------------------------------------------------------
(* What the code's own comments say and its steps do not keep.             *)

\* "retry after active work completes": once a project has no start(), no
\* task and nobody closing one, it takes no place in the admission count.
AdmissionDrains ==
  \A p \in admitted :
    \/ start[p].pc # "idle"
    \/ \E t \in LiveTasks : ProjectOf(t) = p
    \/ \E a \in Actors : waiter[a].pc # "idle" /\ ProjectOf(waiter[a].task) = p

\* "Count starts in progress so concurrent HTTP requests cannot over-admit."
StartsCounted == starting \subseteq admitted

\* "Block new starts": no task is created for a project already deleted.
NoTaskAfterDeletion ==
  [][\A p \in Projects :
       projStatus[p] = "deleted" => registered'[p] \in {registered[p], None}]_vars

\* A pause request that reports success has waited for the execution to be
\* recorded as interrupted (or as already finished).
PauseSettles ==
  [][\A a \in Pausers :
       waiter[a].pc = "await" /\ waiter'[a].pc = "idle" /\ process' = "up" =>
         rows[ExecOf(waiter[a].task)].status \notin Active]_vars
=============================================================================
