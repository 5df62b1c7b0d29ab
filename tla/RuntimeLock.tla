----------------------------- MODULE RuntimeLock -----------------------------
(***************************************************************************)
(* The singleton lock of agents/checkpoint.py: several API processes share *)
(* one database, and a PostgreSQL session lock is to let only one of them  *)
(* run Agents.  The server may drop a lock session at any time and give    *)
(* the lock to another process; the old one learns of it by its next ping  *)
(* and fences itself.                                                      *)
(*                                                                         *)
(* One project; its executions are numbered in the order of their rows.    *)
(* The run manager is reduced to what the lock, the fence and the cleanup  *)
(* at startup touch: AgentRuntime has the rest.                            *)
(***************************************************************************)
EXTENDS Naturals

CONSTANTS Procs, Execs, None

ASSUME LockAssumption == Execs \subseteq Nat /\ None \notin Procs \cup Execs

VARIABLES
  holder,     \* the process whose session owns the lock, at the server
  session,    \* _runtime_lock_connection, and whether the server dropped it
  lost,       \* _runtime_lock_lost
  phase,      \* where each process is in its lifespan
  accepting,  \* AgentRunManager._accepting
  start,      \* one start() call of each process
  task,       \* the background task of each execution in each process
  rows        \* agent_executions.status

lockVars == <<holder, session, lost, phase, accepting, start, task, rows>>

Active == {"pending", "running"}
Resumable == {"interrupted", "failed"}
NoStart == [pc |-> "idle", exec |-> None]

LockInit ==
  /\ holder = None
  /\ session = [p \in Procs |-> "none"]
  /\ lost = [p \in Procs |-> FALSE]
  /\ phase = [p \in Procs |-> "down"]
  /\ accepting = [p \in Procs |-> FALSE]
  /\ start = [p \in Procs |-> NoStart]
  /\ task = [p \in Procs |-> [e \in Execs |-> "none"]]
  /\ rows = [e \in Execs |-> "unused"]

Goto(p, next) == phase' = [phase EXCEPT ![p] = next]
Write(e, status) == rows' = [rows EXCEPT ![e] = status]

\* The end of a session, by unlock, close or exit, frees the lock.
EndSession(p) ==
  /\ session' = [session EXCEPT ![p] = "none"]
  /\ holder' = IF holder = p THEN None ELSE holder

\* Tasks that a shutdown waits for.
Unfinished == {"new", "graph", "cancelled"}

\* shutdown(): no new work, and every registered task is cancelled.
StopRuns(p) ==
  /\ accepting' = [accepting EXCEPT ![p] = FALSE]
  /\ task' = [task EXCEPT ![p] =
                [e \in Execs |-> IF @[e] \in {"new", "graph"} THEN "cancelled" ELSE @[e]]]

-----------------------------------------------------------------------------
(* Startup: initialize_checkpointer, then the stale rows, then requests.   *)

Boot(p) ==
  /\ phase[p] = "down"
  /\ Goto(p, "locking")
  /\ UNCHANGED <<holder, session, lost, accepting, start, task, rows>>

\* _acquire_runtime_lock: pg_try_advisory_lock, or the startup fails.
TryLock(p) ==
  /\ phase[p] = "locking"
  /\ \/ /\ holder = None
        /\ holder' = p
        /\ session' = [session EXCEPT ![p] = "open"]
        /\ Goto(p, "setup")
     \/ /\ holder # None
        /\ Goto(p, "down")
        /\ UNCHANGED <<holder, session>>
  /\ UNCHANGED <<lost, accepting, start, task, rows>>

\* Mutant: a failure after the lock was taken leaves its session open.
SetupFailsHolding(p) ==
  /\ phase[p] = "setup"
  /\ Goto(p, "down")
  /\ UNCHANGED <<holder, session, lost, accepting, start, task, rows>>

\* Schema, saver or graph raise: the lock is released first.
SetupFails(p) ==
  /\ phase[p] = "setup"
  /\ EndSession(p)
  /\ Goto(p, "down")
  /\ UNCHANGED <<lost, accepting, start, task, rows>>

\* The monitor starts here; the manager accepts work once requests arrive.
FinishSetup(p) ==
  /\ phase[p] = "setup"
  /\ lost' = [lost EXCEPT ![p] = FALSE]
  /\ accepting' = [accepting EXCEPT ![p] = TRUE]
  /\ Goto(p, "cleanup")
  /\ UNCHANGED <<holder, session, start, task, rows>>

\* _cleanup_stale_executions; its failure is only logged.
CleanUp(p) ==
  /\ phase[p] = "cleanup"
  /\ \/ rows' = [e \in Execs |-> IF rows[e] \in Active THEN "interrupted" ELSE rows[e]]
     \/ UNCHANGED rows
  /\ Goto(p, "serving")
  /\ UNCHANGED <<holder, session, lost, accepting, start, task>>

-----------------------------------------------------------------------------
(* The session is lost, and the process learns of it.                      *)

\* The server ends the backend, restarts, or gives the connection up.
DropSession(p) ==
  /\ session[p] = "open"
  /\ session' = [session EXCEPT ![p] = "dead"]
  /\ holder' = None
  /\ UNCHANGED <<lost, phase, accepting, start, task, rows>>

\* Mutant: the loss is noted but nothing is cancelled.
NoteLoss(p) ==
  /\ phase[p] \in {"cleanup", "serving", "closing"}
  /\ session[p] = "dead" /\ ~lost[p]
  /\ lost' = [lost EXCEPT ![p] = TRUE]
  /\ accepting' = [accepting EXCEPT ![p] = FALSE]
  /\ UNCHANGED <<holder, session, phase, start, task, rows>>

\* check_runtime_lock_health fails, for the monitor, /health or a start():
\* _handle_runtime_lock_loss, once.
Fence(p) ==
  /\ phase[p] \in {"cleanup", "serving", "closing"}
  /\ session[p] = "dead" /\ ~lost[p]
  /\ lost' = [lost EXCEPT ![p] = TRUE]
  /\ StopRuns(p)
  /\ UNCHANGED <<holder, session, phase, start, rows>>

-----------------------------------------------------------------------------
(* start(): the ping, the admission, the row and the task, with awaits     *)
(* between them.                                                           *)

CheckLock(p) ==
  /\ phase[p] = "serving" /\ accepting[p]
  /\ session[p] = "open" /\ ~lost[p]
  /\ start[p].pc = "idle"
  /\ start' = [start EXCEPT ![p].pc = "checked"]
  /\ UNCHANGED <<holder, session, lost, phase, accepting, task, rows>>

Admit(p) ==
  /\ start[p].pc = "checked"
  /\ IF accepting[p] /\ \A e \in Execs : task[p][e] = "none"
     THEN start' = [start EXCEPT ![p].pc = "admitted"]
     ELSE start' = [start EXCEPT ![p] = NoStart]
  /\ UNCHANGED <<holder, session, lost, phase, accepting, task, rows>>

\* The rows before e are used and those after it are not.
Newest(e) == \A f \in Execs : rows[f] # "unused" <=> f <= e
Oldest(e) == \A f \in Execs : rows[f] = "unused" <=> f >= e

\* A new row, or the claim of the latest one; the partial unique index admits
\* one active row.
Prepare(p) ==
  /\ start[p].pc = "admitted"
  /\ \/ /\ \A f \in Execs : rows[f] \notin Active
        /\ \E e \in Execs :
             /\ Oldest(e) \/ (Newest(e) /\ rows[e] \in Resumable)
             /\ Write(e, "pending")
             /\ start' = [start EXCEPT ![p] = [pc |-> "schedule", exec |-> e]]
     \/ start' = [start EXCEPT ![p] = NoStart] /\ UNCHANGED rows
  /\ UNCHANGED <<holder, session, lost, phase, accepting, task>>

\* Mutant: shutdown is not looked for again before the task is registered.
ScheduleUnchecked(p) ==
  /\ start[p].pc = "schedule"
  /\ task' = [task EXCEPT ![p][start[p].exec] = "new"]
  /\ start' = [start EXCEPT ![p] = NoStart]
  /\ UNCHANGED <<holder, session, lost, phase, accepting, rows>>

\* "Never schedule new work after shutdown has begun": the row is closed.
Schedule(p) ==
  /\ start[p].pc = "schedule"
  /\ LET e == start[p].exec IN
       \/ /\ accepting[p]
          /\ task' = [task EXCEPT ![p][e] = "new"]
          /\ UNCHANGED rows
       \/ /\ ~accepting[p]
          /\ Write(e, "interrupted")
          /\ UNCHANGED task
  /\ start' = [start EXCEPT ![p] = NoStart]
  /\ UNCHANGED <<holder, session, lost, phase, accepting>>

-----------------------------------------------------------------------------
(* The task.  It writes its row by id, whoever has closed it meanwhile.    *)

RunGraph(p, e) ==
  /\ task[p][e] = "new"
  /\ task' = [task EXCEPT ![p][e] = "graph"]
  /\ Write(e, "running")
  /\ UNCHANGED <<holder, session, lost, phase, accepting, start>>

GraphEnds(p, e) ==
  /\ task[p][e] = "graph"
  /\ task' = [task EXCEPT ![p][e] = "none"]
  /\ \E status \in {"succeeded", "failed"} : Write(e, status)
  /\ UNCHANGED <<holder, session, lost, phase, accepting, start>>

CancelledEnds(p, e) ==
  /\ task[p][e] \in {"cancelled", "lingering"}
  /\ task' = [task EXCEPT ![p][e] = "none"]
  /\ Write(e, "interrupted")
  /\ UNCHANGED <<holder, session, lost, phase, accepting, start>>

\* _await_cancelled_task gives up on a task that drains provider work.
CancelDeadline(p, e) ==
  /\ task[p][e] = "cancelled"
  /\ task' = [task EXCEPT ![p][e] = "lingering"]
  /\ Write(e, "interrupted")
  /\ UNCHANGED <<holder, session, lost, phase, accepting, start>>

-----------------------------------------------------------------------------
(* The end: the run manager is closed before the checkpointer.             *)

\* The server is told to stop, or the startup raises after the lock.
BeginClose(p) ==
  /\ phase[p] \in {"cleanup", "serving"}
  /\ StopRuns(p)
  /\ Goto(p, "closing")
  /\ UNCHANGED <<holder, session, lost, start, rows>>

\* Mutant: the checkpointer is closed first.
ReleaseEarly(p) ==
  /\ phase[p] = "closing"
  /\ EndSession(p)
  /\ lost' = [lost EXCEPT ![p] = FALSE]
  /\ Goto(p, "released")
  /\ UNCHANGED <<accepting, start, task, rows>>

\* close_checkpointer, when close_agent_run_manager has waited for the tasks.
Release(p) ==
  /\ phase[p] = "closing"
  /\ \A e \in Execs : task[p][e] \notin Unfinished
  /\ EndSession(p)
  /\ lost' = [lost EXCEPT ![p] = FALSE]
  /\ Goto(p, "released")
  /\ UNCHANGED <<accepting, start, task, rows>>

\* The exit, or a crash at any time; the server ends the session of a process
\* that is gone.
ProcessEnds(p) ==
  /\ phase[p] # "down"
  /\ Goto(p, "down")
  /\ EndSession(p)
  /\ lost' = [lost EXCEPT ![p] = FALSE]
  /\ accepting' = [accepting EXCEPT ![p] = FALSE]
  /\ start' = [start EXCEPT ![p] = NoStart]
  /\ task' = [task EXCEPT ![p] = [e \in Execs |-> "none"]]
  /\ UNCHANGED rows

-----------------------------------------------------------------------------
Lifespan(p) ==
  \/ Boot(p) \/ TryLock(p) \/ SetupFails(p) \/ FinishSetup(p) \/ CleanUp(p)
  \/ BeginClose(p) \/ Release(p) \/ ProcessEnds(p)

StartStep(p) == CheckLock(p) \/ Admit(p) \/ Prepare(p) \/ Schedule(p)

TaskStep(p, e) ==
  RunGraph(p, e) \/ GraphEnds(p, e) \/ CancelledEnds(p, e) \/ CancelDeadline(p, e)

LockNext ==
  \E p \in Procs :
    \/ Lifespan(p) \/ DropSession(p) \/ Fence(p) \/ StartStep(p)
    \/ \E e \in Execs : TaskStep(p, e)

LockSpec == LockInit /\ [][LockNext]_lockVars

\* The monitor pings every five seconds, and a cancelled task comes to an end.
\* Nothing obliges the server to keep a session or an operator to restart.
LockFairSpec ==
  /\ LockSpec
  /\ \A p \in Procs : WF_lockVars(Fence(p))
  /\ \A p \in Procs, e \in Execs : WF_lockVars(CancelledEnds(p, e))

-----------------------------------------------------------------------------
\* A start() that goes to schedule has a row.
Starts == [pc : {"idle", "checked", "admitted"}, exec : {None}]
            \cup [pc : {"schedule"}, exec : Execs]

Statuses == {"unused", "succeeded"} \cup Active \cup Resumable

\* The values of the variables.
LockTypeOK ==
  /\ holder \in Procs \cup {None}
  /\ session \in [Procs -> {"none", "open", "dead"}]
  /\ lost \in [Procs -> BOOLEAN]
  /\ phase \in [Procs -> {"down", "locking", "setup", "cleanup", "serving", "closing",
                          "released"}]
  /\ accepting \in [Procs -> BOOLEAN]
  /\ start \in [Procs -> Starts]
  /\ task \in [Procs -> [Execs -> {"none", "new", "graph", "cancelled", "lingering"}]]
  /\ rows \in [Execs -> Statuses]

\* A process that runs Agents owns the lock, except while the server has
\* dropped its session and it does not yet know or still drains; only a task
\* that outlived the cancellation deadline runs without a session.
LockCoversRuns ==
  \A p \in Procs, e \in Execs :
    task[p][e] \in Unfinished => holder = p \/ session[p] = "dead"

\* A fenced or closing process runs nothing that was not cancelled, whatever
\* start() calls were under way when the fence came down.
FencedIsQuiet ==
  \A p \in Procs, e \in Execs :
    lost[p] \/ phase[p] \in {"closing", "released"} => task[p][e] \notin {"new", "graph"}

\* However a startup fails or a process ends, the next one can have the lock.
LockIsReturned ==
  \A p \in Procs : phase[p] \in {"down", "locking", "released"} => holder # p

\* The loss of the lock session drains the process.
LossDrains ==
  \A p \in Procs :
    session[p] = "dead" ~> \A e \in Execs : task[p][e] = "none"

\* docs/architecture.md:228: the advisory lock makes one Agent API instance of
\* the whole database, and the unique index is the last defence against
\* executing twice.
NoDuplicateExecution ==
  \A e \in Execs, p, q \in Procs :
    task[p][e] = "graph" /\ task[q][e] = "graph" => p = q
=============================================================================
