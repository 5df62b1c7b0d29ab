----------------------------- MODULE ServerProofs ----------------------------
(***************************************************************************)
(* What the API process owes to others: to the processes that share its    *)
(* database (RuntimeLock) and to the pages that read its event stream      *)
(* (SseStream).  The two components share no state; each has its           *)
(* invariant here, for any number of processes, executions and pages.      *)
(***************************************************************************)
EXTENDS RuntimeLock, SseStream, SequenceTheorems, FiniteSetTheorems, TLAPS

(***************************************************************************)
(* RuntimeLock: who runs Agents under the lock, what a fence stops, and    *)
(* that the lock comes back.                                               *)
(***************************************************************************)

\* The server's view of the lock and the processes' views of their sessions.
HolderIsOpen == \A p \in Procs : session[p] = "open" <=> holder = p

\* A process has a session exactly from the acquisition to the release.
PhaseHasSession ==
  \A p \in Procs : phase[p] \in {"down", "locking", "released"} <=> session[p] = "none"

AcceptingIsSound ==
  \A p \in Procs : accepting[p] => phase[p] \in {"cleanup", "serving"} /\ ~lost[p]

\* Why a fence that comes between the steps of a start() suffices: a task that
\* nobody cancelled belongs to a manager that accepts work.
TasksAreOwned ==
  \A p \in Procs, e \in Execs :
    /\ task[p][e] \in {"new", "graph"} => accepting[p]
    /\ task[p][e] \in Unfinished => phase[p] \in {"cleanup", "serving", "closing"}

LockInv == LockTypeOK /\ HolderIsOpen /\ PhaseHasSession /\ AcceptingIsSound /\ TasksAreOwned

-----------------------------------------------------------------------------
(* One lemma for each action.                                              *)

\* The values of start, in the form the provers want.
LEMMA StartValues ==
  ASSUME LockTypeOK, NEW p \in Procs
  PROVE  /\ start[p].pc # "schedule" => /\ start[p].pc \in {"idle", "checked", "admitted"}
                                        /\ start[p].exec = None
         /\ start[p].pc = "schedule" => start[p].exec \in Execs
  BY DEF LockTypeOK, Starts

\* A process starts.
LEMMA BootKeepsInv ==
  ASSUME LockInv, NEW p \in Procs, Boot(p)
  PROVE  LockInv'
<1>1. LockTypeOK'
  BY DEF LockInv, LockTypeOK, Boot, Goto
<1>2. HolderIsOpen' /\ PhaseHasSession'
  BY DEF LockInv, LockTypeOK, HolderIsOpen, PhaseHasSession, Boot, Goto
<1>3. AcceptingIsSound' /\ TasksAreOwned'
  BY DEF LockInv, LockTypeOK, AcceptingIsSound, TasksAreOwned, Unfinished, Boot,
         Goto
<1>. QED  BY <1>1, <1>2, <1>3 DEF LockInv

\* A process asks the server for the lock.
LEMMA TryLockKeepsInv ==
  ASSUME LockInv, NEW p \in Procs, TryLock(p)
  PROVE  LockInv'
<1>1. LockTypeOK'
  BY DEF LockInv, LockTypeOK, TryLock, Goto
<1>2. HolderIsOpen' /\ PhaseHasSession'
  BY LockAssumption DEF LockInv, LockTypeOK, HolderIsOpen, PhaseHasSession,
         TryLock, Goto
<1>3. AcceptingIsSound' /\ TasksAreOwned'
  BY DEF LockInv, LockTypeOK, AcceptingIsSound, TasksAreOwned, Unfinished,
         TryLock, Goto
<1>. QED  BY <1>1, <1>2, <1>3 DEF LockInv

\* Its setup fails with the lock taken.
LEMMA SetupFailsKeepsInv ==
  ASSUME LockInv, NEW p \in Procs, SetupFails(p)
  PROVE  LockInv'
<1>1. LockTypeOK'
  BY DEF LockInv, LockTypeOK, SetupFails, EndSession, Goto
<1>2. HolderIsOpen' /\ PhaseHasSession'
  BY LockAssumption DEF LockInv, LockTypeOK, HolderIsOpen, PhaseHasSession,
         SetupFails, EndSession, Goto
<1>3. AcceptingIsSound' /\ TasksAreOwned'
  BY DEF LockInv, LockTypeOK, AcceptingIsSound, TasksAreOwned, Unfinished,
         SetupFails, EndSession, Goto
<1>. QED  BY <1>1, <1>2, <1>3 DEF LockInv

\* Setup is over and the manager admits starts.
LEMMA FinishSetupKeepsInv ==
  ASSUME LockInv, NEW p \in Procs, FinishSetup(p)
  PROVE  LockInv'
<1>1. LockTypeOK'
  BY DEF LockInv, LockTypeOK, FinishSetup, Goto
<1>2. HolderIsOpen' /\ PhaseHasSession'
  BY DEF LockInv, LockTypeOK, HolderIsOpen, PhaseHasSession, FinishSetup, Goto
<1>3. AcceptingIsSound' /\ TasksAreOwned'
  BY DEF LockInv, LockTypeOK, AcceptingIsSound, TasksAreOwned, Unfinished,
         FinishSetup, Goto
<1>. QED  BY <1>1, <1>2, <1>3 DEF LockInv

\* The rows of an earlier process are closed, or closing them fails.
LEMMA CleanUpKeepsInv ==
  ASSUME LockInv, NEW p \in Procs, CleanUp(p)
  PROVE  LockInv'
<1>1. LockTypeOK'
  BY DEF LockInv, LockTypeOK, Statuses, Active, Resumable, CleanUp, Goto
<1>2. HolderIsOpen' /\ PhaseHasSession'
  BY DEF LockInv, LockTypeOK, HolderIsOpen, PhaseHasSession, CleanUp, Goto
<1>3. AcceptingIsSound' /\ TasksAreOwned'
  BY DEF LockInv, LockTypeOK, AcceptingIsSound, TasksAreOwned, Unfinished,
         CleanUp, Goto
<1>. QED  BY <1>1, <1>2, <1>3 DEF LockInv

\* The server drops its session.
LEMMA DropSessionKeepsInv ==
  ASSUME LockInv, NEW p \in Procs, DropSession(p)
  PROVE  LockInv'
<1>1. LockTypeOK'
  BY DEF LockInv, LockTypeOK, DropSession
<1>2. HolderIsOpen' /\ PhaseHasSession'
  BY LockAssumption DEF LockInv, LockTypeOK, HolderIsOpen, PhaseHasSession,
         DropSession
<1>3. AcceptingIsSound' /\ TasksAreOwned'
  BY DEF LockInv, LockTypeOK, AcceptingIsSound, TasksAreOwned, Unfinished,
         DropSession
<1>. QED  BY <1>1, <1>2, <1>3 DEF LockInv

\* The monitor notices and fences the manager.
LEMMA FenceKeepsInv ==
  ASSUME LockInv, NEW p \in Procs, Fence(p)
  PROVE  LockInv'
<1>1. LockTypeOK'
  BY DEF LockInv, LockTypeOK, Fence, StopRuns
<1>2. HolderIsOpen' /\ PhaseHasSession'
  BY DEF LockInv, HolderIsOpen, PhaseHasSession, Fence, StopRuns
<1>3. AcceptingIsSound' /\ TasksAreOwned'
  BY DEF LockInv, LockTypeOK, AcceptingIsSound, TasksAreOwned, Unfinished, Fence,
         StopRuns
<1>. QED  BY <1>1, <1>2, <1>3 DEF LockInv

\* A start() pings the lock.
LEMMA CheckLockKeepsInv ==
  ASSUME LockInv, NEW p \in Procs, CheckLock(p)
  PROVE  LockInv'
<1>1. LockTypeOK'
  BY DEF LockInv, LockTypeOK, NoStart, Starts, CheckLock
<1>2. HolderIsOpen' /\ PhaseHasSession'
  BY DEF LockInv, HolderIsOpen, PhaseHasSession, CheckLock
<1>3. AcceptingIsSound' /\ TasksAreOwned'
  BY DEF LockInv, LockTypeOK, AcceptingIsSound, TasksAreOwned, Unfinished,
         CheckLock
<1>. QED  BY <1>1, <1>2, <1>3 DEF LockInv

\* It is admitted.
LEMMA AdmitKeepsInv ==
  ASSUME LockInv, NEW p \in Procs, Admit(p)
  PROVE  LockInv'
<1>1. start' \in [Procs -> Starts]
  <2>1. PICK next \in {NoStart, [start[p] EXCEPT !.pc = "admitted"]} :
          start' = [start EXCEPT ![p] = next]
    BY DEF LockInv, LockTypeOK, Admit
  <2>2. next \in Starts
    BY StartValues DEF LockInv, LockTypeOK, NoStart, Starts, Admit
  <2>. QED  BY <2>1, <2>2 DEF LockInv, LockTypeOK
<1>2. LockTypeOK'
  BY <1>1 DEF LockInv, LockTypeOK, Admit
<1>3. HolderIsOpen' /\ PhaseHasSession'
  BY DEF LockInv, HolderIsOpen, PhaseHasSession, Admit
<1>4. AcceptingIsSound' /\ TasksAreOwned'
  BY DEF LockInv, AcceptingIsSound, TasksAreOwned, Admit
<1>. QED  BY <1>2, <1>3, <1>4 DEF LockInv

\* It has its row.
LEMMA PrepareKeepsInv ==
  ASSUME LockInv, NEW p \in Procs, Prepare(p)
  PROVE  LockInv'
<1>1. start' \in [Procs -> Starts]
  <2>1. NoStart \in Starts /\ \A e \in Execs : [pc |-> "schedule", exec |-> e] \in Starts
    BY DEF NoStart, Starts
  <2>. QED  BY <2>1 DEF LockInv, LockTypeOK, Prepare
<1>2. rows' \in [Execs -> Statuses]
  BY DEF LockInv, LockTypeOK, Statuses, Active, Resumable, Prepare, Write
<1>3. LockTypeOK'
  BY <1>1, <1>2 DEF LockInv, LockTypeOK, Prepare
<1>4. HolderIsOpen' /\ PhaseHasSession'
  BY DEF LockInv, HolderIsOpen, PhaseHasSession, Prepare
<1>5. AcceptingIsSound' /\ TasksAreOwned'
  BY DEF LockInv, LockTypeOK, AcceptingIsSound, TasksAreOwned, Unfinished, Prepare
<1>. QED  BY <1>3, <1>4, <1>5 DEF LockInv

\* It registers its task, or finds the manager closed.
LEMMA ScheduleKeepsInv ==
  ASSUME LockInv, NEW p \in Procs, Schedule(p)
  PROVE  LockInv'
<1>. DEFINE e == start[p].exec
<1>1. e \in Execs
  BY StartValues DEF LockInv, Schedule
<1>2. start' \in [Procs -> Starts]
  <2>1. NoStart \in Starts
    BY DEF NoStart, Starts
  <2>. QED  BY <2>1 DEF LockInv, LockTypeOK, Schedule
<1>3. task' \in [Procs -> [Execs -> {"none", "new", "graph", "cancelled", "lingering"}]]
  <2>1. task' = task \/ task' = [task EXCEPT ![p] = [task[p] EXCEPT ![e] = "new"]]
    BY DEF Schedule
  <2>2. [task[p] EXCEPT ![e] = "new"]
          \in [Execs -> {"none", "new", "graph", "cancelled", "lingering"}]
    BY <1>1 DEF LockInv, LockTypeOK
  <2>. QED  BY <2>1, <2>2 DEF LockInv, LockTypeOK
<1>4. rows' \in [Execs -> Statuses]
  BY <1>1 DEF LockInv, LockTypeOK, Statuses, Active, Resumable, Schedule, Write
<1>5. LockTypeOK'
  BY <1>2, <1>3, <1>4 DEF LockInv, LockTypeOK, Schedule
<1>6. HolderIsOpen' /\ PhaseHasSession'
  BY DEF LockInv, HolderIsOpen, PhaseHasSession, Schedule
<1>7. AcceptingIsSound' /\ TasksAreOwned'
  BY <1>1 DEF LockInv, LockTypeOK, AcceptingIsSound, TasksAreOwned, Unfinished, Schedule
<1>. QED  BY <1>5, <1>6, <1>7 DEF LockInv

\* A task takes up its work.
LEMMA RunGraphKeepsInv ==
  ASSUME LockInv, NEW p \in Procs, NEW e \in Execs, RunGraph(p, e)
  PROVE  LockInv'
<1>1. LockTypeOK'
  BY DEF LockInv, LockTypeOK, Statuses, Active, Resumable, RunGraph, Write
<1>2. HolderIsOpen' /\ PhaseHasSession'
  BY DEF LockInv, HolderIsOpen, PhaseHasSession, RunGraph
<1>3. AcceptingIsSound' /\ TasksAreOwned'
  BY DEF LockInv, LockTypeOK, AcceptingIsSound, TasksAreOwned, Unfinished,
         RunGraph
<1>. QED  BY <1>1, <1>2, <1>3 DEF LockInv

\* A task ends by itself.
LEMMA GraphEndsKeepsInv ==
  ASSUME LockInv, NEW p \in Procs, NEW e \in Execs, GraphEnds(p, e)
  PROVE  LockInv'
<1>1. LockTypeOK'
  BY DEF LockInv, LockTypeOK, Statuses, Active, Resumable, GraphEnds, Write
<1>2. HolderIsOpen' /\ PhaseHasSession'
  BY DEF LockInv, HolderIsOpen, PhaseHasSession, GraphEnds
<1>3. AcceptingIsSound' /\ TasksAreOwned'
  BY DEF LockInv, LockTypeOK, AcceptingIsSound, TasksAreOwned, Unfinished,
         GraphEnds
<1>. QED  BY <1>1, <1>2, <1>3 DEF LockInv

\* A cancelled task comes to its end.
LEMMA CancelledEndsKeepsInv ==
  ASSUME LockInv, NEW p \in Procs, NEW e \in Execs, CancelledEnds(p, e)
  PROVE  LockInv'
<1>1. LockTypeOK'
  BY DEF LockInv, LockTypeOK, Statuses, Active, Resumable, CancelledEnds, Write
<1>2. HolderIsOpen' /\ PhaseHasSession'
  BY DEF LockInv, HolderIsOpen, PhaseHasSession, CancelledEnds
<1>3. AcceptingIsSound' /\ TasksAreOwned'
  BY DEF LockInv, LockTypeOK, AcceptingIsSound, TasksAreOwned, Unfinished,
         CancelledEnds
<1>. QED  BY <1>1, <1>2, <1>3 DEF LockInv

\* A canceller stops waiting for the task.
LEMMA CancelDeadlineKeepsInv ==
  ASSUME LockInv, NEW p \in Procs, NEW e \in Execs, CancelDeadline(p, e)
  PROVE  LockInv'
<1>1. LockTypeOK'
  BY DEF LockInv, LockTypeOK, Statuses, Active, Resumable, CancelDeadline, Write
<1>2. HolderIsOpen' /\ PhaseHasSession'
  BY DEF LockInv, HolderIsOpen, PhaseHasSession, CancelDeadline
<1>3. AcceptingIsSound' /\ TasksAreOwned'
  BY DEF LockInv, LockTypeOK, AcceptingIsSound, TasksAreOwned, Unfinished,
         CancelDeadline
<1>. QED  BY <1>1, <1>2, <1>3 DEF LockInv

\* The manager is closed and cancels its tasks.
LEMMA BeginCloseKeepsInv ==
  ASSUME LockInv, NEW p \in Procs, BeginClose(p)
  PROVE  LockInv'
<1>1. LockTypeOK'
  BY DEF LockInv, LockTypeOK, BeginClose, StopRuns, Goto
<1>2. HolderIsOpen' /\ PhaseHasSession'
  BY DEF LockInv, LockTypeOK, HolderIsOpen, PhaseHasSession, BeginClose, StopRuns,
         Goto
<1>3. AcceptingIsSound' /\ TasksAreOwned'
  BY DEF LockInv, LockTypeOK, AcceptingIsSound, TasksAreOwned, Unfinished,
         BeginClose, StopRuns, Goto
<1>. QED  BY <1>1, <1>2, <1>3 DEF LockInv

\* The lock is given back.
LEMMA ReleaseKeepsInv ==
  ASSUME LockInv, NEW p \in Procs, Release(p)
  PROVE  LockInv'
<1>1. LockTypeOK'
  BY DEF LockInv, LockTypeOK, Release, EndSession, Goto
<1>2. HolderIsOpen' /\ PhaseHasSession'
  BY LockAssumption DEF LockInv, LockTypeOK, HolderIsOpen, PhaseHasSession,
         Release, EndSession, Goto
<1>3. AcceptingIsSound' /\ TasksAreOwned'
  BY DEF LockInv, LockTypeOK, AcceptingIsSound, TasksAreOwned, Unfinished,
         Release, EndSession, Goto
<1>. QED  BY <1>1, <1>2, <1>3 DEF LockInv

\* The process exits or dies.
LEMMA ProcessEndsKeepsInv ==
  ASSUME LockInv, NEW p \in Procs, ProcessEnds(p)
  PROVE  LockInv'
<1>1. LockTypeOK'
  BY DEF LockInv, LockTypeOK, NoStart, Starts, ProcessEnds, EndSession, Goto
<1>2. HolderIsOpen' /\ PhaseHasSession'
  BY LockAssumption DEF LockInv, LockTypeOK, HolderIsOpen, PhaseHasSession,
         ProcessEnds, EndSession, Goto
<1>3. AcceptingIsSound' /\ TasksAreOwned'
  BY DEF LockInv, LockTypeOK, AcceptingIsSound, TasksAreOwned, Unfinished,
         ProcessEnds, EndSession, Goto
<1>. QED  BY <1>1, <1>2, <1>3 DEF LockInv

\* Nothing happens.
LEMMA StutterKeepsInv ==
  ASSUME LockInv, UNCHANGED lockVars
  PROVE  LockInv'
BY DEF LockInv, LockTypeOK, HolderIsOpen, PhaseHasSession, AcceptingIsSound, TasksAreOwned,
       lockVars

-----------------------------------------------------------------------------
(* The invariant and what follows from it.                                 *)

\* Every reachable state of any number of processes: sessions, lifespans,
\* fences and tasks fit together.
THEOREM LockInvariant == LockSpec => []LockInv
<1>1. LockInit => LockInv
  BY LockAssumption
     DEF LockInit, NoStart, Starts, Statuses, Active, Unfinished, LockInv, LockTypeOK,
         HolderIsOpen, PhaseHasSession, AcceptingIsSound, TasksAreOwned
<1>2. LockInv /\ [LockNext]_lockVars => LockInv'
  <2>. SUFFICES ASSUME LockInv, [LockNext]_lockVars PROVE LockInv'
    OBVIOUS
  <2>1. CASE \E p \in Procs : Lifespan(p)
    BY <2>1, BootKeepsInv, TryLockKeepsInv, SetupFailsKeepsInv, FinishSetupKeepsInv,
       CleanUpKeepsInv, BeginCloseKeepsInv, ReleaseKeepsInv, ProcessEndsKeepsInv DEF Lifespan
  <2>2. CASE \E p \in Procs : DropSession(p) \/ Fence(p)
    BY <2>2, DropSessionKeepsInv, FenceKeepsInv
  <2>3. CASE \E p \in Procs : StartStep(p)
    BY <2>3, CheckLockKeepsInv, AdmitKeepsInv, PrepareKeepsInv, ScheduleKeepsInv DEF StartStep
  <2>4. CASE \E p \in Procs, e \in Execs : TaskStep(p, e)
    BY <2>4, RunGraphKeepsInv, GraphEndsKeepsInv, CancelledEndsKeepsInv,
       CancelDeadlineKeepsInv DEF TaskStep
  <2>5. CASE UNCHANGED lockVars
    BY <2>5, StutterKeepsInv
  <2>. QED  BY <2>1, <2>2, <2>3, <2>4, <2>5 DEF LockNext
<1>. QED  BY <1>1, <1>2, PTL DEF LockSpec

\* Type correctness: a start() that goes on to schedule a task has a row.
THEOREM LockTypes == LockSpec => []LockTypeOK
<1>1. LockInv => LockTypeOK
  BY DEF LockInv
<1>. QED  BY <1>1, LockInvariant, PTL

\* A process that runs Agents, and has not let them linger, owns the lock or
\* has a session that the server dropped.
THEOREM RunsAreCovered == LockSpec => []LockCoversRuns
<1>1. LockInv => LockCoversRuns
  BY DEF LockInv, LockTypeOK, HolderIsOpen, PhaseHasSession, TasksAreOwned, Unfinished,
         LockCoversRuns
<1>. QED  BY <1>1, LockInvariant, PTL

\* No start() under way slips a task past the fence or the shutdown.
THEOREM FenceHolds == LockSpec => []FencedIsQuiet
<1>1. LockInv => FencedIsQuiet
  BY DEF LockInv, LockTypeOK, AcceptingIsSound, TasksAreOwned, FencedIsQuiet
<1>. QED  BY <1>1, LockInvariant, PTL

\* A failed startup, a shutdown or a crash leaves the lock to the next process.
THEOREM LockComesBack == LockSpec => []LockIsReturned
<1>1. LockInv => LockIsReturned
  BY DEF LockInv, HolderIsOpen, PhaseHasSession, LockIsReturned
<1>. QED  BY <1>1, LockInvariant, PTL

-----------------------------------------------------------------------------
(***************************************************************************)
(* SseStream: a page has one live connection exactly while its effect is   *)
(* reading (OneLiveStream), and no later event displaces a terminal one    *)
(* from a queue (TerminalSurvives).                                        *)
(*                                                                         *)
(* The inductive invariant says it from both sides: a connection that its  *)
(* page still reads is in the manager and its page's stream is open, and a *)
(* page whose stream is open has such a connection, and no second one.     *)
(***************************************************************************)

Queues == {q \in Seq(Event) : Len(q) <= QueueSize}
Places == [client : Clients \cup {"nobody"}, peer : BOOLEAN, queue : Queues,
           at : {"free", "check", "wait"}]

\* What holds of one place: a free one is empty, one that is read has an open page.
PlaceOK(p, streams) ==
    /\ p \in Places
    /\ p.at = "free" => p.queue = <<>> /\ ~p.peer
    /\ p.peer => p.client \in Clients /\ streams[p.client] = "open"
PlaceInv == \A k \in Conns : PlaceOK(conn[k], stream)

Reads(k, c) == conn[k].peer /\ conn[k].client = c
LinkInv == \A c \in Clients :
    /\ stream[c] = "open" => \E k \in Conns : Reads(k, c)
    /\ \A j, k \in Conns : Reads(j, c) /\ Reads(k, c) => j = k
    /\ stream[c] # "off" => view[c] = "running"

StreamInv == TypeOK /\ PlaceInv /\ LinkInv

-----------------------------------------------------------------------------
(* The queue of a connection *)

\* Taking the head off a queue that is not empty.
LEMMA TailOfQueue ==
    ASSUME NEW q \in Queues, q # <<>>
    PROVE  /\ Head(q) \in Event /\ Tail(q) \in Queues
           /\ HasTerminal(q) /\ Head(q) \notin Terminal => HasTerminal(Tail(q))
<1>1. q \in Seq(Event) /\ Len(q) <= QueueSize /\ QueueSize \in Nat
  BY SseAssumption DEF Queues
<1>2. /\ Head(q) \in Event /\ Tail(q) \in Seq(Event) /\ Len(Tail(q)) = Len(q) - 1
      /\ \A i \in 1..Len(Tail(q)) : Tail(q)[i] = q[i + 1]
      /\ Len(q) \in Nat \ {0} /\ Head(q) = q[1]
  BY <1>1, HeadTailProperties, EmptySeq
<1>3. ASSUME NEW i \in DOMAIN q, q[i] \in Terminal, Head(q) \notin Terminal
      PROVE  HasTerminal(Tail(q))
  <2>1. i \in 1..Len(q) /\ i # 1
    BY <1>1, <1>2, <1>3
  <2>2. i - 1 \in DOMAIN Tail(q) /\ Tail(q)[i - 1] = q[i]
    BY <1>2, <2>1
  <2> QED BY <1>3, <2>2 DEF HasTerminal
<1> QED BY <1>1, <1>2, <1>3 DEF HasTerminal, Queues

\* An event appended to a queue comes after the others.
LEMMA AppendedEvent ==
    ASSUME NEW q \in Seq(Event), NEW e \in Event
    PROVE  /\ Append(q, e) \in Seq(Event) /\ Len(Append(q, e)) = Len(q) + 1
           /\ e \in Terminal \/ HasTerminal(q) => HasTerminal(Append(q, e))
<1>1. /\ Append(q, e) \in Seq(Event) /\ Len(Append(q, e)) = Len(q) + 1 /\ Len(q) \in Nat
      /\ \A i \in 1..Len(q) : Append(q, e)[i] = q[i]
      /\ Append(q, e)[Len(q) + 1] = e
  BY AppendProperties, LenProperties
<1>2. DOMAIN q = 1..Len(q) /\ DOMAIN Append(q, e) = 1..Len(q) + 1
  BY <1>1, LenProperties
<1> QED BY <1>1, <1>2 DEF HasTerminal

\* send_event keeps the bound of the queue and, once the queue holds a terminal
\* event, a terminal event: a full queue gives up its head, unless that is the
\* terminal one and the newcomer is not.
LEMMA PutKeeps ==
    ASSUME NEW q \in Queues, NEW e \in Event
    PROVE  /\ Put(q, e) \in Queues
           /\ HasTerminal(q) => HasTerminal(Put(q, e))
<1>1. q \in Seq(Event) /\ Len(q) \in Nat /\ Len(q) <= QueueSize /\ QueueSize \in Nat \ {0}
  BY SseAssumption, LenProperties DEF Queues
<1>2. CASE Len(q) < QueueSize
  BY <1>1, <1>2, AppendedEvent DEF Put, Queues
<1>3. CASE Len(q) = QueueSize
  <2>1. q # <<>>
    BY <1>1, <1>3
  <2>2. Len(Tail(q)) = Len(q) - 1
    BY <1>1, <2>1
  <2>3. ASSUME NEW x \in Event
        PROVE  /\ Append(Tail(q), x) \in Queues
               /\ x \in Terminal \/ HasTerminal(Tail(q)) => HasTerminal(Append(Tail(q), x))
    <3>1. Tail(q) \in Seq(Event)
      BY <2>1, TailOfQueue DEF Queues
    <3>2. /\ Append(Tail(q), x) \in Seq(Event) /\ Len(Append(Tail(q), x)) = Len(Tail(q)) + 1
          /\ x \in Terminal \/ HasTerminal(Tail(q)) => HasTerminal(Append(Tail(q), x))
      BY <3>1, AppendedEvent
    <3> QED BY <1>1, <1>3, <2>2, <3>2 DEF Queues
  <2>4. /\ Head(q) \in Event
        /\ HasTerminal(q) /\ Head(q) \notin Terminal => HasTerminal(Tail(q))
    BY <2>1, TailOfQueue
  <2>5. Put(q, e) = IF e = "progress" /\ Head(q) \in Terminal
                    THEN Append(Tail(q), Head(q)) ELSE Append(Tail(q), e)
    BY <1>1, <1>3 DEF Put
  <2>6. e = "progress" \/ e \in Terminal
    BY DEF Event
  <2>7. CASE e = "progress" /\ Head(q) \in Terminal
    <3>1. Put(q, e) = Append(Tail(q), Head(q))
      BY <2>5, <2>7
    <3> QED BY <2>3, <2>4, <2>7, <3>1
  <2>8. CASE ~(e = "progress" /\ Head(q) \in Terminal)
    <3>1. Put(q, e) = Append(Tail(q), e)
      BY <2>5, <2>8
    <3> QED BY <2>3, <2>4, <2>6, <2>8, <3>1
  <2> QED BY <2>7, <2>8
<1> QED BY <1>1, <1>2, <1>3

-----------------------------------------------------------------------------
(* What a step may do to connections and pages *)

StreamStates == {"off", "connecting", "open", "delay", "ended"}
ViewStates == Shown \cup {"none", "loading", "error"}

PageTypes == stream \in [Clients -> StreamStates] /\ view \in [Clients -> ViewStates]
StepOK == /\ PageTypes' /\ conn' \in [Conns -> Places]
          /\ PlaceInv' /\ LinkInv' /\ \A k \in Conns : TerminalStays(k)

\* The parts of the type invariant.
LEMMA Types ==
    ASSUME TypeOK
    PROVE  /\ PageTypes /\ conn \in [Conns -> Places]
           /\ fetch \in [Clients -> Shown \cup {"none", "asked"}]
           /\ exec \in ExecStatus
  BY DEF TypeOK, PageTypes, StreamStates, ViewStates, Places, Queues

\* The status of an execution row is one the pages know.
LEMMA StatusIsShown ==
    ASSUME NEW s \in ExecStatus
    PROVE  PublicStatus(s) \in Shown
<1>1. CASE s = "none"
  BY <1>1 DEF PublicStatus, Shown
<1>2. CASE s = "succeeded"
  BY <1>2 DEF PublicStatus, Shown
<1>3. CASE s \in {"running", "failed", "interrupted"}
  <2>1. PublicStatus(s) = s
    BY <1>3 DEF PublicStatus
  <2> QED BY <1>3, <2>1 DEF Shown
<1> QED BY <1>1, <1>2, <1>3 DEF ExecStatus

\* Most steps leave connections and pages alone.
LEMMA QuietStep ==
    ASSUME StreamInv, UNCHANGED <<conn, stream, view>>
    PROVE  StepOK
<1>1. PageTypes /\ conn \in [Conns -> Places] /\ PlaceInv /\ LinkInv
  BY Types DEF StreamInv
<1>2. PageTypes' /\ conn' \in [Conns -> Places] /\ PlaceInv' /\ LinkInv'
  BY <1>1 DEF PageTypes, PlaceInv, LinkInv, Reads
<1>3. \A k \in Conns : TerminalStays(k)
  BY DEF TerminalStays
<1> QED BY <1>2, <1>3 DEF StepOK

\* An event is put in every queue: who reads it stays the same.
LEMMA SendStep ==
    ASSUME StreamInv, NEW e \in Event, Send(e), UNCHANGED <<stream, view>>
    PROVE  StepOK
<1>1. PageTypes /\ conn \in [Conns -> Places] /\ PlaceInv /\ LinkInv
  BY Types DEF StreamInv
<1>2. ASSUME NEW k \in Conns
      PROVE  /\ conn'[k] \in Places
             /\ conn'[k].peer = conn[k].peer /\ conn'[k].client = conn[k].client
             /\ conn'[k].at = conn[k].at
             /\ IF k \in Connected THEN conn'[k].queue = Put(conn[k].queue, e)
                                   ELSE conn'[k].queue = conn[k].queue
  <2>1. conn[k] \in Places /\ conn[k].queue \in Queues
    BY <1>1 DEF Places
  <2>2. Put(conn[k].queue, e) \in Queues
    BY <2>1, PutKeeps
  <2>3. conn'[k] = IF k \in Connected THEN [conn[k] EXCEPT !.queue = Put(conn[k].queue, e)]
                                      ELSE conn[k]
    BY DEF Send
  <2> QED BY <2>1, <2>2, <2>3 DEF Places
<1>3. conn' \in [Conns -> Places]
  BY <1>2 DEF Send
<1>4. PlaceInv'
  BY <1>1, <1>2 DEF PlaceInv, PlaceOK, Connected
<1>5. LinkInv'
  BY <1>1, <1>2 DEF LinkInv, Reads
<1>6. ASSUME NEW k \in Conns PROVE TerminalStays(k)
  <2>1. conn[k].queue \in Queues
    BY <1>1 DEF Places
  <2> QED BY <1>2, <2>1, PutKeeps DEF TerminalStays
<1> QED BY <1>1, <1>3, <1>4, <1>5, <1>6 DEF StepOK, PageTypes

\* A page changes and its connection does not: what it shows and whether it reads
\* still agree.
LEMMA PageStep ==
    ASSUME StreamInv, NEW c \in Clients, NEW s \in StreamStates, NEW v \in ViewStates,
           s = "open" <=> stream[c] = "open", s # "off" => v = "running",
           UNCHANGED conn, stream' = [stream EXCEPT ![c] = s], view' = [view EXCEPT ![c] = v]
    PROVE  StepOK
<1>1. PageTypes /\ conn \in [Conns -> Places] /\ PlaceInv /\ LinkInv
  BY Types DEF StreamInv
<1>2. PageTypes' /\ conn' \in [Conns -> Places]
  BY <1>1 DEF PageTypes
<1>3. \A d \in Clients : /\ stream'[d] = IF d = c THEN s ELSE stream[d]
                         /\ view'[d] = IF d = c THEN v ELSE view[d]
  BY <1>1 DEF PageTypes
<1>4. PlaceInv'
  BY <1>1, <1>3 DEF PlaceInv, PlaceOK
<1>5. LinkInv'
  BY <1>1, <1>3 DEF LinkInv, Reads
<1>6. \A k \in Conns : TerminalStays(k)
  BY DEF TerminalStays
<1> QED BY <1>2, <1>4, <1>5, <1>6 DEF StepOK

\* A page gives up its connection: nothing is left that it reads.
LEMMA HangupStep ==
    ASSUME StreamInv, NEW c \in Clients, NEW s \in StreamStates, NEW v \in ViewStates,
           s # "open", s # "off" => v = "running", Hangup({c}),
           stream' = [stream EXCEPT ![c] = s], view' = [view EXCEPT ![c] = v]
    PROVE  StepOK
<1>1. PageTypes /\ conn \in [Conns -> Places] /\ PlaceInv /\ LinkInv
  BY Types DEF StreamInv
<1>2. \A d \in Clients : /\ stream'[d] = IF d = c THEN s ELSE stream[d]
                         /\ view'[d] = IF d = c THEN v ELSE view[d]
  BY <1>1 DEF PageTypes
<1>3. ASSUME NEW k \in Conns
      PROVE  /\ conn'[k] \in Places
             /\ conn'[k].client = conn[k].client /\ conn'[k].queue = conn[k].queue
             /\ conn'[k].at = conn[k].at
             /\ conn'[k].peer <=> conn[k].peer /\ conn[k].client # c
  <2>1. conn[k] \in Places
    BY <1>1
  <2>2. conn'[k] = IF conn[k].client \in {c} THEN [conn[k] EXCEPT !.peer = FALSE] ELSE conn[k]
    BY DEF Hangup
  <2> QED BY <2>1, <2>2 DEF Places
<1>4. conn' \in [Conns -> Places]
  BY <1>3 DEF Hangup
<1>5. PlaceInv'
  BY <1>1, <1>2, <1>3 DEF PlaceInv, PlaceOK
<1>6. LinkInv'
  BY <1>1, <1>2, <1>3 DEF LinkInv, Reads
<1>7. \A k \in Conns : TerminalStays(k)
  BY <1>3 DEF TerminalStays
<1>8. PageTypes'
  BY <1>1 DEF PageTypes
<1> QED BY <1>4, <1>5, <1>6, <1>7, <1>8 DEF StepOK

-----------------------------------------------------------------------------
(* The steps that place, serve and end connections *)

\* While fewer than MaxConns places are taken, there is a free one.
LEMMA FreePlace ==
    ASSUME Cardinality(Connected) < MaxConns
    PROVE  \E j \in Conns : j \notin Connected
<1>1. MaxConns \in Nat \ {0}
  BY SseAssumption
<1>2. Connected \subseteq Conns /\ Cardinality(Conns) = MaxConns
  BY <1>1, FS_Interval DEF Connected, Conns
<1>3. Connected # Conns
  BY <1>1, <1>2
<1> QED BY <1>2, <1>3

\* The loop of a connection looks whether its reader is gone.
LEMMA CheckReaderStep ==
    ASSUME StreamInv, NEW k \in Conns, CheckReader(k)
    PROVE  StepOK
<1>1. PageTypes /\ conn \in [Conns -> Places] /\ PlaceInv /\ LinkInv
  BY Types DEF StreamInv
<1>2. conn[k] \in Places /\ conn[k].at = "check"
  BY <1>1 DEF CheckReader
<1>3. conn' = [conn EXCEPT ![k] = IF conn[k].peer THEN [conn[k] EXCEPT !.at = "wait"] ELSE Free]
  BY <1>1 DEF CheckReader
<1>4. CASE conn[k].peer
  <2>1. conn' = [conn EXCEPT ![k] = [conn[k] EXCEPT !.at = "wait"]]
    BY <1>3, <1>4
  <2>2. /\ conn'[k] \in Places /\ conn'[k].at = "wait" /\ conn'[k].queue = conn[k].queue
        /\ conn'[k].client = conn[k].client /\ conn'[k].peer = conn[k].peer
    BY <1>1, <1>2, <2>1 DEF Places
  <2>3. \A j \in Conns : j # k => conn'[j] = conn[j]
    BY <1>1, <2>1
  <2> QED BY <1>1, <2>1, <2>2, <2>3
          DEF StepOK, PageTypes, PlaceInv, PlaceOK, LinkInv, Reads, TerminalStays, CheckReader, page
<1>5. CASE ~conn[k].peer
  <2>1. conn' = [conn EXCEPT ![k] = Free]
    BY <1>3, <1>5
  <2>2. <<>> \in Queues
    BY SseAssumption, EmptySeq DEF Queues
  <2>3. /\ conn'[k] \in Places /\ conn'[k].at = "free" /\ conn'[k].queue = <<>> /\ ~conn'[k].peer
        /\ \A j \in Conns : j # k => conn'[j] = conn[j]
    BY <1>1, <2>1, <2>2 DEF Places, Free
  <2> QED BY <1>1, <1>5, <2>1, <2>3
          DEF StepOK, PageTypes, PlaceInv, PlaceOK, LinkInv, Reads, TerminalStays, CheckReader, page
<1> QED BY <1>4, <1>5

\* A connection that waits in vain writes a heartbeat.
LEMMA HeartbeatStep ==
    ASSUME StreamInv, NEW k \in Conns, Heartbeat(k)
    PROVE  StepOK
<1>1. PageTypes /\ conn \in [Conns -> Places] /\ PlaceInv /\ LinkInv
  BY Types DEF StreamInv
<1>2. conn[k] \in Places /\ conn[k].at = "wait"
  BY <1>1 DEF Heartbeat
<1>3. conn' = [conn EXCEPT ![k] = [conn[k] EXCEPT !.at = "check"]]
  BY <1>1 DEF Heartbeat
<1>4. /\ conn'[k] \in Places /\ conn'[k].at = "check" /\ conn'[k].queue = conn[k].queue
      /\ conn'[k].client = conn[k].client /\ conn'[k].peer = conn[k].peer
  BY <1>1, <1>2, <1>3 DEF Places
<1>5. \A j \in Conns : j # k => conn'[j] = conn[j]
  BY <1>1, <1>3
<1> QED BY <1>1, <1>3, <1>4, <1>5
        DEF StepOK, PageTypes, PlaceInv, PlaceOK, LinkInv, Reads, TerminalStays, Heartbeat, page

\* The event leaves the queue; if it is terminal and read, the page's stream ends
\* together with its connection.
LEMMA DeliverStep ==
    ASSUME StreamInv, NEW k \in Conns, Deliver(k)
    PROVE  StepOK /\ fetch' \in [Clients -> Shown \cup {"none", "asked"}]
<1> DEFINE e == Head(conn[k].queue)
           ends == conn[k].peer /\ e \in Terminal
           after == [client |-> conn[k].client, peer |-> conn[k].peer /\ ~ends,
                     queue |-> Tail(conn[k].queue), at |-> "check"]
<1>1. /\ PageTypes /\ conn \in [Conns -> Places] /\ PlaceInv /\ LinkInv
      /\ fetch \in [Clients -> Shown \cup {"none", "asked"}]
  BY Types DEF StreamInv
<1>2. /\ conn[k] \in Places /\ conn[k].at = "wait" /\ conn[k].queue # <<>>
      /\ conn[k].queue \in Queues
  BY <1>1 DEF Deliver, Places
<1>3. Tail(conn[k].queue) \in Queues
  BY <1>2, TailOfQueue
<1>4. conn' = [conn EXCEPT ![k] = after]
  BY <1>1, <1>2 DEF Deliver, Places
<1>5. after \in Places
  BY <1>2, <1>3 DEF Places
<1>6. /\ conn' \in [Conns -> Places]
      /\ conn'[k].at = "check" /\ conn'[k].queue = Tail(conn[k].queue)
      /\ conn'[k].client = conn[k].client /\ (conn'[k].peer <=> conn[k].peer /\ ~ends)
      /\ \A j \in Conns : j # k => conn'[j] = conn[j]
  BY <1>1, <1>4, <1>5
<1>7. \A j \in Conns : TerminalStays(j)
  <2>1. HasTerminal(conn[k].queue) => e \in Terminal \/ HasTerminal(Tail(conn[k].queue))
    BY <1>2, TailOfQueue
  <2> QED BY <1>6, <2>1 DEF TerminalStays
<1>8. CASE ends
  <2>1. /\ conn[k].client \in Clients /\ stream[conn[k].client] = "open"
        /\ view[conn[k].client] = "running"
    BY <1>1, <1>8 DEF PlaceInv, PlaceOK, LinkInv
  <2>2. /\ stream' = [stream EXCEPT ![conn[k].client] = "ended"]
        /\ fetch' = [fetch EXCEPT ![conn[k].client] = "asked"] /\ view' = view
    BY <1>8 DEF Deliver
  <2>3. PageTypes' /\ fetch' \in [Clients -> Shown \cup {"none", "asked"}]
    BY <1>1, <2>2 DEF PageTypes, StreamStates
  <2>4. \A d \in Clients : stream'[d] = IF d = conn[k].client THEN "ended" ELSE stream[d]
    BY <1>1, <2>2 DEF PageTypes
  <2>5. PlaceInv'
    BY <1>1, <1>5, <1>6, <1>8, <2>1, <2>4 DEF PlaceInv, PlaceOK, LinkInv, Reads
  <2>6. LinkInv'
    BY <1>1, <1>6, <1>8, <2>1, <2>2, <2>4 DEF LinkInv, Reads
  <2> QED BY <1>6, <1>7, <2>3, <2>5, <2>6 DEF StepOK
<1>9. CASE ~ends
  <2>1. UNCHANGED <<stream, fetch, view>>
    BY <1>9 DEF Deliver
  <2>2. PlaceInv' /\ LinkInv'
    BY <1>1, <1>6, <1>9, <2>1 DEF PlaceInv, PlaceOK, LinkInv, Reads
  <2> QED BY <1>1, <1>6, <1>7, <2>1, <2>2 DEF StepOK, PageTypes
<1> QED BY <1>8, <1>9

\* A page that is connecting has no connection; it gets a free place or none.
LEMMA ConnectStep ==
    ASSUME StreamInv, NEW c \in Clients, Connect(c)
    PROVE  StepOK
<1>1. PageTypes /\ conn \in [Conns -> Places] /\ PlaceInv /\ LinkInv
  BY Types DEF StreamInv
<1>2. stream[c] = "connecting" /\ view[c] = "running" /\ view' = view
  BY <1>1 DEF Connect, LinkInv
<1>3. CASE Cardinality(Connected) >= MaxConns
  <2>1. /\ stream' = [stream EXCEPT ![c] = "delay"] /\ UNCHANGED conn
        /\ view' = [view EXCEPT ![c] = "running"]
    BY <1>1, <1>2, <1>3 DEF Connect, PageTypes
  <2> QED BY <1>2, <2>1, PageStep DEF StreamStates, ViewStates, Shown
<1>4. CASE ~(Cardinality(Connected) >= MaxConns)
  <2> DEFINE k == CHOOSE j \in Conns \ Connected : TRUE
             new == [client |-> c, peer |-> TRUE, queue |-> <<>>, at |-> "check"]
  <2>1. /\ stream' = [stream EXCEPT ![c] = "open"]
        /\ conn' = [conn EXCEPT ![k] = new]
    BY <1>4 DEF Connect
  <2>2. MaxConns \in Nat /\ Cardinality(Connected) \in Nat
    <3>1. IsFiniteSet(Connected)
      <4>1. MaxConns \in Int /\ 1 \in Int
        BY SseAssumption
      <4>2. IsFiniteSet(1..MaxConns) /\ Connected \subseteq 1..MaxConns
        BY <4>1, FS_Interval DEF Connected, Conns
      <4> QED BY <4>2, FS_Subset
    <3> QED BY <3>1, FS_CardinalityType, SseAssumption
  <2>3. k \in Conns /\ k \notin Connected
    BY <1>4, <2>2, FreePlace
  <2> HIDE DEF k
  <2>4. new \in Places
    BY SseAssumption, EmptySeq DEF Places, Queues
  <2>5. /\ conn' \in [Conns -> Places] /\ conn'[k] = new
        /\ \A j \in Conns : j # k => conn'[j] = conn[j]
        /\ \A d \in Clients : stream'[d] = IF d = c THEN "open" ELSE stream[d]
        /\ PageTypes'
    BY <1>1, <1>2, <2>1, <2>3, <2>4 DEF PageTypes, StreamStates
  <2>6. \A j \in Conns : ~Reads(j, c)
    BY <1>1, <1>2 DEF PlaceInv, PlaceOK, Reads
  <2>7. conn[k].queue = <<>>
    BY <1>1, <2>3 DEF PlaceInv, PlaceOK, Connected
  <2>8. PlaceInv'
    BY <1>1, <2>3, <2>4, <2>5, <2>6 DEF PlaceInv, PlaceOK, Reads
  <2>9. LinkInv'
    <3>1. \A d \in Clients, j \in Conns :
             Reads(j, d)' <=> (j = k /\ d = c) \/ (j # k /\ Reads(j, d))
      BY <2>3, <2>5 DEF Reads
    <3>2. ~Reads(k, c) /\ \A d \in Clients : ~Reads(k, d)
      BY <1>1, <2>3, <2>6 DEF PlaceInv, PlaceOK, Connected, Reads
    <3>3. ASSUME NEW d \in Clients, d # c
          PROVE  /\ stream'[d] = "open" => \E j \in Conns : Reads(j, d)'
                 /\ \A i, j \in Conns : Reads(i, d)' /\ Reads(j, d)' => i = j
                 /\ stream'[d] # "off" => view'[d] = "running"
      BY <1>1, <1>2, <2>5, <3>1, <3>2, <3>3 DEF LinkInv
    <3>4. /\ \E j \in Conns : Reads(j, c)'
          /\ \A i, j \in Conns : Reads(i, c)' /\ Reads(j, c)' => i = j
          /\ view'[c] = "running"
      BY <1>2, <2>3, <2>6, <3>1
    <3> QED BY <3>3, <3>4 DEF LinkInv
  <2>10. \A j \in Conns : TerminalStays(j)
    BY <2>5, <2>7 DEF TerminalStays, HasTerminal
  <2> QED BY <2>5, <2>8, <2>9, <2>10 DEF StepOK
<1> QED BY <1>3, <1>4

\* The process takes every connection with it.
LEMMA CrashStep ==
    ASSUME StreamInv, Crash
    PROVE  StepOK
<1>1. PageTypes /\ LinkInv
  BY Types DEF StreamInv
<1>2. /\ \A k \in Conns : conn'[k] = Free
      /\ \A c \in Clients : stream'[c] = IF stream[c] = "open" THEN "delay" ELSE stream[c]
      /\ view' = view
  BY DEF Crash
<1>3. Free \in Places /\ Free.at = "free" /\ Free.queue = <<>> /\ ~Free.peer
  BY SseAssumption, EmptySeq DEF Free, Places, Queues
<1>4. conn' \in [Conns -> Places]
  BY <1>3 DEF Crash
<1>5. PageTypes'
  BY <1>1 DEF PageTypes, StreamStates, Crash
<1>6. PlaceInv' /\ \A k \in Conns : TerminalStays(k)
  BY <1>2, <1>3 DEF PlaceInv, PlaceOK, TerminalStays
<1>7. LinkInv'
  BY <1>1, <1>2, <1>3 DEF LinkInv, Reads, PageTypes
<1> QED BY <1>4, <1>5, <1>6, <1>7 DEF StepOK

-----------------------------------------------------------------------------
(* Every step *)

\* The steps of the executions, of the connections and of the pages.
LEMMA RunStep ==
    ASSUME StreamInv, RunNext
    PROVE  StepOK
<1>1. CASE Progress
  BY <1>1, SendStep DEF Progress, Event, page
<1>2. CASE GraphCompletes
  BY <1>2, SendStep DEF GraphCompletes, Event, Terminal, page
<1>3. CASE GraphRaises \/ TellFailure
  BY <1>3, SendStep DEF GraphRaises, TellFailure, Event, Terminal, page
<1>4. CASE Start \/ Record \/ RecordFailure \/ Interrupt \/ Restart
  BY <1>4, QuietStep DEF Start, Record, RecordFailure, Interrupt, Restart, page
<1>5. CASE Crash
  BY <1>5, CrashStep
<1> QED BY <1>1, <1>2, <1>3, <1>4, <1>5 DEF RunNext

\* Every step of a page.
LEMMA PageNextStep ==
    ASSUME StreamInv, NEW c \in Clients, PageNext(c)
    PROVE  StepOK
<1>1. PageTypes /\ LinkInv
  BY Types DEF StreamInv
<1>2. stream[c] \in StreamStates /\ view[c] \in ViewStates
  BY <1>1 DEF PageTypes
<1>3. stream[c] # "off" => view[c] = "running"
  BY <1>1 DEF LinkInv
<1>4. CASE Open(c)
  <2>1. /\ stream' = [stream EXCEPT ![c] = stream[c]]
        /\ view' = [view EXCEPT ![c] = "loading"] /\ UNCHANGED conn /\ view[c] = "none"
    BY <1>1, <1>4 DEF Open, PageTypes
  <2> QED BY <1>2, <1>3, <2>1, PageStep DEF ViewStates
<1>5. CASE Leave(c)
  BY <1>5, HangupStep DEF Leave, StreamStates, ViewStates
<1>6. CASE Connect(c)
  BY <1>6, ConnectStep
<1>7. CASE Break(c)
  <2>1. /\ view' = [view EXCEPT ![c] = view[c]] /\ stream[c] # "off" /\ Hangup({c})
        /\ stream' = [stream EXCEPT ![c] = "delay"]
    BY <1>1, <1>7 DEF Break, PageTypes
  <2> QED BY <1>2, <1>3, <2>1, HangupStep DEF StreamStates
<1>8. CASE Retry(c)
  <2>1. /\ view' = [view EXCEPT ![c] = view[c]] /\ stream[c] = "delay" /\ UNCHANGED conn
        /\ stream' = [stream EXCEPT ![c] = "connecting"]
    BY <1>1, <1>8 DEF Retry, PageTypes
  <2> QED BY <1>2, <1>3, <2>1, PageStep DEF StreamStates
<1>9. CASE Poll(c) \/ Answer(c)
  BY <1>9, QuietStep DEF Poll, Answer
<1>10. CASE Show(c)
  <2> DEFINE s == fetch[c]
             t == IF s = "running" THEN "connecting" ELSE "off"
  <2>1. s \in ViewStates /\ view' = [view EXCEPT ![c] = s]
    BY <1>10 DEF Show, ViewStates
  <2>2. CASE (s = "running") = (view[c] = "running")
    <3>1. stream' = [stream EXCEPT ![c] = stream[c]] /\ UNCHANGED conn
      BY <1>1, <1>10, <2>2 DEF Show, PageTypes
    <3>2. stream[c] # "off" => s = "running"
      BY <1>3, <2>2
    <3> QED BY <1>2, <2>1, <3>1, <3>2, PageStep
  <2>3. CASE (s = "running") # (view[c] = "running")
    <3>1. stream' = [stream EXCEPT ![c] = t] /\ Hangup({c})
      BY <1>10, <2>3 DEF Show
    <3>2. t \in StreamStates /\ t # "open" /\ (t # "off" => s = "running")
      BY DEF StreamStates
    <3> QED BY <2>1, <3>1, <3>2, HangupStep
  <2> QED BY <2>2, <2>3
<1>11. CASE FetchFails(c)
  <2> DEFINE v == IF view[c] = "loading" THEN "error" ELSE view[c]
  <2>1. /\ stream' = [stream EXCEPT ![c] = stream[c]]
        /\ view' = [view EXCEPT ![c] = v] /\ UNCHANGED conn
    BY <1>1, <1>11 DEF FetchFails, PageTypes
  <2>2. v \in ViewStates /\ (stream[c] # "off" => v = "running")
    BY <1>2, <1>3 DEF ViewStates
  <2> QED BY <1>2, <2>1, <2>2, PageStep
<1> QED BY <1>4, <1>5, <1>6, <1>7, <1>8, <1>9, <1>10, <1>11 DEF PageNext

\* What a page asked for, or was answered.
LEMMA FetchTyped ==
    ASSUME StreamInv, [Next]_vars
    PROVE  fetch' \in [Clients -> Shown \cup {"none", "asked"}]
<1>1. /\ fetch \in [Clients -> Shown \cup {"none", "asked"}]
      /\ exec \in ExecStatus
  BY Types DEF StreamInv
<1>2. CASE RunNext
  BY <1>1, <1>2 DEF RunNext, Start, Progress, GraphCompletes, Record, GraphRaises,
                    RecordFailure, TellFailure, Interrupt, Crash, Restart, page
<1>3. CASE \E k \in Conns : LoopNext(k)
  <2>1. PICK k \in Conns : LoopNext(k)
    BY <1>3
  <2>2. CASE Deliver(k)
    BY <2>2, DeliverStep
  <2>3. CASE CheckReader(k) \/ Heartbeat(k)
    BY <1>1, <2>3 DEF CheckReader, Heartbeat, page
  <2> QED BY <2>1, <2>2, <2>3 DEF LoopNext
<1>4. CASE \E c \in Clients : PageNext(c)
  <2>1. PICK c \in Clients : PageNext(c)
    BY <1>4
  <2>2. CASE Answer(c)
    <3>1. PublicStatus(exec) \in Shown
      BY <1>1, StatusIsShown
    <3> QED BY <1>1, <2>2, <3>1 DEF Answer
  <2>3. CASE ~Answer(c)
    BY <1>1, <2>1, <2>3
       DEF PageNext, Open, Leave, Connect, Break, Retry, Poll, Show, FetchFails
  <2> QED BY <2>2, <2>3
<1>5. CASE UNCHANGED vars
  BY <1>1, <1>5 DEF vars
<1> QED BY <1>2, <1>3, <1>4, <1>5 DEF Next

\* The variables of the server.
LEMMA ServerTyped ==
    ASSUME StreamInv, [Next]_vars
    PROVE  /\ up' \in BOOLEAN /\ crashes' \in 0..MaxCrashes /\ exec' \in ExecStatus
           /\ runner' \in {"idle", "streaming", "completing", "failing", "failed"}
           /\ runs' \in 0..MaxRuns /\ sent' \in 0..MaxProgress
<1>1. /\ up \in BOOLEAN /\ crashes \in 0..MaxCrashes /\ exec \in ExecStatus
      /\ runner \in {"idle", "streaming", "completing", "failing", "failed"}
      /\ runs \in 0..MaxRuns /\ sent \in 0..MaxProgress
      /\ MaxRuns \in Nat /\ MaxProgress \in Nat /\ MaxCrashes \in Nat
  BY SseAssumption DEF StreamInv, TypeOK
<1>2. CASE RunNext
  <2>1. CASE Start \/ Interrupt
    BY <1>1, <2>1 DEF Start, Interrupt, ExecStatus
  <2>2. CASE Progress
    BY <1>1, <2>2 DEF Progress
  <2>3. CASE Record \/ RecordFailure
    BY <1>1, <2>3 DEF Record, RecordFailure, ExecStatus
  <2>4. CASE GraphCompletes \/ GraphRaises \/ TellFailure
    BY <1>1, <2>4 DEF GraphCompletes, GraphRaises, TellFailure
  <2>5. CASE Crash
    <3>1. /\ up' = FALSE /\ runner' = "idle" /\ UNCHANGED <<exec, runs, sent>>
          /\ crashes' = crashes + 1 /\ crashes < MaxCrashes
      BY <2>5 DEF Crash
    <3>2. crashes' \in 0..MaxCrashes
      BY <1>1, <3>1
    <3> QED BY <1>1, <3>1, <3>2
  <2>6. CASE Restart
    BY <1>1, <2>6 DEF Restart, ExecStatus
  <2> QED BY <1>2, <2>1, <2>2, <2>3, <2>4, <2>5, <2>6 DEF RunNext
<1>3. CASE UNCHANGED server
  BY <1>1, <1>3 DEF server
<1>4. (\E k \in Conns : LoopNext(k)) => UNCHANGED server
  BY DEF LoopNext, CheckReader, Deliver, Heartbeat
<1>5. (\E c \in Clients : PageNext(c)) => UNCHANGED server
  BY DEF PageNext, Open, Leave, Connect, Break, Retry, Poll, Answer, Show, FetchFails
<1> QED BY <1>2, <1>3, <1>4, <1>5 DEF Next, vars, server

\* Every step keeps the invariant and every terminal event in its queue.
LEMMA StreamStep ==
    ASSUME StreamInv, [Next]_vars
    PROVE  StreamInv' /\ \A k \in Conns : TerminalStays(k)
<1>1. StepOK
  <2>1. ASSUME NEW k \in Conns, LoopNext(k) PROVE StepOK
    BY <2>1, CheckReaderStep, HeartbeatStep, DeliverStep DEF LoopNext
  <2>2. UNCHANGED vars => StepOK
    BY QuietStep DEF vars
  <2> QED BY <2>1, <2>2, RunStep, PageNextStep DEF Next
<1>2. TypeOK'
  BY <1>1, FetchTyped, ServerTyped
     DEF TypeOK, StepOK, PageTypes, StreamStates, ViewStates, Places, Queues
<1> QED BY <1>1, <1>2 DEF StreamInv, StepOK

\* Before anything is sent, nobody is connected.
LEMMA StreamInit ==
    ASSUME Init
    PROVE  StreamInv
<1>1. Free \in Places /\ Free.at = "free" /\ Free.queue = <<>> /\ ~Free.peer
  BY SseAssumption, EmptySeq DEF Free, Places, Queues
<1>2. TypeOK
  BY <1>1, SseAssumption DEF Init, TypeOK, Places, Queues, ExecStatus, Shown
<1>3. PlaceInv /\ LinkInv
  BY <1>1 DEF Init, PlaceInv, PlaceOK, LinkInv, Reads
<1> QED BY <1>2, <1>3 DEF StreamInv

\* The inductive invariant holds of every behaviour, for any pages, connection
\* limit, queue size and bounds.
THEOREM StreamInvariant == Spec => []StreamInv
<1>1. StreamInv /\ [Next]_vars => StreamInv'
  BY StreamStep
<1> QED BY StreamInit, <1>1, PTL DEF Spec

\* A page has one connection the server may still write to exactly while its effect
\* is reading, and none unless it shows a run (OneLiveStream).
THEOREM StreamsAreSingle == Spec => []OneLiveStream
<1>1. ASSUME StreamInv PROVE OneLiveStream
  <2>1. TypeOK /\ PlaceInv /\ LinkInv
    BY <1>1 DEF StreamInv
  <2>2. ASSUME NEW c \in Clients
        PROVE  /\ Cardinality(LinkOf(c)) = (IF stream[c] = "open" THEN 1 ELSE 0)
               /\ stream[c] # "off" => view[c] = "running"
    <3>1. CASE stream[c] = "open"
      <4>1. PICK k \in Conns : Reads(k, c)
        BY <2>1, <3>1 DEF LinkInv
      <4>2. LinkOf(c) = {k}
        BY <2>1, <4>1 DEF LinkInv, LinkOf, Reads
      <4> QED BY <2>1, <3>1, <4>2, FS_Singleton DEF LinkInv
    <3>2. CASE stream[c] # "open"
      <4>1. LinkOf(c) = {}
        BY <2>1, <3>2 DEF PlaceInv, PlaceOK, LinkOf
      <4> QED BY <2>1, <3>2, <4>1, FS_EmptySet DEF LinkInv
    <3> QED BY <3>1, <3>2
  <2> QED BY <2>1, <2>2 DEF OneLiveStream
<1> QED BY StreamInvariant, <1>1, PTL

\* A terminal event stays in its queue until it is written, its connection ends or
\* another terminal event is there (TerminalSurvives).
THEOREM TerminalEventsSurvive == Spec => TerminalSurvives
<1>1. StreamInv /\ [Next]_vars => \A k \in Conns : TerminalStays(k)
  BY StreamStep
<1>2. StreamInv /\ [Next]_vars => [\A k \in Conns : TerminalStays(k)]_vars
  BY <1>1
<1> QED BY StreamInvariant, <1>2, PTL DEF Spec, TerminalSurvives
=============================================================================
