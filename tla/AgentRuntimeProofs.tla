------------------------- MODULE AgentRuntimeProofs -------------------------
(***************************************************************************)
(* The run manager is correct for any projects, users, capacities and      *)
(* bounds, with deletions, shutdowns, crashes and failing database calls.  *)
(*                                                                         *)
(* OneTaskPerProject is not inductive: start() decides on what the tables  *)
(* say, so they must know every live task (Known) as long as starts are    *)
(* admitted, and a start that was admitted must stay alone with its        *)
(* project although it awaits before it registers its task (NoRival).      *)
(* NoSlotLeak needs to know where each task stands in the gate (Placed)    *)
(* and the invariant of the gate itself, which FifoGateProofs proves: a    *)
(* slot that is returned goes to the head of the deque. With the same      *)
(* invariant every step of the manager is a step of its gate or leaves it  *)
(* alone, so what FifoGateProofs says of the gate holds of Agent runs.     *)
(***************************************************************************)
EXTENDS AgentRuntime, TLAPS

GateProofs == INSTANCE FifoGateProofs WITH Tasks <- TaskIds, interrupted <- Due

-----------------------------------------------------------------------------
TaskType == [pc : TaskPCs, project : Projects \cup {None}, exec : ExecIds \cup {None},
             resume : BOOLEAN, started : BOOLEAN, persisted : BOOLEAN,
             outcome : {"none", "success", "failure"}]
StartType == [pc : StartPCs, resume : BOOLEAN, exec : ExecIds \cup {None},
              prior : ExecIds \cup {None}, priorFailed : BOOLEAN]
WaiterType == [pc : {"idle", "await", "late", "fin"} \cup InPersist,
               task : TaskIds \cup {None}]
Statuses == Active \cup Resumable \cup {"succeeded", "deleted"}
RowType == [project : Projects \cup {None}, status : Statuses \cup {"absent"},
            ckpt : {"missing", "runnable", "success", "failure"}]

Published == {"created", "running", "interrupted", "completed", "failed", "deleted"}
RowsTyped == rows \in [ExecIds -> RowType] /\ projStatus \in [Projects -> Published]

Typed ==
  /\ accepting \in BOOLEAN /\ process \in {"up", "down"}
  /\ registered \in [Projects -> TaskIds \cup {None}]
  /\ starting \subseteq Projects /\ admitted \subseteq Projects /\ deleting \subseteq Projects
  /\ cancelled \subseteq TaskIds /\ expired \subseteq TaskIds
  /\ task \in [TaskIds -> TaskType]
  /\ start \in [Projects -> StartType]
  /\ waiter \in [Actors -> WaiterType]
  /\ \A a \in Actors : waiter[a].pc # "idle" => waiter[a].task \in TaskIds
  /\ RowsTyped

\* A start() call that has been admitted.
Past(p) == start[p].pc \notin {"idle", "requested"}

\* Nothing lives in a process that is down, which admits nothing.
Quiet ==
  process = "down" => /\ ~accepting
                      /\ \A t \in TaskIds : ~Live(t)
                      /\ \A p \in Projects : ~Past(p)

\* While starts are admitted every live task is registered.
Known ==
  /\ \A t \in TaskIds : task[t].pc # "unborn" => task[t].project \in Projects
  /\ \A p \in Projects : registered[p] # None => task[registered[p]].pc # "unborn"
  /\ accepting => \A t \in TaskIds : Live(t) => registered[task[t].project] = t

\* An admitted start() is alone with its project.
NoRival ==
  \A p \in Projects : Past(p) => \A t \in TaskIds : Live(t) => task[t].project # p

\* Where a task is in the gate, by where it is in its own code.
BeforeRun == {"expire1", "expire2", "queueCancel", "queueCancel1", "queueCancel2"}
WithSlot == {"markRunning", "prepare", "publishRun", "graph", "graphDone", "graphCancel",
             "graphFail", "record", "recordProject", "cancel1", "cancel2", "fail1", "fail2"}

Place(t) ==
  /\ task[t].pc \in {"unborn", "new"} => stage[t] = "idle" /\ ~task[t].started
  /\ task[t].pc = "queued" => stage[t] \in {"waiting", "granted"} /\ ~task[t].started
  /\ task[t].pc \in BeforeRun => stage[t] \in {"refused", "gaveUp"} /\ ~task[t].started
  /\ task[t].pc \in WithSlot => stage[t] = "holding" /\ task[t].started
  /\ task[t].pc = "done" => stage[t] \in {"idle", "refused", "gaveUp"}
  /\ t \in expired => task[t].pc = "queued"

Placed == \A t \in TaskIds : Place(t)

RunInv ==
  /\ Typed /\ Quiet /\ Known /\ NoRival /\ OneTaskPerProject
  /\ GateProofs!GateInv /\ Placed

-----------------------------------------------------------------------------
\* Ids are not None, and the gate's assumption is one of the manager's.
LEMMA IdsAreNotNone ==
  /\ None \notin TaskIds /\ None \notin ExecIds
  /\ \A t \in TaskIds : Live(t) <=> task[t].pc \notin {"unborn", "done"}
BY RuntimeAssumption DEF TaskIds, ExecIds, None, Live

\* The manager's constants satisfy what the gate assumes.
LEMMA GateIsSound == GateProofs!GateAssumption
BY RuntimeAssumption DEF GateProofs!GateAssumption

\* A step that leaves the gate alone keeps its invariant, whoever's deadline is due.
LEMMA GateUntouched ==
  ASSUME GateProofs!GateInv, UNCHANGED slots, Due' \subseteq TaskIds
  PROVE  GateProofs!GateInv'
BY DEF slots, GateProofs!GateInv, GateProofs!TypeOK, GateProofs!LineOK, GateProofs!CountOK,
       GateProofs!NoIdleSlot, GateProofs!QueueBounded, GateProofs!Holders

\* A task's step in the gate keeps the gate's invariant.
LEMMA GateSteps ==
  ASSUME GateProofs!GateInv, NEW t \in TaskIds, Gate!Step(t)
  PROVE  GateProofs!GateInv'
<1>1. GateProofs!Step(t)
  BY DEF Gate!Step, GateProofs!Step, Gate!AcquireFree, GateProofs!AcquireFree, Gate!Refuse,
     GateProofs!Refuse, Gate!JoinQueue, GateProofs!JoinQueue, Gate!Interrupt,
     GateProofs!Interrupt, Gate!Resume, GateProofs!Resume, Gate!LeaveQueue,
     GateProofs!LeaveQueue, Gate!ReturnHandoff, GateProofs!ReturnHandoff, Gate!Release,
     GateProofs!Release, Gate!Forget, GateProofs!Forget, Gate!ReleaseSlot,
     GateProofs!ReleaseSlot, Gate!SlotIsFree, GateProofs!SlotIsFree, Gate!RemoveAt,
     GateProofs!RemoveAt
<1>2. GateProofs!Next
  BY <1>1 DEF GateProofs!Next
<1> QED BY <1>2, GateIsSound, GateProofs!NextKeepsGate

-----------------------------------------------------------------------------
\* The program starts in the invariant.
LEMMA InitRunInv == Init => RunInv
<1> SUFFICES ASSUME Init PROVE RunInv
  OBVIOUS
<1>1. \A t \in TaskIds : ~Live(t)
  BY DEF Init, Live, NoTask
<1>2. Typed
  BY RuntimeAssumption
  DEF Init, Typed, RowsTyped, Published, Statuses, TaskType, StartType, WaiterType, RowType,
      NoTask, NoStart, NoRow, Resting, TaskPCs, StartPCs, InPersist
<1>3. Quiet /\ NoRival /\ OneTaskPerProject
  BY <1>1 DEF Init, Quiet, Past, NoStart, NoRival, OneTaskPerProject, LiveTasks
<1>4. Known
  BY <1>1 DEF Init, Known, NoTask
<1>5. Due = {}
  BY DEF Init, Due
<1>6. GateProofs!Init
  BY <1>5 DEF Init, Gate!Init, GateProofs!Init
<1>7. GateProofs!GateInv
  BY <1>6, GateIsSound, GateProofs!InitGateInv
<1>8. Placed
  BY <1>6 DEF Init, Placed, Place, NoTask, GateProofs!Init, BeforeRun, WithSlot
<1> QED BY <1>2, <1>3, <1>4, <1>7, <1>8 DEF RunInv

-----------------------------------------------------------------------------
(***************************************************************************)
(* The background tasks.  TaskMoves is what all their steps have in common *)
(* as far as the tables are concerned.                                     *)
(***************************************************************************)
OnlyTask(t) ==
  /\ task' \in [TaskIds -> TaskType]
  /\ \A u \in TaskIds : u # t => task'[u] = task[u]
  /\ task'[t].project = task[t].project
  /\ task'[t].pc \notin {"unborn", "new"}

Tables(t) ==
  /\ registered' \in [Projects -> TaskIds \cup {None}]
  /\ \A p \in Projects :
       \/ registered'[p] = registered[p]
       \/ registered'[p] = None /\ registered[p] = t /\ task'[t].pc = "done"
  /\ admitted' \subseteq Projects

TaskMoves(t) ==
  /\ OnlyTask(t) /\ Tables(t)
  /\ Live(t) /\ process = "up"
  /\ TaskUnchanged
  /\ cancelled' \subseteq cancelled /\ expired' \subseteq expired \cup {t}
  /\ RowsTyped'

\* Goto of a live task, in all its cases.
LEMMA GotoMoves ==
  ASSUME RunInv, NEW t \in TaskIds, Live(t),
         NEW pc \in (TaskPCs \ {"unborn", "new"}) \cup {"persisted"}, Goto(t, pc),
         pc = "persisted" => ~task[t].started
  PROVE  /\ OnlyTask(t) /\ Tables(t)
         /\ task'[t].pc = IF pc = "persisted" THEN "done" ELSE pc
         /\ task'[t].started = task[t].started /\ task'[t].exec = task[t].exec
         /\ pc # "persisted" => task'[t].persisted = task[t].persisted
         /\ \/ UNCHANGED slots /\ (task'[t].pc = "done" => ~task[t].started)
            \/ task'[t].pc = "done" /\ task[t].started /\ Gate!Release(t)
<1>1. task \in [TaskIds -> TaskType] /\ registered \in [Projects -> TaskIds \cup {None}]
      /\ admitted \subseteq Projects
  BY DEF RunInv, Typed
<1>2. CASE pc \notin {"done", "persisted"} /\ task' = [task EXCEPT ![t].pc = pc]
           /\ UNCHANGED <<registered, admitted, slots>>
  <2>1. OnlyTask(t) /\ task'[t].pc = pc
    BY <1>1, <1>2 DEF OnlyTask, TaskType
  <2>2. Tables(t)
    BY <1>1, <1>2 DEF Tables
  <2> QED BY <1>1, <1>2, <2>1, <2>2 DEF TaskType
<1>3. CASE pc = "done" /\ task[t].started /\ EndStarted(t)
  <2>1. task' = [task EXCEPT ![t].pc = "done"]
    BY <1>3 DEF EndStarted
  <2>2. OnlyTask(t) /\ task'[t].pc = "done"
    BY <1>1, <2>1 DEF OnlyTask, TaskType, TaskPCs
  <2>3. Tables(t)
    BY <1>1, <1>3, <2>2 DEF Tables, EndStarted
  <2> QED BY <1>1, <1>3, <2>1, <2>2, <2>3 DEF EndStarted, TaskType
<1>4. ASSUME NEW done \in BOOLEAN, ForgetTask(t), UNCHANGED slots,
             task' = [task EXCEPT ![t].pc = "done", ![t].persisted = done]
      PROVE  /\ OnlyTask(t) /\ Tables(t) /\ task'[t].pc = "done" /\ UNCHANGED slots
             /\ task'[t].started = task[t].started /\ task'[t].exec = task[t].exec
             /\ task'[t].persisted = done
  <2>1. task' = [task EXCEPT ![t].pc = "done", ![t].persisted = done]
    BY <1>4
  <2>0. task[t] \in TaskType /\ [task[t] EXCEPT !.pc = "done"] \in TaskType
    BY <1>1 DEF TaskType, TaskPCs
  <2>4. /\ task' = [task EXCEPT ![t] = [[task[t] EXCEPT !.pc = "done"] EXCEPT !.persisted = done]]
        /\ [[task[t] EXCEPT !.pc = "done"] EXCEPT !.persisted = done] \in TaskType
    BY <1>1, <1>4, <2>0, <2>1 DEF TaskType
  <2>2. OnlyTask(t) /\ task'[t].pc = "done"
    BY <1>1, <2>0, <2>4 DEF OnlyTask, TaskType
  <2>3. Tables(t)
    BY <1>1, <1>4, <2>2 DEF Tables, ForgetTask
  <2> QED BY <1>1, <1>4, <2>1, <2>2, <2>3 DEF TaskType
<1>5. CASE pc = "done" /\ task[t].started /\ EndStarted(t)
  <2>1. Gate!Release(t)
    BY <1>5 DEF EndStarted
  <2> QED BY <1>3, <1>5, <2>1
<1>6. task[t].persisted \in BOOLEAN
  BY <1>1 DEF TaskType
<1>7. CASE pc = "done" /\ ~task[t].started /\ EndUnstarted(t, task[t].persisted)
  BY <1>4, <1>6, <1>7 DEF EndUnstarted
<1>8. CASE pc = "persisted" /\ EndUnstarted(t, TRUE)
  BY <1>4, <1>8 DEF EndUnstarted
<1> QED BY <1>2, <1>5, <1>7, <1>8 DEF Goto

\* What such a step keeps, whatever it does to the gate.
LEMMA TablesKept ==
  ASSUME RunInv, NEW t \in TaskIds, TaskMoves(t)
  PROVE  Typed' /\ Quiet' /\ Known' /\ NoRival' /\ OneTaskPerProject'
<1>1. /\ Typed /\ OnlyTask(t) /\ Tables(t) /\ Live(t) /\ process = "up"
      /\ UNCHANGED <<accepting, starting, deleting, start, waiter, deletion, process>>
  BY DEF TaskMoves, TaskUnchanged, RunInv
<1>2. Typed'
  BY <1>1 DEF TaskMoves, Typed, OnlyTask, Tables
<1>3. Quiet'
  BY <1>1 DEF Quiet
<1>4. \A u \in TaskIds : /\ task'[u].project = task[u].project
                         /\ task[u].pc # "unborn" => task'[u].pc # "unborn"
                         /\ Live(u)' => Live(u)
  BY <1>1 DEF OnlyTask, Live
<1>5. Known'
  <2>1. \A u \in TaskIds : task'[u].pc # "unborn" => task[u].pc # "unborn"
    BY <1>1 DEF OnlyTask, Live
  <2>2. ASSUME NEW p \in Projects, registered'[p] # None
        PROVE  task'[registered'[p]].pc # "unborn"
    BY <1>1, <1>4, <2>2 DEF Tables, RunInv, Known, Typed
  <2>3. ASSUME accepting', NEW u \in TaskIds, Live(u)'
        PROVE  registered'[task'[u].project] = u
    <3>1. registered[task[u].project] = u /\ task[u].project \in Projects
      BY <1>1, <1>4, <2>1, <2>3 DEF RunInv, Known, Live
    <3>2. ~(u = t /\ task'[t].pc = "done")
      BY <2>3 DEF Live
    <3> QED BY <1>1, <1>4, <3>1, <3>2 DEF Tables
  <2>4. \A u \in TaskIds : task'[u].pc # "unborn" => task'[u].project \in Projects
    BY <1>4, <2>1 DEF RunInv, Known
  <2> QED BY <2>2, <2>3, <2>4 DEF Known
<1>6. NoRival'
  BY <1>1, <1>4 DEF RunInv, NoRival, Past
<1>7. OneTaskPerProject'
  BY <1>4 DEF RunInv, OneTaskPerProject, LiveTasks, ProjectOf
<1> QED BY <1>2, <1>3, <1>5, <1>6, <1>7

\* What a slot that is returned does to the others: one waiter may get it.
LEMMA ReleaseStages ==
  ASSUME GateProofs!GateInv, NEW t \in TaskIds, stage[t] # "waiting",
         NEW next \in {"idle", "gaveUp"}, Gate!ReleaseSlot(t, next)
  PROVE  /\ stage'[t] = next
         /\ \A u \in TaskIds : u # t =>
              stage'[u] = stage[u] \/ (stage[u] = "waiting" /\ stage'[u] = "granted")
<1>1. stage \in [TaskIds -> Gate!Stages]
  BY DEF GateProofs!GateInv, GateProofs!TypeOK, GateProofs!Stages, Gate!Stages
<1>2. CASE waiters = <<>>
  BY <1>1, <1>2 DEF Gate!ReleaseSlot
<1>3. CASE waiters # <<>>
  <2>1. Head(waiters) \in TaskIds /\ stage[Head(waiters)] = "waiting"
    <3>1. Len(waiters) \in Nat /\ Len(waiters) # 0 /\ Head(waiters) = waiters[1]
          /\ \A i \in 1..Len(waiters) : waiters[i] \in TaskIds
      BY <1>3, GateIsSound, GateProofs!QueueFacts DEF GateProofs!GateInv
    <3> QED BY <3>1 DEF GateProofs!GateInv, GateProofs!LineOK
  <2> QED BY <1>1, <1>3, <2>1 DEF Gate!ReleaseSlot
<1> QED BY <1>2, <1>3

\* The others stay where they are, but for a waiter that got a slot.
OthersStay(t) ==
  \A u \in TaskIds : u # t =>
    stage'[u] = stage[u] \/ (stage[u] = "waiting" /\ stage'[u] = "granted")

\* A step that leaves its own task where it should be keeps the invariant.
LEMMA MoveKeeps ==
  ASSUME RunInv, NEW t \in TaskIds, TaskMoves(t), GateProofs!GateInv', Place(t)', OthersStay(t)
  PROVE  RunInv'
<1>1. Typed' /\ Quiet' /\ Known' /\ NoRival' /\ OneTaskPerProject'
  BY TablesKept
<1>2. ASSUME NEW u \in TaskIds, u # t PROVE Place(u)'
  <2>1. /\ Place(u) /\ task'[u] = task[u] /\ (u \in expired' => u \in expired)
        /\ stage'[u] = stage[u] \/ (stage[u] = "waiting" /\ stage'[u] = "granted")
    BY <1>2 DEF RunInv, Placed, TaskMoves, OnlyTask, OthersStay
  <2>2. task[u].pc \in TaskPCs
    BY DEF RunInv, Typed, TaskType
  <2> QED BY <2>1, <2>2 DEF Place, BeforeRun, WithSlot, TaskPCs
<1>3. Placed'
  BY <1>2 DEF Placed
<1> QED BY <1>1, <1>3 DEF RunInv

\* A task goes on, or ends, after an await outside the gate.
LEMMA GotoKeeps ==
  ASSUME RunInv, NEW t \in TaskIds, process = "up",
         NEW pc \in (TaskPCs \ {"unborn", "new"}) \cup {"persisted"}, Goto(t, pc),
         \/ task[t].pc \in BeforeRun /\ pc \in BeforeRun \cup {"done", "persisted"}
         \/ task[t].pc \in WithSlot /\ pc \in WithSlot \cup {"done"},
         cancelled' \subseteq cancelled, UNCHANGED expired, TaskUnchanged, RowsTyped'
  PROVE  RunInv'
<1>1. Live(t)
  BY IdsAreNotNone DEF BeforeRun, WithSlot
<1>2. pc = "persisted" => ~task[t].started
  BY DEF RunInv, Placed, Place, WithSlot
<1>3. /\ OnlyTask(t) /\ Tables(t)
      /\ task'[t].pc = IF pc = "persisted" THEN "done" ELSE pc
      /\ task'[t].started = task[t].started
      /\ \/ UNCHANGED slots /\ (task'[t].pc = "done" => ~task[t].started)
         \/ task'[t].pc = "done" /\ task[t].started /\ Gate!Release(t)
  BY <1>1, <1>2, GotoMoves
<1>4. TaskMoves(t)
  BY <1>1, <1>3 DEF TaskMoves
<1>5. Place(t) /\ GateProofs!GateInv
  BY DEF RunInv, Placed
<1>6. t \notin expired'
  BY <1>5 DEF Place, BeforeRun, WithSlot
<1>7. CASE UNCHANGED slots /\ (task'[t].pc = "done" => ~task[t].started)
  <2>1. GateProofs!GateInv'
    <3>1. Due' \subseteq TaskIds
      BY <1>4, TablesKept DEF Due, Typed
    <3> QED BY <1>5, <1>7, <3>1, GateUntouched
  <2>2. stage' = stage
    BY <1>7 DEF slots
  <2>3. Place(t)' /\ OthersStay(t)
    BY <1>3, <1>5, <1>6, <1>7, <2>2 DEF Place, BeforeRun, WithSlot, OthersStay
  <2> QED BY <1>4, <2>1, <2>3, MoveKeeps
<1>8. CASE task'[t].pc = "done" /\ task[t].started /\ Gate!Release(t)
  <2>1. GateProofs!GateInv'
    BY <1>5, <1>8, GateSteps DEF Gate!Step
  <2>2. stage'[t] = "idle" /\ OthersStay(t)
    BY <1>5, <1>8, ReleaseStages DEF Gate!Release, OthersStay
  <2>3. Place(t)'
    BY <1>6, <1>8, <2>2 DEF Place, BeforeRun, WithSlot
  <2> QED BY <1>4, <2>1, <2>2, <2>3, MoveKeeps
<1> QED BY <1>3, <1>7, <1>8

\* What a task may write in one statement: its row, its project, a super-step.
DataStep(t) ==
  \/ UNCHANGED db
  \/ (\E s \in Statuses : Write(ExecOf(t), s)) /\ UNCHANGED projStatus
  \/ (\E s \in Published : Publish(ProjectOf(t), s)) /\ UNCHANGED rows
  \/ task[t].pc = "graph" /\ SuperStep(t)

\* The statements keep the rows' types.
LEMMA WriteTyped ==
  ASSUME rows \in [ExecIds -> RowType], NEW e, NEW s \in Statuses, Write(e, s)
  PROVE  rows' \in [ExecIds -> RowType]
<1>1. \A r \in ExecIds : [rows[r] EXCEPT !.status = s] \in RowType /\ rows[r] \in RowType
  BY DEF RowType
<1> QED BY <1>1 DEF Write

\* The same for the status of the project.
LEMMA PublishTyped ==
  ASSUME projStatus \in [Projects -> Published], NEW p, NEW s \in Published, Publish(p, s)
  PROVE  projStatus' \in [Projects -> Published]
BY DEF Publish

\* So does whatever a task may write.
LEMMA DataTyped ==
  ASSUME RowsTyped, NEW t \in TaskIds, DataStep(t)
  PROVE  RowsTyped'
<1>1. CASE UNCHANGED db
  BY <1>1 DEF db, RowsTyped
<1>2. CASE (\E s \in Statuses : Write(ExecOf(t), s)) /\ UNCHANGED projStatus
  BY <1>2, WriteTyped DEF RowsTyped
<1>3. CASE (\E s \in Published : Publish(ProjectOf(t), s)) /\ UNCHANGED rows
  BY <1>3, PublishTyped DEF RowsTyped
<1>4. CASE SuperStep(t)
  <2>1. rows' = [rows EXCEPT ![ExecOf(t)].ckpt = "runnable"] /\ rows \in [ExecIds -> RowType]
    BY <1>4 DEF SuperStep, RowsTyped
  <2>2. rows' \in [ExecIds -> RowType]
    BY <2>1 DEF RowType
  <2>3. projStatus' \in [Projects -> Published]
    <3>1. Publish(ProjectOf(t), "running") /\ "running" \in Published
      BY <1>4 DEF SuperStep, Published
    <3> QED BY <3>1, PublishTyped DEF RowsTyped
  <2> QED BY <2>2, <2>3 DEF RowsTyped
<1> QED BY <1>1, <1>2, <1>3, <1>4 DEF DataStep

\* The way to the end of the graph: no await leads back into it.
Ahead == {"new", "queued", "markRunning", "prepare", "publishRun", "graph"}

\* An await of a task at one place, after which it is at one of a few.
Awaits(t, at, ways) ==
  /\ TaskAt(t, at)
  /\ cancelled \ {t} \subseteq cancelled' /\ cancelled' \subseteq cancelled /\ UNCHANGED expired
  /\ DataStep(t)
  /\ \E pc \in ways : Goto(t, pc) /\ (pc \in Ahead => at \in Ahead)
  /\ TaskUnchanged

\* No await moves a task in or out of the gate.
LEMMA AwaitKeeps ==
  ASSUME RunInv, NEW t \in TaskIds, NEW at, NEW ways, Awaits(t, at, ways),
         \/ at \in BeforeRun /\ ways \subseteq BeforeRun \cup {"done", "persisted"}
         \/ at \in WithSlot /\ ways \subseteq WithSlot \cup {"done"}
  PROVE  RunInv'
<1>1. PICK pc \in ways : Goto(t, pc)
  BY DEF Awaits
<1>2. RowsTyped'
  BY DataTyped DEF Awaits, RunInv, Typed
<1>3. /\ process = "up" /\ task[t].pc = at
      /\ cancelled' \subseteq cancelled /\ UNCHANGED expired /\ TaskUnchanged
  BY DEF Awaits, TaskAt
<1>4. pc \in (TaskPCs \ {"unborn", "new"}) \cup {"persisted"}
  BY DEF BeforeRun, WithSlot, TaskPCs
<1> QED BY <1>1, <1>2, <1>3, <1>4, GotoKeeps

\* What the tasks write are statuses of their tables.
LEMMA StatusNames ==
  /\ {"interrupted", "running", "succeeded", "failed"} \subseteq Statuses
  /\ {"interrupted", "running", "completed", "failed", "deleted"} \subseteq Published
  /\ \A t \in TaskIds : RowResult(t) \in Statuses /\ ProjectResult(t) \in Published
BY DEF Statuses, Active, Resumable, Published, RowResult, ProjectResult

\* The awaits of a task that has no slot.
LEMMA QueueAwaits ==
  ASSUME NEW t \in TaskIds,
         \/ ExpireRow(t) \/ ExpireProject(t) \/ EnterQueueCancel(t)
         \/ QueueCancelRow(t) \/ QueueCancelProject(t)
  PROVE  \E at \in BeforeRun : Awaits(t, at, BeforeRun \cup {"done", "persisted"})
<1> DEFINE ways == BeforeRun \cup {"done", "persisted"}
<1>1. CASE ExpireRow(t)
  <2>1. Awaits(t, "expire1", ways)
    BY StatusNames, <1>1 DEF Awaits, Ahead, DataStep, ExpireRow, Await, WriteRow, BeforeRun
  <2> QED BY <2>1 DEF BeforeRun
<1>2. CASE ExpireProject(t)
  <2>1. Awaits(t, "expire2", ways)
    BY StatusNames, <1>2 DEF Awaits, Ahead, DataStep, ExpireProject, Await, PublishFor, BeforeRun
  <2> QED BY <2>1 DEF BeforeRun
<1>3. CASE EnterQueueCancel(t)
  <2>1. Awaits(t, "queueCancel", ways)
    BY StatusNames, <1>3 DEF Awaits, Ahead, DataStep, EnterQueueCancel, Await, TaskAt, BeforeRun
  <2> QED BY <2>1 DEF BeforeRun
<1>4. CASE QueueCancelRow(t)
  <2>1. Awaits(t, "queueCancel1", ways)
    BY StatusNames, <1>4 DEF Awaits, Ahead, DataStep, QueueCancelRow, Await, WriteRow, BeforeRun
  <2> QED BY <2>1 DEF BeforeRun
<1>5. CASE QueueCancelProject(t)
  <2>1. Awaits(t, "queueCancel2", ways)
    BY StatusNames, <1>5
    DEF Awaits, Ahead, DataStep, QueueCancelProject, Await, PublishFor, BeforeRun
  <2> QED BY <2>1 DEF BeforeRun
<1> QED BY <1>1, <1>2, <1>3, <1>4, <1>5

\* The awaits of a task that holds one.
LEMMA RunAwaits ==
  ASSUME NEW t \in TaskIds,
         \/ MarkRunning(t) \/ Prepare(t) \/ PublishRun(t) \/ GraphInterrupted(t)
         \/ GraphRaises(t) \/ GraphDone(t) \/ GraphCancel(t) \/ GraphFail(t)
         \/ Record(t) \/ RecordProject(t) \/ CancelRow(t) \/ CancelProject(t)
         \/ FailRow(t) \/ FailProject(t)
  PROVE  \E at \in WithSlot : Awaits(t, at, WithSlot \cup {"done"})
<1> DEFINE ways == WithSlot \cup {"done"}
<1>1. CASE MarkRunning(t)
  <2>1. Awaits(t, "markRunning", ways)
    BY StatusNames, <1>1 DEF Awaits, Ahead, DataStep, MarkRunning, Await, WriteRow, TaskAt, WithSlot
  <2> QED BY <2>1 DEF WithSlot
<1>2. CASE Prepare(t)
  <2>1. Awaits(t, "prepare", ways)
    BY StatusNames, <1>2 DEF Awaits, Ahead, DataStep, Prepare, Await, TaskAt, WithSlot
  <2> QED BY <2>1 DEF WithSlot
<1>3. CASE PublishRun(t)
  <2>1. Awaits(t, "publishRun", ways)
    BY StatusNames, <1>3
    DEF Awaits, Ahead, DataStep, PublishRun, Await, PublishFor, TaskAt, WithSlot
  <2> QED BY <2>1 DEF WithSlot
<1>4. CASE GraphInterrupted(t)
  <2>1. Awaits(t, "graph", ways)
    BY StatusNames, <1>4 DEF Awaits, Ahead, DataStep, GraphInterrupted, Await, TaskAt, WithSlot
  <2> QED BY <2>1 DEF WithSlot
<1>5. CASE GraphRaises(t)
  <2>1. Awaits(t, "graph", ways)
    BY StatusNames, <1>5 DEF Awaits, Ahead, DataStep, GraphRaises, flags, TaskAt, WithSlot
  <2> QED BY <2>1 DEF WithSlot
<1>6. CASE GraphDone(t)
  <2>1. Awaits(t, "graphDone", ways)
    BY StatusNames, <1>6 DEF Awaits, Ahead, DataStep, GraphDone, Await, PublishFor, TaskAt, WithSlot
  <2> QED BY <2>1 DEF WithSlot
<1>7. CASE GraphCancel(t)
  <2>1. Awaits(t, "graphCancel", ways)
    BY StatusNames, <1>7
    DEF Awaits, Ahead, DataStep, GraphCancel, Await, PublishFor, TaskAt, WithSlot
  <2> QED BY <2>1 DEF WithSlot
<1>8. CASE GraphFail(t)
  <2>1. Awaits(t, "graphFail", ways)
    BY StatusNames, <1>8 DEF Awaits, Ahead, DataStep, GraphFail, Await, PublishFor, TaskAt, WithSlot
  <2> QED BY <2>1 DEF WithSlot
<1>9. CASE Record(t)
  <2>1. Awaits(t, "record", ways)
    BY StatusNames, <1>9 DEF Awaits, Ahead, DataStep, Record, Await, WriteRow, TaskAt, WithSlot
  <2> QED BY <2>1 DEF WithSlot
<1>10. CASE RecordProject(t)
  <2>1. Awaits(t, "recordProject", ways)
    BY StatusNames, <1>10
    DEF Awaits, Ahead, DataStep, RecordProject, Await, PublishFor, TaskAt, WithSlot
  <2> QED BY <2>1 DEF WithSlot
<1>11. CASE CancelRow(t)
  <2>1. Awaits(t, "cancel1", ways)
    BY StatusNames, <1>11 DEF Awaits, Ahead, DataStep, CancelRow, Await, WriteRow, TaskAt, WithSlot
  <2> QED BY <2>1 DEF WithSlot
<1>12. CASE CancelProject(t)
  <2>1. Awaits(t, "cancel2", ways)
    BY StatusNames, <1>12
    DEF Awaits, Ahead, DataStep, CancelProject, Await, PublishFor, TaskAt, WithSlot
  <2> QED BY <2>1 DEF WithSlot
<1>13. CASE FailRow(t)
  <2>1. Awaits(t, "fail1", ways)
    BY StatusNames, <1>13 DEF Awaits, Ahead, DataStep, FailRow, Await, WriteRow, TaskAt, WithSlot
  <2> QED BY <2>1 DEF WithSlot
<1>14. CASE FailProject(t)
  <2>1. Awaits(t, "fail2", ways)
    BY StatusNames, <1>14
    DEF Awaits, Ahead, DataStep, FailProject, Await, PublishFor, TaskAt, WithSlot
  <2> QED BY <2>1 DEF WithSlot
<1> QED BY <1>1, <1>2, <1>3, <1>4, <1>5, <1>6, <1>7, <1>8, <1>9, <1>10, <1>11, <1>12, <1>13, <1>14

\* None of them disturbs the invariant.
LEMMA AwaitsKeep ==
  ASSUME RunInv, NEW t \in TaskIds,
         \/ \E at \in BeforeRun : Awaits(t, at, BeforeRun \cup {"done", "persisted"})
         \/ \E at \in WithSlot : Awaits(t, at, WithSlot \cup {"done"})
  PROVE  RunInv'
BY AwaitKeeps

\* The steps of a task into the gate, in its queue and out of it.
LEMMA GateStepsKeep ==
  ASSUME RunInv, NEW t \in TaskIds,
         DieUnstarted(t) \/ EnterGate(t) \/ QueueDeadline(t) \/ Granted(t) \/ LeaveGate(t)
  PROVE  RunInv'
<1>1. /\ Typed /\ Place(t) /\ GateProofs!GateInv
      /\ task \in [TaskIds -> TaskType] /\ task[t] \in TaskType
  BY DEF RunInv, Placed, Typed
<1>2. /\ \A pc \in TaskPCs : [task[t] EXCEPT !.pc = pc] \in TaskType
      /\ [task[t] EXCEPT !.pc = "markRunning", !.started = TRUE] \in TaskType
  BY <1>1 DEF TaskType, TaskPCs
<1>3. RowsTyped /\ (UNCHANGED db => RowsTyped')
  BY <1>1 DEF Typed, RowsTyped, db
<1>4. ASSUME UNCHANGED <<registered, admitted>>, OnlyTask(t), task[t].pc \in {"new", "queued"},
             TaskUnchanged, cancelled' \subseteq cancelled, expired' \subseteq expired \cup {t},
             UNCHANGED db, process = "up"
      PROVE  TaskMoves(t)
  BY <1>1, <1>3, <1>4, IdsAreNotNone DEF TaskMoves, Tables, Typed
<1>5. CASE DieUnstarted(t)
  <2>1. task' = [task EXCEPT ![t].pc = "done"] /\ task[t].pc = "new"
    BY <1>5 DEF DieUnstarted, TaskAt
  <2>2. OnlyTask(t) /\ task'[t].pc = "done"
    BY <1>1, <1>2, <2>1 DEF OnlyTask, TaskType, TaskPCs
  <2>3. TaskMoves(t)
    BY <1>4, <1>5, <2>1, <2>2 DEF DieUnstarted, TaskAt
  <2>4. GateProofs!GateInv'
    <3>1. Due' \subseteq TaskIds
      BY <2>3, TablesKept DEF Due, Typed
    <3> QED BY <1>1, <1>5, <3>1, GateUntouched DEF DieUnstarted
  <2>5. Place(t)' /\ OthersStay(t)
    BY <1>1, <1>5, <2>1, <2>2 DEF DieUnstarted, slots, Place, BeforeRun, WithSlot, OthersStay
  <2> QED BY <2>3, <2>4, <2>5, MoveKeeps
<1>6. CASE QueueDeadline(t)
  <2>1. task' = task /\ task[t].pc = "queued"
    BY <1>6 DEF QueueDeadline, TaskAt
  <2>2. OnlyTask(t)
    BY <1>1, <2>1 DEF OnlyTask
  <2>3. TaskMoves(t)
    BY <1>4, <1>6, <2>1, <2>2 DEF QueueDeadline, TaskAt
  <2>4. GateProofs!GateInv'
    <3>1. Due' \subseteq TaskIds
      BY <2>3, TablesKept DEF Due, Typed
    <3> QED BY <1>1, <1>6, <3>1, GateUntouched DEF QueueDeadline
  <2>5. Place(t)' /\ OthersStay(t)
    BY <1>1, <1>6, <2>1 DEF QueueDeadline, slots, Place, BeforeRun, WithSlot, OthersStay
  <2> QED BY <2>3, <2>4, <2>5, MoveKeeps
<1>7. CASE EnterGate(t)
  <2>1. task[t].pc = "new" /\ t \notin expired /\ UNCHANGED flags
    BY <1>1, <1>7 DEF EnterGate, TaskAt, Place
  <2>2. ASSUME OnlyTask(t), Gate!AcquireFree(t) \/ Gate!JoinQueue(t) \/ Gate!Refuse(t), Place(t)'
        PROVE  RunInv'
    <3>1. TaskMoves(t)
      BY <1>4, <1>7, <2>1, <2>2 DEF EnterGate, TaskAt, flags
    <3>2. GateProofs!GateInv'
      BY <1>1, <2>2, GateSteps DEF Gate!Step
    <3>3. OthersStay(t)
      BY <1>1, <2>2 DEF Gate!AcquireFree, Gate!JoinQueue, Gate!Refuse, OthersStay,
         GateProofs!GateInv, GateProofs!TypeOK
    <3> QED BY <2>2, <3>1, <3>2, <3>3, MoveKeeps
  <2>3. CASE /\ Gate!AcquireFree(t)
             /\ task' = [task EXCEPT ![t].pc = "markRunning", ![t].started = TRUE]
    <3>1. OnlyTask(t) /\ task'[t].pc = "markRunning" /\ task'[t].started
      BY <1>1, <1>2, <2>3 DEF OnlyTask, TaskType
    <3>2. Place(t)'
      BY <1>1, <2>1, <2>3, <3>1 DEF Gate!AcquireFree, GateProofs!GateInv, GateProofs!TypeOK,
         Place, BeforeRun, WithSlot, flags
    <3> QED BY <2>2, <2>3, <3>1, <3>2
  <2>4. CASE Gate!JoinQueue(t) /\ task' = [task EXCEPT ![t].pc = "queued"]
    <3>1. OnlyTask(t) /\ task'[t].pc = "queued" /\ task'[t].started = task[t].started
      BY <1>1, <1>2, <2>4 DEF OnlyTask, TaskType, TaskPCs
    <3>2. Place(t)'
      BY <1>1, <2>1, <2>4, <3>1 DEF Gate!JoinQueue, GateProofs!GateInv, GateProofs!TypeOK,
         Place, BeforeRun, WithSlot, flags
    <3> QED BY <2>2, <2>4, <3>1, <3>2
  <2>5. CASE Gate!Refuse(t) /\ task' = [task EXCEPT ![t].pc = "expire1"]
    <3>1. OnlyTask(t) /\ task'[t].pc = "expire1" /\ task'[t].started = task[t].started
      BY <1>1, <1>2, <2>5 DEF OnlyTask, TaskType, TaskPCs
    <3>2. Place(t)'
      BY <1>1, <2>1, <2>5, <3>1 DEF Gate!Refuse, GateProofs!GateInv, GateProofs!TypeOK,
         Place, BeforeRun, WithSlot, flags
    <3> QED BY <2>2, <2>5, <3>1, <3>2
  <2> QED BY <1>7, <2>3, <2>4, <2>5 DEF EnterGate
<1>8. CASE Granted(t)
  <2>1. task' = [task EXCEPT ![t].pc = "markRunning", ![t].started = TRUE] /\ task[t].pc = "queued"
    BY <1>8 DEF Granted, TaskAt
  <2>2. OnlyTask(t) /\ task'[t].pc = "markRunning" /\ task'[t].started
    BY <1>1, <1>2, <2>1 DEF OnlyTask, TaskType
  <2>3. TaskMoves(t)
    BY <1>4, <1>8, <2>1, <2>2 DEF Granted, TaskAt, flags
  <2>4. GateProofs!GateInv'
    BY <1>1, <1>8, GateSteps DEF Granted, Gate!Step
  <2>5. t \notin expired
    BY <1>8 DEF Granted, Gate!Resume, Due
  <2>6. Place(t)' /\ OthersStay(t)
    BY <1>1, <1>8, <2>2, <2>5 DEF Granted, flags, Gate!Resume, GateProofs!GateInv,
       GateProofs!TypeOK, Place, BeforeRun, WithSlot, OthersStay
  <2> QED BY <2>3, <2>4, <2>6, MoveKeeps
<1>9. CASE LeaveGate(t)
  <2> DEFINE next == IF t \in cancelled THEN "queueCancel" ELSE "expire1"
  <2>1. task' = [task EXCEPT ![t].pc = next] /\ task[t].pc = "queued"
    BY <1>9 DEF LeaveGate, TaskAt
  <2>2. next \in TaskPCs /\ next \in BeforeRun
    BY DEF TaskPCs, BeforeRun
  <2>3. OnlyTask(t) /\ task'[t].pc = next /\ task'[t].started = task[t].started
    BY <1>1, <1>2, <2>1, <2>2 DEF OnlyTask, TaskType, BeforeRun
  <2>4. TaskMoves(t)
    BY <1>4, <1>9, <2>1, <2>3 DEF LeaveGate, TaskAt
  <2>5. GateProofs!GateInv'
    BY <1>1, <1>9, GateSteps DEF LeaveGate, LeaveQueueFor, Gate!Step
  <2>6. stage'[t] = "gaveUp" /\ OthersStay(t)
    <3>1. CASE Gate!LeaveQueue(t)
      BY <1>1, <3>1 DEF Gate!LeaveQueue, GateProofs!GateInv, GateProofs!TypeOK, OthersStay
    <3>2. CASE Gate!ReturnHandoff(t)
      BY <1>1, <3>2, ReleaseStages DEF Gate!ReturnHandoff, OthersStay
    <3> QED BY <1>9, <3>1, <3>2 DEF LeaveGate, LeaveQueueFor
  <2>7. Place(t)'
    BY <1>1, <1>9, <2>1, <2>2, <2>3, <2>6 DEF LeaveGate, Place, BeforeRun, WithSlot
  <2> QED BY <2>4, <2>5, <2>6, <2>7, MoveKeeps
<1> QED BY <1>5, <1>6, <1>7, <1>8, <1>9

\* The graph itself, whose steps write checkpoints.
LEMMA GraphStepsKeep ==
  ASSUME RunInv, NEW t \in TaskIds, GraphStep(t) \/ GraphEnd(t)
  PROVE  RunInv'
<1>1. /\ Typed /\ RowsTyped /\ Place(t) /\ GateProofs!GateInv
      /\ task \in [TaskIds -> TaskType] /\ task[t] \in TaskType
  BY DEF RunInv, Placed, Typed
<1>2. /\ task[t].pc = "graph" /\ process = "up" /\ TaskUnchanged
      /\ UNCHANGED <<registered, admitted, slots, flags>>
  BY DEF GraphStep, GraphEnd, TaskAt
<1>3. RowsTyped'
  <2>1. CASE GraphStep(t)
    BY <1>1, <2>1, DataTyped DEF GraphStep, TaskAt, DataStep
  <2>2. CASE GraphEnd(t)
    <3>1. PICK result \in {"success", "failure"} : rows' = [rows EXCEPT ![ExecOf(t)].ckpt = result]
      BY <2>2 DEF GraphEnd
    <3> QED BY <1>1, <2>2, <3>1 DEF GraphEnd, RowsTyped, RowType
  <2> QED BY <2>1, <2>2
<1>4. OnlyTask(t) /\ task'[t].pc \in WithSlot /\ task'[t].started = task[t].started
  <2>1. CASE GraphStep(t)
    BY <1>1, <1>2, <2>1 DEF GraphStep, OnlyTask, WithSlot
  <2>2. CASE GraphEnd(t)
    <3>1. PICK result \in {"success", "failure"} :
            task' = [task EXCEPT ![t].pc = "graphDone", ![t].outcome = result]
      BY <2>2 DEF GraphEnd
    <3>2. [task[t] EXCEPT !.pc = "graphDone", !.outcome = result] \in TaskType
      BY <1>1 DEF TaskType, TaskPCs
    <3> QED BY <1>1, <3>1, <3>2 DEF OnlyTask, TaskType, WithSlot
  <2> QED BY <2>1, <2>2
<1>5. TaskMoves(t)
  BY <1>1, <1>2, <1>3, <1>4, IdsAreNotNone DEF TaskMoves, Tables, Typed, flags
<1>6. GateProofs!GateInv'
  <2>1. Due' \subseteq TaskIds
    BY <1>5, TablesKept DEF Due, Typed
  <2> QED BY <1>1, <1>2, <2>1, GateUntouched
<1>7. Place(t)' /\ OthersStay(t)
  BY <1>1, <1>2, <1>4 DEF slots, flags, Place, BeforeRun, WithSlot, OthersStay
<1> QED BY <1>5, <1>6, <1>7, MoveKeeps

\* Every step of a background task.
LEMMA TasksKeep ==
  ASSUME RunInv, NEW t \in TaskIds, TaskStep(t) \/ GraphStep(t) \/ QueueDeadline(t)
  PROVE  RunInv'
BY QueueAwaits, RunAwaits, AwaitsKeep, GateStepsKeep, GraphStepsKeep DEF TaskStep

-----------------------------------------------------------------------------
(***************************************************************************)
(* Everybody else.  Most steps move no task: they are judged by what they  *)
(* do to the tables and by whom they admit.                                *)
(***************************************************************************)
LEMMA StillKeeps ==
  ASSUME RunInv, Typed', process' = "up", UNCHANGED <<slots, expired>>,
         \A u \in TaskIds : /\ task'[u].pc = task[u].pc
                            /\ task'[u].project = task[u].project
                            /\ task'[u].started = task[u].started,
         accepting' => accepting \/ \A u \in TaskIds : ~Live(u),
         \A p \in Projects : \/ registered'[p] = registered[p]
                             \/ registered'[p] = None /\ (accepting' => ~Live(registered[p])),
         \A p \in Projects : Past(p)' =>
           Past(p) \/ \A u \in TaskIds : Live(u) => task[u].project # p
  PROVE  RunInv'
<1>1. \A u \in TaskIds : Live(u)' <=> Live(u)
  BY IdsAreNotNone DEF Live
<1>2. Quiet'
  BY DEF Quiet
<1>3. Known'
  <2>1. \A u \in TaskIds : task'[u].pc # "unborn" => task'[u].project \in Projects
    BY DEF RunInv, Known
  <2>2. \A p \in Projects : registered'[p] # None => task'[registered'[p]].pc # "unborn"
    BY DEF RunInv, Known, Typed
  <2>3. ASSUME accepting', NEW u \in TaskIds, Live(u)'
        PROVE  registered'[task'[u].project] = u
    <3>1. accepting /\ Live(u)
      BY <1>1, <2>3
    <3>2. registered[task[u].project] = u /\ task[u].project \in Projects
      BY <3>1 DEF RunInv, Known, Live
    <3> QED BY <2>3, <3>1, <3>2
  <2> QED BY <2>1, <2>2, <2>3 DEF Known
<1>4. NoRival' /\ OneTaskPerProject'
  BY <1>1 DEF RunInv, NoRival, OneTaskPerProject, LiveTasks, ProjectOf
<1>5. GateProofs!GateInv'
  <2>1. Due' \subseteq TaskIds
    BY DEF Due, Typed
  <2> QED BY <2>1, GateUntouched DEF RunInv
<1>6. Placed'
  BY DEF RunInv, Placed, Place, slots
<1> QED BY <1>2, <1>3, <1>4, <1>5, <1>6 DEF RunInv

\* A step of start() on its own record: only admission takes it past.
StartMoves(p) ==
  /\ start' \in [Projects -> StartType]
  /\ \A q \in Projects : q # p => start'[q] = start[q]
  /\ Past(p)' => Past(p) \/ Admissible(p)
  /\ starting' \subseteq starting \cup {p} /\ admitted' \subseteq admitted \cup {p}
  /\ UNCHANGED <<accepting, registered, deleting>>
  /\ process = "up" /\ StartUnchanged

\* Such a move of a start() call keeps the invariant.
LEMMA StartMoveKeeps ==
  ASSUME RunInv, NEW p \in Projects, StartMoves(p), RowsTyped'
  PROVE  RunInv'
<1>1. Typed'
  BY DEF RunInv, Typed, StartMoves, StartUnchanged, flags
<1>2. Admissible(p) => \A u \in TaskIds : Live(u) => task[u].project # p
  BY DEF Admissible, RunInv, Known
<1>3. \A q \in Projects : Past(q)' =>
        Past(q) \/ \A u \in TaskIds : Live(u) => task[u].project # q
  BY <1>2 DEF StartMoves, Past
<1>4. /\ process' = "up" /\ UNCHANGED <<slots, expired, task, accepting, registered>>
  BY DEF StartMoves, StartUnchanged, flags
<1> QED BY <1>1, <1>3, <1>4, StillKeeps

\* Its records, field by field.
LEMMA StartRecords ==
  ASSUME NEW s \in StartType
  PROVE  /\ NoStart \in StartType
         /\ \A pc \in StartPCs : [s EXCEPT !.pc = pc] \in StartType
         /\ \A pc \in StartPCs, e \in ExecIds : [s EXCEPT !.pc = pc, !.exec = e] \in StartType
         /\ \A pc \in StartPCs, e \in ExecIds :
              [s EXCEPT !.pc = pc, !.exec = e, !.resume = FALSE] \in StartType
         /\ \A pc \in StartPCs, e \in ExecIds, b \in BOOLEAN :
              [s EXCEPT !.pc = pc, !.prior = e, !.priorFailed = b] \in StartType
         /\ \A pc \in StartPCs, b \in BOOLEAN :
              [NoStart EXCEPT !.pc = pc, !.resume = b] \in StartType
BY DEF StartType, StartPCs, NoStart

\* The two ways on: to another place, and out.
LEMMA StartGoes ==
  ASSUME RunInv, NEW p \in Projects, process = "up", StartUnchanged,
         \/ Past(p) /\ UNCHANGED manager /\ \E pc \in StartPCs : StartGoto(p, pc)
         \/ Withdraw(p)
  PROVE  StartMoves(p)
<1>1. start \in [Projects -> StartType] /\ start[p] \in StartType
  BY DEF RunInv, Typed
<1>2. CASE Withdraw(p)
  <2>1. start' = [start EXCEPT ![p] = NoStart] /\ NoStart.pc = "idle"
    BY <1>2 DEF Withdraw, NoStart
  <2> QED BY <1>1, <1>2, <2>1, StartRecords DEF Withdraw, StartMoves, Past
<1>3. CASE Past(p) /\ UNCHANGED manager /\ \E pc \in StartPCs : StartGoto(p, pc)
  <2>1. PICK pc \in StartPCs : StartGoto(p, pc)
    BY <1>3
  <2> QED BY <1>1, <1>3, <2>1, StartRecords DEF StartGoto, StartMoves, manager
<1> QED BY <1>2, <1>3

\* The statements of start().
LEMMA StartWrites ==
  ASSUME RunInv, NEW p \in Projects,
         \/ UNCHANGED db
         \/ (\E e \in ExecIds \cup {None}, s \in Statuses : Write(e, s)) /\ UNCHANGED projStatus
         \/ (\E s \in Published : Publish(p, s)) /\ UNCHANGED rows
  PROVE  RowsTyped'
<1>1. RowsTyped
  BY DEF RunInv, Typed
<1>2. CASE UNCHANGED db
  BY <1>1, <1>2 DEF db, RowsTyped
<1>3. CASE (\E e \in ExecIds \cup {None}, s \in Statuses : Write(e, s)) /\ UNCHANGED projStatus
  BY <1>1, <1>3, WriteTyped DEF RowsTyped
<1>4. CASE (\E s \in Published : Publish(p, s)) /\ UNCHANGED rows
  BY <1>1, <1>4, PublishTyped DEF RowsTyped
<1> QED BY <1>2, <1>3, <1>4

\* The steps that only move start() along and write one statement.
LEMMA StartCallsKeep ==
  ASSUME RunInv, NEW p \in Projects,
         \/ Inspect(p) \/ Reconcile(p) \/ ReconcileProject(p) \/ PublishStart(p)
         \/ Stopped(p) \/ StopRow(p) \/ StopProject(p) \/ AbortRow(p) \/ AbortProject(p)
         \/ StartRaises(p)
  PROVE  RunInv'
<1>1. /\ start[p] \in StartType /\ start[p].exec \in ExecIds \cup {None}
      /\ start[p].prior \in ExecIds \cup {None}
  BY DEF RunInv, Typed, StartType
<1>2. CASE Inspect(p)
  <2>1. UNCHANGED db /\ process = "up" /\ Past(p) /\ StartUnchanged
    BY <1>2 DEF Inspect, StartAt, Past
  <2>2. \/ Past(p) /\ UNCHANGED manager /\ \E pc \in StartPCs : StartGoto(p, pc)
        \/ Withdraw(p)
    BY <1>2, <2>1 DEF Inspect, StartPCs
  <2> QED BY <2>1, <2>2, StartGoes, StartWrites, StartMoveKeeps
<1>3. CASE Reconcile(p)
  <2>1. process = "up" /\ Past(p) /\ StartUnchanged /\ UNCHANGED manager
        /\ Write(start[p].prior, "succeeded") /\ UNCHANGED projStatus
    BY <1>3 DEF Reconcile, StartAt, Past
  <2>2. \E pc \in StartPCs : StartGoto(p, pc)
    BY <1>3 DEF Reconcile, StartPCs
  <2>3. RowsTyped'
    BY <1>1, <2>1, StatusNames, StartWrites
  <2> QED BY <2>1, <2>2, <2>3, StartGoes, StartMoveKeeps
<1>4. CASE ReconcileProject(p)
  <2>1. process = "up" /\ StartUnchanged /\ Withdraw(p)
        /\ Publish(p, "completed") /\ UNCHANGED rows
    BY <1>4 DEF ReconcileProject, StartAt
  <2>2. RowsTyped'
    BY <2>1, StatusNames, StartWrites
  <2> QED BY <2>1, <2>2, StartGoes, StartMoveKeeps
<1>5. CASE PublishStart(p)
  <2>1. process = "up" /\ Past(p) /\ StartUnchanged /\ UNCHANGED manager /\ UNCHANGED rows
        /\ (Publish(p, "running") \/ UNCHANGED projStatus)
    BY <1>5 DEF PublishStart, StartAt, Past
  <2>2. \E pc \in StartPCs : StartGoto(p, pc)
    BY <1>5 DEF PublishStart, StartPCs
  <2>3. RowsTyped'
    BY <2>1, StatusNames, StartWrites DEF db
  <2> QED BY <2>1, <2>2, <2>3, StartGoes, StartMoveKeeps
<1>6. CASE Stopped(p)
  <2>1. process = "up" /\ Past(p) /\ StartUnchanged /\ UNCHANGED manager /\ UNCHANGED db
    BY <1>6 DEF Stopped, StartAt, Past
  <2>2. \E pc \in StartPCs : StartGoto(p, pc)
    BY <1>6 DEF Stopped, StartPCs
  <2> QED BY <2>1, <2>2, StartGoes, StartWrites, StartMoveKeeps
<1>7. CASE StopRow(p)
  <2>1. process = "up" /\ Past(p) /\ StartUnchanged /\ UNCHANGED manager /\ UNCHANGED projStatus
        /\ (Write(start[p].exec, "interrupted") \/ UNCHANGED rows)
    BY <1>7 DEF StopRow, StartAt, Past
  <2>2. \E pc \in StartPCs : StartGoto(p, pc)
    BY <1>7 DEF StopRow, StartPCs
  <2>3. RowsTyped'
    BY <1>1, <2>1, StatusNames, StartWrites DEF db
  <2> QED BY <2>1, <2>2, <2>3, StartGoes, StartMoveKeeps
<1>8. CASE StopProject(p)
  <2>1. process = "up" /\ Past(p) /\ StartUnchanged /\ UNCHANGED rows
        /\ (Publish(p, "interrupted") \/ UNCHANGED projStatus)
    BY <1>8 DEF StopProject, StartAt, Past
  <2>2. \/ UNCHANGED manager /\ \E pc \in StartPCs : StartGoto(p, pc)
        \/ Withdraw(p)
    BY <1>8 DEF StopProject, StartPCs
  <2>3. RowsTyped'
    BY <2>1, StatusNames, StartWrites DEF db
  <2> QED BY <2>1, <2>2, <2>3, StartGoes, StartMoveKeeps
<1>9. CASE AbortRow(p)
  <2>1. process = "up" /\ Past(p) /\ StartUnchanged /\ UNCHANGED projStatus
        /\ (Write(start[p].exec, "interrupted") \/ UNCHANGED rows)
    BY <1>9 DEF AbortRow, StartAt, Past
  <2>2. \/ UNCHANGED manager /\ \E pc \in StartPCs : StartGoto(p, pc)
        \/ Withdraw(p)
    BY <1>9 DEF AbortRow, StartPCs
  <2>3. RowsTyped'
    BY <1>1, <2>1, StatusNames, StartWrites DEF db
  <2> QED BY <2>1, <2>2, <2>3, StartGoes, StartMoveKeeps
<1>10. CASE AbortProject(p)
  <2>1. process = "up" /\ StartUnchanged /\ Withdraw(p) /\ UNCHANGED rows
        /\ (Publish(p, "interrupted") \/ UNCHANGED projStatus)
    BY <1>10 DEF AbortProject, StartAt
  <2>2. RowsTyped'
    BY <2>1, StatusNames, StartWrites DEF db
  <2> QED BY <2>1, <2>2, StartGoes, StartMoveKeeps
<1>11. CASE StartRaises(p)
  <2>1. process = "up" /\ Past(p) /\ StartUnchanged /\ UNCHANGED db
    BY <1>11 DEF StartRaises, Past
  <2>2. \/ UNCHANGED manager /\ \E pc \in StartPCs : StartGoto(p, pc)
        \/ Withdraw(p)
    BY <1>11 DEF StartRaises, StartPCs
  <2> QED BY <2>1, <2>2, StartGoes, StartWrites, StartMoveKeeps
<1> QED BY <1>2, <1>3, <1>4, <1>5, <1>6, <1>7, <1>8, <1>9, <1>10, <1>11

\* The steps that take a request in, find a row for it or insert one.
LEMMA StartRowsKeep ==
  ASSUME RunInv, NEW p \in Projects,
         \/ \E resume \in BOOLEAN : Request(p, resume)
         \/ Admit(p) \/ Reject(p) \/ Latest(p) \/ Claim(p) \/ Create(p)
  PROVE  RunInv'
<1>1. /\ Typed /\ RowsTyped /\ start \in [Projects -> StartType] /\ start[p] \in StartType
      /\ start[p].prior \in ExecIds \cup {None} /\ starting \subseteq Projects
  BY DEF RunInv, Typed, StartType
<1>2. UNCHANGED db => RowsTyped'
  BY <1>1 DEF RowsTyped, db
<1>3. CASE \E resume \in BOOLEAN : Request(p, resume)
  <2>1. PICK resume \in BOOLEAN : Request(p, resume)
    BY <1>3
  <2> DEFINE s == [NoStart EXCEPT !.pc = "requested", !.resume = resume]
  <2>2. start' = [start EXCEPT ![p] = s] /\ s \in StartType /\ s.pc = "requested"
    BY <1>1, <2>1, StartRecords DEF Request, StartPCs, NoStart
  <2>3. process = "up" /\ StartUnchanged /\ UNCHANGED manager /\ UNCHANGED db
    BY <2>1 DEF Request, StartAt
  <2>4. StartMoves(p)
    BY <1>1, <2>2, <2>3 DEF StartMoves, Past, manager
  <2> QED BY <1>2, <2>3, <2>4, StartMoveKeeps
<1>4. CASE Admit(p)
  <2>1. PICK pc \in StartPCs : StartGoto(p, pc)
    BY <1>4 DEF Admit, StartPCs
  <2>2. process = "up" /\ StartUnchanged /\ Admissible(p) /\ UNCHANGED db
        /\ starting' = starting \cup {p} /\ admitted' = admitted \cup {p}
        /\ UNCHANGED <<accepting, registered, deleting>>
    BY <1>4 DEF Admit, StartAt
  <2>3. StartMoves(p)
    BY <1>1, <2>1, <2>2, StartRecords DEF StartMoves, StartGoto
  <2> QED BY <1>2, <2>2, <2>3, StartMoveKeeps
<1>5. CASE Reject(p)
  <2>1. start' = [start EXCEPT ![p] = NoStart] /\ NoStart \in StartType /\ NoStart.pc = "idle"
    BY <1>1, <1>5, StartRecords DEF Reject, NoStart
  <2>2. process = "up" /\ StartUnchanged /\ UNCHANGED manager /\ UNCHANGED db
    BY <1>5 DEF Reject, StartAt
  <2>3. StartMoves(p)
    BY <1>1, <2>1, <2>2 DEF StartMoves, Past, manager
  <2> QED BY <1>2, <2>2, <2>3, StartMoveKeeps
<1>6. CASE Latest(p)
  <2>1. process = "up" /\ StartUnchanged /\ Past(p) /\ UNCHANGED db
    BY <1>6 DEF Latest, StartAt, Past
  <2>2. CASE Withdraw(p)
    BY <1>2, <2>1, <2>2, StartGoes, StartMoveKeeps
  <2>3. ASSUME NEW e \in NewestResumable(p), UNCHANGED manager,
               start' = [start EXCEPT ![p].pc = "inspect", ![p].prior = e,
                               ![p].priorFailed = rows[e].status = "failed"]
        PROVE  RunInv'
    <3> DEFINE failed == rows[e].status = "failed"
               s == [start[p] EXCEPT !.pc = "inspect", !.prior = e, !.priorFailed = failed]
    <3>1. e \in ExecIds /\ failed \in BOOLEAN
      BY DEF NewestResumable, Newest, RowsOf
    <3>2. s \in StartType
      <4>1. start[p] \in StartType /\ "inspect" \in StartPCs
        BY <1>1 DEF StartPCs
      <4> QED BY <3>1, <4>1, StartRecords
    <3>3. start' = [start EXCEPT ![p] = s]
      BY <1>1, <2>3
    <3>4. StartMoves(p)
      BY <1>1, <2>1, <2>3, <3>2, <3>3 DEF StartMoves, manager
    <3> QED BY <1>2, <2>1, <3>4, StartMoveKeeps
  <2> QED BY <1>6, <2>2, <2>3 DEF Latest
<1>7. CASE Claim(p)
  <2> DEFINE e == start[p].prior
  <2>1. process = "up" /\ StartUnchanged /\ Past(p) /\ UNCHANGED projStatus
    BY <1>7 DEF Claim, StartAt, Past
  <2>2. CASE Withdraw(p) /\ UNCHANGED rows
    BY <1>2, <2>1, <2>2, StartGoes, StartMoveKeeps DEF db
  <2>3. CASE /\ Claimable(p, e) /\ Write(e, "pending") /\ UNCHANGED manager
             /\ start' = [start EXCEPT ![p].pc = "publish", ![p].exec = e]
    <3> DEFINE s == [start[p] EXCEPT !.pc = "publish", !.exec = e]
    <3>1. e \in ExecIds
      BY <2>3 DEF Claimable, RowsOf
    <3>2. s \in StartType /\ start' = [start EXCEPT ![p] = s]
      BY <1>1, <2>3, <3>1, StartRecords DEF StartPCs
    <3>3. StartMoves(p)
      BY <1>1, <2>1, <2>3, <3>2 DEF StartMoves, manager
    <3>4. RowsTyped'
      BY <2>1, <2>3, <3>1, StartWrites DEF Statuses, Active
    <3> QED BY <3>3, <3>4, StartMoveKeeps
  <2> QED BY <1>7, <2>2, <2>3 DEF Claim
<1>8. CASE Create(p)
  <2>1. process = "up" /\ StartUnchanged /\ Past(p) /\ UNCHANGED manager /\ UNCHANGED projStatus
    BY <1>8 DEF Create, StartAt, Past
  <2>2. CASE StartGoto(p, "abortProject") /\ UNCHANGED rows
    <3>1. \E pc \in StartPCs : StartGoto(p, pc)
      BY <2>2 DEF StartPCs
    <3> QED BY <1>2, <2>1, <2>2, <3>1, StartGoes, StartMoveKeeps DEF db
  <2>3. ASSUME NEW e \in Fresh(UnusedRows),
               rows' = [rows EXCEPT ![e] =
                          [project |-> p, status |-> "pending", ckpt |-> "missing"]],
               start' = [start EXCEPT ![p].pc = "publish", ![p].exec = e, ![p].resume = FALSE]
        PROVE  RunInv'
    <3> DEFINE s == [start[p] EXCEPT !.pc = "publish", !.exec = e, !.resume = FALSE]
    <3>1. e \in ExecIds
      BY DEF Fresh, UnusedRows
    <3>2. s \in StartType /\ start' = [start EXCEPT ![p] = s]
      BY <1>1, <2>3, <3>1, StartRecords DEF StartPCs
    <3>3. StartMoves(p)
      BY <1>1, <2>1, <2>3, <3>2 DEF StartMoves, manager
    <3>4. RowsTyped'
      BY <1>1, <2>1, <2>3, <3>1 DEF RowsTyped, RowType, Statuses, Active
    <3> QED BY <3>3, <3>4, StartMoveKeeps
  <2> QED BY <1>8, <2>2, <2>3 DEF Create
<1> QED BY <1>3, <1>4, <1>5, <1>6, <1>7, <1>8

\* The birth of a task: it is registered, and alone with its project.
LEMMA ScheduleKeeps ==
  ASSUME RunInv, NEW p \in Projects, Schedule(p)
  PROVE  RunInv'
<1>1. PICK t \in Fresh(UnusedTasks) :
        /\ task' = [task EXCEPT ![t] =
                      [NoTask EXCEPT !.pc = "new", !.project = p, !.exec = start[p].exec,
                                     !.resume = start[p].resume]]
        /\ registered' = [registered EXCEPT ![p] = t]
  BY DEF Schedule
<1> DEFINE born == [NoTask EXCEPT !.pc = "new", !.project = p, !.exec = start[p].exec,
                                  !.resume = start[p].resume]
<1>2. /\ Typed /\ start[p] \in StartType /\ t \in TaskIds /\ task[t].pc = "unborn"
      /\ task \in [TaskIds -> TaskType] /\ registered \in [Projects -> TaskIds \cup {None}]
  BY DEF RunInv, Typed, Fresh, UnusedTasks
<1>3. /\ born \in TaskType
      /\ born.pc = "new" /\ born.project = p /\ ~born.started
  BY <1>2 DEF NoTask, TaskType, StartType, TaskPCs
<1>4. /\ task' \in [TaskIds -> TaskType] /\ task'[t] = born
      /\ \A u \in TaskIds : u # t => task'[u] = task[u]
  BY <1>1, <1>2, <1>3
<1>5. /\ process = "up" /\ Past(p) /\ accepting
      /\ start' = [start EXCEPT ![p] = NoStart] /\ starting' = starting \ {p}
      /\ UNCHANGED <<accepting, admitted, deleting, slots, flags, waiter, deletion, process, db>>
  BY DEF Schedule, StartAt, Past
<1>6. ~Live(t) /\ \A u \in TaskIds : u # t => (Live(u)' <=> Live(u))
  BY <1>2, <1>4 DEF Live
<1>7. \A u \in TaskIds : Live(u) => task[u].project # p
  BY <1>5 DEF RunInv, NoRival
<1>8. Typed'
  <2>1. start' \in [Projects -> StartType]
    BY <1>2, <1>5, StartRecords DEF Typed
  <2>2. registered' \in [Projects -> TaskIds \cup {None}]
    BY <1>1, <1>2
  <2>3. RowsTyped'
    BY <1>2, <1>5 DEF Typed, RowsTyped, db
  <2> QED BY <1>2, <1>4, <1>5, <2>1, <2>2, <2>3 DEF Typed, flags
<1>9. Quiet'
  BY <1>5 DEF Quiet
<1>10. Known'
  <2>1. \A u \in TaskIds : task'[u].pc # "unborn" => task'[u].project \in Projects
    BY <1>3, <1>4 DEF RunInv, Known
  <2>2. \A q \in Projects : registered'[q] # None => task'[registered'[q]].pc # "unborn"
    BY <1>1, <1>2, <1>3, <1>4 DEF RunInv, Known, Typed
  <2>3. ASSUME NEW u \in TaskIds, Live(u)' PROVE registered'[task'[u].project] = u
    <3>1. CASE u = t
      BY <1>1, <1>2, <1>3, <1>4, <3>1
    <3>2. CASE u # t
      <4>1. registered[task[u].project] = u /\ task[u].project # p /\ task[u].project \in Projects
        BY <1>5, <1>6, <1>7, <2>3, <3>2 DEF RunInv, Known, Live
      <4> QED BY <1>1, <1>2, <1>4, <3>2, <4>1
    <3> QED BY <3>1, <3>2
  <2> QED BY <2>1, <2>2, <2>3 DEF Known
<1>11. NoRival'
  <2>1. ASSUME NEW q \in Projects, Past(q)', NEW u \in TaskIds, Live(u)'
        PROVE  task'[u].project # q
    <3>1. q # p /\ Past(q)
      BY <1>2, <1>5, <2>1 DEF Past, NoStart, Typed
    <3>2. CASE u = t
      BY <1>3, <1>4, <3>1, <3>2
    <3>3. CASE u # t
      BY <1>4, <1>6, <2>1, <3>1, <3>3 DEF RunInv, NoRival
    <3> QED BY <3>2, <3>3
  <2> QED BY <2>1 DEF NoRival
<1>12. OneTaskPerProject'
  <2>1. ASSUME NEW u \in TaskIds, NEW v \in TaskIds, Live(u)', Live(v)',
               task'[u].project = task'[v].project, u # v
        PROVE  FALSE
    <3>1. CASE u = t
      BY <1>3, <1>4, <1>6, <1>7, <2>1, <3>1
    <3>2. CASE v = t
      BY <1>3, <1>4, <1>6, <1>7, <2>1, <3>2
    <3>3. CASE u # t /\ v # t
      BY <1>4, <1>6, <2>1, <3>3 DEF RunInv, OneTaskPerProject, LiveTasks, ProjectOf
    <3> QED BY <3>1, <3>2, <3>3
  <2> QED BY <2>1 DEF OneTaskPerProject, LiveTasks, ProjectOf
<1>13. GateProofs!GateInv'
  <2>1. Due' \subseteq TaskIds
    BY <1>8 DEF Due, Typed
  <2> QED BY <1>5, <2>1, GateUntouched DEF RunInv
<1>14. Placed'
  <2>1. Place(t)'
    <3>1. Place(t) /\ stage' = stage /\ expired' = expired
      BY <1>2, <1>5 DEF RunInv, Placed, slots, flags
    <3> QED BY <1>2, <1>3, <1>4, <3>1 DEF Place, BeforeRun, WithSlot
  <2>2. \A u \in TaskIds : u # t => Place(u)'
    BY <1>4, <1>5 DEF RunInv, Placed, Place, slots, flags
  <2> QED BY <2>1, <2>2 DEF Placed
<1> QED BY <1>8, <1>9, <1>10, <1>11, <1>12, <1>13, <1>14 DEF RunInv

\* Every step of start().
LEMMA StartsKeep ==
  ASSUME RunInv, NEW p \in Projects, (\E resume \in BOOLEAN : Request(p, resume)) \/ StartStep(p)
  PROVE  RunInv'
BY StartCallsKeep, StartRowsKeep, ScheduleKeeps DEF StartStep

\* A step of a caller that waits for a task: it may drop what a dead task
\* has left in the tables.
WaiterMoves(a) ==
  /\ waiter' \in [Actors -> WaiterType]
  /\ \A b \in Actors : waiter'[b].pc # "idle" => waiter'[b].task \in TaskIds
  /\ \A p \in Projects : \/ registered'[p] = registered[p]
                         \/ registered'[p] = None /\ ~Live(registered[p])
  /\ registered' \in [Projects -> TaskIds \cup {None}] /\ admitted' \subseteq Projects
  /\ process = "up" /\ WaiterUnchanged

\* Such a step of a canceller, which at most unregisters a task that has ended and
\* notes that a task's result is written, keeps the invariant.
LEMMA WaiterMoveKeeps ==
  ASSUME RunInv, NEW a \in Actors, WaiterMoves(a), RowsTyped',
         task' \in [TaskIds -> TaskType],
         \A u \in TaskIds : /\ task'[u].pc = task[u].pc
                            /\ task'[u].project = task[u].project
                            /\ task'[u].started = task[u].started
  PROVE  RunInv'
<1>1. Typed'
  BY DEF RunInv, Typed, WaiterMoves, WaiterUnchanged, flags
<1>2. /\ process' = "up" /\ UNCHANGED <<slots, expired, accepting, start>>
  BY DEF WaiterMoves, WaiterUnchanged, flags
<1>3. \A p \in Projects : \/ registered'[p] = registered[p]
                          \/ registered'[p] = None /\ (accepting' => ~Live(registered[p]))
  BY DEF WaiterMoves
<1>4. \A p \in Projects : Past(p)' => Past(p)
  BY <1>2 DEF Past
<1> QED BY <1>1, <1>2, <1>3, <1>4, StillKeeps

\* The two ways on: to another place, and out.
LEMMA WaiterGoes ==
  ASSUME RunInv, NEW a \in Actors, process = "up", waiter[a].pc # "idle", WaiterUnchanged,
         \/ /\ \E pc \in {"late", "fin"} \cup InPersist : WaiterGoto(a, pc)
            /\ UNCHANGED <<registered, admitted>>
         \/ ToFinally(a) \/ StopWaiting(a)
  PROVE  WaiterMoves(a)
<1>1. /\ waiter \in [Actors -> WaiterType] /\ waiter[a] \in WaiterType
      /\ waiter[a].task \in TaskIds /\ admitted \subseteq Projects
      /\ \A b \in Actors : waiter[b].pc # "idle" => waiter[b].task \in TaskIds
      /\ registered \in [Projects -> TaskIds \cup {None}]
  BY DEF RunInv, Typed
<1>2. ASSUME NEW pc \in {"late", "fin"} \cup InPersist, WaiterGoto(a, pc),
             UNCHANGED <<registered, admitted>>
      PROVE  WaiterMoves(a)
  <2>1. [waiter[a] EXCEPT !.pc = pc] \in WaiterType
    BY <1>1 DEF WaiterType
  <2> QED BY <1>1, <1>2, <2>1 DEF WaiterGoto, WaiterMoves, WaiterType
<1>3. CASE StopWaiting(a)
  <2> DEFINE t == waiter[a].task
  <2>1. /\ waiter' = [waiter EXCEPT ![a] = Resting]
        /\ Resting \in WaiterType /\ Resting.pc = "idle"
    BY <1>3 DEF StopWaiting, Resting, WaiterType
  <2>2. /\ waiter' \in [Actors -> WaiterType]
        /\ \A b \in Actors : waiter'[b].pc # "idle" => waiter'[b].task \in TaskIds
    BY <1>1, <2>1
  <2>3. CASE UNCHANGED <<registered, admitted>>
    BY <1>1, <2>2, <2>3 DEF WaiterMoves
  <2>4. CASE /\ ~Live(t) /\ registered[ProjectOf(t)] = t
             /\ registered' = [registered EXCEPT ![ProjectOf(t)] = None]
             /\ admitted' = admitted \ {ProjectOf(t)}
    BY <1>1, <2>2, <2>4 DEF WaiterMoves
  <2> QED BY <1>3, <2>3, <2>4 DEF StopWaiting, ForgetTask
<1>4. CASE ToFinally(a)
  BY <1>2, <1>3, <1>4 DEF ToFinally
<1> QED BY <1>2, <1>3, <1>4

\* Every step of such a caller, and the deadline of its wait.
LEMMA WaitersKeep ==
  ASSUME RunInv, NEW a \in Actors, WaiterStep(a) \/ CancelDeadline(a)
  PROVE  RunInv'
<1>1. /\ RowsTyped /\ (UNCHANGED db => RowsTyped')
      /\ task \in [TaskIds -> TaskType]
  BY DEF RunInv, Typed, RowsTyped, db
<1> DEFINE on == {"late", "fin"} \cup InPersist
           goes == \/ (\E pc \in on : WaiterGoto(a, pc)) /\ UNCHANGED <<registered, admitted>>
                   \/ ToFinally(a) \/ StopWaiting(a)
<1>2. CASE TaskEnded(a) \/ CancelDeadline(a)
  <2>1. /\ process = "up" /\ waiter[a].pc # "idle" /\ WaiterUnchanged
        /\ UNCHANGED <<task, db>> /\ goes
    BY <1>2 DEF TaskEnded, CancelDeadline, WaiterAt
  <2>2. WaiterMoves(a)
    BY <2>1, WaiterGoes
  <2> QED BY <1>1, <2>1, <2>2, WaiterMoveKeeps
<1>3. CASE PersistEnter(a)
  <2>1. /\ process = "up" /\ waiter[a].pc # "idle" /\ WaiterUnchanged
        /\ UNCHANGED <<task, db>> /\ goes
    BY <1>3 DEF PersistEnter, WaiterAt, InPersist
  <2>2. WaiterMoves(a)
    BY <2>1, WaiterGoes
  <2> QED BY <1>1, <2>1, <2>2, WaiterMoveKeeps
<1>4. CASE PersistRow(a)
  <2>1. /\ process = "up" /\ waiter[a].pc # "idle" /\ WaiterUnchanged
        /\ UNCHANGED <<task, projStatus>> /\ goes
    BY <1>4 DEF PersistRow, AfterPersist, WaiterAt, InPersist
  <2>2. WaiterMoves(a)
    BY <2>1, WaiterGoes
  <2>3. RowsTyped'
    <3>1. Write(ExecOf(waiter[a].task), "interrupted") \/ UNCHANGED rows
      BY <1>4 DEF PersistRow
    <3> QED BY <1>1, <2>1, <3>1, StatusNames, WriteTyped DEF RowsTyped
  <2> QED BY <1>1, <2>1, <2>2, <2>3, WaiterMoveKeeps
<1>5. CASE PersistProject(a)
  <2> DEFINE t == waiter[a].task
  <2>1. /\ process = "up" /\ waiter[a].pc # "idle" /\ WaiterUnchanged
        /\ UNCHANGED rows /\ goes
    BY <1>5 DEF PersistProject, AfterPersist, WaiterAt
  <2>2. WaiterMoves(a)
    BY <2>1, WaiterGoes
  <2>3. RowsTyped'
    <3>1. Publish(ProjectOf(t), "interrupted") \/ UNCHANGED projStatus
      BY <1>5 DEF PersistProject
    <3> QED BY <1>1, <2>1, <3>1, StatusNames, PublishTyped DEF RowsTyped
  <2>4. task' = [task EXCEPT ![t].persisted = TRUE] \/ task' = task
    BY <1>5 DEF PersistProject
  <2>5. /\ task' \in [TaskIds -> TaskType]
        /\ \A u \in TaskIds : /\ task'[u].pc = task[u].pc
                               /\ task'[u].project = task[u].project
                               /\ task'[u].started = task[u].started
    <3>1. t \in TaskIds /\ task[t] \in TaskType
      BY <1>1, <2>1 DEF RunInv, Typed
    <3>2. [task[t] EXCEPT !.persisted = TRUE] \in TaskType
      BY <3>1 DEF TaskType
    <3>3. CASE task' = [task EXCEPT ![t].persisted = TRUE]
      BY <1>1, <3>1, <3>2, <3>3 DEF TaskType
    <3> QED BY <1>1, <2>4, <3>3
  <2> QED BY <2>2, <2>3, <2>5, WaiterMoveKeeps
<1> QED BY <1>2, <1>3, <1>4, <1>5 DEF WaiterStep

\* POST /agent/{id}/pause and shutdown(): cancellations, nothing else.
LEMMA CancelsKeep ==
  ASSUME RunInv, process = "up", NEW S, CancelTasks(S), S \subseteq TaskIds \cup {None},
         accepting' \in BOOLEAN, accepting' => accepting,
         waiter' \in [Actors -> WaiterType],
         \A b \in Actors : waiter'[b].pc # "idle" => waiter'[b].task \in TaskIds,
         deleting' \subseteq Projects,
         UNCHANGED <<registered, starting, admitted, slots, expired, task, start, process, db>>
  PROVE  RunInv'
<1>1. cancelled' \subseteq TaskIds
  BY DEF CancelTasks, Live, RunInv, Typed
<1>2. Typed'
  BY <1>1 DEF RunInv, Typed, RowsTyped, db
<1>3. \A p \in Projects : Past(p)' => Past(p)
  BY DEF Past
<1> QED BY <1>2, <1>3, StillKeeps

\* A caller that begins to wait for a registered task.
LEMMA AwaitingTyped ==
  ASSUME RunInv, NEW a \in Actors, NEW t \in TaskIds, waiter' = Awaiting(a, t)
  PROVE  /\ waiter' \in [Actors -> WaiterType]
         /\ \A b \in Actors : waiter'[b].pc # "idle" => waiter'[b].task \in TaskIds
<1>1. /\ waiter \in [Actors -> WaiterType]
      /\ \A b \in Actors : waiter[b].pc # "idle" => waiter[b].task \in TaskIds
  BY DEF RunInv, Typed
<1>2. [pc |-> "await", task |-> t] \in WaiterType
  BY DEF WaiterType
<1> QED BY <1>1, <1>2 DEF Awaiting

\* The pause request.
LEMMA PauseKeeps ==
  ASSUME RunInv, NEW a \in Pausers, NEW p \in Projects, Pause(a, p)
  PROVE  RunInv'
<1>1. a \in Actors /\ registered[p] \in TaskIds /\ process = "up" /\ accepting \in BOOLEAN
      /\ deleting \subseteq Projects
  BY DEF Pause, WaiterAt, Actors, RunInv, Typed, Live
<1>2. /\ waiter' \in [Actors -> WaiterType]
      /\ \A b \in Actors : waiter'[b].pc # "idle" => waiter'[b].task \in TaskIds
  BY <1>1, AwaitingTyped DEF Pause
<1>3. CancelTasks({registered[p]})
  BY DEF Pause
<1>4. UNCHANGED <<accepting, registered, starting, admitted, deleting, slots, expired, task,
                  start, process, db>>
  BY DEF Pause, manager
<1> QED BY <1>1, <1>2, <1>3, <1>4, CancelsKeep

\* DELETE /projects/{id}.
LEMMA DeletionsKeep ==
  ASSUME RunInv, NEW p \in Projects, BeginDeletion(p) \/ DeletionStep(p)
  PROVE  RunInv'
<1>1. Typed /\ RowsTyped /\ deleting \subseteq Projects /\ accepting \in BOOLEAN
  BY DEF RunInv, Typed
<1>2. ASSUME DeletionUnchanged, UNCHANGED <<cancelled, waiter>>, process = "up",
             deleting' \subseteq Projects, RowsTyped'
      PROVE  RunInv'
  <2>1. Typed'
    BY <1>1, <1>2 DEF DeletionUnchanged, Typed
  <2>2. /\ process' = "up"
        /\ UNCHANGED <<slots, expired, task, accepting, registered, start>>
    BY <1>2 DEF DeletionUnchanged
  <2>3. \A q \in Projects : Past(q)' => Past(q)
    BY <2>2 DEF Past
  <2> QED BY <2>1, <2>2, <2>3, StillKeeps
<1>3. UNCHANGED db => RowsTyped'
  BY <1>1 DEF RowsTyped, db
<1>4. CASE BeginDeletion(p)
  <2>1. /\ process = "up" /\ DeletionUnchanged /\ UNCHANGED db
        /\ deleting' \subseteq Projects
    BY <1>1, <1>4 DEF BeginDeletion, DeletionAt
  <2>2. CASE UNCHANGED <<cancelled, waiter>>
    BY <1>2, <1>3, <2>1, <2>2
  <2>3. CASE /\ registered[p] # None /\ CancelTasks({registered[p]})
             /\ waiter' = Awaiting(Deleter(p), registered[p])
    <3>1. registered[p] \in TaskIds /\ Deleter(p) \in Actors
      BY <1>1, <2>3 DEF Typed, Actors
    <3>2. /\ waiter' \in [Actors -> WaiterType]
          /\ \A b \in Actors : waiter'[b].pc # "idle" => waiter'[b].task \in TaskIds
      BY <2>3, <3>1, AwaitingTyped
    <3>3. {registered[p]} \subseteq TaskIds \cup {None}
      BY <3>1
    <3> QED BY <1>1, <2>1, <2>3, <3>2, <3>3, CancelsKeep DEF DeletionUnchanged
  <2> QED BY <1>4, <2>2, <2>3 DEF BeginDeletion
<1>5. CASE DeletionAwaited(p)
  BY <1>1, <1>2, <1>3, <1>5 DEF DeletionAwaited, DeletionAt
<1>6. CASE DeleteCheckpoints(p)
  <2>1. rows' \in [ExecIds -> RowType]
    <3>1. \A e \in ExecIds :
            rows[e] \in RowType /\ [rows[e] EXCEPT !.ckpt = "missing"] \in RowType
      BY <1>1 DEF RowsTyped, RowType
    <3> QED BY <1>6, <3>1 DEF DeleteCheckpoints
  <2>2. RowsTyped'
    BY <1>1, <1>6, <2>1 DEF DeleteCheckpoints, RowsTyped
  <2> QED BY <1>1, <1>2, <1>6, <2>2 DEF DeleteCheckpoints, DeletionAt
<1>7. CASE DeleteRows(p)
  <2>1. rows' \in [ExecIds -> RowType]
    <3>1. \A e \in ExecIds :
            rows[e] \in RowType /\ [rows[e] EXCEPT !.status = "deleted"] \in RowType
      BY <1>1 DEF RowsTyped, RowType, Statuses
    <3> QED BY <1>7, <3>1 DEF DeleteRows
  <2>2. RowsTyped'
    BY <1>1, <1>7, <2>1, StatusNames DEF DeleteRows, RowsTyped
  <2> QED BY <1>1, <1>2, <1>7, <2>2 DEF DeleteRows, DeletionAt
<1>8. CASE DeletionFails(p)
  BY <1>1, <1>2, <1>3, <1>8 DEF DeletionFails, DeletionAt
<1>9. CASE EndDeletion(p)
  BY <1>1, <1>2, <1>3, <1>9 DEF EndDeletion, DeletionAt
<1> QED BY <1>4, <1>5, <1>6, <1>7, <1>8, <1>9 DEF DeletionStep

-----------------------------------------------------------------------------
\* shutdown() cancels every registered task and waits for each.
LEMMA ShutdownKeeps == RunInv /\ Shutdown => RunInv'
<1> SUFFICES ASSUME RunInv, Shutdown PROVE RunInv'
  OBVIOUS
<1> DEFINE S == {registered[p] : p \in {q \in Projects : registered[q] # None}}
<1>1. /\ waiter \in [Actors -> WaiterType] /\ deleting \subseteq Projects
      /\ \A a \in Actors : waiter[a].pc # "idle" => waiter[a].task \in TaskIds
      /\ registered \in [Projects -> TaskIds \cup {None}]
  BY DEF RunInv, Typed
<1>2. ASSUME NEW a \in Actors, NEW p \in Projects, a = Stopper(p), registered[p] # None
      PROVE  registered[CHOOSE q \in Projects : a = Stopper(q)] \in TaskIds
  <2>1. (CHOOSE q \in Projects : a = Stopper(q)) = p
    BY <1>2 DEF Stopper
  <2> QED BY <1>1, <1>2, <2>1
<1>3. \A a \in Actors : /\ waiter'[a] \in WaiterType
                        /\ waiter'[a].pc # "idle" => waiter'[a].task \in TaskIds
  <2> SUFFICES ASSUME NEW a \in Actors
               PROVE  /\ waiter'[a] \in WaiterType
                      /\ waiter'[a].pc # "idle" => waiter'[a].task \in TaskIds
    OBVIOUS
  <2> DEFINE t == registered[CHOOSE p \in Projects : a = Stopper(p)]
  <2>1. CASE \E p \in Projects : a = Stopper(p) /\ registered[p] # None
    <3>1. t \in TaskIds
      BY <1>2, <2>1
    <3>2. waiter'[a] = [pc |-> "await", task |-> t]
      BY <2>1 DEF Shutdown
    <3> QED BY <3>1, <3>2 DEF WaiterType
  <2>2. CASE ~\E p \in Projects : a = Stopper(p) /\ registered[p] # None
    <3>1. waiter'[a] = waiter[a]
      BY <2>2 DEF Shutdown
    <3> QED BY <1>1, <3>1
  <2> QED BY <2>1, <2>2
<1>4. waiter' \in [Actors -> WaiterType]
  BY <1>3 DEF Shutdown
<1>5. S \subseteq TaskIds \cup {None} /\ CancelTasks(S) /\ process = "up"
  BY <1>1 DEF Shutdown
<1>6. /\ accepting' \in BOOLEAN /\ (accepting' => accepting) /\ deleting' \subseteq Projects
      /\ UNCHANGED <<registered, starting, admitted, slots, expired, task, start, process, db>>
  BY <1>1 DEF Shutdown
<1> QED BY <1>3, <1>4, <1>5, <1>6, CancelsKeep

\* Its last step empties the tables, when nothing is admitted any more.
LEMMA ClearManagerKeeps == RunInv /\ ClearManager => RunInv'
<1> SUFFICES ASSUME RunInv, ClearManager PROVE RunInv'
  OBVIOUS
<1>1. /\ process' = "up" /\ ~accepting /\ registered' = [p \in Projects |-> None]
      /\ starting' = {} /\ admitted' = {} /\ deleting' = {}
      /\ UNCHANGED <<accepting, slots, flags, task, start, waiter, deletion, db>>
  BY DEF ClearManager, pcs
<1>2. Typed'
  BY <1>1 DEF RunInv, Typed, RowsTyped, flags, db
<1>3. \A p \in Projects : registered'[p] = None
  BY <1>1
<1>4. \A p \in Projects : Past(p)' => Past(p)
  BY <1>1 DEF Past
<1>5. UNCHANGED <<slots, expired, task>> /\ ~accepting'
  BY <1>1 DEF flags
<1> QED BY <1>1, <1>2, <1>3, <1>4, <1>5, StillKeeps

\* A gate with nobody in it is a new one.
LEMMA EmptyGate == GateProofs!Init => GateProofs!GateInv
BY GateIsSound, GateProofs!InitGateInv

\* The same of the gate after a step.
LEMMA EmptyGateNext == GateProofs!Init' => GateProofs!GateInv'
BY EmptyGate, PTL

\* The end of the process leaves no live task, start, caller or slot in use.
LEMMA ProcessEndsKeeps == RunInv /\ ProcessEnds => RunInv'
<1> SUFFICES ASSUME RunInv, ProcessEnds PROVE RunInv'
  OBVIOUS
<1>1. Typed /\ task \in [TaskIds -> TaskType]
  BY DEF RunInv, Typed
<1>2. \A t \in TaskIds : /\ task'[t] \in TaskType
                         /\ task'[t].pc \in {"unborn", "done"}
                         /\ task'[t].pc = "unborn" <=> task[t].pc = "unborn"
                         /\ task'[t].project = task[t].project
                         /\ task'[t].started = task[t].started
  <2> SUFFICES ASSUME NEW t \in TaskIds
               PROVE  /\ task'[t] \in TaskType
                      /\ task'[t].pc \in {"unborn", "done"}
                      /\ task'[t].pc = "unborn" <=> task[t].pc = "unborn"
                      /\ task'[t].project = task[t].project
                      /\ task'[t].started = task[t].started
    OBVIOUS
  <2>1. task[t] \in TaskType /\ (Live(t) <=> task[t].pc \notin {"unborn", "done"})
    BY <1>1, IdsAreNotNone
  <2>2. CASE Live(t)
    <3>1. task'[t] = [task[t] EXCEPT !.pc = "done"]
      BY <2>2 DEF ProcessEnds
    <3> QED BY <2>1, <2>2, <3>1 DEF TaskType, TaskPCs
  <2>3. CASE ~Live(t)
    <3>1. task'[t] = task[t]
      BY <2>3 DEF ProcessEnds
    <3> QED BY <2>1, <2>3, <3>1
  <2> QED BY <2>2, <2>3
<1>3. \A t \in TaskIds : ~Live(t)'
  BY <1>2 DEF Live
<1>4. Typed'
  <2>1. task' \in [TaskIds -> TaskType]
    BY <1>2 DEF ProcessEnds
  <2>2. NoStart \in StartType /\ Resting \in WaiterType /\ Resting.pc = "idle"
    BY DEF NoStart, StartType, StartPCs, Resting, WaiterType
  <2>3. start' \in [Projects -> StartType] /\ waiter' \in [Actors -> WaiterType]
        /\ \A a \in Actors : waiter'[a].pc = "idle"
    BY <2>2 DEF ProcessEnds
  <2>4. RowsTyped'
    BY <1>1 DEF ProcessEnds, Typed, RowsTyped, db
  <2> QED BY <1>1, <2>1, <2>3, <2>4 DEF ProcessEnds, Typed
<1>5. \A p \in Projects : ~Past(p)'
  BY DEF ProcessEnds, Past, NoStart
<1>6. Quiet' /\ NoRival' /\ OneTaskPerProject'
  BY <1>3, <1>5 DEF Quiet, NoRival, OneTaskPerProject, LiveTasks, ProcessEnds
<1>7. Known'
  BY <1>2 DEF RunInv, Known, ProcessEnds
<1>8. GateProofs!GateInv'
  <2>1. Due' = {}
    BY DEF ProcessEnds, Due
  <2>2. GateProofs!Init'
    BY <2>1 DEF GateProofs!Init, ProcessEnds
  <2> QED BY <2>2, EmptyGateNext
<1>9. Placed'
  <2>1. \A t \in TaskIds : stage'[t] = "idle" /\ t \notin expired'
    BY DEF ProcessEnds
  <2> QED BY <1>2, <2>1 DEF RunInv, Placed, Place, BeforeRun, WithSlot
<1> QED BY <1>4, <1>6, <1>7, <1>8, <1>9 DEF RunInv

\* The next one starts with what the last one left in the database.
LEMMA StartupKeeps == RunInv /\ Startup => RunInv'
<1> SUFFICES ASSUME RunInv, Startup PROVE RunInv'
  OBVIOUS
<1>1. /\ process = "down" /\ process' = "up" /\ accepting' = TRUE
      /\ UNCHANGED <<registered, starting, admitted, deleting, slots, flags,
                      task, start, waiter, deletion>>
  BY DEF Startup
<1>2. RowsTyped'
  <2>1. PICK projectsFail \in BOOLEAN, rowsFail \in BOOLEAN :
          /\ projStatus' = [p \in Projects |->
               IF ~projectsFail /\ projStatus[p] = "running" THEN "interrupted" ELSE projStatus[p]]
          /\ rows' = [e \in ExecIds |->
               IF ~rowsFail /\ Stale(e)
               THEN [rows[e] EXCEPT !.status = "interrupted"] ELSE rows[e]]
    BY DEF Startup
  <2>2. RowsTyped
    BY DEF RunInv, Typed
  <2>3. \A e \in ExecIds :
          rows[e] \in RowType /\ [rows[e] EXCEPT !.status = "interrupted"] \in RowType
    BY <2>2, StatusNames DEF RowsTyped, RowType
  <2>4. rows' \in [ExecIds -> RowType]
    BY <2>1, <2>3
  <2>5. projStatus' \in [Projects -> Published]
    BY <2>1, <2>2, StatusNames DEF RowsTyped
  <2> QED BY <2>4, <2>5 DEF RowsTyped
<1>3. Typed'
  BY <1>1, <1>2 DEF RunInv, Typed, flags
<1>4. \A u \in TaskIds : ~Live(u)
  BY <1>1 DEF RunInv, Quiet
<1>5. \A p \in Projects : Past(p)' => Past(p)
  BY <1>1 DEF Past
<1>6. UNCHANGED <<slots, expired, task>>
  BY <1>1 DEF flags
<1> QED BY <1>1, <1>3, <1>4, <1>5, <1>6, StillKeeps

-----------------------------------------------------------------------------
\* RunInv is inductive.
LEMMA NextKeepsRunInv == RunInv /\ [Next]_vars => RunInv'
<1> SUFFICES ASSUME RunInv, [Next]_vars PROVE RunInv'
  OBVIOUS
<1>1. CASE UNCHANGED vars
  <2>1. UNCHANGED <<manager, slots, flags, pcs, db, history>>
    BY <1>1 DEF vars
  <2>2. RunInv' = RunInv
    BY <2>1 DEF manager, slots, flags, pcs, db, RunInv, Typed, RowsTyped, Quiet, Live, Past,
       Known, NoRival, OneTaskPerProject, LiveTasks, ProjectOf, Placed, Place,
       GateProofs!GateInv, GateProofs!TypeOK, GateProofs!LineOK, GateProofs!CountOK,
       GateProofs!NoIdleSlot, GateProofs!QueueBounded, GateProofs!Holders, Due
  <2> QED BY <2>2
<1>2. CASE Next
  BY <1>2, StartsKeep, TasksKeep, PauseKeeps, WaitersKeep, DeletionsKeep, ShutdownKeeps,
     ClearManagerKeeps, ProcessEndsKeeps, StartupKeeps DEF Next
<1> QED BY <1>1, <1>2

\* The inductive invariant holds in every reachable state.
THEOREM RuntimeInvariant == Spec => []RunInv
BY InitRunInv, NextKeepsRunInv, PTL DEF Spec

\* Two tasks never work on one project, however start(), deletion, shutdown
\* and the tables' three pops interleave.
THEOREM OneTaskEach == Spec => []OneTaskPerProject
<1>1. RunInv => OneTaskPerProject
  BY DEF RunInv
<1> QED BY <1>1, RuntimeInvariant, PTL

\* Only a live task has a slot or a place in the queue, and the state is typed.
THEOREM SlotsAreReturned == Spec => []NoSlotLeak
<1>1. RunInv => NoSlotLeak
  <2> SUFFICES ASSUME RunInv PROVE NoSlotLeak
    OBVIOUS
  <2>1. TypeOK
    <3>1. GateProofs!TypeOK /\ Typed
      BY DEF RunInv, GateProofs!GateInv
    <3> QED BY <3>1 DEF TypeOK, Typed, RowsTyped, TaskType, StartType, WaiterType, RowType,
         Statuses, GateProofs!TypeOK, GateProofs!Stages, Gate!Stages
  <2>2. \A t \in TaskIds : stage[t] \in {"waiting", "granted", "holding"} => Live(t)
    <3>1. \A t \in TaskIds : task[t].pc \in TaskPCs /\ Place(t)
      BY DEF RunInv, Placed, Typed, TaskType
    <3> QED BY <3>1, IdsAreNotNone DEF Place, TaskPCs, BeforeRun, WithSlot
  <2> QED BY <2>1, <2>2 DEF NoSlotLeak
<1> QED BY <1>1, RuntimeInvariant, PTL

-----------------------------------------------------------------------------
(***************************************************************************)
(* The manager uses the gate as the gate's module says, one task at a      *)
(* time.  Only shutdown and the end of the process interrupt many tasks at *)
(* once; without them (MayStop is FALSE) every step is one of the gate's.  *)
(***************************************************************************)
GateMoves == [Gate!Next]_<<available, waiters, stage, Due>>

\* Steps that leave the gate alone, but perhaps interrupt one task's wait.
LEMMA GateLeftAlone ==
  ASSUME UNCHANGED slots, NEW t \in TaskIds,
         \A u \in TaskIds : u # t => (u \in Due' <=> u \in Due),
         t \in Due => t \in Due', Due \subseteq TaskIds, Due' \subseteq TaskIds
  PROVE  GateMoves
<1>1. CASE t \in Due' <=> t \in Due
  <2>1. Due' = Due
    BY <1>1
  <2> QED BY <2>1 DEF GateMoves, slots
<1>2. CASE t \in Due' /\ t \notin Due
  <2>1. Due' = Due \cup {t}
    BY <1>2
  <2>2. stage[t] \in {"waiting", "granted"}
    BY <1>2 DEF Due, slots
  <2> QED BY <2>1, <2>2 DEF GateMoves, Gate!Next, Gate!Step, Gate!Interrupt, slots
<1> QED BY <1>1, <1>2

\* An await of a task is no step of the gate, or the release of its slot.
LEMMA AwaitsUseGate ==
  ASSUME RunInv, NEW t \in TaskIds,
         \/ \E at \in BeforeRun : Awaits(t, at, BeforeRun \cup {"done", "persisted"})
         \/ \E at \in WithSlot : Awaits(t, at, WithSlot \cup {"done"})
  PROVE  GateMoves
<1>1. Place(t) /\ Typed
  BY DEF RunInv, Placed
<1>2. PICK pc \in BeforeRun \cup WithSlot \cup {"done", "persisted"} :
        Goto(t, pc) /\ (pc = "persisted" => task[t].pc \in BeforeRun)
  BY DEF Awaits, TaskAt, BeforeRun, WithSlot
<1>3. task[t].pc \in BeforeRun \cup WithSlot
  BY DEF Awaits, TaskAt
<1>4. Live(t) /\ pc \in (TaskPCs \ {"unborn", "new"}) \cup {"persisted"}
  BY <1>2, <1>3, IdsAreNotNone DEF BeforeRun, WithSlot, TaskPCs
<1>5. pc = "persisted" => ~task[t].started
  BY <1>1, <1>2 DEF Place
<1>6. UNCHANGED slots \/ Gate!Release(t)
  BY <1>2, <1>4, <1>5, GotoMoves
<1>7. CASE Gate!Release(t)
  BY <1>7 DEF GateMoves, Gate!Next, Gate!Step
<1>8. CASE UNCHANGED slots
  <2>1. stage[t] \notin {"waiting", "granted"}
    BY <1>1, <1>3 DEF Place
  <2>2. /\ cancelled \ {t} \subseteq cancelled' /\ cancelled' \subseteq cancelled
        /\ UNCHANGED expired
    BY DEF Awaits
  <2>3. Due' = Due
    BY <1>8, <2>1, <2>2 DEF Due, slots
  <2> QED BY <1>8, <2>3 DEF GateMoves, slots
<1> QED BY <1>6, <1>7, <1>8

\* The steps of a task.
LEMMA TasksUseGate ==
  ASSUME RunInv, NEW t \in TaskIds, TaskStep(t) \/ GraphStep(t) \/ QueueDeadline(t)
  PROVE  GateMoves
<1>1. Due \subseteq TaskIds /\ Place(t)
  BY DEF Due, RunInv, Typed, Placed
<1>2. CASE \/ \E at \in BeforeRun : Awaits(t, at, BeforeRun \cup {"done", "persisted"})
           \/ \E at \in WithSlot : Awaits(t, at, WithSlot \cup {"done"})
  BY <1>2, AwaitsUseGate
<1>3. CASE DieUnstarted(t)
  <2>1. Due' = Due
    BY <1>1, <1>3 DEF DieUnstarted, TaskAt, Place, Due, slots
  <2> QED BY <1>3, <2>1 DEF DieUnstarted, GateMoves, slots
<1>4. CASE EnterGate(t)
  BY <1>4 DEF EnterGate, GateMoves, Gate!Next, Gate!Step
<1>5. CASE Granted(t) \/ LeaveGate(t)
  BY <1>5 DEF Granted, LeaveGate, LeaveQueueFor, GateMoves, Gate!Next, Gate!Step
<1>6. CASE GraphStep(t) \/ GraphEnd(t)
  <2>1. UNCHANGED <<slots, flags>>
    BY <1>6 DEF GraphStep, GraphEnd
  <2> QED BY <2>1 DEF GateMoves, slots, flags, Due
<1>7. CASE QueueDeadline(t)
  <2>1. UNCHANGED <<slots, cancelled>> /\ expired' = expired \cup {t}
    BY <1>7 DEF QueueDeadline
  <2>2. /\ \A u \in TaskIds : u # t => (u \in Due' <=> u \in Due)
        /\ t \in Due => t \in Due'
        /\ Due' \subseteq TaskIds
    BY <1>1, <2>1 DEF Due, slots, RunInv, Typed
  <2> QED BY <1>1, <2>1, <2>2, GateLeftAlone
<1> QED BY <1>2, <1>3, <1>4, <1>5, <1>6, <1>7, QueueAwaits, RunAwaits DEF TaskStep

\* Every step, unless the process may stop.
LEMMA StepsUseGate == RunInv /\ ~MayStop /\ [Next]_vars => GateMoves
<1> SUFFICES ASSUME RunInv, ~MayStop, [Next]_vars PROVE GateMoves
  OBVIOUS
<1>1. Due \subseteq TaskIds /\ cancelled \subseteq TaskIds /\ expired \subseteq TaskIds
  BY DEF Due, RunInv, Typed
<1>2. ASSUME UNCHANGED <<slots, flags>> PROVE GateMoves
  BY <1>2 DEF GateMoves, slots, flags, Due
<1>3. ASSUME NEW p \in Projects, registered[p] # None, CancelTasks({registered[p]}),
             UNCHANGED <<slots, expired>>
      PROVE  GateMoves
  <2> DEFINE t == registered[p]
  <2>1. t \in TaskIds
    BY <1>3 DEF RunInv, Typed
  <2>2. /\ \A u \in TaskIds : u # t => (u \in Due' <=> u \in Due)
        /\ t \in Due => t \in Due'
        /\ Due' \subseteq TaskIds
    BY <1>1, <1>3, <2>1 DEF CancelTasks, Due, slots
  <2> QED BY <1>1, <1>3, <2>1, <2>2, GateLeftAlone
<1>4. CASE UNCHANGED vars
  BY <1>2, <1>4 DEF vars
<1>5. ASSUME NEW p \in Projects, (\E resume \in BOOLEAN : Request(p, resume)) \/ StartStep(p)
      PROVE  GateMoves
  <2>1. UNCHANGED <<slots, flags>>
    BY <1>5 DEF Request, StartStep, StartUnchanged, Admit, Reject, Latest, Inspect, Claim,
       Reconcile, ReconcileProject, Create, PublishStart, Schedule, Stopped, StopRow,
       StopProject, AbortRow, AbortProject, StartRaises
  <2> QED BY <1>2, <2>1
<1>6. ASSUME NEW a \in Actors, WaiterStep(a) \/ CancelDeadline(a) PROVE GateMoves
  <2>1. UNCHANGED <<slots, flags>>
    BY <1>6 DEF WaiterStep, CancelDeadline, TaskEnded, PersistEnter, PersistRow, PersistProject,
       WaiterUnchanged
  <2> QED BY <1>2, <2>1
<1>7. ASSUME NEW a \in Pausers, NEW p \in Projects, Pause(a, p) PROVE GateMoves
  BY <1>3, <1>7 DEF Pause, Live
<1>8. ASSUME NEW p \in Projects, BeginDeletion(p) PROVE GateMoves
  <2>1. UNCHANGED <<slots, expired>>
    BY <1>8 DEF BeginDeletion, DeletionUnchanged
  <2>2. CASE registered[p] # None /\ CancelTasks({registered[p]})
    BY <1>3, <2>1, <2>2
  <2>3. CASE UNCHANGED cancelled
    BY <1>2, <2>1, <2>3 DEF flags
  <2> QED BY <1>8, <2>2, <2>3 DEF BeginDeletion
<1>9. ASSUME NEW p \in Projects, DeletionStep(p) PROVE GateMoves
  <2>1. UNCHANGED <<slots, flags>>
    BY <1>9 DEF DeletionStep, DeletionAwaited, DeleteCheckpoints, DeleteRows, DeletionFails,
       EndDeletion, DeletionUnchanged, flags
  <2> QED BY <1>2, <2>1
<1>10. CASE ClearManager \/ Startup
  <2>1. UNCHANGED <<slots, flags>>
    BY <1>10 DEF ClearManager, Startup
  <2> QED BY <1>2, <2>1
<1>11. CASE Shutdown \/ ProcessEnds
  BY <1>11 DEF Shutdown, ProcessEnds
<1> QED BY <1>4, <1>5, <1>6, <1>7, <1>8, <1>9, <1>10, <1>11, TasksUseGate DEF Next

\* What FifoGateProofs shows of slots and queue holds for Agent runs.
THEOREM ManagerUsesGate == ASSUME ~MayStop PROVE Spec => UsesGate
<1>1. Init => Gate!Init
  BY DEF Init, Gate!Init, Due
<1>2. RunInv /\ [Next]_vars => [Gate!Next]_<<available, waiters, stage, Due>>
  BY StepsUseGate DEF GateMoves
<1> QED BY <1>1, <1>2, RuntimeInvariant, PTL DEF Spec, UsesGate, Gate!Spec, Gate!gateVars

-----------------------------------------------------------------------------
(***************************************************************************)
(* Work that reached END is never run again, for any projects, bounds and  *)
(* interleavings.                                                          *)
(*                                                                         *)
(* The graph of a task that is on its way to END writes "runnable" over    *)
(* whatever its checkpoint says, so a terminal checkpoint must have nobody *)
(* on that way (Unfinished), from the moment a resume has inspected it.    *)
(* That nobody else finishes the execution meanwhile follows from          *)
(* OneTaskPerProject and NoRival, because an execution belongs to one      *)
(* project (Linked).                                                       *)
(***************************************************************************)
Has(p, e) == e \in ExecIds /\ rows[e].project = p /\ rows[e].status # "absent"
Open(e) == rows[e].ckpt \notin {"success", "failure"}

\* Where start() has an execution of its own.
Opened == {"publish", "schedule", "stop", "stopProject", "abort"}

StartLinked(p) ==
  /\ start[p].pc \in {"inspect", "claim"} => Has(p, start[p].prior)
  /\ start[p].pc = "claim" => Open(start[p].prior)
  /\ start[p].pc \in Opened => Has(p, start[p].exec)
  /\ start[p].pc \in {"publish", "schedule"} => Open(start[p].exec)

TaskLinked(t) ==
  /\ Live(t) => Has(task[t].project, task[t].exec)
  /\ task[t].pc \in Ahead => Open(task[t].exec)

ExecInv ==
  /\ \A p \in Projects : StartLinked(p)
  /\ \A t \in TaskIds : TaskLinked(t)

\* One step of TerminalCheckpointsStay.
StaysTerminal ==
  \A e \in ExecIds : rows[e].ckpt \in {"success", "failure"} => rows'[e].ckpt # "runnable"

-----------------------------------------------------------------------------
(***************************************************************************)
(* What nearly all steps do to the rows and to the tasks.                  *)
(***************************************************************************)
RowsKept ==
  \A e \in ExecIds :
    /\ rows[e].status # "absent" => rows'[e].project = rows[e].project /\ rows'[e].status # "absent"
    /\ Open(e) => Open(e)'

TasksKept ==
  \A t \in TaskIds :
    /\ Live(t)' => Live(t) /\ task'[t].project = task[t].project /\ task'[t].exec = task[t].exec
    /\ task'[t].pc \in Ahead => task[t].pc \in Ahead

\* Such steps keep ExecInv, if the start() calls they move stay linked.
LEMMA LinksKept ==
  ASSUME RunInv, ExecInv, RowsKept, TasksKept,
         \A p \in Projects : start'[p] = start[p] \/ StartLinked(p)'
  PROVE  ExecInv'
<1>1. \A p \in Projects, e \in ExecIds : /\ Has(p, e) => Has(p, e)'
                                         /\ Open(e) => Open(e)'
  BY DEF RowsKept, Has
<1>2. ASSUME NEW p \in Projects, start'[p] = start[p] PROVE StartLinked(p)'
  BY <1>1, <1>2 DEF ExecInv, StartLinked, Opened, Has
<1>3. ASSUME NEW t \in TaskIds PROVE TaskLinked(t)'
  <2>1. ASSUME Live(t)' PROVE Has(task[t].project, task[t].exec)'
    <3>1. Live(t) /\ task'[t].project = task[t].project /\ task'[t].exec = task[t].exec
      BY <1>3, <2>1 DEF TasksKept
    <3>2. Has(task[t].project, task[t].exec) /\ task[t].project \in Projects
      BY <1>3, <3>1 DEF ExecInv, TaskLinked, RunInv, Known, Live
    <3> QED BY <1>1, <3>1, <3>2 DEF Has
  <2>2. ASSUME task'[t].pc \in Ahead PROVE Open(task[t].exec)'
    <3>1. Live(t)'
      BY <1>3, <2>2, IdsAreNotNone DEF Live, Ahead
    <3>2. Live(t) /\ task'[t].exec = task[t].exec /\ task[t].pc \in Ahead
      BY <1>3, <2>2, <3>1 DEF TasksKept
    <3>3. task[t].exec \in ExecIds /\ Open(task[t].exec)
      BY <1>3, <3>2 DEF ExecInv, TaskLinked, Has
    <3> QED BY <3>2, <3>3 DEF RowsKept, Open
  <2> QED BY <2>1, <2>2 DEF TaskLinked
<1> QED BY <1>2, <1>3 DEF ExecInv

\* The statements on statuses keep the rows and their checkpoints.
LEMMA WriteKeepsRows ==
  ASSUME RowsTyped, NEW e, NEW s \in Statuses, Write(e, s)
  PROVE  RowsKept /\ StaysTerminal
<1>1. \A r \in ExecIds : /\ rows'[r].project = rows[r].project /\ rows'[r].ckpt = rows[r].ckpt
                         /\ rows'[r].status = rows[r].status \/ rows'[r].status = s
  BY DEF Write, RowsTyped, RowType, Statuses, Active, Resumable
<1>2. \A r \in ExecIds : Open(r)' <=> Open(r)
  BY <1>1 DEF Open
<1> QED BY <1>1, <1>2 DEF RowsKept, StaysTerminal, Statuses, Active, Resumable

\* So do steps that do not touch the table.
LEMMA NoRowTouched == UNCHANGED rows => RowsKept /\ StaysTerminal
BY DEF RowsKept, Open, StaysTerminal

\* A super-step writes the checkpoint of an execution that is still open.
LEMMA SuperStepIsSafe ==
  ASSUME RunInv, ExecInv, NEW t \in TaskIds, task[t].pc = "graph", SuperStep(t)
  PROVE  RowsKept /\ StaysTerminal
<1>1. /\ rows \in [ExecIds -> RowType]
      /\ rows' = [rows EXCEPT ![task[t].exec].ckpt = "runnable"]
  BY DEF RunInv, Typed, RowsTyped, SuperStep, ExecOf
<1>2. Open(task[t].exec)
  BY DEF ExecInv, TaskLinked, Ahead
<1>3. \A e \in ExecIds : /\ rows'[e].project = rows[e].project /\ rows'[e].status = rows[e].status
                         /\ rows'[e].ckpt = IF e = task[t].exec THEN "runnable" ELSE rows[e].ckpt
  BY <1>1 DEF RowType
<1>4. \A e \in ExecIds : Open(e) => Open(e)'
  BY <1>3 DEF Open
<1>5. StaysTerminal
  BY <1>2, <1>3 DEF StaysTerminal, Open
<1> QED BY <1>3, <1>4, <1>5 DEF RowsKept

\* Whatever a task may write at an await.
LEMMA DataIsSafe ==
  ASSUME RunInv, ExecInv, NEW t \in TaskIds, DataStep(t)
  PROVE  RowsKept /\ StaysTerminal
<1>1. RowsTyped
  BY DEF RunInv, Typed
<1>2. CASE UNCHANGED rows
  BY <1>2, NoRowTouched
<1>3. ASSUME NEW s \in Statuses, Write(ExecOf(t), s)
      PROVE  RowsKept /\ StaysTerminal
  BY <1>1, <1>3, WriteKeepsRows
<1>4. CASE task[t].pc = "graph" /\ SuperStep(t)
  BY <1>4, SuperStepIsSafe
<1> QED BY <1>2, <1>3, <1>4 DEF DataStep, db

\* The awaits of a task.
LEMMA AwaitsAreSafe ==
  ASSUME RunInv, ExecInv, NEW t \in TaskIds,
         \/ \E at \in BeforeRun : Awaits(t, at, BeforeRun \cup {"done", "persisted"})
         \/ \E at \in WithSlot : Awaits(t, at, WithSlot \cup {"done"})
  PROVE  ExecInv' /\ StaysTerminal
<1>1. RowsKept /\ StaysTerminal
  BY DataIsSafe DEF Awaits
<1>2. PICK pc \in BeforeRun \cup WithSlot \cup {"done", "persisted"} :
        /\ Goto(t, pc) /\ (pc = "persisted" => task[t].pc \in BeforeRun)
        /\ pc \in Ahead => task[t].pc \in Ahead
  BY DEF Awaits, TaskAt, BeforeRun, WithSlot
<1>3. task[t].pc \in BeforeRun \cup WithSlot
  BY DEF Awaits, TaskAt
<1>4. Live(t) /\ pc \in (TaskPCs \ {"unborn", "new"}) \cup {"persisted"}
  BY <1>2, <1>3, IdsAreNotNone DEF BeforeRun, WithSlot, TaskPCs
<1>5. pc = "persisted" => ~task[t].started
  BY <1>2 DEF RunInv, Placed, Place
<1>6. /\ OnlyTask(t) /\ task'[t].exec = task[t].exec
      /\ task'[t].pc = IF pc = "persisted" THEN "done" ELSE pc
  BY <1>2, <1>4, <1>5, GotoMoves
<1>7. TasksKept
  BY <1>2, <1>4, <1>6 DEF TasksKept, OnlyTask, Live, Ahead
<1>8. start' = start
  BY DEF Awaits, TaskUnchanged
<1> QED BY <1>1, <1>7, <1>8, LinksKept

\* Its steps in the gate, which touch no row.
LEMMA GateStepsAreSafe ==
  ASSUME RunInv, ExecInv, NEW t \in TaskIds,
         DieUnstarted(t) \/ EnterGate(t) \/ QueueDeadline(t) \/ Granted(t) \/ LeaveGate(t)
  PROVE  ExecInv' /\ StaysTerminal
<1>1. UNCHANGED <<rows, start>> /\ task \in [TaskIds -> TaskType]
  BY DEF DieUnstarted, EnterGate, QueueDeadline, Granted, LeaveGate, TaskUnchanged, db, RunInv,
     Typed
<1>2. RowsKept /\ StaysTerminal
  BY <1>1, NoRowTouched
<1>3. task[t].pc \in {"new", "queued"} /\ Live(t)
  BY IdsAreNotNone DEF DieUnstarted, EnterGate, QueueDeadline, Granted, LeaveGate, TaskAt
<1>4. \/ task' = task
      \/ \E pc \in TaskPCs : task' = [task EXCEPT ![t].pc = pc]
      \/ task' = [task EXCEPT ![t].pc = "markRunning", ![t].started = TRUE]
  BY DEF DieUnstarted, EnterGate, QueueDeadline, Granted, LeaveGate, TaskPCs
<1>5. /\ task'[t].project = task[t].project /\ task'[t].exec = task[t].exec
      /\ \A u \in TaskIds : u # t => task'[u] = task[u]
  BY <1>1, <1>4 DEF TaskType
<1>6. TasksKept
  BY <1>3, <1>5 DEF TasksKept, Live, Ahead
<1> QED BY <1>1, <1>2, <1>6, LinksKept

\* The end of the graph: nobody else is on the way with this execution.
LEMMA GraphEndIsSafe ==
  ASSUME RunInv, ExecInv, NEW t \in TaskIds, GraphEnd(t)
  PROVE  ExecInv' /\ StaysTerminal
<1> DEFINE e == task[t].exec
<1>1. PICK result \in {"success", "failure"} :
        /\ rows' = [rows EXCEPT ![e].ckpt = result]
        /\ task' = [task EXCEPT ![t].pc = "graphDone", ![t].outcome = result]
  BY DEF GraphEnd, ExecOf
<1>2. /\ rows \in [ExecIds -> RowType] /\ task \in [TaskIds -> TaskType]
      /\ task[t].pc = "graph" /\ UNCHANGED start
  BY DEF RunInv, Typed, RowsTyped, GraphEnd, TaskAt, TaskUnchanged
<1>3. /\ \A r \in ExecIds : /\ rows'[r].project = rows[r].project
                            /\ rows'[r].status = rows[r].status
                            /\ rows'[r].ckpt = IF r = e THEN result ELSE rows[r].ckpt
      /\ \A u \in TaskIds : u # t => task'[u] = task[u]
      /\ task'[t].project = task[t].project /\ task'[t].exec = e /\ task'[t].pc = "graphDone"
  BY <1>1, <1>2 DEF RowType, TaskType
<1>4. Live(t) /\ Has(task[t].project, e) /\ task[t].project \in Projects
  BY <1>2, IdsAreNotNone DEF ExecInv, TaskLinked, RunInv, Known
<1>5. \A p \in Projects, r \in ExecIds : Has(p, r) => Has(p, r)'
  BY <1>3 DEF Has
<1>6. ASSUME NEW p \in Projects PROVE StartLinked(p)'
  <2>1. ASSUME NEW r, Has(p, r), Open(r), Past(p) PROVE Open(r)'
    <3>1. r # e
      BY <1>4, <2>1 DEF RunInv, NoRival, Has
    <3> QED BY <1>3, <2>1, <3>1 DEF Open, Has
  <2>2. StartLinked(p) /\ start'[p] = start[p]
    BY <1>2 DEF ExecInv
  <2>3. start[p].pc \in {"inspect", "claim"} \cup Opened => Past(p)
    BY DEF Past, Opened
  <2>4. start[p].pc \in {"inspect", "claim"} => Has(p, start[p].prior)'
    BY <1>5, <2>2 DEF StartLinked, Has
  <2>5. start[p].pc = "claim" => Open(start[p].prior)'
    BY <2>1, <2>2, <2>3 DEF StartLinked, Open
  <2>6. start[p].pc \in Opened => Has(p, start[p].exec)'
    BY <1>5, <2>2 DEF StartLinked, Has
  <2>7. start[p].pc \in {"publish", "schedule"} => Open(start[p].exec)'
    BY <2>1, <2>2, <2>3 DEF StartLinked, Opened, Open
  <2> QED BY <2>2, <2>4, <2>5, <2>6, <2>7 DEF StartLinked
<1>7. ASSUME NEW u \in TaskIds, u # t PROVE TaskLinked(u)'
  <2>1. TaskLinked(u) /\ task'[u] = task[u] /\ (Live(u)' <=> Live(u))
    BY <1>3, <1>7 DEF ExecInv, Live
  <2>2. Live(u) => task[u].project \in Projects
    BY DEF RunInv, Known, Live
  <2>3. Live(u) => Has(task[u].project, task[u].exec)'
    BY <1>5, <2>1, <2>2 DEF TaskLinked, Has
  <2>4. ASSUME task[u].pc \in Ahead PROVE Open(task[u].exec)'
    <3>1. Live(u) /\ Has(task[u].project, task[u].exec) /\ Open(task[u].exec)
      BY <2>1, <2>4, IdsAreNotNone DEF TaskLinked, Ahead
    <3>2. task[u].exec # e
      BY <1>4, <1>7, <3>1 DEF RunInv, OneTaskPerProject, LiveTasks, ProjectOf, Has
    <3> QED BY <1>3, <2>1, <3>1, <3>2 DEF Open, Has
  <2> QED BY <2>1, <2>3, <2>4 DEF TaskLinked
<1>8. TaskLinked(t)'
  <2>1. Has(task[t].project, task[t].exec)'
    BY <1>3, <1>4, <1>5 DEF Has
  <2> QED BY <1>3, <2>1 DEF TaskLinked, Ahead
<1>9. StaysTerminal
  BY <1>3 DEF StaysTerminal
<1> QED BY <1>6, <1>7, <1>8, <1>9 DEF ExecInv

\* Every step of a task.
LEMMA TasksAreSafe ==
  ASSUME RunInv, ExecInv, NEW t \in TaskIds, TaskStep(t) \/ GraphStep(t) \/ QueueDeadline(t)
  PROVE  ExecInv' /\ StaysTerminal
<1>1. CASE GraphStep(t)
  <2>1. task[t].pc = "graph" /\ SuperStep(t) /\ UNCHANGED <<task, start>>
    BY <1>1 DEF GraphStep, TaskAt, TaskUnchanged
  <2>2. TasksKept
    BY <2>1 DEF TasksKept, Live
  <2> QED BY <2>1, <2>2, SuperStepIsSafe, LinksKept
<1> QED BY <1>1, AwaitsAreSafe, GateStepsAreSafe, GraphEndIsSafe, QueueAwaits, RunAwaits
        DEF TaskStep

-----------------------------------------------------------------------------
(***************************************************************************)
(* start().  Its steps leave the tasks alone, but for Schedule.            *)
(***************************************************************************)
LEMMA StartMovesAreSafe ==
  ASSUME RunInv, ExecInv, NEW p \in Projects, RowsKept, UNCHANGED task,
         \A q \in Projects : q # p => start'[q] = start[q], StartLinked(p)'
  PROVE  ExecInv'
<1>1. TasksKept
  BY DEF TasksKept, Live
<1> QED BY <1>1, LinksKept

\* A step to a place that presupposes nothing.
LEMMA StartLeaves ==
  ASSUME RunInv, NEW p \in Projects,
         \/ \E pc \in StartPCs \ ({"inspect", "claim"} \cup Opened) : StartGoto(p, pc)
         \/ start' = [start EXCEPT ![p] = NoStart]
         \/ \E resume \in BOOLEAN :
              start' = [start EXCEPT ![p] = [NoStart EXCEPT !.pc = "requested", !.resume = resume]]
         \/ Withdraw(p)
  PROVE  StartLinked(p)' /\ \A q \in Projects : q # p => start'[q] = start[q]
<1>1. start \in [Projects -> StartType]
  BY DEF RunInv, Typed
<1> DEFINE free == StartPCs \ ({"inspect", "claim"} \cup Opened)
<1>2. ASSUME NEW s, s.pc \in free, start' = [start EXCEPT ![p] = s]
      PROVE  StartLinked(p)' /\ \A q \in Projects : q # p => start'[q] = start[q]
  BY <1>1, <1>2 DEF StartLinked, Opened
<1>3. NoStart.pc = "idle" /\ "idle" \in free /\ "requested" \in free
  BY DEF NoStart, StartPCs, Opened
<1>4. ASSUME NEW pc \in free, StartGoto(p, pc)
      PROVE  StartLinked(p)' /\ \A q \in Projects : q # p => start'[q] = start[q]
  <2>1. [start[p] EXCEPT !.pc = pc].pc = pc
    BY <1>1 DEF StartType
  <2> QED BY <1>2, <1>4, <2>1 DEF StartGoto
<1>5. ASSUME NEW resume \in BOOLEAN,
             start' = [start EXCEPT ![p] = [NoStart EXCEPT !.pc = "requested", !.resume = resume]]
      PROVE  StartLinked(p)' /\ \A q \in Projects : q # p => start'[q] = start[q]
  <2>1. [NoStart EXCEPT !.pc = "requested", !.resume = resume].pc = "requested"
    BY DEF NoStart
  <2> QED BY <1>2, <1>3, <1>5, <2>1
<1>6. CASE start' = [start EXCEPT ![p] = NoStart] \/ Withdraw(p)
  BY <1>2, <1>3, <1>6 DEF Withdraw
<1> QED BY <1>4, <1>5, <1>6

\* The steps of start() that presuppose nothing of the execution they lead to.
LEMMA StartCallsAreSafe ==
  ASSUME RunInv, ExecInv, NEW p \in Projects,
         \/ \E resume \in BOOLEAN : Request(p, resume)
         \/ Admit(p) \/ Reject(p) \/ Reconcile(p) \/ ReconcileProject(p)
         \/ AbortRow(p) \/ AbortProject(p) \/ StartRaises(p)
  PROVE  ExecInv' /\ StaysTerminal
<1>1. RowsTyped
  BY DEF RunInv, Typed
<1>2. UNCHANGED task
  BY DEF Request, Admit, Reject, Reconcile, ReconcileProject, AbortRow, AbortProject,
         StartRaises, StartUnchanged
<1>3. RowsKept /\ StaysTerminal
  <2>1. UNCHANGED rows \/ \E e \in {start[p].prior, start[p].exec}, s \in Statuses : Write(e, s)
    BY StatusNames DEF Request, Admit, Reject, Reconcile, ReconcileProject, AbortRow,
       AbortProject, StartRaises, db
  <2> QED BY <1>1, <2>1, NoRowTouched, WriteKeepsRows
<1>4. StartLinked(p)' /\ \A q \in Projects : q # p => start'[q] = start[q]
  <2>1. \/ \E pc \in StartPCs \ ({"inspect", "claim"} \cup Opened) : StartGoto(p, pc)
        \/ start' = [start EXCEPT ![p] = NoStart]
        \/ \E resume \in BOOLEAN :
             start' = [start EXCEPT ![p] = [NoStart EXCEPT !.pc = "requested", !.resume = resume]]
        \/ Withdraw(p)
    BY DEF Request, Admit, Reject, Reconcile, ReconcileProject, Stopped, StopRow, StopProject,
       AbortRow, AbortProject, StartRaises, StartPCs, Opened
  <2> QED BY <2>1, StartLeaves
<1> QED BY <1>2, <1>3, <1>4, StartMovesAreSafe

\* Those that close an execution which has no task.
LEMMA StopsAreSafe ==
  ASSUME RunInv, ExecInv, NEW p \in Projects, Stopped(p) \/ StopRow(p) \/ StopProject(p)
  PROVE  ExecInv' /\ StaysTerminal
<1>1. RowsTyped /\ start \in [Projects -> StartType]
  BY DEF RunInv, Typed
<1>2. UNCHANGED task /\ start[p].pc \in Opened
  BY DEF Stopped, StopRow, StopProject, StartUnchanged, StartAt, Opened
<1>3. RowsKept /\ StaysTerminal
  <2>1. UNCHANGED rows \/ Write(start[p].exec, "interrupted")
    BY DEF Stopped, StopRow, StopProject, db
  <2> QED BY <1>1, <2>1, StatusNames, NoRowTouched, WriteKeepsRows
<1>4. StartLinked(p)' /\ \A q \in Projects : q # p => start'[q] = start[q]
  <2>1. CASE Withdraw(p)
    BY <2>1, StartLeaves
  <2>2. ASSUME NEW pc \in {"stop", "stopProject", "abort"}, StartGoto(p, pc)
        PROVE  StartLinked(p)' /\ \A q \in Projects : q # p => start'[q] = start[q]
    <3>1. start'[p].pc = pc /\ start'[p].exec = start[p].exec
          /\ \A q \in Projects : q # p => start'[q] = start[q]
      BY <1>1, <2>2 DEF StartGoto, StartType
    <3>2. Has(p, start[p].exec)
      BY <1>2 DEF ExecInv, StartLinked
    <3> QED BY <1>3, <3>1, <3>2 DEF StartLinked, Has, RowsKept
  <2> QED BY <2>1, <2>2 DEF Stopped, StopRow, StopProject
<1> QED BY <1>2, <1>3, <1>4, StartMovesAreSafe

\* Those that find an execution, look at its checkpoint and take it.
LEMMA StartRowsAreSafe ==
  ASSUME RunInv, ExecInv, NEW p \in Projects,
         Latest(p) \/ Inspect(p) \/ Claim(p) \/ Create(p) \/ PublishStart(p)
  PROVE  ExecInv' /\ StaysTerminal
<1>1. /\ RowsTyped /\ start \in [Projects -> StartType] /\ rows \in [ExecIds -> RowType]
      /\ StartLinked(p)
  BY DEF RunInv, Typed, RowsTyped, ExecInv
<1>2. UNCHANGED task
  BY DEF Latest, Inspect, Claim, Create, PublishStart, StartUnchanged
<1>3. CASE Withdraw(p) /\ UNCHANGED rows
  <2>1. StartLinked(p)' /\ \A q \in Projects : q # p => start'[q] = start[q]
    BY <1>3, StartLeaves
  <2> QED BY <1>2, <1>3, <2>1, NoRowTouched, StartMovesAreSafe
<1>4. ASSUME NEW pc \in {"reconcile", "create", "abortProject"}, StartGoto(p, pc), UNCHANGED rows
      PROVE  ExecInv' /\ StaysTerminal
  <2>1. pc \in StartPCs \ ({"inspect", "claim"} \cup Opened)
    BY DEF StartPCs, Opened
  <2>2. StartLinked(p)' /\ \A q \in Projects : q # p => start'[q] = start[q]
    BY <1>4, <2>1, StartLeaves
  <2> QED BY <1>2, <1>4, <2>2, NoRowTouched, StartMovesAreSafe
<1>5. CASE Latest(p)
  <2>1. UNCHANGED rows
    BY <1>5 DEF Latest, db
  <2>2. ASSUME NEW e \in NewestResumable(p),
               start' = [start EXCEPT ![p].pc = "inspect", ![p].prior = e,
                               ![p].priorFailed = rows[e].status = "failed"]
        PROVE  ExecInv' /\ StaysTerminal
    <3>1. Has(p, e)
      BY DEF NewestResumable, Newest, RowsOf, Has
    <3>2. start'[p].pc = "inspect" /\ start'[p].prior = e
          /\ \A q \in Projects : q # p => start'[q] = start[q]
      BY <1>1, <2>2 DEF StartType
    <3>3. StartLinked(p)'
      BY <2>1, <3>1, <3>2 DEF StartLinked, Opened, Has
    <3> QED BY <1>2, <2>1, <3>2, <3>3, NoRowTouched, StartMovesAreSafe
  <2> QED BY <1>3, <1>5, <2>1, <2>2 DEF Latest
<1>6. CASE Inspect(p)
  <2>1. UNCHANGED rows /\ start[p].pc = "inspect"
    BY <1>6 DEF Inspect, StartAt, db
  <2>2. CASE rows[start[p].prior].ckpt = "runnable" /\ StartGoto(p, "claim")
    <3>1. start'[p].pc = "claim" /\ start'[p].prior = start[p].prior
          /\ \A q \in Projects : q # p => start'[q] = start[q]
      BY <1>1, <2>2 DEF StartGoto, StartType
    <3>2. StartLinked(p)'
      BY <1>1, <2>1, <2>2, <3>1 DEF StartLinked, Opened, Has, Open
    <3> QED BY <1>2, <2>1, <3>1, <3>2, NoRowTouched, StartMovesAreSafe
  <2> QED BY <1>3, <1>4, <1>6, <2>1, <2>2 DEF Inspect
<1>7. CASE Claim(p)
  <2> DEFINE e == start[p].prior
  <2>1. start[p].pc = "claim" /\ Has(p, e) /\ Open(e)
    BY <1>1, <1>7 DEF Claim, StartAt, StartLinked
  <2>2. CASE Write(e, "pending") /\ start' = [start EXCEPT ![p].pc = "publish", ![p].exec = e]
    <3>1. RowsKept /\ StaysTerminal
      BY <1>1, <2>2, WriteKeepsRows DEF Statuses, Active
    <3>2. start'[p].pc = "publish" /\ start'[p].exec = e
          /\ \A q \in Projects : q # p => start'[q] = start[q]
      BY <1>1, <2>2 DEF StartType
    <3>3. StartLinked(p)'
      BY <2>1, <3>1, <3>2 DEF StartLinked, Opened, RowsKept, Has, Open
    <3> QED BY <1>2, <3>1, <3>2, <3>3, StartMovesAreSafe
  <2> QED BY <1>3, <1>7, <2>2 DEF Claim
<1>8. CASE Create(p)
  <2>1. ASSUME NEW e \in Fresh(UnusedRows),
               rows' = [rows EXCEPT ![e] =
                          [project |-> p, status |-> "pending", ckpt |-> "missing"]],
               start' = [start EXCEPT ![p].pc = "publish", ![p].exec = e, ![p].resume = FALSE]
        PROVE  ExecInv' /\ StaysTerminal
    <3>1. e \in ExecIds /\ rows[e].status = "absent"
      BY DEF Fresh, UnusedRows
    <3>2. \A r \in ExecIds : rows'[r] = IF r = e
                  THEN [project |-> p, status |-> "pending", ckpt |-> "missing"]
                  ELSE rows[r]
      BY <1>1, <2>1
    <3>3. RowsKept /\ StaysTerminal
      BY <3>1, <3>2 DEF RowsKept, StaysTerminal, Open
    <3>4. start'[p].pc = "publish" /\ start'[p].exec = e
          /\ \A q \in Projects : q # p => start'[q] = start[q]
      BY <1>1, <2>1 DEF StartType
    <3>5. StartLinked(p)'
      BY <3>1, <3>2, <3>4 DEF StartLinked, Opened, Has, Open
    <3> QED BY <1>2, <3>3, <3>4, <3>5, StartMovesAreSafe
  <2> QED BY <1>4, <1>8, <2>1 DEF Create
<1>9. CASE PublishStart(p)
  <2>1. start[p].pc = "publish" /\ StartGoto(p, "schedule") /\ UNCHANGED rows
    BY <1>9 DEF PublishStart, StartAt
  <2>2. start'[p].pc = "schedule" /\ start'[p].exec = start[p].exec
        /\ \A q \in Projects : q # p => start'[q] = start[q]
    BY <1>1, <2>1 DEF StartGoto, StartType
  <2>3. StartLinked(p)'
    BY <1>1, <2>1, <2>2 DEF StartLinked, Opened, Has, Open
  <2> QED BY <1>2, <2>1, <2>2, <2>3, NoRowTouched, StartMovesAreSafe
<1> QED BY <1>5, <1>6, <1>7, <1>8, <1>9

\* The task inherits the execution of its start().
LEMMA ScheduleIsSafe ==
  ASSUME RunInv, ExecInv, NEW p \in Projects, Schedule(p)
  PROVE  ExecInv' /\ StaysTerminal
<1>1. PICK t \in Fresh(UnusedTasks) :
        task' = [task EXCEPT ![t] =
                  [NoTask EXCEPT !.pc = "new", !.project = p, !.exec = start[p].exec,
                                 !.resume = start[p].resume]]
  BY DEF Schedule
<1>2. /\ start \in [Projects -> StartType] /\ task \in [TaskIds -> TaskType]
      /\ start' = [start EXCEPT ![p] = NoStart] /\ UNCHANGED rows /\ start[p].pc = "schedule"
  BY DEF RunInv, Typed, Schedule, StartAt, db
<1>3. /\ task'[t].pc = "new" /\ task'[t].project = p /\ task'[t].exec = start[p].exec
      /\ \A u \in TaskIds : u # t => task'[u] = task[u]
  BY <1>1, <1>2 DEF NoTask, Fresh, UnusedTasks
<1>4. Has(p, start[p].exec) /\ Open(start[p].exec)
  BY <1>2 DEF ExecInv, StartLinked, Opened
<1>5. ASSUME NEW u \in TaskIds PROVE TaskLinked(u)'
  <2>1. CASE u = t
    BY <1>2, <1>3, <1>4, <2>1 DEF TaskLinked, Has, Open
  <2>2. CASE u # t
    BY <1>2, <1>3, <2>2 DEF ExecInv, TaskLinked, Has, Open, Live
  <2> QED BY <2>1, <2>2
<1>6. ASSUME NEW q \in Projects PROVE StartLinked(q)'
  <2>1. StartLinked(p)' /\ \A r \in Projects : r # p => start'[r] = start[r]
    BY <1>2, StartLeaves
  <2>2. CASE q # p
    BY <1>2, <2>1, <2>2 DEF ExecInv, StartLinked, Opened, Has, Open
  <2> QED BY <2>1, <2>2
<1> QED BY <1>2, <1>5, <1>6, NoRowTouched DEF ExecInv

\* Every step of start().
LEMMA StartsAreSafe ==
  ASSUME RunInv, ExecInv, NEW p \in Projects,
         (\E resume \in BOOLEAN : Request(p, resume)) \/ StartStep(p)
  PROVE  ExecInv' /\ StaysTerminal
BY StartCallsAreSafe, StopsAreSafe, StartRowsAreSafe, ScheduleIsSafe DEF StartStep

-----------------------------------------------------------------------------
\* Callers that wait for a cancelled task.
LEMMA WaitersAreSafe ==
  ASSUME RunInv, ExecInv, NEW a \in Actors, WaiterStep(a) \/ CancelDeadline(a)
  PROVE  ExecInv' /\ StaysTerminal
<1>1. RowsTyped /\ task \in [TaskIds -> TaskType]
  BY DEF RunInv, Typed
<1>2. start' = start
  BY DEF WaiterStep, CancelDeadline, TaskEnded, PersistEnter, PersistRow, PersistProject,
     WaiterUnchanged
<1>3. RowsKept /\ StaysTerminal
  <2>1. UNCHANGED rows \/ Write(ExecOf(waiter[a].task), "interrupted")
    BY DEF WaiterStep, CancelDeadline, TaskEnded, PersistEnter, PersistRow, PersistProject, db
  <2> QED BY <1>1, <2>1, StatusNames, NoRowTouched, WriteKeepsRows
<1>4. TasksKept
  <2>1. task' = task \/ task' = [task EXCEPT ![waiter[a].task].persisted = TRUE]
    BY DEF WaiterStep, CancelDeadline, TaskEnded, PersistEnter, PersistRow, PersistProject
  <2>2. \A u \in TaskIds : /\ task'[u].pc = task[u].pc /\ task'[u].exec = task[u].exec
                           /\ task'[u].project = task[u].project
    BY <1>1, <2>1 DEF TaskType
  <2> QED BY <2>2 DEF TasksKept, Live
<1> QED BY <1>2, <1>3, <1>4, LinksKept

\* A deletion forgets the checkpoints of its project.
LEMMA DeletionsAreSafe ==
  ASSUME RunInv, ExecInv, NEW p \in Projects, BeginDeletion(p) \/ DeletionStep(p)
  PROVE  ExecInv' /\ StaysTerminal
<1>1. rows \in [ExecIds -> RowType]
  BY DEF RunInv, Typed, RowsTyped
<1>2. UNCHANGED <<task, start>>
  BY DEF BeginDeletion, DeletionStep, DeletionAwaited, DeleteCheckpoints, DeleteRows,
     DeletionFails, EndDeletion, DeletionUnchanged
<1>3. RowsKept /\ StaysTerminal
  <2>1. CASE UNCHANGED rows
    BY <2>1, NoRowTouched
  <2>2. CASE DeleteCheckpoints(p)
    <3>1. \A e \in ExecIds : rows'[e].project = rows[e].project /\ rows'[e].status = rows[e].status
                             /\ (rows'[e].ckpt = rows[e].ckpt \/ rows'[e].ckpt = "missing")
      BY <1>1, <2>2 DEF DeleteCheckpoints, RowType
    <3> QED BY <3>1 DEF RowsKept, StaysTerminal, Open
  <2>3. CASE DeleteRows(p)
    <3>1. \A e \in ExecIds : rows'[e].project = rows[e].project /\ rows'[e].ckpt = rows[e].ckpt
                             /\ (rows'[e].status = rows[e].status \/ rows'[e].status = "deleted")
      BY <1>1, <2>3 DEF DeleteRows, RowType
    <3> QED BY <3>1 DEF RowsKept, StaysTerminal, Open
  <2> QED BY <2>1, <2>2, <2>3 DEF BeginDeletion, DeletionStep, DeletionAwaited, DeletionFails,
          EndDeletion, db
<1>4. TasksKept
  BY <1>2 DEF TasksKept, Live
<1> QED BY <1>2, <1>3, <1>4, LinksKept

\* The end of the process, and the next start.
LEMMA ProcessIsSafe ==
  ASSUME RunInv, ExecInv, ProcessEnds \/ Startup
  PROVE  ExecInv' /\ StaysTerminal
<1>1. rows \in [ExecIds -> RowType] /\ task \in [TaskIds -> TaskType]
  BY DEF RunInv, Typed, RowsTyped
<1>2. CASE ProcessEnds
  <2>1. UNCHANGED rows /\ start' = [p \in Projects |-> NoStart]
    BY <1>2 DEF ProcessEnds, db
  <2>2. TasksKept
    <3> SUFFICES ASSUME NEW t \in TaskIds PROVE ~Live(t)' /\ task'[t].pc \notin Ahead
      BY DEF TasksKept
    <3>1. CASE Live(t)
      <4>1. task'[t] = [task[t] EXCEPT !.pc = "done"]
        BY <1>2, <3>1 DEF ProcessEnds
      <4> QED BY <1>1, <4>1 DEF Live, Ahead, TaskType
    <3>2. CASE ~Live(t)
      <4>1. task'[t] = task[t]
        BY <1>2, <3>2 DEF ProcessEnds
      <4> QED BY <3>2, <4>1, IdsAreNotNone DEF Live, Ahead
    <3> QED BY <3>1, <3>2
  <2>3. \A p \in Projects : StartLinked(p)'
    BY <2>1 DEF StartLinked, Opened, NoStart
  <2> QED BY <2>1, <2>2, <2>3, NoRowTouched, LinksKept
<1>3. CASE Startup
  <2>1. UNCHANGED <<start, task>>
    BY <1>3 DEF Startup
  <2>2. \A e \in ExecIds : /\ rows'[e].project = rows[e].project /\ rows'[e].ckpt = rows[e].ckpt
                           /\ rows'[e].status = rows[e].status \/ rows'[e].status = "interrupted"
    <3>1. PICK rowsFail \in BOOLEAN :
            rows' = [e \in ExecIds |->
              IF ~rowsFail /\ Stale(e)
              THEN [rows[e] EXCEPT !.status = "interrupted"] ELSE rows[e]]
      BY <1>3 DEF Startup
    <3> QED BY <1>1, <3>1 DEF RowType
  <2>3. RowsKept /\ StaysTerminal
    BY <2>2 DEF RowsKept, StaysTerminal, Open
  <2>4. TasksKept
    BY <2>1 DEF TasksKept, Live
  <2> QED BY <2>1, <2>3, <2>4, LinksKept
<1> QED BY <1>2, <1>3

-----------------------------------------------------------------------------
\* No step breaks the links or revives a terminal checkpoint.
LEMMA StepsAreSafe == RunInv /\ ExecInv /\ [Next]_vars => ExecInv' /\ StaysTerminal
<1> SUFFICES ASSUME RunInv, ExecInv, [Next]_vars PROVE ExecInv' /\ StaysTerminal
  OBVIOUS
<1>1. ASSUME UNCHANGED <<rows, task, start>> PROVE ExecInv' /\ StaysTerminal
  <2>1. TasksKept
    BY <1>1 DEF TasksKept, Live
  <2> QED BY <1>1, <2>1, NoRowTouched, LinksKept
<1>2. CASE UNCHANGED vars
  BY <1>1, <1>2 DEF vars, pcs, db
<1>3. CASE Shutdown \/ ClearManager \/ \E a \in Pausers, p \in Projects : Pause(a, p)
  BY <1>1, <1>3 DEF Shutdown, ClearManager, Pause, pcs, db
<1> QED BY <1>2, <1>3, StartsAreSafe, TasksAreSafe, WaitersAreSafe, DeletionsAreSafe,
        ProcessIsSafe DEF Next

\* Every execution has one project, and nobody with a finished one is ahead
\* of the end of its graph.
THEOREM ExecutionsStayLinked == Spec => []ExecInv
<1>1. Init => ExecInv
  BY DEF Init, ExecInv, StartLinked, Opened, TaskLinked, NoStart, NoTask, Live, Ahead
<1> QED BY <1>1, StepsAreSafe, RuntimeInvariant, PTL DEF Spec

\* A terminal checkpoint never becomes runnable again, whatever resumes,
\* pauses, deletions, crashes and failures interleave.
THEOREM FinishedWorkStays == Spec => TerminalCheckpointsStay
<1>1. RunInv /\ ExecInv /\ [Next]_vars =>
        [\A e \in ExecIds :
           rows[e].ckpt \in {"success", "failure"} => rows'[e].ckpt # "runnable"]_vars
  BY StepsAreSafe DEF StaysTerminal
<1> QED BY <1>1, RuntimeInvariant, ExecutionsStayLinked, PTL DEF Spec, TerminalCheckpointsStay

-----------------------------------------------------------------------------
(***************************************************************************)
(* A pending or running row never outlives those who will close it, for    *)
(* any projects, bounds and interleavings.                                 *)
(*                                                                         *)
(* That somebody is there is not inductive, since a task, a canceller or a *)
(* start() call may be there and yet not close the row any more: it has    *)
(* written it already, or trusts that another one has. Carries says when a *)
(* task still answers for its row, alone as long as it runs, and through   *)
(* the callers that cancelled it when it may die without a slot.           *)
(***************************************************************************)
Settled(e) == rows[e].status \notin Active \/ e \in cut

\* start() has made the row active and not yet handed it to a task.
Owning == {"publish", "schedule", "stop", "abort"}
StartOwns(e) == \E p \in Projects : start[p].exec = e /\ start[p].pc \in Owning

\* A canceller that will still write the row of a task that had no slot.
Waiting == {"await", "late", "late1", "fin", "fin1"}
Waited(t) == \E a \in Actors : waiter[a].task = t /\ waiter[a].pc \in Waiting

\* Where a task has written its row for the last time.
Written == {"expire2", "queueCancel2", "recordProject", "cancel2", "fail2"}

Carries(t, e) ==
  /\ task[t].exec = e /\ task[t].pc \notin Written \cup {"unborn"}
  /\ task[t].pc = "done" => ~task[t].started
  /\ ~task[t].started =>
       /\ ~task[t].persisted
       /\ t \in cancelled \/ task[t].pc \in {"queueCancel", "queueCancel1", "done"} => Waited(t)
       /\ \A a \in Actors : waiter[a].task = t => waiter[a].pc \notin {"late2", "fin2"}

Answered(e) == Settled(e) \/ StartOwns(e) \/ \E t \in TaskIds : Carries(t, e)

\* Only tasks that exist are cancelled and waited for.
Asked ==
  /\ \A t \in cancelled : task[t].pc # "unborn"
  /\ \A a \in Actors : waiter[a].pc # "idle" => task[waiter[a].task].pc # "unborn"

\* Nobody begins to wait for a second task before the first has ended.
CallersFree ==
  /\ deletion \in [Projects -> {"idle", "awaiting", "checkpoints", "rows", "end"}]
  /\ \A p \in Projects : deletion[p] # "awaiting" => waiter[Deleter(p)].pc = "idle"
  /\ \A p \in Projects : accepting => waiter[Stopper(p)].pc = "idle"
  /\ process = "down" => \A a \in Actors : waiter[a].pc = "idle"

OwnInv == Asked /\ CallersFree /\ (process = "up" => \A e \in ExecIds : Answered(e))

-----------------------------------------------------------------------------
\* The invariant says what the run checks.
LEMMA OwnInvSuffices == RunInv /\ OwnInv => ActiveRowsOwned
<1> SUFFICES ASSUME RunInv, OwnInv, process = "up", NEW e \in ExecIds,
                    rows[e].status \in Active, e \notin cut
             PROVE  Owned(e)
  BY DEF ActiveRowsOwned
<1>1. CASE StartOwns(e)
  BY <1>1 DEF StartOwns, Owning, Owned
<1>2. ASSUME NEW t \in TaskIds, Carries(t, e) PROVE Owned(e)
  <2>1. CASE task[t].pc = "done"
    <3>1. PICK a \in Actors : waiter[a].task = t /\ waiter[a].pc \in Waiting
      BY <1>2, <2>1 DEF Carries, Waited
    <3> QED BY <1>2, <2>1, <3>1 DEF Carries, Waiting, Owned, ExecOf
  <2>2. CASE task[t].pc # "done"
    BY <1>2, <2>2, IdsAreNotNone DEF Carries, Owned, LiveTasks, ExecOf
  <2> QED BY <2>1, <2>2
<1> QED BY <1>1, <1>2 DEF OwnInv, Answered, Settled

\* A write closes the row of one execution and leaves the others alone.
LEMMA WriteSettles ==
  ASSUME RunInv, NEW e, NEW s \in Statuses, Write(e, s)
  PROVE  /\ \A r \in ExecIds : r # e => rows'[r].status = rows[r].status
         /\ s \notin Active => \A r \in ExecIds : /\ r = e => rows'[r].status \notin Active
                                                  /\ rows[r].status \notin Active
                                                     => rows'[r].status \notin Active
<1>1. \A r \in ExecIds : rows[r] \in RowType
  BY DEF RunInv, Typed, RowsTyped
<1>2. \A r \in ExecIds : [rows[r] EXCEPT !.status = s].status = s
  BY <1>1 DEF RowType
<1> QED BY <1>2 DEF Write, Active

-----------------------------------------------------------------------------
(***************************************************************************)
(* The tasks.                                                              *)
(***************************************************************************)
\* A task that moves leaves its row settled, or still answers for it if it did.
LEMMA TaskAnswers ==
  ASSUME RunInv, OwnInv, NEW t \in TaskIds, process = "up", TaskUnchanged,
         \A u \in TaskIds : u # t => task'[u] = task[u],
         task'[t].exec = task[t].exec, task'[t].pc # "unborn",
         cancelled' \subseteq cancelled, cut \subseteq cut',
         NEW e, e = task[t].exec,
         \A r \in ExecIds : r # e => rows'[r].status = rows[r].status,
         e \in ExecIds =>
           \/ Settled(e)' \/ Carries(t, e)'
           \/ ~Carries(t, e) /\ rows'[e].status = rows[e].status
  PROVE  OwnInv'
<1>1. /\ UNCHANGED <<accepting, start, waiter, deletion, process>>
      /\ cancelled \subseteq TaskIds
      /\ \A a \in Actors : waiter[a].pc # "idle" => waiter[a].task \in TaskIds
  BY DEF TaskUnchanged, RunInv, Typed
<1>2. CallersFree'
  BY <1>1 DEF OwnInv, CallersFree
<1>3. Asked'
  <2>1. \A u \in TaskIds : task[u].pc # "unborn" => task'[u].pc # "unborn"
    OBVIOUS
  <2> QED BY <1>1, <2>1 DEF OwnInv, Asked
<1>4. ASSUME NEW r \in ExecIds PROVE Answered(r)'
  <2>1. StartOwns(r) => StartOwns(r)'
    BY <1>1 DEF StartOwns
  <2>2. ASSUME NEW u \in TaskIds, u # t, Carries(u, r) PROVE Carries(u, r)'
    <3>1. task'[u] = task[u] /\ (u \in cancelled' => u \in cancelled) /\ (Waited(u) => Waited(u)')
      BY <1>1, <2>2 DEF Waited
    <3> QED BY <1>1, <2>2, <3>1 DEF Carries
  <2>3. rows'[r].status = rows[r].status /\ Settled(r) => Settled(r)'
    BY DEF Settled
  <2>4. r # e => ~Carries(t, r)
    BY DEF Carries
  <2>5. Answered(r)
    BY DEF OwnInv
  <2>6. CASE r # e
    BY <2>1, <2>2, <2>3, <2>4, <2>5, <2>6 DEF Answered
  <2>7. CASE r = e
    BY <2>1, <2>2, <2>3, <2>5, <2>7 DEF Answered
  <2> QED BY <2>6, <2>7
<1> QED BY <1>2, <1>3, <1>4 DEF OwnInv

\* Where a task with a slot still has its row to write.
Going == WithSlot \ Written

\* The ways in which an await may leave a row that is not settled.
StillAnswers(t, pc) ==
  \/ pc \in Going /\ task[t].started
  \/ /\ \A r \in ExecIds : rows'[r].status = rows[r].status
     /\ \/ task[t].pc \in Written
        \/ ~task[t].started /\ task[t].persisted
        \/ /\ ~task[t].started /\ pc \in {"queueCancel1", "done"}
           /\ t \in cancelled \/ task[t].pc = "queueCancel"

\* The awaits of a task that settle its row or leave somebody to do it.
LEMMA GotoAnswers ==
  ASSUME RunInv, OwnInv, NEW t \in TaskIds, process = "up", TaskUnchanged,
         task[t].pc \in BeforeRun \cup WithSlot,
         NEW pc \in BeforeRun \cup WithSlot \cup {"done", "persisted"}, Goto(t, pc),
         pc = "persisted" => ~task[t].started,
         cancelled' \subseteq cancelled, cut \subseteq cut',
         NEW e, e = task[t].exec,
         \A r \in ExecIds : r # e => rows'[r].status = rows[r].status,
         \/ e \in ExecIds => Settled(e)'
         \/ StillAnswers(t, pc)
  PROVE  OwnInv'
<1>1. Live(t) /\ pc \in (TaskPCs \ {"unborn", "new"}) \cup {"persisted"}
  BY IdsAreNotNone DEF BeforeRun, WithSlot, TaskPCs
<1>2. /\ OnlyTask(t)
      /\ task'[t].pc = IF pc = "persisted" THEN "done" ELSE pc
      /\ task'[t].started = task[t].started /\ task'[t].exec = e
      /\ pc # "persisted" => task'[t].persisted = task[t].persisted
  BY <1>1, GotoMoves
<1>3. CASE pc \in Going /\ task[t].started
  <2>1. Carries(t, e)'
    BY <1>2, <1>3 DEF Carries, Going, WithSlot, Written
  <2> QED BY <1>2, <2>1, TaskAnswers DEF OnlyTask
<1>4. CASE /\ \A r \in ExecIds : rows'[r].status = rows[r].status
           /\ \/ task[t].pc \in Written
              \/ ~task[t].started /\ task[t].persisted
  <2>1. ~Carries(t, e)
    BY <1>4 DEF Carries
  <2> QED BY <1>2, <1>4, <2>1, TaskAnswers DEF OnlyTask
<1>5. CASE /\ \A r \in ExecIds : rows'[r].status = rows[r].status
           /\ ~task[t].started /\ pc \in {"queueCancel1", "done"}
           /\ t \in cancelled \/ task[t].pc = "queueCancel"
  <2>1. waiter' = waiter
    BY DEF TaskUnchanged
  <2>2. ASSUME Carries(t, e) PROVE Carries(t, e)'
    <3>1. Waited(t)'
      BY <1>5, <2>1, <2>2 DEF Carries, Waited
    <3> QED BY <1>2, <1>5, <2>1, <2>2, <3>1 DEF Carries, Written
  <2> QED BY <1>2, <1>5, <2>2, TaskAnswers DEF OnlyTask
<1>6. CASE e \in ExecIds => Settled(e)'
  BY <1>2, <1>6, TaskAnswers DEF OnlyTask
<1> QED BY <1>3, <1>4, <1>5, <1>6 DEF StillAnswers

\* Writing the row settles it.
LEMMA RowWrites ==
  ASSUME RunInv, NEW t \in TaskIds, NEW s \in Statuses \ Active,
         WriteRow(t, s) \/ UNCHANGED db, NEW e, e = task[t].exec
  PROVE  /\ \A r \in ExecIds : r # e => rows'[r].status = rows[r].status
         /\ WriteRow(t, s) /\ e \in ExecIds => Settled(e)'
<1>1. CASE WriteRow(t, s)
  <2>1. Write(e, s) /\ s \in Statuses /\ s \notin Active
    BY <1>1 DEF WriteRow, ExecOf
  <2>2. e \in ExecIds => rows'[e].status \notin Active
    BY <2>1, WriteSettles
  <2>3. \A r \in ExecIds : r # e => rows'[r].status = rows[r].status
    BY <2>1, WriteSettles
  <2> QED BY <2>2, <2>3 DEF Settled
<1>2. CASE UNCHANGED db /\ ~WriteRow(t, s)
  BY <1>2 DEF db
<1> QED BY <1>1, <1>2

\* The awaits of a task that has no slot.
LEMMA QueueAnswers ==
  ASSUME RunInv, OwnInv, NEW t \in TaskIds,
         \/ ExpireRow(t) \/ ExpireProject(t) \/ EnterQueueCancel(t)
         \/ QueueCancelRow(t) \/ QueueCancelProject(t)
  PROVE  OwnInv'
<1>0. PICK e : e = task[t].exec
  OBVIOUS
<1> DEFINE same == \A r \in ExecIds : rows'[r].status = rows[r].status
<1>1. /\ process = "up" /\ TaskUnchanged /\ task[t].pc \in BeforeRun
      /\ cancelled' \subseteq cancelled
  BY DEF ExpireRow, ExpireProject, EnterQueueCancel, QueueCancelRow, QueueCancelProject, Await,
     TaskAt, BeforeRun
<1>2. ~task[t].started
  BY <1>1 DEF RunInv, Placed, Place
<1>3. "interrupted" \in Statuses \ Active
  BY DEF Statuses, Resumable, Active
<1>4. UNCHANGED db => same
  BY DEF db
<1>5. ASSUME ExpireRow(t) \/ QueueCancelRow(t) PROVE OwnInv'
  <2>1. WriteRow(t, "interrupted") \/ UNCHANGED db
    BY <1>5 DEF ExpireRow, QueueCancelRow, Await
  <2>2. \A r \in ExecIds : r # e => rows'[r].status = rows[r].status
    BY <1>0, <1>3, <2>1, RowWrites
  <2>3. \E pc \in {"expire2", "queueCancel2", "done"} :
          /\ Goto(t, pc) /\ cut \subseteq cut'
          /\ \/ WriteRow(t, "interrupted") \/ e \in cut'
             \/ UNCHANGED db /\ pc = "done" /\ t \in cancelled
    BY <1>0, <1>5 DEF ExpireRow, QueueCancelRow, Await, QueueClosing, Closing, ExecOf, history
  <2>4. PICK pc \in {"expire2", "queueCancel2", "done"} :
          /\ Goto(t, pc) /\ cut \subseteq cut'
          /\ \/ e \in ExecIds => Settled(e)'
             \/ StillAnswers(t, pc)
    BY <1>0, <1>2, <1>3, <1>4, <2>1, <2>3, RowWrites DEF StillAnswers, Settled
  <2> QED BY <1>0, <1>1, <2>2, <2>4, GotoAnswers DEF BeforeRun
<1>6. ASSUME ExpireProject(t) \/ QueueCancelProject(t) PROVE OwnInv'
  <2>1. same /\ task[t].pc \in Written
    BY <1>6 DEF ExpireProject, QueueCancelProject, Await, PublishFor, db, TaskAt, Written
  <2>2. PICK pc \in {"persisted", "done"} : Goto(t, pc) /\ cut \subseteq cut'
    BY <1>6 DEF ExpireProject, QueueCancelProject, Await, QueueClosing, Closing, history
  <2> QED BY <1>0, <1>1, <1>2, <2>1, <2>2, GotoAnswers DEF StillAnswers
<1>7. ASSUME EnterQueueCancel(t) PROVE OwnInv'
  <2>1. same /\ cut \subseteq cut' /\ task[t].pc = "queueCancel"
    BY <1>7 DEF EnterQueueCancel, db, history, TaskAt
  <2>2. PICK pc \in {"queueCancel1", "done"} : Goto(t, pc)
    BY <1>7 DEF EnterQueueCancel
  <2> QED BY <1>0, <1>1, <1>2, <2>1, <2>2, GotoAnswers DEF StillAnswers, BeforeRun
<1> QED BY <1>5, <1>6, <1>7

\* The awaits of a task that holds one: on the way, and those that close.
LEMMA RunAnswers ==
  ASSUME RunInv, OwnInv, NEW t \in TaskIds,
         \/ MarkRunning(t) \/ Prepare(t) \/ PublishRun(t) \/ GraphInterrupted(t)
         \/ GraphRaises(t) \/ GraphDone(t) \/ GraphCancel(t) \/ GraphFail(t)
         \/ Record(t) \/ RecordProject(t) \/ CancelRow(t) \/ CancelProject(t)
         \/ FailRow(t) \/ FailProject(t)
  PROVE  OwnInv'
<1>0. PICK e : e = task[t].exec
  OBVIOUS
<1> DEFINE same == \A r \in ExecIds : rows'[r].status = rows[r].status
           others == \A r \in ExecIds : r # e => rows'[r].status = rows[r].status
<1>1. /\ process = "up" /\ TaskUnchanged /\ task[t].pc \in WithSlot
      /\ cancelled' \subseteq cancelled
  BY DEF MarkRunning, Prepare, PublishRun, GraphInterrupted, GraphRaises, GraphDone, GraphCancel,
     GraphFail, Record, RecordProject, CancelRow, CancelProject, FailRow, FailProject, Await,
     TaskAt, WithSlot, flags
<1>2. task[t].started
  BY <1>1 DEF RunInv, Placed, Place
<1>3. {"interrupted", "failed", "running", RowResult(t)} \subseteq Statuses
      /\ {"interrupted", "failed", RowResult(t)} \cap Active = {}
  BY DEF Statuses, Resumable, Active, RowResult
<1>4. ASSUME NEW pc \in Going, Goto(t, pc), others, cut \subseteq cut'
      PROVE  OwnInv'
  <2>1. pc \in WithSlot /\ pc # "persisted" /\ StillAnswers(t, pc)
    BY <1>2 DEF StillAnswers, Going, WithSlot
  <2> QED BY <1>0, <1>1, <1>4, <2>1, GotoAnswers
<1>5. ASSUME \/ Prepare(t) \/ PublishRun(t) \/ GraphRaises(t) \/ GraphDone(t)
             \/ GraphCancel(t) \/ GraphFail(t)
      PROVE  OwnInv'
  <2>1. others
    BY <1>5 DEF Prepare, PublishRun, GraphRaises, GraphDone, GraphCancel, GraphFail, Await,
       PublishFor, db
  <2>2. (\E pc \in Going : Goto(t, pc)) /\ cut \subseteq cut'
    BY <1>5 DEF Prepare, PublishRun, GraphRaises, GraphDone, GraphCancel, GraphFail, Await,
       history, Closing, QueueClosing, Going, WithSlot, Written
  <2> QED BY <1>4, <2>1, <2>2
<1>6. ASSUME GraphInterrupted(t) PROVE OwnInv'
  <2>1. others
    <3>1. SuperStep(t) \/ UNCHANGED db
      BY <1>6 DEF GraphInterrupted, Await
    <3> QED BY <1>0, <3>1 DEF SuperStep, db, ExecOf, RunInv, Typed, RowsTyped, RowType
  <2>2. (\E pc \in Going : Goto(t, pc)) /\ cut \subseteq cut'
    BY <1>6 DEF GraphInterrupted, Await, history, Closing, QueueClosing, Going, WithSlot, Written
  <2> QED BY <1>4, <2>1, <2>2
<1>7. ASSUME MarkRunning(t) PROVE OwnInv'
  <2>1. others
    <3>1. Write(e, "running") \/ UNCHANGED rows
      BY <1>0, <1>7 DEF MarkRunning, Await, WriteRow, ExecOf, db
    <3> QED BY <1>3, <3>1, WriteSettles
  <2>2. (\E pc \in Going : Goto(t, pc)) /\ cut \subseteq cut'
    BY <1>7 DEF MarkRunning, Await, history, Closing, QueueClosing, Going, WithSlot, Written
  <2> QED BY <1>4, <2>1, <2>2
<1>8. ASSUME RecordProject(t) \/ CancelProject(t) \/ FailProject(t) PROVE OwnInv'
  <2>1. same /\ task[t].pc \in Written
    BY <1>8 DEF RecordProject, CancelProject, FailProject, Await, PublishFor, db, TaskAt, Written
  <2>2. PICK pc \in {"fail1", "cancel1", "done"} : Goto(t, pc) /\ cut \subseteq cut'
    BY <1>8 DEF RecordProject, CancelProject, FailProject, Await, QueueClosing, Closing, history
  <2> QED BY <1>0, <1>1, <2>1, <2>2, GotoAnswers DEF StillAnswers, WithSlot
<1>9. ASSUME NEW s \in {"interrupted", "failed", RowResult(t)}, WriteRow(t, s) \/ UNCHANGED db,
             NEW pc \in WithSlot \cup {"done"}, Goto(t, pc), cut \subseteq cut',
             WriteRow(t, s) \/ e \in cut' \/ pc \in Going
      PROVE  OwnInv'
  <2>1. others /\ (WriteRow(t, s) => (e \in ExecIds => Settled(e)'))
    BY <1>0, <1>3, <1>9, RowWrites
  <2>2. (e \in ExecIds => Settled(e)') \/ StillAnswers(t, pc)
    BY <1>2, <1>9, <2>1 DEF Settled, StillAnswers
  <2>3. pc # "persisted"
    BY <1>9 DEF WithSlot
  <2> QED BY <1>0, <1>1, <1>9, <2>1, <2>2, <2>3, GotoAnswers
<1>10. CASE Record(t)
  <2>1. \E pc \in {"recordProject", "fail1", "cancel1"} :
          /\ Goto(t, pc) /\ cut \subseteq cut'
          /\ WriteRow(t, RowResult(t)) \/ UNCHANGED db
          /\ WriteRow(t, RowResult(t)) \/ pc \in {"fail1", "cancel1"}
    BY <1>10 DEF Record, Await, QueueClosing, Closing, history
  <2> QED BY <1>9, <2>1 DEF Going, WithSlot, Written
<1>11. CASE CancelRow(t)
  <2>1. \E pc \in {"cancel2", "done"} :
          /\ Goto(t, pc) /\ cut \subseteq cut'
          /\ WriteRow(t, "interrupted") \/ UNCHANGED db
          /\ WriteRow(t, "interrupted") \/ e \in cut'
    BY <1>0, <1>11 DEF CancelRow, Await, QueueClosing, Closing, history, ExecOf
  <2> QED BY <1>9, <2>1 DEF WithSlot
<1>12. CASE FailRow(t)
  <2>1. \E pc \in {"fail2", "done"} :
          /\ Goto(t, pc) /\ cut \subseteq cut'
          /\ WriteRow(t, "failed") \/ UNCHANGED db
          /\ WriteRow(t, "failed") \/ e \in cut'
    BY <1>0, <1>12 DEF FailRow, Await, QueueClosing, Closing, history, ExecOf
  <2> QED BY <1>9, <2>1 DEF WithSlot
<1> QED BY <1>5, <1>6, <1>7, <1>8, <1>10, <1>11, <1>12

\* A task in the gate, and the end of the graph: no row changes its status.
LEMMA GateAnswers ==
  ASSUME RunInv, OwnInv, NEW t \in TaskIds,
         \/ DieUnstarted(t) \/ EnterGate(t) \/ QueueDeadline(t) \/ Granted(t) \/ LeaveGate(t)
         \/ GraphStep(t) \/ GraphEnd(t)
  PROVE  OwnInv'
<1>0. PICK e : e = task[t].exec
  OBVIOUS
<1>1. /\ process = "up" /\ TaskUnchanged /\ cancelled' \subseteq cancelled /\ cut \subseteq cut'
      /\ task \in [TaskIds -> TaskType] /\ task[t].pc \in {"new", "queued", "graph"}
  BY DEF DieUnstarted, EnterGate, QueueDeadline, Granted, LeaveGate, GraphStep, GraphEnd, TaskAt,
     flags, history, RunInv, Typed
<1>2. \A r \in ExecIds : rows'[r].status = rows[r].status
  <2>1. CASE SuperStep(t)
    BY <1>0, <2>1 DEF SuperStep, ExecOf, RunInv, Typed, RowsTyped, RowType
  <2>2. CASE GraphEnd(t)
    BY <1>0, <2>2 DEF GraphEnd, ExecOf, RunInv, Typed, RowsTyped, RowType
  <2>3. CASE UNCHANGED db
    BY <2>3 DEF db
  <2> QED BY <2>1, <2>2, <2>3 DEF DieUnstarted, EnterGate, QueueDeadline, Granted, LeaveGate,
          GraphStep
<1>4. ASSUME NEW pc \in WithSlot \ Written, task'[t].pc = pc, task'[t].started, task'[t].exec = e,
             \A u \in TaskIds : u # t => task'[u] = task[u]
      PROVE  OwnInv'
  <2>1. Carries(t, e)' /\ pc # "unborn"
    BY <1>4 DEF Carries, WithSlot
  <2> QED BY <1>0, <1>1, <1>2, <1>4, <2>1, TaskAnswers
<1>5. CASE Granted(t) \/ GraphStep(t) \/ GraphEnd(t)
  <2>1. Place(t)
    BY DEF RunInv, Placed
  <2>2. \/ task' = [task EXCEPT ![t].pc = "markRunning", ![t].started = TRUE]
        \/ task' = task /\ task[t].pc = "graph"
        \/ \E result \in {"success", "failure"} :
             task' = [task EXCEPT ![t].pc = "graphDone", ![t].outcome = result]
             /\ task[t].pc = "graph"
    BY <1>5 DEF Granted, GraphStep, GraphEnd, TaskAt
  <2>3. /\ task'[t].pc \in WithSlot \ Written /\ task'[t].started /\ task'[t].exec = e
        /\ \A u \in TaskIds : u # t => task'[u] = task[u]
    BY <1>0, <1>1, <2>1, <2>2 DEF Place, TaskType, WithSlot, Written
  <2> QED BY <1>4, <2>3
<1>6. ASSUME NEW pc, task' = [task EXCEPT ![t].pc = pc], ~task[t].started,
             pc \in {"queued", "expire1", "queueCancel", "done"},
             pc \in {"queueCancel", "done"} => t \in cancelled,
             t \in cancelled' => t \in cancelled
      PROVE  OwnInv'
  <2>1. /\ task'[t].exec = e /\ task'[t].pc = pc /\ ~task'[t].started
        /\ task'[t].persisted = task[t].persisted
        /\ \A u \in TaskIds : u # t => task'[u] = task[u]
    BY <1>0, <1>1, <1>6 DEF TaskType
  <2>2. ASSUME Carries(t, e) PROVE Carries(t, e)'
    <3>1. waiter' = waiter
      BY <1>1 DEF TaskUnchanged
    <3>2. Waited(t) => Waited(t)'
      BY <3>1 DEF Waited
    <3> QED BY <1>6, <2>1, <2>2, <3>1, <3>2 DEF Carries, Written
  <2>3. pc # "unborn"
    BY <1>6
  <2> QED BY <1>0, <1>1, <1>2, <2>1, <2>2, <2>3, TaskAnswers
<1>7. CASE DieUnstarted(t) \/ LeaveGate(t)
  <2>1. ~task[t].started
    BY <1>7 DEF DieUnstarted, LeaveGate, TaskAt, RunInv, Placed, Place
  <2> QED BY <1>1, <1>6, <1>7, <2>1 DEF DieUnstarted, LeaveGate
<1>8. CASE QueueDeadline(t)
  <2>1. task' = task /\ cancelled' = cancelled /\ task[t].pc = "queued"
    BY <1>8 DEF QueueDeadline, TaskAt
  <2>2. Carries(t, e) => Carries(t, e)'
    <3>1. waiter' = waiter
      BY <1>1 DEF TaskUnchanged
    <3> QED BY <2>1, <3>1 DEF Carries, Waited
  <2> QED BY <1>0, <1>1, <1>2, <2>1, <2>2, TaskAnswers
<1>9. CASE EnterGate(t)
  <2>1. ~task[t].started /\ cancelled' = cancelled
    BY <1>9 DEF EnterGate, TaskAt, flags, RunInv, Placed, Place
  <2>2. CASE task' = [task EXCEPT ![t].pc = "markRunning", ![t].started = TRUE]
    <3>1. /\ task'[t].pc = "markRunning" /\ task'[t].started /\ task'[t].exec = e
          /\ \A u \in TaskIds : u # t => task'[u] = task[u]
      BY <1>0, <1>1, <2>2 DEF TaskType
    <3> QED BY <1>4, <3>1 DEF WithSlot, Written
  <2>3. CASE \E pc \in {"queued", "expire1"} : task' = [task EXCEPT ![t].pc = pc]
    BY <1>6, <2>1, <2>3
  <2> QED BY <1>9, <2>2, <2>3 DEF EnterGate
<1> QED BY <1>5, <1>7, <1>8, <1>9

\* Every step of a task.
LEMMA TasksAnswer ==
  ASSUME RunInv, OwnInv, NEW t \in TaskIds, TaskStep(t) \/ GraphStep(t) \/ QueueDeadline(t)
  PROVE  OwnInv'
BY QueueAnswers, RunAnswers, GateAnswers DEF TaskStep

-----------------------------------------------------------------------------
(***************************************************************************)
(* start().                                                                *)
(***************************************************************************)
\* A step of start() hands on the row that it owns, or settles it.
LEMMA StartAnswers ==
  ASSUME RunInv, OwnInv, NEW p \in Projects, process = "up", StartUnchanged, UNCHANGED accepting,
         \A q \in Projects : q # p => start'[q] = start[q],
         NEW e, e = start[p].exec,
         \A r \in ExecIds : Settled(r) => Settled(r)' \/ StartOwns(r)',
         start[p].pc \in Owning /\ e \in ExecIds => Settled(e)' \/ StartOwns(e)'
  PROVE  OwnInv'
<1>1. UNCHANGED <<accepting, cancelled, task, waiter, deletion, process>>
  BY DEF StartUnchanged, flags
<1>2. Asked' /\ CallersFree'
  BY <1>1 DEF OwnInv, Asked, CallersFree
<1>3. ASSUME NEW r \in ExecIds PROVE Answered(r)'
  <2>1. Answered(r)
    BY DEF OwnInv
  <2>2. ASSUME NEW t \in TaskIds, Carries(t, r) PROVE Carries(t, r)'
    BY <1>1, <2>2 DEF Carries, Waited
  <2>3. ASSUME StartOwns(r) PROVE Answered(r)'
    <3>1. PICK q \in Projects : start[q].exec = r /\ start[q].pc \in Owning
      BY <2>3 DEF StartOwns
    <3>2. CASE q # p
      BY <3>1, <3>2 DEF StartOwns, Answered
    <3>3. CASE q = p
      BY <3>1, <3>3 DEF Answered
    <3> QED BY <3>2, <3>3
  <2> QED BY <2>1, <2>2, <2>3 DEF Answered
<1> QED BY <1>2, <1>3 DEF OwnInv

\* The steps by which it makes no row its own and gives none up.
LEMMA StartCallsAnswer ==
  ASSUME RunInv, OwnInv, NEW p \in Projects,
         \/ \E resume \in BOOLEAN : Request(p, resume)
         \/ Admit(p) \/ Reject(p) \/ Latest(p) \/ Inspect(p) \/ Reconcile(p)
         \/ ReconcileProject(p) \/ StartRaises(p) \/ StopProject(p) \/ AbortProject(p)
  PROVE  OwnInv'
<1>0. PICK e : e = start[p].exec
  OBVIOUS
<1>1. /\ process = "up" /\ StartUnchanged /\ UNCHANGED <<accepting, cut>>
      /\ start[p].pc \notin Owning
  BY DEF Request, Admit, Reject, Latest, Inspect, Reconcile, ReconcileProject, StartRaises,
     StopProject, AbortProject, StartAt, manager, history, Withdraw, Owning
<1>2. \A q \in Projects : q # p => start'[q] = start[q]
  BY DEF Request, Admit, Reject, Latest, Inspect, Reconcile, ReconcileProject, StartRaises,
     StopProject, AbortProject, StartGoto, Withdraw, RunInv, Typed
<1>3. \A r \in ExecIds : Settled(r) => Settled(r)'
  <2>1. Write(start[p].prior, "succeeded") \/ UNCHANGED rows
    BY DEF Request, Admit, Reject, Latest, Inspect, Reconcile, ReconcileProject, StartRaises,
       StopProject, AbortProject, db
  <2>2. "succeeded" \in Statuses \ Active
    BY DEF Statuses, Active
  <2>3. \A r \in ExecIds : rows[r].status \notin Active => rows'[r].status \notin Active
    BY <2>1, <2>2, WriteSettles
  <2> QED BY <1>1, <2>3 DEF Settled
<1> QED BY <1>0, <1>1, <1>2, <1>3, StartAnswers

\* Those that make a row active, keep it or close it.
LEMMA StartRowsAnswer ==
  ASSUME RunInv, OwnInv, NEW p \in Projects,
         \/ Claim(p) \/ Create(p) \/ PublishStart(p) \/ Stopped(p) \/ StopRow(p) \/ AbortRow(p)
  PROVE  OwnInv'
<1>0. PICK e : e = start[p].exec
  OBVIOUS
<1>1. /\ process = "up" /\ StartUnchanged /\ UNCHANGED accepting
      /\ start \in [Projects -> StartType]
  BY DEF Claim, Create, PublishStart, Stopped, StopRow, AbortRow, StartAt, manager, Withdraw,
     RunInv, Typed
<1>2. \A q \in Projects : q # p => start'[q] = start[q]
  BY <1>1 DEF Claim, Create, PublishStart, Stopped, StopRow, AbortRow, StartGoto, Withdraw
<1>3. "pending" \in Statuses /\ "interrupted" \in Statuses \ Active
  BY DEF Statuses, Active, Resumable
<1>4. ASSUME NEW r, start'[p].exec = r, start'[p].pc \in Owning PROVE StartOwns(r)'
  BY <1>4 DEF StartOwns
<1>5. UNCHANGED <<rows, cut>> => \A r \in ExecIds : Settled(r) => Settled(r)'
  BY DEF Settled
<1>6. CASE Claim(p)
  <2> DEFINE prior == start[p].prior
  <2>1. start[p].pc \notin Owning
    BY <1>6 DEF Claim, StartAt, Owning
  <2>2. CASE UNCHANGED <<rows, cut>>
    BY <1>0, <1>1, <1>2, <1>5, <2>1, <2>2, StartAnswers
  <2>3. ASSUME NEW q, q = start[p].prior, Write(q, "pending"), cut' = cut \ {q},
               start' = [start EXCEPT ![p].pc = "publish", ![p].exec = q]
        PROVE  OwnInv'
    <3>1. start'[p].exec = q /\ start'[p].pc = "publish"
      BY <1>1, <2>3 DEF StartType
    <3>2. StartOwns(q)'
      BY <1>4, <3>1 DEF Owning
    <3>3. \A r \in ExecIds : r # q => rows'[r].status = rows[r].status
      BY <1>3, <2>3, WriteSettles
    <3>4. \A r \in ExecIds : r # q /\ Settled(r) => Settled(r)'
      BY <2>3, <3>3 DEF Settled
    <3> QED BY <1>0, <1>1, <1>2, <2>1, <3>2, <3>4, StartAnswers
  <2> QED BY <1>6, <2>2, <2>3 DEF Claim
<1>7. CASE Create(p)
  <2>1. start[p].pc \notin Owning /\ UNCHANGED cut
    BY <1>7 DEF Create, StartAt, Owning, history
  <2>2. CASE UNCHANGED rows
    BY <1>0, <1>1, <1>2, <1>5, <2>1, <2>2, StartAnswers
  <2>3. ASSUME NEW q \in ExecIds,
               rows' = [rows EXCEPT ![q] =
                          [project |-> p, status |-> "pending", ckpt |-> "missing"]],
               start' = [start EXCEPT ![p].pc = "publish", ![p].exec = q, ![p].resume = FALSE]
        PROVE  OwnInv'
    <3>1. start'[p].exec = q /\ start'[p].pc = "publish"
      BY <1>1, <2>3 DEF StartType
    <3>2. StartOwns(q)'
      BY <1>4, <3>1 DEF Owning
    <3>3. \A r \in ExecIds : r # q => rows'[r] = rows[r]
      BY <2>3 DEF RunInv, Typed, RowsTyped
    <3>4. \A r \in ExecIds : r # q /\ Settled(r) => Settled(r)'
      BY <2>1, <3>3 DEF Settled
    <3> QED BY <1>0, <1>1, <1>2, <2>1, <3>2, <3>4, StartAnswers
  <2> QED BY <1>7, <2>2, <2>3 DEF Create, Fresh, UnusedRows
<1>8. ASSUME NEW pc \in Owning, StartGoto(p, pc), UNCHANGED <<rows, cut>> PROVE OwnInv'
  <2>1. start'[p].exec = e /\ start'[p].pc = pc
    BY <1>0, <1>1, <1>8 DEF StartGoto, StartType
  <2> QED BY <1>0, <1>1, <1>2, <1>4, <1>5, <1>8, <2>1, StartAnswers
<1>9. CASE PublishStart(p) \/ Stopped(p)
  BY <1>8, <1>9 DEF PublishStart, Stopped, db, history, Owning
<1>10. ASSUME NEW x, x = e, Write(x, "interrupted"), UNCHANGED cut PROVE OwnInv'
  <2>1. \A r \in ExecIds : Settled(r) => Settled(r)'
    BY <1>3, <1>10, WriteSettles DEF Settled
  <2>2. x \in ExecIds => Settled(x)'
    BY <1>3, <1>10, WriteSettles DEF Settled
  <2> QED BY <1>0, <1>1, <1>2, <1>10, <2>1, <2>2, StartAnswers
<1>11. CASE StopRow(p)
  BY <1>0, <1>8, <1>10, <1>11 DEF StopRow, Owning
<1>12. CASE AbortRow(p)
  <2>1. CASE Write(e, "interrupted") /\ UNCHANGED history
    BY <1>10, <2>1 DEF history
  <2>2. CASE UNCHANGED rows /\ cut' = cut \cup {e}
    <3>1. Settled(e)' /\ \A r \in ExecIds : Settled(r) => Settled(r)'
      BY <2>2 DEF Settled
    <3> QED BY <1>0, <1>1, <1>2, <3>1, StartAnswers
  <2> QED BY <1>0, <1>12, <2>1, <2>2 DEF AbortRow
<1> QED BY <1>6, <1>7, <1>9, <1>11, <1>12

\* The task that start() hands its row to: nobody has heard of it before.
LEMMA ScheduleAnswers ==
  ASSUME RunInv, OwnInv, NEW p \in Projects, Schedule(p)
  PROVE  OwnInv'
<1> DEFINE born(e) == [NoTask EXCEPT !.pc = "new", !.project = p, !.exec = e,
                                     !.resume = start[p].resume]
<1>0. PICK e : e = start[p].exec
  OBVIOUS
<1>1. PICK t \in TaskIds : task[t].pc = "unborn" /\ task' = [task EXCEPT ![t] = born(e)]
  BY <1>0 DEF Schedule, Fresh, UnusedTasks
<1>2. /\ process = "up" /\ start' = [start EXCEPT ![p] = NoStart]
      /\ UNCHANGED <<accepting, cancelled, waiter, deletion, process, rows, cut>>
      /\ start \in [Projects -> StartType] /\ task \in [TaskIds -> TaskType]
      /\ cancelled \subseteq TaskIds
      /\ \A a \in Actors : waiter[a].pc # "idle" => waiter[a].task \in TaskIds
  BY DEF Schedule, StartAt, flags, db, history, RunInv, Typed
<1>3. /\ task'[t].pc = "new" /\ task'[t].exec = e /\ ~task'[t].started /\ ~task'[t].persisted
      /\ \A u \in TaskIds : u # t => task'[u] = task[u]
  BY <1>1, <1>2 DEF NoTask
<1>4. t \notin cancelled /\ \A a \in Actors : waiter[a].task = t => waiter[a].pc = "idle"
  BY <1>1 DEF OwnInv, Asked
<1>5. Asked' /\ CallersFree'
  <2>1. \A u \in TaskIds : task[u].pc # "unborn" => task'[u].pc # "unborn"
    BY <1>1, <1>3
  <2> QED BY <1>2, <2>1 DEF OwnInv, Asked, CallersFree
<1>6. Carries(t, e)'
  BY <1>2, <1>3, <1>4 DEF Carries, Written
<1>7. ASSUME NEW r \in ExecIds PROVE Answered(r)'
  <2>1. Answered(r)
    BY <1>2 DEF OwnInv
  <2>2. CASE Settled(r)
    BY <1>2, <2>2 DEF Settled, Answered
  <2>3. CASE StartOwns(r)
    <3>1. PICK q \in Projects : start[q].exec = r /\ start[q].pc \in Owning
      BY <2>3 DEF StartOwns
    <3>2. q = p => r = e
      BY <1>0, <3>1
    <3>3. q # p => start'[q] = start[q]
      BY <1>2
    <3> QED BY <1>6, <3>1, <3>2, <3>3 DEF Answered, StartOwns
  <2>4. ASSUME NEW u \in TaskIds, Carries(u, r) PROVE Carries(u, r)'
    <3>1. u # t
      BY <1>1, <2>4 DEF Carries
    <3> QED BY <1>2, <1>3, <2>4, <3>1 DEF Carries, Waited
  <2> QED BY <2>1, <2>2, <2>3, <2>4 DEF Answered
<1> QED BY <1>5, <1>7 DEF OwnInv

\* Every step of start().
LEMMA StartsAnswer ==
  ASSUME RunInv, OwnInv, NEW p \in Projects,
         (\E resume \in BOOLEAN : Request(p, resume)) \/ StartStep(p)
  PROVE  OwnInv'
BY StartCallsAnswer, StartRowsAnswer, ScheduleAnswers DEF StartStep

-----------------------------------------------------------------------------
(***************************************************************************)
(* Those who cancel tasks.                                                 *)
(***************************************************************************)
\* A step of a canceller goes on to write the row of a task that had no slot,
\* unless the row is settled.
LEMMA WaiterAnswers ==
  ASSUME RunInv, OwnInv, NEW a \in Actors, process = "up", waiter[a].pc # "idle", WaiterUnchanged,
         \A b \in Actors : b # a => waiter'[b] = waiter[b],
         waiter'[a].pc # "idle" => waiter'[a].task = waiter[a].task,
         NEW t, t = waiter[a].task, NEW e, e = task[t].exec,
         \A u \in TaskIds :
           /\ task'[u].pc = task[u].pc /\ task'[u].exec = task[u].exec
           /\ task'[u].started = task[u].started
           /\ u # t => task'[u].persisted = task[u].persisted,
         \A r \in ExecIds : Settled(r) => Settled(r)',
         \/ e \in ExecIds => Settled(e)'
         \/ task[t].started \/ task[t].persisted \/ waiter[a].pc \in {"late2", "fin2"}
         \/ /\ waiter'[a].pc \in Waiting /\ waiter'[a].task = t
            /\ task'[t].persisted = task[t].persisted
  PROVE  OwnInv'
<1>1. /\ UNCHANGED <<accepting, cancelled, start, deletion, process>>
      /\ cancelled \subseteq TaskIds
      /\ \A b \in Actors : waiter[b].pc # "idle" => waiter[b].task \in TaskIds
  BY DEF WaiterUnchanged, flags, RunInv, Typed
<1>2. Asked'
  <2>1. \A b \in Actors : waiter'[b].pc # "idle" => /\ waiter[b].pc # "idle"
                                                    /\ waiter'[b].task = waiter[b].task
    OBVIOUS
  <2> QED BY <1>1, <2>1 DEF OwnInv, Asked
<1>3. CallersFree'
  <2>1. \A p \in Projects : Deleter(p) \in Actors /\ Stopper(p) \in Actors
    BY DEF Actors
  <2> QED BY <1>1, <2>1 DEF OwnInv, CallersFree
<1>4. ASSUME NEW r \in ExecIds PROVE Answered(r)'
  <2>1. Answered(r)
    BY DEF OwnInv
  <2>2. StartOwns(r) => StartOwns(r)'
    BY <1>1 DEF StartOwns
  <2>3. ASSUME NEW u \in TaskIds, u # t, Carries(u, r) PROVE Carries(u, r)'
    <3>1. Waited(u) => Waited(u)'
      BY <2>3 DEF Waited
    <3>2. ASSUME ~task[u].started, NEW b \in Actors, waiter'[b].task = u
          PROVE  waiter'[b].pc \notin {"late2", "fin2"}
      BY <2>3, <3>2 DEF Carries
    <3> QED BY <1>1, <2>3, <3>1, <3>2 DEF Carries
  <2>4. ASSUME t \in TaskIds, Carries(t, r) PROVE Answered(r)'
    <3>1. r = e
      BY <2>4 DEF Carries
    <3>2. CASE Settled(e)'
      BY <3>1, <3>2 DEF Answered
    <3>3. CASE task[t].started
      <4>1. Carries(t, r)'
        BY <2>4, <3>3 DEF Carries
      <4> QED BY <2>4, <4>1 DEF Answered
    <3>4. CASE ~task[t].started /\ (task[t].persisted \/ waiter[a].pc \in {"late2", "fin2"})
      BY <2>4, <3>4 DEF Carries
    <3>5. CASE /\ waiter'[a].pc \in Waiting /\ waiter'[a].task = t /\ ~task[t].started
               /\ task'[t].persisted = task[t].persisted
      <4>1. Waited(t)'
        BY <3>5 DEF Waited
      <4>2. \A b \in Actors : waiter'[b].task = t => waiter'[b].pc \notin {"late2", "fin2"}
        BY <2>4, <3>5 DEF Carries, Waiting
      <4>3. Carries(t, r)'
        BY <2>4, <3>5, <4>1, <4>2 DEF Carries
      <4> QED BY <2>4, <4>3 DEF Answered
    <3> QED BY <3>1, <3>2, <3>3, <3>4, <3>5
  <2> QED BY <2>1, <2>2, <2>3, <2>4 DEF Answered
<1> QED BY <1>2, <1>3, <1>4 DEF OwnInv

\* Where a canceller can go.
LEMMA WaiterWays ==
  ASSUME RunInv, NEW a \in Actors, waiter[a].pc # "idle",
         \/ \E pc \in {"late", "fin"} \cup InPersist : WaiterGoto(a, pc)
         \/ ToFinally(a) \/ StopWaiting(a)
  PROVE  /\ \A b \in Actors : b # a => waiter'[b] = waiter[b]
         /\ waiter'[a].pc # "idle" => waiter'[a].task = waiter[a].task
         /\ \A pc : WaiterGoto(a, pc) => waiter'[a].pc = pc /\ waiter'[a].task = waiter[a].task
         /\ ToFinally(a) => \/ task[waiter[a].task].started
                            \/ waiter'[a].pc = "fin" /\ waiter'[a].task = waiter[a].task
<1>1. waiter \in [Actors -> WaiterType]
  BY DEF RunInv, Typed
<1>2. /\ \A pc : WaiterGoto(a, pc) => /\ waiter'[a].pc = pc /\ waiter'[a].task = waiter[a].task
                                      /\ \A b \in Actors : b # a => waiter'[b] = waiter[b]
      /\ StopWaiting(a) => /\ waiter'[a].pc = "idle"
                           /\ \A b \in Actors : b # a => waiter'[b] = waiter[b]
  BY <1>1 DEF WaiterGoto, StopWaiting, Resting, WaiterType
<1> QED BY <1>2 DEF ToFinally

\* Every step of a canceller.
LEMMA WaitersAnswer ==
  ASSUME RunInv, OwnInv, NEW a \in Actors, WaiterStep(a) \/ CancelDeadline(a)
  PROVE  OwnInv'
<1>0. PICK t, e : t = waiter[a].task /\ e = task[t].exec
  OBVIOUS
<1>1. /\ process = "up" /\ waiter[a].pc # "idle" /\ WaiterUnchanged
      /\ \/ \E pc \in {"late", "fin"} \cup InPersist : WaiterGoto(a, pc)
         \/ ToFinally(a) \/ StopWaiting(a)
  BY DEF WaiterStep, CancelDeadline, TaskEnded, PersistEnter, PersistRow, PersistProject,
     WaiterAt, AfterPersist, InPersist
<1>2. /\ \A b \in Actors : b # a => waiter'[b] = waiter[b]
      /\ waiter'[a].pc # "idle" => waiter'[a].task = t
      /\ \A pc : WaiterGoto(a, pc) => waiter'[a].pc = pc /\ waiter'[a].task = t
      /\ ToFinally(a) => task[t].started \/ (waiter'[a].pc = "fin" /\ waiter'[a].task = t)
  BY <1>0, <1>1, WaiterWays
<1>3. UNCHANGED <<rows, cut>> => \A r \in ExecIds : Settled(r) => Settled(r)'
  BY DEF Settled
<1>4. "fin" \in Waiting /\ {"late", "late1", "fin1"} \subseteq Waiting
  BY DEF Waiting
<1>5. CASE TaskEnded(a) \/ CancelDeadline(a) \/ PersistEnter(a)
  <2>1. UNCHANGED <<task, rows, cut>>
    BY <1>5 DEF TaskEnded, CancelDeadline, PersistEnter, db, history
  <2>2. \/ task[t].started \/ task[t].persisted
        \/ waiter'[a].pc \in Waiting /\ waiter'[a].task = t
    BY <1>0, <1>2, <1>4, <1>5 DEF TaskEnded, CancelDeadline, PersistEnter
  <2> QED BY <1>0, <1>1, <1>2, <1>3, <2>1, <2>2, WaiterAnswers
<1>6. CASE PersistRow(a)
  <2>1. task' = task
    BY <1>6 DEF PersistRow
  <2>2. CASE Write(e, "interrupted") /\ UNCHANGED history
    <3>1. "interrupted" \in Statuses \ Active
      BY DEF Statuses, Active, Resumable
    <3>2. /\ \A r \in ExecIds : Settled(r) => Settled(r)'
          /\ e \in ExecIds => Settled(e)'
      BY <2>2, <3>1, WriteSettles DEF Settled, history
    <3> QED BY <1>0, <1>1, <1>2, <2>1, <3>2, WaiterAnswers
  <2>3. CASE UNCHANGED rows /\ waiter[a].pc = "fin1" /\ cut' = cut \cup {e}
    <3>1. Settled(e)' /\ \A r \in ExecIds : Settled(r) => Settled(r)'
      BY <2>3 DEF Settled
    <3> QED BY <1>0, <1>1, <1>2, <2>1, <3>1, WaiterAnswers
  <2>4. CASE UNCHANGED <<rows, cut>> /\ waiter[a].pc = "late1" /\ ToFinally(a)
    BY <1>0, <1>1, <1>2, <1>3, <1>4, <2>1, <2>4, WaiterAnswers
  <2> QED BY <1>0, <1>6, <2>2, <2>3, <2>4 DEF PersistRow, WaiterAt, AfterPersist, ExecOf
<1>7. CASE PersistProject(a)
  <2>1. /\ waiter[a].pc \in {"late2", "fin2"} /\ UNCHANGED <<rows, cut>>
        /\ task' = task \/ task' = [task EXCEPT ![t].persisted = TRUE]
        /\ task \in [TaskIds -> TaskType]
    BY <1>0, <1>7 DEF PersistProject, WaiterAt, RunInv, Typed
  <2>2. \A u \in TaskIds : /\ task'[u].pc = task[u].pc /\ task'[u].exec = task[u].exec
                           /\ task'[u].started = task[u].started
                           /\ u # t => task'[u].persisted = task[u].persisted
    BY <2>1 DEF TaskType
  <2> QED BY <1>0, <1>1, <1>2, <1>3, <2>1, <2>2, WaiterAnswers
<1> QED BY <1>5, <1>6, <1>7 DEF WaiterStep

\* Whoever cancels a task waits for it, so cancelling gives no row up.
LEMMA CancelAnswers ==
  ASSUME RunInv, OwnInv, process = "up", UNCHANGED <<process, task, start, rows, cut>>,
         CallersFree',
         \A a \in Actors : \/ waiter'[a] = waiter[a]
                           \/ /\ waiter[a].pc = "idle" /\ waiter'[a].pc = "await"
                              /\ task[waiter'[a].task].pc # "unborn",
         \A t \in cancelled' :
           t \in cancelled \/ (task[t].pc # "unborn" /\ \E a \in Actors : waiter'[a].task = t
                                                          /\ waiter'[a].pc = "await")
  PROVE  OwnInv'
<1>1. Asked'
  BY DEF OwnInv, Asked
<1>2. ASSUME NEW e \in ExecIds PROVE Answered(e)'
  <2>1. Answered(e) /\ (Settled(e) => Settled(e)') /\ (StartOwns(e) => StartOwns(e)')
    BY DEF OwnInv, Settled, StartOwns
  <2>2. ASSUME NEW t \in TaskIds, Carries(t, e) PROVE Carries(t, e)'
    <3>1. Waited(t) => Waited(t)'
      BY DEF Waited, Waiting
    <3>2. t \in cancelled' => t \in cancelled \/ Waited(t)'
      BY DEF Waited, Waiting
    <3> QED BY <2>2, <3>1, <3>2 DEF Carries
  <2> QED BY <2>1, <2>2 DEF Answered
<1> QED BY <1>1, <1>2 DEF OwnInv

\* No two callers are one: the deletions and the shutdown have actors of their own.
LEMMA ActorsDiffer ==
  /\ \A p, q \in Projects : Deleter(p) # Stopper(q)
  /\ \A p, q \in Projects : p # q => Deleter(p) # Deleter(q) /\ Stopper(p) # Stopper(q)
  /\ \A a \in Pausers, p \in Projects : a # Deleter(p) /\ a # Stopper(p)
  /\ \A p \in Projects : Deleter(p) \in Actors /\ Stopper(p) \in Actors
BY RuntimeAssumption DEF Deleter, Stopper, Actors

\* The pause request.
LEMMA PauseAnswers ==
  ASSUME RunInv, OwnInv, NEW a \in Pausers, NEW p \in Projects, Pause(a, p)
  PROVE  OwnInv'
<1>1. PICK t : t = registered[p] /\ Live(t)
  BY DEF Pause
<1>2. /\ process = "up" /\ a \in Actors /\ waiter[a].pc = "idle" /\ task[t].pc # "unborn"
      /\ waiter' = [waiter EXCEPT ![a] = [pc |-> "await", task |-> t]]
      /\ cancelled' = cancelled \cup {t}
      /\ UNCHANGED <<accepting, deletion, process, task, start, rows, cut>>
      /\ waiter \in [Actors -> WaiterType]
  BY <1>1 DEF Pause, WaiterAt, Awaiting, CancelTasks, manager, db, history, Actors, Live, RunInv,
     Typed
<1>3. /\ \A b \in Actors : b # a => waiter'[b] = waiter[b]
      /\ waiter'[a].pc = "await" /\ waiter'[a].task = t
  BY <1>2
<1>4. CallersFree'
  BY <1>2, <1>3, ActorsDiffer DEF OwnInv, CallersFree
<1> QED BY <1>2, <1>3, <1>4, CancelAnswers

\* The rows that a deletion takes away need nobody.
LEMMA DeletionsAnswer ==
  ASSUME RunInv, OwnInv, NEW p \in Projects, BeginDeletion(p) \/ DeletionStep(p)
  PROVE  OwnInv'
<1>1. /\ process = "up" /\ UNCHANGED <<accepting, process, task, start, cut>>
      /\ waiter \in [Actors -> WaiterType]
      /\ deletion \in [Projects -> {"idle", "awaiting", "checkpoints", "rows", "end"}]
  BY DEF BeginDeletion, DeletionStep, DeletionAwaited, DeleteCheckpoints, DeleteRows,
     DeletionFails, EndDeletion, DeletionAt, DeletionUnchanged, history, RunInv, Typed,
     OwnInv, CallersFree
<1>2. /\ deletion' \in [Projects -> {"idle", "awaiting", "checkpoints", "rows", "end"}]
      /\ \A q \in Projects : q # p => deletion'[q] = deletion[q]
  BY <1>1 DEF BeginDeletion, DeletionStep, DeletionAwaited, DeleteCheckpoints, DeleteRows,
     DeletionFails, EndDeletion, DeletionGoto
<1>3. ASSUME UNCHANGED <<cancelled, waiter>>,
             deletion[p] # "awaiting" \/ waiter[Deleter(p)].pc = "idle",
             \A e \in ExecIds : Settled(e) => Settled(e)'
      PROVE  OwnInv'
  <2>1. Asked' /\ CallersFree'
    BY <1>1, <1>2, <1>3 DEF OwnInv, Asked, CallersFree
  <2>2. ASSUME NEW e \in ExecIds PROVE Answered(e)'
    <3>1. Answered(e) /\ (StartOwns(e) => StartOwns(e)')
      BY <1>1 DEF OwnInv, StartOwns
    <3>2. \A t \in TaskIds : Carries(t, e) => Carries(t, e)'
      BY <1>1, <1>3 DEF Carries, Waited
    <3> QED BY <1>3, <3>1, <3>2 DEF Answered
  <2> QED BY <2>1, <2>2 DEF OwnInv
<1>4. UNCHANGED rows => \A e \in ExecIds : Settled(e) => Settled(e)'
  BY <1>1 DEF Settled
<1>5. CASE BeginDeletion(p)
  <2>1. deletion[p] = "idle" /\ UNCHANGED rows
    BY <1>5 DEF BeginDeletion, DeletionAt, db
  <2>2. CASE UNCHANGED <<cancelled, waiter>>
    BY <1>3, <1>4, <2>1, <2>2
  <2>3. CASE /\ registered[p] # None /\ CancelTasks({registered[p]})
             /\ waiter' = Awaiting(Deleter(p), registered[p])
             /\ DeletionGoto(p, "awaiting")
    <3>1. PICK t : t = registered[p] /\ task[t].pc # "unborn"
      BY <2>3 DEF RunInv, Known
    <3>2. /\ waiter[Deleter(p)].pc = "idle" /\ Deleter(p) \in Actors
      BY <2>1, ActorsDiffer DEF OwnInv, CallersFree
    <3>3. /\ \A a \in Actors : a # Deleter(p) => waiter'[a] = waiter[a]
          /\ waiter'[Deleter(p)].pc = "await" /\ waiter'[Deleter(p)].task = t
          /\ cancelled' \subseteq cancelled \cup {t}
      BY <1>1, <2>3, <3>1, <3>2 DEF Awaiting, CancelTasks
    <3>4. deletion' = [deletion EXCEPT ![p] = "awaiting"]
      BY <2>3 DEF DeletionGoto
    <3>5. CallersFree'
      <4>1. ASSUME NEW q \in Projects, deletion'[q] # "awaiting"
            PROVE  waiter'[Deleter(q)].pc = "idle"
        <5>1. q # p
          BY <1>1, <3>4, <4>1
        <5> QED BY <1>2, <3>3, <4>1, <5>1, ActorsDiffer DEF OwnInv, CallersFree
      <4>2. \A q \in Projects : accepting' => waiter'[Stopper(q)].pc = "idle"
        BY <1>1, <3>3, ActorsDiffer DEF OwnInv, CallersFree
      <4> QED BY <1>1, <3>4, <4>1, <4>2 DEF CallersFree
    <3> QED BY <1>1, <2>1, <3>1, <3>2, <3>3, <3>5, CancelAnswers
  <2> QED BY <1>5, <2>2, <2>3 DEF BeginDeletion
<1>6. CASE DeletionAwaited(p) \/ DeletionFails(p) \/ EndDeletion(p)
  BY <1>3, <1>4, <1>6 DEF DeletionAwaited, DeletionFails, EndDeletion, DeletionAt, db
<1>7. CASE DeleteCheckpoints(p) \/ DeleteRows(p)
  <2>1. \A e \in ExecIds : rows[e].status \notin Active => rows'[e].status \notin Active
    BY <1>7 DEF DeleteCheckpoints, DeleteRows, Active, RunInv, Typed, RowsTyped, RowType
  <2>2. \A e \in ExecIds : Settled(e) => Settled(e)'
    BY <1>1, <2>1 DEF Settled
  <2>3. UNCHANGED <<cancelled, waiter>> /\ deletion[p] # "awaiting"
    BY <1>7 DEF DeleteCheckpoints, DeleteRows, DeletionAt
  <2> QED BY <1>3, <2>2, <2>3
<1> QED BY <1>5, <1>6, <1>7 DEF DeletionStep

\* shutdown() cancels every registered task and waits for each.
LEMMA ShutdownAnswers == RunInv /\ OwnInv /\ Shutdown => OwnInv'
<1> SUFFICES ASSUME RunInv, OwnInv, Shutdown PROVE OwnInv'
  OBVIOUS
<1>1. /\ process = "up" /\ accepting /\ accepting' = FALSE
      /\ UNCHANGED <<registered, process, task, start, deletion, rows, cut>>
  BY DEF Shutdown, db, history
<1>2. ASSUME NEW p \in Projects, registered[p] # None
      PROVE  /\ waiter'[Stopper(p)].pc = "await" /\ waiter'[Stopper(p)].task = registered[p]
             /\ task[registered[p]].pc # "unborn" /\ Stopper(p) \in Actors
  <2>1. Stopper(p) \in Actors /\ (CHOOSE q \in Projects : Stopper(p) = Stopper(q)) = p
    BY ActorsDiffer
  <2>2. waiter'[Stopper(p)] = [pc |-> "await", task |-> registered[p]]
    BY <1>2, <2>1 DEF Shutdown
  <2> QED BY <1>2, <2>1, <2>2 DEF RunInv, Known
<1>3. ASSUME NEW a \in Actors, \A p \in Projects : a = Stopper(p) => registered[p] = None
      PROVE  waiter'[a] = waiter[a]
  BY <1>3 DEF Shutdown
<1>4. \A p \in Projects : waiter[Stopper(p)].pc = "idle"
  BY <1>1 DEF OwnInv, CallersFree
<1>5. CallersFree'
  BY <1>1, <1>3, ActorsDiffer DEF OwnInv, CallersFree
<1>6. \A a \in Actors : \/ waiter'[a] = waiter[a]
                        \/ /\ waiter[a].pc = "idle" /\ waiter'[a].pc = "await"
                           /\ task[waiter'[a].task].pc # "unborn"
  <2> SUFFICES ASSUME NEW a \in Actors, waiter'[a] # waiter[a]
               PROVE  /\ waiter[a].pc = "idle" /\ waiter'[a].pc = "await"
                      /\ task[waiter'[a].task].pc # "unborn"
    OBVIOUS
  <2>1. PICK p \in Projects : a = Stopper(p) /\ registered[p] # None
    BY <1>3
  <2> QED BY <1>2, <1>4, <2>1
<1>7. ASSUME NEW t \in cancelled', t \notin cancelled
      PROVE  task[t].pc # "unborn" /\ \E a \in Actors : waiter'[a].task = t
                                                         /\ waiter'[a].pc = "await"
  <2>1. PICK p \in Projects : registered[p] # None /\ t = registered[p]
    BY <1>7 DEF Shutdown, CancelTasks
  <2> QED BY <1>2, <2>1
<1> QED BY <1>1, <1>5, <1>6, <1>7, CancelAnswers

\* The tables of the manager answer for nothing.
LEMMA ClearManagerAnswers == RunInv /\ OwnInv /\ ClearManager => OwnInv'
<1> SUFFICES ASSUME RunInv, OwnInv, ClearManager PROVE OwnInv'
  OBVIOUS
<1>1. UNCHANGED <<accepting, cancelled, task, start, waiter, deletion, process, rows, cut>>
  BY DEF ClearManager, flags, pcs, db, history
<1> QED BY <1>1 DEF OwnInv, Asked, CallersFree, Answered, Settled, StartOwns, Carries, Waited

\* With the process goes everybody who could answer, until the next startup has
\* settled the rows.
LEMMA ProcessAnswers == RunInv /\ OwnInv /\ (ProcessEnds \/ Startup) => OwnInv'
<1> SUFFICES ASSUME RunInv, OwnInv, ProcessEnds \/ Startup PROVE OwnInv'
  OBVIOUS
<1>1. CASE ProcessEnds
  <2>1. process' = "down" /\ accepting' = FALSE /\ cancelled' = {}
        /\ (\A a \in Actors : waiter'[a].pc = "idle")
        /\ deletion' \in [Projects -> {"idle", "awaiting", "checkpoints", "rows", "end"}]
    BY <1>1 DEF ProcessEnds, Resting
  <2> QED BY <2>1, ActorsDiffer DEF OwnInv, Asked, CallersFree
<1>2. CASE Startup
  <2>1. process = "down" /\ process' = "up"
        /\ UNCHANGED <<cancelled, task, start, waiter, deletion>>
    BY <1>2 DEF Startup, flags
  <2>2. Asked' /\ CallersFree'
    BY <2>1, ActorsDiffer DEF OwnInv, Asked, CallersFree
  <2>3. ASSUME NEW e \in ExecIds PROVE Settled(e)'
    <3>1. rows[e] \in RowType
      BY DEF RunInv, Typed, RowsTyped
    <3>2. CASE rows'[e].status = "interrupted"
      BY <3>2 DEF Settled, Active
    <3>3. CASE rows[e].status \notin Active /\ rows'[e] = rows[e]
      BY <3>3 DEF Settled
    <3>4. CASE rows[e].status \in Active /\ rows'[e] = rows[e] /\ e \in cut'
      BY <3>4 DEF Settled
    <3> QED BY <1>2, <3>1, <3>2, <3>3, <3>4 DEF Startup, Stale, RowType
  <2> QED BY <2>1, <2>2, <2>3 DEF OwnInv, Answered
<1> QED BY <1>1, <1>2

-----------------------------------------------------------------------------
\* Every step keeps the invariant.
LEMMA StepsAnswer == RunInv /\ OwnInv /\ [Next]_vars => OwnInv'
<1> SUFFICES ASSUME RunInv, OwnInv, [Next]_vars PROVE OwnInv'
  OBVIOUS
<1>1. CASE UNCHANGED vars
  BY <1>1 DEF vars, manager, flags, pcs, db, history, OwnInv, Asked, CallersFree, Answered,
     Settled, StartOwns, Carries, Waited
<1>2. CASE \E p \in Projects : (\E resume \in BOOLEAN : Request(p, resume)) \/ StartStep(p)
  BY <1>2, StartsAnswer
<1>3. CASE \E t \in TaskIds : TaskStep(t) \/ GraphStep(t) \/ QueueDeadline(t)
  BY <1>3, TasksAnswer
<1>4. CASE \E a \in Pausers, p \in Projects : Pause(a, p)
  BY <1>4, PauseAnswers
<1>5. CASE \E a \in Actors : WaiterStep(a) \/ CancelDeadline(a)
  BY <1>5, WaitersAnswer
<1>6. CASE \E p \in Projects : BeginDeletion(p) \/ DeletionStep(p)
  BY <1>6, DeletionsAnswer
<1>7. CASE Shutdown \/ ClearManager \/ ProcessEnds \/ Startup
  BY <1>7, ShutdownAnswers, ClearManagerAnswers, ProcessAnswers
<1> QED BY <1>1, <1>2, <1>3, <1>4, <1>5, <1>6, <1>7 DEF Next

\* Somebody answers for every active row, or its closing write was cut, in every
\* reachable state.
THEOREM RowsAreAnswered == Spec => []OwnInv
<1>1. Init => OwnInv
  BY ActorsDiffer
  DEF Init, OwnInv, Asked, CallersFree, Answered, Settled, NoTask, NoRow, Resting, Active
<1> QED BY <1>1, StepsAnswer, RuntimeInvariant, PTL DEF Spec

\* A pending or running row never outlives the start() call, the task and the
\* callers that will close it, whatever pauses, deadlines, deletions, shutdowns,
\* crashes and failing statements interleave.
THEOREM ActiveRowsAreOwned == Spec => []ActiveRowsOwned
BY OwnInvSuffices, RowsAreAnswered, RuntimeInvariant, PTL
=============================================================================
