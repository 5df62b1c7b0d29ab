# TLA+ models of academic-cluster

academic-cluster writes literature reviews: a FastAPI process accepts a project,
runs a LangGraph workflow of six nodes over it as a background task, keeps its
state in PostgreSQL (rows and LangGraph checkpoints) and reports progress by SSE.
This directory holds TLA+ models of the parts of it that are hard to test - the
life of an Agent execution, what happens inside its nodes, the calls they make and
the stream that reports on them - with the TLC runs that check them on small
instances and TLAPS proofs of what holds for all instances.

Paths below are relative to `src/src/academic_cluster/`.

## 1. Inventory

| Component | State | Operations | Interacts with | What makes it correct |
| --- | --- | --- | --- | --- |
| Bounded FIFO gate, `services/concurrency.py` | free slots, deque of futures, lock | `acquire`, `release`, `slot` | Agent runs, LLM requests, embeddings and rerankings each have one | slots conserved through cancellation; arrival order; nobody waits beside a free slot; bounded queue |
| Agent run manager, `services/agent_runtime.py` | `_tasks`, `_scheduled`, `_starting_projects`, `_project_owners`, `_deleting_projects`, `_accepting` | `start` (run, resume, reconcile), the background task, `cancel`, project deletion, `shutdown` | gate, database, checkpointer, workflow, SSE | one task per project; rows closed however a run ends; slots and admission records given back; finished work not redone |
| Supervisor graph, `agents/agent_graph.py` | `AgentState` in a checkpoint, tables written on the way | supervisor, research, analysis, writing, peer review, finalize | database, LLM, run manager | ends; what it calls completed was scored and stored; its verdict is the one the row and the resume get |
| Node contracts, `agents/node_contracts.py`, `agents/node_runtime.py` | none: a contract per node, checked at import and at each node's return | declare, validate, enforce | supervisor graph | no branch of a node is rejected by its own contract; an outcome declared terminal is terminal |
| Research agent and search, `agents/research_team.py`, `tools/academic_search.py`, `services/database.py` | search budget, counters, links from project to papers | search of five sources, merge, save, link, count | supervisor graph, sources | bounded calls; what was found is linked and counted once, whichever source answers late |
| Clustering, knowledge graph, evidence, `tools/agent_tools.py`, `tools/clustering.py`, `agents/kg_extraction.py`, `agents/evidence_generation.py` | clusters, assignments, entities, relations, cards | analysis of a project, each stored in transactions of its own | supervisor graph, LLM | the tables agree with each other and with the state after any failure, retry or interruption |
| Citations and review assembly, `services/citation_planner.py`, `section_evidence_planner.py`, `citation_utils.py`, `review_finalizer.py`, `tools/writing_tools.py` | outline, sections, reference list | plan, write, number, store, revise, publish | supervisor graph, database | a number goes on pointing at the paper its author meant; sections are grounded; the tables hold what was judged |
| LLM calls, rerank and embeddings, `services/llm_client.py`, `rerank_service.py`, `embedding_service.py` | request gate, audit rows, cache, vectors | call with deadline, draining, retries, pricing; `ensure_paper_embeddings` | gate, database, Redis | what ended is closed; no more open requests than the capacity; vectors of one dimension, all or nothing |
| Provider registry and pools, `services/provider_pool.py`, `api/admin/providers.py` | rows, runtime pool, clients made from earlier pools | create, update, toggle, delete, test and ban, reload, start up | LLM calls | the pool is what the registry says; a call reaches only what was registered |
| SSE, `api/sse.py`, and the client in `src/frontend/src/lib/useSSE.ts`, `ChatPage.tsx` | queue per connection; the page's effect, view and polling | connect, send, drop, disconnect, reconnect, poll | run manager, workflow | a page learns that the run ended; places are given back |
| Rows and checkpoints, `services/database.py`, `agents/checkpoint.py`, `scripts/migrate_agent_tables.sql` | execution and project status, checkpoint threads, partial unique index | updates by id, claim, stale cleanup, deletion | everything above | at most one active execution per project; no active row without an owner |
| Project deletion, `services/project_cleanup.py` | deletion barrier | begin, checkpoints, rows, end | run manager, rows | nothing runs for a project that is gone |
| Startup and shutdown, `api/main.py` | the process | initialise, stale cleanup, close services | all | rows of a dead process are closed |
| Runtime lock, `agents/checkpoint.py:58-269` | advisory lock session, lost flag | acquire, health check, fence, release | run manager, startup and shutdown, other processes | one process runs Agents; a lost session is noticed and drained; the lock is never kept by a process that is gone |
| Sessions, rate limiter, usage and audit reports, prompts, admin and console API, configuration and cryptography | see `PROJECT.json` | | | not modelled but for the embedding dimension, section 7 |

`PROJECT.json` lists every component with what is and is not modelled and why,
and every hazard at the line where it bites.

What is hard here is one event loop with many awaits. Between two awaits the code
is atomic; at each await another request, a deadline, a cancellation, a
deletion or the end of the process may come in, and CancelledError arrives at the
await that is pending, also inside the handlers that clean up after the first one.
Everything is stored in many small transactions, so that what failed or died
between two of them is met again by the next attempt.

## 2. Modules

```
SlotPool  <--refines--  FifoGate  <--INSTANCE--  AgentRuntime        (slots of Agent runs)
                           |      <--INSTANCE--  ProviderCalls       (slots of requests)
              NodeContracts --> ContractedWorkflow -->  AgentWorkflow
                                     EXTENDS, and implements it

inside the nodes:   ResearchAgent <-- PaperAnalysis     CitationPlan <-- ReviewWriting
around them:        RuntimeLock                         (AgentRuntime reduced, several processes)
                    AgentRuntime sees of AgentWorkflow a run's checkpoint and its outcome
                    ProviderRegistry, SseStream

proofs:             FifoGateProofs --INSTANCE--> AgentRuntimeProofs, ProviderCallsProofs
                    ContractedWorkflowProofs, PaperAnalysisProofs, ReviewWritingProofs,
                    ProviderRegistryProofs, each EXTENDS its module
                    ServerProofs EXTENDS RuntimeLock and SseStream
```

MC modules give the constants values; `SameOwner` makes one user own all projects.

**SlotPool** is what `BoundedFifoGate` promises: a queue in arrival order, a set of
owners of bounded size, a bounded queue, and a slot that goes to the oldest.

**FifoGate** is `acquire`/`release`/`slot` step by step. `available`, `waiters`
(the deque, a future named by its task) and `stage` (where each task is). `Resume`
is the task waking after the hand-over; `LeaveQueue` and `ReturnHandoff` are the two
branches of `acquire`'s `finally`; `interrupted` are the tasks whose deadline or
cancellation is due. Futures that are done, which `release` skips, never occur in the
deque: `QueueIsWaiting` says so. The refinement to SlotPool maps a task that has been
handed the slot to an owner at once.

**AgentRuntime** is the run manager with all it drives. Its variables are grouped as
in the code: the manager's tables, its gate (an instance of FifoGate), pending
cancellations and deadlines, a program counter for each background task, `start()`
call, canceller, deletion and for the process, and the rows. There is one action per
await. `Await` is the shape of a database call made by a task: it returns, raises
(at most `MaxFaults` times) or is cancelled, and a cancelled statement may or may not
have committed. `_scheduled[p]` is not a variable: where the code reads it, it holds
the record of the task that `_tasks[p]` holds, and that record is `task[t]`.

| Code | Actions |
| --- | --- |
| `start` | `Request`, `Admit`, `Reject`, `Latest`, `Inspect`, `Claim`, `Reconcile`, `ReconcileProject`, `Create`, `PublishStart`, `Stopped`, `Schedule`, `StopRow`, `StopProject`, `AbortRow`, `AbortProject`, `StartRaises` |
| `_run_scheduled` | `DieUnstarted`, `EnterGate`, `Granted`, `LeaveGate`, `QueueDeadline`, `ExpireRow`, `ExpireProject`, `EnterQueueCancel`, `QueueCancelRow`, `QueueCancelProject`; `EndStarted`, `EndUnstarted` for the `finally` blocks |
| `_run` and `run_agent_graph` | `MarkRunning`, `Prepare`, `PublishRun`, `GraphStep`, `GraphInterrupted`, `GraphEnd`, `GraphRaises`, `GraphDone`, `GraphCancel`, `GraphFail`, `Record`, `RecordProject`, `CancelRow`, `CancelProject`, `FailRow`, `FailProject` |
| `cancel`, `_await_cancelled_task` | `Pause`, `TaskEnded`, `CancelDeadline`, `PersistEnter`, `PersistRow`, `PersistProject` |
| deletion | `BeginDeletion`, `DeletionAwaited`, `DeleteCheckpoints`, `DeleteRows`, `DeletionFails`, `EndDeletion` |
| `shutdown`, exit, startup | `Shutdown`, `ClearManager`, `ProcessEnds`, `Startup` |

The graph is reduced here to steps that save a checkpoint and an end that is a
success or a failure.

**AgentWorkflow** is what happens inside: the state machine of `agent_graph.py` over
the last checkpoint. `Supervise` makes the decision of `decide_next_phase` and the
update of `_supervisor_node`, which test the same conditions in different orders;
each phase succeeds, or fails through `_phase_failure`. `Stop` is any way in which an
invocation ends early (cancellation, crash, a rejected node contract, a database
error in finalize, the recursion limit), `Resume` the next invocation from the
checkpoint, with a fresh step count. `saved` and `artifact` compare the tables with
the review in the state. `Disposition` (the resume), `RunSucceeded` (the execution
row) and `ProjectCompleted` (the project row) are the three verdicts.

**NodeContracts** is the data of `node_contracts.py`: for each node the fields its
input needs, the updates of its branches with their required, allowed and nullable
fields, and the outcomes it calls terminal. `ContractsDeclared` is what the validators
check when the module is imported; it is an ASSUME, so TLC evaluates it and the proofs
use it. `OutputAccepted` is `enforce_node_contract`'s check of an update. JSON kinds,
digests, manifests, fixtures and the tracing around a node (`_wrap` is fail-open and
runs the node once) are left out.

**ContractedWorkflow** extends AgentWorkflow with the update that every branch of every
node returns (`NodeUpdate`), checked by its contract and merged into the state as
LangGraph merges it: what the update leaves out stays. Of a data field's value `origin`
keeps the number of the research result or of the draft it was made from, so that
data of different rounds and drafts can be told apart; `declared` is the outcome that a
contract has called terminal. The model goes on after a rejected update, and
`UpdatesAccepted` says that there is none: in the code a rejection raises out of the
graph, past the phase's own retry.

**ResearchAgent** is the research node: a tool-calling agent whose `search_papers` is
bounded by a budget and whose loop is bounded by LangGraph's step limit, with up to
`MaxParallel` calls in one message; each search asks five sources at once, which answer,
fail, or are cut off by the time-out that keeps what arrived (`SearchAnswers`); answers
are merged to one record per title, saved one by one (`SavePaper`), and linked to the
project in one transaction that inserts the missing links row by row and counts them
(`InsertLink`, `CommitLinks`): a row that a rival's open transaction has inserted is
waited for, and of two that wait for each other the database aborts one, whose error
ends the agent (`ResearchFails`). A paper's row is known by its DOI or by source and own
id, which is why two searches may store the same title twice.
**PaperAnalysis** extends it with the analysis node: clusters and their coverage
(which graph is built and how it is divided is left open: any division of the papers
read), the decision to go back to
research, entities and relations, evidence cards and their reload.

| Code | Actions |
| --- | --- |
| `_research_node`, `research_team.py` | `StartResearch`, `CallTools`, `OverBudget`, `FinishResearch`, `ResearchFails` |
| `search_papers`, `academic_search.py` | `Refuse`, `SearchPapers`, `SearchAnswers`, `SavePaper`, `InsertLink`, `CommitLinks` |
| `_analysis_node` | `StartAnalysis`, `NeedsMoreResearch`, `CoverageEnough`, `FinishAnalysis`, `AnalysisFails` |
| `cluster_and_evaluate_coverage` | `ClusterAndEvaluate`, `DeleteProjectClusters`, `SaveCluster`, `SaveClusterAssignments`, `ClusterSaveFails`, `ClustersSaved` |
| `extract_knowledge_graph` | `ExtractKnowledgeGraph`, `KgEntitiesSaved`, `KgEntitiesLost`, `SaveKgRelations`, `KnowledgeGraphFails` |
| `generate_evidence` | `GenerateEvidence`, `SaveEvidenceCard`, `EvidenceSaveFails`, `ReloadEvidence` |
| cancellation, resume, a new run | `Interrupt`, `Resume`, `StartAgain`, `OtherProject` |

**CitationPlan** is the pure part of writing: which papers a section is offered
(`citation_planner.py`) and its evidence plan (`section_evidence_planner.py`), with the
windows, quotas and fall-backs of the code, and `BestFirst`, the reference definition it
is compared with. No live caller passes hybrid edges, so the tiers of graph neighbours
are empty. **ReviewWriting** uses it: outline, sections, numbering of
the whole document by first use, storing in several transactions, peer review, the
restoring of numbers before a revision, the final artifact. A text is the sequence of
the citation numbers in it; `meant` records beside every number the paper that its
author meant. The review's title stands for the section titles, which take the same
way; section ids are distinct; feedback cites only numbers of the review's list; the
writers of one draft or revision are one step, since they share nothing.

| Code | Actions |
| --- | --- |
| `_writing_node` | `MakeOutline`, `WriteSections`, `Revise`, `WritingReturns`, `WritingFails` |
| `save_outline`, `save_written_section` | `SaveOutline`, `SaveSection`, `SaveFails` |
| `_peer_review_node`, `_finalize_node` | `PeerReview`, `PeerReviewFails`, `Finalize` |
| cancellation, crash | `Stop` |

**ProviderCalls** is one call to a provider, from audit row to result, of three kinds:
LLM (`ainvoke_with_callbacks`), embedding and reranking. They share the shape - gate,
request, deadline, draining of the request that timed out, retry, pricing, closing of
the row - and differ in what they retry, what a cancellation does, and which failed
writes they tolerate; `kind` chooses one. `ensure_paper_embeddings` is the batch around
embedding calls: reuse by dimension, cache, task group, one storing transaction.

| Code | Actions |
| --- | --- |
| audit row | `CreateRow`, `CreateRowCut`, `Close`, `CloseFails`, `CloseCut` |
| gate and rate | `RateWait`, `RateCut`, `QueueDeadline`, `Granted`, `LeaveWait`, `OtherComes`, `OtherGoes` |
| request and `_cancel_and_wait` | `Answer`, `Deadline`, `Drained`, `CancelSent`, `CancelDrained` |
| retry and price | `Wake`, `SleepCut`, `Price`, `PriceCut`, `Finish` |
| `ensure_paper_embeddings` | `StartBatch`, `LookUp`, `SaveVector`, `CacheCut`, `GroupFails`, `PhaseCancelled`, `GroupEnds`, `Store`, `ChangeTarget` |

**ProviderRegistry** is the registry's rows, the pool that the process makes of them,
and Agents that call through it. `ReadRows` and `SetPool` are the two ends of a
reload: between them it awaits address checks and the policy, and another request may
overtake it; `reads` and `applied` number the readings. `CreateClient` makes the client
object from the pool of the moment, `Invoke` and `Send` route a later call through the
pool of then, or, where there is none, through the client itself. `BeginTest`,
`EndTest` are the health test with its count of failures and the automatic ban.

**RuntimeLock** puts several processes beside each other on one database. `holder` is
what the server knows of the advisory lock, `session` what became of each process's
lock connection, `lost` the flag that fences it, `phase` its place in `lifespan`.
The run manager is reduced to what the lock touches - `_accepting`, one `start()` call
per process, a task per execution - with the awaits of `start()` between the ping
(`CheckLock`), the admission (`Admit`), the row (`Prepare`) and the registration
(`Schedule`, which stands for both of its looks at `_accepting`).

| Code | Actions |
| --- | --- |
| `lifespan`, `initialize_checkpointer`, `_acquire_runtime_lock` | `Boot`, `TryLock`, `SetupFails`, `FinishSetup`, `CleanUp` |
| `_monitor_runtime_lock`, `check_runtime_lock_health`, `_handle_runtime_lock_loss` | `Fence`; `DropSession` is the server's doing |
| `start`, `_run`, `_await_cancelled_task` | `CheckLock`, `Admit`, `Prepare`, `Schedule`; `RunGraph`, `GraphEnds`, `CancelledEnds`, `CancelDeadline` |
| `_shutdown_application_services`, `close_checkpointer`, exit or crash | `BeginClose`, `Release`, `ProcessEnds` |

**SseStream** is the stream from the run to the page and back to the truth by polling.
`conn` are the places of the manager's connections with their bounded queues and the
generator loop of each (`CheckReader`, `Deliver`, `WaitOn`, `Heartbeat`); `Put` is the
drop policy of `send_event`. `stream` is the page's effect (`Connect`, `Hangup`,
`Break`, `Retry`, `Leave`), `view` and `fetch` its status query (`Poll`, `Answer`,
`Show`, `FetchFails`). The run is reduced to what it sends and when its row is closed:
`GraphCompletes` sends the terminal event before `Record` closes the row.

## 3. Runs

| Run | Bounds | Question |
| --- | --- | --- |
| `gate` | 5 tasks, 2 slots, queue of 2; 13,000 states | With five tasks a slot is handed over while the queue is full, and a newcomer is refused, while two holders leave in any order. Safety, refinement of SlotPool, and service of every waiter |
| `runtime_queue` | 2 projects of one user, 1 slot, 1 queue place, 1 pauser, 2 tasks, 2 rows; 400,000 states | The second run queues behind the first, or one project is run, paused and run again; no faults |
| `runtime_crash` | 1 project, deletion, shutdown, crash, 1 fault, 2 tasks, 1 row; 95,000 states | A run and its resume with the process ending at any await, under fairness: rows keep an owner and are closed in the end |
| `workflow` | 2 attempts, 2 rounds, 2 revisions, limit 60: the defaults; 97,000 states | The contracted graph: verdicts, scoring, storage, updates, the pieces of the state, limit, termination; stopped and resumed anywhere |
| `papers` | 2 titles from 5 sources, a DOI for one; 2 searches per agent, 2 tool calls in a message, step limit 5, 2 attempts, 2 rounds, 1 interruption; 1,450,000 states | Research and analysis with two searches side by side, sources that answer late, in part or not at all, and saves that fail |
| `writing` | 3 references, 1 or 2 sections, 2 per section, 2 attempts, 1 revision; 1,350,000 states | Plan, draft, numbering, storing, review, revision, artifact, with stops and failed writes |
| `calls` | 2 calls and one of another project, 1 slot, queue of 1, 2 attempts, 2 dimensions, 2 batches, 1 failed write; 229,000 states | Each kind of provider call and the embedding batch, cancelled at every await |
| `registry` | 2 providers of different models, 2 administrators, 1 Agent, 3 requests, 1 call, 1 failed reload, ban after 2; 2,000,000 states | Overlapping changes, tests and reloads, with a client from an earlier pool |
| `sse` | 1 page, 2 places, queues of 2, 2 executions, 2 progress events each, 1 crash; 186,000 states | Slow readers, broken streams, zombies, a page closed and reopened |
| `runtime_lock` | 2 processes, 2 executions of one project; 89,000 states | The lock is lost and taken over while a start or a task of the first process is anywhere; failed startups, shutdowns, crashes and restarts without limit |
| `admission_drains`, `no_task_after_deletion` | 1 project | What a message and a docstring say and the code does not do (section 6) |

**Why the bounds are enough.** Two tasks are enough for every race between an old and a
new run of a project, and between two projects for one slot; a third project would
only queue behind the second, which the `gate` run covers with five. One fault is
enough for every single failure; the handlers have no state in which a second one meets
a different branch except `_persist_unscheduled_interruption`, called twice by a
`start` that was stopped, where the second call's failure is suppressed. `start()`
calls that fail admission leave no trace, so one call per project is in flight at a
time. In `runtime_crash` there is one row: a resume that would make a new execution
finds none left and waits, and pausers and the queue belong to `runtime_queue`. Two
processes are the old owner of the lock and the new one; a third would repeat the new
one's part. The second execution is what a restarted or second process creates beside
the one that still drains.

In `papers` one title is found under its DOI by every source and the other only by its
arXiv id, so that a search merges. The budget of two searches lets two calls of one message run
side by side: their saves meet in the same rows and their link transactions overlap in
any order. The step limit 5 is two messages and the end, so that an agent may also meet
its limit before its budget. Clusters need 2 papers where the code wants 3. No more
papers are linked than a clustering reads (4 here, 500 in the code): what happens above is
left to the theorem. In `writing` a section count of 1
and 2 stands for 3 and more: with two sections a number can be first used in either
and a retry can have fewer sections than the draft it replaces; reference 4 is none of
the project's, and one cluster that an outline names is unknown. `calls` has one slot
so that a call waits, is handed the slot, and is cancelled or times out on the way;
two attempts are one retry. `registry` needs three requests for a change, a second
change read earlier but applied later, and the reload that repairs it. `sse` has a queue
of two, so that the drop policy meets a terminal event at the head and at the tail, and
a second execution, so that what is left of the first meets it.

Requests stop when a bound is used up, therefore the runs which may come to rest do not
check deadlock; the gate and the lock never rest and their runs do.

Every property of a passing run has a mutant in `PROJECT.json`: a plausible bug in
the modelled code (a slot not returned, a failure not counted, a cleanup limited to
running rows, answers of a slow search dropped, sections left from the last draft ...)
under which TLC finds it violated.

**Fairness.** Gate: a task that has been woken or interrupted takes its step, and an
owner releases in the end - `slot` releases in `finally` and the work inside has
deadlines. Runtime: the event loop runs what is ready and the database answers;
nothing obliges users, deadlines or failures; a process that is down is started
again. Lock: the monitor pings every five seconds
and a ping over a dropped session fails; a cancelled task comes to its end, since
provider calls have time-outs. Nothing obliges the server to keep or drop a session, a
start, a task or an operator. Workflow and papers: a node that has been reached is run
to its end, since provider calls have time-outs; nothing obliges a user to resume, so
`EveryRunEnds` speaks of runs that are not stopped for ever. Calls: a call takes its
next step, a deadline that is due fires, callers of other projects leave the gate,
the task group and its transaction end; nothing obliges a provider to answer. SSE: a
closing row is written, a process that is down is restarted, the loop of a connection
goes on (its wait has a time-out), and a page polls (`refetchInterval`); nothing
obliges a page to connect, stay or read.

`cut` (history) remembers executions whose closing write itself failed or was
cancelled; `ActiveRowsOwned` and `RowsSettle` except exactly these. That this is a real
loss is what `PauseSettles` shows (section 6).

## 4. Properties

TypeOK of each module is a conjunct of one of its properties (`NoSlotLeak`,
`OneLiveStream`, `RegistryRules`, `OpenWithinCapacity`) or proved (section 5). The modules of
the nodes' insides have none: what they keep is sets and sequences of the papers, cards and
numbers that their properties speak of; `ReviewInv` types those of ReviewWriting.

| Run | Properties |
| --- | --- |
| `gate` | `SlotsConserved`; `ImplementsPool`; `WaiterServed` |
| `runtime_queue` | `OneTaskPerProject` (no checkpoint thread or project row has two writers); `NoSlotLeak` (however a run ends its slot is back); `ActiveRowsOwned` (a pending or running row always has a start, a task or a canceller that will close it); `UsesGate` (the tasks take only steps of FifoGate, so its theorems apply to Agent runs) |
| `runtime_crash` | `ActiveRowsOwned`; `TerminalCheckpointsStay` (finished work is not run again); `RowsSettle` (rows without a live owner are closed in the end) |
| `workflow` | `VerdictsAgree` (row, project and resume draw the same verdict); `CompletedIsScored`; `ReviewedTextIsSaved`; `CompletedIsStored`; `WithinRecursionLimit`; `UpdatesAccepted`; `DataIsOfOnePiece` (writing gets coverage, cards and gaps of the papers in the state; what is stored of a review that completed is of one draft); `DeclaredOutcomeHolds`; `EveryRunEnds` |
| `papers` | `FoundIsLinked` (what the sources had found for a finished search is linked, time-out or not); `NewPapersCountedOnce` (the number of links is the number before the agent plus what its searches reported as new, also with overlapping transactions: the agent's decision to stop rests on it); `TablesAgree` (clusters and assignments are those of the state unless it carries the warning, the writer's evidence is exactly the genuine cards stored, relations have both ends); `PhasesEnd` |
| `writing` | `CitationsAreTrue` (every number in the body of a section leads to the paper its author meant, and the list has no other entries); `GroundedSections` (no citation outside the evidence the section was first given); `StoredIsReviewed` (the tables hold the draft that was judged and nothing else); `PlansServeSections` (offers are the best first, none twice or passed over, and the windows cover every cluster) |
| `calls` | `EndedIsClosed` (no request, place in the gate or open audit row is left by a call that ended, with the exceptions below); `OpenWithinCapacity`; `VectorsFit` (a batch that reports ready left a vector of its dimension for every paper); `EveryCallEnds` |
| `registry` | `RegistryRules` (when administration has come to rest and its last reading was applied the pool is the registry, and a call routed through a pool reaches only what was usable when it began) |
| `sse` | `OneLiveStream`; `TerminalSurvives` (a queued terminal event is delivered or its reader leaves); `PlacesReturn`; `ViewSettles` (a page does not go on showing a run that is over) |
| `runtime_lock` | `LockCoversRuns` (a process runs Agents only while it owns the lock, or after a loss that it has not noticed or still drains; only what outlives the cancellation deadline runs on without a session); `FencedIsQuiet` (no `start()` under way puts a task behind the fence or the shutdown); `LockIsReturned`; `LossDrains` |

Exceptions that the properties name: `DataIsOfOnePiece` speaks of reviews that
completed - a failed final peer review leaves the artifact with the report of the draft
before; `StoredIsReviewed` leaves out a writing phase that used up its attempts in the
middle of storing a revision; `EndedIsClosed` leaves out three rows: that of a cancelled
reranking, for which `rerank_service.py` has no handler; that of an LLM or embedding call
whose answer is there but which is cancelled while its price is looked up
(`llm_client.py:770-784`, `embedding_service.py:324-333`); and one whose closing write
itself failed or was cut short. The first two stay `running` without an attempt to close
them (`CancelledIsClosed`, section 6). `OpenWithinCapacity` speaks of the requests of
calls that hold a slot, with those they drain after a deadline; the request of an LLM call
that was cancelled drains after its slot was given back, and is not among them.
`ClustersMatch`, a part of `TablesAgree`, does not put every paper of the state in a
cluster when more papers are linked than a clustering reads. `RegistryRules` says nothing
while an older reading was applied last (two overlapping reloads, or a failed one):
until the next reload the pool is then behind the registry, and `applied # reads` says so.

## 5. Proofs

| Theorem | Says |
| --- | --- |
| `GateInvariant` | `Spec => []GateInv` |
| `GateConservesSlots`, `GateNeverIdles`, `GateQueueExact` | `SlotsConserved`, `NoIdleSlot` (nobody waits beside a free slot), `QueueIsWaiting` |
| `GateImplementsPool` | FifoGate refines SlotPool: arrival order, no overtaking, bounded owners and queue |
| `WorkflowInvariant` | `Spec => []WorkflowInv` |
| `WorkflowTypes`, `WorkflowVerdictsAgree`, `WorkflowCompletedIsScored`, `WorkflowReviewedTextIsSaved`, `WorkflowCompletedIsStored` | types, and four of the invariants of the `workflow` run |
| `RunFitsRecursionLimit` | `WithinRecursionLimit` for all caps with `2 * (4 * attempts + 2 * rounds + 2 * (revisions + 1)) + 1` below the limit |
| `ContractedImplementsWorkflow` | `ContractedSpec => Spec`: all of the above holds of the graph with its contracts |
| `ContractedWorkflowInvariant` | `ContractedSpec => []WorkflowInv` |
| `ContractsAcceptUpdates`, `DataStaysOfOnePiece`, `DeclaredOutcomesHold` | `UpdatesAccepted`, `DataIsOfOnePiece`, `DeclaredOutcomeHolds` for all caps |
| `StreamInvariant` | `Spec => []StreamInv` |
| `StreamsAreSingle`, `TerminalEventsSurvive` | `OneLiveStream`, `TerminalSurvives` for any pages, connection limit, queue size and bounds |
| `CallInvariant` | `Spec => []CallInv` |
| `EndedCallsAreClosed`, `RequestsWithinCapacity`, `BatchesFit` | `EndedIsClosed` with its exceptions, `OpenWithinCapacity`, `VectorsFit` for any callers, capacity, queue, attempts and dimensions |
| `ReviewInvariant` | `Spec => []ReviewInv` |
| `CitationsStayTrue`, `SectionsStayGrounded`, `StoredReviewIsPublished` | `CitationsAreTrue`, `GroundedSections`, `StoredIsReviewed` for any references, sections, texts of any length, attempts and revisions |
| `PlansAreServed` | `PlansServeSections` for any papers, clusterings, outlines, quota and number of core papers |
| `RegistryInvariant` | `Spec => []RegistryInv` |
| `RegistryIsTheSource` | `RegistryRules` for any providers, administrators, Agents and bounds |
| `RuntimeInvariant` | `Spec => []RunInv` |
| `OneTaskEach`, `SlotsAreReturned` | `OneTaskPerProject` and `NoSlotLeak` for any projects, owners, capacities and bounds |
| `ManagerUsesGate` | `UsesGate` of a manager that never stops: what is proved of the gate holds of Agent runs |
| `ExecutionsStayLinked`, `FinishedWorkStays` | `Spec => []ExecInv`, and from it `TerminalCheckpointsStay` |
| `RowsAreAnswered`, `ActiveRowsAreOwned` | `Spec => []OwnInv`, and from it `ActiveRowsOwned` |
| `LockInvariant` | `LockSpec => []LockInv` |
| `LockTypes`, `RunsAreCovered`, `FenceHolds`, `LockComesBack` | types and the invariants of the `runtime_lock` run |
| `AnalysisInvariant` | `Spec => []AnalysisInv` |
| `FoundStaysLinked`, `NewPapersStayCounted`, `TablesStayInAgreement` | `FoundIsLinked`, `NewPapersCountedOnce`, `TablesAgree` for any sources, answers, papers, budgets and limits (a step limit below the budget too), attempts, rounds and interruptions |

**FifoGateProofs** proves the gate for any set of tasks (finite or not), any capacity
and any queue length. It assumes only `GateAssumption` (`Capacity` positive,
`MaxWaiters` a natural number), which `__init__` enforces. `SlotsConserved` is not
inductive: `release` gives the slot to the head of the deque, and if that future were
not one of a suspended task the slot would belong to nobody. So `GateInv` joins
`TypeOK` with `LineOK` (the deque is exactly the suspended tasks, once each),
`CountOK` (free slots and owners add up to the capacity, the owners being finitely
many), `NoIdleSlot` and `QueueBounded`. `LineOK` in turn needs lemmas about `RemoveAt`,
which is how a cancelled waiter leaves the middle of the deque. There is one lemma for
each kind of step; the refinement is `StepIsPoolStep`, which maps each step to a step
of the pool or a stutter, with the invariant before and after it. Through `UsesGate`
the theorems are about Agent runs too.

**AgentRuntimeProofs** proves the run manager from `RuntimeAssumption`: positive
capacity and quota, natural bounds, deletable projects among the projects, and pause
requests with names of their own. `RunInv` joins seven parts:

- `Typed`, and `Quiet`: nothing lives in a process that is down, which admits nothing;
- `Known`: while starts are admitted every live task is registered. `start()` decides on
  the tables, so `OneTaskPerProject` is not inductive without it; during a shutdown the
  tables are cleared under tasks that outlived the deadline, and only the closed
  admission keeps the property;
- `NoRival`: an admitted `start()` is alone with its project through all its awaits up to
  the registration, though it holds nothing but its entry in `_starting`;
- `OneTaskPerProject` itself;
- the invariant of FifoGateProofs, instantiated for the manager's gate: a slot that is
  returned goes to the head of the deque, which must be a task still waiting;
- `Placed`: where a task is in its own code says where it is in the gate, and whether it
  counts as started. `NoSlotLeak` follows from the last three.

The awaits of a task have one shape (`Awaits`), so there is one lemma for what such a
step keeps (`AwaitKeeps`) and a list of the awaits; the steps through the gate, `start()`,
the callers that cancel, deletion, shutdown, crash and startup have theirs.
`ManagerUsesGate` needs `~MayStop`, since the end of a process empties the gate at once.

Two more inductive invariants of the same module rest on `RunInv`. `ExecInv` says that a live task has a row of its
own project and, on its way to END, one whose checkpoint is not terminal, and the same of
a `start()` from the moment it has inspected the checkpoint it will resume. That nobody
finishes the execution between that look and the resume is `NoRival` and
`OneTaskPerProject` again.

The other is about owners. `ActiveRowsOwned` is not inductive: a task, a
canceller or a `start()` call may be there and not write the row any more, because it
already has, or leaves it to somebody else. `OwnInv` says who still will (`Carries`): a
task that runs and has not written its row for the last time; a task that died without a
slot only through a caller that cancelled it and has not yet persisted the interruption -
the two agree through `interruption_persisted` and the lock on the execution. It needs
that only tasks that exist are cancelled and waited for (`Asked`) and that nobody begins
a second wait before the first has ended (`CallersFree`).

**ContractedWorkflowProofs** proves first AgentWorkflow, the graph, for all caps, from
`WorkflowAssumption` (what the fields of AgentState demand, `agents/agent_graph.py:75-105`).
`WorkflowInv` adds five parts to `TypeOK`:

- `Caps`: while the run has not failed no phase has used up its attempts, and what the
  counters must be for the flags to be what they are;
- `Routing`: a phase is entered, or retried, only for work that is owed (`Ready`), and
  finalize only with nothing owed or after a terminal failure. Without it a failed
  retry could overwrite a saved draft that peer review is about to read;
- `Judged`, `Stored`, `Closed`: what the flags say of the score, the tables and the end;
- `Metered`: `steps <= 2 * Spent` and a little more away from the supervisor. `Spent`
  counts the visits of phases by what the state remembers of them - failed attempts,
  two per round, two per draft - less one for each analysis or review still owed.
  Every phase spends at least one and the supervisor gives none back, so the bounds
  of the counters bound the steps. That `Spent` never loses what was counted is what makes the
  argument work over retries, revisions and extra rounds.

There is one lemma for each node, `Stop` and `Resume`, and `PhaseFailureKeepsInv` for
the failure that four of them share. The defaults (2, 2, 2) give 37 super-steps, the
limit is 60; caps of (5, 3, 3) do not satisfy the inequality and meet it (section 6).

Then it proves the contracted graph. Every contracted step is a step of
AgentWorkflow by its first conjunct, so `WorkflowInv` may be used of it. What it says of
routing carries the rest:

- `UpdatesAccepted` is a lemma per branch (`SuccessAccepted`, `FailureAccepted`,
  `SupervisorAccepted`): the fields and nulls that a branch sets, under the status it
  sets, are what exactly one variant of its contract takes. That the supervisor never
  reports a status its contract does not list comes from `WorkflowInv`, and so does
  that its `revision_exhausted` variant never occurs while the caps stay what they are
  (`SuperviseOutcome`). The contracts themselves enter through the ASSUME `ContractsDeclared`.
- `Ordered` (there is no draft, and writing is not entered, while analysis is owed) and
  `OnePiece` (fields that one node makes have one origin; those of the analysis are
  made of the papers in the state while no analysis is owed; the numbering is that of
  the papers as soon as there is a draft; report and score are the draft's while no
  review is owed) are inductive together and imply `DataIsOfOnePiece`. A supplement,
  which changes the papers and keeps coverage and cards, is what would break it if it
  could come after a draft.
- `Settled`: from a declared outcome the state leads to the end with that status; a
  resume does not lose it.

**ProviderRegistryProofs** needs of the constants only `RegistryAssumption`. The
inductive invariant is `RegistryInv`: types; `Newest` - unless some reload has still to
read the rows, the newest reading is what the rows say, and it is in the pool or in the
hands of the reload that will set it, so that two reloads may finish in either order;
`Routed` - what a call's pool held when it was begun is what it may reach. `RegistryRules`
is `TypeOK`, `SettledPoolIsRegistry` and `RoutedCallsRegistered`: the second follows at
rest, where no reload is left, so that the newest reading is in the pool.

**ServerProofs** has two components of the process that share no state, so the names of
RuntimeLock's specification begin with `Lock`. It proves the lock for any sets of processes and executions, from
`LockAssumption`: executions are numbered in the order of their rows and `None` is
neither a process nor an execution. None of the
three properties is inductive. `LockInv` adds to `TypeOK` that the server's holder is the
process with the open session (`HolderIsOpen`), that a process has a session exactly
from acquisition to release (`PhaseHasSession`), that it accepts work only while
serving and not fenced (`AcceptingIsSound`), and, which is why the look at `_accepting`
in the step of registration is enough, that a task nobody has cancelled belongs to a
manager that accepts work, and an unfinished one to a process that has not
released the lock (`TasksAreOwned`). There is one lemma for each action.

Of SseStream it needs only `SseAssumption`. `OneLiveStream` says that two sides agree -
the page's effect and the manager's place for it - across a wire on which either may break
first, and is not inductive. `StreamInv` adds to `TypeOK` that a free place is empty
and that a place that is still read belongs to a page whose stream is open (`PlaceInv`),
and that such a page has a place, no second one, and shows a run (`LinkInv`). The
action property `TerminalSurvives` is proved with it, step by step, from lemmas about the
queue: what taking its head, appending and the drop policy of `send_event` do to a
terminal event in it.

**ProviderCallsProofs** needs only `CallsAssumption` and uses the gate's theorems once more,
with the callers and those of other projects as tasks. `CallInv` joins `GateInv` with:

- `Fits`: for each place in a call's code, where the call stands in the gate and whether
  its request is open. That a call with an open request holds a slot bounds the requests
  by the holders, and those by the capacity (`OpenWithinCapacity`); a request that is
  drained keeps its slot, and is drained only by the LLM client;
- `RowOK`: which calls have nothing more to write to their audit row, so that it must not
  say `running`, unless it is one of the named exceptions; without it `EndedIsClosed` is lost over the awaits of the clean-up;
- `BatchInv`: in a task group that nobody aborted no paper was cancelled, each result has the
  group's dimension, and the group ends only with every call. `VectorsFit` is about the
  end of the batch; that cancelled and failed papers reach it only through
  `aborting` is what makes it inductive.

**ReviewWritingProofs** needs `PlanAssumption` and `WritingAssumption`. `ReviewInv` joins:

- `DraftOK`, of the review in the state and of the draft in hand: the list has no number
  twice, title, abstract and sections use only its numbers, for the first time in order,
  each number of a section leads to what was meant, which is evidence that the section was
  offered. `CitationsAreTrue` alone is not inductive, since a revision restores
  the sections from the list, and a draft becomes the review only after it is stored;
- `WorkOK`: how far the draft has been stored, and that this is in the tables (`Holds`)
  beside no section that the draft does not have; and that the plans of an outline in hand
  are those of the clusters it named (`OutlineOK`);
- `StoredOK`: outside the writing phase the tables hold the whole review, unless the
  phase used up its attempts; nothing is published before the end.

The central lemma is `NumberedIsSound`: whatever is accepted becomes, by numbering, a
review with all of `DraftOK`. It rests on what the two folds in it compute. `Distinct` and
`FlattenSeq` are recursive functions of the library, and the induction theorems, which
take an operator, cannot be instantiated by the provers. So each recursion is unfolded once
into the sequence of its intermediate results, whose existence and
properties are shown by a least counterexample (`LeastNat`, `UpTo`: a set of numbers that
has 0 and, with each number below n, the next, has all up to n). From that follow
`DistinctPrefixes` (every element of a text is in its list, once), `FirstUseCounts` (a text
numbered by its list of first uses uses 1, 2, ... for the first time one after the
other) and `FlattenHas` and `NumbersFlatten` for the sections joined to one text.

`PlansServeSections` rests on two lemmas about the planner, whatever it is given.
`PlanIsBestFirst` gives each paper the rank of its best tier: `ByRank` says that a
sequence holds exactly the papers below a rank, ordered by first places, and
`NextTwoRanks` that appending the core and then the other papers of the next tier takes it
two ranks further, whichever papers come again. `DistinctKeepsOrder` then makes the plan's
order that of the ranks. `WindowsCover` is integer arithmetic: a section's
window reaches at least from its even share of the cluster list to the next section's
(`SharesCover`), and with more sections than clusters the starts alone meet every cluster.

**PaperAnalysisProofs** proves ResearchAgent and PaperAnalysis together, from
`ResearchAssumption`, `AnalysisAssumption` and `SourcesAssumption`. The last says of the
outside world that Crossref lists a work under its DOI: the
code gives a Crossref record without one the id `crossref:` (`tools/academic_search.py`),
so that two such works would share a row and `FoundIsLinked` would fail.
`ResearchAssumption` has any step limit and any budget, in any relation to each other.
`AnalysisInv` joins:

- `LinksOK`, `CallsOK` and `CountOK`: what a search that has answered has linked or is about
  to link has a paper of every title that arrived. The new rows of an open transaction are
  not linked yet, and those of two are disjoint (`Rivals`), since a transaction waits for a
  row that its rival inserted: so each commit adds to the links exactly as many as it
  reports, in whatever order they come. `SearchFinds` shows the
  first of whatever the five sources answer, from `AnswerNamesPapers`: an id tells the title;
- `Apart`: the agent runs only in the research phase and the locals of the analysis are in
  use only in the analysis phase, so neither writes under the other;
- `ClustersOK`: which of the clusters found the tables hold at each step, as long as no
  save failed: none, those saved, those and the one whose papers are not assigned yet, all.
  `ClustersMatch` is about the end, and an analysis that reads too few papers skips the
  clustering and also the deletion of old clusters. That it leaves no stale ones is
  `Clusterable`: there are clusters only if enough papers were linked, links only grow, and
  every analysis reads with the same limit - so one after them never skips the clustering.
  While no more papers are linked than that limit, a clustering reads them all, and the
  papers of the state are among them;
- `GraphOK`: the names to which relations are bound were read back and are still there. It
  makes `RelationsHaveEnds` inductive, whichever of the two transactions is lost;
- `EvidenceOK`: from the reload to the end of the node the evidence is what the table holds.

`WorkGoesOn`, `WorkStops` and `TablesStay` say once what a step within the analysis, its
failure or interruption, and a step without a write leave alone; then there is one lemma
for each action, or for those of one shape. An interruption is `WorkStops` at any step of it.

Checked by TLC only: the liveness properties (`WaiterServed`, `RowsSettle`, `LossDrains`,
`EveryRunEnds`, `PhasesEnd`, `EveryCallEnds`, `PlacesReturn`, `ViewSettles`), since liveness
under fairness is out of TLAPS's reach. Every other property of a passing run is a theorem.
No RECURSIVE operator occurs in the project.

## 6. Where the code and its words differ

With a run:

- `admission_drains`, `AdmissionDrains`: `_run` unregisters its task before
  `_run_scheduled` looks for it, so the admission record of a run that started is never
  dropped. "retry after active work completes" does not help a user whose projects have
  all completed.
- `no_task_after_deletion`, `NoTaskAfterDeletion`: a start between admission and
  registration survives a complete deletion.

The following are stated in the modules and fail; each is seen by adding it to the
configuration named:

- `StartsCounted` (INVARIANT, `MCAdmissionDrains.cfg`). `_admission_is_full` counts
  "starts in progress so concurrent HTTP requests cannot over-admit"
  (`services/agent_runtime.py:261`). A task cancelled before its first step is done but
  still registered; a new `start()` of the project is admitted and awaits the database;
  the canceller's cleanup finds the old task in `_tasks` and pops `_project_owners[project]`,
  which is now the record of the start in progress (835-840).
- `PauseSettles` (PROPERTY, `MCAdmissionDrains.cfg`). The endpoint waits for the
  persisted interrupted state (`api/agent_routes.py:280`). A cancellation that lands in
  a clean-up handler of `_run` (751-763) ends it there, `started` is set so that nobody
  else persists, and pause returns success while the row is running.
- `NoDuplicateExecution` (INVARIANT, `MCRuntimeLock.cfg`). The partial unique index,
  called the last line of defence against duplicate execution
  (`docs/architecture.md:228`), is lifted by the startup cleanup of a process that took
  over a dropped lock: it closes the row that the old process is still working on, and
  a resume claims it. The overlap lasts until the old process has pinged and drained
  (`LossDrains`), and one of the two has a dropped session all along (`LockCoversRuns`).
- `CallsRegistered` (INVARIANT, `MCProviderRegistry.cfg`). The registry is "the runtime
  source of truth, including the case where every provider is disabled"
  (`services/provider_pool.py:293-294`). When the last usable row is disabled the reload
  leaves no pool; `ainvoke_with_callbacks` then falls back on the client made before
  (`services/llm_client.py:671-687`, meant for tests without a pool) and calls the
  disabled provider.
- `CancellationPropagates` (INVARIANT, `MCProviderCalls.cfg`). Every node's error
  policy says `cancellation: propagate` (`docs/node-contracts.md:207`). A request that
  passes its deadline is cancelled and awaited in `_cancel_and_wait`
  (`services/llm_client.py:74-82`), which suppresses CancelledError: also that of the
  caller, if it arrives during this wait. The call then retries or fails as a time-out,
  and the pause or deletion that cancelled the Agent at that moment is lost.
- `CancelledIsClosed` (INVARIANT, `MCProviderCalls.cfg`). The handlers of CancelledError
  close the audit row of a cancelled call, "LLM call cancelled" and "Embedding call
  cancelled". A cancellation that arrives in `get_provider_pricing`, awaited after a good
  answer (`services/llm_client.py:770-784`, `services/embedding_service.py:324-333`), is
  outside them and leaves the row `running`.
- `TitlesKeepMeaning` (INVARIANT, `MCReviewWriting.cfg`). Before a revision the original
  numbers are restored so that a number never points at different papers in different
  rounds (`docs/architecture.md:209`, `docs/node-contracts.md:326`). `_revise_sections`
  restores the bodies and the instructions; citations in the title and the section
  titles, numbered by first use in the round before, are taken for reference numbers
  and renumbered once more (`agents/agent_graph.py:835-866`, `1051-1071`).

Seen while modelling, without a property:

- The recursion limit of 60 is fixed while the caps are configurable up to five each
  (`config/pipeline_defaults.toml:149-176`). A phase costs two super-steps, and a run
  visits at most `4 * attempts + 2 * rounds + 2 * (revisions + 1)` phases before it
  finalizes. With caps (5, 3, 3) TLC finds a run that meets the limit; with (3, 3, 3)
  and the defaults it cannot.
- The step limit of the research agent is 18 (`agents/research_team.py:156`) while
  `research.max_search_calls` may be set to 12 (`config/pipeline_defaults.toml:138-146`).
  A model that searches once per message needs two steps for each search, two to finalize
  and one to end: from a budget of 8 on it may meet the limit first, and the phase fails.
- `get_project_papers` orders by `citation_count` (`services/database.py:357-361`), which
  `save_paper` of any project may raise (205-208). With more than 500 linked papers the
  clustering may read others than the research node did, and a paper of the state is then
  in no cluster (`ClustersMatch` excepts this).
- Of two overlapping reloads of the provider pool the older reading may be applied last,
  and a reload that fails is only logged (`api/admin/providers.py:53-60`): the pool stays
  behind the registry until the next reload.
- A cancelled LLM call gives its slot back before its request has been drained, so that
  the provider may for a while see one request more than the capacity.
- A contract's criterion is that every field of AgentState that the node reads is in its
  input; `_writing_node` reads `minimum_body_ratio` and `minimum_body_tolerance`
  (`agents/agent_graph.py:1000-1001`), which no contract can name.
- `docs/node-contracts.md:259` says that a KG extraction error adds a warning; papers
  that fail inside an extraction that succeeds are only logged.
- A revised section is stored with the quality score of the draft before
  (`agents/agent_graph.py:930`).

## 7. Not modelled

- **Sessions and tokens, rate limiter**: each request is one or two short transactions or
  one atomic script, independent of the Agents; row locks and unique keys carry the argument.
- **Administration and console API, usage reports, configuration, encryption, URL checks**:
  single transactions and sequential validation. The caps and policies that come from
  there are constants of the models; of the configuration only the change of the embedding
  dimension under a running batch is modelled (`ChangeTarget`).
- **Prompts, the parsing of answers, scores**: choices of outcome.
- `agents/writing.py`, `section_evaluator.py`, `section_outline.py`, `query_planning.py`
  and `graphs/nodes/` are imported by no entry point of the service.
- The rest of `services/database.py` is CRUD without a protocol: what the models need
  of it is in their actions.

Assumptions: LangGraph's own off-by-one at the recursion limit is not modelled: a step
is allowed while fewer than the limit were made. RuntimeLock supposes that the server
ends the session of a dead process at once and that a ping over a dropped session fails;
a half-open connection, on which the ping hangs without a time-out of its own, only
delays both. A release that raises in `close_checkpointer` is left out: the pool is
closed right after it, which ends the session as well. LiteLLM's own retries, cooldowns
and weights inside a pool, the sources' rate limits and key pool, the KNN query and the
tracing of calls are external or without a protocol.

What could still be added: the refinement of AgentRuntime's graph by AgentWorkflow, which
would have to carry a run's whole state through its rows.
