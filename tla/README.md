# Yuxi (rxyy-know): verification project

TLA+ models, TLC runs and TLAPS proofs kept beside the backend of Yuxi, a knowledge-base and
agent platform: a FastAPI process, an ARQ worker, PostgreSQL, Redis, MinIO, Milvus, Neo4j and a
sandbox provisioner. The models are written from the code under `src/backend` and
`src/docker`; paths below are relative to `src/backend/package/yuxi` unless they start with `src/`.

| module | kind | about |
|---|---|---|
| `AgentRun` | component | one agent run: row, job, worker coroutine, cancel key, event stream, SSE clients |
| `RunLifecycle` | abstract specification | what a run promises to whoever watches it: the contract of `AgentRun` and `RunCreation` |
| `AgentRunInv` | invariant | the inductive invariant of `AgentRun`, in named parts |
| `AgentRunProofs` | proofs | type correctness, five safety properties and the refinement |
| `MCAgentRun` | model checking | `AgentRun` and what the documentation says of it |
| `RunCreation` | component | concurrent calls that create, retry, resume and cancel runs of threads |
| `ThreadRuns` | abstract specification | what creating runs promises to its callers: each call happens at one moment |
| `RunCreationProofs` | proofs | types, its six invariants, the lifecycle of each run, and the refinement of `ThreadRuns` |
| `MCRunCreation` | model checking | `RunCreation` and what a user of a busy thread is told |
| `Tasker` | component | the background task service: memory, table, queue, worker loops, lock |
| `TaskRecords` | abstract specification | what the task service promises of its table |
| `TaskerProofs` | proofs | types, its five safety properties, and the refinement of `TaskRecords` |
| `MCTasker` | model checking | `Tasker`, its symmetry and what shutdown claims |
| `KnowledgeFiles` | component | one file: row, chunks in two stores, calls that parse, index, move and delete it |
| `FileClaims` | abstract specification | the status of a file as a lock |
| `KnowledgeFilesProofs` | proofs | types, its four invariants, and the refinement of `FileClaims` |
| `FolderTree` | component | the files and folders of a knowledge base as a tree: moves, creations, recursive deletions |
| `FolderTreeProofs` | proofs | types, the tree, and that a folder is deleted as a whole |
| `TaggingTasks` | component | one tagging task: record, jobs, people, the column of its file |
| `TaggingProofs` | proofs | types and its four safety properties |
| `GraphBuild` | component | the graph of a knowledge base in four stores: build, deletion of files, reset |
| `GraphBuildProofs` | proofs | types and its three safety properties |
| `MCKnowledge` | model checking | the four knowledge components, a scene for each |
| `SandboxPool` | component | one sandbox: container, provisioner, idle reaper, connections, commands |
| `SandboxPoolProofs` | proofs | types and its two safety properties |
| `MCSandboxPool` | model checking | `SandboxPool` with an API of two threads and a worker |

## 1. Inventory

### 1.1 Agent run creation: `services/agent_run_service.py`, `repositories/agent_run_repository.py`
*State.* The rows of `agent_runs` (status, request id, thread, the run that is resumed), the input
`Message` of each run, and the ARQ queue. *Operations.* `create_agent_run_view` for chats and
resumes, `prepare_agent_run_creation_scope`, `persist_agent_run_record`, `enqueue_agent_run`.
*Interactions.* It hands runs to the worker through ARQ, and competes for the rows with cancelling
calls and with itself (double clicks, client retries, several API processes).
*Hard.* The checks and the insert are in one READ COMMITTED transaction but nothing locks between
them; two unique indexes decide; a crash between the commit and the enqueue. *Correct when* a
request creates one run and one message, a thread has one active run, and what is created is executed.

### 1.2 Agent run execution: `services/run_worker.py`, `services/run_queue_service.py`, `services/chat_service.py`
*State.* The row's status, the ARQ job and its try counter, the coroutine with its buffered event
writer and its cancel watcher, the cancel key (Redis, TTL) and the run's event stream (Redis).
*Operations.* `process_agent_run` with all its ways out, `mark_run_running`, `mark_run_terminal`,
`append_run_event`, the watcher, `request_cancel_agent_run`. *Interactions.* The agent's chunk stream
feeds it, ARQ starts, cancels and repeats it, cancelling calls write the same row and the
key, readers poll the row and the stream. *Hard.* Crashes and failing calls between any two awaits, ARQ
cancelling the coroutine, retries that meet a cancel, several end events. *Correct when* the run is
settled once, an end event means a settled row, and the verdicts agree.

### 1.3 Agent run clients: `stream_agent_run_events`, `await_agent_run_result` in `services/agent_run_service.py`
*State.* The client's cursor in the stream and what it was told. *Operations.* Poll the row, fetch a
batch, make up an end event, reconnect. *Hard.* Row and stream are read at different times;
a dead worker leaves no end event. *Correct when* a client told the end has all the text, and every client
of a settled run is told.

### 1.4 Background tasks: `services/task_service.py`, `repositories/task_repository.py`
*State.* The tasks in memory, their rows, an `asyncio.Queue`, worker loops, one `asyncio.Lock` that
is held across writes of rows. *Operations.* start, shutdown, enqueue, unique enqueue, cancel, delete,
progress, settle, prune. *Interactions.* Knowledge, graph, tagging and evaluation routes enqueue
coroutines; the task centre lists, cancels and deletes. *Hard.* API calls between any two awaits of a loop,
failing writes, restart with an empty queue, shutdown under the lock. *Correct when* memory and table
agree, one coroutine per payload runs, no task is forgotten, and settled tasks stay so.

### 1.5 Knowledge files and folders: `knowledge/base.py`, `knowledge/implementations/milvus.py`, `repositories/knowledge_file_repository.py`, `repositories/knowledge_chunk_repository.py`
*State.* The file's row (status, parsed text, chunk count, parent), its chunks in PostgreSQL and Milvus.
*Operations.* `parse_file`, `index_file`, `delete_file`, `delete_folder`, `move_file`, `create_folder`,
`add_file_record`, the reset of interrupted statuses at startup. *Interactions.* Tasks of Tasker parse and index,
requests move and delete at the same time, the graph and tagging hang on the same file. *Hard.* Parsing and indexing
claim a file conditionally but write their result unconditionally; two stores are changed in steps that fail one by
one; a move writes a whole row back and looks for a cycle in separate reads. *Correct when* an indexed file has
exactly its chunks in both stores, a deleted one has none, no file is stuck, and the folders form a tree.

### 1.6 Tagging: `services/tagging/task_manager.py`, `src/backend/server/routers/tagging_router.py`
*State.* The task's record in a JSON file; the file's column `processing_params`, which holds tags, cached text and
parameters together. *Operations.* `run_task`, `upload_and_tag`, approve, reject, retry, delete, the automatic tagging of a file.
*Interactions.* Its jobs run in Tasker; it writes the column that parsing, indexing and people write.
*Hard.* A verdict is given whatever a job is doing; everybody reads and replaces the whole column. *Correct
when* one job runs a task, a person's verdict stands, approved tags are those of the file, and no task is stuck.

### 1.7 Graph building: `knowledge/graphs/milvus_graph_service.py`, `knowledge/graphs/milvus_graph_vector_store.py`, `repositories/knowledge_graph_repository.py`
*State.* A flag on each chunk; entities and mentions in PostgreSQL, nodes in Neo4j, vectors in Milvus; the job's
page, buffer, known vectors and failed chunks. *Operations.* `build_pending_chunks`, `delete_file_graph`,
`reset`. *Interactions.* The job runs in Tasker; deleting or indexing a file deletes its graph first. *Hard.* Four
stores without a transaction; a cache of known vectors; deletions in the middle of a build; workers that outlive a cancelled
job, and a second job beside the first whose task was deleted. *Correct when* a flagged
chunk is found by graph retrieval, nothing is left of what is gone, and a build ends.

### 1.8 Sandboxes: `src/docker/sandbox_provisioner/app.py`, `agents/backends/sandbox/provider.py`, `backend.py`
*State.* The container, the reaper's table of activity, the cached connections of API and worker. *Operations.*
acquire, get, keepalive, create, execute, shutdown; the reaper thread. *Hard.* The reaper looks, deletes and forgets in
separate steps while requests touch; a touch may itself delete a container with stale mounts; requests go on whose client has
given up; connections are used for as long as the keepalive interval without asking.
*Correct when* a sandbox in use is not reaped, an idle one is, and the reaper knows all that run.

### 1.9 Further components
* Subagent runs (`services/subagent_run_service.py`, `agents/middlewares/subagent_task.py`): child threads
  and their runs, cascade of a cancel. Uses 1.1 and 1.2 unchanged.
* Agent invocation, evaluation: thin compositions of 1.1-1.4.
* Chat service and agents: what a language model answers is data; only the protocol of its
  chunks matters, and it is `AgentRun`'s environment.
* Runtime configuration sync, CLI login sessions, CLI upload, frontend run stream: small protocols,
  candidates for modules of their own.
* Authentication, MCP, skills, providers, parsers, chunking, retrieval, the Vue interface, dashboards and
  deployment: request-local checks, configuration records, text processing or presentation; not modelled.

`PROJECT.json` lists the same components with their status, and under "hazards" what is
hard to test in them, each at its line.

## 2. Plan

Done: agent runs with their abstract specification and refinement; creation of runs; Tasker; knowledge files, the tree of
folders, tagging, the graph; sandboxes; proofs of each of them; abstract specifications of runs, of their creation, of
the table of tasks and of the claims on a file, each proved to be implemented. Left, in this order:

1. Subagent runs in `RunCreation`: a child is created by a running parent, and a cascading cancel lists the children
   once. The code promises nothing of a child created later, so a property has first to be agreed on.
2. Abstract specifications of a tagging task (a verdict as one step) and of a sandbox (a connection as a lease).
3. A composition of `KnowledgeFiles` and `GraphBuild`: a deletion is one action sequence in each now.
4. Small modules: configuration sync, CLI login sessions, CLI upload.

The modules are written to be proved about: constants with a named, weak assumption, one
action per operation, invariants as named conjuncts, no RECURSIVE operator. What a component really does
against its own promise is recorded in a history variable under a name (`overrun`, `mishaps`, `flaws`, `harms`, `slips`,
`crossed`): a property then says "unless one of these named things happened", which is what the code guarantees, and the
mutants of PROJECT.json show that each property still fails when the code is changed.

## 3. Agent runs: `AgentRun`

**State.** `row` is `agent_runs.status`; `job`, `tries` the ARQ job `run:<id>` (`lost` when the creating call
died before enqueueing); `key` the cancel key; `cancelPc` a cancelling call; `w` the coroutine with
its place, `RunContext.cancel_event` (`seen`), the threads with buffered chunks, how far the agent's stream is,
the chunk being handled and the verdict to write; `output` the stored messages; `log` the
Redis stream; `reader` each connection's cursor, the row as this poll read it, and what its client was
told. A step ends where the coroutine awaits a call on shared state, so that another actor, a crash, a
failing call or ARQ's cancellation fits between any two steps. `"main"` is the run's thread, `"sub"`
a subagent's inside it, whose text is buffered separately.

**Actions.** `Enqueue`, `Dequeue`, `GiveUp`, `Leave` are ARQ and the creating call. `Load`, `Validate`, `Reject`,
`Begin`, `Announce` are `process_agent_run` before its try block; `Loading`, `ReceiveCustom`, `SaveOutput`,
`ReceiveLast`, `Observe`, `StreamEnd` what it takes from the agent or notices while it waits;
`Flush`, `PublishCustom`, `PublishLast`, `Decide`, `Mark`, `End`, `Check`, `Finish` what it does with a chunk;
`HandleCancel`, `HandleError`, `Clear` its handlers and its finally part. `Crash`, `FailInside`, `FailBefore`, `FailHandler` are the
troubles. `LoadForCancel`, `RequestCancel`, `PublishCancel`, `KeyExpire` are the cancelling call, `ReadRow`, `FetchEnd`,
`MakeUpEnd`, `FetchMore`, `Drop` the SSE loop and its client.

**What ARQ repeats.** ARQ runs a job again whose coroutine was cancelled (shutdown) or whose worker died, and not one that ended with
any other exception; its own time limit ends the job too. So `RetryableRunError`, which `run_worker.py:45` says should trigger a retry, ends
the job on its first try and leaves the row `running` (finding `agentrun_retry`). `Leaving` tells the ways through the finally part apart: a return
(`clear`), the `RetryableRunError` of a handler (`retry`), another exception out of a handler (`raise`), a `CancelledError` out of one (`again`);
only the last puts the job back. `escaped` records that an exception has left the coroutine.

**overrun, struck, escaped.** Three things really happen in this code and are excused by name where a property would
otherwise fail: an exception that leaves the coroutine (`escaped`, finding `agentrun_retry`), a cancelling call that loaded the row before it was settled writes over it (`overrun`, finding
`agentrun_settled`), and a trouble between settling the row and announcing the end (`struck`), after which a retry or
handler may announce another verdict.

**Properties.** `EndBacked`: an end event means a settled row, since `await_agent_run_result` loads the row after the
stream ended. `DoneSettled`: unless an exception left the coroutine, ARQ leaves a run unsettled only after as many troubles as tries: a crash or a
cancellation by ARQ never loses a run that has tries left. `ContentComplete`: a client
told the end has all the text of the run's thread, also when the end was made up from the row.
`VerdictAgrees`: a client is told what the row keeps. `CompletedHasOutput`: "completed" is said after the output
was stored. `ImplementsLifecycle`: the run refines `RunLifecycle`. The mapping: its status is `row`; its job is what the queue has still to do
with the run (`JobLeft`: "queued" from the enqueueing until ARQ is done with it, whether or not a worker has it); a watcher's answer is what its
client was told. So a run is started and settled only while its job is queued, and only `Overrun` leaves a terminal status. Liveness: `Settles`, `ReadersAnswered`, `CancelStopsWorker`.

**Fairness.** ARQ, the event loop, the watcher and polling readers go on (weak fairness: each is a loop that nothing in the code
stops); a fetch is strongly fair, because a connection may break any number of times but not each
time before the batch was sent. The agent (a model call), users, failures and the creating call owe nothing; `Settles` assumes the agent's
stream goes on and no exception leaves the coroutine, `CancelStopsWorker` assumes neither.

| run | constants | distinct states | shows |
|---|---|---|---|
| `agentrun_safety` | 1 reader, 1 chunk, 2 troubles, 2 tries, no cancel | 1.26 million | `DoneSettled`, `ContentComplete`, `CompletedHasOutput` |
| `agentrun_live` | 1 reader, 1 cancel, 1 trouble, no text | 206 000 | `EndBacked`, `VerdictAgrees`, `ImplementsLifecycle`, `ReadersAnswered`, `Settles`, `CancelStopsWorker` |
| `agentrun_retry` | 1 trouble | violation | a retryable failure is not tried again |
| `agentrun_settled` | 1 cancel | violation | a cancel overwrites a settled row |
| `agentrun_result` | nothing goes wrong | violation | a run that asks the user is settled before its output is stored |

*Bounds.* Two tries are the smallest number with a retry and a last try; two troubles strike both. A cancel acts once, so a
second one repeats it. One chunk per thread is enough to be buffered, flushed or left behind. Readers only read: several
can do no more than one. `BatchSize` 2 splits the stream into several batches. Text and cancels are in different
runs; the proofs cover their combination.

**Proofs.** `AgentRunProofs` proves, from `ConstantAssumption` alone and so for every set of readers, number of tries, batch size and
bound: `TypeCorrect`, `EndIsBacked`, `DoneIsSettled`, `ContentIsComplete`, `VerdictsAgree`, `CompletedIsStored` and
`RunImplementsLifecycle` (initial state, and every step a step of `RunLifecycle` or a stutter), all from `Invariance`.

None of the properties is inductive. `IndInv` adds why they hold: `LocalInv` ties the coroutine's local state to its place;
`OutputInv` and `ClientInv` say that "completed" appears nowhere before the output was dealt with and that a client's
state makes sense; and, unless the row was overrun, `RowInv`: `QuietInv` (from the moment a verdict is
owed the agent is quiet and nothing of the run's thread is buffered), `ProgressInv` (where the row is known to be settled or
not), `TriesInv` (as long as no exception escaped, each try but the current one cost a trouble), `StreamInv` (the first end event agrees with the row
and no text follows an end), `AnnounceInv` (who still owes the end event of a settled row) and `ReaderInv` (what a reader knows is true).
The proof has one lemma per part, with a step for each action that can disturb it, and frame lemmas for those that
cannot; `OverrunStays` joins the two worlds. The liveness properties are only model-checked.

## 4. Creating runs: `RunCreation`

**State.** `call` holds each creating call's place and inputs; a run has the name of its call. `status` are the committed
rows, `message` the input messages, `order` the order of `created_at`, `jobs` the queue, `cancels` runs that a
cancelling call has loaded. A thread stands for user, agent and conversation. A row that is inserted and not
committed (`commit`) is seen by the indexes only: a clashing insert waits for it.

**Actions.** `Begin`, `Find`, `CheckParent`, `CheckActive` (the checks of `prepare_agent_run_creation_scope`, one SELECT each), `Insert` (message, then
the row in a savepoint), `Rematch` (`except IntegrityError`), `Commit`, `Enqueue`, `Fail` (exception or death: rollback). Workers are
`Start`, `Settle` (of a run that is not valid also before it is started), `JobEnds` (some time after the row is settled) and `GiveUp` (all tries
used up); cancelling calls `LoadForCancel` and `RequestCancel`, which may reopen a settled row unless the partial index
refuses. A refused caller's message (404, 409, 422) is not distinguished.

**Properties.** `OneActive`, `RequestOnce` (a request creates one run, and an answer names the run of that request, thread
and parent), `MessagesOwned` (one stored input message for each run and none else), `ResumesInterrupted` (a run that was resumed
stays interrupted, although it was checked before the insert and a late cancel may write it), `LatestSpeaks`
(`get_active_run_by_thread` may judge a thread by its latest run), `ActiveServed` (a run that occupies its thread is in the queue or about to
be), `RunsSettle` (liveness; `ActiveServed` is its safety core). The excuses are named: `lost` (the call died before it enqueued, or all tries were used
up) and `overrun` (a late cancel reopened the run: its job may still be queued and execute it again, so an interrupted parent need not
stay interrupted then).

**Two contracts.** `ImplementsThreadRuns`: the model implements `ThreadRuns`, in which a call is carried out in one step, with the mapping that
a call asks while its request is known (`AskOf`) and a run appears at its commit. Whatever other calls do between the
checks, the insert and the commit, there is a moment at which request, thread and parent were all as checked, and it is the commit.
`RunsKeepLifecycle`: every run, seen alone, takes steps of the same `RunLifecycle` that `AgentRun` implements, with `JobLeft(r)`
as its job. So `RunCreation` assumes nothing of the safety of a worker that `AgentRun` is not proved to keep to (both are theorems),
and its fairness of workers is what the runs of `AgentRun` show as `Settles`.

**Fairness.** Calls that have begun go on, and queued runs are started and settled: the latter is what `AgentRun!Settles` shows.

*Runs.* `creation` (3 calls, 2 requests, 2 threads, 1 cancel, 1 failure; 219 000 states): three calls are a run, its retry and its rival,
or an interrupted run, its resume and a second resume; the second thread lets a request id be used in another scope. Requests and threads are only
compared, so the run leaves out what differs in their names alone: the first call asks for one fixed request in one fixed thread (`FirstNext`), which, other than TLC's symmetry,
keeps liveness meaningful. `OneActive`, `RequestOnce` and `ResumesInterrupted` are not checked by name: `ThreadRuns` implies them, and each is a theorem of its own.
`creation_cancel` is a violation: see findings.

**Proofs.** `RunCreationProofs` proves the types, the six invariants, `RunsKeepLifecycle` and `ImplementsThreadRuns`, for any number of calls, requests, threads, failures
and cancels. `StateInv` says what a call at each place has seen and written, and that its uncommitted row is not in
the table; `UniqueInv` that committed and uncommitted rows together satisfy both unique indexes, which is what makes the
race of two checks harmless; `AnswerInv` that an answer names a run of the same request, thread and parent;
`ParentInv` that a resumed run is interrupted from the insert on, until a late cancel reopens it. The refinement needs
little more: `AskedInv` says what a call's request and answer are at each place, `UniqueInv` and `ParentInv` give `ThreadRuns`' guard at
the commit. `RunsSettle` is only model-checked.

## 5. Background tasks: `Tasker`

**State.** `status`, `asked` are the tasks in memory, `row` the table, `queue`, `lock` (its holder keeps it across the write of a
row; `target` is the task a call writes), `pc`, `cur` the loops, `erase`, `deleting` rows still to be deleted after the
lock was released, `phase` the process. `unsaved` and `late` record failing writes and cancels that came after the check of
`cancel_requested`. Tasks are numbered in the order of their creation.

**Actions.** `Boot`, `CloseInterrupted`, `Started` are `start` and `_load_state`; `Shutdown`, `ShutdownDone` and `Kill`; `Enqueue`/`Enqueued`/`EnqueueFails`,
`CancelTask`/`CancelSaved`/`CancelFails`, `DeleteTask`/`DeleteRow` the calls before and after their await; `Get`, `Look`, `Update`, `Progress`, `Written`, `WriteFails`,
`Returns`, `Raises`, `Prune`, `EraseRow`, `Erased` a worker loop. Every update waits for the lock in a step of its own, which is what happens
when the lock is contended.

**Properties.** `RowAgrees`: memory and table agree when nobody is inside the lock, and no late write brings a deleted row back.
`UniqueExecution`: two coroutines of one payload run together only if the first one's task was deleted under it. `NoneForgotten`: an
unfinished task is in the queue or in a loop's hands, also after a restart. `CancelObeyed`: a task cancelled before its coroutine
returned does not succeed. `SettledOnce`. `TasksEnd` (liveness). `ImplementsTaskRecords`: the service implements `TaskRecords`, which knows nothing of
queue, lock and loops: its `record` is the row (before the first write "new", after the last one "gone", `RecordOf`), `known` the tasks in memory, `doing` the tasks
whose coroutine runs. It promises that work begins when the record says running, that nothing is recorded as settled while it is worked
on, and that a service that starts again closes what was left before it knows any task. Two steps of `TaskRecords` are there because the code takes them:
`BeginRemoved` (a task deleted while its loop waits for the lock begins all the same) and `Mark` (the write of "running" fails after memory
said so, and a later write of the task records it although nothing runs).

**Fairness.** The process is restarted (`restart: unless-stopped` in `src/docker-compose.yml`), `asyncio.Lock` and `asyncio.Queue` serve those who
wait in turn, which is strong fairness of each loop; coroutines of tasks are fair only as an assumption of `TasksEnd`.

*Runs.* `tasker_service` (2 loops, 2 tasks, 1 payload, 1 failing write, 1 crash or shutdown, `MAX_TERMINAL_TASKS` 1, loops symmetric; 610 000 states):
two tasks on two loops are what running twice, pruning and deleting beside an execution need. `tasker_live` (the same without
failing writes; 236 000 states). `tasker_shutdown` is a violation. Deadlock is not checked in any run: with all calls used up
a system at rest is in order.

**Proofs.** `TaskerProofs` proves the types and the five safety properties for any number of loops, tasks, keys, failing writes and
stops. The invariant is layered: `PointInv` (what a loop holds at each place), `PlaceInv` (a task is in the queue once or in one loop's
hands, never both), `PhaseInv` (what starting and stopping leave), `StatusInv` (the status a loop or call relies on while it
holds or waits for the lock), `KeyInv` (two tasks of one payload are not both alive), `SuccessInv` and `EraseInv` (what a
cancelled or deleted task can still become); `RowAgrees` is an invariant of its own on top of them. `RowAgrees` has excuses, and the refinement must hold
without any: `RecordInv` says what a row can be even when writes of it have failed (it never runs ahead of the memory, and is never settled
another way), and `RecordsStep` maps each action to its step of `TaskRecords`. `TasksEnd` is only model-checked.

## 6. Files and folders: `KnowledgeFiles`, `FolderTree`

**KnowledgeFiles: state.** `row` is a file's record, `pg` and `milvus` its chunks as pairs of a batch and the call that stored it, so that
a chunk left over by an earlier indexing is told from a new one. Each of the `Calls` parses, indexes, moves or deletes
(`op`), is at a step (`at`) and holds what it loaded (`copy`). A step is one await of the code: one transaction in PostgreSQL
or one request to Milvus. `faults` bounds failing operations, `restarts` deaths of the process.

**Actions.** `ParseClaim` and `IndexClaim` are the conditional updates; `ParseWrite`, `IndexWrite` the unconditional results; `ClearPg`,
`ClearMilvus`, `Uncount` are `delete_file_chunks_only`, which indexing and deletion share; `StoreFirst`, `StoreSecond` the two inserts that
`asyncio.gather` runs in either order; `RollPg`, `RollMilvus` the rollback; `Refresh`, `LateFail` what follows the result inside
the same try; `MoveLoad`, `MoveWrite` a move; `FilesRestart` the startup with `reset_interrupted_states`.

**Properties.** `OneClaimant` (claims exclude each other; a theorem, which the run checks as part of `FileClaims`), `ClaimHeld` (a row that says parsing or indexing has a call at work that will write
its result: the safety core of `ClaimsEnd`), `IndexedSearchable` (an indexed file at rest has all chunks of one
indexing call in both stores and no others), `DeletedUnfindable` (a deleted one has none in Milvus), `ClaimsEnd`
(no row stays parsing or indexing). `ImplementsFileClaims`: the status column, with each call's claim (`ClaimOf`), implements the lock `FileClaims`: a claim is taken
when nobody holds one, the status stays as claimed until its holder writes a result of its own kind, and only a restart or a deletion
intervenes, until one of the two writes that do not ask (a stale move, a late failure) has spoiled it. The mishaps they excuse are things the code does: a move writes a stale row back, an
exception behind the result resets a row that somebody else may have claimed, a deletion breaks off, Milvus' refusal is logged
and the call goes on, indexing overlaps a deletion, a result cannot be written, the reset fails.

**FolderTree: state.** `place` is the parent of each node; a call is at a step (`act`) with the node and parent it was given and the node
its walk has reached (`current`); a deletion has a `stack` of folders, each with the children it listed and has still to delete.
`doomed` is what was below the deleted node when its deletion began and has neither been deleted nor moved away nor cut off since;
`stale` marks a move during which another folder was moved, `crossed` that such a move was written.

**Actions.** `MoveBegins`, `Walks` (one read of the loop), `MoveWrites` are `move_file`; `CreateBegins`, `Checks`, `Inserts` are
`create_folder` and, without the check, `add_file_record`; `DeletionBegins`, `Descends`, `DeletesFile`, `DeletesFolder`, `DeletionEnds` are
`delete_folder`. `Breaks` is an exception or the death of the process at any step. PostgreSQL's foreign key refuses a parent
that is gone and puts the children of a deleted row under the root (ON DELETE SET NULL).

**Properties.** `TreeSound`: parents exist, those of folders are folders, and there is no cycle, whatever happens between the
reads of a walk and its write, unless two moves of folders overlap. They do close a cycle then: a into b and b into a, each walk before
the other's write. A later walk that meets the cycle never ends (each round is a request to the database in the event loop), and
`delete_folder` recurses to Python's limit. `FolderGoesWhole`: a deletion that ends well has deleted all that
was below the folder, although each list of children is read long before it is used.

**Proofs.** `KnowledgeFilesProofs`: `PlaceInv` and `ClaimInv` tie a call's place to the row's status, which gives `OneClaimant` and the refinement of `FileClaims`; `ClaimHeld` is inductive with
them; `FreshInv` says
what the stores hold at each step of an indexing call, `IndexInv` and `DeleteInv` what they hold after it. All hold for any number of calls,
batches, faults and restarts. `FolderTreeProofs`, for any nodes, initial tree and number of calls: a walk stays inside every set of folders
that holds the moved folder and the new parent and has no way up but through the moved folder (`WalkOK`), so reaching the root shows
that the write closes no cycle; any set of nodes with all its parents inside would be such a set. For deletions (`WholeOK`) what is doomed lies
in every set that holds what is left on the stack and is closed downwards; a step changes the set by the node it handles, and
when the stack is empty the empty set will do. Neither needs transitive closure or induction.

## 7. Tagging: `TaggingTasks`

**State.** `status`, `tags` are the task's record, `file` the column (tags, and whether the text is cached), `does`, `params`, `keep` where each job
and person is, what it read of the column and what it copies; `rewrite`, `held` a call that parses, indexes or changes parameters.
**Actions.** `BatchTag` creates and enqueues; `JobBegins` to `JobStores` are `run_task`, `JobFails` and `JobCancelled` its ends; `UploadAndTag` creates
the task of an upload that is in no knowledge base, `UploadBegins`, `UploadTagged`, `UploadFails` are its job, which catches nothing; `Approve`, `Reject`,
`Retry`, `Delete` the endpoints; `SyncReads`, `SyncWrites` the copy to the file; `AutoTag`, `AutoTagged` tagging without a task; `RewriteReads`,
`RewriteWrites`, `FileDeleted` the other writers of the row; `ProcessRestarts` the lost jobs.

**Properties.** `OneRun`, `TaskServed` (a task that waits or runs has a job at it; so that no task is stuck in a status that admits no retry), `LastWord`, `TagsReachFile`.
The flaws they excuse are things the code does, and the properties do not speak of them: retry looks at the status and not at the job (`rerun`); a
job that is at the task writes its result over a verdict (`overrun`), although the comment at `services/tagging/task_manager.py:37` calls the
statuses of a verdict final; a lost job (`dropped`), and the job of an upload that fails (`abandoned`), leave a status that no endpoint may retry, although the
state machine at `services/tagging/task_manager.py:5` has a way from each of these statuses to an error; the column is replaced by an older
copy (`stale`). **Proofs.** `TaskServed` is inductive with the types; `OneRunInv` (a status that admits a retry means no job is at the task), `LastWordInv`, `TagsInv` (who may still
change tags or column, and what it has read), for any number of jobs, people and troubles.

## 8. The graph: `GraphBuild`

**State.** `chunk` the flag of each chunk, `mentions`, `rows`, `neo`, `vectors` the four stores, `crew` each job with its workers: its place, what the
Tasker knows of its `task`, the `page` of its round and the `todo` of it, `failed`, `known`, `buffer` and the flush under way; `call` the deletion of
each file, `resetting` a reset. **Actions.** `Build`, `Round`,
`WriteNeo`, `Upsert`, `RoundEnds`, `FlushLooks`, `FlushInserts`, `Flag`, `ChunkFails`, `UpsertFails`, `FlushFails` are `build_pending_chunks`; `Delete...`
and `IndexedAgain` a file that is deleted or indexed again; `Reset...` the reset; `GraphRestart` the death of the process. Which of the parallel workers
takes which chunk is a choice; their writes are serialised by the job's lock as in the code.

*Cancelled and deleted jobs.* `raise_if_cancelled` raises `asyncio.CancelledError` in one worker. `gather` passes it on, `except Exception` does not take it, and the
job ends while the other workers go on with the chunks they hold. `Cancel` leaves such a crew: `task` is "cancelled", `todo` what its workers hold, `queue` what none
of them takes any more. They write, flush and flag as before; what is left in their buffer is flushed by nobody (`RoundEnds`). `TaskDeleted` is the deletion of the job's
task in the task centre: the job goes on, nobody can cancel it, and `raise_if_cancelled` no longer finds a cancel, so that outliving workers take what is left in the queue.
In both cases `_has_running_graph_build_task` sees nothing (`NoneRunning`), and another build or a reset may begin beside them.

**Properties.** `FlaggedFindable`, `NothingLeft`, `RoundsShrink`, `BuildEnds`. `RoundsShrink` is the variant of a job's loop: a round that ends leaves
strictly fewer chunks undone (pending and not failed) than it began with, although a flush that fails leaves all but one of its chunks
pending, to be taken again. Two history variables state it: `outset` is what was undone when the round began, `refilled` that a chunk came back since (a
file indexed again, a reset of the flags). The harms they excuse are things the code does: a deletion takes a vector that a job's cache counts on (`cached`) or
whose entity was mentioned again meanwhile (`revived`); a deletion or reset breaks off (`broken`); a file goes without a flagged chunk, so that its graph is not
looked for (`unflagged`: `src/docs/develop-guides/changelog.md:115` says that references and orphans are cleaned up when a file is deleted, and the code does not do
it here); a job or an outliving worker writes for a chunk that is being deleted or gone (`ghost`); a file comes back while a job
holds its old chunks (`reborn`); a reset runs beside a job (`crossed`). Two jobs at once need no excuse of their own: what one flags it has inserted or knows, and what it
takes from the other is there. One consequence is no property: a page of failed chunks ends the job though other chunks are pending.

**Proofs.** For any chunks, files, entities, `FlushAt`, number of jobs and outliving workers. `StateInv` says what each job holds at each place; `FoundInv` that
a job knows only vectors that are there, and that what it has upserted, or flagged, is mentioned and in Neo4j unless it is being deleted, which is what makes two jobs
harmless to each other; `LeftInv` that Neo4j and the rows are of existing chunks and that a vector is of a mentioned entity, of a file that came back, or of one its deletion is about
to remove, whichever job or outliving worker is about to write. `RoundInv` says where the job keeps the chunks of its
round, and that as long as everything undone at the outset still is, the job has some of it in hand: it cannot let go of the last chunk
without having flagged or failed one or found it gone. Each round being finite, the finite set of chunks then bounds the rounds; this last step of the termination
argument, and `BuildEnds`, are not proved but model-checked.

*Run of sections 6-8.* `knowledge` (464 000 states): one behaviour is a scene of one component, the graph having three: deletions of files and a reset beside one
job after another, with the workers that outlive a cancelled one, and two jobs at once beside the deletion of a file. The components share no state that their properties
are about, so that the run covers the sum of their states. Files: 3 calls, 1 fault, 1 restart, one
batch; the third call is what a stale row or an overlapping deletion needs. Tagging: 2 jobs, 2 people, 1 trouble; the second person or a call that rewrites the
column, not both (`FewWriters`). Graph: 2 chunks of 2 files that share an
entity, 2 builds, 1 break (which is the deleted task when two jobs are at once), flush at 2. The two files are alike: f1 is deleted first, and f2 after or beside it (`DeletesInOrder`);
with two jobs at once one of them is deleted (`DeletesOnce`), and no chunk fails but those that are gone (`OnlyGoneFail`). A second job beside the outliving workers of a
cancelled one, two breaks and longer sequences are covered by the proofs only. Tree: 3 calls on folders a/b, a folder to come and a file, recursion to 4; two moves and a deletion are the
smallest case in which a cycle and a walk interact. Several batches, several chunks of a file, and deletion and reset together are covered by the
proofs only. `MoveWrite`'s re-insertion of a deleted row is in the two modules of section 6 and not in `TaggingTasks`. *Fairness:* calls, jobs and workers that have
begun go on (each is a coroutine in a running event loop); people, arrivals, failures and restarts owe nothing. Tagging and the tree have
safety properties only.

## 9. Sandboxes: `SandboxPool`

**State.** `box` the container that runs, `age` and `reaper` the idle reaper, `conn`, `since`, `closing` each process' connection, `step`, `url`, `left`,
`lag` each thread's request or command, `stray` a request whose client has given up; time passes in `Tick`. **Actions.** `Get`, `TouchFinds`, `TouchFails`, `Noted`, `TouchAnswered`, `Create`, `CreateFails`,
`CreateAnswered`, `CommandEnds` are a caller's way through provider and provisioner, `StrayGoesOn` the provisioner's way through what was given up; `Finds` and
`Misses` are `discover`, which deletes a container with stale mounts, `Makes` and `Refuses` are `create`, which replaces one; `Collect`, `Reap`, `ReaperForgets` the reaper; `Close...` a
shutdown, whose failing deletion is only logged; `ProvisionerRestarts`.

**Properties.** `CommandsKept` (a command keeps its container for at least `SureFor`, the idle timeout without keepalive and latency), `Tracked` (the reaper knows what
runs), `IdleReaped`. The slips they excuse are things the code does: the reaper deletes on an old look (`raced`), a shutdown
of one process deletes another's container (`closed`), a failed touch is ignored (`unsure`), a touch deletes a container with stale mounts in which others run commands
(`stale`), an unhealthy container or one with stale mounts is replaced under its users (`replaced`) and a cached address outlives it (`moved`), a creation
that fails after `docker run` is never noted (`leaked`), a restarted provisioner cannot list (`unseeded`), a deletion forgets the activity of what was started
meanwhile (`forgot`).

*What a command can count on.* `Idle` is at least command time plus 30 seconds. When the last touch was noted a keepalive interval and an answer's latency ago, a command
that begins then is sure of its container for `SureFor`. With the defaults of `src/docker-compose.yml` (command 180, configured 120) and a keepalive of 30 that is 210 - 30 less the latency: less than the
180 seconds a command may take, although `src/docs/agents/sandbox-architecture.md:59` gives the raise as what keeps a running command from being
reaped. The property therefore speaks of any timeouts and says how long, and covers the whole command where configured values leave room for both.

*Run:* `sandbox` (2 threads of the API, 1 of the worker, 3 containers, 3 uses, 1 failure;
1 073 000 states); times are scaled to 2, 1, 2 and 1, so that commands, keepalives and the reaper fall due in every order, `SureFor` being the whole of a command. One failure is
also one container with stale mounts, or one request given up; a thread has one stray request at a time. *Fairness:* requests that have begun are answered or go on, the reaper thread
and time go on. **Proofs.** `Tracked` is inductive with the types; `KeptInv` bounds the age of a container by what a caller has
left and the connection's age, for any processes, threads and times. Only the Docker backend is modelled; a keepalive interval of 0 is not.

## 10. What is proved, and what is not

Eight modules hold proofs. Every invariant, every action property and every refinement of the passing runs is a theorem for all values of the constants, from the
named assumption of its module alone. So are the type invariants, and `OneClaimant`, `OneActive`, `RequestOnce` and `ResumesInterrupted`, which the
runs check only as parts of the specifications that imply them. No module declares a RECURSIVE operator.

| abstract specification | implemented by | theorem | what it rests on |
|---|---|---|---|
| `RunLifecycle` | `AgentRun` | `RunImplementsLifecycle` | `IndInv` |
| `RunLifecycle`, one for each run | `RunCreation` | `RunsKeepTheLifecycle` | `StateInv` |
| `ThreadRuns` | `RunCreation` | `CreationIsAtomic` | `UniqueInv`, `AnswerInv`, `ParentInv`, `AskedInv` |
| `TaskRecords` | `Tasker` | `RecordsKeepTheirPromise` | `StatusInv`, `EraseInv`, `RecordInv` |
| `FileClaims` | `KnowledgeFiles` | `StatusIsALock` | `PlaceInv`, `ClaimInv` |

Only model-checked are the liveness properties, because liveness under fairness and ENABLED are out of the prover's reach: `Settles`, `ReadersAnswered`, `CancelStopsWorker`,
`RunsSettle`, `TasksEnd`, `ClaimsEnd`, `BuildEnds`, `IdleReaped`. For most of them a theorem says what they stand on, namely that nothing that has still to
happen is left without somebody who will do it: `DoneIsSettled` for `Settles`, `ActiveRunsAreServed` for `RunsSettle`, `NothingForgotten` for
`TasksEnd`, `ClaimsAreHeld` for `ClaimsEnd`, `EveryRoundShrinks` for `BuildEnds`, `ReaperKnows` for `IdleReaped`. That each of
those somebodies takes its next step is the fairness.

## 11. Findings

* `agentrun_retry`: a retryable failure is raised as `RetryableRunError` for ARQ to try again, but ARQ repeats a job only after a cancellation
  or a lost worker: the job is done, the row stays `running` and its thread busy.
* `agentrun_settled`: `request_cancel` goes by the status its session loaded before the lock, because the locked SELECT does not refresh a
  loaded object; a run settled in between becomes `cancel_requested` and its thread stays busy.
* `agentrun_result`: a run that asks the user is settled before its messages are stored, so a result fetched at once lacks them.
* `creation_cancel`: a run whose creating call dies between commit and enqueue is never executed; a retry does not enqueue it
  and a cancel does not free its thread.
* `tasker_shutdown`: `Tasker.shutdown` waits for its cancelled loops while it holds the lock they need to end.

## 12. Not modelled

Within the modelled parts: trimming and expiry of the event stream (`RUN_EVENTS_STREAM_MAXLEN` is 0 by default, the TTL is two hours);
payloads, texts and progress values; text of a subagent's thread that is flushed after the end event
(`run_worker.py:470`), which concerns no text of the run's own thread; the throttling of progress writes
(a write that is skipped is a step that does not happen); listing and reading calls that change nothing; sessions of
different users, which a thread stands for. In the knowledge components: `update_content`, which no router calls; objects in MinIO and the
manager's registry; a file without chunks and the old status "failed"; the read and the write inside one `update_fields` or `upsert`
are one step. In the sandbox: the memory and Kubernetes backends. Subagent runs: that the creating run is
still active is not checked when a child is created, a cascading cancel lists the children once, and the `task` tool occupies a worker while it waits
for its child; no document says what should hold. Whole components: section 1.9.
