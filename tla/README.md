# Specifications of LinX

LinX is a platform on which people and AI agents carry out projects together: a
FastAPI back end (`src/backend`), a React front end, PostgreSQL for all durable
state, and programs on other machines ("external hosts") that poll the back end
for work.  This directory holds TLA+ models of the parts of the back end that
are state machines rather than records or language-model calls, the TLC
configurations that check them, and TLAPS proofs of the invariants that matter
most.

| Module | What it is |
|---|---|
| `RunExecution.tla` | one run of a project task: scheduler, executors, external hosts, user endpoints |
| `AgentSchedules.tla` | one-time and recurring schedules: planner, executors, user operations |
| `MemoryIndexing.tla` | rows of user memory, the queue of embedding jobs, workers, vectors, reconcile |
| `ConversationRuntimes.tla` | the runtime of a persistent conversation: directory, sandbox, snapshots, turns, releases |
| `MemoryPromise.tla` | abstract: what the extraction of memory promises a conversation |
| `ConversationMemory.tla` | claims, leases, scan, forced flushes and compaction; implements `MemoryPromise` |
| `KnowledgePipeline.tla` | one knowledge document: endpoints, Redis queue, worker, index, cleanup |
| `AgentSessions.tla` | the sessions in which a user tries out agents: buffers of turns, ledger, resources |

Of each module `M` but the abstract one there are `MCM.tla`, which names the
instances for TLC, the `.cfg` files of its runs, and `MProofs.tla` with its
invariant, lemmas and theorems; the proofs of `RunExecution` go on in
`RunExecutionEndProofs.tla`.

## Inventory

Paths are below `src/backend`.

| Component | State | Operations | Interacts with | Hard about it |
|---|---|---|---|---|
| Run execution (`project_execution/scheduler.py`, `service.py`, `execution_nodes.py`) | rows of run, task, steps; executor coroutines; ephemeral agents | schedule ready steps, execute a step, reconcile statuses, close a run, retire agents | router endpoints, external dispatches, agent framework (the turn) | parallel steps; statuses written by several handlers and derived by another; restarts; executors that outlive the run |
| External dispatches (`project_execution/external_runtime_service.py`, `runtime_assets/linx_external_runtime.py`) | dispatch rows, binding rows, the host's loop | create, poll, ack, progress, complete, fail; token, bootstrap, heartbeat, revoke | run execution | polling without a claim, hosts that die or lose requests, late reports |
| Task dependencies (`project_execution/task_dependencies.py`) | edges between tasks | replace the edges of a task, readiness | launch of a run | cycle check against concurrent changes |
| Agent schedules (`agent_scheduling/`) | schedule rows, run rows, claimed batches | plan, clean up, claim, execute; create, update, pause, resume, run now, delete | persistent conversations (the turn), notifications | several processes, turns that last while users change the row, stops in mid-batch, one-time against recurring |
| User-memory indexing (`user_memory/indexing_jobs.py`, `indexing_worker.py`, `vector_index.py`, `storage_cleanup.py`) | job rows, sync state of entries and views, vectors in Milvus | enqueue, claim, process, retry, requeue stale jobs; reconcile rows with vectors; delete an account | memory rows written by the API | a worker thread beside the API, jobs refreshed while processed, stale locks |
| Persistent conversations (`agent_framework/persistent_conversations.py`, `api_gateway/routers/agent_conversations.py`) | the registered runtime, its directory and container, snapshots by generation | run a turn, snapshot, restore, release, expire, archive, delete, sweep sandboxes | chat endpoints, schedules, conversation memory | awaits between check and use; savers that race; generation numbers |
| Conversation memory (`user_memory/conversation_memory_*.py`, `agent_framework/conversation_history_compaction.py`) | a cursor, lease and token per conversation; the ledger | claim a batch of turns, extract, record, complete or fail; scan, forced flush, compact | messages of the conversation, releases of its runtime | leases that lapse under a working holder, two transactions, deletion of old messages |
| Agent sessions (`agent_framework/session_manager.py`, `api_gateway/routers/agents.py`) | sessions with directory, container and buffer of turns | get or create, append a turn, end, sweep | the agent framework, the session ledger, Docker | five ways to end a session, each of which awaits the model |
| Sandbox pool (`virtualization/sandbox_pool.py`) | idle and used containers | acquire, release, refill, clean up | nothing: only its own tests use it | limit and refill under concurrency |
| Production guards (`production/`) | circuit breaker, limiter, request cache, drain state | call, allow, remember, stop | nothing: no other module imports it | results that arrive in a later state of the breaker |
| Knowledge base (`knowledge_base/`, `api_gateway/routers/knowledge.py`) | document rows, job records and queue in Redis, cancellation markers, vectors, objects | upload, cancel, reprocess, delete; dequeue, parse, index; clean up orphans | Milvus, MinIO, Redis | stores without common transactions, rows written back from old copies, jobs that outlive their row |
| Task manager (`task_manager/`) | tasks and queue of the older mission engine | decompose, queue, execute, recover | agents, message bus | recovery and reassignment |
| Everything else (LLM providers, skills, access control, analytics, object storage, message bus, front end) | rows, caches | CRUD, I/O | | I/O, formulas, user interface; listed as `not_modelled` in `PROJECT.json` with the reason |

What makes each component correct:

* Run execution: a step starts only after its dependencies ended and at most
  once; the status of task and run is what the steps say; the run ends, and as
  completed only if its steps completed; a working agent is not retired.
* External dispatches: a dispatch is executed at most once; a late report does
  not corrupt the run; a dispatch ends or is given up.
* Task dependencies: the graph stays acyclic; a task is launched only when ready.
* Agent schedules: every slot is accounted for, no run is executed twice, every
  queued run ends, a one-time schedule triggers once, a pause is a pause.
* User-memory indexing: after the queue drains, vectors agree with rows; no job
  is lost; a failing job is given up after the configured attempts.
* Persistent conversations: the registered runtime is intact; one snapshot is
  ready, restorable and never older than the one before; a turn keeps its
  directory; what a turn wrote is not lost.
* Conversation memory: the cursor passes no question that the ledger lacks; a
  turn is counted once; every turn is told in the end.
* Knowledge base: an acknowledged cancellation holds; a queued job ends; nothing
  of a deleted document stays; a live document keeps its object.
* Agent sessions: resources follow their session, however many end it at once;
  a turn that was buffered reaches the ledger.
* Sandbox pool: never more containers than the limit, none handed out twice.
* Circuit breaker: it opens after the threshold and one probe decides on closing.

The hazards, each at its line, are the `hazards` list of `PROJECT.json`, with
the properties that would catch them.

## Plan

The order of the modules is the order in which the program depends on them: the
run engine, the schedules, the index that both feed, then conversations with
their memory, documents and sessions.  All of these are done, every safety
property that a passing run checks has a theorem, and so has the safety half of
most liveness properties.  Open, in the order of their
worth:

1. `HostBinding`: install codes, bootstrap, heartbeats and revocation; composed
   with the dispatch part of `RunExecution` for hosts that re-bootstrap.
2. A short specification of what a run promises its user, implemented by
   `RunExecution`; likewise for `MemoryIndexing` with one worker.
3. `TaskDependencies`: replacement of edges against the cycle check.  It is last
   because with one gateway process, as deployed, replacements do not overlap.

## RunExecution

A run executes the steps ("execution nodes") that the planner made of a task.
The record `db` holds the committed rows: `node` (status of each step), `task`,
`run`, `completedAt` (whether `run.completed_at` is set), `disp` and `batch`
(dispatches, the batch number standing for `created_at`), `assignee` (the agent
in `task.assignee_agent_id` and the run's context) and `retired`.  The other
variables are what lives in memory: `exec` and `worker` for the asyncio tasks
of `execute_assigned_node`, `host` for the loop of
`linx_external_runtime.py`; and history (`ended`, `turns`, `tries`) that only
properties read.

| Action | Code |
|---|---|
| `ScheduleAfterLaunch`, `UserSchedule` | `schedule_run_after_launch` → `_schedule_next_pending_step` → `_schedule_ready_node`, `_queue_external_agent_dispatch`, `_block_pending_node` |
| `ExecStart`, `ExecSucceed`, `ExecFail` | `execute_assigned_node` before the turn, after a good turn (with the scheduling that follows), and its `except` branch |
| `HostPoll` … `HostReport`, `HostError` | the host's loop with `get_next_dispatch`, `ack_dispatch`, `progress_dispatch`, `complete_dispatch`, `fail_dispatch` |
| `UserStart`, `UserComplete`, `UserCancel`, `UserRefresh` | the run endpoints; the reads reconcile |
| `Crash` | the gateway restarts; its coroutines are gone |

Every handler is one transaction of a synchronous session inside an event loop
with one process (`infrastructure/docker/Dockerfile.api-gateway` starts one
uvicorn), so a transaction is one action; the interleavings are those of the
sequences of transactions.  Scheduling is a function from rows to the set of
outcomes (`ScheduleOutcomes`), because each host may or may not be available at
that moment; the steps are taken in sequence order and each overwrites what the
one before wrote, so the last ready step decides what task and run say.  `Reconcile` is `reconcile_run_state` with the retirement it ends in.

Abstractions.  Internal steps get an ephemeral agent of their own; agents of
the user's that are chosen for internal steps are never retired, so they show
nothing more.  `Stray` stands for agents provisioned for host steps that no
host serves.  `HostOf` fixes the host of a step for the run.  The project row,
agent statuses in the registry, messages and audit events are left out: no
handler of the run reads them.  The readiness of the task among other tasks,
which `/schedule` and `/start` ask first, is assumed.  The final status that a
caller of `/complete` names is restricted to completed and failed.  A host's
lost response is its request followed by `HostError`.  Not modelled: operator
overrides of rows (`PATCH`/`DELETE`), and a second run of the same task.

## AgentSchedules

`sched[s]` is the row of a schedule (kind, status, next, last run, updated),
`runs[s][t]` the status of its run row with `scheduled_for = t`: a unique index
makes the pair the key.  `batch[p]` are the runs process `p` has claimed and
not finished, `turn[p]` the one whose turn it awaits.  `begun`, `fired` and `first`
are history; `first[s]` is the next time that was last given to `s` by its user.

| Action | Code |
|---|---|
| `PlannerCycle` | `_run_planner_once`: `plan_due_schedule_runs` and, when its timer is up, `cleanup_terminal_one_time_schedules` |
| `Claim` | `claim_queued_schedule_run_ids` |
| `BeginRun`, `RefuseRun`, `LoseRun` | `execute_schedule_run` up to the turn: begun, refused for a missing binding, or the row is gone and the batch is abandoned, with the runs of other schedules in it |
| `EndRun` | the three endings of `execute_schedule_run` |
| `Crash` | a process stops, or its executor task is cancelled |
| `UpdateSchedule`, `PauseSchedule`, `ResumeSchedule`, `RunNow`, `DeleteSchedule` | the functions of the same names |

Routers call the synchronous service from `async def` handlers, the planner
holds an advisory lock and claims skip locked rows, so each of these is one
step, also with several processes; transactions of two processes that overlap
on one row are taken one after the other.  A cron expression is its period:
`NextSlot` gives the first slot after a time, which is all the code asks of
croniter.  `run_at` is not kept apart from `next`, see `ResumeSchedule`.
Deleting a row deletes its run rows (the relationship's cascade).  The turn
itself is another component's: it succeeds, raises, or finds its binding gone.
Errors, notifications and the deduplication of schedules that agents create are
left out; creation is the initial state.

## MemoryIndexing

A row of user memory (an entry or a view) and its embedding job are written in
one transaction; workers claim jobs and write vectors into Milvus; a reconcile
cycle compares rows and vectors.  `row[e]` says whether the row exists, which
version of the text it holds and its `vector_sync_state`; `job[j]` is the row of
`user_memory_embedding_jobs`, one per entry or view (the unique `job_key`) and
`Wipe` for the job that deletes an account's vectors; `vec[e]` are the vectors
of `e` in the collection, by version and the worker that wrote them.
`claim[w]` is the batch that worker `w` has claimed and not finished, with the
attempt each job was claimed as, `at[w]` the job in hand and the step it is at,
`rec` the reconcile cycle.  `shown` is history.

| Action | Code |
|---|---|
| `CreateRow` | `_upsert_entry_row`, `_upsert_user_view_row` for a row no key matched |
| `BeginWrite`, `CommitWrite`, `RollbackWrite` | `update_entry`, `update_projection`, the upserts of an existing row: up to reading its job, and the end of the transaction |
| `DeleteUser` | `prepare_user_memory_rows_for_user_deletion` |
| `Claim`, `Requeue` | `claim_user_memory_jobs`, `requeue_stale_user_memory_jobs` |
| `TakeUp`, `DeleteOld`, `Insert`, `MarkSynced`, `FinishJob` | one upsert: `_process_job` with `_load_source_row`, the two calls of `upsert_user_memory_vectors`, `_mark_row_synced`, `mark_user_memory_job_done` |
| `DropVector`, `WipeVectors` | `_process_job` for a row that is gone and for `delete_user` |
| `FailJob`, `MarkFailed`, `Reschedule` | the `except` branch of `run_user_memory_indexing_once` |
| `Crash` | the process stops, or the `except` branch itself raises and the batch is left |
| `ReadRows`, `ReadVectors`, `Repair`, `AbortCycle` | `reconcile_user_memory_vectors` |

A worker runs in a thread of its own and the gateway may run in several
processes (`backend/Dockerfile.optimized` starts four), besides the backfill
script, so each transaction and each call of Milvus is a step.  The user's
write is two: it reads the job's status without locking the row, and SQLAlchemy
writes only columns whose value changed, so that a status read as "pending" is
not written again, whatever a worker made of it in between.  The row itself is
locked from its flush to the commit, and other writers of it wait.

Time: any lock may be found expired, as it will be when its holder has gone;
locks of live holders expire at most `MaxOvertakes` times.  A claim takes any
batch of claimable jobs, which leaves open how the others are ordered, backed
off or locked (`SKIP LOCKED`).  `NextAttempt` stops at `MaxAttempts` because
the code only asks whether the count has reached it.  All rows belong to one
user and have a status that reconcile expects ("active" or "superseded", the
only ones that the maintenance of projections writes), and there is one
collection, so that no row is stale.  In `Repair` the deletion of orphans and
the commit of the queued jobs are one step: they touch different rows.
`CreateRow` is possible after `DeleteUser`, because the rows refer to no user.
The job operations "delete" and "reindex" are left out: nothing enqueues them.

## ConversationRuntimes

A runtime is named after the turn that made it.  `reg` is the entry in
`_runtimes`, `workdir` and `sandbox` the runtimes whose directory and container
are there, `files[r]` the turns whose files are in the directory of `r`;
`marked` is `_ACTIVE_CONVERSATION_EXECUTIONS`.  `snap[g]` is the row of
generation `g`, `stored` and `archive` the object store.  `job[a]` are the locals
of the thread in which request `a` saves a snapshot.  `cycle` are the
locals of the archiving cycle.  `racing`, `owed`, `swept`, `archived` and `late`
are history.

| Action | Code |
|---|---|
| `Reuse`, `Create`, `BeginRestore`, `Restored`, `RestoreFails` | `get_or_create_runtime`, with the await of the restore in the middle |
| `RejectTurn`, `Write`, `Reply`, `TurnFails`, `BeginSave` | the turn in `agent_conversations.py`: marked, at work, unmarked, and its snapshot |
| `BuildArchive`, `NumberSnapshot`, `CommitSnapshot`, `FinishSave`, `SaveFails` | `snapshot_runtime` in its thread: archive, number and upload, commit, prune |
| `BeginRelease`, `BeginDelete`, `Flushed`, `NothingToRelease` | `release_runtime` with the checks of its callers |
| `SweepSandbox`, `SweptElsewhere` | `_cleanup_orphaned_sandboxes` of this process, and of one with a registry of its own |
| `ArchiveLooks`, `ArchiveLists`, `ArchiveDrops`, `ArchiveErases` | `_archive_conversation`: the query for the latest ready row, the query for all rows, the commit, the objects |
| `Restart` | a new process |

The requests of a conversation are served by one process, so steps last from one
await to the next, while the thread of a snapshot runs beside the loop and has
steps of its own.  The gateway and every Feishu publication are processes
with a registry each, and the sweep of one removes the containers that another
has registered (`swept`).  The queries of an archiving cycle run at READ
COMMITTED beside the savers, so the second may list a ready row that was committed
after the first had looked: the cycle drops it (`late`).  Content is
a set of turns, since all that is asked is whether a turn's files are there.

## ConversationMemory and MemoryPromise

A message is its position in its conversation.  `cursor`, `count`, `holder`,
`lease`, `target` and `waiting` are the row of `conversation_memory_states`
(`holder` stands for the run token); `pc`, `batch` and `left` are the locals of
a worker, which is the scan (`Scan`, one by an advisory lock) or a forced flush.
`told` and `closed` are history: what the ledger has been told, and the turns
of the batches that moved the cursor.

| Action | Code |
|---|---|
| `StoreMessage`, `GrowIdle` | messages, and time without them |
| `BeginScan`, `ScanNext` | `list_candidate_conversation_ids` and the loop over it |
| `BeginFlush`, `FlushNext` | `flush_conversation_memory_delta` of a release or deletion, up to `max_batches_per_invocation` claims |
| `Claim`, `NoClaim` (operators of the above) | `claim_conversation_delta` |
| `Record`, `Complete`, `ExtractionFails` | the ledger's transaction, `complete_claim`, `fail_claim` |
| `LeaseLapses`, `BackoffEnds`, `Crash` | time, and a worker that stops |
| `BeginCompaction`, `EndCompaction` | `compact_conversation`, whose summary is awaited between reading and deleting |

Questions and answers come in any order, because turns overlap and the input of a
scheduled turn has a role of its own.  What a compaction may delete
(`Compactable`) lies before the last questions of the window and is older than
the minimal age, which may fall between a question and its answer.

`MemoryPromise` knows none of this: messages are said, the ledger is told of
some of them, a mark moves forward over questions that were told, old questions
are forgotten.  The refinement mapping takes the length of the log for `said`,
the user messages still in the table for `asked`, the cursor for `mark`, and
`told` for itself; claims, leases and everything else are stuttering.

## KnowledgePipeline

One document.  `item` is its row, `file` its object in MinIO, `vectors` the jobs
whose chunks are in Milvus, `record[j]` and `queue` what Redis holds, `marker`
the entry in `_cancelled_documents`.  The row and the record are read in one
step and written back, from that copy, in another: `itemCopy` and `recCopy` are
the copies, `mid` the jobs between the two.  `api` is the endpoint at work; the
endpoints never await, so there is one at a time, while threads run between its
calls.  `barred` is history: jobs that were cancelled before their last check.

| Action | Code |
|---|---|
| `StageFile`, `StageFails`, `EnqueueUpload`, `InsertRow`, `RollBack` | `upload_knowledge`: object, queue, commit, failure |
| `Cancel`, `CommitCancel`, `Signal`, `Flag` | `cancel_knowledge_processing` with `request_cancel` |
| `Delete`, `Purge`, `Erase` | `delete_knowledge` with `cleanup_knowledge_item_storage` |
| `Reprocess`, `Reset`, `Reenqueue`, `ReadLink`, `Link` | `reprocess_knowledge` |
| `Pop`, `RecRead`, `RecWrite`, `ItemRead`, `ItemWrite`, `Check`, `ParseFails`, `Insert` | the worker's job, call by call |
| `RecFails`, `ItemFails` | Redis failing in the body of the loop or in a handler, PostgreSQL failing in `_update_knowledge_status` |
| `CleanLoad`, `CleanOrphans` | `run_knowledge_storage_cleanup_once` |
| `ExpireMarker` | the 24 hours of an entry in `_cancelled_documents` are over |
| `Restart` | the process stops: threads and marker are gone, the queue stays |

While Redis is down an upload runs in a thread of its own (`solo`).  A `get` that
fails behind the `brpop` loses the job that was popped; a `get` or `set` that
fails in a handler ends the worker's thread (`dead`), and the queue stands still
until a restart.  An upload that MinIO refuses leaves a row that refers to no
object (`reference`).

## AgentSessions

Sessions of one user, numbered in the order of `_user_sessions`.  `mgr` holds
which are registered and which directories and containers exist, `buf[s]` is
`memory_turns`, `ledger[s]` the turns in the session's ledger row.  `task[t]` is
where a request, a DELETE or the cleanup loop is: new, in a turn, awaiting the
model about the turns it took from a session that it ends, or over; a task that
ends a session in passing knows what it does next (`goal`).  `mgr.fastDirs` and
`mgr.fastBoxes` are the sessions whose directory or container cannot be removed.
`cut`, `lost` and `stray` are history: turns that newer ones drove out of a
buffer, turns in the hands of a request when it was cancelled, and directories
that nothing will remove.

| Action | Code |
|---|---|
| `Resume`, `Renew`, `Open` | `get_or_create_session`: found, found expired, not found; with `_create_session` and its limit (`MakeWithin`, `Make`) |
| `Answer`, `GiveUp` | the end of a tested turn, with and without an answer to buffer |
| `Close`, `EndTest`, `Sweep` | `end_agent_session`, the end of a skill test, `_cleanup_expired_sessions`; each up to the first await (`BeginFlush`) |
| `Finalize` | `_flush_session_memories` after the model, then `_cleanup_session_resources`, `_remove_session` and what the task does next |
| `Disconnect` | the client of a stream leaves while `_flush_session_memories` awaits the model: `CancelledError` passes every handler up to the generator |
| `HoldFast` | what `_cleanup_session_resources` swallows |
| `Expire`, `Restart` | `ttl_minutes` without activity, a new process |

With an empty buffer the callback returns before its first await, so a session
without turns is ended in one step.  A removal that fails is logged and not
retried, so that the directory or the container outlives its session; a thread
of the agent that writes into a removed directory is not modelled.

## What the runs check

| Run | Instance | Question |
|---|---|---|
| `mixed` | 3 steps, one on a host, 2 dispatch batches, 1 restart, all endpoints (50 225 states) | `TypeOK`, `TaskWitness`, `DependenciesFirst`, `AtMostOneTurn`, `AtMostOneTry`, `ClosedRunStamped`, `NoEarlyCompletion` |
| `fork` | 4 internal steps, 3 in parallel, the user only reads (561) | `NoMaskedFailure`, and under fairness `Settles` |
| `schedules` | a recurring schedule under all user operations and a one-time one that may be deleted, 2 processes, batches of 2, 1 stop, 2 instants (127 953) | `TypeOK`, `RunOnce`, `NextTimeKept`, `OnceFiresOnce`, `NoSlotMissed`, and under fairness `QueuedRunsEnd` |
| `memory_worker` | 2 rows of 2 versions, 1 worker, batches of 2, 2 attempts, 2 faults, account deletion (923 572) | `TypeOK`, `OneVector`, `NeverBackwards`, `IndexedOrQueued`, `GivenUpLate` |
| `memory_jobs` | 1 row of 2 versions, 2 workers, batches of 2, account deletion, 1 attempt, 1 fault, 1 lock overtaken (134 484) | `JobsEnd` under fairness: the queue drains |
| `memory_reconcile` | 1 row, 2 workers, reconcile, account deletion, 1 attempt, 1 fault (103 592) | `RowsGetIndexed`, `OrphansGo` under fairness: the index heals |
| `conversation` | 2 turns, 1 release, 3 generations, failing uploads, one archiving cycle, another process's sweep, deletion, restarts (3 059 198, up to symmetry) | `TypeOK`, `OneReadySnapshot`, `ReadyIsRestorable`, `RegisteredRuntimeLives`, `GuardedRelease`, `GenerationsGrow` |
| `conversation_loss` | 2 turns, 2 releases, no failure | violation of `WorkspaceKept` |
| `conversation_memory` | 1 conversation of 4 messages, 1 forced flush, the scan, batches of 1 turn, 2 faults, compaction (139 572) | `TypeOK`, `CountedOnce`, `KeepsPromise` (the refinement), and under fairness `TurnsAreTold` |
| `knowledge` | 1 document, 2 jobs, 1 failing call, reprocessing, restart or expired marker (352 364) | `TypeOK`, `CancelHolds`, and under fairness `JobsEnd`, `OrphansReclaimed` |
| `knowledge_cleanup` | 1 document, 1 job, no fault | violation of `FileKept` |
| `sessions` | 3 requests, one of them a skill test, 1 DELETE, the cleanup loop, 3 sessions with a limit of 2, cancelled streams, 1 session that cannot be removed, 1 fault (636 907) | `TypeOK`, `ResourcesFollow`, and under fairness `TurnsReachLedger` |

The violations are the findings of `PROJECT.json`, each against a text of the
repository.  A release that overlaps the end of a turn makes one of two
snapshots fail; the failed row takes the number that every later snapshot asks
for, and the next release removes a directory that was never saved.  A cleanup
cycle that loaded the ids of all documents takes the object of an upload in
between for an orphan.

**Bounds.** Three steps are the least with two in parallel and a join; the
fourth in `fork` adds a step that becomes ready while siblings still run.  Two
batches let a step be dispatched twice, which is what makes late reports
possible; a third repeats the second.  One restart is enough because restarts
leave no trace but idle executors.  Two processes are the least with
competing claims.  Schedules meet only in batches: with two, the
deletion of one takes a run out of a batch that also holds a run of the other.
The clock runs to 2, and both schedules are due when it starts: a slot missed,
one caught up and one to come.  For the memory
index, two rows are the least with a batch of several jobs, two versions the
least at which an old text can be shown, two attempts the least with a retry
and a last one; the second fault strikes the recovery from the first.
`memory_jobs` and `memory_reconcile` have one row, because only a batch joins
the jobs of two rows: it joins the row's job and `Wipe` there, and two rows in
`memory_worker`.
Of a conversation two turns and a release are the least that can overlap in
threes, and three generations let two savers race behind a ready or a failed row.
One archiving cycle meets every saver at each of its steps.  Four
messages are the least with two turns that overlap or follow one another; one
conversation is enough because conversations meet only in the scan, and with no more of
them than `scan_limit` each is selected.  (With more, the scan selects those
quiet for longest whether or not anything of them is pending, and turns of the
others wait for ever; `TurnsAreTold` is claimed for the former case only.)  Two
jobs are an upload and a reprocessing of it.  Three sessions with a limit of two
let the limit bind, two sessions expire together, and a sweep go on after an
await; one session that cannot be removed stands for any, since none looks at the
others; that a renewal meets the limit once more needs a fourth and is left to
the theorem.
`MaxBatch`, `MaxCrashes`, `MaxTime`, `MaxWrites`, `MaxFaults`, `MaxOvertakes`,
`MaxMsg`, `MaxGen`, `MaxJobs`, `MaxEvents` and `MaxSessions` are guards of the
models, not of the code.

**Deadlock** is checked for `mixed`, where the endpoints stay available, for
`memory_reconcile` and the knowledge runs, where a timer keeps running.  The others
say `CHECK_DEADLOCK FALSE`: a finished run really stops; the clock of the
schedules ends at `MaxTime`; and a drained queue, a conversation whose requests
have ended or whose messages are all told, and a manager without sessions are
the end of a bounded history of requests.

**Fairness.** `RunExecution` assumes that the launch request goes on and that
the event loop runs every coroutine it created, and that a turn ends (with
success or an exception; the agent framework bounds its rounds and time).
Nothing is assumed of hosts, users or restarts.  `AgentSchedules` assumes that
the planner and executor loops, which run on timers, come round, and that a
turn ends.  Nothing is assumed of the clock or of users.
`MemoryIndexing` assumes that a transaction that has begun ends, that a worker
thread in a job goes on (a call returns or raises), that the cleanup manager's
timer comes round, and, strongly, that a job claimable again and again is
claimed: claims take the oldest `available_at` first, and a job that waits
keeps its own.  Faults, writes and expired locks are never forced.
`ConversationMemory` assumes that the scan's timer comes round, that leases and
backoffs run out and that a batch under extraction is recorded sooner or later
(a timeout bounds the model).  `KnowledgePipeline` assumes that endpoints end,
that threads run, that the worker keeps popping and that the cleanup comes
round.  `AgentSessions` assumes that the cleanup loop comes round, that a session
without activity expires and that the model answers or times out.  Nobody has to
send a message or call an endpoint.

## What is proved

The constants are arbitrary apart from the assumption that each module names
(`RunAssumption`, `ScheduleAssumption`, `MemoryAssumption`, …): finite plans
(any number of steps, any dependencies), any hosts, schedules, processes, rows,
workers, turns, releases, conversations, jobs and requests, any bounds.

`RunExecutionProofs`.  `IInv` joins three parts.  The rows are `Sound`: typed,
the task status borne out by a step, a terminal run stamped.  `StepInv`: a step
that has left "pending" has its dependencies in `ended`; a step with a live
executor has left "pending"; an internal step that waits has had no turn, and
one with a spawned executor neither.
It also says that a dispatched step has left "pending".  `HostInv`: a host holds
only dispatches that were made.  The soundness of the
rows is inductive only transaction by transaction (`ReconcileSound`,
`StartSound`, `AckSound`, …), since six handlers write the task without
reconciling it; the lemmas `MoveStep` and `ScheduleStep` then carry `IInv`
across the two shapes of action, those that move one step and those that
schedule.  `AtMostOneTurn` needs the link between the step's status and its
executor: a host's late ack can take a host step back, but never an internal
one, and only pending steps get an executor.

`RunExecutionEndProofs`.  `TryInv` says that dispatches are numbered by the
transaction that made them, so that a scheduling loop makes only new ones; that
a host holds dispatches of its own, each in the status its last request left it
in; and that only a dispatch begun or ended has been tried.  Polling claims
nothing, so `AtMostOneTry` rests on `HostOf`: a step has one host in a run.
`CompletedAtTheEnd` and `FailureNotMasked` share one lemma (`StepWrites`): a
transaction either schedules or leaves rows that call the run completed only
with a reason (`Written`).  The second assumes that users neither schedule nor
complete a run by hand.  It needs both: completing names the status freely, and
when a start has reopened a failed run, scheduling finds no step pending and
closes it as completed.

`RestMeansDone` and `RestIsReported` are what is left of `Settles` without its
fairness, for every plan and not just the one of `fork`: the executors end
(each step has at most one turn), and when none is left nothing is pending, and
the run says so for ever.  `LiveInv` carries it: exactly the steps handed out
have an executor (`Carried`), and unless a step has failed every pending one
waits for another to end (`Drained`), because each ending schedules what it has
made ready.  The hypothesis `InternalPlan`
has no hosts, of which nothing can be promised, no restart, after which nobody
goes on with a run, and acyclic dependencies.  The last is an assumption about
the planner: it drops a step's dependency on itself
(`model_planner.py:333-337`) but no longer cycle, and the steps of one would
wait for each other.

`AgentSchedulesProofs`.  `IInv` joins `Typed`, `RowsSound` and `Owned`.
`RowsSound` says of each schedule that an active one has a next time, a
finished one none, and that a one-time schedule with a next time has not fired
since it was given; it is kept because every ending of a turn writes status and
next time together.  `Owned` says that a run is in at most one batch, that a
run nobody has claimed has had no turn and is in no batch, that the run of a
turn is in its process's batch, and that a deleted schedule has no runs; `RunOnce` follows, because claiming takes queued runs and
nothing ever queues a run row again.  `NoSlotMissed` is inductive with the type
of `first` (`Slots`): the planner leaves one slot behind, the one it makes a row
for, because no slot lies between a slot and the next (`OneSlotOn`, an argument
about remainders), and no operation takes the row of a slot away but those that
give the schedule a new first time.

`NoRevival`, `RunsMoveOn` and `RunningRunsAreHeld` are about every step rather
than every state: each write of a schedule finds it undeleted in the same
transaction; a run row takes its statuses in order; and while no process has
stopped and no schedule was deleted, the running runs are exactly those in the
batches.  Together with `RunOnce` that is `QueuedRunsEnd` up to the fairness of
executors; the two conditions are where a run may stay running for ever.

`MemoryIndexingProofs`.  `IInv` holds of any deployment: the types; `Targets`,
that a worker in a phase about a row has a row's job in hand; `Writing`, that a
row that exists or is being written has been written within the bound; and `Counted`, that no
worker's claim is ahead of the job's attempts.  `GivenUpLate` is
inductive with `Counted`: a worker that gives up judges by its own claim, and
refreshing or requeuing a job keeps its count.

The three theorems about vectors assume one worker, `Worker = {W}`, since two
workers that hold one job may both insert after both deleted.  `Sole(W)` says that
every vector shows the newest version ever embedded and is `W`'s, that no vector is
there between the delete and the insert, and that the version in hand is not
older than what was shown; it is kept because rows only grow (`Growing`) and a
row is loaded after the worker's last insert.  `OneVector` follows, since all
vectors of a row are then the same pair.  `Account(W)` assumes no reconcile cycle
besides; it follows a row without vector to the job in
hand, a job claimed and unfinished, or a job queued, and is what a lost refresh
does not break: the holder of the job has the insert before it.

Two theorems say what is left of this with any number of workers.
`OneVectorPerWorker`: the vectors of a row are of different workers, since a
worker about to insert has none there (`Cleared`); so a row has no more vectors
than there are workers, whatever fails.  `OnlyFaultsForget`: where no call fails
(`MaxFaults = 0`) a row without vector has an open job or a worker about to
insert, although two workers may hold its job and one may end it while the other
has just deleted.  `Steady` is its invariant: who has embedded a row leaves it
with a vector or with somebody at the insert.  One failure is enough to break it,
as TLC shows on two workers: the second has deleted and fails after the first
has ended the job, and unless it also gets to reschedule, or a reconcile cycle
comes, nothing makes the vector again.

`ConversationRuntimesProofs`.  Three invariants stand side by side.  `LivesInv`:
a runtime that is still being restored is in nobody's hands, so nobody removes
its directory before it is registered; `RegisteredRuntimeLives` follows, which
leaves the container, and only that, to the sweeps of other processes.
`GuardInv`: a turn at work is marked, and a turn that found no release under way
finds none until a deletion or the timeout starts one; `GuardedRelease` follows.
`SnapInv`: a number that is being committed is one after its predecessor, what
is superseded is older than the latest ready row, whose archive is stored, and a
saver that prunes prunes nothing newer than it (`Kept`); while no archiving
cycle removes rows, everything before the latest ready row is superseded and nothing after
it ever was ready (`Chain`).  The unique index on the generation is what makes
the race of two savers come out.

`RestoredGenerationsGrow` is about every step: the generation that would be
restored goes back only when the conversation is deleted or an archiving cycle
drops a row that it found ready after it had chosen an older one (`LateDrop`).

`WhatLosesAWorkspace` names the two ways in which a workspace is lost, of which
`conversation_loss` shows the first: `WorkspaceKept` holds in every behaviour in
which no save fails (`SavesSucceed`) and no archiving cycle drops a row committed
after it had looked (`NothingDroppedUnseen`), with any turns, releases, sweeps,
restarts, archiving and deletions.
A number that is taken counts as a failure, as it does in the code.  Its
invariant, `KeepInv`, follows the files of a turn that is owed its workspace:
while the turn is under way it is alone with them in the registered runtime;
afterwards they are in the archive of the latest ready snapshot, in the
registered runtime, in what is being restored, and in everything being saved.

`ConversationMemoryProofs`.  The invariant says of a batch in hand that its
target is on record as long as its token is, that its messages cover every user
message between the cursor it was claimed at and its target, and that a
recorded batch has been told.  A batch whose holder was taken over and whose
token is gone claims nothing, and that is why the cursor may move only when
`Matches`.  `CountedOnce` needs that batches which match start at the count on
record.  The refinement theorem takes each action to a step of `MemoryPromise`:
storing is `Say`, recording `Tell`, a completion that matches `Advance`, the end
of a compaction `Forget`, the rest stutters.

The promise is about questions; two theorems are about turns.  `CursorIsVouched`:
the cursor stands at an answer that was recorded, and so does everything that
the count counts.  `TurnsAreNotForgotten` is the safety half of `TurnsAreTold`:
no step makes a complete new turn other than new, unless the ledger has been
told of it or a compaction has deleted its answer or all its questions
(`CompactedAway`).  It needs that what a compaction is about to delete are the
oldest messages up to one of them (`DoomedOk`), that the messages left are the
latest (`KeptTop`), and that a batch holds every new turn up to its target
(`TurnsCovered`).

`KnowledgePipelineProofs`.  `CancelHolds` is not inductive: nothing in it says
why a barred job will not insert.  `Held` says it: what the endpoints wrote to
the row and to the record may be overwritten from stale copies, but the marker
is there as long as a barred job has a check ahead of it, and behind a failed
check no phase inserts.  When the marker goes before that (with the process, or
after 24 hours), nothing is left that would hold the job back for certain, and
it is barred no longer (`StillBarred`).  Part of the type is that the queue names exactly the
queued jobs, each once.

`EachJobOnce` ranks the phases of a job and shows that every step goes up and
that only the insert adds vectors, so that with a fair worker that lives every
job ends (`JobsEnd`).  `NoResurrection` needs `RowInv`: an endpoint at work on
a document has its row, since no other endpoint runs meanwhile, and a copy that
a job writes back is of a row that was there; the write itself is an update,
which finds nothing once the row is gone.  `OnlyTheseTakeTheObject`
stands beside the finding of `knowledge_cleanup`: `FileKept` holds in every
behaviour without the two steps `StaleCleanup` (the cleanup acts on ids that it
loaded before the upload) and `HalfDeleted` (a deletion has purged the object
and does not get to the row).  It speaks of rows that refer to an object: an
upload that fails leaves a row that does not.

`AgentSessionsProofs`.  `Sound(m, left)` says of a manager that its sessions
have their directories and that nothing else exists but what is left behind or
cannot be removed.
The lemmas are about the operators that the ways to end a session share, for
whatever manager a task has at that point; the actions follow.

`NoTurnTwice` says where a turn can be: in one buffer, in the hands of one task
that ends a session, in one row of the ledger, or gone.  It holds because
whoever ends a session empties the buffer in the same step in which it takes the
turns, before the first await.  `TurnsKeepMoving` is the safety half of
`TurnsReachLedger`: from the buffer a turn goes to whoever ends that session,
and from there to the session's row, unless the record or the process fails or
the request that has it in hand is cancelled.
It has one exception after that, and TLC shows that it is real: if two tasks end
one session at once, the record of the second replaces the row of the first.

Proved of all modules: `TypeCorrect`.  Besides, of `RunExecution`:
`TaskWitnessed`, `ClosedStamped`, `DependenciesRespected`, `OneTurn`, `OneTry`,
`CompletedAtTheEnd`, `FailureNotMasked`, `RestMeansDone`, `RestIsReported`; of
`AgentSchedules`: `OneTurnPerRun`, `NextTimeAlways`, `OncePlannedOnce`,
`SlotsAccountedFor`, `NoRevival`, `RunsMoveOn`, `RunningRunsAreHeld`; of
`MemoryIndexing`: `AllAttemptsMade`, `NoStepBack`, `OneVectorPerRow`,
`NoRowForgotten`, `OneVectorPerWorker`, `OnlyFaultsForget`; of
`ConversationRuntimes`: `RegisteredLives`, `ReleasesAreGuarded`, `OneIsReady`,
`ReadyRestores`, `RestoredGenerationsGrow`, `WhatLosesAWorkspace`; of
`ConversationMemory`: `TurnsCountedOnce`, `Refinement`, `CursorIsVouched`,
`TurnsAreNotForgotten`; of `KnowledgePipeline`: `CancellationHolds`,
`EachJobOnce`, `NoResurrection`, `OnlyTheseTakeTheObject`; of `AgentSessions`:
`ResourcesFollowSessions`, `NoTurnTwice`, `TurnsKeepMoving`.

Model-checked only: `Settles`, `QueuedRunsEnd`, `JobsEnd`, `RowsGetIndexed`,
`OrphansGo`, `TurnsAreTold`, `OrphansReclaimed` and `TurnsReachLedger`, which
are liveness properties and out of the prover's reach, as are `ENABLED`,
induction over data and recursive operators.  What these properties owe to the
order of steps rather than to fairness is proved for most of them, as said above:
`RestIsReported` for `Settles`, `RunningRunsAreHeld` for `QueuedRunsEnd`,
`EachJobOnce` for the `JobsEnd` of documents, `TurnsAreNotForgotten` for
`TurnsAreTold`, `TurnsKeepMoving` for `TurnsReachLedger`.

## Not modelled

* What a turn does (prompts, tools, providers), how a file becomes chunks, how
  memories are ranked: calls of language models and formulas.  The models take
  their outcome.
* The circuit breaker, limiter and drain of `production/` and the older mission
  engine in `task_manager/`: the application's own entry point reaches next to
  nothing of them, so properties of theirs would say little about the system.
* The sandbox pool, which nothing but its tests uses; sessions and conversations
  make and remove their containers themselves and these calls are modelled.
* The edges between tasks: two replacements that overlap may together close a
  cycle, but only between two gateway processes, and nothing states what becomes
  of such tasks; the launch of a run reads the edges once.
* Endpoints that read or write one row in one transaction (projects, plans,
  skills, access control, departments, analytics) and the front end.
* Times of backoff, several collections, several documents, several users: see
  the sections above for why each adds nothing to the properties.

Some of what the code does is shown by the models but promised nowhere, so that
no property says it cannot happen: an ephemeral agent may be retired while a
parallel step works with it; a run queued before a pause starts after it; after
a stop in mid-batch the overlap check skips the later slots of that schedule;
and so it does when the executor of a batch meets a run whose schedule was
deleted, which leaves the rest of the batch running for ever, runs of other
schedules too (`LoseRun`, `BesideDeleted`);
a memory row written while its job is in progress keeps the vector of its old
text; the limit of sessions per user is exceeded when two requests meet while
the oldest session is being ended; a turn that ends while its session is being
ended is not recorded; two ends of one session at once leave only the turns of
the later record in its row; a stream that is cancelled while its request ends
a session loses the turns taken from it and leaves it registered (`Disconnect`);
a directory that cannot be removed stays for good; compaction deletes turns that
no flush has reached, and may delete a question and leave its answer untold; the
sweep of one process removes the containers of another's runtimes
(`SweptElsewhere`); a snapshot committed between the two queries of an archiving
cycle is dropped with the old ones (`LateDrop`); a cancellation does not outlive
its marker (`StillBarred`); Redis failing behind a `brpop` loses the job and
leaves its row in progress, and failing in a handler stops the queue (`dead`).
