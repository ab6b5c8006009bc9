# TLA+ models of the Taico backend and its workers

Taico keeps a board of tasks that people and agents share.  The backend
(`src/apps/backend`, NestJS on SQLite) decides which tasks are ready for an agent
to work on; workers (`src/apps/worker`) claim them, run an agent on them and
report back.  This directory models the part of the system in which a mistake is
expensive and hard to reproduce: who may work on what, when, and what is left on
record afterwards; the threads and pages that tasks bring with them; and the
credentials the workers share.

## 1. The system and its parts

| Part | State it keeps | Operations | What is hard about it | What makes it correct |
|---|---|---|---|---|
| execution tables (`executions/active`, `history`, `stats`, `queue`) | one row per queued, running and past execution; stats by execution id | claim, stop, unclaim, session id, tool calls, stats, heartbeat | two workers and a cron end or start the same execution; calls arrive after their execution is over | one run per task, an execution ends once, history is only appended to, telemetry survives |
| stale-execution cron (`executions/staleness`) | nothing (the ids a scan found) | detect, prune one by one | what it found has moved on; a failing transaction ends the scan | what is silent is eventually fixed |
| readiness pipeline (`executions/readiness`) | nothing; writes the queue | `populateTask` on events, `populateAllTasks` every minute | each decision rests on four or five awaited queries, while everything else goes on | the queue tends to exactly the ready tasks |
| tasks service (`tasks`) | tasks, dependencies, input requests, comments, artefacts | create, update, assign, status, tags, questions, delete | several saves without a transaction; load, await, save | rows never become inconsistent under the readers |
| agents service (`agents`) | agent rows, permissions, tokens | create, patch, delete | no event follows a change | the next sweep sees it |
| worker runtime (`apps/worker`) | running executions, abort controllers, deferrals | poll, notification, claim, run, interrupt, stop or unclaim | lost answers, closing calls that come late and are not repeated, crashes, an agent that is silent while it prepares | an execution that beats in time keeps its row and is alone; a row nobody works for goes away |
| worker gateway (`executions`) | sockets, expiry timers | heartbeat, interrupt, broadcast | interrupts for a socket or an execution that is gone | an interrupt reaches the claimer or nobody |
| scheduled tasks (`task-blueprints`) | schedules, blueprints | create, update, delete; an every-minute handler that claims, creates, completes or rolls back | handlers overlap; compensation after partial failure; edits between load and save | an occurrence runs once, a failure is retried |
| keyed debounce batches (`common/utils`), used by `threads` | timers, pending items, in-flight marks | enqueue, flush, dispose | items arrive while a batch is being handled | each item once, in order, never stranded |
| threads (`threads`, `createTaskInThread`) | threads, their tasks, a state block each | create with rollback by hand, recover, attach, detach, edit, delete | several callers race for the thread of one task; saves write whole loaded rows and bring rows back | one thread per parent task, no half-made thread, no task falls out |
| context blocks (`context`) | a tree of pages | create, edit, move, delete | the cycle check reads one ancestor at a time; deletes check and then remove | it stays a tree and its references hold |
| worker authentication (`apps/worker/src/auth`) and token rotation (`authorization-server`) | credentials in memory per process, one file per machine; accepted refresh tokens at the server | bootstrap, refresh, save; rotate | processes share the file without a lock; a replaced token in memory or in the file; a crash between rotation and save | what is stored works, and what does not is replaced |
| worker registry, MCP registry, secrets, search, UI, installers | records, tokens, views | | mostly request and answer | not the subject of this project |

How they interact: task writes emit events; the eligibility event source turns an
event into a `populateTask` call; the cron calls `populateAllTasks`; both write
the queue table.  A worker polls the queue or is notified, and its claim moves the
task to the active table; its stop or unclaim, or the stale cron, moves it on to
the history or back to the queue.  The readiness rules read the active table
(concurrency) and the history (waiting times), so the circle closes.  Scheduled
tasks and threads enter at the tasks service; a thread takes a context block as its
state.  A worker authenticates each of its calls with what the credentials file
gives it.  `PROJECT.json` lists every part with its sources under `components`, and
under `hazards` what can go wrong at which line.

## 2. The modules

| Module | Models | Uses |
|---|---|---|
| `ExecutionLedger` | abstract: a task has at most one run, a run ends at most once, records are final | |
| `ActiveExecutions` | the execution tables and the stale cron, with an arbitrary environment writing tasks and queue | instantiates `ExecutionLedger` |
| `TaskReadiness` | the readiness pipeline, and the task and agent edits it reads, over the tables | extends `ActiveExecutions` |
| `QuietCalls` | a history variable: the populator calls nothing has interfered with | extends `TaskReadiness` |
| `WorkerRuntime` | the workers' calls, their losses and crashes, sockets and interrupts, over the tables | extends `ActiveExecutions` |
| `ScheduledTasks` | schedules, blueprints and the overlapping handlers | |
| `BatchLog` | abstract: the items of a key are a log, a batch takes all that is outstanding, one batch after the other | |
| `DebouncedBatches` | the keyed debounce processor | instantiates `BatchLog` |
| `TaskThreads` | the thread of one parent task, made by several callers | |
| `ContextTree` | the pages, moved and deleted by overlapping requests | |
| `WorkerCredentials` | memory, file and server tokens of several worker processes | |
| `*Proofs` | theorems about the module they are named for; `TaskReadinessProofs` and `WorkerRuntimeProofs` rest on `ActiveExecutionsProofs` | the module, TLAPS |
| `MC*` | model values and bounds; `MCQuietSweep` also bounds the creations | the modules they are named for |

### Atomicity and time

- The backend is one Node.js process and TypeORM's SQLite driver has one
  connection.  What runs between two awaits is one step.  A database transaction
  is one step (transactions of the one connection do not interleave); every
  awaited statement *outside* a transaction is a step of its own.  So `claimTask`,
  `stopTask`, `unclaimTask` and one prune are single steps, while the populator,
  `createTask`, `updateScheduledTask`, `deleteTaskBlueprint`, the scheduled handler,
  the cron's scan, `createThread`, a move of a page and a save of credentials are
  several.
- TypeORM's `save` of a loaded entity reads the row again and writes every column
  in which the entity differs; it inserts the row when it is gone.  That is how
  saves are modelled in `ScheduledTasks`, `TaskThreads` and `ContextTree`.
- A call whose transaction throws changes nothing: it is a stuttering step.
- Clocks are ages: `silence` of an execution and `sinceEnd` of a task's last
  history row grow with `Tick` and saturate where the code stops telling larger
  values apart, so that time needs no bound.  `ScheduledTasks` has an absolute
  minute `now`, since cron expressions name minutes; it stops at `MaxTime`.
  `WorkerCredentials` only tells which tokens are about to expire (`aged`).
- Identifiers, prompts, messages and texts are left out or are model values.  A
  cron expression is the function from a minute to the next minute it names.

### `ActiveExecutions`

`tasks`, `queue`, `active`, `stats`, `history` are the tables; a row has the columns
the code decides on.  The unique index on `task_id` of the active table and the
foreign key from its agent column are conjuncts of `Claimable`: an insert that
violates them rolls the claim back.  `lastId` stands for the generated identifiers
(claims and prunes both generate one); that they are issued in order only gives
them a name.  `detected` is what the running scan has still to prune.

`Environment` may put and remove queue rows and change an existing task in any
way.  It is wider than the code on purpose, so the results about the tables hold
whatever the writers do; `TaskReadiness` has the real writers and `WorkerRuntime` the
real callers, and both are shown to implement `StoreSpec`.

`PruneLive` and `PruneOrphan` are the two branches of `pruneExecutionById`: a live
task is restored to the snapshot taken at the claim and gets a STALE record under a
new id; for a deleted task only the active row goes.

### `TaskReadiness`

`jobs[j]` holds the local variables of one populator call between its awaits:
what it listed, the agents it loaded, the row it is working on and which query
comes next; a call is a sweep (`Sweeps`) or was started by an event (`EventSlots`).
Each action is the code between two awaits: `FindCandidate` or `ListCandidates`, `LoadAgents`, `PickTask`, `ReadAgent`, `CountExecutions`,
`ReadHistory`, `CountQuotaErrors`, then `PutQueueEntry` or `DeleteQueueEntry`, and at the
end of a sweep `TrimQueue`.  `StartPopulate` is the event source.  `createTask` is
`InsertTask`, `TagDraft` and `LinkDraft`, one for each of its saves; the other edits
are one step: their read-modify-save window is not modelled here, nor is a task that
is deleted before its `createTask` has finished and that a later save might bring
back.

Bounds: `EventSlots` event-driven calls and `Sweeps` sweeps at once (Nest starts the
next sweep although a slow one still runs), `MaxRequests` open questions per task,
`MaxAborts` calls that die, dependencies within `DependsOn`.  The theorems hold for
any number of calls and sweeps; the runs take one sweep, as the states of two exceed
their time, and event calls beside one sweep already give pairs of stale decisions
on one task.

`QuietCalls` adds the history variable `quiet`, the calls that took every step since
their start, and states what such a call leaves in the queue: `QuietSweepExact` for
a sweep, `QuietCallExact` for a call about one task.  `Ready` reads the rules off one
state, where the populator asks for them one query after the other.

### `WorkerRuntime`

`picks[s]` is one `pickTask` call of a worker process: `claiming` (the request is on
its way, or its answer is), `claimed`, `preparing`, `running`, `stopping` or
`unclaiming` with one closing call that is never repeated, and `unclaimed` until the
task is deferred.  A call is done by the tables (`ClaimMade`, `StopMade`,
`UnclaimMade`, which are `Claim`, `Stop` and `Unclaim` of the tables) or not
(`ClaimFails`, `ClosingFails`), and its answer may be lost in between.  A closing call
names the execution by its id (`task-picker.ts:81-92`); `RowOf` is the row with that id.
`Poll` and `TaskQueued` start a pick; a late notification may be about any task, so it
does not look at the queue.  `Crash` comes with the restart: the picks, deferrals and
sockets of the process are gone, its rows stay.  `InterruptExecution` is the gateway's
`interruptExecution`; `Interrupt` aborts what is registered and drops what is not.
`fellSilent` is a ghost: the executions whose row was ever as old as the threshold.

What an agent does to its task is the tables' environment.  A heartbeat is one step
on the socket; session ids and tool calls are left to `ActiveExecutions`.
`TaskRunner` knows an error kind `cancelled` that nothing throws, and there is no step
for it.

### `ScheduledTasks`

`scans[j]` is one run of `handleScheduledTasks`, with the due rows it read and the
stage of its loop.  `updates[s]` is the entity an `updateScheduledTask` call has
loaded and changed but not saved; `SaveUpdate` writes all of it, `next_run_at` and
`deleted_at` among them.  `checked` marks the two check-then-act windows: a schedule
whose blueprint was found, a blueprint whose schedules were counted.  `putBack` and
`restored` are history variables: which past occurrences came back through an
update's save, and which through a rollback after the task was already there.

### `DebouncedBatches`

Items are numbered as they arrive per key; `pending`, `timers`, `inFlight` and
`rerunRequested` are the class's maps and sets.  `running` are the `handleBatch`
calls that have not returned, which the class does not know; `handled` and
`dropped` are history.  In `BatchLog` there is neither timer nor mark: what arrived
and is not settled is taken as one batch, and until the log is closed only when no
other batch is being handled.  An item may arrive after `dispose`, because the caller
awaits a query before it enqueues.

### `TaskThreads`

One parent task and the calls that make, or want to join, its thread.  `calls[c].pc`
walks through `createThread`: the state block, the insert (`MayBeLive` is the unique
index, which looks at rows that are not deleted), the conversation with the chat
provider, the tasks, the participants; `discard`, `unthread` and `unblock` are the
rollback, made by hand.  `find` and `found` are the recovery of `createTaskInThread`
after a conflict; `FindThread` takes any live thread that has the parent task in it,
which need not be the parent's own: `Others` are threads of other parents that have
it as a subtask.  `requests` are edits, detachments and messages that have loaded a
thread and will save it.  `AttachTask` is `POST /threads/:id/tasks` and the tool
`attach_task_to_thread`: anyone puts any task into any thread, at any time, so into a
thread that its creator is still making.  Call `c` stands for the task, block and
thread it creates.  The creation of the call's own task belongs to its first step;
whether the provider fails is open; titles, messages and chat sessions are not told
apart.  `CallFails` ends a call at any step with everything it made left in place, by
an error no handler undoes or by a restart of the backend.

Two ghosts record what no code protects a task from.  `removed` are the tasks taken
out of the thread their call put them into: by a detach, by a save that had loaded
the thread before they came, or with an early thread.  A thread is `early` when a user
puts the parent task into it between its insert and the save of its creator's tasks:
then other calls recover to it, and their tasks are lost when its creator rolls it
back or saves its own tasks only (section 4).

### `ContextTree`

`parent[b]` is the `parent_id` of a row, or says that there is none yet or no more.
`requests[q]` is what a request has read: the copy's parent, how far up the walk of
`validateParent` has come, and which rows it has read.  `WalkUp` is one query of the
walk; `Visited` and `Reached` are its two ways to stop.  `SaveEdit` and `SaveMove` write
the loaded copy; a create is an insert after its check; `NoChildren` and
`NotThreadState` are the checks of a delete and `DeleteBlock` its removal, which the
foreign keys (`Unreferenced`) may refuse.  `ThreadTakesBlock` is `createThread`.
`overtaken` is a ghost: a save wrote over, or a walk went through, what another save
had changed since.  Titles, contents, orders and tags are not told apart: each edit
is a save of the copy.  The import of pages is a sequence of creates; the query for
the next order among siblings is left out.

### `WorkerCredentials`

A token is a number in the order of issue and stands for a refresh token with its
access token; 0 is none.  `entries` is the file; while a process has it open for
writing it is empty, and a reader takes an empty or unreadable file for one without
entries.  `bootstrap[p]` and `refresh[p]` are the promises that calls of process `p`
join, `saves[p]` the read, open and write of `writeWorkerCredentials`.  The server
finds the old token in one step and issues the new one in another, so that two
refreshes of one token may both succeed.  `Load` puts what was read into memory
whatever is there.  A browser authorization is one step.  There are three ghosts.
`kept` is what was last saved for a server.  `lost` are the tokens whose replacement
was lost with a crash or an answer.  `overtaken` are the tokens that a refresh of the
connection replaced while `bootstrap` was still saving them as authorized, which
needs no fault: the late save may leave the revoked token in the file.
`StoredTokenLive` and `MemoryHeals` except the tokens of the last two, and section 4
tells what the code does with them.

Left out: scopes, the lapse of refresh tokens after days, disk errors, the callback
server.  Introspection may find any token inactive, as `TokenVerifierService` answers
so on every error.  Where a shorter text is written over a longer one by two
processes at once, the file is unreadable, which counts as empty.

## 3. The runs

| Run | Instance | Shows |
|---|---|---|
| `store` | one task, two workers, one session, one tool call, two claims | types; one run per task, an execution ends once; stats follow their execution; history is an audit trail; telemetry reaches the record; the tables implement the ledger; `StaleGetsFixed` under fairness |
| `quiet_sweep` | two tasks, the second depending on the first, an agent with limit 1 that wants a tag, one event call | a sweep nothing interferes with leaves exactly the ready tasks queued, and a call for one task settles that task, from every state the others can leave behind |
| `readiness` | one task with a question, an agent that is switched on and off, one lost call | types; the queue catches up with tasks that became ready or stopped being candidates; the pipeline is an environment the tables allow |
| `worker_runtime` | one worker with two picks, one task, two claims | types; an execution that beats in time keeps its row and is alone on its task; a row nobody works for goes away |
| `schedules` | one schedule, two overlapping handlers, one update, one failure, one crash | exclusive claims, explained duplicates, rollbacks that undo only their own claim, failures that never silence a schedule |
| `debounce` | two keys, three items each | each item once, nothing stranded, everything handled; timers, marks and reruns implement `BatchLog`, so that batches are complete, in order and one at a time |
| `task_threads` | two agents and a user, one other request, attachments by hand, a thread of another parent | types; one thread per parent task; threads and state blocks come and go together; a task leaves its thread only through a detach, a save that had not loaded it, or with a thread that was early |
| `context_tree` | three blocks, two requests, one block a thread's state | types; no cycle without an overtaken save, and then every page is shown; references hold; walks read each row at most once and end below a cycle |
| `worker_credentials` | two processes of one server, crashes and lost answers | what is stored is accepted or about to be replaced, and a replaced token in memory goes away, except the tokens in `lost` and `overtaken`; who waits is waited for, and calls end |
| `claimed_not_ready` | *violation*: one task, one worker | a claim does not look again |
| `thread_recovery` | *violation*: two agents, a user, one request | the loser of the race for a thread does not find it |
| `credentials_preserved` | *violation*: two processes of two servers, nothing fails | a save loses the entry of another server |

Every property of a passing run has a mutant in `PROJECT.json`: a plausible
mistake in one mapped definition under which TLC finds the property violated.

**Why the bounds are enough.**  The races of the tables are between at most three
parties (worker, second worker, cron) about one execution, or about two executions
of one task: two claims with two workers give a stop, an unclaim and a prune that
come after the next execution has begun.  What involves more tasks is proved: every
invariant, action property and refinement of the passing runs is also a theorem for
all values of the constants (section 5), so that the bounds matter for liveness only.
In `quiet_sweep` two tasks are needed for the limit and the dependency; a second
agent or a person would add nothing the rules combine; its sweeps start with no event call in
flight, and what such calls leave in the queue is among the starting states; no
task is created while such a call runs (`CreationsApart`, a bound).  In
`worker_runtime` the hazards are a pick whose execution was pruned and a second pick
on the same task, of the same or another process; the process only matters to
sockets, deferrals and crashes.  In `schedules` two handlers and two due minutes are
needed: the interesting case is a creation that fails after the other handler has
claimed the next occurrence.  Three items per key give a batch being handled, an
item that waits and one that arrives during the wait.  In `task_threads` a winner, a
loser and a user who may delete or make another thread need three calls.  One request
that has loaded a thread is enough to write over what calls and attachments did
since; requests that write over each other are covered by the theorems, which hold
for any number of them.  `ByHand` bounds the tasks attached by hand to the parent
task, which is the one that leads calls to a thread (the own task of a call comes in
through its recovery), and `Saved` the threads that requests save to the parent's own.  In `context_tree` two moves that pass each other
make a cycle of two, and a third block can be moved below it.  In
`worker_credentials` two tokens give a first and a rotated one for two processes;
`MaxTokens` bounds the steps that bring new ones about (`TimePasses`,
`RefreshConnection`, `Authorize`, `Inactive`), never a refresh that is due.

**Fairness.**  `StoreFairness`: the cron's query runs again and again (weak), and
pruning a given task's execution is strongly fair: a transaction may fail, and a
failure drops the rest of the scan, but not each time.  `RuntimeFairness` is the
same, with the passing of time; nothing is assumed of workers, sockets or calls.
`TaskReadiness!Fairness`: the every-minute cron fires and an awaited query is
answered; nothing is assumed about workers, users or events.
`ScheduledTasks!Fairness`: a handler goes on; failures are bounded by `MaxFailures`
and need no fairness.  `DebouncedBatches!Fairness`: timers fire, and a batch's handler
returns (its model call has a timeout).  `WalkFairness`: the queries of a walk are
answered.  `CredentialsFairness`: a worker polls for ever, and its requests and file
accesses end; nothing is assumed of people, of the expiry of tokens or of the
connection.  No fairness is assumed of a claim or of any user.

**Deadlock** is not checked where activity is bounded: in `schedules` (the clock
stops at `MaxTime`), `debounce` (`MaxItems`), `context_tree` (identifiers are used up),
`task_threads` (so are calls) and in the two runs about credentials (`MaxTokens`).

**Symmetry** (agents, requests) is used in `task_threads` only, which checks no
liveness.

## 4. What the violations show, and what else the models tell

Each violation is a behaviour of the code that a document or comment denies;
`findings` quotes both.

- `claimed_not_ready`: being in the queue means ready, says ARCHITECTURE.md; a task
  that was finished or blocked after it was queued is still claimed, since
  `claimTask` looks at the queue row only.
- `thread_recovery`: a call that conflicts looks for the thread among those that have
  the parent task attached; the creator attaches it only after the insert and a call
  of the chat provider.  A call that conflicts in between ends with an error, its
  task created and in no thread, although `tasks.service.ts:220` promises recovery.
- `credentials_preserved`: `writeWorkerCredentials` reads, waits, and writes the whole
  file; the entry another process saved in between is lost, although
  `credentials-store.ts:66` says that other servers' entries are preserved.

Statements of the repository that the models contradict in passing, without a run:

- An agent with trigger tags `{a, b}` gets only tasks that have both (`Triggers`); the
  README of `executions` says at least one.
- The STALE record has neither session nor tool calls of the execution it is about
  (`PruneLive`; `TelemetryKept` excepts it).
- The concurrency limit counts what runs when a task is queued, not when it is
  claimed (`CountExecutions`; `executions/ARCHITECTURE.md:165`): two tasks queued while
  nothing runs are both claimed.
- `createTask` stores a task before its dependencies (`InsertTask`, `LinkDraft`;
  `executions/ARCHITECTURE.md:164`): a sweep in between queues it.
- `THREAD_PARENT_TASK_TEST_PLAN.md:93-96` (5.1) expects two threads of one parent task
  to be created successfully; the unique index of the later migration
  `1741400000000-EnforceSingleThreadPerParentTask` allows one, as `OneThreadPerParent`
  says, and `createThread` answers with a conflict (`ParentTaskThreadExists`).
- `THREAD_STATE_TEST_PLAN.md:37-40` (2.2) expects that a state block can be deleted
  once its thread is; `deleteThread` only marks the row, which goes on referring to
  the block, so that the deletion is refused (`DeleteStateBlock`).
- `tasks.service.ts:220` promises that a call that loses the race is attached to the
  thread made meanwhile.  When a user has put the parent task into that thread before
  its creator has come to its own tasks, the call finds it and succeeds, and then
  loses its task: to the roll-back when the chat provider fails
  (`threads.service.ts:211`), or to the save of the creator's tasks (lines 253-254),
  which contradicts 5.3 of `THREAD_PARENT_TASK_TEST_PLAN.md` too (tasks attached are
  added).  `TasksStayInThread` excepts these threads by `early`; with `Exposed` empty
  TLC finds the trace.
- The same search (`findThreadByTaskId`) may return a thread of another parent that has
  the parent task as a subtask; the new task is then attached there and not to the
  thread that was created (`FindThread` over `Others`).
- `apps/worker/README.md:30` says that the worker refreshes and reuses its credentials
  automatically after the first authorization.  Without any fault, the connection may
  refresh the authorized token (`worker-auth.ts:130-134`) while `bootstrap` is still
  saving it (109-110).  If bootstrap's save comes last, the revoked token stands over
  the accepted one in the file, and the next call loads it back into memory.  With
  `overtaken` struck from `StoredTokenLive` and `Faults = FALSE`, TLC finds the overwrite
  in 13 states.
- From such a token the worker does not recover, and neither from one whose
  replacement was lost: `isAuthFailure` (`worker-auth.ts:310`) looks for `HTTP 401:` in a
  message that is the problem's detail (`packages/client/src/v2/base-client.ts:51`,
  `problem-details.filter.ts:38`), so every refresh fails until the file is deleted or
  another process stores a new token, instead of asking for authorization
  (`RejectToken`, `BootstrapFails`).
- A worker that reads the file while another writes it takes it for empty and asks a
  person, although it has credentials (`worker/README.md:30`).

And two facts no statement is about: an occurrence whose creation fails after the
next one was claimed is not retried (so `DueScheduleRuns` promises a task, not the task
of that occurrence), and `rerunRequested` in the debounce processor never matters,
since an item is pending whenever it is set.

## 5. What is proved

TLAPS checks every proof down to its leaves.  The theorems hold for every value of
the constants that satisfies the named assumptions (`ConstantsAssumption`,
`ReadinessAssumption`, `RuntimeAssumption`, `ScheduleAssumption`, `ItemsAssumption`,
`CallsAssumption`, `BlocksAssumption`, `CredentialsAssumption`): subset relations,
naturals, `None` and the other markers outside the sets they are joined to, a
threshold above zero, and that a cron's next run lies in the future.

**`ActiveExecutionsProofs`**: `StoreSpec => []IInv` with

    IInv == TypeOK /\ IdsIssued /\ OneRunPerTask /\ EndsOnce /\ StatsFollowRun

`EndsOnce` alone is not inductive: a fresh id must differ from every recorded one,
which is `IdsIssued`; and an unclaim deletes stats by id, which spares the
records because active and recorded ids are disjoint.  One lemma per
operation; the heart is `Appended`, what `AddHistory` does to all histories.
Corollaries: `TypeCorrect`, `TaskRunsOnce`, `ExecutionEndsOnce`, `StatsAreKept`.
From the same invariant follow two action properties, `HistoryOnlyGrows` and
`TelemetrySurvives`, and the refinement `TablesImplementLedger`: `RunIn` is the
refinement mapping as a function of the set of active rows, and four lemmas say
what a row that comes, goes or is rewritten does to it (`OneRunPerTask` makes the
CHOOSE of the mapping a given row; `IdsIssued` keeps identifiers apart from 0).

**`TaskReadinessProofs`**: `PipelineImplementsStore`, so that all the above holds with
the real writers of queue and tasks (`PipelineRunsTaskOnce`,
`PipelineImplementsLedger`), and `ReadinessTypeCorrect`.  The types alone are not
inductive: a populator call that is about to queue a task must have one (`SoundJob`).

`SweepLeavesTheReady` and `CallSettlesItsTask` compare a whole populator call, of many
steps and queries, with the rules read off the state it ends in, for any tasks,
agents, configurations, dependencies, histories and number of other calls.  The
invariant `QuietInv` says of each quiet call that what it has in its variables is what
the rows say (`Agrees`: the candidates, the agent, the age it read; and at each stage
which of the rules have been found to hold), and of a quiet sweep that every
candidate is still to be reconciled, is being judged, or is queued if and only if it
is ready (`SweepAgrees`).  `WatchedPipeline` shows that the history variable takes no
behaviour away.

`QuotaErrorsCount` shows that the model's closed form of the backoff's count is what
the loop of `countConsecutiveQuotaErrors` returns (`CountsErrors` is the loop's
postcondition, `CountIsUnique` says it has one solution), for histories of any
length, and `QuotaErrorsGrow`, an action property, how the count changes when an
execution ends.

**`WorkerRuntimeProofs`**: `WorkersImplementStore` and `WorkersImplementLedger`, the same
for the real callers;
`HealthyRunsAreKept` and `HealthyRunsAreAlone`.  The row of an execution that was never
silent is safe from the closing calls of other picks because no two picks hold the
same identifier (`PicksApart`), and from the cron because it only ever detects rows
the ghost has seen silent (`SilenceSeen`).  That two such picks cannot be about one
task then follows from `OneRunPerTask`.

**`ScheduledTasksProofs`**: `ClaimsAreExclusive` and `DuplicatesAreExplained` need
what the code relies on without saying so: `MovedOn` (while a scan holds an
occurrence, the row's `nextRun` is not that occurrence unless an update put it
back), `Settled` (nor is it, once the task exists, unless put back or restored),
`WasDue` (a scan's occurrences lie in the past, so the next run, which lies in the
future, differs from them) and `SavedRowsHaveCron`.  `RollbacksUndoOwnClaims`, an
action property, needs in addition `FreshRows`: a row that was never saved is
disabled and no scan knows it.

**`DebouncedBatchesProofs`**: `ItemsHandledOnce`, `BatchesDoNotOverlap`,
`WaitingIsComeFor`, `BatchesInOrder` and the refinement `ProcessorImplementsLog`: the
timers and a `Flush` that takes nothing are stutters of the log, a `Finish` is its
return, and the batch a `Flush` takes is all that is outstanding (`FlushTakes`).  That batches do not
overlap and keep the order are consequences of the refinement that the run does not
check again.  The strengthening is `MarksAreBatches` (an
in-flight mark stands for a running batch; until dispose also conversely),
`HandledFirst` (what was handed over arrived before what waits) and
`NothingDroppedYet`.

**`TaskThreadsProofs`**: `ThreadIsUnique`, `BlocksFollowThreads` and `TasksStay`, for any
number of calls, requests, attached tasks and threads of other parents.  The
strengthening says for each stage of a call what it has left in the tables
(`StagesOK`), although a stale save may have brought a row back in between.
`TasksStay` rests on what a call knows of the thread it recovers to: it is another
parent's, or `Settled`, that is, its creator has written its tasks or given up, unless
a user had made it early.  From then on its creator neither removes it nor replaces
its tasks, except at the steps that write `removed`.

**`ContextTreeProofs`**: `CyclesNeedAnOvertakenSave` and `ReferencesAlwaysHold`.  The
heart is that an unfinished walk, if nothing it has read was moved, has read a
path of present rows from the new parent upwards that does not contain the moved
block; a set of blocks without a way out would have to contain it.
`WalksStayShort` needs `OneReadPerRow` (a walk has no two entries for one row): then
the entries map one to one into the blocks other than the moved one, and are as few.
`BlocksAreShown` is about what the tree and the export show: they are built level by
level, by a recursion (`ShownTo`).  `ShownToDefined` shows that the recursion has a
solution.  In a forest a level that misses a block misses one whose parent it has,
so that each level adds a block until none is missing (`ForestIsShown`); there are as
many levels as blocks.

**`WorkerCredentialsProofs`**: `StoredTokensAreLive`, for any number of processes of one
server.  Memory may hold a replaced token and be saved, unless what a save writes
came from the server just now: the invariant says of each refresh that is being
saved that nobody else has seen its new token, anywhere it could be written from,
and that the file holds its old token or an accepted one.  Its two exceptions are
named by token: `lost`, and `overtaken`, which the proof meets where the save of an
authorization ends (`AuthorizedHere` says that its token is accepted unless it is in
one of them).  `WaitersAreServed` is the
safety half of `CallsEnd`: a bootstrap that joined a refresh always has one that will
answer, fail, or be saved for it; it needs that a save is on its way exactly while
its refresh says so.

**Induction.**  The library's induction rules take an operator as a parameter, which
the provers cannot instantiate.  Where a proof needs induction over numbers (the
levels of `ShownTo`, the last position of a history), it takes a least counterexample
instead, from `NatLessThanWellFounded` and `WFMin`, which have no such parameter.

**Only model-checked**: liveness (`StaleGetsFixed`, `ReadyGetsQueued`,
`NonCandidatesLeave`, `DueScheduleRuns`, `EveryItemHandled`, `RowsDoNotOutliveRuns`,
`WalksEnd`, `MemoryHeals`, `CallsEnd`), which needs fairness and ENABLED.  Where the
argument has a safety half, that half is proved: `QuietInv` for the sweep on which
`ReadyGetsQueued` rests, `WaitingIsComeFor` for `EveryItemHandled`, `WalksStayShort` for
`WalksEnd`, `WaitersAreServed` for `CallsEnd`.  The three statements of the documents
that do not hold are refuted by TLC and have no theorem.

## 6. What is not modelled

`PROJECT.json` gives the reason for each component.  By far the largest part of the
repository has no state protocol of its own: the two web interfaces, the generated
client and its types, the controllers, gateways and transports that map a request
to one service call, the seeds, migrations and error tables, the adapters of
third-party agents.  The MCP registry, secrets, chat providers, identity, agent runs
and the workers' registry are rows that one request writes and others read.  Search,
discovery and the language-model calls only read.  Modelling these would restate
single assignments.

Of the modelled components: artefacts, comments, subscriptions and listings of tasks;
permissions and tokens of agents; the load-and-save windows of task edits (rows of
tasks carry no invariant that a lost update could break; where rows do, in
schedules, threads and pages, the windows are modelled); the gateway's expiry timers
and broadcasts; `markAsExecuted`, which nobody
calls; participants and messages of threads, the reconciler's prompt and the titles;
the tasks that a user gives `createThread` to start with, whose
save is that of `AttachTasks`, and the saves of a thread's tags while it is created;
contents, order and search of pages; authorization codes, consent journeys and
client registration of the authorization server, and the browser part of the
worker's authorization; what an operator does about a thread whose creation stopped
half-way (`CallFails` leaves it).

## 7. Plan

Done, in the order of importance: the execution tables, the ledger they implement
and their invariants; readiness over them; scheduled tasks; debounce batches; the
worker runtime over the tables; threads; the tree of pages; worker credentials; the
proofs of all invariants, action properties and refinements of the runs.

What would come next:

1. `TaskEdits`: the load-and-save windows of the tasks service, over `TaskReadiness`
   (lost updates, a deleted task that a save brings back).
2. An abstract specification of the scheduled tasks (an occurrence is due, claimed,
   done or given back), implemented by `ScheduledTasks`.
3. The gateway's token-expiry timers, armed after an await for a socket that may be
   gone, and the reconnect of the worker's client.
4. A clean-up of threads whose creation stopped half-way, and what it would have to
   promise.
