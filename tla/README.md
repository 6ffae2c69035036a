# A TLA+ verification of PyLeaner

PyLeaner runs Lean proof checking for many concurrent callers on one Lean
language server. A caller submits a task, a pool of worker threads edits
documents and sends requests to the server, and a watchdog kills and rebuilds
the server, and the whole pool with it, when a task crashes or wedges it. The
hard part of the program is that rebuild: it happens under running callers,
routers and workers, and its promise is that innocent tasks are retried without
their callers noticing while the guilty one is rejected.

This directory holds TLA+ models of that code, the TLC configurations that
check them on small instances, and TLAPS proofs for instances of any size.

## 1. Inventory

Paths are relative to `src/pyleaner/` unless they say otherwise.

| Component | State | Operations | Interacts with | Hard behaviour | What makes it correct |
|---|---|---|---|---|---|
| Resilient submission, `client.py:88-198` | one `result_q` per attempt | submit, retry, toxic rejection, wait for a restart, timeout | `server_ready`, `client.worker_pool`, the pool | the pool is replaced between fetching and using it; an answer races the timeout; waiting for an event that is already over | one outcome, retried or rejected only because of an outage, always ends |
| Pool and router, `pool.py` | `overall_task_queue`, `_selection_cursor`, `_ready` | initialize, route, submit | callers put, worker queues get | the router of a replaced pool goes on routing | each task in one place; only initialized workers get tasks |
| Worker thread, `worker.py` | `task_queue`, `current_task`, `notification_queue`, document version | take, edit, wait, answer, drain on poison | client transport, watchdog task table | poison arrives between two waits; drain races the router | every task answered once, the culprit as toxic and the others as retry |
| Document edits, `worker.py:249-412` | document version, queue of notifications | didOpen, didChange, cancel on timeout | server notifications | late diagnostics of an older version | answers belong to the edit that asked |
| Watchdog receiver, `watchdog.py:555-840,951-1065` | `server_ready`, `_generation`, task table, memory guards | start, receive an event, restart, retry the recovery, stop | everything | failures inside a rebuild, stale events, stop during a rebuild | gate open only over a serving pool, and opened again |
| Monitor process, `watchdog.py:256-472` | active tasks, guards, paused flag, generation, clocks | task started/finished, pause, track server, poll | command queue, event queue, process table | commands and events of two generations cross; grace for vanished processes; the monitor itself dies | overdue tasks are reported in time, each server once, and only for cause |
| Process tree and cgroup guards, `watchdog.py:72-253,475-546,842-947`, `client.py:30-69` | systemd scopes, pids, registry of roots | attach, replace, release, walk, kill, signal handler | OS, monitor, receiver | a tree that changes between walk and kill; scopes made in one process and owned by another | nothing of an old server survives, no scope without an owner, no current worker killed |
| LSP transport, `client.py:201-584,676-715` | request ids, pending table, reader threads, buffered notifications | start, request, response, notification routing | the server process, workers, sessions | fixed ids reused after a timeout, failed sends, readers across a restart | a response reaches the call that asked; what is written is read |
| RPC sessions, `rpc_session.py` | session id, connected flag, keep-alive thread | connect, call, keep-alive, reconnect, invalidate | transport, watchdog | locks held while waiting; reconnect races invalidate | no call with a session the server forgot |
| Timeout accounting, `timeout_policy.py` | journal file, receipts, streak | enter, run a tool, persist, finish | the harness that drives a sample | crash between two writes, replay | no timeout forgotten or counted twice |
| Observability, `observability.py` | none | fingerprints, events | stderr | none | pure |
| Lean extension, `src/LeanLspExtension/*.lean` | none between requests | declarations, bounded search, axioms | Lean | numeric bounds, order | search returns the best within its limits |
| Demo and package entry, `src/examples/demo.py`, `__init__.py` | none | wiring | all | none | not a subject |

`PROJECT.json` lists every component with its status, the hazards at the lines
where they bite, and for each hazard the properties that would catch it or the
reason why none does yet.

## 2. Modules

| Module | Content |
|---|---|
| `Recovery` | callers, pools, workers, server, monitor reports and the rebuild, composed |
| `ResilientSubmission` | the abstract promise of `submit_resilient`; `Recovery` implements it |
| `MCRecovery` | instance of `Recovery` for TLC, with the symmetry of requests |
| `RecoveryProofs` | theorems about `Recovery` |
| `TimeoutPolicy` | the durable accounting of timeouts of one sample |
| `TimeoutPolicyProofs` | theorems about `TimeoutPolicy` |
| `RpcSessions` | the RPC sessions of a pool: calls, keep-alive thread, teardown, server |
| `RpcSessionsProofs` | theorems about `RpcSessions` |
| `DocumentEdits` | one document: edits, notifications, deadlines, and a rebuild with another worker for the same uri |
| `DocumentEditsProofs` | theorems about `DocumentEdits` |
| `Monitor` | the monitor process, its queues and clock, the receiver, `exit()` |
| `MonitorProofs` | theorems about `Monitor` |
| `WorkerGuards` | the processes of a server, the guards and scopes of its workers, and how they are killed |
| `WorkerGuardsProofs` | theorems about `WorkerGuards` |
| `LspTransport` | request ids, pending table and reader threads through a rebuild |
| `LspTransportProofs` | theorems about `LspTransport` |

The modules look at the same rebuild from different sides. `Recovery` has its
effect on tasks and callers and composes callers, pool, workers, server and
watchdog; `RpcSessions`, `DocumentEdits` and `LspTransport` open up what is one
step of a worker there (a call of a session, an edit, a request); `Monitor` and
`WorkerGuards` open up what is one step of the monitor or of the receiver (a
report, the kill of a tree). Each keeps from the others the steps at which they
can get between its own.

A definition called `Bug...` is not part of a model. It is the definition that
follows it with a plausible mistake (a dropped guard, a forgotten reset), and
names the property that finds the mistake; each property has one.

### Recovery

One action is one step of one thread up to the next point where another thread
can see its effect: a `put` or `get`, an `Event`, a write to the pipe, an
assignment to a shared attribute.

| Variables | Code |
|---|---|
| `pc`, `target`, `reply` | where a caller is in the loop of `_submit_resilient`, its local `pool`, its `result_q` |
| `overall`, `cursor`, `ready`, `routing` | `overall_task_queue`, `_selection_cursor`, `_ready` of the workers, whether the router thread runs |
| `queue`, `current`, `marked`, `poison` | `task_queue`, `current_task`, the task's `_culprit` mark, `POISON` in `notification_queue` |
| `step`, `sentTo`, `since` | where `_run` is, the server that got its last message, `watchdog_generation` |
| `alive`, `wedged`, `gen` | the server process, its Lean workers that stopped answering, `Watchdog._generation` |
| `monitor`, `tracked`, `events` | the monitor's mode, its `active` table, the event queue |
| `serverReady`, `pool`, `phase`, `cause`, `pairs` | `server_ready`, `client.worker_pool`, the next step of `_restart`, its event, its snapshot |
| `faults`, `disturbed` | bound and history: the number of faults, the calls an outage has met since they passed the gate |

Callers: `PassGate FetchPool Submit Receive ResponseTimeout Unpark`. Router:
`Route`. Worker threads: `Take Send SendFails EditDone EditThenCall Respond
TaskTimeout OnServiceUnavailable Finally`. Environment: `Crash Wedge
MonitorDies`. Monitor: `ReportDeath ReportFatal ReportOverdue ReportMemory
ReportWorker`. Receiver: `TakeEvent MonitorLost CloseGate MarkCulprits
PoisonWorkers TearDown KillTree Connect BuildPool InitPool OpenGate`, and the
failures `ConnectFails InitFails InitRejected AttachFails`, after which
`_recover_with_retry` calls `_restart` again with the same cause.

Workers of replaced pools are part of the state, because in the program their
threads go on: a `Slot` is a pair of a pool and a worker id. Notifications are
routed by uri to the worker of the *current* pool, responses by request id to
whoever waits; `Stuck` states when what a thread waits for cannot arrive.

Abstractions:

* Time. A timeout may happen as soon as the wait cannot be satisfied
  (`TaskTimeout`) or at any time (`ResponseTimeout`, which includes queueing).
  The 0.5 s poll of a parked caller may miss a closed interval.
* What a task computes. It edits a document, sends a request, or both, and ends
  with a result, an error, a timeout or a broken pipe. RPC sessions are part of
  "sends a request".
* The commands to the monitor (`task_started`, `pause`, `root`) take effect at
  once (`Monitor` has their queue). Event delivery is asynchronous.
* Arming is left out, and `stop()` and `exit()` are in `Monitor`: the model starts with an armed
  watchdog and its first pool. Its pool has at least one initialized worker,
  since otherwise `initialize_all_workers` raises; so the router's
  "no healthy workers" answer is unreachable, as it is in the code.
* Killing a process tree is one step that succeeds (`WorkerGuards` has its steps).

### ResilientSubmission

A call is outside the gate, inside the service, parked, or over with one final
outcome. It comes back to try again, or is rejected as toxic, only if an outage
began since it last passed the gate; nobody passes a closed gate. The refinement
maps `pc` to these four places and `serverReady` to `open`.

### TimeoutPolicy

`journal` and `temporary` are the two files, `state` is the copy in memory, `pc`
the step of the process, `transcript` what the harness has recorded. The harness
is not in the repository: the model takes its protocol (record the result, then
`finish_timeout_feedback`; after a crash repeat the unrecorded call under its
key) from the docstrings of `run_lean_tool` and `finish_timeout_feedback`. A
crash may come between any two steps, between the write of the temporary file
and its rename in particular; a partly written temporary file is never read.
Tool calls follow one another, and all have a key. `json` keeps the receipts
and the streak exactly (string keys, integers), so a record stands for the file;
the limit is the same each time the sample is entered. Writing is assumed to
succeed.

The model does not claim that the streak *equals* the number of unbroken
timeouts, because it does not: a success resets the durable streak before the
harness records it, and if the process dies in between and the repeated call
times out, the earlier timeouts are no longer counted. The error is always on
the side of more attempts, which `NeverOvercounts` states.

### RpcSessions

`Recovery` treats an RPC call as one request. This module opens it up: the
workers of one pool are inside `RpcSession.call`, the keep-alive thread goes
through the registered sessions, and the watchdog tears the pool down, all on
the same sessions.

| Variables | Code |
|---|---|
| `sid`, `connected` | `RpcSession.session_id`, `_connected` |
| `registered`, `running`, `step`, `todo`, `keeping` | `KeepAliveManager._sessions`, `_running`, where its loop is, what is left of its copy of the sessions, the one at hand |
| `pc`, `attempt`, `sent`, `refused` | where a worker is in `call`, its attempt, the session id in its message and (history) in the message that was refused |
| `pending`, `answer`, `writtenTo` | `_pending_requests`, the content of a response queue, the process that got the request |
| `phase`, `next` | `_teardown_pool_state` and the worker whose session it invalidates next |
| `process`, `alive`, `known`, `last` | the server process, the sessions it knows, the id it gave last |

* Locks. `ensure_connected` holds the lock of its session while it waits for the
  server; `Locked(w)` is that stretch, and `Check`, `Drop` and `InvalidateNext`
  wait for it. Every other critical section is one step. `_rpc_call_once` and
  `reconnect` read and write the session without the lock, and so do the actions
  `CallOnce`, `Build`, `Reconnected`, `MarkConnected`.
* The keep-alive loop works on a copy of the list and does not look at
  `_running` inside it; it decides (`Check`) and acts on it (`Drop`) in separate
  steps.
* The server may answer, refuse, forget a session, lose a Lean worker, exit, or
  never answer. Each connection gets a new id.
* Which error a session problem is reported as is `Answers`; whether `call` was
  asked to retry is a choice between `GiveUp` and `Reconnect`.
* There is one teardown. The sessions of the next pool are new objects and are
  not modelled; the threads of the old one go on against the new process.
* In `ensure_connected`, connecting and `register` are one step: until the lock
  is released, nobody but a late `unregister` can tell them apart.

### DocumentEdits

Another refinement of a task, by hand rather than by `INSTANCE`: what happens to
one document `worker_N.lean`. Its worker edits it, waits for notifications of
its version and asks about it; the watchdog replaces pool and server, and the
new pool has a worker for the same uri. Thread 1 and thread 2 are those two
workers; thread 1 may live on, as `Recovery` shows.

| Variables | Code |
|---|---|
| `pc`, `task`, `size`, `answer` | where `_run` is, its task, the lines of its text, and what its last success was computed from |
| `version`, `counter`, `diagnostics` | `document_version` and the locals of `_didchange` |
| `inbox`, `asked` | `notification_queue`; the process a pending request was written to |
| `process`, `alive`, `isOpen`, `docVersion`, `lines`, `published` | the server process, its document, and how much it has published about its version |
| `phase`, `snapshot` | the steps of `_restart` that a worker can notice |
| `owed` | what the answers to goal requests that timed out may still be about |
| `foreign`, `overlong`, `crossed` | history: the old thread has used the new server's document; a text was longer than the range; a request has got the answer to an earlier one |

* A line of a document is the number of the task that wrote it, 0 for the
  imports. An edit replaces the lines from `First` to `LastLine` (0 or 2, and
  999, in the code and its examples), as the protocol defines it. All tasks use
  the same range.
* Notifications are delivered late but in order, since there is one pipe and one
  reader. The server publishes a completion, diagnostics and a completion for
  each version, or stops before. Intermediate diagnostics and progress messages,
  which the code ignores or overwrites, are left out, and so is the filter by
  severity.
* The server may refuse a version that does not increase.
* The initial edits (`didOpen`) of the first pool are over when the model starts.
* A crash once a rebuild has begun is its `Kill`.
* Goal requests have the fixed id `worker_id + 1000`, so that the answer to one
  that timed out goes to whoever waits with that id (`RespondLate`);
  `LspTransport` shows where this comes from.

### Monitor

| Variables | Code |
|---|---|
| `server`, `up`, `panics` | `client.process`, whether it lives, fatal lines not read yet |
| `gen`, `ready`, `stop`, `handle`, `open` | `_generation`, `server_ready`, `_stop`, `_process is not None`, the two queues are set |
| `task`, `begun`, `leaving` | tasks in flight with the generation that `task_started` returned and their age; interrupted tasks whose `finally` is still to run |
| `rx`, `cause`, `exit` | the receiver thread, the trigger it acts on, the thread in `LspClient.exit()` |
| `commands`, `events` | the two queues |
| `live`, `place`, `seen`, `root`, `paused`, `table`, `sincePoll`, `sleep` | the monitor process and its locals (`generation`, `root_pid`, `paused`, `tasks`, `last_deadline_poll`) |
| `exceeded` | history: a task of this server has been unanswered for longer than the deadline |

* Time is discrete. A round of the loop takes no time; `Tick` is a unit of its
  sleep, or passes while it is dead. Ages are kept instead of time stamps and
  stop to be counted where no test looks further (`Horizon`).
* Commands are drained one by one and anything may happen between them, between
  the last one and the look at the server, and between any two steps of a
  rebuild.
* A queue belongs to one monitor process: what is in it when the process dies is
  lost. `Watchdog.start` makes new queues when it has to start a process.
* The rounds of the guards, in the same loop of the code, are in `WorkerGuards`.
* `os.getppid() != parent_pid` is left out: the whole program is gone then.

### WorkerGuards

| Variables | Code |
|---|---|
| `proc`, `alive`, `scoped`, `oomed` | processes by number, with kind, server, document and parent; the living ones; those in an active scope; those killed at `MemoryMax` |
| `limited` | `memory_guards_enabled` |
| `root`, `gen`, `scopes`, `created` | `client.process`, `_generation`, `_worker_scopes`, the local `created` of `attach_worker_guards` |
| `rx`, `known`, `toKill` | the steps of `_restart`, `known_pids`, `to_kill` |
| `exit`, `registered`, `handler` | the thread in `exit()`, `_CHILD_ROOT_PIDS`, the handler of SIGTERM |
| `commands`, `events`, `busy` | the queues; `tasks` of the monitor |
| `place`, `seen`, `watched`, `paused`, `guards`, `missing`, `todo`, `checking`, `adopting` | the monitor's loop over the guards, with the rounds since `missing_since` |
| `forked`, `lost`, `held` | history, see `NothingSurvives` |

* A server is a tree of three levels (`lake`, `lean --server`, one
  `lean --worker` per document). A process that dies leaves its children to
  init. The server starts a worker for a document that has none, at any time, so
  that the tree changes between a walk and a kill.
* A walk is one step and the kill that follows it another. Process numbers are
  not reused.
* A scope is named after its process. Stopping it kills the process inside; the
  adoption of a dead process fails or has no effect.
* A worker without a limit is guarded but in no scope (`limited`); the soft limit
  may be exceeded by any busy worker.
* `exit()` starts while the receiver is idle. `Monitor` has the other case.

### LspTransport

| Variables | Code |
|---|---|
| `call` | per thread: where it is in `request` or `_rpc_call_once`, kind and id of its call, the first message in its `response_q` |
| `lastId`, `pending` | `message_id`, `_pending_requests` |
| `process`, `alive`, `open` | `client.process`, whether its root runs, the servers whose pipes some process still holds |
| `asked`, `out`, `fatal`, `panicked` | requests read by servers, responses in their pipes, fatal lines |
| `reader` | the reader threads, one for each `start()` |
| `phase` | the rebuild |
| `followed` | the pipe that the behaviour follows |
| `serials`, `abandoned`, `failed`, `doubled`, `shared` | history |

* Every call has a serial number, which the code does not have; it tells what a
  response answers.
* `plain` calls are those of `_submit_lsp` with the id `worker_id + 1000`,
  `initialize` has the id 0, and the calls of sessions count up from 1. `Offset`
  scales the 1000 down.
* A reader thread looks at `self.process` twice, for `poll()` and for the pipe,
  so that a thread of the old server may go on with the pipe of the new one.
  When two threads have read from a pipe, a message may be garbled: neither has
  it, and a broken header ends the thread.
* The threads of stdout and stderr share nothing but the process they look at,
  so a behaviour follows one of them.
* Processes of a killed server may hold its pipes for longer and answer
  (`ClosePipes` comes late or not at all): `WorkerGuards` shows that they may.

## 3. Runs

| Run | Instance | Question |
|---|---|---|
| `recovery_safety` | 2 requests, 2 workers, 1 fault, `Spec`, symmetry of requests | Is a task ever lost, duplicated, blamed while queued? Do callers see the abstract promise? |
| `recovery_faults` | 1 request, 1 worker, 2 faults, `FairSpec` | Does a rebuild that fails, or is followed by another, keep the gate honest, and does everything end? |
| `recovery_parked` | 1 request, 1 worker, 1 fault, `FairSpec` | violation, see findings |
| `recovery_drain` | 2 requests, 1 worker, 1 fault | violation, see findings |
| `rpc_sessions` | 1 worker, 2 calls, 2 lost sessions, `FairSpec` | Does a retry ever use the refused session? Does the teardown leave a thread waiting? Do calls, teardown and keep-alive thread end? |
| `document_edits` | 2 tasks, a rebuild, `FairSpec` | Are answers about the task's own text? Does poison stop an edit at every point? Do tasks end? |
| `document_stale` | 2 tasks, a rebuild | violation, see findings |
| `monitor` | 1 worker, 3 servers, 1 fault, 1 task per server, `exit()` at any time, clock | Is a wedge found in time? Is a server replaced twice, or without cause? Does observation come back? |
| `watchdog_stop` | the same without tasks, 2 servers | violation, see findings |
| `guards` | 2 workers, 2 servers, 10 processes, 2 faults, with and without limits | Does a scope lose its owner? Does the bookkeeping kill a worker in service? What survives a kill? |
| `transport` | 1 worker, 3 calls, 2 servers | Does an answer reach another call? Does the pending table match the calls? Is every message read? |
| `timeout_policy` | limit 2, 5 calls, any number of crashes | Are timeouts forgotten or counted twice? Does the sample stop at the limit, and only there? |

### Properties

`Recovery`:

* `OneCopy`: a waiting caller's task is in exactly one queue or worker; an
  answered caller, and one between attempts, has none. This is what makes the
  transparent retry safe.
* `SnapshotPoisoned`: once the poison was sent, each worker of the snapshot has
  it queued or has left; finishing the task in between does not lose it.
* `ToxicWasInFlight`: a toxic verdict only goes to a task that was executing
  when the snapshot was taken, in an outage, never to a drained one.
* `ImplementsResilientSubmission`: the refinement.
* `ReadyMeansServing`: the gate is open only over the pool of the announced
  server, initialized and routed, whatever step of a rebuild failed.
* `ReplacedWhileClosed`: pool and server are replaced behind the closed gate.
* `GateReopens`, `CallsEndOrPark`: liveness.

`TimeoutPolicy`:

* `ReceiptsMatchTranscript`: durable receipts are those of the recorded
  timeouts, plus at most that of the call being made.
* `StopsAtLimit`: Lean is not called at the limit, by either of the two tests.
* `NeverOvercounts`: the durable streak is at most the number of timeouts since
  the last recorded success; exhaustion needs `Limit` of them.
* `CountsOncePerCall`: the streak grows by one and with a new receipt.

`RpcSessions`:

* `RetryUsesNewSession`: whoever invalidates the session in between, the second
  attempt does not name the session that the server refused.
* `PendingIsWoken`: a request that was taken out of the pending table by the
  teardown has an answer in its queue.
* `CallsEnd`: a call ends, with the server dead, silent or replaced.
* `TeardownEnds`: the teardown gets past the locks of the sessions, and the
  keep-alive thread of the old pool exits.

`TeardownEnds` needs the 60 s timeout of `connect`: a teardown can wait for the
lock of a session whose owner waits for an answer, and only the teardown itself,
one step later, would fail that request. It is a delay, not a deadlock.

`DocumentEdits`:

* `ExactWhenAlone`: diagnostics and response of a successful task are about the
  imports followed by its own text, whatever was cancelled, late or rebuilt, as
  long as no thread of a replaced pool uses the new document, no text exceeds
  the range and no request has got the answer to one that timed out.
* `PoisonStopsEdit`: a poisoned edit does not end with success, in particular if
  the poison comes during its two seconds of sleep.
* `VersionsIncrease`: with each change, cancellations included.
* `TasksEnd`: a task ends, with the server dead, silent or replaced.

`Monitor`:

* `DetectedInTime`: a task unanswered for deadline + poll + one sleep has been
  reported, or its server is being replaced for another reason, whatever
  commands were in the queue and whatever the monitor paused for before. The
  timeout of a caller, 200 s against a deadline of 120 s and a poll of 60 s, is
  longer only while a sleep is shorter than the remaining 20 s.
* `TableMatches`: what the monitor believes to be in flight is in flight. The
  generation in each command makes this true although threads of a replaced pool
  use the worker ids of their successors.
* `OneTriggerPerServer`, `JustifiedRebuild`: a server gives rise to one trigger,
  and a rebuild begins only for a symptom of the server that it replaces, also
  after a rebuild that failed half way and left a report of its own server.
* `WatchedAgain`: an open service over a living, observed server comes back
  after a death of the server, of the monitor, or a failing rebuild.

`WorkerGuards`:

* `ScopesAreOwned`, `OwnerFollowsMonitor`: the monitor makes the scopes of
  replacements, the receiver owns them; whatever overtakes the message between
  the two, no living scope is without an owner, and when nothing is under way
  both know the same processes.
* `SparesCurrentWorkers`: a scope stopped while a replacement is handled never
  holds a worker of the server in service.
* `NothingSurvives`: which processes a kill can leave behind, exactly: those
  forked after the walk, and workers cut off from the root before the walk whose
  scope nobody held. Fallback lists, orphans and scopes cover the rest.
* `LostWorkerIsHandled`: a busy worker whose process is gone is found again or
  leads to a rebuild, also when adoptions fail.

`LspTransport`:

* `OwnAnswer`: as long as the two ranges of ids are apart (the first 1000
  session calls), a call gets the response to its own request. The exceptions
  are named: calls with a fixed id, after an earlier one of the same id was left
  without its answer, or while the thread of a replaced pool uses it.
* `TableMatchesCalls`: entries belong to running calls or to failed sends of the
  current teardown period, and a waiting call is in the table.
* `OutputIsRead`: what the running server writes is read, by the threads of its
  own `start()`, through rebuilds and unexpected messages.

Each module also has one type invariant. In `TimeoutPolicy` it includes that a
streak never exceeds the limit, which fails if a scope is entered unchecked; in
`RpcSessions`, that two connections are enough for each call; in `DocumentEdits`,
that a task uses at most two versions; in `Monitor`, that no monitor knows a
generation before the watchdog; in `WorkerGuards`, that only `lean --worker`
processes are put in scopes; in `LspTransport`, that ids are used once.

### Bounds

* `MaxFaults` bounds the faults: crashes, wedged Lean workers, a monitor that
  dies, memory and fatal-log reports, failures of a rebuild. Every rebuild is
  caused by a fault of its own, so there are at most `MaxFaults + 1` pools and
  server generations. One fault gives a full rebuild under two callers; two
  faults let a rebuild fail and be retried, or a second outage hit the new pool
  while threads of the first still run.
* Two requests are enough for one task executing and one queued behind it, or
  two in flight on two workers; with two workers an innocent worker is poisoned
  along with the guilty one. The one-worker violation runs need the queued task.
* `Limit = 2` and `MaxCalls = 5` give room for a broken streak followed by an
  exhausting one, with a replay at any place of either.

* `MaxCalls = 2` lets a call find the session that an earlier one has left
  behind, or that the keep-alive thread has dropped; `MaxLosses = 2` lets both
  attempts of a call be refused. It also bounds how often a worker can retake its
  lock ahead of the keep-alive thread and the teardown: with calls without end
  nothing in the code rules out that they starve. One worker, because liveness
  with two takes too long to check; workers share nothing but the keep-alive
  thread and the teardown, and the safety properties are proved for any number.

* `DocumentEdits`: two tasks are enough for one that is cancelled or late
  followed by another, on the same server or one on each side of the rebuild.
  `LastLine = 2` with one line of imports leaves room for one line of text.

* `Monitor`: with three servers a rebuild can fail after the second was announced
  and leave an event of it behind, and tasks of two generations meet in the
  queue. What makes another server necessary (faults, fatal lines, tasks) stops
  before the last one. `Deadline = 1`, `Poll = 1` and `MemPoll = 2` make the
  sleep longer than the poll, the unfavourable order.
* `WorkerGuards`: ten processes are two servers with two workers each and two
  replacements; `Grace = 1` round. With two faults a worker dies and then its
  adoption fails, or its replacement, the child or the root dies, or a signal
  arrives, on either server or one on each. The third server is not started: its
  rebuild stays where it would connect, which `LostWorkerIsHandled` does not need.
* `LspTransport`: three calls let one be late, one be answered by it and one run
  in the other pool; `Offset = 1` lets the ranges of ids meet.

`CHECK_DEADLOCK FALSE`: all calls may be over, and then nothing is left to do.

### Fairness

`Fairness` is weak fairness of each thread: each caller, router and worker, the
monitor and the receiver. The code justifies it: each is an OS thread or process
whose polls are periodic and whose waits have timeouts; the exceptions,
`server_ready.wait()` and the loop of a parked caller, are guards in the model.
No fault is fair, so no property relies on a fault to happen. Since a caller's
actions include its own timeout, `CallsEndOrPark` holds even if its worker is
stuck; that it needs no more is the point, as `RESILIENT_RESPONSE_TIMEOUT` is
the last resort of the code.

In `Monitor` the monitor, the receiver, the reader of stderr, `exit()` once begun,
and time are fair; faults, tasks and their ends are not. Rebuilds may fail as
long as the bound of servers is not reached, so `WatchedAgain` says that a
rebuild succeeds once failures end, which is what the retry loop promises. In
`WorkerGuards` the monitor and the receiver are fair, in `LspTransport` the reader
threads.

In `DocumentEdits` both threads and the rebuild (once begun) are fair, the server
is not. In `RpcSessions`, the workers, the keep-alive thread and the teardown are fair
(the teardown once it has begun) and the server is not, so every property holds
against a server that never answers.

## 4. Findings

Each is a property taken from the text of the repository that TLC refutes; the
run's counterexample is the scenario.

* `DeadServerRetries` (`client.py:180-193`). After a broken pipe a caller waits
  for the *next* closing of the gate. If it does not sample the gate while the
  rebuild is under way (one sample in 0.5 s), it waits for a restart that may
  never come, with no timeout.
* `DrainedForGood` (`worker.py:223-242`, `pool.py:154`). The router of a replaced
  pool may put a task on the queue of a worker that has drained it and left.
  Its caller gets a timeout instead of the retry.
* `PoolAnswersAreExact` (`pool.py:55`). The new pool's worker has the uri of its
  predecessor and counts versions from 0 again. A thread of the old pool that
  was idle at the snapshot, or has not met its poison, edits the document of the
  new worker; the new worker takes diagnostics of the other text for its own.
  `README.md:193` of the repository calls edit and query "a single atomic
  operation".
* `ExitIsFinal` (`watchdog.py:685`). `README.md:297` of the repository says that
  `exit()` kills the "full process tree" and leaves "no orphans". `stop()` waits
  five seconds for the receiver. A receiver inside a rebuild goes on: it starts a
  server after `exit()` has killed the old one, and `Watchdog.start` clears
  `_stop` and starts another monitor.

Further observations, met while modelling. The models contain the steps that
lead to them, and the properties above exclude or allow them by name:

* The report of a wedged worker names a worker, the mark goes to what it executes
  at the snapshot (`watchdog.py:1014`): if the suspect ends in between, the next
  task of that worker is rejected as toxic.
* A worker that takes a task between the snapshot and the kill is not poisoned
  (`watchdog.py:1028-1035`) and waits for its own timeout.
* The keep-alive thread may invalidate a session that has been reconnected since
  it looked at it (`rpc_session.py:151`); the call under way then fails with
  "Session ID is not set".
* A text of more than 999 lines leaves a tail in the document of the next task
  (`worker.py:329`).
* The answer to a goal request that timed out goes to the next request of that
  worker (`worker.py:265`), and a thread of a replaced pool can remove the entry
  of its successor (`client.py:536`).
* A reader thread of the old server may join the pipe of the new one
  (`client.py:400`, `client.py:439`); a fatal line may be lost that way.
* `exit()` raises before it kills anything if the root is dead
  (`client.py:633`).
* A fatal line of the old server that is read late is reported as one of the new
  server (`watchdog.py:755`).
* The handler of SIGTERM kills the servers but does not end the program
  (`client.py:342`): its watchdog starts another one.

## 5. Proofs

Every safety property of a passing run, invariant or action property, and the
refinement are stated by a theorem. Only the liveness properties
(`GateReopens`, `CallsEndOrPark`, `CallsEnd`, `TeardownEnds`, `TasksEnd`,
`WatchedAgain`, `LostWorkerIsHandled`, `OutputIsRead`) stay with TLC, since
fairness and ENABLED are out of the prover's reach, and so do the four findings,
each of which is a counterexample.

A theorem holds for every value of the constants that satisfies the named
assumptions of its module. Most of them say that a constant is a natural number,
or a positive one. The others:

* `Recovery`: `NoTask` is no request.
* `DocumentEdits`: `First < LastLine`, so that an edit has room for a line;
  `Restarts` is 0 or 1.
* `Monitor`: `Poll` is positive. `DetectedInTime` is false for 0, where a
  task can reach the age at the end of a sleep, just before the round that would
  report it.
* `WorkerGuards`: the workers are numbered from 1, as the client does, and
  `MaxProcs` has room for the first processes of every server that may be
  started. Below that a server would come up without its child because of the
  bound, which no program does.

Each module proves `Init => IInv`, `IInv /\ [Next]_vars => IInv'` (one lemma per
action or thread, one step per conjunct that it can disturb) and
`IInv => property`. TLC checked each inductive invariant on small instances
before it was proved.

`RecoveryProofs`:

* `TypeCorrect`: `Spec => []TypeOK`, one lemma per thread.
* `ReadyServes`: `ReadyMeansServing`. It is not inductive: that the pool behind
  an open gate belongs to the announced server depends on what the rebuild did
  before it opened the gate, on the attempts that failed on the way in
  particular. `GateInv` follows `pool`, `gen`, `ready` and `routing` through the
  phases.
* `ReplacementIsClosed`: `ReplacedWhileClosed`, from the same invariant.
* `PoisonReachesSnapshot`: `SnapshotPoisoned`, from a statement about the steps
  of a worker: only a worker that leaves consumes poison.
* `TaskIsOnce`: `OneCopy`. `CopyInv` says it place by place: a request that
  waits is in one queue at one position, or held by one worker, and one that
  does not wait is nowhere. Lemmas about appending to and taking from a queue
  say what a step moves; all other steps keep every copy where it is.
* `ToxicIsEarned`: `ToxicWasInFlight`, and `KeepsThePromise`: the refinement
  `ImplementsResilientSubmission`, step by step. Both need that whoever is told
  to retry, or gets a verdict, has met an outage. `InTarget` says that a task
  stays in the pool that its caller fetched, and `DisturbInv` that a caller of a
  replaced pool has met the outage that replaced it; that a worker whose poison
  or woken call is still to be consumed belongs to such a pool once the gate can
  open; and that behind a closed gate everyone has met one.

`TimeoutPolicyProofs`: all five properties of the run. The inductive invariant
`IInv` adds to the type and to `ReceiptsMatchTranscript` two parts. `InStep` says
how memory, file, result and feedback relate at each step of the process, so
that the new streak that `_persist` is about to write is known to be the old one
plus one receipt. `LastReceipt` says that the receipt of the current call is the
streak of the file; without it a replayed receipt could disagree with the
journal about exhaustion. `StreakIsEarned` adds a counting argument.

`RpcSessionsProofs`: the three invariants of the run. `IInv` is the type with
three parts. `Granted` counts the connections that the current call may still be
given, which bounds the ids. `SecondAttempt` says where a call can be in its
second attempt. `Later` orders the ids: after a refusal the client connects to a
later session than the refused one, and keeps it or none at each step up to the
second message. `TeardownWakes` has an invariant of its own about what is in the
response queues from `FailPending` on.

`DocumentEditsProofs`: the type, `ExactWhenAlone` (`AnswersAreAboutTheTask`),
`PoisonStopsEdit` and `VersionsIncrease`. `EditsInv` relates the rebuild to the
process and the version it holds (`PhaseInv`, `VersionInv`), the document to the
text of the task that has edited it (`LinesInv`), each message of the inbox to
the version of its receiver (`InboxInv`), and what was collected to the document
(`AnswersInv`): diagnostics of the awaited version are about the own text only
because no later version has been sent. Lemmas about sequences say what an edit
of a range makes of a document, and that it leaves exactly the imports and the
new text if the old text fitted the range.

`MonitorProofs`: the type and the four safety properties. The hard part is that
monitor and watchdog agree by what is in the queue: `SyncInv` says that the last
relevant command about a worker tells what it does, and the table does if there
is none; `QueueInv` and `Announced`, that generations and roots are announced in
order, and that a monitor that paused for the server in service is told of it
again. `TriggerInv` bounds the events and the trigger at hand to one for each
generation, `TruthInv` says that what was reported is so, and `AgeInv` how old a
task can be in each place of the loop before it is reported: `DetectedInTime` is
what is left of it.

`WorkerGuardsProofs`: the type and the four safety properties. `GuardsInv` has
ten parts. `TreeInv` is the shape of a server's processes, with room for those to
come. `OwnInv` says who holds a living scope: the records of the client, the
monitor, a message between them, or the thread that is about to record it.
`FollowInv` follows the messages about replacements in the queue as a chain, each
from the process that the last one has put there, from what the owner knows to
what the monitor does. There is none of them until the monitor has read which
guards the receiver made.
`SurviveInv` says what the lists of a rebuild hold after each walk and kill
(`WalkInv`, `KillInv`, `DeadInv`), and which processes they miss. TLC checked the
whole of it with two workers, two servers, two faults and ten processes
(1.2 million states), and with one worker, three servers, three faults and eleven
processes (3.8 million).

`LspTransportProofs`: the type, `OwnAnswer` and `TableMatchesCalls`. A call has
at most one message in all pipes and readers together (`SingleCopy`), with the
id of the call, and none before it was sent or after it was answered
(`MessagesOfCalls`); a late one is that of an abandoned call, and an entry of the
table names the call whose thread waits, unless an id is used twice. The parts about
late messages and shared ids need the ranges to be apart (`lastId <= Offset`).

## 6. Not modelled yet, and the plan

Next is a module `LeanSearch`: the bounded ranked search of the extension as a
function, checked against a reference definition. Two components are modelled in
part, the pool without its convenience methods and `_submit`, and the worker
thread without the arguments and results of its task types.

Left out for good: the data conversions of the Lean extension (syntax trees and
rendering), the observability events (pure output), the convenience methods that
only build arguments, the demo.
