------------------------------ MODULE Recovery ------------------------------
(***************************************************************************)
(* The recovery protocol of PyLeaner: callers inside submit_resilient, the *)
(* worker pools with their router and worker threads, the one Lean server  *)
(* process they talk to, the monitor process that reports triggers and the *)
(* event receiver thread that rebuilds server and pool (Watchdog._restart).*)
(*                                                                         *)
(* An action is one step of one thread between two points where another    *)
(* thread can observe it: a put or get on a shared queue, an Event, a      *)
(* write to the server's pipe, an assignment to a shared attribute.        *)
(*                                                                         *)
(* Time is not modelled here: a deadline or a timeout is a step that may   *)
(* happen as soon as what is waited for cannot make progress.              *)
(*                                                                         *)
(* A definition whose name starts with "Bug" is not part of the model: it  *)
(* is the definition after it with a plausible mistake, which the property *)
(* named in its comment must detect (see README).                          *)
(***************************************************************************)
EXTENDS Integers, Sequences, FiniteSets

CONSTANTS Requests,     \* calls of submit_resilient, one task each
          NWorkers,     \* size of the pool (Watchdog.arm)
          MaxFaults,    \* BOUND: what goes wrong, in total
          NoTask        \* current_task is None

ASSUME WorkersAssumption == NWorkers \in Nat \ {0}
ASSUME FaultsAssumption  == MaxFaults \in Nat
ASSUME NoTaskAssumption  == NoTask \notin Requests

Workers == 1..NWorkers           \* Worker.worker_id
MaxPools == MaxFaults + 1        \* every rebuild has a fault of its own
Pools == 1..MaxPools             \* WorkerPool objects, in order of creation
Slots == Pools \X Workers        \* Worker objects: <<pool, worker_id>>

Places   == {"gate", "entered", "fetched", "waiting", "parked"}
Outcomes == {"ok", "error", "timeout", "toxic"}
Replies  == {"none", "ok", "error", "timeout", "toxic", "overdue", "retry", "dead"}
Steps    == {"idle", "begun", "edit", "call", "rpc", "woken", "ended",
             "leaving", "exited"}
Phases   == {"idle", "closing", "mark", "poison", "teardown", "kill",
             "connect", "build", "init", "attach"}
Triggers == {"deadline", "worker", "death", "fatal", "watchdog_death"}

VARIABLES
  \* the callers: where each one is, the pool it fetched, its result_q
  pc, target, reply,
  \* the pools: overall_task_queue, _selection_cursor, the workers whose
  \* _ready is set, and the pools whose router thread was started
  overall, cursor, ready, routing,
  \* the workers: task_queue, current_task, what its thread is doing, the
  \* task's _culprit mark, POISON in notification_queue, the server
  \* generation the last message went to, and watchdog_generation
  queue, current, step, marked, poison, sentTo, since,
  \* the server process: running, the Lean workers that no longer answer,
  \* and Watchdog._generation
  alive, wedged, gen,
  \* the monitor process: its mode, its table of started tasks (the pool of
  \* the latest starter, 0 for none), and the event queue it fills
  monitor, tracked, events,
  \* the receiver thread: server_ready, client.worker_pool, the next step of
  \* _restart, the event it acts on, and its snapshot of in-flight workers
  serverReady, pool, phase, cause, pairs,
  \* the number of faults so far, and (history) the requests for which the
  \* gate was closed since they last passed it
  faults, disturbed

callerVars  == <<pc, target, reply>>
poolVars    == <<overall, cursor, ready, routing>>
workerVars  == <<queue, current, step, marked, poison, sentTo, since>>
serverVars  == <<alive, wedged, gen>>
monitorVars == <<monitor, tracked, events>>
restartVars == <<serverReady, pool, phase, cause, pairs>>
countVars   == <<faults, disturbed>>
vars == <<callerVars, poolVars, workerVars, serverVars, monitorVars,
          restartVars, countVars>>

Event(trigger, ids) == [gen |-> gen, trigger |-> trigger, ids |-> ids]

NoCause == [gen |-> 0, trigger |-> "death", ids |-> {}]

Init ==
  /\ pc = [r \in Requests |-> "gate"]
  /\ target = [r \in Requests |-> 1]
  /\ reply = [r \in Requests |-> "none"]
  /\ overall = [p \in Pools |-> <<>>]
  /\ cursor = [p \in Pools |-> 0]
  /\ \E healthy \in SUBSET Workers :
       healthy # {} /\ ready = [p \in Pools |-> IF p = 1 THEN healthy ELSE {}]
  /\ routing = {1}
  /\ queue = [s \in Slots |-> <<>>]
  /\ current = [s \in Slots |-> NoTask]
  /\ step = [s \in Slots |-> "idle"]
  /\ marked = [s \in Slots |-> "no"]
  /\ poison = [s \in Slots |-> FALSE]
  /\ sentTo = [s \in Slots |-> 0]
  /\ since = [s \in Slots |-> 0]
  /\ alive = TRUE /\ wedged = {} /\ gen = 1
  /\ monitor = "watching" /\ tracked = [w \in Workers |-> 0] /\ events = <<>>
  /\ serverReady = TRUE /\ pool = 1 /\ phase = "idle"
  /\ cause = NoCause /\ pairs = {}
  /\ faults = 0 /\ disturbed = {}

-----------------------------------------------------------------------------
(***************************************************************************)
(* Callers: the loop of _submit_resilient.                                 *)
(***************************************************************************)

\* Without the wait.  (ImplementsResilientSubmission)
BugPassGate(r) ==
  /\ pc[r] = "gate"
  /\ pc' = [pc EXCEPT ![r] = "entered"]
  /\ disturbed' = disturbed \ {r}
  /\ UNCHANGED <<target, reply, poolVars, workerVars, serverVars, monitorVars,
                 restartVars, faults>>

\* server_ready.wait() returns.
PassGate(r) ==
  /\ pc[r] = "gate" /\ serverReady
  /\ pc' = [pc EXCEPT ![r] = "entered"]
  /\ disturbed' = disturbed \ {r}
  /\ UNCHANGED <<target, reply, poolVars, workerVars, serverVars, monitorVars,
                 restartVars, faults>>

\* pool = client.worker_pool, which a restart may replace at any moment.
FetchPool(r) ==
  /\ pc[r] = "entered"
  /\ pc' = [pc EXCEPT ![r] = "fetched"]
  /\ target' = [target EXCEPT ![r] = pool]
  /\ UNCHANGED <<reply, poolVars, workerVars, serverVars, monitorVars,
                 restartVars, countVars>>

\* A new (empty) result_q, and pool.submit_task on the pool fetched before.
Submit(r) ==
  /\ pc[r] = "fetched"
  /\ pc' = [pc EXCEPT ![r] = "waiting"]
  /\ overall' = [overall EXCEPT ![target[r]] = Append(@, r)]
  /\ UNCHANGED <<target, reply, cursor, ready, routing, workerVars, serverVars,
                 monitorVars, restartVars, countVars>>

\* Where a caller goes with the answer it reads from result_q.
AfterAnswer(answer) ==
  CASE answer = "retry"   -> "gate"       \* ServiceUnavailable, not toxic
    [] answer = "dead"    -> "parked"     \* _is_dead_server_error
    [] answer = "overdue" -> "timeout"    \* toxic with a deadline reason
    [] OTHER              -> answer

Receive(r) ==
  /\ pc[r] = "waiting" /\ reply[r] # "none"
  /\ pc' = [pc EXCEPT ![r] = AfterAnswer(reply[r])]
  /\ reply' = [reply EXCEPT ![r] = "none"]
  /\ UNCHANGED <<target, poolVars, workerVars, serverVars, monitorVars,
                 restartVars, countVars>>

\* No timeout once the pool is replaced, as if every task of the old pool were
\* answered by its poisoned workers.  (CallsEndOrPark)
BugResponseTimeout(r) ==
  /\ pc[r] = "waiting" /\ reply[r] = "none" /\ target[r] = pool
  /\ pc' = [pc EXCEPT ![r] = "timeout"]
  /\ UNCHANGED <<target, reply, poolVars, workerVars, serverVars, monitorVars,
                 restartVars, countVars>>

\* rq.get() raises queue.Empty: the wait includes the time spent in queues,
\* so it may end whatever the task is doing.
ResponseTimeout(r) ==
  /\ pc[r] = "waiting" /\ reply[r] = "none"
  /\ pc' = [pc EXCEPT ![r] = "timeout"]
  /\ UNCHANGED <<target, reply, poolVars, workerVars, serverVars, monitorVars,
                 restartVars, countVars>>

\* while server_ready.is_set(): sleep(0.5)   ... then retry.
Unpark(r) ==
  /\ pc[r] = "parked" /\ ~serverReady
  /\ pc' = [pc EXCEPT ![r] = "gate"]
  /\ UNCHANGED <<target, reply, poolVars, workerVars, serverVars, monitorVars,
                 restartVars, countVars>>

Caller(r) == \/ PassGate(r) \/ FetchPool(r) \/ Submit(r) \/ Receive(r)
             \/ ResponseTimeout(r) \/ Unpark(r)

-----------------------------------------------------------------------------
(***************************************************************************)
(* Router: least loaded initialized worker, ties rotate.  The router of a  *)
(* replaced pool is never stopped.                                         *)
(***************************************************************************)
Load(s) == Len(queue[s]) + (IF current[s] = NoTask THEN 0 ELSE 1)

Distance(p, w) == (w - 1 - cursor[p]) % NWorkers

Preferred(p, w) ==
  /\ w \in ready[p]
  /\ \A v \in ready[p] :
       \/ Load(<<p, w>>) < Load(<<p, v>>)
       \/ Load(<<p, w>>) = Load(<<p, v>>) /\ Distance(p, w) <= Distance(p, v)

\* Without the modulo.  (TypeOK)
BugCursorAfter(w) == w

CursorAfter(w) == w % NWorkers

Route(p) ==
  /\ p \in routing /\ overall[p] # <<>>
  /\ \E w \in Workers :
       /\ Preferred(p, w)
       /\ queue' = [queue EXCEPT ![<<p, w>>] = Append(@, Head(overall[p]))]
       /\ cursor' = [cursor EXCEPT ![p] = CursorAfter(w)]
  /\ overall' = [overall EXCEPT ![p] = Tail(@)]
  /\ UNCHANGED <<callerVars, ready, routing, current, step, marked, poison,
                 sentTo, since, serverVars, monitorVars, restartVars, countVars>>

-----------------------------------------------------------------------------
(***************************************************************************)
(* Workers: Worker._run and the two ways a task waits for the server: for  *)
(* notifications after a didChange ("edit"), which client routes to the    *)
(* worker of that uri in the CURRENT pool, and for the response of a       *)
(* request ("rpc"), which is matched by id whatever the pool.              *)
(***************************************************************************)
Working == {"begun", "edit", "call", "rpc", "woken"}   \* task not answered yet

Responsive(s) == alive /\ sentTo[s] = gen /\ s[2] \notin wedged

\* What the step of worker s waits for can never arrive.
Stuck(s) == \/ step[s] = "edit" /\ ~(Responsive(s) /\ s[1] = pool)
            \/ step[s] = "rpc"  /\ ~Responsive(s)

\* result_q.put: nobody reads the answer of a caller that has left.
Answer(r, what) ==
  reply' = IF pc[r] = "waiting" THEN [reply EXCEPT ![r] = what] ELSE reply

Take(s) ==
  /\ step[s] = "idle" /\ queue[s] # <<>>
  /\ current' = [current EXCEPT ![s] = Head(queue[s])]
  /\ queue' = [queue EXCEPT ![s] = Tail(@)]
  /\ step' = [step EXCEPT ![s] = "begun"]
  /\ since' = [since EXCEPT ![s] = gen]
  /\ tracked' = [tracked EXCEPT ![s[2]] = s[1]]
  /\ UNCHANGED <<callerVars, poolVars, marked, poison, sentTo, serverVars,
                 monitor, events, restartVars, countVars>>

\* The start of a task that edits its document, and the request of a task
\* (after its edit, or at once), written to the pipe of client.process.
Send(s) ==
  /\ alive
  /\ \/ step[s] = "begun" /\ step' = [step EXCEPT ![s] = "edit"]
     \/ step[s] \in {"begun", "call"} /\ step' = [step EXCEPT ![s] = "rpc"]
  /\ sentTo' = [sentTo EXCEPT ![s] = gen]
  /\ UNCHANGED <<callerVars, poolVars, queue, current, marked, poison, since,
                 serverVars, monitorVars, restartVars, countVars>>

\* The task ends with an answer; result_q.put comes before the finally block.
Answered(s, what) ==
  /\ Answer(current[s], what)
  /\ step' = [step EXCEPT ![s] = "ended"]
  /\ UNCHANGED <<pc, target, poolVars, queue, current, marked, poison, sentTo,
                 since, serverVars, monitorVars, restartVars, countVars>>

SendFails(s) == step[s] \in {"begun", "call"} /\ ~alive /\ Answered(s, "dead")

\* fileProgress and diagnostics of the edit arrived: some tasks are done now,
\* the others go on to send a request.
EditDone(s) == /\ step[s] = "edit" /\ ~Stuck(s) /\ ~poison[s]
               /\ Answered(s, "ok")

EditThenCall(s) ==
  /\ step[s] = "edit" /\ ~Stuck(s) /\ ~poison[s]
  /\ step' = [step EXCEPT ![s] = "call"]
  /\ UNCHANGED <<callerVars, poolVars, queue, current, marked, poison, sentTo,
                 since, serverVars, monitorVars, restartVars, countVars>>

Respond(s) == /\ step[s] = "rpc" /\ ~Stuck(s)
              /\ \E what \in {"ok", "error"} : Answered(s, what)

\* The worker's own timeout (120 s for an edit, 160 s for a request).
TaskTimeout(s) == Stuck(s) /\ Answered(s, "timeout")

Queued(s, r) == \E i \in DOMAIN queue[s] : queue[s][i] = r

\* Drained tasks are dropped without an answer.  (OneCopy)
BugDrainAnswer(s, r) ==
  IF r = current[s] THEN IF marked[s] = "no" THEN "retry" ELSE marked[s]
  ELSE reply[r]

\* Drained tasks share the mark of the current one.  (ToxicWasInFlight)
BugDrainMark(s, r) ==
  IF r = current[s] \/ Queued(s, r)
    THEN IF marked[s] = "no" THEN "retry" ELSE marked[s]
  ELSE reply[r]

\* What a poisoned worker answers: the current task according to its mark,
\* every task drained from task_queue as innocent.
DrainAnswer(s, r) ==
  IF r = current[s] THEN IF marked[s] = "no" THEN "retry" ELSE marked[s]
  ELSE IF Queued(s, r) THEN "retry"
  ELSE reply[r]

\* ServiceUnavailable reaches Worker._run.
OnServiceUnavailable(s) ==
  /\ \/ step[s] = "edit" /\ poison[s]
     \/ step[s] = "woken"
  /\ reply' = [r \in Requests |->
                IF pc[r] = "waiting" THEN DrainAnswer(s, r) ELSE reply[r]]
  /\ queue' = [queue EXCEPT ![s] = <<>>]
  /\ poison' = [poison EXCEPT ![s] = @ /\ step[s] # "edit"]
  /\ step' = [step EXCEPT ![s] = "leaving"]
  /\ UNCHANGED <<pc, target, poolVars, current, marked, sentTo, since,
                 serverVars, monitorVars, restartVars, countVars>>

\* The finally block: task_finished, current_task = None; then the thread
\* loops or, after ServiceUnavailable, exits.
Finally(s) ==
  /\ step[s] \in {"ended", "leaving"}
  /\ step' = [step EXCEPT ![s] = IF @ = "ended" THEN "idle" ELSE "exited"]
  /\ tracked' = IF since[s] = gen THEN [tracked EXCEPT ![s[2]] = 0] ELSE tracked
  /\ current' = [current EXCEPT ![s] = NoTask]
  /\ marked' = [marked EXCEPT ![s] = "no"]
  /\ sentTo' = [sentTo EXCEPT ![s] = 0]
  /\ since' = [since EXCEPT ![s] = 0]
  /\ UNCHANGED <<callerVars, poolVars, queue, poison, serverVars, monitor,
                 events, restartVars, countVars>>

Worker(s) == \/ Take(s) \/ Send(s) \/ SendFails(s) \/ EditDone(s)
             \/ EditThenCall(s) \/ Respond(s) \/ TaskTimeout(s)
             \/ OnServiceUnavailable(s) \/ Finally(s)

-----------------------------------------------------------------------------
(***************************************************************************)
(* Faults, and the monitor process that reports them.  It reports once and *)
(* is then paused until the next server is announced to it.                *)
(***************************************************************************)
Fault == faults < MaxFaults /\ faults' = faults + 1

\* The Lean server process exits.
Crash ==
  /\ Fault /\ alive
  /\ alive' = FALSE /\ wedged' = {}
  /\ UNCHANGED <<callerVars, poolVars, workerVars, gen, monitorVars,
                 restartVars, disturbed>>

\* The Lean worker of a document that is being processed stops answering.
Wedge(w) ==
  /\ Fault /\ alive /\ w \notin wedged
  /\ \E p \in Pools : step[<<p, w>>] \in {"edit", "rpc"} /\ sentTo[<<p, w>>] = gen
  /\ wedged' = wedged \cup {w}
  /\ UNCHANGED <<callerVars, poolVars, workerVars, alive, gen, monitorVars,
                 restartVars, disturbed>>

\* The monitor process itself dies.
MonitorDies ==
  /\ Fault /\ monitor # "dead"
  /\ monitor' = "dead"
  /\ UNCHANGED <<callerVars, poolVars, workerVars, serverVars, tracked, events,
                 restartVars, disturbed>>

Report(event) ==
  /\ monitor = "watching"
  /\ monitor' = "paused"
  /\ events' = Append(events, event)
  /\ UNCHANGED <<callerVars, poolVars, workerVars, serverVars, tracked,
                 restartVars, disturbed>>

ReportDeath == ~alive /\ Report(Event("death", {})) /\ UNCHANGED faults

\* A fatal line on the server's stderr (Watchdog.flag_fatal).
ReportFatal == alive /\ Fault /\ Report(Event("fatal", {}))

Overdue == {w \in Workers : tracked[w] # 0 /\ Stuck(<<tracked[w], w>>)}

\* The deadline poll.  A task that waits in vain without any fault before it
\* (see Stuck) is counted as a fault here, to bound the rebuilds.
ReportOverdue(ids) ==
  /\ alive /\ ids # {} /\ ids \subseteq Overdue
  /\ IF ids \cap wedged = {} THEN Fault ELSE UNCHANGED faults
  /\ Report(Event("deadline", ids))

\* A guard finds the worker over its memory limit, whether it executes a task
\* or not (the hard limit), whatever the state of its process.
ReportMemory(w) ==
  /\ alive /\ Fault
  /\ Report(Event("worker", {w}))

\* A guard finds the process of a worker gone, without a replacement, while the
\* worker executes a task.
ReportWorker(w) ==
  /\ alive /\ w \in wedged /\ tracked[w] # 0
  /\ Report(Event("worker", {w})) /\ UNCHANGED faults

Monitor == \/ ReportDeath
           \/ \E ids \in SUBSET Workers : ReportOverdue(ids)
           \/ \E w \in Workers : ReportWorker(w)

-----------------------------------------------------------------------------
(***************************************************************************)
(* The receiver thread: _receive_events, _recover_with_retry, _restart.    *)
(* A failure in or after connect starts _restart again with the same cause.*)
(***************************************************************************)
TakeEvent ==
  /\ phase = "idle" /\ events # <<>>
  /\ events' = Tail(events)
  /\ IF Head(events).gen = gen
       THEN cause' = Head(events) /\ phase' = "closing"
       ELSE UNCHANGED <<cause, phase>>
  /\ UNCHANGED <<callerVars, poolVars, workerVars, serverVars, monitor, tracked,
                 serverReady, pool, pairs, countVars>>

MonitorLost ==
  /\ phase = "idle" /\ events = <<>> /\ monitor = "dead"
  /\ cause' = Event("watchdog_death", {})
  /\ phase' = "closing"
  /\ UNCHANGED <<callerVars, poolVars, workerVars, serverVars, monitorVars,
                 serverReady, pool, pairs, countVars>>

\* Without server_ready.clear().  (ReplacedWhileClosed)
BugCloseGate ==
  /\ phase = "closing" /\ phase' = "mark"
  /\ monitor' = IF monitor = "dead" THEN "dead" ELSE "paused"
  /\ tracked' = [w \in Workers |-> 0]
  /\ disturbed' = Requests
  /\ UNCHANGED <<callerVars, poolVars, workerVars, serverVars, events,
                 serverReady, pool, cause, pairs, faults>>

\* server_ready.clear(); _pause_monitor()
CloseGate ==
  /\ phase = "closing" /\ phase' = "mark"
  /\ serverReady' = FALSE
  /\ monitor' = IF monitor = "dead" THEN "dead" ELSE "paused"
  /\ tracked' = [w \in Workers |-> 0]
  /\ disturbed' = Requests
  /\ UNCHANGED <<callerVars, poolVars, workerVars, serverVars, events, pool,
                 cause, pairs, faults>>

InFlight == {s \in Slots : s[1] = pool /\ current[s] # NoTask}

Precise == {"deadline", "worker", "watchdog_death"}

Culprits == IF cause.trigger \in Precise
              THEN {s \in InFlight : s[2] \in cause.ids} ELSE InFlight

MarkCulprits ==
  /\ phase = "mark" /\ phase' = "poison"
  /\ pairs' = InFlight
  /\ marked' = [s \in Slots |->
       IF s \notin Culprits THEN marked[s]
       ELSE IF cause.trigger = "deadline" THEN "overdue" ELSE "toxic"]
  /\ UNCHANGED <<callerVars, poolVars, queue, current, step, poison, sentTo,
                 since, serverVars, monitorVars, serverReady, pool, cause,
                 countVars>>

\* Only the culprits are poisoned.  (SnapshotPoisoned)
BugPoisonWorkers ==
  /\ phase = "poison" /\ phase' = "teardown"
  /\ poison' = [s \in Slots |-> poison[s] \/ (s \in pairs /\ marked[s] # "no")]
  /\ UNCHANGED <<callerVars, poolVars, queue, current, step, marked, sentTo,
                 since, serverVars, monitorVars, serverReady, pool, cause,
                 pairs, countVars>>

PoisonWorkers ==
  /\ phase = "poison" /\ phase' = "teardown"
  /\ poison' = [s \in Slots |-> poison[s] \/ s \in pairs]
  /\ UNCHANGED <<callerVars, poolVars, queue, current, step, marked, sentTo,
                 since, serverVars, monitorVars, serverReady, pool, cause,
                 pairs, countVars>>

\* _teardown_pool_state: ServiceUnavailable to every pending request.
TearDown ==
  /\ phase = "teardown" /\ phase' = "kill"
  /\ step' = [s \in Slots |-> IF step[s] = "rpc" THEN "woken" ELSE step[s]]
  /\ UNCHANGED <<callerVars, poolVars, queue, current, marked, poison, sentTo,
                 since, serverVars, monitorVars, serverReady, pool, cause,
                 pairs, countVars>>

KillTree ==
  /\ phase = "kill" /\ phase' = "connect"
  /\ alive' = FALSE /\ wedged' = {}
  /\ UNCHANGED <<callerVars, poolVars, workerVars, gen, monitorVars,
                 serverReady, pool, cause, pairs, countVars>>

\* client.connect: a new process, then watchdog.start announces it; a dead
\* monitor is replaced, with new queues.
Connect ==
  /\ phase = "connect" /\ phase' = "build"
  /\ gen < MaxPools
  /\ alive' = TRUE /\ gen' = gen + 1 /\ UNCHANGED wedged
  /\ monitor' = "watching"
  /\ tracked' = [w \in Workers |-> 0]
  /\ events' = IF monitor = "dead" THEN <<>> ELSE events
  /\ UNCHANGED <<callerVars, poolVars, workerVars, serverReady, pool, cause,
                 pairs, countVars>>

\* The exception ends _recover_with_retry.  (GateReopens)
BugConnectFails ==
  /\ phase = "connect" /\ phase' = "idle" /\ Fault
  /\ UNCHANGED <<callerVars, poolVars, workerVars, serverVars, monitorVars,
                 serverReady, pool, cause, pairs, disturbed>>

ConnectFails ==
  /\ phase = "connect" /\ phase' = "closing" /\ Fault
  /\ UNCHANGED <<callerVars, poolVars, workerVars, serverVars, monitorVars,
                 serverReady, pool, cause, pairs, disturbed>>

\* create_pool: client.worker_pool is the new pool before any worker of it is
\* initialized and before its router runs.
BuildPool ==
  /\ phase = "build" /\ phase' = "init"
  /\ pool < MaxPools
  /\ pool' = pool + 1
  /\ UNCHANGED <<callerVars, poolVars, workerVars, serverVars, monitorVars,
                 serverReady, cause, pairs, countVars>>

InitPool(healthy) ==
  /\ phase = "init" /\ phase' = "attach"
  /\ alive /\ healthy # {} /\ healthy \cap wedged = {}
  /\ ready' = [ready EXCEPT ![pool] = healthy]
  /\ routing' = routing \cup {pool}
  /\ UNCHANGED <<callerVars, overall, cursor, workerVars, serverVars,
                 monitorVars, serverReady, pool, cause, pairs, countVars>>

\* No worker initialized: RuntimeError, and the router is never started.
InitFails ==
  /\ phase = "init" /\ phase' = "closing"
  /\ ~alive \/ wedged = Workers
  /\ UNCHANGED <<callerVars, poolVars, workerVars, serverVars, monitorVars,
                 serverReady, pool, cause, pairs, countVars>>

\* The failure is only printed, as that of a single worker.  (ReadyMeansServing)
BugInitRejected ==
  /\ phase = "init" /\ phase' = "attach"
  /\ alive /\ wedged # Workers /\ Fault
  /\ UNCHANGED <<callerVars, poolVars, workerVars, serverVars, monitorVars,
                 serverReady, pool, cause, pairs, disturbed>>

\* The same because no worker elaborates the base text in time.
InitRejected ==
  /\ phase = "init" /\ phase' = "closing"
  /\ alive /\ wedged # Workers /\ Fault
  /\ UNCHANGED <<callerVars, poolVars, workerVars, serverVars, monitorVars,
                 serverReady, pool, cause, pairs, disturbed>>

\* attach_worker_guards needs a live server; then server_ready.set().
OpenGate ==
  /\ phase = "attach" /\ alive
  /\ phase' = "idle" /\ serverReady' = TRUE /\ cause' = NoCause
  /\ UNCHANGED <<callerVars, poolVars, workerVars, serverVars, monitorVars,
                 pool, pairs, countVars>>

AttachFails ==
  /\ phase = "attach" /\ ~alive
  /\ phase' = "closing"
  /\ UNCHANGED <<callerVars, poolVars, workerVars, serverVars, monitorVars,
                 serverReady, pool, cause, pairs, countVars>>

Rebuild == \/ TakeEvent \/ MonitorLost \/ CloseGate \/ MarkCulprits
           \/ PoisonWorkers \/ TearDown \/ KillTree \/ Connect \/ BuildPool
           \/ \E healthy \in SUBSET Workers : InitPool(healthy)
           \/ InitFails \/ OpenGate \/ AttachFails

-----------------------------------------------------------------------------
Faults == \/ Crash \/ MonitorDies \/ ReportFatal \/ ConnectFails \/ InitRejected
          \/ \E w \in Workers : Wedge(w) \/ ReportMemory(w)

Next == \/ \E r \in Requests : Caller(r)
        \/ \E p \in Pools : Route(p)
        \/ \E s \in Slots : Worker(s)
        \/ Monitor \/ Rebuild \/ Faults

Spec == Init /\ [][Next]_vars

(***************************************************************************)
(* Every thread and process of the program keeps running: the operating    *)
(* system schedules it, its polls are periodic and its waits have          *)
(* timeouts.  Nothing makes a fault happen.                                *)
(***************************************************************************)
Fairness == /\ \A r \in Requests : WF_vars(Caller(r))
            /\ \A p \in Pools : WF_vars(Route(p))
            /\ \A s \in Slots : WF_vars(Worker(s))
            /\ WF_vars(Monitor)
            /\ WF_vars(Rebuild)

FairSpec == Spec /\ Fairness

-----------------------------------------------------------------------------
(***************************************************************************)
(* Properties                                                              *)
(***************************************************************************)

\* The type of every variable.
EventType == [gen : Pools, trigger : Triggers, ids : SUBSET Workers]

CallerType ==
  /\ pc \in [Requests -> Places \cup Outcomes]
  /\ target \in [Requests -> Pools]
  /\ reply \in [Requests -> Replies]

PoolType ==
  /\ overall \in [Pools -> Seq(Requests)]
  /\ cursor \in [Pools -> 0..(NWorkers - 1)]
  /\ ready \in [Pools -> SUBSET Workers]
  /\ routing \in SUBSET Pools

WorkerType ==
  /\ queue \in [Slots -> Seq(Requests)]
  /\ current \in [Slots -> Requests \cup {NoTask}]
  /\ step \in [Slots -> Steps]
  /\ marked \in [Slots -> {"no", "toxic", "overdue"}]
  /\ poison \in [Slots -> BOOLEAN]
  /\ sentTo \in [Slots -> Pools \cup {0}]
  /\ since \in [Slots -> Pools \cup {0}]

WatchdogType ==
  /\ alive \in BOOLEAN /\ wedged \in SUBSET Workers /\ gen \in Pools
  /\ monitor \in {"watching", "paused", "dead"}
  /\ tracked \in [Workers -> Pools \cup {0}]
  /\ events \in Seq(EventType)
  /\ serverReady \in BOOLEAN /\ pool \in Pools /\ phase \in Phases
  /\ cause \in EventType \cup {NoCause}
  /\ pairs \in SUBSET Slots
  /\ faults \in 0..MaxFaults
  /\ disturbed \in SUBSET Requests

TypeOK == CallerType /\ PoolType /\ WorkerType /\ WatchdogType

\* The places of the program that hold the unanswered task of request r.
Positions(seq, r) == {i \in DOMAIN seq : seq[i] = r}

Copies(r) ==
  (UNION {{<<"overall", <<p, 0>>, i>> : i \in Positions(overall[p], r)} : p \in Pools})
  \cup (UNION {{<<"queue", s, i>> : i \in Positions(queue[s], r)} : s \in Slots})
  \cup {<<"current", s, 1>> : s \in {t \in Slots : step[t] \in Working
                                                   /\ current[t] = r}}

\* A task is neither lost nor duplicated by routing, timeouts, poison, drain
\* and retry: a caller that waits on an empty result_q has its task in exactly
\* one place; a caller that was answered, or that is between two attempts, has
\* none anywhere, so no stale copy of it can run beside the next attempt.
OneCopy ==
  \A r \in Requests :
    /\ pc[r] = "waiting" /\ reply[r] = "none" => Cardinality(Copies(r)) = 1
    /\ pc[r] = "waiting" /\ reply[r] # "none" => Copies(r) = {}
    /\ pc[r] \in {"gate", "entered", "fetched", "parked"} => Copies(r) = {}

\* server_ready is set only while the pool callers will fetch is the pool of
\* the announced server, has an initialized worker and a running router, and
\* no rebuild is past its first step, whatever failed during the rebuild.
ReadyMeansServing ==
  serverReady => /\ phase \in {"idle", "closing"}
                 /\ pool = gen
                 /\ pool \in routing /\ ready[pool] # {}

\* Every worker that was in flight when _restart took its snapshot meets the
\* poison: it is still queued for it, or it has ended the thread.  (A worker
\* that had just finished keeps it for its next task.)
SnapshotPoisoned ==
  phase \notin {"closing", "mark", "poison"} =>
    \A s \in pairs : poison[s] \/ step[s] \in {"leaving", "exited"}

\* client.worker_pool is replaced, and a new server announced, only while the
\* gate is closed: a caller that passes an open gate and fetches the pool
\* before the next outage never holds a pool that was replaced under it.
ReplacedWhileClosed ==
  [][pool' # pool \/ gen' # gen => ~serverReady /\ ~serverReady']_vars

\* A toxic verdict goes to a task that was being executed, on a worker of the
\* pool that a rebuild interrupted: never to a task drained from a queue.
ToxicWasInFlight ==
  [][\A r \in Requests :
       reply[r] = "none" /\ reply'[r] \in {"toxic", "overdue"} =>
         /\ r \in disturbed
         /\ \E s \in Slots : current[s] = r /\ marked[s] = reply'[r]]_vars

\* submit_resilient as its callers see it.
Abstract == INSTANCE ResilientSubmission WITH
  where <- [r \in Requests |->
              IF pc[r] = "gate" THEN "outside"
              ELSE IF pc[r] \in {"entered", "fetched", "waiting"} THEN "inside"
              ELSE pc[r]],
  open <- serverReady

\* Recovery implements the promise of ResilientSubmission: a transparent retry
\* or a toxic rejection only after an outage that began since the call last
\* passed the gate, nobody passes a closed gate, an outcome is final.
ImplementsResilientSubmission == Abstract!Spec

\* Whatever fails during the rebuild, the gate is opened again.
GateReopens == ~serverReady ~> serverReady

\* A call ends, unless it parks behind a broken pipe (see DeadServerRetries).
CallsEndOrPark ==
  \A r \in Requests : <>(pc[r] \in Outcomes \cup {"parked"})

\* client.py:180-182: after a broken pipe, "Wait for the watchdog to restart,
\* then retry".
DeadServerRetries == \A r \in Requests : pc[r] = "parked" ~> pc[r] # "parked"

\* worker.py:223-225: the poisoned worker drains its queue, "failing every
\* queued (innocent) task as non-toxic so its caller transparently retries".
DrainedForGood == \A s \in Slots : step[s] = "exited" => queue[s] = <<>>
=============================================================================
