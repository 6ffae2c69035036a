------------------------------- MODULE Monitor -------------------------------
(***************************************************************************)
(* The watchdog of one client: the monitor process with its command and    *)
(* event queues (watchdog.py, _watchdog_monitor_main), the methods of      *)
(* Watchdog that talk to it, the receiver thread that rebuilds the server, *)
(* and the thread that calls LspClient.exit().                             *)
(*                                                                         *)
(* Time is discrete and passes only while the monitor sleeps or is dead:   *)
(* one round of its loop takes no time.  Ages are kept instead of clock    *)
(* values.  The checks of the worker guards, a part of the same loop, are  *)
(* in WorkerGuards; the way a rebuild treats tasks is in Recovery.         *)
(***************************************************************************)
EXTENDS Integers, Sequences, FiniteSets

CONSTANTS
  WorkerIds,     \* the workers of the pool
  Deadline,      \* WEDGE_DEADLINE
  Poll,          \* interval of the deadline check (the client leaves it at 20 s)
  MemPoll,       \* sleep of one round of the monitor
  MaxServers,    \* bound: servers started; what makes another one necessary
                 \* (faults, fatal lines, tasks) stops before the last one
  MaxFaults,     \* bound: deaths, fatal lines and failed rebuilds
  MaxTasks,      \* bound: task_started commands per server
  AllowExit      \* whether the program calls exit()

ASSUME MonitorAssumption ==
  /\ Deadline \in Nat /\ Poll \in Nat \ {0} /\ MemPoll \in Nat \ {0}
  /\ MaxServers \in Nat \ {0} /\ MaxTasks \in Nat
  /\ MaxFaults \in Nat /\ AllowExit \in BOOLEAN

VARIABLES
  \* the server: number of the process in client.process, whether it lives,
  \* the servers with an unread fatal line on stderr
  server, up, panics,
  \* the number of faults so far
  faults,
  \* Watchdog: _generation, server_ready, _stop, whether _process is set,
  \* the tasks in flight, the number of tasks begun on this server, and the
  \* generations of interrupted tasks whose finally block is still to run
  gen, ready, stop, handle, task, begun, leaving,
  \* the receiver thread and the trigger it acts on
  rx, cause,
  \* the thread that calls exit()
  exit,
  \* the two queues, and whether Watchdog still refers to them
  commands, events, open,
  \* the monitor process and its local variables
  live, place, seen, root, paused, table, sincePoll, sleep,
  \* history: whether a task of this generation has exceeded the deadline
  exceeded

serverVars  == <<server, up, panics, faults>>
ownerVars   == <<gen, ready, stop, handle, open, task, begun, leaving>>
rxVars      == <<rx, cause>>
monitorVars == <<live, place, seen, root, paused, table, sincePoll, sleep>>
vars == <<serverVars, ownerVars, rxVars, exit, commands, events, monitorVars,
          exceeded>>

Horizon == Deadline + Poll + MemPoll   \* where ages stop to be counted
None    == -1                          \* no task, no entry
Idle    == [token |-> 0, age |-> None]
NoCause == [trigger |-> "none", gen |-> 0, ids |-> {}]

\* Watchdog._send: only while _process and the queue are set.  What is put in
\* the queue of a dead monitor is never read.
Sent(message) == IF handle /\ live /\ open THEN Append(commands, message) ELSE commands

\* age: how long ago started_at was, of a task_started command.
Command(type, g, w) == [type |-> type, gen |-> g, arg |-> w, age |-> 0]

\* The local variables of a monitor process that starts.
FreshMonitor ==
  /\ place' = "drain" /\ seen' = 0 /\ root' = 0 /\ paused' = TRUE
  /\ table' = [w \in WorkerIds |-> None] /\ sincePoll' = Poll /\ sleep' = 0

Init ==
  /\ server = 1 /\ up = TRUE /\ panics = {} /\ faults = 0
  /\ gen = 1 /\ ready = TRUE /\ stop = FALSE /\ handle = TRUE /\ open = TRUE
  /\ task = [w \in WorkerIds |-> Idle] /\ begun = 0 /\ leaving = {}
  /\ rx = "poll" /\ cause = NoCause /\ exit = "no"
  /\ commands = <<Command("root", 1, 1)>> /\ events = <<>>
  /\ live = TRUE /\ place = "drain" /\ seen = 0 /\ root = 0 /\ paused = TRUE
  /\ table = [w \in WorkerIds |-> None] /\ sincePoll = Poll /\ sleep = 0
  /\ exceeded = FALSE

-----------------------------------------------------------------------------
(***************************************************************************)
(* Faults: the server dies or prints a fatal line, the monitor is killed.  *)
(***************************************************************************)
CanFail == server < MaxServers

Fault == faults < MaxFaults /\ faults' = faults + 1

ServerDies ==
  /\ up /\ CanFail /\ Fault
  /\ up' = FALSE
  /\ UNCHANGED <<server, panics, ownerVars, rxVars, exit, commands, events,
                 monitorVars, exceeded>>

ServerPanics ==
  /\ up /\ CanFail /\ server \notin panics /\ Fault
  /\ panics' = panics \cup {server}
  /\ UNCHANGED <<server, up, ownerVars, rxVars, exit, commands, events,
                 monitorVars, exceeded>>

MonitorDies ==
  /\ live /\ CanFail /\ Fault
  /\ live' = FALSE /\ FreshMonitor /\ commands' = <<>>
  /\ UNCHANGED <<server, up, panics, ownerVars, rxVars, exit, events, exceeded>>

\* _read_stderr matches FATAL_RE: flag_fatal takes the generation of now.
FlagFatal ==
  /\ CanFail
  /\ \E s \in panics : panics' = panics \ {s}
  /\ commands' = Sent(Command("fatal", gen, 0))
  /\ UNCHANGED <<server, up, faults, ownerVars, rxVars, exit, events,
                 monitorVars, exceeded>>

-----------------------------------------------------------------------------
(***************************************************************************)
(* Workers: task_started and task_finished around every task.              *)
(***************************************************************************)
StartTask(w) ==
  /\ ready /\ task[w] = Idle /\ begun < MaxTasks /\ CanFail
  /\ task' = [task EXCEPT ![w] = [token |-> gen, age |-> 0]]
  /\ begun' = begun + 1
  /\ commands' = Sent(Command("task_started", gen, w))
  /\ UNCHANGED <<serverVars, gen, ready, stop, handle, open, leaving, rxVars, exit,
                 events, monitorVars, exceeded>>

\* task_finished with the generation of the time it ends.  (TableMatches)
BugToken(token) == gen

\* task_finished carries the generation that task_started returned.
Token(token) == token

FinishTask(w) ==
  /\ task[w] # Idle
  /\ task' = [task EXCEPT ![w] = Idle]
  /\ commands' = Sent(Command("task_finished", Token(task[w].token), w))
  /\ UNCHANGED <<serverVars, gen, ready, stop, handle, open, begun, leaving, rxVars,
                 exit, events, monitorVars, exceeded>>

\* The same for a thread of a replaced pool.
FinishOldTask(w, token) ==
  /\ <<w, token>> \in leaving
  /\ leaving' = leaving \ {<<w, token>>}
  /\ commands' = Sent(Command("task_finished", Token(token), w))
  /\ UNCHANGED <<serverVars, gen, ready, stop, handle, open, task, begun, rxVars,
                 exit, events, monitorVars, exceeded>>

-----------------------------------------------------------------------------
(***************************************************************************)
(* The monitor process: it drains its commands, looks at the server, and   *)
(* sleeps.                                                                 *)
(***************************************************************************)
Empty == [w \in WorkerIds |-> None]

Trigger(kind, ids) == [trigger |-> kind, gen |-> seen, ids |-> ids]

Tracked == {w \in WorkerIds : table[w] # None}

\* A second fatal is reported, too.  (OneTriggerPerServer)
BugAcceptsFatal(c) == c.gen = seen

AcceptsFatal(c) == ~paused /\ c.gen = seen

DrainCommand ==
  /\ live /\ place = "drain" /\ commands # <<>> /\ Head(commands).type # "stop"
  /\ LET c == Head(commands) IN
     /\ seen' = IF c.type = "root" THEN c.gen ELSE seen
     /\ root' = IF c.type = "root" THEN c.arg ELSE root
     /\ paused' = CASE c.type = "root" -> FALSE
                    [] c.type = "pause" -> TRUE
                    [] c.type = "fatal" -> paused \/ AcceptsFatal(c)
                    [] OTHER -> paused
     /\ table' = CASE c.type \in {"root", "pause"} -> Empty
                   [] c.type = "task_started" /\ c.gen = seen ->
                        [table EXCEPT ![c.arg] = c.age]
                   [] c.type = "task_finished" /\ c.gen = seen ->
                        [table EXCEPT ![c.arg] = None]
                   [] OTHER -> table
     /\ events' = IF c.type = "fatal" /\ AcceptsFatal(c)
                    THEN Append(events, Trigger("fatal", Tracked)) ELSE events
  /\ commands' = Tail(commands)
  /\ UNCHANGED <<serverVars, ownerVars, rxVars, exit, live, place, sincePoll,
                 sleep, exceeded>>

\* The inner loop finds its queue empty; the server is looked at next, and
\* anything may happen in between.
Drained ==
  /\ live /\ place = "drain" /\ commands = <<>>
  /\ place' = IF paused THEN "sleep" ELSE "look"
  /\ sleep' = IF paused THEN 1 ELSE sleep     \* min(0.2, MemPoll)
  /\ UNCHANGED <<serverVars, ownerVars, rxVars, exit, commands, events, live,
                 seen, root, paused, table, sincePoll, exceeded>>

\* The monitor returns: the stop command.
StopCommand ==
  /\ live /\ place = "drain" /\ commands # <<>> /\ Head(commands).type = "stop"
  /\ live' = FALSE /\ FreshMonitor /\ commands' = <<>>
  /\ UNCHANGED <<serverVars, ownerVars, rxVars, exit, events, exceeded>>

\* The trigger is reported and the monitor pauses; no sleep.
Report(kind, ids) ==
  /\ events' = Append(events, Trigger(kind, ids))
  /\ paused' = TRUE /\ place' = "drain"
  /\ UNCHANGED <<sincePoll, sleep>>

Overdue == {w \in Tracked : table[w] > Deadline}

\* One round of the loop too late.  (DetectedInTime)
BugPollDue == sincePoll >= Poll + MemPoll

PollDue == sincePoll >= Poll

Look ==
  /\ live /\ place = "look"
  /\ IF ~(up /\ root = server)
       THEN Report("death", Tracked)
     ELSE IF PollDue /\ Overdue # {}
       THEN Report("deadline", Overdue)
     ELSE /\ place' = "sleep" /\ sleep' = MemPoll
          /\ sincePoll' = IF PollDue THEN 0 ELSE sincePoll
          /\ UNCHANGED <<events, paused>>
  /\ UNCHANGED <<serverVars, ownerVars, rxVars, exit, commands, live, seen,
                 root, table, exceeded>>

Wake ==
  /\ live /\ place = "sleep" /\ sleep = 0
  /\ place' = "drain"
  /\ UNCHANGED <<serverVars, ownerVars, rxVars, exit, commands, events, live,
                 seen, root, paused, table, sincePoll, sleep, exceeded>>

Older(age) == IF age = None \/ age > Horizon THEN age ELSE age + 1

\* One unit of time passes.
Tick ==
  /\ live => place = "sleep" /\ sleep > 0
  /\ task' = [w \in WorkerIds |-> [task[w] EXCEPT !.age = Older(@)]]
  /\ table' = [w \in WorkerIds |-> Older(table[w])]
  /\ commands' = [i \in DOMAIN commands |->
                   IF commands[i].type = "task_started"
                     THEN [commands[i] EXCEPT !.age = Older(@)]
                     ELSE commands[i]]
  /\ sincePoll' = IF sincePoll < Poll + MemPoll THEN sincePoll + 1 ELSE sincePoll
  /\ sleep' = IF live THEN sleep - 1 ELSE sleep
  /\ exceeded' = (exceeded \/ \E w \in WorkerIds : task'[w].age > Deadline)
  /\ UNCHANGED <<serverVars, gen, ready, stop, handle, open, begun, leaving, rxVars,
                 exit, events, live, place, seen, root, paused>>

-----------------------------------------------------------------------------
(***************************************************************************)
(* The receiver: _receive_events, _recover_with_retry, and the steps of    *)
(* _restart at which the monitor or a stopping thread can get between.     *)
(***************************************************************************)
\* An event of another generation is acted on, too.  (JustifiedRebuild)
BugIsCurrent(e) == TRUE

IsCurrent(e) == e.gen = gen

ReceiveEvent ==
  /\ rx = "poll" /\ open /\ events # <<>>
  /\ LET e == Head(events) IN
     /\ rx' = CASE e.trigger = "stop" -> "ended"
                [] e.trigger # "stop" /\ IsCurrent(e) -> "recover"
                [] OTHER -> "poll"
     /\ cause' = IF rx' = "recover" THEN e ELSE NoCause
  /\ events' = Tail(events)
  /\ UNCHANGED <<serverVars, ownerVars, exit, commands, monitorVars, exceeded>>

\* The queue stays empty and the monitor is not alive.
MissMonitor ==
  /\ rx = "poll" /\ open /\ events = <<>> /\ handle /\ ~live
  /\ rx' = "recover"
  /\ cause' = [trigger |-> "watchdog_death", gen |-> gen, ids |-> {}]
  /\ UNCHANGED <<serverVars, ownerVars, exit, commands, events, monitorVars,
                 exceeded>>

\* The loop of _receive_events ends, at its condition or (the queues are
\* gone) by an exception.
EndReceiver ==
  /\ rx = "poll" /\ (stop \/ ~open)
  /\ rx' = "ended" /\ cause' = NoCause
  /\ UNCHANGED <<serverVars, ownerVars, exit, commands, events, monitorVars,
                 exceeded>>

\* _recover_with_retry gives up: stop() was called.
GiveUp ==
  /\ rx = "recover" /\ stop
  /\ rx' = "poll" /\ cause' = NoCause
  /\ UNCHANGED <<serverVars, ownerVars, exit, commands, events, monitorVars,
                 exceeded>>

\* server_ready.clear(), pause, poison: the tasks in flight are interrupted.
BeginRestart ==
  /\ rx = "recover" /\ ~stop
  /\ rx' = "kill" /\ ready' = FALSE
  /\ commands' = Sent(Command("pause", gen, 0))
  /\ leaving' = leaving \cup
       {<<w, task[w].token>> : w \in {v \in WorkerIds : task[v] # Idle}}
  /\ task' = [w \in WorkerIds |-> Idle]
  /\ UNCHANGED <<serverVars, gen, stop, handle, open, begun, cause, exit, events,
                 monitorVars, exceeded>>

KillTree ==
  /\ rx = "kill"
  /\ rx' = "connect" /\ up' = FALSE
  /\ UNCHANGED <<server, panics, faults, ownerVars, cause, exit, commands, events,
                 monitorVars, exceeded>>

\* LspClient.connect up to watchdog.start(): a new process, the handshake.
Connect ==
  /\ rx = "connect"
  /\ rx' = "start" /\ server' = server + 1 /\ up' = TRUE
  /\ UNCHANGED <<panics, faults, ownerVars, cause, exit, commands, events,
                 monitorVars, exceeded>>

\* The handshake fails: the process may be left behind for the next attempt.
ConnectFails ==
  /\ rx = "connect" /\ CanFail /\ Fault
  /\ rx' = "recover" /\ server' = server + 1 /\ up' \in BOOLEAN
  /\ UNCHANGED <<panics, ownerVars, cause, exit, commands, events, monitorVars,
                 exceeded>>

\* Watchdog.start does not announce the new server.  (WatchedAgain)
BugAnnounce(queue, g) == queue

\* The generation is counted once more after it was sent.  (TypeOK)
BugGeneration(queue, g) == Append(queue, Command("root", g + 1, server))

\* _set_root_process.
Announce(queue, g) == Append(queue, Command("root", g, server))

\* Watchdog.start: a new monitor with new queues unless one is alive, then
\* the announcement of the server, if it still lives. (The second receiver
\* thread that it begins when stop() has given up the first is left out: it is
\* one more that outlives exit().)
StartWatchdog ==
  /\ rx = "start"
  /\ rx' = "pool"
  /\ LET running == handle /\ live
         queue   == IF running THEN commands ELSE <<>>
     IN /\ IF running THEN UNCHANGED <<stop, handle, open, live, events, place,
                                       seen, root, paused, table, sincePoll, sleep>>
           ELSE /\ stop' = FALSE /\ handle' = TRUE /\ open' = TRUE /\ live' = TRUE
                /\ events' = <<>> /\ FreshMonitor
        /\ gen' = IF up THEN gen + 1 ELSE gen
        /\ commands' = IF up /\ open' THEN Announce(queue, gen') ELSE queue
        /\ exceeded' = (exceeded /\ ~up)
  /\ UNCHANGED <<serverVars, ready, task, begun, leaving, cause, exit>>

\* create_pool and attach_worker_guards, which raises if the server is dead.
RebuildPool ==
  /\ rx = "pool" /\ up
  /\ rx' = "poll" /\ cause' = NoCause /\ ready' = TRUE /\ begun' = 0
  /\ UNCHANGED <<serverVars, gen, stop, handle, open, task, leaving, exit, commands,
                 events, monitorVars, exceeded>>

RebuildFails ==
  /\ rx = "pool" /\ IF up THEN CanFail /\ Fault ELSE UNCHANGED faults
  /\ rx' = "recover"
  /\ UNCHANGED <<server, up, panics, ownerVars, cause, exit, commands, events,
                 monitorVars, exceeded>>

Receiver == \/ ReceiveEvent \/ MissMonitor \/ EndReceiver \/ GiveUp
            \/ BeginRestart \/ KillTree \/ Connect \/ ConnectFails
            \/ StartWatchdog \/ RebuildPool \/ RebuildFails

-----------------------------------------------------------------------------
(***************************************************************************)
(* LspClient.exit(): Watchdog.stop() in its steps, the exit notification,  *)
(* the kill of the process tree.                                           *)
(***************************************************************************)
Exits == {"no", "monitor", "forget", "receiver", "queues", "notify", "kill",
          "done", "raised"}

BeginStop ==
  /\ AllowExit /\ exit = "no"
  /\ exit' = "monitor" /\ stop' = TRUE
  /\ commands' = Sent(Command("stop", 0, 0))
  /\ UNCHANGED <<serverVars, gen, ready, handle, open, task, begun, leaving, rxVars,
                 events, monitorVars, exceeded>>

\* join, or terminate after the join has timed out: dead either way.
JoinMonitor ==
  /\ exit = "monitor"
  /\ exit' = "forget"
  /\ live' = FALSE /\ FreshMonitor /\ commands' = <<>>
  /\ UNCHANGED <<serverVars, ownerVars, rxVars, events, exceeded>>

\* _process = None, and a stop event for the receiver.
ForgetMonitor ==
  /\ exit = "forget"
  /\ exit' = "receiver" /\ handle' = FALSE
  /\ events' = Append(events, [trigger |-> "stop", gen |-> 0, ids |-> {}])
  /\ UNCHANGED <<serverVars, gen, ready, stop, open, task, begun, leaving, rxVars,
                 commands, monitorVars, exceeded>>

\* join(timeout=5): the receiver has ended, or it does not notice the stop.
JoinReceiver ==
  /\ exit = "receiver" /\ (rx \in {"poll", "recover"} => ~stop)
  /\ exit' = "queues"
  /\ UNCHANGED <<serverVars, ownerVars, rxVars, commands, events, monitorVars,
                 exceeded>>

\* The events still queued are swept and both queues are closed.
CloseQueues ==
  /\ exit = "queues"
  /\ exit' = "notify" /\ open' = FALSE /\ events' = <<>> /\ commands' = <<>>
  /\ UNCHANGED <<serverVars, gen, ready, stop, handle, task, begun, leaving,
                 rxVars, monitorVars, exceeded>>

\* notify("exit") raises if the pipe is broken: exit() ends there.
NotifyExit ==
  /\ exit = "notify"
  /\ exit' = IF up THEN "kill" ELSE "raised"
  /\ UNCHANGED <<serverVars, ownerVars, rxVars, commands, events, monitorVars,
                 exceeded>>

KillOnExit ==
  /\ exit = "kill"
  /\ exit' = "done" /\ up' = FALSE
  /\ UNCHANGED <<server, panics, faults, ownerVars, rxVars, commands, events,
                 monitorVars, exceeded>>

Exit == \/ BeginStop \/ JoinMonitor \/ ForgetMonitor \/ JoinReceiver
        \/ CloseQueues \/ NotifyExit \/ KillOnExit

MonitorStep == \/ DrainCommand \/ Drained \/ StopCommand \/ Look \/ Wake

Workers == \E w \in WorkerIds :
             \/ StartTask(w) \/ FinishTask(w)
             \/ \E g \in 1 .. gen : FinishOldTask(w, g)

Faults == ServerDies \/ ServerPanics \/ MonitorDies

Next == \/ Faults \/ FlagFatal \/ Workers
        \/ MonitorStep \/ Tick \/ Receiver \/ Exit

\* The processes and threads keep running and time passes.  Nothing obliges
\* a server to fail, a task to start or to end, or the program to exit; the
\* receiver's rebuild succeeds once attempts are exhausted (MaxServers).
Fairness ==
  /\ WF_vars(MonitorStep) /\ WF_vars(Tick) /\ WF_vars(Receiver)
  /\ WF_vars(Exit /\ exit # "no")
  /\ WF_vars(FlagFatal)

Spec == Init /\ [][Next]_vars /\ Fairness

-----------------------------------------------------------------------------
(* Properties                                                              *)

Triggers == {"death", "deadline", "fatal"}

Age == None .. Horizon + 1

\* The variables have their types (the one type invariant of this module).
TypeOK ==
  /\ server \in Nat /\ up \in BOOLEAN /\ panics \subseteq 1 .. server
  /\ faults \in 0 .. MaxFaults
  /\ gen \in Nat /\ ready \in BOOLEAN /\ stop \in BOOLEAN
  /\ handle \in BOOLEAN /\ open \in BOOLEAN /\ begun \in 0 .. MaxTasks
  /\ task \in [WorkerIds -> [token : Nat, age : Age]]
  /\ leaving \subseteq WorkerIds \X (1 .. gen)
  /\ rx \in {"poll", "recover", "kill", "connect", "start", "pool", "ended"}
  /\ cause.trigger \in Triggers \cup {"none", "watchdog_death"}
  /\ cause.gen \in Nat /\ cause.ids \subseteq WorkerIds
  /\ exit \in Exits
  /\ \A i \in DOMAIN commands : commands[i].age \in 0 .. Horizon + 1
  /\ \A i \in DOMAIN events :
       events[i].trigger \in Triggers \cup {"stop"} /\ events[i].gen \in 0 .. gen
  /\ live \in BOOLEAN /\ place \in {"drain", "look", "sleep"}
  /\ seen \in 0 .. gen /\ root \in 0 .. server /\ paused \in BOOLEAN
  /\ table \in [WorkerIds -> Age] /\ sincePoll \in 0 .. Poll + MemPoll
  /\ sleep \in 0 .. MemPoll
  /\ exceeded \in BOOLEAN

\* The receiver has, or will find in its queue, a reason to replace the
\* server of generation gen.
Reported == \/ rx \notin {"poll", "ended"}
            \/ \E i \in DOMAIN events : events[i].gen = gen

\* The watchdog observes: the monitor lives and nobody stops it.
Observing == live /\ exit = "no"

\* A task of the current server that is still unanswered at deadline + poll
\* + one round of the loop has been reported (watchdog.py:59-62 counts
\* "deadline + one poll"; the waits of the callers are longer than both as
\* long as a round is shorter than their margin of 20 s).
DetectedInTime ==
  \A w \in WorkerIds :
    Observing /\ task[w] # Idle /\ task[w].age >= Horizon => Reported

\* What the monitor believes to be in flight is in flight and nothing else,
\* once it has read its commands: neither a late task_finished of a replaced
\* pool nor a task_started that a new server overtook changes its table.
TableMatches ==
  Observing /\ ~paused /\ commands = <<>> /\ seen = gen =>
    \A w \in WorkerIds : table[w] = task[w].age

\* A server gives rise to one trigger: however many of its symptoms the
\* monitor sees, one report of a generation is queued or acted on.
OneTriggerPerServer ==
  LET Of(g) == {i \in DOMAIN events : events[i].gen = g /\ events[i].trigger # "stop"}
  IN \A g \in 1 .. gen :
       Cardinality(Of(g))
         + (IF cause.gen = g /\ cause.trigger \in Triggers THEN 1 ELSE 0) <= 1

\* A rebuild is begun only for a symptom of the server that it replaces: for
\* a death that server is dead, for a deadline one of its own tasks exceeded
\* it, for a dead monitor no monitor lives.
JustifiedRebuild ==
  [][rx = "poll" /\ rx' = "recover" /\ exit = "no" =>
       CASE cause'.trigger = "death"          -> ~up
         [] cause'.trigger = "deadline"       -> exceeded
         [] cause'.trigger = "watchdog_death" -> ~live
         [] OTHER                             -> TRUE]_vars

\* The service is open on a living server that a living monitor observes.
Watched == ready /\ up /\ live /\ ~paused /\ root = server /\ seen = gen

\* Whatever dies, and however often a rebuild fails, a watched server comes
\* back, unless the program exits.
WatchedAgain == []<>(Watched \/ exit # "no")

\* After exit() has returned no server and no monitor is left: README.md:297,
\* "Kill full process tree + cleanup (no orphans)".
ExitIsFinal == exit = "done" => ~up /\ ~live
=============================================================================
