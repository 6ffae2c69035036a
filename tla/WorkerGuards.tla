----------------------------- MODULE WorkerGuards -----------------------------
(***************************************************************************)
(* The processes of a Lean server, the guards of its workers, and the ways *)
(* they are killed: _kill_process_tree, the transient scopes and their     *)
(* ownership, the guard checks of the monitor's loop (watchdog.py).        *)
(*                                                                         *)
(* A server is a tree of three levels: the root (lake serve), its child    *)
(* (lean --server) and one process per document, which the server replaces *)
(* when it exits.  A process is adopted by at most one scope, named after  *)
(* it; stopping a scope kills what is inside.  Commands about tasks, and   *)
(* time, are in Monitor; here the monitor knows which workers are busy.    *)
(***************************************************************************)
EXTENDS Integers, Sequences, FiniteSets

CONSTANTS
  WorkerIds,     \* the workers of the pool
  Grace,         \* rounds of the monitor a replacement may take
  MaxProcs,      \* bound: processes ever started
  MaxServers,    \* bound: servers ever started; the next rebuild stays where
                 \* it would connect
  MaxFaults      \* bound: deaths and failed calls of systemd

\* The client numbers its workers from 1; every server can have its processes.
ASSUME GuardsAssumption ==
  /\ Cardinality(WorkerIds) \in Nat /\ WorkerIds = 1 .. Cardinality(WorkerIds)
  /\ Grace \in Nat \ {0} /\ MaxServers \in Nat \ {0}
  /\ MaxProcs \in Nat /\ MaxProcs >= MaxServers * (2 + Cardinality(WorkerIds))
  /\ MaxFaults \in Nat

VARIABLES
  \* every process started so far; the living ones, those whose scope is
  \* active, those the kernel killed at the hard limit
  proc, alive, scoped, oomed,
  \* memory_guards_enabled: the client has limits, workers are put in scopes
  limited,
  \* the root in client.process and the generation of that server
  root, gen,
  \* _worker_scopes, and the guards made so far by attach_worker_guards
  scopes, created,
  \* the receiver's place, known_pids, the processes about to be killed
  rx, known, toKill,
  \* the thread that calls exit()
  exit,
  \* _CHILD_ROOT_PIDS; the handler of SIGTERM: its place, what it will kill
  registered, handler,
  \* the queues and the workers with a task
  commands, events, busy,
  \* the monitor: its place, generation, root, paused, guards, rounds since
  \* a worker is missing, the workers still to be checked in this round, the
  \* worker under check and the process that is being adopted for it
  place, seen, watched, paused, guards, missing, todo, checking, adopting,
  \* number of faults; history: processes forked since the walk over the
  \* tree, those no longer below the root at that walk, and what
  \* _worker_scopes held then
  faults, forked, lost, held

treeVars    == <<proc, alive, scoped, oomed>>
ownerVars   == <<root, gen, scopes, created>>
killVars    == <<rx, known, toKill>>
queueVars   == <<commands, events, busy>>
monitorVars == <<place, seen, watched, paused, guards, missing, todo, checking,
                 adopting>>
historyVars == <<forked, lost, held>>
\* What only a signal, a start or an exit changes, or nothing.
signalVars  == <<limited, registered, handler>>
vars == <<treeVars, ownerVars, killVars, exit, signalVars, queueVars, monitorVars,
          faults, historyVars>>

Pids == 1 .. MaxProcs
None == 0
NoGuards == [w \in WorkerIds |-> None]

Process(kind, home, worker, parent) ==
  [kind |-> kind, home |-> home, worker |-> worker, parent |-> parent]

\* A server, its child and (at the start) the workers of the pool.
FirstTree ==
  <<Process("root", 1, None, None), Process("server", 1, None, 1)>>
    \o [i \in 1 .. Cardinality(WorkerIds) |-> Process("worker", 1, i, 2)]

FirstGuards == [w \in WorkerIds |-> 2 + w]

\* A pool is served and guarded; the monitor has read its commands.
Init ==
  /\ proc = FirstTree /\ alive = DOMAIN FirstTree
  /\ limited \in BOOLEAN
  /\ scoped = IF limited THEN {FirstGuards[w] : w \in WorkerIds} ELSE {}
  /\ oomed = {}
  /\ root = 1 /\ gen = 1 /\ scopes = FirstGuards /\ created = NoGuards
  /\ rx = "poll" /\ known = {} /\ toKill = {} /\ exit = "no"
  /\ registered = {1} /\ handler = [at |-> "no", list |-> {}]
  /\ commands = <<>> /\ events = <<>> /\ busy \in SUBSET WorkerIds
  /\ place = "look" /\ seen = 1 /\ watched = 1 /\ paused = FALSE
  /\ guards = FirstGuards /\ missing = [w \in WorkerIds |-> 0]
  /\ todo = {} /\ checking = None /\ adopting = None
  /\ faults = 0 /\ forked = {} /\ lost = {} /\ held = {}

\* Enough processes are left for the servers still to come.
CanFork ==
  LET later == (MaxServers - gen) * (2 + Cardinality(WorkerIds))
  IN Len(proc) + later < MaxProcs

Fault == faults < MaxFaults /\ faults' = faults + 1

-----------------------------------------------------------------------------
(***************************************************************************)
(* Processes.  The children of a process that dies are adopted by init.    *)
(***************************************************************************)
Kids(parents) == {p \in alive : proc[p].parent \in parents}

\* _collect_descendants: nothing, once the root is dead.
Descendants(p) == Kids({p}) \cup Kids(Kids({p}))

\* The processes of set are killed or have died.
Gone(set) ==
  /\ alive' = alive \ set
  /\ proc' = [p \in DOMAIN proc |->
               IF proc[p].parent \in set \cap alive
                 THEN [proc[p] EXCEPT !.parent = None] ELSE proc[p]]

\* _stop_systemd_scope for each of set.
Stopped(set) == Gone(set \cap scoped) /\ scoped' = scoped \ set

Dies(p) ==
  /\ p \in alive /\ Fault
  /\ Gone({p})
  /\ \/ UNCHANGED oomed
     \/ p \in scoped /\ oomed' = oomed \cup {p}    \* at its MemoryMax
  /\ UNCHANGED <<signalVars, scoped, ownerVars, killVars, exit, queueVars,
                 monitorVars, historyVars>>

\* A living server, also one without its root, starts the process of a
\* document that has none.
Fork(s, w) ==
  /\ s \in alive /\ proc[s].kind = "server" /\ CanFork
  /\ ~\E p \in Kids({s}) : proc[p].worker = w
  /\ proc' = Append(proc, Process("worker", proc[s].home, w, s))
  /\ alive' = alive \cup {Len(proc')} /\ forked' = forked \cup {Len(proc')}
  /\ UNCHANGED <<signalVars, scoped, oomed, ownerVars, killVars, exit,
                 queueVars, monitorVars, faults, lost, held>>

\* A task of worker w starts or ends.
TaskChanges(w) ==
  /\ rx = "poll" /\ exit = "no"
  /\ busy' = IF w \in busy THEN busy \ {w} ELSE busy \cup {w}
  /\ UNCHANGED <<signalVars, treeVars, ownerVars, killVars, exit, commands,
                 events, monitorVars, faults, historyVars>>

-----------------------------------------------------------------------------
(***************************************************************************)
(* The monitor: commands, then the root, then every guard.                 *)
(***************************************************************************)
Monitoring == exit = "no"     \* its process is alive

NotMissing == [w \in WorkerIds |-> 0]

DrainCommand ==
  /\ Monitoring /\ place = "drain" /\ commands # <<>>
  /\ LET c == Head(commands) IN
     /\ seen' = IF c.type = "root" THEN c.gen ELSE seen
     /\ watched' = IF c.type = "root" THEN c.pid ELSE watched
     /\ paused' = CASE c.type = "root" -> FALSE
                    [] c.type = "pause" -> TRUE
                    [] OTHER -> paused
     /\ guards' = CASE c.type \in {"root", "pause"} -> NoGuards
                    [] c.type = "guards" /\ c.gen = seen -> c.guards
                    [] OTHER -> guards
     /\ missing' = IF c.type = "guards" /\ c.gen # seen THEN missing
                   ELSE NotMissing
  /\ commands' = Tail(commands)
  /\ UNCHANGED <<signalVars, treeVars, ownerVars, killVars, exit, events, busy,
                 place, todo, checking, adopting, faults, historyVars>>

\* With paused set the next round begins.
Drained ==
  /\ Monitoring /\ place = "drain" /\ commands = <<>> /\ ~paused
  /\ place' = "look"
  /\ UNCHANGED <<signalVars, treeVars, ownerVars, killVars, exit, queueVars,
                 seen, watched, paused, guards, missing, todo, checking,
                 adopting, faults, historyVars>>

Trigger(kind) == [type |-> kind, gen |-> seen, worker |-> checking,
                  old |-> None, new |-> None]

\* The monitor reports, pauses and begins another round.
Report(kind) ==
  /\ events' = Append(events, Trigger(kind))
  /\ paused' = TRUE /\ place' = "drain" /\ todo' = {} /\ checking' = None
  /\ UNCHANGED <<signalVars, guards, adopting>>

\* The rest of the round: the next guard, or the sleep.
Continue ==
  /\ place' = IF todo = {} THEN "drain" ELSE "check"
  /\ checking' = None /\ adopting' = None
  /\ UNCHANGED <<signalVars, paused, todo>>

Look ==
  /\ Monitoring /\ place = "look"
  /\ IF watched \notin alive
       THEN Report("death") /\ UNCHANGED missing
     ELSE /\ todo' = {w \in WorkerIds : guards[w] # None}
          /\ place' = IF todo' = {} THEN "drain" ELSE "check"
          /\ UNCHANGED <<events, paused, checking, adopting, guards, missing>>
  /\ UNCHANGED <<signalVars, treeVars, ownerVars, killVars, exit, commands,
                 busy, seen, watched, faults, historyVars>>

\* The next guard: its count of oom_kill (which cannot be read any more once
\* its scope is gone), its anonymous RSS.
CheckLimits(w) ==
  /\ Monitoring /\ place = "check" /\ w \in todo
  /\ \/ guards[w] \in oomed /\ Report("memory") /\ UNCHANGED faults
     \/ /\ limited /\ guards[w] \in alive /\ w \in busy
        /\ Report("memory") /\ Fault
     \/ /\ place' = "alive" /\ checking' = w /\ todo' = todo \ {w}
        /\ UNCHANGED <<events, paused, guards, adopting, faults>>
  /\ UNCHANGED <<signalVars, treeVars, ownerVars, killVars, exit, commands,
                 busy, seen, watched, missing, historyVars>>

\* A living guard is not missing.
CheckAlive ==
  /\ Monitoring /\ place = "alive" /\ guards[checking] \in alive
  /\ Continue
  /\ missing' = [missing EXCEPT ![checking] = 0]
  /\ UNCHANGED <<signalVars, treeVars, ownerVars, killVars, exit, queueVars,
                 seen, watched, guards, faults, historyVars>>

Vanished ==
  Monitoring /\ place = "alive" /\ guards[checking] \notin alive

\* _systemd_scope_result is "oom-kill".
KilledAtLimit(p) == p \in oomed

ReportOom ==
  /\ Vanished /\ KilledAtLimit(guards[checking])
  /\ Report("memory")
  /\ UNCHANGED <<signalVars, treeVars, ownerVars, killVars, exit, commands,
                 busy, seen, watched, missing, faults, historyVars>>

\* The clock starts again in every round.  (LostWorkerIsHandled)
BugLonger(rounds) == 0

\* missing_since.setdefault: the first round counts.
Longer(rounds) == IF rounds < Grace THEN rounds + 1 ELSE rounds

Miss == missing' = [missing EXCEPT ![checking] = Longer(@)]

\* The processes of set that serve the document of worker w.
OfWorker(w, set) == {p \in set : proc[p].kind = "worker" /\ proc[p].worker = w}

\* The command line is not tested for --worker.  (TypeOK)
BugReplacements == Descendants(watched)

\* _lean_worker_pids of the monitor's root.
Replacements == OfWorker(checking, Descendants(watched))

\* The replacement is put in a scope of its own, if there are limits.
Adopt ==
  /\ Vanished /\ ~KilledAtLimit(guards[checking])
  /\ \E p \in Replacements :
       /\ adopting' = p
       /\ scoped' = IF limited THEN scoped \cup {p} ELSE scoped
  /\ place' = "publish"
  /\ UNCHANGED <<signalVars, proc, alive, oomed, ownerVars, killVars, exit,
                 queueVars, seen, watched, paused, guards, missing, todo,
                 checking, faults, historyVars>>

\* The scope cannot be made, or it is stopped because its control group
\* cannot be found, and the worker with it.
AdoptFails ==
  /\ Vanished /\ ~KilledAtLimit(guards[checking]) /\ limited /\ Fault
  /\ \E p \in Replacements : Gone({p}) \/ UNCHANGED <<proc, alive>>
  /\ Continue /\ Miss
  /\ UNCHANGED <<signalVars, scoped, oomed, ownerVars, killVars, exit,
                 queueVars, seen, watched, guards, historyVars>>

\* No replacement yet: a crash once the grace is over, if a task suffers.
Wait ==
  /\ Vanished /\ ~KilledAtLimit(guards[checking]) /\ Replacements = {}
  /\ IF checking \in busy /\ missing[checking] >= Grace
       THEN Report("worker_death") /\ UNCHANGED missing
     ELSE Continue /\ Miss /\ UNCHANGED <<events, guards>>
  /\ UNCHANGED <<signalVars, treeVars, ownerVars, killVars, exit, commands,
                 busy, seen, watched, faults, historyVars>>

\* The replacement is not announced to the owner.  (ScopesAreOwned)
BugAnnounced(e) == events

\* The guard_replaced event.
Announced(e) == Append(events, e)

\* The replacement may have died while it was adopted.
Publish ==
  /\ Monitoring /\ place = "publish"
  /\ IF adopting \in alive
       THEN /\ guards' = [guards EXCEPT ![checking] = adopting]
            /\ missing' = [missing EXCEPT ![checking] = 0]
            /\ Stopped({guards[checking]})
            /\ events' = Announced([type |-> "replaced", gen |-> seen,
                                    worker |-> checking,
                                    old |-> guards[checking], new |-> adopting])
     ELSE Miss /\ Stopped({adopting}) /\ UNCHANGED <<guards, events>>
  /\ Continue
  /\ UNCHANGED <<signalVars, oomed, ownerVars, killVars, exit, commands, busy,
                 seen, watched, faults, historyVars>>

MonitorStep == \/ DrainCommand \/ Drained \/ Look \/ CheckAlive \/ ReportOom
               \/ Adopt \/ AdoptFails \/ Wait \/ Publish
               \/ \E w \in WorkerIds : CheckLimits(w)

-----------------------------------------------------------------------------
(***************************************************************************)
(* The receiver: guard_replaced events, and the rebuild of _restart with   *)
(* the kill of the old tree and the guards of the new workers.             *)
(***************************************************************************)
\* The owner compares with the new process.  (SparesCurrentWorkers)
BugAccepts(e) == e.gen = gen /\ scopes[e.worker] = e.new

\* The owner still holds the scope of the process that was replaced.
Accepts(e) == e.gen = gen /\ scopes[e.worker] = e.old

\* The new scope is not recorded.  (OwnerFollowsMonitor)
BugHandedOver(e) == scopes

HandedOver(e) == [scopes EXCEPT ![e.worker] = e.new]

\* _accept_replacement_guard: a scope that is not accepted is stopped.
Accept(e) ==
  IF Accepts(e)
    THEN scopes' = HandedOver(e) /\ UNCHANGED <<proc, alive, scoped>>
    ELSE Stopped({e.new}) /\ UNCHANGED scopes

AcceptReplacement ==
  /\ rx = "poll" /\ events # <<>> /\ Head(events).type = "replaced"
  /\ Accept(Head(events))
  /\ events' = Tail(events)
  /\ UNCHANGED <<signalVars, oomed, root, gen, created, killVars, exit,
                 commands, busy, monitorVars, faults, historyVars>>

\* A trigger of this generation: pause, and known_pids is collected next.
ReceiveTrigger ==
  /\ rx = "poll" /\ events # <<>> /\ Head(events).type # "replaced"
  /\ events' = Tail(events)
  /\ IF Head(events).gen = gen
       THEN /\ rx' = "known" /\ busy' = {}
            /\ commands' = Append(commands, [type |-> "pause"])
       ELSE UNCHANGED <<rx, busy, commands>>
  /\ UNCHANGED <<signalVars, treeVars, ownerVars, known, toKill, exit,
                 monitorVars, faults, historyVars>>

\* The processes of the server that a walk from the root does not find.
Lost == {p \in alive \ {root} : proc[p].home = gen} \ Descendants(root)

\* known_pids, without the root, which _kill_process_tree discards.
KnownWalk ==
  /\ rx = "known"
  /\ rx' = "walk" /\ known' = Descendants(root)
  /\ forked' = {} /\ lost' = Lost
  /\ held' = {scopes[w] : w \in WorkerIds}
  /\ UNCHANGED <<signalVars, treeVars, ownerVars, toKill, exit, queueVars,
                 monitorVars, faults>>

\* _find_orphaned_lean: the Lean processes adopted by init.
Orphans == {p \in alive : proc[p].parent = None /\ proc[p].kind # "root"}

\* Only the root is killed while it lives.  (NothingSurvives)
BugDoomed == IF root \in alive THEN {} ELSE Orphans

\* What _kill_process_tree kills besides the root.
Doomed ==
  CASE Descendants(root) # {} -> Descendants(root)
    [] OTHER -> IF known # {} THEN known
                ELSE IF root \in alive THEN {} ELSE Orphans

KillWalk ==
  /\ rx = "walk"
  /\ rx' = "kill" /\ toKill' = Doomed
  /\ UNCHANGED <<signalVars, treeVars, ownerVars, known, exit, queueVars,
                 monitorVars, faults, historyVars>>

KillTree ==
  /\ rx = "kill"
  /\ rx' = "scopes" /\ Gone(toKill \cup {root})
  /\ known' = {} /\ toKill' = {}
  /\ UNCHANGED <<signalVars, scoped, oomed, ownerVars, exit, queueVars,
                 monitorVars, faults, historyVars>>

\* _stop_worker_scopes.
StopScopes ==
  /\ rx = "scopes"
  /\ rx' = "connect"
  /\ Stopped({scopes[w] : w \in WorkerIds}) /\ scopes' = NoGuards
  /\ UNCHANGED <<signalVars, oomed, root, gen, created, known, toKill, exit,
                 queueVars, monitorVars, faults, historyVars>>

\* client.connect: a new tree, announced to the monitor.
Connect ==
  /\ rx = "connect" /\ gen < MaxServers
  /\ rx' = "attach" /\ gen' = gen + 1 /\ root' = Len(proc) + 1
  /\ proc' = proc \o <<Process("root", gen', None, None),
                       Process("server", gen', None, root')>>
  /\ alive' = alive \cup {root', root' + 1}
  /\ commands' = Append(commands, [type |-> "root", gen |-> gen', pid |-> root'])
  /\ forked' = {} /\ lost' = {} /\ held' = {}
  /\ registered' = registered \cup {root'}
  /\ UNCHANGED <<limited, handler, scoped, oomed, scopes, created, known, toKill,
                 exit, events, busy, monitorVars, faults>>

\* attach_worker_guards: processes that a walk has found are adopted one by
\* one.  They may have died since; then systemd cannot adopt them.
Attach(w) ==
  /\ rx = "attach" /\ created[w] = None
  /\ \E p \in OfWorker(w, DOMAIN proc) :
       /\ proc[p].home = gen /\ (limited => p \in alive)
       /\ created' = [created EXCEPT ![w] = p]
       /\ scoped' = IF limited THEN scoped \cup {p} ELSE scoped
  /\ UNCHANGED <<signalVars, proc, alive, oomed, root, gen, scopes, killVars,
                 exit, queueVars, monitorVars, faults, historyVars>>

AttachDone ==
  /\ rx = "attach" /\ \A w \in WorkerIds : created[w] # None
  /\ rx' = "poll" /\ scopes' = created /\ created' = NoGuards
  /\ commands' = Append(commands,
                        [type |-> "guards", gen |-> gen, guards |-> created])
  /\ UNCHANGED <<signalVars, treeVars, root, gen, known, toKill, exit, events,
                 busy, monitorVars, faults, historyVars>>

\* Without limits a worker that is not found costs the guards only.
AttachNothing ==
  /\ rx = "attach" /\ ~limited /\ created = NoGuards
  /\ \E w \in WorkerIds : OfWorker(w, Descendants(root)) = {}
  /\ rx' = "poll" /\ created' = NoGuards
  /\ UNCHANGED <<signalVars, treeVars, root, gen, scopes, known, toKill, exit,
                 queueVars, monitorVars, faults, historyVars>>

\* With limits a worker is missing or a call of systemd fails, or the root is
\* dead: what has been made is stopped, and _recover_with_retry rebuilds.
AttachFails ==
  /\ rx = "attach" /\ (limited \/ root \notin alive)
  /\ rx' = "known" /\ created' = NoGuards
  /\ Stopped({created[w] : w \in WorkerIds})
  /\ commands' = Append(commands, [type |-> "pause"])
  /\ UNCHANGED <<signalVars, oomed, root, gen, scopes, known, toKill, exit,
                 events, busy, monitorVars, faults, historyVars>>

Receiver == \/ AcceptReplacement \/ ReceiveTrigger \/ KnownWalk \/ KillWalk
            \/ KillTree \/ StopScopes \/ Connect \/ AttachDone
            \/ AttachNothing \/ AttachFails
            \/ \E w \in WorkerIds : Attach(w)

-----------------------------------------------------------------------------
(***************************************************************************)
(* LspClient.exit() while the receiver is idle (Monitor has the other      *)
(* case): Watchdog.stop(), then the kill of the tree.                      *)
(***************************************************************************)
\* The stop command, the join or the termination of the monitor, perhaps in
\* the middle of an adoption, and the end of the receiver.
StopThreads ==
  /\ exit = "no" /\ rx = "poll"
  /\ exit' = "sweep" /\ rx' = "ended"
  /\ place' = "drain" /\ todo' = {} /\ checking' = None /\ adopting' = None
  /\ UNCHANGED <<signalVars, treeVars, ownerVars, known, toKill, queueVars,
                 seen, watched, paused, guards, missing, faults, historyVars>>

\* Replacements still queued are accepted, so that their scopes are stopped.
Sweep ==
  /\ exit = "sweep" /\ events # <<>>
  /\ IF Head(events).type = "replaced" THEN Accept(Head(events))
     ELSE UNCHANGED <<proc, alive, scoped, scopes>>
  /\ events' = Tail(events)
  /\ UNCHANGED <<signalVars, oomed, root, gen, created, killVars, exit,
                 commands, busy, monitorVars, faults, historyVars>>

SweepDone ==
  /\ exit = "sweep" /\ events = <<>>
  /\ exit' = "notify"
  /\ Stopped({scopes[w] : w \in WorkerIds}) /\ scopes' = NoGuards
  /\ UNCHANGED <<signalVars, oomed, root, gen, created, killVars, queueVars,
                 monitorVars, faults, historyVars>>

\* notify("exit") raises if the root is dead; then nothing is killed.
NotifyExit ==
  /\ exit = "notify"
  /\ exit' = IF root \in alive THEN "walk" ELSE "raised"
  /\ UNCHANGED <<signalVars, treeVars, ownerVars, killVars, queueVars,
                 monitorVars, faults, historyVars>>

ExitWalk ==
  /\ exit = "walk"
  /\ exit' = "kill" /\ toKill' = Doomed
  /\ forked' = {} /\ lost' = Lost
  /\ registered' = registered \ {root}
  /\ UNCHANGED <<limited, handler, treeVars, ownerVars, rx, known, queueVars,
                 monitorVars, faults, held>>

ExitKill ==
  /\ exit = "kill"
  /\ exit' = "done" /\ Gone(toKill \cup {root}) /\ toKill' = {}
  /\ UNCHANGED <<signalVars, scoped, oomed, ownerVars, rx, known, queueVars,
                 monitorVars, faults, historyVars>>

Exit == \/ StopThreads \/ Sweep \/ SweepDone \/ NotifyExit \/ ExitWalk
        \/ ExitKill

-----------------------------------------------------------------------------
(***************************************************************************)
(* _cleanup_lean_processes, the handler of SIGTERM and SIGHUP: it kills    *)
(* the servers and returns, and the program goes on.                       *)
(***************************************************************************)
Signalled(at, list) ==
  /\ handler' = [at |-> at, list |-> list]
  /\ UNCHANGED <<limited, oomed, scoped, ownerVars, killVars, exit, queueVars,
                 monitorVars, historyVars>>

\* The registry is emptied; the trees of its living roots are walked.
SignalWalk ==
  /\ handler.at = "no" /\ Fault
  /\ Signalled("kill", UNION {Descendants(p) \cup {p} : p \in registered})
  /\ registered' = {}
  /\ UNCHANGED <<proc, alive>>

SignalKill ==
  /\ handler.at = "kill"
  /\ Gone(handler.list) /\ Signalled("sweep", {})
  /\ UNCHANGED <<registered, faults>>

\* Phase 2: the Lean processes adopted by init.
SignalSweep ==
  /\ handler.at = "sweep"
  /\ Gone(Orphans) /\ Signalled("done", {})
  /\ UNCHANGED <<registered, faults>>

Signal == SignalWalk \/ SignalKill \/ SignalSweep

-----------------------------------------------------------------------------
Next == \/ \E p \in alive : Dies(p)
        \/ \E s \in alive, w \in WorkerIds : Fork(s, w)
        \/ \E w \in WorkerIds : TaskChanges(w)
        \/ MonitorStep \/ Receiver \/ Exit \/ Signal

\* The threads and the monitor run; processes, tasks, exits and signals are
\* free.
Spec == Init /\ [][Next]_vars /\ WF_vars(MonitorStep) /\ WF_vars(Receiver)

-----------------------------------------------------------------------------
(* Properties                                                              *)

Guards == [WorkerIds -> {None} \cup Pids]

\* The variables have their types (the one type invariant of this module).
TypeOK ==
  /\ Len(proc) <= MaxProcs
  /\ limited \in BOOLEAN
  /\ \A p \in DOMAIN proc :
       /\ proc[p].kind \in {"root", "server", "worker"} /\ proc[p].home \in 1 .. gen
       /\ proc[p].parent \in 0 .. p - 1
       /\ proc[p].kind = "worker" => proc[p].worker \in WorkerIds
  /\ alive \subseteq DOMAIN proc /\ oomed \subseteq DOMAIN proc
  /\ scoped \subseteq {p \in DOMAIN proc : proc[p].kind = "worker"}
  /\ root \in DOMAIN proc /\ gen \in 1 .. MaxServers
  /\ scopes \in Guards /\ created \in Guards
  /\ rx \in {"poll", "known", "walk", "kill", "scopes", "connect", "attach",
             "ended"}
  /\ known \subseteq DOMAIN proc /\ toKill \subseteq DOMAIN proc
  /\ exit \in {"no", "sweep", "notify", "walk", "kill", "done", "raised"}
  /\ \A i \in DOMAIN commands : commands[i].type \in {"root", "pause", "guards"}
  /\ \A i \in DOMAIN events :
       events[i].type \in {"death", "memory", "worker_death", "replaced"}
  /\ registered \subseteq DOMAIN proc /\ handler.list \subseteq DOMAIN proc
  /\ handler.at \in {"no", "kill", "sweep", "done"}
  /\ busy \subseteq WorkerIds
  /\ place \in {"drain", "look", "check", "alive", "publish"}
  /\ seen \in 1 .. gen /\ watched \in DOMAIN proc /\ paused \in BOOLEAN
  /\ guards \in Guards /\ missing \in [WorkerIds -> 0 .. Grace]
  /\ todo \subseteq WorkerIds /\ checking \in {None} \cup WorkerIds
  /\ adopting \in {None} \cup Pids /\ faults \in 0 .. MaxFaults
  /\ forked \subseteq DOMAIN proc /\ lost \subseteq DOMAIN proc
  /\ held \subseteq {None} \cup Pids

\* A scope with a living process has an owner, or is on its way to one: it
\* is recorded in _worker_scopes or among those being attached, the monitor
\* has just made it, or a guard_replaced event announces it.
ScopesAreOwned ==
  exit = "no" =>
    \A p \in scoped \cap alive :
      \/ \E w \in WorkerIds : p \in {scopes[w], created[w]}
      \/ adopting = p
      \/ \E i \in DOMAIN events : events[i].new = p

\* When nothing is under way, the owner holds the scopes of the processes
\* that the monitor guards: later cleanup stops the current scopes.
OwnerFollowsMonitor ==
  /\ exit = "no" /\ rx = "poll" /\ ~paused /\ seen = gen /\ place # "publish"
  /\ commands = <<>> /\ events = <<>>
  => guards = scopes

\* When the new server is started (or exit() returns) a process of the old
\* one lives only if it was forked after the walk over the tree, or if it is
\* a worker that was cut off from the root before that walk, because the
\* root or the server had died, and whose scope nobody held.
NothingSurvives ==
  rx = "connect" \/ exit = "done" =>
    \A p \in alive :
      proc[p].home = gen =>
        \/ p \in forked
        \/ /\ p \in lost /\ proc[p].kind = "worker"
           /\ limited => p \notin held

\* Handling a replacement never kills a worker of the server in service.
SparesCurrentWorkers ==
  [][AcceptReplacement \/ Publish =>
       \A p \in alive \ alive' : proc[p].home # gen]_vars

\* A busy worker whose process is gone is replaced and guarded again, or its
\* loss leads to a rebuild.
LostWorkerIsHandled ==
  \A w \in WorkerIds :
    (rx = "poll" /\ exit = "no" /\ ~paused /\ w \in busy
       /\ guards[w] # None /\ guards[w] \notin alive)
    ~> (\/ guards[w] \in alive \/ w \notin busy \/ rx # "poll" \/ exit # "no")
=============================================================================
