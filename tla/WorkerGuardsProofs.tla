-------------------------- MODULE WorkerGuardsProofs --------------------------
(***************************************************************************)
(* Theorems about WorkerGuards, for every number of workers, servers and   *)
(* faults.                                                                 *)
(*                                                                         *)
(* GuardsInv is the inductive invariant.  Its parts follow the tree of     *)
(* processes, the queues, a round of the monitor, who owns a scope, what   *)
(* the owner will know of the monitor's guards, and what a rebuild or      *)
(* exit() leaves alive.                                                    *)
(***************************************************************************)
EXTENDS WorkerGuards, FiniteSetTheorems, SequenceTheorems, TLAPS

-----------------------------------------------------------------------------
(* The inductive invariant                                                 *)

\* What the servers after generation g will need.
Room(g) == (MaxServers - g) * (2 + Cardinality(WorkerIds))

Processes ==
  [kind : {"root", "server", "worker"}, home : Nat, worker : {None} \cup WorkerIds, parent : Nat]

\* A parent is older than its children; only workers are put in scopes.
TreeTypes ==
  /\ \A p \in 1 .. Len(proc) :
       /\ proc[p].home \in 1 .. gen /\ proc[p].parent \in 0 .. p - 1
       /\ proc[p].kind = "worker" => proc[p].worker \in WorkerIds
  /\ alive \subseteq 1 .. Len(proc) /\ oomed \subseteq 1 .. Len(proc)
  /\ scoped \subseteq 1 .. Len(proc) /\ \A p \in scoped : proc[p].kind = "worker"
  /\ gen \in 1 .. MaxServers

\* The types of the variables that the other parts say nothing about.
PlainTypes ==
  /\ limited \in BOOLEAN /\ paused \in BOOLEAN
  /\ rx \in {"poll", "known", "walk", "kill", "scopes", "connect", "attach", "ended"}
  /\ exit \in {"no", "sweep", "notify", "walk", "kill", "done", "raised"}
  /\ registered \subseteq 1 .. Len(proc) /\ handler.list \subseteq 1 .. Len(proc)
  /\ handler.at \in {"no", "kill", "sweep", "done"}
  /\ busy \subseteq WorkerIds
  /\ place \in {"drain", "look", "check", "alive", "publish"}
  /\ seen \in 1 .. gen /\ missing \in [WorkerIds -> 0 .. Grace]
  /\ todo \subseteq WorkerIds /\ checking \in {None} \cup WorkerIds
  /\ faults \in 0 .. MaxFaults /\ held \subseteq {None} \cup (1 .. Len(proc))

\* The processes of a server: the root, its child, the children of that; a parent
\* lives.  There is room for the servers still to come.
TreeInv ==
  /\ proc \in Seq(Processes)
  /\ Len(proc) + Room(gen) <= MaxProcs
  /\ root \in 1 .. Len(proc) /\ root + 1 \in 1 .. Len(proc)
  /\ proc[root].kind = "root" /\ proc[root].home = gen
  /\ proc[root + 1].kind = "server" /\ proc[root + 1].home = gen
  /\ root \in alive => proc[root + 1].parent = root
  /\ \A p \in 1 .. Len(proc) :
       LET q == proc[p].parent IN
       /\ proc[p].home = gen /\ proc[p].kind = "root" => p = root
       /\ proc[p].home = gen /\ proc[p].kind = "server" => p = root + 1
       /\ proc[p].home = gen /\ proc[p].kind = "worker" /\ root + 1 \in alive => q = root + 1
       /\ q # None =>
            /\ q \in alive /\ proc[q].home = proc[p].home
            /\ proc[p].kind = "server" => proc[q].kind = "root"
            /\ proc[p].kind = "worker" => proc[q].kind = "server"
            /\ proc[p].kind # "root"

Started == {None} \cup (1 .. Len(proc))

\* A living process of a guard is in a scope, if there are limits.
Guarded(p) == limited /\ p \in alive => p \in scoped

Commands ==
  [type : {"pause"}] \cup [type : {"root"}, gen : Nat, pid : Nat]
    \cup [type : {"guards"}, gen : Nat, guards : [WorkerIds -> Nat]]
EventTypes == {"death", "memory", "worker_death", "replaced"}
Events ==
  [type : EventTypes, gen : Nat, worker : {None} \cup WorkerIds, old : Nat, new : Nat]

\* A command of a server that there is; an event of a replacement names a dead process
\* and its successor of the same server.
GoodCommand(c) ==
  /\ c.type \in {"pause", "root", "guards"}
  /\ c.type = "root" => c.gen \in 1 .. gen /\ c.pid \in 1 .. Len(proc) /\ proc[c.pid].home = c.gen
  /\ c.type = "guards" => c.gen \in 1 .. gen /\ c.guards \in [WorkerIds -> Started]

GoodEvent(e) ==
  /\ e.gen \in 1 .. gen
  /\ e.type # "replaced" => e.new = None
  /\ e.type = "replaced" =>
       /\ e.worker \in WorkerIds
       /\ e.old \in Started /\ e.old \notin alive
       /\ e.new \in 1 .. Len(proc) /\ proc[e.new].home = e.gen /\ Guarded(e.new)

CommandQueue ==
  commands \in Seq(Commands) /\ \A i \in 1 .. Len(commands) : GoodCommand(commands[i])

EventQueue ==
  events \in Seq(Events) /\ \A i \in 1 .. Len(events) : GoodEvent(events[i])

QueueInv == CommandQueue /\ EventQueue

\* Where the monitor is in its round, and that it serves one generation in it.
RoundInv ==
  /\ place \in {"drain", "look"} => todo = {}
  /\ place \in {"drain", "look", "check"} => checking = None
  /\ place \in {"alive", "publish"} => checking \in WorkerIds
  /\ place # "publish" => adopting = None
  /\ \A w \in todo : guards[w] # None
  /\ checking # None => guards[checking] # None
  /\ guards \in [WorkerIds -> Started]
  /\ watched \in 1 .. Len(proc) /\ proc[watched].home = seen
  /\ place = "publish" =>
       /\ guards[checking] \notin alive
       /\ adopting \in 1 .. Len(proc) /\ proc[adopting].home = seen /\ Guarded(adopting)

\* Processes whose scopes are recorded.
Recorded(record) ==
  record \in [WorkerIds -> Started] /\ \A w \in WorkerIds : Guarded(record[w])

\* Who holds a scope.
OwnInv ==
  /\ rx = "ended" <=> exit # "no"
  /\ rx \in {"connect", "attach"} => scopes = NoGuards
  /\ rx # "attach" => created = NoGuards
  /\ Recorded(scopes) /\ Recorded(created)
  /\ ScopesAreOwned

\* The guards of this server are still to be read by the monitor.
Untold == \E i \in 1 .. Len(commands) : commands[i].type = "guards" /\ commands[i].gen = gen

\* A replacement for worker w of the server g.
Replaces(e, w, g) == e.type = "replaced" /\ e.gen = g /\ e.worker = w

NoReplacement == \A i \in 1 .. Len(events), w \in WorkerIds : ~Replaces(events[i], w, gen)

\* The replacements in queue for worker w of the server g lead from one process to
\* another: the first replaces from, each of the others its predecessor's, the last
\* makes to.
Chain(queue, w, g, from, to) ==
  LET Own(i) == Replaces(queue[i], w, g) IN
  /\ \A i \in 1 .. Len(queue) :
       Own(i) /\ (\A k \in 1 .. Len(queue) : Own(k) => i <= k) => queue[i].old = from
  /\ \A i, j \in 1 .. Len(queue) :
       Own(i) /\ Own(j) /\ i < j /\ (\A k \in 1 .. Len(queue) : Own(k) => k <= i \/ j <= k)
         => queue[j].old = queue[i].new
  /\ \A i \in 1 .. Len(queue) :
       Own(i) /\ (\A k \in 1 .. Len(queue) : Own(k) => k <= i) => queue[i].new = to
  /\ (\A i \in 1 .. Len(queue) : ~Own(i)) => from = to

\* The commands name servers in the order of their start.
RootsInv ==
  /\ \A i \in 1 .. Len(commands) : commands[i].type = "root" => seen < commands[i].gen
  /\ \A i, j \in 1 .. Len(commands) :
       commands[i].type = "root" /\ commands[j].type = "root" /\ i < j
         => commands[i].gen < commands[j].gen

\* The monitor knows the server in service, or is told of it after every pause.
KnownSoon == \E i \in 1 .. Len(commands) : commands[i].type = "root" /\ commands[i].gen = gen

ServiceInv ==
  rx \in {"poll", "attach"} =>
    /\ seen = gen \/ KnownSoon
    /\ \A i \in 1 .. Len(commands) :
         commands[i].type = "pause" =>
           \E j \in 1 .. Len(commands) :
             j > i /\ commands[j].type = "root" /\ commands[j].gen = gen

\* What the owner knows of the monitor's guards, before and after the monitor has been
\* told of its own.
FollowInv ==
  /\ rx = "attach" => ~Untold
  /\ rx = "attach" \/ (rx = "poll" /\ Untold) =>
       NoReplacement /\ (seen = gen => guards = NoGuards)
  /\ rx = "poll" =>
       \A i \in 1 .. Len(commands) :
         commands[i].type = "guards" /\ commands[i].gen = gen =>
           i = Len(commands) /\ commands[i].guards = scopes
  /\ rx = "poll" /\ ~Untold /\ seen # gen => NoReplacement /\ scopes = NoGuards
  /\ rx = "poll" /\ ~Untold /\ seen = gen =>
       \A w \in WorkerIds : Chain(events, w, gen, scopes[w], guards[w])

\* The processes below the root that a walk finds while the server lives.
Mine == {p \in alive \ {root} : proc[p].home = gen}

\* What the walks have found, and when they forget it.
ListsInv ==
  /\ known \subseteq 1 .. Len(proc) /\ toKill \subseteq 1 .. Len(proc)
  /\ lost \subseteq 1 .. Len(proc) /\ forked \subseteq 1 .. Len(proc)
  /\ rx \notin {"walk", "kill"} => known = {}
  /\ rx \notin {"walk", "kill", "scopes", "connect"} => held = {}
  /\ rx \in {"walk", "kill", "scopes"} => held = {scopes[w] : w \in WorkerIds}

\* A process that the walks will not find: started since, or a worker cut off before.
Excused(p) == p \in forked \/ (p \in lost /\ proc[p].kind = "worker")

\* What a rebuild, or exit(), has yet to kill, from the first walk on.
WalkInv ==
  rx = "walk" =>
    /\ \A p \in Mine : p \in known \/ p \in lost \/ p \in forked
    /\ root + 1 \notin forked
    /\ root + 1 \in lost /\ root + 1 \in alive => root \notin alive /\ known = {}

KillInv ==
  rx = "kill" \/ exit = "kill" => \A p \in Mine : p \in toKill \/ Excused(p)

DeadInv ==
  rx = "scopes" => \A p \in alive : proc[p].home = gen => Excused(p)

SurviveInv == ListsInv /\ WalkInv /\ KillInv /\ DeadInv /\ NothingSurvives

GuardsInv ==
  /\ TreeTypes /\ PlainTypes /\ TreeInv /\ QueueInv
  /\ RoundInv /\ OwnInv /\ RootsInv /\ ServiceInv /\ FollowInv /\ SurviveInv

-----------------------------------------------------------------------------
(* Queues, numbers and processes                                           *)

LEMMA AppendedQueue ==
  ASSUME NEW S, NEW q \in Seq(S), NEW c \in S, NEW r, r = Append(q, c)
  PROVE  /\ r \in Seq(S) /\ Len(q) \in Nat /\ Len(r) = Len(q) + 1
         /\ r[Len(q) + 1] = c /\ \A i \in 1 .. Len(q) : r[i] = q[i] /\ i \in 1 .. Len(r)
         /\ \A i \in 1 .. Len(r) : i = Len(q) + 1 \/ i \in 1 .. Len(q)
         /\ Len(q) + 1 \in 1 .. Len(r)
<1>1. Len(q) \in Nat
  BY LenProperties
<1>2. /\ r \in Seq(S) /\ Len(r) = Len(q) + 1
      /\ \A i \in 1 .. Len(q) : r[i] = q[i]
      /\ r[Len(q) + 1] = c
  BY AppendProperties
<1> QED
  BY <1>1, <1>2

LEMMA QueueTail ==
  ASSUME NEW S, NEW q \in Seq(S), q # <<>>, NEW r, r = Tail(q)
  PROVE  /\ Head(q) = q[1] /\ q[1] \in S /\ 1 \in 1 .. Len(q)
         /\ r \in Seq(S) /\ Len(q) \in Nat \ {0} /\ Len(r) = Len(q) - 1
         /\ \A i \in 1 .. Len(r) : r[i] = q[i + 1] /\ i + 1 \in 1 .. Len(q)
         /\ \A i \in 1 .. Len(q) : i = 1 \/ (i - 1 \in 1 .. Len(r) /\ r[i - 1] = q[i])
<1>1. Len(q) \in Nat \ {0} /\ Head(q) = q[1]
  BY EmptySeq
<1>2. /\ Head(q) \in S /\ r \in Seq(S) /\ Len(r) = Len(q) - 1
      /\ \A i \in 1 .. Len(r) : r[i] = q[i + 1]
  BY HeadTailProperties
<1>3. \A i \in 1 .. Len(r) : i + 1 \in 1 .. Len(q)
  BY <1>1, <1>2
<1>4. \A i \in 1 .. Len(q) : i = 1 \/ (i - 1 \in 1 .. Len(r) /\ (i - 1) + 1 = i)
  BY <1>1, <1>2
<1> QED
  BY <1>1, <1>2, <1>3, <1>4

\* The constants.
LEMMA Numbers ==
  /\ Cardinality(WorkerIds) \in Nat /\ WorkerIds = 1 .. Cardinality(WorkerIds)
  /\ WorkerIds \subseteq Nat \ {0} /\ None = 0 /\ None \notin WorkerIds
  /\ MaxProcs \in Nat /\ MaxServers \in Nat \ {0} /\ Grace \in Nat \ {0} /\ MaxFaults \in Nat
  /\ Pids = 1 .. MaxProcs
BY GuardsAssumption DEF None, Pids

LEMMA RoomLeft ==
  ASSUME NEW g \in 1 .. MaxServers
  PROVE  /\ Room(g) \in Nat
         /\ g < MaxServers => Room(g) = Room(g + 1) + 2 + Cardinality(WorkerIds)
<1> DEFINE n == 2 + Cardinality(WorkerIds)
<1>1. n \in Nat
  BY Numbers
<1>2. MaxServers - g \in Nat
  BY Numbers
<1>3. ASSUME NEW a \in Nat, NEW b \in Nat PROVE a * b \in Nat
  OBVIOUS
<1>4. Room(g) \in Nat
  BY <1>1, <1>2, <1>3 DEF Room
<1>5. ASSUME NEW a \in Int, NEW b \in Int PROVE a * b = (a - 1) * b + b
  OBVIOUS
<1>6. Room(g) = (MaxServers - g - 1) * n + n
  BY <1>1, <1>2, <1>5 DEF Room
<1>7. MaxServers - g - 1 = MaxServers - (g + 1)
  BY Numbers
<1>8. Room(g) = Room(g + 1) + n
  BY <1>6, <1>7 DEF Room
<1>9. Room(g + 1) \in Int
  BY <1>1, Numbers DEF Room
<1> QED
  BY <1>4, <1>8, <1>9, Numbers

-----------------------------------------------------------------------------
(* The initial state                                                       *)

LEMMA FirstProcesses ==
  /\ FirstTree \in Seq(Processes) /\ Len(FirstTree) = 2 + Cardinality(WorkerIds)
  /\ DOMAIN FirstTree = 1 .. 2 + Cardinality(WorkerIds)
  /\ FirstTree[1] = Process("root", 1, None, None)
  /\ FirstTree[2] = Process("server", 1, None, 1)
  /\ \A i \in 3 .. 2 + Cardinality(WorkerIds) : FirstTree[i] = Process("worker", 1, i - 2, 2)
<1> DEFINE n == Cardinality(WorkerIds)
           top == <<Process("root", 1, None, None), Process("server", 1, None, 1)>>
           pool == [i \in 1 .. n |-> Process("worker", 1, i, 2)]
<1>1. n \in Nat
  BY Numbers
<1>2. top \in Seq(Processes) /\ Len(top) = 2 /\ top[1] = Process("root", 1, None, None)
      /\ top[2] = Process("server", 1, None, 1)
  BY Numbers DEF Process, Processes
<1>3. pool \in Seq(Processes) /\ Len(pool) = n
      /\ \A i \in 1 .. n : pool[i] = Process("worker", 1, i, 2)
  <2>1. \A i \in 1 .. n : Process("worker", 1, i, 2) \in Processes
    BY Numbers DEF Process, Processes
  <2>2. pool \in [1 .. n -> Processes]
    BY <2>1
  <2>3. pool \in Seq(Processes)
    BY <1>1, <2>2, SeqDef
  <2> QED
    BY <1>1, <2>2, <2>3, LenProperties
<1>4. FirstTree = top \o pool
  BY DEF FirstTree
<1> HIDE DEF n, top, pool
<1>5. /\ FirstTree \in Seq(Processes) /\ Len(FirstTree) = 2 + n
      /\ \A i \in 1 .. 2 + n : FirstTree[i] = IF i <= 2 THEN top[i] ELSE pool[i - 2]
  <2>1. /\ FirstTree \in Seq(Processes) /\ Len(FirstTree) = Len(top) + Len(pool)
        /\ \A i \in 1 .. Len(top) + Len(pool) :
             FirstTree[i] = IF i <= Len(top) THEN top[i] ELSE pool[i - Len(top)]
    BY <1>2, <1>3, <1>4, ConcatProperties
  <2> QED
    BY <1>1, <1>2, <1>3, <2>1
<1>6. FirstTree[1] = top[1] /\ FirstTree[2] = top[2]
  BY <1>1, <1>5
<1>7. \A i \in 3 .. 2 + n : i - 2 \in 1 .. n /\ FirstTree[i] = pool[i - 2]
  BY <1>1, <1>5
<1>8. DOMAIN FirstTree = 1 .. 2 + n
  BY <1>5, LenProperties
<1> QED
  BY <1>2, <1>3, <1>5, <1>6, <1>7, <1>8 DEF n

LEMMA InitInv == Init => GuardsInv
<1> SUFFICES ASSUME Init PROVE GuardsInv
  OBVIOUS
<1> DEFINE n == Cardinality(WorkerIds)
<1>1. /\ proc \in Seq(Processes) /\ Len(proc) = 2 + n /\ DOMAIN proc = 1 .. 2 + n
      /\ proc[1] = Process("root", 1, None, None)
      /\ proc[2] = Process("server", 1, None, 1)
      /\ \A i \in 3 .. 2 + n : proc[i] = Process("worker", 1, i - 2, 2)
      /\ alive = 1 .. 2 + n /\ n \in Nat
  BY FirstProcesses, Numbers DEF Init
\* The processes one by one.
<1>2. /\ proc[1].kind = "root" /\ proc[1].home = 1 /\ proc[1].parent = 0
      /\ proc[2].kind = "server" /\ proc[2].home = 1 /\ proc[2].parent = 1
      /\ \A i \in 3 .. 2 + n : /\ proc[i].kind = "worker" /\ proc[i].home = 1
                               /\ proc[i].worker = i - 2 /\ proc[i].parent = 2
                               /\ i - 2 \in WorkerIds
      /\ \A i \in 1 .. 2 + n : i = 1 \/ i = 2 \/ i \in 3 .. 2 + n
      /\ {1, 2} \subseteq 1 .. 2 + n
  <2>1. /\ proc[1].kind = "root" /\ proc[1].home = 1 /\ proc[1].parent = 0
        /\ proc[2].kind = "server" /\ proc[2].home = 1 /\ proc[2].parent = 1
    BY <1>1 DEF Process, None
  <2>2. ASSUME NEW i \in 3 .. 2 + n
        PROVE  /\ proc[i].kind = "worker" /\ proc[i].home = 1
               /\ proc[i].worker = i - 2 /\ proc[i].parent = 2
    <3>1. proc[i] = Process("worker", 1, i - 2, 2)
      BY <1>1
    <3> QED
      BY <3>1 DEF Process
  <2>3. \A i \in 3 .. 2 + n : i - 2 \in WorkerIds
    BY <1>1, Numbers
  <2>4. /\ \A i \in 1 .. 2 + n : i = 1 \/ i = 2 \/ i \in 3 .. 2 + n
        /\ {1, 2} \subseteq 1 .. 2 + n
    BY <1>1
  <2> QED
    BY <2>1, <2>2, <2>3, <2>4
<1> HIDE DEF n
<1>3. /\ FirstGuards \in [WorkerIds -> 3 .. 2 + n]
      /\ \A w \in WorkerIds : FirstGuards[w] # None /\ FirstGuards[w] \in alive
      /\ 3 .. 2 + n \subseteq 1 .. 2 + n
  <2>1. \A w \in WorkerIds : 2 + w \in 3 .. 2 + n
    BY <1>1, Numbers DEF n
  <2>2. 3 .. 2 + n \subseteq 1 .. 2 + n /\ 0 \notin 3 .. 2 + n
    BY <1>1
  <2> QED
    BY <1>1, <2>1, <2>2 DEF FirstGuards, None
<1>4. Len(proc) + Room(gen) <= MaxProcs
  <2>1. \A a, b \in Nat : a * b = b + (a - 1) * b
    OBVIOUS
  <2>2. MaxServers * (2 + n) = (2 + n) + (MaxServers - 1) * (2 + n)
    BY <1>1, <2>1, Numbers
  <2> QED
    BY <1>1, <2>2, GuardsAssumption DEF Room, n, Init
<1>5. Room(gen) \in Nat
  BY RoomLeft, Numbers DEF Init
<1>6. TreeInv
  BY <1>1, <1>2, <1>4 DEF TreeInv, Init, None
<1>7. /\ commands \in Seq(Commands) /\ Len(commands) = 0 /\ DOMAIN commands = {}
      /\ events \in Seq(Events) /\ Len(events) = 0 /\ DOMAIN events = {}
  BY DEF Init
<1>8. QueueInv
  BY <1>7 DEF QueueInv, CommandQueue, EventQueue
<1>9. Started = 0 .. 2 + n
  BY <1>1 DEF Started, None
<1>10. RoundInv
  BY <1>1, <1>2, <1>3, <1>9 DEF RoundInv, Init
<1>11. OwnInv
  <2>1. \A w \in WorkerIds : Guarded(scopes[w]) /\ Guarded(created[w])
    <3>1. \A w \in WorkerIds : created[w] = 0 /\ 0 \notin alive
      BY <1>1 DEF Init, NoGuards, None
    <3> QED
      BY <3>1 DEF Guarded, Init
  <2>2. ScopesAreOwned
    BY DEF ScopesAreOwned, Init
  <2>3. scopes \in [WorkerIds -> Started] /\ created \in [WorkerIds -> Started]
    BY <1>3, <1>9, <1>1 DEF Init, NoGuards, None
  <2> QED
    BY <2>1, <2>2, <2>3 DEF OwnInv, Recorded, Init
<1>12. RootsInv /\ ServiceInv /\ FollowInv
  BY <1>7 DEF RootsInv, ServiceInv, FollowInv, Init, Untold, Chain
<1>13. SurviveInv
  BY DEF SurviveInv, ListsInv, WalkInv, KillInv, DeadInv, NothingSurvives, Init
<1>14. TreeTypes
  <2>1. \A p \in 1 .. Len(proc) :
          /\ proc[p].home \in 1 .. gen /\ proc[p].parent \in 0 .. p - 1
          /\ proc[p].kind = "worker" => proc[p].worker \in WorkerIds
    BY <1>1, <1>2 DEF Init
  <2>2. scoped \subseteq 1 .. Len(proc) /\ \A p \in scoped : proc[p].kind = "worker"
    <3>1. \A w \in WorkerIds :
            FirstGuards[w] \in 1 .. Len(proc) /\ proc[FirstGuards[w]].kind = "worker"
      BY <1>1, <1>2, <1>3
    <3>2. scoped \subseteq {FirstGuards[w] : w \in WorkerIds}
      BY DEF Init
    <3> QED
      BY <3>1, <3>2
  <2>3. gen \in 1 .. MaxServers
    BY Numbers DEF Init
  <2> QED
    BY <1>1, <2>1, <2>2, <2>3 DEF TreeTypes, Init
<1>15. PlainTypes
  <2>1. missing \in [WorkerIds -> 0 .. Grace] /\ faults \in 0 .. MaxFaults /\ seen \in 1 .. gen
    BY Numbers DEF Init
  <2>2. limited \in BOOLEAN /\ paused \in BOOLEAN
    BY Zenon DEF Init
  <2>3. registered \subseteq 1 .. Len(proc) /\ handler.list \subseteq 1 .. Len(proc)
    BY <1>1, <1>2 DEF Init
  <2> QED
    BY <2>1, <2>2, <2>3 DEF PlainTypes, Init
<1> QED
  BY <1>6, <1>8, <1>10, <1>11, <1>12, <1>13, <1>14, <1>15 DEF GuardsInv

-----------------------------------------------------------------------------
(* The tree of processes                                                   *)

\* No process starts; some may have died.
Shrunk ==
  /\ root' = root /\ gen' = gen /\ limited' = limited
  /\ proc' \in Seq(Processes) /\ Len(proc') = Len(proc)
  /\ alive' \subseteq alive
  /\ \A p \in 1 .. Len(proc) :
       /\ proc'[p].kind = proc[p].kind /\ proc'[p].home = proc[p].home
       /\ proc'[p].worker = proc[p].worker
       /\ \/ proc'[p].parent = proc[p].parent /\ (proc[p].parent \in alive => proc[p].parent \in alive')
          \/ proc'[p].parent = None /\ proc[p].parent \notin alive'
  /\ \A p \in alive' : p \in scoped => p \in scoped'

LEMMA NothingGone ==
  ASSUME TreeInv, UNCHANGED <<root, gen, limited, proc, alive>>, scoped \subseteq scoped'
  PROVE  Shrunk
BY DEF TreeInv, Shrunk

LEMMA GoneShrinks ==
  ASSUME TreeInv, TreeTypes, UNCHANGED <<root, gen, limited>>, NEW S, Gone(S),
         scoped \ S \subseteq scoped'
  PROVE  Shrunk
<1>1. proc \in Seq(Processes) /\ DOMAIN proc = 1 .. Len(proc) /\ Len(proc) \in Nat
  BY LenProperties DEF TreeInv
<1>2. proc' = [p \in 1 .. Len(proc) |->
                IF proc[p].parent \in S \cap alive
                  THEN [proc[p] EXCEPT !.parent = None] ELSE proc[p]]
  BY <1>1 DEF Gone
<1>3. ASSUME NEW p \in 1 .. Len(proc)
      PROVE  /\ proc'[p] \in Processes
             /\ proc'[p].kind = proc[p].kind /\ proc'[p].home = proc[p].home
             /\ proc'[p].worker = proc[p].worker
             /\ proc[p].parent \in S \cap alive => proc'[p].parent = None
             /\ proc[p].parent \notin S \cap alive => proc'[p].parent = proc[p].parent
  <2>1. proc[p] \in Processes
    BY <1>1
  <2>2. CASE proc[p].parent \in S \cap alive
    <3>1. proc'[p] = [proc[p] EXCEPT !.parent = None]
      BY <1>2, <2>2
    <3> QED
      BY <2>1, <2>2, <3>1 DEF Processes, None
  <2>3. CASE proc[p].parent \notin S \cap alive
    <3>1. proc'[p] = proc[p]
      BY <1>2, <2>3
    <3> QED
      BY <2>1, <2>3, <3>1
  <2> QED
    BY <2>2, <2>3
<1>4. proc' \in [1 .. Len(proc) -> Processes]
  BY <1>2, <1>3
<1>5. proc' \in Seq(Processes) /\ Len(proc') = Len(proc)
  BY <1>1, <1>4, SeqDef, LenProperties
<1>6. alive' = alive \ S
  BY DEF Gone
<1> QED
  BY <1>3, <1>5, <1>6 DEF Shrunk

LEMMA StoppedShrinks ==
  ASSUME TreeInv, TreeTypes, UNCHANGED <<root, gen, limited>>, NEW S, Stopped(S)
  PROVE  Shrunk
<1>1. Gone(S \cap scoped) /\ scoped' = scoped \ S
  BY DEF Stopped
<1> QED
  BY <1>1, GoneShrinks

\* The places of processes are numbers from 1.
LEMMA Places ==
  ASSUME TreeInv, TreeTypes
  PROVE  /\ Len(proc) \in Nat /\ DOMAIN proc = 1 .. Len(proc) /\ 1 .. Len(proc) \subseteq Nat \ {0}
         /\ None \notin 1 .. Len(proc) /\ None \notin alive /\ alive \subseteq 1 .. Len(proc)
         /\ Room(gen) \in Nat /\ Len(proc) <= MaxProcs /\ 1 .. Len(proc) \subseteq Pids
         /\ Started \subseteq {None} \cup Pids /\ MaxServers \in Nat /\ gen \in Nat \ {0}
<1>1. Len(proc) \in Nat /\ DOMAIN proc = 1 .. Len(proc)
  BY LenProperties DEF TreeInv
<1>2. Room(gen) \in Nat /\ gen \in Nat \ {0} /\ MaxServers \in Nat
  BY RoomLeft, Numbers DEF TreeTypes
<1>3. Len(proc) <= MaxProcs
  BY <1>1, <1>2, Numbers DEF TreeInv
<1>4. alive \subseteq 1 .. Len(proc)
  BY DEF TreeTypes
<1>5. 1 .. Len(proc) \subseteq Pids
  BY <1>1, <1>3, Numbers
<1> QED
  BY <1>1, <1>2, <1>3, <1>4, <1>5 DEF None, Started

LEMMA ShrunkTree ==
  ASSUME TreeInv, TreeTypes, Shrunk
  PROVE  TreeInv'
<1>1. /\ proc' \in Seq(Processes) /\ Len(proc') + Room(gen') <= MaxProcs
      /\ root' + 1 \in 1 .. Len(proc') /\ root' \in 1 .. Len(proc')
  BY DEF TreeInv, Shrunk, Room
<1>2. /\ proc'[root'].kind = "root" /\ proc'[root'].home = gen'
      /\ proc'[root' + 1].kind = "server" /\ proc'[root' + 1].home = gen'
  BY DEF TreeInv, Shrunk
<1>3. root' \in alive' => proc'[root' + 1].parent = root'
  BY DEF TreeInv, Shrunk
<1>4. ASSUME NEW p \in 1 .. Len(proc'), NEW q, q = proc'[p].parent
      PROVE  /\ proc'[p].home = gen' /\ proc'[p].kind = "root" => p = root'
             /\ proc'[p].home = gen' /\ proc'[p].kind = "server" => p = root' + 1
             /\ proc'[p].home = gen' /\ proc'[p].kind = "worker" /\ root' + 1 \in alive'
                  => q = root' + 1
             /\ q # None =>
                  /\ q \in alive' /\ proc'[q].home = proc'[p].home
                  /\ proc'[p].kind = "server" => proc'[q].kind = "root"
                  /\ proc'[p].kind = "worker" => proc'[q].kind = "server"
                  /\ proc'[p].kind # "root"
  <2>1. p \in 1 .. Len(proc) /\ proc'[p].kind = proc[p].kind /\ proc'[p].home = proc[p].home
        /\ root' = root /\ gen' = gen /\ alive' \subseteq alive
    BY DEF Shrunk
  <2>2. /\ proc[p].home = gen /\ proc[p].kind = "root" => p = root
        /\ proc[p].home = gen /\ proc[p].kind = "server" => p = root + 1
        /\ proc[p].home = gen /\ proc[p].kind = "worker" /\ root + 1 \in alive
             => proc[p].parent = root + 1
    BY <2>1 DEF TreeInv
  <2>3. CASE q = proc[p].parent /\ (q \in alive => q \in alive')
    <3>1. CASE q # None
      <4>1. /\ q \in alive /\ proc[q].home = proc[p].home
            /\ proc[p].kind = "server" => proc[q].kind = "root"
            /\ proc[p].kind = "worker" => proc[q].kind = "server"
            /\ proc[p].kind # "root"
        BY <2>1, <2>3, <3>1 DEF TreeInv
      <4>2. q \in 1 .. Len(proc)
        BY <4>1, Places
      <4>3. proc'[q].kind = proc[q].kind /\ proc'[q].home = proc[q].home
        BY <4>2 DEF Shrunk
      <4> QED
        BY <2>1, <2>2, <2>3, <4>1, <4>3
    <3>2. CASE q = None
      BY <2>1, <2>2, <2>3, <3>2
    <3> QED
      BY <3>1, <3>2
  <2>4. CASE q = None /\ proc[p].parent \notin alive'
    BY <2>1, <2>2, <2>4
  <2> QED
    BY <1>4, <2>1, <2>3, <2>4 DEF Shrunk
<1> QED
  BY <1>1, <1>2, <1>3, <1>4 DEF TreeInv

\* A scope made for worker p, or killed at its limit.
LEMMA ShrunkTypes ==
  ASSUME TreeInv, TreeTypes, Shrunk,
         \A p \in scoped' : p \in scoped \/ (p \in 1 .. Len(proc) /\ proc[p].kind = "worker"),
         oomed' \subseteq oomed \cup scoped
  PROVE  TreeTypes'
<1>1. gen' = gen /\ Len(proc') = Len(proc) /\ alive' \subseteq alive
  BY DEF Shrunk
<1>2. \A p \in 1 .. Len(proc) :
        /\ proc'[p].kind = proc[p].kind /\ proc'[p].home = proc[p].home
        /\ proc'[p].worker = proc[p].worker
        /\ proc'[p].parent = proc[p].parent \/ proc'[p].parent = None
  BY DEF Shrunk
<1>3. ASSUME NEW p \in 1 .. Len(proc)
      PROVE  /\ proc'[p].home \in 1 .. gen /\ proc'[p].parent \in 0 .. p - 1
             /\ proc'[p].kind = "worker" => proc'[p].worker \in WorkerIds
  <2>1. /\ proc[p].home \in 1 .. gen /\ proc[p].parent \in 0 .. p - 1
        /\ proc[p].kind = "worker" => proc[p].worker \in WorkerIds
    BY DEF TreeTypes
  <2>2. 0 \in 0 .. p - 1
    BY Places
  <2> QED
    BY <1>2, <2>1, <2>2 DEF None
<1>4. alive \subseteq 1 .. Len(proc) /\ oomed \subseteq 1 .. Len(proc) /\ gen \in 1 .. MaxServers
      /\ scoped \subseteq 1 .. Len(proc) /\ \A p \in scoped : proc[p].kind = "worker"
  BY DEF TreeTypes
<1>5. scoped' \subseteq 1 .. Len(proc) /\ \A p \in scoped' : proc'[p].kind = "worker"
  BY <1>2, <1>4
<1> QED
  BY <1>1, <1>3, <1>4, <1>5 DEF TreeTypes


\* Time only adds processes; what was started stays what it is, and the dead stay dead.
Forward ==
  /\ Len(proc) \in Nat /\ Len(proc') \in Nat /\ Len(proc) <= Len(proc')
  /\ gen \in Nat /\ gen' \in Nat /\ gen <= gen' /\ limited' = limited
  /\ \A p \in 1 .. Len(proc) :
       /\ p \in alive' => p \in alive
       /\ proc'[p].kind = proc[p].kind /\ proc'[p].home = proc[p].home
  /\ \A p \in alive' : p \in scoped => p \in scoped'

LEMMA ShrunkForward ==
  ASSUME TreeInv, TreeTypes, Shrunk
  PROVE  Forward
<1>1. Len(proc') = Len(proc) /\ gen' = gen /\ Len(proc) \in Nat /\ gen \in Nat
  BY Places DEF Shrunk
<1>2. \A p \in 1 .. Len(proc) :
        /\ p \in alive' => p \in alive
        /\ proc'[p].kind = proc[p].kind /\ proc'[p].home = proc[p].home
  BY DEF Shrunk
<1> QED
  BY <1>1, <1>2 DEF Forward, Shrunk

LEMMA ForkTree ==
  ASSUME TreeInv, TreeTypes, NEW s \in alive, NEW w \in WorkerIds, Fork(s, w)
  PROVE  /\ TreeInv' /\ TreeTypes' /\ Forward
         /\ Len(proc') = Len(proc) + 1 /\ alive' = alive \cup {Len(proc')}
         /\ \A p \in 1 .. Len(proc) : proc'[p] = proc[p]
<1> DEFINE n == Len(proc) + 1
           child == Process("worker", proc[s].home, w, s)
<1>1. s \in 1 .. Len(proc) /\ proc[s].kind = "server" /\ proc[s].home \in 1 .. gen
  BY Places DEF TreeTypes, Fork
<1>2. /\ child \in Processes /\ child.kind = "worker" /\ child.home = proc[s].home
      /\ child.worker = w /\ child.parent = s
  BY <1>1, Places DEF Process, Processes
<1>3. proc' = Append(proc, child)
  BY DEF Fork
<1> HIDE DEF child
<1>4. /\ proc' \in Seq(Processes) /\ Len(proc') = n /\ proc'[n] = child
      /\ \A p \in 1 .. Len(proc) : proc'[p] = proc[p] /\ p \in 1 .. n
      /\ \A p \in 1 .. n : p = n \/ p \in 1 .. Len(proc)
      /\ n \in 1 .. n /\ Len(proc) \in Nat
  <2>1. proc \in Seq(Processes)
    BY DEF TreeInv
  <2>2. /\ proc' \in Seq(Processes) /\ Len(proc') = n /\ proc'[n] = child
        /\ \A p \in 1 .. Len(proc) : proc'[p] = proc[p] /\ p \in 1 .. Len(proc')
        /\ \A p \in 1 .. Len(proc') : p = n \/ p \in 1 .. Len(proc)
        /\ n \in 1 .. Len(proc')
    BY <1>2, <1>3, <2>1, AppendedQueue
  <2> QED
    BY <2>2, Places
<1>5. /\ alive' = alive \cup {n} /\ root' = root /\ gen' = gen /\ limited' = limited
      /\ scoped' = scoped /\ oomed' = oomed
  BY <1>4 DEF Fork, ownerVars, signalVars
<1>6. n \notin 1 .. Len(proc) /\ n \notin alive /\ alive \subseteq 1 .. Len(proc) /\ None \notin alive
  BY <1>4, Places
<1>7. Len(proc') + Room(gen') <= MaxProcs
  <2>1. Len(proc) + Room(gen) < MaxProcs
    BY DEF Fork, CanFork, Room
  <2> QED
    BY <1>4, <1>5, <2>1, Places, Numbers DEF Room
<1> HIDE DEF n
<1>8. root \in 1 .. Len(proc) /\ root + 1 \in 1 .. Len(proc)
  BY DEF TreeInv
<1>9. ASSUME NEW p \in 1 .. n, NEW q, q = proc'[p].parent
      PROVE  /\ proc'[p].home = gen /\ proc'[p].kind = "root" => p = root
             /\ proc'[p].home = gen /\ proc'[p].kind = "server" => p = root + 1
             /\ proc'[p].home = gen /\ proc'[p].kind = "worker" /\ root + 1 \in alive'
                  => q = root + 1
             /\ q # None =>
                  /\ q \in alive' /\ proc'[q].home = proc'[p].home
                  /\ proc'[p].kind = "server" => proc'[q].kind = "root"
                  /\ proc'[p].kind = "worker" => proc'[q].kind = "server"
                  /\ proc'[p].kind # "root"
  <2>1. root + 1 \in alive' => root + 1 \in alive
    BY <1>5, <1>6, <1>8
  <2>2. CASE p = n
    <3>1. proc'[p] = child /\ q = s /\ proc'[s] = proc[s] /\ s \in alive'
      BY <1>1, <1>2, <1>4, <1>5, <1>9, <2>2
    <3>2. proc[s].home = gen => s = root + 1
      BY <1>1 DEF TreeInv
    <3> QED
      BY <1>1, <1>2, <3>1, <3>2
  <2>3. CASE p \in 1 .. Len(proc)
    <3>1. proc'[p] = proc[p] /\ q = proc[p].parent
      BY <1>4, <1>9, <2>3
    <3>2. /\ proc[p].home = gen /\ proc[p].kind = "root" => p = root
          /\ proc[p].home = gen /\ proc[p].kind = "server" => p = root + 1
          /\ proc[p].home = gen /\ proc[p].kind = "worker" /\ root + 1 \in alive => q = root + 1
      BY <2>3, <3>1 DEF TreeInv
    <3>3. q # None =>
            /\ q \in alive /\ proc[q].home = proc[p].home
            /\ proc[p].kind = "server" => proc[q].kind = "root"
            /\ proc[p].kind = "worker" => proc[q].kind = "server"
            /\ proc[p].kind # "root"
      BY <2>3, <3>1 DEF TreeInv
    <3>4. q # None => q \in alive' /\ proc'[q] = proc[q]
      BY <1>4, <1>5, <1>6, <3>3
    <3> QED
      BY <2>1, <3>1, <3>2, <3>3, <3>4
  <2> QED
    BY <1>4, <2>2, <2>3
<1>10. /\ proc'[root].kind = "root" /\ proc'[root].home = gen
       /\ proc'[root + 1].kind = "server" /\ proc'[root + 1].home = gen
       /\ root \in alive' => proc'[root + 1].parent = root
  <2>1. proc'[root] = proc[root] /\ proc'[root + 1] = proc[root + 1]
    BY <1>4, <1>8
  <2>2. root \in alive' => root \in alive
    BY <1>5, <1>6, <1>8
  <2> QED
    BY <2>1, <2>2 DEF TreeInv
<1>11. TreeInv'
  <2>1. root \in 1 .. n /\ root + 1 \in 1 .. n
    BY <1>4, <1>8
  <2> QED
    BY <1>4, <1>5, <1>7, <1>9, <1>10, <2>1 DEF TreeInv
<1>12. TreeTypes'
  <2>1. ASSUME NEW p \in 1 .. n
        PROVE  /\ proc'[p].home \in 1 .. gen /\ proc'[p].parent \in 0 .. p - 1
               /\ proc'[p].kind = "worker" => proc'[p].worker \in WorkerIds
    <3>1. CASE p = n
      <4>1. s \in 0 .. n - 1
        BY <1>1, <1>4 DEF n
      <4> QED
        BY <1>1, <1>2, <1>4, <3>1, <4>1
    <3>2. CASE p \in 1 .. Len(proc)
      BY <1>4, <3>2 DEF TreeTypes
    <3> QED
      BY <1>4, <3>1, <3>2
  <2>2. /\ alive \subseteq 1 .. Len(proc) /\ oomed \subseteq 1 .. Len(proc)
        /\ scoped \subseteq 1 .. Len(proc) /\ \A p \in scoped : proc[p].kind = "worker"
        /\ gen \in 1 .. MaxServers
    BY DEF TreeTypes
  <2>3. 1 .. Len(proc) \subseteq 1 .. n
    BY <1>4
  <2> QED
    BY <1>4, <1>5, <2>1, <2>2, <2>3 DEF TreeTypes
<1>13. Forward
  <2>1. Len(proc) <= Len(proc') /\ gen \in Nat /\ gen <= gen
    BY <1>4, Places DEF n
  <2>2. \A p \in 1 .. Len(proc) : p \in alive' => p \in alive
    BY <1>5, <1>6
  <2>3. Len(proc') \in Nat
    BY <1>4 DEF n
  <2> QED
    BY <1>4, <1>5, <2>1, <2>2, <2>3 DEF Forward
<1> QED
  BY <1>4, <1>5, <1>11, <1>12, <1>13 DEF n

LEMMA ConnectTree ==
  ASSUME TreeInv, TreeTypes, Connect
  PROVE  /\ TreeInv' /\ TreeTypes' /\ Forward
         /\ Len(proc') = Len(proc) + 2 /\ alive' = alive \cup {root', root' + 1}
         /\ root' = Len(proc) + 1 /\ gen' = gen + 1
         /\ \A p \in 1 .. Len(proc) : proc'[p] = proc[p]
<1> DEFINE m == Len(proc)
           n == Len(proc) + 2
           r == Process("root", gen + 1, None, None)
           s == Process("server", gen + 1, None, m + 1)
           top == <<r, s>>
<1>1. /\ root' = m + 1 /\ gen' = gen + 1 /\ proc' = proc \o top /\ limited' = limited
      /\ alive' = alive \cup {m + 1, (m + 1) + 1} /\ scoped' = scoped /\ oomed' = oomed
      /\ gen < MaxServers
  BY DEF Connect
<1>2. /\ m \in Nat /\ gen \in Nat \ {0} /\ alive \subseteq 1 .. m /\ MaxServers \in Nat
      /\ proc \in Seq(Processes) /\ None \notin alive
  BY Places DEF TreeInv
<1>3. /\ r \in Processes /\ r.kind = "root" /\ r.home = gen + 1 /\ r.parent = None
      /\ s \in Processes /\ s.kind = "server" /\ s.home = gen + 1 /\ s.parent = m + 1
  BY <1>2 DEF Process, Processes, None
<1> HIDE DEF r, s
<1>4. top \in Seq(Processes) /\ Len(top) = 2 /\ top[1] = r /\ top[2] = s
  BY <1>3
<1> HIDE DEF top
<1>5. /\ proc' \in Seq(Processes) /\ Len(proc') = n
      /\ proc'[m + 1] = r /\ proc'[m + 2] = s
      /\ \A p \in 1 .. m : proc'[p] = proc[p]
  <2>1. /\ proc' \in Seq(Processes) /\ Len(proc') = Len(proc) + Len(top)
        /\ \A i \in 1 .. Len(proc) + Len(top) :
             proc'[i] = IF i <= Len(proc) THEN proc[i] ELSE top[i - Len(proc)]
    BY <1>1, <1>2, <1>4, ConcatProperties
  <2>2. \A i \in 1 .. n : proc'[i] = IF i <= m THEN proc[i] ELSE top[i - m]
    BY <1>4, <2>1
  <2>3. proc'[m + 1] = top[1] /\ proc'[m + 2] = top[2]
    <3>1. m + 1 \in 1 .. n /\ m + 2 \in 1 .. n /\ ~(m + 1 <= m) /\ ~(m + 2 <= m)
          /\ (m + 1) - m = 1 /\ (m + 2) - m = 2
      BY <1>2
    <3> QED
      BY <2>2, <3>1
  <2>4. \A p \in 1 .. m : proc'[p] = proc[p]
    BY <1>2, <2>2
  <2> QED
    BY <1>4, <2>1, <2>3, <2>4
<1>6. /\ n \in Nat /\ (m + 1) + 1 = m + 2 /\ m + 1 \in 1 .. n /\ m + 2 \in 1 .. n
      /\ m + 1 \notin 1 .. m /\ m + 2 \notin 1 .. m /\ 1 .. m \subseteq 1 .. n
      /\ \A p \in 1 .. n : p = m + 1 \/ p = m + 2 \/ p \in 1 .. m
  BY <1>2
<1>7. Len(proc') + Room(gen') <= MaxProcs
  <2>1. Room(gen) = Room(gen + 1) + 2 + Cardinality(WorkerIds) /\ gen + 1 \in 1 .. MaxServers
    BY <1>1, <1>2, RoomLeft DEF TreeTypes
  <2>2. Room(gen + 1) \in Nat
    BY <2>1, RoomLeft
  <2>3. Len(proc) + Room(gen) <= MaxProcs
    BY DEF TreeInv
  <2>4. Len(proc') + Room(gen + 1) <= MaxProcs
    BY <1>2, <1>5, <2>1, <2>2, <2>3, Numbers
  <2> QED
    BY <1>1, <2>4 DEF Room
<1>8. ASSUME NEW p \in 1 .. m
      PROVE  /\ proc'[p].home # gen + 1
             /\ proc[p].parent # None => /\ proc[p].parent \in alive /\ proc[p].parent \in 1 .. m
                                         /\ proc'[proc[p].parent] = proc[proc[p].parent]
  <2>1. proc[p].home \in 1 .. gen
    BY DEF TreeTypes
  <2>2. proc[p].parent # None => proc[p].parent \in alive
    BY DEF TreeInv
  <2>3. \A h \in 1 .. gen : h # gen + 1
    BY <1>2
  <2>4. proc'[p].home # gen + 1
    BY <1>5, <2>1, <2>3
  <2> QED
    BY <1>2, <1>5, <2>2, <2>4
<1> HIDE DEF n
<1>9. ASSUME NEW p \in 1 .. n, NEW q, q = proc'[p].parent
      PROVE  /\ proc'[p].home = gen + 1 /\ proc'[p].kind = "root" => p = m + 1
             /\ proc'[p].home = gen + 1 /\ proc'[p].kind = "server" => p = (m + 1) + 1
             /\ proc'[p].home = gen + 1 /\ proc'[p].kind = "worker" => q = (m + 1) + 1
             /\ q # None =>
                  /\ q \in alive' /\ proc'[q].home = proc'[p].home
                  /\ proc'[p].kind = "server" => proc'[q].kind = "root"
                  /\ proc'[p].kind = "worker" => proc'[q].kind = "server"
                  /\ proc'[p].kind # "root"
  <2>1. CASE p = m + 1
    <3>1. proc'[p] = r /\ q = None
      BY <1>3, <1>5, <1>9, <2>1
    <3> QED
      BY <1>3, <2>1, <3>1
  <2>2. CASE p = m + 2
    <3>1. proc'[p] = s /\ q = m + 1 /\ proc'[q] = r /\ q \in alive'
      BY <1>1, <1>3, <1>5, <1>9, <2>2
    <3> QED
      BY <1>3, <1>6, <2>2, <3>1
  <2>3. CASE p \in 1 .. m
    <3>1. proc'[p] = proc[p] /\ q = proc[p].parent
      BY <1>5, <1>9, <2>3
    <3>2. q # None =>
            /\ q \in alive /\ proc[q].home = proc[p].home
            /\ proc[p].kind = "server" => proc[q].kind = "root"
            /\ proc[p].kind = "worker" => proc[q].kind = "server"
            /\ proc[p].kind # "root"
      BY <2>3, <3>1 DEF TreeInv
    <3>3. q # None => q \in alive' /\ proc'[q] = proc[q]
      BY <1>1, <1>8, <2>3, <3>1
    <3> QED
      BY <1>8, <2>3, <3>1, <3>2, <3>3
  <2> QED
    BY <1>6, <2>1, <2>2, <2>3
<1>10. TreeInv'
  <2>1. root' \in 1 .. Len(proc') /\ root' + 1 \in 1 .. Len(proc')
    BY <1>1, <1>5, <1>6
  <2>2. /\ proc'[root'].kind = "root" /\ proc'[root'].home = gen'
        /\ proc'[root' + 1].kind = "server" /\ proc'[root' + 1].home = gen'
        /\ root' \in alive' => proc'[root' + 1].parent = root'
    BY <1>1, <1>3, <1>5, <1>6
  <2>3. ASSUME NEW p \in 1 .. Len(proc'), NEW q, q = proc'[p].parent
        PROVE  /\ proc'[p].home = gen' /\ proc'[p].kind = "root" => p = root'
               /\ proc'[p].home = gen' /\ proc'[p].kind = "server" => p = root' + 1
               /\ proc'[p].home = gen' /\ proc'[p].kind = "worker" => q = root' + 1
    BY <1>1, <1>5, <1>9, <2>3
  <2>4. ASSUME NEW p \in 1 .. Len(proc'), NEW q, q = proc'[p].parent, q # None
        PROVE  /\ q \in alive' /\ proc'[q].home = proc'[p].home
               /\ proc'[p].kind = "server" => proc'[q].kind = "root"
               /\ proc'[p].kind = "worker" => proc'[q].kind = "server"
               /\ proc'[p].kind # "root"
    BY <1>5, <1>9, <2>4
  <2> QED
    <3>1. \A p \in 1 .. Len(proc') :
            /\ proc'[p].home = gen' /\ proc'[p].kind = "root" => p = root'
            /\ proc'[p].home = gen' /\ proc'[p].kind = "server" => p = root' + 1
            /\ proc'[p].home = gen' /\ proc'[p].kind = "worker" /\ root' + 1 \in alive'
                 => proc'[p].parent = root' + 1
            /\ proc'[p].parent # None =>
                 /\ proc'[p].parent \in alive'
                 /\ proc'[proc'[p].parent].home = proc'[p].home
                 /\ proc'[p].kind = "server" => proc'[proc'[p].parent].kind = "root"
                 /\ proc'[p].kind = "worker" => proc'[proc'[p].parent].kind = "server"
                 /\ proc'[p].kind # "root"
      BY <2>3, <2>4
    <3> QED
      BY <1>5, <1>7, <2>1, <2>2, <3>1 DEF TreeInv, Room
<1>11. TreeTypes'
  <2>1. ASSUME NEW p \in 1 .. n
        PROVE  /\ proc'[p].home \in 1 .. gen + 1 /\ proc'[p].parent \in 0 .. p - 1
               /\ proc'[p].kind = "worker" => proc'[p].worker \in WorkerIds
    <3>1. gen + 1 \in 1 .. gen + 1 /\ m + 1 \in 0 .. (m + 2) - 1 /\ 0 \in 0 .. (m + 1) - 1
      BY <1>2
    <3>2. CASE p = m + 1
      BY <1>3, <1>5, <3>1, <3>2 DEF None
    <3>3. CASE p = m + 2
      BY <1>3, <1>5, <3>1, <3>3
    <3>4. CASE p \in 1 .. m
      <4>1. /\ proc[p].home \in 1 .. gen /\ proc[p].parent \in 0 .. p - 1
            /\ proc[p].kind = "worker" => proc[p].worker \in WorkerIds
        BY <3>4 DEF TreeTypes
      <4>2. 1 .. gen \subseteq 1 .. gen + 1
        BY <1>2
      <4> QED
        BY <1>5, <3>4, <4>1, <4>2
    <3> QED
      BY <1>6, <3>2, <3>3, <3>4
  <2>2. /\ oomed \subseteq 1 .. m
        /\ scoped \subseteq 1 .. m /\ \A p \in scoped : proc[p].kind = "worker"
    BY DEF TreeTypes
  <2>3. gen + 1 \in 1 .. MaxServers
    BY <1>1, <1>2
  <2>4. alive' \subseteq 1 .. n /\ oomed \subseteq 1 .. n /\ scoped \subseteq 1 .. n
    BY <1>1, <1>2, <1>6, <2>2
  <2>5. \A p \in scoped : proc'[p].kind = "worker"
    BY <1>5, <2>2
  <2> QED
    BY <1>1, <1>5, <2>1, <2>3, <2>4, <2>5 DEF TreeTypes
<1>12. Forward
  <2>1. Len(proc) <= Len(proc') /\ Len(proc') \in Nat /\ gen \in Nat /\ gen + 1 \in Nat /\ gen <= gen + 1
    BY <1>2, <1>5 DEF n
  <2>2. \A p \in 1 .. m : (p \in alive' => p \in alive) /\ p \in 1 .. Len(proc')
    BY <1>1, <1>5, <1>6
  <2> QED
    BY <1>1, <1>2, <1>5, <2>1, <2>2 DEF Forward
<1> QED
  BY <1>1, <1>5, <1>10, <1>11, <1>12 DEF n


\* The processes and scopes that no step but Fork and Connect adds to: workers are put
\* in scopes, and killed in them at their limit.
Settled ==
  /\ Shrunk
  /\ \A p \in scoped' : p \in scoped \/ (p \in 1 .. Len(proc) /\ proc[p].kind = "worker")
  /\ oomed' \subseteq oomed \cup scoped

LEMMA QuietSettles ==
  ASSUME TreeInv, UNCHANGED <<proc, alive, scoped, oomed, root, gen, limited>>
  PROVE  Settled
<1>1. Shrunk
  BY NothingGone
<1> QED
  BY <1>1 DEF Settled

LEMMA GoneSettles ==
  ASSUME TreeInv, TreeTypes, UNCHANGED <<root, gen, limited, scoped>>, NEW S, Gone(S),
         oomed' \subseteq oomed \cup scoped
  PROVE  Settled
<1>1. Shrunk
  BY GoneShrinks
<1> QED
  BY <1>1 DEF Settled

LEMMA StoppedSettles ==
  ASSUME TreeInv, TreeTypes, UNCHANGED <<root, gen, limited, oomed>>, NEW S, Stopped(S)
  PROVE  Settled
<1>1. Shrunk
  BY StoppedShrinks
<1>2. scoped' \subseteq scoped
  BY DEF Stopped
<1> QED
  BY <1>1, <1>2 DEF Settled

LEMMA AcceptSettles ==
  ASSUME TreeInv, TreeTypes, UNCHANGED <<root, gen, limited, oomed>>, NEW e, Accept(e)
  PROVE  Settled
<1>1. CASE UNCHANGED <<proc, alive, scoped>>
  BY <1>1, QuietSettles
<1>2. CASE Stopped({e.new})
  BY <1>2, StoppedSettles
<1> QED
  BY <1>1, <1>2 DEF Accept

LEMMA ScopeSettles ==
  ASSUME TreeInv, TreeTypes, UNCHANGED <<proc, alive, oomed, root, gen, limited>>,
         NEW p \in 1 .. Len(proc), proc[p].kind = "worker",
         scoped' = IF limited THEN scoped \cup {p} ELSE scoped
  PROVE  Settled
<1>1. scoped \subseteq scoped' /\ scoped' \subseteq scoped \cup {p}
  OBVIOUS
<1>2. Shrunk
  BY <1>1, NothingGone
<1> QED
  BY <1>1, <1>2 DEF Settled

LEMMA TreeStep ==
  ASSUME GuardsInv, Next
  PROVE  /\ TreeInv' /\ TreeTypes' /\ Forward
         /\ Settled \/ Connect \/ \E s \in alive, w \in WorkerIds : Fork(s, w)
<1> USE DEF signalVars, treeVars, ownerVars
<1>1. TreeInv /\ TreeTypes
  BY DEF GuardsInv
<1>2. ASSUME Settled PROVE TreeInv' /\ TreeTypes' /\ Forward
  BY <1>1, <1>2, ShrunkTree, ShrunkTypes, ShrunkForward DEF Settled
<1>3. ASSUME NEW p \in alive, Dies(p) PROVE Settled
  <2>1. Gone({p}) /\ oomed' \subseteq oomed \cup scoped
    BY <1>3 DEF Dies
  <2> QED
    BY <1>1, <1>3, <2>1, GoneSettles DEF Dies
<1>4. ASSUME NEW w \in WorkerIds, TaskChanges(w) PROVE Settled
  BY <1>1, <1>4, QuietSettles DEF TaskChanges
<1>5. ASSUME MonitorStep PROVE Settled
  <2>1. CASE DrainCommand
    BY <1>1, <2>1, QuietSettles DEF DrainCommand
  <2>2. CASE Drained
    BY <1>1, <2>2, QuietSettles DEF Drained
  <2>3. CASE Look
    BY <1>1, <2>3, QuietSettles DEF Look
  <2>4. CASE CheckAlive
    BY <1>1, <2>4, QuietSettles DEF CheckAlive
  <2>5. CASE ReportOom
    BY <1>1, <2>5, QuietSettles DEF ReportOom
  <2>6. CASE Adopt
    <3>1. PICK p \in Replacements : scoped' = IF limited THEN scoped \cup {p} ELSE scoped
      BY <2>6 DEF Adopt
    <3>2. p \in alive /\ proc[p].kind = "worker"
      BY <3>1 DEF Replacements, OfWorker, Descendants, Kids
    <3>3. p \in 1 .. Len(proc)
      BY <1>1, <3>2 DEF TreeTypes
    <3> QED
      BY <1>1, <2>6, <3>1, <3>2, <3>3, ScopeSettles DEF Adopt
  <2>7. CASE AdoptFails
    <3>1. PICK p \in Replacements : Gone({p}) \/ UNCHANGED <<proc, alive>>
      BY <2>7 DEF AdoptFails
    <3>2. UNCHANGED <<root, gen, limited, scoped, oomed>>
      BY <2>7 DEF AdoptFails
    <3> QED
      BY <1>1, <3>1, <3>2, GoneSettles, QuietSettles
  <2>8. CASE Wait
    BY <1>1, <2>8, QuietSettles DEF Wait
  <2>9. CASE Publish
    <3>1. UNCHANGED <<root, gen, limited, oomed>>
      BY <2>9 DEF Publish
    <3>2. Stopped({guards[checking]}) \/ Stopped({adopting})
      BY <2>9 DEF Publish
    <3> QED
      BY <1>1, <3>1, <3>2, StoppedSettles
  <2>10. ASSUME NEW w \in WorkerIds, CheckLimits(w) PROVE Settled
    BY <1>1, <2>10, QuietSettles DEF CheckLimits
  <2> QED
    BY <1>5, <2>1, <2>2, <2>3, <2>4, <2>5, <2>6, <2>7, <2>8, <2>9, <2>10 DEF MonitorStep
<1>6. ASSUME Receiver PROVE Settled \/ Connect
  <2>1. CASE AcceptReplacement
    BY <1>1, <2>1, AcceptSettles DEF AcceptReplacement
  <2>2. CASE ReceiveTrigger
    BY <1>1, <2>2, QuietSettles DEF ReceiveTrigger
  <2>3. CASE KnownWalk
    BY <1>1, <2>3, QuietSettles DEF KnownWalk
  <2>4. CASE KillWalk
    BY <1>1, <2>4, QuietSettles DEF KillWalk
  <2>5. CASE KillTree
    BY <1>1, <2>5, GoneSettles DEF KillTree
  <2>6. CASE StopScopes
    BY <1>1, <2>6, StoppedSettles DEF StopScopes
  <2>7. CASE AttachDone
    BY <1>1, <2>7, QuietSettles DEF AttachDone
  <2>8. CASE AttachNothing
    BY <1>1, <2>8, QuietSettles DEF AttachNothing
  <2>9. CASE AttachFails
    BY <1>1, <2>9, StoppedSettles DEF AttachFails
  <2>10. ASSUME NEW w \in WorkerIds, Attach(w) PROVE Settled
    <3>1. PICK p \in OfWorker(w, DOMAIN proc) :
            scoped' = IF limited THEN scoped \cup {p} ELSE scoped
      BY <2>10 DEF Attach
    <3>2. p \in 1 .. Len(proc) /\ proc[p].kind = "worker"
      BY <1>1, <3>1, Places DEF OfWorker
    <3> QED
      BY <1>1, <2>10, <3>1, <3>2, ScopeSettles DEF Attach
  <2> QED
    BY <1>6, <2>1, <2>2, <2>3, <2>4, <2>5, <2>6, <2>7, <2>8, <2>9, <2>10 DEF Receiver
<1>7. ASSUME Exit PROVE Settled
  <2>1. CASE StopThreads
    BY <1>1, <2>1, QuietSettles DEF StopThreads
  <2>2. CASE Sweep
    <3>1. UNCHANGED <<root, gen, limited, oomed>>
      BY <2>2 DEF Sweep
    <3>2. Accept(Head(events)) \/ UNCHANGED <<proc, alive, scoped>>
      BY <2>2 DEF Sweep
    <3> QED
      BY <1>1, <3>1, <3>2, AcceptSettles, QuietSettles
  <2>3. CASE SweepDone
    BY <1>1, <2>3, StoppedSettles DEF SweepDone
  <2>4. CASE NotifyExit
    BY <1>1, <2>4, QuietSettles DEF NotifyExit
  <2>5. CASE ExitWalk
    BY <1>1, <2>5, QuietSettles DEF ExitWalk
  <2>6. CASE ExitKill
    BY <1>1, <2>6, GoneSettles DEF ExitKill
  <2> QED
    BY <1>7, <2>1, <2>2, <2>3, <2>4, <2>5, <2>6 DEF Exit
<1>8. ASSUME Signal PROVE Settled
  <2>1. CASE SignalWalk
    BY <1>1, <2>1, QuietSettles DEF SignalWalk, Signalled
  <2>2. CASE SignalKill
    BY <1>1, <2>2, GoneSettles DEF SignalKill, Signalled
  <2>3. CASE SignalSweep
    BY <1>1, <2>3, GoneSettles DEF SignalSweep, Signalled
  <2> QED
    BY <1>8, <2>1, <2>2, <2>3 DEF Signal
<1>9. Settled \/ Connect \/ \E s \in alive, w \in WorkerIds : Fork(s, w)
  BY <1>3, <1>4, <1>5, <1>6, <1>7, <1>8 DEF Next
<1> QED
  BY <1>1, <1>2, <1>9, ForkTree, ConnectTree


-----------------------------------------------------------------------------
(* The queues                                                              *)

LEMMA GoodKept ==
  ASSUME TreeInv, TreeTypes, TreeInv', TreeTypes', Forward
  PROVE  /\ \A c : GoodCommand(c) => GoodCommand(c)'
         /\ \A e : GoodEvent(e) => GoodEvent(e)'
         /\ Started \subseteq Started'
         /\ \A p \in Started : (Guarded(p) => Guarded(p)') /\ (p \notin alive => p \notin alive')
         /\ 1 .. Len(proc) \subseteq 1 .. Len(proc')
<1>1. /\ 1 .. Len(proc) \subseteq 1 .. Len(proc') /\ 1 .. gen \subseteq 1 .. gen'
      /\ limited' = limited
  BY DEF Forward
<1>2. Started \subseteq Started' /\ None \notin alive'
  BY <1>1, Places DEF Started, TreeTypes, None
<1>3. ASSUME NEW p \in Started
      PROVE  (Guarded(p) => Guarded(p)') /\ (p \notin alive => p \notin alive')
  <2>1. CASE p = None
    BY <1>2, <2>1 DEF Guarded, None
  <2>2. CASE p \in 1 .. Len(proc)
    <3>1. p \in alive' => p \in alive /\ (p \in scoped => p \in scoped')
      BY <2>2 DEF Forward
    <3> QED
      BY <1>1, <3>1 DEF Guarded
  <2> QED
    BY <2>1, <2>2 DEF Started
<1>4. ASSUME NEW c, GoodCommand(c) PROVE GoodCommand(c)'
  <2>1. ASSUME c.type = "root"
        PROVE  c.gen \in 1 .. gen' /\ c.pid \in 1 .. Len(proc') /\ proc'[c.pid].home = c.gen
    <3>1. c.gen \in 1 .. gen /\ c.pid \in 1 .. Len(proc) /\ proc[c.pid].home = c.gen
      BY <1>4, <2>1 DEF GoodCommand
    <3> QED
      BY <1>1, <3>1 DEF Forward
  <2>2. ASSUME c.type = "guards"
        PROVE  c.gen \in 1 .. gen' /\ c.guards \in [WorkerIds -> Started']
    <3>1. c.gen \in 1 .. gen /\ c.guards \in [WorkerIds -> Started]
      BY <1>4, <2>2 DEF GoodCommand
    <3> QED
      BY <1>1, <1>2, <3>1
  <2> QED
    BY <1>4, <2>1, <2>2 DEF GoodCommand
<1>5. ASSUME NEW e, GoodEvent(e) PROVE GoodEvent(e)'
  <2>1. ASSUME e.type = "replaced"
        PROVE  /\ e.worker \in WorkerIds
               /\ e.old \in Started' /\ e.old \notin alive'
               /\ e.new \in 1 .. Len(proc') /\ proc'[e.new].home = e.gen /\ Guarded(e.new)'
    <3>1. /\ e.worker \in WorkerIds
          /\ e.old \in Started /\ e.old \notin alive
          /\ e.new \in 1 .. Len(proc) /\ proc[e.new].home = e.gen /\ Guarded(e.new)
      BY <1>5, <2>1 DEF GoodEvent
    <3>2. e.new \in Started
      BY <3>1 DEF Started
    <3>3. proc'[e.new].home = e.gen
      BY <3>1 DEF Forward
    <3> QED
      BY <1>1, <1>2, <1>3, <3>1, <3>2, <3>3
  <2>2. e.gen \in 1 .. gen'
    BY <1>1, <1>5 DEF GoodEvent
  <2> QED
    BY <1>5, <2>1, <2>2 DEF GoodEvent
<1> QED
  BY <1>1, <1>2, <1>3, <1>4, <1>5

LEMMA SameCommands ==
  ASSUME CommandQueue, TreeInv, TreeTypes, TreeInv', TreeTypes', Forward, commands' = commands
  PROVE  CommandQueue'
<1>1. \A c : GoodCommand(c) => GoodCommand(c)'
  BY GoodKept
<1>2. \A i \in 1 .. Len(commands) : GoodCommand(commands[i])'
  BY <1>1 DEF CommandQueue
<1> QED
  BY <1>2 DEF CommandQueue

LEMMA OneCommandMore ==
  ASSUME CommandQueue, TreeInv, TreeTypes, TreeInv', TreeTypes', Forward,
         NEW c \in Commands, GoodCommand(c)', commands' = Append(commands, c)
  PROVE  CommandQueue'
<1>1. \A d : GoodCommand(d) => GoodCommand(d)'
  BY GoodKept
<1>2. /\ commands' \in Seq(Commands) /\ commands'[Len(commands) + 1] = c
      /\ \A i \in 1 .. Len(commands) : commands'[i] = commands[i]
      /\ \A i \in 1 .. Len(commands') : i = Len(commands) + 1 \/ i \in 1 .. Len(commands)
  BY AppendedQueue DEF CommandQueue
<1>3. ASSUME NEW i \in 1 .. Len(commands') PROVE GoodCommand(commands[i])'
  <2>1. CASE i = Len(commands) + 1
    BY <1>2, <2>1 DEF GoodCommand
  <2>2. CASE i \in 1 .. Len(commands)
    <3>1. GoodCommand(commands[i])
      BY <2>2 DEF CommandQueue
    <3>2. PICK d : d = commands[i]
      OBVIOUS
    <3>3. GoodCommand(d)' /\ commands'[i] = d
      BY <1>1, <1>2, <2>2, <3>1, <3>2
    <3> QED
      BY <3>3 DEF GoodCommand
  <2> QED
    BY <1>2, <2>1, <2>2
<1> QED
  BY <1>2, <1>3 DEF CommandQueue


LEMMA OneCommandLess ==
  ASSUME CommandQueue, TreeInv, TreeTypes, TreeInv', TreeTypes', Forward,
         commands # <<>>, commands' = Tail(commands)
  PROVE  CommandQueue'
<1>1. \A d : GoodCommand(d) => GoodCommand(d)'
  BY GoodKept
<1>2. /\ commands' \in Seq(Commands)
      /\ \A i \in 1 .. Len(commands') : commands'[i] = commands[i + 1] /\ i + 1 \in 1 .. Len(commands)
  BY QueueTail DEF CommandQueue
<1>3. ASSUME NEW i \in 1 .. Len(commands') PROVE GoodCommand(commands[i])'
  <2>1. PICK d : d = commands[i + 1]
    OBVIOUS
  <2>2. GoodCommand(d)' /\ commands'[i] = d
    BY <1>1, <1>2, <2>1 DEF CommandQueue
  <2> QED
    BY <2>2 DEF GoodCommand
<1> QED
  BY <1>2, <1>3 DEF CommandQueue

LEMMA SameEvents ==
  ASSUME EventQueue, TreeInv, TreeTypes, TreeInv', TreeTypes', Forward, events' = events
  PROVE  EventQueue'
<1>1. \A e : GoodEvent(e) => GoodEvent(e)'
  BY GoodKept
<1>2. \A i \in 1 .. Len(events) : GoodEvent(events[i])'
  BY <1>1 DEF EventQueue
<1> QED
  BY <1>2 DEF EventQueue

LEMMA OneEventMore ==
  ASSUME EventQueue, TreeInv, TreeTypes, TreeInv', TreeTypes', Forward,
         NEW e \in Events, GoodEvent(e)', events' = Append(events, e)
  PROVE  EventQueue'
<1>1. \A d : GoodEvent(d) => GoodEvent(d)'
  BY GoodKept
<1>2. /\ events' \in Seq(Events) /\ events'[Len(events) + 1] = e
      /\ \A i \in 1 .. Len(events) : events'[i] = events[i]
      /\ \A i \in 1 .. Len(events') : i = Len(events) + 1 \/ i \in 1 .. Len(events)
  BY AppendedQueue DEF EventQueue
<1>3. ASSUME NEW i \in 1 .. Len(events') PROVE GoodEvent(events[i])'
  <2>1. CASE i = Len(events) + 1
    BY <1>2, <2>1 DEF GoodEvent, Guarded
  <2>2. CASE i \in 1 .. Len(events)
    <3>1. PICK d : d = events[i]
      OBVIOUS
    <3>2. GoodEvent(d)' /\ events'[i] = d
      BY <1>1, <1>2, <2>2, <3>1 DEF EventQueue
    <3> QED
      BY <3>2 DEF GoodEvent, Guarded
  <2> QED
    BY <1>2, <2>1, <2>2
<1> QED
  BY <1>2, <1>3 DEF EventQueue

LEMMA OneEventLess ==
  ASSUME EventQueue, TreeInv, TreeTypes, TreeInv', TreeTypes', Forward,
         events # <<>>, events' = Tail(events)
  PROVE  EventQueue'
<1>1. \A d : GoodEvent(d) => GoodEvent(d)'
  BY GoodKept
<1>2. /\ events' \in Seq(Events)
      /\ \A i \in 1 .. Len(events') : events'[i] = events[i + 1] /\ i + 1 \in 1 .. Len(events)
  BY QueueTail DEF EventQueue
<1>3. ASSUME NEW i \in 1 .. Len(events') PROVE GoodEvent(events[i])'
  <2>1. PICK d : d = events[i + 1]
    OBVIOUS
  <2>2. GoodEvent(d)' /\ events'[i] = d
    BY <1>1, <1>2, <2>1 DEF EventQueue
  <2> QED
    BY <2>2 DEF GoodEvent, Guarded
<1> QED
  BY <1>2, <1>3 DEF EventQueue

\* A trigger reports the generation that the monitor serves.
LEMMA OneTriggerMore ==
  ASSUME EventQueue, PlainTypes, TreeInv, TreeTypes, TreeInv', TreeTypes', Forward,
         NEW kind \in EventTypes \ {"replaced"}, events' = Append(events, Trigger(kind))
  PROVE  EventQueue'
<1>1. seen \in 1 .. gen /\ checking \in {None} \cup WorkerIds
  BY DEF PlainTypes
<1>2. seen \in 1 .. gen' /\ seen \in Nat
  BY <1>1 DEF Forward
<1>3. PICK g, w : g = seen /\ w = checking
  OBVIOUS
<1>4. PICK d : d = [type |-> kind, gen |-> g, worker |-> w, old |-> None, new |-> None]
  OBVIOUS
<1>5. d = Trigger(kind)
  BY <1>3, <1>4 DEF Trigger
<1>6. d \in Events
  BY <1>1, <1>2, <1>3, <1>4 DEF Events, None
<1>7. GoodEvent(d)'
  BY <1>2, <1>3, <1>4 DEF GoodEvent
<1> QED
  BY <1>5, <1>6, <1>7, OneEventMore


LEMMA CommandsStep ==
  ASSUME GuardsInv, Next, TreeInv', TreeTypes', Forward
  PROVE  CommandQueue'
<1> USE DEF queueVars
<1>1. TreeInv /\ TreeTypes /\ CommandQueue
  BY DEF GuardsInv, QueueInv
<1>2. ASSUME commands' = commands PROVE CommandQueue'
  BY <1>1, <1>2, SameCommands
<1>3. CASE DrainCommand
  BY <1>1, <1>3, OneCommandLess DEF DrainCommand
<1>4. ASSUME commands' = Append(commands, [type |-> "pause"]) PROVE CommandQueue'
  <2>1. PICK c : c = [type |-> "pause"]
    OBVIOUS
  <2>2. c \in Commands /\ GoodCommand(c)'
    BY <2>1 DEF Commands, GoodCommand
  <2> QED
    BY <1>1, <1>4, <2>1, <2>2, OneCommandMore
<1>5. CASE ReceiveTrigger
  <2>1. commands' = commands \/ commands' = Append(commands, [type |-> "pause"])
    BY <1>5 DEF ReceiveTrigger
  <2> QED
    BY <1>2, <1>4, <2>1
<1>6. CASE Connect
  <2>1. PICK g, p : g = gen' /\ p = root'
    OBVIOUS
  <2>2. PICK c : c = [type |-> "root", gen |-> g, pid |-> p]
    OBVIOUS
  <2>3. commands' = Append(commands, c)
    BY <1>6, <2>1, <2>2 DEF Connect
  <2>4. g \in 1 .. gen' /\ g \in Nat /\ p \in 1 .. Len(proc') /\ p \in Nat /\ proc'[p].home = g
    <3>1. gen' \in Nat \ {0} /\ gen' = gen + 1
      BY <1>1, <1>6, Places DEF Connect
    <3>2. root' \in 1 .. Len(proc') /\ proc'[root'].home = gen'
      BY DEF TreeInv
    <3>3. Len(proc') \in Nat
      BY DEF Forward
    <3> QED
      BY <2>1, <3>1, <3>2, <3>3
  <2>5. c \in Commands
    BY <2>2, <2>4 DEF Commands
  <2>6. GoodCommand(c)'
    BY <2>2, <2>4 DEF GoodCommand
  <2> QED
    BY <1>1, <2>3, <2>5, <2>6, OneCommandMore
<1>7. CASE AttachDone
  <2>1. PICK g, t : g = gen /\ t = created
    OBVIOUS
  <2>2. PICK c : c = [type |-> "guards", gen |-> g, guards |-> t]
    OBVIOUS
  <2>3. commands' = Append(commands, c) /\ gen' = gen
    BY <1>7, <2>1, <2>2 DEF AttachDone
  <2>4. t \in [WorkerIds -> Started] /\ Started \subseteq Started' /\ g \in 1 .. gen' /\ g \in Nat
    <3>1. created \in [WorkerIds -> Started] /\ Started \subseteq Started'
      BY <1>1, GoodKept DEF GuardsInv, OwnInv, Recorded
    <3>2. gen \in Nat \ {0}
      BY <1>1, Places
    <3> QED
      BY <2>1, <2>3, <3>1, <3>2
  <2>5. Started \subseteq Nat
    BY <1>1, Places DEF Started, None
  <2>6. c \in Commands
    BY <2>2, <2>4, <2>5 DEF Commands
  <2>7. t \in [WorkerIds -> Started']
    BY <2>4
  <2>8. GoodCommand(c)'
    BY <2>2, <2>4, <2>7 DEF GoodCommand
  <2> QED
    BY <1>1, <2>3, <2>6, <2>8, OneCommandMore
<1>8. CASE AttachFails
  BY <1>4, <1>8 DEF AttachFails
<1>9. ASSUME MonitorStep, ~DrainCommand PROVE commands' = commands
  BY <1>9 DEF MonitorStep, Drained, Look, CheckAlive, ReportOom, Adopt, AdoptFails, Wait, Publish,
              CheckLimits, Report, Continue
<1>10. ASSUME Receiver, ~ReceiveTrigger, ~Connect, ~AttachDone, ~AttachFails
       PROVE  commands' = commands
  BY <1>10 DEF Receiver, AcceptReplacement, KnownWalk, KillWalk, KillTree, StopScopes,
               AttachNothing, Attach
<1>11. ASSUME Exit \/ Signal PROVE commands' = commands
  BY <1>11 DEF Exit, StopThreads, Sweep, SweepDone, NotifyExit, ExitWalk, ExitKill,
               Signal, SignalWalk, SignalKill, SignalSweep, Signalled
<1>12. ASSUME \/ \E p \in alive : Dies(p)
              \/ \E s \in alive, w \in WorkerIds : Fork(s, w)
              \/ \E w \in WorkerIds : TaskChanges(w)
       PROVE  commands' = commands
  BY <1>12 DEF Dies, Fork, TaskChanges
<1> QED
  BY <1>2, <1>3, <1>5, <1>6, <1>7, <1>8, <1>9, <1>10, <1>11, <1>12 DEF Next

LEMMA EventsStep ==
  ASSUME GuardsInv, Next, TreeInv', TreeTypes', Forward
  PROVE  EventQueue'
<1> USE DEF queueVars
<1>1. TreeInv /\ TreeTypes /\ EventQueue /\ PlainTypes /\ RoundInv
  BY DEF GuardsInv, QueueInv
<1>2. ASSUME events' = events PROVE EventQueue'
  BY <1>1, <1>2, SameEvents
<1>3. ASSUME NEW kind \in EventTypes \ {"replaced"}, Report(kind) PROVE EventQueue'
  <2>1. events' = Append(events, Trigger(kind))
    BY <1>3 DEF Report
  <2> QED
    BY <1>1, <2>1, OneTriggerMore
<1>4. {"death", "memory", "worker_death"} \subseteq EventTypes \ {"replaced"}
  BY DEF EventTypes
<1>5. CASE Look
  BY <1>2, <1>3, <1>4, <1>5 DEF Look
<1>6. ASSUME NEW w \in WorkerIds, CheckLimits(w) PROVE EventQueue'
  BY <1>2, <1>3, <1>4, <1>6 DEF CheckLimits
<1>7. CASE ReportOom
  BY <1>3, <1>4, <1>7 DEF ReportOom
<1>8. CASE Wait
  BY <1>2, <1>3, <1>4, <1>8 DEF Wait
<1>9. CASE Publish
  <2>1. CASE events' = events
    BY <1>2, <2>1
  <2>2. CASE events' # events
    <3>1. PICK g, w, o, n : g = seen /\ w = checking /\ o = guards[checking] /\ n = adopting
      OBVIOUS
    <3>2. PICK e : e = [type |-> "replaced", gen |-> g, worker |-> w, old |-> o, new |-> n]
      OBVIOUS
    <3>3. events' = Append(events, e)
      BY <1>9, <2>2, <3>1, <3>2 DEF Publish, Announced
    <3>4. place = "publish"
      BY <1>9 DEF Publish
    <3>5. /\ w \in WorkerIds /\ o \in Started /\ o \notin alive /\ g \in 1 .. gen
          /\ n \in 1 .. Len(proc) /\ proc[n].home = g /\ Guarded(n)
      <4>1. checking \in WorkerIds /\ guards \in [WorkerIds -> Started]
            /\ guards[checking] \notin alive /\ adopting \in 1 .. Len(proc)
            /\ proc[adopting].home = seen /\ Guarded(adopting)
        BY <1>1, <3>4 DEF RoundInv
      <4>2. seen \in 1 .. gen
        BY <1>1 DEF PlainTypes
      <4> QED
        BY <3>1, <4>1, <4>2
    <3>6. e \in Events
      <4>1. Started \subseteq Nat /\ 1 .. Len(proc) \subseteq Nat /\ 1 .. gen \subseteq Nat
        BY <1>1, Places DEF Started, None
      <4> QED
        BY <3>2, <3>5, <4>1 DEF Events, EventTypes
    <3>7. GoodEvent(e)
      BY <3>2, <3>5 DEF GoodEvent
    <3>8. GoodEvent(e)'
      BY <1>1, <3>7, GoodKept
    <3> QED
      BY <1>1, <3>3, <3>6, <3>8, OneEventMore
  <2> QED
    BY <2>1, <2>2
<1>10. CASE AcceptReplacement
  BY <1>1, <1>10, OneEventLess DEF AcceptReplacement
<1>11. CASE ReceiveTrigger
  BY <1>1, <1>11, OneEventLess DEF ReceiveTrigger
<1>12. CASE Sweep
  BY <1>1, <1>12, OneEventLess DEF Sweep
<1>13. ASSUME DrainCommand \/ Drained \/ CheckAlive \/ Adopt \/ AdoptFails PROVE events' = events
  BY <1>13 DEF DrainCommand, Drained, CheckAlive, Adopt, AdoptFails
<1>14. ASSUME Receiver, ~AcceptReplacement, ~ReceiveTrigger PROVE events' = events
  BY <1>14 DEF Receiver, KnownWalk, KillWalk, KillTree, StopScopes, Connect, AttachDone,
               AttachNothing, AttachFails, Attach
<1>15. ASSUME Exit \/ Signal, ~Sweep PROVE events' = events
  BY <1>15 DEF Exit, StopThreads, SweepDone, NotifyExit, ExitWalk, ExitKill,
               Signal, SignalWalk, SignalKill, SignalSweep, Signalled
<1>16. ASSUME \/ \E p \in alive : Dies(p)
              \/ \E s \in alive, w \in WorkerIds : Fork(s, w)
              \/ \E w \in WorkerIds : TaskChanges(w)
       PROVE  events' = events
  BY <1>16 DEF Dies, Fork, TaskChanges
<1>17. CASE MonitorStep
  BY <1>2, <1>5, <1>6, <1>7, <1>8, <1>9, <1>13, <1>17 DEF MonitorStep
<1> QED
  BY <1>2, <1>10, <1>11, <1>12, <1>14, <1>15, <1>16, <1>17 DEF Next


-----------------------------------------------------------------------------
(* A round of the monitor                                                  *)

\* What a walk finds belongs to the server of its root.
LEMMA WalkStaysInServer ==
  ASSUME TreeInv, TreeTypes, NEW r, r # None, NEW p \in Descendants(r)
  PROVE  p \in alive /\ p \in 1 .. Len(proc) /\ r \in alive /\ proc[p].home = proc[r].home
<1>1. \A c \in alive : proc[c].parent # None =>
        proc[c].parent \in alive /\ proc[proc[c].parent].home = proc[c].home
  BY Places DEF TreeInv
<1>2. ASSUME NEW s, NEW c \in alive, proc[c].parent = s, s # None
      PROVE  s \in alive /\ proc[c].home = proc[s].home
  BY <1>1, <1>2
<1>3. p \in alive /\ p \in 1 .. Len(proc)
  BY Places DEF Descendants, Kids
<1>4. CASE p \in Kids({r})
  BY <1>2, <1>3, <1>4 DEF Kids
<1>5. CASE p \in Kids(Kids({r}))
  <2>1. PICK c \in alive : proc[c].parent = r /\ proc[p].parent = c
    BY <1>5 DEF Kids
  <2>2. c # None
    BY <2>1, Places
  <2> QED
    BY <1>2, <1>3, <2>1, <2>2
<1> QED
  BY <1>4, <1>5 DEF Descendants

LEMMA SameRound ==
  ASSUME RoundInv, PlainTypes, TreeInv, TreeTypes, TreeInv', TreeTypes', Forward,
         UNCHANGED <<place, todo, checking, adopting, guards, watched, seen>>
  PROVE  RoundInv'
<1>1. /\ Started \subseteq Started' /\ 1 .. Len(proc) \subseteq 1 .. Len(proc')
      /\ \A p \in Started : (Guarded(p) => Guarded(p)') /\ (p \notin alive => p \notin alive')
  BY GoodKept
<1>2. guards' \in [WorkerIds -> Started']
  BY <1>1 DEF RoundInv
<1>3. watched' \in 1 .. Len(proc') /\ proc'[watched'].home = seen'
  BY <1>1 DEF RoundInv, Forward
<1>4. ASSUME place = "publish"
      PROVE  /\ guards[checking] \notin alive'
             /\ adopting \in 1 .. Len(proc') /\ proc'[adopting].home = seen /\ Guarded(adopting)'
  <2>1. guards[checking] \in Started /\ adopting \in Started
    BY <1>4 DEF RoundInv, Started
  <2>2. PICK p : p = adopting
    OBVIOUS
  <2>3. Guarded(p) /\ p \in Started /\ p \in 1 .. Len(proc) /\ proc[p].home = seen
    BY <1>4, <2>1, <2>2 DEF RoundInv
  <2>4. Guarded(p)' /\ adopting' = p
    BY <1>1, <2>2, <2>3
  <2>5. proc'[p].home = seen
    BY <2>3 DEF Forward
  <2>6. Guarded(adopting)'
    BY <2>4 DEF Guarded
  <2> QED
    BY <1>1, <1>4, <2>1, <2>2, <2>3, <2>5, <2>6 DEF RoundInv
<1>5. /\ place' \in {"drain", "look"} => todo' = {}
      /\ place' \in {"drain", "look", "check"} => checking' = None
      /\ place' \in {"alive", "publish"} => checking' \in WorkerIds
      /\ place' # "publish" => adopting' = None
      /\ \A w \in todo' : guards'[w] # None
      /\ checking' # None => guards'[checking'] # None
  BY DEF RoundInv
<1> QED
  BY <1>2, <1>3, <1>4, <1>5 DEF RoundInv

\* A step of the monitor that adopts nothing and keeps its server and its guards.
LEMMA NextPlace ==
  ASSUME RoundInv, PlainTypes, TreeInv, TreeTypes, TreeInv', TreeTypes', Forward,
         UNCHANGED <<guards, watched, seen>>, adopting' = None,
         place' \in {"drain", "look", "check", "alive"},
         place' \in {"drain", "look"} => todo' = {},
         place' # "alive" => checking' = None,
         place' = "alive" => checking' \in todo, todo' \subseteq todo
  PROVE  RoundInv'
<1>1. /\ Started \subseteq Started' /\ 1 .. Len(proc) \subseteq 1 .. Len(proc')
  BY GoodKept
<1>2. guards' \in [WorkerIds -> Started']
  BY <1>1 DEF RoundInv
<1>3. watched' \in 1 .. Len(proc') /\ proc'[watched'].home = seen'
  BY <1>1 DEF RoundInv, Forward
<1>4. \A w \in todo : guards'[w] # None /\ w \in WorkerIds
  BY DEF RoundInv, PlainTypes
<1> QED
  BY <1>2, <1>3, <1>4 DEF RoundInv


LEMMA DrainKeepsRound ==
  ASSUME GuardsInv, TreeInv', TreeTypes', Forward, DrainCommand
  PROVE  RoundInv'
<1> DEFINE c == Head(commands)
<1>1. TreeInv /\ TreeTypes /\ RoundInv /\ CommandQueue
  BY DEF GuardsInv, QueueInv
<1>2. /\ place = "drain" /\ place' = place /\ todo' = todo /\ checking' = checking
      /\ adopting' = adopting
  BY DEF DrainCommand
<1>3. todo = {} /\ checking = None /\ adopting = None
  BY <1>1, <1>2 DEF RoundInv
<1>4. GoodCommand(c)
  BY <1>1, QueueTail DEF DrainCommand, CommandQueue
<1>5. Started \subseteq Started' /\ NoGuards \in [WorkerIds -> Started']
  BY <1>1, GoodKept DEF NoGuards, Started
<1>6. guards' \in [WorkerIds -> Started']
  <2>1. guards' = NoGuards \/ guards' = guards \/ (c.type = "guards" /\ guards' = c.guards)
    BY DEF DrainCommand
  <2>2. guards \in [WorkerIds -> Started]
    BY <1>1 DEF RoundInv
  <2>3. c.type = "guards" => c.guards \in [WorkerIds -> Started]
    BY <1>4 DEF GoodCommand
  <2> QED
    BY <1>5, <2>1, <2>2, <2>3
<1>7. watched' \in 1 .. Len(proc') /\ proc'[watched'].home = seen'
  <2>1. \/ c.type = "root" /\ watched' = c.pid /\ seen' = c.gen
        \/ c.type # "root" /\ watched' = watched /\ seen' = seen
    BY DEF DrainCommand
  <2>2. watched \in 1 .. Len(proc) /\ proc[watched].home = seen
    BY <1>1 DEF RoundInv
  <2>3. c.type = "root" => c.pid \in 1 .. Len(proc) /\ proc[c.pid].home = c.gen
    BY <1>4 DEF GoodCommand
  <2>4. watched' \in 1 .. Len(proc) /\ proc[watched'].home = seen'
    BY <2>1, <2>2, <2>3
  <2> QED
    BY <2>4 DEF Forward
<1> QED
  BY <1>2, <1>3, <1>6, <1>7 DEF RoundInv

LEMMA AdoptKeepsRound ==
  ASSUME GuardsInv, TreeInv', TreeTypes', Forward, Adopt
  PROVE  RoundInv'
<1>1. TreeInv /\ TreeTypes /\ RoundInv
  BY DEF GuardsInv
<1>2. PICK p \in Replacements : adopting' = p /\ (limited => scoped' = scoped \cup {p})
  BY DEF Adopt
<1>3. watched \in 1 .. Len(proc) /\ proc[watched].home = seen /\ watched # None
  BY <1>1, Places DEF RoundInv
<1>4. p \in alive /\ p \in 1 .. Len(proc) /\ proc[p].home = seen
  BY <1>1, <1>2, <1>3, WalkStaysInServer DEF Replacements, OfWorker
<1>5. /\ place = "alive" /\ guards[checking] \notin alive /\ place' = "publish"
      /\ UNCHANGED <<proc, alive, limited, guards, watched, seen, todo, checking>>
  BY DEF Adopt, Vanished, signalVars
<1>6. Guarded(adopting)'
  BY <1>2, <1>5 DEF Guarded
<1>7. guards \in [WorkerIds -> Started] /\ Started' = Started
  BY <1>1, <1>5 DEF RoundInv, Started
<1> QED
  BY <1>1, <1>2, <1>3, <1>4, <1>5, <1>6, <1>7 DEF RoundInv

LEMMA PublishKeepsRound ==
  ASSUME GuardsInv, TreeInv', TreeTypes', Forward, Publish
  PROVE  RoundInv'
<1>1. TreeInv /\ TreeTypes /\ RoundInv /\ PlainTypes
  BY DEF GuardsInv
<1>2. /\ place = "publish" /\ adopting' = None /\ checking' = None /\ todo' = todo
      /\ place' = IF todo = {} THEN "drain" ELSE "check"
      /\ UNCHANGED <<watched, seen>>
      /\ guards' = guards \/ guards' = [guards EXCEPT ![checking] = adopting]
  BY DEF Publish, Continue
<1>3. guards \in [WorkerIds -> Started] /\ adopting \in 1 .. Len(proc) /\ checking \in WorkerIds
  BY <1>1, <1>2 DEF RoundInv
<1>4. Started \subseteq Started' /\ 1 .. Len(proc) \subseteq 1 .. Len(proc')
  BY <1>1, GoodKept
<1>5. adopting \in Started /\ adopting # None
  BY <1>1, <1>3, Places DEF Started
<1>6. guards' \in [WorkerIds -> Started']
  BY <1>2, <1>3, <1>4, <1>5
<1>7. \A w \in todo : guards'[w] # None
  <2>1. \A w \in todo : guards[w] # None /\ w \in WorkerIds
    BY <1>1 DEF RoundInv, PlainTypes
  <2> QED
    BY <1>2, <1>3, <1>5, <2>1
<1>8. watched' \in 1 .. Len(proc') /\ proc'[watched'].home = seen'
  BY <1>1, <1>2, <1>4 DEF RoundInv, Forward
<1> QED
  BY <1>2, <1>6, <1>7, <1>8 DEF RoundInv

LEMMA RoundStep ==
  ASSUME GuardsInv, Next, TreeInv', TreeTypes', Forward
  PROVE  RoundInv'
<1>1. TreeInv /\ TreeTypes /\ RoundInv /\ PlainTypes
  BY DEF GuardsInv
<1>2. ASSUME UNCHANGED <<place, todo, checking, adopting, guards, watched, seen>> PROVE RoundInv'
  BY <1>1, <1>2, SameRound
<1>3. ASSUME NEW kind, Report(kind), place # "publish", UNCHANGED <<watched, seen>> PROVE RoundInv'
  <2>1. adopting = None
    BY <1>1, <1>3 DEF RoundInv
  <2> QED
    BY <1>1, <1>3, <2>1, NextPlace DEF Report
<1>4. ASSUME Continue, UNCHANGED <<guards, watched, seen>> PROVE RoundInv'
  <2>1. place' \in {"drain", "check"} /\ (place' = "drain" => todo' = {}) /\ todo' = todo
        /\ checking' = None /\ adopting' = None
    BY <1>4 DEF Continue
  <2> QED
    BY <1>1, <1>4, <2>1, NextPlace
<1>5. CASE Drained
  <2>1. todo = {} /\ checking = None /\ adopting = None
    BY <1>1, <1>5 DEF RoundInv, Drained
  <2> QED
    BY <1>1, <1>5, <2>1, NextPlace DEF Drained
<1>6. CASE Look
  <2>1. CASE Report("death")
    BY <1>3, <1>6, <2>1 DEF Look
  <2>2. CASE ~Report("death")
    <3>1. /\ todo' = {w \in WorkerIds : guards[w] # None}
          /\ place' = IF todo' = {} THEN "drain" ELSE "check"
          /\ UNCHANGED <<guards, watched, seen, checking, adopting>> /\ place = "look"
      BY <1>6, <2>2 DEF Look
    <3>2. checking = None /\ adopting = None
      BY <1>1, <3>1 DEF RoundInv
    <3>3. guards' \in [WorkerIds -> Started']
      BY <1>1, <3>1, GoodKept DEF RoundInv
    <3>4. watched' \in 1 .. Len(proc') /\ proc'[watched'].home = seen'
      BY <1>1, <3>1, GoodKept DEF RoundInv, Forward
    <3> QED
      BY <3>1, <3>2, <3>3, <3>4 DEF RoundInv
  <2> QED
    BY <2>1, <2>2
<1>7. ASSUME NEW w \in WorkerIds, CheckLimits(w) PROVE RoundInv'
  <2>1. place = "check" /\ UNCHANGED <<watched, seen>> /\ w \in todo
    BY <1>7 DEF CheckLimits
  <2>2. CASE Report("memory")
    BY <1>3, <2>1, <2>2
  <2>3. CASE ~Report("memory")
    <3>1. /\ place' = "alive" /\ checking' = w /\ todo' = todo \ {w}
          /\ UNCHANGED <<guards, adopting>>
      BY <1>7, <2>3 DEF CheckLimits
    <3>2. adopting = None
      BY <1>1, <2>1 DEF RoundInv
    <3> QED
      BY <1>1, <2>1, <3>1, <3>2, NextPlace
  <2> QED
    BY <2>2, <2>3
<1>8. CASE CheckAlive
  BY <1>4, <1>8 DEF CheckAlive
<1>9. CASE ReportOom
  BY <1>3, <1>9 DEF ReportOom, Vanished
<1>10. CASE AdoptFails
  BY <1>4, <1>10 DEF AdoptFails
<1>11. CASE Wait
  BY <1>3, <1>4, <1>11 DEF Wait, Vanished
<1>12. CASE MonitorStep
  BY <1>5, <1>6, <1>7, <1>8, <1>9, <1>10, <1>11, <1>12,
     DrainKeepsRound, AdoptKeepsRound, PublishKeepsRound DEF MonitorStep
<1>13. CASE StopThreads
  <2>1. place' = "drain" /\ todo' = {} /\ checking' = None /\ adopting' = None
        /\ UNCHANGED <<guards, watched, seen>>
    BY <1>13 DEF StopThreads
  <2> QED
    BY <1>1, <2>1, NextPlace
<1>14. ASSUME Receiver \/ Signal
       PROVE  UNCHANGED monitorVars
  BY <1>14 DEF Receiver, AcceptReplacement, ReceiveTrigger, KnownWalk, KillWalk, KillTree,
               StopScopes, Connect, AttachDone, AttachNothing, AttachFails, Attach,
               Signal, SignalWalk, SignalKill, SignalSweep, Signalled
<1>15. ASSUME Exit, ~StopThreads PROVE UNCHANGED monitorVars
  BY <1>15 DEF Exit, Sweep, SweepDone, NotifyExit, ExitWalk, ExitKill
<1>16. ASSUME \/ \E p \in alive : Dies(p)
              \/ \E s \in alive, w \in WorkerIds : Fork(s, w)
              \/ \E w \in WorkerIds : TaskChanges(w)
       PROVE  UNCHANGED monitorVars
  BY <1>16 DEF Dies, Fork, TaskChanges
<1>17. ASSUME UNCHANGED monitorVars PROVE RoundInv'
  BY <1>2, <1>17 DEF monitorVars
<1> QED
  BY <1>12, <1>13, <1>14, <1>15, <1>16, <1>17 DEF Next


-----------------------------------------------------------------------------
(* Plain types                                                             *)

LEMMA MonitorTypesStep ==
  ASSUME GuardsInv, Next, Forward
  PROVE  /\ paused' \in BOOLEAN /\ place' \in {"drain", "look", "check", "alive", "publish"}
         /\ seen' \in 1 .. gen' /\ missing' \in [WorkerIds -> 0 .. Grace]
         /\ todo' \subseteq WorkerIds /\ checking' \in {None} \cup WorkerIds
<1> DEFINE Typed ==
      /\ paused' \in BOOLEAN /\ place' \in {"drain", "look", "check", "alive", "publish"}
      /\ seen' \in 1 .. gen' /\ missing' \in [WorkerIds -> 0 .. Grace]
      /\ todo' \subseteq WorkerIds /\ checking' \in {None} \cup WorkerIds
<1>1. /\ paused \in BOOLEAN /\ place \in {"drain", "look", "check", "alive", "publish"}
      /\ seen \in 1 .. gen /\ missing \in [WorkerIds -> 0 .. Grace]
      /\ todo \subseteq WorkerIds /\ checking \in {None} \cup WorkerIds
  BY DEF GuardsInv, PlainTypes
<1>2. seen \in 1 .. gen'
  BY <1>1 DEF Forward
<1>3. NotMissing \in [WorkerIds -> 0 .. Grace] /\ Grace \in Nat \ {0} /\ 0 \in 0 .. Grace
  BY Numbers DEF NotMissing
<1>4. ASSUME UNCHANGED <<paused, place, seen, missing, todo, checking>> PROVE Typed
  BY <1>1, <1>2, <1>4
<1>5. ASSUME NEW kind, Report(kind), UNCHANGED <<seen, missing>> PROVE Typed
  BY <1>1, <1>2, <1>5 DEF Report
<1>6. ASSUME Continue, seen' = seen, missing' \in [WorkerIds -> 0 .. Grace] PROVE Typed
  BY <1>1, <1>2, <1>6 DEF Continue
<1>7. ASSUME Miss PROVE missing' \in [WorkerIds -> 0 .. Grace]
  <2>1. \A n \in 0 .. Grace : Longer(n) \in 0 .. Grace
    BY <1>3 DEF Longer
  <2> QED
    BY <1>1, <1>7, <2>1 DEF Miss
<1>8. CASE DrainCommand
  <2> DEFINE c == Head(commands)
  <2>1. GoodCommand(c)
    <3>1. CommandQueue /\ commands # <<>>
      BY <1>8 DEF GuardsInv, QueueInv, DrainCommand
    <3> QED
      BY <3>1, QueueTail DEF CommandQueue
  <2>2. seen' \in 1 .. gen'
    <3>1. c.type = "root" => c.gen \in 1 .. gen
      BY <2>1 DEF GoodCommand
    <3>2. seen' = seen \/ (c.type = "root" /\ seen' = c.gen)
      BY <1>8 DEF DrainCommand
    <3>3. 1 .. gen \subseteq 1 .. gen'
      BY DEF Forward
    <3> QED
      BY <1>2, <3>1, <3>2, <3>3
  <2>3. paused' \in BOOLEAN
    <3>1. paused' = FALSE \/ paused' = TRUE \/ paused' = paused
      BY <1>8, Zenon DEF DrainCommand
    <3> QED
      BY <1>1, <3>1
  <2>4. missing' \in [WorkerIds -> 0 .. Grace]
    BY <1>1, <1>3, <1>8 DEF DrainCommand
  <2> QED
    BY <1>1, <1>8, <2>2, <2>3, <2>4 DEF DrainCommand
<1>9. CASE Drained
  BY <1>1, <1>2, <1>9 DEF Drained
<1>10. CASE Look
  <2>1. UNCHANGED <<seen, missing>>
    BY <1>10 DEF Look
  <2>2. CASE Report("death")
    BY <1>5, <2>1, <2>2
  <2>3. CASE ~Report("death")
    <3>1. /\ todo' \subseteq WorkerIds /\ place' \in {"drain", "check"}
          /\ UNCHANGED <<paused, checking>>
      BY <1>10, <2>3 DEF Look
    <3> QED
      BY <1>1, <1>2, <2>1, <3>1
  <2> QED
    BY <2>2, <2>3
<1>11. ASSUME NEW w \in WorkerIds, CheckLimits(w) PROVE Typed
  <2>1. UNCHANGED <<seen, missing>>
    BY <1>11 DEF CheckLimits
  <2>2. CASE Report("memory")
    BY <1>5, <2>1, <2>2
  <2>3. CASE ~Report("memory")
    <3>1. place' = "alive" /\ checking' = w /\ todo' = todo \ {w} /\ paused' = paused
      BY <1>11, <2>3 DEF CheckLimits
    <3> QED
      BY <1>1, <1>2, <2>1, <3>1
  <2> QED
    BY <2>2, <2>3
<1>12. CASE CheckAlive
  <2>1. Continue /\ seen' = seen /\ missing' = [missing EXCEPT ![checking] = 0]
    BY <1>12 DEF CheckAlive
  <2> QED
    BY <1>1, <1>3, <1>6, <2>1
<1>13. CASE ReportOom
  BY <1>5, <1>13 DEF ReportOom
<1>14. CASE Adopt
  BY <1>1, <1>2, <1>14 DEF Adopt
<1>15. CASE AdoptFails
  BY <1>6, <1>7, <1>15 DEF AdoptFails
<1>16. CASE Wait
  <2>1. seen' = seen
    BY <1>16 DEF Wait
  <2>2. (Report("worker_death") /\ UNCHANGED missing) \/ (Continue /\ Miss)
    BY <1>16 DEF Wait
  <2> QED
    BY <1>5, <1>6, <1>7, <2>1, <2>2
<1>17. CASE Publish
  <2>1. Continue /\ seen' = seen /\ (missing' = [missing EXCEPT ![checking] = 0] \/ Miss)
    BY <1>17 DEF Publish
  <2> QED
    BY <1>1, <1>3, <1>6, <1>7, <2>1
<1>18. CASE MonitorStep
  BY <1>8, <1>9, <1>10, <1>11, <1>12, <1>13, <1>14, <1>15, <1>16, <1>17, <1>18 DEF MonitorStep
<1>19. CASE StopThreads
  BY <1>1, <1>2, <1>19 DEF StopThreads
<1>20. ASSUME Receiver \/ Signal
       PROVE  UNCHANGED monitorVars
  BY <1>20 DEF Receiver, AcceptReplacement, ReceiveTrigger, KnownWalk, KillWalk, KillTree,
               StopScopes, Connect, AttachDone, AttachNothing, AttachFails, Attach,
               Signal, SignalWalk, SignalKill, SignalSweep, Signalled
<1>21. ASSUME Exit, ~StopThreads PROVE UNCHANGED monitorVars
  BY <1>21 DEF Exit, Sweep, SweepDone, NotifyExit, ExitWalk, ExitKill
<1>22. ASSUME \/ \E p \in alive : Dies(p)
              \/ \E s \in alive, w \in WorkerIds : Fork(s, w)
              \/ \E w \in WorkerIds : TaskChanges(w)
       PROVE  UNCHANGED monitorVars
  BY <1>22 DEF Dies, Fork, TaskChanges
<1>23. ASSUME UNCHANGED monitorVars PROVE Typed
  BY <1>4, <1>23 DEF monitorVars
<1> QED
  BY <1>18, <1>19, <1>20, <1>21, <1>22, <1>23 DEF Next

LEMMA ReceiverTypesStep ==
  ASSUME GuardsInv, Next, Forward
  PROVE  /\ rx' \in {"poll", "known", "walk", "kill", "scopes", "connect", "attach", "ended"}
         /\ exit' \in {"no", "sweep", "notify", "walk", "kill", "done", "raised"}
         /\ handler'.at \in {"no", "kill", "sweep", "done"}
         /\ busy' \subseteq WorkerIds /\ faults' \in 0 .. MaxFaults
<1>1. /\ rx \in {"poll", "known", "walk", "kill", "scopes", "connect", "attach", "ended"}
      /\ exit \in {"no", "sweep", "notify", "walk", "kill", "done", "raised"}
      /\ handler.at \in {"no", "kill", "sweep", "done"}
      /\ busy \subseteq WorkerIds /\ faults \in 0 .. MaxFaults
  BY DEF GuardsInv, PlainTypes
<1>2. Fault => faults' \in 0 .. MaxFaults
  BY <1>1, Numbers DEF Fault
<1> USE DEF killVars, queueVars, signalVars
<1>3. ASSUME \/ \E p \in alive : Dies(p)
             \/ \E s \in alive, w \in WorkerIds : Fork(s, w)
             \/ \E w \in WorkerIds : TaskChanges(w)
      PROVE  UNCHANGED <<rx, exit, handler>> /\ busy' \subseteq WorkerIds /\ (Fault \/ faults' = faults)
  BY <1>1, <1>3 DEF Dies, Fork, TaskChanges
<1>4. ASSUME MonitorStep
      PROVE  UNCHANGED <<rx, exit, handler, busy>> /\ (Fault \/ faults' = faults)
  BY <1>4 DEF MonitorStep, DrainCommand, Drained, Look, CheckAlive, ReportOom, Adopt, AdoptFails,
              Wait, Publish, CheckLimits, Report, Continue
<1>5. ASSUME Receiver
      PROVE  /\ UNCHANGED <<exit, handler, faults>> /\ (busy' = busy \/ busy' = {})
             /\ rx' \in {"poll", "known", "walk", "kill", "scopes", "connect", "attach", "ended"}
  BY <1>1, <1>5 DEF Receiver, AcceptReplacement, ReceiveTrigger, KnownWalk, KillWalk, KillTree,
              StopScopes, Connect, AttachDone, AttachNothing, AttachFails, Attach
<1>6. ASSUME Exit
      PROVE  /\ UNCHANGED <<handler, busy, faults>> /\ (rx' = rx \/ rx' = "ended")
             /\ exit' \in {"no", "sweep", "notify", "walk", "kill", "done", "raised"}
  BY <1>1, <1>6 DEF Exit, StopThreads, Sweep, SweepDone, NotifyExit, ExitWalk, ExitKill
<1>7. ASSUME Signal
      PROVE  /\ UNCHANGED <<rx, exit, busy>> /\ (Fault \/ faults' = faults)
             /\ handler'.at \in {"no", "kill", "sweep", "done"}
  BY <1>7 DEF Signal, SignalWalk, SignalKill, SignalSweep, Signalled
<1> QED
  BY <1>1, <1>2, <1>3, <1>4, <1>5, <1>6, <1>7 DEF Next


LEMMA ListTypesStep ==
  ASSUME GuardsInv, Next, TreeInv', TreeTypes', Forward
  PROVE  /\ registered' \subseteq 1 .. Len(proc') /\ handler'.list \subseteq 1 .. Len(proc')
         /\ held' \subseteq {None} \cup (1 .. Len(proc'))
<1>1. TreeInv /\ TreeTypes
  BY DEF GuardsInv
<1>2. /\ registered \subseteq 1 .. Len(proc') /\ handler.list \subseteq 1 .. Len(proc')
      /\ held \subseteq {None} \cup (1 .. Len(proc'))
  BY DEF GuardsInv, PlainTypes, Forward
<1> USE DEF signalVars, historyVars
<1>3. ASSUME \/ \E p \in alive : Dies(p)
             \/ \E s \in alive, w \in WorkerIds : Fork(s, w)
             \/ \E w \in WorkerIds : TaskChanges(w)
      PROVE  UNCHANGED <<registered, handler, held>>
  BY <1>3 DEF Dies, Fork, TaskChanges
<1>4. ASSUME MonitorStep PROVE UNCHANGED <<registered, handler, held>>
  BY <1>4 DEF MonitorStep, DrainCommand, Drained, Look, CheckAlive, ReportOom, Adopt, AdoptFails,
              Wait, Publish, CheckLimits, Report, Continue
<1>5. ASSUME Receiver, ~KnownWalk, ~Connect PROVE UNCHANGED <<registered, handler, held>>
  BY <1>5 DEF Receiver, AcceptReplacement, ReceiveTrigger, KillWalk, KillTree,
              StopScopes, AttachDone, AttachNothing, AttachFails, Attach
<1>6. CASE KnownWalk
  <2>1. scopes \in [WorkerIds -> Started] /\ Started \subseteq Started'
    BY <1>1, GoodKept DEF GuardsInv, OwnInv, Recorded
  <2>2. held' = {scopes[w] : w \in WorkerIds} /\ UNCHANGED <<registered, handler>>
    BY <1>6 DEF KnownWalk
  <2> QED
    BY <1>2, <2>1, <2>2 DEF Started
<1>7. CASE Connect
  <2>1. root' \in 1 .. Len(proc')
    BY DEF TreeInv
  <2>2. registered' = registered \cup {root'} /\ handler' = handler /\ held' = {}
    BY <1>7 DEF Connect
  <2> QED
    BY <1>2, <2>1, <2>2
<1>8. ASSUME Exit PROVE registered' \subseteq registered /\ UNCHANGED <<handler, held>>
  BY <1>8 DEF Exit, StopThreads, Sweep, SweepDone, NotifyExit, ExitWalk, ExitKill
<1>9. CASE SignalWalk
  <2>1. \A r : Descendants(r) \subseteq 1 .. Len(proc)
    BY <1>1, Places DEF Descendants, Kids
  <2>2. registered \subseteq 1 .. Len(proc) /\ 1 .. Len(proc) \subseteq 1 .. Len(proc')
    BY DEF GuardsInv, PlainTypes, Forward
  <2>3. PICK list : list = UNION {Descendants(p) \cup {p} : p \in registered}
    OBVIOUS
  <2>4. handler' = [at |-> "kill", list |-> list] /\ registered' = {} /\ held' = held
    BY <1>9, <2>3 DEF SignalWalk, Signalled
  <2>5. list \subseteq 1 .. Len(proc)
    BY <2>1, <2>2, <2>3
  <2> QED
    BY <1>2, <2>2, <2>4, <2>5
<1>10. ASSUME SignalKill \/ SignalSweep
       PROVE  UNCHANGED <<registered, held>> /\ handler'.list = {}
  BY <1>10 DEF SignalKill, SignalSweep, Signalled
<1> QED
  BY <1>2, <1>3, <1>4, <1>5, <1>6, <1>7, <1>8, <1>9, <1>10 DEF Next, Signal

LEMMA PlainStep ==
  ASSUME GuardsInv, Next, TreeInv', TreeTypes', Forward
  PROVE  PlainTypes'
<1>1. limited \in BOOLEAN /\ limited' = limited
  BY DEF GuardsInv, PlainTypes, Forward
<1> QED
  BY <1>1, MonitorTypesStep, ReceiverTypesStep, ListTypesStep DEF PlainTypes

-----------------------------------------------------------------------------
(* Who owns a scope                                                        *)


LEMMA RecordedKept ==
  ASSUME TreeInv, TreeTypes, TreeInv', TreeTypes', Forward
  PROVE  /\ \A f : Recorded(f) => Recorded(f)'
         /\ Recorded(NoGuards)'
         /\ \A f : f = scopes' /\ Recorded(f)' => Recorded(scopes)'
         /\ \A f : f = created' /\ Recorded(f)' => Recorded(created)'
<1>1. /\ Started \subseteq Started'
      /\ \A p \in Started : Guarded(p) => Guarded(p)'
  BY GoodKept
<1>2. ASSUME NEW f, Recorded(f) PROVE Recorded(f)'
  <2>1. f \in [WorkerIds -> Started] /\ \A w \in WorkerIds : Guarded(f[w])
    BY <1>2 DEF Recorded
  <2>2. ASSUME NEW w \in WorkerIds PROVE f[w] \in Started' /\ Guarded(f[w])'
    BY <1>1, <2>1
  <2>3. f \in [WorkerIds -> Started']
    BY <2>1, <2>2
  <2> QED
    BY <2>2, <2>3 DEF Recorded
<1>3. Recorded(NoGuards)'
  <2>1. None \notin alive' /\ None \in Started'
    BY DEF TreeTypes, Started, None
  <2>2. \A w \in WorkerIds : Guarded(NoGuards[w])'
    BY <2>1 DEF Guarded, NoGuards
  <2>3. NoGuards \in [WorkerIds -> Started']
    BY <2>1 DEF NoGuards
  <2> QED
    BY <2>2, <2>3 DEF Recorded
<1> QED
  BY <1>2, <1>3 DEF Recorded, Guarded

LEMMA RecordsStep ==
  ASSUME GuardsInv, Next, TreeInv', TreeTypes', Forward
  PROVE  Recorded(scopes)' /\ Recorded(created)'
<1> USE DEF ownerVars
<1>1. TreeInv /\ TreeTypes /\ Recorded(scopes) /\ Recorded(created) /\ EventQueue
  BY DEF GuardsInv, OwnInv, QueueInv
<1>2. ASSUME scopes' = scopes PROVE Recorded(scopes)'
  BY <1>1, <1>2, RecordedKept
<1>3. ASSUME created' = created PROVE Recorded(created)'
  BY <1>1, <1>3, RecordedKept
<1>4. ASSUME scopes' = NoGuards PROVE Recorded(scopes)'
  BY <1>1, <1>4, RecordedKept
<1>5. ASSUME created' = NoGuards PROVE Recorded(created)'
  BY <1>1, <1>5, RecordedKept
<1>6. ASSUME events # <<>>, Head(events).type = "replaced", Accept(Head(events))
      PROVE  Recorded(scopes)'
  <2>1. PICK e : e = Head(events)
    OBVIOUS
  <2>2. GoodEvent(e)
    BY <1>1, <1>6, <2>1, QueueTail DEF EventQueue
  <2>3. e.worker \in WorkerIds /\ e.new \in Started /\ Guarded(e.new)
    BY <1>6, <2>1, <2>2 DEF GoodEvent, Started
  <2>4. PICK f : f = [scopes EXCEPT ![e.worker] = e.new]
    OBVIOUS
  <2>5. Recorded(f)
    BY <1>1, <2>3, <2>4 DEF Recorded
  <2>6. scopes' = f \/ scopes' = scopes
    BY <1>6, <2>1, <2>4 DEF Accept, HandedOver
  <2> QED
    BY <1>1, <1>2, <2>5, <2>6, RecordedKept
<1>7. CASE AcceptReplacement
  BY <1>3, <1>6, <1>7 DEF AcceptReplacement
<1>8. CASE Sweep
  <2>1. created' = created /\ events # <<>>
        /\ (scopes' = scopes \/ (Head(events).type = "replaced" /\ Accept(Head(events))))
    BY <1>8 DEF Sweep
  <2> QED
    BY <1>2, <1>3, <1>6, <2>1
<1>9. CASE StopScopes \/ SweepDone
  BY <1>3, <1>4, <1>9 DEF StopScopes, SweepDone
<1>10. CASE Connect
  BY <1>2, <1>3, <1>10 DEF Connect
<1>11. ASSUME NEW w \in WorkerIds, Attach(w) PROVE Recorded(scopes)' /\ Recorded(created)'
  <2>1. PICK p \in OfWorker(w, DOMAIN proc) :
          /\ limited => p \in alive
          /\ created' = [created EXCEPT ![w] = p]
          /\ scoped' = IF limited THEN scoped \cup {p} ELSE scoped
    BY <1>11 DEF Attach
  <2>2. p \in 1 .. Len(proc) /\ UNCHANGED <<scopes, limited, alive, proc>>
    BY <1>1, <1>11, <2>1, Places DEF OfWorker, Attach, signalVars
  <2>3. PICK f : f = [created EXCEPT ![w] = p]
    OBVIOUS
  <2>4. p \in Started /\ Started' = Started /\ Guarded(p)'
    BY <2>1, <2>2 DEF Started, Guarded
  <2>5. Recorded(created)'
    <3>1. \A v \in WorkerIds : created[v] \in Started /\ Guarded(created[v])
      BY <1>1 DEF Recorded
    <3>2. \A v \in WorkerIds : Guarded(created[v])'
      <4>1. ASSUME NEW v \in WorkerIds, v # w PROVE created'[v] = created[v]
        BY <1>1, <2>1, <4>1 DEF Recorded
      <4>2. created'[w] = p
        BY <1>1, <2>1 DEF Recorded
      <4>3. ASSUME NEW v \in WorkerIds PROVE limited' /\ created'[v] \in alive' => created'[v] \in scoped'
        <5>1. CASE v = w
          BY <2>4, <4>2, <5>1 DEF Guarded
        <5>2. CASE v # w
          BY <2>1, <2>2, <3>1, <4>1, <5>2 DEF Guarded
        <5> QED
          BY <5>1, <5>2
      <4> QED
        BY <4>3 DEF Guarded
    <3>3. created' \in [WorkerIds -> Started']
      BY <1>1, <2>1, <2>4 DEF Recorded
    <3> QED
      BY <3>2, <3>3 DEF Recorded
  <2> QED
    BY <1>2, <2>2, <2>5
<1>12. CASE AttachDone
  <2>1. scopes' = created /\ created' = NoGuards
    BY <1>12 DEF AttachDone
  <2>2. PICK f : f = created
    OBVIOUS
  <2>3. Recorded(f)'
    BY <1>1, <2>2, RecordedKept
  <2> QED
    BY <1>1, <1>5, <2>1, <2>2, <2>3, RecordedKept
<1>13. CASE AttachNothing \/ AttachFails
  BY <1>2, <1>5, <1>13 DEF AttachNothing, AttachFails
<1>14. ASSUME ReceiveTrigger \/ KnownWalk \/ KillWalk \/ KillTree PROVE UNCHANGED ownerVars
  BY <1>14 DEF ReceiveTrigger, KnownWalk, KillWalk, KillTree
<1>15. ASSUME StopThreads \/ NotifyExit \/ ExitWalk \/ ExitKill \/ Signal PROVE UNCHANGED ownerVars
  BY <1>15 DEF StopThreads, NotifyExit, ExitWalk, ExitKill, Signal, SignalWalk, SignalKill,
               SignalSweep, Signalled
<1>16. ASSUME \/ \E p \in alive : Dies(p)
              \/ \E s \in alive, w \in WorkerIds : Fork(s, w)
              \/ \E w \in WorkerIds : TaskChanges(w)
       PROVE  UNCHANGED ownerVars
  BY <1>16 DEF Dies, Fork, TaskChanges
<1>17. ASSUME MonitorStep PROVE UNCHANGED ownerVars
  BY <1>17 DEF MonitorStep, DrainCommand, Drained, Look, CheckAlive, ReportOom, Adopt, AdoptFails,
              Wait, Publish, CheckLimits
<1>18. ASSUME UNCHANGED ownerVars PROVE Recorded(scopes)' /\ Recorded(created)'
  BY <1>2, <1>3, <1>18
<1>19. CASE Receiver
  BY <1>7, <1>9, <1>10, <1>11, <1>12, <1>13, <1>14, <1>18, <1>19 DEF Receiver
<1>20. CASE Exit
  BY <1>8, <1>9, <1>15, <1>18, <1>20 DEF Exit
<1> QED
  BY <1>15, <1>16, <1>17, <1>18, <1>19, <1>20 DEF Next


LEMMA OwnerPlacesStep ==
  ASSUME GuardsInv, Next
  PROVE  /\ rx' = "ended" <=> exit' # "no"
         /\ rx' \in {"connect", "attach"} => scopes' = NoGuards
         /\ rx' # "attach" => created' = NoGuards
<1> USE DEF ownerVars, killVars
<1>1. /\ rx = "ended" <=> exit # "no"
      /\ rx \in {"connect", "attach"} => scopes = NoGuards
      /\ rx # "attach" => created = NoGuards
  BY DEF GuardsInv, OwnInv
<1>2. ASSUME UNCHANGED <<ownerVars, rx, exit>>
      PROVE  /\ rx' = "ended" <=> exit' # "no"
             /\ rx' \in {"connect", "attach"} => scopes' = NoGuards
             /\ rx' # "attach" => created' = NoGuards
  BY <1>1, <1>2
<1>3. ASSUME \/ \E p \in alive : Dies(p)
             \/ \E s \in alive, w \in WorkerIds : Fork(s, w)
             \/ \E w \in WorkerIds : TaskChanges(w)
      PROVE  UNCHANGED <<ownerVars, rx, exit>>
  BY <1>3 DEF Dies, Fork, TaskChanges
<1>4. ASSUME MonitorStep PROVE UNCHANGED <<ownerVars, rx, exit>>
  BY <1>4 DEF MonitorStep, DrainCommand, Drained, Look, CheckAlive, ReportOom, Adopt, AdoptFails,
              Wait, Publish, CheckLimits
<1>5. ASSUME Signal PROVE UNCHANGED <<ownerVars, rx, exit>>
  BY <1>5 DEF Signal, SignalWalk, SignalKill, SignalSweep, Signalled
<1>6. ASSUME Receiver
      PROVE  /\ rx' = "ended" <=> exit' # "no"
             /\ rx' \in {"connect", "attach"} => scopes' = NoGuards
             /\ rx' # "attach" => created' = NoGuards
  <2>1. ASSUME AcceptReplacement \/ ReceiveTrigger \/ KnownWalk \/ KillWalk \/ KillTree
        PROVE  exit' = exit /\ created' = created /\ rx \notin {"ended", "attach", "connect"}
               /\ rx' \notin {"ended", "connect", "attach"}
    BY <2>1 DEF AcceptReplacement, ReceiveTrigger, KnownWalk, KillWalk, KillTree
  <2>2. CASE StopScopes
    BY <1>1, <2>2 DEF StopScopes
  <2>3. CASE Connect
    BY <1>1, <2>3 DEF Connect
  <2>4. CASE AttachDone \/ AttachNothing \/ AttachFails
    BY <1>1, <2>4 DEF AttachDone, AttachNothing, AttachFails
  <2>5. ASSUME NEW w \in WorkerIds, Attach(w)
        PROVE  rx = "attach" /\ UNCHANGED <<rx, exit, scopes>>
    BY <2>5 DEF Attach
  <2> QED
    BY <1>1, <1>6, <2>1, <2>2, <2>3, <2>4, <2>5 DEF Receiver
<1>7. ASSUME Exit
      PROVE  /\ rx' = "ended" <=> exit' # "no"
             /\ rx' \in {"connect", "attach"} => scopes' = NoGuards
             /\ rx' # "attach" => created' = NoGuards
  BY <1>1, <1>7 DEF Exit, StopThreads, Sweep, SweepDone, NotifyExit, ExitWalk, ExitKill
<1> QED
  BY <1>2, <1>3, <1>4, <1>5, <1>6, <1>7 DEF Next

\* The ways a scope is owned.
Owned(p) ==
  \/ \E w \in WorkerIds : p \in {scopes[w], created[w]}
  \/ adopting = p
  \/ \E i \in 1 .. Len(events) : events[i].new = p

LEMMA OwnedIsOwned ==
  ASSUME QueueInv
  PROVE  ScopesAreOwned <=> (exit = "no" => \A p \in scoped \cap alive : Owned(p))
<1>1. DOMAIN events = 1 .. Len(events)
  BY LenProperties DEF QueueInv, EventQueue
<1> QED
  BY <1>1 DEF ScopesAreOwned, Owned

LEMMA OwnedStep ==
  ASSUME GuardsInv, Next, TreeInv', TreeTypes', Forward, QueueInv'
  PROVE  ScopesAreOwned'
<1> USE DEF ownerVars, queueVars
<1>1. SUFFICES ASSUME exit' = "no", NEW p \in scoped' \cap alive' PROVE Owned(p)'
  <2>1. DOMAIN events' = 1 .. Len(events')
    BY LenProperties DEF QueueInv, EventQueue
  <2> QED
    BY <2>1 DEF ScopesAreOwned, Owned
<1>2. /\ TreeInv /\ TreeTypes /\ QueueInv /\ RoundInv /\ Recorded(scopes) /\ Recorded(created)
      /\ rx = "ended" <=> exit # "no"
      /\ rx \in {"connect", "attach"} => scopes = NoGuards
      /\ rx # "attach" => created = NoGuards
      /\ exit = "no" => \A q \in scoped \cap alive : Owned(q)
  BY OwnedIsOwned DEF GuardsInv, OwnInv
<1>3. p # None /\ p \in alive' /\ p \in scoped'
  BY DEF TreeTypes, None
<1>4. p \in scoped => p \in alive
  <2>1. p \in scoped => p \in 1 .. Len(proc)
    BY <1>2 DEF TreeTypes
  <2> QED
    BY <1>3, <2>1 DEF Forward
<1>5. ASSUME p \in scoped, exit = "no" PROVE Owned(p)
  BY <1>2, <1>3, <1>4, <1>5
<1>6. Len(events) \in Nat /\ Len(events') \in Nat
  BY <1>2, LenProperties DEF QueueInv, EventQueue
\* An owner stays; a trigger is appended.
<1>7. ASSUME Owned(p), UNCHANGED <<scopes, created, adopting, events>> PROVE Owned(p)'
  BY <1>7 DEF Owned
<1>8. ASSUME NEW e \in Events, events' = Append(events, e)
      PROVE  /\ events'[Len(events) + 1] = e /\ Len(events) + 1 \in 1 .. Len(events')
             /\ \A i \in 1 .. Len(events) : events'[i] = events[i] /\ i \in 1 .. Len(events')
  BY <1>2, <1>8, AppendedQueue DEF QueueInv, EventQueue
<1>9. ASSUME Owned(p), NEW kind, Report(kind), UNCHANGED <<scopes, created>>, exit = "no"
      PROVE  Owned(p)'
  <2>1. PICK e : e = Trigger(kind)
    OBVIOUS
  <2>2. events' = Append(events, e) /\ adopting' = adopting
    BY <1>9, <2>1 DEF Report
  <2>3. events \in Seq(Events) /\ events' \in Seq(Events)
    BY <1>2 DEF QueueInv, EventQueue
  <2>4. \A i \in 1 .. Len(events) : events'[i] = events[i] /\ i \in 1 .. Len(events')
    BY <1>6, <2>2, <2>3
  <2> QED
    BY <1>9, <2>2, <2>4 DEF Owned
<1>10. ASSUME MonitorStep PROVE Owned(p)'
  <2>1. exit = "no" /\ UNCHANGED <<scopes, created>>
    BY <1>10 DEF MonitorStep, DrainCommand, Drained, Look, CheckAlive, ReportOom, Adopt, AdoptFails,
                Wait, Publish, CheckLimits, Monitoring, Vanished
  <2>2. place # "publish" => adopting = None
    BY <1>2 DEF RoundInv
  <2>3. ASSUME scoped' = scoped PROVE Owned(p)
    BY <1>3, <1>5, <2>1, <2>3
  <2>4. CASE DrainCommand \/ Drained
    <3>1. scoped' = scoped /\ UNCHANGED <<adopting, events>>
      BY <2>4 DEF DrainCommand, Drained, treeVars
    <3> QED
      BY <1>7, <2>1, <2>3, <3>1
  <2>5. CASE Look
    <3>1. scoped' = scoped
      BY <2>5 DEF Look, treeVars
    <3>2. Report("death") \/ UNCHANGED <<adopting, events>>
      BY <2>5 DEF Look
    <3> QED
      BY <1>7, <1>9, <2>1, <2>3, <3>1, <3>2
  <2>6. ASSUME NEW w \in WorkerIds, CheckLimits(w) PROVE Owned(p)'
    <3>1. scoped' = scoped
      BY <2>6 DEF CheckLimits, treeVars
    <3>2. Report("memory") \/ UNCHANGED <<adopting, events>>
      BY <2>6 DEF CheckLimits
    <3> QED
      BY <1>7, <1>9, <2>1, <2>3, <3>1, <3>2
  <2>7. ASSUME Owned(p), UNCHANGED events, adopting = None PROVE Owned(p)'
    BY <1>3, <2>1, <2>7 DEF Owned
  <2>8. CASE CheckAlive \/ AdoptFails
    <3>1. scoped' = scoped /\ UNCHANGED events /\ place = "alive"
      BY <2>8 DEF CheckAlive, AdoptFails, Vanished, treeVars
    <3> QED
      BY <2>2, <2>3, <2>7, <3>1
  <2>9. CASE ReportOom
    <3>1. scoped' = scoped /\ Report("memory")
      BY <2>9 DEF ReportOom, treeVars
    <3> QED
      BY <1>9, <2>1, <2>3, <3>1
  <2>10. CASE Wait
    <3>1. scoped' = scoped /\ place = "alive"
      BY <2>10 DEF Wait, Vanished, treeVars
    <3>2. Report("worker_death") \/ UNCHANGED events
      BY <2>10 DEF Wait
    <3> QED
      BY <1>9, <2>1, <2>2, <2>3, <2>7, <3>1, <3>2
  <2>11. CASE Adopt
    <3>1. UNCHANGED events /\ place = "alive"
      BY <2>11 DEF Adopt, Vanished
    <3>2. PICK q : adopting' = q /\ scoped' \subseteq scoped \cup {q}
      BY <2>11 DEF Adopt
    <3>3. CASE p = q
      BY <3>2, <3>3 DEF Owned
    <3>4. CASE p # q
      BY <1>3, <1>5, <2>1, <2>2, <2>7, <3>1, <3>2, <3>4
    <3> QED
      BY <3>3, <3>4
  <2>12. CASE Publish
    <3>1. CASE adopting \in alive
      <4>1. PICK e : e = [type |-> "replaced", gen |-> seen, worker |-> checking,
                          old |-> guards[checking], new |-> adopting]
        OBVIOUS
      <4>2. events' = Append(events, e) /\ scoped' \subseteq scoped /\ e.new = adopting
        BY <2>12, <3>1, <4>1 DEF Publish, Stopped, Announced
      <4>3. Owned(p)
        BY <1>3, <1>5, <2>1, <4>2
      <4>4. /\ events'[Len(events) + 1] = e /\ Len(events) + 1 \in 1 .. Len(events')
            /\ \A i \in 1 .. Len(events) : events'[i] = events[i] /\ i \in 1 .. Len(events')
        <5>1. events \in Seq(Events) /\ events' \in Seq(Events)
          BY <1>2 DEF QueueInv, EventQueue
        <5> QED
          BY <1>6, <4>2, <5>1
      <4> QED
        BY <2>1, <4>2, <4>3, <4>4 DEF Owned
    <3>2. CASE adopting \notin alive
      <4>1. UNCHANGED events /\ scoped' = scoped \ {adopting}
        BY <2>12, <3>2 DEF Publish, Stopped
      <4>2. p # adopting /\ Owned(p)
        BY <1>3, <1>5, <2>1, <4>1
      <4> QED
        BY <2>1, <4>1, <4>2 DEF Owned
    <3> QED
      BY <3>1, <3>2
  <2> QED
    BY <1>10, <2>4, <2>5, <2>6, <2>8, <2>9, <2>10, <2>11, <2>12 DEF MonitorStep
<1>11. ASSUME Signal PROVE Owned(p)'
  <2>1. UNCHANGED <<scopes, created, adopting, events, scoped, exit>>
    BY <1>11 DEF Signal, SignalWalk, SignalKill, SignalSweep, Signalled, monitorVars
  <2> QED
    BY <1>1, <1>3, <1>5, <1>7, <2>1
<1>12. ASSUME \/ \E q \in alive : Dies(q)
              \/ \E s \in alive, w \in WorkerIds : Fork(s, w)
              \/ \E w \in WorkerIds : TaskChanges(w)
       PROVE  Owned(p)'
  <2>1. UNCHANGED <<scopes, created, adopting, events, scoped, exit>>
    BY <1>12 DEF Dies, Fork, TaskChanges, treeVars, monitorVars
  <2> QED
    BY <1>1, <1>3, <1>5, <1>7, <2>1
<1>13. ASSUME Exit PROVE FALSE
  BY <1>1, <1>13 DEF Exit, StopThreads, Sweep, SweepDone, NotifyExit, ExitWalk, ExitKill
<1>14. ASSUME ReceiveTrigger PROVE Owned(p)'
  <2>1. UNCHANGED <<scopes, created, adopting, scoped, exit>> /\ events' = Tail(events)
        /\ Head(events).type # "replaced" /\ events # <<>>
    BY <1>14 DEF ReceiveTrigger, treeVars, monitorVars
  <2>2. /\ Head(events) = events[1] /\ 1 \in 1 .. Len(events)
        /\ \A i \in 1 .. Len(events) : i = 1 \/ (i - 1 \in 1 .. Len(events') /\ events'[i - 1] = events[i])
    BY <1>2, <2>1, QueueTail DEF QueueInv, EventQueue
  <2>3. events[1].new = None
    BY <1>2, <2>1, <2>2 DEF QueueInv, EventQueue, GoodEvent
  <2>4. Owned(p)
    BY <1>1, <1>3, <1>5, <2>1
  <2> QED
    BY <1>3, <2>1, <2>2, <2>3, <2>4 DEF Owned
<1>15. ASSUME AcceptReplacement PROVE Owned(p)'
  <2>1. PICK e : e = Head(events)
    OBVIOUS
  <2>2. UNCHANGED <<created, adopting, exit>> /\ events' = Tail(events) /\ Accept(e)
        /\ e.type = "replaced" /\ events # <<>>
    BY <1>15, <2>1 DEF AcceptReplacement, monitorVars
  <2>3. /\ e = events[1] /\ 1 \in 1 .. Len(events)
        /\ \A i \in 1 .. Len(events) : i = 1 \/ (i - 1 \in 1 .. Len(events') /\ events'[i - 1] = events[i])
    BY <1>2, <2>1, <2>2, QueueTail DEF QueueInv, EventQueue
  <2>4. e.worker \in WorkerIds /\ e.old \notin alive
    BY <1>2, <2>2, <2>3 DEF QueueInv, EventQueue, GoodEvent
  <2>5. scoped' \subseteq scoped
    BY <2>2 DEF Accept, Stopped
  <2>6. Owned(p) /\ p \in alive
    BY <1>1, <1>3, <1>4, <1>5, <2>2, <2>5
  <2>7. CASE Accepts(e)
    <3>1. scopes' = [scopes EXCEPT ![e.worker] = e.new] /\ scopes[e.worker] = e.old
      BY <2>2, <2>7 DEF Accept, Accepts, HandedOver
    <3>2. scopes'[e.worker] = e.new
      BY <1>2, <2>4, <3>1 DEF Recorded
    <3>3. \A w \in WorkerIds : scopes[w] = p => scopes'[w] = p
      BY <1>2, <2>4, <2>6, <3>1 DEF Recorded
    <3> QED
      BY <2>2, <2>3, <2>4, <2>6, <3>2, <3>3 DEF Owned
  <2>8. CASE ~Accepts(e)
    <3>1. scoped' = scoped \ {e.new} /\ scopes' = scopes
      BY <2>2, <2>8 DEF Accept, Stopped
    <3>2. p # e.new
      BY <1>3, <3>1
    <3> QED
      BY <2>2, <2>3, <2>6, <3>1, <3>2 DEF Owned
  <2> QED
    BY <2>7, <2>8
<1>16. ASSUME KnownWalk \/ KillWalk \/ KillTree PROVE Owned(p)'
  <2>1. UNCHANGED <<scopes, created, adopting, events, scoped, exit>>
    BY <1>16 DEF KnownWalk, KillWalk, KillTree, treeVars, monitorVars
  <2> QED
    BY <1>1, <1>3, <1>5, <1>7, <2>1
<1>17. ASSUME StopScopes PROVE Owned(p)'
  <2>1. /\ scoped' = scoped \ {scopes[w] : w \in WorkerIds}
        /\ UNCHANGED <<created, adopting, events, exit>>
    BY <1>17 DEF StopScopes, Stopped, monitorVars
  <2>2. Owned(p) /\ \A w \in WorkerIds : p # scopes[w]
    BY <1>1, <1>3, <1>5, <2>1
  <2> QED
    BY <2>1, <2>2 DEF Owned
<1>18. ASSUME Connect PROVE Owned(p)'
  <2>1. UNCHANGED <<scopes, created, adopting, events, scoped, exit>>
    BY <1>18 DEF Connect, monitorVars
  <2> QED
    BY <1>1, <1>3, <1>5, <1>7, <2>1
<1>19. ASSUME NEW w \in WorkerIds, Attach(w) PROVE Owned(p)'
  <2>1. PICK q : created' = [created EXCEPT ![w] = q] /\ scoped' \subseteq scoped \cup {q}
    BY <1>19 DEF Attach
  <2>2. UNCHANGED <<scopes, adopting, events, exit>> /\ created[w] = None
    BY <1>19 DEF Attach, monitorVars
  <2>3. created'[w] = q /\ \A v \in WorkerIds : created[v] = p => created'[v] = p
    BY <1>2, <1>3, <2>1, <2>2 DEF Recorded
  <2>4. CASE p = q
    BY <2>3, <2>4 DEF Owned
  <2>5. CASE p # q
    <3>1. Owned(p)
      BY <1>1, <1>3, <1>5, <2>1, <2>2, <2>5
    <3> QED
      BY <2>2, <2>3, <3>1 DEF Owned
  <2> QED
    BY <2>4, <2>5
<1>20. ASSUME AttachDone PROVE Owned(p)'
  <2>1. UNCHANGED <<adopting, events, scoped, exit>> /\ scopes' = created /\ rx = "attach"
    BY <1>20 DEF AttachDone, treeVars, monitorVars
  <2>2. Owned(p) /\ \A w \in WorkerIds : scopes[w] = None
    BY <1>1, <1>2, <1>3, <1>5, <2>1 DEF NoGuards
  <2> QED
    BY <1>3, <2>1, <2>2 DEF Owned
<1>21. ASSUME AttachNothing PROVE Owned(p)'
  <2>1. UNCHANGED <<scopes, created, adopting, events, scoped, exit>>
    BY <1>21 DEF AttachNothing, treeVars, monitorVars
  <2> QED
    BY <1>1, <1>3, <1>5, <1>7, <2>1
<1>22. ASSUME AttachFails PROVE Owned(p)'
  <2>1. /\ scoped' = scoped \ {created[w] : w \in WorkerIds}
        /\ UNCHANGED <<scopes, adopting, events, exit>>
    BY <1>22 DEF AttachFails, Stopped, monitorVars
  <2>2. Owned(p) /\ \A w \in WorkerIds : p # created[w]
    BY <1>1, <1>3, <1>5, <2>1
  <2> QED
    BY <2>1, <2>2 DEF Owned
<1>23. CASE Receiver
  BY <1>14, <1>15, <1>16, <1>17, <1>18, <1>19, <1>20, <1>21, <1>22, <1>23 DEF Receiver
<1> QED
  BY <1>10, <1>11, <1>12, <1>13, <1>23 DEF Next

LEMMA OwnStep ==
  ASSUME GuardsInv, Next, TreeInv', TreeTypes', Forward, QueueInv'
  PROVE  OwnInv'
BY OwnerPlacesStep, RecordsStep, OwnedStep DEF OwnInv


-----------------------------------------------------------------------------
(* What the owner knows of the monitor's guards                            *)

LEMMA ChainOfNone ==
  ASSUME NEW q, NEW w, NEW g, NEW from, NEW to, from = to,
         \A i \in 1 .. Len(q) : ~Replaces(q[i], w, g)
  PROVE  Chain(q, w, g, from, to)
BY DEF Chain

LEMMA ChainBesideOther ==
  ASSUME NEW q \in Seq(Events), NEW e \in Events, NEW w, NEW g, NEW from, NEW to,
         Chain(q, w, g, from, to), ~Replaces(e, w, g), NEW r, r = Append(q, e)
  PROVE  Chain(r, w, g, from, to)
<1> DEFINE n == Len(q)
<1>1. /\ n \in Nat /\ Len(r) = n + 1 /\ r[n + 1] = e
      /\ \A i \in 1 .. n : r[i] = q[i] /\ i \in 1 .. Len(r)
      /\ \A i \in 1 .. Len(r) : i = n + 1 \/ i \in 1 .. n
  BY AppendedQueue
<1> HIDE DEF n
<1>2. \A i \in 1 .. Len(r) : Replaces(r[i], w, g) => i \in 1 .. n /\ r[i] = q[i]
  BY <1>1
<1>3. \A i \in 1 .. n : Replaces(q[i], w, g) <=> Replaces(r[i], w, g)
  BY <1>1
<1> QED
  BY <1>1, <1>2, <1>3 DEF Chain, n

LEMMA ChainGrows ==
  ASSUME NEW q \in Seq(Events), NEW e \in Events, NEW w, NEW g, NEW from, NEW to,
         Chain(q, w, g, from, to), Replaces(e, w, g), e.old = to, NEW r, r = Append(q, e)
  PROVE  Chain(r, w, g, from, e.new)
<1> DEFINE n == Len(q)
<1>1. /\ n \in Nat /\ Len(r) = n + 1 /\ r[n + 1] = e /\ n + 1 \in 1 .. Len(r)
      /\ \A i \in 1 .. n : r[i] = q[i] /\ i \in 1 .. Len(r) /\ i < n + 1
      /\ \A i \in 1 .. Len(r) : i = n + 1 \/ i \in 1 .. n
  <2>1. n \in Nat
    BY LenProperties
  <2> QED
    BY <2>1, AppendedQueue
<1>2. \A i \in 1 .. n : Replaces(q[i], w, g) <=> Replaces(r[i], w, g)
  BY <1>1
<1>3. /\ \A i \in 1 .. n :
           Replaces(q[i], w, g) /\ (\A k \in 1 .. n : Replaces(q[k], w, g) => i <= k)
             => q[i].old = from
      /\ \A i, j \in 1 .. n :
           /\ Replaces(q[i], w, g) /\ Replaces(q[j], w, g) /\ i < j
           /\ (\A k \in 1 .. n : Replaces(q[k], w, g) => k <= i \/ j <= k)
           => q[j].old = q[i].new
      /\ \A i \in 1 .. n :
           Replaces(q[i], w, g) /\ (\A k \in 1 .. n : Replaces(q[k], w, g) => k <= i)
             => q[i].new = to
      /\ (\A i \in 1 .. n : ~Replaces(q[i], w, g)) => from = to
  BY DEF Chain
<1> HIDE DEF n
<1>4. ASSUME NEW i \in 1 .. Len(r), Replaces(r[i], w, g),
             \A k \in 1 .. Len(r) : Replaces(r[k], w, g) => i <= k
      PROVE  r[i].old = from
  <2>1. CASE i \in 1 .. n
    BY <1>1, <1>2, <1>3, <1>4, <2>1
  <2>2. CASE i = n + 1
    <3>1. ASSUME NEW k \in 1 .. n PROVE ~Replaces(q[k], w, g)
      <4>1. ~(n + 1 <= k)
        BY <1>1
      <4> QED
        BY <1>1, <1>2, <1>4, <2>2, <4>1
    <3> QED
      BY <1>1, <1>3, <2>2, <3>1
  <2> QED
    BY <1>1, <2>1, <2>2
<1>5. ASSUME NEW i \in 1 .. Len(r), NEW j \in 1 .. Len(r), Replaces(r[i], w, g),
             Replaces(r[j], w, g), i < j,
             \A k \in 1 .. Len(r) : Replaces(r[k], w, g) => k <= i \/ j <= k
      PROVE  r[j].old = r[i].new
  <2>1. i \in 1 .. n
    BY <1>1, <1>5
  <2>2. CASE j \in 1 .. n
    BY <1>1, <1>2, <1>3, <1>5, <2>1, <2>2
  <2>3. CASE j = n + 1
    <3>1. \A k \in 1 .. n : Replaces(q[k], w, g) => k <= i
      <4>1. ASSUME NEW k \in 1 .. n, Replaces(q[k], w, g) PROVE k <= i
        <5>1. ~(j <= k)
          BY <1>1, <2>3
        <5> QED
          BY <1>1, <1>2, <1>5, <4>1, <5>1
      <4> QED
        BY <4>1
    <3> QED
      BY <1>1, <1>2, <1>3, <1>5, <2>1, <2>3, <3>1
  <2> QED
    BY <1>1, <2>2, <2>3
<1>6. ASSUME NEW i \in 1 .. Len(r), Replaces(r[i], w, g),
             \A k \in 1 .. Len(r) : Replaces(r[k], w, g) => k <= i
      PROVE  r[i].new = e.new
  <2>1. n + 1 <= i
    BY <1>1, <1>6
  <2>2. i = n + 1
    BY <1>1, <2>1
  <2> QED
    BY <1>1, <2>2
<1>7. Replaces(r[n + 1], w, g)
  BY <1>1
<1> QED
  BY <1>1, <1>4, <1>5, <1>6, <1>7 DEF Chain

\* The queue without its first event.
LEMMA ChainTail ==
  ASSUME NEW q \in Seq(Events), q # <<>>, NEW w, NEW g, NEW from, NEW to,
         Chain(q, w, g, from, to), NEW r, r = Tail(q)
  PROVE  /\ ~Replaces(q[1], w, g) => Chain(r, w, g, from, to)
         /\ Replaces(q[1], w, g) => q[1].old = from /\ Chain(r, w, g, q[1].new, to)
<1> DEFINE n == Len(q)
<1>1. /\ n \in Nat \ {0} /\ Len(r) = n - 1 /\ 1 \in 1 .. n
      /\ \A i \in 1 .. Len(r) : r[i] = q[i + 1] /\ i + 1 \in 1 .. n
      /\ \A i \in 1 .. n : i = 1 \/ (i - 1 \in 1 .. Len(r) /\ r[i - 1] = q[i])
  BY QueueTail
<1>2. /\ \A i \in 1 .. n :
           Replaces(q[i], w, g) /\ (\A k \in 1 .. n : Replaces(q[k], w, g) => i <= k)
             => q[i].old = from
      /\ \A i, j \in 1 .. n :
           /\ Replaces(q[i], w, g) /\ Replaces(q[j], w, g) /\ i < j
           /\ (\A k \in 1 .. n : Replaces(q[k], w, g) => k <= i \/ j <= k)
           => q[j].old = q[i].new
      /\ \A i \in 1 .. n :
           Replaces(q[i], w, g) /\ (\A k \in 1 .. n : Replaces(q[k], w, g) => k <= i)
             => q[i].new = to
      /\ (\A i \in 1 .. n : ~Replaces(q[i], w, g)) => from = to
  BY DEF Chain
<1> HIDE DEF n
\* Places in the tail and in the queue.
<1>3. \A i \in 1 .. Len(r) : i \in Nat /\ i + 1 \in 1 .. n /\ 1 < i + 1
  BY <1>1
<1>4. \A k \in 1 .. n : k = 1 \/ (k \in Nat /\ k - 1 \in 1 .. Len(r) /\ (k - 1) + 1 = k /\ 1 <= k)
  BY <1>1
<1>5. ASSUME NEW i \in 1 .. Len(r), NEW j \in 1 .. Len(r), Replaces(r[i], w, g),
             Replaces(r[j], w, g), i < j,
             \A k \in 1 .. Len(r) : Replaces(r[k], w, g) => k <= i \/ j <= k
      PROVE  r[j].old = r[i].new
  <2>1. ASSUME NEW k \in 1 .. n, Replaces(q[k], w, g) PROVE k <= i + 1 \/ j + 1 <= k
    <3>1. CASE k = 1
      BY <1>3, <3>1
    <3>2. CASE k # 1
      <4>1. k - 1 \in 1 .. Len(r) /\ r[k - 1] = q[k] /\ k \in Nat
        BY <1>1, <1>4, <3>2
      <4>2. k - 1 <= i \/ j <= k - 1
        BY <1>5, <2>1, <4>1
      <4> QED
        BY <1>3, <4>1, <4>2
    <3> QED
      BY <3>1, <3>2
  <2>2. i + 1 < j + 1 /\ i + 1 \in 1 .. n /\ j + 1 \in 1 .. n
    BY <1>3, <1>5
  <2>3. PICK a, b : a = i + 1 /\ b = j + 1
    OBVIOUS
  <2>4. r[i] = q[a] /\ r[j] = q[b] /\ a \in 1 .. n /\ b \in 1 .. n /\ a < b
        /\ \A k \in 1 .. n : Replaces(q[k], w, g) => k <= a \/ b <= k
    BY <1>1, <2>1, <2>2, <2>3
  <2>5. q[b].old = q[a].new
    BY <1>2, <1>5, <2>4
  <2> QED
    BY <2>4, <2>5
<1>6. ASSUME NEW i \in 1 .. Len(r), Replaces(r[i], w, g),
             \A k \in 1 .. Len(r) : Replaces(r[k], w, g) => k <= i
      PROVE  r[i].new = to
  <2>1. PICK a : a = i + 1
    OBVIOUS
  <2>2. \A k \in 1 .. n : Replaces(q[k], w, g) => k <= a
    <3>1. ASSUME NEW k \in 1 .. n, Replaces(q[k], w, g), k # 1 PROVE k <= a
      <4>1. k - 1 \in 1 .. Len(r) /\ r[k - 1] = q[k] /\ k \in Nat
        BY <1>1, <1>4, <3>1
      <4>2. k - 1 <= i
        BY <1>6, <3>1, <4>1
      <4> QED
        BY <1>3, <2>1, <4>1, <4>2
    <3>2. 1 <= a
      BY <1>3, <2>1
    <3> QED
      BY <3>1, <3>2
  <2>3. a \in 1 .. n /\ q[a] = r[i]
    BY <1>1, <2>1
  <2> QED
    BY <1>2, <1>6, <2>2, <2>3
<1>7. ASSUME ~Replaces(q[1], w, g) PROVE Chain(r, w, g, from, to)
  <2>1. ASSUME NEW i \in 1 .. Len(r), Replaces(r[i], w, g),
               \A k \in 1 .. Len(r) : Replaces(r[k], w, g) => i <= k
        PROVE  r[i].old = from
    <3>1. PICK a : a = i + 1
      OBVIOUS
    <3>2. ASSUME NEW k \in 1 .. n, Replaces(q[k], w, g) PROVE a <= k
      <4>1. k - 1 \in 1 .. Len(r) /\ r[k - 1] = q[k] /\ k \in Nat
        BY <1>1, <1>4, <1>7, <3>2
      <4>2. i <= k - 1
        BY <2>1, <3>2, <4>1
      <4> QED
        BY <1>3, <3>1, <4>1, <4>2
    <3>3. a \in 1 .. n /\ q[a] = r[i]
      BY <1>1, <3>1
    <3> QED
      BY <1>2, <2>1, <3>2, <3>3
  <2>2. (\A i \in 1 .. Len(r) : ~Replaces(r[i], w, g)) => from = to
    BY <1>1, <1>2, <1>7
  <2> QED
    BY <1>5, <1>6, <2>1, <2>2 DEF Chain
<1>8. ASSUME Replaces(q[1], w, g) PROVE q[1].old = from /\ Chain(r, w, g, q[1].new, to)
  <2>1. q[1].old = from
    <3>1. \A k \in 1 .. n : 1 <= k
      BY <1>4
    <3> QED
      BY <1>1, <1>2, <1>8, <3>1
  <2>2. ASSUME NEW i \in 1 .. Len(r), Replaces(r[i], w, g),
               \A k \in 1 .. Len(r) : Replaces(r[k], w, g) => i <= k
        PROVE  r[i].old = q[1].new
    <3>1. PICK a : a = i + 1
      OBVIOUS
    <3>2. ASSUME NEW k \in 1 .. n, Replaces(q[k], w, g) PROVE k <= 1 \/ a <= k
      <4>1. CASE k = 1
        BY <4>1
      <4>2. CASE k # 1
        <5>1. k - 1 \in 1 .. Len(r) /\ r[k - 1] = q[k] /\ k \in Nat
          BY <1>1, <1>4, <4>2
        <5>2. i <= k - 1
          BY <2>2, <3>2, <5>1
        <5> QED
          BY <1>3, <3>1, <5>1, <5>2
      <4> QED
        BY <4>1, <4>2
    <3>3. a \in 1 .. n /\ q[a] = r[i] /\ 1 < a
      BY <1>1, <1>3, <3>1
    <3> QED
      BY <1>1, <1>2, <1>8, <2>2, <3>2, <3>3
  <2>3. (\A i \in 1 .. Len(r) : ~Replaces(r[i], w, g)) => q[1].new = to
    <3>1. ASSUME \A i \in 1 .. Len(r) : ~Replaces(r[i], w, g) PROVE q[1].new = to
      <4>1. ASSUME NEW k \in 1 .. n, Replaces(q[k], w, g) PROVE k <= 1
        <5>1. k - 1 \in 1 .. Len(r) => r[k - 1] # q[k]
          BY <3>1, <4>1
        <5>2. k = 1
          BY <1>1, <5>1
        <5> QED
          BY <5>2
      <4> QED
        BY <1>1, <1>2, <1>8, <4>1
    <3> QED
      BY <3>1
  <2> QED
    BY <1>5, <1>6, <2>1, <2>2, <2>3 DEF Chain
<1> QED
  BY <1>7, <1>8


\* A rebuild or exit() is under way.
OutOfService ==
  /\ rx' \notin {"poll", "attach"} /\ seen' = seen /\ gen' = gen
  /\ commands' = commands \/ commands' = Append(commands, [type |-> "pause"])

followVars == <<commands, rx, seen, gen, events, scopes, guards>>

LEMMA FollowCases ==
  ASSUME GuardsInv, Next
  PROVE  \/ UNCHANGED followVars
         \/ \E kind \in EventTypes \ {"replaced"} :
              Report(kind) /\ UNCHANGED <<commands, rx, seen, gen, scopes, guards>>
         \/ DrainCommand \/ Publish \/ AcceptReplacement \/ ReceiveTrigger \/ Connect \/ AttachDone
         \/ AttachNothing \/ OutOfService
<1> USE DEF followVars, queueVars, ownerVars, killVars
<1>1. ASSUME \/ \E p \in alive : Dies(p)
             \/ \E s \in alive, w \in WorkerIds : Fork(s, w)
             \/ \E w \in WorkerIds : TaskChanges(w)
      PROVE  UNCHANGED followVars
  BY <1>1 DEF Dies, Fork, TaskChanges, monitorVars
<1>2. ASSUME Signal PROVE UNCHANGED followVars
  BY <1>2 DEF Signal, SignalWalk, SignalKill, SignalSweep, Signalled, monitorVars
<1>3. ASSUME Drained \/ CheckAlive \/ Adopt \/ AdoptFails PROVE UNCHANGED followVars
  BY <1>3 DEF Drained, CheckAlive, Adopt, AdoptFails
<1>4. {"death", "memory", "worker_death"} \subseteq EventTypes \ {"replaced"}
  BY DEF EventTypes
<1>5. ASSUME Look \/ ReportOom \/ Wait \/ \E w \in WorkerIds : CheckLimits(w)
      PROVE  \/ UNCHANGED followVars
             \/ \E kind \in EventTypes \ {"replaced"} :
                  Report(kind) /\ UNCHANGED <<commands, rx, seen, gen, scopes, guards>>
  <2>1. CASE Look
    <3>1. UNCHANGED followVars \/ Report("death")
      BY <2>1 DEF Look
    <3>2. Report("death") => UNCHANGED <<commands, rx, seen, gen, scopes, guards>>
      BY <2>1 DEF Look, Report
    <3> QED
      BY <1>4, <3>1, <3>2
  <2>2. CASE ReportOom
    <3>1. Report("memory") /\ UNCHANGED <<commands, rx, seen, gen, scopes, guards>>
      BY <2>2 DEF ReportOom, Report
    <3> QED
      BY <1>4, <3>1
  <2>3. CASE Wait
    <3>1. UNCHANGED followVars \/ Report("worker_death")
      BY <2>3 DEF Wait
    <3>2. Report("worker_death") => UNCHANGED <<commands, rx, seen, gen, scopes, guards>>
      BY <2>3 DEF Wait, Report
    <3> QED
      BY <1>4, <3>1, <3>2
  <2>4. ASSUME NEW w \in WorkerIds, CheckLimits(w)
        PROVE  \/ UNCHANGED followVars
               \/ Report("memory") /\ UNCHANGED <<commands, rx, seen, gen, scopes, guards>>
    <3>1. UNCHANGED followVars \/ Report("memory")
      BY <2>4 DEF CheckLimits
    <3>2. Report("memory") => UNCHANGED <<commands, rx, seen, gen, scopes, guards>>
      BY <2>4 DEF CheckLimits, Report
    <3> QED
      BY <3>1, <3>2
  <2> QED
    BY <1>4, <1>5, <2>1, <2>2, <2>3, <2>4
<1>6. ASSUME KnownWalk \/ KillWalk \/ KillTree \/ StopScopes \/ AttachFails PROVE OutOfService
  BY <1>6 DEF KnownWalk, KillWalk, KillTree, StopScopes, AttachFails, OutOfService, monitorVars
<1>7. ASSUME NEW w \in WorkerIds, Attach(w) PROVE UNCHANGED followVars
  BY <1>7 DEF Attach, monitorVars
<1>8. ASSUME Exit PROVE OutOfService
  <2>1. exit # "no" => rx = "ended"
    BY DEF GuardsInv, OwnInv
  <2> QED
    BY <1>8, <2>1 DEF Exit, StopThreads, Sweep, SweepDone, NotifyExit, ExitWalk, ExitKill,
                      OutOfService, monitorVars
<1> QED
  BY <1>1, <1>2, <1>3, <1>5, <1>6, <1>7, <1>8 DEF Next, MonitorStep, Receiver

\* The types of the commands that steps append.
LEMMA PauseAppended ==
  ASSUME CommandQueue, commands' = Append(commands, [type |-> "pause"])
  PROVE  /\ Len(commands) \in Nat /\ Len(commands') = Len(commands) + 1
         /\ commands'[Len(commands) + 1].type = "pause"
         /\ \A i \in 1 .. Len(commands) : commands'[i] = commands[i] /\ i \in 1 .. Len(commands')
         /\ \A i \in 1 .. Len(commands') : i = Len(commands) + 1 \/ i \in 1 .. Len(commands)
<1>1. PICK c : c = [type |-> "pause"]
  OBVIOUS
<1>2. c \in Commands /\ c.type = "pause"
  BY <1>1 DEF Commands
<1> QED
  BY <1>1, <1>2, AppendedQueue DEF CommandQueue

LEMMA GuardsAppended ==
  ASSUME GuardsInv, AttachDone
  PROVE  /\ Len(commands) \in Nat /\ Len(commands') = Len(commands) + 1 /\ seen' = seen
         /\ commands'[Len(commands) + 1] = [type |-> "guards", gen |-> gen, guards |-> created]
         /\ \A i \in 1 .. Len(commands) : commands'[i] = commands[i] /\ i \in 1 .. Len(commands')
         /\ \A i \in 1 .. Len(commands') : i = Len(commands) + 1 \/ i \in 1 .. Len(commands)
         /\ Len(commands) + 1 \in 1 .. Len(commands')
<1>1. CommandQueue /\ TreeInv /\ TreeTypes
  BY DEF GuardsInv, QueueInv
<1>2. PICK c : c = [type |-> "guards", gen |-> gen, guards |-> created]
  OBVIOUS
<1>3. commands' = Append(commands, c) /\ seen' = seen
  BY <1>2 DEF AttachDone, monitorVars
<1>4. created \in [WorkerIds -> Nat] /\ gen \in Nat
  BY <1>1, Places DEF GuardsInv, OwnInv, Recorded, Started, None
<1>5. c \in Commands
  BY <1>2, <1>4 DEF Commands
<1> QED
  BY <1>1, <1>2, <1>3, <1>5, AppendedQueue DEF CommandQueue

LEMMA RootAppended ==
  ASSUME GuardsInv, Connect
  PROVE  /\ Len(commands) \in Nat /\ Len(commands') = Len(commands) + 1 /\ seen' = seen
         /\ commands'[Len(commands) + 1].type = "root"
         /\ commands'[Len(commands) + 1].gen = gen + 1
         /\ \A i \in 1 .. Len(commands) : commands'[i] = commands[i] /\ i \in 1 .. Len(commands')
         /\ \A i \in 1 .. Len(commands') : i = Len(commands) + 1 \/ i \in 1 .. Len(commands)
         /\ Len(commands) + 1 \in 1 .. Len(commands')
<1>1. CommandQueue /\ TreeInv /\ TreeTypes
  BY DEF GuardsInv, QueueInv
<1>2. PICK c : c = [type |-> "root", gen |-> gen + 1, pid |-> root']
  OBVIOUS
<1>3. commands' = Append(commands, c) /\ seen' = seen /\ root' = Len(proc) + 1
  BY <1>2 DEF Connect, monitorVars
<1>4. root' \in Nat /\ gen + 1 \in Nat
  BY <1>1, <1>3, Places
<1>5. c \in Commands /\ c.gen = gen + 1 /\ c.type = "root"
  BY <1>2, <1>4 DEF Commands
<1> QED
  BY <1>1, <1>3, <1>5, AppendedQueue DEF CommandQueue

LEMMA CommandTaken ==
  ASSUME GuardsInv, DrainCommand
  PROVE  /\ Head(commands) = commands[1] /\ 1 \in 1 .. Len(commands) /\ Len(commands) \in Nat
         /\ Len(commands') = Len(commands) - 1
         /\ \A i \in 1 .. Len(commands') :
              /\ commands'[i] = commands[i + 1] /\ i + 1 \in 1 .. Len(commands)
              /\ i \in Nat /\ 1 < i + 1
         /\ \A i \in 1 .. Len(commands) : i = 1 \/
              (i - 1 \in 1 .. Len(commands') /\ commands'[i - 1] = commands[i] /\ (i - 1) + 1 = i)
         /\ GoodCommand(commands[1])
<1>1. CommandQueue /\ commands # <<>> /\ commands' = Tail(commands)
  BY DEF GuardsInv, QueueInv, DrainCommand
<1>2. /\ Head(commands) = commands[1] /\ 1 \in 1 .. Len(commands) /\ Len(commands) \in Nat
      /\ Len(commands') = Len(commands) - 1
      /\ \A i \in 1 .. Len(commands') : commands'[i] = commands[i + 1] /\ i + 1 \in 1 .. Len(commands)
      /\ \A i \in 1 .. Len(commands) : i = 1 \/
           (i - 1 \in 1 .. Len(commands') /\ commands'[i - 1] = commands[i])
  BY <1>1, QueueTail DEF CommandQueue
<1>3. /\ \A i \in 1 .. Len(commands') : i \in Nat /\ 1 < i + 1
      /\ \A i \in 1 .. Len(commands) : (i - 1) + 1 = i
  BY <1>2
<1>4. GoodCommand(commands[1])
  BY <1>1, <1>2 DEF CommandQueue
<1> QED
  BY <1>2, <1>3, <1>4

LEMMA RootsStep ==
  ASSUME GuardsInv, Next
  PROVE  RootsInv'
<1>1. CommandQueue /\ RootsInv /\ TreeInv /\ TreeTypes /\ seen \in 1 .. gen
  BY DEF GuardsInv, QueueInv, PlainTypes
<1>2. ASSUME UNCHANGED <<commands, seen>> PROVE RootsInv'
  BY <1>1, <1>2 DEF RootsInv
\* A command that does not start a server is appended.
<1>3. ASSUME NEW n \in Nat, n = Len(commands), seen' = seen,
             \A i \in 1 .. n : commands'[i] = commands[i],
             \A i \in 1 .. Len(commands') : i = n + 1 \/ i \in 1 .. n,
             commands'[n + 1].type # "root"
      PROVE  RootsInv'
  <2>1. \A i \in 1 .. Len(commands') :
          commands'[i].type = "root" => i \in 1 .. Len(commands) /\ commands'[i] = commands[i]
    BY <1>3
  <2> QED
    BY <1>1, <1>3, <2>1 DEF RootsInv
<1>4. CASE OutOfService
  <2>1. CASE commands' = commands
    BY <1>2, <1>4, <2>1 DEF OutOfService
  <2>2. CASE commands' = Append(commands, [type |-> "pause"])
    BY <1>1, <1>3, <1>4, <2>2, PauseAppended DEF OutOfService
  <2> QED
    BY <1>4, <2>1, <2>2 DEF OutOfService
<1>5. CASE ReceiveTrigger
  <2>1. seen' = seen /\ (commands' = commands \/ commands' = Append(commands, [type |-> "pause"]))
    BY <1>5 DEF ReceiveTrigger, monitorVars
  <2>2. CASE commands' = commands
    BY <1>2, <2>1, <2>2
  <2>3. CASE commands' = Append(commands, [type |-> "pause"])
    BY <1>1, <1>3, <2>1, <2>3, PauseAppended
  <2> QED
    BY <2>1, <2>2, <2>3
<1>6. CASE AttachDone
  <2>1. commands'[Len(commands) + 1].type # "root"
    BY <1>6, GuardsAppended
  <2> QED
    BY <1>3, <1>6, <2>1, GuardsAppended
<1>7. CASE Connect
  <2>1. /\ Len(commands) \in Nat /\ seen' = seen
        /\ commands'[Len(commands) + 1].gen = gen + 1
        /\ \A i \in 1 .. Len(commands) : commands'[i] = commands[i]
        /\ \A i \in 1 .. Len(commands') : i = Len(commands) + 1 \/ i \in 1 .. Len(commands)
    BY <1>7, RootAppended
  <2>2. \A i \in 1 .. Len(commands) : commands[i].type = "root" => commands[i].gen \in 1 .. gen
    BY <1>1 DEF CommandQueue, GoodCommand
  <2>3. gen \in Nat /\ \A g \in 1 .. gen : g < gen + 1
    BY <1>1, Places
  <2>4. ASSUME NEW i \in 1 .. Len(commands'), commands'[i].type = "root"
        PROVE  seen' < commands'[i].gen
    BY <1>1, <2>1, <2>3, <2>4 DEF RootsInv
  <2>5. ASSUME NEW i \in 1 .. Len(commands'), NEW j \in 1 .. Len(commands'),
               commands'[i].type = "root", commands'[j].type = "root", i < j
        PROVE  commands'[i].gen < commands'[j].gen
    <3>1. i \in 1 .. Len(commands)
      BY <2>1, <2>5
    <3>2. CASE j \in 1 .. Len(commands)
      BY <1>1, <2>1, <2>5, <3>1, <3>2 DEF RootsInv
    <3>3. CASE j = Len(commands) + 1
      BY <2>1, <2>2, <2>3, <2>5, <3>1, <3>3
    <3> QED
      BY <2>1, <3>2, <3>3
  <2> QED
    BY <2>4, <2>5 DEF RootsInv
<1>8. CASE DrainCommand
  <2>1. seen' = IF Head(commands).type = "root" THEN Head(commands).gen ELSE seen
    BY <1>8 DEF DrainCommand
  <2>2. /\ Head(commands) = commands[1] /\ 1 \in 1 .. Len(commands)
        /\ \A i \in 1 .. Len(commands') :
             /\ commands'[i] = commands[i + 1] /\ i + 1 \in 1 .. Len(commands)
             /\ i \in Nat /\ 1 < i + 1
    BY <1>8, CommandTaken
  <2>3. ASSUME NEW i \in 1 .. Len(commands'), commands'[i].type = "root"
        PROVE  seen' < commands'[i].gen
    BY <1>1, <2>1, <2>2, <2>3 DEF RootsInv
  <2>4. ASSUME NEW i \in 1 .. Len(commands'), NEW j \in 1 .. Len(commands'),
               commands'[i].type = "root", commands'[j].type = "root", i < j
        PROVE  commands'[i].gen < commands'[j].gen
    <3>1. PICK a, b : a = i + 1 /\ b = j + 1
      OBVIOUS
    <3>2. a \in 1 .. Len(commands) /\ b \in 1 .. Len(commands) /\ a < b
          /\ commands'[i] = commands[a] /\ commands'[j] = commands[b]
      BY <2>2, <2>4, <3>1
    <3> QED
      BY <1>1, <2>4, <3>2 DEF RootsInv
  <2> QED
    BY <2>3, <2>4 DEF RootsInv
<1>9. ASSUME \/ UNCHANGED followVars
             \/ \E kind \in EventTypes \ {"replaced"} :
                  Report(kind) /\ UNCHANGED <<commands, rx, seen, gen, scopes, guards>>
             \/ Publish \/ AcceptReplacement \/ AttachNothing
      PROVE  UNCHANGED <<commands, seen>>
  BY <1>9 DEF followVars, Publish, AcceptReplacement, AttachNothing, queueVars, monitorVars
<1> QED
  BY <1>2, <1>4, <1>5, <1>6, <1>7, <1>8, <1>9, FollowCases


LEMMA ServiceStep ==
  ASSUME GuardsInv, Next
  PROVE  ServiceInv'
<1>1. CommandQueue /\ RootsInv /\ ServiceInv /\ TreeInv /\ TreeTypes /\ seen \in 1 .. gen
  BY DEF GuardsInv, QueueInv, PlainTypes
<1>2. ASSUME UNCHANGED <<commands, seen, gen>>, rx' \in {"poll", "attach"} => rx \in {"poll", "attach"}
      PROVE  ServiceInv'
  BY <1>1, <1>2 DEF ServiceInv, KnownSoon
<1>3. CASE OutOfService
  BY <1>3 DEF OutOfService, ServiceInv
<1>4. CASE ReceiveTrigger
  <2>1. rx = "poll" /\ UNCHANGED <<seen, gen>> /\ (rx' = "known" \/ commands' = commands)
    BY <1>4 DEF ReceiveTrigger, monitorVars, ownerVars
  <2>2. CASE rx' = "known"
    BY <2>2 DEF ServiceInv
  <2>3. CASE commands' = commands
    BY <1>2, <2>1, <2>3
  <2> QED
    BY <2>1, <2>2, <2>3
<1>5. CASE AttachDone
  <2>1. /\ UNCHANGED <<seen, gen>> /\ rx = "attach"
        /\ commands'[Len(commands) + 1].type = "guards"
        /\ \A i \in 1 .. Len(commands) : commands'[i] = commands[i] /\ i \in 1 .. Len(commands')
        /\ \A i \in 1 .. Len(commands') : i = Len(commands) + 1 \/ i \in 1 .. Len(commands)
    BY <1>5, GuardsAppended DEF AttachDone
  <2>2. seen' = gen' \/ KnownSoon'
    BY <1>1, <2>1 DEF ServiceInv, KnownSoon
  <2>3. ASSUME NEW i \in 1 .. Len(commands'), commands'[i].type = "pause"
        PROVE  \E j \in 1 .. Len(commands') :
                 j > i /\ commands'[j].type = "root" /\ commands'[j].gen = gen'
    <3>1. i \in 1 .. Len(commands) /\ commands[i].type = "pause"
      BY <2>1, <2>3
    <3>2. PICK j \in 1 .. Len(commands) :
            j > i /\ commands[j].type = "root" /\ commands[j].gen = gen
      BY <1>1, <2>1, <3>1 DEF ServiceInv
    <3> QED
      BY <2>1, <3>2
  <2> QED
    BY <2>2, <2>3 DEF ServiceInv
<1>6. CASE Connect
  <2>1. /\ gen' = gen + 1 /\ Len(commands) \in Nat
        /\ commands'[Len(commands) + 1].type = "root" /\ commands'[Len(commands) + 1].gen = gen + 1
        /\ \A i \in 1 .. Len(commands) : commands'[i] = commands[i]
        /\ \A i \in 1 .. Len(commands') : i = Len(commands) + 1 \/ i \in 1 .. Len(commands)
        /\ Len(commands) + 1 \in 1 .. Len(commands')
    BY <1>6, RootAppended DEF Connect
  <2>2. KnownSoon'
    BY <2>1 DEF KnownSoon
  <2>3. ASSUME NEW i \in 1 .. Len(commands'), commands'[i].type = "pause"
        PROVE  Len(commands) + 1 > i
    <3>1. i \in 1 .. Len(commands)
      BY <2>1, <2>3
    <3> QED
      BY <2>1, <3>1
  <2> QED
    BY <2>1, <2>2, <2>3 DEF ServiceInv
<1>7. CASE DrainCommand
  <2>1. /\ gen' = gen /\ rx' = rx
        /\ seen' = IF Head(commands).type = "root" THEN Head(commands).gen ELSE seen
    BY <1>7 DEF DrainCommand, ownerVars, killVars
  <2>2. /\ Head(commands) = commands[1] /\ 1 \in 1 .. Len(commands)
        /\ \A i \in 1 .. Len(commands') :
             /\ commands'[i] = commands[i + 1] /\ i + 1 \in 1 .. Len(commands)
             /\ i \in Nat /\ 1 < i + 1
        /\ \A i \in 1 .. Len(commands) : i = 1 \/
             (i - 1 \in 1 .. Len(commands') /\ commands'[i - 1] = commands[i] /\ (i - 1) + 1 = i)
        /\ GoodCommand(commands[1])
    BY <1>7, CommandTaken
  <2>3. SUFFICES ASSUME rx \in {"poll", "attach"} PROVE ServiceInv'
    BY <2>1 DEF ServiceInv
  <2>4. seen' = gen' \/ KnownSoon'
    <3>1. CASE seen = gen
      <4>1. commands[1].type # "root"
        <5>1. commands[1].type = "root" => commands[1].gen \in 1 .. gen /\ seen < commands[1].gen
          BY <1>1, <2>2 DEF GoodCommand, RootsInv
        <5>2. gen \in Nat /\ \A g \in 1 .. gen : ~(gen < g)
          BY <1>1, Places
        <5> QED
          BY <3>1, <5>1, <5>2
      <4> QED
        BY <2>1, <2>2, <3>1, <4>1
    <3>2. CASE KnownSoon
      <4>1. PICK i \in 1 .. Len(commands) : commands[i].type = "root" /\ commands[i].gen = gen
        BY <3>2 DEF KnownSoon
      <4>2. CASE i = 1
        BY <2>1, <2>2, <4>1, <4>2
      <4>3. CASE i # 1
        BY <2>1, <2>2, <4>1, <4>3 DEF KnownSoon
      <4> QED
        BY <4>2, <4>3
    <3> QED
      BY <1>1, <2>3, <3>1, <3>2 DEF ServiceInv
  <2>5. ASSUME NEW i \in 1 .. Len(commands'), commands'[i].type = "pause"
        PROVE  \E j \in 1 .. Len(commands') :
                 j > i /\ commands'[j].type = "root" /\ commands'[j].gen = gen'
    <3>1. PICK a : a = i + 1
      OBVIOUS
    <3>2. a \in 1 .. Len(commands) /\ commands[a].type = "pause" /\ 1 < a
      BY <2>2, <2>5, <3>1
    <3>3. PICK b \in 1 .. Len(commands) :
            b > a /\ commands[b].type = "root" /\ commands[b].gen = gen
      BY <1>1, <2>3, <3>2 DEF ServiceInv
    <3>4. PICK j : j = b - 1
      OBVIOUS
    <3>5. b # 1
      BY <2>2, <3>1, <3>3
    <3>6. j \in 1 .. Len(commands') /\ commands'[j] = commands[b] /\ j + 1 = b
      BY <2>2, <3>4, <3>5
    <3>7. j > i
      BY <2>2, <3>1, <3>3, <3>6
    <3> QED
      BY <2>1, <3>3, <3>6, <3>7
  <2> QED
    BY <2>4, <2>5 DEF ServiceInv
<1>8. ASSUME \/ UNCHANGED followVars
             \/ \E kind \in EventTypes \ {"replaced"} :
                  Report(kind) /\ UNCHANGED <<commands, rx, seen, gen, scopes, guards>>
             \/ Publish \/ AcceptReplacement \/ AttachNothing
      PROVE  UNCHANGED <<commands, seen, gen>> /\ (rx' \in {"poll", "attach"} => rx \in {"poll", "attach"})
  BY <1>8 DEF followVars, Publish, AcceptReplacement, AttachNothing, queueVars, monitorVars, ownerVars,
              killVars
<1> QED
  BY <1>2, <1>3, <1>4, <1>5, <1>6, <1>7, <1>8, FollowCases


LEMMA StillNoReplacement ==
  ASSUME EventQueue, NoReplacement, gen' = gen
  PROVE  /\ events' = events => NoReplacement'
         /\ events # <<>> /\ events' = Tail(events) => NoReplacement'
         /\ \A e \in Events : events' = Append(events, e)
              /\ (\A w \in WorkerIds : ~Replaces(e, w, gen)) => NoReplacement'
<1>1. ASSUME events # <<>>, events' = Tail(events) PROVE NoReplacement'
  <2>1. \A i \in 1 .. Len(events') : events'[i] = events[i + 1] /\ i + 1 \in 1 .. Len(events)
    BY <1>1, QueueTail DEF EventQueue
  <2> QED
    BY <2>1 DEF NoReplacement
<1>2. ASSUME NEW e \in Events, events' = Append(events, e), \A w \in WorkerIds : ~Replaces(e, w, gen)
      PROVE  NoReplacement'
  <2>1. /\ events'[Len(events) + 1] = e
        /\ \A i \in 1 .. Len(events) : events'[i] = events[i]
        /\ \A i \in 1 .. Len(events') : i = Len(events) + 1 \/ i \in 1 .. Len(events)
    BY <1>2, AppendedQueue DEF EventQueue
  <2> QED
    BY <1>2, <2>1 DEF NoReplacement
<1> QED
  BY <1>1, <1>2 DEF NoReplacement

\* An event about another server or a trigger comes or goes, the guards of this one stay.
LEMMA FollowBesideEvents ==
  ASSUME EventQueue, FollowInv, UNCHANGED <<commands, rx, seen, gen, scopes>>,
         guards' = guards \/ seen # gen,
         NoReplacement => NoReplacement',
         \A w \in WorkerIds : Chain(events, w, gen, scopes[w], guards[w])
           => Chain(events', w, gen, scopes[w], guards[w])
  PROVE  FollowInv'
<1>1. Untold' <=> Untold
  BY DEF Untold
<1>2. rx = "poll" /\ ~Untold /\ seen = gen =>
        \A w \in WorkerIds : Chain(events', w, gen', scopes'[w], guards'[w])
  BY DEF FollowInv
<1>3. /\ rx = "attach" => ~Untold
      /\ rx = "attach" \/ (rx = "poll" /\ Untold) =>
           NoReplacement' /\ (seen' = gen' => guards' = NoGuards)
      /\ rx = "poll" =>
           \A i \in 1 .. Len(commands') :
             commands'[i].type = "guards" /\ commands'[i].gen = gen' =>
               i = Len(commands') /\ commands'[i].guards = scopes'
      /\ rx = "poll" /\ ~Untold /\ seen # gen => NoReplacement' /\ scopes' = NoGuards
  BY DEF FollowInv
<1> QED
  BY <1>1, <1>2, <1>3 DEF FollowInv

LEMMA FollowReport ==
  ASSUME GuardsInv, NEW kind \in EventTypes \ {"replaced"}, Report(kind),
         UNCHANGED <<commands, rx, seen, gen, scopes, guards>>
  PROVE  FollowInv'
<1>1. EventQueue /\ FollowInv /\ TreeInv /\ TreeTypes
  BY DEF GuardsInv, QueueInv
<1>2. PICK e : e = Trigger(kind)
  OBVIOUS
<1>3. events' = Append(events, e) /\ e.type # "replaced"
  BY <1>2 DEF Report, Trigger
<1>4. e \in Events
  <2>1. seen \in Nat /\ checking \in {None} \cup WorkerIds
    <3>1. seen \in 1 .. gen
      BY DEF GuardsInv, PlainTypes
    <3> QED
      BY <3>1 DEF GuardsInv, PlainTypes
  <2> QED
    BY <1>2, <2>1 DEF Trigger, Events, None
<1>5. \A w \in WorkerIds : ~Replaces(e, w, gen)
  BY <1>3 DEF Replaces
<1>6. NoReplacement => NoReplacement'
  BY <1>1, <1>3, <1>4, <1>5, StillNoReplacement
<1>7. ASSUME NEW w \in WorkerIds, Chain(events, w, gen, scopes[w], guards[w])
      PROVE  Chain(events', w, gen, scopes[w], guards[w])
  <2>1. events \in Seq(Events) /\ ~Replaces(e, w, gen)
    BY <1>1, <1>5 DEF EventQueue
  <2> QED
    BY <1>3, <1>4, <1>7, <2>1, ChainBesideOther
<1> QED
  BY <1>1, <1>6, <1>7, FollowBesideEvents

LEMMA FollowTrigger ==
  ASSUME GuardsInv, ReceiveTrigger
  PROVE  FollowInv'
<1>1. EventQueue /\ FollowInv
  BY DEF GuardsInv, QueueInv
<1>2. CASE rx' = "known"
  BY <1>2 DEF FollowInv
<1>3. CASE rx' # "known"
  <2>1. /\ UNCHANGED <<commands, rx, seen, gen, scopes, guards>>
        /\ events # <<>> /\ events' = Tail(events) /\ Head(events).type # "replaced"
    BY <1>3 DEF ReceiveTrigger, monitorVars, ownerVars
  <2>2. NoReplacement => NoReplacement'
    BY <1>1, <2>1, StillNoReplacement
  <2>3. ASSUME NEW w \in WorkerIds, Chain(events, w, gen, scopes[w], guards[w])
        PROVE  Chain(events', w, gen, scopes[w], guards[w])
    <3>1. events \in Seq(Events) /\ ~Replaces(events[1], w, gen)
      BY <1>1, <2>1, QueueTail DEF EventQueue, Replaces
    <3> QED
      BY <2>1, <2>3, <3>1, ChainTail
  <2> QED
    BY <1>1, <2>1, <2>2, <2>3, FollowBesideEvents
<1> QED
  BY <1>2, <1>3

LEMMA FollowPublish ==
  ASSUME GuardsInv, Publish
  PROVE  FollowInv'
<1>1. /\ EventQueue /\ FollowInv /\ TreeInv /\ TreeTypes /\ RoundInv
      /\ checking \in WorkerIds /\ guards[checking] # None
      /\ guards \in [WorkerIds -> Started] /\ guards # NoGuards
      /\ adopting \in 1 .. Len(proc) /\ seen \in 1 .. gen
      /\ UNCHANGED <<commands, rx, seen, gen, scopes>>
  <2>1. RoundInv /\ place = "publish"
    BY DEF GuardsInv, Publish
  <2>2. /\ checking \in WorkerIds /\ guards[checking] # None
        /\ guards \in [WorkerIds -> Started] /\ adopting \in 1 .. Len(proc)
    BY <2>1, Numbers DEF RoundInv
  <2>3. guards # NoGuards
    BY <2>2 DEF NoGuards
  <2> QED
    BY <2>1, <2>2, <2>3 DEF GuardsInv, QueueInv, PlainTypes, Publish, ownerVars, killVars
<1>2. CASE adopting \notin alive
  <2>1. guards' = guards /\ events' = events
    BY <1>2 DEF Publish
  <2>2. NoReplacement => NoReplacement'
    BY <1>1, <2>1, StillNoReplacement
  <2> QED
    BY <1>1, <2>1, <2>2, FollowBesideEvents
<1>3. CASE adopting \in alive
  <2>1. PICK e : e = [type |-> "replaced", gen |-> seen, worker |-> checking,
                      old |-> guards[checking], new |-> adopting]
    OBVIOUS
  <2>2. events' = Append(events, e) /\ guards' = [guards EXCEPT ![checking] = adopting]
    BY <1>3, <2>1 DEF Publish, Announced
  <2>3. e \in Events /\ events \in Seq(Events)
    <3>1. Started \subseteq Nat /\ 1 .. Len(proc) \subseteq Nat /\ 1 .. gen \subseteq Nat
      BY <1>1, Places DEF Started, None
    <3>2. "replaced" \in EventTypes
      BY DEF EventTypes
    <3> QED
      BY <1>1, <2>1, <3>1, <3>2 DEF Events, EventQueue
  <2>4. CASE seen # gen
    <3>1. \A w \in WorkerIds : ~Replaces(e, w, gen)
      BY <2>1, <2>4 DEF Replaces
    <3>2. NoReplacement => NoReplacement'
      BY <1>1, <2>2, <2>3, <3>1, StillNoReplacement
    <3>3. ASSUME NEW w \in WorkerIds, Chain(events, w, gen, scopes[w], guards[w])
          PROVE  Chain(events', w, gen, scopes[w], guards[w])
      BY <2>2, <2>3, <3>1, <3>3, ChainBesideOther
    <3> QED
      BY <1>1, <2>4, <3>2, <3>3, FollowBesideEvents
  \* The owner already knows guards of this server.
  <2>5. CASE seen = gen
    <3>1. rx # "attach" /\ ~(rx = "poll" /\ Untold)
      BY <1>1, <2>5 DEF FollowInv
    <3>2. ASSUME rx = "poll", NEW w \in WorkerIds
          PROVE  Chain(events', w, gen', scopes'[w], guards'[w])
      <4>1. Chain(events, w, gen, scopes[w], guards[w])
        BY <1>1, <2>5, <3>1, <3>2 DEF FollowInv
      <4>2. CASE w = checking
        <5>1. Replaces(e, w, gen) /\ e.old = guards[w] /\ e.new = adopting /\ guards'[w] = adopting
          BY <1>1, <2>1, <2>2, <2>5, <4>2 DEF Replaces
        <5>2. Chain(events', w, gen, scopes[w], e.new)
          BY <2>2, <2>3, <4>1, <5>1, ChainGrows
        <5> QED
          BY <1>1, <5>1, <5>2
      <4>3. CASE w # checking
        <5>1. ~Replaces(e, w, gen) /\ guards'[w] = guards[w]
          BY <1>1, <2>1, <2>2, <4>3 DEF Replaces
        <5>2. Chain(events', w, gen, scopes[w], guards[w])
          BY <2>2, <2>3, <4>1, <5>1, ChainBesideOther
        <5> QED
          BY <1>1, <5>1, <5>2
      <4> QED
        BY <4>2, <4>3
    <3>3. Untold' <=> Untold
      BY <1>1 DEF Untold
    <3>4. rx = "poll" =>
            \A i \in 1 .. Len(commands) : commands[i].type = "guards" /\ commands[i].gen = gen =>
              i = Len(commands) /\ commands[i].guards = scopes
      BY <1>1 DEF FollowInv
    <3> QED
      BY <1>1, <2>5, <3>1, <3>2, <3>3, <3>4 DEF FollowInv
  <2> QED
    BY <2>4, <2>5
<1> QED
  BY <1>2, <1>3

LEMMA FollowAccept ==
  ASSUME GuardsInv, AcceptReplacement
  PROVE  FollowInv'
<1>1. PICK e : e = Head(events)
  OBVIOUS
<1>2. /\ EventQueue /\ FollowInv /\ Recorded(scopes) /\ rx = "poll" /\ events # <<>>
      /\ e = events[1] /\ 1 \in 1 .. Len(events) /\ e.type = "replaced" /\ e.worker \in WorkerIds
      /\ events' = Tail(events) /\ Accept(e) /\ events \in Seq(Events)
      /\ UNCHANGED <<commands, rx, seen, gen, guards>>
  <2>1. EventQueue /\ events # <<>> /\ e.type = "replaced"
    BY <1>1 DEF GuardsInv, QueueInv, AcceptReplacement
  <2>2. e = events[1] /\ 1 \in 1 .. Len(events)
    BY <1>1, <2>1, QueueTail DEF EventQueue
  <2>3. e.worker \in WorkerIds
    BY <2>1, <2>2 DEF EventQueue, GoodEvent
  <2> QED
    BY <1>1, <2>1, <2>2, <2>3 DEF GuardsInv, OwnInv, EventQueue, AcceptReplacement, killVars, monitorVars
<1>3. CASE e.gen # gen
  <2>1. scopes' = scopes
    BY <1>2, <1>3 DEF Accept, Accepts
  <2>2. NoReplacement => NoReplacement'
    BY <1>2, StillNoReplacement
  <2>3. ASSUME NEW w \in WorkerIds, Chain(events, w, gen, scopes[w], guards[w])
        PROVE  Chain(events', w, gen, scopes[w], guards[w])
    <3>1. ~Replaces(events[1], w, gen)
      BY <1>2, <1>3 DEF Replaces
    <3> QED
      BY <1>2, <2>3, <3>1, ChainTail
  <2> QED
    BY <1>2, <2>1, <2>2, <2>3, FollowBesideEvents
\* The owner and the monitor agree on this server, and the owner still has the old one.
<1>4. CASE e.gen = gen
  <2>1. Replaces(events[1], e.worker, gen)
    BY <1>2, <1>4 DEF Replaces
  <2>2. ~NoReplacement
    BY <1>2, <2>1 DEF NoReplacement
  <2>3. ~Untold /\ seen = gen
    BY <1>2, <2>2 DEF FollowInv
  <2>4. \A w \in WorkerIds : Chain(events, w, gen, scopes[w], guards[w])
    BY <1>2, <2>3 DEF FollowInv
  <2>5. e.old = scopes[e.worker] /\ Chain(events', e.worker, gen, e.new, guards[e.worker])
    BY <1>2, <2>1, <2>4, ChainTail
  <2>6. scopes' = [scopes EXCEPT ![e.worker] = e.new]
    BY <1>2, <1>4, <2>5 DEF Accept, Accepts, HandedOver
  <2>7. ASSUME NEW w \in WorkerIds PROVE Chain(events', w, gen', scopes'[w], guards'[w])
    <3>1. CASE w = e.worker
      <4>1. scopes'[w] = e.new
        BY <1>2, <2>6, <3>1 DEF Recorded
      <4> QED
        BY <1>2, <2>5, <3>1, <4>1
    <3>2. CASE w # e.worker
      <4>1. scopes'[w] = scopes[w] /\ ~Replaces(events[1], w, gen)
        BY <1>2, <2>6, <3>2 DEF Recorded, Replaces
      <4>2. Chain(events, w, gen, scopes[w], guards[w])
        BY <2>4
      <4>3. Chain(events', w, gen, scopes[w], guards[w])
        BY <1>2, <4>1, <4>2, ChainTail
      <4> QED
        BY <1>2, <4>1, <4>3
    <3> QED
      BY <3>1, <3>2
  <2>8. ~Untold'
    BY <1>2, <2>3 DEF Untold
  <2>9. \A i \in 1 .. Len(commands') : ~(commands'[i].type = "guards" /\ commands'[i].gen = gen')
    BY <2>8 DEF Untold
  <2> QED
    BY <1>2, <2>3, <2>7, <2>8, <2>9 DEF FollowInv
<1> QED
  BY <1>3, <1>4


LEMMA FollowConnect ==
  ASSUME GuardsInv, Connect
  PROVE  FollowInv'
<1>1. /\ TreeInv /\ TreeTypes /\ CommandQueue /\ EventQueue /\ seen \in 1 .. gen
      /\ rx' = "attach" /\ gen' = gen + 1 /\ seen' = seen /\ events' = events
  BY DEF GuardsInv, QueueInv, PlainTypes, Connect, monitorVars
<1>2. gen + 1 \notin 1 .. gen
  BY <1>1, Places
<1>3. /\ commands'[Len(commands) + 1].type = "root"
      /\ \A i \in 1 .. Len(commands) : commands'[i] = commands[i]
      /\ \A i \in 1 .. Len(commands') : i = Len(commands) + 1 \/ i \in 1 .. Len(commands)
  BY RootAppended
<1>4. \A i \in 1 .. Len(commands) : commands[i].type = "guards" => commands[i].gen # gen + 1
  <2>1. \A i \in 1 .. Len(commands) : commands[i].type = "guards" => commands[i].gen \in 1 .. gen
    BY <1>1 DEF CommandQueue, GoodCommand
  <2> QED
    BY <1>2, <2>1
<1>5. ~Untold'
  <2>1. \A i \in 1 .. Len(commands') : commands'[i].type = "guards" => commands'[i].gen # gen + 1
    BY <1>3, <1>4
  <2> QED
    BY <1>1, <2>1 DEF Untold
<1>6. NoReplacement'
  <2>1. \A i \in 1 .. Len(events) : events[i].gen \in 1 .. gen
    BY <1>1 DEF EventQueue, GoodEvent
  <2>2. \A i \in 1 .. Len(events) : events[i].gen # gen + 1
    BY <1>2, <2>1
  <2> QED
    BY <1>1, <2>2 DEF NoReplacement, Replaces
<1>7. seen' # gen'
  BY <1>1, <1>2
<1> QED
  BY <1>1, <1>5, <1>6, <1>7 DEF FollowInv

LEMMA FollowAttachDone ==
  ASSUME GuardsInv, AttachDone
  PROVE  FollowInv'
<1>1. /\ EventQueue /\ FollowInv /\ rx = "attach" /\ rx' = "poll" /\ scopes' = created
      /\ UNCHANGED <<seen, gen, guards, events>>
  BY DEF GuardsInv, QueueInv, AttachDone, monitorVars
<1>2. /\ Len(commands) \in Nat /\ Len(commands') = Len(commands) + 1
      /\ commands'[Len(commands) + 1] = [type |-> "guards", gen |-> gen, guards |-> created]
      /\ \A i \in 1 .. Len(commands) : commands'[i] = commands[i]
      /\ \A i \in 1 .. Len(commands') : i = Len(commands) + 1 \/ i \in 1 .. Len(commands)
      /\ Len(commands) + 1 \in 1 .. Len(commands')
  BY GuardsAppended
<1>3. Untold'
  BY <1>1, <1>2 DEF Untold
<1>4. NoReplacement' /\ (seen' = gen' => guards' = NoGuards)
  <2>1. NoReplacement /\ (seen = gen => guards = NoGuards)
    BY <1>1 DEF FollowInv
  <2> QED
    BY <1>1, <2>1, StillNoReplacement
<1>5. ASSUME NEW i \in 1 .. Len(commands'), commands'[i].type = "guards", commands'[i].gen = gen'
      PROVE  i = Len(commands') /\ commands'[i].guards = scopes'
  <2>1. i \notin 1 .. Len(commands)
    BY <1>1, <1>2, <1>5 DEF FollowInv, Untold
  <2>2. i = Len(commands) + 1
    BY <1>2, <2>1
  <2> QED
    BY <1>1, <1>2, <2>2
<1> QED
  BY <1>1, <1>3, <1>4, <1>5 DEF FollowInv

LEMMA FollowAttachNothing ==
  ASSUME GuardsInv, AttachNothing
  PROVE  FollowInv'
<1>1. /\ EventQueue /\ FollowInv /\ rx = "attach" /\ rx' = "poll" /\ scopes = NoGuards
      /\ UNCHANGED <<seen, gen, guards, events, commands, scopes>>
  BY DEF GuardsInv, QueueInv, OwnInv, AttachNothing, monitorVars, queueVars
<1>2. ~Untold /\ NoReplacement /\ (seen = gen => guards = NoGuards)
  BY <1>1 DEF FollowInv
<1>3. ~Untold' /\ NoReplacement'
  BY <1>1, <1>2, StillNoReplacement DEF Untold
<1>4. ASSUME seen = gen, NEW w \in WorkerIds PROVE Chain(events', w, gen', scopes'[w], guards'[w])
  <2>1. \A i \in 1 .. Len(events) : ~Replaces(events[i], w, gen)
    BY <1>2 DEF NoReplacement
  <2>2. scopes[w] = guards[w]
    BY <1>1, <1>2, <1>4
  <2>3. Chain(events, w, gen, scopes[w], guards[w])
    BY <2>1, <2>2, ChainOfNone
  <2> QED
    BY <1>1, <2>3
<1>5. \A i \in 1 .. Len(commands') : ~(commands'[i].type = "guards" /\ commands'[i].gen = gen')
  BY <1>3 DEF Untold
<1> QED
  BY <1>1, <1>2, <1>3, <1>4, <1>5 DEF FollowInv

LEMMA FollowDrain ==
  ASSUME GuardsInv, DrainCommand
  PROVE  FollowInv'
<1> DEFINE c == commands[1]
<1>1. /\ EventQueue /\ RootsInv /\ ServiceInv /\ FollowInv /\ TreeInv /\ TreeTypes
      /\ UNCHANGED <<rx, gen, scopes, events>>
  BY DEF GuardsInv, QueueInv, DrainCommand, ownerVars, killVars
<1>2. /\ Head(commands) = c /\ 1 \in 1 .. Len(commands) /\ Len(commands) \in Nat
      /\ Len(commands') = Len(commands) - 1
      /\ \A i \in 1 .. Len(commands') :
           /\ commands'[i] = commands[i + 1] /\ i + 1 \in 1 .. Len(commands)
           /\ i \in Nat /\ 1 < i + 1
      /\ \A i \in 1 .. Len(commands) : i = 1 \/
           (i - 1 \in 1 .. Len(commands') /\ commands'[i - 1] = commands[i] /\ (i - 1) + 1 = i)
      /\ GoodCommand(c)
  BY CommandTaken
<1>3. /\ seen' = IF c.type = "root" THEN c.gen ELSE seen
      /\ c.type \in {"root", "pause"} => guards' = NoGuards
      /\ c.type = "guards" => guards' = IF c.gen = seen THEN c.guards ELSE guards
      /\ c.type \in {"pause", "root", "guards"}
  <2>1. c.type \in {"pause", "root", "guards"}
    BY <1>2 DEF GoodCommand
  <2> QED
    BY <1>2, <2>1 DEF DrainCommand
<1>4. c.type = "root" => c.gen \in 1 .. gen /\ seen < c.gen
  BY <1>1, <1>2 DEF GoodCommand, RootsInv
<1>5. gen \in Nat /\ \A g \in 1 .. gen : ~(gen < g)
  BY <1>1, Places
<1> HIDE DEF c
<1>6. Untold' => Untold
  <2>1. ASSUME NEW i \in 1 .. Len(commands'), commands'[i].type = "guards", commands'[i].gen = gen'
        PROVE  Untold
    BY <1>1, <1>2, <2>1 DEF Untold
  <2> QED
    BY <2>1 DEF Untold
<1>7. Untold => Untold' \/ (c.type = "guards" /\ c.gen = gen)
  <2>1. ASSUME NEW i \in 1 .. Len(commands), commands[i].type = "guards", commands[i].gen = gen,
               i # 1
        PROVE  Untold'
    BY <1>1, <1>2, <2>1 DEF Untold
  <2> QED
    BY <2>1 DEF Untold, c
<1>8. NoReplacement => NoReplacement'
  BY <1>1, StillNoReplacement
<1>9. ASSUME rx = "poll", NEW i \in 1 .. Len(commands'), commands'[i].type = "guards",
             commands'[i].gen = gen
      PROVE  i = Len(commands') /\ commands'[i].guards = scopes
  <2>1. PICK a : a = i + 1
    OBVIOUS
  <2>2. a \in 1 .. Len(commands) /\ commands[a] = commands'[i]
    BY <1>2, <2>1
  <2>3. a = Len(commands) /\ commands[a].guards = scopes
    BY <1>1, <1>9, <2>2 DEF FollowInv
  <2> QED
    BY <1>2, <2>1, <2>2, <2>3
\* The guards of this server come last, after the start of it.
<1>10. ASSUME c.type = "guards", c.gen = gen, rx = "poll"
       PROVE  /\ ~Untold' /\ seen = gen /\ guards' = scopes /\ NoReplacement
  <2>1. Len(commands) = 1 /\ c.guards = scopes
    BY <1>1, <1>2, <1>10 DEF FollowInv, c
  <2>2. ~Untold'
    <3>1. \A i \in 1 .. Len(commands') : FALSE
      BY <1>2, <2>1
    <3> QED
      BY <3>1 DEF Untold
  <2>3. seen = gen
    <3>1. \A i \in 1 .. Len(commands) : i = 1
      BY <2>1
    <3>2. ~KnownSoon
      BY <1>10, <3>1 DEF KnownSoon, c
    <3> QED
      BY <1>1, <1>10, <3>2 DEF ServiceInv
  <2>4. Untold
    BY <1>2, <1>10 DEF Untold, c
  <2> QED
    BY <1>1, <1>3, <1>10, <2>1, <2>2, <2>3, <2>4 DEF FollowInv
\* A pause is followed by the start of this server.
<1>11. ASSUME c.type = "pause", rx \in {"poll", "attach"} PROVE seen # gen
  <2>1. PICK j \in 1 .. Len(commands) : commands[j].type = "root" /\ commands[j].gen = gen
    BY <1>1, <1>2, <1>11 DEF ServiceInv, c
  <2>2. seen < gen
    BY <1>1, <2>1 DEF RootsInv
  <2> QED
    BY <1>5, <2>2
<1>12. ASSUME rx \in {"poll", "attach"}, seen' = gen, seen # gen
       PROVE  c.type = "root" /\ guards' = NoGuards
  BY <1>3, <1>12
<1>13. ASSUME seen = gen PROVE c.type # "root" /\ seen' = gen
  BY <1>3, <1>4, <1>5, <1>13
\* The guards of this server, while they are still to be told.
<1>14. ASSUME rx \in {"poll", "attach"}, seen' = gen, guards = NoGuards \/ seen # gen,
              ~(c.type = "guards" /\ c.gen = gen)
       PROVE  guards' = NoGuards
  <2>1. CASE seen # gen
    BY <1>12, <1>14, <2>1
  <2>2. CASE seen = gen
    BY <1>3, <1>13, <1>14, <2>2
  <2> QED
    BY <2>1, <2>2
<1>15. ASSUME rx = "attach" PROVE FollowInv'
  <2>1. ~Untold /\ NoReplacement /\ (seen = gen => guards = NoGuards)
    BY <1>1, <1>15 DEF FollowInv
  <2>2. ~(c.type = "guards" /\ c.gen = gen)
    BY <1>2, <2>1 DEF Untold, c
  <2>3. seen' = gen => guards' = NoGuards
    BY <1>14, <1>15, <2>1, <2>2
  <2> QED
    BY <1>1, <1>6, <1>8, <1>15, <2>1, <2>3 DEF FollowInv
<1>16. ASSUME rx = "poll" PROVE FollowInv'
  <2>1. Untold' => NoReplacement' /\ (seen' = gen => guards' = NoGuards)
    <3>1. ASSUME Untold' PROVE NoReplacement' /\ (seen' = gen => guards' = NoGuards)
      <4>1. Untold /\ NoReplacement /\ (seen = gen => guards = NoGuards)
        BY <1>1, <1>6, <1>16, <3>1 DEF FollowInv
      <4>2. ~(c.type = "guards" /\ c.gen = gen)
        BY <1>10, <1>16, <3>1
      <4> QED
        BY <1>8, <1>14, <1>16, <4>1, <4>2
    <3> QED
      BY <3>1
  <2>2. ~Untold' /\ seen' # gen => NoReplacement' /\ scopes = NoGuards
    <3>1. ASSUME ~Untold', seen' # gen PROVE NoReplacement /\ scopes = NoGuards
      <4>1. seen # gen
        BY <1>13, <3>1
      <4>2. ~Untold
        BY <1>7, <1>10, <1>16, <3>1, <4>1
      <4> QED
        BY <1>1, <1>16, <4>1, <4>2 DEF FollowInv
    <3> QED
      BY <1>8, <3>1
  <2>3. ASSUME ~Untold', seen' = gen, NEW w \in WorkerIds
        PROVE  Chain(events, w, gen, scopes[w], guards'[w])
    <3>1. ASSUME NoReplacement, guards' = scopes PROVE Chain(events, w, gen, scopes[w], guards'[w])
      <4>1. \A i \in 1 .. Len(events) : ~Replaces(events[i], w, gen)
        BY <3>1 DEF NoReplacement
      <4>2. scopes[w] = guards'[w]
        BY <3>1
      <4> QED
        BY <4>1, <4>2, ChainOfNone
    <3>2. CASE c.type = "guards" /\ c.gen = gen
      BY <1>10, <1>16, <3>1, <3>2
    <3>3. CASE ~(c.type = "guards" /\ c.gen = gen) /\ seen # gen
      <4>1. ~Untold
        BY <1>7, <2>3, <3>3
      <4>2. NoReplacement /\ scopes = NoGuards
        BY <1>1, <1>16, <3>3, <4>1 DEF FollowInv
      <4>3. guards' = NoGuards
        BY <1>12, <1>16, <2>3, <3>3
      <4> QED
        BY <3>1, <4>2, <4>3
    <3>4. CASE ~(c.type = "guards" /\ c.gen = gen) /\ seen = gen
      <4>1. ~Untold
        BY <1>7, <2>3, <3>4
      <4>2. guards' = guards
        BY <1>3, <1>11, <1>13, <1>16, <3>4
      <4> QED
        BY <1>1, <1>16, <3>4, <4>1, <4>2 DEF FollowInv
    <3> QED
      BY <3>2, <3>3, <3>4
  <2> QED
    BY <1>1, <1>9, <1>16, <2>1, <2>2, <2>3 DEF FollowInv
<1>17. CASE rx \notin {"poll", "attach"}
  BY <1>1, <1>17 DEF FollowInv
<1> QED
  BY <1>15, <1>16, <1>17

LEMMA FollowStep ==
  ASSUME GuardsInv, Next
  PROVE  FollowInv'
<1>1. ASSUME UNCHANGED followVars PROVE FollowInv'
  <2>1. EventQueue /\ FollowInv /\ UNCHANGED <<commands, rx, seen, gen, events, scopes, guards>>
    BY <1>1 DEF GuardsInv, QueueInv, followVars
  <2>2. NoReplacement => NoReplacement'
    BY <2>1, StillNoReplacement
  <2> QED
    BY <2>1, <2>2, FollowBesideEvents
<1>2. CASE OutOfService
  BY <1>2 DEF OutOfService, FollowInv
<1> QED
  BY <1>1, <1>2, FollowCases, FollowReport, FollowTrigger, FollowPublish, FollowAccept, FollowConnect,
     FollowAttachDone, FollowAttachNothing, FollowDrain


-----------------------------------------------------------------------------
(* What a rebuild, or exit(), leaves alive                                 *)

\* A walk finds the whole server, if the root and its child live; otherwise nothing.
LEMMA WalkFinds ==
  ASSUME TreeInv, TreeTypes
  PROVE  /\ root \in alive /\ root + 1 \in alive => Mine \subseteq Descendants(root)
         /\ root + 1 \in alive /\ root \in alive => root + 1 \in Descendants(root)
         /\ ~(root \in alive /\ root + 1 \in alive) => Descendants(root) = {}
         /\ Descendants(root) \subseteq 1 .. Len(proc)
         /\ \A p \in Mine : p = root + 1 \/ proc[p].kind = "worker"
         /\ root + 1 \in alive /\ root \notin alive => root + 1 \in Orphans
<1>1. /\ root \in 1 .. Len(proc) /\ root + 1 \in 1 .. Len(proc) /\ alive \subseteq 1 .. Len(proc)
      /\ root \in Nat /\ root # root + 1 /\ root # None /\ Len(proc) \in Nat
      /\ proc[root].kind = "root" /\ proc[root].home = gen
      /\ proc[root + 1].kind = "server" /\ proc[root + 1].home = gen
      /\ root \in alive => proc[root + 1].parent = root
  <2>1. root \in Nat \ {0}
    BY Places DEF TreeInv
  <2> QED
    BY <2>1, Places DEF TreeInv, None
<1>2. ASSUME NEW p \in alive
      PROVE  /\ proc[p].home = gen /\ proc[p].kind = "root" => p = root
             /\ proc[p].home = gen /\ proc[p].kind = "server" => p = root + 1
             /\ proc[p].home = gen /\ proc[p].kind = "worker" /\ root + 1 \in alive
                  => proc[p].parent = root + 1
             /\ proc[p].parent # None =>
                  /\ proc[p].parent \in alive /\ proc[proc[p].parent].home = proc[p].home
                  /\ proc[p].kind = "server" => proc[proc[p].parent].kind = "root"
                  /\ proc[p].kind = "worker" => proc[proc[p].parent].kind = "server"
                  /\ proc[p].kind # "root"
             /\ proc[p].kind \in {"root", "server", "worker"}
  <2>1. p \in 1 .. Len(proc)
    BY <1>1
  <2>2. proc[p].kind \in {"root", "server", "worker"}
    <3>1. proc[p] \in Processes
      BY <2>1 DEF TreeInv
    <3> QED
      BY <3>1 DEF Processes
  <2> QED
    BY <2>1, <2>2 DEF TreeInv
<1>3. ASSUME NEW p \in Mine PROVE p = root + 1 \/ proc[p].kind = "worker"
  BY <1>2 DEF Mine
<1>4. ASSUME root \in alive, root + 1 \in alive
      PROVE  root + 1 \in Descendants(root) /\ Mine \subseteq Descendants(root)
  <2>1. root + 1 \in Kids({root})
    BY <1>1, <1>4 DEF Kids
  <2>2. ASSUME NEW p \in Mine, proc[p].kind = "worker" PROVE p \in Kids(Kids({root}))
    BY <1>2, <1>4, <2>1, <2>2 DEF Kids, Mine
  <2> QED
    BY <1>3, <2>1, <2>2 DEF Descendants
\* A child of the root is its server.
<1>5. ASSUME NEW p \in Kids({root}) PROVE root \in alive /\ p = root + 1 /\ p \in alive
  <2>1. p \in alive /\ proc[p].parent = root
    BY DEF Kids
  <2> QED
    BY <1>1, <1>2, <2>1
<1>6. ASSUME ~(root \in alive /\ root + 1 \in alive) PROVE Descendants(root) = {}
  <2>1. Kids({root}) = {}
    BY <1>5, <1>6
  <2> QED
    BY <2>1 DEF Descendants, Kids
<1>7. Descendants(root) \subseteq 1 .. Len(proc)
  BY <1>1 DEF Descendants, Kids
<1>8. ASSUME root + 1 \in alive, root \notin alive PROVE root + 1 \in Orphans
  <2>1. proc[root + 1].parent = None
    BY <1>1, <1>2, <1>8
  <2> QED
    BY <1>1, <1>8, <2>1 DEF Orphans
<1> QED
  BY <1>3, <1>4, <1>6, <1>7, <1>8

\* Nothing is being killed.
LEMMA SurviveIdle ==
  ASSUME rx' \notin {"walk", "kill", "scopes", "connect"}, exit' \notin {"kill", "done"},
         known' = {}, held' = {}, toKill' \subseteq 1 .. Len(proc'),
         lost' \subseteq 1 .. Len(proc'), forked' \subseteq 1 .. Len(proc')
  PROVE  SurviveInv'
BY DEF SurviveInv, ListsInv, WalkInv, KillInv, DeadInv, NothingSurvives

\* Processes die or are started, the kill goes on.
LEMMA SurviveBeside ==
  ASSUME SurviveInv, TreeInv, TreeTypes, TreeTypes', Forward,
         UNCHANGED <<root, gen, rx, exit, known, toKill, lost, held, scopes>>,
         forked \subseteq forked', forked' \subseteq 1 .. Len(proc'),
         \A p \in alive' : p \in alive \/ p \in forked',
         root + 1 \in forked' => root + 1 \in forked
  PROVE  SurviveInv'
<1>1. /\ 1 .. Len(proc) \subseteq 1 .. Len(proc') /\ limited' = limited
      /\ alive \subseteq 1 .. Len(proc) /\ root \in 1 .. Len(proc) /\ root + 1 \in 1 .. Len(proc)
      /\ \A p \in 1 .. Len(proc) :
           (p \in alive' => p \in alive) /\ proc'[p].kind = proc[p].kind /\ proc'[p].home = proc[p].home
  <2>1. 1 .. Len(proc) \subseteq 1 .. Len(proc')
    BY DEF Forward
  <2>2. root \in 1 .. Len(proc) /\ root + 1 \in 1 .. Len(proc)
    BY DEF TreeInv
  <2> QED
    BY <2>1, <2>2, Places DEF Forward
<1>2. ASSUME NEW p \in alive', p \notin forked'
      PROVE  p \in alive /\ p \in 1 .. Len(proc) /\ proc'[p].kind = proc[p].kind
             /\ proc'[p].home = proc[p].home /\ p \notin forked
  BY <1>1, <1>2
<1>3. ASSUME NEW p \in alive', Excused(p) \/ p \in forked' PROVE Excused(p)'
  BY <1>2, <1>3 DEF Excused
<1>4. ListsInv'
  BY <1>1 DEF SurviveInv, ListsInv
<1>5. WalkInv'
  <2>1. SUFFICES ASSUME rx = "walk"
                 PROVE  /\ \A p \in Mine' : p \in known' \/ p \in lost' \/ p \in forked'
                        /\ root' + 1 \notin forked'
                        /\ root' + 1 \in lost' /\ root' + 1 \in alive'
                             => root' \notin alive' /\ known' = {}
    BY DEF WalkInv
  <2>2. /\ \A p \in Mine : p \in known \/ p \in lost \/ p \in forked
        /\ root + 1 \notin forked
        /\ root + 1 \in lost /\ root + 1 \in alive => root \notin alive /\ known = {}
    BY <2>1 DEF SurviveInv, WalkInv
  <2>3. ASSUME NEW p \in Mine', p \notin forked' PROVE p \in Mine
    BY <1>2, <2>3 DEF Mine
  <2> QED
    BY <1>1, <2>2, <2>3
<1>6. KillInv'
  <2>1. ASSUME rx = "kill" \/ exit = "kill", NEW p \in Mine' PROVE p \in toKill' \/ Excused(p)'
    <3>1. p \in alive'
      BY DEF Mine
    <3>2. CASE p \in forked'
      BY <1>3, <3>1, <3>2
    <3>3. CASE p \notin forked'
      <4>1. p \in Mine
        BY <1>2, <3>1, <3>3 DEF Mine
      <4>2. p \in toKill \/ Excused(p)
        BY <2>1, <4>1 DEF SurviveInv, KillInv
      <4> QED
        BY <1>3, <3>1, <4>2
    <3> QED
      BY <3>2, <3>3
  <2> QED
    BY <2>1 DEF KillInv
<1>7. DeadInv'
  <2>1. ASSUME rx = "scopes", NEW p \in alive', proc'[p].home = gen' PROVE Excused(p)'
    <3>1. CASE p \in forked'
      BY <1>3, <3>1
    <3>2. CASE p \notin forked'
      <4>1. Excused(p)
        BY <1>2, <2>1, <3>2 DEF SurviveInv, DeadInv
      <4> QED
        BY <1>3, <4>1
    <3> QED
      BY <3>1, <3>2
  <2> QED
    BY <2>1 DEF DeadInv
<1>8. NothingSurvives'
  <2>1. ASSUME rx = "connect" \/ exit = "done", NEW p \in alive', proc'[p].home = gen',
               p \notin forked'
        PROVE  p \in lost /\ proc'[p].kind = "worker" /\ (limited => p \notin held)
    BY <1>2, <2>1 DEF SurviveInv, NothingSurvives
  <2> QED
    BY <1>1, <2>1 DEF NothingSurvives
<1> QED
  BY <1>4, <1>5, <1>6, <1>7, <1>8 DEF SurviveInv


LEMMA SurviveWalks ==
  ASSUME GuardsInv, TreeInv', TreeTypes', Forward, KnownWalk \/ KillWalk \/ ExitWalk
  PROVE  SurviveInv'
<1>1. TreeInv /\ TreeTypes /\ SurviveInv /\ ListsInv /\ WalkInv
  BY DEF GuardsInv, SurviveInv
<1>2. /\ UNCHANGED <<proc, alive, root, gen, scopes>>
      /\ root + 1 # root /\ Lost = Mine \ Descendants(root)
  <2>1. UNCHANGED <<proc, alive, root, gen, scopes>>
    BY DEF KnownWalk, KillWalk, ExitWalk, treeVars, ownerVars
  <2>2. root + 1 # root
    BY <1>1, Places DEF TreeInv
  <2> QED
    BY <2>1, <2>2 DEF Lost, Mine
<1>3. Mine' = Mine /\ \A p \in Mine : p \in alive
  BY <1>2 DEF Mine
<1>4. Mine \subseteq 1 .. Len(proc) /\ Orphans \subseteq 1 .. Len(proc) /\ Descendants(root) \subseteq 1 .. Len(proc)
  BY <1>1, WalkFinds, Places DEF Mine, Orphans
<1>5. rx = "ended" <=> exit # "no"
  BY DEF GuardsInv, OwnInv
<1>6. Doomed \subseteq 1 .. Len(proc)
  BY <1>1, <1>4 DEF Doomed, ListsInv
<1>7. CASE KnownWalk
  <2>1. /\ rx' = "walk" /\ known' = Descendants(root) /\ forked' = {} /\ lost' = Lost
        /\ held' = {scopes[w] : w \in WorkerIds} /\ toKill' = toKill /\ exit' = exit /\ exit = "no"
    BY <1>5, <1>7 DEF KnownWalk
  <2>2. WalkInv'
    <3>1. \A p \in Mine' : p \in known' \/ p \in lost' \/ p \in forked'
      BY <1>2, <1>3, <2>1
    <3>2. root + 1 \in Lost /\ root + 1 \in alive => root \notin alive /\ Descendants(root) = {}
      BY <1>1, <1>2, WalkFinds
    <3> QED
      BY <1>2, <2>1, <3>1, <3>2 DEF WalkInv
  <2>3. ListsInv'
    <3>1. Lost \subseteq 1 .. Len(proc) /\ toKill \subseteq 1 .. Len(proc)
      BY <1>1, <1>2, <1>4 DEF ListsInv
    <3>2. held' = {scopes'[w] : w \in WorkerIds}
      BY <1>2, <2>1
    <3> QED
      BY <1>2, <1>4, <2>1, <3>1, <3>2 DEF ListsInv
  <2> QED
    BY <2>1, <2>2, <2>3 DEF SurviveInv, KillInv, DeadInv, NothingSurvives
<1>8. CASE KillWalk
  <2>1. /\ rx = "walk" /\ rx' = "kill" /\ toKill' = Doomed /\ exit' = exit /\ exit = "no"
        /\ UNCHANGED <<known, forked, lost, held>>
    BY <1>5, <1>8 DEF KillWalk, historyVars
  <2>2. /\ \A p \in Mine : p \in known \/ p \in lost \/ p \in forked
        /\ root + 1 \notin forked
        /\ root + 1 \in lost /\ root + 1 \in alive => root \notin alive /\ known = {}
    BY <1>1, <2>1 DEF WalkInv
  <2>3. ASSUME NEW p \in Mine PROVE p \in Doomed \/ Excused(p)
    <3>1. p = root + 1 \/ proc[p].kind = "worker"
      BY <1>1, WalkFinds
    <3>2. CASE root \in alive /\ root + 1 \in alive
      BY <1>1, <3>2, WalkFinds DEF Doomed
    <3>3. CASE ~(root \in alive /\ root + 1 \in alive)
      <4>1. Descendants(root) = {}
        BY <1>1, <3>3, WalkFinds
      <4>2. CASE proc[p].kind = "worker" /\ (p \in lost \/ p \in forked)
        BY <4>2 DEF Excused
      <4>3. CASE p \in known
        BY <4>1, <4>3 DEF Doomed
      \* The server, without its root.
      <4>4. CASE p = root + 1 /\ p \notin known
        <5>1. p \in lost /\ p \in alive
          BY <1>3, <2>2, <4>4
        <5>2. root \notin alive /\ known = {}
          BY <2>2, <4>4, <5>1
        <5>3. p \in Orphans
          BY <1>1, <4>4, <5>1, <5>2, WalkFinds
        <5> QED
          BY <4>1, <5>2, <5>3 DEF Doomed
      <4> QED
        BY <2>2, <3>1, <4>2, <4>3, <4>4
    <3> QED
      BY <3>2, <3>3
  <2>4. KillInv'
    BY <1>2, <1>3, <2>1, <2>3 DEF KillInv, Excused
  <2>5. ListsInv'
    BY <1>1, <1>2, <1>6, <2>1 DEF ListsInv
  <2> QED
    BY <2>1, <2>4, <2>5 DEF SurviveInv, WalkInv, DeadInv, NothingSurvives
<1>9. CASE ExitWalk
  <2>1. /\ rx' = rx /\ rx = "ended" /\ toKill' = Doomed /\ exit' = "kill"
        /\ forked' = {} /\ lost' = Lost /\ UNCHANGED <<known, held>>
    BY <1>5, <1>9 DEF ExitWalk
  <2>2. known = {} /\ held = {}
    BY <1>1, <2>1 DEF ListsInv
  <2>3. ASSUME NEW p \in Mine PROVE p \in Doomed \/ (p \in Lost /\ proc[p].kind = "worker")
    <3>1. p = root + 1 \/ proc[p].kind = "worker"
      BY <1>1, WalkFinds
    <3>2. CASE root \in alive /\ root + 1 \in alive
      BY <1>1, <3>2, WalkFinds DEF Doomed
    <3>3. CASE ~(root \in alive /\ root + 1 \in alive)
      <4>1. Descendants(root) = {}
        BY <1>1, <3>3, WalkFinds
      <4>2. p \in Lost
        BY <1>2, <4>1
      <4>3. CASE p = root + 1
        <5>1. root \notin alive /\ p \in Orphans
          BY <1>1, <1>3, <3>3, <4>3, WalkFinds
        <5> QED
          BY <2>2, <4>1, <5>1 DEF Doomed
      <4> QED
        BY <3>1, <4>2, <4>3
    <3> QED
      BY <3>2, <3>3
  <2>4. KillInv'
    BY <1>2, <1>3, <2>1, <2>3 DEF KillInv, Excused
  <2>5. ListsInv'
    BY <1>1, <1>2, <1>4, <1>6, <2>1, <2>2 DEF ListsInv
  <2> QED
    BY <2>1, <2>4, <2>5 DEF SurviveInv, WalkInv, DeadInv, NothingSurvives
<1> QED
  BY <1>7, <1>8, <1>9

\* Killing what was found leaves what is excused.
LEMMA SurviveKills ==
  ASSUME GuardsInv, TreeInv', TreeTypes', Settled, KillTree \/ ExitKill \/ StopScopes
  PROVE  SurviveInv'
<1>1. TreeInv /\ TreeTypes /\ SurviveInv /\ ListsInv /\ KillInv /\ DeadInv
      /\ Recorded(scopes) /\ (rx = "ended" <=> exit # "no")
  BY DEF GuardsInv, SurviveInv, OwnInv
<1>2. /\ gen' = gen /\ root' = root /\ Len(proc') = Len(proc) /\ limited' = limited
      /\ alive' \subseteq alive /\ alive \subseteq 1 .. Len(proc)
      /\ \A p \in 1 .. Len(proc) : proc'[p].kind = proc[p].kind /\ proc'[p].home = proc[p].home
  BY <1>1, Places DEF Settled, Shrunk
<1>3. ASSUME KillTree \/ ExitKill, NEW p \in alive', proc'[p].home = gen', UNCHANGED <<forked, lost>>
      PROVE  Excused(p) /\ Excused(p)'
  <2>1. alive' = alive \ (toKill \cup {root}) /\ (rx = "kill" \/ exit = "kill")
    BY <1>3 DEF KillTree, ExitKill, Gone
  <2>2. p \in Mine /\ p \notin toKill
    BY <1>2, <1>3, <2>1 DEF Mine
  <2>3. Excused(p)
    BY <1>1, <2>1, <2>2 DEF KillInv
  <2> QED
    BY <1>2, <1>3, <2>3 DEF Excused
<1>4. CASE KillTree
  <2>1. /\ rx = "kill" /\ rx' = "scopes" /\ known' = {} /\ toKill' = {} /\ exit' = exit /\ exit = "no"
        /\ UNCHANGED <<forked, lost, held, scopes>>
    BY <1>1, <1>4 DEF KillTree, historyVars, ownerVars
  <2>2. DeadInv'
    BY <1>3, <1>4, <2>1 DEF DeadInv
  <2>3. ListsInv'
    BY <1>1, <1>2, <2>1 DEF ListsInv
  <2> QED
    BY <2>1, <2>2, <2>3 DEF SurviveInv, WalkInv, KillInv, NothingSurvives
<1>5. CASE ExitKill
  <2>1. /\ exit = "kill" /\ exit' = "done" /\ toKill' = {} /\ rx' = rx /\ rx = "ended"
        /\ UNCHANGED <<forked, lost, held, known>>
    BY <1>1, <1>5 DEF ExitKill, historyVars
  <2>2. known = {} /\ held = {}
    BY <1>1, <2>1 DEF ListsInv
  <2>3. NothingSurvives'
    <3>1. ASSUME NEW p \in alive', proc'[p].home = gen'
          PROVE  p \in forked' \/ (p \in lost' /\ proc'[p].kind = "worker" /\ p \notin held')
      BY <1>3, <1>5, <2>1, <2>2, <3>1 DEF Excused
    <3> QED
      BY <3>1 DEF NothingSurvives
  <2>4. ListsInv'
    BY <1>1, <1>2, <2>1, <2>2 DEF ListsInv
  <2> QED
    BY <2>1, <2>3, <2>4 DEF SurviveInv, WalkInv, KillInv, DeadInv
<1>6. CASE StopScopes
  <2>1. /\ rx = "scopes" /\ rx' = "connect" /\ exit' = exit /\ exit = "no"
        /\ UNCHANGED <<forked, lost, held, known, toKill>>
        /\ alive' = alive \ ({scopes[w] : w \in WorkerIds} \cap scoped)
    BY <1>1, <1>6 DEF StopScopes, historyVars, Stopped, Gone
  <2>2. held = {scopes[w] : w \in WorkerIds}
    BY <1>1, <2>1 DEF ListsInv
  <2>3. ASSUME NEW p \in alive', limited PROVE p \notin held
    <3>1. ASSUME NEW w \in WorkerIds, p = scopes[w] PROVE FALSE
      <4>1. p \in scoped
        BY <1>1, <1>2, <2>3, <3>1 DEF Recorded, Guarded
      <4> QED
        BY <2>1, <2>3, <3>1, <4>1
    <3> QED
      BY <2>2, <3>1
  <2>4. ASSUME NEW p \in alive', proc'[p].home = gen' PROVE Excused(p)'
    <3>1. p \in alive /\ proc[p].home = gen
      BY <1>2, <2>4
    <3>2. Excused(p)
      BY <1>1, <2>1, <3>1 DEF DeadInv
    <3> QED
      BY <1>2, <2>1, <3>1, <3>2 DEF Excused
  <2>5. NothingSurvives'
    BY <1>2, <2>1, <2>3, <2>4 DEF NothingSurvives, Excused
  <2>6. ListsInv'
    BY <1>1, <1>2, <2>1 DEF ListsInv
  <2> QED
    BY <2>1, <2>5, <2>6 DEF SurviveInv, WalkInv, KillInv, DeadInv
<1> QED
  BY <1>4, <1>5, <1>6

LEMMA SurviveStep ==
  ASSUME GuardsInv, Next, TreeInv', TreeTypes', Forward,
         Settled \/ Connect \/ \E s \in alive, w \in WorkerIds : Fork(s, w)
  PROVE  SurviveInv'
<1> USE DEF historyVars, killVars, ownerVars
<1>1. /\ TreeInv /\ TreeTypes /\ SurviveInv /\ ListsInv /\ (rx = "ended" <=> exit # "no")
      /\ 1 .. Len(proc) \subseteq 1 .. Len(proc')
  BY DEF GuardsInv, SurviveInv, OwnInv, Forward
<1>2. ASSUME Settled, UNCHANGED <<root, gen, rx, exit, known, toKill, lost, held, scopes, forked>>
      PROVE  SurviveInv'
  <2>1. alive' \subseteq alive /\ forked' \subseteq 1 .. Len(proc')
    BY <1>1, <1>2 DEF Settled, Shrunk, ListsInv
  <2> QED
    BY <1>1, <1>2, <2>1, SurviveBeside
<1>3. ASSUME NEW s \in alive, NEW w \in WorkerIds, Fork(s, w) PROVE SurviveInv'
  <2>1. /\ UNCHANGED <<root, gen, rx, exit, known, toKill, lost, held, scopes>>
        /\ forked' = forked \cup {Len(proc')}
    BY <1>3 DEF Fork
  <2>2. Len(proc') = Len(proc) + 1 /\ alive' = alive \cup {Len(proc')}
    BY <1>1, <1>3, ForkTree
  <2>3. Len(proc') \in 1 .. Len(proc') /\ root + 1 # Len(proc')
    BY <1>1, <2>2, Places DEF TreeInv
  <2>4. forked' \subseteq 1 .. Len(proc')
    BY <1>1, <2>1, <2>3 DEF ListsInv
  <2> QED
    BY <1>1, <2>1, <2>2, <2>3, <2>4, SurviveBeside
<1>4. ASSUME rx' \notin {"walk", "kill", "scopes", "connect"}, exit' \notin {"kill", "done"},
             rx \notin {"walk", "kill", "scopes", "connect"},
             UNCHANGED <<known, toKill, lost, forked, held>>
      PROVE  SurviveInv'
  BY <1>1, <1>4, SurviveIdle DEF ListsInv
<1>5. ASSUME NEW p \in alive, Dies(p)
      PROVE  UNCHANGED <<root, gen, rx, exit, known, toKill, lost, held, scopes, forked>>
  BY <1>5 DEF Dies
<1>6. ASSUME NEW w \in WorkerIds, TaskChanges(w)
      PROVE  UNCHANGED <<root, gen, rx, exit, known, toKill, lost, held, scopes, forked>>
  BY <1>6 DEF TaskChanges
<1>7. ASSUME MonitorStep
      PROVE  UNCHANGED <<root, gen, rx, exit, known, toKill, lost, held, scopes, forked>>
  BY <1>7 DEF MonitorStep, DrainCommand, Drained, Look, CheckAlive, ReportOom, Adopt, AdoptFails,
              Wait, Publish, CheckLimits
<1>8. ASSUME Signal
      PROVE  UNCHANGED <<root, gen, rx, exit, known, toKill, lost, held, scopes, forked>>
  BY <1>8 DEF Signal, SignalWalk, SignalKill, SignalSweep, Signalled
<1>9. ASSUME AcceptReplacement \/ ReceiveTrigger \/ AttachDone \/ AttachNothing \/ AttachFails
               \/ \E w \in WorkerIds : Attach(w)
      PROVE  SurviveInv'
  <2>1. /\ rx' \notin {"walk", "kill", "scopes", "connect"} /\ exit' = exit /\ exit = "no"
        /\ rx \notin {"walk", "kill", "scopes", "connect"}
        /\ UNCHANGED <<known, toKill, lost, forked, held>>
    BY <1>1, <1>9 DEF AcceptReplacement, ReceiveTrigger, AttachDone, AttachNothing, AttachFails, Attach
  <2> QED
    BY <1>4, <2>1
<1>10. CASE Connect
  <2>1. /\ rx' = "attach" /\ exit' = exit /\ exit = "no" /\ known' = known /\ held' = {}
        /\ rx = "connect" /\ toKill' = toKill /\ lost' = {} /\ forked' = {}
    BY <1>1, <1>10 DEF Connect
  <2> QED
    BY <1>1, <2>1, SurviveIdle DEF ListsInv
<1>11. ASSUME StopThreads \/ Sweep \/ SweepDone \/ NotifyExit PROVE SurviveInv'
  <2>1. /\ rx' = "ended" /\ exit' \notin {"kill", "done"}
        /\ rx \notin {"walk", "kill", "scopes", "connect"}
        /\ UNCHANGED <<known, toKill, lost, forked, held>>
    BY <1>1, <1>11 DEF StopThreads, Sweep, SweepDone, NotifyExit
  <2> QED
    BY <1>4, <2>1
<1>12. ASSUME KnownWalk \/ KillWalk \/ ExitWalk PROVE SurviveInv'
  BY <1>12, SurviveWalks
<1>13. ASSUME KillTree \/ ExitKill \/ StopScopes, Settled PROVE SurviveInv'
  BY <1>13, SurviveKills
<1>14. CASE Settled
  BY <1>2, <1>3, <1>5, <1>6, <1>7, <1>8, <1>9, <1>10, <1>11, <1>12, <1>13, <1>14
     DEF Next, Receiver, Exit
<1> QED
  BY <1>3, <1>10, <1>14

-----------------------------------------------------------------------------
(* The theorems                                                            *)

LEMMA GuardsInductive == GuardsInv /\ [Next]_vars => GuardsInv'
<1>1. ASSUME GuardsInv, Next PROVE GuardsInv'
  <2>1. /\ TreeInv' /\ TreeTypes' /\ Forward
        /\ Settled \/ Connect \/ \E s \in alive, w \in WorkerIds : Fork(s, w)
    BY <1>1, TreeStep
  <2>2. QueueInv'
    BY <1>1, <2>1, CommandsStep, EventsStep DEF QueueInv
  <2>3. PlainTypes' /\ RoundInv' /\ OwnInv'
    BY <1>1, <2>1, <2>2, PlainStep, RoundStep, OwnStep
  <2>4. RootsInv' /\ ServiceInv' /\ FollowInv'
    BY <1>1, RootsStep, ServiceStep, FollowStep
  <2>5. SurviveInv'
    BY <1>1, <2>1, SurviveStep
  <2> QED
    BY <2>1, <2>2, <2>3, <2>4, <2>5 DEF GuardsInv
<1>2. ASSUME GuardsInv, UNCHANGED vars PROVE GuardsInv'
  <2> USE DEF vars, treeVars, ownerVars, killVars, signalVars, queueVars, monitorVars, historyVars
  <2>1. TreeTypes' /\ TreeInv'
    BY <1>2 DEF GuardsInv, TreeTypes, TreeInv, Room
  <2>2. PlainTypes'
    BY <1>2 DEF GuardsInv, PlainTypes
  <2>3. QueueInv'
    <3>1. CommandQueue'
      BY <1>2 DEF GuardsInv, QueueInv, CommandQueue, GoodCommand, Started
    <3>2. EventQueue'
      BY <1>2 DEF GuardsInv, QueueInv, EventQueue, GoodEvent, Started, Guarded
    <3> QED
      BY <3>1, <3>2 DEF QueueInv
  <2>4. RoundInv'
    BY <1>2 DEF GuardsInv, RoundInv, Started, Guarded
  <2>5. OwnInv'
    <3>1. Recorded(scopes)' /\ Recorded(created)'
      BY <1>2 DEF GuardsInv, OwnInv, Recorded, Started, Guarded
    <3>2. ScopesAreOwned'
      BY <1>2 DEF GuardsInv, OwnInv, ScopesAreOwned
    <3> QED
      BY <1>2, <3>1, <3>2 DEF GuardsInv, OwnInv
  <2>6. RootsInv' /\ ServiceInv'
    BY <1>2 DEF GuardsInv, RootsInv, ServiceInv, KnownSoon
  <2>7. FollowInv'
    <3>1. (NoReplacement <=> NoReplacement') /\ (Untold <=> Untold')
      BY <1>2 DEF NoReplacement, Replaces, Untold
    <3>2. ASSUME NEW w \in WorkerIds, Chain(events, w, gen, scopes[w], guards[w])
          PROVE  Chain(events, w, gen, scopes[w], guards[w])'
      BY <1>2, <3>2 DEF Chain, Replaces
    <3> QED
      BY <1>2, <3>1, <3>2 DEF GuardsInv, FollowInv
  <2>8. SurviveInv'
    <3>1. ListsInv' /\ Mine' = Mine /\ \A p : Excused(p)' <=> Excused(p)
      BY <1>2 DEF GuardsInv, SurviveInv, ListsInv, Mine, Excused
    <3>2. WalkInv' /\ KillInv' /\ DeadInv'
      BY <1>2, <3>1 DEF GuardsInv, SurviveInv, WalkInv, KillInv, DeadInv
    <3>3. NothingSurvives'
      BY <1>2 DEF GuardsInv, SurviveInv, NothingSurvives
    <3> QED
      BY <3>1, <3>2, <3>3 DEF SurviveInv
  <2> QED
    BY <2>1, <2>2, <2>3, <2>4, <2>5, <2>6, <2>7, <2>8 DEF GuardsInv
<1> QED
  BY <1>1, <1>2


-----------------------------------------------------------------------------
(* The theorems                                                            *)

\* The inductive invariant holds in every reachable state.
THEOREM GuardsInvariant == Spec => []GuardsInv
<1> QED
  BY InitInv, GuardsInductive, PTL DEF Spec

\* The variables of the model keep their types (watchdog.py: the guards and scopes
\* name processes, the process tree is a forest).
THEOREM GuardsTypeCorrect == Spec => []TypeOK
<1>1. ASSUME GuardsInv PROVE TypeOK
  <2>1. /\ DOMAIN proc = 1 .. Len(proc) /\ Len(proc) <= MaxProcs
        /\ 1 .. Len(proc) \subseteq Pids /\ Started \subseteq {None} \cup Pids
    BY <1>1, Places DEF GuardsInv
  <2>2. ASSUME NEW p \in DOMAIN proc
        PROVE  /\ proc[p].kind \in {"root", "server", "worker"}
               /\ proc[p].home \in 1 .. gen /\ proc[p].parent \in 0 .. p - 1
               /\ proc[p].kind = "worker" => proc[p].worker \in WorkerIds
    <3>1. proc[p] \in Processes
      BY <1>1, <2>1 DEF GuardsInv, TreeInv
    <3> QED
      BY <1>1, <2>1, <3>1 DEF GuardsInv, TreeTypes, Processes
  <2>3. /\ alive \subseteq DOMAIN proc /\ oomed \subseteq DOMAIN proc
        /\ scoped \subseteq {p \in DOMAIN proc : proc[p].kind = "worker"}
        /\ root \in DOMAIN proc /\ gen \in 1 .. MaxServers
    BY <1>1, <2>1 DEF GuardsInv, TreeTypes, TreeInv
  <2>4. scopes \in Guards /\ created \in Guards /\ guards \in Guards
    BY <1>1, <2>1 DEF GuardsInv, OwnInv, RoundInv, Recorded, Guards
  <2>5. /\ known \subseteq DOMAIN proc /\ toKill \subseteq DOMAIN proc
        /\ forked \subseteq DOMAIN proc /\ lost \subseteq DOMAIN proc
    BY <1>1, <2>1 DEF GuardsInv, SurviveInv, ListsInv
  <2>6. \A i \in DOMAIN commands : commands[i].type \in {"root", "pause", "guards"}
    <3>1. DOMAIN commands = 1 .. Len(commands)
      BY <1>1, LenProperties DEF GuardsInv, QueueInv, CommandQueue
    <3> QED
      BY <1>1, <3>1 DEF GuardsInv, QueueInv, CommandQueue, GoodCommand
  <2>7. \A i \in DOMAIN events : events[i].type \in {"death", "memory", "worker_death", "replaced"}
    <3>1. /\ DOMAIN events = 1 .. Len(events)
          /\ \A i \in 1 .. Len(events) : events[i] \in Events
      BY <1>1, LenProperties, ElementOfSeq DEF GuardsInv, QueueInv, EventQueue
    <3> QED
      BY <3>1 DEF Events, EventTypes
  <2>8. watched \in DOMAIN proc /\ adopting \in {None} \cup Pids
    BY <1>1, <2>1 DEF GuardsInv, RoundInv
  <2>9. /\ registered \subseteq DOMAIN proc /\ handler.list \subseteq DOMAIN proc
        /\ held \subseteq {None} \cup Pids
    BY <1>1, <2>1 DEF GuardsInv, PlainTypes
  <2> QED
    BY <1>1, <2>1, <2>2, <2>3, <2>4, <2>5, <2>6, <2>7, <2>8, <2>9
    DEF GuardsInv, PlainTypes, TypeOK
<1> QED
  BY <1>1, GuardsInvariant, PTL

\* Every scope with a living process is held by someone who will stop it: the receiver
\* (_worker_scopes, or the list attach_worker_guards is making), the monitor between
\* the adoption and the guard_replaced event, or the event.
THEOREM ScopesHaveOwners == Spec => []ScopesAreOwned
<1>1. GuardsInv => ScopesAreOwned
  BY DEF GuardsInv, OwnInv
<1> QED
  BY <1>1, GuardsInvariant, PTL

\* With all commands and events handled, _worker_scopes names the processes that the
\* monitor guards, whatever was replaced, rebuilt or dropped as stale before.
THEOREM OwnerKnowsGuards == Spec => []OwnerFollowsMonitor
<1>1. ASSUME GuardsInv PROVE OwnerFollowsMonitor
  <2> SUFFICES ASSUME rx = "poll", seen = gen, commands = <<>>, events = <<>>
               PROVE  guards = scopes
    BY DEF OwnerFollowsMonitor
  <2>1. Len(commands) = 0 /\ Len(events) = 0
    BY EmptySeq
  <2>2. ~Untold
    BY <2>1 DEF Untold
  <2>3. \A w \in WorkerIds : Chain(events, w, gen, scopes[w], guards[w])
    BY <1>1, <2>2 DEF GuardsInv, FollowInv
  <2>4. \A w \in WorkerIds : scopes[w] = guards[w]
    BY <2>1, <2>3 DEF Chain
  <2> QED
    BY <1>1, <2>4 DEF GuardsInv, OwnInv, RoundInv, Recorded
<1> QED
  BY <1>1, GuardsInvariant, PTL

\* What a rebuild or exit() leaves alive of the old server: the processes started after
\* the walk, and workers cut off before it whose scope nobody held (_kill_process_tree,
\* _stop_worker_scopes).
THEOREM OldServerIsGone == Spec => []NothingSurvives
<1>1. GuardsInv => NothingSurvives
  BY DEF GuardsInv, SurviveInv
<1> QED
  BY <1>1, GuardsInvariant, PTL

\* A replacement that the receiver rejects (_accept_replacement_guard) is never one of
\* the server in service.
LEMMA CurrentIsAccepted ==
  ASSUME GuardsInv, rx = "poll", events # <<>>, Head(events).type = "replaced",
         Head(events).gen = gen
  PROVE  Accepts(Head(events))
<1>1. PICK e : e = Head(events)
  OBVIOUS
<1>2. events \in Seq(Events)
  BY DEF GuardsInv, QueueInv, EventQueue
<1>3. /\ e = events[1] /\ 1 \in 1 .. Len(events) /\ e.worker \in WorkerIds
      /\ e.type = "replaced" /\ e.gen = gen
  <2>1. e = events[1] /\ 1 \in 1 .. Len(events)
    BY <1>1, <1>2, QueueTail
  <2> QED
    BY <1>1, <2>1 DEF GuardsInv, QueueInv, EventQueue, GoodEvent
<1>4. Replaces(events[1], e.worker, gen)
  BY <1>3 DEF Replaces
<1>5. ~NoReplacement
  BY <1>3, <1>4 DEF NoReplacement
<1>6. ~Untold /\ seen = gen
  BY <1>5 DEF GuardsInv, FollowInv
<1>7. Chain(events, e.worker, gen, scopes[e.worker], guards[e.worker])
  BY <1>3, <1>6 DEF GuardsInv, FollowInv
<1>8. e.old = scopes[e.worker]
  <2>1. Len(events) \in Nat
    BY <1>2, LenProperties
  <2>2. \A k \in 1 .. Len(events) : 1 <= k
    BY <2>1
  <2> QED
    BY <1>3, <1>4, <1>7, <2>2 DEF Chain
<1> QED
  BY <1>1, <1>3, <1>8 DEF Accepts

\* Neither the rejection of a replacement nor its publication kills a worker of the
\* server in service: the scope stopped is an old server's, or holds a dead process.
THEOREM CurrentWorkersAreSpared == Spec => SparesCurrentWorkers
<1>1. ASSUME GuardsInv, AcceptReplacement, NEW p \in alive \ alive'
      PROVE  proc[p].home # gen
  <2>1. PICK e : e = Head(events)
    OBVIOUS
  <2>2. /\ events \in Seq(Events) /\ rx = "poll" /\ events # <<>>
        /\ e.type = "replaced" /\ Accept(e)
    BY <1>1, <2>1 DEF GuardsInv, QueueInv, EventQueue, AcceptReplacement
  <2>3. ~Accepts(e) /\ Stopped({e.new})
    BY <1>1, <2>2 DEF Accept
  <2>4. p = e.new
    BY <1>1, <2>3 DEF Stopped, Gone
  <2>5. e.gen # gen
    BY <1>1, <2>1, <2>2, <2>3, CurrentIsAccepted
  <2>6. e = events[1] /\ 1 \in 1 .. Len(events)
    BY <2>1, <2>2, QueueTail
  <2>7. proc[e.new].home = e.gen
    BY <1>1, <2>2, <2>6 DEF GuardsInv, QueueInv, EventQueue, GoodEvent
  <2> QED
    BY <2>4, <2>5, <2>7
<1>2. ASSUME GuardsInv, Publish PROVE alive' = alive
  <2>1. place = "publish" /\ guards[checking] \notin alive
    BY <1>2 DEF GuardsInv, RoundInv, Publish
  <2>2. CASE adopting \in alive
    BY <1>2, <2>1, <2>2 DEF Publish, Stopped, Gone
  <2>3. CASE adopting \notin alive
    BY <1>2, <2>3 DEF Publish, Stopped, Gone
  <2> QED
    BY <2>2, <2>3
<1>3. ASSUME GuardsInv, [Next]_vars
      PROVE  [AcceptReplacement \/ Publish =>
                \A p \in alive \ alive' : proc[p].home # gen]_vars
  BY <1>1, <1>2, <1>3
<1> QED
  BY <1>3, GuardsInvariant, PTL DEF Spec, SparesCurrentWorkers
=============================================================================
