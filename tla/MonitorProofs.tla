---------------------------- MODULE MonitorProofs ----------------------------
(***************************************************************************)
(* Theorems about Monitor, for every set of workers, every deadline and    *)
(* poll interval, and any number of servers, tasks and faults.             *)
(*                                                                         *)
(* The monitor and the watchdog know of each other what is in their        *)
(* queues.  MonitorInv is the inductive invariant; its parts follow the    *)
(* generations, the triggers, the table of tasks and the ages.             *)
(***************************************************************************)
EXTENDS Monitor, FiniteSetTheorems, SequenceTheorems, TLAPS

-----------------------------------------------------------------------------
(* The inductive invariant                                                 *)

CommandTypes == {"root", "pause", "fatal", "task_started", "task_finished", "stop"}

Commands == [type : CommandTypes, gen : Nat, arg : Nat \cup WorkerIds, age : 0 .. Horizon + 1]
Events == [trigger : Triggers \cup {"stop"}, gen : Nat, ids : SUBSET WorkerIds]
Causes == [trigger : Triggers \cup {"none", "watchdog_death"}, gen : Nat, ids : SUBSET WorkerIds]

\* A command of a server that there is, about one of its workers.
WellFormed(c) ==
  /\ c \in Commands /\ c.gen <= gen
  /\ c.type \in {"task_started", "task_finished"} => c.arg \in WorkerIds
  /\ c.type = "root" => c.arg \in 0 .. server

QueueInv ==
  /\ commands \in Seq(Commands) /\ \A i \in 1 .. Len(commands) : WellFormed(commands[i])
  /\ events \in Seq(Events) /\ \A i \in 1 .. Len(events) : events[i].gen <= gen
  /\ cause \in Causes /\ cause.gen <= gen
  /\ gen # 0 /\ server # 0

\* Tasks run only while the service is open, for its generation; those of a replaced
\* pool have the token of an earlier one.
TaskInv ==
  /\ rx \in {"kill", "connect", "start", "pool"} => ~ready
  /\ \A w \in WorkerIds :
       \/ task[w] = Idle
       \/ ready /\ task[w].token = gen /\ task[w].age # None
  /\ ready \/ (rx = "pool" /\ up) => \A l \in leaving : l[2] < gen
  /\ exit = "no" => ~stop /\ handle /\ open /\ rx # "ended"
  /\ exit = "no" => \A i \in 1 .. Len(events) : events[i].trigger # "stop"

\* The generations of which a trigger is queued or acted on.
Out == {events[i].gen : i \in {j \in 1 .. Len(events) : events[j].trigger # "stop"}}
         \cup (IF cause.trigger \in Triggers THEN {cause.gen} ELSE {})

\* A generation is announced after all triggers of the earlier ones, and gives rise
\* to one.
TriggerInv ==
  /\ \A i, j \in 1 .. Len(events) :
       events[i].trigger # "stop" /\ events[j].trigger # "stop" /\ i # j
         => events[i].gen # events[j].gen
  /\ cause.trigger \in Triggers =>
       \A i \in 1 .. Len(events) : events[i].trigger # "stop" => events[i].gen # cause.gen
  /\ live /\ ~paused => \A g \in Out : g < seen
  /\ \A i \in 1 .. Len(commands) :
       commands[i].type = "root" => /\ seen < commands[i].gen
                                    /\ \A g \in Out : g < commands[i].gen
  /\ \A i, j \in 1 .. Len(commands) :
       commands[i].type = "root" /\ commands[j].type = "root" /\ i < j
         => commands[i].gen < commands[j].gen
  /\ rx = "poll" => cause = NoCause

\* A command that says something of the worker w of this generation.
Relevant(c, w) ==
  \/ c.type \in {"root", "pause"}
  \/ c.type \in {"task_started", "task_finished"} /\ c.gen = gen /\ c.arg = w

\* The last of them says what w does; the table does if there is none.
SyncInv ==
  live /\ exit = "no" =>
    \A w \in WorkerIds :
      /\ \A i \in 1 .. Len(commands) :
           /\ Relevant(commands[i], w)
           /\ \A j \in 1 .. Len(commands) : Relevant(commands[j], w) => j <= i
           => /\ commands[i].type = "task_started" =>
                   task[w] # Idle /\ commands[i].age = task[w].age
              /\ commands[i].type # "task_started" => task[w] = Idle
      /\ (\A i \in 1 .. Len(commands) : ~Relevant(commands[i], w)) /\ seen = gen =>
           table[w] = task[w].age

\* The server has been announced: the monitor knows it, or will, and is told to
\* pause before that only.
Announced ==
  live /\ exit = "no" /\ (rx = "poll" \/ (rx = "pool" /\ up)) =>
    /\ \/ seen = gen
       \/ \E i \in 1 .. Len(commands) : commands[i].type = "root" /\ commands[i].gen = gen
    /\ \A i \in 1 .. Len(commands) :
         commands[i].type = "pause" =>
           \E j \in 1 .. Len(commands) :
             j > i /\ commands[j].type = "root" /\ commands[j].gen = gen
    /\ seen = gen /\ paused => \E i \in 1 .. Len(events) : events[i].gen = gen

\* What the monitor believes of this server, and has reported of it, is true.
TruthInv ==
  /\ exit = "no" /\ rx \in {"poll", "pool"} /\ up =>
       /\ live /\ seen = gen => root = server
       /\ \A i \in 1 .. Len(commands) :
            commands[i].type = "root" /\ commands[i].gen = gen => commands[i].arg = server
       /\ \A i \in 1 .. Len(events) :
            events[i].gen = gen => events[i].trigger # "death"
  /\ exit = "no" =>
       /\ \A i \in 1 .. Len(events) :
            events[i].gen = gen /\ events[i].trigger = "deadline" => exceeded
       /\ live /\ place = "look" /\ seen = gen =>
            \A w \in WorkerIds : table[w] > Deadline => exceeded
  /\ \A w \in WorkerIds : task[w].age > Deadline => exceeded

\* How old a task can be that has not been reported.
Queued(w) == \E i \in 1 .. Len(commands) : Relevant(commands[i], w)

AgeInv ==
  /\ live /\ paused /\ place # "drain" => place = "sleep" /\ sleep <= 1
  /\ live /\ exit = "no" /\ ~Reported =>
       \A w \in WorkerIds :
         task[w] # Idle =>
           /\ sincePoll < Poll => task[w].age <= Deadline + sincePoll
           /\ task[w].age + (IF place = "sleep" THEN sleep ELSE 0)
                <= Deadline + Poll - 1 + MemPoll
           /\ Queued(w) =>
                /\ place = "look"  => task[w].age = 0
                /\ place = "drain" => task[w].age <= MemPoll
                /\ place = "sleep" => task[w].age + sleep <= MemPoll

MonitorInv ==
  /\ TypeOK /\ QueueInv /\ TaskInv /\ TriggerInv
  /\ SyncInv /\ Announced /\ TruthInv /\ AgeInv

-----------------------------------------------------------------------------
(* Queues                                                                  *)

LEMMA AppendedQueue ==
  ASSUME NEW S, NEW q \in Seq(S), NEW c \in S, NEW r, r = Append(q, c)
  PROVE  /\ r \in Seq(S) /\ Len(q) \in Nat /\ Len(r) = Len(q) + 1
         /\ r[Len(q) + 1] = c /\ \A i \in 1 .. Len(q) : r[i] = q[i] /\ i \in 1 .. Len(r)
         /\ \A i \in 1 .. Len(r) : i = Len(q) + 1 \/ i \in 1 .. Len(q)
         /\ Len(q) + 1 \in 1 .. Len(r)
<1>1. Len(q) \in Nat
  BY LenProperties
<1>2. /\ r \in Seq(S) /\ Len(r) = Len(q) + 1
      /\ \A i \in 1 .. Len(q) : r[i] = q[i]
      /\ r[Len(q) + 1] = c
  BY AppendProperties
<1> QED
  BY <1>1, <1>2

LEMMA QueueTail ==
  ASSUME NEW S, NEW q \in Seq(S), q # <<>>, NEW r, r = Tail(q)
  PROVE  /\ Head(q) = q[1] /\ q[1] \in S /\ 1 \in 1 .. Len(q)
         /\ r \in Seq(S) /\ Len(q) \in Nat \ {0} /\ Len(r) = Len(q) - 1
         /\ \A i \in 1 .. Len(r) : r[i] = q[i + 1] /\ i + 1 \in 1 .. Len(q)
         /\ \A i \in 1 .. Len(q) : i = 1 \/ (i - 1 \in 1 .. Len(r) /\ r[i - 1] = q[i])
<1>1. Len(q) \in Nat \ {0} /\ Head(q) = q[1]
  BY EmptySeq
<1>2. /\ Head(q) \in S /\ r \in Seq(S) /\ Len(r) = Len(q) - 1
      /\ \A i \in 1 .. Len(r) : r[i] = q[i + 1]
  BY HeadTailProperties
<1>3. \A i \in 1 .. Len(r) : i + 1 \in 1 .. Len(q)
  BY <1>1, <1>2
<1>4. \A i \in 1 .. Len(q) : i = 1 \/ (i - 1 \in 1 .. Len(r) /\ (i - 1) + 1 = i)
  BY <1>1, <1>2
<1> QED
  BY <1>1, <1>2, <1>3, <1>4

\* What a command finds in the queue, if it is sent at all.
LEMMA SentQueue ==
  ASSUME QueueInv, NEW c \in Commands, commands' = Sent(c)
  PROVE  \/ ~(handle /\ live /\ open) /\ commands' = commands
         \/ /\ handle /\ live /\ open /\ commands' \in Seq(Commands)
            /\ Len(commands) \in Nat /\ Len(commands') = Len(commands) + 1
            /\ commands'[Len(commands) + 1] = c
            /\ \A i \in 1 .. Len(commands) : /\ commands'[i] = commands[i]
                                             /\ i \in 1 .. Len(commands')
            /\ \A i \in 1 .. Len(commands') : i = Len(commands) + 1 \/ i \in 1 .. Len(commands)
            /\ Len(commands) + 1 \in 1 .. Len(commands')
<1>1. CASE handle /\ live /\ open
  <2>1. commands \in Seq(Commands) /\ commands' = Append(commands, c)
    BY <1>1 DEF QueueInv, Sent
  <2> QED
    BY <1>1, <2>1, AppendedQueue
<1>2. CASE ~(handle /\ live /\ open)
  BY <1>2 DEF Sent
<1> QED
  BY <1>1, <1>2

LEMMA Numbers ==
  /\ Deadline \in Nat /\ Poll \in Nat \ {0} /\ MemPoll \in Nat \ {0}
  /\ Horizon \in Nat /\ Horizon = Deadline + Poll + MemPoll
  /\ None = -1 /\ Idle.age = -1 /\ Idle.token = 0
  /\ Age = -1 .. Horizon + 1
BY MonitorAssumption DEF Horizon, None, Idle, Age

-----------------------------------------------------------------------------
(* The initial state                                                       *)

LEMMA InitInv == Init => MonitorInv
<1> SUFFICES ASSUME Init PROVE MonitorInv
  OBVIOUS
<1> DEFINE c == Command("root", 1, 1)
<1>1. /\ commands \in Seq(Commands) /\ Len(commands) = 1 /\ commands[1] = c
      /\ c.type = "root" /\ c.gen = 1 /\ c.arg = 1 /\ c.age = 0 /\ c \in Commands
  BY Numbers DEF Init, Command, Commands, CommandTypes
<1>2. events \in Seq(Events) /\ Len(events) = 0
  BY DEF Init
<1> HIDE DEF c
<1>3. TypeOK
  <2>1. \A i \in DOMAIN commands : commands[i].age \in 0 .. Horizon + 1
    BY <1>1, Numbers
  <2>2. \A i \in DOMAIN events :
          events[i].trigger \in Triggers \cup {"stop"} /\ events[i].gen \in 0 .. gen
    BY <1>2
  <2>3. task \in [WorkerIds -> [token : Nat, age : Age]] /\ table \in [WorkerIds -> Age]
    BY Numbers DEF Init, Idle
  <2>4. /\ sincePoll \in 0 .. Poll + MemPoll /\ sleep \in 0 .. MemPoll
        /\ begun \in 0 .. MaxTasks /\ faults \in 0 .. MaxFaults
    BY MonitorAssumption DEF Init
  <2>5. /\ cause.trigger \in Triggers \cup {"none", "watchdog_death"}
        /\ cause.gen \in Nat /\ cause.ids \subseteq WorkerIds
    BY DEF Init, NoCause
  <2>6. /\ up \in BOOLEAN /\ ready \in BOOLEAN /\ stop \in BOOLEAN /\ handle \in BOOLEAN
        /\ open \in BOOLEAN /\ live \in BOOLEAN /\ paused \in BOOLEAN /\ exceeded \in BOOLEAN
    BY Zenon DEF Init
  <2>7. /\ server \in Nat /\ panics \subseteq 1 .. server /\ gen \in Nat
        /\ leaving \subseteq WorkerIds \X (1 .. gen)
        /\ rx \in {"poll", "recover", "kill", "connect", "start", "pool", "ended"}
        /\ exit \in Exits /\ place \in {"drain", "look", "sleep"}
        /\ seen \in 0 .. gen /\ root \in 0 .. server
    BY DEF Init, Exits
  <2> QED
    BY <2>1, <2>2, <2>3, <2>4, <2>5, <2>6, <2>7 DEF TypeOK
<1>4. QueueInv
  BY <1>1, <1>2 DEF QueueInv, WellFormed, Init, NoCause, Causes
<1>5. TaskInv
  <2>1. rx = "poll" /\ leaving = {} /\ \A w \in WorkerIds : task[w] = Idle
    BY DEF Init
  <2>2. ~stop /\ handle /\ open
    BY Zenon DEF Init
  <2> QED
    BY <1>2, <2>1, <2>2 DEF TaskInv
<1>6. TriggerInv
  BY <1>1, <1>2 DEF TriggerInv, Out, Init, NoCause, Triggers
<1>7. SyncInv
  BY <1>1 DEF SyncInv, Init, Relevant
<1>8. Announced
  BY <1>1, <1>2 DEF Announced, Init
<1>9. TruthInv
  BY <1>1, <1>2, Numbers DEF TruthInv, Init, Idle
<1>10. AgeInv
  BY <1>2 DEF AgeInv, Init
<1> QED
  BY <1>3, <1>4, <1>5, <1>6, <1>7, <1>8, <1>9, <1>10 DEF MonitorInv

-----------------------------------------------------------------------------
(* Steps of the receiver, the server and exit() that leave queues, tasks   *)
(* and the monitor alone                                                   *)

Aside ==
  \/ ServerDies \/ ServerPanics \/ KillTree \/ Connect \/ ConnectFails \/ GiveUp
  \/ RebuildPool \/ RebuildFails \/ MissMonitor \/ EndReceiver
  \/ JoinReceiver \/ NotifyExit \/ KillOnExit

LEMMA AsideKeepsType ==
  ASSUME MonitorInv, Aside
  PROVE  /\ TypeOK' /\ QueueInv'
         /\ UNCHANGED <<gen, stop, handle, open, task, leaving, commands, events, live, place,
                        seen, root, paused, table, sincePoll, sleep, exceeded>>
         /\ exit = "no" <=> exit' = "no"
         /\ cause' \in {cause, NoCause, [trigger |-> "watchdog_death", gen |-> gen, ids |-> {}]}
<1> USE DEF Aside, MonitorInv
<1>1. UNCHANGED <<gen, stop, handle, open, task, leaving, commands, events, live, place,
                  seen, root, paused, table, sincePoll, sleep, exceeded>>
  BY DEF ServerDies, ServerPanics, KillTree, Connect, ConnectFails, GiveUp, RebuildPool,
     RebuildFails, MissMonitor, EndReceiver, JoinReceiver, NotifyExit, KillOnExit, serverVars,
     ownerVars, rxVars, monitorVars
<1>2. /\ server \in Nat /\ server' \in {server, server + 1}
      /\ exit' \in Exits
      /\ exit = "no" <=> exit' = "no"
  BY DEF TypeOK, ServerDies, ServerPanics, KillTree, Connect, ConnectFails, GiveUp, RebuildPool,
     RebuildFails, MissMonitor, EndReceiver, JoinReceiver, NotifyExit, KillOnExit, serverVars,
     ownerVars, rxVars, monitorVars, Exits
<1>3. /\ cause' \in {cause, NoCause, [trigger |-> "watchdog_death", gen |-> gen, ids |-> {}]}
      /\ rx' \in {"poll", "recover", "kill", "connect", "start", "pool", "ended"}
  BY DEF TypeOK, ServerDies, ServerPanics, KillTree, Connect, ConnectFails, GiveUp, RebuildPool,
     RebuildFails, MissMonitor, EndReceiver, JoinReceiver, NotifyExit, KillOnExit, serverVars,
     ownerVars, rxVars, monitorVars
<1>4. cause' \in Causes /\ cause'.gen \in Nat /\ cause'.gen <= gen
  BY <1>3 DEF QueueInv, TypeOK, Causes, NoCause
<1>5. TypeOK'
  <2>1. up' \in BOOLEAN /\ ready' \in BOOLEAN
    BY Zenon DEF TypeOK, ServerDies, ServerPanics, KillTree, Connect, ConnectFails, GiveUp,
       RebuildPool, RebuildFails, MissMonitor, EndReceiver, JoinReceiver, NotifyExit, KillOnExit,
       serverVars, ownerVars, rxVars, monitorVars
  <2>2. panics' \subseteq 1 .. server' /\ root \in 0 .. server' /\ server' \in Nat
    <3>1. \/ panics' = panics
          \/ panics' = panics \cup {server}
      BY DEF ServerDies, ServerPanics, KillTree, Connect, ConnectFails, GiveUp, RebuildPool,
         RebuildFails, MissMonitor, EndReceiver, JoinReceiver, NotifyExit, KillOnExit, serverVars
    <3>2. server \in 1 .. server /\ 1 .. server \subseteq 1 .. server' /\ 0 .. server \subseteq 0 .. server'
      BY <1>2 DEF QueueInv
    <3>3. panics \subseteq 1 .. server /\ root \in 0 .. server
      BY DEF TypeOK
    <3>4. server' \in Nat
      BY <1>2
    <3>5. panics' \subseteq 1 .. server'
      <4>1. \A s \in panics' : s \in panics \/ s = server
        BY <3>1
      <4> QED
        BY <3>2, <3>3, <4>1
    <3>6. root \in 0 .. server'
      BY <3>2, <3>3, Zenon
    <3> QED
      BY <3>4, <3>5, <3>6
  <2>3. faults' \in 0 .. MaxFaults /\ begun' \in 0 .. MaxTasks
    <3>1. \/ faults' = faults
          \/ faults < MaxFaults /\ faults' = faults + 1
      BY DEF ServerDies, ServerPanics, KillTree, Connect, ConnectFails, GiveUp, RebuildPool,
         RebuildFails, MissMonitor, EndReceiver, JoinReceiver, NotifyExit, KillOnExit, serverVars,
         Fault
    <3>2. begun' = begun \/ begun' = 0
      BY DEF ServerDies, ServerPanics, KillTree, Connect, ConnectFails, GiveUp, RebuildPool,
         RebuildFails, MissMonitor, EndReceiver, JoinReceiver, NotifyExit, KillOnExit, ownerVars
    <3> QED
      BY <3>1, <3>2, MonitorAssumption DEF TypeOK
  <2>4. /\ cause'.trigger \in Triggers \cup {"none", "watchdog_death"}
        /\ cause'.ids \subseteq WorkerIds
    BY <1>4 DEF Causes
  <2> QED
    BY <1>1, <1>2, <1>3, <1>4, <2>1, <2>2, <2>3, <2>4 DEF TypeOK
<1>6. QueueInv'
  <2>1. \A c : WellFormed(c) => WellFormed(c)'
    BY <1>1, <1>2 DEF WellFormed
  <2>2. server' # 0
    BY <1>2 DEF QueueInv
  <2> QED
    BY <1>1, <1>4, <2>1, <2>2 DEF QueueInv
<1> QED
  BY <1>1, <1>2, <1>3, <1>5, <1>6

LEMMA AsideKeepsInv ==
  ASSUME MonitorInv, Aside
  PROVE  MonitorInv'
<1> DEFINE Same == UNCHANGED <<gen, stop, handle, open, task, leaving, commands, events, live,
                      place, seen, root, paused, table, sincePoll, sleep, exceeded>>
<1>1. /\ TypeOK' /\ QueueInv' /\ Same
      /\ exit = "no" <=> exit' = "no"
      /\ cause' \in {cause, NoCause, [trigger |-> "watchdog_death", gen |-> gen, ids |-> {}]}
  BY AsideKeepsType
<1> USE DEF Aside
<1>2. TaskInv'
  <2>1. rx' \in {"kill", "connect", "start", "pool"} => ~ready'
    BY DEF ServerDies, ServerPanics, KillTree, Connect, ConnectFails, GiveUp,
       RebuildPool, RebuildFails, MissMonitor, EndReceiver, JoinReceiver, NotifyExit, KillOnExit,
       ownerVars, rxVars, MonitorInv, TaskInv
  <2>2. ready => ready'
    BY DEF ServerDies, ServerPanics, KillTree, Connect, ConnectFails, GiveUp,
       RebuildPool, RebuildFails, MissMonitor, EndReceiver, JoinReceiver, NotifyExit, KillOnExit,
       ownerVars, rxVars
  <2>3. ready' \/ (rx' = "pool" /\ up') => ready \/ (rx = "pool" /\ up)
    <3>1. CASE RebuildPool
      BY <3>1 DEF RebuildPool
    <3>2. CASE ~RebuildPool
      <4>1. ready' = ready
        BY <3>2 DEF ServerDies, ServerPanics, KillTree, Connect, ConnectFails, GiveUp,
           RebuildFails, MissMonitor, EndReceiver, JoinReceiver, NotifyExit, KillOnExit, ownerVars
      <4>2. rx' = "pool" /\ up' => rx = "pool" /\ up
        BY <3>2 DEF ServerDies, ServerPanics, KillTree, Connect, ConnectFails, GiveUp,
           RebuildFails, MissMonitor, EndReceiver, JoinReceiver, NotifyExit, KillOnExit, rxVars,
           serverVars
      <4> QED
        BY <4>1, <4>2
    <3> QED
      BY <3>1, <3>2
  <2>4. exit = "no" => rx' # "ended"
    BY DEF ServerDies, ServerPanics, KillTree, Connect, ConnectFails, GiveUp,
       RebuildPool, RebuildFails, MissMonitor, EndReceiver, JoinReceiver, NotifyExit, KillOnExit,
       ownerVars, rxVars, MonitorInv, TaskInv
  <2> QED
    BY <1>1, <2>1, <2>2, <2>3, <2>4 DEF MonitorInv, TaskInv
<1>3. TriggerInv'
  <2>1. rx' = "poll" => cause' = NoCause
    BY DEF ServerDies, ServerPanics, KillTree, Connect, ConnectFails, GiveUp,
       RebuildPool, RebuildFails, MissMonitor, EndReceiver, JoinReceiver, NotifyExit, KillOnExit,
       rxVars, MonitorInv, TriggerInv
  <2>2. cause'.trigger \in Triggers => cause' = cause
    BY <1>1 DEF NoCause, Triggers
  <2>3. \A g \in Out' : g \in Out
    BY <1>1, <2>2 DEF Out
  <2> QED
    BY <1>1, <2>1, <2>2, <2>3 DEF MonitorInv, TriggerInv
<1>4. SyncInv'
  BY <1>1 DEF MonitorInv, SyncInv, Relevant
\* The receiver ends and gives up when it is stopped only.
<1>5. exit = "no" =>
        /\ rx' = "poll" => rx = "poll" \/ (rx = "pool" /\ up)
        /\ rx' = "pool" /\ up' => rx = "pool" /\ up
        /\ rx' \in {"poll", "pool"} /\ up' =>
             rx \in {"poll", "pool"} /\ up /\ server' = server
  BY DEF ServerDies, ServerPanics, KillTree, Connect, ConnectFails, GiveUp,
     RebuildPool, RebuildFails, MissMonitor, EndReceiver, JoinReceiver, NotifyExit, KillOnExit,
     ownerVars, rxVars, serverVars, MonitorInv, TaskInv
<1>6. Announced'
  BY <1>1, <1>5 DEF MonitorInv, Announced
<1>7. TruthInv'
  BY <1>1, <1>5 DEF MonitorInv, TruthInv
<1>8. AgeInv'
  <2>1. CASE \E w \in WorkerIds : task[w] # Idle
    <3>1. exit = "no" => (Reported => Reported')
      BY <1>1, <2>1 DEF ServerDies, ServerPanics, KillTree, Connect, ConnectFails, GiveUp,
         RebuildPool, RebuildFails, MissMonitor, EndReceiver, JoinReceiver, NotifyExit, KillOnExit,
         ownerVars, rxVars, MonitorInv, TaskInv, Reported
    <3> QED
      BY <1>1, <3>1 DEF MonitorInv, AgeInv, Queued, Relevant
  <2>2. CASE ~ \E w \in WorkerIds : task[w] # Idle
    BY <1>1, <2>2 DEF MonitorInv, AgeInv
  <2> QED
    BY <2>1, <2>2
<1> QED
  BY <1>1, <1>2, <1>3, <1>4, <1>6, <1>7, <1>8 DEF MonitorInv

-----------------------------------------------------------------------------
(* The monitor ends                                                        *)

LEMMA MonitorEnds ==
  ASSUME MonitorInv, MonitorDies \/ StopCommand \/ JoinMonitor
  PROVE  MonitorInv'
<1>1. /\ UNCHANGED <<server, up, panics, gen, ready, stop, handle, open, task, begun, leaving,
                     rx, cause, events, exceeded>>
      /\ live' = FALSE /\ commands' = <<>> /\ FreshMonitor
      /\ exit' = "no" => exit = "no"
      /\ exit' \in Exits
      /\ \/ faults' = faults
         \/ faults < MaxFaults /\ faults' = faults + 1
  BY DEF MonitorDies, StopCommand, JoinMonitor, Fault, serverVars, ownerVars, rxVars, Exits,
     MonitorInv, TypeOK
<1>2. commands' \in Seq(Commands) /\ Len(commands') = 0
  BY <1>1
<1>3. /\ place' = "drain" /\ seen' = 0 /\ root' = 0 /\ paused' = TRUE
      /\ table' = [w \in WorkerIds |-> None] /\ sincePoll' = Poll /\ sleep' = 0
  BY <1>1 DEF FreshMonitor
<1>4. TypeOK'
  <2>1. \A i \in DOMAIN commands' : commands'[i].age \in 0 .. Horizon + 1
    BY <1>2
  <2>2. table' \in [WorkerIds -> Age] /\ sincePoll' \in 0 .. Poll + MemPoll /\ sleep' \in 0 .. MemPoll
    BY <1>3, Numbers
  <2>3. faults' \in 0 .. MaxFaults /\ seen' \in 0 .. gen /\ root' \in 0 .. server
    BY <1>1, <1>3, MonitorAssumption DEF MonitorInv, TypeOK
  <2>4. live' \in BOOLEAN /\ paused' \in BOOLEAN
    BY <1>1, <1>3, Zenon
  <2> QED
    BY <1>1, <1>3, <2>1, <2>2, <2>3, <2>4 DEF MonitorInv, TypeOK
<1>5. QueueInv'
  BY <1>1, <1>2 DEF MonitorInv, QueueInv, WellFormed
<1>6. TaskInv'
  BY <1>1 DEF MonitorInv, TaskInv
<1>7. TriggerInv'
  BY <1>1, <1>2 DEF MonitorInv, TriggerInv, Out
<1>8. SyncInv' /\ Announced' /\ AgeInv'
  BY <1>1 DEF SyncInv, Announced, AgeInv
<1>9. TruthInv'
  BY <1>1, <1>2 DEF MonitorInv, TruthInv
<1> QED
  BY <1>4, <1>5, <1>6, <1>7, <1>8, <1>9 DEF MonitorInv

-----------------------------------------------------------------------------
(* Commands are sent                                                       *)

\* What the senders have in common.
LEMMA SentKeepsType ==
  ASSUME MonitorInv, NEW c, WellFormed(c), commands' = Sent(c),
         UNCHANGED <<server, up, faults, gen, handle, open, cause, events,
                     monitorVars, exceeded>>,
         panics' \subseteq panics, ready' \in BOOLEAN, stop' \in BOOLEAN,
         begun' \in 0 .. MaxTasks,
         task' \in [WorkerIds -> [token : Nat, age : Age]],
         leaving' \subseteq WorkerIds \X (1 .. gen),
         rx' \in {"poll", "recover", "kill", "connect", "start", "pool", "ended"},
         exit' \in Exits
  PROVE  TypeOK' /\ QueueInv'
<1>1. /\ c \in Commands /\ QueueInv
      /\ UNCHANGED <<live, place, seen, root, paused, table, sincePoll, sleep>>
  BY DEF WellFormed, MonitorInv, monitorVars
<1>2. /\ commands' \in Seq(Commands)
      /\ \A i \in 1 .. Len(commands') :
           commands'[i] = c \/ \E j \in 1 .. Len(commands) : commands'[i] = commands[j]
  BY <1>1, SentQueue DEF QueueInv
<1>3. \A d : WellFormed(d) <=> WellFormed(d)'
  BY DEF WellFormed
<1>4. QueueInv'
  BY <1>2, <1>3 DEF MonitorInv, QueueInv
<1>5. \A i \in DOMAIN commands' : commands'[i].age \in 0 .. Horizon + 1
  <2>1. \A i \in DOMAIN commands' : i \in 1 .. Len(commands')
    BY <1>2, LenProperties
  <2>2. \A d \in Commands : d.age \in 0 .. Horizon + 1
    BY DEF Commands
  <2>3. \A i \in 1 .. Len(commands') : commands'[i] \in Commands
    BY <1>4 DEF QueueInv, WellFormed
  <2> QED
    BY <2>1, <2>2, <2>3
<1>6. TypeOK'
  BY <1>1, <1>5 DEF MonitorInv, TypeOK
<1> QED
  BY <1>4, <1>6

\* Commands of the type root change what a trigger may be, only.
LEMMA SentKeepsTriggers ==
  ASSUME MonitorInv, NEW c \in Commands, c.type # "root", commands' = Sent(c),
         UNCHANGED <<cause, events, live, paused, seen>>, rx' = "poll" => rx = "poll"
  PROVE  TriggerInv'
<1>1. QueueInv
  BY DEF MonitorInv
<1>2. /\ Len(commands) \in Nat
      /\ \A i \in 1 .. Len(commands') :
           commands'[i].type = "root" => i \in 1 .. Len(commands) /\ commands'[i] = commands[i]
  BY <1>1, SentQueue, LenProperties DEF QueueInv
<1>3. Out' = Out
  BY DEF Out
<1>4. \A i \in 1 .. Len(commands') :
        commands'[i].type = "root" => /\ seen < commands'[i].gen
                                     /\ \A g \in Out : g < commands'[i].gen
  BY <1>2 DEF MonitorInv, TriggerInv
<1>5. \A i, j \in 1 .. Len(commands') :
        commands'[i].type = "root" /\ commands'[j].type = "root" /\ i < j
          => commands'[i].gen < commands'[j].gen
  BY <1>2 DEF MonitorInv, TriggerInv
<1> QED
  BY <1>3, <1>4, <1>5 DEF MonitorInv, TriggerInv

\* What is sent of a worker is what it does then.
LEMMA SentKeepsSync ==
  ASSUME MonitorInv, NEW c \in Commands, commands' = Sent(c),
         UNCHANGED <<gen, live, table, seen>>, exit' = "no" => exit = "no",
         \A w \in WorkerIds :
           IF Relevant(c, w)
             THEN /\ c.type = "task_started" => task'[w] # Idle /\ c.age = task'[w].age
                  /\ c.type # "task_started" => task'[w] = Idle
             ELSE task'[w] = task[w]
  PROVE  SyncInv'
<1>1. QueueInv
  BY DEF MonitorInv
<1>2. \A d, w : Relevant(d, w)' <=> Relevant(d, w)
  BY DEF Relevant
<1> SUFFICES ASSUME live, exit = "no", NEW w \in WorkerIds
             PROVE  /\ \A i \in 1 .. Len(commands') :
                         /\ Relevant(commands'[i], w)
                         /\ \A j \in 1 .. Len(commands') : Relevant(commands'[j], w) => j <= i
                         => /\ commands'[i].type = "task_started" =>
                                 task'[w] # Idle /\ commands'[i].age = task'[w].age
                            /\ commands'[i].type # "task_started" => task'[w] = Idle
                    /\ (\A i \in 1 .. Len(commands') : ~Relevant(commands'[i], w)) /\ seen = gen =>
                         table[w] = task'[w].age
  BY <1>2 DEF SyncInv
<1>3. /\ Len(commands) \in Nat /\ Len(commands') = Len(commands) + 1
      /\ commands'[Len(commands) + 1] = c /\ Len(commands) + 1 \in 1 .. Len(commands')
      /\ \A i \in 1 .. Len(commands) : commands'[i] = commands[i] /\ i \in 1 .. Len(commands')
      /\ \A i \in 1 .. Len(commands') : i = Len(commands) + 1 \/ i \in 1 .. Len(commands)
  BY <1>1, SentQueue DEF MonitorInv, TaskInv
<1>4. CASE Relevant(c, w)
  <2>1. \A i \in 1 .. Len(commands) : ~(Len(commands) + 1 <= i)
    BY <1>3
  <2> QED
    BY <1>3, <1>4, <2>1
<1>5. CASE ~Relevant(c, w)
  BY <1>3, <1>5 DEF MonitorInv, SyncInv
<1> QED
  BY <1>4, <1>5

\* Only these two types matter to the announcement.
LEMMA SentKeepsAnnounced ==
  ASSUME MonitorInv, NEW c \in Commands, commands' = Sent(c), c.type \notin {"root", "pause"},
         UNCHANGED <<gen, live, up, rx, paused, events, seen>>, exit' = "no" => exit = "no"
  PROVE  Announced'
<1>1. /\ Len(commands) \in Nat
      /\ \A i \in 1 .. Len(commands) : i \in 1 .. Len(commands') /\ commands'[i] = commands[i]
      /\ \A i \in 1 .. Len(commands') :
           \/ commands'[i] = c
           \/ i \in 1 .. Len(commands)
  BY SentQueue, LenProperties DEF QueueInv, MonitorInv
<1> QED
  BY <1>1 DEF MonitorInv, Announced

LEMMA SentKeepsTruth ==
  ASSUME MonitorInv, NEW c \in Commands, commands' = Sent(c), c.type # "root",
         UNCHANGED <<server, up, gen, live, root, events, seen, place, table, exceeded>>,
         rx' \in {"poll", "pool"} => rx = rx', exit' = "no" => exit = "no",
         \A w \in WorkerIds : task'[w].age > Deadline => task[w].age > Deadline
  PROVE  TruthInv'
<1>1. /\ Len(commands) \in Nat
      /\ \A i \in 1 .. Len(commands') :
           \/ commands'[i] = c
           \/ i \in 1 .. Len(commands) /\ commands'[i] = commands[i]
  BY SentQueue, LenProperties DEF QueueInv, MonitorInv
<1> QED
  BY <1>1 DEF MonitorInv, TruthInv

LEMMA SentKeepsAge ==
  ASSUME MonitorInv, NEW c \in Commands, commands' = Sent(c),
         UNCHANGED <<gen, live, events, monitorVars>>,
         rx' \in {"poll", "ended"} => rx = rx', exit' = "no" => exit = "no",
         \A w \in WorkerIds :
           \/ task'[w] = Idle
           \/ task'[w] = task[w] /\ ~Relevant(c, w)
           \/ task'[w].age = 0
  PROVE  AgeInv'
<1>1. /\ UNCHANGED <<live, place, seen, root, paused, table, sincePoll, sleep>>
      /\ sleep \in 0 .. MemPoll /\ sincePoll \in Nat
  BY Numbers DEF monitorVars, MonitorInv, TypeOK
<1>2. CASE exit' = "no" /\ live /\ ~Reported'
  <2>1. ~Reported
    BY <1>2 DEF MonitorInv, TaskInv, Reported
  <2>2. /\ Len(commands) \in Nat
        /\ \A i \in 1 .. Len(commands') :
             \/ commands'[i] = c
             \/ i \in 1 .. Len(commands) /\ commands'[i] = commands[i]
    BY SentQueue, LenProperties DEF QueueInv, MonitorInv
  <2>3. \A w \in WorkerIds : Queued(w)' => Queued(w) \/ Relevant(c, w)
    BY <2>2 DEF Queued, Relevant
  <2>4. /\ 0 <= Deadline + sincePoll /\ 0 <= MemPoll
        /\ 0 + (IF place = "sleep" THEN sleep ELSE 0) <= Deadline + Poll - 1 + MemPoll
        /\ place = "sleep" => 0 + sleep <= MemPoll
    BY <1>1, Numbers
  <2> QED
    BY <1>1, <1>2, <2>1, <2>3, <2>4 DEF MonitorInv, AgeInv
<1>3. CASE ~(exit' = "no" /\ live /\ ~Reported')
  BY <1>1, <1>3 DEF MonitorInv, AgeInv
<1> QED
  BY <1>2, <1>3

LEMMA FlagFatalKeepsInv ==
  ASSUME MonitorInv, FlagFatal
  PROVE  MonitorInv'
<1> DEFINE c == Command("fatal", gen, 0)
<1>1. /\ commands' = Sent(c) /\ panics' \subseteq panics
      /\ UNCHANGED <<server, up, faults, ownerVars, rxVars, exit, events, monitorVars, exceeded>>
  BY DEF FlagFatal
<1>2. WellFormed(c) /\ c \in Commands /\ c.type = "fatal"
  BY Numbers DEF WellFormed, Command, Commands, CommandTypes, MonitorInv, TypeOK
<1> HIDE DEF c
<1>3. UNCHANGED <<gen, ready, stop, handle, open, task, begun, leaving, rx, cause, live, seen,
                  table, paused, root, place>>
  BY <1>1 DEF ownerVars, rxVars, monitorVars
<1>4. TypeOK' /\ QueueInv'
  <2>1. /\ ready' \in BOOLEAN /\ stop' \in BOOLEAN /\ begun' \in 0 .. MaxTasks
        /\ task' \in [WorkerIds -> [token : Nat, age : Age]]
        /\ leaving' \subseteq WorkerIds \X (1 .. gen)
        /\ rx' \in {"poll", "recover", "kill", "connect", "start", "pool", "ended"}
        /\ exit' \in Exits
    BY <1>1, <1>3 DEF MonitorInv, TypeOK
  <2> QED
    BY <1>1, <1>2, <1>3, <2>1, SentKeepsType
<1>5. TaskInv'
  BY <1>1, <1>3 DEF MonitorInv, TaskInv
<1>6. \A w : ~Relevant(c, w)
  BY <1>2 DEF Relevant
<1> QED
  BY <1>1, <1>2, <1>3, <1>4, <1>5, <1>6, SentKeepsTriggers, SentKeepsSync, SentKeepsAnnounced,
     SentKeepsTruth, SentKeepsAge DEF MonitorInv

LEMMA StartTaskKeepsInv ==
  ASSUME MonitorInv, NEW w \in WorkerIds, StartTask(w)
  PROVE  MonitorInv'
<1> DEFINE c == Command("task_started", gen, w)
<1>1. /\ commands' = Sent(c) /\ task' = [task EXCEPT ![w] = [token |-> gen, age |-> 0]]
      /\ ready /\ task[w] = Idle /\ begun < MaxTasks /\ begun' = begun + 1
      /\ UNCHANGED <<serverVars, gen, ready, stop, handle, open, leaving, rxVars, exit, events,
                     monitorVars, exceeded>>
  BY DEF StartTask
<1>2. /\ WellFormed(c) /\ c \in Commands /\ c.type = "task_started" /\ c.arg = w /\ c.age = 0
      /\ c.gen = gen
  BY Numbers DEF WellFormed, Command, Commands, CommandTypes, MonitorInv, TypeOK
<1> HIDE DEF c
<1>3. UNCHANGED <<server, up, panics, faults, gen, rx, cause, live, seen, table, paused, root,
                  place>>
  BY <1>1 DEF serverVars, rxVars, monitorVars
<1>4. /\ \A v \in WorkerIds : v # w => task'[v] = task[v]
      /\ task'[w].age = 0 /\ task'[w].token = gen /\ task'[w] # Idle
      /\ task' \in [WorkerIds -> [token : Nat, age : Age]]
  <2>1. /\ task \in [WorkerIds -> [token : Nat, age : Age]] /\ gen \in Nat /\ 0 \in Age
    BY Numbers DEF MonitorInv, TypeOK
  <2>2. task'[w] = [token |-> gen, age |-> 0] /\ \A v \in WorkerIds : v # w => task'[v] = task[v]
    BY <1>1, <2>1
  <2>3. task'[w] # Idle
    BY <2>2, Numbers
  <2> QED
    BY <1>1, <2>1, <2>2, <2>3
<1>5. TypeOK' /\ QueueInv'
  <2>1. begun' \in 0 .. MaxTasks
    BY <1>1, MonitorAssumption DEF MonitorInv, TypeOK
  <2>2. /\ ready' \in BOOLEAN /\ stop' \in BOOLEAN
        /\ leaving' \subseteq WorkerIds \X (1 .. gen)
        /\ rx' \in {"poll", "recover", "kill", "connect", "start", "pool", "ended"}
        /\ exit' \in Exits
    BY <1>1, <1>3 DEF MonitorInv, TypeOK
  <2> QED
    BY <1>1, <1>2, <1>3, <1>4, <2>1, <2>2, SentKeepsType
<1>6. TaskInv'
  BY <1>1, <1>3, <1>4, Numbers DEF MonitorInv, TaskInv
<1>7. \A v \in WorkerIds : Relevant(c, v) <=> v = w
  BY <1>2 DEF Relevant
<1>8. SyncInv'
  BY <1>1, <1>2, <1>3, <1>4, <1>7, SentKeepsSync
<1>9. TriggerInv' /\ Announced'
  BY <1>1, <1>2, <1>3, SentKeepsTriggers, SentKeepsAnnounced
<1>10. TruthInv'
  <2>1. \A v \in WorkerIds : task'[v].age > Deadline => task[v].age > Deadline
    BY <1>4, Numbers
  <2> QED
    BY <1>1, <1>2, <1>3, <2>1, SentKeepsTruth
<1>11. AgeInv'
  BY <1>1, <1>2, <1>3, <1>4, <1>7, SentKeepsAge
<1> QED
  BY <1>5, <1>6, <1>8, <1>9, <1>10, <1>11 DEF MonitorInv

LEMMA FinishTaskKeepsInv ==
  ASSUME MonitorInv, NEW w \in WorkerIds, FinishTask(w)
  PROVE  MonitorInv'
<1> DEFINE c == Command("task_finished", gen, w)
<1>1. /\ task' = [task EXCEPT ![w] = Idle]
      /\ task[w] # Idle /\ commands' = Sent(Command("task_finished", task[w].token, w))
      /\ UNCHANGED <<serverVars, gen, ready, stop, handle, open, begun, leaving, rxVars, exit,
                     events, monitorVars, exceeded>>
  BY DEF FinishTask, Token
<1>2. commands' = Sent(c)
  BY <1>1 DEF MonitorInv, TaskInv
<1>3. /\ WellFormed(c) /\ c \in Commands /\ c.type = "task_finished" /\ c.arg = w /\ c.gen = gen
  BY Numbers DEF WellFormed, Command, Commands, CommandTypes, MonitorInv, TypeOK
<1> HIDE DEF c
<1>4. UNCHANGED <<server, up, panics, faults, gen, rx, cause, live, seen, table, paused, root,
                  place>>
  BY <1>1 DEF serverVars, rxVars, monitorVars
<1>5. /\ \A v \in WorkerIds : v # w => task'[v] = task[v]
      /\ task'[w] = Idle
      /\ task' \in [WorkerIds -> [token : Nat, age : Age]]
  <2>1. task \in [WorkerIds -> [token : Nat, age : Age]]
    BY DEF MonitorInv, TypeOK
  <2>2. Idle \in [token : Nat, age : Age]
    BY Numbers DEF Idle
  <2> QED
    BY <1>1, <2>1, <2>2
<1>6. TypeOK' /\ QueueInv'
  <2>1. /\ ready' \in BOOLEAN /\ stop' \in BOOLEAN /\ begun' \in 0 .. MaxTasks
        /\ leaving' \subseteq WorkerIds \X (1 .. gen)
        /\ rx' \in {"poll", "recover", "kill", "connect", "start", "pool", "ended"}
        /\ exit' \in Exits
    BY <1>1, <1>4 DEF MonitorInv, TypeOK
  <2> QED
    BY <1>1, <1>2, <1>3, <1>4, <1>5, <2>1, SentKeepsType
<1>7. TaskInv'
  BY <1>1, <1>4, <1>5 DEF MonitorInv, TaskInv
<1>8. \A v \in WorkerIds : Relevant(c, v) <=> v = w
  BY <1>3 DEF Relevant
<1>9. SyncInv'
  BY <1>1, <1>2, <1>3, <1>4, <1>5, <1>8, SentKeepsSync
<1>10. TriggerInv' /\ Announced'
  BY <1>1, <1>2, <1>3, <1>4, SentKeepsTriggers, SentKeepsAnnounced
<1>11. TruthInv'
  <2>1. \A v \in WorkerIds : task'[v].age > Deadline => task[v].age > Deadline
    BY <1>5, Numbers
  <2> QED
    BY <1>1, <1>2, <1>3, <1>4, <2>1, SentKeepsTruth
<1>12. AgeInv'
  BY <1>1, <1>2, <1>3, <1>4, <1>5, <1>8, SentKeepsAge
<1> QED
  BY <1>6, <1>7, <1>9, <1>10, <1>11, <1>12 DEF MonitorInv

\* The thread of a replaced pool has the token of this generation as long as nothing
\* runs in it.
LEMMA FinishOldTaskKeepsInv ==
  ASSUME MonitorInv, NEW w \in WorkerIds, NEW token \in 1 .. gen, FinishOldTask(w, token)
  PROVE  MonitorInv'
<1> DEFINE c == Command("task_finished", token, w)
<1>1. /\ commands' = Sent(c) /\ <<w, token>> \in leaving /\ leaving' \subseteq leaving
      /\ UNCHANGED <<serverVars, gen, ready, stop, handle, open, task, begun, rxVars, exit,
                     events, monitorVars, exceeded>>
  BY DEF FinishOldTask, Token
<1>2. gen \in Nat /\ token \in Nat /\ token <= gen
  BY DEF MonitorInv, TypeOK
<1>3. /\ WellFormed(c) /\ c \in Commands /\ c.type = "task_finished" /\ c.arg = w
      /\ c.gen = token
  BY <1>2, Numbers DEF WellFormed, Command, Commands, CommandTypes
<1> HIDE DEF c
<1>4. UNCHANGED <<server, up, panics, faults, gen, rx, cause, live, seen, table, paused, root,
                  place>>
  BY <1>1 DEF serverVars, rxVars, monitorVars
<1>5. TypeOK' /\ QueueInv'
  <2>1. /\ ready' \in BOOLEAN /\ stop' \in BOOLEAN /\ begun' \in 0 .. MaxTasks
        /\ task' \in [WorkerIds -> [token : Nat, age : Age]]
        /\ leaving' \subseteq WorkerIds \X (1 .. gen)
        /\ rx' \in {"poll", "recover", "kill", "connect", "start", "pool", "ended"}
        /\ exit' \in Exits
    BY <1>1, <1>4 DEF MonitorInv, TypeOK
  <2> QED
    BY <1>1, <1>3, <1>4, <2>1, SentKeepsType
<1>6. TaskInv'
  BY <1>1, <1>4 DEF MonitorInv, TaskInv
<1>7. \A v \in WorkerIds : Relevant(c, v) => v = w /\ task[v] = Idle
  <2>1. token = gen => task[w] = Idle
    BY <1>1, <1>2 DEF MonitorInv, TaskInv
  <2> QED
    BY <1>3, <2>1 DEF Relevant
<1>8. SyncInv'
  BY <1>1, <1>3, <1>4, <1>7, SentKeepsSync
<1>9. TriggerInv' /\ Announced' /\ TruthInv'
  BY <1>1, <1>3, <1>4, SentKeepsTriggers, SentKeepsAnnounced, SentKeepsTruth
<1>10. AgeInv'
  BY <1>1, <1>3, <1>4, <1>7, SentKeepsAge
<1> QED
  BY <1>5, <1>6, <1>8, <1>9, <1>10 DEF MonitorInv

\* The interrupted tasks leave with the token of this generation.
LEMMA BeginRestartKeepsInv ==
  ASSUME MonitorInv, BeginRestart
  PROVE  MonitorInv'
<1> DEFINE c == Command("pause", gen, 0)
<1>1. /\ commands' = Sent(c) /\ rx = "recover" /\ rx' = "kill" /\ ready' = FALSE
      /\ leaving' = leaving \cup
           {<<w, task[w].token>> : w \in {v \in WorkerIds : task[v] # Idle}}
      /\ task' = [w \in WorkerIds |-> Idle]
      /\ UNCHANGED <<serverVars, gen, stop, handle, open, begun, cause, exit, events,
                     monitorVars, exceeded>>
  BY DEF BeginRestart
<1>2. /\ WellFormed(c) /\ c \in Commands /\ c.type = "pause"
  BY Numbers DEF WellFormed, Command, Commands, CommandTypes, MonitorInv, TypeOK
<1> HIDE DEF c
<1>3. UNCHANGED <<server, up, panics, faults, gen, cause, live, seen, table, paused, root,
                  place>>
  BY <1>1 DEF serverVars, monitorVars
<1>4. /\ \A w \in WorkerIds : task'[w] = Idle
      /\ task' \in [WorkerIds -> [token : Nat, age : Age]]
  <2>1. Idle \in [token : Nat, age : Age]
    BY Numbers DEF Idle
  <2> QED
    BY <1>1, <2>1
<1>5. TypeOK' /\ QueueInv'
  <2>1. leaving' \subseteq WorkerIds \X (1 .. gen)
    <3>1. gen \in 1 .. gen /\ leaving \subseteq WorkerIds \X (1 .. gen)
      BY DEF MonitorInv, TypeOK, QueueInv
    <3>2. \A w \in WorkerIds : task[w] # Idle => task[w].token = gen
      BY DEF MonitorInv, TaskInv
    <3> QED
      BY <1>1, <3>1, <3>2
  <2>2. ready' \in BOOLEAN /\ stop' \in BOOLEAN
    <3>1. stop \in BOOLEAN
      BY DEF MonitorInv, TypeOK
    <3> QED
      BY <1>1, <3>1, Zenon
  <2>3. begun' \in 0 .. MaxTasks /\ exit' \in Exits
    BY <1>1, <1>3 DEF MonitorInv, TypeOK
  <2> QED
    BY <1>1, <1>2, <1>3, <1>4, <2>1, <2>2, <2>3, SentKeepsType
<1>6. TaskInv'
  BY <1>1, <1>3, <1>4 DEF MonitorInv, TaskInv
<1>7. \A v : Relevant(c, v)
  BY <1>2 DEF Relevant
<1>8. SyncInv'
  BY <1>1, <1>2, <1>3, <1>4, <1>7, SentKeepsSync
<1>9. TriggerInv'
  BY <1>1, <1>2, <1>3, SentKeepsTriggers
<1>10. Announced'
  BY <1>1 DEF Announced
<1>11. TruthInv'
  <2>1. \A v \in WorkerIds : task'[v].age > Deadline => task[v].age > Deadline
    BY <1>4, Numbers
  <2> QED
    BY <1>1, <1>2, <1>3, <2>1, SentKeepsTruth
<1>12. AgeInv'
  BY <1>1, <1>2, <1>3, <1>4, SentKeepsAge
<1> QED
  BY <1>5, <1>6, <1>8, <1>9, <1>10, <1>11, <1>12 DEF MonitorInv

LEMMA BeginStopKeepsInv ==
  ASSUME MonitorInv, BeginStop
  PROVE  MonitorInv'
<1> DEFINE c == Command("stop", 0, 0)
<1>1. /\ commands' = Sent(c) /\ exit' = "monitor" /\ stop' = TRUE
      /\ UNCHANGED <<serverVars, gen, ready, handle, open, task, begun, leaving, rxVars,
                     events, monitorVars, exceeded>>
  BY DEF BeginStop
<1>2. /\ WellFormed(c) /\ c \in Commands /\ c.type = "stop"
  BY Numbers DEF WellFormed, Command, Commands, CommandTypes, MonitorInv, TypeOK
<1> HIDE DEF c
<1>3. UNCHANGED <<server, up, panics, faults, gen, rx, cause, live, seen, table, paused, root,
                  place>>
  BY <1>1 DEF serverVars, rxVars, monitorVars
<1>4. TypeOK' /\ QueueInv'
  <2>1. ready' \in BOOLEAN /\ stop' \in BOOLEAN
    <3>1. ready \in BOOLEAN
      BY DEF MonitorInv, TypeOK
    <3> QED
      BY <1>1, <3>1, Zenon
  <2>2. /\ begun' \in 0 .. MaxTasks
        /\ task' \in [WorkerIds -> [token : Nat, age : Age]]
        /\ leaving' \subseteq WorkerIds \X (1 .. gen)
        /\ rx' \in {"poll", "recover", "kill", "connect", "start", "pool", "ended"}
    BY <1>1, <1>3 DEF MonitorInv, TypeOK
  <2>3. exit' \in Exits
    BY <1>1 DEF Exits
  <2> QED
    BY <1>1, <1>2, <1>3, <2>1, <2>2, <2>3, SentKeepsType
<1>5. TaskInv'
  BY <1>1, <1>3 DEF MonitorInv, TaskInv
<1>6. SyncInv' /\ Announced'
  BY <1>1 DEF SyncInv, Announced
<1>7. TriggerInv' /\ TruthInv'
  BY <1>1, <1>2, <1>3, SentKeepsTriggers, SentKeepsTruth
<1>8. \A v : ~Relevant(c, v)
  BY <1>2 DEF Relevant
<1>9. AgeInv'
  BY <1>1, <1>2, <1>3, <1>8, SentKeepsAge
<1> QED
  BY <1>4, <1>5, <1>6, <1>7, <1>9 DEF MonitorInv

-----------------------------------------------------------------------------
(* The rounds of the monitor                                               *)

\* An unreported task that no command is about is known to the monitor.
LEMMA Known ==
  ASSUME MonitorInv, live, exit = "no", ~Reported, NEW w \in WorkerIds, ~Queued(w)
  PROVE  seen = gen /\ table[w] = task[w].age /\ ~paused
<1>1. rx = "poll"
  BY DEF Reported, MonitorInv, TypeOK, TaskInv
<1>2. \A i \in 1 .. Len(commands) : ~Relevant(commands[i], w)
  BY DEF Queued
<1>3. seen = gen
  BY <1>1, <1>2 DEF MonitorInv, Announced, Relevant
<1>4. ~paused
  <2>1. \A i \in 1 .. Len(events) : i \in DOMAIN events
    BY LenProperties DEF MonitorInv, QueueInv
  <2> QED
    BY <1>1, <1>3, <2>1 DEF MonitorInv, Announced, Reported
<1> QED
  BY <1>2, <1>3, <1>4 DEF MonitorInv, SyncInv

\* The monitor goes on to its next place, and nobody else sees it.
LEMMA PlaceKeepsInv ==
  ASSUME MonitorInv,
         UNCHANGED <<serverVars, ownerVars, rxVars, exit, commands, events, live,
                     seen, root, paused, table, exceeded>>,
         place' \in {"drain", "look", "sleep"}, sincePoll' \in 0 .. Poll + MemPoll,
         sleep' \in 0 .. MemPoll
  PROVE  /\ TypeOK' /\ QueueInv' /\ TaskInv' /\ TriggerInv' /\ SyncInv' /\ Announced'
         /\ (exit = "no" /\ live /\ place' = "look" /\ seen = gen =>
               \A w \in WorkerIds : table[w] > Deadline => exceeded) => TruthInv'
         /\ Reported' <=> Reported
         /\ \A w \in WorkerIds : Queued(w)' <=> Queued(w)
<1>1. UNCHANGED <<server, up, panics, faults, gen, ready, stop, handle, open, task, begun,
                  leaving, rx, cause>>
  BY DEF serverVars, ownerVars, rxVars
<1>2. TypeOK'
  BY <1>1 DEF MonitorInv, TypeOK
<1>3. QueueInv'
  BY <1>1 DEF MonitorInv, QueueInv, WellFormed
<1>4. TaskInv'
  BY <1>1 DEF MonitorInv, TaskInv
<1>5. TriggerInv'
  BY <1>1 DEF MonitorInv, TriggerInv, Out
<1>6. SyncInv'
  BY <1>1 DEF MonitorInv, SyncInv, Relevant
<1>7. Announced'
  BY <1>1 DEF MonitorInv, Announced
<1>8. (exit = "no" /\ live /\ place' = "look" /\ seen = gen =>
         \A w \in WorkerIds : table[w] > Deadline => exceeded) => TruthInv'
  BY <1>1 DEF MonitorInv, TruthInv
<1>9. /\ Reported' <=> Reported
      /\ \A w \in WorkerIds : Queued(w)' <=> Queued(w)
  BY <1>1 DEF Reported, Queued, Relevant
<1> QED
  BY <1>2, <1>3, <1>4, <1>5, <1>6, <1>7, <1>8, <1>9

LEMMA DrainedKeepsInv ==
  ASSUME MonitorInv, Drained
  PROVE  MonitorInv'
<1>1. /\ live /\ place = "drain" /\ commands = <<>>
      /\ place' = IF paused THEN "sleep" ELSE "look"
      /\ sleep' = IF paused THEN 1 ELSE sleep
      /\ UNCHANGED <<serverVars, ownerVars, rxVars, exit, commands, events, live, seen, root,
                     paused, table, sincePoll, exceeded>>
  BY DEF Drained
<1>2. UNCHANGED <<gen, task, rx>>
  BY <1>1 DEF ownerVars, rxVars
<1>3. /\ place' \in {"drain", "look", "sleep"} /\ sincePoll' \in 0 .. Poll + MemPoll
      /\ sleep' \in 0 .. MemPoll
  BY <1>1, MonitorAssumption DEF MonitorInv, TypeOK
<1>4. \A w \in WorkerIds : ~Queued(w)
  BY <1>1 DEF Queued
<1>5. exit = "no" /\ live /\ place' = "look" /\ seen = gen =>
        \A w \in WorkerIds : table[w] > Deadline => exceeded
  BY <1>4 DEF Queued, MonitorInv, SyncInv, TruthInv
<1>6. /\ TypeOK' /\ QueueInv' /\ TaskInv' /\ TriggerInv' /\ SyncInv' /\ Announced' /\ TruthInv'
      /\ Reported' <=> Reported
      /\ \A w \in WorkerIds : Queued(w)' <=> Queued(w)
  BY <1>1, <1>3, <1>5, PlaceKeepsInv
<1>7. AgeInv'
  <2>1. live' /\ paused' /\ place' # "drain" => place' = "sleep" /\ sleep' <= 1
    BY <1>1
  <2>2. ASSUME exit = "no", ~Reported, NEW w \in WorkerIds, task[w] # Idle
        PROVE  /\ sincePoll' < Poll => task'[w].age <= Deadline + sincePoll'
               /\ task'[w].age + (IF place' = "sleep" THEN sleep' ELSE 0)
                    <= Deadline + Poll - 1 + MemPoll
    <3>1. ~paused
      BY <1>1, <1>4, <2>2, Known
    <3> QED
      BY <1>1, <1>2, <2>2, <3>1 DEF MonitorInv, AgeInv
  <2> QED
    BY <1>1, <1>2, <1>4, <1>6, <2>1, <2>2 DEF AgeInv
<1> QED
  BY <1>6, <1>7 DEF MonitorInv

LEMMA WakeKeepsInv ==
  ASSUME MonitorInv, Wake
  PROVE  MonitorInv'
<1>1. /\ live /\ place = "sleep" /\ sleep = 0 /\ place' = "drain"
      /\ UNCHANGED <<serverVars, ownerVars, rxVars, exit, commands, events, live, seen, root,
                     paused, table, sincePoll, sleep, exceeded>>
  BY DEF Wake
<1>2. UNCHANGED <<gen, task, rx>>
  BY <1>1 DEF ownerVars, rxVars
<1>3. /\ place' \in {"drain", "look", "sleep"} /\ sincePoll' \in 0 .. Poll + MemPoll
      /\ sleep' \in 0 .. MemPoll
  BY <1>1 DEF MonitorInv, TypeOK
<1>4. /\ TypeOK' /\ QueueInv' /\ TaskInv' /\ TriggerInv' /\ SyncInv' /\ Announced' /\ TruthInv'
      /\ Reported' <=> Reported
      /\ \A w \in WorkerIds : Queued(w)' <=> Queued(w)
  BY <1>1, <1>3, PlaceKeepsInv
<1>5. \A w \in WorkerIds : task[w].age + 0 = task[w].age
  BY Numbers DEF MonitorInv, TypeOK
<1>6. AgeInv'
  BY <1>1, <1>2, <1>4, <1>5 DEF MonitorInv, AgeInv
<1> QED
  BY <1>4, <1>6 DEF MonitorInv

-----------------------------------------------------------------------------
(* Events                                                                  *)

LEMMA ReceiveEventKeepsInv ==
  ASSUME MonitorInv, ReceiveEvent
  PROVE  MonitorInv'
<1> DEFINE e == Head(events)
<1>1. /\ rx = "poll" /\ events # <<>> /\ events' = Tail(events)
      /\ rx' \in {"ended", "recover", "poll"}
      /\ rx' = "ended" <=> e.trigger = "stop"
      /\ rx' = "recover" <=> e.trigger # "stop" /\ e.gen = gen
      /\ cause' = IF rx' = "recover" THEN e ELSE NoCause
      /\ UNCHANGED <<serverVars, ownerVars, exit, commands, monitorVars, exceeded>>
  BY DEF ReceiveEvent, IsCurrent
<1>2. UNCHANGED <<server, up, panics, faults, gen, ready, stop, handle, open, task, begun,
                  leaving, live, place, seen, root, paused, table, sincePoll, sleep>>
  BY <1>1 DEF serverVars, ownerVars, monitorVars
<1>3. /\ e = events[1] /\ e \in Events /\ 1 \in 1 .. Len(events)
      /\ events' \in Seq(Events) /\ Len(events) \in Nat \ {0} /\ Len(events') = Len(events) - 1
      /\ \A i \in 1 .. Len(events') : events'[i] = events[i + 1] /\ i + 1 \in 1 .. Len(events)
      /\ \A i \in 1 .. Len(events) :
           i = 1 \/ (i - 1 \in 1 .. Len(events') /\ events'[i - 1] = events[i])
  BY <1>1, QueueTail DEF MonitorInv, QueueInv
<1> HIDE DEF e
<1>4. /\ DOMAIN events = 1 .. Len(events) /\ DOMAIN events' = 1 .. Len(events')
  BY <1>3, LenProperties DEF MonitorInv, QueueInv
<1>5. /\ cause' \in Causes /\ cause'.gen <= gen /\ cause'.gen \in Nat
      /\ cause'.trigger \in Triggers \cup {"none", "watchdog_death"}
      /\ cause'.ids \subseteq WorkerIds
      /\ cause'.trigger \in Triggers => e.trigger # "stop" /\ cause' = e
  <2>1. CASE rx' = "recover"
    <3>1. cause' = e /\ e.trigger # "stop" /\ e.gen = gen
      BY <1>1, <2>1
    <3>2. e \in Causes
      BY <1>3, <3>1 DEF Events, Causes
    <3> QED
      BY <3>1, <3>2 DEF Causes, MonitorInv, QueueInv, TypeOK
  <2>2. CASE rx' # "recover"
    BY <1>1, <2>2 DEF NoCause, Causes, Triggers, MonitorInv, TypeOK
  <2> QED
    BY <2>1, <2>2
<1>6. TypeOK'
  <2>1. \A i \in DOMAIN events' :
          events'[i].trigger \in Triggers \cup {"stop"} /\ events'[i].gen \in 0 .. gen
    BY <1>3, <1>4 DEF MonitorInv, TypeOK
  <2>2. rx' \in {"poll", "recover", "kill", "connect", "start", "pool", "ended"}
    BY <1>1
  <2> QED
    BY <1>1, <1>2, <1>5, <2>1, <2>2 DEF MonitorInv, TypeOK
<1>7. QueueInv'
  <2>1. \A c : WellFormed(c)' <=> WellFormed(c)
    BY <1>2 DEF WellFormed
  <2> QED
    BY <1>1, <1>2, <1>3, <1>5, <2>1 DEF MonitorInv, QueueInv
<1>8. TaskInv'
  <2>1. exit = "no" => e.trigger # "stop"
    BY <1>3 DEF MonitorInv, TaskInv
  <2> QED
    BY <1>1, <1>2, <1>3, <2>1 DEF MonitorInv, TaskInv
<1>9. TriggerInv'
  <2>1. \A g \in Out' : g \in Out
    <3>1. ASSUME NEW i \in 1 .. Len(events'), events'[i].trigger # "stop"
          PROVE  events'[i].gen \in Out
      BY <1>3, <3>1 DEF Out
    <3>2. cause'.trigger \in Triggers => cause'.gen \in Out
      BY <1>3, <1>5 DEF Out
    <3> QED
      BY <3>1, <3>2 DEF Out
  <2>2. \A i, j \in 1 .. Len(events') :
          events'[i].trigger # "stop" /\ events'[j].trigger # "stop" /\ i # j
            => events'[i].gen # events'[j].gen
    <3> SUFFICES ASSUME NEW i \in 1 .. Len(events'), NEW j \in 1 .. Len(events'),
                        events'[i].trigger # "stop", events'[j].trigger # "stop", i # j
                 PROVE  events'[i].gen # events'[j].gen
      OBVIOUS
    <3>1. /\ i + 1 \in 1 .. Len(events) /\ j + 1 \in 1 .. Len(events) /\ i + 1 # j + 1
          /\ events'[i] = events[i + 1] /\ events'[j] = events[j + 1]
      BY <1>3
    <3>2. \A k, l \in 1 .. Len(events) :
            events[k].trigger # "stop" /\ events[l].trigger # "stop" /\ k # l
              => events[k].gen # events[l].gen
      BY DEF MonitorInv, TriggerInv
    <3> QED
      BY <3>1, <3>2
  <2>3. cause'.trigger \in Triggers =>
          \A i \in 1 .. Len(events') : events'[i].trigger # "stop" => events'[i].gen # cause'.gen
    <3>1. \A i \in 1 .. Len(events') : i + 1 # 1
      OBVIOUS
    <3> QED
      BY <1>3, <1>5, <3>1 DEF MonitorInv, TriggerInv
  <2>4. rx' = "poll" => cause' = NoCause
    BY <1>1
  <2> QED
    BY <1>1, <1>2, <2>1, <2>2, <2>3, <2>4 DEF MonitorInv, TriggerInv
<1>10. SyncInv'
  BY <1>1, <1>2 DEF MonitorInv, SyncInv, Relevant
<1>11. rx' = "poll" =>
         ((\E i \in 1 .. Len(events) : events[i].gen = gen) =>
           \E i \in 1 .. Len(events') : events'[i].gen = gen)
  <2>1. rx' = "poll" => e.gen # gen
    BY <1>1
  <2> QED
    BY <1>3, <2>1
<1>12. Announced'
  BY <1>1, <1>2, <1>11 DEF MonitorInv, Announced
<1>13. TruthInv'
  BY <1>1, <1>2, <1>3 DEF MonitorInv, TruthInv
<1>14. AgeInv'
  <2>1. exit = "no" => rx' # "ended"
    BY <1>8, <1>1 DEF TaskInv
  <2>2. exit = "no" => (Reported => Reported')
    BY <1>1, <1>2, <1>4, <1>11, <2>1 DEF Reported
  <2>3. \A w \in WorkerIds : Queued(w)' <=> Queued(w)
    BY <1>1, <1>2 DEF Queued, Relevant
  <2> QED
    BY <1>1, <1>2, <2>2, <2>3 DEF MonitorInv, AgeInv
<1> QED
  BY <1>6, <1>7, <1>8, <1>9, <1>10, <1>12, <1>13, <1>14 DEF MonitorInv

\* The stop event is no trigger; it is put when exit() runs.
LEMMA ForgetMonitorKeepsInv ==
  ASSUME MonitorInv, ForgetMonitor
  PROVE  MonitorInv'
<1> DEFINE e == [trigger |-> "stop", gen |-> 0, ids |-> {}]
<1>1. /\ exit' = "receiver" /\ handle' = FALSE /\ events' = Append(events, e)
      /\ UNCHANGED <<serverVars, gen, ready, stop, open, task, begun, leaving, rxVars,
                     commands, monitorVars, exceeded>>
  BY DEF ForgetMonitor
<1>2. UNCHANGED <<server, up, panics, faults, rx, cause, live, place, seen, root, paused, table,
                  sincePoll, sleep>>
  BY <1>1 DEF serverVars, rxVars, monitorVars
<1>3. e \in Events /\ e.trigger = "stop" /\ e.gen = 0 /\ gen \in Nat /\ 0 \in 0 .. gen /\ 0 <= gen
  BY DEF Events, MonitorInv, TypeOK
<1> HIDE DEF e
<1>4. /\ events' \in Seq(Events) /\ Len(events) \in Nat /\ Len(events') = Len(events) + 1
      /\ events'[Len(events) + 1] = e
      /\ \A i \in 1 .. Len(events) : events'[i] = events[i] /\ i \in 1 .. Len(events')
      /\ \A i \in 1 .. Len(events') : i = Len(events) + 1 \/ i \in 1 .. Len(events)
  BY <1>1, <1>3, AppendedQueue DEF MonitorInv, QueueInv
<1>5. /\ DOMAIN events = 1 .. Len(events) /\ DOMAIN events' = 1 .. Len(events')
  BY <1>4, LenProperties DEF MonitorInv, QueueInv
<1>6. TypeOK'
  <2>1. \A i \in DOMAIN events' :
          events'[i].trigger \in Triggers \cup {"stop"} /\ events'[i].gen \in 0 .. gen
    BY <1>3, <1>4, <1>5 DEF MonitorInv, TypeOK
  <2>2. handle' \in BOOLEAN
    BY <1>1, Zenon
  <2>3. exit' \in Exits
    BY <1>1 DEF Exits
  <2> QED
    BY <1>1, <1>2, <2>1, <2>2, <2>3 DEF MonitorInv, TypeOK
<1>7. QueueInv'
  <2>1. \A c : WellFormed(c)' <=> WellFormed(c)
    BY <1>1, <1>2 DEF WellFormed
  <2> QED
    BY <1>1, <1>2, <1>3, <1>4, <2>1 DEF MonitorInv, QueueInv
<1>8. TaskInv'
  BY <1>1, <1>2 DEF MonitorInv, TaskInv
<1>9. TriggerInv'
  <2>1. \A i \in 1 .. Len(events') :
          events'[i].trigger # "stop" => i \in 1 .. Len(events) /\ events'[i] = events[i]
    BY <1>3, <1>4
  <2>2. \A g \in Out' : g \in Out
    BY <1>2, <2>1 DEF Out
  <2> QED
    BY <1>1, <1>2, <2>1, <2>2 DEF MonitorInv, TriggerInv
<1>10. SyncInv' /\ Announced'
  BY <1>1 DEF SyncInv, Announced
<1>11. TruthInv' /\ AgeInv'
  BY <1>1, <1>2 DEF MonitorInv, TruthInv, AgeInv
<1> QED
  BY <1>6, <1>7, <1>8, <1>9, <1>10, <1>11 DEF MonitorInv

LEMMA CloseQueuesKeepsInv ==
  ASSUME MonitorInv, CloseQueues
  PROVE  MonitorInv'
<1>1. /\ exit = "queues" /\ exit' = "notify" /\ open' = FALSE /\ events' = <<>> /\ commands' = <<>>
      /\ UNCHANGED <<serverVars, gen, ready, stop, handle, task, begun, leaving, rxVars,
                     monitorVars, exceeded>>
  BY DEF CloseQueues
<1>2. UNCHANGED <<server, up, panics, faults, rx, cause, live, place, seen, root, paused, table,
                  sincePoll, sleep>>
  BY <1>1 DEF serverVars, rxVars, monitorVars
<1>3. /\ events' \in Seq(Events) /\ Len(events') = 0 /\ commands' \in Seq(Commands)
      /\ Len(commands') = 0 /\ DOMAIN events' = {} /\ DOMAIN commands' = {}
  BY <1>1
<1>4. TypeOK'
  <2>1. open' \in BOOLEAN
    BY <1>1, Zenon
  <2>2. exit' \in Exits
    BY <1>1 DEF Exits
  <2> QED
    BY <1>1, <1>2, <1>3, <2>1, <2>2 DEF MonitorInv, TypeOK
<1>5. QueueInv' /\ TaskInv'
  BY <1>1, <1>2, <1>3 DEF MonitorInv, QueueInv, TaskInv
<1>6. TriggerInv'
  BY <1>1, <1>2, <1>3 DEF MonitorInv, TriggerInv, Out
<1>7. SyncInv' /\ Announced'
  BY <1>1 DEF SyncInv, Announced
<1>8. TruthInv' /\ AgeInv'
  BY <1>1, <1>2 DEF MonitorInv, TruthInv, AgeInv
<1> QED
  BY <1>4, <1>5, <1>6, <1>7, <1>8 DEF MonitorInv

-----------------------------------------------------------------------------
(* A trigger is reported                                                   *)

\* The monitor puts a trigger of the generation it knows in the queue and pauses.
LEMMA TriggerAppended ==
  ASSUME MonitorInv, live, ~paused, NEW e \in Events, e.trigger \in Triggers, e.gen = seen,
         events' = Append(events, e), paused' = TRUE,
         UNCHANGED <<server, gen, live, seen, rx, cause>>,
         \A i \in 1 .. Len(commands') :
           \E j \in 1 .. Len(commands) :
             /\ commands'[i] = commands[j]
             /\ \A k \in 1 .. Len(commands') : i < k =>
                  \E l \in 1 .. Len(commands) : j < l /\ commands'[k] = commands[l]
  PROVE  /\ TriggerInv'
         /\ events' \in Seq(Events) /\ Len(events) \in Nat /\ Len(events') = Len(events) + 1
         /\ events'[Len(events) + 1] = e /\ Len(events) + 1 \in 1 .. Len(events')
         /\ \A i \in 1 .. Len(events) : events'[i] = events[i] /\ i \in 1 .. Len(events')
         /\ \A i \in 1 .. Len(events') : i = Len(events) + 1 \/ i \in 1 .. Len(events)
         /\ \A i \in DOMAIN events' :
              events'[i].trigger \in Triggers \cup {"stop"} /\ events'[i].gen \in 0 .. gen
         /\ \A i \in 1 .. Len(events') : events'[i].gen <= gen
         /\ Reported' <=> Reported \/ seen = gen
<1>1. /\ events' \in Seq(Events) /\ Len(events) \in Nat /\ Len(events') = Len(events) + 1
      /\ events'[Len(events) + 1] = e /\ Len(events) + 1 \in 1 .. Len(events')
      /\ \A i \in 1 .. Len(events) : events'[i] = events[i] /\ i \in 1 .. Len(events')
      /\ \A i \in 1 .. Len(events') : i = Len(events) + 1 \/ i \in 1 .. Len(events)
  BY AppendedQueue DEF MonitorInv, QueueInv
<1>2. DOMAIN events = 1 .. Len(events) /\ DOMAIN events' = 1 .. Len(events')
  BY <1>1, LenProperties DEF MonitorInv, QueueInv
<1>3. seen \in 0 .. gen /\ gen \in Nat /\ e.trigger # "stop"
  BY DEF MonitorInv, TypeOK, Triggers
<1>4. \A i \in DOMAIN events' :
        events'[i].trigger \in Triggers \cup {"stop"} /\ events'[i].gen \in 0 .. gen
  BY <1>1, <1>2, <1>3 DEF MonitorInv, TypeOK
<1>5. \A i \in 1 .. Len(events') : events'[i].gen <= gen
  BY <1>2, <1>3, <1>4
<1>6. Reported' <=> Reported \/ seen = gen
  BY <1>1, <1>2 DEF Reported
<1>7. \A g \in Out : g < seen
  BY DEF MonitorInv, TriggerInv
<1>8. /\ \A i \in 1 .. Len(events) : events[i].trigger # "stop" => events[i].gen < seen
      /\ cause.trigger \in Triggers => cause.gen < seen
  BY <1>7 DEF Out
<1>9. \A g \in Out' : g \in Out \/ g = seen
  BY <1>1 DEF Out
<1>10. TriggerInv'
  <2>1. \A i, j \in 1 .. Len(events') :
          events'[i].trigger # "stop" /\ events'[j].trigger # "stop" /\ i # j
            => events'[i].gen # events'[j].gen
    <3> SUFFICES ASSUME NEW i \in 1 .. Len(events'), NEW j \in 1 .. Len(events'),
                        events'[i].trigger # "stop", events'[j].trigger # "stop", i # j
                 PROVE  events'[i].gen # events'[j].gen
      OBVIOUS
    <3>1. CASE i \in 1 .. Len(events) /\ j \in 1 .. Len(events)
      BY <1>1, <3>1 DEF MonitorInv, TriggerInv
    <3>2. CASE i = Len(events) + 1
      BY <1>1, <1>3, <1>8, <3>2
    <3>3. CASE j = Len(events) + 1
      BY <1>1, <1>3, <1>8, <3>3
    <3> QED
      BY <1>1, <3>1, <3>2, <3>3
  <2>2. cause.trigger \in Triggers =>
          \A i \in 1 .. Len(events') : events'[i].trigger # "stop" => events'[i].gen # cause.gen
    <3> SUFFICES ASSUME cause.trigger \in Triggers, NEW i \in 1 .. Len(events'),
                        events'[i].trigger # "stop"
                 PROVE  events'[i].gen # cause.gen
      OBVIOUS
    <3>1. CASE i \in 1 .. Len(events)
      BY <1>1, <3>1 DEF MonitorInv, TriggerInv
    <3>2. CASE i = Len(events) + 1
      BY <1>1, <1>3, <1>8, <3>2
    <3> QED
      BY <1>1, <3>1, <3>2
  <2>3. \A i \in 1 .. Len(commands') :
          commands'[i].type = "root" => /\ seen < commands'[i].gen
                                       /\ \A g \in Out' : g < commands'[i].gen
    <3>1. \A j \in 1 .. Len(commands) :
            commands[j].type = "root" => /\ seen < commands[j].gen
                                         /\ \A g \in Out : g < commands[j].gen
      BY DEF MonitorInv, TriggerInv
    <3> QED
      BY <1>9, <3>1
  <2>4. \A i, j \in 1 .. Len(commands') :
          commands'[i].type = "root" /\ commands'[j].type = "root" /\ i < j
            => commands'[i].gen < commands'[j].gen
    <3> SUFFICES ASSUME NEW i \in 1 .. Len(commands'), NEW j \in 1 .. Len(commands'), i < j,
                        commands'[i].type = "root", commands'[j].type = "root"
                 PROVE  commands'[i].gen < commands'[j].gen
      OBVIOUS
    <3>1. PICK k \in 1 .. Len(commands), l \in 1 .. Len(commands) :
            k < l /\ commands'[i] = commands[k] /\ commands'[j] = commands[l]
      OBVIOUS
    <3>2. commands[k].gen < commands[l].gen
      BY <3>1 DEF MonitorInv, TriggerInv
    <3> QED
      BY <3>1, <3>2
  <2> QED
    BY <2>1, <2>2, <2>3, <2>4 DEF MonitorInv, TriggerInv
<1> QED
  BY <1>1, <1>4, <1>5, <1>6, <1>10

LEMMA LookKeepsInv ==
  ASSUME MonitorInv, Look
  PROVE  MonitorInv'
<1>1. /\ live /\ place = "look"
      /\ UNCHANGED <<server, up, panics, faults, ownerVars, rx, cause, exit, commands, live,
                     seen, root, table, exceeded>>
  BY DEF Look, serverVars, rxVars
<1>2. UNCHANGED <<gen, ready, stop, handle, open, task, begun, leaving>>
  BY <1>1 DEF ownerVars
<1>3. ~paused
  BY <1>1 DEF MonitorInv, AgeInv
<1>4. \A w \in WorkerIds : Queued(w)' <=> Queued(w)
  BY <1>1, <1>2 DEF Queued, Relevant
<1>5. ASSUME NEW kind \in Triggers, NEW ids \in SUBSET WorkerIds,
             Report(kind, ids),
             kind = "death" => ~(up /\ root = server),
             kind = "deadline" => \E w \in WorkerIds : table[w] > Deadline,
             kind \in {"death", "deadline"}
      PROVE  MonitorInv'
  <2> DEFINE e == Trigger(kind, ids)
  <2>1. /\ events' = Append(events, e) /\ paused' = TRUE /\ place' = "drain"
        /\ UNCHANGED <<sincePoll, sleep>>
    BY <1>5 DEF Report
  <2>2. e \in Events /\ e.trigger = kind /\ e.gen = seen
    BY DEF Trigger, Events, MonitorInv, TypeOK
  <2> HIDE DEF e
  <2>3. \A i \in 1 .. Len(commands') :
          \E j \in 1 .. Len(commands) :
            /\ commands'[i] = commands[j]
            /\ \A k \in 1 .. Len(commands') : i < k =>
                 \E l \in 1 .. Len(commands) : j < l /\ commands'[k] = commands[l]
    BY <1>1
  <2>4. /\ TriggerInv'
        /\ events' \in Seq(Events) /\ Len(events) \in Nat /\ Len(events') = Len(events) + 1
        /\ events'[Len(events) + 1] = e /\ Len(events) + 1 \in 1 .. Len(events')
        /\ \A i \in 1 .. Len(events) : events'[i] = events[i] /\ i \in 1 .. Len(events')
        /\ \A i \in 1 .. Len(events') : i = Len(events) + 1 \/ i \in 1 .. Len(events)
        /\ \A i \in DOMAIN events' :
             events'[i].trigger \in Triggers \cup {"stop"} /\ events'[i].gen \in 0 .. gen
        /\ \A i \in 1 .. Len(events') : events'[i].gen <= gen
        /\ Reported' <=> Reported \/ seen = gen
    BY <1>1, <1>2, <1>3, <2>1, <2>2, <2>3, TriggerAppended
  <2>5. TypeOK'
    <3>1. paused' \in BOOLEAN
      BY <2>1, Zenon
    <3> QED
      BY <1>1, <1>2, <2>1, <2>4, <3>1 DEF MonitorInv, TypeOK
  <2>6. QueueInv'
    <3>1. \A c : WellFormed(c)' <=> WellFormed(c)
      BY <1>1, <1>2 DEF WellFormed
    <3> QED
      BY <1>1, <1>2, <2>4, <3>1 DEF MonitorInv, QueueInv
  <2>7. TaskInv'
    <3>1. e.trigger # "stop"
      BY <2>2 DEF Triggers
    <3> QED
      BY <1>1, <1>2, <2>4, <3>1 DEF MonitorInv, TaskInv
  <2>8. SyncInv'
    BY <1>1, <1>2 DEF MonitorInv, SyncInv, Relevant
  <2>9. Announced'
    BY <1>1, <1>2, <2>2, <2>4 DEF MonitorInv, Announced
  <2>10. TruthInv'
    <3>1. exit = "no" /\ rx \in {"poll", "pool"} /\ up =>
            \A i \in 1 .. Len(events') : events'[i].gen = gen => events'[i].trigger # "death"
      <4>1. exit = "no" /\ rx \in {"poll", "pool"} /\ up /\ seen = gen => kind # "death"
        BY <1>1, <1>5 DEF MonitorInv, TruthInv
      <4> QED
        BY <2>2, <2>4, <4>1 DEF MonitorInv, TruthInv
    <3>2. exit = "no" =>
            \A i \in 1 .. Len(events') :
              events'[i].gen = gen /\ events'[i].trigger = "deadline" => exceeded
      <4>1. exit = "no" /\ kind = "deadline" /\ seen = gen => exceeded
        BY <1>1, <1>5 DEF MonitorInv, TruthInv
      <4> QED
        BY <2>2, <2>4, <4>1 DEF MonitorInv, TruthInv
    <3> QED
      BY <1>1, <1>2, <2>1, <3>1, <3>2 DEF MonitorInv, TruthInv
  <2>11. AgeInv'
    <3>1. ASSUME exit = "no", ~Reported', NEW w \in WorkerIds
          PROVE  ~Reported /\ Queued(w)
      BY <1>1, <2>4, <3>1, Known
    <3>2. \A w \in WorkerIds : task[w].age + 0 = task[w].age
      BY Numbers DEF MonitorInv, TypeOK
    <3>3. 0 <= MemPoll
      BY Numbers
    <3>4. \A w \in WorkerIds : exit = "no" /\ ~Reported' /\ task[w] # Idle =>
            task[w].age = 0 /\ 0 + 0 <= Deadline + Poll - 1 + MemPoll
      BY <1>1, <3>1, Numbers DEF MonitorInv, AgeInv
    <3>5. \A w \in WorkerIds : exit = "no" /\ ~Reported' /\ task[w] # Idle /\ sincePoll < Poll =>
            task[w].age <= Deadline + sincePoll
      BY <1>1, <3>1 DEF MonitorInv, AgeInv
    <3> QED
      BY <1>1, <1>2, <2>1, <3>3, <3>4, <3>5 DEF AgeInv
  <2> QED
    BY <2>4, <2>5, <2>6, <2>7, <2>8, <2>9, <2>10, <2>11 DEF MonitorInv
<1>6. CASE ~(up /\ root = server)
  <2>1. Report("death", Tracked)
    BY <1>6 DEF Look
  <2>2. Tracked \in SUBSET WorkerIds /\ "death" \in Triggers
    BY DEF Tracked, Triggers
  <2> QED
    BY <1>5, <1>6, <2>1, <2>2
<1>7. CASE up /\ root = server /\ PollDue /\ Overdue # {}
  <2>1. Report("deadline", Overdue)
    BY <1>7 DEF Look
  <2>2. Overdue \in SUBSET WorkerIds /\ "deadline" \in Triggers
    BY DEF Overdue, Tracked, Triggers
  <2>3. \E w \in WorkerIds : table[w] > Deadline
    BY <1>7 DEF Overdue, Tracked
  <2> QED
    BY <1>5, <2>1, <2>2, <2>3
<1>8. CASE up /\ root = server /\ ~(PollDue /\ Overdue # {})
  <2>1. /\ place' = "sleep" /\ sleep' = MemPoll
        /\ sincePoll' = IF PollDue THEN 0 ELSE sincePoll
        /\ UNCHANGED <<events, paused>>
    BY <1>8 DEF Look
  <2>2. UNCHANGED <<serverVars, ownerVars, rxVars, exit, commands, events, live, seen, root,
                    paused, table, exceeded>>
    BY <1>1, <2>1 DEF serverVars, rxVars
  <2>3. /\ place' \in {"drain", "look", "sleep"} /\ sincePoll' \in 0 .. Poll + MemPoll
        /\ sleep' \in 0 .. MemPoll
    BY <2>1, Numbers DEF MonitorInv, TypeOK
  <2>4. /\ TypeOK' /\ QueueInv' /\ TaskInv' /\ TriggerInv' /\ SyncInv' /\ Announced' /\ TruthInv'
        /\ Reported' <=> Reported
    BY <2>1, <2>2, <2>3, PlaceKeepsInv
  <2>5. AgeInv'
    <3>1. ASSUME exit = "no", ~Reported, NEW w \in WorkerIds, task[w] # Idle
          PROVE  /\ sincePoll' < Poll => task[w].age <= Deadline + sincePoll'
                 /\ task[w].age + MemPoll <= Deadline + Poll - 1 + MemPoll
                 /\ Queued(w) => task[w].age + MemPoll <= MemPoll
      <4>1. task[w].age \in -1 .. Horizon + 1 /\ sincePoll \in Nat
        BY Numbers DEF MonitorInv, TypeOK
      <4>2. Queued(w) => task[w].age = 0
        BY <1>1, <3>1 DEF MonitorInv, AgeInv
      <4>3. ~Queued(w) /\ Overdue = {} => task[w].age <= Deadline
        <5>1. ~Queued(w) => table[w] = task[w].age /\ table[w] # None
          BY <1>1, <3>1, Known DEF MonitorInv, TaskInv
        <5> QED
          BY <4>1, <5>1, Numbers DEF Overdue, Tracked
      <4>4. CASE PollDue
        BY <1>8, <2>1, <4>1, <4>2, <4>3, <4>4, Numbers
      <4>5. CASE ~PollDue
        <5>1. sincePoll < Poll /\ task[w].age <= Deadline + sincePoll /\ sincePoll' = sincePoll
          BY <1>1, <2>1, <3>1, <4>1, <4>5, Numbers DEF PollDue, MonitorInv, AgeInv
        <5> QED
          BY <4>1, <4>2, <5>1, Numbers
      <4> QED
        BY <4>4, <4>5
    <3> QED
      BY <1>1, <1>2, <1>3, <1>4, <2>1, <2>4, <3>1 DEF AgeInv
  <2> QED
    BY <2>4, <2>5 DEF MonitorInv
<1> QED
  BY <1>6, <1>7, <1>8

-----------------------------------------------------------------------------
(* Time                                                                    *)

LEMMA Ages ==
  ASSUME NEW a \in Age
  PROVE  /\ Older(a) \in Age /\ Older(a) <= a + 1 /\ (a # None => Older(a) # None)
         /\ a = None => Older(a) = None
         /\ a \in 0 .. Horizon + 1 => Older(a) \in 0 .. Horizon + 1
BY Numbers DEF Older

LEMMA TickKeepsInv ==
  ASSUME MonitorInv, Tick
  PROVE  MonitorInv'
<1>1. /\ live => place = "sleep" /\ sleep > 0
      /\ task' = [w \in WorkerIds |-> [task[w] EXCEPT !.age = Older(@)]]
      /\ table' = [w \in WorkerIds |-> Older(table[w])]
      /\ commands' = [i \in DOMAIN commands |->
                       IF commands[i].type = "task_started"
                         THEN [commands[i] EXCEPT !.age = Older(@)]
                         ELSE commands[i]]
      /\ sincePoll' = IF sincePoll < Poll + MemPoll THEN sincePoll + 1 ELSE sincePoll
      /\ sleep' = IF live THEN sleep - 1 ELSE sleep
      /\ exceeded' = (exceeded \/ \E w \in WorkerIds : task'[w].age > Deadline)
      /\ UNCHANGED <<serverVars, gen, ready, stop, handle, open, begun, leaving, rxVars,
                     exit, events, live, place, seen, root, paused>>
  BY DEF Tick
<1>2. UNCHANGED <<server, up, panics, faults, rx, cause>>
  BY <1>1 DEF serverVars, rxVars
<1>3. /\ task \in [WorkerIds -> [token : Nat, age : Age]] /\ table \in [WorkerIds -> Age]
      /\ sincePoll \in 0 .. Poll + MemPoll /\ sleep \in 0 .. MemPoll
  BY DEF MonitorInv, TypeOK
<1>4. /\ commands \in Seq(Commands) /\ Len(commands) \in Nat
      /\ DOMAIN commands = 1 .. Len(commands)
      /\ \A i \in 1 .. Len(commands) : commands[i] \in Commands
  BY LenProperties DEF MonitorInv, QueueInv, WellFormed
\* What a unit of time does to a task, to an entry of the table and to a command.
<1>5. ASSUME NEW w \in WorkerIds
      PROVE  /\ task'[w] \in [token : Nat, age : Age] /\ task'[w].token = task[w].token
             /\ task'[w].age = Older(task[w].age) /\ task[w].age \in Age
             /\ task[w] = Idle => task'[w] = Idle
             /\ task[w] # Idle => task'[w] # Idle
  <2>1. task[w] \in [token : Nat, age : Age]
    BY <1>3
  <2>2. task'[w] = [task[w] EXCEPT !.age = Older(@)]
    BY <1>1
  <2>3. Older(task[w].age) \in Age /\ (task[w].age # None => Older(task[w].age) # None)
    BY <2>1, Ages
  <2>4. /\ task'[w] \in [token : Nat, age : Age] /\ task'[w].token = task[w].token
        /\ task'[w].age = Older(task[w].age)
    BY <2>1, <2>2, <2>3
  <2>5. task[w] = Idle => task'[w] = Idle
    BY <2>2, Numbers DEF Idle, Older
  <2>6. task[w] # Idle => task'[w] # Idle
    <3>1. task[w] # Idle => task[w].age # None
      BY DEF MonitorInv, TaskInv
    <3> QED
      BY <2>3, <2>4, <3>1, Numbers
  <2> QED
    BY <2>1, <2>4, <2>5, <2>6
<1>6. \A w \in WorkerIds : table'[w] = Older(table[w]) /\ table'[w] \in Age
  BY <1>1, <1>3, Ages
<1>7. ASSUME NEW i \in 1 .. Len(commands)
      PROVE  /\ commands'[i] \in Commands /\ commands'[i].type = commands[i].type
             /\ commands'[i].gen = commands[i].gen /\ commands'[i].arg = commands[i].arg
             /\ commands[i].type = "task_started" => commands'[i].age = Older(commands[i].age)
  <2>1. /\ commands[i] \in [type : CommandTypes, gen : Nat, arg : Nat \cup WorkerIds,
                            age : 0 .. Horizon + 1]
        /\ commands'[i] = IF commands[i].type = "task_started"
                            THEN [commands[i] EXCEPT !.age = Older(@)] ELSE commands[i]
    BY <1>1, <1>4 DEF Commands
  <2>2. commands[i].age \in Age
    BY <2>1, Numbers
  <2>3. Older(commands[i].age) \in 0 .. Horizon + 1
    BY <2>1, <2>2, Ages
  <2> QED
    BY <2>1, <2>3 DEF Commands
<1>8. /\ commands' \in Seq(Commands) /\ Len(commands') = Len(commands)
      /\ DOMAIN commands' = 1 .. Len(commands)
  <2>1. /\ commands' = [i \in 1 .. Len(commands) |-> commands'[i]]
        /\ DOMAIN commands' = 1 .. Len(commands)
    BY <1>1, <1>4
  <2>2. commands' \in Seq(Commands)
    BY <1>4, <1>7, <2>1, SeqDef
  <2> QED
    BY <1>4, <2>1, <2>2, LenProperties
<1>9. \A i \in 1 .. Len(commands) :
        \A w : Relevant(commands[i], w)' <=> Relevant(commands[i], w)
  BY <1>1, <1>7 DEF Relevant
<1>10. TypeOK'
  <2>1. \A i \in DOMAIN commands' : commands'[i].age \in 0 .. Horizon + 1
    <3>1. \A c \in Commands : c.age \in 0 .. Horizon + 1
      BY DEF Commands
    <3> QED
      BY <1>7, <1>8, <3>1
  <2>2. /\ task' \in [WorkerIds -> [token : Nat, age : Age]]
        /\ table' \in [WorkerIds -> Age]
    BY <1>1, <1>5, <1>6
  <2>3. sincePoll' \in 0 .. Poll + MemPoll /\ sleep' \in 0 .. MemPoll
    BY <1>1, <1>3, Numbers
  <2>4. exceeded' \in BOOLEAN
    BY <1>1, Zenon
  <2> QED
    BY <1>1, <1>2, <2>1, <2>2, <2>3, <2>4 DEF MonitorInv, TypeOK
<1>11. QueueInv'
  <2>1. \A i \in 1 .. Len(commands') : WellFormed(commands[i])'
    BY <1>1, <1>2, <1>7, <1>8 DEF MonitorInv, QueueInv, WellFormed
  <2> QED
    BY <1>1, <1>2, <1>8, <2>1 DEF MonitorInv, QueueInv
<1>12. TaskInv'
  <2>1. \A w \in WorkerIds : task[w].age # None => task'[w].age # None
    BY <1>5, Ages
  <2> QED
    BY <1>1, <1>2, <1>5, <2>1 DEF MonitorInv, TaskInv
<1>13. TriggerInv'
  BY <1>1, <1>2, <1>7, <1>8 DEF MonitorInv, TriggerInv, Out
<1>14. SyncInv'
  <2> SUFFICES ASSUME live, exit = "no", NEW w \in WorkerIds
               PROVE  /\ \A i \in 1 .. Len(commands') :
                           /\ Relevant(commands'[i], w)
                           /\ \A j \in 1 .. Len(commands') : Relevant(commands'[j], w) => j <= i
                           => /\ commands'[i].type = "task_started" =>
                                   task'[w] # Idle /\ commands'[i].age = task'[w].age
                              /\ commands'[i].type # "task_started" => task'[w] = Idle
                      /\ (\A i \in 1 .. Len(commands') : ~Relevant(commands'[i], w)) /\ seen = gen =>
                           table'[w] = task'[w].age
    <3>1. \A c, v : Relevant(c, v)' <=> Relevant(c, v)
      BY <1>1 DEF Relevant
    <3> QED
      BY <1>1, <3>1 DEF SyncInv
  <2>1. \A i \in 1 .. Len(commands) : Relevant(commands'[i], w) <=> Relevant(commands[i], w)
    BY <1>1, <1>7 DEF Relevant
  <2>2. ASSUME NEW i \in 1 .. Len(commands), Relevant(commands[i], w),
               \A j \in 1 .. Len(commands) : Relevant(commands[j], w) => j <= i
        PROVE  /\ commands'[i].type = "task_started" =>
                    task'[w] # Idle /\ commands'[i].age = task'[w].age
               /\ commands'[i].type # "task_started" => task'[w] = Idle
    <3>1. /\ commands[i].type = "task_started" => task[w] # Idle /\ commands[i].age = task[w].age
          /\ commands[i].type # "task_started" => task[w] = Idle
      BY <2>2 DEF MonitorInv, SyncInv
    <3> QED
      BY <1>5, <1>7, <3>1
  <2>3. (\A i \in 1 .. Len(commands) : ~Relevant(commands[i], w)) /\ seen = gen =>
          table'[w] = task'[w].age
    BY <1>5, <1>6 DEF MonitorInv, SyncInv
  <2> QED
    BY <1>8, <2>1, <2>2, <2>3
<1>15. Announced'
  BY <1>1, <1>2, <1>7, <1>8 DEF MonitorInv, Announced
<1>16. TruthInv'
  <2>1. exceeded => exceeded'
    BY <1>1
  <2>2. \A w \in WorkerIds : task'[w].age > Deadline => exceeded'
    BY <1>1
  <2>3. live => place # "look"
    BY <1>1
  <2> QED
    BY <1>1, <1>2, <1>7, <1>8, <2>1, <2>2, <2>3 DEF MonitorInv, TruthInv
<1>17. AgeInv'
  <2>1. live' /\ paused' /\ place' # "drain" => place' = "sleep" /\ sleep' <= 1
    BY <1>1, <1>3 DEF MonitorInv, AgeInv
  <2>2. Reported' <=> Reported
    BY <1>1, <1>2 DEF Reported
  <2>3. \A w \in WorkerIds : Queued(w)' <=> Queued(w)
    BY <1>1, <1>7, <1>8 DEF Queued, Relevant
  <2>4. ASSUME live, exit = "no", ~Reported, NEW w \in WorkerIds, task[w] # Idle
        PROVE  /\ sincePoll' < Poll => task'[w].age <= Deadline + sincePoll'
               /\ task'[w].age + sleep' <= Deadline + Poll - 1 + MemPoll
               /\ Queued(w) => task'[w].age + sleep' <= MemPoll
    <3>1. /\ sincePoll < Poll => task[w].age <= Deadline + sincePoll
          /\ task[w].age + sleep <= Deadline + Poll - 1 + MemPoll
          /\ Queued(w) => task[w].age + sleep <= MemPoll
      BY <1>1, <2>4 DEF MonitorInv, AgeInv
    <3>2. task'[w].age <= task[w].age + 1 /\ task[w].age \in Int /\ task'[w].age \in Int
      <4>1. task[w].age \in Age /\ task'[w].age = Older(task[w].age)
        BY <1>5
      <4>2. Older(task[w].age) \in Age /\ Older(task[w].age) <= task[w].age + 1
        BY <4>1, Ages
      <4>3. \A a \in Age : a \in Int
        BY Numbers
      <4> QED
        BY <4>1, <4>2, <4>3
    <3>3. sleep' = sleep - 1
      BY <1>1, <2>4
    <3>4. sincePoll' < Poll => sincePoll < Poll /\ sincePoll' = sincePoll + 1
      BY <1>1, <1>3, Numbers
    <3> QED
      BY <1>3, <3>1, <3>2, <3>3, <3>4, Numbers
  <2>5. live' => place' = "sleep"
    BY <1>1
  <2>6. \A w \in WorkerIds : task'[w] # Idle => task[w] # Idle
    BY <1>5
  <2> QED
    BY <1>1, <2>1, <2>2, <2>3, <2>4, <2>5, <2>6 DEF AgeInv
<1> QED
  BY <1>10, <1>11, <1>12, <1>13, <1>14, <1>15, <1>16, <1>17 DEF MonitorInv

-----------------------------------------------------------------------------
(* The new server is announced                                             *)

\* Nothing runs; what the queues hold is of earlier generations.
LEMMA StartWatchdogKeepsInv ==
  ASSUME MonitorInv, StartWatchdog
  PROVE  MonitorInv'
<1> DEFINE running == handle /\ live
           queue   == IF running THEN commands ELSE <<>>
           c       == Command("root", gen', server)
<1>1. /\ rx = "start" /\ rx' = "pool"
      /\ IF running THEN UNCHANGED <<stop, handle, open, live, events, place, seen, root, paused,
                                     table, sincePoll, sleep>>
         ELSE /\ stop' = FALSE /\ handle' = TRUE /\ open' = TRUE /\ live' = TRUE
              /\ events' = <<>> /\ FreshMonitor
      /\ gen' = IF up THEN gen + 1 ELSE gen
      /\ commands' = IF up /\ open' THEN Append(queue, c) ELSE queue
      /\ exceeded' = (exceeded /\ ~up)
      /\ UNCHANGED <<serverVars, ready, task, begun, leaving, cause, exit>>
  BY DEF StartWatchdog, Announce
<1> HIDE DEF running
<1>2. /\ UNCHANGED <<server, up, panics, faults>> /\ gen \in Nat /\ server \in Nat /\ gen # 0
      /\ server # 0 /\ gen' \in Nat /\ gen <= gen' /\ (up => gen < gen')
  BY <1>1 DEF serverVars, MonitorInv, TypeOK, QueueInv
<1>3. /\ ~ready /\ \A w \in WorkerIds : task[w] = Idle /\ task'[w] = Idle
  BY <1>1 DEF MonitorInv, TaskInv
<1>4. /\ seen' \in 0 .. gen /\ root' \in 0 .. server /\ place' \in {"drain", "look", "sleep"}
      /\ table' \in [WorkerIds -> Age] /\ sincePoll' \in 0 .. Poll + MemPoll
      /\ sleep' \in 0 .. MemPoll
      /\ ~running => seen' = 0 /\ place' = "drain"
      /\ events' \in Seq(Events)
  <2>1. CASE running
    BY <1>1, <2>1 DEF MonitorInv, TypeOK, QueueInv
  <2>2. CASE ~running
    BY <1>1, <1>2, <2>2, Numbers DEF FreshMonitor
  <2> QED
    BY <2>1, <2>2
<1>5. c \in Commands /\ c.type = "root" /\ c.gen = gen' /\ c.arg = server
  BY <1>2, Numbers DEF Command, Commands, CommandTypes
<1>6. /\ queue \in Seq(Commands) /\ Len(queue) \in Nat
      /\ \A i \in 1 .. Len(queue) :
           running /\ Len(queue) = Len(commands) /\ queue[i] = commands[i]
      /\ running => queue = commands
      /\ ~running => Len(queue) = 0
  <2>1. commands \in Seq(Commands)
    BY DEF MonitorInv, QueueInv
  <2> QED
    BY <2>1, LenProperties
<1> HIDE DEF queue, c
\* The queue is as before, or the announcement is its last command.
<1>7. /\ commands' \in Seq(Commands) /\ Len(commands') \in Nat
      /\ \A i \in 1 .. Len(queue) : i \in 1 .. Len(commands') /\ commands'[i] = queue[i]
      /\ \A i \in 1 .. Len(commands') :
           i \in 1 .. Len(queue) \/ (up /\ i = Len(queue) + 1 /\ commands'[i] = c)
      /\ up /\ open' => /\ Len(commands') = Len(queue) + 1 /\ Len(commands') \in 1 .. Len(commands')
                        /\ commands'[Len(commands')] = c
      /\ ~up => commands' = queue
  <2>1. CASE up /\ open'
    <3>1. commands' = Append(queue, c)
      BY <1>1, <2>1
    <3> QED
      BY <1>5, <1>6, <2>1, <3>1, AppendedQueue
  <2>2. CASE ~(up /\ open')
    BY <1>1, <1>6, <2>2
  <2> QED
    BY <2>1, <2>2
\* What there is of earlier generations.
<1>8. /\ \A i \in 1 .. Len(queue) : WellFormed(queue[i]) /\ queue[i].gen <= gen
      /\ \A i \in 1 .. Len(events') : running /\ events' = events /\ events[i].gen <= gen
      /\ cause.gen <= gen /\ cause.gen \in Nat
  <2>1. \A i \in 1 .. Len(commands) : WellFormed(commands[i]) /\ commands[i].gen <= gen
    BY DEF MonitorInv, QueueInv, WellFormed
  <2>2. running => events' = events
    BY <1>1
  <2>3. ~running => Len(events') = 0
    BY <1>1
  <2> QED
    BY <1>6, <2>1, <2>2, <2>3 DEF MonitorInv, QueueInv, TypeOK
<1>9. TypeOK'
  <2>1. \A i \in DOMAIN commands' : commands'[i].age \in 0 .. Horizon + 1
    <3>1. \A d \in Commands : d.age \in 0 .. Horizon + 1
      BY DEF Commands
    <3> QED
      BY <1>7, <3>1, ElementOfSeq, LenProperties
  <2>2. \A i \in DOMAIN events' :
          events'[i].trigger \in Triggers \cup {"stop"} /\ events'[i].gen \in 0 .. gen'
    <3>1. \A i \in DOMAIN events' : i \in 1 .. Len(events') /\ events'[i] \in Events
      BY <1>4, ElementOfSeq, LenProperties
    <3>2. \A e \in Events : e.trigger \in Triggers \cup {"stop"} /\ e.gen \in Nat
      BY DEF Events
    <3> QED
      BY <1>2, <1>8, <3>1, <3>2
  <2>3. /\ stop' \in BOOLEAN /\ handle' \in BOOLEAN /\ open' \in BOOLEAN /\ live' \in BOOLEAN
    <3>1. CASE running
      BY <1>1, <3>1 DEF MonitorInv, TypeOK
    <3>2. CASE ~running
      BY <1>1, <3>2, Zenon
    <3> QED
      BY <3>1, <3>2
  <2>4. paused' \in BOOLEAN
    <3>1. CASE running
      BY <1>1, <3>1 DEF MonitorInv, TypeOK
    <3>2. CASE ~running
      <4>1. paused' = TRUE
        BY <1>1, <3>2 DEF FreshMonitor
      <4> QED
        BY <4>1, Zenon
    <3> QED
      BY <3>1, <3>2
  <2>5. exceeded' \in BOOLEAN
    BY <1>1, Zenon
  <2>6. leaving' \subseteq WorkerIds \X (1 .. gen') /\ seen' \in 0 .. gen'
    <3>1. 1 .. gen \subseteq 1 .. gen' /\ leaving' = leaving
      BY <1>1, <1>2
    <3>2. leaving \subseteq WorkerIds \X (1 .. gen)
      BY DEF MonitorInv, TypeOK
    <3> QED
      BY <1>2, <1>4, <3>1, <3>2
  <2> QED
    BY <1>1, <1>2, <1>4, <2>1, <2>2, <2>3, <2>4, <2>5, <2>6 DEF MonitorInv, TypeOK
<1>10. QueueInv'
  <2>1. \A i \in 1 .. Len(commands') : WellFormed(commands[i])'
    <3>1. \A d : WellFormed(d) /\ d.gen <= gen => d.gen <= gen'
      BY <1>2 DEF WellFormed, Commands
    <3> QED
      BY <1>2, <1>5, <1>7, <1>8, <3>1 DEF WellFormed
  <2>2. \A i \in 1 .. Len(events') : events'[i].gen <= gen'
    <3>1. \A i \in 1 .. Len(events') : events'[i] \in Events
      BY <1>4, ElementOfSeq, LenProperties
    <3>2. \A e \in Events : e.gen \in Nat
      BY DEF Events
    <3> QED
      BY <1>2, <1>8, <3>1, <3>2
  <2>3. cause' \in Causes /\ cause'.gen <= gen' /\ gen' # 0 /\ server' # 0
    BY <1>1, <1>2, <1>8 DEF MonitorInv, QueueInv
  <2> QED
    BY <1>4, <1>7, <2>1, <2>2, <2>3 DEF QueueInv
<1>11. TaskInv'
  <2>1. up => \A l \in leaving : l[2] < gen'
    <3>1. \A l \in leaving : l[2] \in 1 .. gen
      BY DEF MonitorInv, TypeOK
    <3> QED
      BY <1>2, <3>1
  <2>2. exit = "no" => ~stop' /\ handle' /\ open'
    <3>1. CASE running
      BY <1>1, <3>1 DEF MonitorInv, TaskInv
    <3>2. CASE ~running
      BY <1>1, <3>2, Zenon
    <3> QED
      BY <3>1, <3>2
  <2>3. exit = "no" => \A i \in 1 .. Len(events') : events'[i].trigger # "stop"
    BY <1>8 DEF MonitorInv, TaskInv
  <2> QED
    BY <1>1, <1>2, <1>3, <2>1, <2>2, <2>3 DEF TaskInv
<1>12. TriggerInv'
  <2>1. \A g \in Out' : g \in Out /\ g <= gen
    <3>1. \A g \in Out : g <= gen
      BY DEF Out, MonitorInv, QueueInv
    <3>2. \A g \in Out' : g \in Out
      BY <1>1, <1>8 DEF Out
    <3> QED
      BY <3>1, <3>2
  <2>2. \A g \in Out : g \in Nat
    <3>1. \A i \in 1 .. Len(events) : events[i].gen \in Nat
      <4>1. \A i \in 1 .. Len(events) : events[i] \in Events
        BY ElementOfSeq DEF MonitorInv, QueueInv
      <4>2. \A e \in Events : e.gen \in Nat
        BY DEF Events
      <4> QED
        BY <4>1, <4>2
    <3> QED
      BY <1>8, <3>1 DEF Out
  <2>3. live' /\ ~paused' => \A g \in Out' : g < seen'
    <3>1. CASE running
      BY <1>1, <2>1, <3>1 DEF MonitorInv, TriggerInv
    <3>2. CASE ~running
      BY <1>1, <3>2 DEF FreshMonitor
    <3> QED
      BY <3>1, <3>2
  <2>4. /\ \A i \in 1 .. Len(queue) :
             queue[i].type = "root" => /\ seen' < queue[i].gen
                                       /\ \A g \in Out' : g < queue[i].gen
        /\ \A i, j \in 1 .. Len(queue) :
             queue[i].type = "root" /\ queue[j].type = "root" /\ i < j
               => queue[i].gen < queue[j].gen
    BY <1>1, <1>6, <2>1 DEF MonitorInv, TriggerInv
  <2>5. up => seen' < gen' /\ \A g \in Out' : g < gen'
    BY <1>2, <1>4, <2>1, <2>2
  <2>6. up => \A i \in 1 .. Len(queue) : queue[i].gen < gen' /\ i < Len(queue) + 1
    <3>1. \A i \in 1 .. Len(queue) : queue[i].gen \in Nat
      BY <1>8 DEF WellFormed, Commands
    <3> QED
      BY <1>2, <1>6, <1>8, <3>1
  <2>7. \A i \in 1 .. Len(commands') :
          commands'[i].type = "root" => /\ seen' < commands'[i].gen
                                       /\ \A g \in Out' : g < commands'[i].gen
    BY <1>5, <1>7, <2>4, <2>5
  <2>8. \A i, j \in 1 .. Len(commands') :
          commands'[i].type = "root" /\ commands'[j].type = "root" /\ i < j
            => commands'[i].gen < commands'[j].gen
    BY <1>5, <1>6, <1>7, <2>4, <2>6
  <2>9. /\ \A i, j \in 1 .. Len(events') :
             events'[i].trigger # "stop" /\ events'[j].trigger # "stop" /\ i # j
               => events'[i].gen # events'[j].gen
        /\ cause'.trigger \in Triggers =>
             \A i \in 1 .. Len(events') : events'[i].trigger # "stop" => events'[i].gen # cause'.gen
    BY <1>1, <1>8 DEF MonitorInv, TriggerInv
  <2> QED
    BY <1>1, <2>3, <2>7, <2>8, <2>9 DEF TriggerInv
<1>13. exit = "no" => open'
  BY <1>1, <1>11 DEF TaskInv
<1>14. SyncInv'
  <2>1. CASE up
    <3>1. \A i \in 1 .. Len(commands') : commands'[i] = c \/ ~(Len(commands') <= i) \/ exit # "no"
      BY <1>6, <1>7, <1>13, <2>1
    <3>2. exit = "no" =>
            /\ Len(commands') \in 1 .. Len(commands') /\ commands'[Len(commands')] = c
            /\ commands'[Len(commands')].type = "root"
      BY <1>5, <1>7, <1>13, <2>1
    <3> QED
      BY <1>1, <1>3, <1>5, <3>1, <3>2 DEF SyncInv, Relevant
  <2>2. CASE ~up
    <3>1. CASE running
      <4>1. UNCHANGED <<commands, gen, live, table, seen, task, exit>>
        BY <1>1, <1>6, <1>7, <2>2, <3>1
      <4> QED
        BY <4>1 DEF MonitorInv, SyncInv, Relevant
    <3>2. CASE ~running
      <4>1. Len(commands') = 0 /\ seen' # gen'
        BY <1>1, <1>2, <1>4, <1>6, <1>7, <2>2, <3>2
      <4> QED
        BY <4>1 DEF SyncInv
    <3> QED
      BY <3>1, <3>2
  <2> QED
    BY <2>1, <2>2
<1>15. Announced'
  <2> SUFFICES ASSUME live', exit = "no", up
               PROVE  /\ \E i \in 1 .. Len(commands') :
                           commands'[i].type = "root" /\ commands'[i].gen = gen'
                      /\ \A i \in 1 .. Len(commands') :
                           commands'[i].type = "pause" =>
                             \E j \in 1 .. Len(commands') :
                               j > i /\ commands'[j].type = "root" /\ commands'[j].gen = gen'
                      /\ seen' # gen'
    BY <1>1, <1>2 DEF Announced
  <2>1. /\ Len(commands') = Len(queue) + 1 /\ Len(commands') \in 1 .. Len(commands')
        /\ commands'[Len(commands')] = c
    BY <1>7, <1>13
  <2>2. \A i \in 1 .. Len(commands') : commands'[i].type = "pause" => Len(commands') > i
    BY <1>5, <1>6, <1>7, <2>1
  <2>3. seen' # gen'
    BY <1>2, <1>4
  <2> QED
    BY <1>5, <2>1, <2>2, <2>3
<1>16. TruthInv'
  <2>1. \A i \in 1 .. Len(events') : up => events'[i].gen # gen'
    <3>1. \A i \in 1 .. Len(events') : events'[i].gen \in Nat
      <4>1. \A i \in 1 .. Len(events') : events'[i] \in Events
        BY <1>4, ElementOfSeq
      <4>2. \A e \in Events : e.gen \in Nat
        BY DEF Events
      <4> QED
        BY <4>1, <4>2
    <3> QED
      BY <1>2, <1>8, <3>1
  <2>2. \A i \in 1 .. Len(queue) : up => queue[i].gen # gen'
    <3>1. \A i \in 1 .. Len(queue) : queue[i].gen \in Nat
      BY <1>8 DEF WellFormed, Commands
    <3> QED
      BY <1>2, <1>8, <3>1
  <2>3. up => seen' # gen'
    BY <1>2, <1>4
  <2>4. \A w \in WorkerIds : ~(task'[w].age > Deadline)
    BY <1>3, Numbers
  <2>5. exit = "no" /\ up =>
          \A i \in 1 .. Len(commands') :
            commands'[i].type = "root" /\ commands'[i].gen = gen' => commands'[i].arg = server
    BY <1>5, <1>7, <2>2
  <2>6. exit = "no" /\ ~up =>
          /\ \A i \in 1 .. Len(events') :
               events'[i].gen = gen' /\ events'[i].trigger = "deadline" => exceeded'
          /\ live' /\ place' = "look" /\ seen' = gen' =>
               \A w \in WorkerIds : table'[w] > Deadline => exceeded'
    <3>1. CASE running
      <4>1. ~up => (exceeded' <=> exceeded)
        BY <1>1
      <4>2. ~up => UNCHANGED <<gen, events, live, place, seen, table>>
        BY <1>1, <3>1
      <4> QED
        BY <4>1, <4>2 DEF MonitorInv, TruthInv
    <3>2. CASE ~running
      BY <1>4, <1>8, <3>2
    <3> QED
      BY <3>1, <3>2
  <2> QED
    BY <1>1, <1>2, <2>1, <2>3, <2>4, <2>5, <2>6 DEF TruthInv
<1>17. AgeInv'
  <2>1. Reported'
    BY <1>1 DEF Reported
  <2>2. live' /\ paused' /\ place' # "drain" => place' = "sleep" /\ sleep' <= 1
    <3>1. CASE running
      BY <1>1, <3>1 DEF MonitorInv, AgeInv
    <3>2. CASE ~running
      BY <1>4, <3>2
    <3> QED
      BY <3>1, <3>2
  <2> QED
    BY <2>1, <2>2 DEF AgeInv
<1> QED
  BY <1>9, <1>10, <1>11, <1>12, <1>14, <1>15, <1>16, <1>17 DEF MonitorInv

-----------------------------------------------------------------------------
(* The monitor reads a command                                             *)

\* Its trigger of this generation is what the watchdog knows of it then; a pause is
\* followed by the announcement of another server.
LEMMA DrainCommandKeepsInv ==
  ASSUME MonitorInv, DrainCommand
  PROVE  MonitorInv'
<1> DEFINE c == Head(commands)
           fatal == c.type = "fatal" /\ ~paused /\ c.gen = seen
<1>1. /\ live /\ place = "drain" /\ commands # <<>> /\ commands' = Tail(commands)
      /\ seen' = IF c.type = "root" THEN c.gen ELSE seen
      /\ root' = IF c.type = "root" THEN c.arg ELSE root
      /\ paused' = CASE c.type = "root" -> FALSE
                     [] c.type = "pause" -> TRUE
                     [] c.type = "fatal" -> paused \/ AcceptsFatal(c)
                     [] OTHER -> paused
      /\ table' = CASE c.type \in {"root", "pause"} -> Empty
                    [] c.type = "task_started" /\ c.gen = seen -> [table EXCEPT ![c.arg] = c.age]
                    [] c.type = "task_finished" /\ c.gen = seen -> [table EXCEPT ![c.arg] = None]
                    [] OTHER -> table
      /\ events' = IF c.type = "fatal" /\ AcceptsFatal(c)
                     THEN Append(events, Trigger("fatal", Tracked)) ELSE events
      /\ UNCHANGED <<serverVars, ownerVars, rxVars, exit, live, place, sincePoll, sleep, exceeded>>
  BY DEF DrainCommand
<1>2. UNCHANGED <<server, up, panics, faults, gen, ready, stop, handle, open, task, begun,
                  leaving, rx, cause>>
  BY <1>1 DEF serverVars, ownerVars, rxVars
<1>3. /\ c = commands[1] /\ c \in Commands /\ 1 \in 1 .. Len(commands)
      /\ commands' \in Seq(Commands) /\ Len(commands) \in Nat \ {0}
      /\ Len(commands') = Len(commands) - 1
      /\ \A i \in 1 .. Len(commands') :
           commands'[i] = commands[i + 1] /\ i + 1 \in 1 .. Len(commands)
      /\ \A i \in 1 .. Len(commands) :
           i = 1 \/ (i - 1 \in 1 .. Len(commands') /\ commands'[i - 1] = commands[i])
  BY <1>1, QueueTail DEF MonitorInv, QueueInv
<1> HIDE DEF c
<1>4. /\ c.type = "fatal" => c.type \notin {"root", "pause", "task_started", "task_finished"}
      /\ c.type = "root" => paused' = FALSE
      /\ c.type = "pause" => paused' = TRUE
      /\ fatal => paused' = TRUE
      /\ (c.type \notin {"root", "pause"} /\ ~fatal) => paused' = paused
  <2>1. paused \in BOOLEAN
    BY DEF MonitorInv, TypeOK
  <2>2. CASE c.type \in {"root", "pause"}
    BY <1>1, <2>2, Zenon
  <2>3. CASE c.type = "fatal"
    <3>1. paused' = (paused \/ AcceptsFatal(c))
      BY <1>1, <2>3
    <3> QED
      BY <2>1, <2>3, <3>1 DEF AcceptsFatal
  <2>4. CASE c.type \notin {"root", "pause", "fatal"}
    <3>1. paused' = paused
      BY <1>1, <2>4
    <3> QED
      BY <2>4, <3>1
  <2> QED
    BY <2>2, <2>3, <2>4
<1>5. /\ fatal => events' = Append(events, Trigger("fatal", Tracked))
      /\ ~fatal => events' = events
      /\ c.type # "root" => seen' = seen
      /\ c.type = "root" => seen' = c.gen /\ root' = c.arg /\ seen < c.gen
  BY <1>1, <1>3 DEF AcceptsFatal, MonitorInv, TriggerInv
<1>6. WellFormed(c) /\ c.gen \in Nat /\ c.gen <= gen /\ c.age \in 0 .. Horizon + 1
  BY <1>3 DEF MonitorInv, QueueInv, WellFormed, Commands
<1>7. table' \in [WorkerIds -> Age]
  <2>1. /\ table \in [WorkerIds -> Age] /\ None \in Age /\ c.age \in Age
        /\ Empty \in [WorkerIds -> Age]
    BY <1>6, Numbers DEF MonitorInv, TypeOK, Empty
  <2> QED
    BY <1>1, <2>1
\* What the monitor knows of w after the command.
<1>8. ASSUME NEW w \in WorkerIds
      PROVE  /\ c.type \in {"root", "pause"} => table'[w] = None
             /\ c.type = "task_started" /\ c.gen = seen /\ c.arg = w => table'[w] = c.age
             /\ c.type = "task_finished" /\ c.gen = seen /\ c.arg = w => table'[w] = None
             /\ c.type \notin {"root", "pause"} /\ (c.gen = seen => c.arg # w \/ c.type = "fatal")
                  => table'[w] = table[w] \/ c.type = "stop"
             /\ c.type = "stop" => table'[w] = table[w]
  <2>1. table \in [WorkerIds -> Age]
    BY DEF MonitorInv, TypeOK
  <2>2. CASE c.type \in {"root", "pause"}
    BY <1>1, <2>2 DEF Empty
  <2>3. CASE c.type = "task_started"
    BY <1>1, <1>6, <2>1, <2>3
  <2>4. CASE c.type = "task_finished"
    BY <1>1, <1>6, <2>1, <2>4
  <2>5. CASE c.type \in {"fatal", "stop"}
    BY <1>1, <2>5
  <2> QED
    BY <1>3, <2>2, <2>3, <2>4, <2>5 DEF Commands, CommandTypes
\* The events, and what they say of the triggers.
<1>9. /\ TriggerInv'
      /\ events' \in Seq(Events) /\ Len(events) \in Nat /\ Len(events') \in Nat
      /\ \A i \in 1 .. Len(events) : i \in 1 .. Len(events') /\ events'[i] = events[i]
      /\ \A i \in 1 .. Len(events') :
           \/ i \in 1 .. Len(events)
           \/ fatal /\ events'[i].trigger = "fatal"
      /\ \A i \in DOMAIN events' :
           events'[i].trigger \in Triggers \cup {"stop"} /\ events'[i].gen \in 0 .. gen
      /\ \A i \in 1 .. Len(events') : events'[i].gen <= gen
      /\ Reported => Reported'
      /\ fatal => \E i \in 1 .. Len(events') : events'[i].gen = seen
  <2>1. CASE fatal
    <3> DEFINE e == Trigger("fatal", Tracked)
    <3>1. e \in Events /\ e.trigger = "fatal" /\ e.trigger \in Triggers /\ e.gen = seen
      BY DEF Trigger, Tracked, Events, Triggers, MonitorInv, TypeOK
    <3>2. events' = Append(events, e) /\ paused' = TRUE /\ seen' = seen
      BY <1>4, <1>5, <2>1
    <3> HIDE DEF e
    <3>3. \A i \in 1 .. Len(commands') :
            \E j \in 1 .. Len(commands) :
              /\ commands'[i] = commands[j]
              /\ \A k \in 1 .. Len(commands') : i < k =>
                   \E l \in 1 .. Len(commands) : j < l /\ commands'[k] = commands[l]
      <4> SUFFICES ASSUME NEW i \in 1 .. Len(commands')
                   PROVE  /\ i + 1 \in 1 .. Len(commands) /\ commands'[i] = commands[i + 1]
                          /\ \A k \in 1 .. Len(commands') : i < k =>
                               /\ k + 1 \in 1 .. Len(commands) /\ i + 1 < k + 1
                               /\ commands'[k] = commands[k + 1]
        OBVIOUS
      <4> QED
        BY <1>3
    <3>4. /\ TriggerInv'
          /\ events' \in Seq(Events) /\ Len(events) \in Nat /\ Len(events') = Len(events) + 1
          /\ events'[Len(events) + 1] = e /\ Len(events) + 1 \in 1 .. Len(events')
          /\ \A i \in 1 .. Len(events) : events'[i] = events[i] /\ i \in 1 .. Len(events')
          /\ \A i \in 1 .. Len(events') : i = Len(events) + 1 \/ i \in 1 .. Len(events)
          /\ \A i \in DOMAIN events' :
               events'[i].trigger \in Triggers \cup {"stop"} /\ events'[i].gen \in 0 .. gen
          /\ \A i \in 1 .. Len(events') : events'[i].gen <= gen
          /\ Reported' <=> Reported \/ seen = gen
      BY <1>1, <1>2, <2>1, <3>1, <3>2, <3>3, TriggerAppended
    <3> QED
      BY <2>1, <3>1, <3>4
  <2>2. CASE ~fatal
    <3>1. events' = events
      BY <1>5, <2>2
    <3>2. events \in Seq(Events) /\ Len(events) \in Nat
      BY LenProperties DEF MonitorInv, QueueInv
    <3>3. Out' = Out
      BY <1>2, <3>1 DEF Out
    <3>4. live' /\ ~paused' => \A g \in Out : g < seen'
      <4>1. CASE c.type = "root"
        BY <1>3, <1>5, <4>1 DEF MonitorInv, TriggerInv
      <4>2. CASE c.type # "root"
        BY <1>1, <1>4, <1>5, <2>2, <4>2 DEF MonitorInv, TriggerInv
      <4> QED
        BY <4>1, <4>2
    <3>5. \A i \in 1 .. Len(commands') :
            commands'[i].type = "root" => /\ seen' < commands'[i].gen
                                         /\ \A g \in Out : g < commands'[i].gen
      <4>1. \A i \in 1 .. Len(commands') : 1 < i + 1
        OBVIOUS
      <4> QED
        BY <1>3, <1>5, <4>1 DEF MonitorInv, TriggerInv
    <3>6. \A i, j \in 1 .. Len(commands') :
            commands'[i].type = "root" /\ commands'[j].type = "root" /\ i < j
              => commands'[i].gen < commands'[j].gen
      <4> SUFFICES ASSUME NEW i \in 1 .. Len(commands'), NEW j \in 1 .. Len(commands'), i < j,
                          commands'[i].type = "root", commands'[j].type = "root"
                   PROVE  commands'[i].gen < commands'[j].gen
        OBVIOUS
      <4>1. /\ i + 1 \in 1 .. Len(commands) /\ j + 1 \in 1 .. Len(commands) /\ i + 1 < j + 1
            /\ commands'[i] = commands[i + 1] /\ commands'[j] = commands[j + 1]
        BY <1>3
      <4>2. \A k, l \in 1 .. Len(commands) :
              commands[k].type = "root" /\ commands[l].type = "root" /\ k < l
                => commands[k].gen < commands[l].gen
        BY DEF MonitorInv, TriggerInv
      <4> QED
        BY <4>1, <4>2
    <3>7. TriggerInv'
      BY <1>2, <3>1, <3>3, <3>4, <3>5, <3>6 DEF MonitorInv, TriggerInv
    <3>8. Reported' <=> Reported
      BY <1>2, <3>1 DEF Reported
    <3> QED
      BY <2>2, <3>1, <3>2, <3>7, <3>8 DEF MonitorInv, TypeOK, QueueInv
  <2> QED
    BY <2>1, <2>2
<1>10. TypeOK'
  <2>1. \A i \in DOMAIN commands' : commands'[i].age \in 0 .. Horizon + 1
    <3>1. \A d \in Commands : d.age \in 0 .. Horizon + 1
      BY DEF Commands
    <3> QED
      BY <1>3, <3>1, ElementOfSeq, LenProperties
  <2>2. seen' \in 0 .. gen /\ root' \in 0 .. server
    BY <1>1, <1>6 DEF WellFormed, MonitorInv, TypeOK
  <2>3. paused' \in BOOLEAN
    <3>1. paused \in BOOLEAN
      BY DEF MonitorInv, TypeOK
    <3> QED
      BY <1>4, <3>1, Zenon
  <2> QED
    BY <1>1, <1>2, <1>7, <1>9, <2>1, <2>2, <2>3 DEF MonitorInv, TypeOK
<1>11. QueueInv'
  <2>1. \A d : WellFormed(d)' <=> WellFormed(d)
    BY <1>2 DEF WellFormed
  <2>2. \A i \in 1 .. Len(commands') : WellFormed(commands'[i])
    BY <1>3 DEF MonitorInv, QueueInv
  <2> QED
    BY <1>2, <1>3, <1>9, <2>1, <2>2 DEF MonitorInv, QueueInv
<1>12. TaskInv'
  BY <1>1, <1>2, <1>9 DEF MonitorInv, TaskInv
<1>13. \A d, w : Relevant(d, w)' <=> Relevant(d, w)
  BY <1>2 DEF Relevant
<1>14. SyncInv'
  <2> SUFFICES ASSUME exit = "no", NEW w \in WorkerIds
               PROVE  /\ \A i \in 1 .. Len(commands') :
                           /\ Relevant(commands'[i], w)
                           /\ \A j \in 1 .. Len(commands') : Relevant(commands'[j], w) => j <= i
                           => /\ commands'[i].type = "task_started" =>
                                   task[w] # Idle /\ commands'[i].age = task[w].age
                              /\ commands'[i].type # "task_started" => task[w] = Idle
                      /\ (\A i \in 1 .. Len(commands') : ~Relevant(commands'[i], w)) /\ seen' = gen =>
                           table'[w] = task[w].age
    BY <1>1, <1>2, <1>13 DEF SyncInv
  <2>1. ASSUME NEW i \in 1 .. Len(commands'), Relevant(commands'[i], w),
               \A j \in 1 .. Len(commands') : Relevant(commands'[j], w) => j <= i
        PROVE  /\ commands'[i].type = "task_started" =>
                    task[w] # Idle /\ commands'[i].age = task[w].age
               /\ commands'[i].type # "task_started" => task[w] = Idle
    <3>1. i + 1 \in 1 .. Len(commands) /\ commands'[i] = commands[i + 1]
      BY <1>3
    <3>2. \A j \in 1 .. Len(commands) : Relevant(commands[j], w) => j <= i + 1
      BY <1>3, <2>1
    <3> QED
      BY <1>1, <2>1, <3>1, <3>2 DEF MonitorInv, SyncInv
  <2>2. ASSUME \A i \in 1 .. Len(commands') : ~Relevant(commands'[i], w), seen' = gen
        PROVE  table'[w] = task[w].age
    <3>1. \A i \in 1 .. Len(commands) : Relevant(commands[i], w) => i = 1
      BY <1>3, <2>2
    <3>2. CASE Relevant(c, w)
      <4>1. /\ c.type = "task_started" => task[w] # Idle /\ c.age = task[w].age
            /\ c.type # "task_started" => task[w] = Idle
        BY <1>1, <1>3, <3>1, <3>2 DEF MonitorInv, SyncInv
      <4>2. CASE c.type \in {"root", "pause"}
        BY <1>8, <4>1, <4>2, Numbers
      <4>3. CASE c.type \in {"task_started", "task_finished"} /\ c.gen = gen /\ c.arg = w
        <5>1. c.gen = seen
          BY <1>5, <2>2, <4>3
        <5> QED
          BY <1>8, <4>1, <4>3, <5>1, Numbers
      <4> QED
        BY <3>2, <4>2, <4>3 DEF Relevant
    <3>3. CASE ~Relevant(c, w)
      <4>1. \A i \in 1 .. Len(commands) : ~Relevant(commands[i], w)
        BY <1>3, <3>1, <3>3
      <4>2. seen = gen /\ c.type \notin {"root", "pause"}
        BY <1>5, <2>2, <3>3 DEF Relevant
      <4>3. table[w] = task[w].age
        BY <1>1, <4>1, <4>2 DEF MonitorInv, SyncInv
      <4>4. table'[w] = table[w]
        BY <1>3, <1>8, <3>3, <4>2 DEF Relevant, Commands, CommandTypes
      <4> QED
        BY <4>3, <4>4
    <3> QED
      BY <3>2, <3>3
  <2> QED
    BY <2>1, <2>2
<1>15. Announced'
  <2> SUFFICES ASSUME exit = "no", rx = "poll" \/ (rx = "pool" /\ up)
               PROVE  /\ \/ seen' = gen
                         \/ \E i \in 1 .. Len(commands') :
                              commands'[i].type = "root" /\ commands'[i].gen = gen
                      /\ \A i \in 1 .. Len(commands') :
                           commands'[i].type = "pause" =>
                             \E j \in 1 .. Len(commands') :
                               j > i /\ commands'[j].type = "root" /\ commands'[j].gen = gen
                      /\ seen' = gen /\ paused' => \E i \in 1 .. Len(events') : events'[i].gen = gen
    BY <1>1, <1>2 DEF Announced
  <2>1. /\ \/ seen = gen
           \/ \E i \in 1 .. Len(commands) : commands[i].type = "root" /\ commands[i].gen = gen
        /\ \A i \in 1 .. Len(commands) :
             commands[i].type = "pause" =>
               \E j \in 1 .. Len(commands) :
                 j > i /\ commands[j].type = "root" /\ commands[j].gen = gen
        /\ seen = gen /\ paused => \E i \in 1 .. Len(events) : events[i].gen = gen
    BY <1>1 DEF MonitorInv, Announced
  <2>2. \/ seen' = gen
        \/ \E i \in 1 .. Len(commands') : commands'[i].type = "root" /\ commands'[i].gen = gen
    <3>1. CASE seen = gen
      <4>1. c.type # "root"
        <5>1. gen \in Nat
          BY DEF MonitorInv, TypeOK
        <5> QED
          BY <1>5, <1>6, <3>1, <5>1
      <4> QED
        BY <1>5, <3>1, <4>1
    <3>2. CASE \E i \in 1 .. Len(commands) : commands[i].type = "root" /\ commands[i].gen = gen
      BY <1>3, <1>5, <3>2
    <3> QED
      BY <2>1, <3>1, <3>2
  <2>3. ASSUME NEW i \in 1 .. Len(commands'), commands'[i].type = "pause"
        PROVE  \E j \in 1 .. Len(commands') :
                 j > i /\ commands'[j].type = "root" /\ commands'[j].gen = gen
    <3>1. i + 1 \in 1 .. Len(commands) /\ commands[i + 1].type = "pause"
      BY <1>3, <2>3
    <3>2. PICK j \in 1 .. Len(commands) :
            j > i + 1 /\ commands[j].type = "root" /\ commands[j].gen = gen
      BY <2>1, <3>1
    <3>3. j - 1 \in 1 .. Len(commands') /\ j - 1 > i /\ commands'[j - 1] = commands[j]
      BY <1>3, <3>2
    <3> QED
      BY <3>2, <3>3
  <2>4. ASSUME seen' = gen, paused'
        PROVE  \E i \in 1 .. Len(events') : events'[i].gen = gen
    <3>1. c.type # "root"
      BY <1>4, <2>4, Zenon
    <3>2. seen = gen
      BY <1>5, <2>4, <3>1
    <3>3. c.type # "pause"
      <4>1. \A j \in 1 .. Len(commands) : commands[j].type = "root" => commands[j].gen # gen
        <5>1. \A j \in 1 .. Len(commands) : commands[j].type = "root" => seen < commands[j].gen
          BY DEF MonitorInv, TriggerInv
        <5>2. seen \in Nat
          BY DEF MonitorInv, TypeOK
        <5> QED
          BY <3>2, <5>1, <5>2
      <4> QED
        BY <1>3, <2>1, <4>1
    <3>4. CASE fatal
      BY <1>9, <3>2, <3>4
    <3>5. CASE ~fatal
      <4>1. paused
        BY <1>4, <2>4, <3>1, <3>3, <3>5
      <4> QED
        BY <1>9, <2>1, <3>2, <4>1
    <3> QED
      BY <3>4, <3>5
  <2> QED
    BY <2>2, <2>3, <2>4
<1>16. TruthInv'
  <2>1. exit = "no" /\ rx \in {"poll", "pool"} /\ up /\ seen' = gen => root' = server
    <3>1. CASE c.type = "root"
      BY <1>3, <1>5, <3>1 DEF MonitorInv, TruthInv
    <3>2. CASE c.type # "root"
      BY <1>1, <1>5, <3>2 DEF MonitorInv, TruthInv
    <3> QED
      BY <3>1, <3>2
  <2> QED
    BY <1>1, <1>2, <1>3, <1>9, <2>1 DEF MonitorInv, TruthInv
<1>17. AgeInv'
  <2>1. \A w \in WorkerIds : Queued(w)' => Queued(w)
    BY <1>2, <1>3 DEF Queued, Relevant
  <2> QED
    BY <1>1, <1>2, <1>9, <2>1 DEF MonitorInv, AgeInv
<1> QED
  BY <1>9, <1>10, <1>11, <1>12, <1>14, <1>15, <1>16, <1>17 DEF MonitorInv

-----------------------------------------------------------------------------
(* The theorems                                                            *)

LEMMA MonitorInductive == MonitorInv /\ [Next]_vars => MonitorInv'
<1> SUFFICES ASSUME MonitorInv, [Next]_vars PROVE MonitorInv'
  OBVIOUS
<1>1. CASE Faults
  BY <1>1, AsideKeepsInv, MonitorEnds DEF Faults, Aside
<1>2. CASE FlagFatal
  BY <1>2, FlagFatalKeepsInv
<1>3. CASE Workers
  BY <1>3, StartTaskKeepsInv, FinishTaskKeepsInv, FinishOldTaskKeepsInv DEF Workers
<1>4. CASE MonitorStep
  BY <1>4, DrainCommandKeepsInv, DrainedKeepsInv, MonitorEnds, LookKeepsInv, WakeKeepsInv
     DEF MonitorStep
<1>5. CASE Tick
  BY <1>5, TickKeepsInv
<1>6. CASE Receiver
  BY <1>6, AsideKeepsInv, ReceiveEventKeepsInv, BeginRestartKeepsInv, StartWatchdogKeepsInv
     DEF Receiver, Aside
<1>7. CASE Exit
  BY <1>7, AsideKeepsInv, BeginStopKeepsInv, MonitorEnds, ForgetMonitorKeepsInv,
     CloseQueuesKeepsInv DEF Exit, Aside
<1>8. CASE UNCHANGED vars
  <2>1. UNCHANGED <<server, up, panics, faults, gen, ready, stop, handle, open, task, begun,
                    leaving, rx, cause, exit, commands, events, live, place, seen, root, paused,
                    table, sincePoll, sleep, exceeded>>
    BY <1>8 DEF vars, serverVars, ownerVars, rxVars, monitorVars
  <2>2. TypeOK'
    BY <2>1 DEF MonitorInv, TypeOK
  <2>3. QueueInv'
    BY <2>1 DEF MonitorInv, QueueInv, WellFormed
  <2>4. TaskInv'
    BY <2>1 DEF MonitorInv, TaskInv
  <2>5. TriggerInv' /\ SyncInv'
    BY <2>1 DEF MonitorInv, TriggerInv, Out, SyncInv, Relevant
  <2>6. Announced' /\ TruthInv'
    BY <2>1 DEF MonitorInv, Announced, TruthInv
  <2>7. AgeInv'
    BY <2>1 DEF MonitorInv, AgeInv, Queued, Relevant, Reported
  <2> QED
    BY <2>2, <2>3, <2>4, <2>5, <2>6, <2>7 DEF MonitorInv
<1> QED
  BY <1>1, <1>2, <1>3, <1>4, <1>5, <1>6, <1>7, <1>8 DEF Next

LEMMA MonitorInvariant == Spec => []MonitorInv
BY InitInv, MonitorInductive, PTL DEF Spec

\* The variables have their types: a generation a command, an event or the monitor
\* speaks of has been announced, an age stays within the horizon.
THEOREM MonitorTypeCorrect == Spec => []TypeOK
<1>1. MonitorInv => TypeOK
  BY DEF MonitorInv
<1> QED
  BY <1>1, MonitorInvariant, PTL

\* Once it has read its commands the monitor's table is the tasks in flight of this
\* server: the watchdog of an unanswered task does not depend on the order in which
\* pools and servers end and begin.
THEOREM TableIsTrue == Spec => []TableMatches
<1>1. MonitorInv => TableMatches
  <2> SUFFICES ASSUME MonitorInv, Observing, ~paused, commands = <<>>, seen = gen,
                      NEW w \in WorkerIds
               PROVE  table[w] = task[w].age
    BY DEF TableMatches
  <2> QED
    BY DEF MonitorInv, SyncInv, Observing
<1> QED
  BY <1>1, MonitorInvariant, PTL

\* An unanswered task is reported within the deadline, a poll and a round, as long as
\* the monitor lives and nobody stops it.
THEOREM Detection == Spec => []DetectedInTime
<1>1. MonitorInv => DetectedInTime
  <2> SUFFICES ASSUME MonitorInv, NEW w \in WorkerIds, live, exit = "no", task[w] # Idle,
                      task[w].age >= Horizon, ~Reported
               PROVE  FALSE
    BY DEF DetectedInTime, Observing
  <2>1. task[w].age + (IF place = "sleep" THEN sleep ELSE 0) <= Deadline + Poll - 1 + MemPoll
    BY DEF MonitorInv, AgeInv
  <2>2. sleep \in Nat /\ task[w].age \in Int
    BY Numbers DEF MonitorInv, TypeOK
  <2> QED
    BY <2>1, <2>2, Numbers
<1> QED
  BY <1>1, MonitorInvariant, PTL

LEMMA AtMostOne ==
  ASSUME NEW S, \A x, y \in S : x = y
  PROVE  Cardinality(S) \in Nat /\ Cardinality(S) <= 1 /\ (S = {} => Cardinality(S) = 0)
<1>1. CASE S = {}
  BY <1>1, FS_EmptySet
<1>2. CASE S # {}
  <2>1. PICK x : S = {x}
    BY <1>2
  <2> QED
    BY <1>2, <2>1, FS_Singleton
<1> QED
  BY <1>1, <1>2

\* One report of a server is queued or acted on, however many of its symptoms the
\* monitor sees.
THEOREM OneTrigger == Spec => []OneTriggerPerServer
<1>1. MonitorInv => OneTriggerPerServer
  <2> DEFINE Of(g) == {i \in DOMAIN events : events[i].gen = g /\ events[i].trigger # "stop"}
             acted(g) == cause.gen = g /\ cause.trigger \in Triggers
  <2> SUFFICES ASSUME MonitorInv, NEW g \in 1 .. gen
               PROVE  Cardinality(Of(g)) + (IF acted(g) THEN 1 ELSE 0) <= 1
    BY DEF OneTriggerPerServer
  <2>1. DOMAIN events = 1 .. Len(events)
    BY LenProperties DEF MonitorInv, QueueInv
  <2>2. \A x, y \in Of(g) : x = y
    BY <2>1 DEF MonitorInv, TriggerInv
  <2>3. acted(g) => Of(g) = {}
    BY <2>1 DEF MonitorInv, TriggerInv
  <2>4. /\ Cardinality(Of(g)) \in Nat /\ Cardinality(Of(g)) <= 1
        /\ Of(g) = {} => Cardinality(Of(g)) = 0
    <3> HIDE DEF Of
    <3> QED
      BY <2>2, AtMostOne
  <2> HIDE DEF Of, acted
  <2> QED
    BY <2>3, <2>4
<1> QED
  BY <1>1, MonitorInvariant, PTL

\* A server is replaced for what happened to it: it is dead if a death was reported,
\* one of its own tasks exceeded the deadline if that was, and no monitor lives if the
\* receiver missed it.
THEOREM RebuildsAreJustified == Spec => JustifiedRebuild
<1> DEFINE Justified ==
             rx = "poll" /\ rx' = "recover" /\ exit = "no" =>
               CASE cause'.trigger = "death"          -> ~up
                 [] cause'.trigger = "deadline"       -> exceeded
                 [] cause'.trigger = "watchdog_death" -> ~live
                 [] OTHER                             -> TRUE
<1>1. MonitorInv /\ [Next]_vars => [Justified]_vars
  <2> SUFFICES ASSUME MonitorInv, Next, rx = "poll", rx' = "recover", exit = "no"
               PROVE  /\ cause'.trigger = "death" => ~up
                      /\ cause'.trigger = "deadline" => exceeded
                      /\ cause'.trigger = "watchdog_death" => ~live
    OBVIOUS
  <2>1. CASE ReceiveEvent
    <3> DEFINE e == Head(events)
    <3>1. events # <<>> /\ cause' = e /\ e.gen = gen /\ e.trigger # "stop"
      BY <2>1 DEF ReceiveEvent, IsCurrent
    <3>2. e = events[1] /\ e \in Events /\ 1 \in 1 .. Len(events)
      BY <3>1, QueueTail DEF MonitorInv, QueueInv
    <3> HIDE DEF e
    <3>3. e.trigger # "watchdog_death"
      BY <3>2 DEF Events, Triggers
    <3>4. e.trigger = "death" => ~up
      BY <3>1, <3>2 DEF MonitorInv, TruthInv
    <3>5. e.trigger = "deadline" => exceeded
      BY <3>1, <3>2 DEF MonitorInv, TruthInv
    <3> QED
      BY <3>1, <3>3, <3>4, <3>5
  <2>2. CASE MissMonitor
    BY <2>2 DEF MissMonitor
  <2>3. ~(ReceiveEvent \/ MissMonitor) => FALSE
    <3>1. CASE Faults \/ FlagFatal \/ Workers \/ Tick
      BY <3>1 DEF Faults, ServerDies, ServerPanics, MonitorDies, FlagFatal, Workers, StartTask,
         FinishTask, FinishOldTask, Tick, rxVars
    <3>2. CASE MonitorStep
      BY <3>2 DEF MonitorStep, DrainCommand, Drained, StopCommand, Look, Wake, rxVars
    <3>3. CASE Receiver /\ ~(ReceiveEvent \/ MissMonitor)
      BY <3>3 DEF Receiver, EndReceiver, GiveUp, BeginRestart, KillTree, Connect, ConnectFails,
         StartWatchdog, RebuildPool, RebuildFails
    <3>4. CASE Exit
      BY <3>4 DEF Exit, BeginStop, JoinMonitor, ForgetMonitor, JoinReceiver, CloseQueues,
         NotifyExit, KillOnExit, rxVars
    <3> QED
      BY <3>1, <3>2, <3>3, <3>4 DEF Next
  <2> QED
    BY <2>1, <2>2, <2>3
<1>2. Spec => [][Justified]_vars
  BY <1>1, MonitorInvariant, PTL DEF Spec
<1> QED
  BY <1>2 DEF JustifiedRebuild
=============================================================================
