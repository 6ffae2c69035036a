--------------------------- MODULE RecoveryProofs ---------------------------
(***************************************************************************)
(* Theorems about Recovery, for every number of requests, workers and      *)
(* faults.                                                                 *)
(***************************************************************************)
EXTENDS Recovery, FiniteSetTheorems, SequenceTheorems, TLAPS

\* The position of the router's cursor stays inside the pool.
LEMMA CursorInRange ==
  ASSUME NEW w \in Workers
  PROVE  CursorAfter(w) \in 0..(NWorkers - 1)
BY WorkersAssumption DEF Workers, CursorAfter

\* The steps of a caller keep every variable in its type.
LEMMA CallerKeepsType ==
  ASSUME TypeOK, NEW r \in Requests, Caller(r)
  PROVE  TypeOK'
<1> USE DEF TypeOK, CallerType, PoolType, WorkerType, WatchdogType, callerVars, poolVars,
            workerVars, serverVars, monitorVars, restartVars, countVars
<1>1. CASE PassGate(r)
  BY <1>1 DEF PassGate, Places
<1>2. CASE FetchPool(r)
  BY <1>2 DEF FetchPool, Places
<1>3. CASE Submit(r)
  BY <1>3 DEF Submit, Places
<1>4. CASE Receive(r)
  BY <1>4 DEF Receive, AfterAnswer, Places, Outcomes, Replies
<1>5. CASE ResponseTimeout(r)
  BY <1>5 DEF ResponseTimeout, Outcomes
<1>6. CASE Unpark(r)
  BY <1>6 DEF Unpark, Places
<1> QED
  BY <1>1, <1>2, <1>3, <1>4, <1>5, <1>6 DEF Caller

\* So does the router,
LEMMA RouterKeepsType ==
  ASSUME TypeOK, NEW p \in Pools, Route(p)
  PROVE  TypeOK'
<1> USE DEF TypeOK, CallerType, PoolType, WorkerType, WatchdogType, callerVars, poolVars,
            workerVars, serverVars, monitorVars, restartVars, countVars
<1>1. Head(overall[p]) \in Requests /\ Tail(overall[p]) \in Seq(Requests)
  BY DEF Route
<1>2. PICK w \in Workers :
        /\ queue' = [queue EXCEPT ![<<p, w>>] = Append(@, Head(overall[p]))]
        /\ cursor' = [cursor EXCEPT ![p] = CursorAfter(w)]
  BY DEF Route
<1>3. <<p, w>> \in Slots
  BY DEF Slots
<1>4. queue' \in [Slots -> Seq(Requests)]
  BY <1>1, <1>2, <1>3
<1>5. cursor' \in [Pools -> 0..(NWorkers - 1)]
  BY <1>2, CursorInRange
<1> QED
  BY <1>1, <1>4, <1>5 DEF Route

\* the worker threads,
LEMMA AnsweredKeepsType ==
  ASSUME TypeOK, NEW s \in Slots, NEW what \in Replies, Answered(s, what)
  PROVE  TypeOK'
<1> USE DEF TypeOK, CallerType, PoolType, WorkerType, WatchdogType, callerVars, poolVars,
            workerVars, serverVars, monitorVars, restartVars, countVars
<1>1. reply' \in [Requests -> Replies]
  BY DEF Answered, Answer
<1> QED
  BY <1>1 DEF Answered, Steps

LEMMA WorkerKeepsType ==
  ASSUME TypeOK, NEW s \in Slots, Worker(s)
  PROVE  TypeOK'
<1>1. CASE SendFails(s) \/ EditDone(s) \/ Respond(s) \/ TaskTimeout(s)
  BY <1>1, AnsweredKeepsType DEF SendFails, EditDone, Respond, TaskTimeout, Replies
<1> USE DEF TypeOK, CallerType, PoolType, WorkerType, WatchdogType, callerVars, poolVars,
            workerVars, serverVars, monitorVars, restartVars, countVars
<1>2. s[1] \in Pools /\ s[2] \in Workers
  BY DEF Slots
<1>3. CASE Take(s)
  <2>1. Head(queue[s]) \in Requests /\ Tail(queue[s]) \in Seq(Requests)
    BY <1>3 DEF Take
  <2> QED
    BY <1>2, <1>3, <2>1 DEF Take, Steps
<1>4. CASE Send(s)
  BY <1>4 DEF Send, Steps
<1>5. CASE EditThenCall(s)
  BY <1>5 DEF EditThenCall, Steps
<1>6. CASE OnServiceUnavailable(s)
  <2>1. \A r \in Requests : DrainAnswer(s, r) \in Replies
    BY DEF DrainAnswer, Replies
  <2> QED
    BY <1>6, <2>1 DEF OnServiceUnavailable, Steps
<1>7. CASE Finally(s)
  BY <1>2, <1>7 DEF Finally, Steps
<1> QED
  BY <1>1, <1>3, <1>4, <1>5, <1>6, <1>7 DEF Worker

\* the faults and the monitor,
LEMMA ReportKeepsType ==
  ASSUME TypeOK, NEW trigger \in Triggers, NEW ids \in SUBSET Workers,
         Report(Event(trigger, ids)),
         faults' \in 0..MaxFaults
  PROVE  TypeOK'
<1> USE DEF TypeOK, CallerType, PoolType, WorkerType, WatchdogType, callerVars, poolVars,
            workerVars, serverVars, monitorVars, restartVars, countVars
<1>1. Event(trigger, ids) \in EventType
  BY DEF Event, EventType
<1>2. events' \in Seq(EventType)
  BY <1>1 DEF Report
<1> QED
  BY <1>2 DEF Report

LEMMA FaultKeepsCount ==
  ASSUME TypeOK, Fault
  PROVE  faults' \in 0..MaxFaults
BY FaultsAssumption DEF Fault, TypeOK, WatchdogType

LEMMA MonitorKeepsType ==
  ASSUME TypeOK, Monitor
  PROVE  TypeOK'
<1>0. faults \in 0..MaxFaults
  BY DEF TypeOK, WatchdogType
<1>1. CASE ReportDeath
  BY <1>0, <1>1, ReportKeepsType DEF ReportDeath, Triggers
<1>2. CASE \E ids \in SUBSET Workers : ReportOverdue(ids)
  <2>1. PICK ids \in SUBSET Workers : ReportOverdue(ids)
    BY <1>2
  <2>2. faults' \in 0..MaxFaults
    BY <1>0, <2>1, FaultKeepsCount DEF ReportOverdue
  <2> QED
    BY <2>1, <2>2, ReportKeepsType DEF ReportOverdue, Triggers
<1>3. CASE \E w \in Workers : ReportWorker(w)
  <2>1. PICK w \in Workers : ReportWorker(w)
    BY <1>3
  <2>2. {w} \in SUBSET Workers
    OBVIOUS
  <2> QED
    BY <1>0, <2>1, <2>2, ReportKeepsType DEF ReportWorker, Triggers
<1> QED
  BY <1>1, <1>2, <1>3 DEF Monitor

LEMMA FaultsKeepType ==
  ASSUME TypeOK, Faults
  PROVE  TypeOK'
<1>1. CASE ReportFatal
  BY <1>1, FaultKeepsCount, ReportKeepsType DEF ReportFatal, Triggers
<1>7. CASE \E w \in Workers : ReportMemory(w)
  <2>1. PICK w \in Workers : ReportMemory(w)
    BY <1>7
  <2> QED
    BY <2>1, FaultKeepsCount, ReportKeepsType
       DEF ReportMemory, Triggers
<1> USE DEF TypeOK, CallerType, PoolType, WorkerType, WatchdogType, callerVars, poolVars,
            workerVars, serverVars, monitorVars, restartVars, countVars
<1>2. CASE Crash
  BY <1>2, FaultKeepsCount DEF Crash
<1>3. CASE MonitorDies
  BY <1>3, FaultKeepsCount DEF MonitorDies
<1>4. CASE ConnectFails
  BY <1>4, FaultKeepsCount DEF ConnectFails, Phases
<1>5. CASE InitRejected
  BY <1>5, FaultKeepsCount DEF InitRejected, Phases
<1>6. CASE \E w \in Workers : Wedge(w)
  BY <1>6, FaultKeepsCount DEF Wedge
<1> QED
  BY <1>1, <1>2, <1>3, <1>4, <1>5, <1>6, <1>7 DEF Faults

\* What a report does not touch.
LEMMA ReportFrame ==
  ASSUME Monitor \/ ReportFatal \/ \E w \in Workers : ReportMemory(w)
  PROVE  UNCHANGED <<callerVars, poolVars, workerVars, serverVars, restartVars>>
<1>1. ASSUME NEW e, Report(e)
      PROVE  UNCHANGED <<callerVars, poolVars, workerVars, serverVars, restartVars>>
  BY <1>1 DEF Report
<1> QED
  BY <1>1 DEF Monitor, ReportDeath, ReportOverdue, ReportWorker, ReportFatal,
     ReportMemory

\* and the receiver thread.
LEMMA RebuildKeepsType ==
  ASSUME TypeOK, Rebuild
  PROVE  TypeOK'
<1> USE DEF TypeOK, CallerType, PoolType, WorkerType, WatchdogType, callerVars, poolVars,
            workerVars, serverVars, monitorVars, restartVars, countVars
<1>0. gen \in Pools /\ pool \in Pools /\ MaxPools \in Nat
  BY FaultsAssumption DEF MaxPools
<1>1. CASE TakeEvent
  <2>1. Head(events) \in EventType /\ Tail(events) \in Seq(EventType)
    BY <1>1 DEF TakeEvent
  <2> QED
    BY <1>1, <2>1 DEF TakeEvent, Phases
<1>2. CASE MonitorLost
  <2>1. Event("watchdog_death", {}) \in EventType
    BY DEF Event, EventType, Triggers
  <2> QED
    BY <1>2, <2>1 DEF MonitorLost, Phases
<1>3. CASE CloseGate
  BY <1>3 DEF CloseGate, Phases
<1>4. CASE MarkCulprits
  BY <1>4 DEF MarkCulprits, InFlight, Phases
<1>5. CASE PoisonWorkers
  BY <1>5 DEF PoisonWorkers, Phases
<1>6. CASE TearDown
  BY <1>6 DEF TearDown, Phases, Steps
<1>7. CASE KillTree
  BY <1>7 DEF KillTree, Phases
<1>8. CASE Connect
  <2>1. gen' \in Pools
    BY <1>0, <1>8 DEF Connect, Pools
  <2>2. events' \in Seq(EventType)
    BY <1>8 DEF Connect
  <2> QED
    BY <1>8, <2>1, <2>2 DEF Connect, Phases
<1>9. CASE BuildPool
  <2>1. pool' \in Pools
    BY <1>0, <1>9 DEF BuildPool, Pools
  <2> QED
    BY <1>9, <2>1 DEF BuildPool, Phases
<1>10. CASE \E healthy \in SUBSET Workers : InitPool(healthy)
  BY <1>10 DEF InitPool, Phases
<1>11. CASE InitFails
  BY <1>11 DEF InitFails, Phases
<1>12. CASE OpenGate
  BY <1>12 DEF OpenGate, Phases
<1>13. CASE AttachFails
  BY <1>13 DEF AttachFails, Phases
<1> QED
  BY <1>1, <1>2, <1>3, <1>4, <1>5, <1>6, <1>7, <1>8, <1>9, <1>10, <1>11, <1>12,
     <1>13 DEF Rebuild

LEMMA InitHasType ==
  ASSUME Init
  PROVE  TypeOK
<1>1. MaxPools \in Nat /\ 1 \in Pools /\ NWorkers \in Nat /\ NWorkers > 0
  BY FaultsAssumption, WorkersAssumption DEF MaxPools, Pools
<1>2. CallerType
  BY <1>1 DEF Init, CallerType, Places, Replies
<1>3. PoolType
  BY <1>1 DEF Init, PoolType
<1>4. WorkerType
  BY DEF Init, WorkerType, Steps
<1>5. WatchdogType
  BY <1>1, FaultsAssumption DEF Init, WatchdogType, Phases
<1> QED
  BY <1>2, <1>3, <1>4, <1>5 DEF TypeOK

\* Every variable keeps its type: the tables of callers, pools and workers
\* never hold an unknown request, worker or generation.
THEOREM TypeCorrect == Spec => []TypeOK
<1>1. TypeOK /\ [Next]_vars => TypeOK'
  <2> SUFFICES ASSUME TypeOK, [Next]_vars PROVE TypeOK'
    OBVIOUS
  <2>1. CASE UNCHANGED vars
    BY <2>1 DEF vars, TypeOK, CallerType, PoolType, WorkerType, WatchdogType,
       callerVars, poolVars, workerVars, serverVars, monitorVars, restartVars,
       countVars
  <2>2. CASE Next
    BY <2>2, CallerKeepsType, RouterKeepsType, WorkerKeepsType, MonitorKeepsType,
       FaultsKeepType, RebuildKeepsType DEF Next
  <2> QED
    BY <2>1, <2>2
<1> QED
  BY <1>1, InitHasType, PTL DEF Spec

-----------------------------------------------------------------------------
(***************************************************************************)
(* The gate.  ReadyMeansServing is not inductive: that the pool is the one *)
(* of the announced server when OpenGate happens depends on how every step *)
(* of the rebuild, and every way it fails, leaves pool and generation.     *)
(***************************************************************************)
GateInv ==
  /\ ReadyMeansServing
  /\ phase = "idle" => serverReady
  /\ gen = IF phase = "build" THEN pool + 1 ELSE pool
  /\ phase = "attach" => pool \in routing /\ ready[pool] # {}

LEMMA GateInductive ==
  ASSUME TypeOK, GateInv, [Next]_vars
  PROVE  GateInv'
<1> USE DEF GateInv, ReadyMeansServing, callerVars, poolVars, workerVars, serverVars,
            monitorVars, restartVars, countVars
<1>0. pool \in Pools /\ gen \in Pools /\ ready \in [Pools -> SUBSET Workers]
  BY DEF TypeOK, PoolType, WatchdogType
<1>1. CASE UNCHANGED vars
  BY <1>1 DEF vars
<1>2. CASE \E r \in Requests : Caller(r)
  BY <1>2 DEF Caller, PassGate, FetchPool, Submit, Receive, ResponseTimeout, Unpark
<1>3. CASE \E p \in Pools : Route(p)
  BY <1>3 DEF Route
<1>4. CASE \E s \in Slots : Worker(s)
  BY <1>4 DEF Worker, Take, Send, SendFails, EditDone, EditThenCall, Respond,
     TaskTimeout, OnServiceUnavailable, Finally, Answered
<1>5. CASE Monitor
  BY <1>5, ReportFrame
<1>6. CASE Faults
  BY <1>6, ReportFrame DEF Faults, Crash, MonitorDies, ConnectFails, InitRejected,
     Wedge
<1>7. CASE Rebuild
  <2>1. CASE TakeEvent
    BY <2>1 DEF TakeEvent
  <2>2. CASE MonitorLost
    BY <2>2 DEF MonitorLost
  <2>3. CASE CloseGate \/ MarkCulprits \/ PoisonWorkers \/ TearDown \/ KillTree
    BY <2>3 DEF CloseGate, MarkCulprits, PoisonWorkers, TearDown, KillTree
  <2>4. CASE Connect
    BY <1>0, <2>4 DEF Connect, Pools
  <2>5. CASE BuildPool
    BY <1>0, <2>5 DEF BuildPool, Pools
  <2>6. CASE \E healthy \in SUBSET Workers : InitPool(healthy)
    BY <1>0, <2>6 DEF InitPool
  <2>7. CASE InitFails \/ OpenGate \/ AttachFails
    BY <2>7 DEF InitFails, OpenGate, AttachFails
  <2> QED
    BY <1>7, <2>1, <2>2, <2>3, <2>4, <2>5, <2>6, <2>7 DEF Rebuild
<1> QED
  BY <1>1, <1>2, <1>3, <1>4, <1>5, <1>6, <1>7 DEF Next

LEMMA GateInitially == Init => GateInv
<1>1. 1 \in Pools /\ 1 \in Workers
  BY WorkersAssumption, FaultsAssumption DEF Pools, MaxPools, Workers
<1> QED
  BY <1>1 DEF Init, GateInv, ReadyMeansServing

LEMMA GateInvariant == Spec => []GateInv
<1>1. TypeOK /\ GateInv /\ [Next]_vars => GateInv'
  BY GateInductive
<1> QED
  BY <1>1, GateInitially, TypeCorrect, PTL DEF Spec

\* Callers are let in only to a pool of the running server that can take
\* their task, whatever happened during the rebuild.
THEOREM ReadyServes == Spec => []ReadyMeansServing
<1>1. GateInv => ReadyMeansServing
  BY DEF GateInv
<1> QED
  BY <1>1, GateInvariant, PTL

\* The pool and the server are only exchanged behind the closed gate.
THEOREM ReplacementIsClosed == Spec => ReplacedWhileClosed
<1>1. ASSUME GateInv, [Next]_vars
      PROVE  [pool' # pool \/ gen' # gen => ~serverReady /\ ~serverReady']_vars
  <2> USE DEF callerVars, poolVars, workerVars, serverVars, monitorVars, restartVars,
              countVars
  <2>1. pool' # pool \/ gen' # gen => Connect \/ BuildPool \/ UNCHANGED vars
    BY <1>1, ReportFrame DEF Next, vars, Caller, PassGate, FetchPool, Submit, Receive,
       ResponseTimeout, Unpark, Route, Worker, Take, Send, SendFails, EditDone,
       EditThenCall, Respond, TaskTimeout, OnServiceUnavailable, Finally, Answered,
       Faults, Crash,
       MonitorDies, ConnectFails, InitRejected, Wedge, Rebuild,
       TakeEvent, MonitorLost, CloseGate, MarkCulprits, PoisonWorkers, TearDown,
       KillTree, InitPool, InitFails, OpenGate, AttachFails
  <2>2. Connect \/ BuildPool => ~serverReady /\ ~serverReady'
    BY <1>1 DEF GateInv, ReadyMeansServing, Connect, BuildPool
  <2> QED
    BY <2>1, <2>2
<1>2. GateInv /\ [Next]_vars
        => [pool' # pool \/ gen' # gen => ~serverReady /\ ~serverReady']_vars
  BY <1>1
<1> QED
  BY <1>2, GateInvariant, PTL DEF Spec, ReplacedWhileClosed

-----------------------------------------------------------------------------
(***************************************************************************)
(* The poison.  SnapshotPoisoned is inductive given the types: only the    *)
(* thread that leaves consumes a poison, and no thread returns.            *)
(***************************************************************************)
LEMMA PoisonInductive ==
  ASSUME TypeOK, SnapshotPoisoned, [Next]_vars
  PROVE  SnapshotPoisoned'
<1> USE DEF SnapshotPoisoned, callerVars, poolVars, workerVars, serverVars,
            monitorVars, restartVars, countVars
<1>0. /\ poison \in [Slots -> BOOLEAN] /\ step \in [Slots -> Steps]
      /\ pairs \in SUBSET Slots
  BY DEF TypeOK, WorkerType, WatchdogType
<1>1. CASE UNCHANGED vars
  BY <1>1 DEF vars
<1>2. CASE \E r \in Requests : Caller(r)
  BY <1>2 DEF Caller, PassGate, FetchPool, Submit, Receive, ResponseTimeout, Unpark
<1>3. CASE \E p \in Pools : Route(p)
  BY <1>3 DEF Route
<1>4. ASSUME NEW t \in Slots, Worker(t)
      PROVE  SnapshotPoisoned'
  <2>1. CASE Take(t)
    BY <1>0, <2>1 DEF Take
  <2>2. CASE Send(t)
    BY <1>0, <2>2 DEF Send
  <2>3. CASE SendFails(t) \/ EditDone(t) \/ Respond(t) \/ TaskTimeout(t)
    BY <1>0, <2>3 DEF SendFails, EditDone, Respond, TaskTimeout, Stuck, Answered
  <2>4. CASE EditThenCall(t)
    BY <1>0, <2>4 DEF EditThenCall
  <2>5. CASE OnServiceUnavailable(t)
    BY <1>0, <2>5 DEF OnServiceUnavailable
  <2>6. CASE Finally(t)
    BY <1>0, <2>6 DEF Finally
  <2> QED
    BY <1>4, <2>1, <2>2, <2>3, <2>4, <2>5, <2>6 DEF Worker
<1>5. CASE Monitor
  BY <1>5, ReportFrame
<1>6. CASE Faults
  BY <1>6, ReportFrame DEF Faults, Crash, MonitorDies, ConnectFails, InitRejected,
     Wedge
<1>7. CASE Rebuild
  <2>1. CASE PoisonWorkers
    BY <1>0, <2>1 DEF PoisonWorkers
  <2>2. CASE TearDown
    BY <1>0, <2>2 DEF TearDown
  <2>3. CASE TakeEvent \/ MonitorLost \/ CloseGate \/ MarkCulprits \/ KillTree
    BY <2>3 DEF TakeEvent, MonitorLost, CloseGate, MarkCulprits, KillTree
  <2>4. CASE Connect \/ BuildPool \/ (\E healthy \in SUBSET Workers : InitPool(healthy))
    BY <2>4 DEF Connect, BuildPool, InitPool
  <2>5. CASE InitFails \/ OpenGate \/ AttachFails
    BY <2>5 DEF InitFails, OpenGate, AttachFails
  <2> QED
    BY <1>7, <2>1, <2>2, <2>3, <2>4, <2>5 DEF Rebuild
<1> QED
  BY <1>1, <1>2, <1>3, <1>4, <1>5, <1>6, <1>7 DEF Next

\* Every worker found in flight by a rebuild meets its poison or has left.
THEOREM PoisonReachesSnapshot == Spec => []SnapshotPoisoned
<1>1. Init => SnapshotPoisoned
  BY DEF Init, SnapshotPoisoned
<1>2. TypeOK /\ SnapshotPoisoned /\ [Next]_vars => SnapshotPoisoned'
  BY PoisonInductive
<1> QED
  BY <1>1, <1>2, TypeCorrect, PTL DEF Spec


-----------------------------------------------------------------------------
(***************************************************************************)
(* The task of a request.  OneCopy counts positions; the proof says of     *)
(* each position what it holds, so that a step that moves a task (from one *)
(* queue to the next, into current_task) is a statement about it alone.    *)
(***************************************************************************)
Within(r, seq) == \E i \in 1 .. Len(seq) : seq[i] = r

Once(r, seq) == \A i, j \in 1 .. Len(seq) : seq[i] = r /\ seq[j] = r => i = j

\* Worker s executes the task of r.
Holds(s, r) == step[s] \in Working /\ current[s] = r

Nowhere(r) ==
  /\ \A p \in Pools : ~Within(r, overall[p])
  /\ \A s \in Slots : ~Within(r, queue[s]) /\ ~Holds(s, r)

\* In the queue of one pool, of one worker, or with one worker.
Unique(r) ==
  /\ \A p \in Pools : Once(r, overall[p])
  /\ \A s \in Slots : Once(r, queue[s])
  /\ \A p, q \in Pools : Within(r, overall[p]) /\ Within(r, overall[q]) => p = q
  /\ \A s, t \in Slots :
       /\ Within(r, queue[s]) /\ Within(r, queue[t]) => s = t
       /\ Holds(s, r) /\ Holds(t, r) => s = t
       /\ ~(Within(r, queue[s]) /\ Holds(t, r))
  /\ \A p \in Pools, s \in Slots :
       Within(r, overall[p]) => ~Within(r, queue[s]) /\ ~Holds(s, r)

CopiesOf(r) ==
  /\ pc[r] # "waiting" => reply[r] = "none"
  /\ pc[r] = "waiting" /\ reply[r] = "none" => ~Nowhere(r) /\ Unique(r)
  /\ pc[r] = "waiting" /\ reply[r] # "none" => Nowhere(r)
  /\ pc[r] \in {"gate", "entered", "fetched", "parked"} => Nowhere(r)

CopyInv == \A r \in Requests : CopiesOf(r)

-----------------------------------------------------------------------------
(***************************************************************************)
(* Outages.  Whoever is answered with a retry or a toxic verdict has met   *)
(* an outage: the workers that were poisoned, or whose calls were woken,   *)
(* belong to a pool that callers do not fetch once the gate is open again. *)
(***************************************************************************)
Struck(s) == poison[s] \/ step[s] = "woken"

\* A task is in the pool that its caller fetched.
InTarget ==
  /\ \A r \in Requests : target[r] <= pool
  /\ \A p \in Pools, r \in Requests : Within(r, overall[p]) => target[r] = p
  /\ \A s \in Slots, r \in Requests : Within(r, queue[s]) \/ Holds(s, r) => target[r] = s[1]
  /\ \A s \in Slots : step[s] \in Working => current[s] \in Requests

DisturbInv ==
  /\ ~serverReady => disturbed = Requests
  /\ \A r \in Requests : pc[r] \in {"fetched", "waiting"} /\ target[r] # pool => r \in disturbed
  /\ \A r \in Requests : reply[r] \in {"retry", "toxic", "overdue"} => r \in disturbed
  /\ \A s \in pairs : s[1] <= pool
  /\ \A s \in Slots : Struck(s) => s[1] <= pool
  /\ phase \in {"idle", "init", "attach"} \/ serverReady => \A s \in Slots : Struck(s) => s[1] # pool

TaskInv == GateInv /\ CopyInv /\ InTarget /\ DisturbInv


-----------------------------------------------------------------------------
(* Queues of tasks                                                         *)

LEMMA TaskAppended ==
  ASSUME NEW q \in Seq(Requests), NEW c \in Requests, NEW r, NEW m, m = Append(q, c)
  PROVE  /\ m \in Seq(Requests)
         /\ r = c => Within(r, m) /\ (~Within(r, q) => Once(r, m))
         /\ r # c => (Within(r, m) <=> Within(r, q)) /\ (Once(r, q) => Once(r, m))
<1>1. /\ m \in Seq(Requests) /\ Len(q) \in Nat /\ Len(m) = Len(q) + 1
      /\ m[Len(q) + 1] = c /\ \A i \in 1 .. Len(q) : m[i] = q[i]
  OBVIOUS
<1>2. /\ Len(q) + 1 \in 1 .. Len(m)
      /\ \A i \in 1 .. Len(m) : i = Len(q) + 1 \/ i \in 1 .. Len(q)
      /\ \A i \in 1 .. Len(q) : i \in 1 .. Len(m)
  BY <1>1
<1>3. CASE r = c
  BY <1>1, <1>2, <1>3 DEF Within, Once
<1>4. CASE r # c
  BY <1>1, <1>2, <1>4 DEF Within, Once
<1> QED
  BY <1>1, <1>3, <1>4

LEMMA TaskTaken ==
  ASSUME NEW q \in Seq(Requests), q # <<>>, NEW r, NEW m, m = Tail(q)
  PROVE  /\ m \in Seq(Requests) /\ Head(q) \in Requests /\ Within(Head(q), q)
         /\ r = Head(q) => (Once(r, q) => ~Within(r, m))
         /\ r # Head(q) => (Within(r, m) <=> Within(r, q))
         /\ Once(r, q) => Once(r, m)
<1>1. /\ m \in Seq(Requests) /\ Head(q) \in Requests /\ Head(q) = q[1]
      /\ Len(q) \in Nat \ {0} /\ Len(m) = Len(q) - 1
      /\ \A i \in 1 .. Len(m) : m[i] = q[i + 1]
  <2>1. Len(q) \in Nat \ {0} /\ Head(q) = q[1]
    BY EmptySeq
  <2>2. /\ Head(q) \in Requests /\ m \in Seq(Requests) /\ Len(m) = Len(q) - 1
        /\ \A i \in 1 .. Len(m) : m[i] = q[i + 1]
    BY HeadTailProperties
  <2> QED
    BY <2>1, <2>2
<1>2. /\ 1 \in 1 .. Len(q)
      /\ \A i \in 1 .. Len(m) : i + 1 \in 1 .. Len(q) /\ i + 1 # 1
      /\ \A i \in 1 .. Len(q) : i = 1 \/ (i - 1 \in 1 .. Len(m) /\ (i - 1) + 1 = i)
      /\ \A i, j \in 1 .. Len(m) : i + 1 = j + 1 => i = j
  BY <1>1
<1>3. Within(Head(q), q)
  BY <1>1, <1>2 DEF Within
<1>4. r = Head(q) => (Once(r, q) => ~Within(r, m))
  BY <1>1, <1>2 DEF Within, Once
<1>5. r # Head(q) => (Within(r, m) <=> Within(r, q))
  BY <1>1, <1>2 DEF Within
<1>6. Once(r, q) => Once(r, m)
  BY <1>1, <1>2 DEF Once
<1> QED
  BY <1>1, <1>3, <1>4, <1>5, <1>6

\* A request whose task a step does not move.
SameFor(r) ==
  /\ \A p \in Pools : /\ Within(r, overall'[p]) <=> Within(r, overall[p])
                      /\ Once(r, overall[p]) => Once(r, overall'[p])
  /\ \A s \in Slots : /\ Within(r, queue'[s]) <=> Within(r, queue[s])
                      /\ Once(r, queue[s]) => Once(r, queue'[s])
                      /\ (step'[s] \in Working /\ current'[s] = r) <=> Holds(s, r)

LEMMA SameTask ==
  ASSUME NEW r, SameFor(r)
  PROVE  /\ Nowhere(r)' <=> Nowhere(r)
         /\ Unique(r) => Unique(r)'
         /\ \A s \in Slots : Holds(s, r)' <=> Holds(s, r)
<1>1. \A s \in Slots : Holds(s, r)' <=> Holds(s, r)
  BY DEF SameFor, Holds
<1>2. Nowhere(r)' <=> Nowhere(r)
  BY <1>1 DEF SameFor, Nowhere
<1>3. Unique(r) => Unique(r)'
  BY <1>1 DEF SameFor, Unique
<1> QED
  BY <1>1, <1>2, <1>3

\* A step that moves no task and gives no answer.
Unmoved ==
  /\ UNCHANGED <<overall, queue, current>>
  /\ \A s \in Slots : step'[s] \in Working <=> step[s] \in Working

LEMMA UnmovedIsSame ==
  ASSUME Unmoved, NEW r PROVE SameFor(r)
BY DEF Unmoved, SameFor, Holds

LEMMA UnmovedKeepsCopies ==
  ASSUME CopyInv, Unmoved, UNCHANGED <<pc, reply>>
  PROVE  CopyInv'
BY UnmovedIsSame, SameTask DEF CopyInv, CopiesOf

-----------------------------------------------------------------------------
(* Each step keeps the copies                                              *)

LEMMA CallerKeepsCopies ==
  ASSUME TypeOK, CopyInv, NEW c \in Requests, Caller(c)
  PROVE  CopyInv'
<1> USE DEF poolVars, workerVars, Places, Outcomes, Replies
<1>0. /\ pc \in [Requests -> Places \cup Outcomes] /\ reply \in [Requests -> Replies]
      /\ target \in [Requests -> Pools] /\ overall \in [Pools -> Seq(Requests)]
  BY DEF TypeOK, CallerType, PoolType
<1>1. CASE Submit(c)
  <2>1. PICK t \in Pools : t = target[c]
    BY <1>0
  <2>2. /\ overall' = [overall EXCEPT ![t] = Append(@, c)] /\ UNCHANGED <<queue, current, step, reply>>
        /\ pc[c] = "fetched" /\ pc' = [pc EXCEPT ![c] = "waiting"]
    BY <1>1, <2>1 DEF Submit
  <2>3. overall'[t] = Append(overall[t], c) /\ \A p \in Pools \ {t} : overall'[p] = overall[p]
    BY <1>0, <2>2
  <2>4. Nowhere(c) /\ reply[c] = "none"
    BY <2>2 DEF CopyInv, CopiesOf
  <2>5. ~Nowhere(c)' /\ Unique(c)'
    <3>1. Within(c, overall'[t]) /\ Once(c, overall'[t])
      BY <1>0, <2>3, <2>4, TaskAppended DEF Nowhere
    <3>2. \A p \in Pools \ {t} : ~Within(c, overall'[p])
      BY <2>3, <2>4 DEF Nowhere
    <3>3. \A s \in Slots : ~Within(c, queue'[s]) /\ ~Holds(s, c)'
      BY <2>2, <2>4 DEF Nowhere, Holds
    <3>4. (\A p \in Pools : Once(c, overall'[p])) /\ (\A s \in Slots : Once(c, queue'[s]))
      BY <3>1, <3>2, <3>3 DEF Within, Once
    <3>5. ~Nowhere(c)'
      BY <3>1 DEF Nowhere
    <3>6. \A p \in Pools : Within(c, overall'[p]) => p = t
      BY <3>2
    <3>7. Unique(c)'
      BY <3>3, <3>4, <3>6 DEF Unique
    <3> QED
      BY <3>5, <3>7
  <2>6. ASSUME NEW r \in Requests PROVE CopiesOf(r)'
    <3>1. CASE r = c
      BY <1>0, <2>2, <2>4, <2>5, <3>1 DEF CopiesOf
    <3>2. CASE r # c
      <4>1. Within(r, overall'[t]) <=> Within(r, overall[t])
        BY <1>0, <2>3, <3>2, TaskAppended
      <4>2. Once(r, overall[t]) => Once(r, overall'[t])
        BY <1>0, <2>3, <3>2, TaskAppended
      <4>3. SameFor(r)
        BY <2>2, <2>3, <4>1, <4>2 DEF SameFor, Holds
      <4> QED
        BY <1>0, <2>2, <3>2, <4>3, SameTask DEF CopyInv, CopiesOf
    <3> QED
      BY <3>1, <3>2
  <2> QED
    BY <2>6 DEF CopyInv
<1>2. ASSUME UNCHANGED <<poolVars, workerVars>>
      PROVE  \A r \in Requests : (Nowhere(r)' <=> Nowhere(r)) /\ (Unique(r) => Unique(r)')
  <2>1. Unmoved
    BY <1>2 DEF Unmoved
  <2> QED
    BY <2>1, UnmovedIsSame, SameTask
<1>3. CASE PassGate(c)
  BY <1>0, <1>2, <1>3 DEF PassGate, CopyInv, CopiesOf
<1>4. CASE FetchPool(c)
  BY <1>0, <1>2, <1>4 DEF FetchPool, CopyInv, CopiesOf
<1>5. CASE Receive(c)
  BY <1>0, <1>2, <1>5 DEF Receive, AfterAnswer, CopyInv, CopiesOf
<1>6. CASE ResponseTimeout(c)
  BY <1>0, <1>2, <1>6 DEF ResponseTimeout, CopyInv, CopiesOf
<1>7. CASE Unpark(c)
  BY <1>0, <1>2, <1>7 DEF Unpark, CopyInv, CopiesOf
<1> QED
  BY <1>1, <1>3, <1>4, <1>5, <1>6, <1>7 DEF Caller


\* The head of the pool's queue goes to a worker's,
LEMMA RouteKeepsCopies ==
  ASSUME TypeOK, CopyInv, NEW b \in Pools, Route(b)
  PROVE  CopyInv'
<1>0. overall \in [Pools -> Seq(Requests)] /\ queue \in [Slots -> Seq(Requests)]
  BY DEF TypeOK, PoolType, WorkerType
<1>1. PICK w \in Workers : queue' = [queue EXCEPT ![<<b, w>>] = Append(@, Head(overall[b]))]
  BY DEF Route
<1>2. PICK u \in Slots : u = <<b, w>>
  BY DEF Slots
<1>3. PICK h : h = Head(overall[b])
  OBVIOUS
<1>4. /\ overall[b] # <<>> /\ overall[b] \in Seq(Requests) /\ queue[u] \in Seq(Requests)
      /\ overall' = [overall EXCEPT ![b] = Tail(@)]
      /\ UNCHANGED <<pc, reply, current, step>>
  BY <1>0 DEF Route, callerVars
<1>5. /\ overall'[b] = Tail(overall[b]) /\ \A p \in Pools \ {b} : overall'[p] = overall[p]
      /\ queue'[u] = Append(queue[u], h) /\ \A s \in Slots \ {u} : queue'[s] = queue[s]
  BY <1>0, <1>1, <1>2, <1>3, <1>4
<1>6. h \in Requests /\ Within(h, overall[b])
  BY <1>3, <1>4, TaskTaken
<1>7. ASSUME NEW r \in Requests, r # h PROVE CopiesOf(r)'
  <2>1. /\ Within(r, overall'[b]) <=> Within(r, overall[b])
        /\ Once(r, overall[b]) => Once(r, overall'[b])
    BY <1>3, <1>4, <1>5, <1>7, TaskTaken
  <2>2. /\ Within(r, queue'[u]) <=> Within(r, queue[u])
        /\ Once(r, queue[u]) => Once(r, queue'[u])
    BY <1>4, <1>5, <1>6, <1>7, TaskAppended
  <2>3. SameFor(r)
    BY <1>4, <1>5, <2>1, <2>2 DEF SameFor, Holds
  <2> QED
    BY <1>4, <2>3, SameTask DEF CopyInv, CopiesOf
<1>8. CopiesOf(h)'
  <2>1. CopiesOf(h) /\ ~Nowhere(h)
    BY <1>6 DEF CopyInv, Nowhere
  <2>2. ASSUME Unique(h) PROVE ~Nowhere(h)' /\ Unique(h)'
    <3>1. /\ Once(h, overall[b]) /\ \A p \in Pools \ {b} : ~Within(h, overall[p])
          /\ \A s \in Slots : ~Within(h, queue[s]) /\ ~Holds(s, h)
      BY <1>6, <2>2 DEF Unique
    <3>2. \A p \in Pools : ~Within(h, overall'[p])
      <4>1. ~Within(h, overall'[b])
        <5>1. Once(h, overall[b])
          BY <3>1
        <5> QED
          BY <1>3, <1>4, <1>5, <5>1, TaskTaken
      <4> QED
        BY <1>5, <3>1, <4>1
    <3>3. Within(h, queue'[u]) /\ Once(h, queue'[u])
      BY <1>4, <1>5, <1>6, <3>1, TaskAppended
    <3>4. \A s \in Slots \ {u} : ~Within(h, queue'[s])
      BY <1>5, <3>1
    <3>5. \A s \in Slots : ~Holds(s, h)'
      BY <1>4, <3>1 DEF Holds
    <3>6. (\A p \in Pools : Once(h, overall'[p])) /\ (\A s \in Slots : Once(h, queue'[s]))
      BY <3>2, <3>3, <3>4 DEF Within, Once
    <3>7. ~Nowhere(h)'
      BY <3>3 DEF Nowhere
    <3>8. \A s \in Slots : Within(h, queue'[s]) => s = u
      BY <3>4
    <3>9. Unique(h)'
      BY <3>2, <3>5, <3>6, <3>8 DEF Unique
    <3> QED
      BY <3>7, <3>9
  <2> QED
    BY <1>4, <2>1, <2>2 DEF CopiesOf
<1> QED
  BY <1>7, <1>8 DEF CopyInv

\* the head of a worker's queue to its hands,
LEMMA TakeKeepsCopies ==
  ASSUME TypeOK, CopyInv, NEW u \in Slots, Take(u)
  PROVE  CopyInv'
<1>0. /\ queue \in [Slots -> Seq(Requests)] /\ step \in [Slots -> Steps]
      /\ current \in [Slots -> Requests \cup {NoTask}]
  BY DEF TypeOK, WorkerType
<1>1. PICK h : h = Head(queue[u])
  OBVIOUS
<1>2. /\ step[u] = "idle" /\ queue[u] # <<>> /\ queue[u] \in Seq(Requests)
      /\ current' = [current EXCEPT ![u] = h] /\ queue' = [queue EXCEPT ![u] = Tail(@)]
      /\ step' = [step EXCEPT ![u] = "begun"]
      /\ UNCHANGED <<pc, reply, overall>>
  BY <1>0, <1>1 DEF Take, callerVars, poolVars
<1>3. /\ queue'[u] = Tail(queue[u]) /\ current'[u] = h /\ step'[u] = "begun"
      /\ \A s \in Slots \ {u} : queue'[s] = queue[s] /\ current'[s] = current[s] /\ step'[s] = step[s]
  BY <1>0, <1>2
<1>4. h \in Requests /\ Within(h, queue[u])
  BY <1>1, <1>2, TaskTaken
<1>5. \A r : ~Holds(u, r) /\ (Holds(u, r)' <=> r = h)
  BY <1>2, <1>3 DEF Holds, Working
<1>6. \A s \in Slots \ {u} : \A r : Holds(s, r)' <=> Holds(s, r)
  BY <1>3 DEF Holds
<1>7. ASSUME NEW r \in Requests, r # h PROVE CopiesOf(r)'
  <2>1. /\ Within(r, queue'[u]) <=> Within(r, queue[u])
        /\ Once(r, queue[u]) => Once(r, queue'[u])
    BY <1>1, <1>2, <1>3, <1>7, TaskTaken
  <2>2. \A s \in Slots : Holds(s, r)' <=> Holds(s, r)
    BY <1>5, <1>6, <1>7
  <2>3. \A s \in Slots : (step'[s] \in Working /\ current'[s] = r) <=> Holds(s, r)
    BY <2>2 DEF Holds
  <2>4. SameFor(r)
    BY <1>2, <1>3, <2>1, <2>3 DEF SameFor
  <2> QED
    BY <1>2, <2>4, SameTask DEF CopyInv, CopiesOf
<1>8. CopiesOf(h)'
  <2>1. CopiesOf(h) /\ ~Nowhere(h)
    BY <1>4 DEF CopyInv, Nowhere
  <2>2. ASSUME Unique(h) PROVE ~Nowhere(h)' /\ Unique(h)'
    <3>1. /\ Once(h, queue[u]) /\ \A p \in Pools : ~Within(h, overall[p]) /\ Once(h, overall[p])
          /\ \A s \in Slots \ {u} : ~Within(h, queue[s])
          /\ \A s \in Slots : ~Holds(s, h) /\ Once(h, queue[s])
      BY <1>4, <2>2 DEF Unique
    <3>2. ~Within(h, queue'[u]) /\ Once(h, queue'[u])
      <4>1. Once(h, queue[u])
        BY <3>1
      <4> QED
        BY <1>1, <1>2, <1>3, <4>1, TaskTaken
    <3>3. \A s \in Slots : ~Within(h, queue'[s]) /\ Once(h, queue'[s])
      BY <1>3, <3>1, <3>2
    <3>4. \A s \in Slots : Holds(s, h)' <=> s = u
      BY <1>5, <1>6, <3>1
    <3>5. \A p \in Pools : ~Within(h, overall'[p]) /\ Once(h, overall'[p])
      BY <1>2, <3>1
    <3>6. ~Nowhere(h)'
      BY <3>4 DEF Nowhere
    <3>7. Unique(h)'
      BY <3>3, <3>4, <3>5 DEF Unique
    <3> QED
      BY <3>6, <3>7
  <2> QED
    BY <1>2, <2>1, <2>2 DEF CopiesOf
<1> QED
  BY <1>7, <1>8 DEF CopyInv


\* and the task in hand is answered, or answered with the whole queue.
LEMMA AnsweredKeepsCopies ==
  ASSUME TypeOK, CopyInv, NEW u \in Slots, step[u] \in Working,
         NEW what \in Replies \ {"none"}, Answered(u, what)
  PROVE  CopyInv'
<1>0. /\ step \in [Slots -> Steps] /\ reply \in [Requests -> Replies]
  BY DEF TypeOK, WorkerType, CallerType
<1>1. /\ step'[u] \notin Working /\ \A s \in Slots \ {u} : step'[s] = step[s]
      /\ Answer(current[u], what)
      /\ UNCHANGED <<pc, overall, queue, current>>
  BY <1>0 DEF Answered, poolVars, Working
<1>2. \A r : ~Holds(u, r)' /\ (Holds(u, r) <=> current[u] = r)
  BY <1>1 DEF Holds
<1>3. \A s \in Slots \ {u} : \A r : Holds(s, r)' <=> Holds(s, r)
  BY <1>1 DEF Holds
<1>4. ASSUME NEW r \in Requests, r # current[u] PROVE CopiesOf(r)'
  <2>1. reply'[r] = reply[r]
    BY <1>0, <1>1, <1>4 DEF Answer
  <2>2. \A s \in Slots : Holds(s, r)' <=> Holds(s, r)
    BY <1>2, <1>3, <1>4
  <2>3. \A s \in Slots : (step'[s] \in Working /\ current'[s] = r) <=> Holds(s, r)
    BY <2>2 DEF Holds
  <2>4. SameFor(r)
    BY <1>1, <2>3 DEF SameFor
  <2> QED
    BY <1>1, <2>1, <2>4, SameTask DEF CopyInv, CopiesOf
<1>5. ASSUME NEW r \in Requests, r = current[u] PROVE CopiesOf(r)'
  <2>1. CopiesOf(r) /\ ~Nowhere(r)
    BY <1>2, <1>5 DEF CopyInv, Nowhere
  <2>2. CASE pc[r] = "waiting"
    <3>1. reply'[r] # "none"
      BY <1>0, <1>1, <1>5, <2>2 DEF Answer
    <3>2. Unique(r)
      BY <2>1, <2>2 DEF CopiesOf
    <3>3. /\ \A p \in Pools : ~Within(r, overall[p])
          /\ \A s \in Slots : ~Within(r, queue[s]) /\ (Holds(s, r) => s = u)
      BY <1>2, <1>5, <3>2 DEF Unique
    <3>4. \A s \in Slots : ~Holds(s, r)'
      BY <1>2, <1>3, <3>3
    <3>5. Nowhere(r)'
      BY <1>1, <3>3, <3>4 DEF Nowhere
    <3> QED
      BY <1>1, <2>2, <3>1, <3>5 DEF CopiesOf
  <2>3. CASE pc[r] # "waiting"
    BY <1>1, <1>5, <2>1, <2>3 DEF Answer, CopiesOf
  <2> QED
    BY <2>2, <2>3
<1> QED
  BY <1>4, <1>5 DEF CopyInv

LEMMA DrainKeepsCopies ==
  ASSUME TypeOK, CopyInv, NEW u \in Slots, OnServiceUnavailable(u)
  PROVE  CopyInv'
<1>0. /\ step \in [Slots -> Steps] /\ reply \in [Requests -> Replies]
      /\ queue \in [Slots -> Seq(Requests)] /\ marked \in [Slots -> {"no", "toxic", "overdue"}]
  BY DEF TypeOK, WorkerType, CallerType
<1>1. /\ step[u] \in Working /\ step'[u] \notin Working
      /\ queue'[u] = <<>>
      /\ \A s \in Slots \ {u} : step'[s] = step[s] /\ queue'[s] = queue[s]
      /\ UNCHANGED <<pc, overall, current>>
  BY <1>0 DEF OnServiceUnavailable, poolVars, Working
<1>2. \A r \in Requests :
        reply'[r] = IF pc[r] = "waiting" THEN DrainAnswer(u, r) ELSE reply[r]
  BY DEF OnServiceUnavailable
<1>3. \A r : ~Holds(u, r)' /\ (Holds(u, r) <=> current[u] = r) /\ (Queued(u, r) <=> Within(r, queue[u]))
  <2>1. DOMAIN queue[u] = 1 .. Len(queue[u])
    BY <1>0, LenProperties
  <2> QED
    BY <1>1, <2>1 DEF Holds, Queued, Within
<1>4. \A s \in Slots \ {u} : \A r : Holds(s, r)' <=> Holds(s, r)
  BY <1>1 DEF Holds
<1>5. \A r : ~Within(r, queue'[u]) /\ Once(r, queue'[u])
  <2>1. Len(queue'[u]) = 0
    BY <1>1
  <2> QED
    BY <2>1 DEF Within, Once
<1>6. ASSUME NEW r \in Requests, ~Holds(u, r), ~Within(r, queue[u]) PROVE CopiesOf(r)'
  <2>1. reply'[r] = reply[r]
    BY <1>2, <1>3, <1>6 DEF DrainAnswer
  <2>2. \A s \in Slots : Holds(s, r)' <=> Holds(s, r)
    BY <1>3, <1>4, <1>6
  <2>3. \A s \in Slots : (step'[s] \in Working /\ current'[s] = r) <=> Holds(s, r)
    BY <2>2 DEF Holds
  <2>4. SameFor(r)
    BY <1>1, <1>5, <1>6, <2>3 DEF SameFor
  <2> QED
    BY <1>1, <2>1, <2>4, SameTask DEF CopyInv, CopiesOf
<1>7. ASSUME NEW r \in Requests, Holds(u, r) \/ Within(r, queue[u]) PROVE CopiesOf(r)'
  <2>1. CopiesOf(r) /\ ~Nowhere(r)
    BY <1>7 DEF CopyInv, Nowhere
  <2>2. CASE pc[r] = "waiting"
    <3>1. reply'[r] # "none"
      BY <1>0, <1>2, <1>3, <1>7, <2>2 DEF DrainAnswer
    <3>2. Unique(r)
      BY <2>1, <2>2 DEF CopiesOf
    <3>3. /\ \A p \in Pools : ~Within(r, overall[p])
          /\ \A s \in Slots : Within(r, queue[s]) \/ Holds(s, r) => s = u
      BY <1>7, <3>2 DEF Unique
    <3>4. \A s \in Slots : ~Holds(s, r)' /\ ~Within(r, queue'[s])
      BY <1>1, <1>3, <1>4, <1>5, <3>3
    <3>5. Nowhere(r)'
      BY <1>1, <3>3, <3>4 DEF Nowhere
    <3> QED
      BY <1>1, <2>2, <3>1, <3>5 DEF CopiesOf
  <2>3. CASE pc[r] # "waiting"
    BY <1>1, <1>2, <2>1, <2>3 DEF CopiesOf
  <2> QED
    BY <2>2, <2>3
<1> QED
  BY <1>6, <1>7 DEF CopyInv

LEMMA CopiesInductive ==
  ASSUME TypeOK, CopyInv, [Next]_vars
  PROVE  CopyInv'
<1> USE DEF callerVars, poolVars, workerVars, serverVars, monitorVars, restartVars, countVars
<1>0. step \in [Slots -> Steps] /\ pairs \in SUBSET Slots
  BY DEF TypeOK, WorkerType, WatchdogType
<1>1. ASSUME UNCHANGED <<pc, reply, overall, queue, current, step>> PROVE CopyInv'
  BY <1>1, UnmovedKeepsCopies DEF Unmoved
<1>2. ASSUME NEW u \in Slots, Worker(u) PROVE CopyInv'
  <2>1. CASE Take(u)
    BY <2>1, TakeKeepsCopies
  <2>2. CASE Send(u) \/ EditThenCall(u) \/ Finally(u)
    <3>1. CASE Send(u) \/ EditThenCall(u)
      <4>1. Unmoved /\ UNCHANGED <<pc, reply>>
        BY <1>0, <3>1 DEF Send, EditThenCall, Unmoved, Working
      <4> QED
        BY <4>1, UnmovedKeepsCopies
    <3>2. CASE Finally(u)
      <4>1. \A r : ~Holds(u, r) /\ ~(step'[u] \in Working)
        BY <1>0, <3>2 DEF Finally, Holds, Working
      <4>2. current \in [Slots -> Requests \cup {NoTask}]
        BY DEF TypeOK, WorkerType
      <4>3. \A s \in Slots \ {u} : step'[s] = step[s] /\ current'[s] = current[s]
        BY <1>0, <3>2, <4>2 DEF Finally
      <4>4. \A r : SameFor(r)
        BY <3>2, <4>1, <4>3 DEF Finally, SameFor, Holds
      <4>5. UNCHANGED <<pc, reply>>
        BY <3>2 DEF Finally
      <4> QED
        BY <4>4, <4>5, SameTask DEF CopyInv, CopiesOf
    <3> QED
      BY <2>2, <3>1, <3>2
  <2>3. CASE SendFails(u)
    BY <2>3, AnsweredKeepsCopies DEF SendFails, Working, Replies
  <2>4. CASE EditDone(u)
    BY <2>4, AnsweredKeepsCopies DEF EditDone, Working, Replies
  <2>5. CASE Respond(u)
    BY <2>5, AnsweredKeepsCopies DEF Respond, Working, Replies
  <2>6. CASE TaskTimeout(u)
    BY <2>6, AnsweredKeepsCopies DEF TaskTimeout, Stuck, Working, Replies
  <2>7. CASE OnServiceUnavailable(u)
    BY <2>7, DrainKeepsCopies
  <2> QED
    BY <1>2, <2>1, <2>2, <2>3, <2>4, <2>5, <2>6, <2>7 DEF Worker
<1>3. CASE Monitor
  BY <1>1, <1>3, ReportFrame
<1>4. CASE Faults
  BY <1>1, <1>4, ReportFrame DEF Faults, Crash, MonitorDies, ConnectFails, InitRejected, Wedge
<1>5. CASE Rebuild
  <2>1. CASE TearDown
    <3>1. Unmoved /\ UNCHANGED <<pc, reply>>
      BY <1>0, <2>1 DEF TearDown, Unmoved, Working
    <3> QED
      BY <3>1, UnmovedKeepsCopies
  <2>2. CASE TakeEvent \/ MonitorLost \/ CloseGate \/ MarkCulprits \/ PoisonWorkers \/ KillTree
    BY <1>1, <2>2 DEF TakeEvent, MonitorLost, CloseGate, MarkCulprits, PoisonWorkers, KillTree
  <2>3. CASE Connect \/ BuildPool \/ (\E healthy \in SUBSET Workers : InitPool(healthy))
    BY <1>1, <2>3 DEF Connect, BuildPool, InitPool
  <2>4. CASE InitFails \/ OpenGate \/ AttachFails
    BY <1>1, <2>4 DEF InitFails, OpenGate, AttachFails
  <2> QED
    BY <1>5, <2>1, <2>2, <2>3, <2>4 DEF Rebuild
<1>6. CASE UNCHANGED vars
  BY <1>1, <1>6 DEF vars
<1>7. CASE \E c \in Requests : Caller(c)
  BY <1>7, CallerKeepsCopies
<1>8. CASE \E b \in Pools : Route(b)
  BY <1>8, RouteKeepsCopies
<1> QED
  BY <1>2, <1>3, <1>4, <1>5, <1>6, <1>7, <1>8 DEF Next

LEMMA CopiesInitially == Init => CopyInv
<1> SUFFICES ASSUME Init PROVE CopyInv
  OBVIOUS
<1>1. /\ \A p \in Pools : Len(overall[p]) = 0
      /\ \A s \in Slots : Len(queue[s]) = 0 /\ step[s] \notin Working
  BY DEF Init, Working
<1>2. \A r \in Requests : Nowhere(r)
  BY <1>1 DEF Nowhere, Within, Holds
<1>3. \A r \in Requests : pc[r] = "gate" /\ reply[r] = "none"
  BY DEF Init
<1> QED
  BY <1>2, <1>3 DEF CopyInv, CopiesOf


-----------------------------------------------------------------------------
(* A task stays in the pool that its caller fetched                        *)

\* No task comes to a new place.
NoneMoves ==
  /\ UNCHANGED target /\ pool' \in {pool, pool + 1}
  /\ \A p \in Pools : overall'[p] = overall[p]
  /\ \A s \in Slots : /\ queue'[s] = queue[s] \/ queue'[s] = <<>>
                      /\ step'[s] \in Working => step[s] \in Working /\ current'[s] = current[s]

LEMMA NoneMovesKeepsTarget ==
  ASSUME TypeOK, InTarget, NoneMoves
  PROVE  InTarget'
<1>0. target \in [Requests -> Nat] /\ pool \in Nat
  BY FaultsAssumption DEF TypeOK, CallerType, WatchdogType, Pools, MaxPools
<1>1. ASSUME NEW r \in Requests PROVE target'[r] <= pool'
  BY <1>0 DEF InTarget, NoneMoves
<1>2. \A r : Within(r, <<>>) => FALSE
  BY DEF Within
<1>3. ASSUME NEW s \in Slots, NEW r \in Requests, Within(r, queue'[s]) \/ Holds(s, r)'
      PROVE  target'[r] = s[1]
  <2>1. Within(r, queue[s]) \/ Holds(s, r)
    BY <1>2, <1>3 DEF NoneMoves, Holds
  <2> QED
    BY <2>1 DEF InTarget, NoneMoves
<1>4. ASSUME NEW s \in Slots, step'[s] \in Working PROVE current'[s] \in Requests
  BY <1>4 DEF InTarget, NoneMoves
<1>5. ASSUME NEW p \in Pools, NEW r \in Requests, Within(r, overall'[p]) PROVE target'[r] = p
  BY <1>5 DEF InTarget, NoneMoves
<1> QED
  BY <1>1, <1>3, <1>4, <1>5 DEF InTarget

LEMMA CallerKeepsTarget ==
  ASSUME TypeOK, CopyInv, InTarget, NEW c \in Requests, Caller(c)
  PROVE  InTarget'
<1>0. /\ target \in [Requests -> Pools] /\ overall \in [Pools -> Seq(Requests)]
      /\ Pools \subseteq Nat /\ pool \in Pools /\ pc \in [Requests -> Places \cup Outcomes]
  BY FaultsAssumption DEF TypeOK, CallerType, PoolType, WatchdogType, Pools, MaxPools
<1>1. CASE Submit(c)
  <2>1. PICK t \in Pools : t = target[c]
    BY <1>0
  <2>2. /\ overall'[t] = Append(overall[t], c) /\ \A p \in Pools \ {t} : overall'[p] = overall[p]
        /\ UNCHANGED <<queue, current, step, target, pool>>
    BY <1>0, <1>1, <2>1 DEF Submit, workerVars, restartVars
  <2>3. ASSUME NEW p \in Pools, NEW r \in Requests, Within(r, overall'[p]) PROVE target'[r] = p
    <3>1. CASE p = t /\ r = c
      BY <2>1, <2>2, <3>1
    <3>2. CASE p = t /\ r # c
      <4>1. Within(r, overall[t])
        BY <1>0, <2>2, <2>3, <3>2, TaskAppended
      <4> QED
        BY <2>2, <3>2, <4>1 DEF InTarget
    <3>3. CASE p # t
      BY <2>2, <2>3, <3>3 DEF InTarget
    <3> QED
      BY <3>1, <3>2, <3>3
  <2> QED
    BY <2>2, <2>3 DEF InTarget, Holds
<1>2. CASE FetchPool(c)
  <2>1. /\ pc[c] = "entered" /\ target' = [target EXCEPT ![c] = pool]
        /\ UNCHANGED <<overall, queue, current, step, pool>>
    BY <1>2 DEF FetchPool, poolVars, workerVars, restartVars
  <2>2. Nowhere(c)
    BY <2>1 DEF CopyInv, CopiesOf
  <2>3. \A r \in Requests : target'[r] <= pool' /\ (r # c => target'[r] = target[r])
    BY <1>0, <2>1 DEF InTarget
  <2>4. ASSUME NEW p \in Pools, NEW r \in Requests, Within(r, overall'[p]) PROVE target'[r] = p
    BY <2>1, <2>2, <2>3, <2>4 DEF InTarget, Nowhere
  <2>5. ASSUME NEW s \in Slots, NEW r \in Requests, Within(r, queue'[s]) \/ Holds(s, r)'
        PROVE  target'[r] = s[1]
    BY <2>1, <2>2, <2>3, <2>5 DEF InTarget, Nowhere, Holds
  <2> QED
    BY <2>1, <2>3, <2>4, <2>5 DEF InTarget
<1>3. CASE PassGate(c) \/ Receive(c) \/ ResponseTimeout(c) \/ Unpark(c)
  <2>1. NoneMoves
    BY <1>3 DEF PassGate, Receive, ResponseTimeout, Unpark, NoneMoves, poolVars, workerVars, restartVars
  <2> QED
    BY <2>1, NoneMovesKeepsTarget
<1> QED
  BY <1>1, <1>2, <1>3 DEF Caller

LEMMA RouteKeepsTarget ==
  ASSUME TypeOK, InTarget, NEW b \in Pools, Route(b)
  PROVE  InTarget'
<1>0. overall \in [Pools -> Seq(Requests)] /\ queue \in [Slots -> Seq(Requests)]
  BY DEF TypeOK, PoolType, WorkerType
<1>1. PICK w \in Workers : queue' = [queue EXCEPT ![<<b, w>>] = Append(@, Head(overall[b]))]
  BY DEF Route
<1>2. PICK u \in Slots : u = <<b, w>>
  BY DEF Slots
<1>3. PICK h : h = Head(overall[b])
  OBVIOUS
<1>4. /\ overall[b] # <<>> /\ overall[b] \in Seq(Requests) /\ queue[u] \in Seq(Requests)
      /\ overall'[b] = Tail(overall[b]) /\ \A p \in Pools \ {b} : overall'[p] = overall[p]
      /\ queue'[u] = Append(queue[u], h) /\ \A s \in Slots \ {u} : queue'[s] = queue[s]
      /\ UNCHANGED <<target, current, step, pool>>
  BY <1>0, <1>1, <1>2, <1>3 DEF Route, callerVars, restartVars
<1>5. h \in Requests /\ Within(h, overall[b])
  BY <1>3, <1>4, TaskTaken
<1>6. ASSUME NEW p \in Pools, NEW r \in Requests, Within(r, overall'[p]) PROVE target'[r] = p
  <2>1. Within(r, overall[p])
    <3>1. CASE p = b
      BY <1>3, <1>4, <1>5, <1>6, <3>1, TaskTaken
    <3>2. CASE p # b
      BY <1>4, <1>6, <3>2
    <3> QED
      BY <3>1, <3>2
  <2> QED
    BY <1>4, <2>1 DEF InTarget
<1>7. ASSUME NEW s \in Slots, NEW r \in Requests, Within(r, queue'[s]) PROVE target'[r] = s[1]
  <2>1. CASE s = u /\ r = h
    BY <1>2, <1>4, <1>5, <2>1 DEF InTarget
  <2>2. CASE s = u /\ r # h
    <3>1. Within(r, queue[u])
      BY <1>4, <1>5, <1>7, <2>2, TaskAppended
    <3> QED
      BY <1>4, <2>2, <3>1 DEF InTarget
  <2>3. CASE s # u
    BY <1>4, <1>7, <2>3 DEF InTarget
  <2> QED
    BY <2>1, <2>2, <2>3
<1> QED
  BY <1>4, <1>6, <1>7 DEF InTarget, Holds

LEMMA TakeKeepsTarget ==
  ASSUME TypeOK, InTarget, NEW u \in Slots, Take(u)
  PROVE  InTarget'
<1>0. /\ queue \in [Slots -> Seq(Requests)] /\ step \in [Slots -> Steps]
      /\ current \in [Slots -> Requests \cup {NoTask}]
  BY DEF TypeOK, WorkerType
<1>1. PICK h : h = Head(queue[u])
  OBVIOUS
<1>2. /\ queue[u] # <<>> /\ queue[u] \in Seq(Requests)
      /\ queue'[u] = Tail(queue[u]) /\ current'[u] = h
      /\ \A s \in Slots \ {u} : queue'[s] = queue[s] /\ current'[s] = current[s] /\ step'[s] = step[s]
      /\ UNCHANGED <<overall, target, pool>>
  BY <1>0, <1>1 DEF Take, callerVars, poolVars, restartVars
<1>3. h \in Requests /\ Within(h, queue[u])
  BY <1>1, <1>2, TaskTaken
<1>4. target[h] = u[1]
  BY <1>3 DEF InTarget
<1>5. ASSUME NEW r \in Requests, Within(r, queue'[u]) PROVE target'[r] = u[1]
  <2>1. r = h \/ Within(r, queue[u])
    BY <1>1, <1>2, <1>5, TaskTaken
  <2> QED
    BY <1>2, <1>4, <2>1 DEF InTarget
<1>6. ASSUME NEW s \in Slots, NEW r \in Requests, Within(r, queue'[s]) \/ Holds(s, r)'
      PROVE  target'[r] = s[1]
  <2>1. CASE s = u
    BY <1>2, <1>4, <1>5, <1>6, <2>1 DEF Holds
  <2>2. CASE s # u
    BY <1>2, <1>6, <2>2 DEF InTarget, Holds
  <2> QED
    BY <2>1, <2>2
<1>7. ASSUME NEW s \in Slots, step'[s] \in Working PROVE current'[s] \in Requests
  <2>1. CASE s = u
    BY <1>2, <1>3, <2>1
  <2>2. CASE s # u
    BY <1>2, <1>7, <2>2 DEF InTarget
  <2> QED
    BY <2>1, <2>2
<1> QED
  BY <1>2, <1>6, <1>7 DEF InTarget

LEMMA TargetInductive ==
  ASSUME TypeOK, CopyInv, InTarget, [Next]_vars
  PROVE  InTarget'
<1> USE DEF callerVars, poolVars, workerVars, serverVars, monitorVars, restartVars, countVars
<1>0. step \in [Slots -> Steps] /\ queue \in [Slots -> Seq(Requests)]
      /\ current \in [Slots -> Requests \cup {NoTask}]
  BY DEF TypeOK, WorkerType
<1>1. ASSUME UNCHANGED <<target, pool, overall, queue, current, step>> PROVE InTarget'
  BY <1>1, NoneMovesKeepsTarget DEF NoneMoves
<1>2. ASSUME NEW u \in Slots, Worker(u) PROVE InTarget'
  <2>1. CASE Take(u)
    BY <2>1, TakeKeepsTarget
  <2>2. CASE Send(u) \/ EditThenCall(u)
    <3>1. NoneMoves
      BY <1>0, <2>2 DEF Send, EditThenCall, NoneMoves, Working
    <3> QED
      BY <3>1, NoneMovesKeepsTarget
  <2>3. CASE Finally(u)
    <3>1. NoneMoves
      BY <1>0, <2>3 DEF Finally, NoneMoves, Working
    <3> QED
      BY <3>1, NoneMovesKeepsTarget
  <2>4. CASE SendFails(u) \/ EditDone(u) \/ Respond(u) \/ TaskTimeout(u)
    <3>1. NoneMoves
      BY <1>0, <2>4 DEF SendFails, EditDone, Respond, TaskTimeout, Answered, NoneMoves, Working
    <3> QED
      BY <3>1, NoneMovesKeepsTarget
  <2>5. CASE OnServiceUnavailable(u)
    <3>1. NoneMoves
      BY <1>0, <2>5 DEF OnServiceUnavailable, NoneMoves, Working
    <3> QED
      BY <3>1, NoneMovesKeepsTarget
  <2> QED
    BY <1>2, <2>1, <2>2, <2>3, <2>4, <2>5 DEF Worker
<1>3. CASE Monitor
  BY <1>1, <1>3, ReportFrame
<1>4. CASE Faults
  BY <1>1, <1>4, ReportFrame DEF Faults, Crash, MonitorDies, ConnectFails, InitRejected, Wedge
<1>5. CASE Rebuild
  <2>1. CASE TearDown
    <3>1. NoneMoves
      BY <1>0, <2>1 DEF TearDown, NoneMoves, Working
    <3> QED
      BY <3>1, NoneMovesKeepsTarget
  <2>2. CASE BuildPool
    <3>1. NoneMoves
      BY <1>0, <2>2 DEF BuildPool, NoneMoves
    <3> QED
      BY <3>1, NoneMovesKeepsTarget
  <2>3. CASE TakeEvent \/ MonitorLost \/ CloseGate \/ MarkCulprits \/ PoisonWorkers \/ KillTree
    BY <1>1, <2>3 DEF TakeEvent, MonitorLost, CloseGate, MarkCulprits, PoisonWorkers, KillTree
  <2>4. CASE Connect \/ (\E healthy \in SUBSET Workers : InitPool(healthy))
    BY <1>1, <2>4 DEF Connect, InitPool
  <2>5. CASE InitFails \/ OpenGate \/ AttachFails
    BY <1>1, <2>5 DEF InitFails, OpenGate, AttachFails
  <2> QED
    BY <1>5, <2>1, <2>2, <2>3, <2>4, <2>5 DEF Rebuild
<1>6. CASE UNCHANGED vars
  BY <1>1, <1>6 DEF vars
<1>7. CASE \E c \in Requests : Caller(c)
  BY <1>7, CallerKeepsTarget
<1>8. CASE \E b \in Pools : Route(b)
  BY <1>8, RouteKeepsTarget
<1> QED
  BY <1>2, <1>3, <1>4, <1>5, <1>6, <1>7, <1>8 DEF Next


-----------------------------------------------------------------------------
(* Who is answered with a retry or a toxic verdict has met an outage       *)

Blaming == {"retry", "toxic", "overdue"}

\* A step that gives no such answer, poisons nobody and exchanges nothing.
Calm ==
  /\ UNCHANGED <<serverReady, disturbed, pool>>
  /\ \A r \in Requests :
       /\ pc'[r] \in {"fetched", "waiting"} =>
            \/ pc[r] \in {"fetched", "waiting"} /\ target'[r] = target[r]
            \/ target'[r] = pool
       /\ reply'[r] \in Blaming => reply'[r] = reply[r]
  /\ \A s \in Slots : poison'[s] \/ step'[s] = "woken" => Struck(s)
  /\ pairs' = pairs \/ \A s \in pairs' : s[1] = pool
  /\ phase' \in {"idle", "init", "attach"} => phase \in {"idle", "init", "attach"} \/ serverReady

LEMMA CalmKeepsDisturbed ==
  ASSUME DisturbInv, pool \in Nat, Calm
  PROVE  DisturbInv'
<1>1. \A s \in Slots : Struck(s)' => Struck(s)
  BY DEF Calm, Struck
<1>2. \A s \in pairs' : s[1] <= pool'
  BY DEF DisturbInv, Calm
<1>3. \A r \in Requests : pc'[r] \in {"fetched", "waiting"} /\ target'[r] # pool' => r \in disturbed'
  BY DEF DisturbInv, Calm
<1>4. \A r \in Requests : reply'[r] \in Blaming => r \in disturbed'
  BY DEF DisturbInv, Calm, Blaming
<1>5. \A s \in Slots : Struck(s)' => s[1] <= pool'
  BY <1>1 DEF DisturbInv, Calm
<1>6. phase' \in {"idle", "init", "attach"} \/ serverReady' => \A s \in Slots : Struck(s)' => s[1] # pool'
  BY <1>1 DEF DisturbInv, Calm
<1>7. ~serverReady' => disturbed' = Requests
  BY DEF DisturbInv, Calm
<1> QED
  BY <1>2, <1>3, <1>4, <1>5, <1>6, <1>7 DEF DisturbInv, Blaming

LEMMA CallerKeepsDisturbed ==
  ASSUME TypeOK, CopyInv, DisturbInv, NEW c \in Requests, Caller(c)
  PROVE  DisturbInv'
<1> USE DEF poolVars, workerVars, serverVars, monitorVars, restartVars, countVars
<1>0. /\ pc \in [Requests -> Places \cup Outcomes] /\ reply \in [Requests -> Replies]
      /\ target \in [Requests -> Pools] /\ pool \in Nat
  BY FaultsAssumption DEF TypeOK, CallerType, WatchdogType, Pools, MaxPools
<1>1. CASE PassGate(c)
  <2>1. /\ pc[c] = "gate" /\ pc' = [pc EXCEPT ![c] = "entered"] /\ disturbed' = disturbed \ {c}
        /\ UNCHANGED <<target, reply, poison, step, pairs, pool, serverReady, phase>> /\ serverReady
    BY <1>1 DEF PassGate
  <2>2. reply[c] = "none"
    BY <2>1 DEF CopyInv, CopiesOf
  <2>3. \A r \in Requests :
          /\ pc'[r] \in {"fetched", "waiting"} /\ target'[r] # pool' => r \in disturbed'
          /\ reply'[r] \in {"retry", "toxic", "overdue"} => r \in disturbed'
    BY <1>0, <2>1, <2>2 DEF DisturbInv
  <2> QED
    BY <2>1, <2>3 DEF DisturbInv, Struck
<1>2. CASE FetchPool(c)
  <2>1. Calm
    BY <1>0, <1>2 DEF FetchPool, Calm, Struck
  <2> QED
    BY <1>0, <2>1, CalmKeepsDisturbed
<1>3. CASE Submit(c)
  <2>1. Calm
    BY <1>0, <1>3 DEF Submit, Calm, Struck
  <2> QED
    BY <1>0, <2>1, CalmKeepsDisturbed
<1>4. CASE Receive(c)
  <2>1. Calm
    BY <1>0, <1>4 DEF Receive, Calm, Struck, AfterAnswer, Replies, Blaming
  <2> QED
    BY <1>0, <2>1, CalmKeepsDisturbed
<1>5. CASE ResponseTimeout(c) \/ Unpark(c)
  <2>1. Calm
    BY <1>0, <1>5 DEF ResponseTimeout, Unpark, Calm, Struck
  <2> QED
    BY <1>0, <2>1, CalmKeepsDisturbed
<1> QED
  BY <1>1, <1>2, <1>3, <1>4, <1>5 DEF Caller

\* The tasks of a struck worker belong to callers that have met the outage.
LEMMA StruckAreDisturbed ==
  ASSUME TypeOK, CopyInv, InTarget, DisturbInv, NEW u \in Slots, Struck(u),
         NEW r \in Requests, Within(r, queue[u]) \/ Holds(u, r), pc[r] = "waiting"
  PROVE  r \in disturbed
<1>1. target[r] = u[1]
  BY DEF InTarget
<1>2. CASE u[1] = pool
  BY <1>2 DEF DisturbInv
<1>3. CASE u[1] # pool
  BY <1>1, <1>3 DEF DisturbInv
<1> QED
  BY <1>2, <1>3

\* What the drain answers, and to whom.
LEMMA DrainAnswers ==
  ASSUME TypeOK, CopyInv, InTarget, DisturbInv, NEW u \in Slots, OnServiceUnavailable(u),
         NEW r \in Requests, reply'[r] # reply[r]
  PROVE  /\ pc[r] = "waiting" /\ r \in disturbed
         /\ reply'[r] \in {"toxic", "overdue"} => current[u] = r /\ marked[u] = reply'[r]
<1>0. /\ step \in [Slots -> Steps] /\ marked \in [Slots -> {"no", "toxic", "overdue"}]
      /\ DOMAIN queue[u] = 1 .. Len(queue[u])
  <2>1. queue[u] \in Seq(Requests)
    BY DEF TypeOK, WorkerType
  <2> QED
    BY <2>1, LenProperties DEF TypeOK, WorkerType
<1>1. pc[r] = "waiting" /\ reply'[r] = DrainAnswer(u, r)
  BY DEF OnServiceUnavailable
<1>2. r = current[u] \/ Queued(u, r)
  BY <1>1 DEF DrainAnswer
<1>3. Struck(u) /\ step[u] \in Working
  BY DEF OnServiceUnavailable, Struck, Working
<1>4. Within(r, queue[u]) \/ Holds(u, r)
  BY <1>0, <1>2, <1>3 DEF Queued, Within, Holds
<1>5. r \in disturbed
  BY <1>1, <1>3, <1>4, StruckAreDisturbed
<1>6. reply'[r] \in {"toxic", "overdue"} => current[u] = r /\ marked[u] = reply'[r]
  BY <1>1, <1>2 DEF DrainAnswer
<1> QED
  BY <1>1, <1>5, <1>6

LEMMA WorkerKeepsDisturbed ==
  ASSUME TypeOK, CopyInv, InTarget, DisturbInv, NEW u \in Slots, Worker(u)
  PROVE  DisturbInv'
<1> USE DEF callerVars, poolVars, workerVars, serverVars, monitorVars, restartVars, countVars
<1>0. /\ step \in [Slots -> Steps] /\ reply \in [Requests -> Replies] /\ pool \in Nat
      /\ poison \in [Slots -> BOOLEAN]
  BY FaultsAssumption DEF TypeOK, CallerType, WorkerType, WatchdogType, Pools, MaxPools
<1>1. CASE Take(u)
  <2>1. Calm
    BY <1>0, <1>1 DEF Take, Calm, Struck
  <2> QED
    BY <1>0, <2>1, CalmKeepsDisturbed
<1>2. CASE Send(u) \/ EditThenCall(u)
  <2>1. Calm
    BY <1>0, <1>2 DEF Send, EditThenCall, Calm, Struck
  <2> QED
    BY <1>0, <2>1, CalmKeepsDisturbed
<1>3. CASE Finally(u)
  <2>1. Calm
    BY <1>0, <1>3 DEF Finally, Calm, Struck
  <2> QED
    BY <1>0, <2>1, CalmKeepsDisturbed
<1>4. ASSUME NEW what \in {"dead", "ok", "error", "timeout"}, Answered(u, what)
      PROVE  DisturbInv'
  <2>1. \A r \in Requests : reply'[r] \in Blaming => reply'[r] = reply[r]
    BY <1>0, <1>4 DEF Answered, Answer, Blaming
  <2>2. Calm
    BY <1>0, <1>4, <2>1 DEF Answered, Calm, Struck
  <2> QED
    BY <1>0, <2>2, CalmKeepsDisturbed
<1>5. CASE SendFails(u) \/ EditDone(u) \/ Respond(u) \/ TaskTimeout(u)
  BY <1>4, <1>5 DEF SendFails, EditDone, Respond, TaskTimeout
<1>6. CASE OnServiceUnavailable(u)
  <2>1. \A r \in Requests : reply'[r] \in Blaming => r \in disturbed
    BY <1>6, DrainAnswers DEF DisturbInv, Blaming
  <2>2. \A s \in Slots : Struck(s)' => Struck(s)
    BY <1>0, <1>6 DEF OnServiceUnavailable, Struck
  <2>3. UNCHANGED <<pc, target, disturbed, serverReady, pool, pairs, phase>>
    BY <1>6 DEF OnServiceUnavailable
  <2> QED
    BY <2>1, <2>2, <2>3 DEF DisturbInv, Blaming
<1> QED
  BY <1>1, <1>2, <1>3, <1>5, <1>6 DEF Worker

LEMMA RebuildKeepsDisturbed ==
  ASSUME TypeOK, GateInv, InTarget, DisturbInv, Rebuild
  PROVE  DisturbInv'
<1> USE DEF callerVars, poolVars, workerVars, serverVars, monitorVars, countVars
<1>0. /\ step \in [Slots -> Steps] /\ pool \in Nat /\ pairs \in SUBSET Slots
      /\ poison \in [Slots -> BOOLEAN] /\ \A s \in Slots : s[1] \in Nat
      /\ \A r \in Requests : target[r] \in Nat
  BY FaultsAssumption DEF TypeOK, CallerType, WorkerType, WatchdogType, Pools, MaxPools, Slots
<1>1. serverReady => phase \in {"idle", "closing"}
  BY DEF GateInv, ReadyMeansServing
<1>2. CASE TakeEvent \/ MonitorLost
  <2>1. Calm
    BY <1>2 DEF TakeEvent, MonitorLost, Calm, Struck
  <2> QED
    BY <1>0, <2>1, CalmKeepsDisturbed
<1>3. CASE CloseGate
  <2>1. /\ phase' = "mark" /\ serverReady' = FALSE /\ disturbed' = Requests
        /\ UNCHANGED <<pc, target, reply, poison, step, pool, pairs>>
    BY <1>3 DEF CloseGate
  <2> QED
    BY <2>1 DEF DisturbInv, Struck
<1>4. CASE MarkCulprits
  <2>1. Calm
    BY <1>4 DEF MarkCulprits, Calm, Struck, InFlight
  <2> QED
    BY <1>0, <2>1, CalmKeepsDisturbed
<1>5. CASE PoisonWorkers
  <2>1. /\ phase' = "teardown" /\ ~serverReady /\ poison' = [s \in Slots |-> poison[s] \/ s \in pairs]
        /\ UNCHANGED <<pc, target, reply, step, pool, pairs, serverReady, disturbed>>
    BY <1>1, <1>5 DEF PoisonWorkers, restartVars
  <2>2. \A s \in Slots : Struck(s)' => s[1] <= pool'
    BY <2>1 DEF DisturbInv, Struck
  <2> QED
    BY <2>1, <2>2 DEF DisturbInv
<1>6. CASE TearDown
  <2>1. /\ phase' = "kill" /\ ~serverReady
        /\ \A s \in Slots : step'[s] = "woken" => step[s] \in {"rpc", "woken"}
        /\ UNCHANGED <<pc, target, reply, poison, pool, pairs, serverReady, disturbed>>
    BY <1>1, <1>6 DEF TearDown, restartVars
  <2>2. ASSUME NEW s \in Slots, step[s] = "rpc" PROVE s[1] <= pool
    <3>1. current[s] \in Requests /\ Holds(s, current[s])
      BY <2>2 DEF InTarget, Working, Holds
    <3>2. target[current[s]] = s[1] /\ target[current[s]] <= pool
      BY <3>1 DEF InTarget
    <3> QED
      BY <3>2
  <2>3. \A s \in Slots : Struck(s)' => s[1] <= pool'
    BY <2>1, <2>2 DEF DisturbInv, Struck
  <2> QED
    BY <2>1, <2>3 DEF DisturbInv
<1>7. CASE KillTree \/ Connect \/ InitFails \/ AttachFails
  <2>1. Calm
    BY <1>7 DEF KillTree, Connect, InitFails, AttachFails, Calm, Struck, restartVars
  <2> QED
    BY <1>0, <2>1, CalmKeepsDisturbed
<1>8. CASE BuildPool
  <2>1. /\ phase' = "init" /\ ~serverReady /\ pool' = pool + 1
        /\ UNCHANGED <<pc, target, reply, poison, step, pairs, serverReady, disturbed>>
    BY <1>1, <1>8 DEF BuildPool, restartVars
  <2>2. \A s \in Slots : Struck(s)' => s[1] <= pool
    BY <2>1 DEF DisturbInv, Struck
  <2>3. \A s \in Slots : Struck(s)' => s[1] <= pool' /\ s[1] # pool'
    BY <1>0, <2>1, <2>2
  <2>4. \A s \in pairs' : s[1] <= pool'
    BY <1>0, <2>1 DEF DisturbInv
  <2>5. ~serverReady' /\ disturbed' = Requests
    BY <2>1 DEF DisturbInv
  <2> QED
    BY <2>1, <2>3, <2>4, <2>5 DEF DisturbInv
<1>9. CASE \E healthy \in SUBSET Workers : InitPool(healthy)
  <2>1. Calm
    BY <1>9 DEF InitPool, Calm, Struck, restartVars
  <2> QED
    BY <1>0, <2>1, CalmKeepsDisturbed
<1>10. CASE OpenGate
  <2>1. /\ phase = "attach" /\ phase' = "idle" /\ serverReady' = TRUE
        /\ UNCHANGED <<pc, target, reply, poison, step, pairs, pool, disturbed>>
    BY <1>10 DEF OpenGate, restartVars
  <2> QED
    BY <2>1 DEF DisturbInv, Struck
<1> QED
  BY <1>2, <1>3, <1>4, <1>5, <1>6, <1>7, <1>8, <1>9, <1>10 DEF Rebuild

LEMMA DisturbInductive ==
  ASSUME TypeOK, GateInv, CopyInv, InTarget, DisturbInv, [Next]_vars
  PROVE  DisturbInv'
<1> USE DEF callerVars, poolVars, workerVars, serverVars, monitorVars, restartVars, countVars
<1>0. pool \in Nat
  BY FaultsAssumption DEF TypeOK, WatchdogType, Pools, MaxPools
<1>1. ASSUME UNCHANGED <<pc, target, reply, poison, step, pool, serverReady, disturbed, pairs>>,
             phase' = phase \/ phase' = "closing"
      PROVE  DisturbInv'
  <2>1. Calm
    BY <1>1 DEF Calm, Struck
  <2> QED
    BY <1>0, <2>1, CalmKeepsDisturbed
<1>2. CASE \E u \in Slots : Worker(u)
  BY <1>2, WorkerKeepsDisturbed
<1>3. CASE Monitor
  <2>1. UNCHANGED disturbed
    <3>1. ASSUME NEW e, Report(e) PROVE UNCHANGED disturbed
      BY <3>1 DEF Report
    <3> QED
      BY <1>3, <3>1 DEF Monitor, ReportDeath, ReportOverdue, ReportWorker
  <2> QED
    BY <1>1, <1>3, <2>1, ReportFrame
<1>4. CASE Faults
  <2>1. CASE ReportFatal \/ \E w \in Workers : ReportMemory(w)
    <3>1. UNCHANGED disturbed
      <4>1. ASSUME NEW e, Report(e) PROVE UNCHANGED disturbed
        BY <4>1 DEF Report
      <4> QED
        BY <2>1, <4>1 DEF ReportFatal, ReportMemory
    <3> QED
      BY <1>1, <2>1, <3>1, ReportFrame
  <2>2. CASE Crash \/ MonitorDies \/ ConnectFails \/ InitRejected \/ \E w \in Workers : Wedge(w)
    BY <1>1, <2>2 DEF Crash, MonitorDies, ConnectFails, InitRejected, Wedge
  <2> QED
    BY <1>4, <2>1, <2>2 DEF Faults
<1>5. CASE Rebuild
  BY <1>5, RebuildKeepsDisturbed
<1>6. CASE UNCHANGED vars
  BY <1>1, <1>6 DEF vars
<1>7. CASE \E c \in Requests : Caller(c)
  BY <1>7, CallerKeepsDisturbed
<1>8. CASE \E b \in Pools : Route(b)
  BY <1>1, <1>8 DEF Route
<1> QED
  BY <1>2, <1>3, <1>4, <1>5, <1>6, <1>7, <1>8 DEF Next


-----------------------------------------------------------------------------
(* What the steps have shown                                               *)

LEMMA TaskInitially == Init => CopyInv /\ InTarget /\ DisturbInv
<1> SUFFICES ASSUME Init PROVE InTarget /\ DisturbInv
  BY CopiesInitially
<1>1. /\ \A p \in Pools : Len(overall[p]) = 0
      /\ \A s \in Slots : Len(queue[s]) = 0 /\ step[s] \notin Working /\ ~Struck(s)
      /\ \A r \in Requests : target[r] = 1 /\ reply[r] = "none" /\ pc[r] = "gate"
      /\ pool = 1 /\ serverReady /\ pairs = {}
  BY DEF Init, Working, Struck
<1>2. InTarget
  BY <1>1 DEF InTarget, Within, Holds
<1>3. DisturbInv
  BY <1>1 DEF DisturbInv
<1> QED
  BY <1>2, <1>3

LEMMA TaskInvariant == Spec => [](TypeOK /\ TaskInv)
<1>1. Init => TypeOK /\ TaskInv
  BY InitHasType, GateInitially, TaskInitially DEF TaskInv
<1>2. TypeOK /\ TaskInv /\ [Next]_vars => TaskInv'
  <2> SUFFICES ASSUME TypeOK, TaskInv, [Next]_vars PROVE TaskInv'
    OBVIOUS
  <2>1. GateInv'
    BY GateInductive DEF TaskInv
  <2>2. CopyInv'
    BY CopiesInductive DEF TaskInv
  <2>3. InTarget'
    BY TargetInductive DEF TaskInv
  <2>4. DisturbInv'
    BY DisturbInductive DEF TaskInv
  <2> QED
    BY <2>1, <2>2, <2>3, <2>4 DEF TaskInv
<1> QED
  BY <1>1, <1>2, TypeCorrect, PTL DEF Spec

-----------------------------------------------------------------------------
(* The theorems about tasks                                                *)

\* Positions and places.
LEMMA CopyPlaces ==
  ASSUME TypeOK, NEW r
  PROVE  \A d : d \in Copies(r) <=>
           \/ \E p \in Pools : \E i \in 1 .. Len(overall[p]) :
                overall[p][i] = r /\ d = <<"overall", <<p, 0>>, i>>
           \/ \E s \in Slots : \E i \in 1 .. Len(queue[s]) :
                queue[s][i] = r /\ d = <<"queue", s, i>>
           \/ \E s \in Slots : Holds(s, r) /\ d = <<"current", s, 1>>
<1> DEFINE A == UNION {{<<"overall", <<p, 0>>, i>> : i \in Positions(overall[p], r)} : p \in Pools}
           B == UNION {{<<"queue", s, i>> : i \in Positions(queue[s], r)} : s \in Slots}
           C == {<<"current", s, 1>> : s \in {t \in Slots : step[t] \in Working /\ current[t] = r}}
<1>1. /\ \A p \in Pools : DOMAIN overall[p] = 1 .. Len(overall[p])
      /\ \A s \in Slots : DOMAIN queue[s] = 1 .. Len(queue[s])
  <2>1. /\ \A p \in Pools : overall[p] \in Seq(Requests)
        /\ \A s \in Slots : queue[s] \in Seq(Requests)
    BY DEF TypeOK, PoolType, WorkerType
  <2> QED
    BY <2>1, LenProperties
<1>2. \A d : d \in A <=> \E p \in Pools : \E i \in 1 .. Len(overall[p]) :
                           overall[p][i] = r /\ d = <<"overall", <<p, 0>>, i>>
  BY <1>1 DEF Positions
<1>3. \A d : d \in B <=> \E s \in Slots : \E i \in 1 .. Len(queue[s]) :
                           queue[s][i] = r /\ d = <<"queue", s, i>>
  BY <1>1 DEF Positions
<1>4. \A d : d \in C <=> \E s \in Slots : Holds(s, r) /\ d = <<"current", s, 1>>
  BY DEF Holds
<1>5. Copies(r) = A \cup B \cup C
  BY DEF Copies
<1> HIDE DEF A, B, C
<1> QED
  BY <1>2, <1>3, <1>4, <1>5

LEMMA NowhereIsNoCopy ==
  ASSUME TypeOK, NEW r, Nowhere(r)
  PROVE  Copies(r) = {}
BY CopyPlaces DEF Nowhere, Within

LEMMA UniqueIsOneCopy ==
  ASSUME TypeOK, NEW r, ~Nowhere(r), Unique(r)
  PROVE  Cardinality(Copies(r)) = 1
<1>2. CASE \E p \in Pools : Within(r, overall[p])
  <2>0. PICK p \in Pools : Within(r, overall[p])
    BY <1>2
  <2>1. PICK i \in 1 .. Len(overall[p]) : overall[p][i] = r
    BY <2>0 DEF Within
  <2>2. /\ \A q \in Pools : \A j \in 1 .. Len(overall[q]) : overall[q][j] = r => q = p /\ j = i
        /\ \A s \in Slots : ~Within(r, queue[s]) /\ ~Holds(s, r)
    <3>1. Within(r, overall[p])
      BY <2>1 DEF Within
    <3>2. \A q \in Pools : Within(r, overall[q]) => q = p
      BY <3>1 DEF Unique
    <3>3. \A j \in 1 .. Len(overall[p]) : overall[p][j] = r => j = i
      BY <2>1 DEF Unique, Once
    <3>4. \A s \in Slots : ~Within(r, queue[s]) /\ ~Holds(s, r)
      BY <3>1 DEF Unique
    <3> QED
      BY <3>2, <3>3, <3>4 DEF Within
  <2>3. PICK c : c = <<"overall", <<p, 0>>, i>>
    OBVIOUS
  <2>4. \A d : d \in Copies(r) <=> d = c
    <3>1. \A s \in Slots : \A j \in 1 .. Len(queue[s]) : queue[s][j] # r
      BY <2>2 DEF Within
    <3> QED
      BY <2>1, <2>2, <2>3, <3>1, CopyPlaces
  <2>5. Copies(r) = {c}
    BY <2>4
  <2> QED
    BY <2>5, FS_Singleton
<1>3. CASE \E s \in Slots : Within(r, queue[s])
  <2>0. PICK s \in Slots : Within(r, queue[s])
    BY <1>3
  <2>1. PICK i \in 1 .. Len(queue[s]) : queue[s][i] = r
    BY <2>0 DEF Within
  <2>2. /\ \A t \in Slots : \A j \in 1 .. Len(queue[t]) : queue[t][j] = r => t = s /\ j = i
        /\ \A t \in Slots : ~Holds(t, r)
        /\ \A p \in Pools : \A j \in 1 .. Len(overall[p]) : overall[p][j] # r
    <3>1. Within(r, queue[s])
      BY <2>1 DEF Within
    <3>2. \A t \in Slots : (Within(r, queue[t]) => t = s) /\ ~Holds(t, r)
      BY <3>1 DEF Unique
    <3>3. \A j \in 1 .. Len(queue[s]) : queue[s][j] = r => j = i
      BY <2>1 DEF Unique, Once
    <3>4. \A p \in Pools : ~Within(r, overall[p])
      BY <3>1 DEF Unique
    <3> QED
      BY <3>2, <3>3, <3>4 DEF Within
  <2>3. PICK c : c = <<"queue", s, i>>
    OBVIOUS
  <2>4. \A d : d \in Copies(r) <=> d = c
    BY <2>1, <2>2, <2>3, CopyPlaces
  <2>5. Copies(r) = {c}
    BY <2>4
  <2> QED
    BY <2>5, FS_Singleton
<1>4. CASE \E s \in Slots : Holds(s, r)
  <2>1. PICK s \in Slots : Holds(s, r)
    BY <1>4
  <2>2. /\ \A t \in Slots : Holds(t, r) => t = s
        /\ \A t \in Slots : \A j \in 1 .. Len(queue[t]) : queue[t][j] # r
        /\ \A p \in Pools : \A j \in 1 .. Len(overall[p]) : overall[p][j] # r
    <3>1. \A t \in Slots : (Holds(t, r) => t = s) /\ ~Within(r, queue[t])
      BY <2>1 DEF Unique
    <3>2. \A p \in Pools : ~Within(r, overall[p])
      BY <2>1 DEF Unique
    <3> QED
      BY <3>1, <3>2 DEF Within
  <2>3. PICK c : c = <<"current", s, 1>>
    OBVIOUS
  <2>4. \A d : d \in Copies(r) <=> d = c
    BY <2>1, <2>2, <2>3, CopyPlaces
  <2>5. Copies(r) = {c}
    BY <2>4
  <2> QED
    BY <2>5, FS_Singleton
<1> QED
  BY <1>2, <1>3, <1>4 DEF Nowhere

\* A task is neither lost nor duplicated by routing, timeouts, poison, drain and retry
\* (pool.py: the two queues; worker.py: current_task and the drain after
\* ServiceUnavailable).
THEOREM TaskIsOnce == Spec => []OneCopy
<1>1. ASSUME TypeOK, TaskInv PROVE OneCopy
  <2>1. ASSUME NEW r \in Requests
        PROVE  /\ pc[r] = "waiting" /\ reply[r] = "none" => Cardinality(Copies(r)) = 1
               /\ pc[r] = "waiting" /\ reply[r] # "none" => Copies(r) = {}
               /\ pc[r] \in {"gate", "entered", "fetched", "parked"} => Copies(r) = {}
    <3>1. CopiesOf(r)
      BY <1>1 DEF TaskInv, CopyInv
    <3>2. CASE pc[r] = "waiting" /\ reply[r] = "none"
      <4>1. Cardinality(Copies(r)) = 1
        BY <1>1, <3>1, <3>2, UniqueIsOneCopy DEF CopiesOf
      <4> QED
        BY <3>2, <4>1
    <3>3. CASE ~(pc[r] = "waiting" /\ reply[r] = "none")
      <4>1. pc[r] = "waiting" \/ pc[r] \in {"gate", "entered", "fetched", "parked"} => Copies(r) = {}
        BY <1>1, <3>1, <3>3, NowhereIsNoCopy DEF CopiesOf
      <4> QED
        BY <3>3, <4>1
    <3> QED
      BY <3>2, <3>3
  <2> QED
    BY <2>1 DEF OneCopy
<1> QED
  BY <1>1, TaskInvariant, PTL

\* Only OnServiceUnavailable gives a toxic verdict, to the task in hand, as it was
\* marked; and its caller has met the outage (watchdog.py: mark_culprits, poison).
LEMMA ToxicComesFromDrain ==
  ASSUME TypeOK, TaskInv, [Next]_vars, NEW r \in Requests,
         reply[r] = "none", reply'[r] \in {"toxic", "overdue"}
  PROVE  r \in disturbed /\ \E s \in Slots : current[s] = r /\ marked[s] = reply'[r]
<1> USE DEF callerVars, poolVars, workerVars, serverVars, monitorVars, restartVars, countVars
<1>0. reply \in [Requests -> Replies]
  BY DEF TypeOK, CallerType
<1>1. ~UNCHANGED reply
  OBVIOUS
<1>2. ASSUME NEW u \in Slots, Worker(u) PROVE OnServiceUnavailable(u)
  <2>1. ASSUME NEW what \in {"dead", "ok", "error", "timeout"}, Answered(u, what) PROVE FALSE
    BY <1>0, <2>1 DEF Answered, Answer
  <2> QED
    BY <1>1, <1>2, <2>1 DEF Worker, Take, Send, SendFails, EditDone, EditThenCall, Respond,
       TaskTimeout, Finally
<1>3. ~\E c \in Requests : Caller(c)
  BY <1>0 DEF Caller, PassGate, FetchPool, Submit, Receive, ResponseTimeout, Unpark
<1>4. ~(\E b \in Pools : Route(b)) /\ ~Monitor /\ ~UNCHANGED vars
  BY <1>1, ReportFrame DEF Route, vars
<1>5. ~Faults
  BY <1>1, ReportFrame DEF Faults, Crash, MonitorDies, ConnectFails, InitRejected, Wedge
<1>6. ~Rebuild
  BY <1>1 DEF Rebuild, TakeEvent, MonitorLost, CloseGate, MarkCulprits, PoisonWorkers, TearDown,
     KillTree, Connect, BuildPool, InitPool, InitFails, OpenGate, AttachFails
<1>7. PICK u \in Slots : OnServiceUnavailable(u)
  BY <1>2, <1>3, <1>4, <1>5, <1>6 DEF Next
<1>8. r \in disturbed /\ current[u] = r /\ marked[u] = reply'[r]
  BY <1>7, DrainAnswers DEF TaskInv
<1> QED
  BY <1>8

\* A toxic verdict never goes to a task drained from a queue, nor to one that met no
\* outage.
THEOREM ToxicIsEarned == Spec => ToxicWasInFlight
<1>1. TypeOK /\ TaskInv /\ [Next]_vars
        => [\A r \in Requests :
              reply[r] = "none" /\ reply'[r] \in {"toxic", "overdue"} =>
                /\ r \in disturbed
                /\ \E s \in Slots : current[s] = r /\ marked[s] = reply'[r]]_vars
  BY ToxicComesFromDrain
<1> QED
  BY <1>1, TaskInvariant, PTL DEF Spec, ToxicWasInFlight


-----------------------------------------------------------------------------
(***************************************************************************)
(* The refinement.  Every step of the program is a step of                 *)
(* ResilientSubmission or leaves what callers see alone.                   *)
(***************************************************************************)
SeenAs(place) ==
  IF place = "gate" THEN "outside"
  ELSE IF place \in {"entered", "fetched", "waiting"} THEN "inside" ELSE place

Seen == [r \in Requests |-> SeenAs(pc[r])]

\* A caller's move, as it is seen.
LEMMA MoveIsSeen ==
  ASSUME TypeOK, NEW c \in Requests, NEW to, pc' = [pc EXCEPT ![c] = to]
  PROVE  /\ Seen[c] = SeenAs(pc[c])
         /\ Seen' = [Seen EXCEPT ![c] = SeenAs(to)]
         /\ SeenAs(pc[c]) = SeenAs(to) => Seen' = Seen
<1>1. DOMAIN pc = Requests
  BY DEF TypeOK, CallerType
<1>2. \A r \in Requests : pc'[r] = IF r = c THEN to ELSE pc[r]
  BY <1>1
<1>3. Seen' = [r \in Requests |-> SeenAs(pc'[r])]
  BY DEF Seen, SeenAs
<1>4. Seen' = [r \in Requests |-> IF r = c THEN SeenAs(to) ELSE SeenAs(pc[r])]
  BY <1>2, <1>3
<1> QED
  BY <1>4 DEF Seen

LEMMA MoveImplements ==
  ASSUME TypeOK, NEW c \in Requests, NEW to, pc' = [pc EXCEPT ![c] = to],
         NEW from, from = SeenAs(pc[c]), NEW seen, seen = SeenAs(to)
  PROVE  Abstract!Move(c, from, seen)
<1>1. Seen[c] = from /\ Seen' = [Seen EXCEPT ![c] = seen]
  BY MoveIsSeen
<1> QED
  BY <1>1 DEF Abstract!Move, Seen, SeenAs

LEMMA StutterImplements ==
  ASSUME Seen' = Seen, UNCHANGED <<serverReady, disturbed>>
  PROVE  UNCHANGED Abstract!vars
BY DEF Abstract!vars, Seen, SeenAs


LEMMA CallerImplements ==
  ASSUME TypeOK, TaskInv, NEW c \in Requests, Caller(c)
  PROVE  Abstract!Next \/ UNCHANGED Abstract!vars
<1> USE DEF restartVars, countVars
<1>0. /\ SeenAs("gate") = "outside" /\ SeenAs("entered") = "inside" /\ SeenAs("fetched") = "inside"
      /\ SeenAs("waiting") = "inside" /\ SeenAs("parked") = "parked"
      /\ \A o \in {"ok", "error", "timeout", "toxic"} : SeenAs(o) = o
  BY DEF SeenAs
<1>1. CASE PassGate(c)
  <2>1. Abstract!Move(c, "outside", "inside")
    BY <1>0, <1>1, MoveImplements DEF PassGate
  <2>2. Abstract!Enter(c)
    BY <1>1, <2>1 DEF PassGate, Abstract!Enter
  <2> QED
    BY <2>2 DEF Abstract!Next
<1>2. CASE FetchPool(c) \/ Submit(c)
  <2>1. Seen' = Seen
    BY <1>0, <1>2, MoveIsSeen DEF FetchPool, Submit
  <2>2. UNCHANGED <<serverReady, disturbed>>
    BY <1>2 DEF FetchPool, Submit
  <2> QED
    BY <2>1, <2>2, StutterImplements
<1>3. CASE Unpark(c)
  <2>1. Abstract!Move(c, "parked", "outside")
    BY <1>0, <1>3, MoveImplements DEF Unpark
  <2>2. Abstract!Unpark(c)
    BY <1>3, <2>1 DEF Unpark, Abstract!Unpark
  <2> QED
    BY <2>2 DEF Abstract!Next
<1>4. CASE ResponseTimeout(c)
  <2>1. Abstract!Move(c, "inside", "timeout")
    BY <1>0, <1>4, MoveImplements DEF ResponseTimeout
  <2>2. Abstract!Return(c, "timeout")
    BY <1>4, <2>1 DEF ResponseTimeout, Abstract!Return
  <2> QED
    BY <2>2 DEF Abstract!Next, Abstract!Outcomes
<1>5. CASE Receive(c)
  <2>1. PICK to : to = AfterAnswer(reply[c])
    OBVIOUS
  <2>2. /\ pc[c] = "waiting" /\ pc' = [pc EXCEPT ![c] = to]
        /\ UNCHANGED <<serverReady, disturbed>>
        /\ reply[c] \in Replies \ {"none"}
        /\ reply[c] \in {"retry", "toxic"} => c \in disturbed
    BY <1>5, <2>1 DEF Receive, TypeOK, CallerType, TaskInv, DisturbInv
  <2>3. \A seen : seen = SeenAs(to) => Abstract!Move(c, "inside", seen)
    BY <1>0, <2>2, MoveImplements
  <2>4. CASE reply[c] = "retry"
    <3>1. to = "gate"
      BY <2>1, <2>4 DEF AfterAnswer
    <3>2. Abstract!Retry(c)
      BY <1>0, <2>2, <2>3, <2>4, <3>1 DEF Abstract!Retry
    <3> QED
      BY <3>2 DEF Abstract!Next
  <2>5. CASE reply[c] = "dead"
    <3>1. to = "parked"
      BY <2>1, <2>5 DEF AfterAnswer
    <3>2. Abstract!Park(c)
      BY <1>0, <2>2, <2>3, <3>1 DEF Abstract!Park
    <3> QED
      BY <3>2 DEF Abstract!Next
  <2>6. CASE reply[c] \in {"ok", "error", "timeout", "overdue", "toxic"}
    <3>1. to \in {"ok", "error", "timeout", "toxic"} /\ (to = "toxic" => reply[c] = "toxic")
      BY <2>1, <2>6 DEF AfterAnswer
    <3>2. Abstract!Move(c, "inside", to)
      BY <1>0, <2>3, <3>1
    <3>3. Abstract!Return(c, to)
      BY <2>2, <3>1, <3>2 DEF Abstract!Return
    <3> QED
      BY <3>1, <3>3 DEF Abstract!Next, Abstract!Outcomes
  <2> QED
    BY <2>2, <2>4, <2>5, <2>6 DEF Replies
<1> QED
  BY <1>1, <1>2, <1>3, <1>4, <1>5 DEF Caller

LEMMA StepImplements ==
  ASSUME TypeOK, TaskInv, [Next]_vars
  PROVE  [Abstract!Next]_(Abstract!vars)
<1> USE DEF callerVars, poolVars, workerVars, serverVars, monitorVars, restartVars, countVars
<1>1. ASSUME UNCHANGED <<pc, serverReady, disturbed>> PROVE UNCHANGED Abstract!vars
  <2>1. Seen' = Seen
    BY <1>1 DEF Seen, SeenAs
  <2> QED
    BY <1>1, <2>1, StutterImplements
<1>2. CASE \E u \in Slots : Worker(u)
  <2>1. UNCHANGED <<pc, serverReady, disturbed>>
    BY <1>2 DEF Worker, Take, Send, SendFails, EditDone, EditThenCall, Respond, TaskTimeout,
       OnServiceUnavailable, Finally, Answered
  <2> QED
    BY <1>1, <2>1
<1>3. CASE Monitor \/ Faults
  <2>1. ASSUME NEW e, Report(e) PROVE UNCHANGED <<pc, serverReady, disturbed>>
    BY <2>1 DEF Report
  <2>2. UNCHANGED <<pc, serverReady, disturbed>>
    BY <1>3, <2>1 DEF Monitor, ReportDeath, ReportOverdue, ReportWorker, Faults, ReportFatal,
       ReportMemory, Crash, MonitorDies, ConnectFails, InitRejected, Wedge
  <2> QED
    BY <1>1, <2>2
<1>4. CASE Rebuild
  <2>1. CASE CloseGate
    <3>1. UNCHANGED pc /\ serverReady' = FALSE /\ disturbed' = Requests
      BY <2>1 DEF CloseGate
    <3>2. Abstract!Close
      BY <3>1 DEF Abstract!Close
    <3> QED
      BY <3>2 DEF Abstract!Next
  <2>2. CASE OpenGate
    <3>1. UNCHANGED <<pc, disturbed>> /\ serverReady' = TRUE
      BY <2>2 DEF OpenGate
    <3>2. Abstract!Open
      BY <3>1 DEF Abstract!Open
    <3> QED
      BY <3>2 DEF Abstract!Next
  <2>3. CASE ~CloseGate /\ ~OpenGate
    <3>1. UNCHANGED <<pc, serverReady, disturbed>>
      BY <1>4, <2>3 DEF Rebuild, TakeEvent, MonitorLost, MarkCulprits, PoisonWorkers, TearDown,
         KillTree, Connect, BuildPool, InitPool, InitFails, AttachFails
    <3> QED
      BY <1>1, <3>1
  <2> QED
    BY <2>1, <2>2, <2>3
<1>5. CASE UNCHANGED vars
  <2>1. UNCHANGED <<pc, serverReady, disturbed>>
    BY <1>5 DEF vars
  <2> QED
    BY <1>1, <2>1
<1>6. CASE \E c \in Requests : Caller(c)
  BY <1>6, CallerImplements
<1>7. CASE \E b \in Pools : Route(b)
  <2>1. UNCHANGED <<pc, serverReady, disturbed>>
    BY <1>7 DEF Route
  <2> QED
    BY <1>1, <2>1
<1> QED
  BY <1>2, <1>3, <1>4, <1>5, <1>6, <1>7 DEF Next

\* What happens inside submit_resilient keeps the promise of ResilientSubmission: a
\* transparent retry or a toxic rejection only after an outage that began since the
\* call last passed the gate; nobody passes a closed gate; an outcome is final.
THEOREM KeepsThePromise == Spec => ImplementsResilientSubmission
<1>1. Init => Abstract!Init
  BY DEF Init, Abstract!Init
<1>2. TypeOK /\ TaskInv /\ [Next]_vars => [Abstract!Next]_(Abstract!vars)
  BY StepImplements
<1> QED
  BY <1>1, <1>2, TaskInvariant, PTL DEF Spec, ImplementsResilientSubmission, Abstract!Spec
=============================================================================
