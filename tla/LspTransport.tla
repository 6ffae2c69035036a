---------------------------- MODULE LspTransport ----------------------------
(***************************************************************************)
(* The transport of LspClient (client.py: start, the reader threads,       *)
(* _handle_message, _send_message, request) under the rebuilds of the      *)
(* watchdog: message ids, the table of pending requests, and the threads   *)
(* that read the pipes of self.process.                                    *)
(*                                                                         *)
(* Thread <<w, s>> is that of worker w in the pool of server s; it may go  *)
(* on after its pool has been replaced.  Thread <<0, s>> connects server   *)
(* s.  Every call has a serial number, which the code does not have: it    *)
(* tells what a response answers.  Notifications are in DocumentEdits.     *)
(*                                                                         *)
(* The threads of stdout and those of stderr share nothing but the process *)
(* they look at: a behaviour follows the threads of one of the two pipes,  *)
(* and for stdout the calls.                                               *)
(***************************************************************************)
EXTENDS Integers, FiniteSets

CONSTANTS
  NWorkers,      \* workers of a pool
  Offset,        \* worker w uses the id Offset + w (1000 in the code)
  MaxCalls,      \* BOUND: calls ever made
  MaxServers     \* BOUND: servers ever started

ASSUME TransportAssumption ==
  /\ NWorkers \in Nat \ {0} /\ Offset \in Nat
  /\ MaxCalls \in Nat /\ MaxServers \in Nat \ {0}

Servers == 1 .. MaxServers
Workers == 1 .. NWorkers
Threads == (0 .. NWorkers) \X Servers
Readers == Servers                     \* the thread that start() begins
Serials == 1 .. MaxCalls
None == 0
Unavailable == -1                      \* ServiceUnavailable in a queue

VARIABLES
  \* the pipe that this behaviour follows
  followed,
  \* per thread: its place in request or _rpc_call_once, the kind, id and
  \* serial number of its call, and what came first into its response queue
  call,
  \* message_id; _pending_requests, from ids to serial numbers
  lastId, pending,
  \* client.process, whether its root runs, and the servers whose pipes some
  \* process still holds open
  process, alive, open,
  \* requests that servers have read, their responses in the pipes, servers
  \* with a fatal line in the pipe of stderr, servers that have written one
  asked, out, fatal, panicked,
  \* reader threads: their place, the server whose pipe they use, the message
  reader,
  \* the phase of the rebuild
  phase,
  \* history: calls so far; calls with a fixed id left without their answer;
  \* calls whose send failed, since the last teardown; ids that two threads have used at the same time;
  \* servers whose pipe two threads have read
  serials, abandoned, failed, doubled, shared

callVars    == <<call, lastId, pending>>
serverVars  == <<process, alive, open>>
pipeVars    == <<asked, out, fatal, panicked>>
callHistory == <<serials, abandoned, failed, doubled>>
vars == <<followed, callVars, serverVars, pipeVars, reader, phase,
          callHistory, shared>>

NoCall == [at |-> "idle", kind |-> "none", id |-> 0, serial |-> None, box |-> None]

NoMessage == [id |-> 0, serial |-> None]

\* The pool of the first server is in use.
Init ==
  /\ followed \in {"out", "err"}
  /\ call = [t \in Threads |-> NoCall] /\ lastId = 0 /\ pending = [i \in {} |-> None]
  /\ process = 1 /\ alive = TRUE /\ open = {1}
  /\ asked = {} /\ out = {} /\ fatal = {} /\ panicked = {}
  /\ reader = [r \in Readers |->
       [at |-> IF r = 1 THEN "top" ELSE "unborn", pipe |-> 1,
        message |-> NoMessage]]
  /\ phase = "up"
  /\ serials = 0 /\ abandoned = {} /\ failed = {} /\ doubled = {}
  /\ shared = {}

Without(table, i) == [j \in DOMAIN table \ {i} |-> table[j]]

-----------------------------------------------------------------------------
(***************************************************************************)
(* Callers: LspClient.request (plain, initialize, and the connect of a     *)
(* session), RpcSession._rpc_call_once (every other call of a session).    *)
(***************************************************************************)
Fixed == {"plain", "initialize"}     \* kinds of calls whose id is fixed

\* The offset is forgotten.  (OwnAnswer)
BugFixedId(w) == w

\* _submit_lsp; initialize has the id 0.
FixedId(w) == IF w = 0 THEN 0 ELSE Offset + w

\* request() counts the id once more than _next_id did.  (TypeOK)
BugNextId == lastId + 2

\* _next_id
NextId == lastId + 1

Running(t) == call[t].at \in {"send", "wait", "pop"}

\* The id, and an empty response queue under it in the table.
Register(t, kind) ==
  /\ call[t].at = "idle" /\ serials < MaxCalls
  /\ serials' = serials + 1
  /\ lastId' = IF kind \in Fixed THEN lastId ELSE NextId
  /\ LET i == IF kind \in Fixed THEN FixedId(t[1]) ELSE lastId'
     IN /\ call' = [call EXCEPT ![t] =
             [at |-> "send", kind |-> kind, id |-> i, serial |-> serials', box |-> None]]
        /\ pending' = [j \in DOMAIN pending \cup {i} |->
                        IF j = i THEN serials' ELSE pending[j]]
        /\ doubled' = IF \E other \in Threads : Running(other) /\ call[other].id = i
                        THEN doubled \cup {i} ELSE doubled
  /\ UNCHANGED <<followed, serverVars, pipeVars, reader, abandoned, failed,
                 shared>>

\* A worker of a pool that has been built calls.
Begin(t) ==
  /\ followed = "out" /\ t[1] \in Workers
  /\ t[2] < process + (IF phase \in {"up", "kill"} THEN 1 ELSE 0)
  /\ \E kind \in {"plain", "session"} : Register(t, kind)
  /\ UNCHANGED phase

Goto(t, place) == call' = [call EXCEPT ![t].at = place]

End(t, place) == call' = [call EXCEPT ![t] = [NoCall EXCEPT !.at = place]]

\* _send_message, to the process there is now; a broken pipe raises, and
\* request(), which sends outside of its try, leaves its entry behind.
Send(t) ==
  /\ call[t].at = "send"
  /\ \/ /\ process \in open
        /\ Goto(t, "wait")
        /\ asked' = asked \cup
             {[server |-> process, id |-> call[t].id, serial |-> call[t].serial]}
        /\ UNCHANGED failed
     \/ /\ process \notin open
        /\ \/ End(t, "idle") /\ failed' = failed \cup {call[t].serial}
           \/ call[t].kind = "session" /\ Goto(t, "pop") /\ UNCHANGED failed
        /\ UNCHANGED asked
  /\ phase' = IF t[1] = 0 /\ process \notin open THEN "failed" ELSE phase
  /\ UNCHANGED <<followed, lastId, pending, serverVars, out, fatal, panicked,
                 reader, serials, abandoned, doubled, shared>>

\* response_q.get returns, or it times out.
Leave(t) ==
  /\ call[t].at = "wait"
  /\ Goto(t, "pop")
  /\ abandoned' = IF call[t].kind \in Fixed /\ call[t].box # call[t].serial
                    THEN abandoned \cup {call[t].serial} ELSE abandoned
  /\ UNCHANGED <<followed, lastId, pending, serverVars, pipeVars, reader,
                 phase, serials, failed, doubled, shared>>

Outcome(box) == IF box # None THEN "up" ELSE "failed"

\* The entry is removed when there was an answer.  (TableMatchesCalls)
BugPopped(c) == IF c.box = None THEN pending ELSE Without(pending, c.id)

\* Whatever is registered under the id.
Popped(c) == Without(pending, c.id)

\* finally; ServiceUnavailable ends the thread of a worker.  initialize has
\* returned or raised: the pool is built, or the rebuild is retried.
Pop(t) ==
  /\ call[t].at = "pop"
  /\ pending' = Popped(call[t])
  /\ End(t, IF call[t].box = Unavailable THEN "gone" ELSE "idle")
  /\ phase' = IF t[1] = 0 THEN Outcome(call[t].box) ELSE phase
  /\ UNCHANGED <<followed, lastId, serverVars, pipeVars, reader, callHistory,
                 shared>>

\* queue.put: the first message is the one that get() returns.
Put(calls, value) ==
  call' = [t \in Threads |->
    IF call[t].serial \in calls /\ call[t].at \in {"send", "wait"} /\ call[t].box = None
      THEN [call[t] EXCEPT !.box = value] ELSE call[t]]

-----------------------------------------------------------------------------
(***************************************************************************)
(* The server (external): it answers, panics, dies; its children may hold  *)
(* the pipes for longer, and answer.  What happens to pipes that nobody    *)
(* uses any more is left out.                                              *)
(***************************************************************************)
Held(s) == \E r \in Readers : reader[r].at = "read" /\ reader[r].pipe = s
InUse(s) == s = process \/ Held(s)

Respond ==
  /\ \E q \in asked :
       q.server \in open /\ InUse(q.server) /\ asked' = asked \ {q} /\ out' = out \cup {q}
  /\ UNCHANGED <<followed, callVars, serverVars, fatal, panicked, reader,
                 phase, callHistory, shared>>

Panic ==
  /\ followed = "err" /\ alive /\ process \notin panicked
  /\ panicked' = panicked \cup {process} /\ fatal' = fatal \cup {process}
  /\ UNCHANGED <<followed, callVars, serverVars, asked, out, reader, phase,
                 callHistory, shared>>

Die ==
  /\ alive /\ alive' = FALSE
  /\ UNCHANGED <<followed, callVars, process, open, pipeVars, reader, phase,
                 callHistory, shared>>

\* The last process that holds the pipes ends.
ClosePipes ==
  /\ \E s \in open :
       /\ InUse(s) /\ (s = process => ~alive)
       /\ open' = open \ {s} /\ asked' = {q \in asked : q.server # s}
  /\ UNCHANGED <<followed, callVars, process, alive, out, fatal, panicked,
                 reader, phase, callHistory, shared>>

-----------------------------------------------------------------------------
(***************************************************************************)
(* The reader threads: _read_stdout, _read_stderr, _handle_message.        *)
(***************************************************************************)
Move(r, place) == reader' = [reader EXCEPT ![r].at = place]

\* while self.process.poll() is None; then the pipe of self.process, which is
\* read again: if it has been replaced in between, this step comes later.
Poll(r) ==
  /\ reader[r].at = "top"
  /\ IF alive
       THEN /\ reader' = [reader EXCEPT ![r].at = "read", ![r].pipe = process]
            /\ shared' = IF \E other \in Readers \ {r} :
                              /\ reader[other].at \notin {"unborn", "gone"}
                              /\ reader[other].pipe = process
                           THEN shared \cup {process} ELSE shared
       ELSE Move(r, "gone") /\ UNCHANGED shared
  /\ UNCHANGED <<followed, callVars, serverVars, pipeVars, phase, callHistory>>

InPipe(r) == {q \in out : q.server = reader[r].pipe}

ReadResponse(r) ==
  /\ followed = "out" /\ reader[r].at = "read"
  /\ \E q \in InPipe(r) :
       /\ out' = out \ {q}
       /\ reader' = [reader EXCEPT ![r].at = "handle",
                       ![r].message = [id |-> q.id, serial |-> q.serial]]
  /\ UNCHANGED <<followed, callVars, serverVars, asked, fatal, panicked, phase,
                 callHistory, shared>>

\* A thread that finds no queue for a response ends.  (OutputIsRead)
BugAfter(m) == IF m.id \in DOMAIN pending THEN "top" ELSE "gone"

AfterMessage(m) == "top"

\* _handle_message: to whoever is registered under the id.
Handle(r) ==
  /\ reader[r].at = "handle"
  /\ LET m == reader[r].message IN
     /\ IF m.id \in DOMAIN pending THEN Put({pending[m.id]}, m.serial)
                                   ELSE UNCHANGED call
     /\ reader' = [reader EXCEPT ![r].at = AfterMessage(m), ![r].message = NoMessage]
  /\ UNCHANGED <<followed, lastId, pending, serverVars, pipeVars, phase,
                 callHistory, shared>>

\* readline, and flag_fatal (Monitor has its effect).
ReadLine(r) ==
  /\ followed = "err" /\ reader[r].at = "read" /\ reader[r].pipe \in fatal
  /\ fatal' = fatal \ {reader[r].pipe}
  /\ Move(r, "top")
  /\ UNCHANGED <<followed, callVars, serverVars, asked, out, panicked, phase,
                 callHistory, shared>>

\* The stdout thread ends at the end of its pipe, the stderr thread asks again
\* whether "the" process runs.
EndOfPipe(r) ==
  /\ reader[r].at = "read" /\ reader[r].pipe \notin open
  /\ InPipe(r) = {} /\ reader[r].pipe \notin fatal
  /\ Move(r, IF followed = "out" THEN "gone" ELSE "top")
  /\ UNCHANGED <<followed, callVars, serverVars, pipeVars, phase, callHistory,
                 shared>>

\* Two threads take the bytes of one message: neither of them has it.  A
\* garbled header ends the stdout thread that reads it.
Garble(r) ==
  /\ reader[r].at = "read" /\ reader[r].pipe \in shared
  /\ \/ /\ followed = "out" /\ \E q \in InPipe(r) : out' = out \ {q}
        /\ Move(r, "gone") \/ UNCHANGED reader
        /\ UNCHANGED fatal
     \/ /\ followed = "err" /\ reader[r].pipe \in fatal
        /\ fatal' = fatal \ {reader[r].pipe} /\ Move(r, "top")
        /\ UNCHANGED out
  /\ UNCHANGED <<followed, callVars, serverVars, asked, panicked, phase,
                 callHistory, shared>>

Reader(r) == \/ Poll(r) \/ ReadResponse(r) \/ Handle(r)
             \/ ReadLine(r) \/ EndOfPipe(r) \/ Garble(r)

-----------------------------------------------------------------------------
(***************************************************************************)
(* The rebuild: _teardown_pool_state, _kill_process_tree, connect.         *)
(***************************************************************************)
\* A trigger, or the next attempt of _recover_with_retry.  The table is emptied
\* and its calls are woken; RpcSessions has what comes between.
TearDown ==
  /\ phase \in {"up", "failed"} /\ process < MaxServers
  /\ phase' = "kill"
  /\ Put({pending[i] : i \in DOMAIN pending}, Unavailable)
  /\ pending' = [i \in {} |-> None] /\ failed' = {}
  /\ UNCHANGED <<followed, lastId, serverVars, pipeVars, reader, serials,
                 abandoned, doubled, shared>>

\* Processes cut off from the root may survive with the pipes: ClosePipes, or
\* not.
Kill ==
  /\ phase = "kill"
  /\ phase' = "start" /\ alive' = FALSE
  /\ UNCHANGED <<followed, callVars, process, open, pipeVars, reader,
                 callHistory, shared>>

\* start(): self.process, and two more threads.
Start ==
  /\ phase = "start"
  /\ phase' = "connect" /\ process' = process + 1 /\ alive' = TRUE
  /\ open' = {s \in open : Held(s)} \cup {process'}
  /\ asked' = {q \in asked : Held(q.server)} /\ out' = {q \in out : Held(q.server)}
  /\ reader' = [r \in Readers |->
                 IF r = process' THEN [reader[r] EXCEPT !.at = "top"] ELSE reader[r]]
  /\ UNCHANGED <<followed, callVars, fatal, panicked, callHistory, shared>>

Initialize ==
  /\ phase = "connect" /\ Register(<<0, process>>, "initialize")
  /\ phase' = "initialize"

Rebuild == TearDown \/ Kill \/ Start \/ Initialize

Next ==
  \/ \E t \in Threads : Begin(t) \/ Send(t) \/ Leave(t) \/ Pop(t)
  \/ Respond \/ Panic \/ Die \/ ClosePipes
  \/ \E r \in Readers : Reader(r)
  \/ Rebuild

\* The reader threads run; callers, servers and rebuilds may stop.
Spec == Init /\ [][Next]_vars /\ \A r \in Readers : WF_vars(Reader(r))

-----------------------------------------------------------------------------
(* Properties                                                              *)

\* The variables have their types (the one type invariant of this module).
TypeOK ==
  /\ followed \in {"out", "err"}
  /\ call \in [Threads -> [at : {"idle", "send", "wait", "pop", "gone"},
                           kind : Fixed \cup {"none", "session"}, id : Nat,
                           serial : 0 .. serials, box : -1 .. serials]]
  /\ lastId \in 0 .. serials /\ \A i \in DOMAIN pending : pending[i] \in 1 .. serials
  /\ process \in Servers /\ alive \in BOOLEAN /\ open \subseteq 1 .. process
  /\ \A q \in asked \cup out : q.serial \in 1 .. serials
  /\ fatal \subseteq panicked /\ panicked \subseteq 1 .. process
  /\ \A r \in Readers :
       /\ reader[r].at \in {"unborn", "top", "read", "handle", "gone"}
       /\ r > process => reader[r].at = "unborn"
       /\ reader[r].pipe \in 1 .. process
  /\ phase \in {"up", "kill", "start", "connect",
                "initialize", "failed"}
  /\ serials \in 0 .. MaxCalls
  /\ abandoned \subseteq 1 .. serials /\ failed \subseteq 1 .. serials
  /\ doubled \subseteq {FixedId(w) : w \in 0 .. NWorkers} \cup 1 .. lastId
  /\ shared \subseteq 1 .. process

\* The ids of the session calls have not met those of the workers.
IdsApart == lastId <= Offset

\* A call gets the response to its own request, whatever is late, retried or
\* rebuilt, as long as the two ranges of ids are apart.  The exceptions are the
\* calls with a fixed id: one that was left without its answer may answer the
\* next one, and the thread of a replaced pool uses the id of its successor.
OwnAnswer ==
  IdsApart =>
    \A t \in Threads :
      LET c == call[t] IN
      c.box \notin {None, Unavailable, c.serial} =>
        c.kind \in Fixed /\ (c.box \in abandoned \/ c.id \in doubled)

\* The table of pending requests agrees with the calls: what outlives its call
\* is the entry of a request whose send failed, and a call that waits with an
\* empty queue is in the table, unless the thread of a
\* replaced pool has used its id, too, and took or removed the entry.
TableMatchesCalls ==
  /\ \A i \in DOMAIN pending :
       \/ pending[i] \in failed
       \/ \E t \in Threads : Running(t) /\ call[t].serial = pending[i]
  /\ IdsApart =>
       \A t \in Threads :
         LET c == call[t]
             Known == c.id \in DOMAIN pending /\ pending[c.id] = c.serial
         IN c.at = "wait" /\ c.box = None =>
              \/ Known
              \/ c.kind \in Fixed /\ c.id \in doubled

\* The running server has written something that nobody has read, and no two
\* threads have read from its pipe.
Unread ==
  /\ alive /\ process \notin shared
  /\ IF followed = "err" THEN process \in fatal ELSE \E q \in out : q.server = process

\* Whatever the running server writes is read, by the thread of its own
\* start(), unless a thread of an older server has joined it.
OutputIsRead == Unread ~> ~Unread
=============================================================================
