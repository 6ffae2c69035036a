---------------------------- MODULE RpcSessions ----------------------------
(***************************************************************************)
(* The RPC sessions of the workers of one pool (pyleaner/rpc_session.py):  *)
(* worker threads inside RpcSession.call, the keep-alive thread, and the   *)
(* watchdog that tears the pool down (watchdog.py: _teardown_pool_state)   *)
(* and replaces the server.                                                *)
(*                                                                         *)
(* A session's lock is only held for long by ensure_connected, which waits *)
(* for the server under it: Locked(w).  The other critical sections are    *)
(* one step each.  Every thread of an old pool goes on after the teardown. *)
(***************************************************************************)
EXTENDS Integers

CONSTANTS NWorkers,    \* workers of the pool, one session each
          MaxCalls,    \* BOUND: calls of each worker
          MaxLosses    \* BOUND: sessions the server loses while it runs

ASSUME WorkersAssumption == NWorkers \in Nat \ {0}
ASSUME CallsAssumption == MaxCalls \in Nat
ASSUME LossesAssumption == MaxLosses \in Nat

Workers == 1..NWorkers
Ids == 1..(2 * MaxCalls)     \* session ids of one worker; 0 stands for None

Opening == {"opening", "opened"}          \* in ensure_connected, not connected
Reopening == {"reopening", "reopened"}    \* in reconnect
Waiting == {"opened", "reopened", "wait"}
Places == Opening \cup Reopening \cup Waiting \cup
          {"idle", "ensure", "once", "build", "send", "refused", "mark"}
Answers == {"none", "ok", "error", "outdated", "restarted", "unavailable"}

VARIABLES
  \* RpcSession: session_id, _connected; KeepAliveManager: _sessions, _running
  sid, connected, registered, running,
  \* the calls: where the worker is, its attempt, the session id of the message
  \* it has built, that of the message the server refused before
  pc, attempt, sent, refused,
  \* the transport: requests in _pending_requests, what is in their response
  \* queue, and the server process the request was written to (0: none yet)
  pending, answer, writtenTo,
  \* the keep-alive thread: its step, sessions left of its list, the current one
  step, todo, keeping,
  \* the teardown: its phase and the worker whose session comes next
  phase, next,
  \* the server: client.process (1, later 2), whether it runs, the sessions it
  \* knows, the id it gave last
  process, alive, known, last,
  \* calls begun; sessions lost
  calls, losses

sessionVars  == <<sid, connected, registered>>
callVars     == <<pc, attempt, sent, refused>>
wireVars     == <<pending, answer, writtenTo>>
keeperVars   == <<step, todo, keeping>>
teardownVars == <<running, phase, next>>
serverVars   == <<process, alive, known, last>>
countVars    == <<calls, losses>>
vars == <<sessionVars, callVars, wireVars, keeperVars, teardownVars, serverVars,
          countVars>>

All(value) == [w \in Workers |-> value]

Init ==
  /\ sid = All(0) /\ connected = All(FALSE) /\ registered = {}
  /\ pc = All("idle") /\ attempt = All(1) /\ sent = All(0) /\ refused = All(0)
  /\ pending = {} /\ answer = All("none") /\ writtenTo = All(0)
  /\ step = "top" /\ todo = {} /\ keeping = 1
  /\ running = TRUE /\ phase = "up" /\ next = 1
  /\ process = 1 /\ alive = TRUE /\ known = All({}) /\ last = All(0)
  /\ calls = All(0) /\ losses = 0

Locked(w) == pc[w] \in Opening

Goto(w, place) == pc' = [pc EXCEPT ![w] = place]

\* invalidate(): session_id = None, _connected = False.
Forget(w) == /\ sid' = [sid EXCEPT ![w] = 0]
             /\ connected' = [connected EXCEPT ![w] = FALSE]

-----------------------------------------------------------------------------
(***************************************************************************)
(* Requests: LspClient.request and the wire half of _rpc_call_once.        *)
(***************************************************************************)

\* A fresh id with an empty response queue is put into _pending_requests.
Register(w) == /\ pending' = pending \cup {w}
               /\ answer' = [answer EXCEPT ![w] = "none"]
               /\ writtenTo' = [writtenTo EXCEPT ![w] = 0]

\* The call ends, with a result or an exception; its entry is removed.
End(w) == /\ Goto(w, "idle")
          /\ pending' = pending \ {w}
          /\ UNCHANGED <<attempt, sent, refused, answer, writtenTo, keeperVars,
                         teardownVars, serverVars, countVars>>

\* _send_message: to the process there is now; a dead one breaks the pipe and
\* the exception ends the call.
Write(w, from, to) ==
  /\ pc[w] = from
  /\ \/ /\ alive
        /\ Goto(w, to)
        /\ writtenTo' = [writtenTo EXCEPT ![w] = process]
        /\ UNCHANGED <<attempt, sent, refused, pending, answer, keeperVars,
                       teardownVars, serverVars, countVars>>
     \/ ~alive /\ End(w)
  /\ UNCHANGED sessionVars

\* Only the calls have a timeout, connect() has none.  (CallsEnd)
BugTimeout(w) == /\ pc[w] = "wait" /\ answer[w] = "none"
                 /\ End(w) /\ UNCHANGED sessionVars

\* No response in time.
Timeout(w) == /\ pc[w] \in Waiting /\ answer[w] = "none"
              /\ End(w) /\ UNCHANGED sessionVars

-----------------------------------------------------------------------------
(***************************************************************************)
(* Worker threads: RpcSession.call.                                        *)
(***************************************************************************)
Call(w) ==
  /\ pc[w] = "idle" /\ calls[w] < MaxCalls
  /\ Goto(w, "ensure")
  /\ attempt' = [attempt EXCEPT ![w] = 1]
  /\ refused' = [refused EXCEPT ![w] = 0]
  /\ calls' = [calls EXCEPT ![w] = @ + 1]
  /\ UNCHANGED <<sessionVars, sent, wireVars, keeperVars, teardownVars,
                 serverVars, losses>>

\* ensure_connected takes the lock, and keeps it while it connects.
EnsureConnected(w) ==
  /\ pc[w] = "ensure"
  /\ IF connected[w] /\ sid[w] # 0
       THEN Goto(w, "once") /\ UNCHANGED wireVars
       ELSE Goto(w, "opening") /\ Register(w)
  /\ UNCHANGED <<sessionVars, attempt, sent, refused, keeperVars, teardownVars,
                 serverVars, countVars>>

\* The response to connect, under the lock.
Connected(w) ==
  /\ pc[w] = "opened" /\ answer[w] = "ok"
  /\ Goto(w, "once")
  /\ sid' = [sid EXCEPT ![w] = last[w]]
  /\ connected' = [connected EXCEPT ![w] = TRUE]
  /\ registered' = registered \cup {w}
  /\ pending' = pending \ {w}
  /\ UNCHANGED <<attempt, sent, refused, answer, writtenTo, keeperVars,
                 teardownVars, serverVars, countVars>>

ConnectFails(w) ==
  /\ pc[w] \in {"opened", "reopened"} /\ answer[w] \in {"error", "unavailable"}
  /\ End(w) /\ UNCHANGED sessionVars

\* _rpc_call_once: "Session ID is not set".
SessionUnset(w) == pc[w] = "once" /\ sid[w] = 0 /\ End(w) /\ UNCHANGED sessionVars

CallOnce(w) ==
  /\ pc[w] = "once" /\ sid[w] # 0
  /\ Goto(w, "build") /\ Register(w)
  /\ UNCHANGED <<sessionVars, attempt, sent, refused, keeperVars, teardownVars,
                 serverVars, countVars>>

\* The message reads session_id again, without the lock.
Build(w) ==
  /\ pc[w] = "build"
  /\ Goto(w, "send")
  /\ sent' = [sent EXCEPT ![w] = sid[w]]
  /\ UNCHANGED <<sessionVars, attempt, refused, wireVars, keeperVars,
                 teardownVars, serverVars, countVars>>

Recoverable == {"outdated", "restarted"}

\* The result, or an exception that call() does not handle; on the second
\* attempt that is every exception.
Return(w) ==
  /\ pc[w] = "wait" /\ answer[w] # "none"
  /\ answer[w] \in Recoverable => attempt[w] = 2
  /\ End(w) /\ UNCHANGED sessionVars

\* RpcNeedsReconnectError, WorkerRestartedError: invalidate() ...
Refused(w) ==
  /\ pc[w] = "wait" /\ attempt[w] = 1 /\ answer[w] \in Recoverable
  /\ Goto(w, "refused")
  /\ refused' = [refused EXCEPT ![w] = sent[w]]
  /\ pending' = pending \ {w}
  /\ Forget(w)
  /\ UNCHANGED <<registered, attempt, sent, answer, writtenTo, keeperVars,
                 teardownVars, serverVars, countVars>>

\* ... then raise, or reconnect(), which connects without the lock.
GiveUp(w) == pc[w] = "refused" /\ End(w) /\ UNCHANGED sessionVars

Reconnect(w) ==
  /\ pc[w] = "refused"
  /\ Forget(w) /\ Goto(w, "reopening") /\ Register(w)
  /\ UNCHANGED <<registered, attempt, sent, refused, keeperVars, teardownVars,
                 serverVars, countVars>>

\* The retry keeps the session.  (RetryUsesNewSession)
BugReconnected(w) ==
  /\ pc[w] = "reopened" /\ answer[w] = "ok"
  /\ Goto(w, "mark")
  /\ sid' = [sid EXCEPT ![w] = refused[w]]
  /\ pending' = pending \ {w}
  /\ UNCHANGED <<connected, registered, attempt, sent, refused, answer,
                 writtenTo, keeperVars, teardownVars, serverVars, countVars>>

\* session_id = connect(...)
Reconnected(w) ==
  /\ pc[w] = "reopened" /\ answer[w] = "ok"
  /\ Goto(w, "mark")
  /\ sid' = [sid EXCEPT ![w] = last[w]]
  /\ pending' = pending \ {w}
  /\ UNCHANGED <<connected, registered, attempt, sent, refused, answer,
                 writtenTo, keeperVars, teardownVars, serverVars, countVars>>

\* Every attempt may be retried.  (TypeOK)
BugMarkConnected(w) ==
  /\ pc[w] = "mark"
  /\ Goto(w, "once")
  /\ connected' = [connected EXCEPT ![w] = TRUE]
  /\ registered' = registered \cup {w}
  /\ UNCHANGED <<sid, attempt, sent, refused, wireVars, keeperVars, teardownVars,
                 serverVars, countVars>>

\* _connected = True, register(self), then the second attempt.
MarkConnected(w) ==
  /\ pc[w] = "mark"
  /\ Goto(w, "once")
  /\ attempt' = [attempt EXCEPT ![w] = 2]
  /\ connected' = [connected EXCEPT ![w] = TRUE]
  /\ registered' = registered \cup {w}
  /\ UNCHANGED <<sid, sent, refused, wireVars, keeperVars, teardownVars,
                 serverVars, countVars>>

Worker(w) ==
  \/ EnsureConnected(w) \/ Write(w, "opening", "opened") \/ Connected(w)
  \/ ConnectFails(w) \/ SessionUnset(w) \/ CallOnce(w) \/ Build(w)
  \/ Write(w, "send", "wait") \/ Return(w) \/ Refused(w) \/ GiveUp(w)
  \/ Reconnect(w) \/ Write(w, "reopening", "reopened") \/ Reconnected(w)
  \/ MarkConnected(w) \/ Timeout(w)

-----------------------------------------------------------------------------
(***************************************************************************)
(* The keep-alive thread: KeepAliveManager._run_loop.                      *)
(***************************************************************************)

\* The loop does not look at _running.  (TeardownEnds)
BugSnapshot ==
  /\ step = "top" /\ step' = "scan"
  /\ todo' = registered
  /\ UNCHANGED <<sessionVars, callVars, wireVars, keeping, teardownVars,
                 serverVars, countVars>>

\* while self._running: a copy of the registered sessions; exit otherwise.
Snapshot ==
  /\ step = "top"
  /\ step' = IF running THEN "scan" ELSE "exited"
  /\ todo' = IF running THEN registered ELSE {}
  /\ UNCHANGED <<sessionVars, callVars, wireVars, keeping, teardownVars,
                 serverVars, countVars>>

\* The end of the list, and the sleep.
Sleep ==
  /\ step = "scan" /\ todo = {} /\ step' = "top"
  /\ UNCHANGED <<sessionVars, callVars, wireVars, todo, keeping, teardownVars,
                 serverVars, countVars>>

\* _send_keep_alive: look at the session under its lock.
Check(w) ==
  /\ step = "scan" /\ w \in todo /\ ~Locked(w)
  /\ todo' = todo \ {w} /\ keeping' = w
  /\ step' = IF connected[w] /\ sid[w] # 0 THEN "keep" ELSE "drop"
  /\ UNCHANGED <<sessionVars, callVars, wireVars, teardownVars, serverVars,
                 countVars>>

\* Write the notification; invalidate() if the pipe is broken.
Keep ==
  /\ step = "keep" /\ alive /\ step' = "scan"
  /\ UNCHANGED <<sessionVars, callVars, wireVars, todo, keeping, teardownVars,
                 serverVars, countVars>>

KeepFails ==
  /\ step = "keep" /\ ~alive /\ step' = "broken"
  /\ UNCHANGED <<sessionVars, callVars, wireVars, todo, keeping, teardownVars,
                 serverVars, countVars>>

\* invalidate() in the handler of _send_keep_alive, and again in the loop.
Drop ==
  /\ step \in {"broken", "drop"} /\ ~Locked(keeping)
  /\ step' = IF step = "broken" THEN "drop" ELSE "unregister"
  /\ Forget(keeping)
  /\ UNCHANGED <<registered, callVars, wireVars, todo, keeping, teardownVars,
                 serverVars, countVars>>

Unregister ==
  /\ step = "unregister" /\ step' = "scan"
  /\ registered' = registered \ {keeping}
  /\ UNCHANGED <<sid, connected, callVars, wireVars, todo, keeping,
                 teardownVars, serverVars, countVars>>

Keeper == \/ Snapshot \/ Sleep \/ (\E w \in Workers : Check(w))
          \/ Keep \/ KeepFails \/ Drop \/ Unregister

-----------------------------------------------------------------------------
(***************************************************************************)
(* The teardown by the watchdog, and the replacement of the server.        *)
(***************************************************************************)
BeginTeardown ==
  /\ phase = "up" /\ phase' = "join" /\ running' = FALSE
  /\ UNCHANGED <<next, sessionVars, callVars, wireVars, keeperVars, serverVars,
                 countVars>>

\* The thread is joined for two seconds, whether it has ended or not.
Joined ==
  /\ phase = "join" /\ phase' = "invalidate"
  /\ UNCHANGED <<running, next, sessionVars, callVars, wireVars, keeperVars,
                 serverVars, countVars>>

\* w.rpc_session.invalidate() for each worker, in order, under its lock.
InvalidateNext ==
  /\ phase = "invalidate" /\ ~Locked(next)
  /\ Forget(next)
  /\ IF next = NWorkers THEN phase' = "fail" /\ UNCHANGED next
                        ELSE next' = next + 1 /\ UNCHANGED phase
  /\ UNCHANGED <<running, registered, callVars, wireVars, keeperVars,
                 serverVars, countVars>>

\* The entries are dropped and nobody is told.  (PendingIsWoken)
BugFailPending ==
  /\ phase = "fail" /\ phase' = "kill"
  /\ pending' = {}
  /\ UNCHANGED <<running, next, sessionVars, callVars, answer, writtenTo,
                 keeperVars, serverVars, countVars>>

\* ServiceUnavailable to every pending request.
FailPending ==
  /\ phase = "fail" /\ phase' = "kill"
  /\ pending' = {}
  /\ answer' = [w \in Workers |->
       IF w \in pending /\ answer[w] = "none" THEN "unavailable" ELSE answer[w]]
  /\ UNCHANGED <<running, next, sessionVars, callVars, writtenTo, keeperVars,
                 serverVars, countVars>>

Kill ==
  /\ phase = "kill" /\ phase' = "connect"
  /\ alive' = FALSE
  /\ UNCHANGED <<running, next, sessionVars, callVars, wireVars, keeperVars,
                 process, known, last, countVars>>

\* client.connect: another process, with no sessions.
NewServer ==
  /\ phase = "connect" /\ phase' = "done"
  /\ process' = 2 /\ alive' = TRUE /\ known' = All({})
  /\ UNCHANGED <<running, next, sessionVars, callVars, wireVars, keeperVars,
                 last, countVars>>

Teardown == Joined \/ InvalidateNext \/ FailPending \/ Kill \/ NewServer

-----------------------------------------------------------------------------
(***************************************************************************)
(* The server (external).  It answers when it likes, or never; it forgets  *)
(* sessions that expire and those of a Lean worker that ends.              *)
(***************************************************************************)
Reachable(w, places) ==
  /\ alive /\ pc[w] \in places
  /\ w \in pending /\ answer[w] = "none" /\ writtenTo[w] = process

Reply(w, what) == answer' = [answer EXCEPT ![w] = what]

AcceptConnect(w) ==
  /\ Reachable(w, {"opened", "reopened"})
  /\ last' = [last EXCEPT ![w] = @ + 1]
  /\ known' = [known EXCEPT ![w] = @ \cup {last'[w]}]
  /\ Reply(w, "ok")
  /\ UNCHANGED <<sessionVars, callVars, pending, writtenTo, keeperVars,
                 teardownVars, process, alive, countVars>>

Execute(w) ==
  /\ Reachable(w, {"wait"}) /\ sent[w] \in known[w]
  /\ Reply(w, "ok")
  /\ UNCHANGED <<sessionVars, callVars, pending, writtenTo, keeperVars,
                 teardownVars, serverVars, countVars>>

\* An unknown session; or another error (content modified, cancelled, ...).
Refuse(w) ==
  /\ \/ Reachable(w, {"wait"}) /\ sent[w] \notin known[w] /\ Reply(w, "outdated")
     \/ Reachable(w, Waiting) /\ Reply(w, "error")
  /\ UNCHANGED <<sessionVars, callVars, pending, writtenTo, keeperVars,
                 teardownVars, serverVars, countVars>>

\* The Lean worker of the document ends and takes its sessions with it.
LeanWorkerEnds(w) ==
  /\ losses < MaxLosses /\ losses' = losses + 1
  /\ Reachable(w, {"wait"}) /\ Reply(w, "restarted")
  /\ known' = [known EXCEPT ![w] = {}]
  /\ UNCHANGED <<sessionVars, callVars, pending, writtenTo, keeperVars,
                 teardownVars, process, alive, last, calls>>

Expire(w) ==
  /\ losses < MaxLosses /\ losses' = losses + 1
  /\ known[w] # {} /\ known' = [known EXCEPT ![w] = {}]
  /\ UNCHANGED <<sessionVars, callVars, wireVars, keeperVars, teardownVars,
                 process, alive, last, calls>>

Crash ==
  /\ alive /\ phase \in {"up", "join", "invalidate", "fail", "kill"}
  /\ alive' = FALSE
  /\ UNCHANGED <<sessionVars, callVars, wireVars, keeperVars, teardownVars,
                 process, known, last, countVars>>

Server == \/ \E w \in Workers : \/ AcceptConnect(w) \/ Execute(w) \/ Refuse(w)
                                \/ LeanWorkerEnds(w) \/ Expire(w)
          \/ Crash

-----------------------------------------------------------------------------
Next == \/ \E w \in Workers : Call(w) \/ Worker(w)
        \/ Keeper \/ BeginTeardown \/ Teardown \/ Server

Spec == Init /\ [][Next]_vars

(***************************************************************************)
(* Threads run and their waits have timeouts (join 2 s, connect 60 s, call *)
(* RPC_RESPONSE_TIMEOUT).  Nothing is asked of the server.                 *)
(***************************************************************************)
FairSpec == /\ Spec
            /\ \A w \in Workers : WF_vars(Worker(w))
            /\ WF_vars(Keeper)
            /\ WF_vars(Teardown)

-----------------------------------------------------------------------------
(***************************************************************************)
(* Properties                                                              *)
(***************************************************************************)
SessionType ==
  /\ sid \in [Workers -> Ids \cup {0}] /\ connected \in [Workers -> BOOLEAN]
  /\ registered \in SUBSET Workers

CallType ==
  /\ pc \in [Workers -> Places] /\ attempt \in [Workers -> {1, 2}]
  /\ sent \in [Workers -> Ids \cup {0}] /\ refused \in [Workers -> Ids \cup {0}]
  /\ pending \in SUBSET Workers /\ answer \in [Workers -> Answers]
  /\ writtenTo \in [Workers -> 0..2]

ThreadType ==
  /\ step \in {"top", "scan", "keep", "broken", "drop", "unregister", "exited"}
  /\ todo \in SUBSET Workers /\ keeping \in Workers
  /\ running \in BOOLEAN /\ next \in Workers
  /\ phase \in {"up", "join", "invalidate", "fail", "kill", "connect", "done"}

ServerType ==
  /\ process \in {1, 2} /\ alive \in BOOLEAN
  /\ known \in [Workers -> SUBSET Ids] /\ last \in [Workers -> Ids \cup {0}]
  /\ calls \in [Workers -> 0..MaxCalls] /\ losses \in 0..MaxLosses

\* The type of every variable: in particular two connections are enough for
\* each call.
TypeOK == SessionType /\ CallType /\ ThreadType /\ ServerType

\* The second attempt never names the session the server has just refused,
\* whoever invalidates the session meanwhile.
RetryUsesNewSession ==
  \A w \in Workers : attempt[w] = 2 /\ pc[w] \in {"send", "wait"} =>
                       sent[w] = 0 \/ sent[w] # refused[w]

\* A request that was pending when the teardown failed them all has something
\* in its response queue: its thread does not wait for the old server.
PendingIsWoken ==
  phase \in {"kill", "connect", "done"} =>
    \A w \in Workers : pc[w] \in Waiting /\ w \notin pending => answer[w] # "none"

\* A call ends, with the server dead, silent or replaced, and whatever the
\* other threads do to its session.
CallsEnd == \A w \in Workers : pc[w] # "idle" ~> pc[w] = "idle"

\* The teardown gets past the locks of the sessions, and the keep-alive thread
\* of the old pool ends.
TeardownEnds == phase # "up" ~> phase = "done" /\ step = "exited"
=============================================================================
