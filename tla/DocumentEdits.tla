--------------------------- MODULE DocumentEdits ---------------------------
(***************************************************************************)
(* One document worker_N.lean (pyleaner/worker.py: _didopen, _didchange and *)
(* the requests that follow them) through one rebuild of the server.       *)
(*                                                                         *)
(* The pool that replaces another gives its worker N the same uri, and the *)
(* thread of the old worker N may go on: thread 1 and thread 2.  Process p *)
(* publishes to the notification queue of thread p, whoever made the edit. *)
(*                                                                         *)
(* A document is the sequence of its lines, a line the number of the task  *)
(* that wrote it, 0 for the imports the pool opened the document with.     *)
(***************************************************************************)
EXTENDS Integers, Sequences

CONSTANTS First,       \* content_range starts after the first First lines
          LastLine,    \* content_range ends at this line (999 in the code)
          MaxSize,     \* BOUND: lines of a task's text
          MaxTasks,    \* BOUND: tasks
          Restarts     \* BOUND: rebuilds, 0 or 1

ASSUME RangeAssumption == First \in Nat /\ LastLine \in Nat /\ First < LastLine
ASSUME SizeAssumption == MaxSize \in Nat \ {0}
ASSUME TasksAssumption == MaxTasks \in Nat
ASSUME RestartsAssumption == Restarts \in {0, 1}

Threads == {1, 2}
Editing == {"wait", "settle"}
Busy == Editing \cup {"taken", "query", "asked"}
Places == Busy \cup {"unborn", "open", "idle", "woken", "gone"}

VARIABLES
  \* worker threads: the place in _run, the task and the size of its text,
  \* document_version, _didchange's counter and diagnostics (as the set of the
  \* documents they are about), and what the last answer was computed from
  pc, task, size, version, counter, diagnostics, answer,
  \* notification_queue; the process a pending request was written to
  inbox, asked,
  \* what answers to requests that were given up may still be about
  owed,
  \* the server: its process, whether it runs, and the document it holds
  process, alive, isOpen, docVersion, lines,
  \* how many notifications it has published for this version of the document
  published,
  \* the rebuild: its phase and the snapshot of in-flight tasks
  phase, snapshot,
  \* tasks begun so far
  taken,
  \* history: a replaced thread has edited, or asked about, the document
  \* of the new server; a text has reached beyond the end of content_range; a
  \* request has got the answer to an earlier one
  foreign, overlong, crossed

editVars    == <<version, counter, diagnostics>>
threadVars  == <<pc, task, size, editVars, answer, asked>>
docVars     == <<isOpen, docVersion, lines, published>>
serverVars  == <<process, alive, docVars, owed>>
rebuildVars == <<phase, snapshot>>
historyVars == <<taken, foreign, overlong, crossed>>
vars == <<threadVars, inbox, serverVars, rebuildVars, historyVars>>

Poison == [method |-> "poison", version |-> 0, about |-> <<>>]

Imports == [i \in 1..First |-> 0]
Text(k, n) == [i \in 1..n |-> k]

Init ==
  /\ pc = [t \in Threads |-> IF t = 1 THEN "idle" ELSE "unborn"]
  /\ task = [t \in Threads |-> 0] /\ size = [t \in Threads |-> 0]
  /\ version = [t \in Threads |-> 0] /\ counter = [t \in Threads |-> 0]
  /\ diagnostics = [t \in Threads |-> {}] /\ answer = [t \in Threads |-> {}]
  /\ inbox = [t \in Threads |-> <<>>] /\ asked = [t \in Threads |-> 0]
  /\ process = 1 /\ alive = TRUE /\ isOpen = TRUE
  /\ docVersion = 0 /\ lines = Imports
  /\ published = 2
  /\ phase = "up" /\ snapshot = {}
  /\ taken = 0 /\ foreign = FALSE /\ overlong = FALSE
  /\ owed = {} /\ crossed = FALSE

Goto(t, place) == pc' = [pc EXCEPT ![t] = place]

\* counter and diagnostics are local to one call of _didchange.
Forget(t) == /\ counter' = [counter EXCEPT ![t] = 0]
             /\ diagnostics' = [diagnostics EXCEPT ![t] = {}]

\* The lines of content_range, as far as the document has them, are replaced.
Replace(text) ==
  SubSeq(lines, 1, First) \o text \o SubSeq(lines, LastLine + 1, Len(lines))

\* A didChange written to the server, which knows the document once it is open,
\* and may refuse a version that does not increase.
Change(t, text) ==
  /\ \E applied \in IF version'[t] > docVersion THEN {isOpen} ELSE {isOpen, FALSE} :
       IF applied
         THEN docVersion' = version'[t] /\ lines' = Replace(text) /\ published' = 0
         ELSE UNCHANGED <<docVersion, lines, published>>
  /\ foreign' = (foreign \/ (isOpen /\ t # process))
  /\ overlong' = (overlong \/ Len(text) > LastLine - First)
  /\ UNCHANGED <<isOpen, process, alive, owed>>

-----------------------------------------------------------------------------
(***************************************************************************)
(* Worker threads                                                          *)
(***************************************************************************)
Take(t) ==
  /\ pc[t] = "idle" /\ taken < MaxTasks
  /\ taken' = taken + 1
  /\ task' = [task EXCEPT ![t] = taken + 1]
  /\ \E n \in 1..MaxSize : size' = [size EXCEPT ![t] = n]
  /\ answer' = [answer EXCEPT ![t] = {}]
  /\ Goto(t, "taken")
  /\ UNCHANGED <<editVars, inbox, asked, serverVars, rebuildVars, foreign, overlong,
                 crossed>>

\* The version of the document is not counted.  (VersionsIncrease)
BugEdit(t) ==
  /\ pc[t] = "taken"
  /\ Forget(t) /\ UNCHANGED version
  /\ IF alive THEN Goto(t, "wait") /\ Change(t, Text(task[t], size[t]))
              ELSE Goto(t, "idle") /\ UNCHANGED <<serverVars, foreign, overlong>>
  /\ UNCHANGED <<task, size, answer, inbox, asked, rebuildVars, taken, crossed>>

\* _didchange: the edit.  A broken pipe ends the task.
Edit(t) ==
  /\ pc[t] = "taken"
  /\ version' = [version EXCEPT ![t] = @ + 1] /\ Forget(t)
  /\ IF alive THEN Goto(t, "wait") /\ Change(t, Text(task[t], size[t]))
              ELSE Goto(t, "idle") /\ UNCHANGED <<serverVars, foreign, overlong>>
  /\ UNCHANGED <<task, size, answer, inbox, asked, rebuildVars, taken, crossed>>

Received(t, method) ==
  Head(inbox[t]).method = method /\ Head(inbox[t]).version = version[t]

\* Notifications of any version are taken.  (ExactWhenAlone)
BugNotification(t) ==
  /\ pc[t] = "wait" /\ inbox[t] # <<>> /\ Head(inbox[t]) # Poison
  /\ inbox' = [inbox EXCEPT ![t] = Tail(@)]
  /\ diagnostics' = IF Head(inbox[t]).method = "diagnostics"
       THEN [diagnostics EXCEPT ![t] = {Head(inbox[t]).about}] ELSE diagnostics
  /\ counter' = IF Head(inbox[t]).method = "done"
       THEN [counter EXCEPT ![t] = IF @ < 2 THEN @ + 1 ELSE 2] ELSE counter
  /\ Goto(t, IF counter'[t] >= 2 /\ diagnostics'[t] # {} THEN "settle" ELSE "wait")
  /\ UNCHANGED <<task, size, version, answer, asked, serverVars, rebuildVars,
                 historyVars>>

\* One notification; those of another version are ignored.  Two completions
\* (more are not told apart) and diagnostics are enough to sleep for 2 s.
Notification(t) ==
  /\ pc[t] = "wait" /\ inbox[t] # <<>> /\ Head(inbox[t]) # Poison
  /\ inbox' = [inbox EXCEPT ![t] = Tail(@)]
  /\ diagnostics' = IF Received(t, "diagnostics")
       THEN [diagnostics EXCEPT ![t] = {Head(inbox[t]).about}] ELSE diagnostics
  /\ counter' = IF Received(t, "done")
       THEN [counter EXCEPT ![t] = IF @ < 2 THEN @ + 1 ELSE 2] ELSE counter
  /\ Goto(t, IF counter'[t] >= 2 /\ diagnostics'[t] # {} THEN "settle" ELSE "wait")
  /\ UNCHANGED <<task, size, version, answer, asked, serverVars, rebuildVars,
                 historyVars>>

Succeed(t, about) == /\ Goto(t, "idle") /\ Forget(t)
                     /\ answer' = [answer EXCEPT ![t] = about]

\* What arrives during the sleep is not looked at.  (PoisonStopsEdit)
BugSettle(t) ==
  /\ pc[t] = "settle"
  /\ \/ Goto(t, "query") /\ UNCHANGED <<answer, counter, diagnostics>>
     \/ Succeed(t, diagnostics[t])
  /\ UNCHANGED <<task, size, version, inbox, asked, serverVars, rebuildVars,
                 historyVars>>

\* After the sleep: back to the queue if anything has arrived; otherwise the
\* edit is over, and the task answers or goes on to its request.
Settle(t) ==
  /\ pc[t] = "settle"
  /\ \/ /\ Goto(t, IF inbox[t] = <<>> THEN "query" ELSE "wait")
        /\ UNCHANGED <<answer, counter, diagnostics>>
     \/ inbox[t] = <<>> /\ Succeed(t, diagnostics[t])
  /\ UNCHANGED <<task, size, version, inbox, asked, serverVars, rebuildVars,
                 historyVars>>

\* The deadline is looked at when a notification arrives.  (TasksEnd)
BugDeadline(t) ==
  /\ pc[t] = "wait" /\ inbox[t] # <<>>
  /\ Goto(t, "idle") /\ Forget(t)
  /\ version' = [version EXCEPT ![t] = @ + 1]
  /\ IF alive THEN Change(t, <<>>) ELSE UNCHANGED <<serverVars, foreign, overlong>>
  /\ UNCHANGED <<task, size, answer, inbox, asked, rebuildVars, taken, crossed>>

\* After the cancellation the loop goes on.  (TypeOK)
BugCancel(t) ==
  /\ pc[t] = "wait"
  /\ version' = [version EXCEPT ![t] = @ + 1]
  /\ IF alive THEN Change(t, <<>>) ELSE UNCHANGED <<serverVars, foreign, overlong>>
  /\ UNCHANGED <<pc, task, size, counter, diagnostics, answer, inbox, asked,
                 rebuildVars, taken, crossed>>

\* The deadline: a newer edit without text cancels the elaboration; that it
\* cannot be written is ignored.
Deadline(t) ==
  /\ pc[t] = "wait"
  /\ Goto(t, "idle") /\ Forget(t)
  /\ version' = [version EXCEPT ![t] = @ + 1]
  /\ IF alive THEN Change(t, <<>>) ELSE UNCHANGED <<serverVars, foreign, overlong>>
  /\ UNCHANGED <<task, size, answer, inbox, asked, rebuildVars, taken, crossed>>

\* The poison among the notifications: ServiceUnavailable.
Poisoned(t) ==
  /\ pc[t] = "wait" /\ inbox[t] # <<>> /\ Head(inbox[t]) = Poison
  /\ inbox' = [inbox EXCEPT ![t] = Tail(@)]
  /\ Goto(t, "gone") /\ Forget(t)
  /\ UNCHANGED <<task, size, version, answer, asked, serverVars, rebuildVars,
                 historyVars>>

\* The request about the document; a broken pipe, or an unknown uri.
Ask(t) ==
  /\ pc[t] = "query"
  /\ IF alive /\ isOpen THEN Goto(t, "asked") /\ UNCHANGED <<counter, diagnostics>>
                         ELSE Goto(t, "idle") /\ Forget(t)
  /\ asked' = [asked EXCEPT ![t] = process]
  /\ foreign' = (foreign \/ t # process)
  /\ UNCHANGED <<task, size, version, answer, inbox, serverVars, rebuildVars,
                 taken, overlong, crossed>>

\* An error; no response in time, so that one may still come;
\* ServiceUnavailable from a pending request, after which the thread ends.
AskFails(t) ==
  /\ pc[t] \in {"asked", "woken"}
  /\ Goto(t, IF pc[t] = "asked" THEN "idle" ELSE "gone") /\ Forget(t)
  /\ \/ UNCHANGED owed
     \/ alive /\ isOpen /\ asked[t] = process /\ owed' = owed \cup {lines}
  /\ UNCHANGED <<task, size, version, answer, inbox, asked, process, alive,
                 docVars, rebuildVars, historyVars>>

\* _didopen waits for version 0 and ignores everything else, poison included.
Opened(t) ==
  /\ pc[t] = "open" /\ inbox[t] # <<>>
  /\ inbox' = [inbox EXCEPT ![t] = Tail(@)]
  /\ IF Received(t, "done") THEN Goto(t, "idle") ELSE UNCHANGED pc
  /\ UNCHANGED <<task, size, editVars, answer, asked, serverVars, rebuildVars,
                 historyVars>>

\* Not ready: the thread runs, and the router gives it no task.
OpenFails(t) ==
  /\ pc[t] = "open" /\ inbox[t] = <<>> /\ Goto(t, "gone")
  /\ UNCHANGED <<task, size, editVars, answer, inbox, asked, serverVars, rebuildVars,
                 historyVars>>

Thread(t) ==
  \/ Edit(t) \/ Notification(t) \/ Settle(t) \/ Deadline(t) \/ Poisoned(t)
  \/ Ask(t) \/ AskFails(t) \/ Opened(t) \/ OpenFails(t)

-----------------------------------------------------------------------------
(***************************************************************************)
(* The server (external).  For each version it publishes a completion,     *)
(* diagnostics and another completion, or fewer; requests see its          *)
(* document.  Nobody reads the queue of a thread that has ended.           *)
(***************************************************************************)
Publications == <<"done", "diagnostics", "done">>

Publish ==
  /\ alive /\ isOpen /\ published < Len(Publications)
  /\ published' = published + 1
  /\ inbox' = [inbox EXCEPT ![process] = IF pc[process] = "gone" THEN @ ELSE
       Append(@, [method |-> Publications[published + 1],
                  version |-> docVersion, about |-> lines])]
  /\ UNCHANGED <<threadVars, process, alive, isOpen, docVersion, lines, owed,
                 rebuildVars, historyVars>>

\* The response to a request, which ends the task.
Respond(t) ==
  /\ alive /\ isOpen /\ pc[t] = "asked" /\ asked[t] = process
  /\ Succeed(t, diagnostics[t] \cup {lines})
  /\ UNCHANGED <<task, size, version, inbox, asked, serverVars, rebuildVars,
                 historyVars>>

\* The goal requests of a worker all have the id worker_id + 1000: the answer to
\* one that was given up goes to the one that waits now.
RespondLate(t) ==
  /\ alive /\ isOpen /\ pc[t] = "asked"
  /\ \E about \in owed : owed' = owed \ {about} /\ Succeed(t, diagnostics[t] \cup {about})
  /\ crossed' = TRUE
  /\ UNCHANGED <<task, size, version, inbox, asked, process, alive, docVars,
                 rebuildVars, taken, foreign, overlong>>

\* (Once a rebuild has begun, its Kill stands for a crash.)
Crash ==
  /\ alive /\ phase = "up" /\ alive' = FALSE /\ owed' = {}
  /\ UNCHANGED <<threadVars, inbox, process, docVars, rebuildVars, historyVars>>

Server == Publish \/ (\E t \in Threads : Respond(t) \/ RespondLate(t)) \/ Crash

-----------------------------------------------------------------------------
(***************************************************************************)
(* The rebuild by the watchdog, as far as this document sees it.           *)
(***************************************************************************)
Snapshot ==
  /\ phase = "up" /\ Restarts = 1 /\ phase' = "poison"
  /\ snapshot' = {t \in Threads : pc[t] \in Busy}
  /\ UNCHANGED <<threadVars, inbox, serverVars, historyVars>>

\* Every worker of the snapshot gets the poison.
PoisonWorkers ==
  /\ phase = "poison" /\ phase' = "fail"
  /\ inbox' = [t \in Threads |->
       IF t \in snapshot THEN Append(inbox[t], Poison) ELSE inbox[t]]
  /\ UNCHANGED <<threadVars, serverVars, snapshot, historyVars>>

\* _teardown_pool_state fails the pending requests; then the server is killed.
FailPending ==
  /\ phase = "fail" /\ phase' = "kill"
  /\ pc' = [t \in Threads |-> IF pc[t] = "asked" THEN "woken" ELSE pc[t]]
  /\ UNCHANGED <<task, size, editVars, answer, inbox, asked, serverVars, snapshot,
                 historyVars>>

Kill ==
  /\ phase = "kill" /\ phase' = "connect"
  /\ alive' = FALSE /\ isOpen' = FALSE /\ owed' = {}
  /\ UNCHANGED <<threadVars, inbox, process, docVersion, lines, published,
                 snapshot, historyVars>>

Connect ==
  /\ phase = "connect" /\ phase' = "create"
  /\ process' = 2 /\ alive' = TRUE
  /\ UNCHANGED <<threadVars, inbox, docVars, owed, snapshot, historyVars>>

\* create_pool: another worker for the same uri, which opens its document.
CreatePool ==
  /\ phase = "create" /\ phase' = "done"
  /\ pc' = [pc EXCEPT ![2] = "open"]
  /\ isOpen' = TRUE /\ docVersion' = 0 /\ lines' = Imports
  /\ published' = 0
  /\ UNCHANGED <<task, size, editVars, answer, inbox, asked, process, alive, owed, snapshot,
                 historyVars>>

Rebuild == PoisonWorkers \/ FailPending \/ Kill \/ Connect \/ CreatePool

-----------------------------------------------------------------------------
Next == \/ \E t \in Threads : Take(t) \/ Thread(t)
        \/ Server \/ Snapshot \/ Rebuild

Spec == Init /\ [][Next]_vars

(***************************************************************************)
(* Threads run and their waits have timeouts; nothing is asked of the      *)
(* server.                                                                 *)
(***************************************************************************)
FairSpec == /\ Spec
            /\ \A t \in Threads : WF_vars(Thread(t))
            /\ WF_vars(Rebuild)

-----------------------------------------------------------------------------
(***************************************************************************)
(* Properties                                                              *)
(***************************************************************************)
Versions == 0..(2 * MaxTasks)
Content == Seq(0..MaxTasks)

\* The type of every variable; in particular a task uses at most two versions
\* of its document, and no completion is counted twice.
TypeOK ==
  /\ pc \in [Threads -> Places] /\ task \in [Threads -> 0..MaxTasks]
  /\ size \in [Threads -> 0..MaxSize] /\ version \in [Threads -> Versions]
  /\ counter \in [Threads -> 0..2] /\ process \in Threads /\ alive \in BOOLEAN
  /\ diagnostics \in [Threads -> SUBSET Content]
  /\ answer \in [Threads -> SUBSET Content] /\ asked \in [Threads -> 0..2]
  /\ \A t \in Threads : inbox[t] \in Seq([method : {"diagnostics", "done", "poison"},
                                          version : Versions, about : Content])
  /\ isOpen \in BOOLEAN /\ docVersion \in Versions /\ lines \in Content
  /\ published \in 0..3
  /\ phase \in {"up", "poison", "fail", "kill", "connect", "create", "done"}
  /\ snapshot \in SUBSET Threads /\ taken \in 0..MaxTasks
  /\ foreign \in BOOLEAN /\ overlong \in BOOLEAN /\ crossed \in BOOLEAN
  /\ owed \in SUBSET Content

Exact(t) == answer[t] \subseteq {Imports \o Text(task[t], size[t])}

\* README.md:193 and pool.py:219: whatever a successful answer reports is about
\* the document that consists of the imports and the text of its task.
AnswersAreExact == \A t \in Threads : Exact(t)

\* The same for the thread of the pool that works with this server, apart from
\* answers to earlier requests.
PoolAnswersAreExact == ~crossed => Exact(process)

\* That is so as long as no thread of a replaced pool has used the document of
\* the new server, no text has been longer than content_range, and no request
\* has got the answer to one that timed out: late notifications, cancelled
\* edits and the rebuild do no harm.
ExactWhenAlone == ~foreign /\ ~overlong /\ ~crossed => AnswersAreExact

\* An edit whose thread has been poisoned does not end with success, even if
\* the poison comes when the notifications it waits for have arrived.
PoisonStopsEdit ==
  [][\A t \in Threads :
       pc[t] \in Editing /\ (\E i \in DOMAIN inbox[t] : inbox[t][i] = Poison)
         => pc'[t] # "query" /\ answer'[t] = answer[t]]_vars

\* The versions of an open document increase with each change, cancellations
\* included, as the filter of late notifications needs.
VersionsIncrease ==
  [][isOpen /\ lines' # lines /\ ~foreign' => docVersion' > docVersion]_vars

\* A task that has begun ends, with the server dead, silent or replaced.
TasksEnd == \A t \in Threads : pc[t] \in Busy ~> pc[t] \in {"idle", "gone"}
=============================================================================
