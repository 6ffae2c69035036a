------------------------- MODULE LspTransportProofs -------------------------
(***************************************************************************)
(* Theorems about LspTransport, for every number of workers, calls and     *)
(* servers.                                                                *)
(*                                                                         *)
(* TypeOK and the two safety invariants are not inductive: what a response *)
(* answers depends on every message that is on its way, and on what is     *)
(* known of the call that it was sent for.  The inductive invariant        *)
(* TransportInv says that.                                                 *)
(***************************************************************************)
EXTENDS LspTransport, TLAPS

-----------------------------------------------------------------------------
(* The inductive invariant                                                 *)

FixedIds == {FixedId(w) : w \in 0 .. NWorkers}

\* A request or its response under the id i, made for the call s, is in a pipe
\* or in the hands of a reader thread.
OnItsWay(i, s) ==
  \/ \E q \in asked \cup out : q.id = i /\ q.serial = s
  \/ \E r \in Readers : /\ reader[r].at = "handle"
                        /\ reader[r].message.id = i /\ reader[r].message.serial = s

\* The calls, when n of them have been made.
CallType(n) ==
  [Threads -> [at : {"idle", "send", "wait", "pop", "gone"},
               kind : Fixed \cup {"none", "session"}, id : Nat,
               serial : 0 .. n, box : -1 .. n]]

\* The reader threads.
ReaderType ==
  /\ reader \in [Readers -> [at : {"unborn", "top", "read", "handle", "gone"},
                             pipe : Servers,
                             message : [id : Nat, serial : 0 .. serials]]]
  /\ \A r \in Readers : reader[r].at = "handle" => reader[r].message.serial # 0
  /\ \A r \in Readers : r > process => reader[r].at = "unborn"
  /\ \A r \in Readers : reader[r].pipe \in 1 .. process

\* TypeOK with the records that it looks into.
TypeInv ==
  /\ TypeOK /\ ReaderType
  /\ asked \cup out \subseteq [server : Servers, id : Nat, serial : 1 .. serials]
  /\ phase \in {"kill", "start"} => process < MaxServers

\* What the running calls are called.
Names ==
  /\ \A t \in Threads :
       Running(t) => /\ call[t].serial # 0
                     /\ \/ call[t].kind \in Fixed /\ call[t].id = FixedId(t[1])
                        \/ call[t].kind = "session" /\ call[t].id \in 1 .. lastId
  /\ \A t \in Threads :
       ~Running(t) => call[t].serial = 0 /\ call[t].box = None
  /\ \A t, u \in Threads :
       Running(t) /\ Running(u) /\ call[t].serial = call[u].serial => t = u
  /\ \A t \in Threads :
       Running(t) => \A i \in DOMAIN pending :
                       pending[i] = call[t].serial => call[t].id = i

\* A message is in one place.
SingleCopy ==
  /\ \A q1, q2 \in asked \cup out : q1.serial = q2.serial => q1 = q2
  /\ asked \cap out = {}
  /\ \A r \in Readers : \A q \in asked \cup out :
       reader[r].at = "handle" => q.serial # reader[r].message.serial
  /\ \A r1, r2 \in Readers :
       /\ reader[r1].at = "handle" /\ reader[r2].at = "handle"
       /\ reader[r1].message.serial = reader[r2].message.serial
       => r1 = r2

\* The messages of a call: none before it is sent or once it is answered; their
\* id is the one of the call.
MessagesOfCalls ==
  /\ \A i \in Nat, s \in 1 .. serials :
       OnItsWay(i, s) => i \in FixedIds \cup 1 .. lastId
  /\ \A t \in Threads, i \in Nat :
       Running(t) /\ OnItsWay(i, call[t].serial) =>
         /\ i = call[t].id
         /\ call[t].at # "send" /\ call[t].box # call[t].serial
  /\ \A t \in Threads :
       call[t].at = "send" => call[t].box # call[t].serial

\* A message with a fixed id whose call no longer waits has been abandoned.
LateMessages ==
  IdsApart =>
    \A i \in FixedIds, s \in 1 .. serials :
      OnItsWay(i, s) =>
        \/ s \in abandoned
        \/ \E t \in Threads : call[t].at = "wait" /\ call[t].serial = s

\* Two calls have the same id, and a message has the id of another call, only
\* if that id is fixed, and with the excuse of OwnAnswer.
SharedIds ==
  IdsApart =>
    /\ \A t, u \in Threads :
         Running(t) /\ Running(u) /\ t # u /\ call[t].id = call[u].id =>
           call[t].kind \in Fixed /\ call[t].id \in doubled
    /\ \A t \in Threads, s \in 1 .. serials :
         Running(t) /\ OnItsWay(call[t].id, s) /\ s # call[t].serial =>
           call[t].kind \in Fixed /\ (s \in abandoned \/ call[t].id \in doubled)

\* The second part of TableMatchesCalls from the registration on.
Registered ==
  IdsApart =>
    \A t \in Threads :
      call[t].at \in {"send", "wait"} /\ call[t].box = None =>
        \/ call[t].id \in DOMAIN pending /\ pending[call[t].id] = call[t].serial
        \/ call[t].kind \in Fixed /\ call[t].id \in doubled

CallInv ==
  /\ Names /\ MessagesOfCalls /\ LateMessages /\ SharedIds /\ Registered
  /\ OwnAnswer /\ TableMatchesCalls

TransportInv == TypeInv /\ SingleCopy /\ CallInv

-----------------------------------------------------------------------------
(* Types                                                                   *)

LEMMA InitInv == Init => TransportInv
<1> SUFFICES ASSUME Init PROVE TransportInv
  OBVIOUS
<1> USE TransportAssumption DEF Init, Servers, Workers, Threads, Readers, None, NoCall,
        NoMessage
<1>1. TypeInv
  BY DEF TypeInv, TypeOK, ReaderType, Fixed, FixedIds
<1>2. Names /\ SingleCopy /\ SharedIds /\ Registered
  BY DEF Names, SingleCopy, SharedIds, Registered, Running
<1>3. MessagesOfCalls /\ LateMessages
  BY DEF MessagesOfCalls, LateMessages, OnItsWay, Running
<1>4. OwnAnswer /\ TableMatchesCalls
  BY DEF OwnAnswer, TableMatchesCalls, Unavailable
<1> QED
  BY <1>1, <1>2, <1>3, <1>4 DEF TransportInv, CallInv

\* The steps of a caller keep the types.
LEMMA CallKeepsType ==
  ASSUME TypeInv, Names, NEW t \in Threads, Send(t) \/ Leave(t) \/ Pop(t)
  PROVE  TypeInv'
<1> USE DEF TypeInv, TypeOK, ReaderType, Fixed, None, NoCall, callVars, serverVars, pipeVars,
            callHistory
<1>1. CASE Send(t)
  BY <1>1 DEF Send, Goto, End, Names, Running
<1>2. CASE Leave(t)
  BY <1>2 DEF Leave, Goto, Names, Running
<1>3. CASE Pop(t)
  BY <1>3 DEF Pop, Popped, Without, End, Outcome
<1> QED
  BY <1>1, <1>2, <1>3

LEMMA RegisterKeepsType ==
  ASSUME TypeInv, Names, NEW t \in Threads, NEW kind \in Fixed \cup {"session"},
         kind = "session" => t[1] \in Workers, Register(t, kind)
  PROVE  /\ followed' = followed /\ process' = process
         /\ phase' \in {"up", "kill", "start", "connect", "initialize", "failed"}
            /\ (phase' \in {"kill", "start"} => process < MaxServers)
            => TypeInv'
<1> USE DEF TypeInv, TypeOK, ReaderType, Fixed, serverVars, pipeVars
<1>1. t[1] \in 0 .. NWorkers /\ FixedId(t[1]) \in Nat /\ MaxCalls \in Nat
  BY TransportAssumption DEF Threads, FixedId
<1>2. serials' \in 0 .. MaxCalls /\ serials' = serials + 1 /\ lastId' \in 0 .. serials'
      /\ (lastId' = lastId \/ lastId' = lastId + 1)
  BY <1>1 DEF Register, NextId
<1> DEFINE i == IF kind \in Fixed THEN FixedId(t[1]) ELSE lastId'
<1>3. /\ i \in Nat
        /\ i \in {FixedId(w) : w \in 0 .. NWorkers} \cup 1 .. lastId'
        /\ call' = [call EXCEPT ![t] = [at |-> "send", kind |-> kind, id |-> i,
                                        serial |-> serials', box |-> None]]
        /\ pending' = [j \in DOMAIN pending \cup {i} |->
                        IF j = i THEN serials' ELSE pending[j]]
  BY <1>1, <1>2 DEF Register, NextId
<1>4. call' \in CallType(serials')
  BY <1>2, <1>3 DEF None, CallType
<1>5. \A j \in DOMAIN pending' : pending'[j] \in 1 .. serials'
  BY <1>2, <1>3
<1>6. doubled' \subseteq {FixedId(w) : w \in 0 .. NWorkers} \cup 1 .. lastId'
  BY <1>1, <1>2 DEF Register, NextId
<1> QED
  BY <1>2, <1>4, <1>5, <1>6 DEF Register, CallType

\* So do the servers,
LEMMA ServerKeepsType ==
  ASSUME TypeInv, Respond \/ Panic \/ Die \/ ClosePipes
  PROVE  TypeInv'
<1> USE DEF TypeInv, TypeOK, ReaderType, callVars, serverVars, pipeVars, callHistory
<1>1. CASE Respond
  BY <1>1 DEF Respond
<1>2. CASE Panic
  BY <1>2, TransportAssumption DEF Panic, Servers
<1>3. CASE Die
  BY <1>3 DEF Die
<1>4. CASE ClosePipes
  BY <1>4 DEF ClosePipes
<1> QED
  BY <1>1, <1>2, <1>3, <1>4

\* a message that is put into queues,
LEMMA PutKeepsType ==
  ASSUME TypeInv, NEW calls, NEW value \in -1 .. serials, Put(calls, value)
  PROVE  call' \in CallType(serials)
BY DEF TypeInv, TypeOK, Put, CallType

\* the reader threads,
LEMMA ReaderKeepsType ==
  ASSUME TypeInv, NEW r \in Readers, Reader(r)
  PROVE  TypeInv'
<1> USE TransportAssumption DEF callVars, serverVars, pipeVars, callHistory
<1>0. /\ process \in Servers /\ ReaderType
      /\ reader[r].at \in {"unborn", "top", "read", "handle", "gone"}
  BY DEF TypeInv, TypeOK
<1>1. CASE Poll(r)
  <2>1. process \in 1 .. process
    BY <1>0 DEF Servers
  <2>2. ReaderType'
    BY <1>0, <1>1, <2>1 DEF Poll, Move, ReaderType
  <2>3. shared' \subseteq 1 .. process
    BY <1>1, <2>1 DEF Poll, TypeInv, TypeOK
  <2> QED
    BY <1>1, <2>2, <2>3 DEF Poll, TypeInv, TypeOK, ReaderType
<1>2. CASE ReadResponse(r)
  <2>1. PICK q \in out :
          /\ out' = out \ {q}
          /\ reader' = [reader EXCEPT ![r].at = "handle",
                          ![r].message = [id |-> q.id, serial |-> q.serial]]
    BY <1>2 DEF ReadResponse, InPipe
  <2>2. q.id \in Nat /\ q.serial \in 1 .. serials /\ serials \in Nat
    BY <2>1 DEF TypeInv, TypeOK
  <2> DEFINE m == [id |-> q.id, serial |-> q.serial]
  <2>3. m \in [id : Nat, serial : 0 .. serials] /\ m.serial # 0
    BY <2>2
  <2>4. ~(r > process) /\ process' = process /\ serials' = serials
    BY <1>0, <1>2 DEF ReadResponse, ReaderType
  <2>6. /\ reader'[r] = [at |-> "handle", pipe |-> reader[r].pipe, message |-> m]
        /\ \A s \in Readers : s # r => reader'[s] = reader[s]
        /\ reader' = [s \in Readers |-> reader'[s]]
    BY <1>0, <2>1 DEF ReaderType
  <2> HIDE DEF m
  <2>7. reader'[r] \in [at : {"unborn", "top", "read", "handle", "gone"},
                        pipe : Servers,
                        message : [id : Nat, serial : 0 .. serials]]
    BY <1>0, <2>3, <2>6 DEF ReaderType
  <2>5. ReaderType'
    BY <1>0, <2>3, <2>4, <2>6, <2>7 DEF ReaderType
  <2> QED
    BY <1>2, <2>1, <2>5 DEF ReadResponse, TypeInv, TypeOK, ReaderType
<1>3. CASE Handle(r)
  <2>1. reader[r].message.serial \in -1 .. serials /\ serials \in Nat
    BY <1>0 DEF ReaderType, TypeInv, TypeOK
  <2>2. call' \in CallType(serials)
    BY <1>3, <2>1, PutKeepsType DEF Handle, TypeInv, TypeOK, CallType
  <2>3. reader' = [reader EXCEPT ![r].at = "top", ![r].message = NoMessage]
    BY <1>3 DEF Handle, AfterMessage
  <2>4. ReaderType'
    BY <1>0, <1>3, <2>1, <2>3 DEF Handle, ReaderType, NoMessage, None
  <2> QED
    BY <1>3, <2>2, <2>4 DEF Handle, TypeInv, TypeOK, ReaderType, CallType
<1>4. CASE ReadLine(r)
  <2>1. ReaderType'
    BY <1>0, <1>4 DEF ReadLine, Move, ReaderType
  <2> QED
    BY <1>4, <2>1 DEF ReadLine, TypeInv, TypeOK, ReaderType
<1>5. CASE EndOfPipe(r)
  <2>1. ReaderType'
    BY <1>0, <1>5 DEF EndOfPipe, Move, ReaderType
  <2> QED
    BY <1>5, <2>1 DEF EndOfPipe, TypeInv, TypeOK, ReaderType
<1>6. CASE Garble(r)
  <2>1. ReaderType'
    BY <1>0, <1>6 DEF Garble, Move, ReaderType
  <2>2. out' \subseteq out /\ fatal' \subseteq fatal
    BY <1>6 DEF Garble
  <2> QED
    BY <1>6, <2>1, <2>2 DEF Garble, TypeInv, TypeOK, ReaderType
<1> QED
  BY <1>1, <1>2, <1>3, <1>4, <1>5, <1>6 DEF Reader

\* and the rebuild.
LEMMA RebuildKeepsType ==
  ASSUME TypeInv, Names, Rebuild
  PROVE  TypeInv'
<1> USE DEF callVars, serverVars, pipeVars, callHistory
<1>1. CASE TearDown
  <2>1. call' \in CallType(serials)
    BY <1>1, PutKeepsType DEF TearDown, Unavailable, TypeInv, TypeOK
  <2> QED
    BY <1>1, <2>1 DEF TearDown, TypeInv, TypeOK, ReaderType, CallType
<1>2. CASE Kill
  BY <1>2 DEF Kill, TypeInv, TypeOK, ReaderType
<1>3. CASE Start
  <2> USE DEF TypeInv, TypeOK
  <2>1. process' \in Servers /\ process' = process + 1
    BY <1>3, TransportAssumption DEF Start, Servers
  <2>2. \A r \in Readers : r \in Int /\ reader[r].pipe \in 1 .. process
    BY DEF ReaderType, Readers, Servers
  <2>3. ReaderType'
    BY <1>3, <2>1, <2>2 DEF Start, ReaderType, Servers
  <2>4. open' \subseteq 1 .. process' /\ panicked' \subseteq 1 .. process'
        /\ shared' \subseteq 1 .. process'
    BY <1>3, <2>1 DEF Start, Servers
  <2> QED
    BY <1>3, <2>1, <2>3, <2>4 DEF Start, ReaderType
<1>4. CASE Initialize
  <2>1. <<0, process>> \in Threads
    BY TransportAssumption DEF TypeInv, TypeOK, Threads
  <2> QED
    BY <1>4, <2>1, RegisterKeepsType DEF Initialize, Fixed, Register, serverVars
<1> QED
  BY <1>1, <1>2, <1>3, <1>4 DEF Rebuild

LEMMA StepKeepsType ==
  ASSUME TypeInv, Names, [Next]_vars
  PROVE  TypeInv'
<1>1. CASE UNCHANGED vars
  BY <1>1 DEF vars, TypeInv, TypeOK, ReaderType, callVars, serverVars, pipeVars, callHistory
<1>2. ASSUME NEW t \in Threads, Begin(t)
      PROVE  TypeInv'
  BY <1>2, RegisterKeepsType DEF Begin, Register, serverVars, Fixed, TypeInv, TypeOK
<1> QED
  BY <1>1, <1>2, CallKeepsType, ServerKeepsType, ReaderKeepsType, RebuildKeepsType
     DEF Next

-----------------------------------------------------------------------------
(* Messages                                                                *)

\* What happens to the pipes and the threads that read them.
OtherStep ==
  \/ Respond \/ Panic \/ Die \/ ClosePipes \/ Kill \/ Start
  \/ \E r \in Readers : \/ Poll(r) \/ ReadResponse(r) \/ ReadLine(r)
                        \/ EndOfPipe(r) \/ Garble(r)

\* Only a call that is sent makes a message; nothing else happens to calls.
LEMMA OthersMakeNoMessage ==
  ASSUME TypeInv, OtherStep
  PROVE  /\ UNCHANGED <<callVars, callHistory>>
         /\ \A i, s : OnItsWay(i, s)' => OnItsWay(i, s)
<1> USE DEF OnItsWay, callVars, callHistory, pipeVars
<1>1. CASE Respond \/ Panic \/ Die \/ ClosePipes \/ Kill
  BY <1>1 DEF Respond, Panic, Die, ClosePipes, Kill
<1>2. CASE Start
  BY <1>2 DEF Start
<1>3. ASSUME NEW r \in Readers, Poll(r) \/ ReadLine(r) \/ EndOfPipe(r)
      PROVE  /\ UNCHANGED <<callVars, callHistory>>
             /\ \A i, s : OnItsWay(i, s)' => OnItsWay(i, s)
  BY <1>3 DEF Poll, ReadLine, EndOfPipe, Move, TypeInv, ReaderType
<1>4. ASSUME NEW r \in Readers, Garble(r)
      PROVE  /\ UNCHANGED <<callVars, callHistory>>
             /\ \A i, s : OnItsWay(i, s)' => OnItsWay(i, s)
  BY <1>4 DEF Garble, Move, TypeInv, ReaderType
<1>5. ASSUME NEW r \in Readers, ReadResponse(r)
      PROVE  /\ UNCHANGED <<callVars, callHistory>>
             /\ \A i, s : OnItsWay(i, s)' => OnItsWay(i, s)
  BY <1>5 DEF ReadResponse, InPipe, TypeInv, ReaderType
<1> QED
  BY <1>1, <1>2, <1>3, <1>4, <1>5 DEF OtherStep

LEMMA OthersKeepCalls ==
  ASSUME CallInv, UNCHANGED <<callVars, callHistory>>,
         \A i, s : OnItsWay(i, s)' => OnItsWay(i, s)
  PROVE  CallInv'
<1> USE DEF callVars, callHistory, CallInv, IdsApart, Running
<1>1. Names' /\ Registered' /\ OwnAnswer' /\ TableMatchesCalls'
  BY DEF Names, Registered, OwnAnswer, TableMatchesCalls
<1>2. MessagesOfCalls'
  BY DEF MessagesOfCalls
<1>3. LateMessages' /\ SharedIds'
  BY DEF LateMessages, SharedIds
<1> QED
  BY <1>1, <1>2, <1>3

\* A call that is to be sent has no message yet.
LEMMA UnsentHasNoMessage ==
  ASSUME TypeInv, CallInv, NEW t \in Threads, call[t].at = "send"
  PROVE  /\ \A q \in asked \cup out : q.serial # call[t].serial
         /\ \A r \in Readers : reader[r].at = "handle" =>
                                 reader[r].message.serial # call[t].serial
<1> USE DEF CallInv, MessagesOfCalls, OnItsWay, Running
<1>1. \A q \in asked \cup out : q.serial # call[t].serial
  <2> SUFFICES ASSUME NEW q \in asked \cup out, q.serial = call[t].serial
               PROVE  FALSE
    OBVIOUS
  <2>1. q.id \in Nat
    BY DEF TypeInv
  <2> QED
    BY <2>1
<1>2. \A r \in Readers : reader[r].at = "handle" =>
                           reader[r].message.serial # call[t].serial
  BY DEF TypeInv, ReaderType
<1> QED
  BY <1>1, <1>2

LEMMA CopiesStaySingle ==
  ASSUME TransportInv, [Next]_vars
  PROVE  SingleCopy'
<1> USE DEF TransportInv, SingleCopy, pipeVars
<1>1. CASE UNCHANGED vars
  BY <1>1 DEF vars
<1>2. ASSUME NEW t \in Threads, Begin(t) \/ Leave(t) \/ Pop(t)
      PROVE  SingleCopy'
  BY <1>2 DEF Begin, Register, Leave, Pop
<1>3. ASSUME NEW t \in Threads, Send(t)
      PROVE  SingleCopy'
  BY <1>3, UnsentHasNoMessage DEF Send
<1>4. CASE Respond \/ Panic \/ Die \/ ClosePipes
  BY <1>4 DEF Respond, Panic, Die, ClosePipes
<1>5. ASSUME NEW r \in Readers, Poll(r) \/ ReadLine(r) \/ EndOfPipe(r) \/ Garble(r)
      PROVE  SingleCopy'
  BY <1>5 DEF Poll, ReadLine, EndOfPipe, Garble, Move, TypeInv, ReaderType
<1>6. ASSUME NEW r \in Readers, ReadResponse(r)
      PROVE  SingleCopy'
  BY <1>6 DEF ReadResponse, InPipe, TypeInv, ReaderType
<1>7. ASSUME NEW r \in Readers, Handle(r)
      PROVE  SingleCopy'
  BY <1>7 DEF Handle, AfterMessage, TypeInv, ReaderType
<1>8. CASE Rebuild
  <2>1. CASE Start
    <3>1. /\ asked' \subseteq asked /\ out' \subseteq out
          /\ \A r \in Readers : reader'[r].at = "handle" => reader'[r] = reader[r]
      BY <2>1 DEF Start, TypeInv, ReaderType
    <3> QED
      BY <3>1
  <2> QED
    BY <1>8, <2>1 DEF Rebuild, TearDown, Kill, Initialize, Register
<1> QED
  BY <1>1, <1>2, <1>3, <1>4, <1>5, <1>6, <1>7, <1>8 DEF Next, Reader

-----------------------------------------------------------------------------
(* Calls                                                                   *)

\* As long as the ranges are apart, no fixed id is the id of a session call.
LEMMA RangesAreApart ==
  ASSUME TypeInv, IdsApart, NEW i \in FixedIds
  PROVE  i \in Nat /\ i \notin 1 .. lastId
BY TransportAssumption DEF FixedIds, FixedId, IdsApart, TypeInv, TypeOK

LEMMA SendKeepsCalls ==
  ASSUME TransportInv, NEW t \in Threads, Send(t)
  PROVE  CallInv'
<1> USE DEF TransportInv, CallInv, CallType, IdsApart, Running, Goto, End, NoCall, None
<1>1. /\ UNCHANGED <<lastId, pending, serials, abandoned, doubled>>
      /\ call[t].at = "send" /\ call \in CallType(serials)
  BY DEF Send, TypeInv, TypeOK, CallType
<1>2. \A i, s : OnItsWay(i, s)' =>
        OnItsWay(i, s) \/ (i = call[t].id /\ s = call[t].serial /\ call'[t].at = "wait")
  BY <1>1 DEF OnItsWay, Send
<1>3. Names'
  BY <1>1 DEF Names, Send
<1>4. MessagesOfCalls'
  BY <1>1, <1>2 DEF MessagesOfCalls, Names, Send, FixedIds, Threads
<1>5. LateMessages'
  BY <1>1, <1>2 DEF LateMessages, Send
<1>6. SharedIds'
  BY <1>1, <1>2 DEF SharedIds, Send, Names
<1>7. Registered' /\ OwnAnswer'
  BY <1>1 DEF Registered, OwnAnswer, Send, Unavailable
<1>8. TableMatchesCalls'
  BY <1>1 DEF TableMatchesCalls, Registered, Send
<1> QED
  BY <1>3, <1>4, <1>5, <1>6, <1>7, <1>8

LEMMA LeaveKeepsCalls ==
  ASSUME TransportInv, NEW t \in Threads, Leave(t)
  PROVE  CallInv'
<1> USE DEF TransportInv, CallInv, CallType, IdsApart, Running, Goto
<1>1. /\ UNCHANGED <<lastId, pending, serials, doubled, failed>>
      /\ call[t].at = "wait" /\ call \in CallType(serials)
      /\ call' = [call EXCEPT ![t].at = "pop"]
      /\ abandoned \subseteq abandoned'
  BY DEF Leave, TypeInv, TypeOK
<1>2. \A i, s : OnItsWay(i, s)' => OnItsWay(i, s)
  BY DEF OnItsWay, Leave, pipeVars
<1>3. Names' /\ OwnAnswer'
  BY <1>1 DEF Names, OwnAnswer
<1>4. MessagesOfCalls'
  BY <1>1, <1>2 DEF MessagesOfCalls
<1>5. LateMessages'
  <2> SUFFICES ASSUME IdsApart, NEW i \in FixedIds, NEW s \in 1 .. serials,
                      OnItsWay(i, s), s \notin abandoned',
                      \A u \in Threads : ~(call'[u].at = "wait" /\ call'[u].serial = s)
               PROVE  FALSE
    BY <1>1, <1>2 DEF LateMessages
  <2>1. call[t].serial = s
    BY <1>1 DEF LateMessages
  <2>2. i \in Nat /\ i \notin 1 .. lastId
    BY RangesAreApart
  <2>3. i = call[t].id /\ call[t].box # s
    BY <1>1, <2>1, <2>2 DEF MessagesOfCalls
  <2>4. call[t].kind \in Fixed
    BY <1>1, <2>2, <2>3 DEF Names
  <2> QED
    BY <2>1, <2>3, <2>4 DEF Leave
<1>6. SharedIds'
  BY <1>1, <1>2 DEF SharedIds
<1>7. Registered' /\ TableMatchesCalls'
  BY <1>1 DEF Registered, TableMatchesCalls
<1> QED
  BY <1>3, <1>4, <1>5, <1>6, <1>7

LEMMA PopKeepsCalls ==
  ASSUME TransportInv, NEW t \in Threads, Pop(t)
  PROVE  CallInv'
<1> USE DEF TransportInv, CallInv, CallType, IdsApart, Running, End, NoCall, None
<1>1. /\ UNCHANGED <<lastId, serials, abandoned, doubled, failed>>
      /\ call[t].at = "pop" /\ call \in CallType(serials)
      /\ \A u \in Threads : u # t => call'[u] = call[u]
      /\ call'[t].at \in {"idle", "gone"} /\ call'[t].serial = 0 /\ call'[t].box = 0
      /\ DOMAIN pending' = DOMAIN pending \ {call[t].id}
      /\ \A i \in DOMAIN pending' : pending'[i] = pending[i]
  BY DEF Pop, Popped, Without, TypeInv, TypeOK, callHistory
<1>2. \A i, s : OnItsWay(i, s)' => OnItsWay(i, s)
  BY DEF OnItsWay, Pop, pipeVars
<1>3. Names' /\ OwnAnswer'
  BY <1>1 DEF Names, OwnAnswer
<1>4. MessagesOfCalls' /\ LateMessages'
  BY <1>1, <1>2 DEF MessagesOfCalls, LateMessages
<1>5. SharedIds'
  BY <1>1, <1>2 DEF SharedIds
<1>6. Registered'
  BY <1>1 DEF Registered, SharedIds
<1>7. TableMatchesCalls'
  BY <1>1, <1>6 DEF TableMatchesCalls, Registered, Names
<1> QED
  BY <1>3, <1>4, <1>5, <1>6, <1>7

\* A message that is read goes to the call that is registered under its id.
LEMMA HandleKeepsCalls ==
  ASSUME TransportInv, NEW r \in Readers, Handle(r)
  PROVE  CallInv'
<1> USE DEF TransportInv, CallInv, CallType, IdsApart, Running, None
<1> DEFINE m == reader[r].message
<1>1. /\ UNCHANGED <<lastId, pending, serials, abandoned, doubled, failed>>
      /\ call \in CallType(serials) /\ m.id \in Nat /\ m.serial \in 1 .. serials
      /\ reader[r].at = "handle" /\ OnItsWay(m.id, m.serial)
  BY TransportAssumption
     DEF Handle, TypeInv, TypeOK, ReaderType, callHistory, OnItsWay
<1>2. \A i, s : OnItsWay(i, s)' => OnItsWay(i, s) /\ s # m.serial
  BY DEF OnItsWay, Handle, AfterMessage, pipeVars, SingleCopy, TypeInv, ReaderType
<1>3. \A t \in Threads :
        \/ call'[t] = call[t]
        \/ /\ m.id \in DOMAIN pending /\ call[t].serial = pending[m.id]
           /\ call[t].at \in {"send", "wait"} /\ call[t].box = None
           /\ call'[t].at = call[t].at /\ call'[t].kind = call[t].kind
           /\ call'[t].id = call[t].id /\ call'[t].serial = call[t].serial
           /\ call'[t].box = m.serial
  BY <1>1 DEF Handle, Put
<1> HIDE DEF m
<1>4. \A t \in Threads :
        /\ call'[t].at = call[t].at /\ call'[t].kind = call[t].kind
        /\ call'[t].id = call[t].id /\ call'[t].serial = call[t].serial
        /\ \/ call'[t].box = call[t].box
           \/ /\ call'[t].box = m.serial /\ call[t].at \in {"send", "wait"}
              /\ call[t].id = m.id
  BY <1>1, <1>3 DEF Names
<1>5. Names'
  BY <1>1, <1>4 DEF Names
<1>6. MessagesOfCalls'
  BY <1>1, <1>2, <1>4 DEF MessagesOfCalls
<1>7. LateMessages' /\ SharedIds'
  BY <1>1, <1>2, <1>4 DEF LateMessages, SharedIds
<1>8. Registered' /\ TableMatchesCalls'
  BY <1>1, <1>4 DEF Registered, TableMatchesCalls
<1>9. OwnAnswer'
  BY <1>1, <1>4 DEF OwnAnswer, SharedIds, Unavailable
<1> QED
  BY <1>5, <1>6, <1>7, <1>8, <1>9

LEMMA TearDownKeepsCalls ==
  ASSUME TransportInv, TearDown
  PROVE  CallInv'
<1> USE DEF TransportInv, CallInv, CallType, IdsApart, Running, None, Unavailable
<1>1. /\ UNCHANGED <<lastId, serials, abandoned, doubled>>
      /\ call \in CallType(serials) /\ DOMAIN pending' = {}
  BY DEF TearDown, TypeInv, TypeOK
<1>2. \A i, s : OnItsWay(i, s)' => OnItsWay(i, s)
  BY DEF OnItsWay, TearDown, pipeVars
<1>3. \A t \in Threads :
        /\ call'[t].at = call[t].at /\ call'[t].kind = call[t].kind
        /\ call'[t].id = call[t].id /\ call'[t].serial = call[t].serial
        /\ \/ call'[t].box = call[t].box
           \/ call'[t].box = -1 /\ call[t].at \in {"send", "wait"}
  BY <1>1 DEF TearDown, Put
<1>4. \A t \in Threads :
        call[t].at \in {"send", "wait"} /\ call[t].box = None
          /\ (\E i \in DOMAIN pending : call[t].serial = pending[i])
        => call'[t].box = -1
  BY <1>1 DEF TearDown, Put
<1>5. Names' /\ OwnAnswer'
  BY <1>1, <1>3 DEF Names, OwnAnswer
<1>6. \A t \in Threads : call[t].serial \in Nat
  BY TransportAssumption DEF TypeInv, TypeOK
<1>7. MessagesOfCalls'
  BY <1>1, <1>2, <1>3, <1>6 DEF MessagesOfCalls
<1>8. LateMessages' /\ SharedIds'
  BY <1>1, <1>2, <1>3 DEF LateMessages, SharedIds
<1>9. Registered' /\ TableMatchesCalls'
  BY <1>1, <1>3, <1>4 DEF Registered, TableMatchesCalls
<1> QED
  BY <1>5, <1>7, <1>8, <1>9

\* A new call: its serial number is new, and so is its id unless it is fixed.
LEMMA RegisterKeepsCalls ==
  ASSUME TransportInv, NEW t \in Threads, NEW kind \in Fixed \cup {"session"},
         kind = "session" => t[1] \in Workers, Register(t, kind),
         process' = process
  PROVE  CallInv'
<1> USE DEF TransportInv, CallInv, CallType, IdsApart, Running, None
<1> DEFINE i == IF kind \in Fixed THEN FixedId(t[1]) ELSE lastId'
<1>1. /\ t[1] \in 0 .. NWorkers /\ FixedId(t[1]) \in Nat /\ call \in CallType(serials)
      /\ serials \in Nat /\ lastId \in 0 .. serials
  BY TransportAssumption DEF Threads, FixedId, TypeInv, TypeOK
<1>2. /\ UNCHANGED <<abandoned, failed>> /\ doubled \subseteq doubled'
      /\ call[t].at = "idle" /\ serials' = serials + 1
      /\ lastId' = (IF kind \in Fixed THEN lastId ELSE lastId + 1)
      /\ call'[t] = [at |-> "send", kind |-> kind, id |-> i, serial |-> serials',
                     box |-> None]
      /\ \A u \in Threads : u # t => call'[u] = call[u]
      /\ DOMAIN pending' = DOMAIN pending \cup {i}
      /\ pending'[i] = serials'
      /\ \A j \in DOMAIN pending : j # i => pending'[j] = pending[j]
      /\ (\E u \in Threads : Running(u) /\ call[u].id = i) => i \in doubled'
  BY <1>1 DEF Register, NextId
<1>3. \A j, s : OnItsWay(j, s)' <=> OnItsWay(j, s)
  BY DEF OnItsWay, Register, pipeVars
<1>4. /\ i \in Nat
      /\ kind \in Fixed => i \in FixedIds /\ i = FixedId(t[1])
      /\ kind \notin Fixed => i = lastId + 1 /\ kind = "session"
  BY <1>1, <1>2 DEF FixedIds
<1> HIDE DEF i
<1>5. \A u \in Threads : Running(u) => u # t /\ call[u].serial \in 1 .. serials
  BY <1>1, <1>2 DEF Names
<1>6. /\ \A j, s : OnItsWay(j, s) => j \in Nat /\ s \in 1 .. serials
      /\ \A j \in DOMAIN pending : pending[j] \in 1 .. serials
  BY DEF OnItsWay, TypeInv, TypeOK, ReaderType
<1>0. IdsApart' => IdsApart
  BY <1>1, <1>2, TransportAssumption
<1>7. Names'
  <2>1. serials + 1 \notin 1 .. serials
    BY <1>1
  <2>2. 1 .. lastId \subseteq 1 .. lastId'
    BY <1>1, <1>2
  <2>3. \A u \in Threads : u # t => call'[u] = call[u]
    BY <1>2
  <2>4. kind \notin Fixed => i \in 1 .. lastId'
    BY <1>1, <1>2, <1>4
  <2>5. serials' \notin 1 .. serials /\ serials' # 0
    BY <1>1, <1>2
  <2>6. /\ call'[t].at = "send" /\ call'[t].kind = kind /\ call'[t].id = i
        /\ call'[t].serial = serials' /\ call'[t].box = None
    BY <1>2
  <2>7. \A u \in Threads :
          Running(u)' => /\ call'[u].serial # 0
                         /\ \/ call'[u].kind \in Fixed /\ call'[u].id = FixedId(u[1])
                            \/ call'[u].kind = "session" /\ call'[u].id \in 1 .. lastId'
    BY <1>4, <2>2, <2>3, <2>4, <2>5, <2>6 DEF Names
  <2>8. \A u \in Threads : ~Running(u)' => call'[u].serial = 0 /\ call'[u].box = None
    BY <2>3, <2>6 DEF Names
  <2>9. \A u, v \in Threads :
          Running(u)' /\ Running(v)' /\ call'[u].serial = call'[v].serial => u = v
    BY <1>5, <2>3, <2>5, <2>6 DEF Names
  <2>10. \A u \in Threads :
           Running(u)' => \A j \in DOMAIN pending' :
                            pending'[j] = call'[u].serial => call'[u].id = j
    BY <1>2, <1>5, <1>6, <2>3, <2>5, <2>6 DEF Names
  <2> QED
    BY <2>7, <2>8, <2>9, <2>10 DEF Names
<1>8. MessagesOfCalls'
  BY <1>1, <1>2, <1>3, <1>4, <1>5, <1>6 DEF MessagesOfCalls
<1>9. LateMessages'
  BY <1>0, <1>2, <1>3, <1>6 DEF LateMessages
\* Who had the id before, if it is fixed, is another thread of the same worker.
<1>10. IdsApart' =>
         /\ \A u \in Threads : Running(u) /\ call[u].id = i =>
              kind \in Fixed /\ call[u].kind \in Fixed /\ i \in doubled'
         /\ \A s : OnItsWay(i, s) => kind \in Fixed /\ (s \in abandoned \/ i \in doubled')
  <2> SUFFICES ASSUME IdsApart'
               PROVE  /\ \A u \in Threads : Running(u) /\ call[u].id = i =>
                           kind \in Fixed /\ call[u].kind \in Fixed /\ i \in doubled'
                      /\ \A s : OnItsWay(i, s) =>
                           kind \in Fixed /\ (s \in abandoned \/ i \in doubled')
    OBVIOUS
  <2>1. \A j \in FixedIds : j \in Nat /\ j \notin 1 .. lastId
                            /\ (kind \notin Fixed => j # lastId + 1)
    BY <1>1, <1>2, TransportAssumption DEF FixedIds, FixedId
  <2>2. \A u \in Threads : Running(u) =>
          \/ call[u].kind \in Fixed /\ call[u].id \in FixedIds
          \/ call[u].id \in 1 .. lastId
    BY DEF Names, Threads, FixedIds
  <2>3. lastId + 1 \notin 1 .. lastId
    BY <1>1
  <2>4. ASSUME NEW u \in Threads, Running(u), call[u].id = i
        PROVE  kind \in Fixed /\ call[u].kind \in Fixed /\ i \in doubled'
    BY <1>2, <1>4, <2>1, <2>2, <2>3, <2>4
  <2>5. ASSUME NEW s, OnItsWay(i, s)
        PROVE  kind \in Fixed /\ (s \in abandoned \/ i \in doubled')
    <3>1. i \in FixedIds \cup 1 .. lastId
      BY <1>4, <1>6, <2>5 DEF MessagesOfCalls
    <3>2. i \in FixedIds /\ kind \in Fixed
      BY <1>4, <2>1, <2>3, <3>1
    <3>3. CASE \E u \in Threads : call[u].at = "wait" /\ call[u].serial = s
      <4>1. PICK u \in Threads : call[u].at = "wait" /\ call[u].serial = s
        BY <3>3
      <4>2. i = call[u].id
        BY <1>4, <1>6, <2>5, <4>1 DEF MessagesOfCalls
      <4> QED
        BY <2>4, <3>2, <4>1, <4>2
    <3> QED
      BY <1>0, <1>6, <2>5, <3>2, <3>3 DEF LateMessages
  <2> QED
    BY <2>4, <2>5
<1>11. SharedIds'
  BY <1>0, <1>2, <1>3, <1>5, <1>6, <1>10 DEF SharedIds
<1>12. Registered'
  BY <1>0, <1>2, <1>5, <1>10 DEF Registered
<1>13. OwnAnswer'
  BY <1>0, <1>1, <1>2 DEF OwnAnswer
<1>14. TableMatchesCalls'
  BY <1>2, <1>12 DEF TableMatchesCalls, Registered
<1> QED
  BY <1>7, <1>8, <1>9, <1>11, <1>12, <1>13, <1>14

-----------------------------------------------------------------------------
(* The theorems                                                            *)

LEMMA TransportInductive ==
  ASSUME TransportInv, [Next]_vars
  PROVE  TransportInv'
<1>1. TypeInv'
  BY StepKeepsType DEF TransportInv, CallInv
<1>2. SingleCopy'
  BY CopiesStaySingle
<1>3. CallInv'
  <2>1. CASE UNCHANGED vars
    BY <2>1, OthersKeepCalls
       DEF TransportInv, vars, OnItsWay, pipeVars
  <2>2. CASE OtherStep
    BY <2>2, OthersMakeNoMessage, OthersKeepCalls DEF TransportInv
  <2>3. ASSUME NEW t \in Threads, Begin(t)
        PROVE  CallInv'
    BY <2>3, RegisterKeepsCalls DEF Begin, Register, serverVars, Fixed
  <2>4. CASE Initialize
    <3>1. <<0, process>> \in Threads
      BY TransportAssumption DEF TransportInv, TypeInv, TypeOK, Threads
    <3> QED
      BY <2>4, <3>1, RegisterKeepsCalls DEF Initialize, Register, serverVars, Fixed
  <2> QED
    BY <2>1, <2>2, <2>3, <2>4, SendKeepsCalls, LeaveKeepsCalls, PopKeepsCalls,
       HandleKeepsCalls, TearDownKeepsCalls DEF Next, Reader, Rebuild, OtherStep
<1> QED
  BY <1>1, <1>2, <1>3 DEF TransportInv

LEMMA TransportInvariant == Spec => []TransportInv
<1>1. TransportInv /\ [Next]_vars => TransportInv'
  BY TransportInductive
<1> QED
  BY <1>1, InitInv, PTL DEF Spec

\* Every variable of the transport keeps its type.
THEOREM TransportTypeCorrect == Spec => []TypeOK
<1>1. TransportInv => TypeOK
  BY DEF TransportInv, TypeInv
<1> QED
  BY <1>1, TransportInvariant, PTL

\* A call gets the response to its own request as long as the ranges of ids are
\* apart, apart from calls with a fixed id whose id was in use twice or that
\* follow an abandoned call (client.py: _handle_message, worker.py: the ids).
THEOREM CallsGetTheirAnswers == Spec => []OwnAnswer
<1>1. TransportInv => OwnAnswer
  BY DEF TransportInv, CallInv
<1> QED
  BY <1>1, TransportInvariant, PTL

\* The table of pending requests and the calls agree, but for the entries that
\* a failed send leaves behind.
THEOREM PendingMatchesCalls == Spec => []TableMatchesCalls
<1>1. TransportInv => TableMatchesCalls
  BY DEF TransportInv, CallInv
<1> QED
  BY <1>1, TransportInvariant, PTL
=============================================================================
