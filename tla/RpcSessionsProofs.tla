------------------------- MODULE RpcSessionsProofs -------------------------
(***************************************************************************)
(* Theorems about RpcSessions, for every number of workers, calls and      *)
(* lost sessions.                                                          *)
(***************************************************************************)
EXTENDS RpcSessions, TLAPS

\* How many connections the current call of w may still be granted.
Left(w) ==
  CASE pc[w] = "ensure" -> 2
    [] pc[w] \in Opening -> IF pc[w] = "opened" /\ answer[w] # "none" THEN 1 ELSE 2
    [] pc[w] \in {"once", "build", "send", "wait"} -> IF attempt[w] = 1 THEN 1 ELSE 0
    [] pc[w] \in {"refused"} \cup Reopening ->
         IF pc[w] = "reopened" /\ answer[w] # "none" THEN 0 ELSE 1
    [] OTHER -> 0

\* The server has not given more sessions than the calls so far allow.
Granted == \A w \in Workers : last[w] + Left(w) <= 2 * calls[w]

\* Only the messages of a call's last steps belong to its second attempt.
SecondAttempt ==
  \A w \in Workers : attempt[w] = 2 =>
                       pc[w] \in {"idle", "once", "build", "send", "wait"}

\* The client knows no id that the server has not given, and after a refusal
\* it connects to a later session than the refused one.
Later ==
  \A w \in Workers :
    /\ sid[w] <= last[w] /\ sent[w] <= last[w] /\ refused[w] <= last[w]
    /\ pc[w] = "reopening" => answer[w] # "ok"
    /\ pc[w] = "reopened" /\ answer[w] = "ok" => refused[w] < last[w]
    /\ pc[w] = "mark" \/ (attempt[w] = 2 /\ pc[w] \in {"once", "build"})
         => sid[w] = 0 \/ refused[w] < sid[w]
    /\ attempt[w] = 2 /\ pc[w] \in {"send", "wait"}
         => sent[w] = 0 \/ refused[w] < sent[w]

IInv == TypeOK /\ Granted /\ SecondAttempt /\ Later

\* What is left of a call never exceeds the limit of its type.
LEMMA LastInRange ==
  ASSUME TypeOK, Granted, NEW w \in Workers, Left(w) >= 1
  PROVE  last[w] + 1 \in Ids
<1>1. last[w] \in Nat /\ calls[w] \in 0..MaxCalls /\ Left(w) \in Nat
  BY CallsAssumption DEF TypeOK, ServerType, Ids, Left
<1>2. last[w] + Left(w) <= 2 * calls[w]
  BY DEF Granted
<1> QED
  BY <1>1, <1>2, CallsAssumption DEF Ids

THEOREM IInvInit == Init => IInv
<1> SUFFICES ASSUME Init PROVE IInv
  OBVIOUS
<1> USE CallsAssumption, WorkersAssumption, LossesAssumption DEF Init, All
<1>1. TypeOK
  BY DEF TypeOK, SessionType, CallType, ThreadType, ServerType, Ids, Places,
         Answers, Workers
<1>2. Granted
  BY DEF Granted, Left, Opening, Reopening
<1>3. SecondAttempt /\ Later
  BY DEF SecondAttempt, Later
<1> QED
  BY <1>1, <1>2, <1>3 DEF IInv

\* The steps of one worker, and of the server for it.
LEMMA WorkerStep ==
  ASSUME IInv, NEW w \in Workers, Call(w) \/ Worker(w) \/ AcceptConnect(w)
         \/ Execute(w) \/ Refuse(w) \/ LeanWorkerEnds(w) \/ Expire(w)
  PROVE  IInv'
<1> USE CallsAssumption, LossesAssumption
        DEF sessionVars, callVars, wireVars, keeperVars, teardownVars,
            serverVars, countVars, Goto, End, Forget, Register, Reply,
            Reachable, Opening, Reopening, Waiting, SessionType, CallType,
            ThreadType, ServerType
<1>a. TypeOK /\ Granted /\ SecondAttempt /\ Later
  BY DEF IInv
<1>b. /\ \A u \in Workers : /\ sid[u] \in Nat /\ sent[u] \in Nat /\ refused[u] \in Nat
                            /\ last[u] \in Nat /\ calls[u] \in Nat
      /\ attempt \in [Workers -> {1, 2}]
  BY <1>a DEF TypeOK, Ids
<1>1. CASE Call(w)
  <2>1. TypeOK'
    BY <1>1, <1>a DEF Call, TypeOK, Places, Answers
  <2>2. Granted'
    BY <1>1, <1>a, <1>b DEF Call, Granted, Left, TypeOK
  <2>3. SecondAttempt' /\ Later'
    BY <1>1, <1>a, <1>b DEF Call, SecondAttempt, Later, TypeOK
  <2> QED
    BY <2>1, <2>2, <2>3 DEF IInv
<1>2. CASE EnsureConnected(w)
  <2>1. TypeOK'
    BY <1>2, <1>a DEF EnsureConnected, TypeOK, Places, Answers
  <2>2. Granted'
    BY <1>2, <1>a, <1>b DEF EnsureConnected, Granted, Left, TypeOK
  <2>3. SecondAttempt' /\ Later'
    BY <1>2, <1>a, <1>b DEF EnsureConnected, SecondAttempt, Later, TypeOK
  <2> QED
    BY <2>1, <2>2, <2>3 DEF IInv
<1>3. CASE Write(w, "opening", "opened")
  <2>0. /\ pc[w] = "opening"
        /\ pc' = [pc EXCEPT ![w] = "opened"] \/ pc' = [pc EXCEPT ![w] = "idle"]
        /\ UNCHANGED <<sid, attempt, sent, refused, answer, last, calls>>
    BY <1>3 DEF Write
  <2>1. TypeOK'
    BY <1>3, <1>a DEF Write, TypeOK, Places, Answers
  <2>2. pc \in [Workers -> Places] /\ \A u \in Workers : u # w => pc'[u] = pc[u]
    BY <1>a, <2>0 DEF TypeOK
  <2>3. pc'[w] = "opened" \/ pc'[w] = "idle"
    BY <2>0, <2>2
  <2>4. ASSUME NEW u \in Workers PROVE Left(u)' <= Left(u)
    <3>1. CASE u = w
      BY <2>0, <2>3, <3>1 DEF Left
    <3>2. CASE u # w
      BY <2>0, <2>2, <3>2 DEF Left
    <3> QED
      BY <3>1, <3>2
  <2>5. \A u \in Workers : Left(u) \in Nat /\ Left(u)' \in Nat
    BY DEF Left
  <2>6. Granted'
    BY <1>a, <1>b, <2>0, <2>4, <2>5 DEF Granted
  <2>7. SecondAttempt'
    BY <1>a, <2>0, <2>2, <2>3 DEF SecondAttempt
  <2>8. Later'
    <3>1. CASE pc'[w] = "idle"
      BY <1>a, <1>b, <2>0, <2>2, <3>1 DEF Later
    <3>2. CASE pc'[w] = "opened"
      BY <1>a, <1>b, <2>0, <2>2, <3>2 DEF Later
    <3> QED
      BY <2>3, <3>1, <3>2
  <2> QED
    BY <2>1, <2>6, <2>7, <2>8 DEF IInv
<1>4. CASE Connected(w)
  <2>1. TypeOK'
    BY <1>4, <1>a DEF Connected, TypeOK, Places, Answers
  <2>2. Granted'
    BY <1>4, <1>a, <1>b DEF Connected, Granted, Left, TypeOK
  <2>3. SecondAttempt' /\ Later'
    BY <1>4, <1>a, <1>b DEF Connected, SecondAttempt, Later, TypeOK
  <2> QED
    BY <2>1, <2>2, <2>3 DEF IInv
<1>5. CASE ConnectFails(w)
  <2>1. TypeOK'
    BY <1>5, <1>a DEF ConnectFails, TypeOK, Places, Answers
  <2>2. Granted'
    BY <1>5, <1>a, <1>b DEF ConnectFails, Granted, Left, TypeOK
  <2>3. SecondAttempt' /\ Later'
    BY <1>5, <1>a, <1>b DEF ConnectFails, SecondAttempt, Later, TypeOK
  <2> QED
    BY <2>1, <2>2, <2>3 DEF IInv
<1>6. CASE SessionUnset(w)
  <2>1. TypeOK'
    BY <1>6, <1>a DEF SessionUnset, TypeOK, Places, Answers
  <2>2. Granted'
    BY <1>6, <1>a, <1>b DEF SessionUnset, Granted, Left, TypeOK
  <2>3. SecondAttempt' /\ Later'
    BY <1>6, <1>a, <1>b DEF SessionUnset, SecondAttempt, Later, TypeOK
  <2> QED
    BY <2>1, <2>2, <2>3 DEF IInv
<1>7. CASE CallOnce(w)
  <2>1. TypeOK'
    BY <1>7, <1>a DEF CallOnce, TypeOK, Places, Answers
  <2>2. Granted'
    BY <1>7, <1>a, <1>b DEF CallOnce, Granted, Left, TypeOK
  <2>3. SecondAttempt' /\ Later'
    BY <1>7, <1>a, <1>b DEF CallOnce, SecondAttempt, Later, TypeOK
  <2> QED
    BY <2>1, <2>2, <2>3 DEF IInv
<1>8. CASE Build(w)
  <2>1. TypeOK'
    BY <1>8, <1>a DEF Build, TypeOK, Places, Answers
  <2>2. Granted'
    BY <1>8, <1>a, <1>b DEF Build, Granted, Left, TypeOK
  <2>3. SecondAttempt' /\ Later'
    BY <1>8, <1>a, <1>b DEF Build, SecondAttempt, Later, TypeOK
  <2> QED
    BY <2>1, <2>2, <2>3 DEF IInv
<1>9. CASE Write(w, "send", "wait")
  <2>0. /\ pc[w] = "send"
        /\ pc' = [pc EXCEPT ![w] = "wait"] \/ pc' = [pc EXCEPT ![w] = "idle"]
        /\ UNCHANGED <<sid, attempt, sent, refused, answer, last, calls>>
    BY <1>9 DEF Write
  <2>1. TypeOK'
    BY <1>9, <1>a DEF Write, TypeOK, Places, Answers
  <2>2. pc \in [Workers -> Places] /\ \A u \in Workers : u # w => pc'[u] = pc[u]
    BY <1>a, <2>0 DEF TypeOK
  <2>3. pc'[w] = "wait" \/ pc'[w] = "idle"
    BY <2>0, <2>2
  <2>4. ASSUME NEW u \in Workers PROVE Left(u)' <= Left(u)
    <3>1. CASE u = w
      BY <2>0, <2>3, <3>1 DEF Left
    <3>2. CASE u # w
      BY <2>0, <2>2, <3>2 DEF Left
    <3> QED
      BY <3>1, <3>2
  <2>5. \A u \in Workers : Left(u) \in Nat /\ Left(u)' \in Nat
    BY DEF Left
  <2>6. Granted'
    BY <1>a, <1>b, <2>0, <2>4, <2>5 DEF Granted
  <2>7. SecondAttempt'
    BY <1>a, <2>0, <2>2, <2>3 DEF SecondAttempt
  <2>8. Later'
    <3>1. CASE pc'[w] = "idle"
      BY <1>a, <1>b, <2>0, <2>2, <3>1 DEF Later
    <3>2. CASE pc'[w] = "wait"
      BY <1>a, <1>b, <2>0, <2>2, <3>2 DEF Later
    <3> QED
      BY <2>3, <3>1, <3>2
  <2> QED
    BY <2>1, <2>6, <2>7, <2>8 DEF IInv
<1>10. CASE Return(w)
  <2>1. TypeOK'
    BY <1>10, <1>a DEF Return, TypeOK, Places, Answers
  <2>2. Granted'
    BY <1>10, <1>a, <1>b DEF Return, Granted, Left, TypeOK
  <2>3. SecondAttempt' /\ Later'
    BY <1>10, <1>a, <1>b DEF Return, SecondAttempt, Later, TypeOK
  <2> QED
    BY <2>1, <2>2, <2>3 DEF IInv
<1>11. CASE Refused(w)
  <2>1. TypeOK'
    BY <1>11, <1>a DEF Refused, Recoverable, TypeOK, Places, Answers
  <2>2. Granted'
    BY <1>11, <1>a, <1>b DEF Refused, Recoverable, Granted, Left, TypeOK
  <2>3. SecondAttempt' /\ Later'
    BY <1>11, <1>a, <1>b DEF Refused, Recoverable, SecondAttempt, Later,
       TypeOK
  <2> QED
    BY <2>1, <2>2, <2>3 DEF IInv
<1>12. CASE GiveUp(w)
  <2>1. TypeOK'
    BY <1>12, <1>a DEF GiveUp, TypeOK, Places, Answers
  <2>2. Granted'
    BY <1>12, <1>a, <1>b DEF GiveUp, Granted, Left, TypeOK
  <2>3. SecondAttempt' /\ Later'
    BY <1>12, <1>a, <1>b DEF GiveUp, SecondAttempt, Later, TypeOK
  <2> QED
    BY <2>1, <2>2, <2>3 DEF IInv
<1>13. CASE Reconnect(w)
  <2>1. TypeOK'
    BY <1>13, <1>a DEF Reconnect, TypeOK, Places, Answers
  <2>2. Granted'
    BY <1>13, <1>a, <1>b DEF Reconnect, Granted, Left, TypeOK
  <2>3. SecondAttempt' /\ Later'
    BY <1>13, <1>a, <1>b DEF Reconnect, SecondAttempt, Later, TypeOK
  <2> QED
    BY <2>1, <2>2, <2>3 DEF IInv
<1>14. CASE Write(w, "reopening", "reopened")
  <2>0. /\ pc[w] = "reopening"
        /\ pc' = [pc EXCEPT ![w] = "reopened"] \/ pc' = [pc EXCEPT ![w] = "idle"]
        /\ UNCHANGED <<sid, attempt, sent, refused, answer, last, calls>>
    BY <1>14 DEF Write
  <2>1. TypeOK'
    BY <1>14, <1>a DEF Write, TypeOK, Places, Answers
  <2>2. pc \in [Workers -> Places] /\ \A u \in Workers : u # w => pc'[u] = pc[u]
    BY <1>a, <2>0 DEF TypeOK
  <2>3. pc'[w] = "reopened" \/ pc'[w] = "idle"
    BY <2>0, <2>2
  <2>4. ASSUME NEW u \in Workers PROVE Left(u)' <= Left(u)
    <3>1. CASE u = w
      BY <2>0, <2>3, <3>1 DEF Left
    <3>2. CASE u # w
      BY <2>0, <2>2, <3>2 DEF Left
    <3> QED
      BY <3>1, <3>2
  <2>5. \A u \in Workers : Left(u) \in Nat /\ Left(u)' \in Nat
    BY DEF Left
  <2>6. Granted'
    BY <1>a, <1>b, <2>0, <2>4, <2>5 DEF Granted
  <2>7. SecondAttempt'
    BY <1>a, <2>0, <2>2, <2>3 DEF SecondAttempt
  <2>8. Later'
    <3>1. CASE pc'[w] = "idle"
      BY <1>a, <1>b, <2>0, <2>2, <3>1 DEF Later
    <3>2. CASE pc'[w] = "reopened"
      BY <1>a, <1>b, <2>0, <2>2, <3>2 DEF Later
    <3> QED
      BY <2>3, <3>1, <3>2
  <2> QED
    BY <2>1, <2>6, <2>7, <2>8 DEF IInv
<1>15. CASE Reconnected(w)
  <2>1. TypeOK'
    BY <1>15, <1>a DEF Reconnected, TypeOK, Places, Answers
  <2>2. Granted'
    BY <1>15, <1>a, <1>b DEF Reconnected, Granted, Left, TypeOK
  <2>3. SecondAttempt' /\ Later'
    BY <1>15, <1>a, <1>b DEF Reconnected, SecondAttempt, Later, TypeOK
  <2> QED
    BY <2>1, <2>2, <2>3 DEF IInv
<1>16. CASE MarkConnected(w)
  <2>1. TypeOK'
    BY <1>16, <1>a DEF MarkConnected, TypeOK, Places, Answers
  <2>2. Granted'
    BY <1>16, <1>a, <1>b DEF MarkConnected, Granted, Left, TypeOK
  <2>3. SecondAttempt' /\ Later'
    BY <1>16, <1>a, <1>b DEF MarkConnected, SecondAttempt, Later, TypeOK
  <2> QED
    BY <2>1, <2>2, <2>3 DEF IInv
<1>17. CASE Timeout(w)
  <2>1. TypeOK'
    BY <1>17, <1>a DEF Timeout, TypeOK, Places, Answers
  <2>2. Granted'
    BY <1>17, <1>a, <1>b DEF Timeout, Granted, Left, TypeOK
  <2>3. SecondAttempt' /\ Later'
    BY <1>17, <1>a, <1>b DEF Timeout, SecondAttempt, Later, TypeOK
  <2> QED
    BY <2>1, <2>2, <2>3 DEF IInv
<1>18. CASE AcceptConnect(w)
  <2>0. last[w] + 1 \in Ids
    <3>1. Left(w) >= 1
      BY <1>18 DEF AcceptConnect, Left
    <3> QED
      BY <1>a, <3>1, LastInRange
  <2>1. TypeOK'
    BY <1>18, <1>a, <2>0 DEF AcceptConnect, TypeOK, Places, Answers
  <2>2. Granted'
    BY <1>18, <1>a, <1>b DEF AcceptConnect, Granted, Left, TypeOK
  <2>3. SecondAttempt' /\ Later'
    BY <1>18, <1>a, <1>b DEF AcceptConnect, SecondAttempt, Later, TypeOK
  <2> QED
    BY <2>1, <2>2, <2>3 DEF IInv
<1>19. CASE Execute(w)
  <2>1. TypeOK'
    BY <1>19, <1>a DEF Execute, TypeOK, Places, Answers
  <2>2. Granted'
    BY <1>19, <1>a, <1>b DEF Execute, Granted, Left, TypeOK
  <2>3. SecondAttempt' /\ Later'
    BY <1>19, <1>a, <1>b DEF Execute, SecondAttempt, Later, TypeOK
  <2> QED
    BY <2>1, <2>2, <2>3 DEF IInv
<1>20. CASE Refuse(w)
  <2>1. TypeOK'
    BY <1>20, <1>a DEF Refuse, TypeOK, Places, Answers
  <2>2. Granted'
    BY <1>20, <1>a, <1>b DEF Refuse, Granted, Left, TypeOK
  <2>3. SecondAttempt' /\ Later'
    BY <1>20, <1>a, <1>b DEF Refuse, SecondAttempt, Later, TypeOK
  <2> QED
    BY <2>1, <2>2, <2>3 DEF IInv
<1>21. CASE LeanWorkerEnds(w)
  <2>1. TypeOK'
    BY <1>21, <1>a DEF LeanWorkerEnds, TypeOK, Places, Answers
  <2>2. Granted'
    BY <1>21, <1>a, <1>b DEF LeanWorkerEnds, Granted, Left, TypeOK
  <2>3. SecondAttempt' /\ Later'
    BY <1>21, <1>a, <1>b DEF LeanWorkerEnds, SecondAttempt, Later, TypeOK
  <2> QED
    BY <2>1, <2>2, <2>3 DEF IInv
<1>22. CASE Expire(w)
  <2>1. TypeOK'
    BY <1>22, <1>a DEF Expire, TypeOK, Places, Answers
  <2>2. Granted'
    BY <1>22, <1>a, <1>b DEF Expire, Granted, Left, TypeOK
  <2>3. SecondAttempt' /\ Later'
    BY <1>22, <1>a, <1>b DEF Expire, SecondAttempt, Later, TypeOK
  <2> QED
    BY <2>1, <2>2, <2>3 DEF IInv
<1> QED
  BY <1>1, <1>2, <1>3, <1>4, <1>5, <1>6, <1>7, <1>8, <1>9, <1>10, <1>11,
     <1>12, <1>13, <1>14, <1>15, <1>16, <1>17, <1>18, <1>19, <1>20, <1>21,
     <1>22 DEF Worker

\* The other threads may only invalidate sessions and wake requests.
LEMMA OtherStep ==
  ASSUME IInv, Keeper \/ BeginTeardown \/ Teardown \/ Crash \/ UNCHANGED vars
  PROVE  IInv'
<1> USE CallsAssumption, WorkersAssumption, LossesAssumption
        DEF sessionVars, callVars, wireVars, keeperVars, teardownVars,
            serverVars, countVars, Forget, Opening, Reopening, SessionType,
            CallType, ThreadType, ServerType
<1>a. TypeOK /\ Granted /\ SecondAttempt /\ Later
  BY DEF IInv
<1>b. \A u \in Workers : sid[u] \in Nat /\ last[u] \in Nat /\ calls[u] \in Nat
                           /\ refused[u] \in Nat
  BY <1>a DEF TypeOK, Ids
<1>1. TypeOK'
  <2>1. CASE Snapshot
    BY <1>a, <2>1 DEF Snapshot, TypeOK
  <2>2. CASE Sleep
    BY <1>a, <2>2 DEF Sleep, TypeOK
  <2>3. CASE \E w \in Workers : Check(w)
    BY <1>a, <2>3 DEF Check, TypeOK
  <2>4. CASE Keep
    BY <1>a, <2>4 DEF Keep, TypeOK
  <2>5. CASE KeepFails
    BY <1>a, <2>5 DEF KeepFails, TypeOK
  <2>6. CASE Drop
    BY <1>a, <2>6 DEF Drop, TypeOK
  <2>7. CASE Unregister
    BY <1>a, <2>7 DEF Unregister, TypeOK
  <2>8. CASE BeginTeardown
    BY <1>a, <2>8 DEF BeginTeardown, TypeOK
  <2>9. CASE Joined
    BY <1>a, <2>9 DEF Joined, TypeOK
  <2>10. CASE InvalidateNext
    BY <1>a, <2>10 DEF InvalidateNext, Workers, TypeOK
  <2>11. CASE FailPending
    BY <1>a, <2>11 DEF FailPending, Answers, TypeOK
  <2>12. CASE Kill
    BY <1>a, <2>12 DEF Kill, TypeOK
  <2>13. CASE NewServer
    BY <1>a, <2>13 DEF NewServer, All, TypeOK
  <2>14. CASE Crash
    BY <1>a, <2>14 DEF Crash, TypeOK
  <2>15. CASE UNCHANGED vars
    BY <1>a, <2>15 DEF vars, TypeOK
  <2> QED
    BY <2>1, <2>2, <2>3, <2>4, <2>5, <2>6, <2>7, <2>8, <2>9, <2>10, <2>11,
       <2>12, <2>13, <2>14, <2>15 DEF Keeper, Teardown
<1>2. /\ UNCHANGED <<pc, attempt, sent, refused, last, calls>>
      /\ \A u \in Workers : sid'[u] = sid[u] \/ sid'[u] = 0
      /\ \A u \in Workers :
           answer'[u] # answer[u] => (answer[u] = "none" /\ answer'[u] = "unavailable")
  <2>1. CASE Snapshot
    BY <1>a, <2>1 DEF Snapshot, TypeOK
  <2>2. CASE Sleep
    BY <1>a, <2>2 DEF Sleep, TypeOK
  <2>3. CASE \E w \in Workers : Check(w)
    BY <1>a, <2>3 DEF Check, TypeOK
  <2>4. CASE Keep
    BY <1>a, <2>4 DEF Keep, TypeOK
  <2>5. CASE KeepFails
    BY <1>a, <2>5 DEF KeepFails, TypeOK
  <2>6. CASE Drop
    BY <1>a, <2>6 DEF Drop, TypeOK
  <2>7. CASE Unregister
    BY <1>a, <2>7 DEF Unregister, TypeOK
  <2>8. CASE BeginTeardown
    BY <1>a, <2>8 DEF BeginTeardown, TypeOK
  <2>9. CASE Joined
    BY <1>a, <2>9 DEF Joined, TypeOK
  <2>10. CASE InvalidateNext
    BY <1>a, <2>10 DEF InvalidateNext, TypeOK
  <2>11. CASE FailPending
    BY <1>a, <2>11 DEF FailPending, TypeOK
  <2>12. CASE Kill
    BY <1>a, <2>12 DEF Kill, TypeOK
  <2>13. CASE NewServer
    BY <1>a, <2>13 DEF NewServer, TypeOK
  <2>14. CASE Crash
    BY <1>a, <2>14 DEF Crash, TypeOK
  <2>15. CASE UNCHANGED vars
    BY <1>a, <2>15 DEF vars, TypeOK
  <2> QED
    BY <2>1, <2>2, <2>3, <2>4, <2>5, <2>6, <2>7, <2>8, <2>9, <2>10, <2>11,
       <2>12, <2>13, <2>14, <2>15 DEF Keeper, Teardown
<1>3. Granted'
  BY <1>a, <1>b, <1>2 DEF Granted, Left
<1>4. SecondAttempt' /\ Later'
  BY <1>a, <1>b, <1>2 DEF SecondAttempt, Later
<1> QED
  BY <1>1, <1>3, <1>4 DEF IInv

THEOREM IInvStep == IInv /\ [Next]_vars => IInv'
  BY WorkerStep, OtherStep DEF Next, Server

THEOREM Invariance == Spec => []IInv
  BY IInvInit, IInvStep, PTL DEF Spec

\* Every variable keeps its type; a call connects at most twice.
THEOREM TypeCorrect == Spec => []TypeOK
<1>1. IInv => TypeOK
  BY DEF IInv
<1> QED
  BY <1>1, Invariance, PTL

\* A retried call never names the session that was refused.
THEOREM RetriesAreNew == Spec => []RetryUsesNewSession
<1>1. IInv => RetryUsesNewSession
  <2> SUFFICES ASSUME IInv, NEW w \in Workers, attempt[w] = 2,
                      pc[w] \in {"send", "wait"}
               PROVE  sent[w] = 0 \/ sent[w] # refused[w]
    BY DEF RetryUsesNewSession
  <2>1. refused[w] \in Nat /\ sent[w] \in Nat
    BY CallsAssumption DEF IInv, TypeOK, CallType, Ids
  <2> QED
    BY <2>1 DEF IInv, Later
<1> QED
  BY <1>1, Invariance, PTL
-----------------------------------------------------------------------------
\* From the moment a request has its entry, the thread that made it finds
\* the entry still there or something in its queue.
WokenInv ==
  \A w \in Workers : pc[w] \in {"opening", "reopening", "build", "send"} \cup Waiting =>
                       w \in pending \/ answer[w] # "none"

LEMMA WokenStep == IInv /\ WokenInv /\ [Next]_vars => WokenInv'
<1> SUFFICES ASSUME IInv, WokenInv, [Next]_vars PROVE WokenInv'
  OBVIOUS
<1> USE DEF sessionVars, callVars, wireVars, keeperVars, teardownVars,
            serverVars, countVars, WokenInv, Waiting
<1>a. pc \in [Workers -> Places] /\ answer \in [Workers -> Answers]
  BY DEF IInv, TypeOK, CallType
<1>1. ASSUME NEW w \in Workers, Call(w) \/ Worker(w) PROVE WokenInv'
  BY <1>1, <1>a DEF Worker, Call, EnsureConnected, Write, Connected,
     ConnectFails, SessionUnset, CallOnce, Build, Return, Refused, GiveUp,
     Reconnect, Reconnected, MarkConnected, Timeout, Goto, End, Register
<1>2. CASE Server
  BY <1>2, <1>a DEF Server, AcceptConnect, Execute, Refuse, LeanWorkerEnds,
     Expire, Crash, Reachable, Reply
<1>3. CASE FailPending
  BY <1>3, <1>a DEF FailPending
<1>4. CASE Keeper
  BY <1>4 DEF Keeper, Snapshot, Sleep, Check, Keep, KeepFails, Drop, Unregister
<1>5. CASE BeginTeardown \/ Joined \/ InvalidateNext \/ Kill \/ NewServer
  BY <1>5 DEF BeginTeardown, Joined, InvalidateNext, Kill, NewServer
<1>6. CASE UNCHANGED vars
  BY <1>6 DEF vars
<1> QED
  BY <1>1, <1>2, <1>3, <1>4, <1>5, <1>6 DEF Next, Teardown

\* The teardown leaves nobody waiting for the old server with an empty queue.
THEOREM TeardownWakes == Spec => []PendingIsWoken
<1>1. Init => WokenInv
  BY DEF Init, All, WokenInv, Waiting
<1>2. WokenInv => PendingIsWoken
  BY DEF WokenInv, PendingIsWoken
<1> QED
  BY <1>1, <1>2, Invariance, WokenStep, PTL DEF Spec
=============================================================================
