------------------------ MODULE TimeoutPolicyProofs ------------------------
(***************************************************************************)
(* Proofs about TimeoutPolicy, for every limit and number of calls.        *)
(***************************************************************************)
EXTENDS TimeoutPolicy, FiniteSetTheorems, TLAPS

\* What memory, journal, result and feedback have to do with each other at
\* each place of the process.
InStep ==
  /\ pc \in {"idle", "calling"} => state = journal /\ journal.consecutive < Limit
  /\ pc = "calling" => Key \in Calls /\ journal.timeouts[Key] = 0
  /\ pc \in {"persist", "replace"} =>
       /\ Key \in Calls /\ journal.timeouts[Key] = 0
       /\ \/ /\ result = "timeout" /\ feedback # 0
             /\ feedback = journal.consecutive + 1
             /\ state.consecutive = feedback
             /\ state.timeouts = [journal.timeouts EXCEPT ![Key] = feedback]
          \/ /\ result = "success" /\ feedback = 0
             /\ state.consecutive = 0
             /\ state.timeouts = journal.timeouts
  /\ pc = "replace" => temporary = state
  /\ pc = "returned" =>
       /\ Key \in Calls
       /\ result = "timeout" <=> journal.timeouts[Key] # 0
  /\ pc \in {"returned", "recorded"} =>
       /\ state = journal
       /\ IF result = "timeout"
            THEN feedback = journal.consecutive
            ELSE feedback = 0 /\ journal.consecutive < Limit
       /\ result = "success" => journal.consecutive = 0

\* The receipt of the call that is made is the streak of the journal.
LastReceipt ==
  \A c \in Calls : c = Key /\ journal.timeouts[c] # 0 =>
                     journal.timeouts[c] = journal.consecutive

IInv == TypeOK /\ InStep /\ LastReceipt /\ ReceiptsMatchTranscript

THEOREM IInvInit == Init => IInv
  BY LimitAssumption, CallsAssumption
  DEF Init, IInv, TypeOK, InStep, LastReceipt, ReceiptsMatchTranscript, Empty,
      Journals, Receipts, Results, Scope, Calls, Key

\* Steps that leave the file and the transcript alone keep what relates them.
LEMMA Untouched ==
  ASSUME LastReceipt, ReceiptsMatchTranscript, UNCHANGED <<journal, transcript>>,
         pc' = "returned" /\ result' = "timeout" => Key \in Receipts(journal)
  PROVE  LastReceipt' /\ ReceiptsMatchTranscript'
BY DEF LastReceipt, ReceiptsMatchTranscript, Receipts, Key

THEOREM IInvStep == IInv /\ [Next]_vars => IInv'
<1> SUFFICES ASSUME IInv, [Next]_vars PROVE IInv'
  OBVIOUS
<1> USE LimitAssumption, CallsAssumption
<1>a. TypeOK /\ InStep /\ LastReceipt /\ ReceiptsMatchTranscript
  BY DEF IInv
<1>1. CASE EnterScope
  <2>1. TypeOK'
    BY <1>1, <1>a DEF EnterScope, InStep, TypeOK, Journals, Results, Scope, Calls, Key
  <2>2. InStep'
    BY <1>1, <1>a DEF EnterScope, InStep, LastReceipt, TypeOK, Journals, Results, Scope, Calls, Key
  <2>3. pc' = "returned" /\ result' = "timeout" => Key \in Receipts(journal)
    BY <1>1, <1>a DEF EnterScope, InStep, Receipts, TypeOK, Journals, Results, Scope, Calls, Key
  <2> QED
    BY <1>1, <1>a, <2>1, <2>2, <2>3, Untouched DEF EnterScope, IInv
<1>2. CASE Replay
  <2>1. TypeOK'
    BY <1>2, <1>a DEF Replay, InStep, TypeOK, Journals, Results, Scope, Calls, Key
  <2>2. InStep'
    BY <1>2, <1>a DEF Replay, InStep, LastReceipt, TypeOK, Journals, Results, Scope, Calls, Key
  <2>3. pc' = "returned" /\ result' = "timeout" => Key \in Receipts(journal)
    BY <1>2, <1>a DEF Replay, InStep, Receipts, TypeOK, Journals, Results, Scope, Calls, Key
  <2> QED
    BY <1>2, <1>a, <2>1, <2>2, <2>3, Untouched DEF Replay, IInv
<1>3. CASE StartCall
  <2>1. TypeOK'
    BY <1>3, <1>a DEF StartCall, InStep, TypeOK, Journals, Results, Scope, Calls, Key
  <2>2. InStep'
    BY <1>3, <1>a DEF StartCall, InStep, LastReceipt, TypeOK, Journals, Results, Scope, Calls, Key
  <2>3. pc' = "returned" /\ result' = "timeout" => Key \in Receipts(journal)
    BY <1>3, <1>a DEF StartCall, InStep, Receipts, TypeOK, Journals, Results, Scope, Calls, Key
  <2> QED
    BY <1>3, <1>a, <2>1, <2>2, <2>3, Untouched DEF StartCall, IInv
<1>4. CASE TimesOut
  <2>1. TypeOK'
    BY <1>4, <1>a DEF TimesOut, InStep, TypeOK, Journals, Results, Scope, Calls, Key
  <2>2. InStep'
    BY <1>4, <1>a DEF TimesOut, InStep, LastReceipt, TypeOK, Journals, Results, Scope, Calls, Key
  <2>3. pc' = "returned" /\ result' = "timeout" => Key \in Receipts(journal)
    BY <1>4, <1>a DEF TimesOut, InStep, Receipts, TypeOK, Journals, Results, Scope, Calls, Key
  <2> QED
    BY <1>4, <1>a, <2>1, <2>2, <2>3, Untouched DEF TimesOut, IInv
<1>5. ASSUME NEW submitted \in BOOLEAN, Returns(submitted) PROVE IInv'
  <2>a. state' \in Journals
    <3>1. CASE state' = [state EXCEPT !.consecutive = 0]
      BY <1>a, <3>1 DEF TypeOK, Journals
    <3>2. CASE state' = state
      BY <1>a, <3>2 DEF TypeOK
    <3> QED
      BY <1>5, <3>1, <3>2 DEF Returns
  <2>1. TypeOK'
    BY <1>5, <1>a, <2>a DEF Returns, TypeOK, Results, Scope
  <2>2. InStep'
    BY <1>5, <1>a DEF Returns, InStep, LastReceipt, TypeOK, Journals, Results, Scope, Calls, Key
  <2>3. pc' = "returned" /\ result' = "timeout" => Key \in Receipts(journal)
    BY <1>5, <1>a DEF Returns, InStep, Receipts, TypeOK, Journals, Results, Scope, Calls, Key
  <2> QED
    BY <1>5, <1>a, <2>1, <2>2, <2>3, Untouched DEF Returns, IInv
<1>6. CASE Fails
  <2>1. TypeOK'
    BY <1>6, <1>a DEF Fails, InStep, TypeOK, Journals, Results, Scope, Calls, Key
  <2>2. InStep'
    BY <1>6, <1>a DEF Fails, InStep, LastReceipt, TypeOK, Journals, Results, Scope, Calls, Key
  <2>3. pc' = "returned" /\ result' = "timeout" => Key \in Receipts(journal)
    BY <1>6, <1>a DEF Fails, InStep, Receipts, TypeOK, Journals, Results, Scope, Calls, Key
  <2> QED
    BY <1>6, <1>a, <2>1, <2>2, <2>3, Untouched DEF Fails, IInv
<1>7. CASE WriteTemporary
  <2>1. TypeOK'
    BY <1>7, <1>a DEF WriteTemporary, InStep, TypeOK, Journals, Results, Scope, Calls, Key
  <2>2. InStep'
    BY <1>7, <1>a DEF WriteTemporary, InStep, LastReceipt, TypeOK, Journals, Results, Scope, Calls, Key
  <2>3. pc' = "returned" /\ result' = "timeout" => Key \in Receipts(journal)
    BY <1>7, <1>a DEF WriteTemporary, InStep, Receipts, TypeOK, Journals, Results, Scope, Calls, Key
  <2> QED
    BY <1>7, <1>a, <2>1, <2>2, <2>3, Untouched DEF WriteTemporary, IInv
<1>8. CASE ReplaceJournal
  <2>1. TypeOK' /\ UNCHANGED Key
    BY <1>8, <1>a DEF ReplaceJournal, TypeOK, Journals, Results, Scope, Calls, Key
  <2>2. InStep'
    BY <1>8, <1>a DEF ReplaceJournal, InStep, TypeOK, Journals, Results, Scope, Calls, Key
  <2>3. Receipts(journal') = IF result = "timeout" THEN Receipts(journal) \cup {Key}
                                                   ELSE Receipts(journal)
    BY <1>8, <1>a DEF ReplaceJournal, InStep, Receipts, TypeOK, Journals, Results, Scope, Calls, Key
  <2>4. LastReceipt'
    BY <1>8, <1>a DEF ReplaceJournal, InStep, LastReceipt, TypeOK, Journals, Results, Scope, Calls, Key
  <2>5. ReceiptsMatchTranscript'
    BY <1>8, <1>a, <2>3 DEF ReplaceJournal, InStep, ReceiptsMatchTranscript, TypeOK, Journals, Results, Scope, Calls, Key
  <2> QED
    BY <2>1, <2>2, <2>4, <2>5 DEF IInv
<1>9. CASE Record
  <2>1. /\ Len(transcript) \in Nat /\ Key = Len(transcript) + 1
        /\ result \in Results /\ transcript \in Seq(Results)
    BY <1>a DEF TypeOK, Key
  <2>2. /\ transcript' \in Seq(Results) /\ Len(transcript') = Len(transcript) + 1
        /\ transcript'[Key] = result
        /\ \A i \in 1..Len(transcript) : transcript'[i] = transcript[i]
    BY <1>9, <2>1 DEF Record
  <2>3. Key' = Key + 1
    BY <2>1, <2>2 DEF Key
  <2>4. Key <= MaxCalls
    BY <1>9, <1>a DEF Record, InStep, Calls
  <2>5. TypeOK'
    BY <1>9, <1>a, <2>1, <2>2, <2>4 DEF Record, TypeOK, Scope
  <2>6. InStep'
    BY <1>9, <1>a DEF Record, InStep
  <2>7. \A c \in Receipts(journal) : c <= Key
    BY <1>a DEF ReceiptsMatchTranscript
  <2>8. LastReceipt'
    BY <1>9, <2>1, <2>3, <2>7 DEF Record, LastReceipt, Receipts, Calls
  <2>9. ASSUME NEW c \in Calls, c <= Len(transcript')
        PROVE  c \in Receipts(journal) <=> transcript'[c] = "timeout"
    <3>1. CASE c = Key
      BY <1>9, <1>a, <2>2, <3>1 DEF Record, InStep, Receipts
    <3>2. CASE c <= Len(transcript)
      <4>1. c \in 1..Len(transcript)
        BY <2>1, <3>2 DEF Calls
      <4> QED
        BY <1>a, <2>2, <3>2, <4>1 DEF ReceiptsMatchTranscript
    <3> QED
      BY <2>1, <2>2, <2>9, <3>1, <3>2 DEF Calls
  <2>10. \A c \in Receipts(journal) : c <= Key'
    BY <2>1, <2>3, <2>7 DEF Receipts, Calls
  <2>11. ReceiptsMatchTranscript'
    BY <1>9, <2>9, <2>10 DEF Record, ReceiptsMatchTranscript, Receipts
  <2> QED
    BY <2>5, <2>6, <2>8, <2>11 DEF IInv
<1>10. CASE Finish
  <2>1. TypeOK'
    BY <1>10, <1>a DEF Finish, InStep, TypeOK, Journals, Results, Scope, Calls, Key
  <2>2. InStep'
    BY <1>10, <1>a DEF Finish, InStep, LastReceipt, TypeOK, Journals, Results, Scope, Calls, Key
  <2>3. pc' = "returned" /\ result' = "timeout" => Key \in Receipts(journal)
    BY <1>10, <1>a DEF Finish, InStep, Receipts, TypeOK, Journals, Results, Scope, Calls, Key
  <2> QED
    BY <1>10, <1>a, <2>1, <2>2, <2>3, Untouched DEF Finish, IInv
<1>11. CASE Crash
  <2>1. TypeOK'
    BY <1>11, <1>a DEF Crash, InStep, TypeOK, Journals, Results, Scope, Calls, Key, Empty
  <2>2. InStep'
    BY <1>11, <1>a DEF Crash, InStep, LastReceipt, TypeOK, Journals, Results, Scope, Calls, Key, Empty
  <2>3. pc' = "returned" /\ result' = "timeout" => Key \in Receipts(journal)
    BY <1>11, <1>a DEF Crash, InStep, Receipts, TypeOK, Journals, Results, Scope, Calls, Key, Empty
  <2> QED
    BY <1>11, <1>a, <2>1, <2>2, <2>3, Untouched DEF Crash, IInv, Empty
<1>12. CASE UNCHANGED vars
  <2>1. TypeOK'
    BY <1>12, <1>a DEF vars, InStep, TypeOK, Journals, Results, Scope, Calls, Key
  <2>2. InStep'
    BY <1>12, <1>a DEF vars, InStep, LastReceipt, TypeOK, Journals, Results, Scope, Calls, Key
  <2>3. pc' = "returned" /\ result' = "timeout" => Key \in Receipts(journal)
    BY <1>12, <1>a DEF vars, InStep, Receipts, TypeOK, Journals, Results, Scope, Calls, Key
  <2> QED
    BY <1>12, <1>a, <2>1, <2>2, <2>3, Untouched DEF vars, IInv
<1> QED
  BY <1>1, <1>2, <1>3, <1>4, <1>5, <1>6, <1>7, <1>8, <1>9, <1>10, <1>11, <1>12
  DEF Next

THEOREM Invariance == Spec => []IInv
  BY IInvInit, IInvStep, PTL DEF Spec

\* Whatever crashes and resumes happen, the streak never goes over the limit
\* and every variable keeps its type.
THEOREM TypeCorrect == Spec => []TypeOK
<1>1. IInv => TypeOK
  BY DEF IInv
<1> QED
  BY <1>1, Invariance, PTL

\* A receipt is durable exactly when the harness recorded a timeout, or is
\* about to.
THEOREM ReceiptsAgree == Spec => []ReceiptsMatchTranscript
<1>1. IInv => ReceiptsMatchTranscript
  BY DEF IInv
<1> QED
  BY <1>1, Invariance, PTL

\* An exhausted sample does not call Lean, even if it died before it was told.
THEOREM LimitIsFinal == Spec => []StopsAtLimit
<1>1. IInv => StopsAtLimit
  BY DEF IInv, InStep, StopsAtLimit
<1> QED
  BY <1>1, Invariance, PTL

\* The durable streak grows by one, for a call that had no receipt.
THEOREM CountsOnce == Spec => CountsOncePerCall
<1>1. ASSUME IInv, [Next]_vars, journal'.consecutive > journal.consecutive
      PROVE  /\ journal'.consecutive = journal.consecutive + 1
             /\ Receipts(journal') = Receipts(journal) \cup {Key}
             /\ Key \notin Receipts(journal)
  <2> USE <1>1, LimitAssumption
  <2>1. journal.consecutive \in Nat
    BY DEF IInv, TypeOK, Journals
  <2>2. ReplaceJournal
    BY <2>1 DEF Next, vars, EnterScope, Replay, StartCall, TimesOut, Returns,
             Fails, WriteTemporary, Record, Finish, Crash
  <2>3. /\ Key \in Calls /\ journal.timeouts[Key] = 0
        /\ journal' = state
        /\ state.consecutive = journal.consecutive + 1 /\ feedback # 0
        /\ state.timeouts = [journal.timeouts EXCEPT ![Key] = feedback]
    BY <2>1, <2>2 DEF ReplaceJournal, IInv, InStep
  <2>4. journal.timeouts \in [Calls -> 0..Limit]
    BY DEF IInv, TypeOK, Journals
  <2> QED
    BY <2>3, <2>4 DEF Receipts
<1> QED
  BY <1>1, Invariance, PTL DEF Spec, CountsOncePerCall

-----------------------------------------------------------------------------
LEMMA UnbrokenIsFinite == IsFiniteSet(Unbroken)
<1>1. IsFiniteSet(Calls)
  BY CallsAssumption, FS_Interval DEF Calls
<1>2. Unbroken \subseteq Calls
  BY DEF Unbroken, Receipts
<1> QED
  BY <1>1, <1>2, FS_Subset

\* The streak of the file is at most the number of calls that timed out since
\* the last recorded success, so a sample is never stopped early.
THEOREM StreakIsEarned == Spec => []NeverOvercounts
<1>1. Init => NeverOvercounts
  <2> SUFFICES ASSUME Init PROVE NeverOvercounts
    OBVIOUS
  <2>1. Cardinality(Unbroken) \in Nat
    BY UnbrokenIsFinite, FS_CardinalityType
  <2> QED
    BY <2>1 DEF Init, NeverOvercounts, Empty
<1>2. IInv /\ IInv' /\ NeverOvercounts /\ [Next]_vars => NeverOvercounts'
  <2> SUFFICES ASSUME IInv, IInv', NeverOvercounts, [Next]_vars
               PROVE  NeverOvercounts'
    OBVIOUS
  <2>1. /\ journal.consecutive \in Nat /\ journal'.consecutive \in Nat
        /\ transcript \in Seq(Results) /\ Len(transcript) \in Nat
    BY LimitAssumption DEF IInv, TypeOK, Journals
  <2>2. /\ IsFiniteSet(Unbroken) /\ Cardinality(Unbroken) \in Nat
        /\ IsFiniteSet(Unbroken') /\ Cardinality(Unbroken') \in Nat
    <3>1. IsFiniteSet(Calls)
      BY CallsAssumption, FS_Interval DEF Calls
    <3>2. Unbroken' \subseteq Calls
      BY DEF Unbroken, Receipts
    <3>3. IsFiniteSet(Unbroken')
      BY <3>1, <3>2, FS_Subset
    <3> QED
      BY <3>3, UnbrokenIsFinite, FS_CardinalityType
  <2>3. CASE UNCHANGED <<journal, transcript>> /\ pc' # "exhausted"
    BY <2>3 DEF NeverOvercounts, Unbroken, Receipts
  <2>4. CASE EnterScope
    <3>1. Unbroken' = Unbroken
      BY <2>4 DEF EnterScope, Unbroken, Receipts
    <3> QED
      BY <2>1, <2>2, <2>4, <3>1, LimitAssumption DEF EnterScope, NeverOvercounts
  <2>5. CASE Finish
    <3>1. Unbroken' = Unbroken
      BY <2>5 DEF Finish, Unbroken, Receipts
    <3>2. pc' = "exhausted" => journal.consecutive >= Limit
      BY <2>5, LimitAssumption DEF Finish, IInv, InStep
    <3> QED
      BY <2>1, <2>2, <2>5, <3>1, <3>2, LimitAssumption DEF Finish, NeverOvercounts
  <2>6. CASE ReplaceJournal
    <3>1. CASE result = "timeout"
      <4>1. /\ Key \in Calls /\ Key \notin Receipts(journal)
            /\ Receipts(journal') = Receipts(journal) \cup {Key}
            /\ journal'.consecutive = journal.consecutive + 1
        <5>1. /\ Key \in Calls /\ journal.timeouts[Key] = 0
              /\ journal' = state
              /\ state.consecutive = journal.consecutive + 1 /\ feedback # 0
              /\ state.timeouts = [journal.timeouts EXCEPT ![Key] = feedback]
          BY <2>6, <3>1 DEF ReplaceJournal, IInv, InStep
        <5>2. journal.timeouts \in [Calls -> 0..Limit]
          BY DEF IInv, TypeOK, Journals
        <5> QED
          BY <5>1, <5>2 DEF Receipts
      <4>2. transcript' = transcript
        BY <2>6 DEF ReplaceJournal
      <4>3. \A i \in (Key + 1)..Len(transcript) : FALSE
        BY <2>1 DEF Key
      <4>4. Unbroken' = Unbroken \cup {Key} /\ Key \notin Unbroken
        BY <4>1, <4>2, <4>3 DEF Unbroken
      <4>5. Cardinality(Unbroken') = Cardinality(Unbroken) + 1
        BY <2>2, <4>4, FS_AddElement
      <4> QED
        BY <2>1, <2>2, <2>6, <4>1, <4>5 DEF ReplaceJournal, NeverOvercounts
    <3>2. CASE result # "timeout"
      <4>1. journal'.consecutive = 0
        BY <2>6, <3>2 DEF ReplaceJournal, IInv, InStep
      <4> QED
        BY <2>2, <2>6, <4>1 DEF ReplaceJournal, NeverOvercounts
    <3> QED
      BY <3>1, <3>2
  <2>7. CASE Record
    <3>1. /\ Len(transcript') = Len(transcript) + 1
          /\ transcript'[Len(transcript) + 1] = result
          /\ \A i \in 1..Len(transcript) : transcript'[i] = transcript[i]
      BY <2>1, <2>7 DEF Record, IInv, TypeOK
    <3>2. CASE result = "success"
      <4>1. journal'.consecutive = 0
        BY <2>7, <3>2 DEF Record, IInv, InStep
      <4> QED
        BY <2>2, <2>7, <4>1 DEF Record, NeverOvercounts
    <3>3. CASE result # "success"
      <4>1. ASSUME NEW c \in Calls
            PROVE  (\A i \in (c + 1)..Len(transcript') : transcript'[i] # "success")
                   <=> (\A i \in (c + 1)..Len(transcript) : transcript[i] # "success")
        BY <2>1, <3>1, <3>3 DEF Calls
      <4>2. Unbroken' = Unbroken
        BY <2>7, <4>1 DEF Record, Unbroken, Receipts
      <4> QED
        BY <2>7, <4>2 DEF Record, NeverOvercounts
    <3> QED
      BY <3>2, <3>3
  <2> QED
    BY <2>3, <2>4, <2>5, <2>6, <2>7
    DEF Next, vars, Replay, StartCall, TimesOut, Returns, Fails, WriteTemporary,
        Crash, NeverOvercounts, Unbroken, Receipts
<1> QED
  BY <1>1, <1>2, Invariance, PTL DEF Spec
=============================================================================
