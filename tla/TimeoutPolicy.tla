--------------------------- MODULE TimeoutPolicy ---------------------------
(***************************************************************************)
(* Durable accounting of consecutive Lean timeouts for one sample          *)
(* (pyleaner/timeout_policy.py), across crashes and resumes of its process.*)
(*                                                                         *)
(* A sample makes tool calls one after the other, each under its own key.  *)
(* Its harness (not part of the repository, modelled from the docstrings   *)
(* of run_lean_tool and finish_timeout_feedback) records the result of a   *)
(* call durably in a transcript, then calls finish_timeout_feedback; after *)
(* a crash it enters the scope again and repeats, under the same key, the  *)
(* call whose result it had not recorded.                                  *)
(***************************************************************************)
EXTENDS Integers, Sequences, FiniteSets

CONSTANTS Limit,      \* sample_timeout_scope(limit=...)
          MaxCalls    \* BOUND: tool calls of the sample

ASSUME LimitAssumption == Limit \in Nat \ {0}
ASSUME CallsAssumption == MaxCalls \in Nat

Calls == 1..MaxCalls                                  \* keys, in order of use
Results == {"timeout", "success", "auxiliary", "failure"}
Scope == {"idle", "calling", "persist", "replace", "returned", "recorded"}

VARIABLES
  journal,      \* the file: the streak, and for each key the streak of its
                \* receipt, 0 without one
  temporary,    \* the file with suffix .tmp
  state,        \* what the process has in memory
  pc,           \* where the process is; "down" outside a scope
  result,       \* the result of the current call
  feedback,     \* its feedback: the streak of its receipt, 0 for None
  transcript    \* results the harness has recorded

vars == <<journal, temporary, state, pc, result, feedback, transcript>>

Empty == [consecutive |-> 0, timeouts |-> [c \in Calls |-> 0]]

Init == /\ journal = Empty /\ temporary = Empty /\ state = Empty
        /\ pc = "down" /\ result = "failure" /\ feedback = 0
        /\ transcript = <<>>

Key == Len(transcript) + 1       \* of the call that is made or repeated

-----------------------------------------------------------------------------
\* The test at the door of the scope is left out.  (TypeOK)
BugEnterScope ==
  /\ pc = "down" /\ pc' = "idle"
  /\ state' = journal
  /\ UNCHANGED <<journal, temporary, result, feedback, transcript>>

\* sample_timeout_scope: load the journal, refuse an exhausted sample.
EnterScope ==
  /\ pc = "down"
  /\ state' = journal
  /\ pc' = IF journal.consecutive >= Limit THEN "exhausted" ELSE "idle"
  /\ UNCHANGED <<journal, temporary, result, feedback, transcript>>

\* run_lean_tool with a key that has a receipt: nothing is executed.
Replay ==
  /\ pc = "idle" /\ Key \in Calls /\ state.timeouts[Key] # 0
  /\ pc' = "returned"
  /\ result' = "timeout" /\ feedback' = state.timeouts[Key]
  /\ UNCHANGED <<journal, temporary, state, transcript>>

\* The receipt is not looked up.  (CountsOncePerCall)
BugStartCall ==
  /\ pc = "idle" /\ Key \in Calls
  /\ pc' = "calling"
  /\ UNCHANGED <<journal, temporary, state, result, feedback, transcript>>

StartCall ==
  /\ pc = "idle" /\ Key \in Calls /\ state.timeouts[Key] = 0
  /\ pc' = "calling"
  /\ UNCHANGED <<journal, temporary, state, result, feedback, transcript>>

\* The feedback is returned before the journal is written.
\* (ReceiptsMatchTranscript)
BugTimesOut ==
  /\ pc = "calling" /\ pc' = "returned"
  /\ result' = "timeout"
  /\ feedback' = state.consecutive + 1
  /\ state' = [consecutive |-> state.consecutive + 1,
               timeouts |-> [state.timeouts EXCEPT ![Key] = feedback']]
  /\ UNCHANGED <<journal, temporary, transcript>>

\* The callback raises LeanTaskTimeout.
TimesOut ==
  /\ pc = "calling" /\ pc' = "persist"
  /\ result' = "timeout"
  /\ feedback' = state.consecutive + 1
  /\ state' = [consecutive |-> state.consecutive + 1,
               timeouts |-> [state.timeouts EXCEPT ![Key] = feedback']]
  /\ UNCHANGED <<journal, temporary, transcript>>

\* The callback returns.  Only a call that submitted something to Lean
\* (note_lean_submission) ends a streak.
Returns(submitted) ==
  /\ pc = "calling"
  /\ result' = IF submitted THEN "success" ELSE "auxiliary"
  /\ feedback' = 0
  /\ IF submitted /\ state.consecutive # 0
       THEN state' = [state EXCEPT !.consecutive = 0] /\ pc' = "persist"
       ELSE UNCHANGED state /\ pc' = "returned"
  /\ UNCHANGED <<journal, temporary, transcript>>

\* Any other exception passes through and changes nothing.
Fails ==
  /\ pc = "calling" /\ pc' = "returned"
  /\ result' = "failure" /\ feedback' = 0
  /\ UNCHANGED <<journal, temporary, state, transcript>>

\* _persist: write and fsync the temporary file, ...
WriteTemporary ==
  /\ pc = "persist" /\ pc' = "replace"
  /\ temporary' = state
  /\ UNCHANGED <<journal, state, result, feedback, transcript>>

\* The streak is written without the receipts.  (NeverOvercounts)
BugReplaceJournal ==
  /\ pc = "replace" /\ pc' = "returned"
  /\ journal' = [journal EXCEPT !.consecutive = temporary.consecutive]
  /\ UNCHANGED <<temporary, state, result, feedback, transcript>>

\* ... then rename it over the journal.
ReplaceJournal ==
  /\ pc = "replace" /\ pc' = "returned"
  /\ journal' = temporary
  /\ UNCHANGED <<temporary, state, result, feedback, transcript>>

\* The harness records the result.
Record ==
  /\ pc = "returned" /\ pc' = "recorded"
  /\ transcript' = Append(transcript, result)
  /\ UNCHANGED <<journal, temporary, state, result, feedback>>

\* One timeout too many is let through.  (StopsAtLimit)
BugFinish ==
  /\ pc = "recorded"
  /\ pc' = IF feedback > Limit THEN "exhausted" ELSE "idle"
  /\ UNCHANGED <<journal, temporary, state, result, feedback, transcript>>

\* finish_timeout_feedback: LeanTimeoutExhausted at the limit.
Finish ==
  /\ pc = "recorded"
  /\ pc' = IF feedback >= Limit THEN "exhausted" ELSE "idle"
  /\ UNCHANGED <<journal, temporary, state, result, feedback, transcript>>

\* The process dies: memory is lost, the files and the transcript are not.
Crash ==
  /\ pc \in Scope /\ pc' = "down"
  /\ state' = Empty /\ result' = "failure" /\ feedback' = 0
  /\ UNCHANGED <<journal, temporary, transcript>>

Next == \/ EnterScope \/ Replay \/ StartCall
        \/ TimesOut \/ (\E submitted \in BOOLEAN : Returns(submitted)) \/ Fails
        \/ WriteTemporary \/ ReplaceJournal \/ Record \/ Finish \/ Crash

Spec == Init /\ [][Next]_vars

-----------------------------------------------------------------------------
(***************************************************************************)
(* Properties                                                              *)
(***************************************************************************)
Journals == [consecutive : 0..Limit, timeouts : [Calls -> 0..Limit]]

\* The type of every variable: in particular a streak never goes over the
\* limit, however often the sample crashes and resumes.
TypeOK ==
  /\ journal \in Journals /\ temporary \in Journals /\ state \in Journals
  /\ pc \in Scope \cup {"down", "exhausted"}
  /\ result \in Results
  /\ feedback \in 0..Limit
  /\ transcript \in Seq(Results) /\ Len(transcript) <= MaxCalls

Receipts(j) == {c \in Calls : j.timeouts[c] # 0}

\* The durable receipts are those of the recorded timeouts, and possibly that
\* of the call being made: the model never sees a timeout feedback that a
\* crash could make the journal forget.
ReceiptsMatchTranscript ==
  /\ \A c \in Calls : c <= Len(transcript) =>
       (c \in Receipts(journal) <=> transcript[c] = "timeout")
  /\ \A c \in Receipts(journal) : c <= Key
  /\ pc = "returned" /\ result = "timeout" => Key \in Receipts(journal)

\* Lean is not called once the streak has reached the limit, not even by a
\* sample that crashed just before it was told so.
StopsAtLimit ==
  pc \in {"idle", "calling"} => state.consecutive < Limit

\* The recorded or receipted timeouts that no recorded success came after.
Unbroken == {c \in Receipts(journal) :
               \A i \in (c + 1)..Len(transcript) : transcript[i] # "success"}

\* The streak in the journal never counts a call twice: it is at most the
\* number of calls that timed out since the last recorded success.  So a
\* sample is only declared exhausted after Limit of them.
NeverOvercounts ==
  /\ journal.consecutive <= Cardinality(Unbroken)
  /\ pc = "exhausted" => Cardinality(Unbroken) >= Limit

\* The durable streak grows by one, with the receipt of a call that had none.
CountsOncePerCall ==
  [][journal'.consecutive > journal.consecutive =>
       /\ journal'.consecutive = journal.consecutive + 1
       /\ Receipts(journal') = Receipts(journal) \cup {Key}
       /\ Key \notin Receipts(journal)]_vars
=============================================================================
