------------------------ MODULE DocumentEditsProofs ------------------------
(***************************************************************************)
(* Theorems about DocumentEdits, for every content_range, size of a text   *)
(* and number of tasks.                                                    *)
(*                                                                         *)
(* What an answer is about depends on the document at the time of the      *)
(* edit, on every notification that is queued, and on how far the rebuild  *)
(* has come: EditsInv is the inductive invariant that relates them.        *)
(***************************************************************************)
EXTENDS DocumentEdits, SequenceTheorems, TLAPS

-----------------------------------------------------------------------------
(* The inductive invariant                                                 *)

\* The document of a task, and what a text may have at most to be replaced.
Document(t) == Imports \o Text(task[t], size[t])
Exactly == Editing \cup {"query", "asked"}
Alone == ~foreign /\ ~overlong

\* The versions a task may still use.
Slack(place) == CASE place = "taken" -> 2 [] place \in Editing -> 1 [] OTHER -> 0

\* How far the rebuild is tells which process there is and what it holds.
PhaseInv ==
  /\ phase \in {"up", "poison", "fail", "kill"} => process = 1 /\ isOpen
  /\ phase = "connect" => process = 1 /\ ~alive /\ ~isOpen
  /\ phase = "create" => process = 2 /\ alive /\ ~isOpen
  /\ phase = "done" => process = 2 /\ alive /\ isOpen
  /\ phase # "done" => pc[2] = "unborn"

Message == [method : {"diagnostics", "done", "poison"}, version : Versions,
            about : Content]

TypeInv ==
  /\ TypeOK
  /\ inbox \in [Threads -> Seq(Message)]
  /\ Len(lines) >= First
  /\ \A t \in Threads : version[t] + Slack(pc[t]) <= 2 * taken

\* The server's version is one of its own thread's.
VersionInv == ~foreign /\ isOpen => docVersion <= version[process]

\* The document is the imports and one text, which is the text of the task that
\* has edited it and is not over.
LinesInv ==
  Alone =>
    /\ \E k \in Nat, n \in 0 .. (LastLine - First) : lines = Imports \o Text(k, n)
    /\ pc[process] \in Exactly => lines = Document(process)

\* Notifications that are queued are not of a version to come; those that an
\* edit would take are about its document.
Timely(t, m) ==
  /\ m.version <= version[t]
  /\ m.method = "diagnostics" /\ m.version = version[t] /\ pc[t] \in Editing =>
       m.about = Document(t)

InboxInv ==
  Alone => \A t \in Threads : \A i \in 1 .. Len(inbox[t]) : Timely(t, inbox[t][i])

\* Diagnostics and answers are about the document of the task.
AnswersInv ==
  /\ \A t \in Threads : pc[t] \notin Exactly \cup {"woken"} => diagnostics[t] = {}
  /\ Alone =>
       \A t \in Threads : /\ diagnostics[t] \subseteq {Document(t)}
                          /\ pc[t] = "asked" => asked[t] = t
  /\ ExactWhenAlone

EditsInv ==
  /\ TypeInv /\ PhaseInv /\ VersionInv /\ LinesInv /\ InboxInv /\ AnswersInv

-----------------------------------------------------------------------------
(* Documents                                                               *)

LEMMA TextIsContent ==
  ASSUME NEW k \in Nat, NEW n \in Nat, NEW S, k \in S
  PROVE  /\ Text(k, n) \in Seq(S) /\ Len(Text(k, n)) = n
         /\ \A i \in 1 .. n : Text(k, n)[i] = k
<1>1. Text(k, n) \in Seq(S)
  <2>1. \A i \in 1 .. n : k \in S
    OBVIOUS
  <2> QED
    BY <2>1 DEF Text
<1> QED
  BY <1>1 DEF Text

LEMMA ImportsAreContent ==
  /\ Imports \in Content /\ Imports \in Seq(Nat) /\ Len(Imports) = First
  /\ \A i \in 1 .. First : Imports[i] = 0
BY TextIsContent, RangeAssumption, TasksAssumption DEF Imports, Text, Content

\* The two parts of a document.
LEMMA Parts ==
  ASSUME NEW text \in Seq(Nat)
  PROVE  /\ Imports \o text \in Seq(Nat)
         /\ Len(Imports \o text) = First + Len(text)
         /\ \A i \in 1 .. First : (Imports \o text)[i] = 0
<1>1. /\ Imports \in Seq(Nat) /\ Len(Imports) = First /\ First \in Nat
      /\ \A i \in 1 .. First : Imports[i] = 0
  BY ImportsAreContent, RangeAssumption
<1> HIDE DEF Imports
<1>2. Len(text) \in Nat
  BY LenProperties
<1>3. \A i \in 1 .. First : i \in 1 .. First + Len(text) /\ i <= First
  BY <1>1, <1>2
<1>4. /\ Imports \o text \in Seq(Nat)
      /\ Len(Imports \o text) = Len(Imports) + Len(text)
      /\ \A i \in 1 .. Len(Imports) + Len(text) : (Imports \o text)[i] =
                     IF i <= Len(Imports) THEN Imports[i] ELSE text[i - Len(Imports)]
  BY <1>1, ConcatProperties
<1> QED
  BY <1>1, <1>3, <1>4

\* Replacing the range keeps the first lines, and at least as many.
LEMMA ReplaceKeepsType ==
  ASSUME NEW S, lines \in Seq(S), Len(lines) >= First, NEW text \in Seq(S)
  PROVE  Replace(text) \in Seq(S) /\ Len(Replace(text)) >= First
<1> DEFINE front == SubSeq(lines, 1, First)
           back == SubSeq(lines, LastLine + 1, Len(lines))
<1>1. Len(lines) \in Nat /\ \A i \in 1 .. Len(lines) : lines[i] \in S
  BY LenProperties, ElementOfSeq
<1>2. front \in Seq(S) /\ Len(front) = First
  BY <1>1, SubSeqProperties, RangeAssumption
<1>3. back \in Seq(S) /\ Len(back) \in Nat
  BY <1>1, SubSeqProperties, RangeAssumption, LenProperties
<1> HIDE DEF front, back
<1>4. front \o text \in Seq(S) /\ Len(front \o text) = First + Len(text)
  BY <1>2, ConcatProperties
<1>5. (front \o text) \o back \in Seq(S)
      /\ Len((front \o text) \o back) = First + Len(text) + Len(back)
  BY <1>3, <1>4, ConcatProperties
<1>6. Replace(text) = (front \o text) \o back
  BY DEF Replace, front, back
<1>7. Len(text) \in Nat
  BY LenProperties
<1> QED
  BY <1>3, <1>5, <1>6, <1>7, RangeAssumption

\* A text that fits into the range is replaced as a whole: no line of an earlier
\* text stays behind it.
LEMMA ReplaceIsExact ==
  ASSUME NEW old \in Seq(Nat), NEW text \in Seq(Nat), Len(old) <= LastLine - First,
         lines = Imports \o old
  PROVE  Replace(text) = Imports \o text
<1> DEFINE front == SubSeq(lines, 1, First)
           back == SubSeq(lines, LastLine + 1, Len(lines))
<1>1. /\ lines \in Seq(Nat) /\ Len(lines) = First + Len(old) /\ Len(old) \in Nat
      /\ \A i \in 1 .. First : lines[i] = 0
  BY Parts, LenProperties
<1>2. front = Imports
  <2>1. /\ front \in Seq(Nat) /\ Len(front) = First
        /\ \A i \in 1 .. First : front[i] = 0
    <3>1. \A i \in 1 .. First : lines[i] \in Nat
      <4>1. 0 \in Nat
        OBVIOUS
      <4> QED
        BY <1>1, <4>1, Zenon
    <3>2. First \in Nat
      BY RangeAssumption
    <3> QED
      BY <1>1, <3>1, <3>2, SubSeqProperties
  <2> HIDE DEF front
  <2> QED
    BY <2>1, ImportsAreContent, SeqEqual
<1>3. back = << >>
  BY <1>1, SubSeqEmpty, RangeAssumption
<1>4. (Imports \o text) \o << >> = Imports \o text
  BY Parts, ConcatEmptySeq
<1>5. Replace(text) = (front \o text) \o back
  BY DEF Replace
<1> QED
  BY <1>2, <1>3, <1>4, <1>5

-----------------------------------------------------------------------------
(* The steps                                                               *)

LEMMA InitInv == Init => EditsInv
<1> SUFFICES ASSUME Init PROVE EditsInv
  OBVIOUS
<1> USE DEF Init, Threads
<1>1. TypeInv
  <2>1. /\ pc \in [Threads -> Places] /\ inbox \in [Threads -> {<<>>}]
    BY DEF Places, Busy, Editing
  <2>2. lines \in Content /\ Len(lines) >= First
    BY ImportsAreContent, RangeAssumption
  <2>3. \A t \in Threads : version[t] + Slack(pc[t]) <= 2 * taken
    BY DEF Slack, Editing
  <2>4. /\ task \in [Threads -> 0 .. MaxTasks] /\ size \in [Threads -> 0 .. MaxSize]
        /\ version \in [Threads -> Versions] /\ counter \in [Threads -> 0 .. 2]
        /\ docVersion \in Versions /\ taken \in 0 .. MaxTasks
    BY TasksAssumption, SizeAssumption DEF Versions
  <2>5. \A t \in Threads : inbox[t] \in Seq(Message)
    BY EmptySeq
  <2>6. /\ diagnostics \in [Threads -> SUBSET Content] /\ answer \in [Threads -> SUBSET Content]
        /\ asked \in [Threads -> 0 .. 2] /\ owed \in SUBSET Content
    OBVIOUS
  <2>7. /\ process \in Threads /\ published \in 0 .. 3 /\ phase = "up"
        /\ snapshot \in SUBSET Threads
    OBVIOUS
  <2>8. /\ alive \in BOOLEAN /\ isOpen \in BOOLEAN
        /\ foreign \in BOOLEAN /\ overlong \in BOOLEAN /\ crossed \in BOOLEAN
    BY Zenon
  <2> HIDE DEF Init, Threads
  <2> QED
    BY <2>1, <2>2, <2>3, <2>4, <2>5, <2>6, <2>7, <2>8 DEF TypeInv, TypeOK
<1>2. PhaseInv /\ VersionInv
  BY DEF PhaseInv, VersionInv
<1>3. LinesInv
  <2>1. Text(0, 0) = <<>> /\ 0 \in 0 .. (LastLine - First)
    BY RangeAssumption DEF Text
  <2>2. Imports \o <<>> = Imports
    BY ImportsAreContent, ConcatEmptySeq
  <2> QED
    BY <2>1, <2>2 DEF LinesInv, Exactly, Editing
<1>4. InboxInv /\ AnswersInv
  BY DEF InboxInv, AnswersInv, ExactWhenAlone, AnswersAreExact, Exact, Exactly, Editing
<1> QED
  BY <1>1, <1>2, <1>3, <1>4 DEF EditsInv

\* The text of a task, as a document of the server and as a sequence of numbers.
LEMMA TaskText ==
  ASSUME TypeOK, NEW t \in Threads
  PROVE  /\ Text(task[t], size[t]) \in Seq(0 .. MaxTasks)
         /\ Text(task[t], size[t]) \in Seq(Nat)
         /\ Len(Text(task[t], size[t])) = size[t]
         /\ task[t] \in Nat /\ size[t] \in Nat
<1>1. task[t] \in Nat /\ task[t] \in 0 .. MaxTasks /\ size[t] \in Nat
  BY SizeAssumption, TasksAssumption DEF TypeOK
<1> QED
  BY <1>1, TextIsContent

\* A change that reaches the server: by the thread of its own process it is
\* applied, for this is a new version; by another one while the document is
\* closed, it is not.
LEMMA ChangeIsApplied ==
  ASSUME EditsInv, NEW t \in Threads, NEW text \in Seq(0 .. MaxTasks),
         version'[t] = version[t] + 1, version'[t] \in Versions, alive, Change(t, text)
  PROVE  /\ lines' \in Content /\ Len(lines') >= First
         /\ docVersion' \in Versions /\ published' \in 0 .. 3
         /\ foreign' \in BOOLEAN /\ overlong' \in BOOLEAN
         /\ ~foreign' => ~foreign
         /\ ~overlong' => ~overlong /\ Len(text) <= LastLine - First
         /\ ~foreign' /\ isOpen => /\ t = process /\ docVersion < docVersion'
                                   /\ docVersion' = version'[t] /\ lines' = Replace(text)
         /\ ~isOpen => lines' = lines /\ docVersion' = docVersion
<1> USE DEF EditsInv, TypeInv, TypeOK, Content
<1>1. Replace(text) \in Seq(0 .. MaxTasks) /\ Len(Replace(text)) >= First
  BY ReplaceKeepsType
<1>2. /\ foreign' = (foreign \/ (isOpen /\ t # process))
      /\ overlong' = (overlong \/ Len(text) > LastLine - First)
  BY DEF Change
<1>3. PICK applied \in IF version'[t] > docVersion THEN {isOpen} ELSE {isOpen, FALSE} :
        IF applied
         THEN docVersion' = version'[t] /\ lines' = Replace(text) /\ published' = 0
         ELSE UNCHANGED <<docVersion, lines, published>>
  BY DEF Change
<1>4. /\ lines' \in Content /\ Len(lines') >= First
      /\ docVersion' \in Versions /\ published' \in 0 .. 3
  BY <1>1, <1>3
<1>5. ~overlong' => ~overlong /\ Len(text) <= LastLine - First
  <2>1. ~overlong' => ~overlong /\ ~(Len(text) > LastLine - First)
    BY <1>2, Zenon
  <2>2. Len(text) \in Nat /\ LastLine - First \in Int
    BY LenProperties, RangeAssumption
  <2>3. ~(Len(text) > LastLine - First) => Len(text) <= LastLine - First
    BY <2>2
  <2> QED
    BY <2>1, <2>3, Zenon
<1>6. ~isOpen => lines' = lines /\ docVersion' = docVersion
  <2>1. applied \in {isOpen, FALSE}
    BY <1>3
  <2>2. ~isOpen => ~applied
    BY <2>1, Zenon
  <2> QED
    BY <1>3, <2>2, Zenon
<1>7. ASSUME ~foreign', isOpen
      PROVE  /\ t = process /\ docVersion < docVersion'
             /\ docVersion' = version'[t] /\ lines' = Replace(text)
  <2>1. t = process /\ ~foreign
    BY <1>2, <1>7
  <2>2. docVersion < version'[t]
    BY <1>7, <2>1, TasksAssumption DEF VersionInv, Versions
  <2>3. version'[t] > docVersion
    BY <2>2, TasksAssumption DEF Versions
  <2>4. applied = isOpen
    BY <1>3, <2>3
  <2> QED
    BY <1>3, <1>7, <2>1, <2>2, <2>4
<1> QED
  BY <1>2, <1>4, <1>5, <1>6, <1>7

\* What Edit and Deadline have in common: a new version of the document, with the
\* text of the task or with none.
Edits(t, text, place) ==
  /\ version' = [version EXCEPT ![t] = @ + 1] /\ Forget(t)
  /\ \/ alive /\ Goto(t, place) /\ Change(t, text)
     \/ ~alive /\ Goto(t, "idle") /\ UNCHANGED <<serverVars, foreign, overlong>>
  /\ UNCHANGED <<task, size, answer, inbox, asked, rebuildVars, taken, crossed>>

LEMMA EditsKeepInv ==
  ASSUME EditsInv, NEW t \in Threads, NEW text, NEW place,
         \/ pc[t] = "taken" /\ place = "wait" /\ text = Text(task[t], size[t])
         \/ pc[t] = "wait" /\ place = "idle" /\ text = <<>>,
         Edits(t, text, place)
  PROVE  EditsInv'
<1> USE DEF EditsInv, TypeInv
<1>1. /\ text \in Seq(0 .. MaxTasks) /\ text \in Seq(Nat)
      /\ Len(text) \in Nat
      /\ place = "idle" => text = Text(task[t], 0)
  <2>1. CASE pc[t] = "taken" /\ place = "wait" /\ text = Text(task[t], size[t])
    BY <2>1, TaskText
  <2>2. CASE pc[t] = "wait" /\ place = "idle" /\ text = <<>>
    <3>1. Text(task[t], 0) = <<>>
      BY DEF Text
    <3> QED
      BY <2>2, <3>1, EmptySeq
  <2> QED
    BY <2>1, <2>2
<1>2. /\ version' = [version EXCEPT ![t] = @ + 1]
      /\ version' \in [Threads -> Versions] /\ version'[t] = version[t] + 1
      /\ version[t] \in Nat /\ taken \in 0 .. MaxTasks
      /\ \A u \in Threads : version'[u] + Slack(pc'[u]) <= 2 * taken
  <2>1. \A u \in Threads : version[u] \in Nat /\ version[u] + Slack(pc[u]) <= 2 * taken
    BY TasksAssumption DEF TypeOK, Versions
  <2>2. /\ version' = [version EXCEPT ![t] = @ + 1] /\ taken \in 0 .. MaxTasks
        /\ version'[t] = version[t] + 1
        /\ \A u \in Threads : u # t => version'[u] = version[u] /\ pc'[u] = pc[u]
        /\ pc'[t] \in {place, "idle"}
    BY DEF Edits, Goto, TypeOK
  <2>3. Slack(pc'[t]) + 1 <= Slack(pc[t]) /\ Slack(pc'[t]) \in Nat /\ Slack(pc[t]) \in Nat
    BY <2>2 DEF Slack, Editing
  <2>4. \A u \in Threads : version'[u] + Slack(pc'[u]) <= 2 * taken
    BY <2>1, <2>2, <2>3, TasksAssumption
  <2>5. version[t] + 1 <= 2 * MaxTasks
    BY <2>1, <2>2, <2>3, TasksAssumption
  <2> QED
    BY <2>1, <2>2, <2>4, <2>5, TasksAssumption DEF TypeOK, Versions
<1>3. /\ lines' \in Content /\ Len(lines') >= First
      /\ docVersion' \in Versions /\ published' \in 0 .. 3
      /\ foreign' \in BOOLEAN /\ overlong' \in BOOLEAN
      /\ ~foreign' => ~foreign
      /\ ~overlong' => ~overlong
      /\ alive /\ ~overlong' => Len(text) <= LastLine - First
      /\ alive /\ ~foreign' /\ isOpen =>
           /\ t = process /\ docVersion' = version'[t] /\ lines' = Replace(text)
      /\ alive /\ ~isOpen => lines' = lines /\ docVersion' = docVersion
      /\ ~alive => /\ lines' = lines /\ docVersion' = docVersion
  <2>1. CASE alive
    <3>1. Change(t, text) /\ version'[t] \in Versions
      BY <2>1, <1>2 DEF Edits
    <3> QED
      BY <1>1, <1>2, <2>1, <3>1, ChangeIsApplied
  <2>2. CASE ~alive
    BY <2>2 DEF Edits, serverVars, docVars, TypeOK
  <2> QED
    BY <2>1, <2>2
<1>4. /\ UNCHANGED <<task, size, answer, inbox, asked, phase, snapshot, taken, crossed,
                     isOpen, process, alive, owed>>
      /\ diagnostics' = [diagnostics EXCEPT ![t] = {}] /\ counter' = [counter EXCEPT ![t] = 0]
      /\ pc' = [pc EXCEPT ![t] = IF alive THEN place ELSE "idle"]
  BY DEF Edits, Change, Forget, Goto, serverVars, docVars, rebuildVars
<1>5. place \in {"wait", "idle"} /\ pc[t] \in {"taken", "wait"}
  OBVIOUS
<1>6. TypeInv'
  <2>1. pc' \in [Threads -> Places]
    BY <1>4, <1>5 DEF TypeOK, Places, Busy, Editing
  <2>2. counter' \in [Threads -> 0 .. 2] /\ diagnostics' \in [Threads -> SUBSET Content]
    BY <1>4 DEF TypeOK
  <2> QED
    BY <1>2, <1>3, <1>4, <2>1, <2>2 DEF TypeOK
<1>7. PhaseInv'
  BY <1>4, <1>5 DEF PhaseInv, TypeOK, Threads
<1>8. VersionInv'
  <2> SUFFICES ASSUME ~foreign', isOpen PROVE docVersion' <= version'[process]
    BY <1>4 DEF VersionInv
  <2>1. docVersion <= version[process]
    BY <1>3 DEF VersionInv
  <2>2. CASE alive
    BY <1>2, <1>3, <2>2, TasksAssumption DEF Versions
  <2>3. CASE ~alive
    <3>1. docVersion' = docVersion /\ docVersion \in Nat /\ process \in Threads
      BY <1>3, <2>3, TasksAssumption DEF TypeOK, Versions
    <3>2. version'[process] = IF process = t THEN version[t] + 1 ELSE version[process]
      BY <1>2, <3>1 DEF TypeOK
    <3> QED
      BY <1>2, <2>1, <3>1, <3>2
  <2> QED
    BY <2>2, <2>3
<1>9. LinesInv'
  <2> SUFFICES ASSUME Alone'
               PROVE  /\ \E k \in Nat, n \in 0 .. (LastLine - First) :
                           lines' = Imports \o Text(k, n)
                      /\ pc'[process'] \in Exactly => lines' = Document(process)'
    BY DEF LinesInv
  <2>1. Alone
    BY <1>3 DEF Alone
  <2>2. PICK k \in Nat, n \in 0 .. (LastLine - First) : lines = Imports \o Text(k, n)
    BY <2>1 DEF LinesInv
  <2>3. CASE alive /\ isOpen
    <3>1. lines' = Imports \o text /\ t = process
      <4>1. Text(k, n) \in Seq(Nat) /\ Len(Text(k, n)) <= LastLine - First
        <5>1. n \in Nat /\ n <= LastLine - First
          BY RangeAssumption
        <5> QED
          BY <5>1, TextIsContent
      <4> QED
        BY <1>1, <1>3, <2>2, <2>3, <4>1, ReplaceIsExact DEF Alone
    <3>2. Len(text) \in 0 .. (LastLine - First)
      BY <1>1, <1>3, <2>3, RangeAssumption DEF Alone
    <3>3. text = Text(task[t], Len(text)) /\ task[t] \in Nat
      BY <1>1, TaskText, EmptySeq
    <3>4. pc'[process'] \in Exactly => text = Text(task[t], size[t])
      BY <1>4, <1>5, <3>1 DEF Exactly, Editing, TypeOK
    <3> QED
      BY <1>4, <3>1, <3>2, <3>3, <3>4 DEF Document
  <2>4. CASE ~(alive /\ isOpen)
    <3>1. lines' = lines
      BY <1>3, <2>4
    <3>2. pc'[process] \in Exactly => process # t
      <4>1. alive => process # t
        BY <2>4, <1>5 DEF PhaseInv, TypeOK
      <4> QED
        BY <1>4, <1>5, <4>1 DEF Exactly, Editing, TypeOK
    <3>3. process # t => pc'[process] = pc[process]
      BY <1>4 DEF TypeOK
    <3> QED
      BY <1>4, <2>1, <2>2, <3>1, <3>2, <3>3 DEF LinesInv, Document
  <2> QED
    BY <2>3, <2>4
<1>10. InboxInv'
  <2> SUFFICES ASSUME Alone', NEW u \in Threads, NEW i \in 1 .. Len(inbox[u])
               PROVE  Timely(u, inbox[u][i])'
    BY <1>4 DEF InboxInv
  <2>1. Timely(u, inbox[u][i])
    BY <1>3 DEF Alone, InboxInv
  <2>2. inbox[u][i].version \in Nat
    <3>1. inbox[u][i] \in Message
      BY ElementOfSeq DEF TypeOK
    <3> QED
      BY <3>1, TasksAssumption DEF Message, Versions
  <2>3. CASE u = t
    BY <1>2, <1>4, <2>1, <2>2, <2>3 DEF Timely
  <2>4. CASE u # t
    <3>1. version'[u] = version[u] /\ pc'[u] = pc[u]
      BY <1>2, <1>4, <2>4 DEF TypeOK
    <3> QED
      BY <1>4, <2>1, <3>1 DEF Timely, Document
  <2> QED
    BY <2>3, <2>4
<1>11. AnswersInv'
  <2>1. \A u \in Threads : diagnostics'[u] = IF u = t THEN {} ELSE diagnostics[u]
    BY <1>4 DEF TypeOK
  <2>2. \A u \in Threads : u # t => pc'[u] = pc[u]
    BY <1>4 DEF TypeOK
  <2>3. pc'[t] # "asked"
    BY <1>4, <1>5 DEF TypeOK
  <2>4. \A u \in Threads : pc'[u] \notin Exactly \cup {"woken"} => diagnostics'[u] = {}
    BY <2>1, <2>2 DEF AnswersInv
  <2>5. ASSUME Alone', NEW u \in Threads
        PROVE  diagnostics'[u] \subseteq {Document(u)'} /\ (pc'[u] = "asked" => asked'[u] = u)
    BY <1>3, <1>4, <2>1, <2>2, <2>3, <2>5 DEF AnswersInv, Document, Alone
  <2>6. ExactWhenAlone'
    BY <1>3, <1>4 DEF AnswersInv, ExactWhenAlone, AnswersAreExact, Exact
  <2> QED
    BY <2>4, <2>5, <2>6 DEF AnswersInv
<1> QED
  BY <1>6, <1>7, <1>8, <1>9, <1>10, <1>11

\* The other steps of a thread leave the document and the versions alone.
LEMMA TakeKeepsInv ==
  ASSUME EditsInv, NEW t \in Threads, Take(t)
  PROVE  EditsInv'
<1> USE DEF EditsInv, TypeInv
<1>1. /\ pc[t] = "idle" /\ taken < MaxTasks /\ taken' = taken + 1
      /\ task' = [task EXCEPT ![t] = taken + 1]
      /\ answer' = [answer EXCEPT ![t] = {}]
      /\ pc' = [pc EXCEPT ![t] = "taken"]
      /\ UNCHANGED <<editVars, inbox, asked, serverVars, rebuildVars, foreign, overlong,
                     crossed>>
  BY DEF Take, Goto
<1>2. PICK n \in 1 .. MaxSize : size' = [size EXCEPT ![t] = n]
  BY DEF Take
<1>3. /\ taken \in Nat /\ taken' \in 0 .. MaxTasks
      /\ \A u \in Threads : version[u] \in Nat
  BY <1>1, TasksAssumption DEF TypeOK, Versions
<1>4. \A u \in Threads : version'[u] + Slack(pc'[u]) <= 2 * taken'
  <2>1. \A u \in Threads : u # t => Slack(pc'[u]) = Slack(pc[u])
    BY <1>1 DEF TypeOK
  <2>2. Slack(pc'[t]) = 2 /\ Slack(pc[t]) = 0
    BY <1>1 DEF TypeOK, Slack, Editing
  <2>3. \A u \in Threads : Slack(pc[u]) \in Nat
    BY DEF Slack
  <2> QED
    BY <1>1, <1>3, <2>1, <2>2, <2>3 DEF editVars
<1>5. TypeInv'
  <2>1. size' \in [Threads -> 0 .. MaxSize] /\ task' \in [Threads -> 0 .. MaxTasks]
    BY <1>1, <1>2, <1>3, SizeAssumption DEF TypeOK
  <2>2. pc' \in [Threads -> Places] /\ answer' \in [Threads -> SUBSET Content]
    BY <1>1 DEF TypeOK, Places, Busy
  <2> QED
    BY <1>1, <1>3, <1>4, <2>1, <2>2 DEF TypeOK, editVars, serverVars, docVars, rebuildVars
<1>6. PhaseInv' /\ VersionInv'
  BY <1>1 DEF PhaseInv, VersionInv, TypeOK, editVars, serverVars, docVars, rebuildVars, Threads
<1>7. /\ \A u \in Threads : u # t => /\ Document(u)' = Document(u) /\ pc'[u] = pc[u]
                                     /\ answer'[u] = answer[u]
      /\ pc'[t] = "taken" /\ answer'[t] = {}
  BY <1>1, <1>2 DEF TypeOK, Document
<1>8. LinesInv'
  BY <1>1, <1>7 DEF LinesInv, Alone, Exactly, Editing, serverVars, docVars, TypeOK
<1>9. InboxInv'
  BY <1>1, <1>7 DEF InboxInv, Alone, Timely, Editing, editVars
<1>10. AnswersInv'
  BY <1>1, <1>7 DEF AnswersInv, Alone, ExactWhenAlone, AnswersAreExact, Exact, Document,
                    Exactly, Editing, editVars
<1> QED
  BY <1>5, <1>6, <1>8, <1>9, <1>10

\* Between the edits the thread t goes on to another place, and may take a
\* notification; only diagnostics and answers need more thought.
Goes(t, place) ==
  /\ pc' = [pc EXCEPT ![t] = place]
  /\ \/ inbox' = inbox
     \/ inbox[t] # <<>> /\ inbox' = [inbox EXCEPT ![t] = Tail(@)]
  /\ UNCHANGED <<task, size, version, process, alive, docVars, rebuildVars, taken, overlong>>

LEMMA GoesKeepsInv ==
  ASSUME EditsInv, NEW t \in Threads, NEW place \in Places, Goes(t, place),
         pc[t] # "unborn", place # "unborn", Slack(place) <= Slack(pc[t]),
         place \in Exactly => pc[t] \in Exactly, place \in Editing => pc[t] \in Editing,
         foreign' \in BOOLEAN, ~foreign' => ~foreign, crossed' \in BOOLEAN,
         counter' \in [Threads -> 0 .. 2], diagnostics' \in [Threads -> SUBSET Content],
         answer' \in [Threads -> SUBSET Content], asked' \in [Threads -> 0 .. 2],
         owed' \in SUBSET Content
  PROVE  TypeInv' /\ PhaseInv' /\ VersionInv' /\ LinesInv' /\ InboxInv'
<1> USE DEF EditsInv, TypeInv
<1>1. /\ pc' = [pc EXCEPT ![t] = place]
      /\ UNCHANGED <<task, size, version, process, alive, isOpen, docVersion, lines,
                     published, phase, snapshot, taken, overlong>>
      /\ pc'[t] = place /\ \A u \in Threads : u # t => pc'[u] = pc[u]
  BY DEF Goes, docVars, rebuildVars, TypeOK
<1>0. inbox' = [u \in Threads |-> inbox'[u]]
  BY DEF Goes
<1>2. \A u \in Threads :
        /\ inbox'[u] \in Seq(Message)
        /\ \A i \in 1 .. Len(inbox'[u]) : \E j \in 1 .. Len(inbox[u]) : inbox'[u][i] = inbox[u][j]
  <2>1. CASE inbox' = inbox
    BY <2>1 DEF TypeOK
  <2>2. CASE inbox[t] # <<>> /\ inbox' = [inbox EXCEPT ![t] = Tail(@)]
    <3>1. inbox[t] \in Seq(Message)
      BY DEF TypeOK
    <3>2. /\ Tail(inbox[t]) \in Seq(Message) /\ Len(Tail(inbox[t])) = Len(inbox[t]) - 1
          /\ \A i \in 1 .. Len(Tail(inbox[t])) : Tail(inbox[t])[i] = inbox[t][i + 1]
          /\ Len(inbox[t]) \in Nat
      BY <2>2, <3>1, HeadTailProperties, LenProperties
    <3>3. \A i \in 1 .. Len(Tail(inbox[t])) : i + 1 \in 1 .. Len(inbox[t])
      BY <3>2
    <3>4. \A u \in Threads : \/ inbox'[u] = inbox[u]
                             \/ u = t /\ inbox'[u] = Tail(inbox[t])
      BY <2>2
    <3>5. \A u \in Threads : inbox[u] \in Seq(Message)
      BY DEF TypeOK, Message
    <3> QED
      BY <3>2, <3>3, <3>4, <3>5 DEF Message
  <2> QED
    BY <2>1, <2>2 DEF Goes
<1>3. TypeInv'
  <2>1. \A u \in Threads : version'[u] + Slack(pc'[u]) <= 2 * taken'
    <3>1. \A u \in Threads : version[u] \in Nat /\ Slack(pc[u]) \in Nat /\ Slack(pc'[u]) \in Nat
      BY TasksAssumption DEF TypeOK, Versions, Slack
    <3>2. Slack(pc'[t]) <= Slack(pc[t]) /\ taken \in Nat
      BY <1>1, TasksAssumption DEF TypeOK
    <3> QED
      BY <1>1, <3>1, <3>2
  <2>2. pc' \in [Threads -> Places]
    BY <1>1 DEF TypeOK
  <2>3. inbox' \in [Threads -> Seq(Message)]
    BY <1>0, <1>2
  <2> QED
    BY <1>1, <1>2, <2>1, <2>2, <2>3 DEF TypeOK, Message
<1>4. PhaseInv' /\ VersionInv'
  BY <1>1 DEF PhaseInv, VersionInv, Threads
<1>5. LinesInv'
  BY <1>1 DEF LinesInv, Alone, Document, TypeOK
<1>6. InboxInv'
  <2> SUFFICES ASSUME Alone', NEW u \in Threads, NEW i \in 1 .. Len(inbox'[u])
               PROVE  Timely(u, inbox[u][i])'
    BY DEF InboxInv
  <2>1. PICK j \in 1 .. Len(inbox[u]) : inbox'[u][i] = inbox[u][j]
    BY <1>2
  <2>2. Timely(u, inbox[u][j])
    BY <1>1 DEF InboxInv, Alone
  <2> QED
    BY <1>1, <2>1, <2>2 DEF Timely, Document
<1> QED
  BY <1>3, <1>4, <1>5, <1>6

LEMMA NotificationKeepsInv ==
  ASSUME EditsInv, NEW t \in Threads, Notification(t)
  PROVE  EditsInv'
<1> DEFINE place == IF counter'[t] >= 2 /\ diagnostics'[t] # {} THEN "settle" ELSE "wait"
<1>1. /\ pc[t] = "wait" /\ inbox[t] # <<>>
      /\ inbox' = [inbox EXCEPT ![t] = Tail(@)] /\ pc' = [pc EXCEPT ![t] = place]
      /\ UNCHANGED <<task, size, version, answer, asked, serverVars, rebuildVars, historyVars>>
  BY DEF Notification, Goto
<1>2. place \in {"settle", "wait"}
  OBVIOUS
<1> HIDE DEF place
<1>3. /\ Head(inbox[t]) = inbox[t][1] /\ 1 \in 1 .. Len(inbox[t])
      /\ Head(inbox[t]).about \in Content
  <2>1. inbox[t] \in Seq(Message)
    BY DEF EditsInv, TypeInv, TypeOK
  <2>2. \A m \in Message : m.about \in Content
    BY DEF Message
  <2>3. Head(inbox[t]) \in Message /\ Len(inbox[t]) \in Nat \ {0}
    BY <1>1, <2>1, HeadTailProperties, EmptySeq
  <2> QED
    BY <2>1, <2>2, <2>3
<1>4. Alone => Timely(t, Head(inbox[t]))
  BY <1>3 DEF EditsInv, InboxInv
<1>5. /\ diagnostics' \in [Threads -> SUBSET Content]
      /\ \A u \in Threads : u # t => diagnostics'[u] = diagnostics[u]
      /\ diagnostics'[t] # diagnostics[t] =>
           /\ Received(t, "diagnostics") /\ diagnostics'[t] = {Head(inbox[t]).about}
  BY <1>3 DEF Notification, EditsInv, TypeInv, TypeOK
<1>6. counter' \in [Threads -> 0 .. 2]
  <2>1. counter' = IF Received(t, "done")
                     THEN [counter EXCEPT ![t] = IF @ < 2 THEN @ + 1 ELSE 2] ELSE counter
    BY DEF Notification
  <2>2. counter \in [Threads -> 0 .. 2]
    BY DEF EditsInv, TypeInv, TypeOK
  <2>3. (IF counter[t] < 2 THEN counter[t] + 1 ELSE 2) \in 0 .. 2
    BY <2>2
  <2> QED
    BY <2>1, <2>2, <2>3
<1>7. TypeInv' /\ PhaseInv' /\ VersionInv' /\ LinesInv' /\ InboxInv'
  <2>1. Goes(t, place)
    BY <1>1 DEF Goes, serverVars, historyVars
  <2>2. /\ place \in Places /\ Slack(place) <= Slack(pc[t]) /\ place # "unborn"
        /\ place \in Exactly /\ pc[t] \in Exactly \cap Editing /\ pc[t] # "unborn"
    BY <1>1, <1>2 DEF Slack, Exactly, Editing, Places, Busy
  <2>3. /\ foreign' \in BOOLEAN
        /\ ~foreign' => ~foreign
        /\ crossed' \in BOOLEAN /\ answer' \in [Threads -> SUBSET Content]
        /\ asked' \in [Threads -> 0 .. 2] /\ owed' \in SUBSET Content
    BY <1>1 DEF EditsInv, TypeInv, TypeOK, historyVars, serverVars
  <2> QED
    BY <1>5, <1>6, <2>1, <2>2, <2>3, GoesKeepsInv
<1>8. \A u \in Threads : /\ u # t => pc'[u] = pc[u]
                         /\ pc'[t] \in Exactly /\ pc'[t] # "asked"
                         /\ Document(u)' = Document(u) /\ answer'[u] = answer[u]
                         /\ asked'[u] = asked[u]
  BY <1>1, <1>2 DEF EditsInv, TypeInv, TypeOK, Document, Exactly, Editing
<1>9. Alone => diagnostics'[t] \subseteq {Document(t)}
  <2>1. Alone => diagnostics[t] \subseteq {Document(t)}
    BY DEF EditsInv, AnswersInv
  <2>2. Alone /\ Received(t, "diagnostics") => Head(inbox[t]).about = Document(t)
    BY <1>1, <1>4 DEF Timely, Received, Editing
  <2> QED
    BY <1>5, <2>1, <2>2
<1>10. AnswersInv'
  <2>1. UNCHANGED <<foreign, overlong, crossed>>
    BY <1>1 DEF historyVars
  <2> QED
    BY <1>5, <1>8, <1>9, <2>1 DEF AnswersInv, EditsInv, Alone, ExactWhenAlone, AnswersAreExact,
       Exact, Document
<1> QED
  BY <1>7, <1>10 DEF EditsInv

LEMMA SettleKeepsInv ==
  ASSUME EditsInv, NEW t \in Threads, Settle(t)
  PROVE  EditsInv'
<1>1. /\ pc[t] = "settle"
      /\ UNCHANGED <<task, size, version, inbox, asked, serverVars, rebuildVars, historyVars>>
  BY DEF Settle
<1>2. PICK place \in {"query", "wait", "idle"} :
        /\ pc' = [pc EXCEPT ![t] = place]
        /\ place # "idle" => UNCHANGED <<answer, counter, diagnostics>>
        /\ place = "idle" => /\ answer' = [answer EXCEPT ![t] = diagnostics[t]] /\ Forget(t)
  BY DEF Settle, Succeed, Goto
<1>3. /\ counter' \in [Threads -> 0 .. 2] /\ diagnostics' \in [Threads -> SUBSET Content]
      /\ answer' \in [Threads -> SUBSET Content]
      /\ \A u \in Threads : u # t => diagnostics'[u] = diagnostics[u] /\ answer'[u] = answer[u]
      /\ place # "idle" => diagnostics'[t] = diagnostics[t] /\ answer'[t] = answer[t]
      /\ place = "idle" => diagnostics'[t] = {} /\ answer'[t] = diagnostics[t]
  <2>1. /\ counter \in [Threads -> 0 .. 2] /\ diagnostics \in [Threads -> SUBSET Content]
        /\ answer \in [Threads -> SUBSET Content]
    BY DEF EditsInv, TypeInv, TypeOK
  <2>2. CASE place = "idle"
    BY <1>2, <2>1, <2>2 DEF Forget
  <2>3. CASE place # "idle"
    BY <1>2, <2>1, <2>3
  <2> QED
    BY <2>2, <2>3
<1>4. TypeInv' /\ PhaseInv' /\ VersionInv' /\ LinesInv' /\ InboxInv'
  <2>1. Goes(t, place)
    BY <1>1, <1>2 DEF Goes, serverVars, historyVars
  <2>2. /\ place \in Places /\ Slack(place) <= Slack(pc[t]) /\ place # "unborn"
        /\ pc[t] \in Exactly \cap Editing /\ pc[t] # "unborn"
    BY <1>1, <1>2 DEF Slack, Exactly, Editing, Places, Busy
  <2>3. /\ foreign' \in BOOLEAN
        /\ ~foreign' => ~foreign
        /\ crossed' \in BOOLEAN /\ asked' \in [Threads -> 0 .. 2] /\ owed' \in SUBSET Content
    BY <1>1 DEF EditsInv, TypeInv, TypeOK, historyVars, serverVars
  <2> QED
    BY <1>3, <2>1, <2>2, <2>3, GoesKeepsInv
<1>5. /\ UNCHANGED <<foreign, overlong, crossed>>
      /\ pc'[t] = place
      /\ \A u \in Threads : /\ u # t => pc'[u] = pc[u]
                            /\ Document(u)' = Document(u) /\ asked'[u] = asked[u]
  BY <1>1, <1>2 DEF EditsInv, TypeInv, TypeOK, Document, historyVars
<1>6. AnswersInv'
  BY <1>2, <1>3, <1>5 DEF AnswersInv, EditsInv, Alone, ExactWhenAlone, AnswersAreExact, Exact,
     Document, Exactly, Editing
<1> QED
  BY <1>4, <1>6 DEF EditsInv

\* The steps that end a task or the opening of the document: the diagnostics are
\* forgotten, and the answer, if there is one, is about the task's document.
Ends(t) ==
  /\ pc'[t] \notin Exactly \cup {"woken"} /\ diagnostics' = [diagnostics EXCEPT ![t] = {}]
  /\ \A u \in Threads : u # t => answer'[u] = answer[u]
  /\ ~foreign' /\ ~overlong' /\ ~crossed' => answer'[t] \subseteq {Document(t)}

LEMMA EndsKeepsAnswers ==
  ASSUME EditsInv, NEW t \in Threads, Ends(t), UNCHANGED <<task, size, asked, overlong>>,
         pc' = [pc EXCEPT ![t] = pc'[t]], ~foreign' => ~foreign, ~crossed' => ~crossed
  PROVE  AnswersInv'
<1>1. /\ \A u \in Threads : u # t => pc'[u] = pc[u] /\ diagnostics'[u] = diagnostics[u]
      /\ diagnostics'[t] = {} /\ pc'[t] # "asked"
      /\ \A u \in Threads : Document(u)' = Document(u) /\ asked'[u] = asked[u]
  BY DEF Ends, EditsInv, TypeInv, TypeOK, Exactly, Document
<1>2. \A u \in Threads : pc'[u] \notin Exactly \cup {"woken"} => diagnostics'[u] = {}
  BY <1>1 DEF EditsInv, AnswersInv
<1>3. ASSUME Alone', NEW u \in Threads
      PROVE  diagnostics'[u] \subseteq {Document(u)'} /\ (pc'[u] = "asked" => asked'[u] = u)
  BY <1>1, <1>3 DEF EditsInv, AnswersInv, Alone
<1>4. ExactWhenAlone'
  <2> SUFFICES ASSUME ~foreign', ~overlong', ~crossed', NEW u \in Threads
               PROVE  answer'[u] \subseteq {Document(u)}
    BY <1>1 DEF ExactWhenAlone, AnswersAreExact, Exact, Document
  <2>1. answer[u] \subseteq {Document(u)}
    BY DEF EditsInv, AnswersInv, ExactWhenAlone, AnswersAreExact, Exact, Document
  <2> QED
    BY <2>1 DEF Ends
<1> QED
  BY <1>2, <1>3, <1>4 DEF AnswersInv

LEMMA PoisonedKeepsInv ==
  ASSUME EditsInv, NEW t \in Threads, Poisoned(t)
  PROVE  EditsInv'
<1>1. /\ pc[t] = "wait" /\ pc' = [pc EXCEPT ![t] = "gone"]
      /\ counter' = [counter EXCEPT ![t] = 0] /\ diagnostics' = [diagnostics EXCEPT ![t] = {}]
      /\ inbox[t] # <<>> /\ inbox' = [inbox EXCEPT ![t] = Tail(@)]
      /\ UNCHANGED <<task, size, version, answer, asked, serverVars, rebuildVars, historyVars>>
  BY DEF Poisoned, Goto, Forget
<1>2. /\ Goes(t, "gone") /\ "gone" \in Places /\ Slack("gone") <= Slack(pc[t])
      /\ "gone" \notin Exactly \cup Editing \cup {"woken"}
  BY <1>1 DEF Goes, serverVars, historyVars, Slack, Exactly, Editing, Places
<1>3. Ends(t) /\ pc' = [pc EXCEPT ![t] = pc'[t]]
  BY <1>1, <1>2 DEF Ends, EditsInv, TypeInv, TypeOK, AnswersInv, ExactWhenAlone, AnswersAreExact,
     Exact, Document, historyVars
<1>4. AnswersInv'
  BY <1>1, <1>3, EndsKeepsAnswers DEF historyVars
<1>5. /\ counter' \in [Threads -> 0 .. 2] /\ diagnostics' \in [Threads -> SUBSET Content]
      /\ foreign' \in BOOLEAN
      /\ ~foreign' => ~foreign
      /\ crossed' \in BOOLEAN /\ answer' \in [Threads -> SUBSET Content]
      /\ asked' \in [Threads -> 0 .. 2] /\ owed' \in SUBSET Content
  BY <1>1 DEF EditsInv, TypeInv, TypeOK, historyVars, serverVars
<1> QED
  BY <1>1, <1>2, <1>4, <1>5, GoesKeepsInv DEF EditsInv

LEMMA AskKeepsInv ==
  ASSUME EditsInv, NEW t \in Threads, Ask(t)
  PROVE  EditsInv'
<1>1. /\ pc[t] = "query" /\ inbox' = inbox /\ crossed' = crossed /\ answer' = answer
      /\ asked' = [asked EXCEPT ![t] = process] /\ foreign' = (foreign \/ t # process)
      /\ UNCHANGED <<task, size, version, serverVars, rebuildVars, taken, overlong>>
  BY DEF Ask
<1>2. PICK place \in {"asked", "idle"} :
        /\ pc' = [pc EXCEPT ![t] = place]
        /\ place = "asked" => UNCHANGED <<counter, diagnostics>>
        /\ place = "idle" => Forget(t)
  BY DEF Ask, Goto
<1>3. /\ counter' \in [Threads -> 0 .. 2] /\ diagnostics' \in [Threads -> SUBSET Content]
      /\ \A u \in Threads : u # t => diagnostics'[u] = diagnostics[u]
      /\ place = "asked" => diagnostics'[t] = diagnostics[t]
      /\ place = "idle" => diagnostics'[t] = {}
  <2>1. counter \in [Threads -> 0 .. 2] /\ diagnostics \in [Threads -> SUBSET Content]
    BY DEF EditsInv, TypeInv, TypeOK
  <2>2. CASE place = "idle"
    BY <1>2, <2>1, <2>2 DEF Forget
  <2>3. CASE place # "idle"
    BY <1>2, <2>1, <2>3
  <2> QED
    BY <2>2, <2>3
<1>4. /\ foreign' \in BOOLEAN
      /\ ~foreign' => ~foreign /\ t = process
  BY <1>1, Zenon DEF EditsInv, TypeInv, TypeOK
<1>5. /\ asked' \in [Threads -> 0 .. 2] /\ asked'[t] = process
      /\ \A u \in Threads : u # t => asked'[u] = asked[u]
  BY <1>1 DEF EditsInv, TypeInv, TypeOK, Threads
<1>6. TypeInv' /\ PhaseInv' /\ VersionInv' /\ LinesInv' /\ InboxInv'
  <2>1. Goes(t, place)
    BY <1>1, <1>2 DEF Goes, serverVars
  <2>2. /\ place \in Places /\ Slack(place) <= Slack(pc[t]) /\ place # "unborn"
        /\ pc[t] \in Exactly /\ place \notin Editing /\ pc[t] # "unborn"
    BY <1>1, <1>2 DEF Slack, Exactly, Editing, Places, Busy
  <2>3. /\ crossed' \in BOOLEAN /\ answer' \in [Threads -> SUBSET Content]
        /\ owed' \in SUBSET Content
    BY <1>1 DEF EditsInv, TypeInv, TypeOK, serverVars
  <2> QED
    BY <1>3, <1>4, <1>5, <2>1, <2>2, <2>3, GoesKeepsInv
<1>7. /\ pc'[t] = place
      /\ \A u \in Threads : /\ u # t => pc'[u] = pc[u]
                            /\ Document(u)' = Document(u) /\ answer'[u] = answer[u]
  BY <1>1, <1>2 DEF EditsInv, TypeInv, TypeOK, Document
<1>8. AnswersInv'
  <2>1. ~overlong' => ~overlong /\ crossed' = crossed
    BY <1>1
  <2> QED
    BY <1>1, <1>2, <1>3, <1>4, <1>5, <1>7, <2>1 DEF AnswersInv, EditsInv, Alone, ExactWhenAlone,
       AnswersAreExact, Exact, Document, Exactly, Editing
<1> QED
  BY <1>6, <1>8 DEF EditsInv

LEMMA AskFailsKeepsInv ==
  ASSUME EditsInv, NEW t \in Threads, AskFails(t)
  PROVE  EditsInv'
<1> DEFINE place == IF pc[t] = "asked" THEN "idle" ELSE "gone"
<1>1. /\ pc[t] \in {"asked", "woken"} /\ pc' = [pc EXCEPT ![t] = place]
      /\ counter' = [counter EXCEPT ![t] = 0] /\ diagnostics' = [diagnostics EXCEPT ![t] = {}]
      /\ owed' = owed \/ owed' = owed \cup {lines}
      /\ UNCHANGED <<task, size, version, answer, inbox, asked, process, alive,
                     docVars, rebuildVars, historyVars>>
  BY DEF AskFails, Goto, Forget
<1>2. place \in {"idle", "gone"}
  OBVIOUS
<1> HIDE DEF place
<1>3. /\ Goes(t, place) /\ place \in Places /\ Slack(place) <= Slack(pc[t])
      /\ place \notin Exactly \cup Editing \cup {"woken", "unborn"}
  BY <1>1, <1>2 DEF Goes, historyVars, Slack, Exactly, Editing, Places
<1>4. Ends(t) /\ pc' = [pc EXCEPT ![t] = pc'[t]]
  BY <1>1, <1>3 DEF Ends, EditsInv, TypeInv, TypeOK, AnswersInv, ExactWhenAlone, AnswersAreExact,
     Exact, Document, historyVars
<1>5. AnswersInv'
  BY <1>1, <1>4, EndsKeepsAnswers DEF historyVars
<1>6. /\ counter' \in [Threads -> 0 .. 2] /\ diagnostics' \in [Threads -> SUBSET Content]
      /\ foreign' \in BOOLEAN
      /\ ~foreign' => ~foreign
      /\ crossed' \in BOOLEAN /\ answer' \in [Threads -> SUBSET Content]
      /\ asked' \in [Threads -> 0 .. 2] /\ owed' \in SUBSET Content
  BY <1>1 DEF EditsInv, TypeInv, TypeOK, historyVars
<1> QED
  BY <1>1, <1>3, <1>5, <1>6, GoesKeepsInv DEF EditsInv

LEMMA OpenKeepsInv ==
  ASSUME EditsInv, NEW t \in Threads, Opened(t) \/ OpenFails(t)
  PROVE  EditsInv'
<1>1. PICK place \in {"open", "idle", "gone"} : pc' = [pc EXCEPT ![t] = place]
  BY DEF Opened, OpenFails, Goto, EditsInv, TypeInv, TypeOK
<1>2. /\ pc[t] = "open" /\ diagnostics' = diagnostics
      /\ \/ inbox' = inbox
         \/ inbox[t] # <<>> /\ inbox' = [inbox EXCEPT ![t] = Tail(@)]
      /\ UNCHANGED <<task, size, editVars, answer, asked, serverVars, rebuildVars, historyVars>>
  <2>1. CASE Opened(t)
    BY <2>1 DEF Opened, editVars
  <2>2. CASE OpenFails(t)
    BY <2>2 DEF OpenFails, Goto, editVars
  <2> QED
    BY <2>1, <2>2
<1>3. /\ Goes(t, place) /\ place \in Places /\ Slack(place) <= Slack(pc[t])
      /\ place \notin Exactly \cup Editing \cup {"woken", "unborn"}
  BY <1>1, <1>2 DEF Goes, historyVars, serverVars, editVars, Slack, Exactly, Editing, Places
<1>4. Ends(t) /\ pc' = [pc EXCEPT ![t] = pc'[t]]
  <2>1. pc'[t] = place /\ diagnostics[t] = {}
    BY <1>1, <1>2 DEF EditsInv, TypeInv, TypeOK, AnswersInv, Exactly, Editing
  <2> QED
    BY <1>1, <1>2, <1>3, <2>1 DEF Ends, EditsInv, TypeInv, TypeOK, AnswersInv, ExactWhenAlone,
       AnswersAreExact, Exact, Document, historyVars
<1>5. AnswersInv'
  BY <1>2, <1>4, EndsKeepsAnswers DEF historyVars
<1>6. /\ counter' \in [Threads -> 0 .. 2] /\ diagnostics' \in [Threads -> SUBSET Content]
      /\ foreign' \in BOOLEAN
      /\ ~foreign' => ~foreign
      /\ crossed' \in BOOLEAN /\ answer' \in [Threads -> SUBSET Content]
      /\ asked' \in [Threads -> 0 .. 2] /\ owed' \in SUBSET Content
  BY <1>2 DEF EditsInv, TypeInv, TypeOK, historyVars, serverVars, editVars
<1> QED
  BY <1>2, <1>3, <1>5, <1>6, GoesKeepsInv DEF EditsInv

\* A response reaches the thread that asked the present process: alone, that is
\* the thread whose document it holds.
LEMMA RespondKeepsInv ==
  ASSUME EditsInv, NEW t \in Threads, Respond(t) \/ RespondLate(t)
  PROVE  EditsInv'
<1>1. /\ pc[t] = "asked" /\ pc' = [pc EXCEPT ![t] = "idle"]
      /\ counter' = [counter EXCEPT ![t] = 0] /\ diagnostics' = [diagnostics EXCEPT ![t] = {}]
      /\ UNCHANGED <<task, size, version, inbox, asked, process, alive, docVars, rebuildVars,
                     taken, foreign, overlong>>
  BY DEF Respond, RespondLate, Succeed, Goto, Forget, serverVars, historyVars
<1>2. /\ lines \in Content /\ owed \in SUBSET Content /\ answer \in [Threads -> SUBSET Content]
      /\ diagnostics \in [Threads -> SUBSET Content]
  BY DEF EditsInv, TypeInv, TypeOK
<1>3. PICK about \in Content : answer' = [answer EXCEPT ![t] = diagnostics[t] \cup {about}]
  BY <1>2 DEF Respond, RespondLate, Succeed
<1>4. /\ owed' \in SUBSET Content /\ crossed' \in BOOLEAN
      /\ ~crossed' => /\ crossed' = crossed /\ asked[t] = process
                      /\ answer' = [answer EXCEPT ![t] = diagnostics[t] \cup {lines}]
  BY <1>2 DEF Respond, RespondLate, Succeed, serverVars, historyVars, EditsInv, TypeInv, TypeOK
<1>5. /\ Goes(t, "idle") /\ "idle" \in Places /\ Slack("idle") <= Slack(pc[t])
      /\ "idle" \notin Exactly \cup Editing \cup {"woken", "unborn"}
  BY <1>1 DEF Goes, Slack, Exactly, Editing, Places
<1>6. Alone /\ ~crossed' => answer'[t] \subseteq {Document(t)}
  <2> SUFFICES ASSUME Alone, ~crossed' PROVE answer'[t] \subseteq {Document(t)}
    OBVIOUS
  <2>1. diagnostics[t] \subseteq {Document(t)} /\ asked[t] = t
    BY <1>1 DEF EditsInv, AnswersInv
  <2>2. lines = Document(t)
    BY <1>1, <1>4, <2>1 DEF EditsInv, LinesInv, Exactly
  <2> QED
    BY <1>2, <1>4, <2>1, <2>2
<1>7. Ends(t) /\ pc' = [pc EXCEPT ![t] = pc'[t]]
  <2>1. pc'[t] = "idle" /\ \A u \in Threads : u # t => answer'[u] = answer[u]
    BY <1>1, <1>2, <1>3 DEF EditsInv, TypeInv, TypeOK
  <2> QED
    BY <1>1, <1>5, <1>6, <2>1 DEF Ends, Alone
<1>8. AnswersInv'
  <2>1. ~crossed' => ~crossed
    BY <1>4, Zenon
  <2>2. ~foreign' => ~foreign
    BY <1>1
  <2> QED
    BY <1>1, <1>7, <2>1, <2>2, EndsKeepsAnswers
<1>9. /\ counter' \in [Threads -> 0 .. 2] /\ diagnostics' \in [Threads -> SUBSET Content]
      /\ answer' \in [Threads -> SUBSET Content] /\ asked' \in [Threads -> 0 .. 2]
      /\ foreign' \in BOOLEAN
      /\ ~foreign' => ~foreign
  BY <1>1, <1>2, <1>3 DEF EditsInv, TypeInv, TypeOK
<1> QED
  BY <1>1, <1>4, <1>5, <1>8, <1>9, GoesKeepsInv DEF EditsInv

LEMMA ThreadKeepsInv ==
  ASSUME EditsInv, NEW t \in Threads, Thread(t)
  PROVE  EditsInv'
<1>1. ASSUME Edit(t) PROVE EditsInv'
  <2>1. pc[t] = "taken" /\ Edits(t, Text(task[t], size[t]), "wait")
    BY <1>1 DEF Edit, Edits
  <2> QED
    BY <2>1, EditsKeepInv
<1>2. ASSUME Deadline(t) PROVE EditsInv'
  <2>1. pc[t] = "wait" /\ Edits(t, <<>>, "idle")
    BY <1>2 DEF Deadline, Edits
  <2> QED
    BY <2>1, EditsKeepInv
<1> QED
  BY <1>1, <1>2, NotificationKeepsInv, SettleKeepsInv, PoisonedKeepsInv, AskKeepsInv,
     AskFailsKeepsInv, OpenKeepsInv DEF Thread

\* A message is added to some queues.
LEMMA AppendedIsSeq ==
  ASSUME NEW S, NEW q \in Seq(S), NEW m \in S
  PROVE  /\ Append(q, m) \in Seq(S) /\ Len(Append(q, m)) = Len(q) + 1
         /\ Len(q) \in Nat
         /\ \A i \in 1 .. Len(q) + 1 :
              \/ Append(q, m)[i] = m
              \/ i \in 1 .. Len(q) /\ Append(q, m)[i] = q[i]
<1>1. Len(q) \in Nat
  BY LenProperties
<1>2. \A i \in 1 .. Len(q) + 1 : i = Len(q) + 1 \/ i \in 1 .. Len(q)
  BY <1>1
<1>3. /\ Append(q, m) \in Seq(S) /\ Len(Append(q, m)) = Len(q) + 1
      /\ \A i \in 1 .. Len(q) : Append(q, m)[i] = q[i]
      /\ Append(q, m)[Len(q) + 1] = m
  BY AppendProperties
<1> QED
  BY <1>1, <1>2, <1>3

LEMMA MailKeepsInv ==
  ASSUME EditsInv, NEW m, NEW to \in SUBSET Threads,
         m \in Message,
         inbox' = [t \in Threads |-> IF t \in to THEN Append(inbox[t], m) ELSE inbox[t]],
         Alone => \A t \in to : Timely(t, m),
         UNCHANGED <<threadVars, process, alive, isOpen, docVersion, lines, owed, historyVars>>,
         published' \in 0 .. 3, snapshot' \in SUBSET Threads, PhaseInv',
         phase' \in {"up", "poison", "fail", "kill", "connect", "create", "done"}
  PROVE  EditsInv'
<1>1. \A t \in Threads : inbox[t] \in Seq(Message)
  BY DEF EditsInv, TypeInv, TypeOK
<1>2. m \in Message /\ \A t \in Threads : inbox'[t] = IF t \in to THEN Append(inbox[t], m) ELSE inbox[t]
  OBVIOUS
<1>3. \A t \in Threads :
        /\ inbox'[t] \in Seq(Message)
        /\ \A i \in 1 .. Len(inbox'[t]) :
             \/ t \in to /\ inbox'[t][i] = m
             \/ \E j \in 1 .. Len(inbox[t]) : inbox'[t][i] = inbox[t][j]
  BY <1>1, <1>2, AppendedIsSeq
<1>4. TypeInv'
  <2>1. DOMAIN inbox' = Threads
    OBVIOUS
  <2> QED
    BY <1>3, <2>1 DEF Message, EditsInv, TypeInv, TypeOK, threadVars, editVars, historyVars
<1>5. VersionInv' /\ LinesInv' /\ AnswersInv'
  BY DEF EditsInv, VersionInv, LinesInv, AnswersInv, ExactWhenAlone, AnswersAreExact, Exact,
     Alone, Document, threadVars, editVars, historyVars
<1>6. InboxInv'
  <2> SUFFICES ASSUME Alone, NEW t \in Threads, NEW i \in 1 .. Len(inbox'[t])
               PROVE  Timely(t, inbox[t][i])'
    BY DEF InboxInv, Alone, historyVars
  <2>1. \A x : Timely(t, x) =>
          /\ x.version <= version'[t]
          /\ x.method = "diagnostics" /\ x.version = version'[t] /\ pc'[t] \in Editing =>
               x.about = Document(t)'
    BY DEF Timely, Document, threadVars, editVars
  <2>2. Timely(t, inbox'[t][i])
    BY <1>3 DEF EditsInv, InboxInv
  <2> QED
    BY <2>1, <2>2 DEF Timely
<1> QED
  BY <1>4, <1>5, <1>6 DEF EditsInv

LEMMA PublishKeepsInv ==
  ASSUME EditsInv, Publish
  PROVE  EditsInv'
<1> DEFINE m == [method |-> Publications[published + 1], version |-> docVersion, about |-> lines]
           to == IF pc[process] = "gone" THEN {} ELSE {process}
<1>1. /\ published \in 0 .. 2 /\ docVersion \in Versions /\ lines \in Content
      /\ process \in Threads /\ isOpen /\ DOMAIN inbox = Threads
  BY DEF Publish, Publications, EditsInv, TypeInv, TypeOK
<1>2. /\ m \in Message
      /\ m.version = docVersion /\ m.about = lines
  <2>1. published + 1 \in {1, 2, 3}
    BY <1>1
  <2>2. Publications[published + 1] \in {"done", "diagnostics"}
    BY <2>1 DEF Publications
  <2> QED
    BY <1>1, <2>2 DEF Message
<1>3. /\ published' = published + 1
      /\ inbox' = [inbox EXCEPT ![process] = IF pc[process] = "gone" THEN @ ELSE Append(@, m)]
      /\ UNCHANGED <<threadVars, process, alive, isOpen, docVersion, lines, owed,
                     rebuildVars, historyVars>>
  BY DEF Publish
<1> HIDE DEF m
<1>4. inbox' = [t \in Threads |-> IF t \in to THEN Append(inbox[t], m) ELSE inbox[t]]
  BY <1>1, <1>3
<1>5. Alone => \A t \in to : Timely(t, m)
  BY <1>1, <1>2 DEF Timely, Alone, EditsInv, VersionInv, LinesInv, Exactly
<1>6. /\ to \in SUBSET Threads /\ published' \in 0 .. 3 /\ snapshot' \in SUBSET Threads
      /\ PhaseInv'
      /\ phase' \in {"up", "poison", "fail", "kill", "connect", "create", "done"}
  BY <1>1, <1>3 DEF EditsInv, TypeInv, TypeOK, PhaseInv, rebuildVars, threadVars
<1> QED
  BY <1>2, <1>3, <1>4, <1>5, <1>6, MailKeepsInv

LEMMA PoisonKeepsInv ==
  ASSUME EditsInv, Snapshot \/ PoisonWorkers
  PROVE  EditsInv'
<1> DEFINE to == IF Snapshot THEN {} ELSE snapshot
<1>1. /\ UNCHANGED <<threadVars, serverVars, historyVars>>
      /\ inbox' = [t \in Threads |-> IF t \in to THEN Append(inbox[t], Poison) ELSE inbox[t]]
  <2>1. inbox \in [Threads -> Seq(Message)]
    BY DEF EditsInv, TypeInv
  <2>2. CASE Snapshot
    BY <2>1, <2>2 DEF Snapshot
  <2>3. CASE ~Snapshot
    BY <2>3 DEF PoisonWorkers
  <2> QED
    BY <2>2, <2>3
<1>2. /\ Poison \in Message
      /\ Poison.version = 0 /\ Poison.method = "poison"
  BY TasksAssumption, EmptySeq DEF Poison, Message, Versions, Content
<1>3. /\ to \in SUBSET Threads /\ published' \in 0 .. 3 /\ snapshot' \in SUBSET Threads
      /\ phase' \in {"up", "poison", "fail", "kill", "connect", "create", "done"}
  BY <1>1 DEF EditsInv, TypeInv, TypeOK, Snapshot, PoisonWorkers, serverVars, docVars
<1>4. PhaseInv'
  BY <1>1 DEF EditsInv, PhaseInv, Snapshot, PoisonWorkers, serverVars, docVars, threadVars
<1>5. \A t \in Threads : Timely(t, Poison)
  BY <1>2, TasksAssumption DEF Timely, EditsInv, TypeInv, TypeOK, Versions
<1> HIDE DEF to
<1> QED
  BY <1>1, <1>2, <1>3, <1>4, <1>5, MailKeepsInv DEF serverVars, docVars

LEMMA FailPendingKeepsInv ==
  ASSUME EditsInv, FailPending
  PROVE  EditsInv'
<1>1. /\ phase = "fail" /\ phase' = "kill"
      /\ pc' = [t \in Threads |-> IF pc[t] = "asked" THEN "woken" ELSE pc[t]]
      /\ UNCHANGED <<task, size, version, counter, diagnostics, answer, inbox, asked, process,
                     alive, isOpen, docVersion, lines, published, owed, snapshot, taken,
                     foreign, overlong, crossed>>
  BY DEF FailPending, editVars, serverVars, docVars, historyVars
<1>2. \A t \in Threads : /\ \/ pc'[t] = pc[t]
                            \/ pc[t] = "asked" /\ pc'[t] = "woken"
                         /\ Slack(pc'[t]) = Slack(pc[t]) /\ Document(t)' = Document(t)
  BY <1>1 DEF Slack, Editing, Document
<1>3. TypeInv'
  <2>1. pc' \in [Threads -> Places]
    BY <1>1 DEF EditsInv, TypeInv, TypeOK, Places, Busy
  <2> QED
    BY <1>1, <1>2, <2>1 DEF EditsInv, TypeInv, TypeOK
<1>4. PhaseInv' /\ VersionInv'
  BY <1>1, <1>2 DEF EditsInv, PhaseInv, VersionInv, Threads
<1>5. LinesInv' /\ InboxInv' /\ AnswersInv'
  <2>1. process \in Threads
    BY DEF EditsInv, TypeInv, TypeOK
  <2>2. LinesInv'
    BY <1>1, <1>2, <2>1 DEF EditsInv, LinesInv, Alone, Exactly, Editing
  <2>3. InboxInv'
    BY <1>1, <1>2 DEF EditsInv, InboxInv, Timely, Alone, Editing
  <2>4. AnswersInv'
    BY <1>1, <1>2 DEF EditsInv, AnswersInv, Alone, Exactly, Editing, ExactWhenAlone,
       AnswersAreExact, Exact, Document
  <2> QED
    BY <2>2, <2>3, <2>4
<1> QED
  BY <1>3, <1>4, <1>5 DEF EditsInv

\* The server crashes, is killed and replaced; the new one holds the document only
\* once the pool has been created, with a thread that has not edited it.
LEMMA ServerKeepsInv ==
  ASSUME EditsInv, Crash \/ Kill \/ Connect \/ CreatePool
  PROVE  EditsInv'
<1>1. /\ UNCHANGED <<task, size, editVars, answer, inbox, asked, snapshot, historyVars>>
      /\ owed' \in {owed, {}}
  BY DEF Crash, Kill, Connect, CreatePool, threadVars, rebuildVars, historyVars, serverVars
<1>2. /\ process' \in Threads /\ alive' \in BOOLEAN /\ isOpen' \in BOOLEAN
      /\ phase' \in {"up", "poison", "fail", "kill", "connect", "create", "done"}
      /\ published' \in 0 .. 3
  <2>1. CASE Crash
    BY <2>1 DEF Crash, rebuildVars, docVars, EditsInv, TypeInv, TypeOK
  <2>3. CASE CreatePool
    <3>1. process' = process /\ alive' = alive /\ isOpen' = TRUE
      BY <2>3 DEF CreatePool
    <3>2. process \in Threads /\ alive' \in BOOLEAN /\ isOpen' \in BOOLEAN
      BY <3>1, Zenon DEF EditsInv, TypeInv, TypeOK
    <3> QED
      BY <2>3, <3>1, <3>2 DEF CreatePool
  <2>2. CASE Kill \/ Connect
    BY <2>2 DEF Kill, Connect, docVars, EditsInv, TypeInv, TypeOK, Threads
  <2> QED
    BY <2>1, <2>2, <2>3
<1>3. /\ docVersion' \in Versions /\ lines' \in Content /\ Len(lines') >= First
      /\ \/ UNCHANGED <<docVersion, lines, pc>>
         \/ /\ CreatePool /\ docVersion' = 0 /\ lines' = Imports
            /\ pc[2] = "unborn" /\ pc' = [pc EXCEPT ![2] = "open"]
            /\ process' = 2
  <2>1. CASE UNCHANGED <<docVersion, lines, pc>>
    BY <2>1 DEF EditsInv, TypeInv, TypeOK
  <2>2. CASE CreatePool
    BY <2>2, ImportsAreContent, RangeAssumption, TasksAssumption
       DEF CreatePool, EditsInv, PhaseInv, Versions
  <2> QED
    BY <2>1, <2>2 DEF Crash, Kill, Connect, docVars, threadVars
<1>4. \A t \in Threads : /\ \/ pc'[t] = pc[t]
                            \/ pc[t] = "unborn" /\ pc'[t] = "open"
                         /\ pc'[t] = pc[t] \/ CreatePool
                         /\ Slack(pc'[t]) = Slack(pc[t]) /\ Document(t)' = Document(t)
  BY <1>1, <1>3 DEF Slack, Editing, Document, EditsInv, TypeInv, TypeOK
<1>5. TypeInv'
  <2>1. pc' \in [Threads -> Places]
    BY <1>3 DEF EditsInv, TypeInv, TypeOK, Places, Busy
  <2> QED
    BY <1>1, <1>2, <1>3, <1>4, <2>1 DEF EditsInv, TypeInv, TypeOK, editVars, historyVars
<1>6. PhaseInv'
  BY DEF EditsInv, PhaseInv, TypeInv, TypeOK, Crash, Kill, Connect, CreatePool, threadVars,
         rebuildVars, docVars
<1>7. VersionInv'
  <2>1. version[process'] \in Nat
    BY <1>2, TasksAssumption DEF EditsInv, TypeInv, TypeOK, Versions
  <2>2. CASE Crash
    BY <2>2 DEF Crash, threadVars, editVars, docVars, historyVars, EditsInv, VersionInv
  <2>3. CASE Kill
    BY <2>3 DEF Kill, VersionInv
  <2>4. CASE Connect
    BY <2>4 DEF Connect, docVars, VersionInv, EditsInv, PhaseInv
  <2>5. CASE CreatePool
    <3>1. docVersion' = 0 /\ process' = process /\ version' = version
      BY <2>5 DEF CreatePool, editVars
    <3> QED
      BY <2>1, <3>1 DEF VersionInv
  <2> QED
    BY <2>2, <2>3, <2>4, <2>5
<1>8. LinesInv'
  <2> SUFFICES ASSUME Alone
               PROVE  /\ \E k \in Nat, n \in 0 .. (LastLine - First) :
                           lines' = Imports \o Text(k, n)
                      /\ pc'[process'] \in Exactly => lines' = Document(process)'
    BY <1>1 DEF LinesInv, Alone, historyVars
  <2>1. CASE CreatePool
    <3>1. Text(0, 0) = <<>> /\ 0 \in 0 .. (LastLine - First) /\ Imports \o <<>> = Imports
      BY RangeAssumption, ImportsAreContent, ConcatEmptySeq DEF Text
    <3>2. lines' = Imports /\ pc'[process'] \notin Exactly
      BY <2>1 DEF CreatePool, EditsInv, PhaseInv, TypeInv, TypeOK, Exactly, Editing, Threads
    <3> QED
      BY <3>1, <3>2
  <2>2. CASE Crash \/ Kill \/ Connect
    <3>1. UNCHANGED <<lines, pc>>
      BY <2>2 DEF Crash, Kill, Connect, docVars, threadVars
    <3>2. process' = process \/ pc[process'] = "unborn"
      BY <2>2 DEF Crash, Kill, Connect, EditsInv, PhaseInv
    <3> QED
      BY <1>1, <3>1, <3>2 DEF EditsInv, LinesInv, Document, Exactly, Editing
  <2> QED
    BY <2>1, <2>2
<1>9. InboxInv'
  BY <1>1, <1>4 DEF EditsInv, InboxInv, Timely, Alone, Editing, editVars, historyVars
<1>10. AnswersInv'
  BY <1>1, <1>4 DEF EditsInv, AnswersInv, Alone, Exactly, Editing, ExactWhenAlone,
     AnswersAreExact, Exact, Document, editVars, historyVars
<1> QED
  BY <1>5, <1>6, <1>7, <1>8, <1>9, <1>10 DEF EditsInv

-----------------------------------------------------------------------------
(* The theorems                                                            *)

LEMMA EditsInductive == EditsInv /\ [Next]_vars => EditsInv'
<1> SUFFICES ASSUME EditsInv, [Next]_vars PROVE EditsInv'
  OBVIOUS
<1>1. CASE UNCHANGED vars
  BY <1>1 DEF vars, threadVars, editVars, serverVars, docVars, rebuildVars, historyVars,
     EditsInv, TypeInv, TypeOK, PhaseInv, VersionInv, LinesInv, InboxInv, Timely, AnswersInv,
     ExactWhenAlone, AnswersAreExact, Exact, Alone, Document
<1>2. CASE Next
  BY <1>2, TakeKeepsInv, ThreadKeepsInv, RespondKeepsInv, PublishKeepsInv, PoisonKeepsInv,
     FailPendingKeepsInv, ServerKeepsInv DEF Next, Server, Rebuild
<1> QED
  BY <1>1, <1>2

LEMMA EditsInvariant == Spec => []EditsInv
BY InitInv, EditsInductive, PTL DEF Spec

\* Every variable keeps its type: a task uses two versions of its document at
\* most, and nothing is counted twice (worker.py: _didchange).
THEOREM EditsTypeCorrect == Spec => []TypeOK
<1>1. EditsInv => TypeOK
  BY DEF EditsInv, TypeInv
<1> QED
  BY <1>1, EditsInvariant, PTL

\* An answer is about the imports and the text of its task, unless a replaced
\* thread used the document, a text reached beyond content_range, or an answer
\* came late (worker.py: _didchange and the requests after it).
THEOREM AnswersAreAboutTheTask == Spec => []ExactWhenAlone
<1>1. EditsInv => ExactWhenAlone
  BY DEF EditsInv, AnswersInv
<1> QED
  BY <1>1, EditsInvariant, PTL

\* A poisoned edit does not succeed, whenever the poison arrives (worker.py: the
\* loop of _didchange and its sleep).
THEOREM PoisonEndsEdit == Spec => PoisonStopsEdit
<1>1. EditsInv /\ [Next]_vars =>
        [\A t \in Threads :
           pc[t] \in Editing /\ (\E i \in DOMAIN inbox[t] : inbox[t][i] = Poison)
             => pc'[t] # "query" /\ answer'[t] = answer[t]]_vars
  <2> SUFFICES ASSUME EditsInv, Next, NEW t \in Threads, pc[t] \in Editing,
                      NEW i \in DOMAIN inbox[t], inbox[t][i] = Poison
               PROVE  pc'[t] # "query" /\ answer'[t] = answer[t]
    OBVIOUS
  <2>1. inbox[t] # <<>> /\ pc[t] \in {"wait", "settle"}
    BY DEF Editing
  <2>2. pc \in [Threads -> Places] /\ answer \in [Threads -> SUBSET Content]
    BY DEF EditsInv, TypeInv, TypeOK
  <2>3. ASSUME NEW u \in Threads, Take(u) \/ Thread(u)
        PROVE  pc'[t] # "query" /\ answer'[t] = answer[t]
    BY <2>1, <2>2, <2>3 DEF Take, Thread, Edit, Notification, Settle, Succeed, Deadline, Poisoned,
       Ask, AskFails, Opened, OpenFails, Goto
  <2>4. CASE Server
    BY <2>1, <2>2, <2>4 DEF Server, Publish, Respond, RespondLate, Succeed, Goto, Crash, threadVars
  <2>5. CASE Snapshot \/ Rebuild
    BY <2>1, <2>2, <2>5 DEF Snapshot, Rebuild, PoisonWorkers, FailPending, Kill, Connect, CreatePool,
       threadVars, EditsInv, PhaseInv
  <2> QED
    BY <2>3, <2>4, <2>5 DEF Next
<1> QED
  BY <1>1, EditsInvariant, PTL DEF Spec, PoisonStopsEdit

\* The versions of the open document increase (worker.py: document_version).
THEOREM VersionsGrow == Spec => VersionsIncrease
<1>1. EditsInv /\ [Next]_vars =>
        [isOpen /\ lines' # lines /\ ~foreign' => docVersion' > docVersion]_vars
  <2> SUFFICES ASSUME EditsInv, Next, isOpen, lines' # lines, ~foreign'
               PROVE  docVersion' > docVersion
    OBVIOUS
  <2>1. PICK t \in Threads : Edit(t) \/ Deadline(t)
    BY DEF Next, Take, Thread, Notification, Settle, Poisoned, Ask, AskFails, Opened, OpenFails,
       Server, Publish, Respond, RespondLate, Crash, Snapshot, Rebuild, PoisonWorkers,
       FailPending, Kill, Connect, CreatePool, EditsInv, PhaseInv, serverVars, docVars
  <2>2. PICK text \in Seq(0 .. MaxTasks) :
          alive /\ Change(t, text) /\ version'[t] = version[t] + 1
    BY <2>1, TaskText, EmptySeq DEF Edit, Deadline, serverVars, docVars, EditsInv, TypeInv, TypeOK
  <2>3. EditsInv'
    BY EditsInductive
  <2>4. version'[t] \in Versions /\ docVersion \in Versions /\ docVersion' \in Versions
    BY <2>3 DEF EditsInv, TypeInv, TypeOK
  <2>5. docVersion < docVersion'
    BY <2>2, <2>4, ChangeIsApplied
  <2> QED
    BY <2>4, <2>5, TasksAssumption DEF Versions
<1> QED
  BY <1>1, EditsInvariant, PTL DEF Spec, VersionsIncrease
=============================================================================
