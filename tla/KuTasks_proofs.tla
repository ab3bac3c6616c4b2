--------------------------- MODULE KuTasks_proofs ---------------------------
(***************************************************************************)
(* Proofs about KuTasks, for any number of tasks and files: the types,     *)
(* what the rows say of the threads, the verdicts, and the tasks the user  *)
(* holds.                                                                  *)
(***************************************************************************)
EXTENDS KuTasks, FiniteSetTheorems, WellFoundedInduction, TLAPS

-----------------------------------------------------------------------------
(* The inductive invariant.                                                *)

\* The rows and their cells: a task has one row at most, and only after OnNew.
RowsDistinct ==
  /\ Len(text) = Len(rows)
  /\ \A i, j \in DOMAIN rows : rows[i] = rows[j] => i = j
  /\ \A i \in DOMAIN rows : thread[rows[i]] # "none"

\* The state of a thread, where it is in Entry() and OnExit(), and what the
\* dialog knows of it.
Phase(t) ==
  /\ thread[t] = "none" => wpc[t] = "none" /\ ~ptr[t] /\ ~queuing[t] /\ ~cancel[t]
  /\ thread[t] = "new" => wpc[t] = "none" /\ ptr[t] /\ ~queuing[t] /\ ~cancel[t]
  /\ thread[t] \in {"running", "paused"} => wpc[t] \in {"start", "test", "file"} /\ ptr[t]
  /\ thread[t] = "running" /\ ~cancel[t] => ~queuing[t]
  /\ thread[t] = "exited" => wpc[t] = "exit" /\ ptr[t]
  /\ thread[t] = "freed" => \/ wpc[t] = "gone" /\ ~ptr[t]
                            \/ wpc[t] = "none" /\ ptr[t] /\ cancel[t]
  /\ t \in pending => thread[t] = "freed" /\ ~ptr[t]

\* What the thread has done while it works, file by file.
Work(t) ==
  /\ wpc[t] \in {"none", "start"} =>
       current[t] = 0 /\ failed[t] = 0 /\ done[t] = 0 /\ error[t] = "none"
  /\ wpc[t] = "test" => current[t] \in 0..Count - 1 /\ done[t] + failed[t] = current[t] + 1
  /\ wpc[t] = "file" => current[t] \in 0..Count - 1 /\ done[t] + failed[t] = current[t]
  /\ wpc[t] \in {"test", "file"} => error[t] = IF failed[t] = 0 THEN "none" ELSE "file"

\* What it has done when Entry() has returned.
Verdict(t) ==
  wpc[t] \in {"exit", "gone"} =>
    IF current[t] = Count
    THEN done[t] + failed[t] = Count /\ (error[t] = "none" <=> failed[t] = 0)
    ELSE cancel[t] \/ (error[t] = "dest" /\ done[t] < Count)

\* What the cell x says of a task that has ended, once its STATUS event is handled.
Says(x, t) ==
  wpc[t] = "gone" /\ t \notin pending => x = Status(t, thread[t], queuing[t])

\* What it says of one that has not, and that the user has not cancelled.
Tells(x, t) ==
  ptr[t] /\ thread[t] # "exited" /\ ~cancel[t] =>
    /\ thread[t] = "running" => x = "Running"
    /\ thread[t] = "new" => x = "Queuing"
    /\ thread[t] = "paused" => x = IF queuing[t] THEN "Queuing" ELSE "Paused"

Cell(x, t) == Verdict(t) /\ Says(x, t) /\ Tells(x, t)

Threads == \A t \in Tasks : Phase(t) /\ Work(t)
Cells   == \A i \in DOMAIN rows : Cell(text[i], rows[i])

IInv == TypeOK /\ RowsDistinct /\ Threads /\ Cells

-----------------------------------------------------------------------------
(* Lemmas about the operators.                                             *)

\* Each row is of a task, and each cell holds one of the texts.
LEMMA RowTypes ==
  ASSUME TypeOK, Len(text) = Len(rows)
  PROVE  /\ Len(rows) \in Nat /\ DOMAIN rows = 1..Len(rows)
         /\ DOMAIN text = DOMAIN rows
         /\ \A i \in DOMAIN rows : rows[i] \in Tasks /\ text[i] \in Text
  BY DEF TypeOK

\* GetStatusString always answers with one of the texts.
LEMMA StatusType ==
  ASSUME NEW s, NEW q \in BOOLEAN, NEW p \in BOOLEAN, NEW c, NEW e
  PROVE  StatusString(s, q, p, c, e) \in Text
  <1>1. CASE p
    <2>1. CASE s = "paused" /\ q
      BY <1>1, <2>1 DEF StatusString, Text
    <2>2. CASE s = "paused" /\ ~q
      BY <1>1, <2>2 DEF StatusString, Text
    <2>3. CASE s = "running"
      BY <1>1, <2>3 DEF StatusString, Text
    <2>4. CASE s \notin {"paused", "running"}
      BY <1>1, <2>4 DEF StatusString, Text
    <2>5. QED
      BY <2>1, <2>2, <2>3, <2>4
  <1>2. CASE ~p
    <2>1. CASE c = Count /\ e = "none"
      BY <1>2, <2>1 DEF StatusString, Text
    <2>2. CASE c = Count /\ e # "none"
      BY <1>2, <2>2 DEF StatusString, Text
    <2>3. CASE c # Count /\ e = "none"
      BY <1>2, <2>3 DEF StatusString, Text
    <2>4. CASE c # Count /\ e # "none"
      BY <1>2, <2>4 DEF StatusString, Text
    <2>5. QED
      BY <2>1, <2>2, <2>3, <2>4
  <1>3. QED
    BY <1>1, <1>2

\* The place from which an exchange of i and j takes what it puts at k.
Other(k, i, j) == IF k = j THEN i ELSE IF k = i THEN j ELSE k

\* Exchanging two elements of a sequence.
LEMMA SwappedProps ==
  ASSUME NEW S, NEW s \in Seq(S), NEW i \in DOMAIN s, NEW j \in DOMAIN s
  PROVE  /\ Swapped(s, i, j) \in Seq(S)
         /\ Len(Swapped(s, i, j)) = Len(s)
         /\ DOMAIN Swapped(s, i, j) = DOMAIN s
         /\ \A k \in DOMAIN s : /\ Other(k, i, j) \in DOMAIN s
                               /\ Swapped(s, i, j)[k] = s[Other(k, i, j)]
  BY DEF Swapped, Other

\* Taking an element out of a sequence.
LEMMA RemoveAtProps ==
  ASSUME NEW S, NEW s \in Seq(S), NEW i \in DOMAIN s
  PROVE  /\ RemoveAt(s, i) \in Seq(S)
         /\ Len(RemoveAt(s, i)) = Len(s) - 1
         /\ DOMAIN RemoveAt(s, i) = 1..Len(s) - 1
         /\ \A k \in 1..Len(s) - 1 :
              RemoveAt(s, i)[k] = s[IF k < i THEN k ELSE k + 1]
  <1>1. Len(s) \in Nat /\ DOMAIN s = 1..Len(s) /\ i \in 1..Len(s)
    OBVIOUS
  <1>2. \A k \in 1..Len(s) - 1 : RemoveAt(s, i)[k] = s[IF k < i THEN k ELSE k + 1]
    BY <1>1 DEF RemoveAt
  <1>3. \A k \in 1..Len(s) - 1 : RemoveAt(s, i)[k] \in S
    BY <1>1, <1>2
  <1>4. RemoveAt(s, i) = [k \in 1..Len(s) - 1 |-> RemoveAt(s, i)[k]]
    BY <1>1 DEF RemoveAt
  <1>5. Len(s) - 1 \in Nat
    BY <1>1
  <1>6. RemoveAt(s, i) \in Seq(S)
    BY <1>3, <1>4, <1>5
  <1>7. QED
    BY <1>1, <1>2, <1>4, <1>5, <1>6

\* What one turn of the loop makes of a row, whatever was counted before.
Turn(s, q, state, queue, then) ==
  \/ s = "running" /\ state = "running" /\ queue = q /\ then = "go on"
  \/ s = "running" /\ state = "paused" /\ queue = TRUE /\ then = "write"
  \/ s = "paused" /\ state = "paused" /\ queue = q /\ then = "go on"
  \/ s = "paused" /\ q /\ state = "running" /\ queue = FALSE /\ then = "write"
  \/ s \notin {"running", "paused"} /\ state = AfterRun(s) /\ queue = q /\ then = "write"
  \/ s \notin {"running", "paused"} /\ state = s /\ queue = q /\ then = "break"

\* CheckRow, and the three cases it is made of, keep to it.
LEMMA CheckRowProps ==
  ASSUME NEW s, NEW q \in BOOLEAN, NEW n
  PROVE  Turn(s, q, CheckRow(s, q, n).state, CheckRow(s, q, n).queuing, CheckRow(s, q, n).then)
  <1>1. CASE s = "running"
    BY <1>1 DEF CheckRow, CheckRunning, Row, Turn
  <1>2. CASE s = "paused"
    BY <1>2 DEF CheckRow, CheckPaused, Row, Turn
  <1>3. CASE s \notin {"running", "paused"}
    BY <1>3 DEF CheckRow, CheckStart, Row, Turn
  <1>4. QED
    BY <1>1, <1>2, <1>3

\* What a check makes of one task, and whether it writes the task's cell.
Checks(t, written) ==
  \/ /\ thread'[t] = thread[t] /\ queuing'[t] = queuing[t] /\ wpc'[t] = wpc[t]
     /\ written => thread[t] = "exited"
  \/ /\ thread[t] = "running" /\ thread'[t] = "paused" /\ queuing'[t] = TRUE
     /\ wpc'[t] = wpc[t] /\ written
  \/ /\ thread[t] = "paused" /\ queuing[t] /\ thread'[t] = "running"
     /\ queuing'[t] = FALSE /\ wpc'[t] = wpc[t] /\ written
  \/ /\ thread[t] = "new" /\ thread'[t] = "running" /\ queuing'[t] = queuing[t]
     /\ wpc'[t] = "start" /\ written

\* What a check makes of all of them, if the program does not crash in it.
CheckOfAll(written) ==
  /\ \A t \in Tasks : Checks(t, written[t])
  /\ text' = [i \in DOMAIN text |->
                IF written[rows[i]]
                THEN Status(rows[i], thread'[rows[i]], queuing'[rows[i]])
                ELSE text[i]]
  /\ thread' \in [Tasks -> ThreadState]
  /\ queuing' \in [Tasks -> BOOLEAN]
  /\ wpc' \in [Tasks -> Place]
  /\ ui' = "idle"
  /\ UNCHANGED <<rows, ptr, cancel, taskVars, pending, maxCon, left>>

\* A check changes each task by itself: the rest of the proofs need not know
\* what its loop has counted.
LEMMA CheckEffect ==
  ASSUME IInv, CheckConcurrentRun
  PROVE  Over("crashed") \/ \E written \in [Tasks -> BOOLEAN] : CheckOfAll(written)
  <1>1. PICK vanished \in SUBSET Ended :
       LET loop == Loop(vanished)
           Reached == {i \in DOMAIN rows : loop[i].on /\ ptr[rows[i]]}
           Looked == {rows[i] : i \in {j \in Reached : ~Passed(rows[j], vanished)}}
           Result(t) ==
             IF t \in Looked
             THEN CheckRow(thread[t], queuing[t], loop[RowOf(t)].n)
             ELSE Row(thread[t], queuing[t], 0, "go on")
       IN  \/ /\ \A t \in Looked : thread[t] # "freed"
              /\ thread' = [t \in Tasks |-> Result(t).state]
              /\ queuing' = [t \in Tasks |-> Result(t).queuing]
              /\ wpc' = [t \in Tasks |->
                    IF thread[t] = "new" /\ Result(t).state = "running"
                    THEN "start" ELSE wpc[t]]
              /\ text' = [i \in DOMAIN text |->
                    LET t == rows[i] IN
                    IF Result(t).then = "write"
                    THEN Status(t, Result(t).state, Result(t).queuing)
                    ELSE text[i]]
              /\ ui' = "idle"
              /\ UNCHANGED <<rows, ptr, cancel, taskVars, pending, maxCon>>
           \/ (\E i \in Reached : MayCrash(rows[i])) /\ Over("crashed")
    BY DEF CheckConcurrentRun
  <1> DEFINE loop == Loop(vanished)
             Reached == {i \in DOMAIN rows : loop[i].on /\ ptr[rows[i]]}
             Looked == {rows[i] : i \in {j \in Reached : ~Passed(rows[j], vanished)}}
             Result(t) ==
               IF t \in Looked
               THEN CheckRow(thread[t], queuing[t], loop[RowOf(t)].n)
               ELSE Row(thread[t], queuing[t], 0, "go on")
             written == [t \in Tasks |-> Result(t).then = "write"]
  <1>2. CASE Over("crashed")
    BY <1>2
  <1>3. CASE ~Over("crashed")
    <2>1. /\ \A t \in Looked : thread[t] # "freed"
          /\ thread' = [t \in Tasks |-> Result(t).state]
          /\ queuing' = [t \in Tasks |-> Result(t).queuing]
          /\ wpc' = [t \in Tasks |->
                IF thread[t] = "new" /\ Result(t).state = "running"
                THEN "start" ELSE wpc[t]]
          /\ text' = [i \in DOMAIN text |->
                IF Result(rows[i]).then = "write"
                THEN Status(rows[i], Result(rows[i]).state, Result(rows[i]).queuing)
                ELSE text[i]]
          /\ ui' = "idle"
          /\ UNCHANGED <<rows, ptr, cancel, taskVars, pending, maxCon>>
      BY <1>1, <1>3, Zenon
    <2>2. \A t \in Looked : ptr[t]
      BY DEF Passed
    <2> HIDE DEF loop, Reached, Looked
    <2>3. left' = left
      BY DEF CheckConcurrentRun
    <2>4. ASSUME NEW t \in Tasks
          PROVE  /\ thread[t] \in ThreadState /\ queuing[t] \in BOOLEAN
                 /\ wpc[t] \in Place /\ Phase(t)
      BY DEF IInv, TypeOK, Threads
    <2>5. ASSUME NEW t \in Tasks
          PROVE  /\ Checks(t, written[t])
                 /\ thread'[t] \in ThreadState /\ queuing'[t] \in BOOLEAN
                 /\ wpc'[t] \in Place
      <3>1. /\ thread'[t] = Result(t).state /\ queuing'[t] = Result(t).queuing
            /\ wpc'[t] = IF thread[t] = "new" /\ Result(t).state = "running"
                         THEN "start" ELSE wpc[t]
            /\ written[t] = (Result(t).then = "write")
        BY <2>1
      <3>2. CASE t \in Looked
        <4>1. ptr[t] /\ thread[t] \notin {"freed", "none"}
          BY <2>1, <2>2, <2>4, <3>2 DEF Phase
        <4>2. Result(t) = CheckRow(thread[t], queuing[t], loop[RowOf(t)].n)
          BY <3>2
        <4> HIDE DEF Result, written
        <4>3. /\ thread[t] \in {"new", "running", "paused", "exited"}
              /\ queuing[t] \in BOOLEAN /\ wpc[t] \in Place
          BY <2>4, <4>1 DEF ThreadState
        <4>4. Turn(thread[t], queuing[t], thread'[t], queuing'[t], Result(t).then)
          BY <3>1, <4>2, <4>3, CheckRowProps
        <4>5. /\ AfterRun("new") = "running" /\ AfterRun("exited") = "exited"
              /\ "write" # "go on" /\ "write" # "break"
          BY DEF AfterRun
        <4>6. /\ thread'[t] \in ThreadState /\ queuing'[t] \in BOOLEAN
              /\ wpc'[t] \in Place
          <5>1. thread'[t] \in ThreadState /\ queuing'[t] \in BOOLEAN
            BY <4>3, <4>4, <4>5 DEF Turn, ThreadState
          <5>2. wpc'[t] \in Place
            BY <3>1, <4>3 DEF Place
          <5>3. QED
            BY <5>1, <5>2
        <4>7. Checks(t, written[t])
          BY <3>1, <4>3, <4>4, <4>5 DEF Checks, Turn
        <4>8. QED
          BY <4>6, <4>7
      <3>3. CASE t \notin Looked
        <4>1. Result(t) = Row(thread[t], queuing[t], 0, "go on")
          BY <3>3
        <4> HIDE DEF Result, written
        <4> DEFINE same == Row(thread[t], queuing[t], 0, "go on")
        <4>2. same.state = thread[t] /\ same.queuing = queuing[t] /\ same.then = "go on"
          BY DEF Row
        <4> HIDE DEF same
        <4>3. Result(t) = same
          BY <4>1 DEF same
        <4>4. /\ Result(t).state = thread[t] /\ Result(t).queuing = queuing[t]
              /\ Result(t).then = "go on"
          BY <4>2, <4>3, Zenon
        <4>5. QED
          BY <2>4, <3>1, <4>4 DEF Checks
      <3>4. QED
        BY <3>2, <3>3
    <2>6. written \in [Tasks -> BOOLEAN]
      OBVIOUS
    <2>7. \A i \in DOMAIN text : rows[i] \in Tasks
      BY RowTypes DEF IInv, RowsDistinct
    <2>8. text' = [i \in DOMAIN text |->
                IF written[rows[i]]
                THEN Status(rows[i], thread'[rows[i]], queuing'[rows[i]])
                ELSE text[i]]
      BY <2>1, <2>7
    <2>9. /\ thread' \in [Tasks -> ThreadState]
          /\ queuing' \in [Tasks -> BOOLEAN]
          /\ wpc' \in [Tasks -> Place]
      BY <2>1, <2>5
    <2> HIDE DEF Result, written
    <2>10. CheckOfAll(written)
      BY <2>1, <2>3, <2>5, <2>8, <2>9, ZenonT(30) DEF CheckOfAll
    <2>11. QED
      BY <2>6, <2>10
  <1>4. QED
    BY <1>2, <1>3

-----------------------------------------------------------------------------
(* Each step keeps the invariant.                                          *)

\* A step leaves a task as it is.
Same(t) ==
  /\ thread'[t] = thread[t] /\ ptr'[t] = ptr[t] /\ cancel'[t] = cancel[t]
  /\ queuing'[t] = queuing[t] /\ wpc'[t] = wpc[t] /\ current'[t] = current[t]
  /\ failed'[t] = failed[t] /\ error'[t] = error[t] /\ done'[t] = done[t]
  /\ t \in pending' <=> t \in pending

\* Then all that the invariant says of the task stays true.
LEMMA SameKeeps ==
  ASSUME NEW t \in Tasks, Same(t)
  PROVE  /\ Phase(t) => Phase(t)'
         /\ Work(t) => Work(t)'
         /\ \A x : Cell(x, t) => Cell(x, t)'
  <1>1. Phase(t) => Phase(t)'
    BY DEF Same, Phase
  <1>2. Work(t) => Work(t)'
    BY DEF Same, Work
  <1>3. Verdict(t) => Verdict(t)'
    BY DEF Same, Verdict
  <1>4. Status(t, thread[t], queuing[t])' = Status(t, thread[t], queuing[t])
    BY DEF Same, Status
  <1>5. ASSUME NEW x
        PROVE  Says(x, t) => Says(x, t)'
    BY <1>4 DEF Same, Says
  <1>6. ASSUME NEW x
        PROVE  Tells(x, t) => Tells(x, t)'
    BY DEF Same, Tells
  <1>7. QED
    BY <1>1, <1>2, <1>3, <1>5, <1>6 DEF Cell

\* The end of the program: nothing is left.
LEMMA OverInv ==
  ASSUME IInv, NEW end \in {"crashed", "closed"}, Over(end), left' \in 0..MaxCommands
  PROVE  IInv'
  <1>1. rows' = <<>> /\ text' = <<>>
    BY DEF Over
  <1>2. TypeOK'
    <2>1. 0 \in -1..Count /\ 0 \in 0..Count
      BY TasksAssumption
    <2>2. /\ thread' \in [Tasks -> ThreadState] /\ wpc' \in [Tasks -> Place]
          /\ ptr' \in [Tasks -> BOOLEAN] /\ cancel' \in [Tasks -> BOOLEAN]
          /\ queuing' \in [Tasks -> BOOLEAN]
          /\ error' \in [Tasks -> {"none", "file", "dest"}]
      BY DEF Over, ThreadState, Place
    <2>3. /\ current' \in [Tasks -> -1..Count] /\ failed' \in [Tasks -> 0..Count]
          /\ done' \in [Tasks -> 0..Count]
      BY <2>1 DEF Over
    <2>4. /\ rows' \in Seq(Tasks) /\ text' \in Seq(Text) /\ pending' \in SUBSET Tasks
          /\ ui' \in {"idle", "check", "crashed", "closed"} /\ maxCon' \in MaxCons
      BY DEF Over, IInv, TypeOK
    <2>5. QED
      BY <2>2, <2>3, <2>4 DEF TypeOK
  <1>3. RowsDistinct' /\ Cells'
    BY <1>1 DEF RowsDistinct, Cells
  <1>4. Threads'
    BY DEF Over, Threads, Phase, Work
  <1>5. QED
    BY <1>2, <1>3, <1>4 DEF IInv

\* A step that changes one task, and leaves the rows and the cells of the others.
LEMMA OneTask ==
  ASSUME IInv, NEW t \in Tasks, TypeOK', rows' = rows, Len(text') = Len(text),
         \A i \in DOMAIN rows : rows[i] # t => text'[i] = text[i],
         \A u \in Tasks \ {t} : Same(u),
         Phase(t)', Work(t)', thread[t] # "none" => thread'[t] # "none",
         \A i \in DOMAIN rows : rows[i] = t => Cell(text[i], t)'
  PROVE  IInv'
  <1>1. /\ Len(rows) \in Nat /\ DOMAIN rows = 1..Len(rows)
        /\ \A i \in DOMAIN rows : rows[i] \in Tasks
    BY RowTypes DEF IInv, RowsDistinct
  <1>2. RowsDistinct'
    BY <1>1 DEF IInv, RowsDistinct, Same
  <1>3. Threads'
    BY SameKeeps DEF IInv, Threads
  <1>4. ASSUME NEW i \in DOMAIN rows
        PROVE  Cell(text[i], rows[i])'
    <2>1. CASE rows[i] = t
      BY <2>1
    <2>2. CASE rows[i] # t
      <3>1. Cell(text[i], rows[i])
        BY DEF IInv, Cells
      <3>2. /\ text'[i] = text[i] /\ rows[i] \in Tasks /\ Same(rows[i])
            /\ rows'[i] = rows[i]
        BY <1>1, <2>2
      <3>3. \A x : Cell(x, rows[i]) => Cell(x, rows[i])'
        BY <3>2, SameKeeps
      <3>4. QED
        BY <3>1, <3>2, <3>3
    <2>3. QED
      BY <2>1, <2>2
  <1>5. Cells'
    BY <1>4 DEF Cells
  <1>6. QED
    BY <1>2, <1>3, <1>5 DEF IInv

\* What the invariant says of one task.
LEMMA TaskFacts ==
  ASSUME IInv, NEW t \in Tasks
  PROVE  /\ Phase(t) /\ Work(t)
         /\ thread[t] \in ThreadState /\ wpc[t] \in Place
         /\ ptr[t] \in BOOLEAN /\ cancel[t] \in BOOLEAN /\ queuing[t] \in BOOLEAN
         /\ current[t] \in -1..Count /\ failed[t] \in 0..Count /\ done[t] \in 0..Count
         /\ error[t] \in {"none", "file", "dest"}
         /\ \A i \in DOMAIN rows : rows[i] = t => Cell(text[i], t)
  BY DEF IInv, TypeOK, Threads, Cells

\* The steps of the threads: the rows stay as they are, one task changes.
LEMMA WorkerInv ==
  ASSUME IInv, NEW t \in Tasks, Worker(t)
  PROVE  IInv'
  <1>1. /\ rows' = rows /\ text' = text /\ cancel' = cancel /\ queuing' = queuing
        /\ ui' = ui /\ maxCon' = maxCon /\ left' = left
    BY DEF Worker, Test, File, Exit, gridVars
  <1>2. Count \in Nat \ {0}
    BY TasksAssumption
  <1>3. CASE Test(t)
    <2> DEFINE last == IF wpc[t] = "start" THEN -1 ELSE current[t]
    <2>1. /\ wpc[t] \in {"start", "test"} /\ thread[t] = "running" /\ ptr[t]
          /\ ptr' = ptr /\ error' = error /\ done' = done /\ pending' = pending
          /\ failed' = [failed EXCEPT ![t] = IF wpc[t] = "start" THEN 0 ELSE failed[t]]
          /\ current' = [current EXCEPT ![t] = IF cancel[t] THEN last ELSE last + 1]
          /\ IF cancel[t] \/ last + 1 >= Count
             THEN wpc' = [wpc EXCEPT ![t] = "exit"] /\ thread' = [thread EXCEPT ![t] = "exited"]
             ELSE wpc' = [wpc EXCEPT ![t] = "file"] /\ thread' = thread
      BY <1>3, TaskFacts DEF Test, Return, GoTo, Phase
    <2>2. /\ last \in -1..Count - 1 /\ done[t] + failed[t] = last + 1
          /\ error[t] = IF failed[t] = 0 THEN "none" ELSE "file"
          /\ failed[t] \in 0..Count /\ done[t] \in 0..Count
      BY <1>2, <2>1, TaskFacts DEF Work
    <2>3. failed' = failed
      <3>1. failed' = [failed EXCEPT ![t] = failed[t]]
        BY <2>1, TaskFacts DEF Work
      <3>2. failed \in [Tasks -> 0..Count]
        BY DEF IInv, TypeOK
      <3>3. QED
        BY <3>1, <3>2
    <2> HIDE DEF last
    <2>4. /\ current'[t] = IF cancel[t] THEN last ELSE last + 1
          /\ wpc'[t] = IF cancel[t] \/ last + 1 >= Count THEN "exit" ELSE "file"
          /\ thread'[t] = IF cancel[t] \/ last + 1 >= Count THEN "exited" ELSE "running"
      BY <2>1 DEF IInv, TypeOK
    <2>5. TypeOK'
      <3>1. (IF cancel[t] THEN last ELSE last + 1) \in -1..Count
        BY <1>2, <2>2
      <3>2. current' \in [Tasks -> -1..Count]
        BY <2>1, <3>1 DEF IInv, TypeOK
      <3>3. thread' \in [Tasks -> ThreadState] /\ wpc' \in [Tasks -> Place]
        BY <2>1 DEF IInv, TypeOK, ThreadState, Place
      <3>4. QED
        BY <1>1, <2>1, <2>3, <3>2, <3>3 DEF IInv, TypeOK
    <2>6. \A u \in Tasks \ {t} : Same(u)
      BY <1>1, <2>1, <2>3 DEF Same, IInv, TypeOK
    <2>7. Phase(t)'
      BY <1>1, <2>1, <2>4, TaskFacts DEF Phase
    <2>8. Work(t)'
      BY <1>1, <1>2, <2>1, <2>2, <2>3, <2>4 DEF Work
    <2>9. Verdict(t)'
      BY <1>1, <1>2, <2>1, <2>2, <2>3, <2>4 DEF Verdict
    <2>10. \A x : Cell(x, t) => Cell(x, t)'
      BY <1>1, <2>1, <2>4, <2>9 DEF Cell, Says, Tells
    <2>11. QED
      BY <1>1, <2>4, <2>5, <2>6, <2>7, <2>8, <2>10, TaskFacts, OneTask
  <1>4. CASE File(t)
    <2>1. /\ wpc[t] = "file" /\ ptr' = ptr /\ current' = current /\ pending' = pending
      BY <1>4 DEF File
    <2>2. /\ current[t] \in 0..Count - 1 /\ done[t] + failed[t] = current[t]
          /\ error[t] = IF failed[t] = 0 THEN "none" ELSE "file"
          /\ failed[t] \in 0..Count /\ done[t] \in 0..Count
          /\ thread[t] \in {"running", "paused"} /\ ptr[t]
      BY <2>1, TaskFacts DEF Work, Phase, ThreadState
    <2>3. CASE FileDone(t) \/ FileFails(t)
      <3>1. /\ wpc' = [wpc EXCEPT ![t] = "test"] /\ thread' = thread
        BY <2>3 DEF FileDone, FileFails, GoTo
      <3>2. PICK d \in {0, 1} :
              /\ done' = [done EXCEPT ![t] = done[t] + d]
              /\ failed' = [failed EXCEPT ![t] = failed[t] + 1 - d]
              /\ error' = IF d = 1 THEN error ELSE [error EXCEPT ![t] = "file"]
        <4>1. CASE FileDone(t)
          <5>1. failed' = [failed EXCEPT ![t] = failed[t] + 1 - 1]
            BY <4>1, <2>2 DEF FileDone, IInv, TypeOK
          <5>2. QED
            BY <4>1, <5>1 DEF FileDone
        <4>2. CASE FileFails(t)
          <5>1. /\ done' = [done EXCEPT ![t] = done[t] + 0]
                /\ failed' = [failed EXCEPT ![t] = failed[t] + 1 - 0]
            BY <4>2, <2>2 DEF FileFails, IInv, TypeOK
          <5>2. error' = IF 0 = 1 THEN error ELSE [error EXCEPT ![t] = "file"]
            BY <4>2 DEF FileFails
          <5>3. QED
            BY <5>1, <5>2
        <4>3. QED
          BY <2>3, <4>1, <4>2
      <3>3. /\ done'[t] = done[t] + d /\ failed'[t] = failed[t] + 1 - d
            /\ error'[t] = (IF d = 1 THEN error[t] ELSE "file") /\ wpc'[t] = "test"
        BY <3>1, <3>2 DEF IInv, TypeOK
      <3>4. TypeOK'
        <4>1. done[t] + d \in 0..Count /\ failed[t] + 1 - d \in 0..Count
          BY <1>2, <2>2
        <4>2. done' \in [Tasks -> 0..Count] /\ failed' \in [Tasks -> 0..Count]
          BY <3>2, <4>1 DEF IInv, TypeOK
        <4>3. error' \in [Tasks -> {"none", "file", "dest"}] /\ wpc' \in [Tasks -> Place]
          BY <3>1, <3>2 DEF IInv, TypeOK, Place
        <4>4. QED
          BY <1>1, <2>1, <3>1, <4>2, <4>3 DEF IInv, TypeOK
      <3>5. \A u \in Tasks \ {t} : Same(u)
        BY <1>1, <2>1, <3>1, <3>2 DEF Same, IInv, TypeOK
      <3>6. Phase(t)'
        BY <1>1, <2>1, <2>2, <3>1, <3>3, TaskFacts DEF Phase
      <3>7. Work(t)'
        BY <1>1, <1>2, <2>1, <2>2, <3>3 DEF Work
      <3>8. \A x : Cell(x, t) => Cell(x, t)'
        BY <1>1, <2>1, <3>1, <3>3 DEF Cell, Verdict, Says, Tells
      <3>9. QED
        BY <1>1, <3>1, <3>4, <3>5, <3>6, <3>7, <3>8, TaskFacts, OneTask
    <2>4. CASE TargetFails(t)
      <3>1. /\ error' = [error EXCEPT ![t] = "dest"]
            /\ thread' = [thread EXCEPT ![t] = "exited"]
            /\ wpc' = [wpc EXCEPT ![t] = "exit"]
            /\ failed' = failed /\ done' = done
        BY <2>4 DEF TargetFails, Return, GoTo
      <3>2. error'[t] = "dest" /\ thread'[t] = "exited" /\ wpc'[t] = "exit"
        BY <3>1 DEF IInv, TypeOK
      <3>3. TypeOK'
        BY <1>1, <2>1, <3>1 DEF IInv, TypeOK, ThreadState, Place
      <3>4. \A u \in Tasks \ {t} : Same(u)
        BY <1>1, <2>1, <3>1 DEF Same, IInv, TypeOK
      <3>5. Phase(t)'
        BY <1>1, <2>1, <2>2, <3>2, TaskFacts DEF Phase
      <3>6. Work(t)'
        BY <3>2 DEF Work
      <3>7. Verdict(t)'
        BY <1>2, <2>1, <2>2, <3>1, <3>2 DEF Verdict
      <3>8. \A x : Cell(x, t)'
        BY <3>2, <3>7 DEF Cell, Says, Tells
      <3>9. QED
        BY <1>1, <3>2, <3>3, <3>4, <3>5, <3>6, <3>8, OneTask
    <2>5. QED
      BY <1>4, <2>3, <2>4 DEF File
  <1>5. CASE Exit(t)
    <2>1. /\ wpc[t] = "exit" /\ current' = current /\ failed' = failed /\ done' = done
          /\ ptr' = [ptr EXCEPT ![t] = FALSE]
          /\ pending' = pending \cup {t}
          /\ thread' = [thread EXCEPT ![t] = "freed"]
          /\ wpc' = [wpc EXCEPT ![t] = "gone"]
          /\ error' = error \/ (/\ current[t] \in 0..Count - 1 /\ error[t] = "none"
                                /\ error' = [error EXCEPT ![t] = "dest"])
      BY <1>5 DEF Exit, GoTo
    <2>2. /\ ptr'[t] = FALSE /\ t \in pending' /\ thread'[t] = "freed" /\ wpc'[t] = "gone"
          /\ error'[t] = error[t] \/ (current[t] # Count /\ error'[t] = "dest" /\ error[t] = "none")
      BY <1>2, <2>1 DEF IInv, TypeOK
    <2>3. TypeOK'
      BY <1>1, <2>1 DEF IInv, TypeOK, ThreadState, Place
    <2>4. \A u \in Tasks \ {t} : Same(u)
      BY <1>1, <2>1 DEF Same, IInv, TypeOK
    <2>5. Phase(t)'
      BY <1>1, <2>2, TaskFacts DEF Phase
    <2>6. Work(t)'
      BY <2>2 DEF Work
    <2>7. Verdict(t) => Verdict(t)'
      BY <1>1, <2>1, <2>2 DEF Verdict
    <2>8. \A x : Cell(x, t) => Cell(x, t)'
      BY <2>2, <2>7 DEF Cell, Says, Tells
    <2>9. QED
      BY <1>1, <2>2, <2>3, <2>4, <2>5, <2>6, <2>8, TaskFacts, OneTask
  <1>6. QED
    BY <1>3, <1>4, <1>5 DEF Worker

\* What a check leaves in a cell is true of the task.
LEMMA CheckCell ==
  ASSUME IInv, NEW written \in [Tasks -> BOOLEAN], CheckOfAll(written),
         NEW t \in Tasks, NEW x, NEW y, Cell(x, t),
         y = IF written[t] THEN Status(t, thread'[t], queuing'[t]) ELSE x
  PROVE  Cell(y, t)'
  <1>1. /\ ptr' = ptr /\ cancel' = cancel /\ pending' = pending
        /\ current' = current /\ failed' = failed /\ error' = error /\ done' = done
    BY DEF CheckOfAll, taskVars
  <1>2. PICK w \in BOOLEAN : w = written[t]
    OBVIOUS
  <1>3. Checks(t, w)
    BY <1>2 DEF CheckOfAll
  <1>4. thread'[t] \in ThreadState /\ queuing'[t] \in BOOLEAN
    BY DEF CheckOfAll
  <1>5. y = IF w THEN Status(t, thread'[t], queuing'[t]) ELSE x
    BY <1>2
  <1>6. Verdict(t)'
    BY <1>1, <1>3 DEF Cell, Verdict, Checks
  <1>7. Says(y, t)'
    <2>1. (ptr[t] = FALSE /\ w = FALSE /\ wpc[t] = "gone") \/ wpc'[t] # "gone"
      BY <1>3, TaskFacts DEF Phase, Checks, ThreadState
    <2>2. CASE wpc'[t] # "gone"
      BY <2>2 DEF Says
    <2>3. CASE ptr[t] = FALSE /\ w = FALSE /\ wpc[t] = "gone"
      <3>1. thread'[t] = thread[t] /\ queuing'[t] = queuing[t] /\ y = x
        BY <1>3, <1>5, <2>3 DEF Checks
      <3>2. Status(t, thread[t], queuing[t])' = Status(t, thread[t], queuing[t])
        BY <1>1, <3>1 DEF Status
      <3>3. QED
        BY <1>1, <2>3, <3>1, <3>2 DEF Cell, Says
    <2>4. QED
      BY <2>1, <2>2, <2>3
  <1>8. Tells(y, t)'
    <2>1. CASE ~w
      <3>1. thread'[t] = thread[t] /\ queuing'[t] = queuing[t] /\ y = x
        BY <1>3, <1>5, <2>1 DEF Checks
      <3>2. QED
        BY <1>1, <3>1 DEF Cell, Tells
    <2>2. CASE w /\ thread'[t] = "running" /\ ptr[t]
      <3>1. y = "Running"
        BY <1>5, <2>2 DEF Status, StatusString
      <3>2. QED
        BY <2>2, <3>1 DEF Tells
    <2>3. CASE w /\ thread'[t] = "paused" /\ queuing'[t] /\ ptr[t]
      <3>1. y = "Queuing"
        BY <1>5, <2>3 DEF Status, StatusString
      <3>2. QED
        BY <2>3, <3>1 DEF Tells
    <2>4. CASE w /\ thread'[t] = "exited"
      BY <2>4 DEF Tells
    <2>5. w => \/ thread'[t] = "running" /\ ptr[t]
               \/ thread'[t] = "paused" /\ queuing'[t] /\ ptr[t]
               \/ thread'[t] = "exited"
      BY <1>3, TaskFacts DEF Checks, Phase
    <2>6. QED
      BY <2>1, <2>2, <2>3, <2>4, <2>5
  <1>9. QED
    BY <1>6, <1>7, <1>8 DEF Cell

\* A check changes the tasks it looks at, and writes the cells of those.
LEMMA CheckInv ==
  ASSUME IInv, CheckConcurrentRun
  PROVE  IInv'
  <1>1. CASE Over("crashed")
    <2>1. left' \in 0..MaxCommands
      BY DEF CheckConcurrentRun, IInv, TypeOK
    <2>2. QED
      BY <1>1, <2>1, OverInv
  <1>2. ASSUME NEW written \in [Tasks -> BOOLEAN], CheckOfAll(written)
        PROVE  IInv'
    <2>1. /\ rows' = rows /\ ptr' = ptr /\ cancel' = cancel /\ pending' = pending
          /\ current' = current /\ failed' = failed /\ error' = error /\ done' = done
          /\ maxCon' = maxCon /\ left' = left /\ ui' = "idle"
      BY <1>2 DEF CheckOfAll, taskVars
    <2>2. /\ Len(rows) \in Nat /\ DOMAIN rows = 1..Len(rows) /\ DOMAIN text = DOMAIN rows
          /\ \A i \in DOMAIN rows : rows[i] \in Tasks /\ text[i] \in Text
      BY RowTypes DEF IInv, RowsDistinct
    <2>3. /\ DOMAIN text' = DOMAIN rows
          /\ \A i \in DOMAIN rows :
               text'[i] = IF written[rows[i]]
                          THEN Status(rows[i], thread'[rows[i]], queuing'[rows[i]])
                          ELSE text[i]
      BY <1>2, <2>2 DEF CheckOfAll
    <2>4. ASSUME NEW t \in Tasks
          PROVE  /\ Checks(t, written[t])
                 /\ thread'[t] \in ThreadState /\ queuing'[t] \in BOOLEAN
      BY <1>2 DEF CheckOfAll
    <2>5. TypeOK'
      <3>1. \A i \in DOMAIN rows : text'[i] \in Text
        <4>1. ASSUME NEW i \in DOMAIN rows
              PROVE  Status(rows[i], thread'[rows[i]], queuing'[rows[i]]) \in Text
          BY <2>2, <2>4, TaskFacts, StatusType DEF Status
        <4>2. QED
          BY <2>2, <2>3, <4>1
      <3>2. text' \in Seq(Text)
        <4>1. text' = [i \in 1..Len(rows) |-> text'[i]]
          BY <1>2, <2>2 DEF CheckOfAll
        <4>2. QED
          BY <2>2, <3>1, <4>1
      <3>3. QED
        BY <1>2, <2>1, <3>2 DEF CheckOfAll, IInv, TypeOK
    <2>6. Len(text') = Len(rows)
      BY <2>2, <2>3, <2>5 DEF TypeOK
    <2>7. RowsDistinct'
      <3>1. \A i \in DOMAIN rows : thread'[rows[i]] # "none"
        BY <2>2, <2>4 DEF IInv, RowsDistinct, Checks
      <3>2. QED
        BY <2>1, <2>6, <3>1 DEF IInv, RowsDistinct
    <2>8. ASSUME NEW t \in Tasks
          PROVE  Phase(t)' /\ Work(t)'
      <3>1. Phase(t)'
        BY <2>1, <2>4, TaskFacts DEF Phase, Checks
      <3>2. Work(t)'
        BY <2>1, <2>4, TaskFacts DEF Work, Checks, Phase
      <3>3. QED
        BY <3>1, <3>2
    <2>9. ASSUME NEW i \in DOMAIN rows
          PROVE  Cell(text[i], rows[i])'
      <3>1. PICK t \in Tasks, x \in {text[i]}, y \in {text'[i]} : t = rows[i]
        BY <2>2
      <3>2. Cell(x, t)
        BY <3>1 DEF IInv, Cells
      <3>3. y = IF written[t] THEN Status(t, thread'[t], queuing'[t]) ELSE x
        BY <2>3, <3>1
      <3>4. Cell(y, t)'
        BY <1>2, <3>2, <3>3, CheckCell
      <3>5. rows'[i] = t /\ text'[i] = y
        BY <2>1, <3>1
      <3>6. QED
        BY <3>4, <3>5
    <2>10. Threads'
      BY <2>8 DEF Threads
    <2>11. Cells'
      BY <2>1, <2>9 DEF Cells
    <2>12. QED
      BY <2>5, <2>7, <2>10, <2>11 DEF IInv
  <1>3. QED
    BY <1>1, <1>2, CheckEffect

\* The verdict goes into the row.
LEMMA OnUpdateTaskInv ==
  ASSUME IInv, NEW t \in Tasks, OnUpdateTask(t)
  PROVE  IInv'
  <1>1. /\ t \in pending /\ pending' = pending \ {t} /\ rows' = rows /\ thread' = thread
        /\ ptr' = ptr /\ cancel' = cancel /\ wpc' = wpc /\ queuing' = queuing
        /\ current' = current /\ failed' = failed /\ error' = error /\ done' = done
        /\ maxCon' = maxCon /\ left' = left /\ ui' \in {"check", ui}
    BY DEF OnUpdateTask, threadVars, taskVars
  <1>2. /\ Len(rows) \in Nat /\ DOMAIN rows = 1..Len(rows) /\ DOMAIN text = DOMAIN rows
        /\ \A i \in DOMAIN rows : rows[i] \in Tasks /\ text[i] \in Text
    BY RowTypes DEF IInv, RowsDistinct
  <1>3. /\ text' = [i \in 1..Len(rows) |-> text'[i]]
        /\ \A i \in DOMAIN rows :
             text'[i] = IF rows[i] = t THEN Status(t, thread[t], queuing[t]) ELSE text[i]
    BY <1>2 DEF OnUpdateTask
  <1>4. text' \in Seq(Text) /\ Len(text') = Len(text)
    <2>1. Status(t, thread[t], queuing[t]) \in Text
      BY TaskFacts, StatusType DEF Status
    <2>2. \A i \in 1..Len(rows) : text'[i] \in Text
      BY <1>2, <1>3, <2>1
    <2>3. QED
      BY <1>2, <1>3, <2>2
  <1>5. TypeOK'
    BY <1>1, <1>4 DEF IInv, TypeOK
  <1>6. \A u \in Tasks \ {t} : Same(u)
    BY <1>1 DEF Same
  <1>7. Phase(t)' /\ Work(t)'
    BY <1>1, TaskFacts DEF Phase, Work
  <1>8. ASSUME NEW i \in DOMAIN rows, rows[i] = t
        PROVE  Cell(text[i], t)'
    <2>1. thread[t] = "freed" /\ ~ptr[t] /\ Cell(text[i], t)
      BY <1>1, <1>8, TaskFacts DEF Phase
    <2>2. Verdict(t)'
      BY <1>1, <2>1 DEF Cell, Verdict
    <2>3. text'[i] = Status(t, thread[t], queuing[t])'
      BY <1>1, <1>3, <1>8 DEF Status
    <2>4. QED
      BY <1>1, <2>1, <2>2, <2>3 DEF Cell, Says, Tells
  <1>9. QED
    BY <1>1, <1>2, <1>3, <1>4, <1>5, <1>6, <1>7, <1>8, OneTask

\* A new task is of a new row, which says that it waits.
LEMMA OnNewInv ==
  ASSUME IInv, NEW t \in Tasks, OnNew(t)
  PROVE  IInv'
  <1>1. /\ thread[t] = "none" /\ thread' = [thread EXCEPT ![t] = "new"]
        /\ ptr' = [ptr EXCEPT ![t] = TRUE]
        /\ rows' = Append(rows, t) /\ text' = Append(text, "Queuing") /\ ui' = "check"
        /\ cancel' = cancel /\ wpc' = wpc /\ queuing' = queuing /\ pending' = pending
        /\ current' = current /\ failed' = failed /\ error' = error /\ done' = done
        /\ maxCon' = maxCon /\ left > 0 /\ left' = left - 1
    BY DEF OnNew, Commanding, taskVars
  <1>2. /\ Len(rows) \in Nat /\ DOMAIN rows = 1..Len(rows) /\ DOMAIN text = DOMAIN rows
        /\ \A i \in DOMAIN rows : rows[i] \in Tasks /\ text[i] \in Text
        /\ Len(text) = Len(rows) /\ rows \in Seq(Tasks) /\ text \in Seq(Text)
    BY RowTypes DEF IInv, TypeOK, RowsDistinct
  <1>3. /\ Len(rows') = Len(rows) + 1 /\ Len(text') = Len(rows) + 1
        /\ DOMAIN rows' = 1..Len(rows) + 1
        /\ \A i \in 1..Len(rows) : rows'[i] = rows[i] /\ text'[i] = text[i]
        /\ rows'[Len(rows) + 1] = t /\ text'[Len(rows) + 1] = "Queuing"
    BY <1>1, <1>2
  <1>4. thread'[t] = "new" /\ ptr'[t] = TRUE
    BY <1>1 DEF IInv, TypeOK
  <1>5. \A u \in Tasks \ {t} : Same(u)
    BY <1>1 DEF Same, IInv, TypeOK
  <1>6. wpc[t] = "none" /\ ~ptr[t] /\ t \notin pending
    BY <1>1, TaskFacts DEF Phase
  <1>7. TypeOK'
    <2>1. rows' \in Seq(Tasks) /\ text' \in Seq(Text)
      BY <1>1, <1>2 DEF Text
    <2>2. thread' \in [Tasks -> ThreadState] /\ ptr' \in [Tasks -> BOOLEAN]
      BY <1>1 DEF IInv, TypeOK, ThreadState
    <2>3. left' \in 0..MaxCommands
      BY <1>1, TasksAssumption DEF IInv, TypeOK
    <2>4. QED
      BY <1>1, <2>1, <2>2, <2>3 DEF IInv, TypeOK
  <1>8. \A i \in DOMAIN rows : rows[i] # t /\ thread[rows[i]] # "none"
    BY <1>1 DEF IInv, RowsDistinct
  <1>9. RowsDistinct'
    <2>1. \A i \in DOMAIN rows' : thread'[rows'[i]] # "none"
      BY <1>2, <1>3, <1>4, <1>5, <1>8 DEF Same
    <2>2. \A i, j \in DOMAIN rows' : rows'[i] = rows'[j] => i = j
      BY <1>2, <1>3, <1>8 DEF IInv, RowsDistinct
    <2>3. QED
      BY <1>3, <2>1, <2>2 DEF RowsDistinct
  <1>10. Threads'
    <2>1. Phase(t)' /\ Work(t)'
      <3>1. Phase(t)'
        BY <1>1, <1>4, <1>6, TaskFacts DEF Phase
      <3>2. Work(t)'
        BY <1>1, <1>6, TaskFacts DEF Work
      <3>3. QED
        BY <3>1, <3>2
    <2>2. QED
      BY <1>5, <2>1, SameKeeps DEF IInv, Threads
  <1>11. ASSUME NEW i \in DOMAIN rows'
         PROVE  Cell(text[i], rows[i])'
    <2>1. CASE i = Len(rows) + 1
      <3>1. Cell("Queuing", t)'
        BY <1>1, <1>4, <1>6 DEF Cell, Verdict, Says, Tells
      <3>2. QED
        BY <1>3, <2>1, <3>1
    <2>2. CASE i \in DOMAIN rows
      <3>1. PICK u \in Tasks \ {t}, x \in {text[i]} : u = rows[i]
        BY <1>2, <1>8, <2>2
      <3>2. Cell(x, u)
        BY <2>2, <3>1 DEF IInv, Cells
      <3>3. Cell(x, u)'
        BY <1>5, <3>2, SameKeeps
      <3>4. QED
        BY <1>2, <1>3, <2>2, <3>1, <3>3
    <2>3. QED
      BY <1>2, <1>3, <2>1, <2>2
  <1>12. Cells'
    BY <1>11 DEF Cells
  <1>13. QED
    BY <1>7, <1>9, <1>10, <1>12 DEF IInv

\* A task takes its cell with it.
LEMMA MoveInv ==
  ASSUME IInv, NEW i \in DOMAIN rows, NEW j \in DOMAIN rows, Move(i, j), Commanding,
         ui' = "check", UNCHANGED <<threadVars, queuing, taskVars, pending, maxCon>>
  PROVE  IInv'
  <1>1. /\ rows' = Swapped(rows, i, j) /\ text' = Swapped(text, i, j)
        /\ thread' = thread /\ ptr' = ptr
        /\ cancel' = cancel /\ wpc' = wpc /\ queuing' = queuing /\ pending' = pending
        /\ current' = current /\ failed' = failed /\ error' = error /\ done' = done
        /\ maxCon' = maxCon /\ left > 0 /\ left' = left - 1
    BY DEF Move, Commanding, taskVars, threadVars
  <1>2. /\ Len(rows) \in Nat /\ DOMAIN rows = 1..Len(rows) /\ DOMAIN text = DOMAIN rows
        /\ \A k \in DOMAIN rows : rows[k] \in Tasks /\ text[k] \in Text
        /\ Len(text) = Len(rows) /\ rows \in Seq(Tasks) /\ text \in Seq(Text)
    BY RowTypes DEF IInv, TypeOK, RowsDistinct
  <1>3. /\ rows' \in Seq(Tasks) /\ Len(rows') = Len(rows) /\ DOMAIN rows' = DOMAIN rows
        /\ \A k \in DOMAIN rows : /\ Other(k, i, j) \in DOMAIN rows
                                  /\ rows'[k] = rows[Other(k, i, j)]
    <2>1. /\ Swapped(rows, i, j) \in Seq(Tasks)
          /\ Len(Swapped(rows, i, j)) = Len(rows)
          /\ DOMAIN Swapped(rows, i, j) = DOMAIN rows
          /\ \A k \in DOMAIN rows : /\ Other(k, i, j) \in DOMAIN rows
                                    /\ Swapped(rows, i, j)[k] = rows[Other(k, i, j)]
      <3>1. rows \in Seq(Tasks)
        BY <1>2
      <3>2. QED
        BY <3>1, SwappedProps, SMTT(60)
    <2>2. QED
      BY <1>1, <2>1, Zenon
  <1>4. /\ text' \in Seq(Text) /\ Len(text') = Len(rows)
        /\ \A k \in DOMAIN rows : text'[k] = text[Other(k, i, j)]
    <2>1. i \in DOMAIN text /\ j \in DOMAIN text
      BY <1>2
    <2>2. /\ Swapped(text, i, j) \in Seq(Text)
          /\ Len(Swapped(text, i, j)) = Len(text)
          /\ \A k \in DOMAIN text : Swapped(text, i, j)[k] = text[Other(k, i, j)]
      <3>1. text \in Seq(Text)
        BY <1>2
      <3>2. QED
        BY <2>1, <3>1, SwappedProps, SMTT(60)
    <2>3. QED
      BY <1>1, <1>2, <2>2, Zenon
  <1>5. TypeOK'
    <2>1. left' \in 0..MaxCommands
      BY <1>1, TasksAssumption DEF IInv, TypeOK
    <2>2. QED
      BY <1>1, <1>3, <1>4, <2>1 DEF IInv, TypeOK
  <1>6. \A u \in Tasks : Same(u)
    BY <1>1 DEF Same
  <1>7. RowsDistinct'
    <2>1. \A k, m \in DOMAIN rows : Other(k, i, j) = Other(m, i, j) => k = m
      BY DEF Other
    <2>2. \A k \in DOMAIN rows : thread[rows[k]] # "none"
      BY DEF IInv, RowsDistinct
    <2>3. \A k, m \in DOMAIN rows : rows[k] = rows[m] => k = m
      BY DEF IInv, RowsDistinct
    <2>4. \A k \in DOMAIN rows' : thread'[rows'[k]] # "none"
      BY <1>1, <1>3, <2>2
    <2>5. \A k, m \in DOMAIN rows' : rows'[k] = rows'[m] => k = m
      BY <1>3, <2>1, <2>3, Zenon
    <2>6. QED
      BY <1>3, <1>4, <2>4, <2>5 DEF RowsDistinct
  <1>8. Threads'
    BY <1>6, SameKeeps DEF IInv, Threads
  <1>9. ASSUME NEW k \in DOMAIN rows'
        PROVE  Cell(text[k], rows[k])'
    <2>1. PICK m \in DOMAIN rows : rows'[k] = rows[m] /\ text'[k] = text[m]
      BY <1>3, <1>4
    <2>2. PICK u \in Tasks, x \in {text[m]} : u = rows[m]
      BY <1>2
    <2>3. Cell(x, u)
      BY <2>2 DEF IInv, Cells
    <2>4. Cell(x, u)'
      BY <1>6, <2>3, SameKeeps
    <2>5. QED
      BY <2>1, <2>2, <2>4
  <1>10. Cells'
    BY <1>9 DEF Cells
  <1>11. QED
    BY <1>5, <1>7, <1>8, <1>10 DEF IInv

\* Only a task that has ended is removed.
LEMMA OnRemoveInv ==
  ASSUME IInv, NEW i \in DOMAIN rows, OnRemove(i)
  PROVE  IInv'
  <1>1. PICK t \in Tasks : t = rows[i]
    BY RowTypes DEF IInv, RowsDistinct
  <1>2. /\ rows' = RemoveAt(rows, i) /\ text' = RemoveAt(text, i) /\ ~ptr[t]
        /\ thread' = thread /\ ptr' = ptr /\ wpc' = wpc /\ pending' = pending
        /\ cancel' = [cancel EXCEPT ![t] = FALSE] /\ queuing' = [queuing EXCEPT ![t] = FALSE]
        /\ current' = [current EXCEPT ![t] = 0] /\ failed' = [failed EXCEPT ![t] = 0]
        /\ error' = [error EXCEPT ![t] = "none"] /\ done' = [done EXCEPT ![t] = 0]
        /\ maxCon' = maxCon /\ left > 0 /\ left' = left - 1 /\ ui' = ui
    BY <1>1 DEF OnRemove, Commanding
  <1>3. /\ Len(rows) \in Nat /\ DOMAIN rows = 1..Len(rows) /\ DOMAIN text = DOMAIN rows
        /\ \A k \in DOMAIN rows : rows[k] \in Tasks /\ text[k] \in Text
        /\ Len(text) = Len(rows) /\ rows \in Seq(Tasks) /\ text \in Seq(Text)
    BY RowTypes DEF IInv, TypeOK, RowsDistinct
  <1>4. /\ rows' \in Seq(Tasks) /\ Len(rows') = Len(rows) - 1
        /\ DOMAIN rows' = 1..Len(rows) - 1
        /\ \A k \in 1..Len(rows) - 1 : rows'[k] = rows[IF k < i THEN k ELSE k + 1]
    <2>1. /\ RemoveAt(rows, i) \in Seq(Tasks)
          /\ Len(RemoveAt(rows, i)) = Len(rows) - 1
          /\ DOMAIN RemoveAt(rows, i) = 1..Len(rows) - 1
          /\ \A k \in 1..Len(rows) - 1 :
               RemoveAt(rows, i)[k] = rows[IF k < i THEN k ELSE k + 1]
      BY <1>3, RemoveAtProps, Zenon
    <2>2. QED
      BY <1>2, <2>1, Zenon
  <1>5. /\ text' \in Seq(Text) /\ Len(text') = Len(rows) - 1
        /\ \A k \in 1..Len(rows) - 1 : text'[k] = text[IF k < i THEN k ELSE k + 1]
    <2>1. i \in DOMAIN text
      BY <1>3
    <2>2. /\ RemoveAt(text, i) \in Seq(Text)
          /\ Len(RemoveAt(text, i)) = Len(text) - 1
          /\ \A k \in 1..Len(text) - 1 :
               RemoveAt(text, i)[k] = text[IF k < i THEN k ELSE k + 1]
      BY <1>3, <2>1, RemoveAtProps, Zenon
    <2>3. QED
      BY <1>2, <1>3, <2>2, Zenon
  <1>6. thread[t] = "freed" /\ wpc[t] = "gone"
    <2>1. thread[t] # "none"
      BY <1>1 DEF IInv, RowsDistinct
    <2>2. QED
      BY <1>2, <2>1, TaskFacts DEF Phase, ThreadState
  <1>7. TypeOK'
    <2>1. 0 \in -1..Count /\ 0 \in 0..Count
      BY TasksAssumption
    <2>2. left' \in 0..MaxCommands
      BY <1>2, TasksAssumption DEF IInv, TypeOK
    <2>3. /\ cancel' \in [Tasks -> BOOLEAN] /\ queuing' \in [Tasks -> BOOLEAN]
          /\ error' \in [Tasks -> {"none", "file", "dest"}]
      BY <1>2 DEF IInv, TypeOK
    <2>4. /\ current' \in [Tasks -> -1..Count] /\ failed' \in [Tasks -> 0..Count]
          /\ done' \in [Tasks -> 0..Count]
      BY <1>2, <2>1 DEF IInv, TypeOK
    <2>5. QED
      BY <1>2, <1>4, <1>5, <2>2, <2>3, <2>4 DEF IInv, TypeOK
  <1>8. \A u \in Tasks \ {t} : Same(u)
    BY <1>2 DEF Same
  <1>9. ASSUME NEW k \in DOMAIN rows'
        PROVE  \E m \in DOMAIN rows : m # i /\ rows'[k] = rows[m] /\ text'[k] = text[m]
    <2>1. CASE k < i
      <3>1. k \in DOMAIN rows /\ k # i
        BY <1>3, <1>4, <2>1
      <3>2. rows'[k] = rows[k] /\ text'[k] = text[k]
        BY <1>3, <1>4, <1>5, <2>1
      <3>3. QED
        BY <3>1, <3>2
    <2>2. CASE k >= i
      <3>1. k + 1 \in DOMAIN rows /\ k + 1 # i
        BY <1>3, <1>4, <2>2
      <3>2. rows'[k] = rows[k + 1] /\ text'[k] = text[k + 1]
        BY <1>3, <1>4, <1>5, <2>2
      <3>3. QED
        BY <3>1, <3>2
    <2>3. QED
      BY <1>3, <1>4, <2>1, <2>2
  <1>10. RowsDistinct'
    <2>1. \A k \in DOMAIN rows' : thread'[rows'[k]] # "none"
      BY <1>2, <1>9 DEF IInv, RowsDistinct
    <2>2. ASSUME NEW k \in DOMAIN rows', NEW m \in DOMAIN rows', rows'[k] = rows'[m]
          PROVE  k = m
      <3> DEFINE p(n) == IF n < i THEN n ELSE n + 1
      <3>1. /\ p(k) \in DOMAIN rows /\ rows'[k] = rows[p(k)]
            /\ p(m) \in DOMAIN rows /\ rows'[m] = rows[p(m)]
        BY <1>3, <1>4
      <3>2. p(k) = p(m)
        BY <2>2, <3>1 DEF IInv, RowsDistinct
      <3>3. QED
        BY <1>3, <1>4, <3>2
    <2>3. QED
      BY <1>4, <1>5, <2>1, <2>2 DEF RowsDistinct
  <1>11. Threads'
    <2>1. Phase(t)' /\ Work(t)'
      BY <1>2, <1>6, TaskFacts DEF Phase, Work
    <2>2. QED
      BY <1>8, <2>1, SameKeeps DEF IInv, Threads
  <1>12. ASSUME NEW k \in DOMAIN rows'
         PROVE  Cell(text[k], rows[k])'
    <2>1. PICK m \in DOMAIN rows : m # i /\ rows'[k] = rows[m] /\ text'[k] = text[m]
      BY <1>9
    <2>2. PICK u \in Tasks \ {t}, x \in {text[m]} : u = rows[m]
      BY <1>1, <1>3, <2>1 DEF IInv, RowsDistinct
    <2>3. Cell(x, u)
      BY <2>2 DEF IInv, Cells
    <2>4. Cell(x, u)'
      BY <1>8, <2>3, SameKeeps
    <2>5. QED
      BY <2>1, <2>2, <2>4
  <1>13. Cells'
    BY <1>12 DEF Cells
  <1>14. QED
    BY <1>7, <1>10, <1>11, <1>13 DEF IInv

\* A task that the user pauses, or lets go on, or starts paused.
LEMMA OnPauseInv ==
  ASSUME IInv, NEW i \in DOMAIN rows, OnPause(i)
  PROVE  IInv'
  <1>1. PICK t \in Tasks : t = rows[i]
    BY RowTypes DEF IInv, RowsDistinct
  <1>2. /\ Len(rows) \in Nat /\ DOMAIN rows = 1..Len(rows) /\ DOMAIN text = DOMAIN rows
        /\ Len(text) = Len(rows) /\ text \in Seq(Text)
    BY RowTypes DEF IInv, TypeOK, RowsDistinct
  <1>3. left' \in 0..MaxCommands
    BY TasksAssumption DEF OnPause, Commanding, IInv, TypeOK
  <1>4. CASE Over("crashed")
    BY <1>3, <1>4, OverInv
  <1>5. CASE ~Over("crashed")
    <2> DEFINE s == IF IsAlive(t) THEN thread[t] ELSE AfterPause(AfterRun(thread[t]))
               q == queuing[t] \/ ~IsAlive(t)
    <2>1. /\ ptr[t] /\ thread[t] # "freed"
          /\ thread' = [thread EXCEPT ![t] = AfterPause(s)]
          /\ queuing' = [queuing EXCEPT ![t] = IF s = "paused" THEN ~q ELSE q]
          /\ text' = [text EXCEPT ![i] = IF s = "paused" /\ ~q THEN "Queuing" ELSE "Paused"]
          /\ wpc' = [wpc EXCEPT ![t] = IF thread[t] = "new" THEN "start" ELSE wpc[t]]
          /\ ui' = "check" /\ rows' = rows /\ ptr' = ptr /\ cancel' = cancel
          /\ current' = current /\ failed' = failed /\ error' = error /\ done' = done
          /\ pending' = pending /\ maxCon' = maxCon
      BY <1>1, <1>5 DEF OnPause, Usable, taskVars
    <2>2. thread[t] \in {"new", "running", "paused", "exited"}
      BY <2>1, TaskFacts DEF Phase, ThreadState
    <2>3. /\ thread'[t] = AfterPause(s)
          /\ queuing'[t] = IF s = "paused" THEN ~q ELSE q
          /\ wpc'[t] = IF thread[t] = "new" THEN "start" ELSE wpc[t]
          /\ text'[i] = IF s = "paused" /\ ~q THEN "Queuing" ELSE "Paused"
      BY <1>2, <2>1 DEF IInv, TypeOK
    <2>4. /\ thread[t] = "new" => s = "paused" /\ q
          /\ thread[t] = "running" => s = "running" /\ q = queuing[t]
          /\ thread[t] = "paused" => s = "paused" /\ q = queuing[t]
          /\ thread[t] = "exited" => s = "exited" /\ q
      BY TaskFacts DEF IsAlive, AfterPause, AfterRun
    <2>5. q \in BOOLEAN /\ queuing[t] \in BOOLEAN
      BY TaskFacts
    <2> HIDE DEF s, q
    <2>6. \/ /\ thread[t] = "new" /\ thread'[t] = "paused" /\ ~queuing'[t]
             /\ wpc'[t] = "start" /\ text'[i] = "Paused"
          \/ /\ thread[t] = "running" /\ thread'[t] = "paused" /\ queuing'[t] = queuing[t]
             /\ wpc'[t] = wpc[t] /\ text'[i] = "Paused"
          \/ /\ thread[t] = "paused" /\ thread'[t] = "paused" /\ queuing'[t] = ~queuing[t]
             /\ wpc'[t] = wpc[t] /\ text'[i] = IF queuing[t] THEN "Paused" ELSE "Queuing"
          \/ /\ thread[t] = "exited" /\ thread'[t] = "exited" /\ queuing'[t] = TRUE
             /\ wpc'[t] = wpc[t] /\ text'[i] = "Paused"
      BY <2>2, <2>3, <2>4, <2>5 DEF AfterPause
    <2>7. TypeOK'
      <3>1. thread'[t] \in ThreadState /\ wpc'[t] \in Place
        BY <2>6, TaskFacts DEF ThreadState, Place
      <3>2. thread' \in [Tasks -> ThreadState] /\ wpc' \in [Tasks -> Place]
        BY <2>1, <2>3, <3>1 DEF IInv, TypeOK
      <3>3. queuing' \in [Tasks -> BOOLEAN]
        <4>1. (IF s = "paused" THEN ~q ELSE q) \in BOOLEAN
          BY <2>5
        <4>2. QED
          BY <2>1, <4>1, Zenon DEF IInv, TypeOK
      <3>4. text' \in Seq(Text)
        BY <1>2, <2>1 DEF Text
      <3>5. QED
        BY <1>3, <2>1, <3>2, <3>3, <3>4 DEF IInv, TypeOK
    <2>8. \A u \in Tasks \ {t} : Same(u)
      BY <2>1 DEF Same, IInv, TypeOK
    <2>9. Phase(t)'
      BY <2>1, <2>6, TaskFacts DEF Phase
    <2>10. Work(t)'
      BY <2>1, <2>6, TaskFacts DEF Work, Phase
    <2>11. Cell(text[i], t)'
      <3>1. Cell(text[i], t) /\ wpc'[t] # "gone"
        BY <1>1, <2>1, <2>6, TaskFacts DEF Phase
      <3>2. Verdict(t)'
        BY <2>1, <2>6, <3>1 DEF Cell, Verdict
      <3>3. PICK y : y = text'[i]
        OBVIOUS
      <3>4. Says(y, t)'
        BY <3>1 DEF Says
      <3>5. Tells(y, t)'
        <4>1. cancel[t] \/ thread[t] # "running" \/ ~queuing[t]
          BY TaskFacts DEF Phase
        <4>2. QED
          BY <2>1, <2>5, <2>6, <3>3, <4>1 DEF Tells
      <3>6. QED
        <4>1. Cell(y, t)'
          BY <3>2, <3>4, <3>5 DEF Cell
        <4>2. QED
          BY <3>3, <4>1
    <2>12. \A k \in DOMAIN rows : rows[k] = t => k = i
      BY <1>1 DEF IInv, RowsDistinct
    <2>13. /\ Len(text') = Len(text)
           /\ \A k \in DOMAIN rows : rows[k] # t => text'[k] = text[k]
      BY <1>1, <1>2, <2>1
    <2>14. thread'[t] # "none"
      BY <2>6
    <2>15. \A k \in DOMAIN rows : rows[k] = t => Cell(text[k], t)'
      BY <2>11, <2>12
    <2>16. QED
      BY <2>1, <2>7, <2>8, <2>9, <2>10, <2>13, <2>14, <2>15, OneTask
  <1>6. QED
    BY <1>4, <1>5

\* A task that the user cancels: what its row says is left to the STATUS event.
LEMMA OnCancelInv ==
  ASSUME IInv, NEW i \in DOMAIN rows, OnCancel(i)
  PROVE  IInv'
  <1>1. PICK t \in Tasks : t = rows[i]
    BY RowTypes DEF IInv, RowsDistinct
  <1>2. left' \in 0..MaxCommands
    BY TasksAssumption DEF OnCancel, Commanding, IInv, TypeOK
  <1>3. CASE Over("crashed")
    BY <1>2, <1>3, OverInv
  <1>4. CASE ~Over("crashed")
    <2>1. /\ ptr[t] /\ thread[t] # "freed"
          /\ thread' = [thread EXCEPT ![t] = AfterDelete(thread[t])]
          /\ cancel' = [cancel EXCEPT ![t] = TRUE]
          /\ queuing' = queuing /\ text' = text /\ wpc' = wpc
          /\ ui' = ui /\ rows' = rows /\ ptr' = ptr
          /\ current' = current /\ failed' = failed /\ error' = error /\ done' = done
          /\ pending' = pending /\ maxCon' = maxCon
      BY <1>1, <1>4 DEF OnCancel, Usable, taskVars, gridVars
    <2>2. thread[t] \in {"new", "running", "paused", "exited"}
      BY <2>1, TaskFacts DEF Phase, ThreadState
    <2>3. /\ thread'[t] = AfterDelete(thread[t]) /\ cancel'[t] = TRUE
      BY <2>1 DEF IInv, TypeOK
    <2>4. \/ thread[t] = "new" /\ thread'[t] = "freed"
          \/ thread[t] \in {"running", "paused"} /\ thread'[t] = "running"
          \/ thread[t] = "exited" /\ thread'[t] = "exited"
      BY <2>2, <2>3 DEF AfterDelete, AfterResume
    <2>5. TypeOK'
      <3>1. thread' \in [Tasks -> ThreadState]
        BY <2>1, <2>3, <2>4 DEF IInv, TypeOK, ThreadState
      <3>2. cancel' \in [Tasks -> BOOLEAN]
        BY <2>1 DEF IInv, TypeOK
      <3>3. QED
        BY <1>2, <2>1, <3>1, <3>2 DEF IInv, TypeOK
    <2>6. \A u \in Tasks \ {t} : Same(u)
      BY <2>1 DEF Same, IInv, TypeOK
    <2>7. Phase(t)'
      BY <2>1, <2>3, <2>4, TaskFacts DEF Phase
    <2>8. Work(t)'
      BY <2>1, TaskFacts DEF Work
    <2>9. \A x : Cell(x, t) => Cell(x, t)'
      <3>1. wpc[t] # "gone"
        BY <2>1, <2>2, TaskFacts DEF Phase
      <3>2. Verdict(t) => Verdict(t)'
        BY <2>1, <2>3 DEF Verdict
      <3>3. QED
        BY <2>1, <2>3, <3>1, <3>2 DEF Cell, Says, Tells
    <2>10. thread'[t] # "none"
      BY <2>4
    <2>11. QED
      BY <2>1, <2>5, <2>6, <2>7, <2>8, <2>9, <2>10, TaskFacts, OneTask
  <1>5. QED
    BY <1>3, <1>4

\* The threads, the dialog and its rows stay what the invariant says they are.
THEOREM TasksInvariance == Spec => []IInv
  <1>1. Init => IInv
    <2>1. SUFFICES ASSUME Init
                   PROVE  IInv
      OBVIOUS
    <2>2. TypeOK
      <3>1. 0 \in -1..Count /\ 0 \in 0..Count /\ MaxCommands \in 0..MaxCommands
        BY TasksAssumption
      <3>2. /\ thread \in [Tasks -> ThreadState] /\ wpc \in [Tasks -> Place]
            /\ ptr \in [Tasks -> BOOLEAN] /\ cancel \in [Tasks -> BOOLEAN]
            /\ queuing \in [Tasks -> BOOLEAN] /\ error \in [Tasks -> {"none", "file", "dest"}]
        BY <2>1 DEF Init, ThreadState, Place
      <3>3. /\ current \in [Tasks -> -1..Count] /\ failed \in [Tasks -> 0..Count]
            /\ done \in [Tasks -> 0..Count] /\ left \in 0..MaxCommands
        BY <2>1, <3>1 DEF Init
      <3>4. /\ rows \in Seq(Tasks) /\ text \in Seq(Text) /\ pending \in SUBSET Tasks
            /\ ui \in {"idle", "check", "crashed", "closed"} /\ maxCon \in MaxCons
        BY <2>1 DEF Init
      <3>5. QED
        BY <3>2, <3>3, <3>4 DEF TypeOK
    <2>3. RowsDistinct /\ Cells
      <3>1. rows = <<>> /\ text = <<>>
        BY <2>1 DEF Init
      <3>2. QED
        BY <3>1 DEF RowsDistinct, Cells
    <2>4. Threads
      BY <2>1 DEF Init, Threads, Phase, Work
    <2>5. QED
      BY <2>2, <2>3, <2>4 DEF IInv
  <1>2. IInv /\ [Next]_vars => IInv'
    <2>1. SUFFICES ASSUME IInv, [Next]_vars
                   PROVE  IInv'
      OBVIOUS
    <2>2. /\ Len(rows) \in Nat /\ DOMAIN rows = 1..Len(rows)
      BY RowTypes DEF IInv, RowsDistinct
    <2>3. CASE Command
      <3>1. left' \in 0..MaxCommands
        <4>1. Commanding
          BY <2>3 DEF Command, OnNew, OnUp, OnDown, OnPause, OnCancel, OnRemove,
             SetMaxCon, Destroy
        <4>2. QED
          BY <2>1, <4>1, TasksAssumption DEF Commanding, IInv, TypeOK
      <3>2. ASSUME NEW t \in Tasks, OnNew(t)
            PROVE  IInv'
        BY <2>1, <3>2, OnNewInv
      <3>3. ASSUME NEW i \in DOMAIN rows, OnUp(i)
            PROVE  IInv'
        <4>1. i - 1 \in DOMAIN rows
          BY <2>2, <3>3 DEF OnUp
        <4>2. QED
          BY <2>1, <3>3, <4>1, MoveInv DEF OnUp
      <3>4. ASSUME NEW i \in DOMAIN rows, OnDown(i)
            PROVE  IInv'
        <4>1. i + 1 \in DOMAIN rows
          BY <2>2, <3>4 DEF OnDown
        <4>2. QED
          BY <2>1, <3>4, <4>1, MoveInv DEF OnDown
      <3>5. ASSUME NEW i \in DOMAIN rows, OnPause(i) \/ OnCancel(i) \/ OnRemove(i)
            PROVE  IInv'
        BY <2>1, <3>5, OnPauseInv, OnCancelInv, OnRemoveInv
      <3>6. ASSUME NEW n \in MaxCons, SetMaxCon(n)
            PROVE  IInv'
        <4>1. /\ rows' = rows /\ text' = text /\ thread' = thread /\ ptr' = ptr
              /\ cancel' = cancel /\ wpc' = wpc /\ queuing' = queuing
              /\ pending' = pending /\ maxCon' = n /\ ui' = "check"
              /\ current' = current /\ failed' = failed /\ error' = error /\ done' = done
          BY <3>6 DEF SetMaxCon, gridVars, threadVars, taskVars
        <4>2. TypeOK' /\ RowsDistinct'
          BY <2>1, <3>1, <4>1 DEF IInv, TypeOK, RowsDistinct
        <4>3. Threads'
          BY <2>1, <4>1 DEF IInv, Threads, Phase, Work
        <4>4. Cells'
          BY <2>1, <4>1 DEF IInv, Cells, Cell, Verdict, Says, Tells, Status
        <4>5. QED
          BY <4>2, <4>3, <4>4 DEF IInv
      <3>7. ASSUME Destroy
            PROVE  IInv'
        BY <2>1, <3>1, <3>7, OverInv DEF Destroy
      <3>8. QED
        BY <2>3, <3>2, <3>3, <3>4, <3>5, <3>6, <3>7 DEF Command
    <2>4. CASE CheckConcurrentRun
      BY <2>1, <2>4, CheckInv
    <2>5. CASE \E t \in Tasks : OnUpdateTask(t) \/ Worker(t)
      BY <2>1, <2>5, OnUpdateTaskInv, WorkerInv
    <2>6. ASSUME NEW t \in Tasks, SaveUnloaded(t)
          PROVE  IInv'
      <3>1. Over("crashed") /\ left' = left
        BY <2>6 DEF SaveUnloaded
      <3>2. left' \in 0..MaxCommands
        BY <2>1, <3>1 DEF IInv, TypeOK
      <3>3. QED
        BY <2>1, <3>1, <3>2, OverInv
    <2>7. CASE UNCHANGED vars
      <3>1. /\ rows' = rows /\ text' = text /\ thread' = thread /\ ptr' = ptr
            /\ cancel' = cancel /\ wpc' = wpc /\ queuing' = queuing
            /\ pending' = pending /\ maxCon' = maxCon /\ ui' = ui /\ left' = left
            /\ current' = current /\ failed' = failed /\ error' = error /\ done' = done
        BY <2>7 DEF vars, gridVars, threadVars, taskVars
      <3>2. TypeOK' /\ RowsDistinct'
        BY <2>1, <3>1 DEF IInv, TypeOK, RowsDistinct
      <3>3. Threads'
        BY <2>1, <3>1 DEF IInv, Threads, Phase, Work
      <3>4. Cells'
        BY <2>1, <3>1 DEF IInv, Cells, Cell, Verdict, Says, Tells, Status
      <3>5. QED
        BY <3>2, <3>3, <3>4 DEF IInv
    <2>8. QED
      BY <2>1, <2>3, <2>4, <2>5, <2>6, <2>7 DEF Next
  <1>3. QED
    BY <1>1, <1>2, PTL DEF Spec

-----------------------------------------------------------------------------
(* What follows from it.                                                   *)

\* Every variable keeps its type: in particular a task never counts more files
\* as written or failed than it has.
THEOREM TypesKept == Spec => []TypeOK
  <1>1. IInv => TypeOK
    BY DEF IInv
  <1>2. QED
    BY <1>1, TasksInvariance, PTL

\* The row of a task that has not ended and was not cancelled says what its
\* thread does, whatever the user and the checks have done to it.
THEOREM RowsTell == Spec => []RowTells
  <1>1. IInv => RowTells
    <2>1. SUFFICES ASSUME IInv, NEW i \in DOMAIN rows, ptr[rows[i]],
                          thread[rows[i]] # "exited", ~cancel[rows[i]]
                   PROVE  text[i] = CASE thread[rows[i]] = "running" -> "Running"
                            [] IsPaused(rows[i]) /\ ~queuing[rows[i]] -> "Paused"
                            [] thread[rows[i]] = "new" \/ queuing[rows[i]] -> "Queuing"
      BY DEF RowTells
    <2>2. PICK t \in Tasks, x \in {text[i]} : t = rows[i]
      BY <2>1, RowTypes DEF IInv, RowsDistinct
    <2>3. /\ thread[t] = "running" => x = "Running"
          /\ thread[t] = "new" => x = "Queuing"
          /\ thread[t] = "paused" => x = IF queuing[t] THEN "Queuing" ELSE "Paused"
      BY <2>1, <2>2, TaskFacts DEF Cell, Tells
    <2>4. /\ thread[t] \in {"running", "paused", "new"}
          /\ thread[t] \in {"running", "new"} => ~queuing[t]
      BY <2>1, <2>2, TaskFacts DEF Phase, ThreadState
    <2>5. x = CASE thread[t] = "running" -> "Running"
                [] thread[t] = "paused" /\ ~queuing[t] -> "Paused"
                [] thread[t] = "new" \/ queuing[t] -> "Queuing"
      <3>1. CASE thread[t] = "running"
        BY <2>3, <2>4, <3>1
      <3>2. CASE thread[t] = "paused"
        BY <2>3, <2>4, <3>2
      <3>3. CASE thread[t] = "new"
        BY <2>3, <2>4, <3>3
      <3>4. QED
        BY <2>4, <3>1, <3>2, <3>3
    <2>6. QED
      BY <2>2, <2>5 DEF IsPaused
  <1>2. QED
    BY <1>1, TasksInvariance, PTL

\* What a row says of a task that has ended is what happened to its files.
THEOREM VerdictsTrue == Spec => []VerdictTrue
  <1>1. IInv => VerdictTrue
    <2>1. SUFFICES ASSUME IInv, NEW i \in DOMAIN rows, wpc[rows[i]] = "gone",
                          rows[i] \notin pending
                   PROVE  \/ text[i] = "Completed" /\ done[rows[i]] = Count
                          \/ /\ text[i] = "Incomplete" /\ failed[rows[i]] > 0
                             /\ done[rows[i]] + failed[rows[i]] = Count
                          \/ text[i] = "Cancelled" /\ cancel[rows[i]]
                          \/ /\ text[i] = "Failed"
                             /\ \/ cancel[rows[i]]
                                \/ error[rows[i]] = "dest" /\ done[rows[i]] < Count
      BY DEF VerdictTrue
    <2>2. PICK t \in Tasks, x \in {text[i]} : t = rows[i]
      BY <2>1, RowTypes DEF IInv, RowsDistinct
    <2>3. /\ x = Status(t, thread[t], queuing[t]) /\ ~ptr[t] /\ Verdict(t)
          /\ failed[t] \in 0..Count /\ done[t] \in 0..Count /\ Count \in Nat
          /\ error[t] \in {"none", "file", "dest"}
      BY <2>1, <2>2, TaskFacts, TasksAssumption DEF Cell, Says, Phase, ThreadState
    <2>4. /\ current[t] = Count /\ error[t] = "none" => x = "Completed"
          /\ current[t] = Count /\ error[t] # "none" => x = "Incomplete"
          /\ current[t] # Count /\ error[t] = "none" => x = "Cancelled"
          /\ current[t] # Count /\ error[t] # "none" => x = "Failed"
      BY <2>3 DEF Status, StatusString
    <2>5. /\ current[t] = Count => /\ done[t] + failed[t] = Count
                                   /\ error[t] = "none" <=> failed[t] = 0
          /\ current[t] # Count => cancel[t] \/ (error[t] = "dest" /\ done[t] < Count)
      BY <2>1, <2>2, <2>3 DEF Verdict
    <2>6. QED
      BY <2>2, <2>3, <2>4, <2>5
  <1>2. QED
    BY <1>1, TasksInvariance, PTL

\* A task the user has paused is resumed by nobody but the user.
THEOREM HeldByTheUser == Spec => HeldByUser
  <1> DEFINE Held(t) == IsPaused(t) /\ ~queuing[t] /\ left' = left => thread'[t] # "running"
  <1>1. ASSUME IInv, [Next]_vars, NEW t \in Tasks, thread[t] = "paused", ~queuing[t],
               left' = left
        PROVE  thread'[t] # "running"
    <2>1. ~Command
      <3>1. ~Commanding
        BY <1>1 DEF Commanding, IInv, TypeOK
      <3>2. QED
        BY <3>1 DEF Command, OnNew, OnUp, OnDown, OnPause, OnCancel, OnRemove, SetMaxCon,
           Destroy
    <2>2. CASE CheckConcurrentRun
      <3>1. CASE Over("crashed")
        BY <3>1 DEF Over
      <3>2. CASE \E written \in [Tasks -> BOOLEAN] : CheckOfAll(written)
        BY <1>1, <3>2 DEF CheckOfAll, Checks
      <3>3. QED
        BY <1>1, <2>2, <3>1, <3>2, CheckEffect
    <2>3. ASSUME NEW u \in Tasks, OnUpdateTask(u)
          PROVE  thread'[t] # "running"
      BY <1>1, <2>3 DEF OnUpdateTask, threadVars
    <2>4. ASSUME NEW u \in Tasks, Worker(u)
          PROVE  thread'[t] # "running"
      <3>1. \/ thread' = thread
            \/ thread' = [thread EXCEPT ![u] = "exited"]
            \/ thread' = [thread EXCEPT ![u] = "freed"]
        BY <2>4 DEF Worker, Test, File, Exit, FileDone, FileFails, TargetFails, Return
      <3>2. QED
        BY <1>1, <3>1 DEF IInv, TypeOK
    <2>5. ASSUME NEW u \in Tasks, SaveUnloaded(u)
          PROVE  thread'[t] # "running"
      BY <2>5 DEF SaveUnloaded, Over
    <2>6. CASE UNCHANGED vars
      BY <1>1, <2>6 DEF vars, threadVars
    <2>7. QED
      BY <1>1, <2>1, <2>2, <2>3, <2>4, <2>5, <2>6 DEF Next
  <1>2. IInv /\ [Next]_vars => [\A t \in Tasks : Held(t)]_vars
    BY <1>1 DEF IsPaused
  <1>3. QED
    BY <1>2, TasksInvariance, PTL DEF Spec, HeldByUser
=============================================================================
