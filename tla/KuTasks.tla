------------------------------ MODULE KuTasks -------------------------------
(***************************************************************************)
(* The task manager and its rescale tasks.                                 *)
(*                                                                         *)
(* kuManagerDialog (src/src/kuManagerDialog.cpp) shows one row per task    *)
(* and decides which tasks run: at most mMaxCon, the upper rows first.     *)
(* Each task has a wxThread (src/src/kuRescaleThread.cpp) that works its   *)
(* files off and reports the end of the task by a STATUS event.  The two   *)
(* share the task object, without a lock.                                  *)
(*                                                                         *)
(* A handler of the dialog is one step, its CheckConcurrentRun another:    *)
(* threads go on and end in between.  They also do so while the check goes *)
(* through the rows, but what it does to a row depends on that row and on  *)
(* the rows above, so that a thread's steps before its row is looked at    *)
(* can as well come before the check, and the later ones after it.         *)
(*                                                                         *)
(* The thread itself is modelled as wxWidgets documents it: Pause() and    *)
(* Delete() leave a mark that TestDestroy() sees, a paused thread goes on  *)
(* until it gets there, and a detached thread frees itself.                *)
(***************************************************************************)
EXTENDS Integers, Sequences, FiniteSets

CONSTANTS
  Tasks,     \* the tasks the user may create
  Count,     \* the files of a task (Files.GetCount())
  Failures,  \* whether files and destinations may fail
  MaxCons,   \* the numbers the user may enter for mMaxCon (the dialog: 1..10)
  MaxCommands  \* bound of the model: how many commands the user gives

ASSUME TasksAssumption ==
  /\ IsFiniteSet(Tasks)
  /\ Count \in Nat \ {0}
  /\ Failures \in BOOLEAN
  /\ MaxCons \subseteq Nat \ {0} /\ MaxCons # {}
  /\ MaxCommands \in Nat

VARIABLES
  rows,     \* mTasks: the task of each row
  text,     \* the status cell of each row
  thread,   \* the state of each task's wxThread, "none" before OnNew
  ptr,      \* task->Thread is not NULL
  cancel,   \* Delete() was called on the thread
  queuing,  \* task->Queuing
  wpc,      \* where the thread is in Entry() and OnExit()
  current,  \* task->Current, with -1 for the wrapped size_t
  failed,   \* task->Failed
  error,    \* task->Error: of a file, or of the destination
  done,     \* how many targets the task has written, or skipped as existing
  pending,  \* the tasks whose STATUS event is not handled yet
  ui,       \* what the UI thread is doing
  maxCon,   \* mMaxCon
  left      \* how many commands the user still gives

taskVars   == <<current, failed, error, done>>
threadVars == <<thread, ptr, cancel, wpc>>
gridVars   == <<rows, text>>
vars == <<gridVars, threadVars, queuing, taskVars, pending, ui, maxCon, left>>

ThreadState == {"none", "new", "running", "paused", "exited", "freed"}
Place       == {"none", "start", "test", "file", "exit", "gone"}
Text        == {"Running", "Queuing", "Paused", "Completed", "Incomplete",
                "Cancelled", "Failed"}

-----------------------------------------------------------------------------
(* wxThread, as the dialog uses it.                                        *)

IsAlive(t)  == thread[t] \in {"running", "paused"}
IsPaused(t) == thread[t] = "paused"

\* Run, Pause and Resume do nothing in any other state.
AfterRun(s)    == IF s = "new" THEN "running" ELSE s
AfterPause(s)  == IF s = "running" THEN "paused" ELSE s
AfterResume(s) == IF s = "paused" THEN "running" ELSE s

\* Delete wakes a paused thread; one that never ran is freed without Entry()
\* and without OnExit().
AfterDelete(s) == IF s = "new" THEN "freed" ELSE AfterResume(s)

\* The pointer is read again for each call: between the test for NULL and a
\* call, a thread in OnExit() may have set it to NULL.  A pointer that is not
\* NULL may be of a thread that is gone.
MayCrash(t) == ptr[t] /\ (wpc[t] = "exit" \/ thread[t] = "freed")
Usable(t)   == ptr[t] /\ thread[t] # "freed"

\* GetStatusString, of the thread's state, Queuing, Thread, Current and Error.
StatusString(s, q, p, c, e) ==
  CASE p /\ s = "paused" /\ q            -> "Queuing"
    [] p /\ s = "paused" /\ ~q           -> "Paused"
    [] p /\ s = "running"                -> "Running"
    [] p /\ s \notin {"paused", "running"} -> "Queuing"
    [] ~p /\ c = Count /\ e = "none"     -> "Completed"
    [] ~p /\ c = Count /\ e # "none"     -> "Incomplete"
    [] ~p /\ c # Count /\ e = "none"     -> "Cancelled"
    [] ~p /\ c # Count /\ e # "none"     -> "Failed"

Status(t, s, q) == StatusString(s, q, ptr[t], current[t], error[t])

\* The program is over: it has crashed, or the dialog is destroyed and its
\* tasks are freed.  Nothing is known of them any more.
Over(end) ==
  /\ ui' = end
  /\ rows' = <<>> /\ text' = <<>> /\ pending' = {}
  /\ thread' = [t \in Tasks |-> "none"]
  /\ wpc' = [t \in Tasks |-> "none"]
  /\ ptr' = [t \in Tasks |-> FALSE]
  /\ cancel' = [t \in Tasks |-> FALSE]
  /\ queuing' = [t \in Tasks |-> FALSE]
  /\ current' = [t \in Tasks |-> 0]
  /\ failed' = [t \in Tasks |-> 0]
  /\ error' = [t \in Tasks |-> "none"]
  /\ done' = [t \in Tasks |-> 0]
  /\ UNCHANGED maxCon

-----------------------------------------------------------------------------
(* CheckConcurrentRun.                                                     *)

\* What becomes of a row: its thread's state, Queuing, the number of running
\* tasks counted so far, and what the loop does then: go on to the next row,
\* write the status cell before it does, or break.
Row(s, q, n, then) == [state |-> s, queuing |-> q, concurrent |-> n, then |-> then]

\* A running thread is counted; one too many is paused.
CheckRunning(q, n) ==
  IF n + 1 > maxCon THEN Row("paused", TRUE, n, "write")
                    ELSE Row("running", q, n + 1, "go on")

\* CheckPaused, had a thread the user has paused been resumed too.
CheckPausedAny(q, n) ==
  IF n < maxCon THEN Row("running", FALSE, n + 1, "write")
                ELSE Row("paused", q, n, "go on")

\* A paused thread that queues is resumed if there is room.
CheckPaused(q, n) ==
  IF q /\ n < maxCon THEN Row("running", FALSE, n + 1, "write")
                     ELSE Row("paused", q, n, "go on")

\* A thread that does not live is taken for one that waits for its start, a
\* thread in OnExit() too: its Run() fails but it is counted.
CheckStart(s, q, n) ==
  IF n < maxCon THEN Row(AfterRun(s), q, n + 1, "write")
                ELSE Row(s, q, n, "break")

\* One turn of the loop, for a row whose Thread is not NULL.
CheckRow(s, q, n) ==
  CASE s = "running"            -> CheckRunning(q, n)
    [] s = "paused"             -> CheckPaused(q, n)
    [] s \notin {"running", "paused"} -> CheckStart(s, q, n)

\* A thread in OnExit() does not live.  If it ended between IsAlive() and
\* IsRunning() (it is one of vanished), it is neither running nor queuing.  Any
\* thread in OnExit() may be one, also one that ended before the check: more
\* than the code's window between the two calls, never less.
Passed(t, vanished) == ~ptr[t] \/ t \in vanished

\* The loop's count, and whether it goes on, after the first i rows.
Loop(vanished) ==
  LET count[i \in 0..Len(rows)] ==
        IF i = 0 THEN [n |-> 0, on |-> TRUE]
        ELSE LET t == rows[i]
                 n == count[i - 1].n
                 result == CheckRow(thread[t], queuing[t], n)
             IN  IF ~count[i - 1].on THEN count[i - 1]
                 ELSE IF Passed(t, vanished) THEN [n |-> n, on |-> TRUE]
                 ELSE [n |-> result.concurrent, on |-> result.then # "break"]
  IN  [i \in DOMAIN rows |-> count[i - 1]]

Ended == {t \in Tasks : ptr[t] /\ thread[t] = "exited"}

RowOf(t) == CHOOSE i \in DOMAIN rows : rows[i] = t

CheckConcurrentRun ==
  /\ ui = "check"
  /\ \E vanished \in SUBSET Ended :
       LET loop == Loop(vanished)
           Reached == {i \in DOMAIN rows : loop[i].on /\ ptr[rows[i]]}
           Looked == {rows[i] : i \in {j \in Reached : ~Passed(rows[j], vanished)}}
           Result(t) ==
             IF t \in Looked
             THEN CheckRow(thread[t], queuing[t], loop[RowOf(t)].n)
             ELSE Row(thread[t], queuing[t], 0, "go on")
       IN  \/ /\ \A t \in Looked : thread[t] # "freed"
              /\ thread' = [t \in Tasks |-> Result(t).state]
              /\ queuing' = [t \in Tasks |-> Result(t).queuing]
              /\ wpc' = [t \in Tasks |->
                    IF thread[t] = "new" /\ Result(t).state = "running"
                    THEN "start" ELSE wpc[t]]
              /\ text' = [i \in DOMAIN text |->
                    LET t == rows[i] IN
                    IF Result(t).then = "write"
                    THEN Status(t, Result(t).state, Result(t).queuing)
                    ELSE text[i]]
              /\ ui' = "idle"
              /\ UNCHANGED <<rows, ptr, cancel, taskVars, pending, maxCon>>
           \/ (\E i \in Reached : MayCrash(rows[i])) /\ Over("crashed")
  /\ UNCHANGED left

-----------------------------------------------------------------------------
(* The dialog's handlers.                                                  *)

Commanding == ui = "idle" /\ left > 0 /\ left' = left - 1

\* OnNew; the task that CreateTask returns has Count files.
OnNew(t) ==
  /\ Commanding /\ thread[t] = "none"
  /\ thread' = [thread EXCEPT ![t] = "new"]
  /\ ptr' = [ptr EXCEPT ![t] = TRUE]
  /\ rows' = Append(rows, t)
  /\ text' = Append(text, "Queuing")
  /\ ui' = "check"
  /\ UNCHANGED <<cancel, wpc, queuing, taskVars, pending, maxCon>>

Swapped(s, i, j) == [s EXCEPT ![i] = s[j], ![j] = s[i]]

\* Move, had the cells stayed where they are.
MoveTaskOnly(i, j) ==
  /\ rows' = Swapped(rows, i, j)
  /\ UNCHANGED text

\* The task and the cells of its row change places with the neighbour's.
Move(i, j) ==
  /\ rows' = Swapped(rows, i, j)
  /\ text' = Swapped(text, i, j)

OnUp(i) ==
  /\ Commanding /\ i # 1
  /\ Move(i, i - 1)
  /\ ui' = "check"
  /\ UNCHANGED <<threadVars, queuing, taskVars, pending, maxCon>>

OnDown(i) ==
  /\ Commanding /\ i # Len(rows)
  /\ Move(i, i + 1)
  /\ ui' = "check"
  /\ UNCHANGED <<threadVars, queuing, taskVars, pending, maxCon>>

\* OnPause: a thread that was not started yet is started and paused first, as
\* if it had been queuing after a pause.
OnPause(i) ==
  LET t == rows[i]
      s == IF IsAlive(t) THEN thread[t] ELSE AfterPause(AfterRun(thread[t]))
      q == queuing[t] \/ ~IsAlive(t)
  IN
  /\ Commanding
  /\ \/ /\ Usable(t)
        /\ thread' = [thread EXCEPT ![t] = AfterPause(s)]
        /\ queuing' = [queuing EXCEPT ![t] = IF s = "paused" THEN ~q ELSE q]
        /\ text' = [text EXCEPT ![i] = IF s = "paused" /\ ~q THEN "Queuing"
                                                             ELSE "Paused"]
        /\ wpc' = [wpc EXCEPT ![t] = IF thread[t] = "new" THEN "start" ELSE @]
        /\ ui' = "check"
        /\ UNCHANGED <<rows, ptr, cancel, taskVars, pending, maxCon>>
     \/ MayCrash(t) /\ Over("crashed")

OnCancel(i) ==
  LET t == rows[i] IN
  /\ Commanding
  /\ \/ /\ Usable(t)
        /\ thread' = [thread EXCEPT ![t] = AfterDelete(@)]
        /\ cancel' = [cancel EXCEPT ![t] = TRUE]
        /\ UNCHANGED <<gridVars, ptr, wpc, queuing, taskVars, pending, ui,
                       maxCon>>
     \/ MayCrash(t) /\ Over("crashed")

RemoveAt(s, i) == [j \in 1..Len(s) - 1 |-> IF j < i THEN s[j] ELSE s[j + 1]]

\* OnRemove.  The task is not deleted, but nobody reads it again; its fields
\* are put back only to keep the states few.
OnRemove(i) ==
  LET t == rows[i] IN
  /\ Commanding /\ ~ptr[t]
  /\ rows' = RemoveAt(rows, i)
  /\ text' = RemoveAt(text, i)
  /\ cancel' = [cancel EXCEPT ![t] = FALSE]
  /\ queuing' = [queuing EXCEPT ![t] = FALSE]
  /\ current' = [current EXCEPT ![t] = 0]
  /\ failed' = [failed EXCEPT ![t] = 0]
  /\ error' = [error EXCEPT ![t] = "none"]
  /\ done' = [done EXCEPT ![t] = 0]
  /\ UNCHANGED <<thread, ptr, wpc, pending, ui, maxCon>>

\* kuID_RESCALEMGR_MAXCON: CheckConcurrentRun(n).
SetMaxCon(n) ==
  /\ Commanding
  /\ maxCon' = n
  /\ ui' = "check"
  /\ UNCHANGED <<gridVars, threadVars, queuing, taskVars, pending>>

\* OnUpdateTask for a STATUS event, had it not called CheckConcurrentRun.
OnUpdateTaskOnly(t) ==
  /\ ui = "idle" /\ t \in pending
  /\ pending' = pending \ {t}
  /\ text' = [i \in DOMAIN text |->
                IF rows[i] = t THEN Status(t, thread[t], queuing[t]) ELSE text[i]]
  /\ UNCHANGED <<rows, threadVars, queuing, taskVars, ui, maxCon, left>>

\* OnUpdateTask for a STATUS event; a task without a row is ignored.
OnUpdateTask(t) ==
  /\ ui = "idle" /\ t \in pending
  /\ pending' = pending \ {t}
  /\ text' = [i \in DOMAIN text |->
                IF rows[i] = t THEN Status(t, thread[t], queuing[t]) ELSE text[i]]
  /\ ui' = IF \E i \in DOMAIN rows : rows[i] = t THEN "check" ELSE ui
  /\ UNCHANGED <<rows, threadVars, queuing, taskVars, maxCon, left>>

\* Destroy, when the frame is closed: every thread is told to end, the tasks
\* are freed.  What the threads do with the freed tasks is not followed.
Destroy ==
  /\ Commanding
  /\ \/ Over("closed")
     \/ (\E i \in DOMAIN rows : MayCrash(rows[i])) /\ Over("crashed")

Command ==
  \/ \E t \in Tasks : OnNew(t)
  \/ \E i \in DOMAIN rows :
       OnUp(i) \/ OnDown(i) \/ OnPause(i) \/ OnCancel(i) \/ OnRemove(i)
  \/ \E n \in MaxCons : SetMaxCon(n)
  \/ Destroy

-----------------------------------------------------------------------------
(* kuRescaleThread.                                                        *)

Open == ui \notin {"crashed", "closed"}

GoTo(t, where) == wpc' = [wpc EXCEPT ![t] = where]

\* Entry() returns, which makes the thread "exited" before OnExit() runs.
Return(t) ==
  /\ thread' = [thread EXCEPT ![t] = "exited"]
  /\ GoTo(t, "exit")

\* Test, had it compared with > instead of >=.
TestOver(t) ==
  LET last == IF wpc[t] = "start" THEN -1 ELSE current[t] IN
  /\ Open /\ wpc[t] \in {"start", "test"} /\ thread[t] = "running"
  /\ current' = [current EXCEPT ![t] = IF cancel[t] THEN last ELSE last + 1]
  /\ IF cancel[t] \/ last + 1 > Count THEN Return(t)
                                      ELSE GoTo(t, "file") /\ UNCHANGED thread
  /\ UNCHANGED <<gridVars, ptr, cancel, queuing, failed, error, done, pending,
                 ui, maxCon, left>>

\* while(!TestDestroy()): a paused thread waits here.  The next file, or the
\* end of the list.  The first time, Entry() has set Current and Failed before.
Test(t) ==
  LET last == IF wpc[t] = "start" THEN -1 ELSE current[t] IN
  /\ Open /\ wpc[t] \in {"start", "test"} /\ thread[t] = "running"
  /\ failed' = [failed EXCEPT ![t] = IF wpc[t] = "start" THEN 0 ELSE @]
  /\ current' = [current EXCEPT ![t] = IF cancel[t] THEN last ELSE last + 1]
  /\ IF cancel[t] \/ last + 1 >= Count THEN Return(t)
                                       ELSE GoTo(t, "file") /\ UNCHANGED thread
  /\ UNCHANGED <<gridVars, ptr, cancel, queuing, error, done, pending, ui,
                 maxCon, left>>

\* FileFails, had the error not been noted.
FileFailsSilent(t) ==
  /\ failed' = [failed EXCEPT ![t] = @ + 1]
  /\ GoTo(t, "test")
  /\ UNCHANGED <<error, done, thread>>

\* The file could not be read or rescaled.
FileFails(t) ==
  /\ error' = [error EXCEPT ![t] = "file"]
  /\ failed' = [failed EXCEPT ![t] = @ + 1]
  /\ GoTo(t, "test")
  /\ UNCHANGED <<done, thread>>

\* The target is written, under a free name if need be, or it exists and is
\* skipped.
FileDone(t) ==
  /\ done' = [done EXCEPT ![t] = @ + 1]
  /\ GoTo(t, "test")
  /\ UNCHANGED <<failed, error, thread>>

\* The target cannot be written: the destination is read-only or full, or the
\* reason stays unknown.  The other files are given up.  To tell full from
\* unknown, the code saves again: see SaveUnloaded.
TargetFails(t) ==
  /\ error' = [error EXCEPT ![t] = "dest"]
  /\ Return(t)
  /\ UNCHANGED <<failed, done>>

File(t) ==
  /\ Open /\ wpc[t] = "file"
  /\ \/ FileDone(t)
     \/ Failures /\ (FileFails(t) \/ TargetFails(t))
  /\ UNCHANGED <<gridVars, ptr, cancel, queuing, current, pending, ui, maxCon, left>>

\* The other outcome of a failed target: the bitmap saved for a second time, to
\* a temporary file, has been unloaded already, which may end the program.
SaveUnloaded(t) ==
  /\ Open /\ wpc[t] = "file" /\ Failures
  /\ Over("crashed")
  /\ UNCHANGED left

\* OnExit, had it not told the dialog.
ExitSilent(t) ==
  /\ Open /\ wpc[t] = "exit"
  /\ ptr' = [ptr EXCEPT ![t] = FALSE]
  /\ thread' = [thread EXCEPT ![t] = "freed"]
  /\ GoTo(t, "gone")
  /\ UNCHANGED <<gridVars, cancel, queuing, taskVars, pending, ui, maxCon, left>>

\* OnExit: a task that stopped early finds out whether the disk is full by
\* then.  Thread becomes NULL, the STATUS event is posted (the dialog may
\* handle it any time later), and the thread frees itself.
Exit(t) ==
  /\ Open /\ wpc[t] = "exit"
  /\ \/ UNCHANGED error
     \/ /\ Failures /\ current[t] \in 0..Count - 1 /\ error[t] = "none"
        /\ error' = [error EXCEPT ![t] = "dest"]
  /\ ptr' = [ptr EXCEPT ![t] = FALSE]
  /\ pending' = pending \cup {t}
  /\ thread' = [thread EXCEPT ![t] = "freed"]
  /\ GoTo(t, "gone")
  /\ UNCHANGED <<gridVars, cancel, queuing, current, failed, done, ui, maxCon,
                 left>>

Worker(t) == Test(t) \/ File(t) \/ Exit(t)

-----------------------------------------------------------------------------
Init ==
  /\ rows = <<>> /\ text = <<>> /\ pending = {}
  /\ thread = [t \in Tasks |-> "none"]
  /\ wpc = [t \in Tasks |-> "none"]
  /\ ptr = [t \in Tasks |-> FALSE]
  /\ cancel = [t \in Tasks |-> FALSE]
  /\ queuing = [t \in Tasks |-> FALSE]
  /\ current = [t \in Tasks |-> 0]
  /\ failed = [t \in Tasks |-> 0]
  /\ error = [t \in Tasks |-> "none"]
  /\ done = [t \in Tasks |-> 0]
  /\ ui = "idle"
  /\ maxCon \in MaxCons
  /\ left = MaxCommands

Next ==
  \/ Command
  \/ CheckConcurrentRun
  \/ \E t \in Tasks : OnUpdateTask(t) \/ Worker(t) \/ SaveUnloaded(t)

Spec == Init /\ [][Next]_vars

\* The event loop handles what is posted and finishes what it began, and each
\* thread is scheduled.
Fairness ==
  /\ WF_vars(CheckConcurrentRun \/ \E t \in Tasks : OnUpdateTask(t))
  /\ \A t \in Tasks : WF_vars(Worker(t))

LiveSpec == Spec /\ Fairness

-----------------------------------------------------------------------------
(* Properties.                                                             *)

TypeOK ==
  /\ rows \in Seq(Tasks)
  /\ text \in Seq(Text)
  /\ thread \in [Tasks -> ThreadState]
  /\ ptr \in [Tasks -> BOOLEAN]
  /\ cancel \in [Tasks -> BOOLEAN]
  /\ queuing \in [Tasks -> BOOLEAN]
  /\ wpc \in [Tasks -> Place]
  /\ current \in [Tasks -> -1..Count]
  /\ failed \in [Tasks -> 0..Count]
  /\ error \in [Tasks -> {"none", "file", "dest"}]
  /\ done \in [Tasks -> 0..Count]
  /\ pending \in SUBSET Tasks
  /\ ui \in {"idle", "check", "crashed", "closed"}
  /\ maxCon \in MaxCons
  /\ left \in 0..MaxCommands

Created == {t \in Tasks : thread[t] # "none"}

\* The tasks that want to run: running, or waiting to be started or resumed.
Wanting(t) == /\ ptr[t]
              /\ thread[t] \in {"new", "running"} \/ (IsPaused(t) /\ queuing[t])

\* The dialog has nothing left to do, no thread is ending or told to end, and
\* no row was removed.
Settled ==
  /\ ui = "idle" /\ pending = {}
  /\ Len(rows) = Cardinality(Created)
  /\ \A t \in Created : \/ wpc[t] \in {"none", "start", "test", "file"} /\ ~cancel[t]
                        \/ wpc[t] = "gone"

\* Whatever the user pauses, resumes, moves or cancels, and whenever the
\* threads end: as soon as the dialog is at rest, the tasks that run are the
\* first mMaxCon of the rows that want to, down to the first row that was never
\* started and does not fit in, where the loop of CheckConcurrentRun ends.
TopRowsRun ==
  Settled =>
    \A i \in DOMAIN rows :
      /\ Wanting(rows[i])
      /\ \A j \in 1..i - 1 : thread[rows[j]] # "new"
      => (thread[rows[i]] = "running" <=>
            Cardinality({j \in 1..i : Wanting(rows[j])}) <= maxCon)

\* What the user enters is "the maximum number of concurrent tasks" (the
\* message of the dialog): with the dialog at rest, no more than mMaxCon run.
\* The code does not keep it below the row where the loop ends.
AtMostMaxCon ==
  Settled => Cardinality({t \in Tasks : thread[t] = "running"}) <= maxCon

\* What a row says of a task that has ended is what happened: Completed when
\* every target is there, Incomplete when Failed counts the missing ones,
\* Cancelled only if the user has cancelled it (GetStatusString and Entry).
VerdictTrue ==
  ui = "idle" =>
    \A i \in DOMAIN rows :
      LET t == rows[i] IN
      wpc[t] = "gone" /\ t \notin pending =>
        \/ text[i] = "Completed" /\ done[t] = Count
        \/ text[i] = "Incomplete" /\ failed[t] > 0 /\ done[t] + failed[t] = Count
        \/ text[i] = "Cancelled" /\ cancel[t]
        \/ text[i] = "Failed" /\ (cancel[t] \/ (error[t] = "dest" /\ done[t] < Count))

\* The row of a task that has not ended and was not cancelled says what its
\* thread does, also after its row has moved and after a check has started,
\* paused or resumed it (SetCellValue in each handler, CopyRow).
RowTells ==
  \A i \in DOMAIN rows :
    LET t == rows[i] IN
    ptr[t] /\ thread[t] # "exited" /\ ~cancel[t] =>
      text[i] = CASE thread[t] = "running" -> "Running"
                  [] IsPaused(t) /\ ~queuing[t] -> "Paused"
                  [] thread[t] = "new" \/ queuing[t] -> "Queuing"

\* A task the user has paused is resumed by nobody but the user: no check, no
\* end of another task and no change of the rows starts it again.
HeldByUser ==
  [][\A t \in Tasks : IsPaused(t) /\ ~queuing[t] /\ left' = left
                       => thread'[t] # "running"]_vars

\* Left alone, the manager works everything off: once the user gives no more
\* commands, each task with a row gets its verdict into the row, unless it is
\* held by the user or was cancelled before it ever ran.  (A row removed before
\* its STATUS event is handled may leave the others waiting for a command.)
WorkedOff ==
  \/ ui \in {"crashed", "closed"}
  \/ Len(rows) # Cardinality(Created)
  \/ \A i \in DOMAIN rows :
       LET t == rows[i] IN
       \/ text[i] \in {"Completed", "Incomplete", "Cancelled", "Failed"}
       \/ thread[t] = "paused" /\ ~queuing[t] /\ text[i] = "Paused"
       \/ ptr[t] /\ thread[t] = "freed"

WorksOff == <>[]WorkedOff
=============================================================================
