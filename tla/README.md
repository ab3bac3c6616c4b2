# Kujawiak Viewer (kuView): models and proofs

kuView is a wxWidgets picture viewer. Its own code is `src/src/*.cpp` and
`src/include/ku.h` (about 11,000 lines); `src/FreeImage/` is a vendored library.
This directory holds TLA+ models of the program, TLC configurations that check
them on small instances, and proofs checked by TLAPS.

## 1. Inventory

| component | state | operations | meets |
|---|---|---|---|
| bitmap loader, `kuLoadThread` | `mLoadQueue`, `mBmpHash`, `mBmpCache`, two mutexes | thread: `Entry`; UI: `Clear Append Prepend Remove Replace GetFiBitmap` | the UI thread (calls, shared state), the frame (`wxEVT_LOADED_EVENT`) |
| picture panel, `kuSingleScrolled` | `mFilename mOrigBmp mCropRect`, scale and position | `ReloadImage Rotate90 SaveImage ZoomSelectedArea Rescale SetScale SetFullScreen` | loader, options, files |
| file tree / archive tree, `kuGenericDirCtrl`, `kuVirtualDirCtrl` | selection, filter | `OnTreeSelChanged PrefetchSiblings Locate Reload` | panel, loader, history |
| frame, `kuFrame` | `mIsArchive mIsThumbnail mIsSlideshow mIsPause mIsHistory`, history arrays and indices, slideshow directories | `Action(...)`, `OnLoaded OnIdle OnClose HistoryTracing PlaySlideshow Traverse`, copy/move/delete/rename | everything |
| application, `kuApp` | options, `mIsBusy mIsInterrupted mIsEdited mWaitLoader mQuit mIdleTasks mIsExploring` | `ParseArguments DoActionCmd CheckEdited SetEdited ClearThread`, file associations, `Export`/`Import` of options | everything |
| task manager, `kuManagerDialog` | tasks, their threads, selected row | `OnNew OnPause OnCancel OnRemove OnUp OnDown OnUpdateTask CheckConcurrentRun` | worker threads (status events) |
| rescale tasks, `kuRescaleThread`, `kuRescaleMgrDialog` | list of files, `Current`, `Failed`, status and error | `Entry OnExit SaveToFile` | manager, files |
| Picasa Web tasks | as above, over HTTP | compiled only with `ENABLE_PICASAWEBMGR` | manager |
| thumbnail panel, `kuMultipleScrolled`, `kuThumbButton` | thumbs, selection | `ReloadThumbs AddThumbs Select` | busy and interrupt flags |
| printing, small dialogs, key handling | none that outlives them | | |

Two kinds of concurrency meet in it. Threads: the loader, and one thread for each
rescale task. Re-entrance: a handler that opens a modal dialog or yields lets the
event loop run other handlers in its middle.

What makes each part correct:

- *Loader.* List and hash agree (else the eviction loop never ends); no bitmap is
  leaked or freed twice; previews do not become cache entries; the picture on screen
  goes before prefetches; no call blocks for ever; the program ends, and after the
  loader.
- *Panel, tree, commands.* The screen shows what the file holds, turned as the
  options say; previews are replaced; only complete pictures are edited and saved.
- *History.* The three indices stay inside their arrays, and going back and forward
  is what it says.
- *Task manager.* The upper rows run, as many as are allowed, and no others; a task the
  user holds stays held; each row says what became of its task; all is worked off.
- *Slideshow and thumbnails.* One slideshow at most; a pause is not forgotten; when all
  calls have returned kuView is not busy; and they return.
- *File operations.* A move deletes nothing it has not copied, wherever it fails or is
  stopped; a success is told only when all is there.
- *Options, associations.* What is saved is what is restored.

`PROJECT.json` lists the hazards one by one, at their lines.

## 2. Modules and plan

| module | models | run by | status |
|---|---|---|---|
| `KuLoader` | the loader and its client, the UI thread | `MCKuLoader` | done |
| `KuLoader_proofs` | its inductive invariant and what follows from it | | done |
| `KuLoaderBitmaps_proofs` | its bitmaps: none leaked, none freed twice, no preview cached | | done |
| `KuViewer` | panel, file tree, commands and the end of the program, composed with `KuLoader` | `MCKuViewer` | done, without `Rescale` |
| `KuViewer_proofs` | its safety, the refinement of `KuLoader` among it | | done |
| `KuFork` | what back, forward and branch promise: two lines that part | (refined) | done |
| `KuHistory` | `HistoryTracing`, back, forward, branch, with the yields in between | `MCKuHistory` | done |
| `KuHistory_proofs` | its theorems, the refinement of `KuFork` among them | | done |
| `KuTasks` | the task manager, its scheduler and the rescale threads | `MCKuTasks` | done |
| `KuTasks_proofs` | what the rows and verdicts say, and what the user holds | | done |
| `KuTasksRows_proofs` | which rows run | | done |
| `KuBusy` | slideshow, thumbnails and what shares the busy and interrupt flags | `MCKuBusy` | done |
| `KuBusy_proofs` | its safety | | done |
| `KuFiles` | cut, copy, paste, move, delete, rename, mkdir with failures | `MCKuFiles` | done |
| `KuFiles_proofs` | its safety: no file lost or astray, and a paste does what it says | | done |

Left in the plan: idle tasks and exploring (`kuFrame::OnIdle`), the command line, and the
round trip of the options. No module has a `RECURSIVE` operator.

## 3. The models

### KuLoader

State: `queue` is `mLoadQueue`, `hash` is `mBmpHash` (`NoEntry` where there is no
key), `cache` is `mBmpCache`; `lpc`, `ticket`, `lbmp` are the place and the locals of
`Entry`; `apc`, `call`, `abmp` those of the UI thread's call; `events` are the pending
`wxEVT_LOADED_EVENT`s; `live` counts the bitmaps FreeImage has allocated that the loader
must unload; `disk` is what the files hold; `quit`, `frame`, `deleting`, `waitLoader` are
the end of the program.

A bitmap is a record: which picture, how it is turned, for which size it was loaded,
and whether it is a rough preview, a good picture or a part of one. Pixels are left out.

Granularity: a critical section of the UI thread, and one of the queue, is one step,
because the other thread cannot see into it. The loader's two under `mBmpMutex` take several
steps with `bmpMutex` held: the check unlocks on two paths of its own (`EntryCheck`, then
`EntryHit`, which is the `continue`, or `EntryMiss`), so that a path without its `Unlock` can
be told (`CallReturns`); the eviction loop of the update is one step for each round, so that
its termination can be asked. What is read without a lock is a
step of its own: the queue's count (`EntryTop`), `mQuit` (`EntryNotify`), the `find` of
`Remove` and `Replace` (`FindUnlocked`, which may answer wrongly while the loader is
changing the table). Reading element 0 of an empty array and posting to a destroyed
frame are undefined behaviour: the program may end (`Crash`), or go on with a ticket that
was never queued, or lose the event.

The client is arbitrary: any method at any time with any argument, so what holds here
holds for any use of the loader. Bounds: `MaxQueue` tickets waiting (the code has no
limit), `MaxEvents` pending events, `Written` and `Given` for what the client may write
to files and pass to `Replace`.

### KuViewer

It instantiates `KuLoader` with the same variables and adds the selection of the tree
(`sel`), what the panel shows (`file`, `orig`, `from`, `crop`), the options (`rot`, `keep`,
`complete`), `edited`, and the handler in progress (`upc`, `rest`, `quarter`, `dialog`,
`target`). A command starts when the event loop is idle; each call of the loader is the
loader's own sequence of steps, so the loader thread runs in between. While a dialog of
Save or Save As is open, `OnLoaded` is still handled. Nothing else is: the dialogs are
modal.

`file` and `orig` can part: `ReloadImage("")`, with a directory selected, sets `mFilename` and
returns, and the bitmap stays. Whether a bitmap is reduced is read from its own tags
(`GetOriginalJPEGSize(mOrigBmp)`), so the model keeps the file it was decoded from (`from`)
beside it; turning it or cutting an area out keeps the tags. A zoom asks the loader for
the complete picture and cuts the area out of the one on screen, or does not, when it is too
small. Without a file its ticket is for `""`: the loader loads `NULL` for it and gives it a
place in the cache, which the model leaves out (`Paths` are the pictures).

`Siblings` abstracts which neighbours `PrefetchSiblings` finds, `Jpeg` and `Lossless`
which files FreeImage can load reduced and turn without loss, `View` the size of the
panel, smaller than any picture. `MaxOps` bounds how many commands the user gives,
`Commands` chooses which.

`LoaderSpec` says that this composition implements `KuLoader!Spec`: the viewer calls the
loader only in ways the client of `KuLoader` may, so its theorems apply; `KuViewer_proofs` proves it.

Not in it: archives (edit is disabled there, the calls are the same with `isurl`),
`Rescale`, thumbnails, exploring.

### KuFork and KuHistory

`KuFork` is the promise, without arrays: the line the user is on (`here`, a past and a
future), the line that was left (`there`) and where they part. `Visit` goes on from here
and, from the middle, makes the old future the other line; `Back` and `Forward` move;
`Jump` exchanges the lines. `KuHistory` has the code's arrays and indices
(`mHistoryMainFiles`, `mHistoryMainIndex`, `mHistorySwapIndex`, `mHistoryBranchFiles`,
`mHistoryBranchIndex`), `mIsHistory`, the selection, the files that exist and the calls
that wait. `HistoryTracing` is the code's three cases, `Branch` its two loops, `Locate` the
selection of the directory and then of the file, or of what is found instead of a file
that has vanished. `ReloadThumbs` yields inside `OnTreeSelChanged`, before
`HistoryTracing`: a command may run there, which is why `MayYield` suspends the handler. One
yield is pending at a time. (Pictures dropped on the thumbnails inside it end with
`SetBusy(false)`, `kuMultipleScrolled.cpp:139`, and a second `ReloadThumbs` could then yield
inside the first; `KuBusy` has those flags, `KuHistory` leaves it out.)

### KuTasks

`rows` is `mTasks`, `text` the status cells; per task, `thread` is the `wxThread`'s state,
`ptr` whether `task->Thread` is set, `queuing current failed error` the task's fields,
`wpc` the place in `Entry` and `OnExit`, `done` counts the written targets (the program
keeps no such number: it is what the verdict is compared with). `pending` are the STATUS
events on their way. Each button is an action, its `CheckConcurrentRun` a step after it;
a file of a task is a step, so is `OnExit`. Why the pass of the check over the rows may be
one step is explained in the module's head: what it does to a row depends only on that row
and the rows above.

`wxThread` is modelled as wxWidgets documents it: `Pause` and `Delete` leave marks that
`TestDestroy` sees, a detached thread frees itself, and `Delete` of a thread that never
ran frees it at once. The program reads `task->Thread` again for each call, without a
lock; where the thread is in `OnExit`, or the pointer dangles, a step may end in a crash
(`MayCrash`, `Over`), or go well. So may a thread that could not write a target and saves
the bitmap again, which it has unloaded (`SaveUnloaded`). The threads that `CheckConcurrentRun`
finds gone between its calls of `IsAlive` and `IsRunning` are any that have ended (`Passed`):
more than the code's window allows, so the safety properties hold of more than the
code does. The trace of `tasks_max`, the shortest there is, passes a thread over in this
way; with none ever passed over the same violation takes eight commands in place of six: a
task that was paused is cancelled while a running one stands below two that wait.

### KuBusy

`stack` holds the calls that have not returned: the loading of thumbnails, the slideshow,
`Locate` on a directory, a slideshow command in its `wxSafeYield`, a traversal. Only the
newest goes on (`Go`); in its `Yield` the user gives commands, which may push others.
`busy`, `interrupted`, `quit` are `kuApp`'s, the others the frame's fields of the same
names. A picture is a place in a directory; `Broken` are those FreeImage reports an error
for, in which case its handler sets the interrupt flag of whatever runs. Sleeping between
two pictures is part of the frame `"sleep"`.

### KuFiles

`disk` maps paths to contents; `stack` holds the calls of `CopyDir` or `DeleteDir`, each
with the entries it still has to read. A file is a step. Any call of the system may fail
(`MaxFailures`), a copy leaving a partial file, and the user answers the question either
way: the walk goes on without the entry, or every call returns. `wxDir::GetNext` may or may
not find what the walk has itself put into a directory that is being read (`MayFind`). The
temporary directory of a copy into itself, the second walk out of it and its removal are
the phases `"tmp"`, `"final"`, `"done"`. `before` and `given` remember, for the properties,
the disk when the command began and what the user has given up.

It is the build without `SHFileOperation`; on MSW the shell does the work. A list of
several sources is not modelled: `mFileClipboard` holds one (`CopyToFileClipboard`).

## 4. The runs

| run | instance | shows |
|---|---|---|
| `loader_queue` | 3 paths (1 broken, 2 symmetric), cache of 2, queue of 2 | `CacheInHash`, `NoDuplicates`, `PriorFirst`, `Conservation`, `ExitAfterLoader` |
| `loader_life` | 1 path, 2 sizes, its file rewritten in 2 orientations, good bitmaps and previews given to `Replace`, cache of 1, fair | `TypeOK`, `NoPreviewCached`, `ShutdownCompletes`, `CallReturns`, `UpdateEnds` |
| `viewer_browse` | 2 JPEG files, 3 commands of select, reload, keep, rotate | `ShowsDisk` |
| `viewer_edit` | 2 JPEG files, 1 turned without loss, no siblings; 5 commands of select, select a directory, reload, rotate clockwise, save, save as | `EditedIsComplete`, `SavesWhatIsShown` |
| `viewer_client` | every command, 2 of them, fair | `TypeOK`, `LoaderSpec`, `PreviewReplaced` |
| `history` | 3 symmetric files, 4 visits, files vanish, commands nest | `TypeOK`, `IndicesInside`, `ShownIsCurrent`, `KeepsPromise` |
| `tasks` | 2 tasks of 2 files, one at a time, failures, 5 commands, fair | `TypeOK`, `TopRowsRun`, `RowTells`, `VerdictTrue`, `HeldByUser`, `WorksOff` |
| `busy` | 2 directories of 2 pictures, 1 of them broken, 5 commands, fair | `TypeOK`, `OneSlideshow`, `PausedInFullScreen`, `FreeAtRest`, `ComesToRest` |
| `files` | 3 disks of 4 or 5 entries, 2 commands, 1 failure | `TypeOK`, `NothingLost`, `NeverAstray`, `TellsTheTruth`, `ReadsWhatWasThere` |
| `loader_pop` | 2 paths | violates `PopsATicket` |
| `viewer_stale` | lossless rotation | violates `ShowsDisk` |
| `tasks_max` | 4 symmetric tasks of 1 file, one at a time, 6 commands | violates `AtMostMaxCon` |

Why the bounds are enough:

- Loader: eviction needs one path more than the cache holds; the order of the queue
  needs a prior ticket, a prefetch and one of either; the races with the loader need one
  ticket in flight and one call. A cache of one makes every load evict.
- Viewer: three commands are the shortest way to each picture that `viewer_browse` tells
  apart (turn, keep, come back). `viewer_edit` has five: to select a picture and then a
  directory, to reload it away from its file, to turn it, and to do something with
  it; its longest path has 116 steps. It has no siblings and turns one way only, to
  afford that: with siblings prefetched, or with zooming, its properties hold in runs of fewer
  commands, and for any of them by the proofs. The queue bounds (6) are never
  reached. A bound on commands can hide something: that what a lossless rotation caches is
  what the file holds is true of three commands, but a fourth, rotating again after the
  stale picture of `viewer_stale` was shown, turns that picture and caches it. The properties
  checked now are proved for any number of commands.
- History: four visits make a main line, a branch off its middle and a second branch
  that replaces the first; the proofs hold for any bound.
- Tasks: two rows for one slot have one that runs, one that waits, and an order to
  change; two files are the least for which "the first failed, the second was written"
  and "given up after the first" differ. `tasks_max` needs four tasks of one file to
  exceed the limit. The safety theorems hold for any number of tasks, files and commands.
- Busy: a slideshow, a directory's thumbnails in it, dropped files on top and two
  commands to interrupt, continue or close need five commands; two pictures have a next
  and a last one.
- Files: two commands are cut and paste, or a copy and what comes after it; the disks
  hold a name for each collision: a file with the temporary directory's name, a
  directory of the source's own name inside it, and one at the destination. One failure
  is enough, since every failed call ends its own file and the walk goes on or stops; a
  failure that has a reason on the disk (the target exists, the directory is not empty)
  is not bounded.

Three runs end in a violation. Each checks what the code's comments, its messages or
`src/doc/CHANGELOG.txt` say:

- `loader_pop`: "pop the first ticket" may find none (`Clear` between test and pop).
- `viewer_stale`: after a lossless rotation a load begun before it is cached and shown.
- `tasks_max`: the dialog asks for "the maximum number of concurrent tasks", and more can
  run. The loop of `CheckConcurrentRun` ends at the first row that was never started and
  does not fit in (`kuManagerDialog.cpp:473`) and leaves the tasks below as they are; one
  that runs there is not counted. `TopRowsRun` therefore speaks of the rows down to that
  one only: as it was first written, of all rows, it held in a run of three tasks and
  is false; the attempt to prove it brought that to light.

Met while modelling. The models do these things as the code does, nothing in the
repository promises otherwise, and the properties say where they stop short of them:

- The loader may post its event to a frame that has just been destroyed
  (`kuLoadThread.cpp:91`). `Replace` and `Remove` look for the path without the mutex; an
  entry that was evicted meanwhile is made again in the hash without being listed, and no
  eviction reaches it (258).
- A `LOADED` event for a ticket that was queued before an edit reloads the picture and
  drops the edit, also under the message box of Save. With a directory selected, Reload
  takes the picture's file away (`kuSingleScrolled.cpp:190`-`192`); `CheckEdited` then has
  nothing to load (`kuApp.cpp:709`), and a rotation edits the reduced bitmap, where
  `CHANGELOG.txt:47` says "don't set edited when not load completely". `EditedIsComplete`
  speaks of pictures with a file, since this one cannot be saved, and choosing a file
  drops it. A preview can be edited when "load
  completely" is switched on while it is shown. With a kept rotation, a lossless rotation
  caches a bitmap that is not turned as the file (`kuSingleScrolled.cpp:376`; Save As does
  the same to the original's entry, 317).
- Cancelling a task that never started leaves `task->Thread` dangling
  (`kuManagerDialog.cpp:263`). A task removed between `OnExit` and its STATUS event takes
  the event with it, and the queuing tasks wait for the next command (268). `Destroy` frees
  tasks whose threads still run. A target that cannot be written is tried again with the
  bitmap already unloaded (`kuRescaleThread.cpp:97`, `107`).
- `mSlideshowIndex` stays behind the list when the last directory was played without
  repeat, and the next start reads past the end (`kuFrame.cpp:1205`). Thumbnails or a
  slideshow that end on top of others reset `mIsBusy` under them: interrupting is then
  disabled and closing the frame does not interrupt. An error of FreeImage while nothing
  runs leaves the interrupt flag for the next call. An interrupted directory is not loaded
  again (`dirname == mDirname`).
- Copying a directory into itself drops the result of the first walk
  (`kuFrame.cpp:2066`-`2074`). A rename replaces an existing file. A tree pasted over a
  directory it lies in may meet itself (`OverAncestor`, which the properties of `KuFiles`
  but `NothingLost` leave out). `NothingLost` speaks of what files hold; an empty directory that
  a rename replaces is no loss.

### Fairness

`KuLoader!Fairness`: the loader thread and the code of a call are scheduled (weak), the
event loop handles posted events (weak), and a closed frame is destroyed and the loader
stopped (strong: wxWidgets does it when the event loop is idle, which happens between
calls again and again). `KuViewer!Fairness`: the loader, calls and handlers run on
(weak), and pending events are handled (strong, since handlers run in between).
`KuTasks!Fairness`: the event loop finishes what it began and handles posted events, and
each worker is scheduled; all weak, since nothing disables them but a pause by the user,
and the user gives finitely many commands. `KuBusy!LiveSpec`: the newest call goes on when its
`Yield` returns (weak); `ComesToRest` excludes a slideshow that repeats. Nothing obliges the
user to act, to close the window or to answer a dialog. `KuHistory` and `KuFiles` need no
fairness: their properties are safety.

## 5. The proofs

`KuLoader_proofs` proves, for all constants that satisfy `LoaderAssumption`, any number
of paths, any cache size and any bound on the queue:

- `Invariance`: `Spec => []IInv`, with
  `IInv == TypeOK /\ MutexOwned /\ CacheInHash /\ NoDuplicates /\ PriorFirst /\ Handshake`;
- from it `TypeCorrect`, `CacheAgreement`, `CacheDistinct`, `PriorOrder` and `SafeExit`.
  `MutexOwned`, which says where the loader holds the mutex, is a part of the invariant only.

Why the conjuncts are needed together: erasing a path keeps `CacheInHash` only if it is
listed once, which is `NoDuplicates`; adding one keeps `NoDuplicates` only if a listed
path is in the hash, which is `CacheInHash` (`AddBmpHash` takes a path out of the list
only then). `ExitAfterLoader` is not inductive: `Handshake` adds how `mWaitLoader`,
`Delete` and the two program counters agree on the way there. `GetPrepend` puts a prior
ticket in front, `AppendTicket` one that is not prior at the end, `Clear` keeps a prefix:
each keeps `PriorFirst`. The lemmas `WithoutProps`, `EraseKeeps`, `AddKeeps` and
`PrependKeeps` state this of the operators; one lemma for each of the four groups of
actions, with one step for each action, states it of the steps.

`KuHistory_proofs` proves, for any files and any number of visits (`HistoryTypeCorrect`,
`HistoryInside`, `HistoryKeepsPromise`), what the run `history` checks on three files:

- `IInv == TypeOK /\ IndicesInside` is inductive: that an index is in range would not be
  enough. `IndicesInside` adds that there is a swap index only while there is a branch, and
  that both lines then go on after the entry they share; without the latter the arrays
  `Branch` builds could be empty where its indices point.
- `KeepsPromise` is the refinement of `KuFork`: `here` is the main array with its index,
  `there` the branch array with its own, `fork` the swap index. `Parts` and `Beginning`
  say what the operators on sequences return, `TracingKeeps` and `BranchArrays` what the
  two loops leave in the arrays, `TracingIsVisit` and `BranchIsJump` that these are the
  steps of `KuFork`; `StepIsForkStep` goes through the actions, each of which is a step of
  `KuFork` or leaves its variables alone.

- `HistoryCurrent` adds `Traced` to the invariant: as long as no file has vanished, no
  command of the history is under way (`mIsHistory` is unset, and no handler of the history
  is yielding), and whatever is selected is the entry at the index.

`KuLoaderBitmaps_proofs` counts the bitmaps. `BitmapsConserved` proves `Conservation` from
`IInv`: `StoreCounts` says that one entry exchanged in the hash changes the number of
bitmaps by what is freed and what is added (theorems on the cardinality of finite sets),
and each step of the two threads moves a bitmap between the hash, the locals and the
caller. `PreviewsStayOut` proves the action property `NoPreviewCached` for every client,
also one that gives `Replace` previews, as `KuViewer`'s can: no other step than `ReplaceStore`
makes an entry a preview that was none. Its invariant says that what the loader and a
call that will add are carrying is no preview; hits, erasures and evictions move none.

`KuViewer_proofs` has two instances of the loader, `L` of the module and `LP` of its
proofs; the lemmas `Same...` say that they are the same, so that `KuLoader_proofs` is used
and not repeated. The hypothesis `AllTurns` is that the loader's client may ask for every
rotation `mRotate` can hold; `viewer_browse` and `viewer_edit` give that value.

- `ViewerInvariance`: `VInv` is the loader's `IInv`, `TypeOK`, `SavesWhatIsShown` and
  `Rooms`, which is what the handlers rely on without looking: the bitmap is the one of the
  file, when there is a file; a selected file is the one shown, a dialog stays with its file, `Replace` has a bitmap.
- `ViewerIsClient` is the refinement: `StepIsLoaderStep` goes through the actions, each of
  which is a step of `KuLoader` or leaves its variables alone. It needs `VInv`: that a file
  is selected when a `LOADED` event is followed up, or that a target is chosen when a
  picture is written, is no guard of those actions.
- `SaveWritesTheShown` is `SavesWhatIsShown`, from `VInv`.
- `EditsAreComplete` is `EditedIsComplete`, as long as `"complete"` is not among the
  commands (with it the property is false: a preview can be edited after the option was
  switched on). `LoadsSharp` follows the size and the kind of every bitmap on its way
  through the two threads and the hash, `EditsSharp` the places of a handler at which a
  picture that is being edited must be `Whole`, which is not reduced unless it has no file, or is
  being loaded completely. Selecting directories and reloading there are among the commands.
- `ShownIsTheFile` is `ShowsDisk` as long as the viewer writes no file (with a lossless
  rotation it is false, `viewer_stale`). `LoadsFacing` says that every bitmap is turned as
  its entry, ticket or call records it, relative to its file.

`KuTasks_proofs` proves, for any tasks, numbers of files and commands, `TypesKept`,
`RowsTell`, `VerdictsTrue` and `HeldByTheUser`. `IInv == TypeOK /\ RowsDistinct /\ Threads /\
Cells`: `Phase` says how the state of a `wxThread`, the place in `Entry` and `OnExit`,
`task->Thread` and the marks go together; `Work` how many files are done at each place;
`Cell` what the text of a row is bound to, also while an event is on its way. `RowTells`
and `VerdictTrue` say less and are not inductive: they hold only when the dialog is at
rest, or at the end.

`KuTasksRows_proofs` proves `TopRowsRun`. The loop of `CheckConcurrentRun` is a recursive
function of the number of rows; that there is one is shown by a least counterexample
(`CountExists`), since the provers have no induction. `TurnOutcome` and `CheckOutcomes`
say what a check leaves in the rows, `FirstOnesRun` that the first ones run if the loop
got that far, and a lemma for each kind of step that after the last check either the
dialog is not at rest or the rows are as the check left them. `RowsOfCreated` is a
pigeonhole: with as many rows as tasks, every task has one.

`KuBusy_proofs` proves `BusyTypes`, `PauseKept`, `NeverTwoSlideshows` and `FreeWhenAtRest`
for any directories and commands. Its invariant adds to the types how the calls that have
not returned agree with the flags (`Agree`): a flag is set by a call and reset by it, but
another may end on top of it, so each clause speaks of the whole stack.

`KuFiles_proofs` proves `FilesTypes` and `NoFileLost` for any disks that are trees, any
names, commands and failures. `NothingLost` is inductive with the types and little else:
the frames are well-typed calls, the clipboard is empty or holds a path, what a command
remembers has its type, and the frames of a deletion stay in the tree whose contents the
user gave up.

`FilesNeverAstray` and `WalksEnd` need `Pasting`: each call of the walk reads one directory
of the tree at `Root` and writes the one at the same place of the tree at `Base`
(`Placing`), the two trees are apart, nothing is new in the one that is read, and nothing
was in the temporary one. Where a tree is pasted over a directory it is in
(`OverAncestor`) the two are not apart and both properties are silent. `PastesAreTrue`
adds `Telling`, how far a paste has come as long as nobody was asked: what is `Pending` is
still at its `Source`, all else is at its `Goal`, and `Listed` names everything else on
the disk. That a walk that ends has nothing pending is the theorem; that its second half
finds what the first one made is the step from `"tmp"` to `"final"`.

## 6. Only model-checked, and not modelled

Only TLC: every liveness property (the prover has no fairness) - `ShutdownCompletes`,
`CallReturns`, `UpdateEnds`, `PreviewReplaced`, `WorksOff`, `ComesToRest`. `loader_queue`,
`history` and `tasks_max` use symmetry of things that are treated alike; no liveness is
checked in them.

Not modelled:

- pixels, layout, wording and logging; the arithmetic of scale and scrolling, on doubles;
- failures of `FreeImage_Rotate` and `FreeImage_Clone` for want of memory; other programs
  that write the picture files while the viewer runs (`KuLoader`'s client may write any
  file at any time, the other modules write only as their commands do);
- in `KuTasks`, the disk: two tasks with one destination may choose the same free name
  (`kuRescaleThread.cpp:77`-`86`), and PROGRESS events, which only fill a cell;
- in `KuBusy`, archives (they play without the list of directories), empty directories
  and what is in the panel;
- idle tasks, the command line beside the slideshow, export and import of options, file
  associations: straight sequences over lists or registry keys, without interleaving;
- Picasa Web, which is disabled in the build and talks to a service that is gone (its
  dialog is `kuManagerDialog`, so `KuTasks` speaks of it, its thread is not modelled);
- printing and the small dialogs, which keep no state;
- FreeImage and the libraries in it, which are vendored: the models say what the program
  relies on them for.
