----------------------------- MODULE KuHistory ------------------------------
(***************************************************************************)
(* The history of kuFrame: HistoryTracing, called whenever the selection   *)
(* of the tree changes, and the commands back, forward and branch.         *)
(*                                                                         *)
(* A command moves an index and lets the tree Locate the file of the       *)
(* entry; mIsHistory keeps that from being traced as a visit.  A file that *)
(* is gone leaves its directory selected, and with thumbnails on           *)
(* ReloadThumbs then yields to the event loop: the user can give other     *)
(* commands, history commands too, before Locate and the handlers around   *)
(* it go on with what they find.                                           *)
(***************************************************************************)
EXTENDS Integers, Sequences

CONSTANTS
  Files,      \* the picture files of a directory
  NoPath,     \* wxEmptyString: a directory is selected, not a file
  MaxVisits   \* bound of the model: entries on a line of the history

ASSUME HistoryAssumption == NoPath \notin Files /\ MaxVisits \in Nat

VARIABLES
  main,         \* mHistoryMainFiles
  mainIndex,    \* mHistoryMainIndex, counted from 0 as in the code
  swapIndex,    \* mHistorySwapIndex: the last entry both lines share
  branch,       \* mHistoryBranchFiles: the other line after that entry
  branchIndex,  \* mHistoryBranchIndex
  isHistory,    \* mIsHistory
  sel,          \* the selection of the tree: GetFilePath()
  disk,         \* the files that still exist
  yielding      \* who called the ReloadThumbs that yields to the event loop

arrays == <<main, mainIndex, swapIndex, branch, branchIndex>>
vars == <<arrays, isHistory, sel, disk, yielding>>

\* Bound of the model: neither line is full.
Room == Len(main) < MaxVisits /\ swapIndex + 1 + Len(branch) < MaxVisits

-----------------------------------------------------------------------------
(* Tracing a visit.                                                        *)

\* The entries after the one the user is at.
InTheMiddle == main # <<>> /\ mainIndex < Len(main) - 1
TailAfter(i) == SubSeq(main, i + 2, Len(main))

\* HistoryTracing, had it kept the place where the old line was left.
HistoryTracingUnswapped(path) ==
  IF isHistory \/ path = NoPath THEN UNCHANGED arrays
  ELSE /\ IF InTheMiddle
          THEN /\ branch' = TailAfter(mainIndex)
               /\ branchIndex' = Len(branch') - 1
               /\ main' = Append(SubSeq(main, 1, mainIndex + 1), path)
          ELSE /\ main' = Append(main, path)
               /\ UNCHANGED <<branch, branchIndex>>
       /\ mainIndex' = mainIndex + 1
       /\ UNCHANGED swapIndex

\* HistoryTracing, had it not counted the new entry.
HistoryTracingUncounted(path) ==
  IF isHistory \/ path = NoPath THEN UNCHANGED arrays
  ELSE /\ IF InTheMiddle
          THEN /\ branch' = TailAfter(mainIndex)
               /\ branchIndex' = Len(branch') - 1
               /\ swapIndex' = mainIndex
               /\ main' = Append(SubSeq(main, 1, mainIndex + 1), path)
          ELSE /\ main' = Append(main, path)
               /\ UNCHANGED <<branch, branchIndex, swapIndex>>
       /\ mainIndex' = IF main = <<>> THEN 0 ELSE mainIndex

\* HistoryTracing: a visit from the middle makes the rest of the line the branch.
HistoryTracing(path) ==
  IF isHistory \/ path = NoPath THEN UNCHANGED arrays
  ELSE /\ IF InTheMiddle
          THEN /\ branch' = TailAfter(mainIndex)
               /\ branchIndex' = Len(branch') - 1
               /\ swapIndex' = mainIndex
               /\ main' = Append(SubSeq(main, 1, mainIndex + 1), path)
          ELSE /\ main' = Append(main, path)
               /\ UNCHANGED <<branch, branchIndex, swapIndex>>
       /\ mainIndex' = mainIndex + 1

-----------------------------------------------------------------------------
(* The tree: kuGenericDirCtrl.                                             *)

\* ReloadThumbs runs only when the program is not busy, with thumbnails shown
\* and another directory than before; otherwise nothing yields.  One yield is pending
\* at a time, as the busy flag has it.  (Pictures dropped on the panel inside a yield end
\* with SetBusy(false), and a second ReloadThumbs could then yield in the first: KuBusy
\* has these flags, here it is left out.)
MayYield == yielding = "none" /\ Room

\* OnTreeSelChanged for a file the user (or a command) selects.
Select(p) ==
  /\ p \in disk /\ p # sel /\ Room
  /\ sel' = p
  /\ HistoryTracing(p)
  /\ UNCHANGED <<isHistory, disk, yielding>>

\* OnTreeSelChanged for a directory.  HistoryTracing comes after ReloadThumbs.
SelectDir ==
  /\ sel # NoPath
  /\ sel' = NoPath
  /\ \/ UNCHANGED yielding
     \/ MayYield /\ yielding' = "select"
  /\ UNCHANGED <<arrays, isHistory, disk>>

\* The selection may have changed while ReloadThumbs yielded: what is traced is
\* what is selected now.
SelectDirDone ==
  /\ yielding = "select"
  /\ HistoryTracing(sel)
  /\ yielding' = "none"
  /\ UNCHANGED <<isHistory, sel, disk>>

\* Locate with a directory selected: the first of its files, if there is one.
FirstChild == IF disk = {} THEN {NoPath} ELSE disk

\* Locate of a directory (dropped on the window, or named on the command line).
LocateDir ==
  /\ Room
  /\ \/ sel' \in FirstChild /\ HistoryTracing(sel') /\ UNCHANGED yielding
     \/ MayYield /\ sel' = NoPath /\ yielding' = "locate" /\ UNCHANGED arrays
  /\ UNCHANGED <<isHistory, disk>>

\* Locate goes on after the yield: the interrupted OnTreeSelChanged traces what is
\* selected, and while that is a directory Locate selects its first file.
LocateGoesOn ==
  \E p \in IF sel = NoPath THEN FirstChild ELSE {sel} :
    sel' = p /\ HistoryTracing(p)

LocateDirDone ==
  /\ yielding = "locate"
  /\ LocateGoesOn
  /\ yielding' = "none"
  /\ UNCHANGED <<isHistory, disk>>

\* HistoryLocate, had it returned without resetting mIsHistory.
HistoryLocateUnreset(path) ==
  /\ sel' \in IF path \in disk THEN {path} ELSE FirstChild
  /\ isHistory' = TRUE
  /\ UNCHANGED yielding

\* mIsHistory = true; Locate(path); mIsHistory = false, after the arrays are set.
\* A file that is gone leaves its directory selected.
HistoryLocate(path) ==
  \/ /\ path \in disk
     /\ sel' = path /\ isHistory' = FALSE /\ UNCHANGED yielding
  \/ /\ path \notin disk
     /\ sel' \in FirstChild /\ isHistory' = FALSE /\ UNCHANGED yielding
  \/ /\ path \notin disk /\ MayYield
     /\ sel' = NoPath /\ isHistory' = TRUE /\ yielding' = "history"

\* A nested history command has reset mIsHistory, so this may trace a visit.
HistoryLocateDone ==
  /\ yielding = "history"
  /\ LocateGoesOn
  /\ isHistory' = FALSE
  /\ yielding' = "none"
  /\ UNCHANGED disk

-----------------------------------------------------------------------------
(* The commands: kuFrame::Action.                                          *)

Back ==
  /\ mainIndex >= 1
  /\ mainIndex' = mainIndex - 1
  /\ HistoryLocate(main[mainIndex])
  /\ UNCHANGED <<main, swapIndex, branch, branchIndex, disk>>

Forward ==
  /\ mainIndex + 1 < Len(main)
  /\ mainIndex' = mainIndex + 1
  /\ HistoryLocate(main[mainIndex + 2])
  /\ UNCHANGED <<main, swapIndex, branch, branchIndex, disk>>

\* Branch, had it left the user at the end of the other line.
BranchAtEnd ==
  /\ mainIndex > swapIndex /\ branch # <<>>
  /\ branch' = TailAfter(swapIndex)
  /\ branchIndex' = mainIndex - swapIndex - 1
  /\ main' = SubSeq(main, 1, swapIndex + 1) \o branch
  /\ mainIndex' = Len(main') - 1
  /\ HistoryLocate(main'[mainIndex' + 1])
  /\ UNCHANGED <<swapIndex, disk>>

\* The tails after mHistorySwapIndex change places, and so do the indices in them.
Branch ==
  /\ mainIndex > swapIndex /\ branch # <<>>
  /\ branch' = TailAfter(swapIndex)
  /\ branchIndex' = mainIndex - swapIndex - 1
  /\ main' = SubSeq(main, 1, swapIndex + 1) \o branch
  /\ mainIndex' = swapIndex + branchIndex + 1
  /\ HistoryLocate(main'[mainIndex' + 1])
  /\ UNCHANGED <<swapIndex, disk>>

\* Another program, or a command of the viewer, deletes a file.
Vanish(p) ==
  /\ p \in disk
  /\ disk' = disk \ {p}
  /\ UNCHANGED <<arrays, isHistory, sel, yielding>>

-----------------------------------------------------------------------------
Init ==
  /\ main = <<>> /\ mainIndex = -1 /\ swapIndex = -1
  /\ branch = <<>> /\ branchIndex = -1
  /\ isHistory = FALSE
  /\ sel = NoPath
  /\ disk = Files
  /\ yielding = "none"

Next ==
  \/ \E p \in Files : Select(p) \/ Vanish(p)
  \/ SelectDir \/ SelectDirDone \/ LocateDir \/ LocateDirDone
  \/ Back \/ Forward \/ Branch \/ HistoryLocateDone

Spec == Init /\ [][Next]_vars

-----------------------------------------------------------------------------
(* Properties.                                                             *)

\* Every variable stays in its type, and mIsHistory outlives a command only while
\* its Locate yields.
TypeOK ==
  /\ main \in Seq(Files) /\ branch \in Seq(Files)
  /\ mainIndex \in Int /\ swapIndex \in Int /\ branchIndex \in Int
  /\ isHistory \in BOOLEAN
  /\ sel \in Files \cup {NoPath}
  /\ disk \in SUBSET Files
  /\ yielding \in {"none", "select", "locate", "history"}
  /\ isHistory => yielding = "history"

\* The three indices of the history stay inside their arrays, whatever commands,
\* visits and nested commands come in whatever order: the main index is at an entry
\* as soon as there is one; when there is another line, both lines go on after the
\* entry they share.  An index outside would read past the end of a wxArrayString.
IndicesInside ==
  /\ mainIndex \in -1..(Len(main) - 1)
  /\ main # <<>> => mainIndex >= 0
  /\ branch = <<>> => swapIndex = -1 /\ branchIndex = -1
  /\ branch # <<>> => /\ swapIndex \in 0..(Len(main) - 2)
                      /\ branchIndex \in 0..(Len(branch) - 1)

\* As long as no file has vanished, the entry the history is at is the file that is
\* selected: back and forward start from the picture on screen.
ShownIsCurrent ==
  disk = Files /\ yielding = "none" /\ sel # NoPath
    => main # <<>> /\ main[mainIndex + 1] = sel

\* The inductive invariant behind the theorems.
IInv == TypeOK /\ IndicesInside

\* The arrays and their indices, seen as the two lines of KuFork.
Here == [visits |-> main, at |-> mainIndex + 1]
There ==
  IF branch = <<>> THEN [visits |-> <<>>, at |-> 0]
  ELSE [visits |-> SubSeq(main, 1, swapIndex + 1) \o branch,
        at |-> swapIndex + branchIndex + 2]

Fork == INSTANCE KuFork WITH
  here <- Here, there <- There,
  fork <- swapIndex + 1

\* The history keeps its promise: the arrays are two lines that share their
\* beginning, branch jumps between them and back, and only a new visit from the
\* middle of a line forgets anything.
KeepsPromise == Fork!Spec
=============================================================================
