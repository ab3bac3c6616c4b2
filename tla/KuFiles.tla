------------------------------ MODULE KuFiles -------------------------------
(***************************************************************************)
(* The file commands of kuFrame (src/src/kuFrame.cpp): cut, copy, paste,   *)
(* move to, copy to, delete, rename and the making of directories, as they *)
(* are built where SHFileOperation is not there to do the work.            *)
(*                                                                         *)
(* CopyDir and DeleteDir walk a tree of directories and call each other    *)
(* recursively: the calls form a stack, and each file is one step.  Any    *)
(* file or directory may fail.  Then the user is asked whether to continue *)
(* and answers either way: the walk goes on without it, or every call      *)
(* returns false.  What was done so far is not undone.                     *)
(*                                                                         *)
(* Nobody else changes the disk meanwhile (wxSafeYield keeps the user      *)
(* out).  The tree view is not followed.                                   *)
(***************************************************************************)
EXTENDS Integers, SequencesExt

CONSTANTS
  Names,      \* the names of files and directories
  TmpNames,   \* those PasteDirOrFile invents for its temporary directory
  CopyNames,  \* those it invents for the copy of a file in its own directory
  TypedNames, \* those the user types
  Contents,   \* what files hold
  Part,       \* what a file holds that was not written to its end
  Disks,      \* the disks to begin with
  MaxCommands,  \* bounds of the model: how many commands the user gives,
  MaxFailures   \* and how many calls of the system fail without a reason

Dir == "dir"

\* A disk maps the paths of its files and directories to what they hold; the
\* root, <<>>, is not listed.
IsDisk(d) ==
  \A p \in DOMAIN d :
    /\ p \in Seq(Names) \ {<<>>}
    /\ d[p] \in Contents \cup {Part, Dir}
    /\ Front(p) # <<>> => Front(p) \in DOMAIN d /\ d[Front(p)] = Dir

ASSUME FilesAssumption ==
  /\ TmpNames \cup CopyNames \cup TypedNames \subseteq Names
  /\ Dir \notin Contents \cup {Part} /\ Part \notin Contents
  /\ \A d \in Disks : IsDisk(d)
  /\ MaxCommands \in Nat /\ MaxFailures \in Nat

VARIABLES
  disk,     \* the files and directories
  clip,     \* mFileClipboard, one path, and mFileIsMove
  op,       \* the command that runs, or ran last
  stack,    \* its calls of CopyDir or DeleteDir, the newest last
  asked,    \* the user was asked whether to continue
  before,   \* the disk when it began
  given,    \* the contents the user has given up
  failures, \* how many failures are left
  left      \* how many commands are left

vars == <<disk, clip, op, stack, asked, before, given, failures, left>>

NoClip == [path |-> <<>>, move |-> FALSE]

IsDir(p)  == p = <<>> \/ (p \in DOMAIN disk /\ disk[p] = Dir)
IsFile(p) == p \in DOMAIN disk /\ disk[p] # Dir
Subtree(d, p) == {q \in DOMAIN d : IsPrefix(p, q)}
Children(p) == {q \in DOMAIN disk : Front(q) = p}
Within(p, q) == SubSeq(q, Len(p) + 1, Len(q))

-----------------------------------------------------------------------------
(* The calls of wxWidgets.  Each can fail for its own reason, or for any.  *)

Fails == failures > 0 /\ failures' = failures - 1
Without(p) == Restrict(disk, DOMAIN disk \ {p})
With(d, p, held) == [q \in DOMAIN d \cup {p} |-> IF q = p THEN held ELSE d[q]]

\* A new file or directory can be made under this name.
Free(p) == p \notin DOMAIN disk /\ IsDir(Front(p))

\* wxMkdir
MakesDir(p) ==
  Free(p) /\ disk' = With(disk, p, Dir) /\ UNCHANGED failures
MakesNoDir(p) ==
  /\ IF Free(p) THEN Fails ELSE UNCHANGED failures
  /\ UNCHANGED disk

\* wxRmdir
RemovesDir(p) ==
  IsDir(p) /\ Children(p) = {} /\ disk' = Without(p) /\ UNCHANGED failures
RemovesNoDir(p) ==
  /\ IF IsDir(p) /\ Children(p) = {} THEN Fails ELSE UNCHANGED failures
  /\ UNCHANGED disk

\* wxRemoveFile
RemovesFile(p) == disk' = Without(p) /\ UNCHANGED failures
RemovesNoFile  == Fails /\ UNCHANGED disk

\* wxCopyFile, and wxRenameFile, which copies where it cannot rename: they may
\* stop in the middle.
Transfers(src, des, move) ==
  /\ Free(des)
  /\ disk' = With(IF move THEN Without(src) ELSE disk, des, disk[src])
  /\ UNCHANGED failures
TransfersNot(des) ==
  IF Free(des) THEN Fails /\ (UNCHANGED disk \/ disk' = With(disk, des, Part))
               ELSE UNCHANGED <<disk, failures>>

-----------------------------------------------------------------------------
(* The answer to "continue?", and what a call returns.                     *)

\* Something failed: the user is asked, and the answer is what is returned.
Ask == asked' = TRUE

\* CopyFile, had it not looked whether the target exists.
CopyFileOver(src, des, move, ok) ==
  \/ /\ ok /\ IsFile(src) /\ UNCHANGED <<asked, failures>>
     /\ disk' = With(IF move THEN Without(src) ELSE disk, des, disk[src])
  \/ ~IsFile(src) /\ Ask /\ UNCHANGED <<disk, failures>>

\* CopyFile(src, des, move) returns ok.
CopyFile(src, des, move, ok) ==
  \/ (~IsFile(src) \/ IsFile(des)) /\ Ask /\ UNCHANGED <<disk, failures>>
  \/ /\ IsFile(src) /\ ~IsFile(des)
     /\ \/ ok /\ Transfers(src, des, move) /\ UNCHANGED asked
        \/ TransfersNot(des) /\ Ask

\* DeleteFile(p) returns ok.
DeleteFile(p, ok) ==
  \/ ~IsFile(p) /\ Ask /\ UNCHANGED <<disk, failures>>
  \/ IsFile(p) /\ ok /\ RemovesFile(p) /\ UNCHANGED asked
  \/ IsFile(p) /\ RemovesNoFile /\ Ask

-----------------------------------------------------------------------------
(* The walk.  The lowest frame stands for the caller of CopyDir, CopyFile, *)
(* DeleteDir or DeleteFile, whose only entry is what the command is for.   *)

Frame(src, des, todo) == [src |-> src, des |-> des, todo |-> todo]

Top == stack[Len(stack)]
AtRoot == Len(stack) = 1

\* Moving, had the first walk of a copy into itself been a move too.
MovingTwice == op.move \/ op.phase # "only"

\* ismove: what is in the temporary directory is moved.
Moving == op.move \/ op.phase = "final"

\* PasteDirOrFile and FILE_DELETE decide by wxFileExists and wxDirExists; what
\* CopyDir made itself is not looked at again.
EntryIsDir(p) == IF AtRoot /\ op.phase = "final" THEN TRUE ELSE IsDir(p)

\* Where the entry goes to: under its own name, but for the copy of a file in
\* the same directory.
Target(p) == Append(Top.des, IF AtRoot THEN op.name ELSE Last(p))

Done(p) == SubSeq(stack, 1, Len(stack) - 1)
             \o <<[Top EXCEPT !.todo = @ \ {p}]>>

\* wxDir::GetNext may, or may not, find what a call has put into a directory
\* that is being read: one that is pasted over a directory it is in.
MayFind(frames) ==
  LET new == DOMAIN disk' \ DOMAIN disk IN
  {frames,
   [i \in DOMAIN frames |->
      IF i = 1 THEN frames[i]
      ELSE [frames[i] EXCEPT !.todo = @ \cup {q \in new : Front(q) = frames[i].src}]]}

\* After a call for the entry p: the next one, or return false.
GoOn(p, ok) ==
  IF ok THEN stack' \in MayFind(Done(p)) /\ UNCHANGED op
        ELSE stack' = <<>> /\ op' = [op EXCEPT !.result = FALSE]

\* A file of a copy or of a move.
PasteFile(p) ==
  /\ ~EntryIsDir(p)
  /\ \E ok \in BOOLEAN : CopyFile(p, Target(p), Moving, ok) /\ GoOn(p, ok)

\* CopyDir begins; a directory that cannot be made is passed over.
PasteDir(p) ==
  /\ EntryIsDir(p)
  /\ \/ /\ IF IsDir(Target(p)) THEN UNCHANGED <<disk, failures>>
                               ELSE MakesDir(Target(p))
        /\ \E frames \in MayFind(Done(p)) :
             stack' = Append(frames, Frame(p, Target(p), Children(p)))
        /\ UNCHANGED <<op, asked>>
     \/ /\ ~IsDir(Target(p)) /\ MakesNoDir(Target(p)) /\ Ask
        /\ \E ok \in BOOLEAN : GoOn(p, ok)

\* DeleteEntry, had a directory been removed like a file.
DeleteEntryFlat(p) ==
  RemovesFile(p) /\ GoOn(p, TRUE) /\ UNCHANGED asked

\* A file or a directory of a deletion.
DeleteEntry(p) ==
  IF IsDir(p)
  THEN /\ stack' = Append(Done(p), Frame(p, <<>>, Children(p)))
       /\ UNCHANGED <<disk, failures, op, asked>>
  ELSE \E ok \in BOOLEAN : DeleteFile(p, ok) /\ GoOn(p, ok)

\* CopyDir returns, had it left the directory it has moved.
LeaveKeeping ==
  /\ Top.todo = {} /\ ~AtRoot
  /\ stack' = SubSeq(stack, 1, Len(stack) - 1)
  /\ UNCHANGED <<op, disk, failures, asked>>

\* CopyDir and DeleteDir return, after removing a directory that was moved or
\* deleted.
Leave ==
  /\ Top.todo = {} /\ ~AtRoot
  /\ \/ /\ IF op.kind = "delete" \/ Moving
           THEN RemovesDir(Top.src) ELSE UNCHANGED <<disk, failures>>
        /\ stack' = SubSeq(stack, 1, Len(stack) - 1)
        /\ UNCHANGED <<op, asked>>
     \/ /\ op.kind = "delete" \/ Moving
        /\ RemovesNoDir(Top.src) /\ Ask
        /\ \/ stack' = SubSeq(stack, 1, Len(stack) - 1) /\ UNCHANGED op
           \/ stack' = <<>> /\ op' = [op EXCEPT !.result = FALSE]

Walk ==
  /\ stack # <<>> /\ Top.todo # {}
  /\ \E p \in Top.todo :
       \/ op.kind = "paste" /\ (PasteFile(p) \/ PasteDir(p))
       \/ op.kind = "delete" /\ DeleteEntry(p)
  /\ UNCHANGED <<clip, before, given, left>>

Return ==
  /\ stack # <<>> /\ Leave
  /\ UNCHANGED <<clip, before, given, left>>

Walked == stack = <<>> \/ (AtRoot /\ Top.todo = {})

\* PasteDirOrFile goes on.  What is in the temporary directory is moved to where
\* it belongs; whatever became of the first walk, the second one's result counts.
PasteFinal ==
  /\ op.phase = "tmp" /\ Walked
  /\ op' = [op EXCEPT !.phase = "final", !.result = TRUE]
  /\ stack' = <<Frame(op.tmp, op.des, {Append(op.tmp, op.name)})>>
  /\ UNCHANGED <<disk, clip, asked, before, given, failures, left>>

\* The command ends; the temporary directory goes if it is empty.
Finish ==
  /\ op.phase \in {"only", "final"} /\ Walked
  /\ op' = [op EXCEPT !.phase = "done"]
  /\ stack' = <<>>
  /\ IF op.phase = "final" THEN RemovesDir(op.tmp) \/ RemovesNoDir(op.tmp)
                           ELSE UNCHANGED <<disk, failures>>
  /\ UNCHANGED <<clip, asked, before, given, left>>

-----------------------------------------------------------------------------
(* The commands.                                                           *)

Commanding == op.phase = "done" /\ left > 0 /\ left' = left - 1

Directories == {<<>>} \cup {p \in DOMAIN disk : disk[p] = Dir}

Command(kind, src, des, name, move, tmp, phase) ==
  [kind |-> kind, src |-> src, des |-> des, name |-> name, move |-> move,
   tmp |-> tmp, phase |-> phase, result |-> TRUE]

\* A command that does nothing but one call.
Once == /\ op' = Command("once", <<>>, <<>>, "", FALSE, <<>>, "done")
        /\ before' = disk /\ stack' = <<>> /\ asked' = FALSE

Begin(command, frame) ==
  /\ op' = command /\ stack' = <<frame>>
  /\ before' = disk /\ asked' = FALSE /\ UNCHANGED given

\* FILE_CUT and FILE_COPY.
CutOrCopy(p, move) ==
  /\ Commanding
  /\ clip' = [path |-> p, move |-> move]
  /\ Once /\ UNCHANGED <<disk, given, failures>>

\* PasteDirOrFile, had it copied a directory into itself directly.
PasteDirectly(src, des, move) ==
  /\ IsDir(src) /\ des # Front(src) /\ ~(move /\ IsPrefix(src, des))
  /\ Begin(Command("paste", src, des, Last(src), move, <<>>, "only"),
           Frame(Front(src), des, {src}))
  /\ UNCHANGED <<disk, failures>>

\* PasteDirOrFile, of one path.  A directory is not pasted where it is, and not
\* moved into itself; to copy it into itself, a temporary directory beside it is
\* filled first.
PasteDirOrFile(src, des, move) ==
  IF ~IsDir(src)
  THEN \E name \in IF des = Front(src)
                   THEN {n \in CopyNames : ~IsFile(Append(des, n))} ELSE {Last(src)} :
         /\ Begin(Command("paste", src, des, name, move, <<>>, "only"),
                  Frame(Front(src), des, {src}))
         /\ UNCHANGED <<disk, failures>>
  ELSE \/ /\ des = Front(src) \/ (move /\ IsPrefix(src, des))
          /\ Once /\ UNCHANGED <<disk, given, failures>>
       \/ /\ des # Front(src) /\ ~IsPrefix(src, des)
          /\ Begin(Command("paste", src, des, Last(src), move, <<>>, "only"),
                   Frame(Front(src), des, {src}))
          /\ UNCHANGED <<disk, failures>>
       \/ /\ IsPrefix(src, des) /\ ~move
          /\ \E n \in TmpNames :
               LET tmp == Append(Front(src), n) IN
               /\ ~IsDir(tmp)
               /\ MakesDir(tmp) \/ MakesNoDir(tmp)
               /\ Begin(Command("paste", src, des, Last(src), FALSE, tmp, "tmp"),
                        Frame(Front(src), tmp, {src}))

\* FILE_PASTE.
Paste(des) ==
  /\ Commanding /\ clip # NoClip
  /\ PasteDirOrFile(clip.path, des, clip.move)
  /\ UNCHANGED clip

\* FILE_MOVETO and FILE_COPYTO.
PasteTo(src, des, move) ==
  /\ Commanding
  /\ clip' = [path |-> src, move |-> move]
  /\ PasteDirOrFile(src, des, move)

\* FILE_DELETE, once the user has confirmed it.
Delete(p) ==
  /\ Commanding
  /\ op' = Command("delete", p, <<>>, Last(p), FALSE, <<>>, "only")
  /\ stack' = <<Frame(Front(p), <<>>, {p})>>
  /\ before' = disk /\ asked' = FALSE
  /\ given' = given \cup {disk[q] : q \in Subtree(disk, p)}
  /\ UNCHANGED <<disk, clip, failures>>

\* The subtree of src, under des.
Renamed(src, des) ==
  LET moved == {des \o Within(src, q) : q \in Subtree(disk, src)}
      rest  == DOMAIN disk \ Subtree(disk, src) IN
  [q \in moved \cup rest |->
     IF q \in moved THEN disk[src \o Within(des, q)] ELSE disk[q]]

\* RENAME: wxRenameFile replaces a file by a file and an empty directory by a
\* directory, without a question.
Rename(p, name) ==
  LET des == Append(Front(p), name) IN
  /\ Commanding /\ des # p
  /\ Once
  /\ \/ /\ \/ des \notin DOMAIN disk
           \/ IsFile(p) /\ IsFile(des)
           \/ IsDir(p) /\ IsDir(des) /\ Children(des) = {}
        /\ disk' = Renamed(p, des)
        /\ given' = given \cup {disk[q] : q \in {des} \cap DOMAIN disk}
        /\ UNCHANGED failures
     \/ /\ Fails \/ (des \in DOMAIN disk /\ UNCHANGED failures)
        /\ UNCHANGED <<disk, given>>
  /\ UNCHANGED clip

\* MKDIR.
MakeDir(des) ==
  /\ Commanding /\ ~IsDir(des)
  /\ Once
  /\ MakesDir(des) \/ MakesNoDir(des)
  /\ UNCHANGED <<clip, given>>

UserCommand ==
  \/ \E p \in DOMAIN disk :
       \/ \E move \in BOOLEAN :
            \/ CutOrCopy(p, move)
            \/ \E des \in Directories : PasteTo(p, des, move)
       \/ Delete(p)
       \/ \E n \in TypedNames : Rename(p, n)
  \/ \E des \in Directories : Paste(des) \/ \E n \in TypedNames : MakeDir(Append(des, n))

-----------------------------------------------------------------------------
Init ==
  /\ disk \in Disks
  /\ clip = NoClip
  /\ op = Command("once", <<>>, <<>>, "", FALSE, <<>>, "done")
  /\ stack = <<>> /\ asked = FALSE
  /\ before = disk /\ given = {}
  /\ failures = MaxFailures /\ left = MaxCommands

Next == UserCommand \/ Walk \/ Return \/ PasteFinal \/ Finish

Spec == Init /\ [][Next]_vars

-----------------------------------------------------------------------------
(* Properties.                                                             *)

TypeOK ==
  /\ IsDisk(disk) /\ IsDisk(before)
  /\ clip \in [path : Seq(Names), move : BOOLEAN]
  /\ op.phase \in {"only", "tmp", "final", "done"}
  /\ \A i \in DOMAIN stack : stack[i].todo \subseteq Seq(Names) \ {<<>>}
  /\ asked \in BOOLEAN
  /\ failures \in 0..MaxFailures /\ left \in 0..MaxCommands

\* Where the file or directory q of the pasted tree belongs.
Place(q) == Append(op.des, op.name) \o Within(op.src, q)

Pasted == Subtree(before, op.src)

\* The tree is pasted over a directory it is in, and may meet itself there.
OverAncestor == IsPrefix(Append(op.des, op.name), op.src)

\* Whatever fails and however the user answers, in whatever order the commands
\* are given: no file is lost but those the user has deleted, or replaced by
\* another one in a rename (CopyFile, CopyDir, DeleteDir).
NothingLost == Range(before) \ (given \cup {Part, Dir}) \subseteq Range(disk)

\* A walk that is stopped half-way leaves each file in one of two places.  What
\* is moved is where it was or where it belongs, what is copied is where it was,
\* and all other files, those at the destination too, are as they were
\* (PasteDirOrFile, with and without its temporary directory).
NeverAstray ==
  op.kind = "paste" /\ ~OverAncestor =>
    \A q \in {f \in DOMAIN before : before[f] # Dir} :
      \/ q \in DOMAIN disk /\ disk[q] = before[q]
      \/ /\ op.move /\ q \in Pasted /\ q \notin DOMAIN disk
         /\ Place(q) \in DOMAIN disk /\ disk[Place(q)] = before[q]

\* "Copied" and "moved" are true: if the user was asked nothing, all of the tree
\* is where it belongs, a tree that was moved has left its place, and nothing
\* else is new but a temporary directory that could not be removed.
TellsTheTruth ==
  op.kind = "paste" /\ op.phase = "done" /\ op.result /\ ~asked /\ ~OverAncestor =>
    LET placed == {Place(q) : q \in Pasted} IN
    /\ \A q \in Pasted : Place(q) \in DOMAIN disk /\ disk[Place(q)] = before[q]
    /\ DOMAIN disk \ {op.tmp} = placed \cup (DOMAIN before \ (IF op.move THEN Pasted ELSE {}))

\* A walk reads what was there before it began and never what it has made
\* itself: a directory that is copied into itself would be copied without end.
ReadsWhatWasThere ==
  op.kind = "paste" /\ ~OverAncestor =>
    \A i \in 2..Len(stack) :
      stack[i].src \in DOMAIN before \/ (op.phase = "final" /\ IsPrefix(op.tmp, stack[i].src))
=============================================================================
