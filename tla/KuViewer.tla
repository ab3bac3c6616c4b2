------------------------------ MODULE KuViewer ------------------------------
(***************************************************************************)
(* What the user sees: the picture panel (kuSingleScrolled), the tree      *)
(* (kuGenericDirCtrl) and the commands of kuFrame and kuApp that show,     *)
(* turn, zoom and save a picture, composed with the loader (KuLoader).     *)
(*                                                                         *)
(* All of it runs in the UI thread, one handler at a time; the loader runs *)
(* between any two of its steps.  A handler is a chain of actions: upc     *)
(* says which comes next, and "idle" that the event loop runs.  While a    *)
(* modal dialog of Save or Save As is open, the event loop handles         *)
(* wxEVT_LOADED_EVENT as ever; only the user's other commands wait.        *)
(***************************************************************************)
EXTENDS Integers, Sequences, FiniteSets

CONSTANTS
  Paths, Broken, Sizes, FullSize, Rotations, Written, Given, LoadCache,
  MaxQueue, MaxEvents, NoBmp, NoEntry, NoTicket, NoCall,   \* as in KuLoader
  View,      \* GetClientSize(): the size of the panel, smaller than a picture
  Jpeg,      \* the JPEG files: loaded at View size they come reduced
  Lossless,  \* those a lossless transform works for: writable, whole blocks
  Siblings,  \* for each file, the files PrefetchSiblings appends, in order
  NoPath,    \* wxEmptyString: a directory is selected, not a file
  Commands,  \* the commands the user gives
  MaxOps     \* bound of the model: how many commands the user gives

VARIABLES
  queue, hash, cache, bmpMutex, lpc, ticket, lbmp, apc, call, abmp, events,
  live, disk, quit, frame, deleting, waitLoader,           \* as in KuLoader
  sel,       \* the selection of the tree: mGeneric->GetFilePath()
  file,      \* kuSingleScrolled::mFilename
  orig,      \* kuSingleScrolled::mOrigBmp
  from,      \* the file it was decoded from, which its tags tell of
  crop,      \* mCropRect is not empty
  rot,       \* kuOptions::mRotate
  keep,      \* kuOptions::mKeepRotate
  complete,  \* kuOptions::mLoadCompletely, as the user has set it
  edited,    \* kuApp::mIsEdited
  upc,       \* the next step of the handler that is running
  rest,      \* the siblings this handler has yet to append
  quarter,   \* the rotation this handler makes: 1 clockwise, -1 against it
  dialog,    \* the command whose modal dialogs are open, or "none"
  target,    \* the file that command will write
  ops        \* how many commands the user has given

L == INSTANCE KuLoader

loader == <<queue, hash, cache, bmpMutex, lpc, ticket, lbmp, apc, call, abmp,
            events, live, disk, quit, frame, deleting, waitLoader>>
shown   == <<sel, file, orig, from, crop>>
options == <<rot, keep, complete>>
handler == <<upc, rest, quarter>>
saving  == <<dialog, target>>
viewer  == <<shown, options, edited, handler, saving, ops>>
vars    == <<loader, viewer>>

\* What Given must hold for LoaderSpec: mOrigBmp can be any bitmap.
AnyBitmap ==
  [p \in Paths |-> [of : Paths, turn : 0..3, size : Sizes, kind : {"rough", "good", "part"}]]

ASSUME ViewerAssumption ==
  /\ L!LoaderAssumption
  /\ View \in Sizes \ {FullSize}
  /\ Lossless \subseteq Jpeg /\ Jpeg \subseteq Paths
  /\ Siblings \in [Paths -> Seq(Paths)]
  /\ NoPath \notin Paths
  /\ Given = AnyBitmap /\ Written = L!Picture
  /\ MaxOps \in Nat

-----------------------------------------------------------------------------
(* kuSingleScrolled::ReloadImage, kuApp::CheckEdited.                      *)

\* A command of the user, when the event loop is idle and no dialog is open.
User(command) ==
  /\ upc = "idle" /\ dialog = "none" /\ frame = "alive" /\ ~quit
  /\ command \in Commands /\ ops < MaxOps
  /\ ops' = ops + 1

\* GetOriginalJPEGSize(mOrigBmp) is not (0,0): it was scaled down at the load.
\* Only JPEG files are; the others are always decoded completely.  The tags stay with
\* the bitmap when it is turned or cut, and when mFilename changes under it.
Reduced == orig # NoBmp /\ from \in Jpeg /\ (orig.kind = "rough" \/ orig.size = View)

\* FreeImage_Copy: a part of a preview is a preview.
PartOf(b) == IF b.kind = "rough" THEN b ELSE [b EXCEPT !.kind = "part"]

\* ReloadImage(p, isurl, loaded) up to its call of GetFiBitmap; fully stands for
\* mLoadCompletely.  mKeepRotate decides whether mRotate is applied or reset.
\* When the zoomed area is to be drawn again the load is complete in any case.
ReloadImage(p, loaded, fully, next) ==
  /\ file' = p /\ from' = p
  /\ orig' = NoBmp
  /\ rot' = IF keep THEN rot ELSE 0
  /\ L!GetFiBitmap(p, IF fully \/ (loaded /\ crop) THEN FullSize ELSE View,
                   rot', ~loaded)
  /\ crop' = (loaded /\ crop)
  /\ upc' = next
  /\ UNCHANGED <<keep, complete>>

\* CheckEdited(NULL): a reduced picture is loaded completely before it is edited, if
\* it has a file: ReloadImage("") returns at once, and the handler goes on with what
\* there is.
MustLoadCompletely == ~edited /\ ~complete /\ Reduced

\* CheckEdited, had it let reduced pictures through.
CheckEditedNever(loading, next) ==
  /\ upc' = next
  /\ UNCHANGED <<loader, shown, options>>

\* CheckEdited and then the step next of the handler.
CheckEdited(loading, next) ==
  \/ /\ MustLoadCompletely /\ file # NoPath
     /\ ReloadImage(file, TRUE, TRUE, loading)
     /\ UNCHANGED sel
  \/ /\ ~(MustLoadCompletely /\ file # NoPath)
     /\ upc' = next
     /\ UNCHANGED <<loader, shown, options>>

\* GetFiBitmap returns and ReloadImage ends: "always set edited to false", except
\* when the zoomed area is drawn, which returns before.
ReloadImageDone ==
  /\ upc \in {"selecting", "reloading", "showing", "rotating", "saving"}
  /\ L!GetReturn
  /\ orig' = IF crop /\ abmp # NoBmp THEN PartOf(abmp) ELSE abmp
  /\ edited' = (edited /\ crop)
  /\ upc' = CASE upc = "selecting" -> "clear"
              [] upc = "rotating"  -> "rotate"
              [] upc = "saving"    -> "write"
              [] OTHER             -> "idle"
  /\ UNCHANGED <<sel, file, from, crop, options, rest, quarter, saving, ops>>

-----------------------------------------------------------------------------
(* Choosing a picture: kuGenericDirCtrl::OnTreeSelChanged.                 *)

\* ReloadImage(GetFilePath(),false), then PrefetchSiblings.
ShowSelected(p) ==
  /\ sel' = p
  /\ rest' = Siblings[p]
  /\ ReloadImage(p, FALSE, complete, "selecting")

Select(p) ==
  /\ User("select") /\ sel # p
  /\ ShowSelected(p)
  /\ UNCHANGED <<edited, quarter, saving>>

\* A directory is selected: the picture shown before stays on screen.
SelectDir ==
  /\ User("selectdir") /\ sel # NoPath
  /\ sel' = NoPath
  /\ UNCHANGED <<loader, file, orig, from, crop, options, edited, handler, saving>>

\* PrefetchSiblings: Clear(), then one Append for each sibling.
PrefetchClear ==
  /\ upc = "clear"
  /\ L!Clear(TRUE)
  /\ upc' = "append"
  /\ UNCHANGED <<shown, options, edited, rest, quarter, saving, ops>>

PrefetchAppend ==
  /\ upc = "append"
  /\ IF rest = <<>>
     THEN upc' = "idle" /\ UNCHANGED <<loader, rest>>
     ELSE /\ L!AppendTicket(Head(rest), IF complete THEN FullSize ELSE View,
                            IF keep THEN rot ELSE 0)
          /\ rest' = Tail(rest)
          /\ UNCHANGED upc
  /\ UNCHANGED <<shown, options, edited, quarter, saving, ops>>

\* kuID_RELOAD with the focus on the picture.  With a directory selected
\* ReloadImage("") sets mFilename and returns: the picture stays, without a file.
Reload ==
  /\ User("reload")
  /\ \/ /\ sel # NoPath
        /\ ReloadImage(sel, FALSE, complete, "reloading")
        /\ UNCHANGED sel
     \/ /\ sel = NoPath
        /\ file' = NoPath
        /\ UNCHANGED <<loader, sel, orig, from, crop, options, upc>>
  /\ UNCHANGED <<edited, rest, quarter, saving>>

\* OnLoaded, had it forgotten to call ReloadImage.
OnLoadedIgnored ==
  /\ upc = "idle" /\ L!TakeEvent
  /\ UNCHANGED viewer

\* kuFrame::OnLoaded: the loader has put a good bitmap into its hash.
OnLoaded ==
  /\ upc = "idle" /\ L!TakeEvent
  /\ upc' = IF Head(events) = sel THEN "loaded" ELSE "idle"
  /\ UNCHANGED <<shown, options, edited, rest, quarter, saving, ops>>

OnLoadedReload ==
  /\ upc = "loaded"
  /\ ReloadImage(sel, TRUE, complete, "showing")
  /\ UNCHANGED <<sel, edited, rest, quarter, saving, ops>>

-----------------------------------------------------------------------------
(* Editing: kuID_ROTATE_CW/CCW, the options, the zoom.                     *)

Turned(b, q) == [b EXCEPT !.turn = (@ + q) % 4]

\* kuID_ROTATE_CW, kuID_ROTATE_CCW.
RotateCommand(q) ==
  /\ User(IF q = 1 THEN "cw" ELSE "ccw")
  /\ quarter' = q
  /\ CheckEdited("rotating", "rotate")
  /\ UNCHANGED <<edited, rest, saving>>

\* Rotate90 and then mRotate++ or mRotate--.  A JPEG file that has not been edited
\* is turned on disk (FreeImage_JPEGTransform), else the picture is an edit.
Rotate90 ==
  /\ upc = "rotate"
  /\ rot' = L!Rem4(rot + quarter)
  /\ \/ /\ orig = NoBmp
        /\ upc' = "idle" /\ UNCHANGED <<loader, orig, edited>>
     \/ /\ orig # NoBmp /\ ~edited /\ file \in Lossless
        /\ L!WriteFile(file, Turned(disk[file], quarter))
        /\ orig' = Turned(orig, quarter)
        /\ upc' = "replace" /\ UNCHANGED edited
     \/ /\ orig # NoBmp /\ ~(~edited /\ file \in Lossless)
        /\ orig' = Turned(orig, quarter)
        /\ edited' = TRUE
        /\ upc' = "idle" /\ UNCHANGED loader
  /\ UNCHANGED <<sel, file, from, crop, keep, complete, rest, quarter, saving, ops>>

\* mLoader->Replace(mFilename, mOrigBmp, false, 0), by Rotate90 and SaveImage.
Replace ==
  /\ upc = "replace"
  /\ L!Replace(file, orig, FALSE, 0)
  /\ upc' = "replaced"
  /\ UNCHANGED <<shown, options, edited, rest, quarter, saving, ops>>

\* kuID_FIXED_ROTATE.
ToggleKeepRotate ==
  /\ User("keep")
  /\ keep' = ~keep
  /\ rot' = IF keep' THEN rot ELSE 0
  /\ UNCHANGED <<loader, shown, complete, edited, handler, saving>>

\* kuID_LOAD_COMPLETELY.
ToggleLoadCompletely ==
  /\ User("complete")
  /\ complete' = ~complete
  /\ UNCHANGED <<loader, shown, rot, keep, edited, handler, saving>>

\* ZoomSelectedArea: the loader is asked for the complete picture, and the area is
\* cut out of the one on screen, unless there is none or the area is too small to cut
\* (DrawCropRect).  Without a file the ticket is for "": it loads NULL, and the place
\* that takes in the cache is left out.
Zoom ==
  /\ User("zoom")
  /\ \/ file # NoPath /\ L!PrependTicket(file, FullSize, rot)
     \/ file = NoPath /\ UNCHANGED loader
  /\ \/ orig # NoBmp /\ crop' = TRUE /\ orig' = PartOf(orig)
     \/ UNCHANGED <<crop, orig>>
  /\ UNCHANGED <<sel, file, from, options, edited, handler, saving>>

-----------------------------------------------------------------------------
(* Saving: kuID_SAVE, kuID_SAVEAS, kuSingleScrolled::SaveImage.            *)

\* kuID_SAVE is enabled while the picture is edited; SaveImage("") does nothing.
SaveCommand ==
  /\ User("save") /\ edited /\ sel # NoPath /\ orig # NoBmp
  /\ dialog' = "save" /\ target' = sel
  /\ UNCHANGED <<loader, shown, options, edited, handler>>

\* kuID_SAVEAS asks for the file's name first.  (Without a bitmap the questions are
\* asked and nothing comes of the answers.)
SaveAsCommand(p) ==
  /\ User("saveas") /\ sel # NoPath /\ orig # NoBmp
  /\ dialog' = "saveas" /\ target' = p
  /\ UNCHANGED <<loader, shown, options, edited, handler>>

\* Cancel, had it kept the name of the file.
CancelForgetful ==
  /\ upc = "idle" /\ dialog # "none"
  /\ dialog' = "none"
  /\ UNCHANGED <<loader, shown, options, edited, handler, target, ops>>

\* Either question can be answered with Cancel.
Cancel ==
  /\ upc = "idle" /\ dialog # "none"
  /\ dialog' = "none" /\ target' = NoPath
  /\ UNCHANGED <<loader, shown, options, edited, handler, ops>>

\* The user agrees.  mOrigBmp was looked at before the question was asked.
Confirm ==
  /\ upc = "idle" /\ dialog # "none"
  /\ CheckEdited("saving", "write")
  /\ UNCHANGED <<edited, rest, quarter, saving, ops>>

\* Write, had it taken the file that is shown for the one to write.
WriteShown ==
  /\ upc = "write" /\ orig # NoBmp
  /\ L!WriteFile(file, [of |-> orig.of, turn |-> orig.turn])
  /\ upc' = "replace"
  /\ UNCHANGED <<shown, options, edited, rest, quarter, saving, ops>>

\* FreeImage_Save writes the bitmap on screen, or fails.
Write ==
  /\ upc = "write"
  /\ \/ /\ orig # NoBmp
        /\ L!WriteFile(target, [of |-> orig.of, turn |-> orig.turn])
        /\ upc' = "replace" /\ UNCHANGED saving
     \/ upc' = "idle" /\ dialog' = "none" /\ target' = NoPath /\ UNCHANGED loader
  /\ UNCHANGED <<shown, options, edited, rest, quarter, ops>>

\* Replace has returned.  After a lossless rotation the handler ends; after a save
\* SetEdited(false) follows, and after Save As ReloadPath selects the new file.
Replaced ==
  /\ upc = "replaced" /\ apc = "ready"
  /\ edited' = (edited /\ dialog = "none")
  /\ dialog' = "none" /\ target' = NoPath
  /\ \/ /\ dialog = "saveas"
        /\ ShowSelected(target)
     \/ /\ dialog # "saveas"
        /\ upc' = "idle"
        /\ UNCHANGED <<loader, shown, options, rest>>
  /\ UNCHANGED <<quarter, ops>>

-----------------------------------------------------------------------------
Init ==
  /\ L!Init
  /\ sel = NoPath /\ file = NoPath /\ orig = NoBmp /\ from = NoPath /\ crop = FALSE
  /\ rot = 0 /\ keep = FALSE /\ complete = FALSE
  /\ edited = FALSE
  /\ upc = "idle" /\ rest = <<>> /\ quarter = 1
  /\ dialog = "none" /\ target = NoPath
  /\ ops = 0

UserStep ==
  \/ \E p \in Paths : Select(p) \/ SaveAsCommand(p)
  \/ \E q \in {1, -1} : RotateCommand(q)
  \/ SelectDir \/ Reload \/ ToggleKeepRotate \/ ToggleLoadCompletely \/ Zoom
  \/ SaveCommand \/ Cancel \/ Confirm

HandlerStep ==
  \/ ReloadImageDone \/ PrefetchClear \/ PrefetchAppend \/ OnLoadedReload
  \/ Rotate90 \/ Replace \/ Write \/ Replaced

\* A step of GetFiBitmap or Replace that is not the last one.
CallStep ==
  /\ L!ReplaceStore \/ L!GetHit \/ L!GetMiss \/ L!GetPrepend
     \/ L!GetLoad \/ L!GetAdd
  /\ UNCHANGED viewer

LoaderStep == L!LoaderStep /\ UNCHANGED viewer

\* Close, had the frame been destroyed without OnClose.
CloseUnnoticed ==
  /\ upc = "idle" /\ dialog = "none"
  /\ \/ /\ frame = "alive" /\ apc = "ready"
        /\ frame' = "destroyed" /\ events' = <<>>
        /\ UNCHANGED <<queue, hash, cache, bmpMutex, lpc, ticket, lbmp, apc, call,
                       abmp, live, disk, quit, deleting, waitLoader>>
     \/ L!ClearThread
  /\ UNCHANGED viewer

\* kuFrame::OnClose, the destruction of the frame and kuApp::OnExit.
Close ==
  /\ upc = "idle" /\ dialog = "none"
  /\ L!OnClose \/ L!DestroyFrame \/ L!ClearThread
  /\ UNCHANGED viewer

Exit == (L!ClearThreadDelete \/ L!ClearThreadWaited) /\ UNCHANGED viewer

Terminated == L!Ended /\ UNCHANGED vars

Next ==
  LoaderStep \/ CallStep \/ HandlerStep \/ OnLoaded \/ UserStep \/ Close \/ Exit
  \/ Terminated

Spec == Init /\ [][Next]_vars

\* The loader and the running handler are scheduled, and the event loop comes to
\* every event that was posted (strong: a handler may run in between).
Fairness ==
  /\ WF_vars(LoaderStep)
  /\ WF_vars(CallStep)
  /\ WF_vars(HandlerStep)
  /\ SF_vars(OnLoaded)

FairSpec == Spec /\ Fairness

-----------------------------------------------------------------------------
(* Properties.                                                             *)

TypeOK ==
  /\ L!TypeOK
  /\ sel \in Paths \cup {NoPath} /\ file \in Paths \cup {NoPath}
  /\ orig \in L!Bitmap \cup {NoBmp} /\ from \in Paths \cup {NoPath} /\ crop \in BOOLEAN
  /\ rot \in -3..3 /\ keep \in BOOLEAN /\ complete \in BOOLEAN
  /\ edited \in BOOLEAN
  /\ upc \in {"idle", "selecting", "clear", "append", "reloading", "loaded",
              "showing", "rotating", "rotate", "replace", "replaced", "saving",
              "write"}
  /\ rest \in Seq(Paths) /\ quarter \in {1, -1}
  /\ dialog \in {"none", "save", "saveas"} /\ target \in Paths \cup {NoPath}
  /\ (dialog # "none") = (target # NoPath)
  /\ ops \in 0..MaxOps

\* The picture panel is a client of the loader as KuLoader describes it: what is
\* proved there for every client holds here.
LoaderSpec == L!Spec

\* What ReloadImage puts on the screen is the picture the file holds now, turned by
\* the rotation that is kept: however the bitmaps in the hash have been turned,
\* by hits, tickets and options, they are turned back.
ShowsDisk ==
  [][ReloadImageDone /\ abmp # NoBmp =>
       [of |-> abmp.of, turn |-> abmp.turn] = Turned(disk[file], rot)]_vars

\* Save writes the picture that is on screen to the file it is shown for, and caches
\* under that file what it has written, although LOADED events have been handled under
\* its dialog; Save As writes it to the file that was chosen.
SavesWhatIsShown ==
  upc = "replace" /\ dialog # "none" =>
    /\ orig # NoBmp /\ [of |-> orig.of, turn |-> orig.turn] = disk[target]
    /\ dialog = "save" => target = file

\* An edited picture that has a file is loaded completely: what Save writes, or what is
\* cached after a rotation, is never a preview or a picture scaled down to the window,
\* also when the picture has lost its file for a while.  (Without one it can be edited
\* reduced - a directory is selected and reloaded, and the picture turned - but then there
\* is nothing to save it to, and choosing a file must drop the edit.)
EditedIsComplete ==
  (upc = "idle" /\ edited /\ file # NoPath) \/ upc = "replace" => ~Reduced

\* A rough preview does not stay: the good picture replaces it, or the user goes on
\* to another one, or closes the program.
PreviewReplaced ==
  \A p \in Jpeg :
    (upc = "idle" /\ sel = p /\ file = p /\ orig # NoBmp /\ orig.kind = "rough")
      ~> (sel # p \/ orig = NoBmp \/ orig.kind # "rough" \/ quit \/ L!Ended)
=============================================================================
