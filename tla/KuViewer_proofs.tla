--------------------------- MODULE KuViewer_proofs ---------------------------
(***************************************************************************)
(* Proofs about KuViewer, for any files, any siblings and any number of    *)
(* commands.                                                               *)
(*                                                                         *)
(* First, that the viewer is a client of the loader as KuLoader describes  *)
(* it, so that the inductive invariant of KuLoader_proofs holds here too.  *)
(* With it: the types; that Save writes what is on screen; that what is    *)
(* edited and has a file is complete, as long as kuID_LOAD_COMPLETELY is   *)
(* left alone; and that what is shown is the file, as long as no file is   *)
(* written.                                                                *)
(***************************************************************************)
EXTENDS KuViewer, TLAPS

\* The loader with the theorems about it.
LP == INSTANCE KuLoader_proofs

-----------------------------------------------------------------------------
(* L and LP name the same loader.                                          *)

LEMMA SameAssumption == LP!LoaderAssumption
  BY ViewerAssumption
  DEF L!LoaderAssumption, LP!LoaderAssumption, L!Picture, LP!Picture, L!Bitmap, LP!Bitmap,
      L!Entry, LP!Entry, L!IsFiniteSet, LP!IsFiniteSet

LEMMA SameInv == L!IInv <=> LP!IInv
  BY DEF L!IInv, L!TypeOK, L!Ticket, L!Entry, L!Bitmap, L!Call, L!Picture, L!MutexOwned,
     L!CacheInHash, L!NoDuplicates, L!PriorFirst, L!Handshake, L!ExitAfterLoader, L!Has,
     LP!IInv, LP!TypeOK, LP!Ticket, LP!Entry, LP!Bitmap, LP!Call, LP!Picture, LP!MutexOwned,
     LP!CacheInHash, LP!NoDuplicates, LP!PriorFirst, LP!Handshake, LP!ExitAfterLoader, LP!Has

LEMMA SameInit == L!Init <=> LP!Init
  BY DEF L!Init, LP!Init

LEMMA SameLoaderStep == L!LoaderStep => LP!LoaderStep
  <1> USE DEF L!loaderVars, LP!loaderVars, L!callVars, LP!callVars, L!exitVars, LP!exitVars
  <1>1. L!EntryTop => LP!EntryTop
    BY DEF L!EntryTop, LP!EntryTop
  <1>2. L!EntryPop => LP!EntryPop
    BY DEF L!EntryPop, LP!EntryPop
  <1>3. L!EntryPopEmpty => LP!EntryPopEmpty
    BY DEF L!EntryPopEmpty, LP!EntryPopEmpty, L!Crash, LP!Crash, L!Ticket, LP!Ticket
  <1>4. L!EntryCheck => LP!EntryCheck
    BY DEF L!EntryCheck, LP!EntryCheck
  <1>4a. L!EntryHit => LP!EntryHit
    BY DEF L!EntryHit, LP!EntryHit, L!Holds, LP!Holds, L!Has, LP!Has
  <1>4b. L!EntryMiss => LP!EntryMiss
    BY DEF L!EntryMiss, LP!EntryMiss, L!Holds, LP!Holds, L!EraseBmpHash, LP!EraseBmpHash,
       L!Without, LP!Without, L!Listed, LP!Listed, L!Has, LP!Has, L!Freed, LP!Freed,
       L!Count, LP!Count
  <1>5. L!EntryLoad => LP!EntryLoad
    BY DEF L!EntryLoad, LP!EntryLoad, L!Loaded, LP!Loaded, L!Rotated, LP!Rotated,
       L!Count, LP!Count
  <1>6. L!EntryLock => LP!EntryLock
    BY DEF L!EntryLock, LP!EntryLock
  <1>7. L!EntryEvict => LP!EntryEvict
    BY DEF L!EntryEvict, LP!EntryEvict, L!EraseBmpHash, LP!EraseBmpHash, L!Without,
       LP!Without, L!Listed, LP!Listed, L!Has, LP!Has, L!Freed, LP!Freed, L!Count, LP!Count
  <1>8. L!EntryAdd => LP!EntryAdd
    BY DEF L!EntryAdd, LP!EntryAdd, L!AddBmpHash, LP!AddBmpHash, L!Without, LP!Without,
       L!Listed, LP!Listed, L!Has, LP!Has, L!Freed, LP!Freed, L!Count, LP!Count
  <1>9. L!EntryNotify => LP!EntryNotify
    BY DEF L!EntryNotify, LP!EntryNotify
  <1>10. L!EntryPost => LP!EntryPost
    BY DEF L!EntryPost, LP!EntryPost, L!Crash, LP!Crash
  <1>11. L!ClearBmpHash => LP!ClearBmpHash
    BY DEF L!ClearBmpHash, LP!ClearBmpHash, L!Has, LP!Has, L!Listed, LP!Listed,
       L!Cardinality, LP!Cardinality
  <1>12. L!EntryExit => LP!EntryExit
    BY DEF L!EntryExit, LP!EntryExit
  <1>13. QED
    BY <1>1, <1>2, <1>3, <1>4, <1>4a, <1>4b, <1>5, <1>6, <1>7, <1>8, <1>9, <1>10, <1>11,
       <1>12
    DEF L!LoaderStep, LP!LoaderStep

LEMMA SameCallStep == L!CallStep => LP!CallStep
  <1> USE DEF L!loaderVars, LP!loaderVars, L!callVars, LP!callVars, L!exitVars, LP!exitVars
  <1>1. L!RemoveErase => LP!RemoveErase
    BY DEF L!RemoveErase, LP!RemoveErase, L!EraseBmpHash, LP!EraseBmpHash, L!Without,
       LP!Without, L!Listed, LP!Listed, L!Has, LP!Has, L!Freed, LP!Freed, L!Count, LP!Count
  <1>2. L!ReplaceStore => LP!ReplaceStore
    BY DEF L!ReplaceStore, LP!ReplaceStore, L!DefaultEntry, LP!DefaultEntry, L!Has, LP!Has,
       L!Rem4, LP!Rem4, L!Freed, LP!Freed, L!Count, LP!Count
  <1>3. L!GetHit => LP!GetHit
    BY DEF L!GetHit, LP!GetHit, L!Holds, LP!Holds, L!Has, LP!Has, L!Rotated, LP!Rotated,
       L!Rem4, LP!Rem4, L!Count, LP!Count, L!Without, LP!Without, L!Listed, LP!Listed
  <1>4. L!GetMiss => LP!GetMiss
    BY DEF L!GetMiss, LP!GetMiss, L!Holds, LP!Holds, L!EraseBmpHash, LP!EraseBmpHash,
       L!Without, LP!Without, L!Listed, LP!Listed, L!Has, LP!Has, L!Freed, LP!Freed,
       L!Count, LP!Count
  <1>5. L!GetPrepend => LP!GetPrepend
    BY DEF L!GetPrepend, LP!GetPrepend, L!NewTicket, LP!NewTicket
  <1>6. L!GetLoad => LP!GetLoad
    BY DEF L!GetLoad, LP!GetLoad, L!LoadedByCall, LP!LoadedByCall, L!Loaded, LP!Loaded,
       L!Rotated, LP!Rotated, L!Count, LP!Count
  <1>7. L!GetAdd => LP!GetAdd
    BY DEF L!GetAdd, LP!GetAdd, L!AddBmpHash, LP!AddBmpHash, L!Without, LP!Without,
       L!Listed, LP!Listed, L!Has, LP!Has, L!Freed, LP!Freed, L!Count, LP!Count
  <1>8. L!GetReturn => LP!GetReturn
    BY DEF L!GetReturn, LP!GetReturn, L!Count, LP!Count
  <1>9. QED
    BY <1>1, <1>2, <1>3, <1>4, <1>5, <1>6, <1>7, <1>8 DEF L!CallStep, LP!CallStep

LEMMA SameClientStep == L!ClientStep => LP!ClientStep
  <1> USE DEF L!loaderVars, LP!loaderVars, L!callVars, LP!callVars, L!exitVars, LP!exitVars,
              L!MayCall, LP!MayCall
  <1>1. \A prior \in BOOLEAN : L!Clear(prior) => LP!Clear(prior)
    BY DEF L!Clear, LP!Clear
  <1>2. \A p, s, r : L!AppendTicket(p, s, r) => LP!AppendTicket(p, s, r)
    BY DEF L!AppendTicket, LP!AppendTicket, L!NewTicket, LP!NewTicket
  <1>3. \A p, s, r : L!PrependTicket(p, s, r) => LP!PrependTicket(p, s, r)
    BY DEF L!PrependTicket, LP!PrependTicket, L!NewTicket, LP!NewTicket
  <1>4. \A p, s, r, fast : L!GetFiBitmap(p, s, r, fast) => LP!GetFiBitmap(p, s, r, fast)
    BY DEF L!GetFiBitmap, LP!GetFiBitmap, L!NewCall, LP!NewCall
  <1>5. \A p : L!Remove(p) => LP!Remove(p)
    BY DEF L!Remove, LP!Remove, L!FindUnlocked, LP!FindUnlocked, L!TableChanging,
       LP!TableChanging, L!Holds, LP!Holds, L!Has, LP!Has, L!NewCall, LP!NewCall
  <1>6. \A p, b, diff, r : L!Replace(p, b, diff, r) => LP!Replace(p, b, diff, r)
    BY DEF L!Replace, LP!Replace, L!FindUnlocked, LP!FindUnlocked, L!TableChanging,
       LP!TableChanging, L!Holds, LP!Holds, L!Has, LP!Has, L!NewCall, LP!NewCall
  <1>7. L!TakeEvent => LP!TakeEvent
    BY DEF L!TakeEvent, LP!TakeEvent
  <1>8. \A p, picture : L!WriteFile(p, picture) => LP!WriteFile(p, picture)
    BY DEF L!WriteFile, LP!WriteFile
  <1>9. L!OnClose => LP!OnClose
    BY DEF L!OnClose, LP!OnClose
  <1>10. QED
    BY <1>1, <1>2, <1>3, <1>4, <1>5, <1>6, <1>7, <1>8, <1>9 DEF L!ClientStep, LP!ClientStep

LEMMA SameExitStep == L!ExitStep => LP!ExitStep
  <1> USE DEF L!loaderVars, LP!loaderVars, L!callVars, LP!callVars, L!exitVars, LP!exitVars,
              L!MayCall, LP!MayCall
  <1>1. L!DestroyFrame => LP!DestroyFrame
    BY DEF L!DestroyFrame, LP!DestroyFrame
  <1>2. L!ClearThread => LP!ClearThread
    BY DEF L!ClearThread, LP!ClearThread
  <1>3. L!ClearThreadDelete => LP!ClearThreadDelete
    BY DEF L!ClearThreadDelete, LP!ClearThreadDelete
  <1>4. L!ClearThreadWaited => LP!ClearThreadWaited
    BY DEF L!ClearThreadWaited, LP!ClearThreadWaited
  <1>5. QED
    BY <1>1, <1>2, <1>3, <1>4 DEF L!ExitStep, LP!ExitStep

LEMMA SameInvNext == L!IInv' <=> LP!IInv'
  BY DEF L!IInv, L!TypeOK, L!Ticket, L!Entry, L!Bitmap, L!Call, L!Picture, L!MutexOwned,
     L!CacheInHash, L!NoDuplicates, L!PriorFirst, L!Handshake, L!ExitAfterLoader, L!Has,
     LP!IInv, LP!TypeOK, LP!Ticket, LP!Entry, LP!Bitmap, LP!Call, LP!Picture, LP!MutexOwned,
     LP!CacheInHash, LP!NoDuplicates, LP!PriorFirst, LP!Handshake, LP!ExitAfterLoader, LP!Has

\* The loader's invariant is kept by each of its steps, here as there.
LEMMA LoaderInv ==
  ASSUME L!IInv, [L!Next]_(L!vars)
  PROVE  L!IInv'
  <1>1. LP!IInv
    BY SameInv
  <1>2. CASE L!LoaderStep
    <2>1. LP!LoaderAssumption => (LP!IInv /\ LP!LoaderStep => LP!IInv')
      BY LP!LoaderStepInv
    <2>2. LP!IInv'
      BY <1>1, <1>2, <2>1, SameLoaderStep, SameAssumption
    <2>3. QED
      BY <2>2, SameInvNext
  <1>3. CASE L!CallStep
    <2>1. LP!LoaderAssumption => (LP!IInv /\ LP!CallStep => LP!IInv')
      BY LP!CallStepInv
    <2>2. LP!IInv'
      BY <1>1, <1>3, <2>1, SameCallStep, SameAssumption
    <2>3. QED
      BY <2>2, SameInvNext
  <1>4. CASE L!ClientStep
    <2>1. LP!LoaderAssumption => (LP!IInv /\ LP!ClientStep => LP!IInv')
      BY LP!ClientStepInv
    <2>2. LP!IInv'
      BY <1>1, <1>4, <2>1, SameClientStep, SameAssumption
    <2>3. QED
      BY <2>2, SameInvNext
  <1>5. CASE L!ExitStep
    <2>1. LP!LoaderAssumption => (LP!IInv /\ LP!ExitStep => LP!IInv')
      BY LP!ExitStepInv
    <2>2. LP!IInv'
      BY <1>1, <1>5, <2>1, SameExitStep, SameAssumption
    <2>3. QED
      BY <2>2, SameInvNext
  <1>6. CASE UNCHANGED L!vars
    <2>1. UNCHANGED LP!vars
      BY <1>6 DEF L!vars, L!loaderVars, L!callVars, L!exitVars, LP!vars, LP!loaderVars,
         LP!callVars, LP!exitVars
    <2>2. LP!LoaderAssumption => (LP!IInv /\ UNCHANGED LP!vars => LP!IInv')
      BY LP!StutterInv
    <2>3. LP!IInv'
      BY <1>1, <2>1, <2>2, SameAssumption
    <2>4. QED
      BY <2>3, SameInvNext
  <1>7. QED
    BY <1>2, <1>3, <1>4, <1>5, <1>6 DEF L!Next, L!Terminated

-----------------------------------------------------------------------------
(* Every step of the viewer is one the loader's client may take.           *)

\* Every rotation mRotate can hold may be asked for.
AllTurns == Rotations = -3..3

\* What the handlers rely on without looking: the bitmap is the one of the file, when
\* there is a file; a file that is selected is the one shown; it stays selected under a dialog of Save or Save As; the two are the only
\* handlers that check and write under a dialog; and Replace has a bitmap to store.
Rooms ==
  /\ file # NoPath => from = file
  /\ sel # NoPath => file = sel
  /\ dialog # "none" => sel # NoPath
  /\ dialog = "save" => target = sel
  /\ upc = "loaded" => sel # NoPath
  /\ upc \in {"saving", "write"} => dialog # "none"
  /\ upc \in {"rotating", "rotate"} => dialog = "none"
  /\ upc = "replace" => file \in Paths /\ orig # NoBmp

\* The inductive invariant of the viewer, and its part about the panel.
PanelOK == TypeOK /\ Rooms /\ SavesWhatIsShown
VInv == L!IInv /\ PanelOK

LEMMA Assumptions ==
  /\ FullSize \in Sizes /\ View \in Sizes /\ View # FullSize
  /\ NoBmp \notin L!Bitmap /\ NoPath \notin Paths
  /\ Written = L!Picture /\ \A p \in Paths : Given[p] = L!Bitmap
  /\ Jpeg \subseteq Paths /\ Lossless \subseteq Paths
  /\ Siblings \in [Paths -> Seq(Paths)]
  BY ViewerAssumption DEF L!LoaderAssumption, AnyBitmap, L!Bitmap

\* A bitmap that is turned is a bitmap, of the same size and kind; a part of
\* one has its size, and is a preview if it is one.
LEMMA TurnedBitmap ==
  ASSUME NEW b \in L!Bitmap, NEW q \in {1, -1}
  PROVE  /\ Turned(b, q) \in L!Bitmap
         /\ Turned(b, q).size = b.size /\ Turned(b, q).kind = b.kind
  BY DEF Turned, L!Bitmap

LEMMA PartOfBitmap ==
  ASSUME NEW b \in L!Bitmap
  PROVE  /\ PartOf(b) \in L!Bitmap
         /\ PartOf(b).size = b.size
         /\ (PartOf(b).kind = "rough") = (b.kind = "rough")
  BY DEF PartOf, L!Bitmap

LEMMA TurnedPicture ==
  ASSUME NEW b \in L!Picture, NEW q \in {1, -1}
  PROVE  Turned(b, q) \in L!Picture
  BY DEF Turned, L!Picture

LEMMA PictureOfBitmap ==
  ASSUME NEW b \in L!Bitmap
  PROVE  [of |-> b.of, turn |-> b.turn] \in L!Picture
  BY DEF L!Bitmap, L!Picture

\* What a call of ReloadImage asks for is what GetFiBitmap may be asked for.
LEMMA ReloadIsClientStep ==
  ASSUME AllTurns, TypeOK, NEW p \in Paths, NEW loaded \in BOOLEAN,
         NEW fully \in BOOLEAN, NEW next, ReloadImage(p, loaded, fully, next)
  PROVE  L!ClientStep
  <1>1. rot' \in Rotations
    BY DEF ReloadImage, AllTurns, TypeOK
  <1>2. (IF fully \/ (loaded /\ crop) THEN FullSize ELSE View) \in Sizes
    BY Assumptions
  <1>3. L!GetFiBitmap(p, IF fully \/ (loaded /\ crop) THEN FullSize ELSE View,
                      rot', ~loaded)
    BY DEF ReloadImage
  <1>4. \E s \in Sizes, r \in Rotations, fast \in BOOLEAN : L!GetFiBitmap(p, s, r, fast)
    BY <1>1, <1>2, <1>3
  <1>5. QED
    BY <1>4 DEF L!ClientStep

LEMMA UserIsClient ==
  ASSUME AllTurns, VInv, UserStep
  PROVE  [L!Next]_(L!vars)
  <1> USE DEF VInv, PanelOK
  <1>0. UNCHANGED loader => UNCHANGED L!vars
    BY DEF loader, L!vars, L!loaderVars, L!callVars, L!exitVars
  <1>1. ASSUME NEW p \in Paths, Select(p) PROVE L!ClientStep
    <2>1. ReloadImage(p, FALSE, complete, "selecting")
      BY <1>1 DEF Select, ShowSelected
    <2>2. QED
      BY <2>1, ReloadIsClientStep DEF TypeOK
  <1>2. ASSUME NEW p \in Paths, SaveAsCommand(p) PROVE UNCHANGED loader
    BY <1>2 DEF SaveAsCommand
  <1>3. ASSUME CheckEdited("rotating", "rotate") \/ CheckEdited("saving", "write")
        PROVE  L!ClientStep \/ UNCHANGED loader
    <2>1. CASE MustLoadCompletely /\ file # NoPath
      <3>1. file \in Paths
        BY <2>1 DEF TypeOK
      <3>2. \/ ReloadImage(file, TRUE, TRUE, "rotating")
            \/ ReloadImage(file, TRUE, TRUE, "saving")
        BY <1>3, <2>1 DEF CheckEdited
      <3>3. QED
        BY <3>1, <3>2, ReloadIsClientStep
    <2>2. CASE ~(MustLoadCompletely /\ file # NoPath)
      BY <1>3, <2>2 DEF CheckEdited
    <2>3. QED
      BY <2>1, <2>2
  <1>4. ASSUME NEW q \in {1, -1}, RotateCommand(q) PROVE L!ClientStep \/ UNCHANGED loader
    BY <1>3, <1>4 DEF RotateCommand
  <1>5. CASE Confirm
    BY <1>0, <1>3, <1>5 DEF Confirm, L!Next
  <1>6. CASE Reload
    <2>1. CASE sel # NoPath
      <3>1. ReloadImage(sel, FALSE, complete, "reloading")
        BY <1>6, <2>1 DEF Reload
      <3>2. L!ClientStep
        BY <2>1, <3>1, ReloadIsClientStep DEF TypeOK
      <3>3. QED
        BY <3>2 DEF L!Next
    <2>2. CASE sel = NoPath
      BY <1>0, <1>6, <2>2 DEF Reload
    <2>3. QED
      BY <2>1, <2>2
  <1>7. CASE Zoom
    <2>1. CASE file # NoPath /\ L!PrependTicket(file, FullSize, rot)
      <3>1. file \in Paths /\ rot \in Rotations /\ FullSize \in Sizes
        BY <2>1, Assumptions DEF TypeOK, AllTurns
      <3>2. L!ClientStep
        BY <2>1, <3>1 DEF L!ClientStep
      <3>3. QED
        BY <3>2 DEF L!Next
    <2>2. CASE UNCHANGED loader
      BY <1>0, <2>2
    <2>3. QED
      BY <1>7, <2>1, <2>2 DEF Zoom
  <1>8. CASE SelectDir \/ ToggleKeepRotate \/ ToggleLoadCompletely \/ SaveCommand \/ Cancel
    BY <1>0, <1>8 DEF SelectDir, ToggleKeepRotate, ToggleLoadCompletely, SaveCommand, Cancel
  <1>9. QED
    BY <1>0, <1>1, <1>2, <1>4, <1>5, <1>6, <1>7, <1>8 DEF UserStep, L!Next

LEMMA HandlerIsClient ==
  ASSUME AllTurns, VInv, HandlerStep
  PROVE  [L!Next]_(L!vars)
  <1> USE DEF VInv, PanelOK
  <1>0. UNCHANGED loader => UNCHANGED L!vars
    BY DEF loader, L!vars, L!loaderVars, L!callVars, L!exitVars
  <1>t. L!TypeOK
    BY DEF TypeOK
  <1>1. CASE ReloadImageDone
    BY <1>1 DEF ReloadImageDone, L!Next, L!CallStep
  <1>2. CASE PrefetchClear
    BY <1>2 DEF PrefetchClear, L!Next, L!ClientStep
  <1>3. CASE PrefetchAppend
    <2>1. CASE rest = <<>>
      BY <1>0, <1>3, <2>1 DEF PrefetchAppend
    <2>2. CASE rest # <<>>
      <3>1. Head(rest) \in Paths
        BY <2>2 DEF TypeOK
      <3>2. (IF complete THEN FullSize ELSE View) \in Sizes
        BY Assumptions
      <3>3. (IF keep THEN rot ELSE 0) \in Rotations
        BY DEF TypeOK, AllTurns
      <3>4. L!AppendTicket(Head(rest), IF complete THEN FullSize ELSE View,
                           IF keep THEN rot ELSE 0)
        BY <1>3, <2>2 DEF PrefetchAppend
      <3>5. L!ClientStep
        BY <3>1, <3>2, <3>3, <3>4 DEF L!ClientStep
      <3>6. QED
        BY <3>5 DEF L!Next
    <2>3. QED
      BY <2>1, <2>2
  <1>4. CASE OnLoadedReload
    <2>1. ReloadImage(sel, TRUE, complete, "showing") /\ sel \in Paths
      BY <1>4 DEF OnLoadedReload, Rooms, TypeOK
    <2>2. L!ClientStep
      BY <2>1, ReloadIsClientStep DEF TypeOK
    <2>3. QED
      BY <2>2 DEF L!Next
  <1>5. CASE Rotate90
    <2>1. CASE L!WriteFile(file, Turned(disk[file], quarter)) /\ file \in Lossless
      <3>1. file \in Paths /\ disk[file] \in L!Picture /\ quarter \in {1, -1}
        BY <1>t, <2>1, Assumptions DEF L!TypeOK, TypeOK
      <3>2. Turned(disk[file], quarter) \in Written
        BY <3>1, TurnedPicture, Assumptions
      <3>3. L!ClientStep
        BY <2>1, <3>1, <3>2 DEF L!ClientStep
      <3>4. QED
        BY <3>3 DEF L!Next
    <2>2. CASE UNCHANGED loader
      BY <1>0, <2>2
    <2>3. QED
      BY <1>5, <2>1, <2>2 DEF Rotate90
  <1>6. CASE Replace
    <2>1. file \in Paths /\ orig \in Given[file]
      BY <1>6, Assumptions DEF Replace, Rooms, TypeOK
    <2>2. 0 \in Rotations /\ FALSE \in BOOLEAN
      BY DEF AllTurns
    <2>3. L!Replace(file, orig, FALSE, 0)
      BY <1>6 DEF Replace
    <2>4. L!ClientStep
      BY <2>1, <2>2, <2>3 DEF L!ClientStep
    <2>5. QED
      BY <2>4 DEF L!Next
  <1>7. CASE Write
    <2>1. CASE orig # NoBmp /\ L!WriteFile(target, [of |-> orig.of, turn |-> orig.turn])
      <3>1. target \in Paths
        BY <1>7 DEF Write, Rooms, TypeOK
      <3>2. [of |-> orig.of, turn |-> orig.turn] \in Written
        BY <2>1, PictureOfBitmap, Assumptions DEF TypeOK
      <3>3. L!ClientStep
        BY <2>1, <3>1, <3>2 DEF L!ClientStep
      <3>4. QED
        BY <3>3 DEF L!Next
    <2>2. CASE UNCHANGED loader
      BY <1>0, <2>2
    <2>3. QED
      BY <1>7, <2>1, <2>2 DEF Write
  <1>8. CASE Replaced
    <2>1. CASE dialog = "saveas"
      <3>1. target \in Paths /\ ReloadImage(target, FALSE, complete, "selecting")
        BY <1>8, <2>1 DEF Replaced, ShowSelected, TypeOK
      <3>2. L!ClientStep
        BY <3>1, ReloadIsClientStep DEF TypeOK
      <3>3. QED
        BY <3>2 DEF L!Next
    <2>2. CASE dialog # "saveas"
      BY <1>0, <1>8, <2>2 DEF Replaced
    <2>3. QED
      BY <2>1, <2>2
  <1>9. QED
    BY <1>1, <1>2, <1>3, <1>4, <1>5, <1>6, <1>7, <1>8 DEF HandlerStep

\* The viewer calls the loader only as KuLoader's client may.
LEMMA StepIsLoaderStep ==
  ASSUME AllTurns, VInv, [Next]_vars
  PROVE  [L!Next]_(L!vars)
  <1>0. UNCHANGED loader => UNCHANGED L!vars
    BY DEF loader, L!vars, L!loaderVars, L!callVars, L!exitVars
  <1>1. CASE LoaderStep
    BY <1>1 DEF LoaderStep, L!Next
  <1>2. CASE CallStep
    BY <1>2 DEF CallStep, L!Next, L!CallStep
  <1>3. CASE OnLoaded
    BY <1>3 DEF OnLoaded, L!Next, L!ClientStep
  <1>4. CASE Close
    BY <1>4 DEF Close, L!Next, L!ClientStep, L!ExitStep
  <1>5. CASE Exit
    BY <1>5 DEF Exit, L!Next, L!ExitStep
  <1>6. CASE Terminated \/ UNCHANGED vars
    BY <1>0, <1>6 DEF Terminated, vars
  <1>7. QED
    BY <1>1, <1>2, <1>3, <1>4, <1>5, <1>6, UserIsClient, HandlerIsClient DEF Next

-----------------------------------------------------------------------------
(* Types, rooms and what Save writes.                                      *)

\* Only WriteFile writes a file.
LEMMA DiskKept ==
  ASSUME L!LoaderStep \/ L!CallStep \/ L!ExitStep \/ L!OnClose \/ L!TakeEvent
  PROVE  disk' = disk
  <1>1. CASE L!LoaderStep
    BY <1>1 DEF L!LoaderStep, L!EntryTop, L!EntryPop, L!EntryPopEmpty, L!EntryCheck,
       L!EntryHit, L!EntryMiss, L!EntryLoad, L!EntryLock, L!EntryEvict, L!EntryAdd, L!EntryNotify, L!EntryPost,
       L!ClearBmpHash, L!EntryExit
  <1>2. CASE L!CallStep
    BY <1>2 DEF L!CallStep, L!RemoveErase, L!ReplaceStore, L!GetHit, L!GetMiss,
       L!GetPrepend, L!GetLoad, L!GetAdd, L!GetReturn
  <1>3. CASE L!ExitStep \/ L!OnClose \/ L!TakeEvent
    BY <1>3 DEF L!ExitStep, L!DestroyFrame, L!ClearThread, L!ClearThreadDelete,
       L!ClearThreadWaited, L!OnClose, L!TakeEvent
  <1>4. QED
    BY <1>1, <1>2, <1>3

\* What ReloadImage leaves of the panel's types.
LEMMA ReloadTypes ==
  ASSUME TypeOK, NEW p \in Paths, NEW loaded \in BOOLEAN, NEW fully, NEW next,
         ReloadImage(p, loaded, fully, next)
  PROVE  /\ file' = p /\ from' = file' /\ orig' = NoBmp /\ crop' \in BOOLEAN /\ rot' \in -3..3
         /\ keep' = keep /\ complete' = complete /\ upc' = next
  BY DEF ReloadImage, TypeOK

LEMMA UserKeeps ==
  ASSUME VInv, L!TypeOK', UserStep
  PROVE  PanelOK'
  <1> USE DEF VInv, PanelOK, SavesWhatIsShown
  <1>0. MaxOps \in Nat
    BY ViewerAssumption
  <1>1. ASSUME NEW p \in Paths, Select(p) PROVE PanelOK'
    <2>1. ReloadImage(p, FALSE, complete, "selecting")
      BY <1>1 DEF Select, ShowSelected
    <2>2. /\ file' = p /\ from' = file' /\ orig' = NoBmp /\ crop' \in BOOLEAN /\ rot' \in -3..3
          /\ keep' = keep /\ complete' = complete /\ upc' = "selecting"
      BY <2>1, ReloadTypes
    <2>3. rest' \in Seq(Paths)
      BY <1>1, Assumptions DEF Select, ShowSelected
    <2>4. QED
      BY <1>1, <2>2, <2>3, <1>0
      DEF Select, ShowSelected, User, TypeOK, Rooms, saving
  <1>2. ASSUME NEW p \in Paths, SaveAsCommand(p) PROVE PanelOK'
    BY <1>2, Assumptions, <1>0 DEF SaveAsCommand, User, TypeOK, Rooms,
       shown, options, handler
  <1>3. ASSUME NEW q \in {1, -1}, RotateCommand(q) PROVE PanelOK'
    <2>1. CASE MustLoadCompletely /\ file # NoPath
      <3>1. file \in Paths
        BY <2>1 DEF TypeOK
      <3>2. ReloadImage(file, TRUE, TRUE, "rotating")
        BY <1>3, <2>1 DEF RotateCommand, CheckEdited
      <3>3. /\ file' = file /\ from' = file' /\ orig' = NoBmp /\ crop' \in BOOLEAN /\ rot' \in -3..3
            /\ keep' = keep /\ complete' = complete /\ upc' = "rotating"
        BY <3>1, <3>2, ReloadTypes
      <3>4. QED
        BY <1>3, <2>1, <3>3, <1>0
        DEF RotateCommand, CheckEdited, User, TypeOK, Rooms, saving
    <2>2. CASE ~(MustLoadCompletely /\ file # NoPath)
      <3>0. ops' \in 0..MaxOps /\ dialog = "none"
        BY <1>0, <1>3 DEF RotateCommand, User, TypeOK
      <3>1. /\ ops' \in 0..MaxOps /\ quarter' = q /\ upc' = "rotate" /\ dialog = "none"
            /\ UNCHANGED <<shown, options, edited, rest, saving>>
        BY <1>3, <2>2, <3>0 DEF RotateCommand, CheckEdited
      <3>2. TypeOK'
        BY <3>1 DEF TypeOK, saving, shown, options
      <3>3. Rooms' /\ SavesWhatIsShown'
        BY <3>1 DEF Rooms, saving, shown
      <3>4. QED
        BY <3>2, <3>3
    <2>3. QED
      BY <2>1, <2>2
  <1>4. CASE Confirm
    <2>1. CASE MustLoadCompletely /\ file # NoPath
      <3>1. file \in Paths
        BY <2>1 DEF TypeOK
      <3>2. ReloadImage(file, TRUE, TRUE, "saving")
        BY <1>4, <2>1 DEF Confirm, CheckEdited
      <3>3. /\ file' = file /\ from' = file' /\ orig' = NoBmp /\ crop' \in BOOLEAN /\ rot' \in -3..3
            /\ keep' = keep /\ complete' = complete /\ upc' = "saving"
        BY <3>1, <3>2, ReloadTypes
      <3>4. QED
        BY <1>4, <2>1, <3>3 DEF Confirm, CheckEdited, TypeOK, Rooms, saving
    <2>2. CASE ~(MustLoadCompletely /\ file # NoPath)
      BY <1>4, <2>2 DEF Confirm, CheckEdited, TypeOK, Rooms, saving, shown, options
    <2>3. QED
      BY <2>1, <2>2
  <1>5. CASE Reload
    <2>1. CASE sel # NoPath
      <3>1. sel \in Paths /\ ReloadImage(sel, FALSE, complete, "reloading")
        BY <1>5, <2>1 DEF Reload, TypeOK
      <3>2. /\ file' = sel /\ from' = file' /\ orig' = NoBmp /\ crop' \in BOOLEAN /\ rot' \in -3..3
            /\ keep' = keep /\ complete' = complete /\ upc' = "reloading"
        BY <3>1, ReloadTypes
      <3>3. QED
        BY <1>5, <2>1, <3>2, <1>0 DEF Reload, User, TypeOK, Rooms, saving
    <2>2. CASE sel = NoPath
      BY <1>5, <2>2, <1>0 DEF Reload, User, TypeOK, Rooms, saving, options
    <2>3. QED
      BY <2>1, <2>2
  <1>6. CASE Zoom
    <2>1. orig' \in L!Bitmap \cup {NoBmp} /\ crop' \in BOOLEAN
      BY <1>6, PartOfBitmap DEF Zoom, TypeOK
    <2>2. QED
      BY <1>6, <2>1, <1>0
      DEF Zoom, User, TypeOK, Rooms, saving, options, handler
  <1>7. CASE SelectDir \/ ToggleKeepRotate \/ ToggleLoadCompletely
    <2>1. /\ ops' \in 0..MaxOps /\ dialog = "none" /\ upc = "idle"
          /\ sel' \in {sel, NoPath} /\ keep' \in BOOLEAN /\ complete' \in BOOLEAN
          /\ rot' \in -3..3 /\ UNCHANGED <<file, orig, from, crop, edited, handler, saving>>
      <3>1. /\ ops' \in 0..MaxOps /\ dialog = "none" /\ upc = "idle"
            /\ keep \in BOOLEAN /\ complete \in BOOLEAN /\ rot \in -3..3 /\ 0 \in -3..3
        BY <1>0, <1>7 DEF SelectDir, ToggleKeepRotate, ToggleLoadCompletely, User, TypeOK
      <3>2. CASE SelectDir
        BY <3>1, <3>2, Zenon DEF SelectDir, options
      <3>3. CASE ToggleKeepRotate
        BY <3>1, <3>3, Zenon DEF ToggleKeepRotate, shown
      <3>4. CASE ToggleLoadCompletely
        BY <3>1, <3>4, Zenon DEF ToggleLoadCompletely, shown
      <3>5. QED
        BY <1>7, <3>2, <3>3, <3>4, Zenon
    <2>2. TypeOK'
      BY <2>1 DEF TypeOK, saving, handler
    <2>3. Rooms' /\ SavesWhatIsShown'
      BY <2>1 DEF Rooms, saving, handler
    <2>4. QED
      BY <2>2, <2>3
  <1>8. CASE SaveCommand \/ Cancel
    BY <1>8, Assumptions, <1>0 DEF SaveCommand, Cancel, User, TypeOK, Rooms,
       options, handler, shown
  <1>9. QED
    BY <1>1, <1>2, <1>3, <1>4, <1>5, <1>6, <1>7, <1>8 DEF UserStep

LEMMA HandlerKeeps ==
  ASSUME VInv, L!TypeOK', HandlerStep
  PROVE  PanelOK'
  <1> USE DEF VInv, PanelOK, SavesWhatIsShown
  <1>t. L!TypeOK
    BY DEF TypeOK
  <1>1. CASE ReloadImageDone
    <2>1. abmp \in L!Bitmap \cup {NoBmp}
      BY <1>t DEF L!TypeOK
    <2>2. orig' \in L!Bitmap \cup {NoBmp}
      BY <1>1, <2>1, PartOfBitmap DEF ReloadImageDone
    <2>3. edited' \in BOOLEAN
      BY <1>1 DEF ReloadImageDone
    <2>4. /\ UNCHANGED <<sel, file, from, crop, options, rest, quarter, saving, ops>>
          /\ \/ upc = "selecting" /\ upc' = "clear"
             \/ upc = "rotating" /\ upc' = "rotate"
             \/ upc = "saving" /\ upc' = "write"
             \/ upc \in {"reloading", "showing"} /\ upc' = "idle"
      BY <1>1 DEF ReloadImageDone
    <2>5. QED
      BY <2>2, <2>3, <2>4 DEF TypeOK, Rooms, options, saving
  <1>2. CASE PrefetchClear
    BY <1>2 DEF PrefetchClear, TypeOK, Rooms, shown, options, saving
  <1>3. CASE PrefetchAppend
    <2>1. rest' \in Seq(Paths) /\ upc \in {"append"} /\ upc' \in {"append", "idle"}
      BY <1>3 DEF PrefetchAppend, TypeOK
    <2>2. QED
      BY <1>3, <2>1 DEF PrefetchAppend, TypeOK, Rooms, shown, options, saving
  <1>4. CASE OnLoadedReload
    <2>1. ReloadImage(sel, TRUE, complete, "showing") /\ sel \in Paths
      BY <1>4 DEF OnLoadedReload, Rooms, TypeOK
    <2>2. /\ file' = sel /\ from' = file' /\ orig' = NoBmp /\ crop' \in BOOLEAN /\ rot' \in -3..3
          /\ keep' = keep /\ complete' = complete /\ upc' = "showing"
      BY <2>1, ReloadTypes
    <2>3. QED
      BY <1>4, <2>1, <2>2 DEF OnLoadedReload, TypeOK, Rooms, saving
  <1>5. CASE Rotate90
    <2>1. rot' \in -3..3
      BY <1>5 DEF Rotate90, TypeOK, L!Rem4
    <2>2. orig' \in L!Bitmap \cup {NoBmp} /\ edited' \in BOOLEAN
      BY <1>5, TurnedBitmap DEF Rotate90, TypeOK
    <2>3. dialog' = "none" /\ dialog = "none" /\ target' = target
      BY <1>5 DEF Rotate90, Rooms, saving
    <2>4. upc' = "idle" \/ (upc' = "replace" /\ file \in Paths /\ orig' # NoBmp)
      <3>1. orig # NoBmp => Turned(orig, quarter) # NoBmp
        BY TurnedBitmap, Assumptions DEF TypeOK
      <3>2. QED
        BY <1>5, <3>1, Assumptions DEF Rotate90
    <2>5. UNCHANGED <<sel, file, from, crop, keep, complete, rest, quarter, saving, ops>>
      BY <1>5 DEF Rotate90
    <2>6. TypeOK'
      BY <2>1, <2>2, <2>3, <2>4, <2>5 DEF TypeOK
    <2>7. Rooms'
      BY <2>3, <2>4, <2>5 DEF Rooms
    <2>8. QED
      BY <2>3, <2>6, <2>7
  <1>6. CASE Replace
    BY <1>6 DEF Replace, TypeOK, Rooms, shown, options, saving
  <1>7. CASE Write
    <2>1. file \in Paths /\ target \in Paths /\ dialog # "none" /\ sel = file
      BY <1>7 DEF Write, Rooms, TypeOK
    <2>2. CASE /\ orig # NoBmp
               /\ L!WriteFile(target, [of |-> orig.of, turn |-> orig.turn])
               /\ upc' = "replace" /\ UNCHANGED saving
      <3>1. disk'[target] = [of |-> orig.of, turn |-> orig.turn]
        BY <1>t, <2>1, <2>2 DEF L!WriteFile, L!TypeOK
      <3>2. UNCHANGED <<shown, options, edited, rest, quarter, saving, ops>>
        BY <1>7, <2>2 DEF Write
      <3>3. TypeOK' /\ Rooms'
        BY <2>1, <2>2, <3>2 DEF TypeOK, Rooms, shown, options, saving
      <3>4. dialog = "save" => target = file
        BY <2>1 DEF Rooms
      <3>5. SavesWhatIsShown'
        BY <2>2, <3>1, <3>2, <3>4 DEF shown, saving
      <3>6. QED
        BY <3>3, <3>5
    <2>3. CASE upc' = "idle" /\ dialog' = "none" /\ target' = NoPath
      BY <1>7, <2>1, <2>3 DEF Write, TypeOK, Rooms, shown, options
    <2>4. QED
      BY <1>7, <2>2, <2>3 DEF Write
  <1>8. CASE Replaced
    <2>1. CASE dialog = "saveas"
      <3>1. /\ target \in Paths /\ ReloadImage(target, FALSE, complete, "selecting")
            /\ sel' = target /\ rest' = Siblings[target]
        BY <1>8, <2>1 DEF Replaced, ShowSelected, TypeOK
      <3>2. /\ file' = target /\ from' = file' /\ orig' = NoBmp /\ crop' \in BOOLEAN /\ rot' \in -3..3
            /\ keep' = keep /\ complete' = complete /\ upc' = "selecting"
        BY <3>1, ReloadTypes
      <3>3. rest' \in Seq(Paths) /\ edited' \in BOOLEAN
        BY <1>8, <3>1, Assumptions DEF Replaced
      <3>4. QED
        BY <1>8, <3>1, <3>2, <3>3 DEF Replaced, TypeOK, Rooms
    <2>2. CASE dialog # "saveas"
      BY <1>8, <2>2 DEF Replaced, TypeOK, Rooms, shown, options
    <2>3. QED
      BY <2>1, <2>2
  <1>9. QED
    BY <1>1, <1>2, <1>3, <1>4, <1>5, <1>6, <1>7, <1>8 DEF HandlerStep

\* The steps that leave the panel alone: the loader's, a call's, and the end's.
LEMMA OthersKeep ==
  ASSUME VInv, L!TypeOK', UNCHANGED viewer, disk' = disk
  PROVE  PanelOK'
  BY DEF VInv, PanelOK, TypeOK, Rooms, SavesWhatIsShown, viewer, shown, options, handler,
     saving

LEMMA PanelKept ==
  ASSUME VInv, L!TypeOK', [Next]_vars
  PROVE  PanelOK'
  <1>1. CASE LoaderStep \/ CallStep
    BY <1>1, DiskKept, OthersKeep DEF LoaderStep, CallStep, L!CallStep
  <1>2. CASE OnLoaded
    <2>1. events \in Seq(Paths) /\ events # <<>> /\ upc = "idle"
      BY <1>2 DEF OnLoaded, L!TakeEvent, VInv, PanelOK, TypeOK, L!TypeOK
    <2>2. upc' \in {"idle", "loaded"} /\ (upc' = "loaded" => sel \in Paths)
      BY <1>2, <2>1 DEF OnLoaded
    <2>3. UNCHANGED <<shown, options, edited, rest, quarter, saving, ops>>
      BY <1>2 DEF OnLoaded
    <2>4. QED
      BY <2>1, <2>2, <2>3, Assumptions
      DEF VInv, PanelOK, TypeOK, Rooms, SavesWhatIsShown, shown, options, saving
  <1>3. CASE Close
    BY <1>3, DiskKept, OthersKeep DEF Close, L!ExitStep
  <1>4. CASE Exit
    BY <1>4, DiskKept, OthersKeep DEF Exit, L!ExitStep
  <1>5. CASE Terminated \/ UNCHANGED vars
    <2>1. UNCHANGED viewer /\ disk' = disk
      BY <1>5 DEF Terminated, vars, loader
    <2>2. QED
      BY <2>1, OthersKeep
  <1>6. QED
    BY <1>1, <1>2, <1>3, <1>4, <1>5, UserKeeps, HandlerKeeps DEF Next

LEMMA ViewerStep ==
  ASSUME AllTurns, VInv, [Next]_vars
  PROVE  VInv'
  <1>1. [L!Next]_(L!vars)
    BY StepIsLoaderStep
  <1>2. L!IInv'
    BY <1>1, LoaderInv DEF VInv
  <1>3. L!TypeOK'
    BY <1>2 DEF L!IInv
  <1>4. PanelOK'
    BY <1>3, PanelKept
  <1>5. QED
    BY <1>2, <1>4 DEF VInv

LEMMA ViewerInit == Init => VInv
  <1> SUFFICES ASSUME Init PROVE VInv
    OBVIOUS
  <1>1. L!IInv
    <2>1. LP!LoaderAssumption => (LP!Init => LP!IInv)
      BY LP!InitInv
    <2>2. LP!Init
      BY SameInit DEF Init
    <2>3. QED
      BY <2>1, <2>2, SameAssumption, SameInv
  <1>2. L!TypeOK
    BY <1>1 DEF L!IInv
  <1>3. MaxOps \in Nat
    BY ViewerAssumption
  <1>4. TypeOK
    <2>1. <<>> \in Seq(Paths) /\ 0 \in -3..3 /\ 0 \in 0..MaxOps
      BY <1>3
    <2>2. rest \in Seq(Paths) /\ rot \in -3..3 /\ ops \in 0..MaxOps
      BY <2>1, Zenon DEF Init
    <2>3. dialog = "none" /\ target = NoPath
      BY DEF Init
    <2>4. (dialog # "none") = (target # NoPath)
      BY <2>3, Zenon
    <2>5. QED
      BY <1>2, <2>2, <2>3, <2>4, Zenon DEF Init, TypeOK
  <1>5. Rooms /\ SavesWhatIsShown
    BY DEF Init, Rooms, SavesWhatIsShown
  <1>6. QED
    BY <1>1, <1>4, <1>5 DEF VInv, PanelOK

\* The inductive invariant holds in every state.
THEOREM ViewerInvariance == AllTurns /\ Spec => []VInv
  <1>1. Init => VInv
    BY ViewerInit
  <1>2. AllTurns /\ VInv /\ [Next]_vars => VInv'
    BY ViewerStep
  <1>3. AllTurns => AllTurns'
    BY DEF AllTurns
  <1>4. QED
    BY <1>1, <1>2, <1>3, PTL DEF Spec

\* Every variable of the viewer and of its loader stays in its type.
THEOREM ViewerTypes == AllTurns /\ Spec => []TypeOK
  <1>1. VInv => TypeOK
    BY DEF VInv, PanelOK
  <1>2. QED
    BY <1>1, ViewerInvariance, PTL

\* Every behaviour of the viewer is one of KuLoader: the handlers call the loader one
\* call at a time, for the files, sizes, rotations and bitmaps KuLoader's client has.
THEOREM ViewerIsClient == AllTurns /\ Spec => LoaderSpec
  <1>1. Init => L!Init
    BY DEF Init
  <1>2. AllTurns /\ VInv /\ [Next]_vars => [L!Next]_(L!vars)
    BY StepIsLoaderStep
  <1>3. AllTurns => AllTurns'
    BY DEF AllTurns
  <1>4. QED
    BY <1>1, <1>2, <1>3, ViewerInvariance, PTL DEF Spec, LoaderSpec, L!Spec

\* The picture Save has written and is about to cache is the one on screen, and for
\* Save its file is the one shown, whatever LOADED events came under the dialog.
THEOREM SaveWritesTheShown == AllTurns /\ Spec => []SavesWhatIsShown
  <1>1. VInv => SavesWhatIsShown
    BY DEF VInv, PanelOK
  <1>2. QED
    BY <1>1, ViewerInvariance, PTL

-----------------------------------------------------------------------------
(* What is edited is complete, as long as the option is left alone.        *)

Gets == {"check", "prepend", "load", "add", "return"}

\* A bitmap that is not reduced.
Sharp(b) == b # NoBmp => b.size # View /\ b.kind # "rough"

\* A bitmap of a size other than the window's is not reduced.
SharpAt(s, b) == s # View => Sharp(b)

HashSharp == \A p \in Jpeg : L!Has(p) => SharpAt(hash[p].size, hash[p].bmp)

\* Wherever a bitmap is on its way through the loader it is as sharp as its size says:
\* a preview is made only for a call that asks for the window's size, and Replace is
\* given none.
LoadsSharp ==
  /\ HashSharp
  /\ lpc \in {"lock", "evict"} => SharpAt(ticket.size, lbmp)
  /\ apc \in Gets /\ call.fast => call.size = View
  /\ apc \in {"add", "return"} /\ call.path \in Jpeg => SharpAt(call.size, abmp)
  /\ apc = "replace" /\ call.path \in Jpeg => Sharp(abmp)

\* The call that loads a picture completely is under way, for the file shown.
Loading == apc \in Gets \cup {"crashed"} /\ call.path = file /\ call.size = FullSize

\* The picture is not reduced, unless it has lost its file.
Whole == file # NoPath => ~Reduced

\* What is edited, or about to be, is whole, or is being loaded completely.
EditsSharp ==
  /\ upc \in {"rotating", "saving"} => Loading
  /\ upc = "showing" /\ crop => Loading
  /\ upc \in {"selecting", "reloading"} => ~crop
  /\ upc \in {"clear", "append"} => ~edited
  /\ upc = "idle" /\ edited => Whole
  /\ upc \in {"rotate", "write", "replace", "replaced"} => Whole

SharpOK == complete = FALSE /\ LoadsSharp /\ EditsSharp

\* The inductive invariant of the viewer as long as that option is not used.
CompleteInv == VInv /\ SharpOK

LEMMA SharpTurned ==
  ASSUME NEW b \in L!Bitmap \cup {NoBmp}, NEW r \in Int, NEW s, SharpAt(s, b)
  PROVE  SharpAt(s, L!Rotated(b, r))
  BY Assumptions DEF SharpAt, Sharp, L!Rotated, L!Bitmap

\* A picture that is loaded is as sharp as its size says, unless it is a preview.
LEMMA SharpLoaded ==
  ASSUME L!TypeOK, NEW p \in Paths, NEW s \in Sizes, NEW r \in Int,
         NEW kind \in {"rough", "good"}, kind = "rough" => s = View
  PROVE  SharpAt(s, L!Rotated(L!Loaded(p, s, kind), r))
  <1>1. disk[p].of \in Paths /\ disk[p].turn \in 0..3
    BY DEF L!TypeOK, L!Picture
  <1>2. L!Loaded(p, s, kind) \in L!Bitmap \cup {NoBmp}
    BY <1>1 DEF L!Loaded, L!Bitmap
  <1>3. SharpAt(s, L!Loaded(p, s, kind))
    BY DEF SharpAt, Sharp, L!Loaded
  <1>4. QED
    BY <1>2, <1>3, SharpTurned

LEMMA RotationsAreInts == Rotations \subseteq Int
  <1>1. Rotations \subseteq -3..3
    BY ViewerAssumption, Zenon DEF L!LoaderAssumption
  <1>2. QED
    BY <1>1

LEMMA EraseSharp ==
  ASSUME L!TypeOK, HashSharp, NEW p \in Paths, L!EraseBmpHash(p)
  PROVE  HashSharp'
  BY Assumptions DEF L!TypeOK, HashSharp, L!EraseBmpHash, L!Has, SharpAt, Sharp

LEMMA AddSharp ==
  ASSUME L!TypeOK, HashSharp, NEW p \in Paths, NEW e, SharpAt(e.size, e.bmp),
         L!AddBmpHash(p, e)
  PROVE  HashSharp'
  BY Assumptions DEF L!TypeOK, HashSharp, L!AddBmpHash, L!Has, SharpAt, Sharp

\* The loader thread puts only good pictures into the hash.
LEMMA LoaderSharp ==
  ASSUME L!IInv, LoadsSharp, L!LoaderStep
  PROVE  LoadsSharp'
  <1> USE DEF Gets
  <1>t. L!TypeOK
    BY DEF L!IInv
  <1>0. L!LoaderStep => call' = call /\ abmp' = abmp /\ (apc' = apc \/ apc' = "crashed")
    BY DEF L!LoaderStep, L!EntryTop, L!EntryPop, L!EntryPopEmpty, L!EntryCheck,
       L!EntryHit, L!EntryMiss, L!EntryLoad, L!EntryLock, L!EntryEvict, L!EntryAdd, L!EntryNotify, L!EntryPost,
       L!ClearBmpHash, L!EntryExit, L!callVars, L!Crash
  <1>a. ASSUME HashSharp', lpc' \in {"lock", "evict"} => SharpAt(ticket'.size, lbmp')
        PROVE  LoadsSharp'
    BY <1>0, <1>a DEF LoadsSharp, SharpAt, Sharp
  <1>b. ASSUME UNCHANGED hash PROVE HashSharp'
    BY <1>b DEF LoadsSharp, HashSharp, L!Has, SharpAt, Sharp
  <1>1. CASE L!EntryTop \/ L!EntryPop \/ L!EntryPopEmpty \/ L!EntryCheck \/ L!EntryHit
             \/ L!EntryNotify \/ L!EntryPost \/ L!EntryExit
    <2>1. hash' = hash /\ lpc' \notin {"lock", "evict"}
      BY <1>1 DEF L!EntryTop, L!EntryPop, L!EntryPopEmpty, L!EntryCheck, L!EntryHit,
         L!EntryNotify, L!EntryPost, L!EntryExit, L!Crash
    <2>2. QED
      BY <2>1, <1>a, <1>b
  <1>2. CASE L!EntryMiss
    <2>1. lpc' \notin {"lock", "evict"} /\ L!EraseBmpHash(ticket.path)
      BY <1>2 DEF L!EntryMiss
    <2>2. ticket.path \in Paths
      BY <1>2, <1>t DEF L!EntryMiss, L!TypeOK, L!Ticket
    <2>3. HashSharp'
      BY <1>t, <2>1, <2>2, EraseSharp DEF LoadsSharp
    <2>4. QED
      BY <2>1, <2>3, <1>a
  <1>3. CASE L!EntryLoad
    <2>1. /\ ticket \in L!Ticket /\ ticket' = ticket
          /\ lbmp' = L!Rotated(L!Loaded(ticket.path, ticket.size, "good"), ticket.rotate)
          /\ hash' = hash
      BY <1>3, <1>t DEF L!EntryLoad, L!TypeOK
    <2>2. ticket.path \in Paths /\ ticket.size \in Sizes /\ ticket.rotate \in Rotations
      BY <2>1 DEF L!Ticket
    <2>3. SharpAt(ticket.size,
                  L!Rotated(L!Loaded(ticket.path, ticket.size, "good"), ticket.rotate))
      BY <1>t, <2>2, SharpLoaded, RotationsAreInts
    <2>4. SharpAt(ticket'.size, lbmp')
      BY <2>1, <2>3 DEF SharpAt, Sharp
    <2>5. QED
      BY <2>1, <2>4, <1>a, <1>b
  <1>4. CASE L!EntryLock
    <2>1. hash' = hash /\ ticket' = ticket /\ lbmp' = lbmp /\ lpc = "lock"
      BY <1>4 DEF L!EntryLock
    <2>2. SharpAt(ticket'.size, lbmp')
      BY <2>1 DEF LoadsSharp, SharpAt, Sharp
    <2>3. QED
      BY <2>1, <2>2, <1>a, <1>b
  <1>5. CASE L!EntryEvict
    <2>1. /\ L!EraseBmpHash(Head(cache)) /\ ticket' = ticket /\ lbmp' = lbmp
          /\ lpc = "evict" /\ Len(cache) >= LoadCache
      BY <1>5 DEF L!EntryEvict, L!loaderVars
    <2>2. Head(cache) \in Paths
      BY <1>t, <2>1, ViewerAssumption DEF L!TypeOK, L!LoaderAssumption
    <2>3. HashSharp'
      BY <1>t, <2>1, <2>2, EraseSharp DEF LoadsSharp
    <2>4. SharpAt(ticket'.size, lbmp')
      BY <2>1 DEF LoadsSharp, SharpAt, Sharp
    <2>5. QED
      BY <2>3, <2>4, <1>a
  <1>6. CASE L!EntryAdd
    <2> DEFINE e == [size |-> ticket.size, rotate |-> ticket.rotate, bmp |-> lbmp]
    <2>1. L!AddBmpHash(ticket.path, e) /\ lpc = "evict" /\ lpc' = "notify"
      BY <1>6 DEF L!EntryAdd
    <2>2. ticket.path \in Paths
      BY <1>t, <2>1 DEF L!TypeOK, L!Ticket
    <2>3. SharpAt(e.size, e.bmp)
      BY <2>1 DEF LoadsSharp, SharpAt, Sharp
    <2> HIDE DEF e
    <2>4. HashSharp'
      BY <1>t, <2>1, <2>2, <2>3, AddSharp DEF LoadsSharp
    <2>5. QED
      BY <2>1, <2>4, <1>a
  <1>7. CASE L!ClearBmpHash
    <2>1. hash' = [p \in Paths |-> NoEntry] /\ lpc' = "cleared"
      BY <1>7 DEF L!ClearBmpHash
    <2>2. HashSharp'
      BY <2>1, Assumptions DEF HashSharp, L!Has
    <2>3. QED
      BY <2>1, <2>2, <1>a
  <1>8. QED
    BY <1>1, <1>2, <1>3, <1>4, <1>5, <1>6, <1>7 DEF L!LoaderStep

\* So do the calls, and what they return is as sharp as what they were asked for.
LEMMA CallSharp ==
  ASSUME L!IInv, LoadsSharp, L!CallStep
  PROVE  LoadsSharp'
  <1> USE DEF Gets
  <1>t. L!TypeOK
    BY DEF L!IInv
  <1>0. L!CallStep => UNCHANGED <<lpc, ticket, lbmp>>
    BY DEF L!CallStep, L!RemoveErase, L!ReplaceStore, L!GetHit, L!GetMiss, L!GetPrepend,
       L!GetLoad, L!GetAdd, L!GetReturn, L!loaderVars
  <1>a. lpc' \in {"lock", "evict"} => SharpAt(ticket'.size, lbmp')
    BY <1>0 DEF LoadsSharp, SharpAt, Sharp
  <1>b. ASSUME UNCHANGED hash PROVE HashSharp'
    BY <1>b DEF LoadsSharp, HashSharp, L!Has, SharpAt, Sharp
  <1>1. CASE L!RemoveErase
    <2>1. /\ call \in L!Call /\ L!EraseBmpHash(call.path) /\ apc' = "ready"
      BY <1>1, <1>t DEF L!RemoveErase, L!TypeOK
    <2>2. call.path \in Paths
      BY <2>1 DEF L!Call
    <2>3. HashSharp'
      BY <1>t, <2>1, <2>2, EraseSharp DEF LoadsSharp
    <2>4. QED
      BY <1>a, <2>1, <2>3 DEF LoadsSharp
  <1>2. CASE L!ReplaceStore
    <2>1. /\ call \in L!Call /\ apc = "replace" /\ apc' = "ready"
          /\ call.path \in Jpeg => Sharp(abmp)
      BY <1>2, <1>t DEF L!ReplaceStore, L!TypeOK, LoadsSharp
    <2>2. call.path \in Paths
      BY <2>1 DEF L!Call
    <2> DEFINE old == IF L!Has(call.path) THEN hash[call.path] ELSE L!DefaultEntry
               new == [size   |-> old.size,
                       rotate |-> IF call.diff THEN L!Rem4(old.rotate + call.rotate)
                                  ELSE call.rotate,
                       bmp    |-> abmp]
    <2>3. hash' = [hash EXCEPT ![call.path] = new] /\ new.bmp = abmp
      <3>1. hash' = [hash EXCEPT ![call.path] = new]
        BY <1>2, Zenon DEF L!ReplaceStore
      <3>2. QED
        BY <3>1
    <2> HIDE DEF new
    <2>4. /\ hash'[call.path].bmp = abmp
          /\ \A p \in Paths : p # call.path => hash'[p] = hash[p]
      BY <1>t, <2>2, <2>3 DEF L!TypeOK
    <2>5. HashSharp'
      BY <2>1, <2>4, Assumptions DEF LoadsSharp, HashSharp, L!Has, SharpAt, Sharp
    <2>6. QED
      BY <1>a, <2>1, <2>5 DEF LoadsSharp
  <1>3. CASE L!GetHit
    <2>1. /\ call \in L!Call /\ L!Has(call.path) /\ hash[call.path].size = call.size
          /\ apc = "check" /\ apc' = "return" /\ call' = call
      BY <1>3, <1>t DEF L!GetHit, L!TypeOK, L!Holds
    <2>2. call.path \in Paths /\ hash[call.path] \in L!Entry /\ call.rotate \in Rotations
      BY <1>t, <2>1 DEF L!Call, L!TypeOK, L!Has
    <2>3. /\ hash[call.path].bmp \in L!Bitmap \cup {NoBmp}
          /\ call.rotate - hash[call.path].rotate \in Int
      <3>1. /\ hash[call.path].bmp \in L!Bitmap \cup {NoBmp}
            /\ hash[call.path].rotate \in -3..3
        BY <2>2, Zenon DEF L!Entry
      <3>2. call.rotate \in Int
        BY <2>2, RotationsAreInts
      <3>3. QED
        BY <3>1, <3>2
    <2> DEFINE b == L!Rotated(hash[call.path].bmp, call.rotate - hash[call.path].rotate)
    <2>4. call.path \in Jpeg => SharpAt(call.size, b)
      <3>1. call.path \in Jpeg => SharpAt(call.size, hash[call.path].bmp)
        BY <2>1 DEF LoadsSharp, HashSharp
      <3>2. QED
        BY <2>3, <3>1, SharpTurned
    <2>5. abmp' = b
      BY <1>3 DEF L!GetHit
    <2>6. /\ hash'[call.path].bmp = b /\ hash'[call.path].size = call.size
          /\ \A p \in Paths : p # call.path => hash'[p] = hash[p]
      <3>1. \E rot2 : hash' = [hash EXCEPT ![call.path] =
                                 [hash[call.path] EXCEPT !.bmp = b, !.rotate = rot2]]
        BY <1>3 DEF L!GetHit
      <3> HIDE DEF b
      <3>2. QED
        BY <1>t, <2>1, <2>2, <3>1 DEF L!TypeOK, L!Entry
    <2> HIDE DEF b
    <2>7. HashSharp'
      BY <2>1, <2>4, <2>6, Assumptions DEF LoadsSharp, HashSharp, L!Has, SharpAt, Sharp
    <2>8. QED
      BY <1>a, <2>1, <2>4, <2>5, <2>7 DEF LoadsSharp, SharpAt, Sharp
  <1>4. CASE L!GetMiss
    <2>1. /\ call \in L!Call /\ L!EraseBmpHash(call.path) /\ apc = "check"
          /\ apc' \in {"prepend", "load"} /\ call' = call
      BY <1>4, <1>t DEF L!GetMiss, L!TypeOK
    <2>2. call.path \in Paths
      BY <2>1 DEF L!Call
    <2>3. HashSharp'
      BY <1>t, <2>1, <2>2, EraseSharp DEF LoadsSharp
    <2>4. QED
      BY <1>a, <2>1, <2>3 DEF LoadsSharp
  <1>5. CASE L!GetPrepend
    <2>1. hash' = hash /\ call' = call /\ apc = "prepend" /\ apc' = "load"
      BY <1>5 DEF L!GetPrepend
    <2>2. QED
      BY <1>a, <1>b, <2>1 DEF LoadsSharp
  <1>6. CASE L!GetLoad
    <2> DEFINE kind == IF call.fast THEN "rough" ELSE "good"
    <2>1. /\ call \in L!Call /\ hash' = hash /\ call' = call /\ apc = "load"
          /\ apc' \in {"add", "return"}
          /\ abmp' = L!Rotated(L!Loaded(call.path, call.size, kind), call.rotate)
      BY <1>6, <1>t DEF L!GetLoad, L!TypeOK, L!LoadedByCall
    <2>2. call.path \in Paths /\ call.size \in Sizes /\ call.rotate \in Int
      BY <2>1, RotationsAreInts DEF L!Call
    <2>3. kind \in {"rough", "good"} /\ (kind = "rough" => call.size = View)
      BY <2>1 DEF LoadsSharp
    <2> HIDE DEF kind
    <2>4. SharpAt(call.size, L!Rotated(L!Loaded(call.path, call.size, kind), call.rotate))
      BY <1>t, <2>2, <2>3, SharpLoaded
    <2>5. SharpAt(call'.size, abmp')
      BY <2>1, <2>4 DEF SharpAt, Sharp
    <2>6. QED
      BY <1>a, <1>b, <2>1, <2>5 DEF LoadsSharp
  <1>7. CASE L!GetAdd
    <2> DEFINE e == [size |-> call.size, rotate |-> call.rotate, bmp |-> abmp]
    <2>1. /\ call \in L!Call /\ L!AddBmpHash(call.path, e) /\ apc = "add"
          /\ apc' = "return" /\ call' = call /\ abmp' = abmp
      BY <1>7, <1>t DEF L!GetAdd, L!TypeOK
    <2>2. call.path \in Paths
      BY <2>1 DEF L!Call
    <2>3. hash'[call.path] = e /\ \A p \in Paths : p # call.path => hash'[p] = hash[p]
      BY <1>t, <2>1, <2>2 DEF L!AddBmpHash, L!TypeOK
    <2>4. call.path \in Jpeg => SharpAt(e.size, e.bmp)
      BY <2>1 DEF LoadsSharp
    <2> HIDE DEF e
    <2>5. HashSharp'
      BY <2>3, <2>4, Assumptions DEF LoadsSharp, HashSharp, L!Has, SharpAt, Sharp
    <2>6. QED
      BY <1>a, <2>1, <2>5 DEF LoadsSharp, SharpAt, Sharp
  <1>8. CASE L!GetReturn
    <2>1. hash' = hash /\ apc' = "ready"
      BY <1>8 DEF L!GetReturn
    <2>2. QED
      BY <1>a, <1>b, <2>1 DEF LoadsSharp
  <1>9. QED
    BY <1>1, <1>2, <1>3, <1>4, <1>5, <1>6, <1>7, <1>8 DEF L!CallStep

\* The steps that touch neither the hash nor a bitmap on its way.
LEMMA SharpKept ==
  ASSUME LoadsSharp, UNCHANGED <<hash, lpc, ticket, lbmp, call, abmp>>,
         apc' = apc \/ apc' \notin Gets \cup {"replace"}
  PROVE  LoadsSharp'
  BY DEF LoadsSharp, HashSharp, SharpAt, Sharp, L!Has, Gets

LEMMA ReplaceSharp ==
  ASSUME LoadsSharp, NEW p, NEW b, p \in Jpeg => Sharp(b), L!Replace(p, b, FALSE, 0)
  PROVE  LoadsSharp'
  <1>0. UNCHANGED <<hash, lpc, ticket, lbmp>>
    BY DEF L!Replace, L!loaderVars
  <1>1. CASE UNCHANGED L!callVars
    BY <1>0, <1>1, SharpKept DEF L!callVars
  <1>2. CASE /\ apc' = "replace" /\ abmp' = b
             /\ call' = L!NewCall(p, FullSize, 0, FALSE, FALSE)
    BY <1>0, <1>2 DEF LoadsSharp, HashSharp, SharpAt, Sharp, L!Has, Gets, L!NewCall
  <1>3. QED
    BY <1>1, <1>2, Zenon DEF L!Replace

\* ReloadImage asks for a preview only at the window's size, and for the complete
\* picture where the zoomed area is drawn again.
LEMMA ReloadSharp ==
  ASSUME LoadsSharp, TypeOK, NEW p, NEW loaded \in BOOLEAN, NEW fully \in BOOLEAN,
         loaded \/ ~fully, NEW next, ReloadImage(p, loaded, fully, next)
  PROVE  /\ LoadsSharp'
         /\ file' = p /\ orig' = NoBmp /\ complete' = complete /\ upc' = next
         /\ crop' => loaded /\ crop
         /\ fully \/ crop' => Loading'
  <1> DEFINE s == IF fully \/ (loaded /\ crop) THEN FullSize ELSE View
  <1>1. /\ file' = p /\ orig' = NoBmp /\ complete' = complete /\ upc' = next
        /\ crop' = (loaded /\ crop) /\ L!GetFiBitmap(p, s, rot', ~loaded)
    BY DEF ReloadImage
  <1>2. /\ UNCHANGED <<hash, lpc, ticket, lbmp, abmp>> /\ apc' = "check"
        /\ call' = L!NewCall(p, s, rot', ~loaded, FALSE)
    BY <1>1 DEF L!GetFiBitmap, L!loaderVars
  <1>3. call'.path = p /\ call'.size = s /\ call'.fast = ~loaded
    BY <1>2 DEF L!NewCall
  <1>4. call'.fast => call'.size = View
    BY <1>3
  <1>5. LoadsSharp'
    BY <1>2, <1>4 DEF LoadsSharp, HashSharp, SharpAt, Sharp, L!Has, Gets
  <1>6. fully \/ crop' => Loading'
    BY <1>1, <1>2, <1>3 DEF Loading, Gets, TypeOK
  <1>7. crop' => loaded /\ crop
    BY <1>1
  <1>8. QED
    BY <1>1, <1>5, <1>6, <1>7

\* CheckEdited lets no reduced picture through that has a file.
LEMMA CheckedIsSharp ==
  ASSUME CompleteInv, upc = "idle", ~(MustLoadCompletely /\ file # NoPath)
  PROVE  Whole
  BY DEF CompleteInv, SharpOK, EditsSharp, MustLoadCompletely, Whole

LEMMA CheckSharp ==
  ASSUME CompleteInv, upc = "idle",
         \/ CheckEdited("rotating", "rotate")
         \/ CheckEdited("saving", "write")
  PROVE  SharpOK'
  <1>t. TypeOK /\ complete = FALSE /\ LoadsSharp
    BY DEF CompleteInv, SharpOK, VInv, PanelOK
  <1>1. CASE MustLoadCompletely /\ file # NoPath
    <2>1. file \in Paths
      BY <1>t, <1>1 DEF TypeOK
    <2>2. \E next \in {"rotating", "saving"} : ReloadImage(file, TRUE, TRUE, next)
      BY <1>1 DEF CheckEdited
    <2>3. /\ LoadsSharp' /\ complete' = complete /\ upc' \in {"rotating", "saving"}
          /\ Loading'
      BY <1>t, <2>2, ReloadSharp
    <2>4. QED
      BY <1>t, <2>3 DEF SharpOK, EditsSharp
  <1>2. CASE ~(MustLoadCompletely /\ file # NoPath)
    <2>1. UNCHANGED <<loader, shown, options>> /\ upc' \in {"rotate", "write"}
      BY <1>2 DEF CheckEdited
    <2>2. Whole'
      BY <1>2, <2>1, CheckedIsSharp DEF Whole, Reduced, shown
    <2>3. LoadsSharp'
      BY <1>t, <2>1, SharpKept DEF loader
    <2>4. QED
      BY <1>t, <2>1, <2>2, <2>3 DEF SharpOK, EditsSharp, options
  <1>3. QED
    BY <1>1, <1>2

LEMMA UserSharp ==
  ASSUME CompleteInv, "complete" \notin Commands, UserStep
  PROVE  SharpOK'
  <1>t. TypeOK /\ complete = FALSE /\ LoadsSharp /\ EditsSharp
    BY DEF CompleteInv, SharpOK, VInv, PanelOK
  <1>i. upc = "idle"
    BY DEF UserStep, Select, SaveAsCommand, RotateCommand, SelectDir, Reload,
       ToggleKeepRotate, ToggleLoadCompletely, Zoom, SaveCommand, Cancel, Confirm, User
  <1>1. ASSUME NEW p \in Paths, Select(p) PROVE SharpOK'
    <2>1. ReloadImage(p, FALSE, complete, "selecting")
      BY <1>1 DEF Select, ShowSelected
    <2>2. LoadsSharp' /\ complete' = complete /\ upc' = "selecting" /\ ~crop'
      BY <1>t, <2>1, ReloadSharp
    <2>3. QED
      BY <1>t, <2>2 DEF SharpOK, EditsSharp
  <1>2. ASSUME NEW q \in {1, -1}, RotateCommand(q) PROVE SharpOK'
    BY <1>2, <1>i, CheckSharp DEF RotateCommand
  <1>3. CASE Confirm
    BY <1>3, <1>i, CheckSharp DEF Confirm
  <1>4. CASE Reload
    <2>1. CASE sel # NoPath
      <3>1. ReloadImage(sel, FALSE, complete, "reloading")
        BY <1>4, <2>1 DEF Reload
      <3>2. LoadsSharp' /\ complete' = complete /\ upc' = "reloading" /\ ~crop'
        BY <1>t, <3>1, ReloadSharp
      <3>3. QED
        BY <1>t, <3>2 DEF SharpOK, EditsSharp
    <2>2. CASE sel = NoPath
      <3>1. UNCHANGED <<loader, options, upc>> /\ file' = NoPath
        BY <1>4, <2>2 DEF Reload
      <3>2. Whole'
        BY <3>1 DEF Whole
      <3>3. LoadsSharp'
        BY <1>t, <3>1, SharpKept DEF loader
      <3>4. QED
        BY <1>i, <1>t, <3>1, <3>2, <3>3 DEF SharpOK, EditsSharp, options
    <2>3. QED
      BY <2>1, <2>2
  <1>5. CASE Zoom
    <2>1. /\ UNCHANGED <<hash, lpc, ticket, lbmp, apc, call, abmp>>
          /\ UNCHANGED <<file, from, options, edited, handler>>
      BY <1>5 DEF Zoom, L!PrependTicket, L!loaderVars, L!callVars, loader
    <2>2. Whole => Whole'
      <3>1. orig' = orig \/ (orig # NoBmp /\ orig' = PartOf(orig))
        BY <1>5 DEF Zoom
      <3>2. orig # NoBmp => orig \in L!Bitmap
        BY <1>t DEF TypeOK
      <3>3. QED
        BY <2>1, <3>1, <3>2, PartOfBitmap DEF Whole, Reduced
    <2>3. LoadsSharp'
      BY <1>t, <2>1, SharpKept
    <2>4. QED
      BY <1>i, <1>t, <2>1, <2>2, <2>3 DEF SharpOK, EditsSharp, options, handler
  <1>6. CASE \/ \E p \in Paths : SaveAsCommand(p)
             \/ SelectDir \/ ToggleKeepRotate \/ SaveCommand \/ Cancel
    <2>1. UNCHANGED <<loader, file, orig, from, crop, complete, edited, upc>>
      BY <1>6 DEF SaveAsCommand, SelectDir, ToggleKeepRotate, SaveCommand, Cancel, shown,
         options, handler
    <2>2. LoadsSharp'
      BY <1>t, <2>1, SharpKept DEF loader
    <2>3. QED
      BY <1>i, <1>t, <2>1, <2>2 DEF SharpOK, EditsSharp, Whole, Reduced
  <1>7. CASE ToggleLoadCompletely
    BY <1>7 DEF ToggleLoadCompletely, User
  <1>8. QED
    BY <1>1, <1>2, <1>3, <1>4, <1>5, <1>6, <1>7 DEF UserStep

LEMMA HandlerSharp ==
  ASSUME CompleteInv, HandlerStep
  PROVE  SharpOK'
  <1>t. TypeOK /\ L!TypeOK /\ Rooms /\ complete = FALSE /\ LoadsSharp /\ EditsSharp
    BY DEF CompleteInv, SharpOK, VInv, PanelOK, TypeOK
  <1>1. CASE ReloadImageDone
    <2>1. /\ L!GetReturn /\ UNCHANGED <<file, from, crop, complete>>
          /\ upc \in {"selecting", "reloading", "showing", "rotating", "saving"}
          /\ orig' = IF crop /\ abmp # NoBmp THEN PartOf(abmp) ELSE abmp
          /\ edited' = (edited /\ crop)
      BY <1>1 DEF ReloadImageDone, options
    <2>2. /\ upc = "selecting" => upc' = "clear"
          /\ upc \in {"rotating", "saving"} => upc' \in {"rotate", "write"}
          /\ upc \in {"reloading", "showing"} => upc' = "idle"
      BY <1>1 DEF ReloadImageDone
    <2>3. apc = "return" /\ apc' = "ready" /\ UNCHANGED <<hash, lpc, ticket, lbmp>>
      BY <2>1 DEF L!GetReturn, L!loaderVars
    <2>4. LoadsSharp'
      BY <1>t, <2>3 DEF LoadsSharp, HashSharp, SharpAt, Sharp, L!Has, Gets
    <2>5. Loading => Whole'
      <3>1. CASE Loading /\ file \in Jpeg
        <4>1. Sharp(abmp)
          BY <1>t, <2>3, <3>1, Assumptions DEF Loading, LoadsSharp, SharpAt
        <4>2. abmp \in L!Bitmap \cup {NoBmp}
          BY <1>t DEF L!TypeOK
        <4>3. Sharp(orig')
          BY <2>1, <4>1, <4>2, PartOfBitmap DEF Sharp
        <4>4. QED
          BY <4>3 DEF Sharp, Reduced, Whole
      <3>2. CASE file \notin Jpeg
        BY <1>t, <2>1, <3>2 DEF Reduced, Whole, Rooms
      <3>3. QED
        BY <3>1, <3>2
    <2>6. EditsSharp'
      BY <1>t, <2>1, <2>2, <2>5 DEF EditsSharp
    <2>7. QED
      BY <1>t, <2>1, <2>4, <2>6 DEF SharpOK
  <1>2. CASE PrefetchClear
    <2>1. /\ UNCHANGED <<hash, lpc, ticket, lbmp, apc, call, abmp, complete, edited>>
          /\ upc = "clear" /\ upc' = "append"
      BY <1>2 DEF PrefetchClear, L!Clear, L!loaderVars, L!callVars, options
    <2>2. LoadsSharp'
      BY <1>t, <2>1, SharpKept
    <2>3. QED
      BY <1>t, <2>1, <2>2 DEF SharpOK, EditsSharp
  <1>3. CASE PrefetchAppend
    <2>1. /\ UNCHANGED <<hash, lpc, ticket, lbmp, apc, call, abmp, complete, edited>>
          /\ upc = "append" /\ upc' \in {"append", "idle"}
      BY <1>3 DEF PrefetchAppend, L!AppendTicket, L!loaderVars, L!callVars, options, loader
    <2>2. LoadsSharp'
      BY <1>t, <2>1, SharpKept
    <2>3. QED
      BY <1>t, <2>1, <2>2 DEF SharpOK, EditsSharp
  <1>4. CASE OnLoadedReload
    <2>1. ReloadImage(sel, TRUE, complete, "showing")
      BY <1>4 DEF OnLoadedReload
    <2>2. LoadsSharp' /\ complete' = complete /\ upc' = "showing" /\ (crop' => Loading')
      BY <1>t, <2>1, ReloadSharp
    <2>3. QED
      BY <1>t, <2>2 DEF SharpOK, EditsSharp
  <1>5. CASE Rotate90
    <2>1. /\ UNCHANGED <<hash, lpc, ticket, lbmp, apc, call, abmp, complete, file, from>>
          /\ upc = "rotate" /\ upc' \in {"replace", "idle"}
          /\ \/ orig' = orig
             \/ orig # NoBmp /\ orig' = Turned(orig, quarter)
      BY <1>5 DEF Rotate90, L!WriteFile, L!loaderVars, L!callVars, loader
    <2>2. Whole'
      <3>1. Whole
        BY <1>t, <2>1 DEF EditsSharp
      <3>2. orig # NoBmp => /\ Turned(orig, quarter).size = orig.size
                            /\ Turned(orig, quarter).kind = orig.kind
        BY <1>t, TurnedBitmap DEF TypeOK
      <3>3. QED
        BY <2>1, <3>1, <3>2 DEF Whole, Reduced
    <2>3. LoadsSharp'
      BY <1>t, <2>1, SharpKept
    <2>4. QED
      BY <1>t, <2>1, <2>2, <2>3 DEF SharpOK, EditsSharp
  <1>6. CASE Replace
    <2>1. /\ L!Replace(file, orig, FALSE, 0) /\ upc = "replace" /\ upc' = "replaced"
          /\ UNCHANGED <<file, orig, from, complete>>
      BY <1>6 DEF Replace, shown, options
    <2>2. Whole /\ Whole'
      BY <1>t, <2>1 DEF EditsSharp, Whole, Reduced
    <2>3. file \in Jpeg => Sharp(orig)
      BY <1>t, <2>1, <2>2, Assumptions DEF Whole, Reduced, Sharp, Rooms
    <2>4. LoadsSharp'
      BY <1>t, <2>1, <2>3, ReplaceSharp
    <2>5. QED
      BY <1>t, <2>1, <2>2, <2>4 DEF SharpOK, EditsSharp
  <1>7. CASE Write
    <2>1. /\ UNCHANGED <<hash, lpc, ticket, lbmp, apc, call, abmp, complete, file, orig,
                        from>>
          /\ upc = "write" /\ upc' \in {"replace", "idle"}
      BY <1>7 DEF Write, L!WriteFile, L!loaderVars, L!callVars, loader, shown, options
    <2>2. Whole'
      BY <1>t, <2>1 DEF EditsSharp, Whole, Reduced
    <2>3. LoadsSharp'
      BY <1>t, <2>1, SharpKept
    <2>4. QED
      BY <1>t, <2>1, <2>2, <2>3 DEF SharpOK, EditsSharp
  <1>8. CASE Replaced
    <2>1. CASE dialog = "saveas"
      <3>1. ReloadImage(target, FALSE, complete, "selecting")
        BY <1>8, <2>1 DEF Replaced, ShowSelected
      <3>2. LoadsSharp' /\ complete' = complete /\ upc' = "selecting" /\ ~crop'
        BY <1>t, <3>1, ReloadSharp
      <3>3. QED
        BY <1>t, <3>2 DEF SharpOK, EditsSharp
    <2>2. CASE dialog # "saveas"
      <3>1. UNCHANGED <<loader, shown, options>> /\ upc = "replaced" /\ upc' = "idle"
        BY <1>8, <2>2 DEF Replaced
      <3>2. Whole'
        BY <1>t, <3>1 DEF EditsSharp, Whole, Reduced, shown
      <3>3. LoadsSharp'
        BY <1>t, <3>1, SharpKept DEF loader
      <3>4. QED
        BY <1>t, <3>1, <3>2, <3>3 DEF SharpOK, EditsSharp, options
    <2>3. QED
      BY <2>1, <2>2
  <1>9. QED
    BY <1>1, <1>2, <1>3, <1>4, <1>5, <1>6, <1>7, <1>8 DEF HandlerStep

LEMMA SharpStep ==
  ASSUME CompleteInv, "complete" \notin Commands, [Next]_vars
  PROVE  SharpOK'
  <1>t. L!IInv /\ complete = FALSE /\ LoadsSharp /\ EditsSharp
    BY DEF CompleteInv, SharpOK, VInv
  <1>a. ASSUME UNCHANGED viewer, Loading => Loading', LoadsSharp' PROVE SharpOK'
    BY <1>a, <1>t DEF SharpOK, EditsSharp, Whole, Reduced, viewer, shown, options,
       handler
  <1>1. CASE LoaderStep
    <2>1. L!LoaderStep /\ UNCHANGED viewer
      BY <1>1 DEF LoaderStep
    <2>2. call' = call /\ (apc' = apc \/ apc' = "crashed")
      BY <2>1 DEF L!LoaderStep, L!EntryTop, L!EntryPop, L!EntryPopEmpty, L!EntryCheck,
         L!EntryHit, L!EntryMiss, L!EntryLoad, L!EntryLock, L!EntryEvict, L!EntryAdd, L!EntryNotify, L!EntryPost,
         L!ClearBmpHash, L!EntryExit, L!callVars, L!Crash
    <2>3. Loading => Loading'
      BY <2>1, <2>2 DEF Loading, viewer, shown
    <2>4. QED
      BY <1>a, <1>t, <2>1, <2>3, LoaderSharp
  <1>2. CASE CallStep
    <2>1. L!CallStep /\ UNCHANGED viewer
      BY <1>2 DEF CallStep, L!CallStep
    <2>2. apc = "replace" \/ (call' = call /\ apc' \in Gets)
      BY <1>2 DEF CallStep, L!ReplaceStore, L!GetHit, L!GetMiss, L!GetPrepend, L!GetLoad,
         L!GetAdd, Gets
    <2>3. Loading => Loading'
      BY <2>1, <2>2 DEF Loading, Gets, viewer, shown
    <2>4. QED
      BY <1>a, <1>t, <2>1, <2>3, CallSharp
  <1>3. CASE OnLoaded
    <2>1. /\ UNCHANGED <<hash, lpc, ticket, lbmp, apc, call, abmp>>
          /\ UNCHANGED <<shown, options, edited>>
          /\ upc = "idle" /\ upc' \in {"idle", "loaded"}
      BY <1>3 DEF OnLoaded, L!TakeEvent, L!loaderVars, L!callVars
    <2>2. LoadsSharp'
      BY <1>t, <2>1, SharpKept
    <2>3. QED
      BY <1>t, <2>1, <2>2 DEF SharpOK, EditsSharp, Whole, Reduced, shown, options
  <1>4. CASE Close \/ Exit
    <2>1. /\ UNCHANGED <<hash, lpc, ticket, lbmp, call, abmp>> /\ UNCHANGED viewer
          /\ apc' = apc \/ (apc \notin Gets \cup {"crashed"} /\ apc' \notin Gets \cup {"replace"})
      BY <1>4 DEF Close, Exit, L!OnClose, L!DestroyFrame, L!ClearThread,
         L!ClearThreadDelete, L!ClearThreadWaited, L!loaderVars, L!callVars, Gets
    <2>2. LoadsSharp'
      BY <1>t, <2>1, SharpKept
    <2>3. Loading => Loading'
      BY <2>1 DEF Loading, viewer, shown
    <2>4. QED
      BY <1>a, <2>1, <2>2, <2>3
  <1>5. CASE Terminated \/ UNCHANGED vars
    <2>1. UNCHANGED loader /\ UNCHANGED viewer
      BY <1>5 DEF Terminated, vars
    <2>2. LoadsSharp'
      BY <1>t, <2>1, SharpKept DEF loader
    <2>3. Loading => Loading'
      BY <2>1 DEF Loading, loader, viewer, shown
    <2>4. QED
      BY <1>a, <2>1, <2>2, <2>3
  <1>6. QED
    BY <1>1, <1>2, <1>3, <1>4, <1>5, UserSharp, HandlerSharp DEF Next

\* With kuID_LOAD_COMPLETELY left alone, what is edited and has a file, and what is
\* cached after a rotation or a save, was loaded completely: never a preview, never a
\* picture scaled down to the window.  Selecting directories, and reloading there until
\* the picture has no file, is among the commands: a reduced picture can then be turned,
\* but it is gone before there is a file again to save it to.
THEOREM EditsAreComplete ==
  AllTurns /\ "complete" \notin Commands /\ Spec => []EditedIsComplete
  <1>1. Init => SharpOK
    BY Assumptions
    DEF Init, SharpOK, LoadsSharp, HashSharp, EditsSharp, L!Init, L!Has, Gets
  <1>2. VInv /\ SharpOK /\ "complete" \notin Commands /\ [Next]_vars => SharpOK'
    BY SharpStep DEF CompleteInv
  <1>3. VInv /\ SharpOK => EditedIsComplete
    BY Assumptions
    DEF VInv, PanelOK, Rooms, SharpOK, EditsSharp, Whole, EditedIsComplete
  <1>4. AllTurns /\ "complete" \notin Commands => (AllTurns /\ "complete" \notin Commands)'
    BY DEF AllTurns
  <1>5. QED
    BY <1>1, <1>2, <1>3, <1>4, ViewerInvariance, PTL DEF Spec

-----------------------------------------------------------------------------
(* What is shown is what the file holds, as long as no file is written.    *)

\* Neither Save nor a lossless rotation is there to write a file, so nothing calls
\* Replace.  (With a lossless rotation ShowsDisk is violated.)
NoWrites == Lossless = {} /\ Commands \cap {"save", "saveas"} = {}

\* A bitmap of the file p, turned by r.
Facing(b, p, r) == b # NoBmp => b.of = disk[p].of /\ b.turn = (disk[p].turn + r) % 4

HashFacing == \A p \in Paths : L!Has(p) => Facing(hash[p].bmp, p, hash[p].rotate)

\* Wherever a bitmap is on its way through the loader it is turned as is recorded.
LoadsFacing ==
  /\ HashFacing
  /\ lpc \in {"lock", "evict"} => Facing(lbmp, ticket.path, ticket.rotate)
  /\ apc \in {"add", "return"} => Facing(abmp, call.path, call.rotate)
  /\ apc # "replace"

Reloads == {"selecting", "reloading", "showing", "rotating"}

\* What is being loaded is the file shown, turned as it is to be shown.
ShowsCall ==
  /\ dialog = "none" /\ upc \notin {"saving", "write", "replace", "replaced"}
  /\ upc \in Reloads => apc \in Gets \cup {"crashed"} /\ call.path = file /\ call.rotate = rot

FacingOK == LoadsFacing /\ ShowsCall

LEMMA FacingTurned ==
  ASSUME L!TypeOK, NEW b \in L!Bitmap \cup {NoBmp}, NEW p \in Paths, NEW r \in Int,
         NEW d \in Int, Facing(b, p, r)
  PROVE  /\ L!Rotated(b, d) \in L!Bitmap \cup {NoBmp}
         /\ Facing(L!Rotated(b, d), p, r + d)
         /\ d % 4 = 0 => Facing(L!Rotated(b, d), p, r)
  <1>1. CASE b = NoBmp
    BY <1>1 DEF L!Rotated, Facing
  <1>2. CASE b # NoBmp
    <2>1. b \in L!Bitmap /\ disk[p] \in L!Picture
      BY <1>2 DEF L!TypeOK
    <2>2. disk[p].turn \in 0..3 /\ b.turn = (disk[p].turn + r) % 4 /\ b.of = disk[p].of
      BY <1>2, <2>1 DEF L!Picture, Facing
    <2>3. /\ L!Rotated(b, d) = [b EXCEPT !.turn = (b.turn + d) % 4]
          /\ L!Rotated(b, d) \in L!Bitmap
          /\ L!Rotated(b, d).turn = (b.turn + d) % 4 /\ L!Rotated(b, d).of = b.of
      BY <1>2, <2>1 DEF L!Rotated, L!Bitmap
    <2>4. /\ (b.turn + d) % 4 = (disk[p].turn + (r + d)) % 4
          /\ d % 4 = 0 => (b.turn + d) % 4 = (disk[p].turn + r) % 4
      BY <2>2
    <2>5. QED
      BY <2>2, <2>3, <2>4 DEF Facing
  <1>3. QED
    BY <1>1, <1>2

\* A picture that is loaded and turned.
LEMMA FacingLoaded ==
  ASSUME L!TypeOK, NEW p \in Paths, NEW s \in Sizes, NEW r \in Int,
         NEW kind \in {"rough", "good"}
  PROVE  Facing(L!Rotated(L!Loaded(p, s, kind), r), p, r)
  <1>1. disk[p].of \in Paths /\ disk[p].turn \in 0..3
    BY DEF L!TypeOK, L!Picture
  <1>2. L!Loaded(p, s, kind) \in L!Bitmap \cup {NoBmp}
    BY <1>1 DEF L!Loaded, L!Bitmap
  <1>3. Facing(L!Loaded(p, s, kind), p, 0)
    BY <1>1 DEF Facing, L!Loaded
  <1>4. Facing(L!Rotated(L!Loaded(p, s, kind), r), p, 0 + r)
    BY <1>2, <1>3, FacingTurned
  <1>5. 0 + r = r
    OBVIOUS
  <1>6. QED
    BY <1>4, <1>5

LEMMA EraseFacing ==
  ASSUME L!TypeOK, HashFacing, NEW p \in Paths, L!EraseBmpHash(p), disk' = disk
  PROVE  HashFacing'
  BY DEF L!TypeOK, HashFacing, L!EraseBmpHash, L!Has, Facing

LEMMA AddFacing ==
  ASSUME L!TypeOK, HashFacing, NEW p \in Paths, NEW e, Facing(e.bmp, p, e.rotate),
         L!AddBmpHash(p, e), disk' = disk
  PROVE  HashFacing'
  BY DEF L!TypeOK, HashFacing, L!AddBmpHash, L!Has, Facing

LEMMA LoaderFacing ==
  ASSUME L!IInv, LoadsFacing, L!LoaderStep
  PROVE  LoadsFacing'
  <1>t. L!TypeOK
    BY DEF L!IInv
  <1>d. disk' = disk
    BY DiskKept
  <1>0. L!LoaderStep => call' = call /\ abmp' = abmp /\ (apc' = apc \/ apc' = "crashed")
    BY DEF L!LoaderStep, L!EntryTop, L!EntryPop, L!EntryPopEmpty, L!EntryCheck,
       L!EntryHit, L!EntryMiss, L!EntryLoad, L!EntryLock, L!EntryEvict, L!EntryAdd, L!EntryNotify, L!EntryPost,
       L!ClearBmpHash, L!EntryExit, L!callVars, L!Crash
  <1>a. ASSUME HashFacing',
               lpc' \in {"lock", "evict"} => Facing(lbmp, ticket.path, ticket.rotate)'
        PROVE  LoadsFacing'
    BY <1>0, <1>a, <1>d DEF LoadsFacing, Facing
  <1>b. ASSUME UNCHANGED hash PROVE HashFacing'
    BY <1>b, <1>d DEF LoadsFacing, HashFacing, L!Has, Facing
  <1>1. CASE L!EntryTop \/ L!EntryPop \/ L!EntryPopEmpty \/ L!EntryCheck \/ L!EntryHit
             \/ L!EntryNotify \/ L!EntryPost \/ L!EntryExit
    <2>1. hash' = hash /\ lpc' \notin {"lock", "evict"}
      BY <1>1 DEF L!EntryTop, L!EntryPop, L!EntryPopEmpty, L!EntryCheck, L!EntryHit,
         L!EntryNotify, L!EntryPost, L!EntryExit, L!Crash
    <2>2. QED
      BY <2>1, <1>a, <1>b
  <1>2. CASE L!EntryMiss
    <2>1. lpc' \notin {"lock", "evict"} /\ L!EraseBmpHash(ticket.path)
      BY <1>2 DEF L!EntryMiss
    <2>2. ticket.path \in Paths
      BY <1>2, <1>t DEF L!EntryMiss, L!TypeOK, L!Ticket
    <2>3. HashFacing'
      BY <1>d, <1>t, <2>1, <2>2, EraseFacing DEF LoadsFacing
    <2>4. QED
      BY <2>1, <2>3, <1>a
  <1>3. CASE L!EntryLoad
    <2>1. /\ ticket \in L!Ticket /\ ticket' = ticket
          /\ lbmp' = L!Rotated(L!Loaded(ticket.path, ticket.size, "good"), ticket.rotate)
          /\ hash' = hash
      BY <1>3, <1>t DEF L!EntryLoad, L!TypeOK
    <2>2. ticket.path \in Paths /\ ticket.size \in Sizes /\ ticket.rotate \in Rotations
      BY <2>1 DEF L!Ticket
    <2>3. Facing(L!Rotated(L!Loaded(ticket.path, ticket.size, "good"), ticket.rotate),
                 ticket.path, ticket.rotate)
      BY <1>t, <2>2, FacingLoaded, RotationsAreInts
    <2>4. Facing(lbmp, ticket.path, ticket.rotate)'
      BY <1>d, <2>1, <2>3 DEF Facing
    <2>5. QED
      BY <2>1, <2>4, <1>a, <1>b
  <1>4. CASE L!EntryLock
    <2>1. hash' = hash /\ ticket' = ticket /\ lbmp' = lbmp /\ lpc = "lock"
      BY <1>4 DEF L!EntryLock
    <2>2. Facing(lbmp, ticket.path, ticket.rotate)'
      BY <1>d, <2>1 DEF LoadsFacing, Facing
    <2>3. QED
      BY <2>1, <2>2, <1>a, <1>b
  <1>5. CASE L!EntryEvict
    <2>1. /\ L!EraseBmpHash(Head(cache)) /\ ticket' = ticket /\ lbmp' = lbmp
          /\ lpc = "evict" /\ Len(cache) >= LoadCache
      BY <1>5 DEF L!EntryEvict, L!loaderVars
    <2>2. Head(cache) \in Paths
      BY <1>t, <2>1, ViewerAssumption DEF L!TypeOK, L!LoaderAssumption
    <2>3. HashFacing'
      BY <1>d, <1>t, <2>1, <2>2, EraseFacing DEF LoadsFacing
    <2>4. Facing(lbmp, ticket.path, ticket.rotate)'
      BY <1>d, <2>1 DEF LoadsFacing, Facing
    <2>5. QED
      BY <2>3, <2>4, <1>a
  <1>6. CASE L!EntryAdd
    <2> DEFINE e == [size |-> ticket.size, rotate |-> ticket.rotate, bmp |-> lbmp]
    <2>1. L!AddBmpHash(ticket.path, e) /\ lpc = "evict" /\ lpc' = "notify"
      BY <1>6 DEF L!EntryAdd
    <2>2. ticket.path \in Paths
      BY <1>t, <2>1 DEF L!TypeOK, L!Ticket
    <2>3. Facing(e.bmp, ticket.path, e.rotate)
      BY <2>1 DEF LoadsFacing, Facing
    <2> HIDE DEF e
    <2>4. HashFacing'
      BY <1>d, <1>t, <2>1, <2>2, <2>3, AddFacing DEF LoadsFacing
    <2>5. QED
      BY <2>1, <2>4, <1>a
  <1>7. CASE L!ClearBmpHash
    <2>1. hash' = [p \in Paths |-> NoEntry] /\ lpc' = "cleared"
      BY <1>7 DEF L!ClearBmpHash
    <2>2. HashFacing'
      BY <2>1 DEF HashFacing, L!Has
    <2>3. QED
      BY <2>1, <2>2, <1>a
  <1>8. QED
    BY <1>1, <1>2, <1>3, <1>4, <1>5, <1>6, <1>7 DEF L!LoaderStep

\* C++'s remainder of a rotation that is asked for is that rotation.
LEMMA Rem4OfTurn == \A r \in -3..3 : L!Rem4(r) = r
  BY DEF L!Rem4

LEMMA CallFacing ==
  ASSUME L!IInv, LoadsFacing, L!CallStep
  PROVE  LoadsFacing'
  <1>t. L!TypeOK
    BY DEF L!IInv
  <1>d. disk' = disk
    BY DiskKept
  <1>0. L!CallStep => UNCHANGED <<lpc, ticket, lbmp>>
    BY DEF L!CallStep, L!RemoveErase, L!ReplaceStore, L!GetHit, L!GetMiss, L!GetPrepend,
       L!GetLoad, L!GetAdd, L!GetReturn, L!loaderVars
  <1>a. ASSUME HashFacing', apc' # "replace",
               apc' \in {"add", "return"} => Facing(abmp, call.path, call.rotate)'
        PROVE  LoadsFacing'
    BY <1>0, <1>a, <1>d DEF LoadsFacing, Facing
  <1>b. ASSUME UNCHANGED hash PROVE HashFacing'
    BY <1>b, <1>d DEF LoadsFacing, HashFacing, L!Has, Facing
  <1>1. CASE L!RemoveErase \/ L!GetMiss
    <2>1. /\ call \in L!Call /\ L!EraseBmpHash(call.path)
          /\ apc' \in {"ready", "prepend", "load"}
      BY <1>1, <1>t DEF L!RemoveErase, L!GetMiss, L!TypeOK
    <2>2. call.path \in Paths
      BY <2>1 DEF L!Call
    <2>3. HashFacing'
      BY <1>d, <1>t, <2>1, <2>2, EraseFacing DEF LoadsFacing
    <2>4. QED
      BY <1>a, <2>1, <2>3
  <1>2. CASE L!ReplaceStore
    BY <1>2 DEF L!ReplaceStore, LoadsFacing
  <1>3. CASE L!GetHit
    <2> DEFINE e == hash[call.path]
               d == call.rotate - e.rotate
               b == L!Rotated(e.bmp, d)
               turned == IF e.bmp # NoBmp /\ d % 4 # 0 THEN L!Rem4(e.rotate + d) ELSE e.rotate
    <2>1. /\ call \in L!Call /\ L!Has(call.path) /\ apc' = "return" /\ call' = call
          /\ abmp' = b
          /\ hash' = [hash EXCEPT ![call.path] = [e EXCEPT !.bmp = b, !.rotate = turned]]
      BY <1>3, <1>t DEF L!GetHit, L!TypeOK, L!Holds
    <2>2. call.path \in Paths /\ e \in L!Entry /\ call.rotate \in Rotations
      BY <1>t, <2>1 DEF L!Call, L!TypeOK, L!Has
    <2>3. call.rotate \in -3..3
      <3>1. Rotations \subseteq -3..3
        BY ViewerAssumption, Zenon DEF L!LoaderAssumption
      <3>2. QED
        BY <2>2, <3>1
    <2>4. e.bmp \in L!Bitmap \cup {NoBmp} /\ e.rotate \in -3..3
      BY <2>2, Zenon DEF L!Entry
    <2>5. Facing(e.bmp, call.path, e.rotate)
      BY <2>1, <2>2 DEF LoadsFacing, HashFacing
    <2>6. d \in Int /\ e.rotate + d = call.rotate /\ e.rotate \in Int
      <3>1. \A x, y \in -3..3 : y - x \in Int /\ x + (y - x) = y /\ x \in Int
        OBVIOUS
      <3>2. QED
        BY <2>3, <2>4, <3>1, Zenon
    <2>7. /\ Facing(b, call.path, e.rotate + d)
          /\ d % 4 = 0 => Facing(b, call.path, e.rotate)
      BY <1>t, <2>2, <2>4, <2>5, <2>6, FacingTurned
    <2>8. Facing(b, call.path, call.rotate)
      BY <2>6, <2>7
    <2>9. Facing(b, call.path, turned)
      <3>1. CASE e.bmp = NoBmp
        BY <3>1 DEF L!Rotated, Facing
      <3>2. CASE e.bmp # NoBmp /\ d % 4 # 0
        <4>1. turned = call.rotate
          BY <2>3, <2>6, <3>2, Rem4OfTurn
        <4>2. QED
          BY <2>8, <4>1
      <3>3. CASE d % 4 = 0
        BY <2>7, <3>3
      <3>4. QED
        BY <3>1, <3>2, <3>3
    <2>10. /\ hash'[call.path].bmp = b /\ hash'[call.path].rotate = turned
           /\ \A p \in Paths : p # call.path => hash'[p] = hash[p]
      <3> HIDE DEF b, turned
      <3>1. [e EXCEPT !.bmp = b, !.rotate = turned].bmp = b
        BY <2>2 DEF L!Entry
      <3>2. [e EXCEPT !.bmp = b, !.rotate = turned].rotate = turned
        BY <2>2 DEF L!Entry
      <3>3. QED
        BY <1>t, <2>1, <2>2, <3>1, <3>2 DEF L!TypeOK
    <2> HIDE DEF b, turned, d, e
    <2>11. HashFacing'
      BY <1>d, <2>9, <2>10 DEF LoadsFacing, HashFacing, L!Has, Facing
    <2>12. Facing(abmp, call.path, call.rotate)'
      BY <1>d, <2>1, <2>8 DEF Facing
    <2>13. QED
      BY <1>a, <2>1, <2>11, <2>12
  <1>5. CASE L!GetPrepend
    <2>1. hash' = hash /\ apc' = "load"
      BY <1>5 DEF L!GetPrepend
    <2>2. QED
      BY <1>a, <1>b, <2>1
  <1>6. CASE L!GetLoad
    <2> DEFINE kind == IF call.fast THEN "rough" ELSE "good"
    <2>1. /\ call \in L!Call /\ hash' = hash /\ call' = call /\ apc' # "replace"
          /\ abmp' = L!Rotated(L!Loaded(call.path, call.size, kind), call.rotate)
      BY <1>6, <1>t DEF L!GetLoad, L!TypeOK, L!LoadedByCall
    <2>2. call.path \in Paths /\ call.size \in Sizes /\ call.rotate \in Int
      BY <2>1, RotationsAreInts DEF L!Call
    <2>3. kind \in {"rough", "good"}
      OBVIOUS
    <2> HIDE DEF kind
    <2>4. Facing(L!Rotated(L!Loaded(call.path, call.size, kind), call.rotate),
                 call.path, call.rotate)
      BY <1>t, <2>2, <2>3, FacingLoaded
    <2>5. Facing(abmp, call.path, call.rotate)'
      BY <1>d, <2>1, <2>4 DEF Facing
    <2>6. QED
      BY <1>a, <1>b, <2>1, <2>5
  <1>7. CASE L!GetAdd
    <2> DEFINE e == [size |-> call.size, rotate |-> call.rotate, bmp |-> abmp]
    <2>1. /\ call \in L!Call /\ L!AddBmpHash(call.path, e) /\ apc = "add"
          /\ apc' = "return" /\ call' = call /\ abmp' = abmp
      BY <1>7, <1>t DEF L!GetAdd, L!TypeOK
    <2>2. call.path \in Paths
      BY <2>1 DEF L!Call
    <2>3. Facing(e.bmp, call.path, e.rotate)
      BY <2>1 DEF LoadsFacing
    <2>4. Facing(abmp, call.path, call.rotate)'
      BY <1>d, <2>1, <2>3 DEF Facing
    <2> HIDE DEF e
    <2>5. HashFacing'
      BY <1>d, <1>t, <2>1, <2>2, <2>3, AddFacing DEF LoadsFacing
    <2>6. QED
      BY <1>a, <2>1, <2>4, <2>5
  <1>8. CASE L!GetReturn
    <2>1. hash' = hash /\ apc' = "ready"
      BY <1>8 DEF L!GetReturn
    <2>2. QED
      BY <1>a, <1>b, <2>1
  <1>9. QED
    BY <1>1, <1>2, <1>3, <1>5, <1>6, <1>7, <1>8 DEF L!CallStep

\* The steps that touch neither a file, nor the hash, nor a bitmap on its way.
LEMMA FacingKept ==
  ASSUME LoadsFacing, UNCHANGED <<disk, hash, lpc, ticket, lbmp, call, abmp>>,
         apc' = apc \/ apc' \notin {"add", "return", "replace"}
  PROVE  LoadsFacing'
  BY DEF LoadsFacing, HashFacing, Facing, L!Has

\* ReloadImage asks for the file it shows, turned as it is to be shown.
LEMMA ReloadFacing ==
  ASSUME LoadsFacing, ShowsCall, NEW p, NEW loaded, NEW fully, NEW next \in Reloads,
         ReloadImage(p, loaded, fully, next), dialog' = "none"
  PROVE  FacingOK'
  <1> DEFINE s == IF fully \/ (loaded /\ crop) THEN FullSize ELSE View
  <1>1. file' = p /\ upc' = next /\ L!GetFiBitmap(p, s, rot', ~loaded)
    BY DEF ReloadImage
  <1>2. /\ UNCHANGED <<disk, hash, lpc, ticket, lbmp, abmp>> /\ apc' = "check"
        /\ call' = L!NewCall(p, s, rot', ~loaded, FALSE)
    BY <1>1 DEF L!GetFiBitmap, L!loaderVars
  <1>3. call'.path = p /\ call'.rotate = rot'
    BY <1>2 DEF L!NewCall
  <1>4. LoadsFacing'
    BY <1>2 DEF LoadsFacing, HashFacing, Facing, L!Has
  <1>5. ShowsCall'
    BY <1>1, <1>2, <1>3 DEF ShowsCall, Gets, Reloads
  <1>6. QED
    BY <1>4, <1>5 DEF FacingOK

LEMMA FacingStep ==
  ASSUME NoWrites, VInv, FacingOK, [Next]_vars
  PROVE  FacingOK'
  <1>t. L!IInv /\ LoadsFacing /\ ShowsCall
    BY DEF FacingOK, VInv
  <1> DEFINE Quiet == UNCHANGED <<disk, hash, lpc, ticket, lbmp, apc, call, abmp, dialog>>
  <1>a. ASSUME Quiet, upc' \notin Reloads \cup {"saving", "write", "replace", "replaced"}
        PROVE  FacingOK'
    BY <1>a, <1>t, FacingKept DEF FacingOK, ShowsCall
  <1>b. ASSUME LoadsFacing', UNCHANGED viewer,
               upc \in Reloads /\ apc \in Gets \cup {"crashed"} =>
                 call' = call /\ apc' \in Gets \cup {"crashed"}
        PROVE  FacingOK'
    BY <1>b, <1>t DEF FacingOK, ShowsCall, viewer, shown, options, handler, saving
  <1>1. CASE LoaderStep
    <2>1. L!LoaderStep /\ UNCHANGED viewer
      BY <1>1 DEF LoaderStep
    <2>2. call' = call /\ (apc' = apc \/ apc' = "crashed")
      BY <2>1 DEF L!LoaderStep, L!EntryTop, L!EntryPop, L!EntryPopEmpty, L!EntryCheck,
         L!EntryHit, L!EntryMiss, L!EntryLoad, L!EntryLock, L!EntryEvict, L!EntryAdd, L!EntryNotify, L!EntryPost,
         L!ClearBmpHash, L!EntryExit, L!callVars, L!Crash
    <2>3. QED
      BY <1>b, <1>t, <2>1, <2>2, LoaderFacing
  <1>2. CASE CallStep
    <2>1. L!CallStep /\ UNCHANGED viewer
      BY <1>2 DEF CallStep, L!CallStep
    <2>2. apc = "replace" \/ (call' = call /\ apc' \in Gets)
      BY <1>2 DEF CallStep, L!ReplaceStore, L!GetHit, L!GetMiss, L!GetPrepend, L!GetLoad,
         L!GetAdd, Gets
    <2>3. apc # "replace"
      BY <1>t DEF LoadsFacing
    <2>4. QED
      BY <1>b, <1>t, <2>1, <2>2, <2>3, CallFacing
  <1>3. CASE OnLoaded
    <2>1. Quiet /\ upc' \in {"idle", "loaded"}
      BY <1>3 DEF OnLoaded, L!TakeEvent, L!loaderVars, L!callVars, saving
    <2>2. QED
      BY <1>a, <2>1 DEF Reloads
  <1>4. CASE Close \/ Exit
    <2>1. /\ UNCHANGED <<disk, hash, lpc, ticket, lbmp, call, abmp>> /\ UNCHANGED viewer
          /\ \/ apc' = apc
             \/ /\ apc \notin Gets \cup {"crashed"}
                /\ apc' \notin {"add", "return", "replace"}
      BY <1>4 DEF Close, Exit, L!OnClose, L!DestroyFrame, L!ClearThread,
         L!ClearThreadDelete, L!ClearThreadWaited, L!loaderVars, L!callVars, Gets
    <2>2. LoadsFacing'
      BY <1>t, <2>1, FacingKept
    <2>3. QED
      BY <1>b, <2>1, <2>2
  <1>5. CASE Terminated \/ UNCHANGED vars
    <2>1. UNCHANGED loader /\ UNCHANGED viewer
      BY <1>5 DEF Terminated, vars
    <2>2. LoadsFacing'
      BY <1>t, <2>1, FacingKept DEF loader
    <2>3. QED
      BY <1>b, <2>1, <2>2 DEF loader
  <1>6. CASE \E p \in Paths : Select(p)
    <2>1. PICK p \in Paths : Select(p)
      BY <1>6
    <2>2. ReloadImage(p, FALSE, complete, "selecting") /\ dialog' = "none"
      BY <2>1, <1>t DEF Select, ShowSelected, saving, ShowsCall
    <2>3. QED
      BY <1>t, <2>2, ReloadFacing DEF Reloads
  <1>7. CASE \E p \in Paths : SaveAsCommand(p)
    BY <1>7 DEF SaveAsCommand, User, NoWrites
  <1>8. CASE \E q \in {1, -1} : RotateCommand(q)
    <2>1. CheckEdited("rotating", "rotate") /\ UNCHANGED saving
      BY <1>8 DEF RotateCommand
    <2>2. CASE MustLoadCompletely /\ file # NoPath
      BY <1>t, <2>1, <2>2, ReloadFacing DEF CheckEdited, Reloads, saving, ShowsCall
    <2>3. CASE ~(MustLoadCompletely /\ file # NoPath)
      BY <1>a, <2>1, <2>3 DEF CheckEdited, Reloads, saving, loader
    <2>4. QED
      BY <2>2, <2>3
  <1>9. CASE Reload
    <2>1. CASE sel # NoPath
      <3>1. ReloadImage(sel, FALSE, complete, "reloading") /\ dialog' = "none"
        BY <1>9, <1>t, <2>1 DEF Reload, saving, ShowsCall
      <3>2. QED
        BY <1>t, <3>1, ReloadFacing DEF Reloads
    <2>2. CASE sel = NoPath
      <3>1. Quiet /\ upc' = "idle"
        BY <1>9, <2>2 DEF Reload, User, loader, saving
      <3>2. QED
        BY <1>a, <3>1 DEF Reloads
    <2>3. QED
      BY <2>1, <2>2
  <1>10. CASE SelectDir \/ ToggleKeepRotate \/ ToggleLoadCompletely \/ Zoom
    <2>1. Quiet /\ upc' = "idle"
      BY <1>10 DEF SelectDir, ToggleKeepRotate, ToggleLoadCompletely, Zoom, User, loader,
         saving, handler, L!PrependTicket, L!loaderVars, L!callVars
    <2>2. QED
      BY <1>a, <2>1 DEF Reloads
  <1>11. CASE SaveCommand \/ Cancel \/ Confirm
    BY <1>11, <1>t DEF SaveCommand, Cancel, Confirm, User, NoWrites, ShowsCall
  <1>12. CASE ReloadImageDone
    <2>1. /\ UNCHANGED <<disk, hash, lpc, ticket, lbmp, dialog>>
          /\ apc' = "ready" /\ upc' \in {"clear", "rotate", "write", "idle"}
          /\ upc' = "write" => upc = "saving"
      BY <1>12 DEF ReloadImageDone, L!GetReturn, L!loaderVars, saving
    <2>2. LoadsFacing'
      BY <1>t, <2>1 DEF LoadsFacing, HashFacing, Facing, L!Has
    <2>3. QED
      BY <1>t, <2>1, <2>2 DEF FacingOK, ShowsCall, Reloads
  <1>13. CASE PrefetchClear \/ PrefetchAppend
    <2>1. Quiet /\ upc' \in {"append", "idle"}
      BY <1>13 DEF PrefetchClear, PrefetchAppend, L!Clear, L!AppendTicket, loader, saving,
         L!loaderVars, L!callVars
    <2>2. QED
      BY <1>a, <2>1 DEF Reloads
  <1>14. CASE OnLoadedReload
    <2>1. ReloadImage(sel, TRUE, complete, "showing") /\ dialog' = "none"
      BY <1>14, <1>t DEF OnLoadedReload, saving, ShowsCall
    <2>2. QED
      BY <1>t, <2>1, ReloadFacing DEF Reloads
  <1>15. CASE Rotate90
    <2>1. UNCHANGED loader /\ upc' = "idle" /\ UNCHANGED saving
      BY <1>15 DEF Rotate90, NoWrites
    <2>2. QED
      BY <1>a, <2>1 DEF Reloads, loader, saving
  <1>16. CASE Replace \/ Write \/ Replaced
    BY <1>16, <1>t DEF Replace, Write, Replaced, ShowsCall
  <1>17. QED
    BY <1>1, <1>2, <1>3, <1>4, <1>5, <1>6, <1>7, <1>8, <1>9, <1>10, <1>11, <1>12, <1>13,
       <1>14, <1>15, <1>16 DEF Next, UserStep, HandlerStep

\* What comes back from the loader is the file, turned as it is to be shown.
LEMMA ShowStep ==
  ASSUME VInv, FacingOK, ReloadImageDone, abmp # NoBmp
  PROVE  [of |-> abmp.of, turn |-> abmp.turn] = Turned(disk[file], rot)
  <1>1. apc = "return" /\ upc \in Reloads
    BY DEF ReloadImageDone, L!GetReturn, FacingOK, ShowsCall, Reloads
  <1>2. call.path = file /\ call.rotate = rot /\ call \in L!Call
    BY <1>1 DEF FacingOK, ShowsCall, VInv, L!IInv, L!TypeOK
  <1>3. Facing(abmp, file, rot)
    BY <1>1, <1>2 DEF FacingOK, LoadsFacing
  <1>4. disk[file] \in L!Picture
    BY <1>2 DEF VInv, L!IInv, L!TypeOK, L!Call
  <1>5. Turned(disk[file], rot) = [of |-> disk[file].of, turn |-> (disk[file].turn + rot) % 4]
    BY <1>4 DEF Turned, L!Picture
  <1>6. QED
    BY <1>3, <1>5 DEF Facing

\* As long as no file is written, what ReloadImage puts on the screen is the picture
\* the file holds, turned by the rotation that is kept.
THEOREM ShownIsTheFile == AllTurns /\ NoWrites /\ Spec => ShowsDisk
  <1>1. Init => FacingOK
    BY Assumptions
    DEF Init, FacingOK, LoadsFacing, HashFacing, ShowsCall, L!Init, L!Has, Reloads
  <1>2. NoWrites /\ VInv /\ FacingOK /\ [Next]_vars => FacingOK'
    BY FacingStep
  <1>3. VInv /\ FacingOK /\ [Next]_vars =>
          [ReloadImageDone /\ abmp # NoBmp =>
             [of |-> abmp.of, turn |-> abmp.turn] = Turned(disk[file], rot)]_vars
    BY ShowStep
  <1>4. AllTurns /\ NoWrites => (AllTurns /\ NoWrites)'
    BY DEF AllTurns, NoWrites
  <1>5. QED
    BY <1>1, <1>2, <1>3, <1>4, ViewerInvariance, PTL DEF Spec, ShowsDisk
=============================================================================
