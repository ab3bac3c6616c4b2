----------------------- MODULE KuLoaderBitmaps_proofs -----------------------
(***************************************************************************)
(* Proofs about the bitmaps of KuLoader, for every value of its constants  *)
(* and every client: none is leaked, unloaded twice or handed out without  *)
(* a clone, and no load, hit or eviction gets a rough preview into the     *)
(* cache.                                                                  *)
(***************************************************************************)
EXTENDS KuLoader_proofs

-----------------------------------------------------------------------------
(* Counting what the hash holds.                                           *)

\* The paths whose entry has a bitmap.
Kept == {p \in Paths : Has(p) /\ hash[p].bmp # NoBmp}

\* What an entry, or none, adds to their number.
EntryCount(e) == IF e = NoEntry THEN 0 ELSE Count(e.bmp)

\* The paths with a bitmap are finitely many, and their number is a natural one.
LEMMA KeptFinite == IsFiniteSet(Kept) /\ Cardinality(Kept) \in Nat
  <1>1. IsFiniteSet(Kept)
    BY LoaderAssumption, FS_Subset DEF Kept
  <1>2. QED
    BY <1>1, FS_CardinalityType

\* When one entry of the hash is replaced, erased or added, the number of bitmaps
\* changes by what the new entry adds and the old one is freed of.
LEMMA StoreCounts ==
  ASSUME NEW p \in Paths, NEW v \in Entry \cup {NoEntry},
         hash \in [Paths -> Entry \cup {NoEntry}],
         hash' = [hash EXCEPT ![p] = v]
  PROVE  Cardinality(Kept)' = Cardinality(Kept) - Freed(p) + EntryCount(v)
  <1> DEFINE others == Kept \ {p}
  <1>1. IsFiniteSet(Kept) /\ IsFiniteSet(others)
    BY KeptFinite, FS_Subset
  <1>2. Cardinality(others) = Cardinality(Kept) - Freed(p) /\ Cardinality(others) \in Nat
    <2>1. CASE p \in Kept
      <3>1. Freed(p) = 1
        BY <2>1 DEF Kept, Freed, Count
      <3>2. Cardinality(others) = Cardinality(Kept) - 1
        BY <1>1, <2>1, FS_RemoveElement
      <3>3. Cardinality(others) \in Nat
        BY <1>1, FS_CardinalityType
      <3>4. QED
        BY <3>1, <3>2, <3>3
    <2>2. CASE p \notin Kept
      <3>1. Freed(p) = 0
        BY <2>2 DEF Kept, Freed, Count
      <3>2. others = Kept
        BY <2>2
      <3>3. QED
        BY <3>1, <3>2, KeptFinite
    <2>3. QED
      BY <2>1, <2>2
  <1>3. Kept' = IF EntryCount(v) = 1 THEN others \cup {p} ELSE others
    BY DEF Kept, Has, EntryCount, Count
  <1>4. EntryCount(v) \in {0, 1}
    BY DEF EntryCount, Count
  <1>5. CASE EntryCount(v) = 1
    <2>1. Cardinality(others \cup {p}) = Cardinality(others) + 1
      BY <1>1, FS_AddElement
    <2>2. Freed(p) \in Int /\ Cardinality(Kept) \in Nat
      BY KeptFinite DEF Freed, Count
    <2>3. Cardinality(Kept)' = Cardinality(others \cup {p})
      BY <1>3, <1>5
    <2>4. QED
      BY <1>2, <1>5, <2>1, <2>2, <2>3
  <1>6. CASE EntryCount(v) = 0
    <2>1. Cardinality(Kept)' = Cardinality(others)
      BY <1>3, <1>6
    <2>2. Freed(p) \in Int /\ Cardinality(Kept) \in Nat
      BY KeptFinite DEF Freed, Count
    <2>3. QED
      BY <1>2, <1>6, <2>1, <2>2
  <1>7. QED
    BY <1>4, <1>5, <1>6

-----------------------------------------------------------------------------
(* The inductive invariant.                                                *)

\* A thread holds a bitmap only between its load and its hand-over.
LocalsEmpty ==
  /\ lbmp # NoBmp => lpc \in {"lock", "evict"}
  /\ abmp # NoBmp => apc \in {"add", "return", "replace", "crashed"}

BInv == LocalsEmpty /\ Conservation

\* What is counted once neither thread has crashed nor the hash been cleared.
Counting == lpc \notin {"cleared", "done", "crashed"}
Local == Count(lbmp) + (IF apc = "replace" THEN 0 ELSE Count(abmp))

LEMMA BInitInv == Init => BInv
  <1> SUFFICES ASSUME Init PROVE BInv
    OBVIOUS
  <1>1. Kept = {}
    BY DEF Init, Kept, Has
  <1>2. Cardinality(Kept) = 0
    BY <1>1, FS_EmptySet
  <1>3. live = 0 /\ lbmp = NoBmp /\ abmp = NoBmp
    BY DEF Init
  <1>4. Conservation
    BY <1>2, <1>3 DEF Conservation, Kept, Count
  <1>5. QED
    BY <1>3, <1>4 DEF BInv, LocalsEmpty

\* A step that leaves the hash alone keeps the count, if live changes by what it
\* makes of the locals.
LEMMA LocalKeepsCount ==
  ASSUME BInv, IInv, hash' = hash, Counting' => Counting,
         live' = live + Local' - Local
  PROVE  Conservation'
  <1>1. /\ Cardinality(Kept) \in Nat /\ live \in Int
        /\ Local \in Int /\ Local' \in Int
    BY KeptFinite DEF Local, Count, IInv, TypeOK
  <1>2. Cardinality(Kept)' = Cardinality(Kept)
    BY DEF Kept, Has
  <1>3. Counting => live = Cardinality(Kept) + Local
    <2>1. Count(lbmp) \in Int /\ (IF apc = "replace" THEN 0 ELSE Count(abmp)) \in Int
      BY DEF Count
    <2>2. QED
      BY <1>1, <2>1 DEF BInv, Conservation, Counting, Local, Kept
  <1>4. Counting' => live' = Cardinality(Kept)' + Local'
    BY <1>1, <1>2, <1>3
  <1>5. QED
    <2>1. Count(lbmp)' \in Int /\ (IF apc' = "replace" THEN 0 ELSE Count(abmp)') \in Int
      BY DEF Count
    <2>2. QED
      BY <1>1, <1>2, <1>4, <2>1 DEF Conservation, Counting, Local, Kept

\* A step that stores an entry keeps the count, if live changes by what the entry
\* and the locals make of it.
LEMMA StoreKeepsCount ==
  ASSUME BInv, IInv, NEW p \in Paths, NEW v \in Entry \cup {NoEntry},
         hash' = [hash EXCEPT ![p] = v], Counting' => Counting,
         live' = live - Freed(p) + EntryCount(v) + Local' - Local
  PROVE  Conservation'
  <1>1. hash \in [Paths -> Entry \cup {NoEntry}] /\ live \in Int
    BY DEF IInv, TypeOK
  <1>2. Cardinality(Kept)' = Cardinality(Kept) - Freed(p) + EntryCount(v)
    BY <1>1, StoreCounts
  <1>3. /\ Cardinality(Kept) \in Nat /\ Freed(p) \in Int /\ EntryCount(v) \in Int
        /\ Local \in Int /\ Local' \in Int
    BY KeptFinite DEF Freed, EntryCount, Local, Count
  <1>4. Counting => live = Cardinality(Kept) + Local
    <2>1. Local \in Int /\ Count(lbmp) \in Int /\ (IF apc = "replace" THEN 0 ELSE Count(abmp)) \in Int
      BY <1>3 DEF Count
    <2>2. QED
      BY <1>3, <2>1 DEF BInv, Conservation, Counting, Local, Kept
  <1>5. Counting' => live' = Cardinality(Kept)' + Local'
    BY <1>1, <1>2, <1>3, <1>4
  <1>6. QED
    <2>1. Count(lbmp)' \in Int /\ (IF apc' = "replace" THEN 0 ELSE Count(abmp)') \in Int
      BY DEF Count
    <2>2. Cardinality(Kept)' \in Int
      BY <1>2, <1>3
    <2>3. QED
      BY <1>5, <2>1, <2>2 DEF Conservation, Counting, Local, Kept

\* Turning a bitmap makes no NULL of it, and no bitmap of NULL.
LEMMA RotatedCount ==
  ASSUME NEW b \in Bitmap \cup {NoBmp}, NEW r \in Int
  PROVE  Count(Rotated(b, r)) = Count(b)
  <1>1. CASE b = NoBmp
    BY <1>1 DEF Rotated
  <1>2. CASE b # NoBmp
    <2>1. b \in Bitmap /\ b.turn \in 0..3 /\ (b.turn + r) % 4 \in 0..3
      BY <1>2 DEF Bitmap
    <2>2. Rotated(b, r) \in Bitmap
      BY <1>2, <2>1 DEF Rotated, Bitmap
    <2>3. QED
      BY <1>2, <2>2, LoaderAssumption DEF Count
  <1>3. QED
    BY <1>1, <1>2

\* The steps of the loader thread keep the count.
LEMMA LoaderStepCounts == IInv /\ BInv /\ LoaderStep => BInv'
  <1> SUFFICES ASSUME IInv, BInv, LoaderStep PROVE BInv'
    OBVIOUS
  <1>1. CASE EntryTop \/ EntryPop \/ EntryCheck \/ EntryHit \/ EntryLock \/ EntryNotify
    <2>1. /\ hash' = hash /\ live' = live /\ lbmp' = lbmp /\ abmp' = abmp /\ apc' = apc
          /\ lpc \notin {"cleared", "done", "crashed"}
          /\ lpc \in {"lock", "evict"} => lpc' \in {"lock", "evict"}
      BY <1>1 DEF EntryTop, EntryPop, EntryCheck, EntryHit, EntryLock, EntryNotify,
         callVars
    <2>2. live' = live + Local' - Local
      BY <2>1 DEF Local, Count, IInv, TypeOK
    <2>3. Conservation'
      BY <2>1, <2>2, LocalKeepsCount DEF Counting
    <2>4. QED
      BY <2>1, <2>3 DEF BInv, LocalsEmpty
  <1>2. CASE EntryPopEmpty \/ EntryPost
    <2>1. /\ hash' = hash /\ live' = live /\ lbmp' = lbmp /\ abmp' = abmp
          /\ lpc \notin {"cleared", "done", "crashed", "lock", "evict"}
          /\ apc' = apc \/ (apc' = "crashed" /\ lpc' = "crashed")
      BY <1>2 DEF EntryPopEmpty, EntryPost, Crash
    <2>2. CASE apc' = apc
      <3>1. live' = live + Local' - Local
        BY <2>1, <2>2 DEF Local, Count, IInv, TypeOK
      <3>2. Conservation'
        BY <2>1, <3>1, LocalKeepsCount DEF Counting
      <3>3. QED
        BY <2>1, <2>2, <3>2 DEF BInv, LocalsEmpty
    <2>3. CASE apc' = "crashed" /\ lpc' = "crashed"
      BY <2>1, <2>3 DEF BInv, LocalsEmpty, Conservation
    <2>4. QED
      BY <2>1, <2>2, <2>3
  <1>3. CASE EntryMiss
    <2>1. ticket.path \in Paths
      BY <1>3, TicketFields DEF EntryMiss, IInv, TypeOK
    <2>2. /\ hash' = [hash EXCEPT ![ticket.path] = NoEntry]
          /\ live' = live - Freed(ticket.path)
          /\ lbmp' = lbmp /\ abmp' = abmp /\ apc' = apc /\ lpc = "checked"
      BY <1>3 DEF EntryMiss, EraseBmpHash, callVars
    <2>3. live' = live - Freed(ticket.path) + EntryCount(NoEntry) + Local' - Local
      BY <2>2 DEF EntryCount, Freed, Local, Count, IInv, TypeOK
    <2>4. Conservation'
      BY <2>1, <2>2, <2>3, StoreKeepsCount DEF Counting
    <2>5. QED
      BY <2>2, <2>4 DEF BInv, LocalsEmpty
  <1>4. CASE EntryLoad
    <2>1. /\ hash' = hash /\ live' = live + Count(lbmp') /\ abmp' = abmp /\ apc' = apc
          /\ lpc = "load" /\ lpc' = "lock"
      BY <1>4 DEF EntryLoad, callVars
    <2>2. lbmp = NoBmp
      BY <2>1 DEF BInv, LocalsEmpty
    <2>3. live' = live + Local' - Local
      BY <2>1, <2>2 DEF Local, Count, IInv, TypeOK
    <2>4. Conservation'
      BY <2>1, <2>3, LocalKeepsCount DEF Counting
    <2>5. QED
      BY <2>1, <2>4 DEF BInv, LocalsEmpty
  <1>5. CASE EntryEvict
    <2>1. Head(cache) \in Paths
      BY <1>5, LoaderAssumption DEF EntryEvict, IInv, TypeOK
    <2>2. /\ hash' = [hash EXCEPT ![Head(cache)] = NoEntry]
          /\ live' = live - Freed(Head(cache))
          /\ lbmp' = lbmp /\ abmp' = abmp /\ apc' = apc /\ lpc = "evict" /\ lpc' = lpc
      BY <1>5 DEF EntryEvict, EraseBmpHash, callVars, loaderVars
    <2>3. live' = live - Freed(Head(cache)) + EntryCount(NoEntry) + Local' - Local
      BY <2>2 DEF EntryCount, Freed, Local, Count, IInv, TypeOK
    <2>4. Conservation'
      BY <2>1, <2>2, <2>3, StoreKeepsCount DEF Counting
    <2>5. QED
      BY <2>2, <2>4 DEF BInv, LocalsEmpty
  <1>6. CASE EntryAdd
    <2> DEFINE v == [size |-> ticket.size, rotate |-> ticket.rotate, bmp |-> lbmp]
    <2>1. ticket.path \in Paths /\ v \in Entry
      BY <1>6, LoaderAssumption DEF EntryAdd, IInv, TypeOK, Ticket, Entry
    <2>2. /\ hash' = [hash EXCEPT ![ticket.path] = v]
          /\ live' = live - Freed(ticket.path)
          /\ lbmp' = NoBmp /\ abmp' = abmp /\ apc' = apc /\ lpc = "evict"
      BY <1>6 DEF EntryAdd, AddBmpHash, callVars
    <2>3. EntryCount(v) = Count(lbmp)
      BY <2>1, LoaderAssumption DEF EntryCount
    <2> HIDE DEF v
    <2>4. live' = live - Freed(ticket.path) + EntryCount(v) + Local' - Local
      BY <2>2, <2>3 DEF Freed, Local, Count, IInv, TypeOK
    <2>5. Conservation'
      BY <2>1, <2>2, <2>4, StoreKeepsCount DEF Counting
    <2>6. QED
      BY <2>2, <2>5 DEF BInv, LocalsEmpty
  <1>7. CASE ClearBmpHash \/ EntryExit
    <2>1. /\ lpc \in {"clear", "cleared"} /\ lpc' \in {"cleared", "done"}
          /\ lbmp' = lbmp /\ abmp' = abmp /\ apc' = apc
      BY <1>7 DEF ClearBmpHash, EntryExit, callVars
    <2>2. QED
      BY <2>1 DEF BInv, LocalsEmpty, Conservation
  <1>8. QED
    BY <1>1, <1>2, <1>3, <1>4, <1>5, <1>6, <1>7 DEF LoaderStep

\* What a call holds.
LEMMA CallFields ==
  ASSUME NEW c \in Call
  PROVE  c.path \in Paths /\ c.size \in Sizes /\ c.rotate \in -3..3 /\ c.rotate \in Int
  <1>1. c.path \in Paths /\ c.size \in Sizes /\ c.rotate \in Rotations
    BY DEF Call
  <1>2. c.rotate \in -3..3
    BY <1>1, LoaderAssumption
  <1>3. QED
    BY <1>1, <1>2

\* The steps of a call of the UI thread keep it.
LEMMA CallStepCounts == IInv /\ BInv /\ CallStep => BInv'
  <1> SUFFICES ASSUME IInv, BInv, CallStep PROVE BInv'
    OBVIOUS
  <1>0. apc \in {"check", "prepend", "load", "add", "return", "remove", "replace"}
         => /\ call.path \in Paths /\ call.size \in Sizes
            /\ call.rotate \in -3..3 /\ call.rotate \in Int
    BY CallFields DEF IInv, TypeOK
  <1>1. CASE RemoveErase \/ GetMiss
    <2>1. /\ call.path \in Paths
          /\ hash' = [hash EXCEPT ![call.path] = NoEntry]
          /\ live' = live - Freed(call.path)
          /\ lbmp' = lbmp /\ abmp' = abmp /\ lpc' = lpc
          /\ apc \in {"remove", "check"} /\ apc' \in {"ready", "prepend", "load"}
      <3>1. CASE RemoveErase
        BY <1>0, <3>1 DEF RemoveErase, EraseBmpHash, loaderVars
      <3>2. CASE GetMiss
        BY <1>0, <3>2 DEF GetMiss, EraseBmpHash, loaderVars
      <3>3. QED
        BY <1>1, <3>1, <3>2
    <2>2. live' = live - Freed(call.path) + EntryCount(NoEntry) + Local' - Local
      BY <2>1 DEF EntryCount, Freed, Local, Count, IInv, TypeOK
    <2>3. Conservation'
      BY <2>1, <2>2, StoreKeepsCount DEF Counting
    <2>4. QED
      BY <2>1, <2>3 DEF BInv, LocalsEmpty
  <1>2. CASE ReplaceStore
    <2>1. PICK v : /\ hash' = [hash EXCEPT ![call.path] = v]
                   /\ EntryCount(v) = Count(abmp) /\ v \in Entry
      <3> DEFINE old == IF Has(call.path) THEN hash[call.path] ELSE DefaultEntry
                 new == [size   |-> old.size,
                         rotate |-> IF call.diff THEN Rem4(old.rotate + call.rotate)
                                    ELSE call.rotate,
                         bmp    |-> abmp]
      <3>1. hash' = [hash EXCEPT ![call.path] = new]
        BY <1>2 DEF ReplaceStore
      <3>2. call.path \in Paths /\ call.rotate \in -3..3 /\ call.rotate \in Int
        BY <1>0, <1>2 DEF ReplaceStore
      <3>3. old \in Entry
        BY <3>2, LoaderAssumption DEF DefaultEntry, Entry, Has, IInv, TypeOK
      <3>4. new \in Entry
        <4>1. old.rotate \in Int /\ old.size \in Sizes /\ abmp \in Bitmap \cup {NoBmp}
          BY <3>3 DEF Entry, IInv, TypeOK
        <4> HIDE DEF old
        <4>2. Rem4(old.rotate + call.rotate) \in -3..3
          BY <3>2, <4>1, Rem4Type
        <4>3. QED
          BY <3>2, <4>1, <4>2 DEF Entry
      <3>5. EntryCount(new) = Count(abmp)
        BY <3>4, LoaderAssumption DEF EntryCount
      <3>6. QED
        BY <3>1, <3>4, <3>5
    <2>2. /\ call.path \in Paths /\ live' = live - Freed(call.path) + Count(abmp)
          /\ lbmp' = lbmp /\ abmp' = NoBmp /\ lpc' = lpc
          /\ apc = "replace" /\ apc' = "ready"
      BY <1>0, <1>2 DEF ReplaceStore, loaderVars
    <2>3. live' = live - Freed(call.path) + EntryCount(v) + Local' - Local
      BY <2>1, <2>2 DEF Freed, Local, Count, IInv, TypeOK
    <2>4. Conservation'
      BY <2>1, <2>2, <2>3, StoreKeepsCount DEF Counting
    <2>5. QED
      BY <2>2, <2>4 DEF BInv, LocalsEmpty
  <1>3. CASE GetHit
    <2> DEFINE e == hash[call.path]
               b == Rotated(e.bmp, call.rotate - e.rotate)
               new == [e EXCEPT !.bmp = b,
                         !.rotate = IF e.bmp # NoBmp /\ (call.rotate - e.rotate) % 4 # 0
                                    THEN Rem4(@ + (call.rotate - e.rotate)) ELSE @]
    <2>1. call.path \in Paths /\ call.rotate \in Int /\ Has(call.path)
      BY <1>0, <1>3 DEF GetHit, Holds
    <2>2. e \in Entry
      BY <2>1 DEF Has, IInv, TypeOK
    <2>3. e.bmp \in Bitmap \cup {NoBmp} /\ e.rotate \in -3..3 /\ e.size \in Sizes
      BY <2>2 DEF Entry
    <2>4. call.rotate - e.rotate \in Int /\ e.rotate + (call.rotate - e.rotate) \in Int
      BY <2>1, <2>3
    <2>5. b \in Bitmap \cup {NoBmp} /\ Count(b) = Count(e.bmp)
      BY <2>3, <2>4, RotatedType, RotatedCount
    <2>6. Rem4(e.rotate + (call.rotate - e.rotate)) \in -3..3
      BY <2>4, Rem4Type
    <2>7. /\ hash' = [hash EXCEPT ![call.path] = new]
          /\ abmp' = b /\ live' = live + Count(b) /\ lbmp' = lbmp /\ lpc' = lpc
          /\ apc = "check" /\ apc' = "return"
      BY <1>3 DEF GetHit, loaderVars
    <2>8. Freed(call.path) = Count(e.bmp) /\ abmp = NoBmp
      BY <2>1, <2>7 DEF Freed, BInv, LocalsEmpty
    <2> HIDE DEF e, b
    <2>9. new \in Entry /\ new.bmp = b
      BY <2>2, <2>3, <2>5, <2>6 DEF Entry
    <2>10. EntryCount(new) = Count(b)
      BY <2>9, LoaderAssumption DEF EntryCount
    <2> HIDE DEF new
    <2>11. live' = live - Freed(call.path) + EntryCount(new) + Local' - Local
      BY <2>5, <2>7, <2>8, <2>10 DEF Local, Count, IInv, TypeOK
    <2>12. Conservation'
      BY <2>1, <2>7, <2>9, <2>11, StoreKeepsCount DEF Counting
    <2>13. QED
      BY <2>7, <2>12 DEF BInv, LocalsEmpty
  <1>4. CASE GetPrepend
    <2>1. /\ hash' = hash /\ live' = live /\ lbmp' = lbmp /\ abmp' = abmp /\ lpc' = lpc
          /\ apc = "prepend" /\ apc' = "load"
      BY <1>4 DEF GetPrepend, loaderVars
    <2>2. live' = live + Local' - Local
      BY <2>1 DEF Local, Count, IInv, TypeOK
    <2>3. Conservation'
      BY <2>1, <2>2, LocalKeepsCount DEF Counting
    <2>4. QED
      BY <2>1, <2>3 DEF BInv, LocalsEmpty
  <1>5. CASE GetLoad
    <2>1. /\ hash' = hash /\ live' = live + Count(abmp') /\ lbmp' = lbmp /\ lpc' = lpc
          /\ apc = "load" /\ apc' \in {"return", "add"}
      BY <1>5 DEF GetLoad, loaderVars
    <2>2. abmp = NoBmp
      BY <2>1 DEF BInv, LocalsEmpty
    <2>3. live' = live + Local' - Local
      BY <2>1, <2>2 DEF Local, Count, IInv, TypeOK
    <2>4. Conservation'
      BY <2>1, <2>3, LocalKeepsCount DEF Counting
    <2>5. QED
      BY <2>1, <2>4 DEF BInv, LocalsEmpty
  <1>6. CASE GetAdd
    <2> DEFINE v == [size |-> call.size, rotate |-> call.rotate, bmp |-> abmp]
    <2>1. call.path \in Paths /\ v \in Entry
      BY <1>0, <1>6 DEF GetAdd, IInv, TypeOK, Entry
    <2>2. /\ hash' = [hash EXCEPT ![call.path] = v]
          /\ live' = live - Freed(call.path) + Count(abmp)
          /\ lbmp' = lbmp /\ abmp' = abmp /\ lpc' = lpc
          /\ apc = "add" /\ apc' = "return"
      BY <1>6 DEF GetAdd, AddBmpHash, loaderVars
    <2>3. EntryCount(v) = Count(abmp)
      BY <2>1, LoaderAssumption DEF EntryCount
    <2> HIDE DEF v
    <2>4. live' = live - Freed(call.path) + EntryCount(v) + Local' - Local
      BY <2>2, <2>3 DEF Freed, Local, Count, IInv, TypeOK
    <2>5. Conservation'
      BY <2>1, <2>2, <2>4, StoreKeepsCount DEF Counting
    <2>6. QED
      BY <2>2, <2>5 DEF BInv, LocalsEmpty
  <1>7. CASE GetReturn
    <2>1. /\ hash' = hash /\ live' = live - Count(abmp) /\ lbmp' = lbmp /\ abmp' = NoBmp
          /\ lpc' = lpc /\ apc = "return" /\ apc' = "ready"
      BY <1>7 DEF GetReturn, loaderVars
    <2>2. live' = live + Local' - Local
      BY <2>1 DEF Local, Count, IInv, TypeOK
    <2>3. Conservation'
      BY <2>1, <2>2, LocalKeepsCount DEF Counting
    <2>4. QED
      BY <2>1, <2>3 DEF BInv, LocalsEmpty
  <1>8. QED
    BY <1>1, <1>2, <1>3, <1>4, <1>5, <1>6, <1>7 DEF CallStep

\* So do the client's steps, the end of the program and steps that change nothing.
LEMMA OtherStepCounts ==
  IInv /\ BInv /\ (ClientStep \/ ExitStep \/ UNCHANGED vars) => BInv'
  <1> SUFFICES ASSUME IInv, BInv, ClientStep \/ ExitStep \/ UNCHANGED vars PROVE BInv'
    OBVIOUS
  <1>1. ASSUME hash' = hash, live' = live, lbmp' = lbmp, lpc' = lpc,
               \/ apc' = apc /\ abmp' = abmp
               \/ /\ apc = "ready" /\ apc' \in {"check", "remove", "delete"}
                  /\ abmp' = abmp
               \/ apc = "ready" /\ apc' = "replace"
               \/ apc = "delete" /\ apc' = "wait" /\ abmp' = abmp
               \/ apc = "wait" /\ apc' = "exited" /\ abmp' = abmp
        PROVE  BInv'
    <2>1. apc \in {"ready", "delete", "wait"} => abmp = NoBmp
      BY DEF BInv, LocalsEmpty
    <2>2. Local' = Local
      BY <1>1, <2>1 DEF Local, Count
    <2>3. live' = live + Local' - Local
      BY <1>1, <2>2 DEF Local, Count, IInv, TypeOK
    <2>4. Conservation'
      BY <1>1, <2>3, LocalKeepsCount DEF Counting
    <2>5. QED
      BY <1>1, <2>1, <2>4 DEF BInv, LocalsEmpty
  <1>2. CASE UNCHANGED vars
    BY <1>1, <1>2 DEF vars, loaderVars, callVars
  <1>3. CASE ExitStep
    BY <1>1, <1>3 DEF ExitStep, DestroyFrame, ClearThread, ClearThreadDelete,
       ClearThreadWaited, loaderVars, callVars
  <1>4. CASE ClientStep
    <2>1. ASSUME NEW prior \in BOOLEAN, Clear(prior) PROVE BInv'
      BY <1>1, <2>1 DEF Clear, loaderVars, callVars
    <2>2. ASSUME NEW p \in Paths, NEW s \in Sizes, NEW r \in Rotations,
                 AppendTicket(p, s, r) \/ PrependTicket(p, s, r)
          PROVE  BInv'
      BY <1>1, <2>2 DEF AppendTicket, PrependTicket, loaderVars, callVars
    <2>3. ASSUME NEW p \in Paths, NEW s \in Sizes, NEW r \in Rotations,
                 NEW fast \in BOOLEAN, GetFiBitmap(p, s, r, fast)
          PROVE  BInv'
      BY <1>1, <2>3 DEF GetFiBitmap, MayCall, loaderVars, callVars
    <2>4. ASSUME NEW p \in Paths, Remove(p) PROVE BInv'
      BY <1>1, <2>4 DEF Remove, MayCall, loaderVars, callVars
    <2>5. ASSUME NEW p \in Paths, NEW r \in Rotations, NEW diff \in BOOLEAN,
                 NEW b \in Given[p], Replace(p, b, diff, r)
          PROVE  BInv'
      BY <1>1, <2>5 DEF Replace, MayCall, loaderVars, callVars
    <2>6. CASE TakeEvent \/ OnClose
      BY <1>1, <2>6 DEF TakeEvent, OnClose, loaderVars, callVars
    <2>7. ASSUME NEW p \in Paths, NEW picture \in Written, WriteFile(p, picture)
          PROVE  BInv'
      BY <1>1, <2>7 DEF WriteFile, loaderVars, callVars
    <2>8. QED
      BY <1>4, <2>1, <2>2, <2>3, <2>4, <2>5, <2>6, <2>7 DEF ClientStep
  <1>5. QED
    BY <1>2, <1>3, <1>4

-----------------------------------------------------------------------------
(* The theorems.                                                           *)

\* The bitmaps kuLoadThread has allocated and not unloaded are exactly those it
\* can reach, for any capacity, any pictures and any calls of the UI thread: each
\* path through Entry(), GetFiBitmap, Replace, Remove and the eviction unloads what
\* it drops, once, and clones what it hands out.
THEOREM BitmapsConserved == Spec => []Conservation
  <1>1. Init => BInv
    BY BInitInv
  <1>2. IInv /\ BInv /\ [Next]_vars => BInv'
    BY LoaderStepCounts, CallStepCounts, OtherStepCounts DEF Next, Terminated
  <1>3. BInv => Conservation
    BY DEF BInv
  <1>4. QED
    BY <1>1, <1>2, <1>3, Invariance, PTL DEF Spec
-----------------------------------------------------------------------------
(* No preview gets into the cache but by Replace.                          *)

NoPreview(b) == b # NoBmp => b.kind # "rough"

\* No bitmap on its way from a load into the hash is a preview.
PInv ==
  /\ NoPreview(lbmp)
  /\ apc = "add" => NoPreview(abmp)

\* The step brings no preview into the hash.
Clean == \A p \in Paths : PreviewAt(p)' => PreviewAt(p)

\* Turning a bitmap makes no preview of it.
LEMMA RotatedKeepsKind ==
  ASSUME NEW b \in Bitmap \cup {NoBmp}, NEW r \in Int, NoPreview(b)
  PROVE  NoPreview(Rotated(b, r))
  BY DEF NoPreview, Rotated, Bitmap

\* Loading for the cache gives no preview.
LEMMA LoadedGood ==
  ASSUME NEW p, NEW s
  PROVE  NoPreview(Loaded(p, s, "good"))
  BY DEF NoPreview, Loaded

\* Storing an entry without a preview, or in the place of one, or erasing an entry
\* brings none into the hash.
LEMMA StoreClean ==
  ASSUME NEW p \in Paths, NEW v \in Entry \cup {NoEntry},
         v # NoEntry => NoPreview(v.bmp) \/ PreviewAt(p),
         hash \in [Paths -> Entry \cup {NoEntry}],
         hash' = [hash EXCEPT ![p] = v]
  PROVE  Clean
  BY DEF Clean, PreviewAt, NoPreview, Has

\* A step that leaves the hash alone does not either.
LEMMA SameClean == hash' = hash => Clean
  BY DEF Clean, PreviewAt, Has

\* The steps of the loader thread keep previews out.
LEMMA LoaderStepNoPreview == IInv /\ PInv /\ LoaderStep => PInv' /\ Clean
  <1> SUFFICES ASSUME IInv, PInv, LoaderStep PROVE PInv' /\ Clean
    OBVIOUS
  <1>0. hash \in [Paths -> Entry \cup {NoEntry}]
    BY DEF IInv, TypeOK
  <1>1. ASSUME hash' = hash, lbmp' = lbmp \/ NoPreview(lbmp'), abmp' = abmp,
               apc' \in {apc, "crashed"}
        PROVE  PInv' /\ Clean
    <2>1. PInv'
      BY <1>1 DEF PInv, NoPreview
    <2>2. QED
      BY <1>1, <2>1, SameClean
  <1>2. ASSUME NEW p \in Paths, NEW v \in Entry \cup {NoEntry},
               v # NoEntry => NoPreview(v.bmp), hash' = [hash EXCEPT ![p] = v],
               lbmp' \in {lbmp, NoBmp}, abmp' = abmp, apc' = apc
        PROVE  PInv' /\ Clean
    <2>1. Clean
      BY <1>0, <1>2, StoreClean
    <2>2. PInv'
      BY <1>2 DEF PInv, NoPreview
    <2>3. QED
      BY <2>1, <2>2
  <1>3. CASE EntryTop \/ EntryPop \/ EntryCheck \/ EntryHit \/ EntryLock \/ EntryNotify
    BY <1>1, <1>3 DEF EntryTop, EntryPop, EntryCheck, EntryHit, EntryLock, EntryNotify,
       callVars
  <1>4. CASE EntryPopEmpty \/ EntryPost
    BY <1>1, <1>4 DEF EntryPopEmpty, EntryPost, Crash
  <1>5. CASE EntryMiss
    <2>1. ticket.path \in Paths
      BY <1>5, TicketFields DEF EntryMiss, IInv, TypeOK
    <2>2. QED
      BY <1>2, <1>5, <2>1 DEF EntryMiss, EraseBmpHash, callVars
  <1>6. CASE EntryLoad
    <2>1. /\ ticket.path \in Paths /\ ticket.size \in Sizes /\ ticket.rotate \in Int
          /\ disk \in [Paths -> Picture]
      BY <1>6, TicketFields DEF EntryLoad, IInv, TypeOK
    <2> DEFINE file == Loaded(ticket.path, ticket.size, "good")
    <2>2. file \in Bitmap \cup {NoBmp} /\ NoPreview(file)
      BY <2>1, LoadedType, LoadedGood
    <2>3. lbmp' = Rotated(file, ticket.rotate) /\ hash' = hash /\ abmp' = abmp /\ apc' = apc
      BY <1>6 DEF EntryLoad, callVars
    <2> HIDE DEF file
    <2>4. NoPreview(lbmp')
      BY <2>1, <2>2, <2>3, RotatedKeepsKind
    <2>5. QED
      BY <1>1, <2>3, <2>4
  <1>7. CASE EntryEvict
    <2>1. Head(cache) \in Paths
      BY <1>7, LoaderAssumption DEF EntryEvict, IInv, TypeOK
    <2>2. QED
      BY <1>2, <1>7, <2>1 DEF EntryEvict, EraseBmpHash, loaderVars, callVars
  <1>8. CASE EntryAdd
    <2> DEFINE v == [size |-> ticket.size, rotate |-> ticket.rotate, bmp |-> lbmp]
    <2>1. ticket.path \in Paths /\ v \in Entry
      BY <1>8, LoaderAssumption DEF EntryAdd, IInv, TypeOK, Ticket, Entry
    <2>2. NoPreview(v.bmp)
      BY DEF PInv
    <2>3. hash' = [hash EXCEPT ![ticket.path] = v] /\ lbmp' = NoBmp /\ abmp' = abmp /\ apc' = apc
      BY <1>8 DEF EntryAdd, AddBmpHash, callVars
    <2> HIDE DEF v
    <2>4. QED
      BY <1>2, <2>1, <2>2, <2>3
  <1>9. CASE ClearBmpHash \/ EntryExit
    BY <1>9 DEF ClearBmpHash, EntryExit, PInv, Clean, PreviewAt, Has, NoPreview, callVars
  <1>10. QED
    BY <1>3, <1>4, <1>5, <1>6, <1>7, <1>8, <1>9 DEF LoaderStep
\* So do those of a call of the UI thread.
LEMMA CallStepNoPreview ==
  IInv /\ PInv /\ CallStep => PInv' /\ (ReplaceStore \/ Clean)
  <1> SUFFICES ASSUME IInv, PInv, CallStep PROVE PInv' /\ (ReplaceStore \/ Clean)
    OBVIOUS
  <1>0. apc \in {"check", "prepend", "load", "add", "return", "remove", "replace"}
         => /\ call.path \in Paths /\ call.size \in Sizes
            /\ call.rotate \in -3..3 /\ call.rotate \in Int
    BY CallFields DEF IInv, TypeOK
  <1>1. hash \in [Paths -> Entry \cup {NoEntry}]
    BY DEF IInv, TypeOK
  <1>2. ASSUME NEW v \in Entry \cup {NoEntry},
               v # NoEntry => NoPreview(v.bmp) \/ PreviewAt(call.path),
               hash' = [hash EXCEPT ![call.path] = v], call.path \in Paths,
               lbmp' = lbmp, apc' # "add"
        PROVE  PInv' /\ Clean
    <2>1. Clean
      BY <1>1, <1>2, StoreClean
    <2>2. PInv'
      BY <1>2 DEF PInv, NoPreview
    <2>3. QED
      BY <2>1, <2>2
  <1>3. CASE RemoveErase
    BY <1>0, <1>2, <1>3 DEF RemoveErase, EraseBmpHash, loaderVars
  <1>4. CASE GetMiss
    BY <1>0, <1>2, <1>4 DEF GetMiss, EraseBmpHash, loaderVars
  <1>5. CASE ReplaceStore
    <2>1. lbmp' = lbmp /\ apc' = "ready"
      BY <1>5 DEF ReplaceStore, loaderVars
    <2>2. PInv'
      BY <2>1 DEF PInv, NoPreview
    <2>3. QED
      BY <1>5, <2>2
  <1>6. CASE GetHit
    <2> DEFINE e == hash[call.path]
               b == Rotated(e.bmp, call.rotate - e.rotate)
               new == [e EXCEPT !.bmp = b,
                         !.rotate = IF e.bmp # NoBmp /\ (call.rotate - e.rotate) % 4 # 0
                                    THEN Rem4(@ + (call.rotate - e.rotate)) ELSE @]
    <2>1. call.path \in Paths /\ call.rotate \in Int /\ Has(call.path)
      BY <1>0, <1>6 DEF GetHit, Holds
    <2>2. e \in Entry /\ (NoPreview(e.bmp) \/ PreviewAt(call.path))
      BY <2>1 DEF Has, IInv, TypeOK, PreviewAt, NoPreview
    <2>3. e.bmp \in Bitmap \cup {NoBmp} /\ e.rotate \in -3..3 /\ e.size \in Sizes
      BY <2>2 DEF Entry
    <2>4. call.rotate - e.rotate \in Int /\ e.rotate + (call.rotate - e.rotate) \in Int
      BY <2>1, <2>3
    <2>5. b \in Bitmap \cup {NoBmp} /\ (NoPreview(b) \/ PreviewAt(call.path))
      BY <2>2, <2>3, <2>4, RotatedType, RotatedKeepsKind
    <2>6. Rem4(e.rotate + (call.rotate - e.rotate)) \in -3..3
      BY <2>4, Rem4Type
    <2>7. hash' = [hash EXCEPT ![call.path] = new] /\ lbmp' = lbmp /\ apc' = "return"
      BY <1>6 DEF GetHit, loaderVars
    <2> HIDE DEF e, b
    <2>8. new \in Entry /\ new.bmp = b
      BY <2>2, <2>3, <2>5, <2>6 DEF Entry
    <2> HIDE DEF new
    <2>9. QED
      BY <1>2, <2>1, <2>5, <2>7, <2>8
  <1>7. CASE GetPrepend \/ GetReturn
    BY <1>7, SameClean DEF GetPrepend, GetReturn, PInv, NoPreview, loaderVars
  <1>8. CASE GetLoad
    <2> DEFINE file == LoadedByCall
    <2>1. /\ call.path \in Paths /\ call.size \in Sizes /\ call.rotate \in Int
          /\ disk \in [Paths -> Picture]
      BY <1>0, <1>8 DEF GetLoad, IInv, TypeOK
    <2>2. file \in Bitmap \cup {NoBmp} /\ (~call.fast => NoPreview(file))
      BY <2>1, LoadedType, LoadedGood DEF LoadedByCall
    <2>3. /\ abmp' = Rotated(file, call.rotate) /\ hash' = hash /\ lbmp' = lbmp
          /\ apc' = IF call.fast THEN "return" ELSE "add"
      BY <1>8 DEF GetLoad, loaderVars
    <2> HIDE DEF file
    <2>4. ~call.fast => NoPreview(abmp')
      BY <2>1, <2>2, <2>3, RotatedKeepsKind
    <2>5. QED
      BY <2>3, <2>4, SameClean DEF PInv, NoPreview
  <1>9. CASE GetAdd
    <2> DEFINE v == [size |-> call.size, rotate |-> call.rotate, bmp |-> abmp]
    <2>1. call.path \in Paths /\ v \in Entry
      BY <1>0, <1>9 DEF GetAdd, IInv, TypeOK, Entry
    <2>2. /\ hash' = [hash EXCEPT ![call.path] = v] /\ lbmp' = lbmp /\ apc' = "return"
          /\ apc = "add"
      BY <1>9 DEF GetAdd, AddBmpHash, loaderVars
    <2>3. NoPreview(v.bmp)
      BY <2>2 DEF PInv
    <2> HIDE DEF v
    <2>4. QED
      BY <1>2, <2>1, <2>2, <2>3
  <1>10. QED
    BY <1>3, <1>4, <1>5, <1>6, <1>7, <1>8, <1>9 DEF CallStep

\* And those of the client, whatever it passes to Replace.
LEMMA OtherStepNoPreview ==
  IInv /\ PInv /\ (ClientStep \/ ExitStep \/ UNCHANGED vars) => PInv' /\ Clean
  <1> SUFFICES ASSUME IInv, PInv, ClientStep \/ ExitStep \/ UNCHANGED vars
               PROVE  PInv' /\ Clean
    OBVIOUS
  <1>1. ASSUME hash' = hash, lbmp' = lbmp, (apc' = apc /\ abmp' = abmp) \/ apc' # "add"
        PROVE  PInv' /\ Clean
    <2>1. PInv'
      BY <1>1 DEF PInv, NoPreview
    <2>2. QED
      BY <1>1, <2>1, SameClean
  <1>2. CASE UNCHANGED vars
    BY <1>1, <1>2 DEF vars, loaderVars, callVars
  <1>3. CASE ExitStep
    BY <1>1, <1>3 DEF ExitStep, DestroyFrame, ClearThread, ClearThreadDelete,
       ClearThreadWaited, loaderVars, callVars
  <1>4. CASE ClientStep
    <2>1. ASSUME NEW prior \in BOOLEAN, Clear(prior) PROVE PInv' /\ Clean
      BY <1>1, <2>1 DEF Clear, loaderVars, callVars
    <2>2. ASSUME NEW p \in Paths, NEW s \in Sizes, NEW r \in Rotations,
                 AppendTicket(p, s, r) \/ PrependTicket(p, s, r)
          PROVE  PInv' /\ Clean
      BY <1>1, <2>2 DEF AppendTicket, PrependTicket, loaderVars, callVars
    <2>3. ASSUME NEW p \in Paths, NEW s \in Sizes, NEW r \in Rotations,
                 NEW fast \in BOOLEAN, GetFiBitmap(p, s, r, fast)
          PROVE  PInv' /\ Clean
      BY <1>1, <2>3 DEF GetFiBitmap, loaderVars
    <2>4. ASSUME NEW p \in Paths, Remove(p) PROVE PInv' /\ Clean
      BY <1>1, <2>4 DEF Remove, loaderVars
    <2>5. ASSUME NEW p \in Paths, NEW r \in Rotations, NEW diff \in BOOLEAN,
                 NEW b \in Given[p], Replace(p, b, diff, r)
          PROVE  PInv' /\ Clean
      BY <1>1, <2>5 DEF Replace, loaderVars, callVars
    <2>6. CASE TakeEvent \/ OnClose
      BY <1>1, <2>6 DEF TakeEvent, OnClose, loaderVars, callVars
    <2>7. ASSUME NEW p \in Paths, NEW picture \in Written, WriteFile(p, picture)
          PROVE  PInv' /\ Clean
      BY <1>1, <2>7 DEF WriteFile, loaderVars, callVars
    <2>8. QED
      BY <1>4, <2>1, <2>2, <2>3, <2>4, <2>5, <2>6, <2>7 DEF ClientStep
  <1>5. QED
    BY <1>2, <1>3, <1>4

\* A preview shown while the good picture is still being loaded gets into mBmpHash
\* only if the client itself passes it to Replace: no load, hit or eviction, in any
\* interleaving, brings one in or takes one to another path.
THEOREM PreviewsStayOut == Spec => NoPreviewCached
  <1> DEFINE Step == ReplaceStore \/ \A p \in Paths : PreviewAt(p)' => PreviewAt(p)
  <1>1. Init => PInv
    BY DEF Init, PInv, NoPreview
  <1>2. IInv /\ PInv /\ [Next]_vars => PInv' /\ [Step]_vars
    BY LoaderStepNoPreview, CallStepNoPreview, OtherStepNoPreview
    DEF Next, Terminated, Clean
  <1>3. QED
    BY <1>1, <1>2, Invariance, PTL DEF Spec, NoPreviewCached
=============================================================================
