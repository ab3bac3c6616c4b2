-------------------------- MODULE KuHistory_proofs --------------------------
(***************************************************************************)
(* Proofs about KuHistory, for any set of files and any number of visits:  *)
(* the indices stay inside the arrays, and the arrays implement the two    *)
(* lines of KuFork.                                                        *)
(***************************************************************************)
EXTENDS KuHistory, SequenceTheorems, TLAPS

-----------------------------------------------------------------------------
(* Lemmas about the two parts of a line.                                   *)

\* The part of a line up to an entry, and the part after it.
LEMMA Parts ==
  ASSUME NEW s \in Seq(Files), NEW i \in Int, 0 <= i, i <= Len(s)
  PROVE  /\ SubSeq(s, 1, i) \in Seq(Files) /\ Len(SubSeq(s, 1, i)) = i
         /\ SubSeq(s, i + 1, Len(s)) \in Seq(Files)
         /\ Len(SubSeq(s, i + 1, Len(s))) = Len(s) - i
         /\ SubSeq(s, 1, i) \o SubSeq(s, i + 1, Len(s)) = s
  <1>1. Len(s) \in Nat /\ s \in [1..Len(s) -> Files]
    BY LenProperties
  <1>2. \A j \in 1..i : s[j] \in Files
    BY <1>1
  <1>3. \A j \in (i + 1)..Len(s) : s[j] \in Files
    BY <1>1
  <1>4. SubSeq(s, 1, i) \in Seq(Files) /\ Len(SubSeq(s, 1, i)) = i
    BY <1>1, <1>2, SubSeqProperties
  <1>5. /\ SubSeq(s, i + 1, Len(s)) \in Seq(Files)
        /\ Len(SubSeq(s, i + 1, Len(s))) = Len(s) - i
    <2> DEFINE rest == SubSeq(s, i + 1, Len(s))
    <2>1. i + 1 \in Int /\ Len(s) \in Int
      BY <1>1
    <2>2. /\ rest \in Seq(Files)
          /\ Len(rest) = IF i + 1 <= Len(s) THEN Len(s) - (i + 1) + 1 ELSE 0
      BY <2>1, <1>3, SubSeqProperties
    <2> HIDE DEF rest
    <2>3. Len(rest) = Len(s) - i
      BY <2>1, <2>2
    <2>4. QED
      BY <2>2, <2>3 DEF rest
  <1>6. SubSeq(s, 1, i) \o SubSeq(s, i + 1, Len(s)) = SubSeq(s, 1, Len(s))
    <2>1. 1 \in 1..Len(s) + 1 /\ i \in 1 - 1..Len(s) /\ Len(s) \in i..Len(s)
      BY <1>1
    <2>2. QED
      BY <2>1, ConcatAdjacentSubSeq
  <1>7. QED
    BY <1>4, <1>5, <1>6, SubSeqFull

\* What comes after the first line does not show in its beginning.
LEMMA Beginning ==
  ASSUME NEW s \in Seq(Files), NEW t \in Seq(Files), NEW i \in Int,
         1 <= i, i <= Len(s)
  PROVE  SubSeq(s \o t, 1, i) = SubSeq(s, 1, i)
  <1>1. Len(s) \in Nat
    BY LenProperties
  <1>2. 1 \in 1..Len(s) /\ i \in 1..Len(s)
    BY <1>1
  <1>3. QED
    BY <1>2, SubSeqOfConcat1

\* The same for a visit.
LEMMA BeginningOfVisit ==
  ASSUME NEW s \in Seq(Files), NEW f \in Files, NEW i \in Int, 1 <= i, i <= Len(s)
  PROVE  SubSeq(Append(s, f), 1, i) = SubSeq(s, 1, i)
  <1>1. Append(s, f) = s \o <<f>>
    BY AppendIsConcat
  <1>2. <<f>> \in Seq(Files)
    OBVIOUS
  <1>3. QED
    BY <1>1, <1>2, Beginning

\* An empty sequence is one of length 0.
LEMMA EmptyIff ==
  ASSUME NEW s \in Seq(Files)
  PROVE  Len(s) \in Nat /\ (s = <<>> <=> Len(s) = 0)
  BY EmptySeq, LenProperties

-----------------------------------------------------------------------------
(* The arrays and their indices.                                           *)

ArraysOK ==
  /\ main \in Seq(Files) /\ branch \in Seq(Files)
  /\ mainIndex \in Int /\ swapIndex \in Int /\ branchIndex \in Int
  /\ IndicesInside

OthersOK ==
  /\ isHistory \in BOOLEAN
  /\ sel \in Files \cup {NoPath}
  /\ disk \in SUBSET Files
  /\ yielding \in {"none", "select", "locate", "history"}
  /\ isHistory => yielding = "history"

\* A visit, traced or not, keeps the indices inside.
LEMMA TracingKeeps ==
  ASSUME ArraysOK, NEW p \in Files \cup {NoPath}, HistoryTracing(p)
  PROVE  ArraysOK'
  <1>1. CASE isHistory \/ p = NoPath
    BY <1>1 DEF HistoryTracing, ArraysOK, IndicesInside, arrays
  <1>2. CASE ~(isHistory \/ p = NoPath) /\ InTheMiddle
    <2>1. p \in Files
      BY <1>2
    <2>2. main # <<>> /\ mainIndex >= 0 /\ mainIndex < Len(main) - 1 /\ Len(main) \in Nat
      BY <1>2, EmptyIff DEF InTheMiddle, ArraysOK, IndicesInside
    <2>3. /\ branch' = SubSeq(main, (mainIndex + 1) + 1, Len(main))
          /\ branchIndex' = Len(branch') - 1 /\ swapIndex' = mainIndex
          /\ main' = Append(SubSeq(main, 1, mainIndex + 1), p)
          /\ mainIndex' = mainIndex + 1
      <3>1. mainIndex + 2 = (mainIndex + 1) + 1
        BY DEF ArraysOK
      <3>2. QED
        BY <1>2, <3>1 DEF HistoryTracing, TailAfter
    <2>4. /\ SubSeq(main, 1, mainIndex + 1) \in Seq(Files)
          /\ Len(SubSeq(main, 1, mainIndex + 1)) = mainIndex + 1
          /\ branch' \in Seq(Files) /\ Len(branch') = Len(main) - (mainIndex + 1)
      BY <2>2, <2>3, Parts DEF ArraysOK
    <2>5. main' \in Seq(Files) /\ Len(main') = mainIndex + 2 /\ main' # <<>>
      <3> DEFINE start == SubSeq(main, 1, mainIndex + 1)
      <3>1. start \in Seq(Files) /\ Len(start) = mainIndex + 1 /\ main' = Append(start, p)
        BY <2>3, <2>4
      <3> HIDE DEF start
      <3>2. main' \in Seq(Files) /\ main' # <<>> /\ Len(main') = Len(start) + 1
        BY <2>1, <3>1, AppendProperties
      <3>3. QED
        BY <3>1, <3>2 DEF ArraysOK
    <2>6. branch' # <<>>
      BY <2>2, <2>4, EmptyIff DEF ArraysOK
    <2>7. QED
      BY <2>2, <2>3, <2>4, <2>5, <2>6 DEF ArraysOK, IndicesInside
  <1>3. CASE ~(isHistory \/ p = NoPath) /\ ~InTheMiddle
    <2>1. p \in Files /\ Len(main) \in Nat
      BY <1>3, EmptyIff DEF ArraysOK
    <2>2. /\ main' = Append(main, p) /\ mainIndex' = mainIndex + 1
          /\ UNCHANGED <<branch, branchIndex, swapIndex>>
      BY <1>3 DEF HistoryTracing
    <2>3. main' \in Seq(Files) /\ Len(main') = Len(main) + 1 /\ main' # <<>>
      BY <2>1, <2>2, AppendProperties DEF ArraysOK
    <2>4. mainIndex = Len(main) - 1
      BY <1>3, <2>1, EmptyIff DEF InTheMiddle, ArraysOK, IndicesInside
    <2>5. QED
      BY <2>1, <2>2, <2>3, <2>4 DEF ArraysOK, IndicesInside
  <1>4. QED
    BY <1>1, <1>2, <1>3

\* Back and Forward move the main index between the entries there are.
LEMMA MoveKeeps ==
  ASSUME ArraysOK, mainIndex' \in 0..(Len(main) - 1), main # <<>>,
         UNCHANGED <<main, swapIndex, branch, branchIndex>>
  PROVE  ArraysOK'
  BY EmptyIff DEF ArraysOK, IndicesInside

\* What Branch makes of the arrays.
LEMMA BranchArrays ==
  ASSUME ArraysOK, Branch
  PROVE  /\ branch # <<>> /\ Len(branch) \in Nat /\ Len(main) \in Nat
         /\ swapIndex \in 0..(Len(main) - 2) /\ branchIndex \in 0..(Len(branch) - 1)
         /\ mainIndex \in (swapIndex + 1)..(Len(main) - 1)
         /\ SubSeq(main, 1, swapIndex + 1) \in Seq(Files)
         /\ Len(SubSeq(main, 1, swapIndex + 1)) = swapIndex + 1
         /\ branch' = SubSeq(main, (swapIndex + 1) + 1, Len(main))
         /\ branch' \in Seq(Files) /\ Len(branch') = Len(main) - (swapIndex + 1)
         /\ main' = SubSeq(main, 1, swapIndex + 1) \o branch
         /\ main' \in Seq(Files) /\ Len(main') = swapIndex + 1 + Len(branch)
         /\ mainIndex' = swapIndex + branchIndex + 1
         /\ branchIndex' = mainIndex - swapIndex - 1
         /\ swapIndex' = swapIndex
  <1>1. /\ branch # <<>> /\ Len(branch) \in Nat /\ Len(main) \in Nat
        /\ swapIndex \in 0..(Len(main) - 2) /\ branchIndex \in 0..(Len(branch) - 1)
        /\ mainIndex \in (swapIndex + 1)..(Len(main) - 1)
    BY EmptyIff DEF Branch, ArraysOK, IndicesInside
  <1>2. /\ branch' = SubSeq(main, (swapIndex + 1) + 1, Len(main))
        /\ main' = SubSeq(main, 1, swapIndex + 1) \o branch
        /\ mainIndex' = swapIndex + branchIndex + 1
        /\ branchIndex' = mainIndex - swapIndex - 1
        /\ swapIndex' = swapIndex
    <2>1. swapIndex + 2 = (swapIndex + 1) + 1
      BY DEF ArraysOK
    <2>2. QED
      BY <2>1 DEF Branch, TailAfter
  <1>3. /\ SubSeq(main, 1, swapIndex + 1) \in Seq(Files)
        /\ Len(SubSeq(main, 1, swapIndex + 1)) = swapIndex + 1
        /\ branch' \in Seq(Files) /\ Len(branch') = Len(main) - (swapIndex + 1)
    BY <1>1, <1>2, Parts DEF ArraysOK
  <1>4. main' \in Seq(Files) /\ Len(main') = swapIndex + 1 + Len(branch)
    BY <1>1, <1>2, <1>3, ConcatProperties DEF ArraysOK
  <1>5. QED
    BY <1>1, <1>2, <1>3, <1>4

LEMMA BranchKeeps ==
  ASSUME ArraysOK, Branch
  PROVE  ArraysOK'
  <1>1. /\ branch' \in Seq(Files) /\ Len(branch') > 0
        /\ main' \in Seq(Files) /\ Len(main') > 0
    <2>1. /\ branch' \in Seq(Files) /\ Len(branch') = Len(main) - (swapIndex + 1)
          /\ main' \in Seq(Files) /\ Len(main') = swapIndex + 1 + Len(branch)
      BY BranchArrays
    <2>2. /\ Len(main) \in Nat /\ swapIndex \in 0..(Len(main) - 2)
          /\ Len(branch) \in Nat
      BY BranchArrays
    <2>3. QED
      BY <2>1, <2>2
  <1>2. branch' # <<>> /\ main' # <<>>
    BY <1>1, EmptyIff
  <1>3. /\ mainIndex' \in 0..(Len(main') - 1)
        /\ swapIndex' \in 0..(Len(main') - 2)
        /\ branchIndex' \in 0..(Len(branch') - 1)
    <2>1. /\ Len(branch) \in Nat /\ Len(main) \in Nat
          /\ swapIndex \in 0..(Len(main) - 2) /\ branchIndex \in 0..(Len(branch) - 1)
          /\ mainIndex \in (swapIndex + 1)..(Len(main) - 1)
      BY BranchArrays
    <2>2. /\ Len(branch') = Len(main) - (swapIndex + 1)
          /\ Len(main') = swapIndex + 1 + Len(branch)
          /\ mainIndex' = swapIndex + branchIndex + 1
          /\ branchIndex' = mainIndex - swapIndex - 1
          /\ swapIndex' = swapIndex
      BY BranchArrays
    <2>3. QED
      BY <2>1, <2>2
  <1>4. Len(main') \in Nat /\ Len(branch') \in Nat
    BY <1>1, EmptyIff
  <1>5. QED
    BY <1>1, <1>2, <1>3, <1>4 DEF ArraysOK, IndicesInside

\* Which file Locate ends with.
LEMMA FirstChildType ==
  ASSUME disk \in SUBSET Files
  PROVE  FirstChild \subseteq Files \cup {NoPath}
  BY DEF FirstChild

\* The invariant in two parts: the arrays, and the rest.
LEMMA TypeParts == IInv <=> ArraysOK /\ OthersOK
  BY DEF IInv, TypeOK, ArraysOK, OthersOK

\* The same of the next state.
LEMMA TypePartsNext == IInv' <=> ArraysOK' /\ OthersOK'
  BY DEF IInv, TypeOK, ArraysOK, OthersOK

-----------------------------------------------------------------------------
(* The indices stay inside.                                                *)

LEMMA InitInvariant == Init => IInv
  <1> SUFFICES ASSUME Init PROVE IInv
    OBVIOUS
  <1>1. main = <<>> /\ branch = <<>> /\ Len(<<>>) = 0 /\ <<>> \in Seq(Files)
    BY EmptySeq DEF Init
  <1>2. ArraysOK
    BY <1>1 DEF Init, ArraysOK, IndicesInside
  <1>3. QED
    BY <1>2, TypeParts DEF Init, OthersOK

\* Locate goes on: the arrays keep their indices, a file or a directory is selected.
LEMMA GoesOnKeeps ==
  ASSUME IInv, LocateGoesOn
  PROVE  ArraysOK' /\ sel' \in Files \cup {NoPath}
  <1>1. PICK p \in IF sel = NoPath THEN FirstChild ELSE {sel} :
          sel' = p /\ HistoryTracing(p)
    BY DEF LocateGoesOn
  <1>2. p \in Files \cup {NoPath}
    BY <1>1, TypeParts, FirstChildType DEF OthersOK
  <1>3. ArraysOK'
    BY <1>1, <1>2, TypeParts, TracingKeeps
  <1>4. QED
    BY <1>1, <1>2, <1>3

\* A command of the history leaves mIsHistory set only while its Locate yields.
LEMMA HistoryLocateKeeps ==
  ASSUME IInv, NEW f, HistoryLocate(f)
  PROVE  /\ sel' \in Files \cup {NoPath} /\ isHistory' \in BOOLEAN
         /\ yielding' \in {"none", "select", "locate", "history"}
         /\ isHistory' => yielding' = "history"
  BY TypeParts, FirstChildType DEF HistoryLocate, OthersOK

LEMMA NextInvariant == IInv /\ [Next]_vars => IInv'
  <1> SUFFICES ASSUME IInv, [Next]_vars PROVE IInv'
    OBVIOUS
  <1> USE TypeParts, TypePartsNext DEF OthersOK
  <1>1. ASSUME NEW p \in Files, Select(p) PROVE IInv'
    BY <1>1, TracingKeeps DEF Select
  <1>2. ASSUME NEW p \in Files, Vanish(p) PROVE IInv'
    <2>1. ArraysOK'
      BY <1>2 DEF Vanish, arrays, ArraysOK, IndicesInside
    <2>2. QED
      BY <1>2, <2>1 DEF Vanish
  <1>3. CASE SelectDir
    <2>1. ArraysOK'
      BY <1>3 DEF SelectDir, arrays, ArraysOK, IndicesInside
    <2>2. QED
      BY <1>3, <2>1 DEF SelectDir, MayYield
  <1>4. CASE SelectDirDone
    BY <1>4, TracingKeeps DEF SelectDirDone
  <1>5. CASE LocateDir
    <2>1. CASE sel' \in FirstChild /\ HistoryTracing(sel') /\ UNCHANGED yielding
      BY <1>5, <2>1, FirstChildType, TracingKeeps DEF LocateDir
    <2>2. CASE MayYield /\ sel' = NoPath /\ yielding' = "locate" /\ UNCHANGED arrays
      <3>1. ArraysOK'
        BY <2>2 DEF arrays, ArraysOK, IndicesInside
      <3>2. QED
        BY <1>5, <2>2, <3>1 DEF LocateDir, MayYield
    <2>3. QED
      BY <1>5, <2>1, <2>2 DEF LocateDir
  <1>6. CASE LocateDirDone
    BY <1>6, GoesOnKeeps DEF LocateDirDone
  <1>7. CASE Back
    <2>1. ArraysOK'
      BY <1>7, MoveKeeps, EmptyIff DEF Back, ArraysOK, IndicesInside
    <2>2. QED
      BY <1>7, <2>1, HistoryLocateKeeps DEF Back
  <1>8. CASE Forward
    <2>1. ArraysOK'
      BY <1>8, MoveKeeps, EmptyIff DEF Forward, ArraysOK, IndicesInside
    <2>2. QED
      BY <1>8, <2>1, HistoryLocateKeeps DEF Forward
  <1>9. CASE Branch
    BY <1>9, BranchKeeps, HistoryLocateKeeps DEF Branch
  <1>10. CASE HistoryLocateDone
    BY <1>10, GoesOnKeeps DEF HistoryLocateDone
  <1>11. CASE UNCHANGED vars
    BY <1>11 DEF vars, arrays, ArraysOK, IndicesInside
  <1>12. QED
    BY <1>1, <1>2, <1>3, <1>4, <1>5, <1>6, <1>7, <1>8, <1>9, <1>10, <1>11 DEF Next

\* Whatever the user does, in whatever nesting: types hold and no index of the
\* history leaves its array (kuFrame.cpp 1101-1140, 2457-2472).
THEOREM HistoryInvariance == Spec => []IInv
  <1>1. QED
    BY InitInvariant, NextInvariant, PTL DEF Spec

THEOREM HistoryTypeCorrect == Spec => []TypeOK
  <1>1. IInv => TypeOK
    BY DEF IInv
  <1>2. QED
    BY <1>1, HistoryInvariance, PTL

\* No index of the history leaves its array.
THEOREM HistoryInside == Spec => []IndicesInside
  <1>1. IInv => IndicesInside
    BY DEF IInv
  <1>2. QED
    BY <1>1, HistoryInvariance, PTL

-----------------------------------------------------------------------------
(* Back and forward start from the picture on screen.                      *)

\* What ShownIsCurrent rests on: while every file exists, every Locate finds its
\* file, mIsHistory is never left set, and what is selected, also while a
\* ReloadThumbs yields, was traced.
Traced ==
  disk = Files =>
    /\ isHistory = FALSE /\ yielding # "history"
    /\ sel # NoPath => main # <<>> /\ main[mainIndex + 1] = sel

\* A visit that is traced is the entry the history is at.
LEMMA TracedVisit ==
  ASSUME ArraysOK, isHistory = FALSE, NEW p \in Files, HistoryTracing(p)
  PROVE  main' # <<>> /\ main'[mainIndex' + 1] = p
  <1>1. p # NoPath
    BY HistoryAssumption
  <1>2. CASE InTheMiddle
    <2> DEFINE start == SubSeq(main, 1, mainIndex + 1)
    <2>1. main # <<>> /\ mainIndex >= 0 /\ mainIndex < Len(main) - 1 /\ Len(main) \in Nat
      BY <1>2, EmptyIff DEF InTheMiddle, ArraysOK, IndicesInside
    <2>2. start \in Seq(Files) /\ Len(start) = mainIndex + 1
      BY <2>1, Parts DEF ArraysOK
    <2>3. main' = Append(start, p) /\ mainIndex' = mainIndex + 1
      BY <1>1, <1>2 DEF HistoryTracing
    <2> HIDE DEF start
    <2>4. main' # <<>> /\ Append(start, p)[Len(start) + 1] = p
      BY <2>2, <2>3, AppendProperties
    <2>5. QED
      BY <2>2, <2>3, <2>4
  <1>3. CASE ~InTheMiddle
    <2>1. Len(main) \in Nat /\ mainIndex = Len(main) - 1
      BY <1>3, EmptyIff DEF InTheMiddle, ArraysOK, IndicesInside
    <2>2. main' = Append(main, p) /\ mainIndex' = mainIndex + 1
      BY <1>1, <1>3 DEF HistoryTracing
    <2>3. main' # <<>> /\ Append(main, p)[Len(main) + 1] = p
      BY <2>2, AppendProperties DEF ArraysOK
    <2>4. QED
      BY <2>1, <2>2, <2>3
  <1>4. QED
    BY <1>2, <1>3

\* A command of the history whose file exists shows the entry it goes to.
LEMMA TracedLocate ==
  ASSUME ArraysOK', Traced, disk = Files, disk' = disk, main' # <<>>,
         HistoryLocate(main'[mainIndex' + 1])
  PROVE  Traced'
  <1>1. main'[mainIndex' + 1] \in Files
    <2>1. Len(main') \in Nat /\ main' \in Seq(Files)
      BY EmptyIff DEF ArraysOK
    <2>2. ArraysOK' => mainIndex' \in -1..(Len(main') - 1)
      BY DEF ArraysOK, IndicesInside
    <2>3. ArraysOK' => mainIndex' >= 0
      BY Zenon DEF ArraysOK, IndicesInside
    <2>4. mainIndex' + 1 \in 1..Len(main')
      BY <2>1, <2>2, <2>3
    <2>5. QED
      BY <2>1, <2>4, ElementOfSeq
  <1>2. sel' = main'[mainIndex' + 1] /\ isHistory' = FALSE /\ yielding' = yielding
    BY <1>1 DEF HistoryLocate
  <1>3. QED
    BY <1>2 DEF Traced

LEMMA TracedNext == IInv /\ Traced /\ [Next]_vars => Traced'
  <1> SUFFICES ASSUME IInv, Traced, [Next]_vars, disk' = Files
               PROVE  Traced'
    BY DEF Traced
  <1>1. ArraysOK /\ OthersOK /\ ArraysOK'
    BY TypeParts, TypePartsNext, NextInvariant
  <1>2. disk = Files
    BY <1>1 DEF Next, Select, Vanish, SelectDir, SelectDirDone, LocateDir, LocateDirDone,
       Back, Forward, Branch, HistoryLocateDone, vars, OthersOK
  <1>3. isHistory = FALSE /\ yielding # "history"
    BY <1>2 DEF Traced
  <1>4. ASSUME NEW p \in Files \cup {NoPath}, HistoryTracing(p), sel' = p,
               isHistory' = FALSE, yielding' # "history"
        PROVE  Traced'
    BY <1>1, <1>3, <1>4, TracedVisit DEF Traced
  <1>5. ASSUME NEW p \in Files, Select(p) PROVE Traced'
    BY <1>3, <1>4, <1>5 DEF Select
  <1>6. ASSUME NEW p \in Files, Vanish(p) PROVE Traced'
    BY <1>2, <1>6 DEF Vanish
  <1>7. CASE SelectDir
    BY <1>3, <1>7 DEF SelectDir, Traced
  <1>8. CASE SelectDirDone
    <2>1. CASE sel = NoPath
      BY <1>3, <1>8, <2>1 DEF SelectDirDone, Traced
    <2>2. CASE sel # NoPath
      BY <1>1, <1>3, <1>4, <1>8, <2>2 DEF SelectDirDone, OthersOK
    <2>3. QED
      BY <2>1, <2>2
  <1>9. CASE LocateDir
    <2>1. isHistory' = FALSE /\ yielding' # "history"
      BY <1>3, <1>9 DEF LocateDir
    <2>2. CASE sel' = NoPath
      BY <2>1, <2>2 DEF Traced
    <2>3. CASE sel' # NoPath
      <3>1. sel' \in FirstChild /\ HistoryTracing(sel')
        BY <1>9, <2>3 DEF LocateDir
      <3>2. sel' \in Files \cup {NoPath}
        BY <1>1, <3>1, FirstChildType DEF OthersOK
      <3>3. PICK p \in Files \cup {NoPath} : p = sel'
        BY <3>2
      <3>4. QED
        BY <1>4, <2>1, <3>1, <3>3
    <2>4. QED
      BY <2>2, <2>3
  <1>10. CASE LocateDirDone
    <2>1. isHistory' = FALSE /\ yielding' # "history"
      BY <1>3, <1>10 DEF LocateDirDone
    <2>2. PICK p \in IF sel = NoPath THEN FirstChild ELSE {sel} :
            sel' = p /\ HistoryTracing(p)
      BY <1>10 DEF LocateDirDone, LocateGoesOn
    <2>3. p \in Files \cup {NoPath}
      BY <1>1, <2>2, FirstChildType DEF OthersOK
    <2>4. QED
      BY <1>4, <2>1, <2>2, <2>3
  <1>11. CASE Back
    <2>1. /\ main' = main /\ mainIndex' = mainIndex - 1 /\ mainIndex \in Int
          /\ HistoryLocate(main[mainIndex]) /\ main # <<>>
      BY <1>1, <1>11, EmptyIff DEF Back, ArraysOK, IndicesInside
    <2>2. mainIndex' + 1 = mainIndex
      BY <2>1
    <2>3. QED
      BY <1>1, <1>2, <2>1, <2>2, TracedLocate
  <1>12. CASE Forward
    <2>1. /\ main' = main /\ mainIndex' = mainIndex + 1 /\ mainIndex \in Int
          /\ HistoryLocate(main[mainIndex + 2]) /\ main # <<>>
      BY <1>1, <1>12, EmptyIff DEF Forward, ArraysOK, IndicesInside
    <2>2. mainIndex' + 1 = mainIndex + 2
      BY <2>1
    <2>3. QED
      BY <1>1, <1>2, <2>1, <2>2, TracedLocate
  <1>13. CASE Branch
    <2>1. HistoryLocate(main'[mainIndex' + 1])
      BY <1>13 DEF Branch
    <2>2. Len(main') > 0
      BY <1>1, <1>13, BranchArrays
    <2>3. main' # <<>>
      BY <2>2, EmptySeq
    <2>4. QED
      BY <1>1, <1>2, <2>1, <2>3, TracedLocate
  <1>14. CASE HistoryLocateDone
    BY <1>3, <1>14 DEF HistoryLocateDone
  <1>15. CASE UNCHANGED vars
    BY <1>15 DEF vars, arrays, Traced
  <1>16. QED
    BY <1>5, <1>6, <1>7, <1>8, <1>9, <1>10, <1>11, <1>12, <1>13, <1>14, <1>15 DEF Next

\* As long as no file has vanished, the entry the history is at is the file that
\* is selected, in whatever nesting the selections and the commands come.
THEOREM HistoryCurrent == Spec => []ShownIsCurrent
  <1>1. Init => Traced
    BY DEF Init, Traced
  <1>2. Traced => ShownIsCurrent
    BY DEF Traced, ShownIsCurrent
  <1>3. QED
    BY <1>1, <1>2, TracedNext, HistoryInvariance, PTL DEF Spec

-----------------------------------------------------------------------------
(* The arrays implement the two lines of KuFork.                           *)

\* While the arrays stay, so do the lines they stand for.
LEMMA LinesStay ==
  ASSUME UNCHANGED arrays
  PROVE  UNCHANGED Fork!vars
  BY DEF arrays, Fork!vars, Here, There

\* A traced path is a visit.
LEMMA TracingIsVisit ==
  ASSUME ArraysOK, NEW p \in Files \cup {NoPath}, HistoryTracing(p)
  PROVE  UNCHANGED Fork!vars \/ \E f \in Files : Fork!Visit(f)
  <1>1. CASE isHistory \/ p = NoPath
    BY <1>1, LinesStay DEF HistoryTracing
  <1>2. CASE ~(isHistory \/ p = NoPath) /\ InTheMiddle
    <2> DEFINE start == SubSeq(main, 1, mainIndex + 1)
    <2>1. p \in Files
      BY <1>2
    <2>2. main # <<>> /\ mainIndex >= 0 /\ mainIndex < Len(main) - 1 /\ Len(main) \in Nat
      BY <1>2, EmptyIff DEF InTheMiddle, ArraysOK, IndicesInside
    <2>3. /\ branch' = SubSeq(main, (mainIndex + 1) + 1, Len(main))
          /\ branchIndex' = Len(branch') - 1 /\ swapIndex' = mainIndex
          /\ main' = Append(start, p)
          /\ mainIndex' = mainIndex + 1
      <3>1. mainIndex + 2 = (mainIndex + 1) + 1
        BY DEF ArraysOK
      <3>2. QED
        BY <1>2, <3>1 DEF HistoryTracing, TailAfter
    <2>4. /\ start \in Seq(Files) /\ Len(start) = mainIndex + 1
          /\ branch' \in Seq(Files) /\ Len(branch') = Len(main) - (mainIndex + 1)
          /\ start \o branch' = main
      <3>1. /\ main \in Seq(Files) /\ mainIndex + 1 \in Int
            /\ 0 <= mainIndex + 1 /\ mainIndex + 1 <= Len(main)
        BY <2>2 DEF ArraysOK
      <3>2. QED
        BY <2>3, <3>1, Parts
    <2>5. branch' # <<>>
      BY <2>2, <2>4, EmptyIff DEF ArraysOK
    <2>6. SubSeq(main', 1, swapIndex' + 1) = start
      <3> HIDE DEF start
      <3>1. SubSeq(main', 1, mainIndex + 1) = SubSeq(start, 1, mainIndex + 1)
        BY <2>1, <2>2, <2>3, <2>4, BeginningOfVisit DEF ArraysOK
      <3>2. QED
        BY <2>3, <2>4, <3>1, SubSeqFull
    <2>7. There' = [visits |-> main, at |-> Len(main)]
      <3>1. swapIndex' + branchIndex' + 2 = Len(main)
        BY <2>2, <2>3, <2>4 DEF ArraysOK
      <3>2. QED
        BY <2>4, <2>5, <2>6, <3>1 DEF There
    <2>8. Here' = [visits |-> Append(SubSeq(Here.visits, 1, Here.at), p), at |-> Here.at + 1]
      BY <2>3 DEF Here
    <2>9. Here.at < Len(Here.visits) /\ There' = [Here EXCEPT !.at = Len(Here.visits)]
          /\ swapIndex' + 1 = Here.at
      BY <2>2, <2>3, <2>7 DEF Here, ArraysOK
    <2>10. QED
      BY <2>1, <2>8, <2>9 DEF Fork!Visit
  <1>3. CASE ~(isHistory \/ p = NoPath) /\ ~InTheMiddle
    <2>1. p \in Files /\ Len(main) \in Nat
      BY <1>3, EmptyIff DEF ArraysOK
    <2>2. /\ main' = Append(main, p) /\ mainIndex' = mainIndex + 1
          /\ UNCHANGED <<branch, branchIndex, swapIndex>>
      BY <1>3 DEF HistoryTracing
    <2>3. mainIndex + 1 = Len(main)
      BY <1>3, <2>1, EmptyIff DEF InTheMiddle, ArraysOK, IndicesInside
    <2>4. SubSeq(Here.visits, 1, Here.at) = main
      BY <2>3, SubSeqFull DEF Here, ArraysOK
    <2>5. Here' = [visits |-> Append(SubSeq(Here.visits, 1, Here.at), p), at |-> Here.at + 1]
      <3>1. Here' = [visits |-> Append(main, p), at |-> (mainIndex + 1) + 1]
        BY <2>2 DEF Here
      <3>2. Here.at = mainIndex + 1
        BY DEF Here
      <3>3. QED
        BY <2>4, <3>1, <3>2
    <2>6. There' = There
      <3>1. CASE branch = <<>>
        BY <2>2, <3>1 DEF There
      <3>2. CASE branch # <<>>
        <4>1. SubSeq(main', 1, swapIndex + 1) = SubSeq(main, 1, swapIndex + 1)
          BY <2>1, <2>2, <3>2, BeginningOfVisit DEF ArraysOK, IndicesInside
        <4>2. QED
          BY <2>2, <3>2, <4>1 DEF There
      <3>3. QED
        BY <3>1, <3>2
    <2>7. ~(Here.at < Len(Here.visits))
      BY <2>1, <2>3 DEF Here
    <2>8. QED
      BY <2>1, <2>2, <2>5, <2>6, <2>7 DEF Fork!Visit
  <1>4. QED
    BY <1>1, <1>2, <1>3

LEMMA BranchIsJump ==
  ASSUME ArraysOK, Branch
  PROVE  Fork!Jump
  <1> DEFINE start == SubSeq(main, 1, swapIndex + 1)
  <1>1. /\ branch # <<>> /\ Len(branch) \in Nat /\ Len(main) \in Nat
        /\ swapIndex \in 0..(Len(main) - 2) /\ branchIndex \in 0..(Len(branch) - 1)
        /\ mainIndex \in (swapIndex + 1)..(Len(main) - 1)
        /\ start \in Seq(Files) /\ Len(start) = swapIndex + 1
        /\ branch' \in Seq(Files) /\ Len(branch') = Len(main) - (swapIndex + 1)
        /\ main' = start \o branch
        /\ mainIndex' = swapIndex + branchIndex + 1
        /\ branchIndex' = mainIndex - swapIndex - 1
        /\ swapIndex' = swapIndex
    BY BranchArrays
  <1>2. start \o branch' = main
    <2>1. /\ main \in Seq(Files) /\ swapIndex + 1 \in Int
          /\ 0 <= swapIndex + 1 /\ swapIndex + 1 <= Len(main)
      BY <1>1 DEF ArraysOK
    <2>2. start \o SubSeq(main, (swapIndex + 1) + 1, Len(main)) = main
      BY <2>1, Parts
    <2>3. branch' = SubSeq(main, (swapIndex + 1) + 1, Len(main))
      BY BranchArrays
    <2>4. QED
      BY <2>2, <2>3
  <1>3. branch' # <<>>
    BY <1>1, EmptyIff
  <1>4. Here' = There
    <2>1. mainIndex' + 1 = swapIndex + branchIndex + 2
      BY <1>1
    <2>2. QED
      BY <1>1, <2>1 DEF Here, There
  <1>5. SubSeq(main', 1, swapIndex' + 1) = start
    <2> HIDE DEF start
    <2>1. SubSeq(start \o branch, 1, swapIndex + 1) = SubSeq(start, 1, swapIndex + 1)
      BY <1>1, Beginning DEF ArraysOK
    <2>2. QED
      BY <1>1, <2>1, SubSeqFull
  <1>6. There' = Here
    <2>1. swapIndex' + branchIndex' + 2 = mainIndex + 1
      BY <1>1
    <2>2. QED
      BY <1>2, <1>3, <1>5, <2>1 DEF Here, There
  <1>7. There # [visits |-> <<>>, at |-> 0]
    <2>1. There.at = swapIndex + branchIndex + 2
      BY <1>1 DEF There
    <2>2. There.at # 0
      BY <1>1, <2>1
    <2>3. QED
      BY <2>2
  <1>8. Here.at > swapIndex + 1
    BY <1>1 DEF Here
  <1>9. QED
    BY <1>1, <1>4, <1>6, <1>7, <1>8 DEF Fork!Jump, Fork!Nowhere

\* One step of the history is one step on the two lines, or none.
LEMMA StepIsForkStep == IInv /\ [Next]_vars => [Fork!Next]_(Fork!vars)
  <1> SUFFICES ASSUME IInv, [Next]_vars
               PROVE  Fork!Next \/ UNCHANGED Fork!vars
    OBVIOUS
  <1> USE TypeParts DEF OthersOK
  <1>1. ASSUME NEW p \in Files \cup {NoPath}, HistoryTracing(p)
        PROVE  Fork!Next \/ UNCHANGED Fork!vars
    BY <1>1, TracingIsVisit DEF Fork!Next
  <1>2. ASSUME NEW p \in Files, Select(p) PROVE Fork!Next \/ UNCHANGED Fork!vars
    BY <1>1, <1>2 DEF Select
  <1>3. ASSUME NEW p \in Files, Vanish(p) PROVE Fork!Next \/ UNCHANGED Fork!vars
    BY <1>3, LinesStay DEF Vanish
  <1>4. CASE SelectDir
    BY <1>4, LinesStay DEF SelectDir
  <1>5. CASE SelectDirDone
    BY <1>1, <1>5 DEF SelectDirDone
  <1>6. CASE LocateDir
    BY <1>1, <1>6, LinesStay, FirstChildType DEF LocateDir
  <1>7. CASE LocateDirDone
    BY <1>1, <1>7, FirstChildType DEF LocateDirDone, LocateGoesOn
  <1>8. CASE Back
    <2>1. Fork!Back
      BY <1>8 DEF Back, Fork!Back, Here, There, ArraysOK
    <2>2. QED
      BY <2>1 DEF Fork!Next
  <1>9. CASE Forward
    <2>1. Fork!Forward
      BY <1>9 DEF Forward, Fork!Forward, Here, There, ArraysOK
    <2>2. QED
      BY <2>1 DEF Fork!Next
  <1>10. CASE Branch
    BY <1>10, BranchIsJump DEF Fork!Next
  <1>11. CASE HistoryLocateDone
    BY <1>1, <1>11, FirstChildType DEF HistoryLocateDone, LocateGoesOn
  <1>12. CASE UNCHANGED vars
    BY <1>12, LinesStay DEF vars
  <1>13. QED
    BY <1>2, <1>3, <1>4, <1>5, <1>6, <1>7, <1>8, <1>9, <1>10, <1>11, <1>12 DEF Next

\* The history keeps its promise to the user: the arrays and indices of kuFrame
\* are the two lines of KuFork, jump is its own inverse, and nothing is forgotten
\* but the other line by a visit from the middle.
THEOREM HistoryKeepsPromise == Spec => KeepsPromise
  <1>1. Init => Fork!Init
    BY DEF Init, Fork!Init, Fork!Nowhere, Here, There
  <1>2. QED
    BY <1>1, StepIsForkStep, HistoryInvariance, PTL DEF Spec, KeepsPromise, Fork!Spec
=============================================================================
