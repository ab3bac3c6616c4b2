------------------------- MODULE KuTasksRows_proofs -------------------------
(***************************************************************************)
(* Which rows of KuTasks run when the dialog is at rest, for any number of *)
(* tasks: what the loop of CheckConcurrentRun has counted when it comes to *)
(* a row, and that the steps after a check keep what it has arranged.      *)
(***************************************************************************)
EXTENDS KuTasks_proofs

-----------------------------------------------------------------------------
(* The loop's count, row by row.                                           *)

\* A set of numbers that is not empty has a least one.
LEMMA LeastOf ==
  ASSUME NEW T, T \subseteq Nat, T # {}
  PROVE  \E n \in T : \A m \in T : n <= m
  <1>1. PICK n \in T : \A m \in T : <<m, n>> \notin OpToRel(<, Nat)
    BY WFMin, NatLessThanWellFounded
  <1>2. ASSUME NEW m \in T PROVE n <= m
    <2>1. <<m, n>> \notin OpToRel(<, Nat)
      BY <1>1
    <2>2. ~(m < n)
      BY <2>1 DEF OpToRel
    <2>3. QED
      BY <2>2
  <1>3. QED
    BY <1>2

\* The count after row i, from the count c after the rows above it.
After(i, c, vanished) ==
  IF ~c.on THEN c
  ELSE IF Passed(rows[i], vanished) THEN [n |-> c.n, on |-> TRUE]
  ELSE [n  |-> CheckRow(thread[rows[i]], queuing[rows[i]], c.n).concurrent,
        on |-> CheckRow(thread[rows[i]], queuing[rows[i]], c.n).then # "break"]

Zero == [n |-> 0, on |-> TRUE]

\* count holds what the loop has counted after each of the first m rows.
Counts(count, m, vanished) ==
  count = [i \in 0..m |-> IF i = 0 THEN Zero ELSE After(i, count[i - 1], vanished)]

\* There is such a count, for any number of rows.
LEMMA CountExists ==
  ASSUME NEW N \in Nat, NEW vanished
  PROVE  \E count : Counts(count, N, vanished)
  <1> DEFINE Bad == {m \in 0..N : ~ \E count : Counts(count, m, vanished)}
  <1>1. SUFFICES ASSUME Bad # {} PROVE FALSE
    BY <1>1
  <1>2. Bad \subseteq Nat
    OBVIOUS
  <1> HIDE DEF Bad
  <1>3. PICK m \in Bad : \A k \in Bad : m <= k
    BY <1>1, <1>2, LeastOf
  <1>4. m \in 0..N /\ ~ \E count : Counts(count, m, vanished)
    BY <1>3 DEF Bad
  <1>5. CASE m = 0
    <2> DEFINE one == [i \in 0..0 |-> Zero]
    <2>1. one = [i \in 0..0 |-> IF i = 0 THEN Zero ELSE After(i, one[i - 1], vanished)]
      OBVIOUS
    <2>2. Counts(one, m, vanished)
      BY <1>5, <2>1 DEF Counts
    <2>3. QED
      BY <1>4, <2>2
  <1>6. CASE m # 0
    <2>1. m - 1 \in 0..N /\ ~(m <= m - 1) /\ m \in Nat
      BY <1>4, <1>6
    <2>2. PICK count : Counts(count, m - 1, vanished)
      BY <1>3, <2>1 DEF Bad
    <2> DEFINE more == [i \in 0..m |-> IF i = m THEN After(m, count[m - 1], vanished)
                                                ELSE count[i]]
    <2>3. ASSUME NEW i \in 0..m
          PROVE  more[i] = IF i = 0 THEN Zero ELSE After(i, more[i - 1], vanished)
      <3>1. CASE i = m
        <4>1. i # 0 /\ i - 1 \in 0..m /\ i - 1 # m
          BY <2>1, <3>1, <1>6
        <4>2. more[i] = After(m, count[m - 1], vanished) /\ more[i - 1] = count[i - 1]
          BY <3>1, <4>1
        <4>3. QED
          BY <3>1, <4>1, <4>2
      <3>2. CASE i # m /\ i # 0
        <4>1. i \in 0..(m - 1) /\ i - 1 \in 0..(m - 1) /\ i - 1 \in 0..m /\ i - 1 # m
          BY <2>1, <3>2
        <4>2. count[i] = After(i, count[i - 1], vanished)
          BY <2>2, <3>2, <4>1 DEF Counts
        <4>3. more[i] = count[i] /\ more[i - 1] = count[i - 1]
          BY <3>2, <4>1
        <4>4. QED
          BY <3>2, <4>2, <4>3
      <3>3. CASE i # m /\ i = 0
        <4>1. i \in 0..(m - 1)
          BY <2>1, <3>3
        <4>2. count[i] = Zero
          BY <2>2, <3>3, <4>1 DEF Counts
        <4>3. QED
          BY <3>3, <4>2
      <3>4. QED
        BY <3>1, <3>2, <3>3
    <2>4. more = [i \in 0..m |-> more[i]]
      OBVIOUS
    <2> HIDE DEF more
    <2>5. Counts(more, m, vanished)
      BY <2>3, <2>4 DEF Counts
    <2>6. QED
      BY <1>4, <2>5
  <1>7. QED
    BY <1>5, <1>6

\* The loop comes to row i with the count after the rows above it.
LEMMA LoopCounts ==
  ASSUME NEW vanished, Len(rows) \in Nat, DOMAIN rows = 1..Len(rows)
  PROVE  \E count : /\ count[0] = Zero
                    /\ \A i \in 1..Len(rows) :
                         /\ count[i] = After(i, count[i - 1], vanished)
                         /\ Loop(vanished)[i] = count[i - 1]
  <1> DEFINE C == CHOOSE count : Counts(count, Len(rows), vanished)
  <1>1. Counts(C, Len(rows), vanished)
    BY CountExists
  <1>2. Loop(vanished) = [i \in DOMAIN rows |-> C[i - 1]]
    BY DEF Loop, Counts, After, Zero
  <1> HIDE DEF C
  <1>3. C[0] = Zero
    BY <1>1 DEF Counts
  <1>4. \A i \in 1..Len(rows) : C[i] = After(i, C[i - 1], vanished)
    BY <1>1 DEF Counts
  <1>5. QED
    BY <1>2, <1>3, <1>4

-----------------------------------------------------------------------------
(* What a check makes of the rows, if nothing is ending.                   *)

\* How many numbers up to i are in W.
UpTo(W, i) == {j \in 1..i : j \in W}

LEMMA UpToProps ==
  ASSUME NEW W, NEW i \in Nat
  PROVE  /\ Cardinality(UpTo(W, 0)) = 0
         /\ IsFiniteSet(UpTo(W, i)) /\ Cardinality(UpTo(W, i)) \in Nat
         /\ i # 0 => Cardinality(UpTo(W, i)) =
                       IF i \in W THEN Cardinality(UpTo(W, i - 1)) + 1
                                  ELSE Cardinality(UpTo(W, i - 1))
  <1>1. ASSUME NEW k \in Nat
        PROVE  IsFiniteSet(UpTo(W, k)) /\ Cardinality(UpTo(W, k)) \in Nat
    <2>1. IsFiniteSet(1..k)
      BY FS_Interval
    <2>2. UpTo(W, k) \in SUBSET (1..k)
      BY DEF UpTo
    <2>3. IsFiniteSet(UpTo(W, k))
      BY <2>1, <2>2, FS_Subset
    <2>4. QED
      BY <2>3, FS_CardinalityType
  <1>2. Cardinality(UpTo(W, 0)) = 0
    <2>1. UpTo(W, 0) = {}
      BY DEF UpTo
    <2>2. QED
      BY <2>1, FS_EmptySet
  <1>3. ASSUME i # 0
        PROVE  Cardinality(UpTo(W, i)) = IF i \in W THEN Cardinality(UpTo(W, i - 1)) + 1
                                                    ELSE Cardinality(UpTo(W, i - 1))
    <2>1. i - 1 \in Nat
      BY <1>3
    <2>2. IsFiniteSet(UpTo(W, i - 1)) /\ i \notin UpTo(W, i - 1)
      BY <1>1, <2>1 DEF UpTo
    <2>3. CASE i \in W
      <3>1. UpTo(W, i) = UpTo(W, i - 1) \cup {i}
        BY <1>3, <2>3 DEF UpTo
      <3>2. Cardinality(UpTo(W, i - 1) \cup {i}) =
              IF i \in UpTo(W, i - 1) THEN Cardinality(UpTo(W, i - 1))
                                      ELSE Cardinality(UpTo(W, i - 1)) + 1
        BY <2>2, FS_AddElement
      <3>3. QED
        BY <2>2, <2>3, <3>1, <3>2
    <2>4. CASE i \notin W
      <3>1. UpTo(W, i) = UpTo(W, i - 1)
        BY <1>3, <2>4 DEF UpTo
      <3>2. QED
        BY <2>4, <3>1
    <2>5. QED
      BY <2>3, <2>4
  <1>4. QED
    BY <1>1, <1>2, <1>3

\* What the loop makes of a row whose task wants to run or not (w): it runs now, is
\* displaced, is the row that was never started where the loop ends, or does
\* not want to run.  n is the count before, c the count after the row.
Outcome(w, state, n, c) ==
  \/ w /\ state = "running" /\ n < maxCon /\ c.n = n + 1 /\ c.on
  \/ w /\ state = "paused" /\ ~(n < maxCon) /\ c.n = n /\ c.on
  \/ w /\ state = "new" /\ ~(n < maxCon) /\ ~c.on
  \/ ~w /\ state # "running" /\ c.n = n /\ c.on

\* One turn of the loop, for a thread that is neither ending nor gone.
LEMMA TurnOutcome ==
  ASSUME NEW s \in {"new", "running", "paused"}, NEW q \in BOOLEAN, NEW n \in Nat,
         maxCon \in Nat, NEW r, r = CheckRow(s, q, n)
  PROVE  Outcome(r.state \in {"new", "running"} \/ (r.state = "paused" /\ r.queuing),
                 r.state, n, [n |-> r.concurrent, on |-> r.then # "break"])
  <1>1. CASE s = "running" /\ n < maxCon
    <2>1. ~(n + 1 > maxCon)
      BY <1>1
    <2>2. r.state = "running" /\ r.concurrent = n + 1 /\ r.then = "go on"
      BY <1>1, <2>1 DEF CheckRow, CheckRunning, Row
    <2>3. QED
      BY <1>1, <2>2 DEF Outcome
  <1>2. CASE s = "running" /\ ~(n < maxCon)
    <2>1. n + 1 > maxCon
      BY <1>2
    <2>2. r.state = "paused" /\ r.queuing = TRUE /\ r.concurrent = n /\ r.then = "write"
      BY <1>2, <2>1 DEF CheckRow, CheckRunning, Row
    <2>3. QED
      BY <1>2, <2>2 DEF Outcome
  <1>3. CASE s = "paused" /\ q /\ n < maxCon
    <2>1. r.state = "running" /\ r.concurrent = n + 1 /\ r.then = "write"
      BY <1>3 DEF CheckRow, CheckPaused, Row
    <2>2. QED
      BY <1>3, <2>1 DEF Outcome
  <1>4. CASE s = "paused" /\ ~(q /\ n < maxCon)
    <2>1. r.state = "paused" /\ r.queuing = q /\ r.concurrent = n /\ r.then = "go on"
      BY <1>4 DEF CheckRow, CheckPaused, Row
    <2>2. QED
      BY <1>4, <2>1 DEF Outcome
  <1>5. CASE s = "new" /\ n < maxCon
    <2>1. r.state = "running" /\ r.concurrent = n + 1 /\ r.then = "write"
      BY <1>5 DEF CheckRow, CheckStart, Row, AfterRun
    <2>2. QED
      BY <1>5, <2>1 DEF Outcome
  <1>6. CASE s = "new" /\ ~(n < maxCon)
    <2>1. r.state = "new" /\ r.concurrent = n /\ r.then = "break"
      BY <1>6 DEF CheckRow, CheckStart, Row
    <2>2. QED
      BY <1>6, <2>1 DEF Outcome
  <1>7. QED
    BY <1>1, <1>2, <1>3, <1>4, <1>5, <1>6

\* After the check, a task wants to run.
WantsNow(t) ==
  /\ ptr[t]
  /\ \/ thread'[t] \in {"new", "running"}
     \/ thread'[t] = "paused" /\ queuing'[t]

\* The loop's count, and what it makes of each row it comes to.
LEMMA CheckOutcomes ==
  ASSUME IInv, CheckConcurrentRun, ~Over("crashed"),
         \A t \in Tasks : ptr[t] => thread[t] \in {"new", "running", "paused"}
  PROVE  \E count :
           /\ count[0] = Zero
           /\ \A i \in 1..Len(rows) :
                IF count[i - 1].on
                THEN count[i - 1].n \in Nat =>
                       Outcome(WantsNow(rows[i]), thread'[rows[i]], count[i - 1].n, count[i])
                ELSE count[i] = count[i - 1]
  <1>1. PICK vanished \in SUBSET Ended :
       LET loop == Loop(vanished)
           Reached == {i \in DOMAIN rows : loop[i].on /\ ptr[rows[i]]}
           Looked == {rows[i] : i \in {j \in Reached : ~Passed(rows[j], vanished)}}
           Result(t) ==
             IF t \in Looked
             THEN CheckRow(thread[t], queuing[t], loop[RowOf(t)].n)
             ELSE Row(thread[t], queuing[t], 0, "go on")
       IN  \/ /\ \A t \in Looked : thread[t] # "freed"
              /\ thread' = [t \in Tasks |-> Result(t).state]
              /\ queuing' = [t \in Tasks |-> Result(t).queuing]
              /\ wpc' = [t \in Tasks |->
                    IF thread[t] = "new" /\ Result(t).state = "running"
                    THEN "start" ELSE wpc[t]]
              /\ text' = [i \in DOMAIN text |->
                    LET t == rows[i] IN
                    IF Result(t).then = "write"
                    THEN Status(t, Result(t).state, Result(t).queuing)
                    ELSE text[i]]
              /\ ui' = "idle"
              /\ UNCHANGED <<rows, ptr, cancel, taskVars, pending, maxCon>>
           \/ (\E i \in Reached : MayCrash(rows[i])) /\ Over("crashed")
    BY DEF CheckConcurrentRun
  <1> DEFINE loop == Loop(vanished)
             Reached == {i \in DOMAIN rows : loop[i].on /\ ptr[rows[i]]}
             Looked == {rows[i] : i \in {j \in Reached : ~Passed(rows[j], vanished)}}
             Result(t) ==
               IF t \in Looked
               THEN CheckRow(thread[t], queuing[t], loop[RowOf(t)].n)
               ELSE Row(thread[t], queuing[t], 0, "go on")
  <1>2. /\ thread' = [t \in Tasks |-> Result(t).state]
        /\ queuing' = [t \in Tasks |-> Result(t).queuing]
    BY <1>1, Zenon
  <1>3. Looked = {rows[i] : i \in {j \in Reached : ~Passed(rows[j], vanished)}}
    OBVIOUS
  <1> HIDE DEF Looked
  <1>4. /\ Len(rows) \in Nat /\ DOMAIN rows = 1..Len(rows)
        /\ \A i \in DOMAIN rows : rows[i] \in Tasks
    BY RowTypes DEF IInv, RowsDistinct
  <1>5. PICK count : /\ count[0] = Zero
                     /\ \A i \in 1..Len(rows) :
                          /\ count[i] = After(i, count[i - 1], vanished)
                          /\ loop[i] = count[i - 1]
    BY <1>4, LoopCounts
  <1> HIDE DEF loop
  <1>6. maxCon \in Nat
    BY TasksAssumption DEF IInv, TypeOK
  <1>7. \A t \in Tasks : t \notin vanished
    BY DEF Ended
  <1>8. ASSUME NEW i \in 1..Len(rows), count[i - 1].on, count[i - 1].n \in Nat
        PROVE  Outcome(WantsNow(rows[i]), thread'[rows[i]], count[i - 1].n, count[i])
    <2> DEFINE t == rows[i]
               c == count[i - 1]
               r == CheckRow(thread[t], queuing[t], c.n)
    <2>1. t \in Tasks /\ i \in DOMAIN rows /\ c.on /\ c.n \in Nat /\ loop[i] = c
      BY <1>4, <1>5, <1>8
    <2>2. thread'[t] = Result(t).state /\ queuing'[t] = Result(t).queuing
      BY <1>2, <2>1
    <2>3. /\ ptr[t] => thread[t] \in {"new", "running", "paused"}
          /\ queuing[t] \in BOOLEAN /\ Phase(t) /\ thread[t] \in ThreadState
      BY <2>1 DEF IInv, TypeOK, Threads
    <2>4. count[i] = IF Passed(t, vanished) THEN [n |-> c.n, on |-> TRUE]
                     ELSE [n |-> r.concurrent, on |-> r.then # "break"]
      BY <1>5, <2>1, Zenon DEF After
    <2>5. Passed(t, vanished) <=> ~ptr[t]
      BY <1>7, <2>1 DEF Passed
    <2>6. CASE ptr[t]
      <3>1. t \in Looked
        BY <1>3, <2>1, <2>5, <2>6
      <3>2. RowOf(t) = i
        BY <2>1 DEF RowOf, IInv, RowsDistinct
      <3>3. Result(t) = r
        BY <3>1, <3>2, <2>1
      <3> DEFINE state == r.state
                 queue == r.queuing
      <3>4. Outcome(state \in {"new", "running"} \/ (state = "paused" /\ queue),
                    state, c.n, [n |-> r.concurrent, on |-> r.then # "break"])
        <4> HIDE DEF c
        <4>1. thread[t] \in {"new", "running", "paused"} /\ queuing[t] \in BOOLEAN
          BY <2>3, <2>6
        <4>2. r = CheckRow(thread[t], queuing[t], c.n)
          OBVIOUS
        <4> HIDE DEF r, t
        <4>3. QED
          BY <1>6, <2>1, <4>1, <4>2, TurnOutcome
      <3>5. count[i] = [n |-> r.concurrent, on |-> r.then # "break"]
        BY <2>4, <2>5, <2>6, Zenon
      <3>6. thread'[t] = state /\ queuing'[t] = queue
        BY <2>2, <3>3, Zenon
      <3> HIDE DEF state, queue, r, c, t, Result
      <3>7. WantsNow(t) <=> state \in {"new", "running"} \/ (state = "paused" /\ queue)
        BY <2>6, <3>6 DEF WantsNow
      <3>8. Outcome(WantsNow(t), thread'[t], c.n, count[i])
        BY <3>4, <3>5, <3>6, <3>7 DEF Outcome
      <3>9. QED
        BY <3>8 DEF t, c
    <2>7. CASE ~ptr[t]
      <3>1. t \notin Looked
        <4>1. \A j \in Reached : ptr[rows[j]]
          OBVIOUS
        <4>2. QED
          BY <1>3, <2>7, <4>1
      <3>2. Result(t) = Row(thread[t], queuing[t], 0, "go on")
        BY <3>1
      <3> HIDE DEF Result
      <3> DEFINE same == Row(thread[t], queuing[t], 0, "go on")
      <3>8. same.state = thread[t]
        BY DEF Row
      <3> HIDE DEF same
      <3>9. Result(t) = same
        BY <3>2 DEF same
      <3>3. thread'[t] = thread[t]
        BY <2>2, <3>8, <3>9, Zenon
      <3>4. thread[t] # "running"
        BY <2>3, <2>7 DEF Phase
      <3>5. count[i].n = c.n /\ count[i].on
        <4>1. count[i] = [n |-> c.n, on |-> TRUE]
          BY <2>4, <2>5, <2>7, Zenon
        <4> HIDE DEF c
        <4>2. QED
          BY <4>1
      <3>6. ~WantsNow(t)
        BY <2>7 DEF WantsNow
      <3>7. QED
        BY <3>3, <3>4, <3>5, <3>6 DEF Outcome
    <2>8. QED
      BY <2>6, <2>7
  <1>9. ASSUME NEW i \in 1..Len(rows), ~count[i - 1].on
        PROVE  count[i] = count[i - 1]
    BY <1>5, <1>9 DEF After
  <1>10. QED
    BY <1>5, <1>8, <1>9

\* The state of the loop after i rows: while it is on, it has counted the rows that
\* want to run, up to mMaxCon; once it is off, a row above was never started.
Counted(i, count, W, state) ==
  IF count[i].on
  THEN /\ count[i].n \in Nat /\ count[i].n <= maxCon
       /\ count[i].n <= Cardinality(UpTo(W, i))
       /\ count[i].n < maxCon => count[i].n = Cardinality(UpTo(W, i))
  ELSE \E j \in 1..i : state[j] = "new"

\* From the outcomes of the rows, one after the other, to which of them run.
LEMMA FirstOnesRun ==
  ASSUME NEW N \in Nat, NEW W, NEW state, NEW count, maxCon \in Nat,
         count[0] = Zero,
         \A i \in 1..N :
           IF count[i - 1].on
           THEN count[i - 1].n \in Nat => Outcome(i \in W, state[i], count[i - 1].n, count[i])
           ELSE count[i] = count[i - 1]
  PROVE  \A i \in 1..N :
           i \in W /\ (\A j \in 1..(i - 1) : state[j] # "new")
           => (state[i] = "running" <=> Cardinality(UpTo(W, i)) <= maxCon)
  <1> DEFINE Card(i) == Cardinality(UpTo(W, i))
  <1>1. Card(0) = 0 /\ \A i \in Nat : Card(i) \in Nat
    BY UpToProps
  <1>2. \A i \in Nat : i # 0 => Card(i) = IF i \in W THEN Card(i - 1) + 1 ELSE Card(i - 1)
    BY UpToProps
  <1>3. \A i \in 0..N : Counted(i, count, W, state)
    <2> DEFINE Bad == {i \in 0..N : ~Counted(i, count, W, state)}
    <2>1. SUFFICES ASSUME Bad # {} PROVE FALSE
      BY <2>1
    <2>2. Bad \subseteq Nat
      OBVIOUS
    <2>3. PICK m \in Bad : \A k \in Bad : m <= k
      <3> HIDE DEF Bad
      <3>1. QED
        BY <2>1, <2>2, LeastOf
    <2>4. m \in 0..N /\ ~Counted(m, count, W, state)
      BY <2>3
    <2>5. m # 0
      <3>1. count[0].on /\ count[0].n = 0
        BY DEF Zero
      <3>2. Counted(0, count, W, state)
        BY <1>1, <3>1 DEF Counted
      <3>3. QED
        BY <2>4, <3>2
    <2>6. m \in Nat /\ m \in 1..N /\ m - 1 \in 0..N /\ m - 1 \in Nat /\ ~(m <= m - 1)
      BY <2>4, <2>5
    <2>7. Counted(m - 1, count, W, state)
      BY <2>3, <2>6
    <2> HIDE DEF Bad
    <2>8. CASE ~count[m - 1].on
      <3>1. count[m] = count[m - 1]
        BY <2>6, <2>8
      <3>2. PICK j \in 1..(m - 1) : state[j] = "new"
        BY <2>7, <2>8 DEF Counted
      <3>3. j \in 1..m
        BY <2>6
      <3>4. Counted(m, count, W, state)
        BY <2>8, <3>1, <3>2, <3>3 DEF Counted
      <3>5. QED
        BY <2>4, <3>4
    <2>9. CASE count[m - 1].on
      <3> DEFINE n == count[m - 1].n
                 c == count[m]
                 before == Card(m - 1)
                 now == Card(m)
      <3>1. /\ n \in Nat /\ n <= maxCon /\ n <= before
            /\ n < maxCon => n = before
        BY <2>7, <2>9 DEF Counted
      <3>2. Outcome(m \in W, state[m], n, c)
        BY <2>6, <2>9, <3>1
      <3>3. before \in Nat /\ now \in Nat /\ now = IF m \in W THEN before + 1 ELSE before
        BY <1>1, <1>2, <2>5, <2>6
      <3>4. Counted(m, count, W, state) <=>
              IF c.on THEN c.n \in Nat /\ c.n <= maxCon /\ c.n <= now /\ (c.n < maxCon => c.n = now)
                      ELSE \E j \in 1..m : state[j] = "new"
        BY DEF Counted
      <3>5. m \in 1..m
        BY <2>6
      <3> HIDE DEF n, c, before, now
      <3>6. Counted(m, count, W, state)
        <4>1. CASE m \in W /\ n < maxCon /\ c.n = n + 1 /\ c.on
          BY <3>1, <3>3, <3>4, <4>1
        <4>2. CASE m \in W /\ ~(n < maxCon) /\ c.n = n /\ c.on
          BY <3>1, <3>3, <3>4, <4>2
        <4>3. CASE state[m] = "new" /\ ~c.on
          BY <3>4, <3>5, <4>3
        <4>4. CASE m \notin W /\ c.n = n /\ c.on
          BY <3>1, <3>3, <3>4, <4>4
        <4>5. QED
          BY <3>2, <4>1, <4>2, <4>3, <4>4 DEF Outcome
      <3>7. QED
        BY <2>4, <3>6
    <2>10. QED
      BY <2>8, <2>9
  <1>4. ASSUME NEW i \in 1..N, i \in W, \A j \in 1..(i - 1) : state[j] # "new"
        PROVE  state[i] = "running" <=> Card(i) <= maxCon
    <2> DEFINE n == count[i - 1].n
               before == Card(i - 1)
               now == Card(i)
    <2>1. i \in Nat /\ i # 0 /\ i - 1 \in 0..N /\ i - 1 \in Nat
      OBVIOUS
    <2>2. count[i - 1].on /\ n \in Nat /\ n <= maxCon /\ n <= before
          /\ (n < maxCon => n = before)
      BY <1>3, <1>4, <2>1 DEF Counted
    <2>3. Outcome(TRUE, state[i], n, count[i])
      BY <1>4, <2>1, <2>2
    <2>4. before \in Nat /\ now = before + 1
      BY <1>1, <1>2, <1>4, <2>1
    <2> HIDE DEF n, before, now
    <2>5. state[i] = "running" <=> now <= maxCon
      <3>1. n < maxCon <=> now <= maxCon
        BY <2>2, <2>4
      <3>2. state[i] = "running" <=> n < maxCon
        BY <2>3 DEF Outcome
      <3>3. QED
        BY <3>1, <3>2
    <2>6. QED
      BY <2>5 DEF now
  <1>5. QED
    BY <1>4

-----------------------------------------------------------------------------
(* The steps.                                                              *)

\* A check that leaves the dialog at rest leaves the upper rows running.
LEMMA CheckRuns ==
  ASSUME IInv, CheckConcurrentRun, Settled'
  PROVE  TopRowsRun'
  <1>1. ~Over("crashed")
    BY DEF Settled, Over
  <1>2. PICK written \in [Tasks -> BOOLEAN] : CheckOfAll(written)
    BY <1>1, CheckEffect
  <1>3. rows' = rows /\ ptr' = ptr /\ cancel' = cancel /\ maxCon' = maxCon
    BY <1>2 DEF CheckOfAll
  <1>4. ASSUME NEW t \in Tasks, ptr[t]
        PROVE  thread[t] \in {"new", "running", "paused"}
    <2>1. thread[t] \in ThreadState /\ Phase(t)
      BY DEF IInv, TypeOK, Threads
    <2>2. thread'[t] # "none" =>
            \/ wpc'[t] \in {"none", "start", "test", "file"} /\ ~cancel[t]
            \/ wpc'[t] = "gone"
      BY <1>3 DEF Settled, Created
    <2>3. thread[t] \in {"exited", "freed"} => thread'[t] = thread[t] /\ wpc'[t] = wpc[t]
      BY <1>2 DEF CheckOfAll, Checks
    <2>4. thread[t] # "none" /\ thread[t] # "exited" /\ thread[t] # "freed"
      BY <1>4, <2>1, <2>2, <2>3 DEF Phase
    <2>5. QED
      BY <2>1, <2>4 DEF ThreadState
  <1>5. PICK count :
           /\ count[0] = Zero
           /\ \A i \in 1..Len(rows) :
                IF count[i - 1].on
                THEN count[i - 1].n \in Nat =>
                       Outcome(WantsNow(rows[i]), thread'[rows[i]], count[i - 1].n, count[i])
                ELSE count[i] = count[i - 1]
    BY <1>1, <1>4, CheckOutcomes
  <1>6. Len(rows) \in Nat /\ DOMAIN rows = 1..Len(rows) /\ maxCon \in Nat
    BY RowTypes, TasksAssumption DEF IInv, RowsDistinct, TypeOK
  <1> DEFINE W == {j \in 1..Len(rows) : WantsNow(rows[j])}
             state == [j \in 1..Len(rows) |-> thread'[rows[j]]]
  <1>7. \A i \in 1..Len(rows) :
          IF count[i - 1].on
          THEN count[i - 1].n \in Nat => Outcome(i \in W, state[i], count[i - 1].n, count[i])
          ELSE count[i] = count[i - 1]
    <2>1. \A i \in 1..Len(rows) : (i \in W <=> WantsNow(rows[i])) /\ state[i] = thread'[rows[i]]
      OBVIOUS
    <2> HIDE DEF W, state
    <2>2. QED
      BY <1>5, <2>1 DEF Outcome
  <1>8. \A i \in 1..Len(rows) :
          i \in W /\ (\A j \in 1..(i - 1) : state[j] # "new")
          => (state[i] = "running" <=> Cardinality(UpTo(W, i)) <= maxCon)
    <2> HIDE DEF W, state
    <2>1. QED
      BY <1>5, <1>6, <1>7, FirstOnesRun
  <1>9. ASSUME NEW i \in 1..Len(rows),
               ptr'[rows[i]] /\ (\/ thread'[rows[i]] \in {"new", "running"}
                                 \/ thread'[rows[i]] = "paused" /\ queuing'[rows[i]]),
               \A j \in 1..(i - 1) : thread'[rows[j]] # "new"
        PROVE  thread'[rows[i]] = "running" <=>
                 Cardinality({j \in 1..i :
                   ptr'[rows[j]] /\ (\/ thread'[rows[j]] \in {"new", "running"}
                                     \/ thread'[rows[j]] = "paused" /\ queuing'[rows[j]])})
                 <= maxCon
    <2>1. i \in W /\ state[i] = thread'[rows[i]]
      BY <1>3, <1>9 DEF WantsNow
    <2>2. \A j \in 1..(i - 1) : j \in 1..Len(rows)
      BY <1>6
    <2>3. \A j \in 1..(i - 1) : state[j] # "new"
      BY <1>9, <2>2
    <2>4. \A j \in 1..i : j \in 1..Len(rows)
      BY <1>6
    <2>5. UpTo(W, i) = {j \in 1..i :
                   ptr'[rows[j]] /\ (\/ thread'[rows[j]] \in {"new", "running"}
                                     \/ thread'[rows[j]] = "paused" /\ queuing'[rows[j]])}
      BY <1>3, <2>4 DEF UpTo, WantsNow
    <2> HIDE DEF W, state
    <2>6. QED
      BY <1>8, <2>1, <2>3, <2>5
  <1>10. QED
    BY <1>3, <1>6, <1>9 DEF TopRowsRun, Wanting, IsPaused

\* No more rows than tasks that were created; if as many, each has its row.
LEMMA RowsOfCreated ==
  ASSUME IInv
  PROVE  /\ Cardinality(Created) \in Nat /\ Len(rows) \in Nat
         /\ Len(rows) <= Cardinality(Created)
         /\ Len(rows) = Cardinality(Created) =>
              \A t \in Created : \E i \in DOMAIN rows : rows[i] = t
  <1>1. IsFiniteSet(Created) /\ Cardinality(Created) \in Nat
    <2>1. Created \in SUBSET Tasks
      BY DEF Created
    <2>2. IsFiniteSet(Created)
      BY <2>1, TasksAssumption, FS_Subset
    <2>3. QED
      BY <2>2, FS_CardinalityType
  <1>2. Len(rows) \in Nat /\ DOMAIN rows = 1..Len(rows) /\ rows \in Seq(Tasks)
    BY RowTypes DEF IInv, RowsDistinct, TypeOK
  <1>3. rows \in [1..Len(rows) -> Created]
    BY <1>2 DEF IInv, RowsDistinct, Created
  <1>4. rows \in Injection(1..Len(rows), Created)
    BY <1>2, <1>3 DEF Injection, IsInjective, IInv, RowsDistinct
  <1>5. /\ Cardinality(1..Len(rows)) <= Cardinality(Created)
        /\ Cardinality(1..Len(rows)) = Cardinality(Created)
           <=> rows \in Surjection(1..Len(rows), Created)
    BY <1>1, <1>4, FS_Injection
  <1>6. Cardinality(1..Len(rows)) = Len(rows)
    <2>1. Cardinality(1..Len(rows)) = IF 1 > Len(rows) THEN 0 ELSE Len(rows) - 1 + 1
      BY <1>2, FS_Interval
    <2>2. QED
      BY <1>2, <2>1
  <1>7. QED
    BY <1>1, <1>2, <1>5, <1>6 DEF Surjection

\* A step that leaves the rows and their threads alone leaves what holds of them.
LEMMA RowsAlone ==
  ASSUME TopRowsRun, Settled' => Settled,
         UNCHANGED <<rows, thread, ptr, queuing, maxCon>>
  PROVE  TopRowsRun'
  BY DEF TopRowsRun, Wanting, IsPaused

\* A task that is at work, or has ended and been heard of: what Settled asks of each.
Calm(t) ==
  thread[t] # "none" =>
    \/ wpc[t] \in {"none", "start", "test", "file"} /\ ~cancel[t]
    \/ wpc[t] = "gone"

\* The threads' steps: those that end a file leave the rows as they run, after those
\* that end the thread the dialog is not at rest.
LEMMA WorkerRuns ==
  ASSUME IInv, TopRowsRun, Settled', NEW t \in Tasks, Worker(t)
  PROVE  TopRowsRun'
  <1>1. /\ rows' = rows /\ cancel' = cancel /\ queuing' = queuing /\ ui' = ui
        /\ maxCon' = maxCon
    BY DEF Worker, Test, File, Exit, gridVars
  <1>2. thread \in [Tasks -> ThreadState] /\ wpc \in [Tasks -> Place] /\ Phase(t)
    BY TaskFacts DEF IInv, TypeOK
  <1>3. \A u \in Tasks : Calm(u)'
    BY DEF Settled, Created, Calm
  <1>4. ~Return(t)
    <2>1. SUFFICES ASSUME Return(t) PROVE FALSE
      OBVIOUS
    <2>2. thread'[t] = "exited" /\ wpc'[t] = "exit"
      BY <1>2, <2>1 DEF Return, GoTo
    <2>3. QED
      BY <1>3, <2>2 DEF Calm
  <1>5. ~Exit(t)
    <2>1. SUFFICES ASSUME Exit(t) PROVE FALSE
      OBVIOUS
    <2>2. t \in pending'
      BY <2>1 DEF Exit
    <2>3. QED
      BY <2>2 DEF Settled
  <1>6. /\ wpc[t] \in {"start", "test", "file"} /\ thread' = thread /\ ptr' = ptr
        /\ pending' = pending
        /\ \E p \in {"test", "file"} : wpc' = [wpc EXCEPT ![t] = p]
    <2>1. CASE Test(t)
      BY <1>4, <2>1 DEF Test, GoTo
    <2>2. CASE File(t)
      BY <1>4, <2>2 DEF File, FileDone, FileFails, TargetFails, GoTo
    <2>3. QED
      BY <1>5, <2>1, <2>2 DEF Worker
  <1>7. \A u \in Tasks : Calm(u)
    <2>1. ASSUME NEW u \in Tasks, u # t
          PROVE  Calm(u)
      <3>1. wpc'[u] = wpc[u]
        BY <1>2, <1>6, <2>1
      <3>2. QED
        BY <1>1, <1>3, <1>6, <3>1 DEF Calm
    <2>2. Calm(t)
      <3>1. wpc'[t] \in {"test", "file"}
        BY <1>2, <1>6
      <3>2. QED
        BY <1>1, <1>3, <1>6, <3>1 DEF Calm
    <2>3. QED
      BY <2>1, <2>2
  <1>8. Settled
    <2>1. Created' = Created
      BY <1>6 DEF Created
    <2>2. ui = "idle" /\ pending = {} /\ Len(rows) = Cardinality(Created)
      BY <1>1, <1>6, <2>1 DEF Settled
    <2>3. QED
      BY <1>7, <2>2 DEF Settled, Created, Calm
  <1>9. QED
    BY <1>1, <1>6, <1>8, RowsAlone

\* The user's commands: the dialog is not at rest after any of them.
LEMMA CommandRuns ==
  ASSUME IInv, Settled', Command
  PROVE  FALSE
  <1>1. ui' = "idle"
    BY DEF Settled
  <1>2. ~Over("crashed") /\ ~Over("closed")
    BY <1>1 DEF Over
  <1>3. ASSUME NEW t \in Tasks, OnNew(t)
        PROVE  FALSE
    BY <1>1, <1>3 DEF OnNew
  <1>4. ASSUME NEW i \in DOMAIN rows, OnUp(i) \/ OnDown(i) \/ OnPause(i)
        PROVE  FALSE
    BY <1>1, <1>2, <1>4 DEF OnUp, OnDown, OnPause
  <1>5. ASSUME NEW i \in DOMAIN rows, OnCancel(i)
        PROVE  FALSE
    <2>1. PICK t \in Tasks : t = rows[i]
      BY RowTypes DEF IInv, RowsDistinct
    <2>2. /\ ptr[t] /\ thread[t] # "freed"
          /\ thread' = [thread EXCEPT ![t] = AfterDelete(thread[t])]
          /\ cancel' = [cancel EXCEPT ![t] = TRUE]
          /\ wpc' = wpc
      BY <1>2, <1>5, <2>1 DEF OnCancel, Usable
    <2>3. /\ thread \in [Tasks -> ThreadState] /\ cancel \in [Tasks -> BOOLEAN]
          /\ Phase(t)
      BY TaskFacts DEF IInv, TypeOK
    <2>4. thread[t] \in {"new", "running", "paused", "exited"}
      BY <2>2, <2>3 DEF Phase, ThreadState
    <2>5. thread'[t] # "none" /\ cancel'[t] /\ wpc'[t] # "gone"
      BY <2>2, <2>3, <2>4 DEF AfterDelete, AfterResume, Phase
    <2>6. QED
      BY <2>5 DEF Settled, Created
  <1>6. ASSUME NEW i \in DOMAIN rows, OnRemove(i)
        PROVE  FALSE
    <2>1. rows' = RemoveAt(rows, i) /\ thread' = thread
      BY <1>6 DEF OnRemove
    <2>2. Len(rows') = Len(rows) - 1
      BY <2>1, RemoveAtProps DEF IInv, TypeOK
    <2>3. Created' = Created
      BY <2>1 DEF Created
    <2>4. Len(rows) - 1 = Cardinality(Created)
      BY <2>2, <2>3 DEF Settled
    <2>5. QED
      BY <2>4, RowsOfCreated
  <1>7. ASSUME NEW n \in MaxCons, SetMaxCon(n)
        PROVE  FALSE
    BY <1>1, <1>7 DEF SetMaxCon
  <1>8. ~Destroy
    BY <1>2 DEF Destroy
  <1>9. QED
    BY <1>3, <1>4, <1>5, <1>6, <1>7, <1>8 DEF Command

\* A STATUS event: a task with a row is followed by a check, and at rest every task
\* has a row.
LEMMA OnUpdateTaskRuns ==
  ASSUME IInv, Settled', NEW t \in Tasks, OnUpdateTask(t)
  PROVE  FALSE
  <1>1. /\ t \in pending /\ rows' = rows /\ thread' = thread
        /\ ui' = IF \E i \in DOMAIN rows : rows[i] = t THEN "check" ELSE ui
    BY DEF OnUpdateTask, threadVars
  <1>2. ~ \E i \in DOMAIN rows : rows[i] = t
    BY <1>1 DEF Settled
  <1>3. Created' = Created
    BY <1>1 DEF Created
  <1>4. Len(rows) = Cardinality(Created)
    BY <1>1, <1>3 DEF Settled
  <1>5. t \in Created
    BY <1>1, TaskFacts DEF Phase, Created
  <1>6. QED
    BY <1>2, <1>4, <1>5, RowsOfCreated

\* With the dialog at rest, the first mMaxCon of the rows that want to run do, and the
\* others wait, down to the first row that was never started and does not fit in; for
\* any number of tasks, whatever the user and the threads do.
THEOREM UpperRowsRun == Spec => []TopRowsRun
  <1>1. Init => TopRowsRun
    <2>1. Init => rows = <<>>
      BY DEF Init
    <2>2. rows = <<>> => TopRowsRun
      BY DEF TopRowsRun
    <2>3. QED
      BY <2>1, <2>2
  <1>2. IInv /\ TopRowsRun /\ [Next]_vars => TopRowsRun'
    <2>1. SUFFICES ASSUME IInv, TopRowsRun, [Next]_vars, Settled'
                   PROVE  TopRowsRun'
      BY DEF TopRowsRun
    <2>2. CASE Command
      BY <2>1, <2>2, CommandRuns
    <2>3. CASE CheckConcurrentRun
      BY <2>1, <2>3, CheckRuns
    <2>4. ASSUME NEW t \in Tasks, OnUpdateTask(t)
          PROVE  TopRowsRun'
      BY <2>1, <2>4, OnUpdateTaskRuns
    <2>5. ASSUME NEW t \in Tasks, Worker(t)
          PROVE  TopRowsRun'
      BY <2>1, <2>5, WorkerRuns
    <2>6. ASSUME NEW t \in Tasks, SaveUnloaded(t)
          PROVE  TopRowsRun'
      BY <2>1, <2>6 DEF SaveUnloaded, Over, Settled
    <2>7. CASE UNCHANGED vars
      <3>1. /\ rows' = rows /\ thread' = thread /\ ptr' = ptr /\ cancel' = cancel
            /\ queuing' = queuing /\ wpc' = wpc /\ pending' = pending /\ ui' = ui
            /\ maxCon' = maxCon
        BY <2>7 DEF vars, gridVars, threadVars
      <3>2. Settled
        BY <2>1, <3>1 DEF Settled, Created
      <3>3. QED
        BY <2>1, <3>1, <3>2, RowsAlone
    <2>8. QED
      BY <2>1, <2>2, <2>3, <2>4, <2>5, <2>6, <2>7 DEF Next
  <1>3. QED
    BY <1>1, <1>2, TasksInvariance, PTL DEF Spec
=============================================================================
