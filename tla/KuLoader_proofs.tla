-------------------------- MODULE KuLoader_proofs --------------------------
(***************************************************************************)
(* Proofs about KuLoader, for every value of its constants and every       *)
(* client: the types, the agreement of mBmpCache with mBmpHash, the order  *)
(* of the queue and the handshake by which the program waits for the       *)
(* loader thread before it exits.                                          *)
(***************************************************************************)
EXTENDS KuLoader, FiniteSetTheorems, TLAPS

-----------------------------------------------------------------------------
(* Lemmas about the operators.                                             *)

\* C++'s remainder by 4 stays between -3 and 3.
LEMMA Rem4Type == \A r \in Int : Rem4(r) \in -3..3
  BY DEF Rem4

\* Turning a bitmap gives a bitmap; NULL stays NULL.
LEMMA RotatedType ==
  ASSUME NEW b \in Bitmap \cup {NoBmp}, NEW r \in Int
  PROVE  Rotated(b, r) \in Bitmap \cup {NoBmp}
  <1>1. CASE b = NoBmp
    BY <1>1 DEF Rotated
  <1>2. CASE b # NoBmp
    <2>1. b \in Bitmap
      BY <1>2
    <2>2. b.turn \in 0..3 /\ (b.turn + r) % 4 \in 0..3
      BY <2>1 DEF Bitmap
    <2>3. QED
      BY <1>2, <2>1, <2>2 DEF Rotated, Bitmap
  <1>3. QED
    BY <1>1, <1>2

\* Loading a file gives a bitmap or NULL.
LEMMA LoadedType ==
  ASSUME NEW p \in Paths, NEW s \in Sizes, NEW kind \in {"rough", "good", "part"},
         disk \in [Paths -> Picture]
  PROVE  Loaded(p, s, kind) \in Bitmap \cup {NoBmp}
  <1>1. disk[p].of \in Paths /\ disk[p].turn \in 0..3
    BY DEF Picture
  <1>2. QED
    BY <1>1 DEF Loaded, Bitmap

\* What a ticket holds.
LEMMA TicketFields ==
  ASSUME NEW t \in Ticket
  PROVE  /\ t.path \in Paths /\ t.size \in Sizes
         /\ t.rotate \in Rotations /\ t.rotate \in -3..3 /\ t.rotate \in Int
  <1>1. t.path \in Paths /\ t.size \in Sizes /\ t.rotate \in Rotations
    BY DEF Ticket
  <1>2. t.rotate \in -3..3
    BY <1>1, LoaderAssumption
  <1>3. QED
    BY <1>1, <1>2

\* The list without a path: still a list of paths without duplicates, and it
\* lists exactly the other paths.
LEMMA WithoutProps ==
  ASSUME NEW c \in Seq(Paths), NEW p,
         \A i, j \in DOMAIN c : c[i] = c[j] => i = j
  PROVE  /\ Without(c, p) \in Seq(Paths)
         /\ \A i, j \in DOMAIN Without(c, p) :
              Without(c, p)[i] = Without(c, p)[j] => i = j
         /\ \A i \in DOMAIN Without(c, p) :
              Listed(c, Without(c, p)[i]) /\ Without(c, p)[i] # p
  <1>1. CASE ~Listed(c, p)
    BY <1>1 DEF Without, Listed
  <1>2. CASE Listed(c, p)
    <2> DEFINE k == CHOOSE i \in DOMAIN c : c[i] = p
               d == [i \in 1..Len(c) - 1 |-> IF i < k THEN c[i] ELSE c[i + 1]]
    <2>1. k \in DOMAIN c /\ c[k] = p
      BY <1>2 DEF Listed
    <2>2. DOMAIN c = 1..Len(c) /\ Len(c) \in Nat /\ Len(c) - 1 \in Nat
      BY <2>1
    <2>3. Without(c, p) = d
      BY <1>2 DEF Without
    <2> HIDE DEF k
    <2>4. \A i \in 1..Len(c) - 1 : i \in DOMAIN c /\ i + 1 \in DOMAIN c
      BY <2>2
    <2>5. \A i \in 1..Len(c) - 1 : d[i] \in Paths
      BY <2>2, <2>4
    <2>6. d \in Seq(Paths) /\ DOMAIN d = 1..Len(c) - 1
      BY <2>2, <2>5
    <2>7. \A i \in DOMAIN d : Listed(c, d[i]) /\ d[i] # p
      <3> SUFFICES ASSUME NEW i \in 1..Len(c) - 1
                   PROVE  Listed(c, d[i]) /\ d[i] # p
        BY <2>6
      <3>1. CASE i < k
        BY <3>1, <2>1, <2>2, <2>4 DEF Listed
      <3>2. CASE ~(i < k)
        BY <3>2, <2>1, <2>2, <2>4 DEF Listed
      <3>3. QED
        BY <3>1, <3>2
    <2>8. \A i, j \in DOMAIN d : d[i] = d[j] => i = j
      <3> SUFFICES ASSUME NEW i \in 1..Len(c) - 1, NEW j \in 1..Len(c) - 1,
                          d[i] = d[j]
                   PROVE  i = j
        BY <2>6
      <3> DEFINE at(m) == IF m < k THEN m ELSE m + 1
      <3>1. at(i) \in DOMAIN c /\ at(j) \in DOMAIN c
        BY <2>4
      <3>2. d[i] = c[at(i)] /\ d[j] = c[at(j)]
        OBVIOUS
      <3>3. at(i) = at(j)
        <4> HIDE DEF at, d
        <4>1. QED
          BY <3>1, <3>2
      <3>4. QED
        BY <3>3, <2>1, <2>2
    <2>9. QED
      BY <2>3, <2>6, <2>7, <2>8
  <1>3. QED
    BY <1>1, <1>2

\* EraseBmpHash keeps the containers' types and their agreement.
LEMMA EraseKeeps ==
  ASSUME TypeOK, CacheInHash, NoDuplicates, NEW p \in Paths, EraseBmpHash(p)
  PROVE  /\ hash' \in [Paths -> Entry \cup {NoEntry}] /\ cache' \in Seq(Paths)
         /\ CacheInHash' /\ NoDuplicates'
         /\ Freed(p) \in Int
  <1>0. Freed(p) \in Int
    BY DEF Freed, Count
  <1>1. hash \in [Paths -> Entry \cup {NoEntry}] /\ cache \in Seq(Paths)
    BY DEF TypeOK
  <1>2. hash' = [hash EXCEPT ![p] = NoEntry]
    BY DEF EraseBmpHash
  <1>3. CASE Has(p)
    <2>1. cache' = Without(cache, p)
      BY <1>3 DEF EraseBmpHash
    <2>2. \A i, j \in DOMAIN cache : cache[i] = cache[j] => i = j
      BY DEF NoDuplicates
    <2>3. /\ cache' \in Seq(Paths)
          /\ \A i, j \in DOMAIN cache' : cache'[i] = cache'[j] => i = j
          /\ \A i \in DOMAIN cache' : Listed(cache, cache'[i]) /\ cache'[i] # p
      BY <1>1, <2>1, <2>2, WithoutProps
    <2>4. CacheInHash'
      BY <1>1, <1>2, <2>3 DEF CacheInHash, Has, Listed
    <2>5. QED
      BY <1>0, <1>1, <1>2, <2>3, <2>4 DEF NoDuplicates
  <1>4. CASE ~Has(p)
    <2>1. cache' = cache /\ hash' = hash
      BY <1>1, <1>2, <1>4 DEF EraseBmpHash, Has
    <2>2. QED
      BY <1>0, <1>1, <2>1 DEF CacheInHash, NoDuplicates, Has
  <1>5. QED
    BY <1>3, <1>4

\* AddBmpHash keeps them too.
LEMMA AddKeeps ==
  ASSUME TypeOK, CacheInHash, NoDuplicates, NEW p \in Paths, NEW v \in Entry,
         AddBmpHash(p, v)
  PROVE  /\ hash' \in [Paths -> Entry \cup {NoEntry}] /\ cache' \in Seq(Paths)
         /\ CacheInHash' /\ NoDuplicates'
         /\ Freed(p) \in Int
  <1> DEFINE rest == IF Has(p) THEN Without(cache, p) ELSE cache
  <1>1. hash \in [Paths -> Entry \cup {NoEntry}] /\ cache \in Seq(Paths)
    BY DEF TypeOK
  <1>2. hash' = [hash EXCEPT ![p] = v]
        /\ cache' = IF Listed(rest, p) THEN rest ELSE Append(rest, p)
    BY DEF AddBmpHash
  <1>3. \A i, j \in DOMAIN cache : cache[i] = cache[j] => i = j
    BY DEF NoDuplicates
  <1>4. /\ rest \in Seq(Paths)
        /\ \A i, j \in DOMAIN rest : rest[i] = rest[j] => i = j
        /\ \A i \in DOMAIN rest : Listed(cache, rest[i])
    BY <1>1, <1>3, WithoutProps DEF Listed
  <1> HIDE DEF rest
  <1>5. \A i \in DOMAIN rest : Has(rest[i])
    BY <1>4 DEF CacheInHash, Listed
  <1>6. CASE Listed(rest, p)
    BY <1>1, <1>2, <1>4, <1>5, <1>6, LoaderAssumption
    DEF CacheInHash, NoDuplicates, Has, Freed, Count
  <1>7. CASE ~Listed(rest, p)
    <2>1. cache' = Append(rest, p) /\ cache' \in Seq(Paths)
          /\ DOMAIN rest = 1..Len(rest) /\ DOMAIN cache' = 1..Len(rest) + 1
          /\ Len(rest) \in Nat
          /\ \A i \in 1..Len(rest) : cache'[i] = rest[i]
          /\ cache'[Len(rest) + 1] = p
      BY <1>2, <1>4, <1>7
    <2>2. \A i \in 1..Len(rest) + 1 : i \in 1..Len(rest) \/ i = Len(rest) + 1
      BY <2>1
    <2>3. CacheInHash'
      BY <1>1, <1>2, <1>5, <2>1, <2>2, LoaderAssumption DEF CacheInHash, Has
    <2>4. NoDuplicates'
      BY <1>4, <1>7, <2>1, <2>2 DEF NoDuplicates, Listed
    <2>5. QED
      BY <1>1, <1>2, <2>1, <2>3, <2>4 DEF Freed, Count
  <1>8. QED
    BY <1>6, <1>7

\* A Prior ticket put in front leaves the Prior tickets in front.
LEMMA PrependKeeps ==
  ASSUME NEW t \in Ticket, t.prior, queue \in Seq(Ticket), PriorFirst,
         queue' = <<t>> \o queue
  PROVE  queue' \in Seq(Ticket) /\ PriorFirst'
  <1>1. Len(queue) \in Nat /\ DOMAIN queue = 1..Len(queue)
    OBVIOUS
  <1>2. <<t>> \in Seq(Ticket)
    OBVIOUS
  <1>3. /\ queue' \in Seq(Ticket) /\ Len(queue') = Len(queue) + 1
        /\ DOMAIN queue' = 1..Len(queue) + 1
        /\ queue'[1] = t
        /\ \A i \in 2..Len(queue) + 1 : i - 1 \in DOMAIN queue /\ queue'[i] = queue[i - 1]
    BY <1>1, <1>2
  <1>4. PriorFirst'
    <2> SUFFICES ASSUME NEW i \in DOMAIN queue', NEW j \in DOMAIN queue',
                        i < j, queue'[j].prior
                 PROVE  queue'[i].prior
      BY DEF PriorFirst
    <2>1. CASE i = 1
      BY <1>3, <2>1
    <2>2. CASE i # 1
      <3>1. i \in 2..Len(queue) + 1 /\ j \in 2..Len(queue) + 1 /\ i - 1 < j - 1
        BY <1>1, <1>3, <2>2
      <3>2. QED
        BY <1>3, <3>1 DEF PriorFirst
    <2>3. QED
      BY <2>1, <2>2
  <1>5. QED
    BY <1>3, <1>4

-----------------------------------------------------------------------------
(* The inductive invariant.                                                *)

LEMMA InitInv == Init => IInv
  <1> SUFFICES ASSUME Init PROVE IInv
    OBVIOUS
  <1>1. /\ queue = <<>> /\ cache = <<>> /\ events = <<>>
        /\ queue \in Seq(Ticket) /\ cache \in Seq(Paths) /\ events \in Seq(Paths)
        /\ DOMAIN queue = {} /\ DOMAIN cache = {}
    BY DEF Init
  <1>2. disk \in [Paths -> Picture] /\ hash \in [Paths -> Entry \cup {NoEntry}]
    BY DEF Init, Picture
  <1>3. /\ lpc = "top" /\ apc = "ready" /\ bmpMutex = "free" /\ frame = "alive"
        /\ quit \in BOOLEAN /\ deleting \in BOOLEAN /\ waitLoader \in BOOLEAN
    BY DEF Init
  <1>4. TypeOK
    BY <1>1, <1>2, <1>3 DEF Init, TypeOK
  <1>5. QED
    BY <1>1, <1>4 DEF Init, IInv, MutexOwned, CacheInHash, NoDuplicates, PriorFirst,
       Handshake, ExitAfterLoader

\* Every step of the loader thread keeps the invariant.
LEMMA LoaderStepInv == IInv /\ LoaderStep => IInv'
  <1> SUFFICES ASSUME IInv, LoaderStep PROVE IInv'
    OBVIOUS
  <1>1. CASE EntryTop
    BY <1>1 DEF EntryTop, IInv, TypeOK, MutexOwned, CacheInHash,
       NoDuplicates, PriorFirst, Handshake, ExitAfterLoader, Has, Listed,
       loaderVars, callVars, exitVars
  <1>2. CASE EntryPop
    <2>1. /\ Head(queue) \in Ticket /\ Tail(queue) \in Seq(Ticket)
          /\ Len(Tail(queue)) = Len(queue) - 1 /\ Len(queue) \in Nat \ {0}
          /\ \A i \in 1..Len(queue) - 1 : Tail(queue)[i] = queue[i + 1]
      BY <1>2 DEF EntryPop, IInv, TypeOK
    <2>2. PriorFirst'
      BY <1>2, <2>1 DEF EntryPop, IInv, TypeOK, PriorFirst
    <2>3. QED
      BY <1>2, <2>1, <2>2 DEF EntryPop, IInv, TypeOK, MutexOwned, CacheInHash,
         NoDuplicates, Handshake, ExitAfterLoader, Has, callVars, exitVars
  <1>3. CASE EntryPopEmpty
    BY <1>3 DEF EntryPopEmpty, Crash, IInv, TypeOK, MutexOwned, CacheInHash,
       NoDuplicates, PriorFirst, Handshake, ExitAfterLoader, Has, Listed,
       loaderVars, callVars, exitVars
  <1>4. CASE EntryCheck
    BY <1>4 DEF EntryCheck, IInv, TypeOK, MutexOwned, CacheInHash, NoDuplicates,
       PriorFirst, Handshake, ExitAfterLoader, Has, callVars, exitVars
  <1>4a. CASE EntryHit
    BY <1>4a DEF EntryHit, IInv, TypeOK, MutexOwned, CacheInHash, NoDuplicates,
       PriorFirst, Handshake, ExitAfterLoader, Has, callVars, exitVars
  <1>4b. CASE EntryMiss
    <2>1. ticket.path \in Paths
      BY <1>4b, TicketFields DEF EntryMiss, IInv, TypeOK
    <2>2. /\ hash' \in [Paths -> Entry \cup {NoEntry}] /\ cache' \in Seq(Paths)
          /\ CacheInHash' /\ NoDuplicates' /\ Freed(ticket.path) \in Int
      BY <1>4b, <2>1, EraseKeeps DEF EntryMiss, IInv
    <2>3. QED
      BY <1>4b, <2>2 DEF EntryMiss, IInv, TypeOK, MutexOwned, PriorFirst, Handshake,
         ExitAfterLoader, callVars, exitVars
  <1>5. CASE EntryLoad
    <2> DEFINE file == Loaded(ticket.path, ticket.size, "good")
    <2>1. ticket \in Ticket
      BY <1>5 DEF EntryLoad, IInv, TypeOK
    <2>2. /\ ticket.path \in Paths /\ ticket.size \in Sizes /\ ticket.rotate \in Int
      BY <2>1, TicketFields
    <2>3. disk \in [Paths -> Picture]
      BY DEF IInv, TypeOK
    <2>4. file \in Bitmap \cup {NoBmp}
      BY <2>2, <2>3, LoadedType
    <2>5. Rotated(file, ticket.rotate) \in Bitmap \cup {NoBmp}
      <3> HIDE DEF file
      <3>1. QED
        BY <2>2, <2>4, RotatedType
    <2>6. /\ lpc = "load" /\ lpc' = "lock"
          /\ lbmp' = Rotated(file, ticket.rotate) /\ live' = live + Count(lbmp')
          /\ UNCHANGED <<queue, hash, cache, bmpMutex, ticket, callVars, events, disk,
                         exitVars>>
      BY <1>5, Zenon DEF EntryLoad
    <2> HIDE DEF file
    <2>7. lbmp' \in Bitmap \cup {NoBmp} /\ Count(lbmp') \in Int
      BY <2>5, <2>6 DEF Count
    <2>8. live' \in Int
      BY <2>6, <2>7 DEF IInv, TypeOK
    <2>9. TypeOK'
      BY <2>1, <2>6, <2>7, <2>8 DEF IInv, TypeOK, callVars, exitVars
    <2>10. QED
      BY <2>6, <2>9 DEF IInv, MutexOwned, CacheInHash, NoDuplicates, PriorFirst,
         Handshake, ExitAfterLoader, Has, callVars, exitVars
  <1>6. CASE EntryLock
    BY <1>6 DEF EntryLock, IInv, TypeOK, MutexOwned, CacheInHash,
       NoDuplicates, PriorFirst, Handshake, ExitAfterLoader, Has, Listed,
       loaderVars, callVars, exitVars
  <1>7. CASE EntryEvict
    <2>1. Head(cache) \in Paths
      BY <1>7, LoaderAssumption DEF EntryEvict, IInv, TypeOK
    <2>2. /\ hash' \in [Paths -> Entry \cup {NoEntry}] /\ cache' \in Seq(Paths)
          /\ CacheInHash' /\ NoDuplicates' /\ Freed(Head(cache)) \in Int
      BY <1>7, <2>1, EraseKeeps DEF EntryEvict, IInv
    <2>3. QED
      BY <1>7, <2>2 DEF EntryEvict, IInv, TypeOK, MutexOwned, PriorFirst, Handshake,
         ExitAfterLoader, loaderVars, callVars, exitVars
  <1>8. CASE EntryAdd
    <2> DEFINE value == [size |-> ticket.size, rotate |-> ticket.rotate, bmp |-> lbmp]
    <2>1. ticket.path \in Paths /\ value \in Entry
      BY <1>8, LoaderAssumption DEF EntryAdd, IInv, TypeOK, Ticket, Entry
    <2>2. AddBmpHash(ticket.path, value)
      BY <1>8 DEF EntryAdd
    <2>3. /\ hash' \in [Paths -> Entry \cup {NoEntry}] /\ cache' \in Seq(Paths)
          /\ CacheInHash' /\ NoDuplicates' /\ Freed(ticket.path) \in Int
      BY <2>1, <2>2, AddKeeps DEF IInv
    <2>4. QED
      BY <1>8, <2>3 DEF EntryAdd, IInv, TypeOK, MutexOwned, PriorFirst, Handshake,
         ExitAfterLoader, callVars, exitVars
  <1>9. CASE EntryNotify
    BY <1>9 DEF EntryNotify, IInv, TypeOK, MutexOwned, CacheInHash,
       NoDuplicates, PriorFirst, Handshake, ExitAfterLoader, Has, Listed,
       loaderVars, callVars, exitVars
  <1>10. CASE EntryPost
    <2>1. ticket.path \in Paths
      BY <1>10, TicketFields DEF EntryPost, IInv, TypeOK
    <2>2. events \in Seq(Paths) /\ Append(events, ticket.path) \in Seq(Paths)
      BY <2>1 DEF IInv, TypeOK
    <2>3. events' = Append(events, ticket.path) \/ events' = events
      BY <1>10 DEF EntryPost
    <2>4. events' \in Seq(Paths)
      BY <2>2, <2>3
    <2>5. QED
      BY <1>10, <2>4 DEF EntryPost, Crash, IInv, TypeOK, MutexOwned, CacheInHash,
         NoDuplicates, PriorFirst, Handshake, ExitAfterLoader, Has, exitVars
  <1>11. CASE ClearBmpHash
    <2> DEFINE S == {p \in Paths : Listed(cache, p) /\ Has(p) /\ hash[p].bmp # NoBmp}
    <2>1. Cardinality(S) \in Nat
      <3>1. IsFiniteSet(S)
        BY LoaderAssumption, FS_Subset
      <3>2. QED
        BY <3>1, FS_CardinalityType
    <2>2. cache' = <<>>
      <3>1. CASE \E p \in Paths : Has(p)
        BY <1>11, <3>1 DEF ClearBmpHash
      <3>2. CASE ~\E p \in Paths : Has(p)
        <4>1. DOMAIN cache = {}
          BY <3>2 DEF IInv, TypeOK, CacheInHash
        <4>2. cache = <<>>
          BY <4>1 DEF IInv, TypeOK
        <4>3. QED
          BY <1>11, <3>2, <4>2 DEF ClearBmpHash
      <3>3. QED
        BY <3>1, <3>2
    <2>3. CacheInHash' /\ NoDuplicates' /\ cache' \in Seq(Paths)
      BY <2>2 DEF CacheInHash, NoDuplicates
    <2>4. hash' \in [Paths -> Entry \cup {NoEntry}] /\ live' \in Int
      BY <1>11, <2>1 DEF ClearBmpHash, IInv, TypeOK
    <2>5. QED
      BY <1>11, <2>3, <2>4 DEF ClearBmpHash, IInv, TypeOK, MutexOwned, PriorFirst,
         Handshake, ExitAfterLoader, callVars, exitVars
  <1>12. CASE EntryExit
    BY <1>12 DEF EntryExit, IInv, TypeOK, MutexOwned, CacheInHash,
       NoDuplicates, PriorFirst, Handshake, ExitAfterLoader, Has, Listed,
       loaderVars, callVars, exitVars
  <1>13. QED
    BY <1>1, <1>2, <1>3, <1>4, <1>4a, <1>4b, <1>5, <1>6, <1>7, <1>8, <1>9, <1>10,
       <1>11, <1>12
    DEF LoaderStep

\* Every step of a call of the UI thread keeps the invariant.
LEMMA CallStepInv == IInv /\ CallStep => IInv'
  <1> SUFFICES ASSUME IInv, CallStep PROVE IInv'
    OBVIOUS
  <1>0. apc \in {"check", "prepend", "load", "add", "return", "remove", "replace"}
         => /\ call.path \in Paths /\ call.size \in Sizes
            /\ call.rotate \in Rotations /\ call.rotate \in -3..3 /\ call.fast \in BOOLEAN
    BY LoaderAssumption DEF IInv, TypeOK, Call
  <1>1. CASE RemoveErase
    <2>1. /\ hash' \in [Paths -> Entry \cup {NoEntry}] /\ cache' \in Seq(Paths)
          /\ CacheInHash' /\ NoDuplicates' /\ Freed(call.path) \in Int
      BY <1>0, <1>1, EraseKeeps DEF RemoveErase, IInv
    <2>2. QED
      BY <1>1, <2>1 DEF RemoveErase, IInv, TypeOK, MutexOwned, PriorFirst, Handshake,
         ExitAfterLoader, loaderVars, exitVars
  <1>2. CASE ReplaceStore
    <2> DEFINE old == IF Has(call.path) THEN hash[call.path] ELSE DefaultEntry
               new == [size   |-> old.size,
                       rotate |-> IF call.diff THEN Rem4(old.rotate + call.rotate)
                                  ELSE call.rotate,
                       bmp    |-> abmp]
    <2>1. call.path \in Paths /\ call.rotate \in -3..3
      BY <1>0, <1>2 DEF ReplaceStore
    <2>2. old \in Entry
      BY <2>1, LoaderAssumption DEF DefaultEntry, Entry, Has, IInv, TypeOK
    <2>3. new.size \in Sizes /\ new.bmp \in Bitmap \cup {NoBmp}
      BY <2>2 DEF Entry, IInv, TypeOK
    <2>4. new.rotate \in -3..3
      <3>1. old.rotate \in Int /\ call.rotate \in Int
        BY <2>1, <2>2 DEF Entry
      <3> HIDE DEF old
      <3>2. QED
        BY <2>1, <3>1, Rem4Type
    <2>5. new \in Entry
      BY <2>3, <2>4 DEF Entry
    <2>6. hash' = [hash EXCEPT ![call.path] = new] /\ cache' = cache
      BY <1>2 DEF ReplaceStore
    <2>7. hash' \in [Paths -> Entry \cup {NoEntry}]
      BY <2>5, <2>6 DEF IInv, TypeOK
    <2>8. CacheInHash'
      BY <2>1, <2>5, <2>6, LoaderAssumption DEF CacheInHash, Has, IInv, TypeOK
    <2>9. live' \in Int
      BY <1>2 DEF ReplaceStore, Freed, Count, IInv, TypeOK
    <2>10. QED
      BY <1>2, <2>6, <2>7, <2>8, <2>9 DEF ReplaceStore, IInv, TypeOK, MutexOwned,
         NoDuplicates, PriorFirst, Handshake, ExitAfterLoader, loaderVars, exitVars
  <1>3. CASE GetHit
    <2> DEFINE e == hash[call.path]
               b == Rotated(e.bmp, call.rotate - e.rotate)
               new == [e EXCEPT !.bmp = b,
                         !.rotate = IF e.bmp # NoBmp /\ (call.rotate - e.rotate) % 4 # 0
                                    THEN Rem4(@ + (call.rotate - e.rotate)) ELSE @]
               rest == Without(cache, call.path)
    <2>1. call.path \in Paths /\ call.rotate \in Int
      BY <1>0, <1>3 DEF GetHit
    <2>2. e \in Entry
      BY <1>3, <2>1 DEF GetHit, Holds, Has, IInv, TypeOK
    <2>3. e.bmp \in Bitmap \cup {NoBmp} /\ e.rotate \in -3..3 /\ e.size \in Sizes
      BY <2>2 DEF Entry
    <2>4. b \in Bitmap \cup {NoBmp} /\ Count(b) \in Int
      <3>1. call.rotate - e.rotate \in Int
        BY <2>1, <2>3
      <3>2. b \in Bitmap \cup {NoBmp}
        BY <2>3, <3>1, RotatedType
      <3>3. QED
        BY <3>2 DEF Count
    <2>5. new \in Entry
      <3>1. e.rotate + (call.rotate - e.rotate) \in Int
        BY <2>1, <2>3
      <3>2. Rem4(e.rotate + (call.rotate - e.rotate)) \in -3..3
        BY <3>1, Rem4Type
      <3> HIDE DEF b, e
      <3>3. QED
        BY <2>2, <2>3, <2>4, <3>2 DEF Entry
    <2>6. hash' = [hash EXCEPT ![call.path] = new] /\ cache' = Append(rest, call.path)
          /\ abmp' = b /\ live' = live + Count(b)
      BY <1>3 DEF GetHit
    <2> HIDE DEF new, b
    <2>7. /\ hash' \in [Paths -> Entry \cup {NoEntry}]
          /\ \A p \in Paths : Has(p) => hash'[p] # NoEntry
          /\ hash'[call.path] # NoEntry
      BY <2>1, <2>5, <2>6, LoaderAssumption DEF IInv, TypeOK, Has
    <2>8. /\ rest \in Seq(Paths)
          /\ \A i, j \in DOMAIN rest : rest[i] = rest[j] => i = j
          /\ \A i \in DOMAIN rest : Listed(cache, rest[i]) /\ rest[i] # call.path
      BY WithoutProps DEF IInv, TypeOK, NoDuplicates
    <2>9. \A i \in DOMAIN rest : hash'[rest[i]] # NoEntry
      BY <2>7, <2>8 DEF Listed, IInv, CacheInHash, TypeOK
    <2> HIDE DEF rest
    <2>10. /\ cache' \in Seq(Paths)
           /\ DOMAIN rest = 1..Len(rest) /\ DOMAIN cache' = 1..Len(rest) + 1
           /\ Len(rest) \in Nat
           /\ \A i \in 1..Len(rest) : cache'[i] = rest[i]
           /\ cache'[Len(rest) + 1] = call.path
           /\ \A i \in 1..Len(rest) + 1 : i \in 1..Len(rest) \/ i = Len(rest) + 1
      BY <2>1, <2>6, <2>8
    <2>11. CacheInHash'
      BY <2>7, <2>9, <2>10 DEF CacheInHash, Has
    <2>12. NoDuplicates'
      BY <2>8, <2>10 DEF NoDuplicates
    <2>13. TypeOK'
      <3>1. /\ hash' \in [Paths -> Entry \cup {NoEntry}] /\ cache' \in Seq(Paths)
            /\ abmp' \in Bitmap \cup {NoBmp} /\ live' \in Int
        BY <2>4, <2>6, <2>7, <2>10 DEF IInv, TypeOK
      <3>2. /\ queue' = queue /\ bmpMutex' = bmpMutex /\ lpc' = lpc /\ ticket' = ticket
            /\ lbmp' = lbmp /\ apc = "check" /\ apc' = "return" /\ call' = call
            /\ events' = events /\ disk' = disk /\ quit' = quit /\ frame' = frame
            /\ deleting' = deleting /\ waitLoader' = waitLoader
        BY <1>3 DEF GetHit, loaderVars, exitVars
      <3>3. QED
        BY <3>1, <3>2 DEF IInv, TypeOK
    <2>14. QED
      BY <1>3, <2>11, <2>12, <2>13 DEF GetHit, IInv, MutexOwned, PriorFirst, Handshake,
         ExitAfterLoader, loaderVars, exitVars
  <1>4. CASE GetMiss
    <2>1. /\ hash' \in [Paths -> Entry \cup {NoEntry}] /\ cache' \in Seq(Paths)
          /\ CacheInHash' /\ NoDuplicates' /\ Freed(call.path) \in Int
      BY <1>0, <1>4, EraseKeeps DEF GetMiss, IInv
    <2>2. QED
      BY <1>4, <2>1 DEF GetMiss, IInv, TypeOK, MutexOwned, PriorFirst, Handshake,
         ExitAfterLoader, loaderVars, exitVars
  <1>5. CASE GetPrepend
    <2> DEFINE t == NewTicket(call.path, call.size, call.rotate, TRUE)
    <2>1. t \in Ticket
      BY <1>0, <1>5 DEF GetPrepend, NewTicket, Ticket
    <2>2. queue' = <<t>> \o queue /\ t.prior
      BY <1>5 DEF GetPrepend, NewTicket
    <2>3. queue' \in Seq(Ticket) /\ PriorFirst'
      BY <2>1, <2>2, PrependKeeps DEF IInv, TypeOK
    <2>4. QED
      BY <1>5, <2>3, ZenonT(40) DEF GetPrepend, IInv, TypeOK, MutexOwned, CacheInHash, NoDuplicates,
         Handshake, ExitAfterLoader, Has, loaderVars, exitVars
  <1>6. CASE GetLoad
    <2> DEFINE file == LoadedByCall
    <2>1. /\ call.path \in Paths /\ call.size \in Sizes /\ call.rotate \in Int
          /\ call.fast \in BOOLEAN
      BY <1>0, <1>6 DEF GetLoad
    <2>2. file \in Bitmap \cup {NoBmp}
      <3>1. disk \in [Paths -> Picture]
        BY DEF IInv, TypeOK
      <3>2. QED
        BY <2>1, <3>1, LoadedType DEF LoadedByCall
    <2>3. Rotated(file, call.rotate) \in Bitmap \cup {NoBmp}
      <3> HIDE DEF file
      <3>1. QED
        BY <2>1, <2>2, RotatedType
    <2>4. abmp' \in Bitmap \cup {NoBmp} /\ Count(abmp') \in Int
      BY <1>6, <2>3 DEF GetLoad, Count
    <2>5. live' \in Int
      BY <1>6, <2>4 DEF GetLoad, IInv, TypeOK
    <2>6. TypeOK'
      BY <1>6, <2>4, <2>5 DEF GetLoad, IInv, TypeOK, loaderVars, exitVars
    <2>7. QED
      BY <1>6, <2>6 DEF GetLoad, IInv, MutexOwned, CacheInHash, NoDuplicates,
         PriorFirst, Handshake, ExitAfterLoader, Has, loaderVars, exitVars
  <1>7. CASE GetAdd
    <2> DEFINE value == [size |-> call.size, rotate |-> call.rotate, bmp |-> abmp]
    <2>1. call.path \in Paths /\ value \in Entry
      BY <1>0, <1>7 DEF GetAdd, IInv, TypeOK, Entry
    <2>2. AddBmpHash(call.path, value)
      BY <1>7 DEF GetAdd
    <2>3. /\ hash' \in [Paths -> Entry \cup {NoEntry}] /\ cache' \in Seq(Paths)
          /\ CacheInHash' /\ NoDuplicates' /\ Freed(call.path) \in Int
      BY <2>1, <2>2, AddKeeps DEF IInv
    <2>4. live' \in Int
      BY <1>7, <2>3 DEF GetAdd, Count, IInv, TypeOK
    <2>5. QED
      BY <1>7, <2>3, <2>4 DEF GetAdd, IInv, TypeOK, MutexOwned, PriorFirst, Handshake,
         ExitAfterLoader, loaderVars, exitVars
  <1>8. CASE GetReturn
    <2>1. live' \in Int
      BY <1>8 DEF GetReturn, Count, IInv, TypeOK
    <2>2. QED
      BY <1>8, <2>1 DEF GetReturn, IInv, TypeOK, MutexOwned, CacheInHash, NoDuplicates,
         PriorFirst, Handshake, ExitAfterLoader, Has, loaderVars, exitVars
  <1>9. QED
    BY <1>1, <1>2, <1>3, <1>4, <1>5, <1>6, <1>7, <1>8 DEF CallStep

\* Every step of the client (a call begins, an event is taken, a file changes, the
\* frame is closed) keeps the invariant.
LEMMA ClientStepInv == IInv /\ ClientStep => IInv'
  <1> SUFFICES ASSUME IInv, ClientStep PROVE IInv'
    OBVIOUS
  <1>1. ASSUME NEW prior \in BOOLEAN, Clear(prior) PROVE IInv'
    <2>1. PICK n \in 0..Len(queue) : queue' = SubSeq(queue, 1, n)
      BY <1>1 DEF Clear
    <2>2. /\ queue \in Seq(Ticket) /\ Len(queue) \in Nat /\ DOMAIN queue = 1..Len(queue)
      BY DEF IInv, TypeOK
    <2>3. /\ queue' \in Seq(Ticket) /\ Len(queue') = n /\ DOMAIN queue' = 1..n
          /\ \A i \in 1..n : i \in 1..Len(queue) /\ queue'[i] = queue[i]
      BY <2>1, <2>2
    <2>4. PriorFirst'
      BY <2>2, <2>3 DEF IInv, PriorFirst
    <2>5. QED
      BY <1>1, <2>3, <2>4 DEF Clear, IInv, TypeOK, MutexOwned, CacheInHash, NoDuplicates,
         Handshake, ExitAfterLoader, Has, loaderVars, callVars, exitVars
  <1>2. ASSUME NEW p \in Paths, NEW s \in Sizes, NEW r \in Rotations,
               AppendTicket(p, s, r)
        PROVE  IInv'
    <2> DEFINE t == NewTicket(p, s, r, FALSE)
    <2>1. t \in Ticket /\ ~t.prior /\ queue' = Append(queue, t)
      BY <1>2 DEF AppendTicket, NewTicket, Ticket
    <2> HIDE DEF t
    <2>2. /\ queue \in Seq(Ticket) /\ Len(queue) \in Nat /\ DOMAIN queue = 1..Len(queue)
      BY DEF IInv, TypeOK
    <2>3. /\ queue' \in Seq(Ticket) /\ DOMAIN queue' = 1..Len(queue) + 1
          /\ \A i \in 1..Len(queue) : queue'[i] = queue[i]
          /\ queue'[Len(queue) + 1] = t
      BY <2>1, <2>2
    <2>4. PriorFirst'
      BY <2>1, <2>2, <2>3 DEF IInv, PriorFirst
    <2>5. UNCHANGED <<hash, cache, bmpMutex, loaderVars, callVars, events, live, disk,
                     exitVars>>
      BY <1>2, Zenon DEF AppendTicket
    <2>6. QED
      BY <2>3, <2>4, <2>5 DEF IInv, TypeOK, MutexOwned, CacheInHash, NoDuplicates,
         Handshake, ExitAfterLoader, Has, loaderVars, callVars, exitVars
  <1>3. ASSUME NEW p \in Paths, NEW s \in Sizes, NEW r \in Rotations,
               PrependTicket(p, s, r)
        PROVE  IInv'
    <2> DEFINE t == NewTicket(p, s, r, TRUE)
    <2>1. t \in Ticket /\ t.prior /\ queue' = <<t>> \o queue
      BY <1>3 DEF PrependTicket, NewTicket, Ticket
    <2> HIDE DEF t
    <2>2. queue' \in Seq(Ticket) /\ PriorFirst'
      BY <2>1, PrependKeeps DEF IInv, TypeOK
    <2>3. UNCHANGED <<hash, cache, bmpMutex, loaderVars, callVars, events, live, disk,
                     exitVars>>
      BY <1>3, Zenon DEF PrependTicket
    <2>4. QED
      BY <2>2, <2>3 DEF IInv, TypeOK, MutexOwned, CacheInHash, NoDuplicates,
         Handshake, ExitAfterLoader, Has, loaderVars, callVars, exitVars
  <1>4. ASSUME NEW p \in Paths, NEW s \in Sizes, NEW r \in Rotations,
               NEW fast \in BOOLEAN, GetFiBitmap(p, s, r, fast)
        PROVE  IInv'
    <2>1. NewCall(p, s, r, fast, FALSE) \in Call
      BY DEF NewCall, Call
    <2>2. QED
      BY <1>4, <2>1, ZenonT(40) DEF GetFiBitmap, MayCall, IInv, TypeOK, MutexOwned, CacheInHash,
         NoDuplicates, PriorFirst, Handshake, ExitAfterLoader, Has, loaderVars, exitVars
  <1>5. ASSUME NEW p \in Paths, Remove(p) PROVE IInv'
    <2>1. NewCall(p, FullSize, 0, FALSE, FALSE) \in Call
      BY LoaderAssumption DEF NewCall, Call
    <2>2. QED
      BY <1>5, <2>1, ZenonT(40) DEF Remove, MayCall, IInv, TypeOK, MutexOwned, CacheInHash,
         NoDuplicates, PriorFirst, Handshake, ExitAfterLoader, Has, loaderVars, exitVars
  <1>6. ASSUME NEW p \in Paths, NEW r \in Rotations, NEW diff \in BOOLEAN,
               NEW b \in Given[p], Replace(p, b, diff, r)
        PROVE  IInv'
    <2>1. NewCall(p, FullSize, r, FALSE, diff) \in Call
      BY LoaderAssumption DEF NewCall, Call
    <2>2. b \in Bitmap \cup {NoBmp}
      BY LoaderAssumption
    <2>3. QED
      BY <1>6, <2>1, <2>2, ZenonT(40) DEF Replace, MayCall, IInv, TypeOK, MutexOwned, CacheInHash,
         NoDuplicates, PriorFirst, Handshake, ExitAfterLoader, Has, loaderVars, callVars,
         exitVars
  <1>7. CASE TakeEvent
    <2>1. events' \in Seq(Paths)
      BY <1>7 DEF TakeEvent, IInv, TypeOK
    <2>2. QED
      BY <1>7, <2>1 DEF TakeEvent, IInv, TypeOK, MutexOwned, CacheInHash, NoDuplicates,
         PriorFirst, Handshake, ExitAfterLoader, Has, loaderVars, callVars, exitVars
  <1>8. ASSUME NEW p \in Paths, NEW picture \in Written, WriteFile(p, picture)
        PROVE  IInv'
    <2>1. disk' \in [Paths -> Picture]
      BY <1>8, LoaderAssumption DEF WriteFile, IInv, TypeOK
    <2>2. QED
      BY <1>8, <2>1 DEF WriteFile, IInv, TypeOK, MutexOwned, CacheInHash, NoDuplicates,
         PriorFirst, Handshake, ExitAfterLoader, Has, loaderVars, callVars, exitVars
  <1>9. CASE OnClose
    BY <1>9 DEF OnClose, IInv, TypeOK, MutexOwned, CacheInHash, NoDuplicates,
       PriorFirst, Handshake, ExitAfterLoader, Has, loaderVars, callVars
  <1>10. QED
    BY <1>1, <1>2, <1>3, <1>4, <1>5, <1>6, <1>7, <1>8, <1>9 DEF ClientStep

\* Destroying the frame and stopping the loader keep the invariant.
LEMMA ExitStepInv == IInv /\ ExitStep => IInv'
  <1> SUFFICES ASSUME IInv, ExitStep PROVE IInv'
    OBVIOUS
  <1>1. CASE DestroyFrame
    BY <1>1 DEF DestroyFrame, IInv, TypeOK, MutexOwned, CacheInHash, NoDuplicates,
       PriorFirst, Handshake, ExitAfterLoader, Has, loaderVars, callVars
  <1>2. CASE ClearThread
    BY <1>2 DEF ClearThread, IInv, TypeOK, MutexOwned, CacheInHash, NoDuplicates,
       PriorFirst, Handshake, ExitAfterLoader, Has, loaderVars
  <1>3. CASE ClearThreadDelete
    BY <1>3 DEF ClearThreadDelete, IInv, TypeOK, MutexOwned, CacheInHash, NoDuplicates,
       PriorFirst, Handshake, ExitAfterLoader, Has, loaderVars
  <1>4. CASE ClearThreadWaited
    BY <1>4 DEF ClearThreadWaited, IInv, TypeOK, MutexOwned, CacheInHash, NoDuplicates,
       PriorFirst, Handshake, ExitAfterLoader, Has, loaderVars, exitVars
  <1>5. QED
    BY <1>1, <1>2, <1>3, <1>4 DEF ExitStep

\* A step that changes nothing keeps the invariant.
LEMMA StutterInv == IInv /\ UNCHANGED vars => IInv'
  BY DEF IInv, TypeOK, MutexOwned, CacheInHash, NoDuplicates, PriorFirst, Handshake,
     ExitAfterLoader, Has, vars, loaderVars, callVars, exitVars

\* IInv is an invariant of the loader with any client.
THEOREM Invariance == Spec => []IInv
  <1>1. Init => IInv
    BY InitInv
  <1>2. IInv /\ [Next]_vars => IInv'
    BY LoaderStepInv, CallStepInv, ClientStepInv, ExitStepInv, StutterInv
    DEF Next, Terminated
  <1>3. QED
    BY <1>1, <1>2, PTL DEF Spec

-----------------------------------------------------------------------------
(* The theorems.                                                           *)

\* Type correctness of kuLoadThread: every variable keeps its type, and the locals
\* of Entry() and of the UI call are in scope where the code uses them.
THEOREM TypeCorrect == Spec => []TypeOK
  <1>1. IInv => TypeOK
    BY DEF IInv
  <1>2. QED
    BY <1>1, Invariance, PTL

\* mBmpCache never lists a path that is not a key of mBmpHash, for any capacity,
\* any number of pictures and any calls: the eviction loop always makes progress.
THEOREM CacheAgreement == Spec => []CacheInHash
  <1>1. IInv => CacheInHash
    BY DEF IInv
  <1>2. QED
    BY <1>1, Invariance, PTL

\* mBmpCache never lists a path twice.
THEOREM CacheDistinct == Spec => []NoDuplicates
  <1>1. IInv => NoDuplicates
    BY DEF IInv
  <1>2. QED
    BY <1>1, Invariance, PTL

\* The tickets of pictures on screen are always ahead of all prefetches.
THEOREM PriorOrder == Spec => []PriorFirst
  <1>1. IInv => PriorFirst
    BY DEF IInv
  <1>2. QED
    BY <1>1, Invariance, PTL

\* kuApp::OnExit gets past ClearThread only when the loader thread has ended.
THEOREM SafeExit == Spec => []ExitAfterLoader
  <1>1. IInv => ExitAfterLoader
    BY DEF IInv, Handshake
  <1>2. QED
    BY <1>1, Invariance, PTL
=============================================================================
