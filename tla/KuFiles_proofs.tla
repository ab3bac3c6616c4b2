--------------------------- MODULE KuFiles_proofs ---------------------------
(***************************************************************************)
(* Proofs about KuFiles, for any disks, names and contents and any number  *)
(* of commands and failures: the disk stays a tree, no file is lost or     *)
(* astray, and a paste that asked nothing has done what it was to do.      *)
(***************************************************************************)
EXTENDS KuFiles, SequenceTheorems, WellFoundedInduction, TLAPS

-----------------------------------------------------------------------------
(* Lemmas about paths.                                                     *)

\* A set of natural numbers has a least one.
LEMMA Least ==
  ASSUME NEW T, T \subseteq Nat, T # {}
  PROVE  \E n \in T : \A m \in T : n <= m
  <1>1. PICK n \in T : \A m \in T : <<m, n>> \notin OpToRel(<, Nat)
    BY WFMin, NatLessThanWellFounded
  <1>2. ASSUME NEW m \in T PROVE n <= m
    <2>1. <<m, n>> \notin OpToRel(<, Nat)
      BY <1>1
    <2>2. ~(m < n)
      BY <2>1 DEF OpToRel
    <2>3. QED
      BY <2>2
  <1>3. QED
    BY <1>2

\* The beginning of a sequence.
LEMMA BeginningOf ==
  ASSUME NEW S, NEW p \in Seq(S), NEW k \in Nat, k <= Len(p)
  PROVE  /\ SubSeq(p, 1, k) \in Seq(S) /\ Len(SubSeq(p, 1, k)) = k
         /\ \A i \in 1..k : SubSeq(p, 1, k)[i] = p[i]
  <1>1. Len(p) \in Nat /\ \A i \in 1..k : p[i] \in S
    BY LenProperties
  <1>2. QED
    BY <1>1, SubSeqProperties

\* A path that is not the root is a name in a directory.
LEMMA FrontOf ==
  ASSUME NEW p \in Seq(Names) \ {<<>>}
  PROVE  /\ Len(p) \in Nat /\ Len(p) > 0
         /\ Front(p) \in Seq(Names) /\ Len(Front(p)) = Len(p) - 1
         /\ \A i \in 1..(Len(p) - 1) : Front(p)[i] = p[i]
         /\ Last(p) \in Names
  <1>1. Len(p) \in Nat \ {0}
    BY EmptySeq
  <1>2. Len(p) - 1 \in Nat /\ Len(p) - 1 <= Len(p)
    BY <1>1
  <1>3. Last(p) \in Names
    BY <1>1, ElementOfSeq DEF Last
  <1>4. /\ Front(p) \in Seq(Names) /\ Len(Front(p)) = Len(p) - 1
        /\ \A i \in 1..(Len(p) - 1) : Front(p)[i] = p[i]
    BY <1>2, BeginningOf DEF Front
  <1>5. QED
    BY <1>1, <1>3, <1>4

\* Two paths are the same if they have the same names.
LEMMA PathsEqual ==
  ASSUME NEW p \in Seq(Names), NEW q \in Seq(Names), Len(p) = Len(q),
         \A i \in 1..Len(p) : p[i] = q[i]
  PROVE  p = q
  BY SeqEqual

\* A name in a directory.
LEMMA NameIn ==
  ASSUME NEW s \in Seq(Names), NEW n \in Names
  PROVE  /\ Append(s, n) \in Seq(Names) \ {<<>>} /\ Len(Append(s, n)) = Len(s) + 1
         /\ Front(Append(s, n)) = s /\ Last(Append(s, n)) = n
  <1> DEFINE p == Append(s, n)
  <1>1. /\ p \in Seq(Names) \ {<<>>} /\ Len(p) = Len(s) + 1 /\ Len(s) \in Nat
        /\ \A i \in 1..Len(s) : p[i] = s[i]
        /\ p[Len(s) + 1] = n
    BY AppendProperties, LenProperties
  <1> HIDE DEF p
  <1>2. Front(p) = s
    <2>1. /\ Front(p) \in Seq(Names) /\ Len(Front(p)) = Len(p) - 1
          /\ \A i \in 1..(Len(p) - 1) : Front(p)[i] = p[i]
      BY <1>1, FrontOf
    <2>2. Len(p) - 1 = Len(s)
      BY <1>1
    <2>3. Len(Front(p)) = Len(s) /\ \A i \in 1..Len(Front(p)) : Front(p)[i] = s[i]
      BY <1>1, <2>1, <2>2
    <2>4. QED
      BY <2>1, <2>3, PathsEqual
  <1>3. Last(p) = n
    BY <1>1 DEF Last
  <1>4. QED
    BY <1>1, <1>2, <1>3 DEF p

\* One path begins with another one.
LEMMA PrefixIff ==
  ASSUME NEW s \in Seq(Names), NEW t \in Seq(Names)
  PROVE  IsPrefix(s, t) <=> Len(s) <= Len(t) /\ \A i \in 1..Len(s) : s[i] = t[i]
  <1>1. Len(s) \in Nat /\ Len(t) \in Nat /\ SubSeq(s, 1, Len(s)) = s
    BY LenProperties, SubSeqFull
  <1>2. CASE Len(s) <= Len(t)
    <2>1. /\ SubSeq(t, 1, Len(s)) \in Seq(Names) /\ Len(SubSeq(t, 1, Len(s))) = Len(s)
          /\ \A i \in 1..Len(s) : SubSeq(t, 1, Len(s))[i] = t[i]
      BY <1>1, <1>2, BeginningOf
    <2>2. SubSeq(t, 1, Len(s)) = s <=> \A i \in 1..Len(s) : s[i] = t[i]
      BY <2>1, PathsEqual
    <2>3. QED
      BY <1>1, <1>2, <2>2 DEF IsPrefix
  <1>3. CASE ~(Len(s) <= Len(t))
    BY <1>3 DEF IsPrefix
  <1>4. QED
    BY <1>2, <1>3

LEMMA PrefixSelf ==
  ASSUME NEW s \in Seq(Names)
  PROVE  IsPrefix(s, s)
  <1>1. Len(s) \in Nat
    BY LenProperties
  <1>2. QED
    BY <1>1, PrefixIff

\* Of one directory and another one in it.
LEMMA PrefixOfFront ==
  ASSUME NEW s \in Seq(Names), NEW q \in Seq(Names) \ {<<>>}
  PROVE  /\ IsPrefix(s, q) /\ s # q => IsPrefix(s, Front(q))
         /\ IsPrefix(s, Front(q)) => IsPrefix(s, q) /\ s # q
  <1>1. /\ Len(s) \in Nat /\ Len(q) \in Nat /\ Len(q) > 0
        /\ Front(q) \in Seq(Names) /\ Len(Front(q)) = Len(q) - 1
        /\ \A i \in 1..(Len(q) - 1) : Front(q)[i] = q[i]
    BY FrontOf, LenProperties
  <1>2. ASSUME IsPrefix(s, q), s # q PROVE IsPrefix(s, Front(q))
    <2>1. Len(s) <= Len(q) /\ \A i \in 1..Len(s) : s[i] = q[i]
      BY <1>2, PrefixIff
    <2>2. Len(s) # Len(q)
      BY <1>2, <2>1, PathsEqual
    <2>3. Len(s) <= Len(Front(q)) /\ \A i \in 1..Len(s) : s[i] = Front(q)[i]
      BY <1>1, <2>1, <2>2
    <2>4. QED
      BY <1>1, <2>3, PrefixIff
  <1>3. ASSUME IsPrefix(s, Front(q)) PROVE IsPrefix(s, q) /\ s # q
    <2>1. Len(s) <= Len(Front(q)) /\ \A i \in 1..Len(s) : s[i] = Front(q)[i]
      BY <1>1, <1>3, PrefixIff
    <2>2. Len(s) <= Len(q) /\ (\A i \in 1..Len(s) : s[i] = q[i]) /\ Len(s) # Len(q)
      BY <1>1, <2>1
    <2>3. QED
      BY <2>2, PrefixIff
  <1>4. QED
    BY <1>2, <1>3

\* The part of a path within a directory.
LEMMA WithinOf ==
  ASSUME NEW p \in Seq(Names), NEW q \in Seq(Names), IsPrefix(p, q)
  PROVE  Within(p, q) \in Seq(Names) /\ p \o Within(p, q) = q
  <1>1. Len(p) \in Nat /\ Len(q) \in Nat /\ Len(p) <= Len(q)
    BY LenProperties, PrefixIff
  <1>2. SubSeq(q, 1, Len(p)) = p
    BY SubSeqFull DEF IsPrefix
  <1>3. Within(p, q) \in Seq(Names)
    <2>1. \A i \in (Len(p) + 1)..Len(q) : q[i] \in Names
      BY <1>1, ElementOfSeq
    <2>2. Len(p) + 1 \in Int /\ Len(q) \in Int
      BY <1>1
    <2>3. QED
      BY <2>1, <2>2, SubSeqProperties DEF Within
  <1>4. SubSeq(q, 1, Len(p)) \o SubSeq(q, Len(p) + 1, Len(q)) = SubSeq(q, 1, Len(q))
    <2>1. 1 \in 1..Len(q) + 1 /\ Len(p) \in 1 - 1..Len(q) /\ Len(q) \in Len(p)..Len(q)
      BY <1>1
    <2>2. QED
      BY <2>1, ConcatAdjacentSubSeq
  <1>5. QED
    BY <1>2, <1>3, <1>4, SubSeqFull DEF Within

LEMMA CancelLeft ==
  ASSUME NEW d \in Seq(Names), NEW v \in Seq(Names), NEW w \in Seq(Names), d \o v = d \o w
  PROVE  v = w
  <1>1. \A S : \A s, t, u \in Seq(S) : s \o t = s \o u => t = u
    BY ConcatSimplifications
  <1>2. QED
    BY <1>1

\* A path put under a directory.
LEMMA Under ==
  ASSUME NEW d \in Seq(Names), NEW w \in Seq(Names)
  PROVE  /\ d \o w \in Seq(Names) /\ Len(d \o w) = Len(d) + Len(w)
         /\ IsPrefix(d, d \o w) /\ Within(d, d \o w) = w
  <1>1. /\ Len(d) \in Nat /\ Len(w) \in Nat
        /\ d \o w \in Seq(Names) /\ Len(d \o w) = Len(d) + Len(w)
        /\ \A i \in 1..(Len(d) + Len(w)) :
             (d \o w)[i] = IF i <= Len(d) THEN d[i] ELSE w[i - Len(d)]
    BY LenProperties, ConcatProperties
  <1>2. IsPrefix(d, d \o w)
    <2>1. Len(d) <= Len(d \o w) /\ \A i \in 1..Len(d) : d[i] = (d \o w)[i]
      BY <1>1
    <2>2. QED
      BY <1>1, <2>1, PrefixIff
  <1>3. Within(d, d \o w) = w
    <2>1. Within(d, d \o w) \in Seq(Names) /\ d \o Within(d, d \o w) = d \o w
      BY <1>1, <1>2, WithinOf
    <2>2. QED
      BY <2>1, CancelLeft
  <1>4. QED
    BY <1>1, <1>2, <1>3

\* What is in a directory stays in it when the directory moves.
LEMMA FrontUnder ==
  ASSUME NEW d \in Seq(Names), NEW w \in Seq(Names) \ {<<>>}
  PROVE  d \o w \in Seq(Names) \ {<<>>} /\ Front(d \o w) = d \o Front(w)
  <1>1. PICK s \in Seq(Names), n \in Names : w = Append(s, n)
    BY SequenceEmptyOrAppend
  <1>2. d \o s \in Seq(Names) /\ <<n>> \in Seq(Names)
    BY ConcatProperties
  <1>3. d \o w = Append(d \o s, n)
    <2>1. w = s \o <<n>> /\ Append(d \o s, n) = (d \o s) \o <<n>>
      BY <1>1, <1>2, AppendIsConcat
    <2>2. (d \o s) \o <<n>> = d \o (s \o <<n>>)
      BY <1>2, ConcatAssociative
    <2>3. QED
      BY <2>1, <2>2
  <1>4. Front(w) = s /\ Front(d \o w) = d \o s /\ d \o w \in Seq(Names) \ {<<>>}
    BY <1>1, <1>2, <1>3, NameIn
  <1>5. QED
    BY <1>4

-----------------------------------------------------------------------------
(* Lemmas about disks.                                                     *)

Paths == Seq(Names) \ {<<>>}
Held == Contents \cup {Part, Dir}

\* What IsDisk says of one path.
LEMMA OnDisk ==
  ASSUME NEW d, IsDisk(d), NEW q \in DOMAIN d
  PROVE  /\ q \in Paths /\ d[q] \in Held
         /\ Front(q) # <<>> => Front(q) \in DOMAIN d /\ d[Front(q)] = Dir
  BY DEF IsDisk, Paths, Held

\* Whatever is above a file or directory is a directory, and not an empty one.
LEMMA Ancestors ==
  ASSUME NEW d, IsDisk(d), NEW q \in DOMAIN d, NEW p \in Paths,
         IsPrefix(p, q), p # q
  PROVE  p \in DOMAIN d /\ d[p] = Dir /\ \E c \in DOMAIN d : Front(c) = p
  <1> DEFINE T == {n \in Nat : \E c \in DOMAIN d : Len(c) = n /\ IsPrefix(p, c) /\ p # c}
  <1>1. Len(q) \in T
    <2>1. Len(q) \in Nat
      BY OnDisk, LenProperties DEF Paths
    <2>2. QED
      BY <2>1
  <1>2. PICK n \in T : \A m \in T : n <= m
    <2> HIDE DEF T
    <2>1. T \subseteq Nat
      BY DEF T
    <2>2. QED
      BY <1>1, <2>1, Least
  <1>3. PICK c \in DOMAIN d : Len(c) = n /\ IsPrefix(p, c) /\ p # c
    BY <1>2
  <1>4. c \in Paths /\ p \in Seq(Names)
    BY OnDisk DEF Paths
  <1>5. IsPrefix(p, Front(c)) /\ Front(c) \in Seq(Names) /\ Len(Front(c)) = n - 1 /\ n \in Nat
    BY <1>3, <1>4, FrontOf, PrefixOfFront DEF Paths
  <1>6. Front(c) # <<>>
    <2>1. Len(p) \in Nat /\ Len(p) > 0
      BY FrontOf DEF Paths
    <2>2. Len(p) <= Len(Front(c))
      BY <1>4, <1>5, PrefixIff
    <2>3. Len(Front(c)) > 0
      BY <1>5, <2>1, <2>2
    <2>4. QED
      BY <2>3, EmptySeq
  <1>7. Front(c) \in DOMAIN d /\ d[Front(c)] = Dir
    BY <1>6, OnDisk
  <1>8. Front(c) = p
    <2> SUFFICES ASSUME Front(c) # p PROVE FALSE
      OBVIOUS
    <2>1. n - 1 \in Nat
      <3>1. Len(Front(c)) \in Nat
        BY <1>5, LenProperties
      <3>2. QED
        BY <1>5, <3>1
    <2>2. n - 1 \in T
      BY <1>5, <1>7, <2>1
    <2>3. n <= n - 1
      BY <1>2, <2>2
    <2>4. QED
      BY <1>5, <2>3
  <1>9. QED
    BY <1>7, <1>8

\* A new file or directory.
LEMMA Added ==
  ASSUME NEW d, IsDisk(d), NEW p \in Paths, p \notin DOMAIN d,
         Front(p) = <<>> \/ (Front(p) \in DOMAIN d /\ d[Front(p)] = Dir),
         NEW v \in Held
  PROVE  /\ IsDisk(With(d, p, v))
         /\ Range(With(d, p, v)) = Range(d) \cup {v}
         /\ DOMAIN With(d, p, v) = DOMAIN d \cup {p}
  <1> DEFINE e == With(d, p, v)
  <1>1. DOMAIN e = DOMAIN d \cup {p} /\ e[p] = v /\ \A q \in DOMAIN d : e[q] = d[q]
    BY DEF With
  <1> HIDE DEF e
  <1>2. ASSUME NEW q \in DOMAIN e
        PROVE  /\ q \in Paths /\ e[q] \in Held
               /\ Front(q) # <<>> => Front(q) \in DOMAIN e /\ e[Front(q)] = Dir
    <2>1. CASE q \in DOMAIN d
      BY <1>1, <2>1, OnDisk
    <2>2. CASE q = p
      BY <1>1, <2>2
    <2>3. QED
      BY <1>1, <2>1, <2>2
  <1>3. IsDisk(e)
    BY <1>2 DEF IsDisk, Paths, Held
  <1>4. Range(e) = Range(d) \cup {v}
    BY <1>1 DEF Range
  <1>5. QED
    BY <1>1, <1>3, <1>4 DEF e

\* A file, or an empty directory, goes.
LEMMA Removed ==
  ASSUME NEW d, IsDisk(d), NEW p, \A q \in DOMAIN d : Front(q) # p
  PROVE  /\ IsDisk(Restrict(d, DOMAIN d \ {p}))
         /\ DOMAIN Restrict(d, DOMAIN d \ {p}) = DOMAIN d \ {p}
         /\ \A q \in DOMAIN d \ {p} : Restrict(d, DOMAIN d \ {p})[q] = d[q]
         /\ \A v \in Range(d) : \/ v \in Range(Restrict(d, DOMAIN d \ {p}))
                                \/ (p \in DOMAIN d /\ v = d[p])
  <1> DEFINE e == Restrict(d, DOMAIN d \ {p})
  <1>1. DOMAIN e = DOMAIN d \ {p} /\ \A q \in DOMAIN d \ {p} : e[q] = d[q]
    BY DEF Restrict
  <1> HIDE DEF e
  <1>2. ASSUME NEW q \in DOMAIN e
        PROVE  /\ q \in Paths /\ e[q] \in Held
               /\ Front(q) # <<>> => Front(q) \in DOMAIN e /\ e[Front(q)] = Dir
    BY <1>1, OnDisk
  <1>3. IsDisk(e)
    BY <1>2 DEF IsDisk, Paths, Held
  <1>4. ASSUME NEW v \in Range(d) PROVE v \in Range(e) \/ (p \in DOMAIN d /\ v = d[p])
    BY <1>1 DEF Range
  <1>5. QED
    BY <1>1, <1>3, <1>4 DEF e

\* A file is in no path but its own.
LEMMA FileIsLeaf ==
  ASSUME NEW d, IsDisk(d), NEW p \in DOMAIN d, d[p] # Dir
  PROVE  \A q \in DOMAIN d : Front(q) # p
  BY OnDisk DEF Paths

\* A rename moves a whole subtree, and replaces nothing but a file or an empty
\* directory.
LEMMA RenameKeeps ==
  ASSUME IsDisk(disk), NEW p \in DOMAIN disk, NEW des \in Paths, des # p,
         Front(des) = Front(p),
         \/ des \notin DOMAIN disk
         \/ disk[des] # Dir
         \/ \A c \in DOMAIN disk : Front(c) # des
  PROVE  /\ IsDisk(Renamed(p, des))
         /\ \A v \in Range(disk) : \/ v \in Range(Renamed(p, des))
                                  \/ (des \in DOMAIN disk /\ v = disk[des])
  <1> DEFINE sub == Subtree(disk, p)
             at(q) == des \o Within(p, q)
             r == Renamed(p, des)
  <1>1. p \in Paths /\ p \in Seq(Names) /\ des \in Seq(Names)
    BY OnDisk DEF Paths
  <1>2. ASSUME NEW q \in sub
        PROVE  /\ q \in DOMAIN disk /\ q \in Paths /\ IsPrefix(p, q)
               /\ Within(p, q) \in Seq(Names) /\ p \o Within(p, q) = q
               /\ at(q) \in Seq(Names) /\ IsPrefix(des, at(q)) /\ Within(des, at(q)) = Within(p, q)
    <2>1. q \in DOMAIN disk /\ q \in Paths /\ IsPrefix(p, q)
      BY OnDisk DEF Subtree
    <2>2. Within(p, q) \in Seq(Names) /\ p \o Within(p, q) = q
      BY <1>1, <2>1, WithinOf DEF Paths
    <2>3. QED
      BY <1>1, <2>1, <2>2, Under
  <1>3. /\ DOMAIN r = {at(q) : q \in sub} \cup (DOMAIN disk \ sub)
        /\ \A q \in {at(x) : x \in sub} : r[q] = disk[p \o Within(des, q)]
        /\ \A q \in (DOMAIN disk \ sub) \ {at(x) : x \in sub} : r[q] = disk[q]
    BY DEF Renamed
  <1> HIDE DEF r, sub
  <1>4. ASSUME NEW q \in sub PROVE at(q) \in DOMAIN r /\ r[at(q)] = disk[q]
    BY <1>2, <1>3
  <1>5. ASSUME NEW q \in DOMAIN disk, IsPrefix(des, q) PROVE q = des
    BY <1>5, Ancestors
  <1>6. ASSUME NEW q \in DOMAIN disk \ sub, q # des PROVE q \in DOMAIN r /\ r[q] = disk[q]
    <2>1. ASSUME NEW x \in sub PROVE q # at(x)
      <3>1. IsPrefix(des, at(x))
        BY <1>2
      <3>2. QED
        BY <1>5, <1>6, <3>1
    <2>2. QED
      BY <1>3, <2>1
  <1>7. p \in sub /\ at(p) = des
    <2>1. p \in sub
      BY <1>1, PrefixSelf DEF sub, Subtree
    <2>2. Within(p, p) \in Seq(Names) /\ p \o Within(p, p) = p
      BY <1>2, <2>1
    <2>3. Within(p, p) = <<>>
      BY <1>1, <2>2, ConcatEqualIffEmpty
    <2>4. QED
      BY <1>1, <2>1, <2>3, ConcatEmptySeq
  <1>8. ASSUME NEW q \in sub
        PROVE  /\ at(q) \in Paths /\ r[at(q)] \in Held
               /\ Front(at(q)) # <<>> => Front(at(q)) \in DOMAIN r /\ r[Front(at(q))] = Dir
    <2>1. r[at(q)] \in Held
      BY <1>2, <1>4, OnDisk
    <2>2. CASE q = p
      <3>1. at(q) = des
        BY <1>7, <2>2
      <3>2. ASSUME Front(p) # <<>> PROVE Front(p) \in DOMAIN r /\ r[Front(p)] = Dir
        <4>1. Front(p) \in DOMAIN disk /\ disk[Front(p)] = Dir
          BY <3>2, OnDisk
        <4>2. Front(p) \notin sub
          <5>1. ~IsPrefix(p, Front(p))
            BY <1>1, PrefixOfFront DEF Paths
          <5>2. QED
            BY <5>1, <1>2
        <4>3. Front(p) # des
          <5>1. Front(des) \in Seq(Names)
            BY FrontOf DEF Paths
          <5>2. IsPrefix(Front(des), Front(des))
            BY <5>1, PrefixSelf
          <5>3. QED
            BY <5>1, <5>2, PrefixOfFront DEF Paths
        <4>4. QED
          BY <1>6, <4>1, <4>2, <4>3
      <3>3. QED
        BY <2>1, <3>1, <3>2
    <2>3. CASE q # p
      <3>1. IsPrefix(p, Front(q)) /\ Front(q) \in Seq(Names)
        BY <1>1, <1>2, <2>3, PrefixOfFront, FrontOf DEF Paths
      <3>2. Front(q) # <<>>
        <4>1. Len(p) <= Len(Front(q)) /\ Len(p) \in Nat /\ Len(p) > 0
          BY <1>1, <3>1, PrefixIff, FrontOf DEF Paths
        <4>2. QED
          BY <4>1, EmptySeq
      <3>3. Front(q) \in sub /\ disk[Front(q)] = Dir
        BY <1>2, <3>1, <3>2, OnDisk DEF sub, Subtree
      <3>4. Within(p, q) \in Seq(Names) \ {<<>>}
        BY <1>1, <1>2, <2>3, ConcatEmptySeq
      <3>5. /\ Front(at(q)) = des \o Front(Within(p, q)) /\ at(q) \in Paths
            /\ Front(q) = p \o Front(Within(p, q))
        <4>1. at(q) \in Paths /\ Front(at(q)) = des \o Front(Within(p, q))
          BY <1>1, <3>4, FrontUnder DEF Paths
        <4>2. Front(p \o Within(p, q)) = p \o Front(Within(p, q))
          BY <1>1, <3>4, FrontUnder
        <4>3. QED
          BY <1>2, <4>1, <4>2
      <3>6. Front(Within(p, q)) \in Seq(Names)
        BY <3>4, FrontOf
      <3>7. Within(p, Front(q)) = Front(Within(p, q))
        BY <1>1, <3>5, <3>6, Under
      <3>8. Front(at(q)) = at(Front(q))
        BY <3>5, <3>7
      <3>9. QED
        BY <1>4, <2>1, <3>3, <3>5, <3>8
    <2>4. QED
      BY <2>2, <2>3
  <1>9. ASSUME NEW q \in DOMAIN disk \ sub, q # des
        PROVE  /\ q \in Paths /\ r[q] \in Held
               /\ Front(q) # <<>> => Front(q) \in DOMAIN r /\ r[Front(q)] = Dir
    <2>1. q \in Paths /\ disk[q] \in Held /\ r[q] = disk[q]
      BY <1>6, <1>9, OnDisk
    <2>2. ASSUME Front(q) # <<>> PROVE Front(q) \in DOMAIN r /\ r[Front(q)] = Dir
      <3>1. Front(q) \in DOMAIN disk /\ disk[Front(q)] = Dir
        BY <2>2, OnDisk
      <3>2. Front(q) \notin sub
        BY <1>1, <2>1, PrefixOfFront DEF sub, Subtree, Paths
      <3>3. Front(q) # des
        <4> SUFFICES ASSUME Front(q) = des PROVE FALSE
          OBVIOUS
        <4>1. IsPrefix(des, q)
          BY <1>1, <2>1, PrefixSelf, PrefixOfFront DEF Paths
        <4>2. QED
          BY <1>5, <1>9, <4>1
      <3>4. QED
        BY <1>6, <3>1, <3>2, <3>3
    <2>3. QED
      BY <2>1, <2>2
  <1>10. IsDisk(r)
    <2>1. ASSUME NEW q \in DOMAIN r
          PROVE  /\ q \in Paths /\ r[q] \in Held
                 /\ Front(q) # <<>> => Front(q) \in DOMAIN r /\ r[Front(q)] = Dir
      <3>1. CASE \E x \in sub : q = at(x)
        BY <1>8, <3>1
      <3>2. CASE ~\E x \in sub : q = at(x)
        BY <1>3, <1>7, <1>9, <3>2
      <3>3. QED
        BY <3>1, <3>2
    <2>2. QED
      BY <2>1 DEF IsDisk, Paths, Held
  <1>11. ASSUME NEW v \in Range(disk)
         PROVE  v \in Range(r) \/ (des \in DOMAIN disk /\ v = disk[des])
    <2>1. PICK q \in DOMAIN disk : v = disk[q]
      BY DEF Range
    <2>2. CASE q \in sub
      BY <1>4, <2>1, <2>2 DEF Range
    <2>3. CASE q \notin sub /\ q # des
      BY <1>6, <2>1, <2>3 DEF Range
    <2>4. QED
      BY <2>1, <2>2, <2>3
  <1>12. QED
    BY <1>10, <1>11 DEF r

-----------------------------------------------------------------------------
(* The calls of wxWidgets.                                                 *)

\* The disk stays a tree, and all that was on it but directories, and what is
\* allowed to go, is still on it.
Kept(lost) ==
  /\ IsDisk(disk') /\ failures' \in 0..MaxFailures
  /\ Range(disk) \subseteq Range(disk') \cup {Dir} \cup lost

\* Nothing is new on the disk.
Shrinks ==
  DOMAIN disk' \subseteq DOMAIN disk /\ \A q \in DOMAIN disk' : disk'[q] = disk[q]

DiskOK == IsDisk(disk) /\ failures \in 0..MaxFailures

LEMMA DiskStays ==
  ASSUME DiskOK, UNCHANGED disk, UNCHANGED failures \/ Fails
  PROVE  Kept({}) /\ Shrinks
  <1>1. failures' \in 0..MaxFailures
    BY FilesAssumption DEF DiskOK, Fails
  <1>2. IsDisk(disk')
    BY DEF DiskOK
  <1>3. QED
    BY <1>1, <1>2 DEF Kept, Shrinks

\* Under a free name.
LEMMA New ==
  ASSUME DiskOK, NEW p \in Paths, Free(p), NEW v \in Held, disk' = With(disk, p, v),
         UNCHANGED failures \/ Fails
  PROVE  Kept({}) /\ v \in Range(disk')
  <1>1. failures' \in 0..MaxFailures
    BY FilesAssumption DEF DiskOK, Fails
  <1>2. /\ p \notin DOMAIN disk
        /\ Front(p) = <<>> \/ (Front(p) \in DOMAIN disk /\ disk[Front(p)] = Dir)
    BY DEF Free, IsDir
  <1>3. /\ IsDisk(With(disk, p, v))
        /\ Range(With(disk, p, v)) = Range(disk) \cup {v}
        /\ DOMAIN With(disk, p, v) = DOMAIN disk \cup {p}
    <2>1. IsDisk(disk)
      BY DEF DiskOK
    <2>2. QED
      BY <1>2, <2>1, Added
  <1>4. IsDisk(disk') /\ Range(disk') = Range(disk) \cup {v}
    BY <1>3
  <1>5. QED
    BY <1>1, <1>4 DEF Kept

LEMMA MakeDirKeeps ==
  ASSUME DiskOK, NEW p \in Paths, MakesDir(p) \/ MakesNoDir(p)
  PROVE  Kept({})
  <1>1. CASE MakesDir(p)
    BY <1>1, New DEF MakesDir, Held
  <1>2. CASE MakesNoDir(p)
    BY <1>2, DiskStays DEF MakesNoDir
  <1>3. QED
    BY <1>1, <1>2

LEMMA WithoutKeeps ==
  ASSUME DiskOK, NEW p, disk' = Without(p), UNCHANGED failures,
         \A q \in DOMAIN disk : Front(q) # p,
         NEW lost, p \in DOMAIN disk => disk[p] \in lost \cup {Dir}
  PROVE  Kept(lost) /\ Shrinks
  <1>1. /\ IsDisk(disk') /\ DOMAIN disk' = DOMAIN disk \ {p}
        /\ \A q \in DOMAIN disk \ {p} : disk'[q] = disk[q]
        /\ \A v \in Range(disk) : v \in Range(disk') \/ (p \in DOMAIN disk /\ v = disk[p])
    BY Removed DEF Without, DiskOK
  <1>2. Kept(lost)
    BY <1>1 DEF Kept, DiskOK
  <1>3. Shrinks
    BY <1>1 DEF Shrinks
  <1>4. QED
    BY <1>2, <1>3

LEMMA RemoveDirKeeps ==
  ASSUME DiskOK, NEW p, RemovesDir(p) \/ RemovesNoDir(p)
  PROVE  Kept({}) /\ Shrinks
  <1>1. CASE RemovesDir(p)
    <2>1. \A q \in DOMAIN disk : Front(q) # p
      BY <1>1 DEF RemovesDir, Children
    <2>2. p \in DOMAIN disk => disk[p] \in {} \cup {Dir}
      <3>1. <<>> \notin DOMAIN disk
        BY DEF DiskOK, IsDisk
      <3>2. QED
        BY <1>1, <3>1 DEF RemovesDir, IsDir
    <2>3. disk' = Without(p) /\ UNCHANGED failures
      BY <1>1 DEF RemovesDir
    <2>4. QED
      BY <2>1, <2>2, <2>3, WithoutKeeps
  <1>2. CASE RemovesNoDir(p)
    BY <1>2, DiskStays DEF RemovesNoDir
  <1>3. QED
    BY <1>1, <1>2

LEMMA TransferKeeps ==
  ASSUME DiskOK, NEW src, NEW des \in Paths, NEW move \in BOOLEAN, IsFile(src),
         Transfers(src, des, move)
  PROVE  Kept({})
  <1>1. /\ src \in DOMAIN disk /\ disk[src] # Dir /\ disk[src] \in Held
        /\ Free(des) /\ UNCHANGED failures /\ IsDisk(disk)
    BY OnDisk DEF IsFile, Transfers, DiskOK
  <1>2. CASE ~move
    BY <1>1, <1>2, New DEF Transfers
  <1>3. CASE move
    <2> DEFINE d == Restrict(disk, DOMAIN disk \ {src})
    <2>1. /\ IsDisk(d) /\ DOMAIN d = DOMAIN disk \ {src}
          /\ \A q \in DOMAIN disk \ {src} : d[q] = disk[q]
          /\ \A v \in Range(disk) : v \in Range(d) \/ (src \in DOMAIN disk /\ v = disk[src])
      BY <1>1, FileIsLeaf, Removed
    <2>2. disk' = With(d, des, disk[src])
      BY <1>3 DEF Transfers, Without
    <2> HIDE DEF d
    <2>3. /\ des \notin DOMAIN d
          /\ Front(des) = <<>> \/ (Front(des) \in DOMAIN d /\ d[Front(des)] = Dir)
      BY <1>1, <2>1 DEF Free, IsDir
    <2>4. /\ IsDisk(With(d, des, disk[src]))
          /\ Range(With(d, des, disk[src])) = Range(d) \cup {disk[src]}
          /\ DOMAIN With(d, des, disk[src]) = DOMAIN d \cup {des}
      BY <1>1, <2>1, <2>3, Added
    <2>5. IsDisk(disk') /\ Range(disk') = Range(d) \cup {disk[src]}
      BY <2>2, <2>4
    <2>6. QED
      BY <1>1, <2>1, <2>5 DEF Kept, DiskOK
  <1>4. QED
    BY <1>2, <1>3

LEMMA TransferNotKeeps ==
  ASSUME DiskOK, NEW des \in Paths, TransfersNot(des)
  PROVE  Kept({})
  <1>1. CASE disk' = With(disk, des, Part) /\ Free(des)
    BY <1>1, New DEF TransfersNot, Held
  <1>2. CASE UNCHANGED disk
    BY <1>2, DiskStays DEF TransfersNot
  <1>3. QED
    BY <1>1, <1>2 DEF TransfersNot

LEMMA CopyFileKeeps ==
  ASSUME DiskOK, NEW src, NEW des \in Paths, NEW move \in BOOLEAN, NEW ok,
         CopyFile(src, des, move, ok), asked \in BOOLEAN
  PROVE  Kept({}) /\ asked' \in BOOLEAN
  <1>1. asked' \in BOOLEAN
    BY DEF CopyFile, Ask
  <1>2. Kept({})
    BY DiskStays, TransferKeeps, TransferNotKeeps DEF CopyFile
  <1>3. QED
    BY <1>1, <1>2

LEMMA DeleteFileKeeps ==
  ASSUME DiskOK, NEW p, NEW ok, DeleteFile(p, ok), asked \in BOOLEAN,
         NEW lost, p \in DOMAIN disk => disk[p] \in lost
  PROVE  Kept(lost) /\ Shrinks /\ asked' \in BOOLEAN
  <1>1. asked' \in BOOLEAN
    BY DEF DeleteFile, Ask
  <1>2. CASE IsFile(p) /\ RemovesFile(p)
    <2>1. \A q \in DOMAIN disk : Front(q) # p
      BY <1>2, FileIsLeaf DEF IsFile, DiskOK
    <2>2. QED
      BY <1>1, <1>2, <2>1, WithoutKeeps DEF RemovesFile
  <1>3. CASE UNCHANGED disk /\ (UNCHANGED failures \/ Fails)
    <2>1. Kept({}) /\ Shrinks
      BY <1>3, DiskStays
    <2>2. QED
      BY <1>1, <2>1 DEF Kept
  <1>4. QED
    BY <1>2, <1>3 DEF DeleteFile, RemovesNoFile

-----------------------------------------------------------------------------
(* The calls.                                                              *)

Calls == [src : Seq(Names), des : Seq(Names), todo : SUBSET Paths]

\* Nothing is left to be done for a call that was not before.
Fewer(frames, others) ==
  /\ DOMAIN frames \subseteq DOMAIN others
  /\ \A i \in DOMAIN frames : frames[i].todo \subseteq others[i].todo

\* The calls are still the same, and have nothing more to do but what wxDir::GetNext
\* finds in their directories.
Alike(frames, others) ==
  /\ DOMAIN frames \subseteq DOMAIN others
  /\ \A i \in DOMAIN frames :
       /\ frames[i].src = others[i].src /\ frames[i].des = others[i].des
       /\ \A q \in frames[i].todo :
            q \in others[i].todo \/ (i # 1 /\ Front(q) = others[i].src)

LEMMA TopOK ==
  ASSUME stack \in Seq(Calls), stack # <<>>
  PROVE  /\ Len(stack) \in Nat /\ Len(stack) > 0 /\ DOMAIN stack = 1..Len(stack)
         /\ Top = stack[Len(stack)] /\ Top \in Calls
         /\ Top.des \in Seq(Names) /\ Top.todo \subseteq Paths
  <1>1. Len(stack) \in Nat \ {0} /\ DOMAIN stack = 1..Len(stack)
    BY EmptySeq, LenProperties
  <1>2. stack[Len(stack)] \in Calls
    BY <1>1, ElementOfSeq
  <1>3. QED
    BY <1>1, <1>2 DEF Top, Calls

\* A call that returns leaves the others.
LEMMA Popped ==
  ASSUME stack \in Seq(Calls), stack # <<>>
  PROVE  /\ SubSeq(stack, 1, Len(stack) - 1) \in Seq(Calls)
         /\ Len(SubSeq(stack, 1, Len(stack) - 1)) = Len(stack) - 1
         /\ \A i \in 1..(Len(stack) - 1) : SubSeq(stack, 1, Len(stack) - 1)[i] = stack[i]
         /\ Fewer(SubSeq(stack, 1, Len(stack) - 1), stack)
         /\ Alike(SubSeq(stack, 1, Len(stack) - 1), stack)
  <1> DEFINE rest == SubSeq(stack, 1, Len(stack) - 1)
  <1>1. Len(stack) \in Nat /\ Len(stack) > 0 /\ DOMAIN stack = 1..Len(stack)
    BY TopOK
  <1>2. Len(stack) - 1 \in Nat /\ Len(stack) - 1 <= Len(stack)
    BY <1>1
  <1>3. /\ rest \in Seq(Calls) /\ Len(rest) = Len(stack) - 1
        /\ \A i \in 1..(Len(stack) - 1) : rest[i] = stack[i]
    BY <1>2, BeginningOf
  <1> HIDE DEF rest
  <1>4. DOMAIN rest = 1..(Len(stack) - 1)
    BY <1>3, LenProperties
  <1>5. DOMAIN rest \subseteq DOMAIN stack
    BY <1>1, <1>4
  <1>6. Fewer(rest, stack) /\ Alike(rest, stack)
    BY <1>3, <1>4, <1>5 DEF Fewer, Alike
  <1>7. QED
    BY <1>3, <1>6 DEF rest

\* An entry is done with.
LEMMA DoneOK ==
  ASSUME stack \in Seq(Calls), stack # <<>>, NEW p
  PROVE  /\ Done(p) \in Seq(Calls) /\ Fewer(Done(p), stack)
         /\ Alike(Done(p), stack) /\ Len(Done(p)) = Len(stack)
         /\ \A i \in DOMAIN stack : stack[i].todo \ {p} \subseteq Done(p)[i].todo
         /\ p \notin Done(p)[Len(stack)].todo
  <1> DEFINE rest == SubSeq(stack, 1, Len(stack) - 1)
             top == [Top EXCEPT !.todo = @ \ {p}]
  <1>1. /\ Len(stack) \in Nat /\ Len(stack) > 0 /\ DOMAIN stack = 1..Len(stack)
        /\ Top = stack[Len(stack)] /\ Top \in Calls
    BY TopOK
  <1>2. /\ rest \in Seq(Calls) /\ Len(rest) = Len(stack) - 1
        /\ \A i \in 1..(Len(stack) - 1) : rest[i] = stack[i]
    BY Popped
  <1>3. /\ top \in Calls /\ top.todo = Top.todo \ {p}
        /\ top.src = Top.src /\ top.des = Top.des
    BY <1>1 DEF Calls
  <1>4. Done(p) = rest \o <<top>>
    BY DEF Done
  <1> HIDE DEF rest, top
  <1>5. <<top>> \in Seq(Calls) /\ Len(<<top>>) = 1 /\ <<top>>[1] = top
    BY <1>3
  <1>6. /\ Done(p) \in Seq(Calls) /\ Len(Done(p)) = Len(rest) + Len(<<top>>)
        /\ \A i \in 1..(Len(rest) + Len(<<top>>)) :
             Done(p)[i] = IF i <= Len(rest) THEN rest[i] ELSE <<top>>[i - Len(rest)]
    BY <1>2, <1>4, <1>5, ConcatProperties
  <1>7. Len(Done(p)) = Len(stack) /\ DOMAIN Done(p) = 1..Len(stack)
    <2>1. Len(Done(p)) = Len(stack)
      BY <1>1, <1>2, <1>5, <1>6
    <2>2. QED
      BY <1>6, <2>1, LenProperties
  <1>8. ASSUME NEW i \in 1..Len(stack)
        PROVE  /\ Done(p)[i].todo \subseteq stack[i].todo
               /\ Done(p)[i].src = stack[i].src /\ Done(p)[i].des = stack[i].des
               /\ stack[i].todo \ {p} \subseteq Done(p)[i].todo
               /\ i = Len(stack) => p \notin Done(p)[i].todo
    <2>1. CASE i <= Len(stack) - 1
      <3>1. Done(p)[i] = stack[i]
        BY <1>1, <1>2, <1>5, <1>6, <2>1
      <3>2. Len(stack) \in Nat
        BY <1>1
      <3>3. i # Len(stack)
        BY <2>1, <3>2
      <3>4. QED
        BY <3>1, <3>3
    <2>2. CASE i = Len(stack)
      <3>1. Done(p)[i] = top
        BY <1>1, <1>2, <1>5, <1>6, <2>2
      <3>2. QED
        BY <1>1, <1>3, <2>2, <3>1
    <2>3. Len(stack) \in Nat
      BY <1>1
    <2>4. i <= Len(stack) - 1 \/ i = Len(stack)
      BY <2>3
    <2>5. QED
      BY <2>1, <2>2, <2>4
  <1>9. Len(stack) \in 1..Len(stack)
    BY <1>1
  <1>10. \A i \in 1..Len(stack) : stack[i].todo \ {p} \subseteq Done(p)[i].todo
    BY <1>8
  <1>11. p \notin Done(p)[Len(stack)].todo
    BY <1>8, <1>9
  <1>12. Fewer(Done(p), stack) /\ Alike(Done(p), stack)
    BY <1>1, <1>7, <1>8 DEF Fewer, Alike
  <1>13. QED
    BY <1>1, <1>6, <1>7, <1>10, <1>11, <1>12

LEMMA FewerTransitive ==
  ASSUME NEW f, NEW g, NEW h, Fewer(f, g), Fewer(g, h)
  PROVE  Fewer(f, h)
  BY DEF Fewer

LEMMA AlikeTransitive ==
  ASSUME NEW f, NEW g, NEW h, Alike(f, g), Alike(g, h)
  PROVE  Alike(f, h)
  BY DEF Alike

\* What wxDir::GetNext finds in a directory are paths, and nothing when nothing
\* is new.
LEMMA Found ==
  ASSUME NEW frames \in Seq(Calls), IsDisk(disk'), NEW f \in MayFind(frames)
  PROVE  /\ f \in Seq(Calls) /\ (Shrinks => Fewer(f, frames))
         /\ Alike(f, frames) /\ Len(f) = Len(frames)
         /\ \A i \in DOMAIN frames :
              /\ frames[i].todo \subseteq f[i].todo
              /\ \A q \in f[i].todo :
                   \/ q \in frames[i].todo
                   \/ i # 1 /\ Front(q) = frames[i].src /\ q \in DOMAIN disk' \ DOMAIN disk
  <1> DEFINE new == DOMAIN disk' \ DOMAIN disk
             more(i) == [frames[i] EXCEPT !.todo = @ \cup {q \in new : Front(q) = frames[i].src}]
             found == [i \in DOMAIN frames |-> IF i = 1 THEN frames[i] ELSE more(i)]
  <1>1. CASE f = frames
    BY <1>1 DEF Fewer, Alike
  <1>2. CASE f # frames
    <2>1. f = found
      BY <1>2 DEF MayFind
    <2>2. Len(frames) \in Nat /\ DOMAIN frames = 1..Len(frames)
      BY LenProperties
    <2>3. new \subseteq Paths
      BY OnDisk
    <2> HIDE DEF new
    <2>4. ASSUME NEW i \in 1..Len(frames)
          PROVE  /\ frames[i] \in Calls /\ more(i) \in Calls
                 /\ new = {} => more(i).todo = frames[i].todo
                 /\ more(i).src = frames[i].src /\ more(i).des = frames[i].des
                 /\ frames[i].todo \subseteq more(i).todo
                 /\ \A q \in more(i).todo :
                      q \in frames[i].todo \/ (Front(q) = frames[i].src /\ q \in new)
      <3>1. frames[i] \in Calls
        BY ElementOfSeq
      <3>2. QED
        BY <2>3, <3>1 DEF Calls
    <2> HIDE DEF more
    <2>5. DOMAIN f = 1..Len(frames) /\ \A i \in 1..Len(frames) : f[i] = IF i = 1 THEN frames[i] ELSE more(i)
      BY <2>1, <2>2
    <2>6. f \in [1..Len(frames) -> Calls]
      BY <2>1, <2>2, <2>4
    <2>7. f \in Seq(Calls)
      BY <2>2, <2>6, SeqDef
    <2>8. Shrinks => new = {}
      BY DEF Shrinks, new
    <2>9. ASSUME new = {} PROVE Fewer(f, frames)
      BY <2>2, <2>4, <2>5, <2>9 DEF Fewer
    <2>10. Alike(f, frames)
      BY <2>2, <2>4, <2>5 DEF Alike
    <2>11. Len(f) = Len(frames)
      BY <2>2, <2>5, <2>7, LenProperties
    <2>12. ASSUME NEW i \in DOMAIN frames
           PROVE  /\ frames[i].todo \subseteq f[i].todo
                  /\ \A q \in f[i].todo :
                       \/ q \in frames[i].todo
                       \/ i # 1 /\ Front(q) = frames[i].src /\ q \in new
      BY <2>2, <2>4, <2>5
    <2>13. QED
      BY <2>7, <2>8, <2>9, <2>10, <2>11, <2>12 DEF new
  <1>3. QED
    BY <1>1, <1>2

\* A call begins.
LEMMA Entered ==
  ASSUME NEW frames \in Seq(Calls), NEW f \in Calls
  PROVE  /\ Append(frames, f) \in Seq(Calls)
         /\ \A i \in DOMAIN Append(frames, f) :
              (i \in DOMAIN frames /\ Append(frames, f)[i] = frames[i]) \/ Append(frames, f)[i] = f
  <1>1. /\ Append(frames, f) \in Seq(Calls) /\ Len(Append(frames, f)) = Len(frames) + 1
        /\ \A i \in 1..Len(frames) : Append(frames, f)[i] = frames[i]
        /\ Append(frames, f)[Len(frames) + 1] = f
    BY AppendProperties
  <1>2. Len(frames) \in Nat /\ DOMAIN frames = 1..Len(frames)
    BY LenProperties
  <1>3. DOMAIN Append(frames, f) = 1..(Len(frames) + 1)
    BY <1>1, LenProperties
  <1>4. QED
    BY <1>1, <1>2, <1>3

-----------------------------------------------------------------------------
(* The inductive invariant.                                                *)

ClipOK ==
  /\ clip \in [path : Seq(Names), move : BOOLEAN]
  /\ clip = NoClip \/ clip.path # <<>>

Commands ==
  [kind : {"once", "paste", "delete"}, src : Seq(Names), des : Seq(Names),
   name : Names \cup {""}, move : BOOLEAN, tmp : Seq(Names),
   phase : {"only", "tmp", "final", "done"}, result : BOOLEAN]

OpOK ==
  /\ op \in Commands
  /\ op.kind = "paste" => op.name \in Names
  /\ op.phase = "tmp" => op.kind = "paste"

\* A deletion stays in what it is for, and the user has given up all of that.
AllUnder(frames) == \A i \in DOMAIN frames : \A p \in frames[i].todo : IsPrefix(op.src, p)
Deleting ==
  op.kind = "delete" =>
    AllUnder(stack) /\ \A q \in Subtree(disk, op.src) : disk[q] \in given

RestOK ==
  asked \in BOOLEAN /\ left \in 0..MaxCommands

IInv ==
  /\ DiskOK /\ IsDisk(before) /\ NothingLost
  /\ stack \in Seq(Calls) /\ OpOK /\ ClipOK /\ Deleting /\ RestOK

LEMMA InvariantTypes == IInv => TypeOK
  <1> SUFFICES ASSUME IInv PROVE TypeOK
    OBVIOUS
  <1>1. /\ IsDisk(disk) /\ IsDisk(before) /\ failures \in 0..MaxFailures
        /\ asked \in BOOLEAN /\ left \in 0..MaxCommands
    BY DEF IInv, DiskOK, RestOK
  <1>2. clip \in [path : Seq(Names), move : BOOLEAN]
    BY DEF IInv, ClipOK
  <1>3. op.phase \in {"only", "tmp", "final", "done"}
    BY DEF IInv, OpOK, Commands
  <1>4. ASSUME NEW i \in DOMAIN stack PROVE stack[i].todo \subseteq Seq(Names) \ {<<>>}
    <2>1. stack \in Seq(Calls)
      BY DEF IInv
    <2>2. stack[i] \in Calls
      BY <2>1, LenProperties, ElementOfSeq
    <2>3. QED
      BY <2>2 DEF Calls, Paths
  <1>5. QED
    BY <1>1, <1>2, <1>3, <1>4 DEF TypeOK

\* Nothing is lost in a step that keeps the disk, whether it begins a command or not.
LEMMA StepKeeps ==
  ASSUME IInv, NEW lost, Kept(lost), lost \subseteq given', given \subseteq given',
         before' = before \/ before' = disk
  PROVE  DiskOK' /\ IsDisk(before') /\ NothingLost'
  <1>1. IsDisk(disk) /\ IsDisk(before) /\ Range(before) \ (given \cup {Part, Dir}) \subseteq Range(disk)
    BY DEF IInv, DiskOK, NothingLost
  <1>2. /\ IsDisk(disk') /\ failures' \in 0..MaxFailures
        /\ Range(disk) \subseteq Range(disk') \cup {Dir} \cup lost
    BY DEF Kept
  <1>3. IsDisk(before')
    BY <1>1
  <1>4. Range(before') \ (given' \cup {Part, Dir}) \subseteq Range(disk')
    <2>1. CASE before' = before
      BY <1>1, <1>2, <2>1
    <2>2. CASE before' = disk
      BY <1>2, <2>2
    <2>3. QED
      BY <2>1, <2>2
  <1>5. QED
    BY <1>2, <1>3, <1>4 DEF DiskOK, NothingLost

LEMMA InitInvariant == Init => IInv
  <1> SUFFICES ASSUME Init PROVE IInv
    OBVIOUS
  <1>1. /\ disk \in Disks /\ before = disk /\ clip = NoClip /\ stack = <<>>
        /\ op = Command("once", <<>>, <<>>, "", FALSE, <<>>, "done")
        /\ failures = MaxFailures /\ left = MaxCommands /\ asked = FALSE
    BY DEF Init
  <1>2. IsDisk(disk) /\ IsDisk(before) /\ MaxFailures \in Nat /\ MaxCommands \in Nat
    BY <1>1, FilesAssumption
  <1>3. DiskOK /\ RestOK
    <2>1. /\ failures = MaxFailures /\ left = MaxCommands
          /\ MaxFailures \in Nat /\ MaxCommands \in Nat
      BY <1>1, <1>2, Zenon
    <2>2. failures \in 0..MaxFailures /\ left \in 0..MaxCommands
      BY <2>1
    <2>3. QED
      BY <1>1, <1>2, <2>2, Zenon DEF DiskOK, RestOK
  <1>4. NothingLost
    BY <1>1 DEF NothingLost
  <1>5. <<>> \in Seq(Names) /\ stack \in Seq(Calls)
    BY <1>1, EmptySeq
  <1>6. ClipOK
    BY <1>1, <1>5 DEF ClipOK, NoClip
  <1>7. OpOK /\ op.kind = "once"
    BY <1>1, <1>5 DEF OpOK, Commands, Command
  <1>8. Deleting
    BY <1>7 DEF Deleting
  <1>9. QED
    BY <1>2, <1>3, <1>4, <1>5, <1>6, <1>7, <1>8 DEF IInv

\* What a step of a walk must keep.
LEMMA WalkKeeps ==
  ASSUME IInv, NEW lost, Kept(lost), lost \subseteq given,
         UNCHANGED <<clip, before, given, left>>, asked' \in BOOLEAN,
         stack' \in Seq(Calls), OpOK', op'.kind = op.kind, op'.src = op.src,
         op.kind = "delete" =>
           Shrinks /\ \A i \in DOMAIN stack' : \A p \in stack'[i].todo : IsPrefix(op.src, p)
  PROVE  IInv'
  <1>1. DiskOK' /\ IsDisk(before') /\ NothingLost'
    BY StepKeeps
  <1>2. ClipOK' /\ RestOK'
    BY DEF IInv, ClipOK, RestOK
  <1>3. Deleting'
    <2>1. op.kind = "delete" =>
            /\ \A i \in DOMAIN stack' : \A p \in stack'[i].todo : IsPrefix(op'.src, p)
            /\ \A q \in Subtree(disk', op'.src) : disk'[q] \in given'
      BY DEF IInv, Deleting, Shrinks, Subtree
    <2>2. QED
      BY <2>1 DEF Deleting, AllUnder
  <1>4. QED
    BY <1>1, <1>2, <1>3 DEF IInv

\* A call less, or an entry less.
LEMMA FewerUnder ==
  ASSUME IInv, op.kind = "delete", Fewer(stack', stack)
  PROVE  \A i \in DOMAIN stack' : \A p \in stack'[i].todo : IsPrefix(op.src, p)
  BY DEF IInv, Deleting, AllUnder, Fewer

\* No call is left.
LEMMA NoneLeft ==
  ASSUME stack' = <<>>
  PROVE  stack' \in Seq(Calls) /\ Fewer(stack', stack) /\ Alike(stack', stack)
  <1>1. <<>> \in Seq(Calls) /\ DOMAIN stack' = {}
    BY EmptySeq, LenProperties
  <1>2. QED
    BY <1>1 DEF Fewer, Alike

LEMMA OpStops ==
  ASSUME OpOK, op' = op \/ op' = [op EXCEPT !.result = FALSE]
  PROVE  OpOK' /\ op'.kind = op.kind /\ op'.src = op.src
  <1>1. CASE op' = op
    BY <1>1 DEF OpOK
  <1>2. CASE op' = [op EXCEPT !.result = FALSE]
    <2>1. /\ op' \in Commands /\ op'.kind = op.kind /\ op'.src = op.src
          /\ op'.name = op.name /\ op'.phase = op.phase
      BY <1>2 DEF OpOK, Commands
    <2>2. QED
      BY <2>1 DEF OpOK
  <1>3. QED
    BY <1>1, <1>2

LEMMA GoOnKeeps ==
  ASSUME IInv, stack # <<>>, NEW p, NEW ok \in BOOLEAN, GoOn(p, ok), IsDisk(disk')
  PROVE  /\ stack' \in Seq(Calls) /\ OpOK' /\ op'.kind = op.kind /\ op'.src = op.src
         /\ (Shrinks => Fewer(stack', stack)) /\ Alike(stack', stack)
  <1>1. stack \in Seq(Calls) /\ OpOK
    BY DEF IInv
  <1>2. OpOK' /\ op'.kind = op.kind /\ op'.src = op.src
    BY <1>1, OpStops DEF GoOn
  <1>3. CASE ok
    <2>1. stack' \in MayFind(Done(p))
      BY <1>3 DEF GoOn
    <2>2. Done(p) \in Seq(Calls) /\ Fewer(Done(p), stack) /\ Alike(Done(p), stack)
      BY <1>1, DoneOK
    <2>3. PICK f \in MayFind(Done(p)) : stack' = f
      BY <2>1
    <2>4. f \in Seq(Calls) /\ (Shrinks => Fewer(f, Done(p))) /\ Alike(f, Done(p))
      BY <2>2, Found
    <2>5. (Shrinks => Fewer(f, stack)) /\ Alike(f, stack)
      BY <2>2, <2>4, FewerTransitive, AlikeTransitive
    <2>6. QED
      BY <1>2, <2>3, <2>4, <2>5
  <1>4. CASE ~ok
    BY <1>2, <1>4, NoneLeft DEF GoOn
  <1>5. QED
    BY <1>3, <1>4

\* Where an entry goes to is a path.
LEMMA TargetOK ==
  ASSUME IInv, op.kind = "paste", stack # <<>>, NEW p \in Top.todo
  PROVE  p \in Paths /\ Target(p) \in Paths
  <1>1. stack \in Seq(Calls) /\ op.name \in Names
    BY DEF IInv, OpOK
  <1>2. p \in Paths /\ Top.des \in Seq(Names)
    BY <1>1, TopOK
  <1>3. Last(p) \in Names
    BY <1>2, FrontOf DEF Paths
  <1>4. QED
    BY <1>1, <1>2, <1>3, NameIn DEF Target, Paths

LEMMA PasteFileKeeps ==
  ASSUME IInv, op.kind = "paste", stack # <<>>, NEW p \in Top.todo, PasteFile(p),
         UNCHANGED <<clip, before, given, left>>
  PROVE  IInv'
  <1>1. DiskOK /\ asked \in BOOLEAN
    BY DEF IInv, RestOK
  <1>2. PICK ok \in BOOLEAN : CopyFile(p, Target(p), Moving, ok) /\ GoOn(p, ok)
    BY DEF PasteFile
  <1>3. Moving \in BOOLEAN
    BY DEF Moving
  <1>4. Kept({}) /\ asked' \in BOOLEAN
    BY <1>1, <1>2, <1>3, TargetOK, CopyFileKeeps
  <1>5. stack' \in Seq(Calls) /\ OpOK' /\ op'.kind = op.kind /\ op'.src = op.src
    BY <1>2, <1>4, GoOnKeeps DEF Kept
  <1>6. QED
    BY <1>4, <1>5, WalkKeeps

LEMMA ChildrenOK ==
  ASSUME IsDisk(disk), NEW p
  PROVE  Children(p) \subseteq Paths /\ \A q \in Children(p) : Front(q) = p
  BY OnDisk DEF Children

LEMMA PasteDirKeeps ==
  ASSUME IInv, op.kind = "paste", stack # <<>>, NEW p \in Top.todo, PasteDir(p),
         UNCHANGED <<clip, before, given, left>>
  PROVE  IInv'
  <1>1. DiskOK /\ IsDisk(disk) /\ asked \in BOOLEAN /\ stack \in Seq(Calls) /\ OpOK
    BY DEF IInv, RestOK, DiskOK
  <1>2. p \in Paths /\ Target(p) \in Paths
    BY TargetOK
  <1>3. CASE /\ IF IsDir(Target(p)) THEN UNCHANGED <<disk, failures>>
                                    ELSE MakesDir(Target(p))
             /\ \E frames \in MayFind(Done(p)) :
                  stack' = Append(frames, Frame(p, Target(p), Children(p)))
             /\ UNCHANGED <<op, asked>>
    <2>1. Kept({})
      BY <1>1, <1>2, <1>3, DiskStays, MakeDirKeeps
    <2>2. PICK frames \in MayFind(Done(p)) :
            stack' = Append(frames, Frame(p, Target(p), Children(p)))
      BY <1>3
    <2>3. frames \in Seq(Calls)
      BY <1>1, <2>1, <2>2, DoneOK, Found DEF Kept
    <2>4. Frame(p, Target(p), Children(p)) \in Calls
      BY <1>1, <1>2, ChildrenOK DEF Frame, Calls, Paths
    <2>5. stack' \in Seq(Calls)
      BY <2>2, <2>3, <2>4, Entered
    <2>6. OpOK' /\ op'.kind = op.kind /\ op'.src = op.src /\ asked' \in BOOLEAN
      BY <1>1, <1>3, OpStops
    <2>7. QED
      BY <2>1, <2>5, <2>6, WalkKeeps
  <1>4. CASE /\ ~IsDir(Target(p)) /\ MakesNoDir(Target(p)) /\ Ask
             /\ \E ok \in BOOLEAN : GoOn(p, ok)
    <2>1. Kept({}) /\ asked' \in BOOLEAN
      BY <1>1, <1>2, <1>4, MakeDirKeeps DEF Ask
    <2>2. stack' \in Seq(Calls) /\ OpOK' /\ op'.kind = op.kind /\ op'.src = op.src
      BY <1>4, <2>1, GoOnKeeps DEF Kept
    <2>3. QED
      BY <2>1, <2>2, WalkKeeps
  <1>5. QED
    BY <1>3, <1>4 DEF PasteDir

\* A deletion deletes what it is for, and nothing else.
LEMMA DeleteEntryKeeps ==
  ASSUME IInv, op.kind = "delete", stack # <<>>, NEW p \in Top.todo, DeleteEntry(p),
         UNCHANGED <<clip, before, given, left>>
  PROVE  IInv'
  <1>1. DiskOK /\ IsDisk(disk) /\ asked \in BOOLEAN /\ stack \in Seq(Calls) /\ OpOK
    BY DEF IInv, RestOK, DiskOK
  <1>2. p \in Paths /\ op.src \in Seq(Names) /\ IsPrefix(op.src, p)
    <2>1. p \in Paths /\ Len(stack) \in DOMAIN stack /\ Top = stack[Len(stack)]
      BY <1>1, TopOK
    <2>2. IsPrefix(op.src, p)
      BY <2>1 DEF IInv, Deleting, AllUnder
    <2>3. QED
      BY <1>1, <2>1, <2>2 DEF OpOK, Commands
  <1>3. CASE IsDir(p)
    <2>1. /\ stack' = Append(Done(p), Frame(p, <<>>, Children(p)))
          /\ UNCHANGED <<disk, failures, op, asked>>
      BY <1>3 DEF DeleteEntry
    <2>2. Kept({}) /\ Shrinks
      BY <1>1, <2>1, DiskStays
    <2>3. Done(p) \in Seq(Calls) /\ Fewer(Done(p), stack)
      BY <1>1, DoneOK
    <2>4. /\ Frame(p, <<>>, Children(p)) \in Calls
          /\ Frame(p, <<>>, Children(p)).todo = Children(p)
      BY <1>1, <1>2, ChildrenOK, EmptySeq DEF Frame, Calls, Paths
    <2>5. /\ stack' \in Seq(Calls)
          /\ \A i \in DOMAIN stack' :
               \/ i \in DOMAIN Done(p) /\ stack'[i] = Done(p)[i]
               \/ stack'[i] = Frame(p, <<>>, Children(p))
      BY <2>1, <2>3, <2>4, Entered
    <2>6. \A q \in Children(p) : IsPrefix(op.src, q)
      BY <1>1, <1>2, ChildrenOK, PrefixOfFront DEF Paths
    <2>7. \A i \in DOMAIN Done(p) : \A q \in Done(p)[i].todo : IsPrefix(op.src, q)
      BY <2>3 DEF IInv, Deleting, AllUnder, Fewer
    <2>8. \A i \in DOMAIN stack' : \A q \in stack'[i].todo : IsPrefix(op.src, q)
      BY <2>4, <2>5, <2>6, <2>7
    <2>9. OpOK' /\ op'.kind = op.kind /\ op'.src = op.src /\ asked' \in BOOLEAN
      BY <1>1, <2>1, OpStops
    <2>10. QED
      BY <2>2, <2>5, <2>8, <2>9, WalkKeeps
  <1>4. CASE ~IsDir(p)
    <2>1. PICK ok \in BOOLEAN : DeleteFile(p, ok) /\ GoOn(p, ok)
      BY <1>4 DEF DeleteEntry
    <2>2. p \in DOMAIN disk => disk[p] \in given
      BY <1>2 DEF IInv, Deleting, Subtree
    <2>3. Kept(given) /\ Shrinks /\ asked' \in BOOLEAN
      BY <1>1, <2>1, <2>2, DeleteFileKeeps
    <2>4. /\ stack' \in Seq(Calls) /\ OpOK' /\ op'.kind = op.kind /\ op'.src = op.src
          /\ Fewer(stack', stack)
      BY <2>1, <2>3, GoOnKeeps DEF Kept
    <2>5. QED
      BY <2>3, <2>4, FewerUnder, WalkKeeps
  <1>5. QED
    BY <1>3, <1>4

LEMMA ReturnKeeps ==
  ASSUME IInv, Return
  PROVE  IInv'
  <1>1. /\ DiskOK /\ asked \in BOOLEAN /\ stack \in Seq(Calls) /\ OpOK
        /\ stack # <<>> /\ UNCHANGED <<clip, before, given, left>>
    BY DEF IInv, RestOK, Return
  <1>2. Kept({}) /\ Shrinks
    BY <1>1, RemoveDirKeeps, DiskStays DEF Return, Leave
  <1>3. op' = op \/ op' = [op EXCEPT !.result = FALSE]
    BY DEF Return, Leave
  <1>4. OpOK' /\ op'.kind = op.kind /\ op'.src = op.src
    BY <1>1, <1>3, OpStops
  <1>5. stack' = SubSeq(stack, 1, Len(stack) - 1) \/ stack' = <<>>
    BY DEF Return, Leave
  <1>6. stack' \in Seq(Calls) /\ Fewer(stack', stack)
    BY <1>1, <1>5, Popped, NoneLeft
  <1>7. asked' \in BOOLEAN
    BY <1>1 DEF Return, Leave, Ask
  <1>8. QED
    BY <1>1, <1>2, <1>4, <1>6, <1>7, FewerUnder, WalkKeeps

LEMMA PasteFinalKeeps ==
  ASSUME IInv, PasteFinal
  PROVE  IInv'
  <1>1. /\ DiskOK /\ asked \in BOOLEAN /\ OpOK /\ op.kind = "paste" /\ op.name \in Names
        /\ op.tmp \in Seq(Names) /\ op.des \in Seq(Names)
    BY DEF IInv, RestOK, OpOK, Commands, PasteFinal
  <1>2. Kept({})
    BY <1>1, DiskStays DEF PasteFinal
  <1>3. OpOK' /\ op'.kind = op.kind /\ op'.src = op.src
    <2>1. op' = [op EXCEPT !.phase = "final", !.result = TRUE]
      BY DEF PasteFinal
    <2>2. /\ op' \in Commands /\ op'.kind = op.kind /\ op'.src = op.src
          /\ op'.name = op.name /\ op'.phase = "final"
      BY <1>1, <2>1 DEF OpOK, Commands
    <2>3. QED
      BY <1>1, <2>2 DEF OpOK
  <1>4. Frame(op.tmp, op.des, {Append(op.tmp, op.name)}) \in Calls
    BY <1>1, NameIn DEF Frame, Calls, Paths
  <1>5. stack' \in Seq(Calls)
    BY <1>4 DEF PasteFinal
  <1>6. UNCHANGED <<clip, before, given, left>> /\ asked' \in BOOLEAN
    BY <1>1 DEF PasteFinal
  <1>7. QED
    BY <1>1, <1>2, <1>3, <1>5, <1>6, WalkKeeps

LEMMA FinishKeeps ==
  ASSUME IInv, Finish
  PROVE  IInv'
  <1>1. DiskOK /\ asked \in BOOLEAN /\ OpOK
    BY DEF IInv, RestOK
  <1>2. Kept({}) /\ Shrinks
    BY <1>1, RemoveDirKeeps, DiskStays DEF Finish
  <1>3. OpOK' /\ op'.kind = op.kind /\ op'.src = op.src
    <2>1. op' = [op EXCEPT !.phase = "done"]
      BY DEF Finish
    <2>2. /\ op' \in Commands /\ op'.kind = op.kind /\ op'.src = op.src
          /\ op'.name = op.name /\ op'.phase = "done"
      BY <1>1, <2>1 DEF OpOK, Commands
    <2>3. QED
      BY <1>1, <2>2 DEF OpOK
  <1>4. stack' \in Seq(Calls) /\ Fewer(stack', stack)
    BY NoneLeft DEF Finish
  <1>5. UNCHANGED <<clip, before, given, left>> /\ asked' \in BOOLEAN
    BY <1>1 DEF Finish
  <1>6. QED
    BY <1>2, <1>3, <1>4, <1>5, FewerUnder, WalkKeeps

-----------------------------------------------------------------------------
(* The commands.                                                           *)

\* What a command must keep.
LEMMA CommandKeeps ==
  ASSUME IInv, Commanding, NEW lost, Kept(lost), lost \subseteq given', given \subseteq given',
         before' = disk, asked' = FALSE, stack' \in Seq(Calls), OpOK', ClipOK', Deleting'
  PROVE  IInv'
  <1>1. DiskOK' /\ IsDisk(before') /\ NothingLost'
    BY StepKeeps
  <1>2. left' \in 0..MaxCommands
    <2>1. left \in 0..MaxCommands /\ left > 0 /\ left' = left - 1 /\ MaxCommands \in Nat
      BY FilesAssumption DEF IInv, RestOK, Commanding
    <2>2. QED
      BY <2>1
  <1>3. RestOK'
    BY <1>2 DEF RestOK
  <1>4. QED
    BY <1>1, <1>3 DEF IInv

LEMMA OnceOK ==
  ASSUME Once
  PROVE  /\ OpOK' /\ op'.kind = "once" /\ Deleting' /\ stack' \in Seq(Calls)
         /\ before' = disk /\ asked' = FALSE
  <1>1. op'.kind = "once" /\ OpOK'
    <2>1. op' = Command("once", <<>>, <<>>, "", FALSE, <<>>, "done") /\ <<>> \in Seq(Names)
      BY EmptySeq DEF Once
    <2>2. op' \in Commands /\ op'.kind = "once" /\ op'.phase = "done"
      BY <2>1 DEF Command, Commands
    <2>3. QED
      BY <2>2 DEF OpOK
  <1>2. stack' \in Seq(Calls)
    BY NoneLeft DEF Once
  <1>3. QED
    BY <1>1, <1>2 DEF Deleting, Once

LEMMA CutOrCopyKeeps ==
  ASSUME IInv, NEW p \in DOMAIN disk, NEW move \in BOOLEAN, CutOrCopy(p, move)
  PROVE  IInv'
  <1>1. DiskOK /\ IsDisk(disk) /\ Commanding /\ Once
    BY DEF IInv, DiskOK, CutOrCopy
  <1>2. p \in Paths
    BY <1>1, OnDisk
  <1>3. ClipOK'
    <2>1. clip' = [path |-> p, move |-> move]
      BY DEF CutOrCopy
    <2>2. QED
      BY <1>2, <2>1 DEF ClipOK, Paths
  <1>4. Kept({}) /\ given' = given
    BY <1>1, DiskStays DEF CutOrCopy
  <1>5. QED
    BY <1>1, <1>3, <1>4, OnceOK, CommandKeeps

LEMMA RenameStepKeeps ==
  ASSUME IInv, NEW p \in DOMAIN disk, NEW name \in TypedNames, Rename(p, name)
  PROVE  IInv'
  <1> DEFINE des == Append(Front(p), name)
             replaced == {disk[q] : q \in {des} \cap DOMAIN disk}
  <1>1. DiskOK /\ IsDisk(disk) /\ Commanding /\ Once /\ des # p /\ ClipOK'
    BY DEF IInv, DiskOK, ClipOK, Rename
  <1>2. p \in Paths /\ Front(p) \in Seq(Names) /\ name \in Names
    BY <1>1, OnDisk, FrontOf, FilesAssumption DEF Paths
  <1>3. des \in Paths /\ Front(des) = Front(p)
    BY <1>2, NameIn DEF Paths
  <1>4. CASE /\ \/ des \notin DOMAIN disk
                \/ IsFile(p) /\ IsFile(des)
                \/ IsDir(p) /\ IsDir(des) /\ Children(des) = {}
             /\ disk' = Renamed(p, des)
             /\ given' = given \cup replaced
             /\ UNCHANGED failures
    <2> HIDE DEF des
    <2>1. \/ des \notin DOMAIN disk
          \/ disk[des] # Dir
          \/ \A c \in DOMAIN disk : Front(c) # des
      BY <1>4 DEF IsFile, Children
    <2>2. /\ IsDisk(Renamed(p, des))
          /\ \A v \in Range(disk) : \/ v \in Range(Renamed(p, des))
                                   \/ (des \in DOMAIN disk /\ v = disk[des])
      BY <1>1, <1>3, <2>1, RenameKeeps
    <2>3. Kept(replaced)
      BY <1>1, <1>4, <2>2 DEF Kept, DiskOK
    <2>4. replaced \subseteq given' /\ given \subseteq given'
      BY <1>4
    <2> HIDE DEF replaced
    <2>5. QED
      BY <1>1, <2>3, <2>4, OnceOK, CommandKeeps
  <1>5. CASE /\ Fails \/ (des \in DOMAIN disk /\ UNCHANGED failures)
             /\ UNCHANGED <<disk, given>>
    <2>1. Kept({}) /\ given' = given
      BY <1>1, <1>5, DiskStays
    <2>2. QED
      BY <1>1, <2>1, OnceOK, CommandKeeps
  <1>6. QED
    BY <1>4, <1>5 DEF Rename

LEMMA MakeDirStepKeeps ==
  ASSUME IInv, NEW des \in Paths, MakeDir(des)
  PROVE  IInv'
  <1>1. DiskOK /\ Commanding /\ Once /\ ClipOK'
    BY DEF IInv, ClipOK, MakeDir
  <1>2. Kept({}) /\ given' = given
    BY <1>1, MakeDirKeeps DEF MakeDir
  <1>3. QED
    BY <1>1, <1>2, OnceOK, CommandKeeps

LEMMA DeleteKeeps ==
  ASSUME IInv, NEW p \in DOMAIN disk, Delete(p)
  PROVE  IInv'
  <1>1. DiskOK /\ IsDisk(disk) /\ Commanding /\ ClipOK'
    BY DEF IInv, DiskOK, ClipOK, Delete
  <1>2. p \in Paths /\ p \in Seq(Names) /\ Front(p) \in Seq(Names) /\ Last(p) \in Names
    BY <1>1, OnDisk, FrontOf DEF Paths
  <1>3. /\ op' = Command("delete", p, <<>>, Last(p), FALSE, <<>>, "only")
        /\ stack' = <<Frame(Front(p), <<>>, {p})>>
        /\ given' = given \cup {disk[q] : q \in Subtree(disk, p)}
        /\ before' = disk /\ asked' = FALSE /\ UNCHANGED <<disk, clip, failures>>
    BY DEF Delete
  <1>4. Kept({})
    BY <1>1, <1>3, DiskStays
  <1>5. <<>> \in Seq(Names)
    BY EmptySeq
  <1>6. OpOK' /\ op'.kind = "delete" /\ op'.src = p
    <2>1. op' \in Commands /\ op'.kind = "delete" /\ op'.src = p /\ op'.phase = "only"
      BY <1>2, <1>3, <1>5 DEF Command, Commands
    <2>2. QED
      BY <2>1 DEF OpOK
  <1>7. Frame(Front(p), <<>>, {p}) \in Calls /\ Frame(Front(p), <<>>, {p}).todo = {p}
    BY <1>2, <1>5 DEF Frame, Calls
  <1>8. /\ stack' \in Seq(Calls)
        /\ \A i \in DOMAIN stack' : stack'[i] = Frame(Front(p), <<>>, {p})
    <2> DEFINE f == Frame(Front(p), <<>>, {p})
    <2>1. f \in Calls /\ stack' = <<f>>
      BY <1>3, <1>7
    <2> HIDE DEF f
    <2>2. <<f>> \in Seq(Calls) /\ \A i \in DOMAIN <<f>> : <<f>>[i] = f
      BY <2>1
    <2>3. QED
      BY <2>1, <2>2 DEF f
  <1>9. Deleting'
    <2>1. \A i \in DOMAIN stack' : \A q \in stack'[i].todo : IsPrefix(p, q)
      BY <1>2, <1>7, <1>8, PrefixSelf
    <2>2. \A q \in Subtree(disk', p) : disk'[q] \in given'
      BY <1>3
    <2>3. QED
      BY <1>6, <2>1, <2>2 DEF Deleting, AllUnder
  <1>10. given \subseteq given'
    BY <1>3
  <1>11. QED
    BY <1>1, <1>3, <1>4, <1>6, <1>8, <1>9, <1>10, CommandKeeps

\* How a paste begins.
LEMMA PasteBegins ==
  ASSUME NEW src \in Paths, NEW des \in Seq(Names), NEW name \in Names,
         NEW move \in BOOLEAN, NEW tmp \in Seq(Names), NEW to \in Seq(Names),
         NEW phase \in {"only", "tmp"},
         Begin(Command("paste", src, des, name, move, tmp, phase), Frame(Front(src), to, {src}))
  PROVE  /\ OpOK' /\ Deleting' /\ stack' \in Seq(Calls)
         /\ before' = disk /\ asked' = FALSE /\ given' = given
  <1>1. /\ op' = Command("paste", src, des, name, move, tmp, phase)
        /\ stack' = <<Frame(Front(src), to, {src})>>
        /\ before' = disk /\ asked' = FALSE /\ given' = given
    BY DEF Begin
  <1>2. OpOK' /\ op'.kind = "paste"
    <2>1. /\ op' \in Commands /\ op'.kind = "paste" /\ op'.name = name /\ op'.phase = phase
      BY <1>1 DEF Command, Commands, Paths
    <2>2. QED
      BY <2>1 DEF OpOK
  <1>3. Deleting'
    BY <1>2 DEF Deleting
  <1>4. Frame(Front(src), to, {src}) \in Calls
    BY FrontOf DEF Frame, Calls, Paths
  <1>5. stack' \in Seq(Calls)
    BY <1>1, <1>4
  <1>6. QED
    BY <1>1, <1>2, <1>3, <1>5

LEMMA PasteDirOrFileKeeps ==
  ASSUME IInv, Commanding, ClipOK', NEW src \in Paths, NEW des \in Seq(Names),
         NEW move \in BOOLEAN, PasteDirOrFile(src, des, move)
  PROVE  IInv'
  <1>1. DiskOK /\ <<>> \in Seq(Names)
    BY EmptySeq DEF IInv
  <1>2. Front(src) \in Seq(Names) /\ Last(src) \in Names
    BY FrontOf DEF Paths
  <1>3. CASE ~IsDir(src)
    <2>1. PICK name \in IF des = Front(src)
                        THEN {n \in CopyNames : ~IsFile(Append(des, n))} ELSE {Last(src)} :
            /\ Begin(Command("paste", src, des, name, move, <<>>, "only"),
                     Frame(Front(src), des, {src}))
            /\ UNCHANGED <<disk, failures>>
      BY <1>3 DEF PasteDirOrFile
    <2>2. name \in Names
      BY <1>2, <2>1, FilesAssumption
    <2>3. /\ OpOK' /\ Deleting' /\ stack' \in Seq(Calls)
          /\ before' = disk /\ asked' = FALSE /\ given' = given
      BY <1>1, <2>1, <2>2, PasteBegins
    <2>4. Kept({})
      BY <1>1, <2>1, DiskStays
    <2>5. QED
      BY <2>3, <2>4, CommandKeeps
  <1>4. CASE Once /\ UNCHANGED <<disk, given, failures>>
    <2>1. Kept({}) /\ given' = given
      BY <1>1, <1>4, DiskStays
    <2>2. QED
      BY <1>4, <2>1, OnceOK, CommandKeeps
  <1>5. CASE /\ Begin(Command("paste", src, des, Last(src), move, <<>>, "only"),
                      Frame(Front(src), des, {src}))
             /\ UNCHANGED <<disk, failures>>
    <2>1. /\ OpOK' /\ Deleting' /\ stack' \in Seq(Calls)
          /\ before' = disk /\ asked' = FALSE /\ given' = given
      BY <1>1, <1>2, <1>5, PasteBegins
    <2>2. Kept({})
      BY <1>1, <1>5, DiskStays
    <2>3. QED
      BY <2>1, <2>2, CommandKeeps
  <1>6. ASSUME NEW n \in TmpNames, NEW tmp, tmp = Append(Front(src), n),
               MakesDir(tmp) \/ MakesNoDir(tmp),
               Begin(Command("paste", src, des, Last(src), FALSE, tmp, "tmp"),
                     Frame(Front(src), tmp, {src}))
        PROVE  IInv'
    <2>1. n \in Names
      BY FilesAssumption
    <2>2. tmp \in Paths /\ tmp \in Seq(Names)
      BY <1>2, <1>6, <2>1, NameIn DEF Paths
    <2>3. /\ OpOK' /\ Deleting' /\ stack' \in Seq(Calls)
          /\ before' = disk /\ asked' = FALSE /\ given' = given
      BY <1>2, <1>6, <2>2, PasteBegins
    <2>4. Kept({})
      BY <1>1, <1>6, <2>2, MakeDirKeeps
    <2>5. QED
      BY <2>3, <2>4, CommandKeeps
  <1>7. QED
    BY <1>3, <1>4, <1>5, <1>6 DEF PasteDirOrFile

LEMMA DirectoriesOK ==
  ASSUME IsDisk(disk)
  PROVE  Directories \subseteq Seq(Names)
  BY OnDisk, EmptySeq DEF Directories, Paths

LEMMA PasteKeeps ==
  ASSUME IInv, NEW des \in Directories, Paste(des)
  PROVE  IInv'
  <1>1. Commanding /\ clip # NoClip /\ UNCHANGED clip /\ PasteDirOrFile(clip.path, des, clip.move)
    BY DEF Paste
  <1>2. des \in Seq(Names)
    BY DirectoriesOK DEF IInv, DiskOK
  <1>3. clip.path \in Paths /\ clip.move \in BOOLEAN /\ ClipOK'
    BY <1>1 DEF IInv, ClipOK, Paths
  <1>4. QED
    BY <1>1, <1>2, <1>3, PasteDirOrFileKeeps

LEMMA PasteToKeeps ==
  ASSUME IInv, NEW src \in DOMAIN disk, NEW des \in Directories, NEW move \in BOOLEAN,
         PasteTo(src, des, move)
  PROVE  IInv'
  <1>1. Commanding /\ clip' = [path |-> src, move |-> move] /\ PasteDirOrFile(src, des, move)
    BY DEF PasteTo
  <1>2. des \in Seq(Names) /\ src \in Paths
    BY DirectoriesOK, OnDisk DEF IInv, DiskOK
  <1>3. ClipOK'
    BY <1>1, <1>2 DEF ClipOK, Paths
  <1>4. QED
    BY <1>1, <1>2, <1>3, PasteDirOrFileKeeps

LEMMA UserCommandKeeps ==
  ASSUME IInv, UserCommand
  PROVE  IInv'
  <1>1. ASSUME NEW p \in DOMAIN disk, NEW move \in BOOLEAN, CutOrCopy(p, move) PROVE IInv'
    BY <1>1, CutOrCopyKeeps
  <1>2. ASSUME NEW p \in DOMAIN disk, NEW move \in BOOLEAN, NEW des \in Directories,
               PasteTo(p, des, move)
        PROVE  IInv'
    BY <1>2, PasteToKeeps
  <1>3. ASSUME NEW p \in DOMAIN disk, Delete(p) PROVE IInv'
    BY <1>3, DeleteKeeps
  <1>4. ASSUME NEW p \in DOMAIN disk, NEW n \in TypedNames, Rename(p, n) PROVE IInv'
    BY <1>4, RenameStepKeeps
  <1>5. ASSUME NEW des \in Directories, Paste(des) PROVE IInv'
    BY <1>5, PasteKeeps
  <1>6. ASSUME NEW des \in Directories, NEW n \in TypedNames, MakeDir(Append(des, n)) PROVE IInv'
    <2>1. des \in Seq(Names) /\ n \in Names
      BY DirectoriesOK, FilesAssumption DEF IInv, DiskOK
    <2>2. Append(des, n) \in Paths
      BY <2>1, NameIn DEF Paths
    <2>3. QED
      BY <1>6, <2>2, MakeDirStepKeeps
  <1>7. QED
    BY <1>1, <1>2, <1>3, <1>4, <1>5, <1>6 DEF UserCommand

-----------------------------------------------------------------------------
(* The theorems.                                                           *)

LEMMA NextInvariant == IInv /\ [Next]_vars => IInv'
  <1> SUFFICES ASSUME IInv, [Next]_vars PROVE IInv'
    OBVIOUS
  <1>1. CASE UserCommand
    BY <1>1, UserCommandKeeps
  <1>2. CASE Walk
    <2>1. /\ stack # <<>> /\ UNCHANGED <<clip, before, given, left>>
          /\ \E p \in Top.todo : \/ (op.kind = "paste" /\ (PasteFile(p) \/ PasteDir(p)))
                                \/ (op.kind = "delete" /\ DeleteEntry(p))
      BY <1>2 DEF Walk
    <2>2. QED
      BY <2>1, PasteFileKeeps, PasteDirKeeps, DeleteEntryKeeps
  <1>3. CASE Return
    BY <1>3, ReturnKeeps
  <1>4. CASE PasteFinal
    BY <1>4, PasteFinalKeeps
  <1>5. CASE Finish
    BY <1>5, FinishKeeps
  <1>6. CASE UNCHANGED vars
    BY <1>6 DEF vars, IInv, DiskOK, NothingLost, OpOK, ClipOK, Deleting, AllUnder, Subtree, RestOK
  <1>7. QED
    BY <1>1, <1>2, <1>3, <1>4, <1>5, <1>6 DEF Next

\* Whatever is copied, moved, renamed and deleted, whatever fails and however the
\* user answers: IInv holds (kuFrame.cpp 2024-2281).
THEOREM FilesInvariance == Spec => []IInv
  BY InitInvariant, NextInvariant, PTL DEF Spec

\* The disk stays a tree, and every variable in its type.
THEOREM FilesTypes == Spec => []TypeOK
  BY FilesInvariance, InvariantTypes, PTL

\* No file is lost but those the user has deleted, or replaced by another one in a
\* rename (CopyFile, CopyDir, DeleteDir, PasteDirOrFile).
THEOREM NoFileLost == Spec => []NothingLost
  <1>1. IInv => NothingLost
    BY DEF IInv
  <1>2. QED
    BY <1>1, FilesInvariance, PTL

-----------------------------------------------------------------------------
(* A paste keeps to the two trees it is about.                             *)

Apart(p, q) == ~IsPrefix(p, q) /\ ~IsPrefix(q, p)

\* What a walk reads, and where it puts it.
Root == IF op.phase = "final" THEN Append(op.tmp, op.name) ELSE op.src
Base == IF op.phase = "tmp" THEN Append(op.tmp, op.name) ELSE Append(op.des, op.name)

\* Each call of the walk reads one directory of the tree and writes the one that
\* is at the same place in the other tree.
Placing(frames) ==
  \A i \in DOMAIN frames :
    IF i = 1
    THEN frames[i].todo \subseteq {Root} /\ Append(frames[i].des, op.name) = Base
    ELSE /\ IsPrefix(Root, frames[i].src)
         /\ op.phase # "final" => frames[i].src \in DOMAIN before
         /\ frames[i].des = Base \o Within(Root, frames[i].src)
         /\ \A p \in frames[i].todo : Front(p) = frames[i].src

\* While a tree is copied or moved nothing is new in it; what a temporary directory
\* will hold was not there, and is not moved from where it was.
Kindly == op.kind = "paste" /\ ~OverAncestor
Pasting ==
  Kindly /\ op.phase # "done" =>
    /\ Placing(stack)
    /\ op.phase # "final" => Apart(op.src, Base) /\ Subtree(disk, op.src) \subseteq DOMAIN before
    /\ op.phase # "only" =>
         ~op.move /\ \A q \in DOMAIN before : ~IsPrefix(Append(op.tmp, op.name), q)

Idle == op.phase = "done" => stack = <<>>
\* Two paths in which a third one begins are above one another.
LEMMA Comparable ==
  ASSUME NEW p \in Seq(Names), NEW r \in Seq(Names), NEW q \in Seq(Names),
         IsPrefix(p, q), IsPrefix(r, q)
  PROVE  ~Apart(p, r)
  <1>1. /\ Len(p) \in Nat /\ Len(r) \in Nat
        /\ \A i \in 1..Len(p) : p[i] = q[i]
        /\ \A i \in 1..Len(r) : r[i] = q[i]
    BY LenProperties, PrefixIff
  <1>2. CASE Len(p) <= Len(r)
    <2>1. \A i \in 1..Len(p) : p[i] = r[i]
      BY <1>1, <1>2
    <2>2. QED
      BY <1>2, <2>1, PrefixIff DEF Apart
  <1>3. CASE Len(r) <= Len(p)
    <2>1. \A i \in 1..Len(r) : r[i] = p[i]
      BY <1>1, <1>3
    <2>2. QED
      BY <1>3, <2>1, PrefixIff DEF Apart
  <1>4. QED
    BY <1>1, <1>2, <1>3

LEMMA PrefixTransitive ==
  ASSUME NEW p \in Seq(Names), NEW r \in Seq(Names), NEW q \in Seq(Names),
         IsPrefix(p, r), IsPrefix(r, q)
  PROVE  IsPrefix(p, q)
  <1>1. /\ Len(p) \in Nat /\ Len(r) \in Nat /\ Len(q) \in Nat
        /\ Len(p) <= Len(r) /\ \A i \in 1..Len(p) : p[i] = r[i]
        /\ Len(r) <= Len(q) /\ \A i \in 1..Len(r) : r[i] = q[i]
    BY LenProperties, PrefixIff
  <1>2. Len(p) <= Len(q) /\ \A i \in 1..Len(p) : p[i] = q[i]
    BY <1>1
  <1>3. QED
    BY <1>2, PrefixIff

LEMMA Associative ==
  ASSUME NEW r \in Seq(Names), NEW s \in Seq(Names), NEW t \in Seq(Names)
  PROVE  (r \o s) \o t = r \o (s \o t)
  BY ConcatAssociative

\* What is in a directory, and what is called the same in another one.
LEMMA SamePlace ==
  ASSUME NEW r \in Seq(Names), NEW b \in Seq(Names), NEW p \in Paths,
         IsPrefix(r, Front(p))
  PROVE  Append(b \o Within(r, Front(p)), Last(p)) = b \o Within(r, p)
  <1> DEFINE s == Front(p)
             n == Last(p)
             w == Within(r, s)
  <1>1. s \in Seq(Names) /\ n \in Names /\ p \in Seq(Names) /\ p = Append(s, n)
    <2>1. PICK t \in Seq(Names), m \in Names : p = Append(t, m)
      BY SequenceEmptyOrAppend DEF Paths
    <2>2. Front(p) = t /\ Last(p) = m
      BY <2>1, NameIn
    <2>3. QED
      BY <2>1, <2>2 DEF Paths
  <1> HIDE DEF s, n
  <1>2. w \in Seq(Names) /\ r \o w = s
    BY <1>1, WithinOf DEF s
  <1> HIDE DEF w
  <1>3. <<n>> \in Seq(Names) /\ w \o <<n>> \in Seq(Names) /\ b \o w \in Seq(Names)
    BY <1>1, <1>2, ConcatProperties
  <1>4. p = r \o (w \o <<n>>)
    <2>1. p = s \o <<n>>
      BY <1>1, AppendIsConcat
    <2>2. (r \o w) \o <<n>> = r \o (w \o <<n>>)
      BY <1>2, <1>3, Associative
    <2>3. QED
      BY <1>2, <2>1, <2>2
  <1>5. Within(r, p) = w \o <<n>>
    BY <1>3, <1>4, Under
  <1>6. Append(b \o w, n) = b \o (w \o <<n>>)
    <2>1. Append(b \o w, n) = (b \o w) \o <<n>>
      BY <1>1, <1>3, AppendIsConcat
    <2>2. (b \o w) \o <<n>> = b \o (w \o <<n>>)
      BY <1>2, <1>3, Associative, ZenonT(30)
    <2>3. QED
      BY <2>1, <2>2
  <1>7. QED
    BY <1>5, <1>6 DEF s, n, w

\* A path within itself.
LEMMA WithinSelf ==
  ASSUME NEW r \in Seq(Names), NEW b \in Seq(Names)
  PROVE  IsPrefix(r, r) /\ b \o Within(r, r) = b
  <1>1. IsPrefix(r, r)
    BY PrefixSelf
  <1>2. Within(r, r) \in Seq(Names) /\ r \o Within(r, r) = r
    BY <1>1, WithinOf
  <1>3. Within(r, r) = <<>>
    BY <1>2, ConcatEqualIffEmpty
  <1>4. QED
    BY <1>1, <1>3, ConcatEmptySeq

LEMMA RootAndBase ==
  ASSUME OpOK, op.kind = "paste"
  PROVE  /\ Root \in Seq(Names) /\ Base \in Seq(Names)
         /\ op.src \in Seq(Names) /\ op.des \in Seq(Names) /\ op.tmp \in Seq(Names)
         /\ op.name \in Names /\ Append(op.tmp, op.name) \in Seq(Names)
         /\ op.phase \in {"only", "tmp", "final", "done"} /\ op.move \in BOOLEAN
  <1>1. /\ op.src \in Seq(Names) /\ op.des \in Seq(Names) /\ op.tmp \in Seq(Names)
        /\ op.name \in Names /\ op.phase \in {"only", "tmp", "final", "done"}
        /\ op.move \in BOOLEAN
    BY DEF OpOK, Commands
  <1>2. Append(op.tmp, op.name) \in Seq(Names) /\ Append(op.des, op.name) \in Seq(Names)
    BY <1>1, NameIn
  <1>3. QED
    BY <1>1, <1>2 DEF Root, Base

\* Where an entry of the walk is, and goes to.
LEMMA EntryPlace ==
  ASSUME IInv, Placing(stack), op.kind = "paste", stack # <<>>, NEW p \in Top.todo
  PROVE  IsPrefix(Root, p) /\ Target(p) = Base \o Within(Root, p)
  <1>1. /\ stack \in Seq(Calls) /\ Root \in Seq(Names) /\ Base \in Seq(Names)
    BY RootAndBase DEF IInv
  <1>2. /\ Len(stack) \in Nat /\ Len(stack) > 0 /\ DOMAIN stack = 1..Len(stack)
        /\ Top = stack[Len(stack)] /\ Top \in Calls /\ Top.todo \subseteq Paths
    BY <1>1, TopOK
  <1>3. Len(stack) \in DOMAIN stack
    BY <1>2
  <1>4. CASE AtRoot
    <2>1. p = Root /\ Append(Top.des, op.name) = Base
      <3>1. Top.todo \subseteq {Root} /\ Append(Top.des, op.name) = Base
        BY <1>2, <1>3, <1>4 DEF Placing, AtRoot
      <3>2. QED
        BY <3>1
    <2>2. Target(p) = Base
      BY <1>4, <2>1 DEF Target
    <2>3. QED
      BY <1>1, <2>1, <2>2, WithinSelf
  <1>5. CASE ~AtRoot
    <2>1. /\ IsPrefix(Root, Top.src) /\ Top.des = Base \o Within(Root, Top.src)
          /\ Front(p) = Top.src
      BY <1>2, <1>3, <1>5 DEF Placing, AtRoot
    <2>2. Target(p) = Append(Top.des, Last(p))
      BY <1>5 DEF Target
    <2>3. p \in Paths /\ p \in Seq(Names)
      BY <1>2 DEF Paths
    <2>4. IsPrefix(Root, Front(p))
      BY <2>1
    <2>5. Append(Base \o Within(Root, Front(p)), Last(p)) = Base \o Within(Root, p)
      BY <1>1, <2>3, <2>4, SamePlace
    <2>6. IsPrefix(Root, p)
      BY <1>1, <2>3, <2>4, PrefixOfFront DEF Paths
    <2>7. QED
      BY <2>1, <2>2, <2>5, <2>6
  <1>6. QED
    BY <1>4, <1>5

\* An entry of the walk is in neither tree what the other one is for.
LEMMA TargetApart ==
  ASSUME IInv, Pasting, Kindly, op.phase \in {"only", "tmp"}, stack # <<>>,
         NEW p \in Top.todo
  PROVE  /\ IsPrefix(op.src, p) /\ ~IsPrefix(op.src, Target(p))
         /\ ~IsPrefix(Base, p)
  <1>1. /\ op.kind = "paste" /\ Placing(stack) /\ Apart(op.src, Base) /\ Root = op.src
    BY DEF Pasting, Kindly, Root
  <1>2. IsPrefix(Root, p) /\ Target(p) = Base \o Within(Root, p)
    BY <1>1, EntryPlace
  <1>3. p \in Paths /\ Target(p) \in Paths
    BY <1>1, TargetOK
  <1>4. Root \in Seq(Names) /\ Base \in Seq(Names) /\ p \in Seq(Names) /\ Target(p) \in Seq(Names)
    BY <1>1, <1>3, RootAndBase DEF IInv, Paths
  <1>5. Within(Root, p) \in Seq(Names)
    BY <1>2, <1>4, WithinOf
  <1>6. IsPrefix(Base, Target(p))
    BY <1>2, <1>4, <1>5, Under
  <1>7. QED
    BY <1>1, <1>2, <1>4, <1>6, Comparable

-----------------------------------------------------------------------------
(* What a step of a paste does to the disk.                                *)

\* Nothing is new but t, and nothing changes but that the file p may move to t.
Effect(p, t) ==
  /\ \A q \in DOMAIN disk' : q \in DOMAIN disk \/ q = t
  /\ \A q \in DOMAIN disk : disk[q] # Dir =>
       \/ q \in DOMAIN disk' /\ disk'[q] = disk[q]
       \/ /\ Moving /\ q = p /\ q \notin DOMAIN disk'
          /\ t \in DOMAIN disk' /\ disk'[t] = disk[q]

\* Nothing is new and no file changes.
Settles ==
  /\ DOMAIN disk' \subseteq DOMAIN disk
  /\ \A q \in DOMAIN disk : disk[q] # Dir => q \in DOMAIN disk' /\ disk'[q] = disk[q]

LEMMA WithEffect ==
  ASSUME NEW t, t \notin DOMAIN disk, NEW v, disk' = With(disk, t, v)
  PROVE  \A p : Effect(p, t)
  BY DEF With, Effect

LEMMA SameEffect ==
  ASSUME UNCHANGED disk
  PROVE  Settles /\ \A p, t : Effect(p, t)
  BY DEF Settles, Effect

LEMMA CopyFileEffect ==
  ASSUME NEW p, NEW t, NEW ok, CopyFile(p, t, Moving, ok)
  PROVE  Effect(p, t)
  <1>1. CASE UNCHANGED disk
    BY <1>1, SameEffect
  <1>2. CASE IsFile(p) /\ Transfers(p, t, Moving)
    <2>1. /\ p \in DOMAIN disk /\ t \notin DOMAIN disk
          /\ disk' = With(IF Moving THEN Without(p) ELSE disk, t, disk[p])
      BY <1>2 DEF IsFile, Transfers, Free
    <2>2. CASE Moving
      <3>1. /\ DOMAIN Without(p) = DOMAIN disk \ {p}
            /\ \A q \in DOMAIN disk \ {p} : Without(p)[q] = disk[q]
        BY DEF Without, Restrict
      <3>2. disk' = With(Without(p), t, disk[p])
        BY <2>1, <2>2
      <3>3. /\ DOMAIN disk' = (DOMAIN disk \ {p}) \cup {t}
            /\ disk'[t] = disk[p]
            /\ \A q \in DOMAIN disk \ {p} : disk'[q] = disk[q]
        BY <2>1, <3>1, <3>2 DEF With
      <3>4. QED
        BY <2>1, <2>2, <3>3 DEF Effect
    <2>3. CASE ~Moving
      BY <2>1, <2>3, WithEffect
    <2>4. QED
      BY <2>2, <2>3
  <1>3. CASE Free(t) /\ disk' = With(disk, t, Part)
    BY <1>3, WithEffect DEF Free
  <1>4. QED
    BY <1>1, <1>2, <1>3 DEF CopyFile, TransfersNot

LEMMA MakesDirEffect ==
  ASSUME NEW t, MakesDir(t) \/ MakesNoDir(t)
  PROVE  \A p : Effect(p, t)
  BY WithEffect, SameEffect DEF MakesDir, MakesNoDir, Free

LEMMA RemovesDirSettles ==
  ASSUME DiskOK, NEW p, RemovesDir(p) \/ RemovesNoDir(p)
  PROVE  Settles
  <1>1. CASE RemovesDir(p)
    <2>1. disk' = Without(p) /\ (p \in DOMAIN disk => disk[p] = Dir)
      <3>1. <<>> \notin DOMAIN disk
        BY DEF DiskOK, IsDisk
      <3>2. QED
        BY <1>1, <3>1 DEF RemovesDir, IsDir
    <2>2. QED
      BY <2>1 DEF Without, Restrict, Settles
  <1>2. CASE RemovesNoDir(p)
    BY <1>2, SameEffect DEF RemovesNoDir
  <1>3. QED
    BY <1>1, <1>2

\* Each file is where it was, or where it belongs.
Either ==
  \A q \in {f \in DOMAIN before : before[f] # Dir} :
    \/ q \in DOMAIN disk /\ disk[q] = before[q]
    \/ /\ op.move /\ q \in Pasted /\ q \notin DOMAIN disk
       /\ Place(q) \in DOMAIN disk /\ disk[Place(q)] = before[q]

LEMMA NeverAstrayIff == NeverAstray <=> (Kindly => Either)
  BY DEF NeverAstray, Kindly, Either

\* The command goes on.
SameCommand ==
  /\ op'.kind = op.kind /\ op'.src = op.src /\ op'.des = op.des /\ op'.name = op.name
  /\ op'.move = op.move /\ op'.tmp = op.tmp /\ before' = before

LEMMA SameCommandSame ==
  ASSUME SameCommand
  PROVE  /\ Kindly' <=> Kindly
         /\ Pasted' = Pasted /\ \A q : Place(q)' = Place(q)
  BY DEF SameCommand, Kindly, OverAncestor, Pasted, Place, Subtree

LEMMA SettlesKeepsEither ==
  ASSUME SameCommand, Settles, Either
  PROVE  Either'
  <1> SUFFICES ASSUME NEW q \in DOMAIN before, before[q] # Dir
               PROVE  \/ q \in DOMAIN disk' /\ disk'[q] = before[q]
                      \/ /\ op.move /\ q \in Pasted /\ q \notin DOMAIN disk'
                         /\ Place(q) \in DOMAIN disk' /\ disk'[Place(q)] = before[q]
    BY SameCommandSame DEF Either, SameCommand
  <1>1. CASE q \in DOMAIN disk /\ disk[q] = before[q]
    BY <1>1 DEF Settles
  <1>2. CASE /\ op.move /\ q \in Pasted /\ q \notin DOMAIN disk
             /\ Place(q) \in DOMAIN disk /\ disk[Place(q)] = before[q]
    BY <1>2 DEF Settles
  <1>3. QED
    BY <1>1, <1>2 DEF Either

\* In a step of the walk each file stays where it was or where it belongs, and
\* nothing is new in the tree that is copied or moved.
LEMMA EffectKeepsEither ==
  ASSUME IInv, Pasting, Kindly, Either, op.phase # "done", stack # <<>>,
         NEW p \in Top.todo, Effect(p, Target(p)), SameCommand
  PROVE  /\ Either'
         /\ op.phase # "final" => Subtree(disk', op.src) \subseteq DOMAIN before
  <1> DEFINE t == Target(p)
  <1>1. op.kind = "paste" /\ OpOK /\ op.phase \in {"only", "tmp", "final"}
    BY DEF Kindly, IInv, OpOK, Commands
  <1>2. /\ op.phase # "final" => Apart(op.src, Base) /\ Subtree(disk, op.src) \subseteq DOMAIN before
        /\ op.phase # "only" =>
             ~op.move /\ \A q \in DOMAIN before : ~IsPrefix(Append(op.tmp, op.name), q)
        /\ IsPrefix(Root, p) /\ t = Base \o Within(Root, p)
    BY <1>1, EntryPlace DEF Pasting
  <1>3. /\ op.phase # "final" =>
             IsPrefix(op.src, p) /\ ~IsPrefix(op.src, t) /\ ~IsPrefix(Base, p)
    BY <1>1, TargetApart
  <1> HIDE DEF t
  <1>4. Subtree(disk', op.src) \subseteq DOMAIN before \/ op.phase = "final"
    BY <1>2, <1>3 DEF Effect, Subtree, t
  <1>5. ASSUME NEW q \in DOMAIN before, before[q] # Dir
        PROVE  \/ q \in DOMAIN disk' /\ disk'[q] = before[q]
               \/ /\ op.move /\ q \in Pasted /\ q \notin DOMAIN disk'
                  /\ Place(q) \in DOMAIN disk' /\ disk'[Place(q)] = before[q]
    <2>1. CASE q \in DOMAIN disk /\ disk[q] = before[q]
      <3>1. CASE q \in DOMAIN disk' /\ disk'[q] = disk[q]
        BY <2>1, <3>1
      <3>2. CASE /\ Moving /\ q = p /\ q \notin DOMAIN disk'
                 /\ t \in DOMAIN disk' /\ disk'[t] = disk[q]
        <4>1. op.phase = "only"
          <5>1. op.phase # "final"
            BY <1>2, <3>2 DEF Root
          <5>2. op.phase # "tmp"
            BY <1>2, <3>2 DEF Moving
          <5>3. QED
            BY <1>1, <5>1, <5>2
        <4>2. op.move /\ Root = op.src /\ Base = Append(op.des, op.name)
          BY <3>2, <4>1 DEF Moving, Root, Base
        <4>3. q \in Pasted /\ Place(q) = t
          BY <1>2, <3>2, <4>2 DEF Pasted, Subtree, Place
        <4>4. QED
          BY <2>1, <3>2, <4>2, <4>3
      <3>3. QED
        BY <1>5, <2>1, <3>1, <3>2 DEF Effect, t
    <2>2. CASE /\ op.move /\ q \in Pasted /\ q \notin DOMAIN disk
               /\ Place(q) \in DOMAIN disk /\ disk[Place(q)] = before[q]
      <3>1. op.phase = "only" /\ IsPrefix(op.src, q) /\ Base = Append(op.des, op.name)
        BY <1>1, <1>2, <2>2 DEF Pasted, Subtree, Base
      <3>2. q \notin DOMAIN disk'
        BY <1>3, <2>2, <3>1 DEF Effect, t
      <3>3. Place(q) # p
        <4>1. q \in Seq(Names)
          BY OnDisk DEF IInv, Paths
        <4>2. op.src \in Seq(Names) /\ Base \in Seq(Names)
          BY <1>1, RootAndBase
        <4>3. Within(op.src, q) \in Seq(Names)
          BY <3>1, <4>1, <4>2, WithinOf
        <4>4. IsPrefix(Base, Place(q))
          BY <3>1, <4>2, <4>3, Under DEF Place
        <4>5. QED
          BY <1>3, <3>1, <4>4
      <3>4. Place(q) \in DOMAIN disk' /\ disk'[Place(q)] = disk[Place(q)]
        BY <1>5, <2>2, <3>3 DEF Effect
      <3>5. QED
        BY <2>2, <3>2, <3>4
    <2>3. QED
      BY <1>5, <2>1, <2>2 DEF Either
  <1>6. Either'
    BY <1>5, SameCommandSame DEF Either, SameCommand
  <1>7. QED
    BY <1>4, <1>6

-----------------------------------------------------------------------------
(* The steps of a paste.                                                   *)

LEMMA AlikePlacing ==
  ASSUME NEW f, NEW g, Alike(f, g), Placing(g)
  PROVE  Placing(f)
  <1> SUFFICES ASSUME NEW i \in DOMAIN f
               PROVE  IF i = 1
                      THEN f[i].todo \subseteq {Root} /\ Append(f[i].des, op.name) = Base
                      ELSE /\ IsPrefix(Root, f[i].src)
                           /\ op.phase # "final" => f[i].src \in DOMAIN before
                           /\ f[i].des = Base \o Within(Root, f[i].src)
                           /\ \A p \in f[i].todo : Front(p) = f[i].src
    BY DEF Placing
  <1>1. /\ i \in DOMAIN g /\ f[i].src = g[i].src /\ f[i].des = g[i].des
        /\ \A q \in f[i].todo : q \in g[i].todo \/ (i # 1 /\ Front(q) = g[i].src)
    BY DEF Alike
  <1>2. CASE i = 1
    BY <1>1, <1>2 DEF Placing
  <1>3. CASE i # 1
    BY <1>1, <1>3 DEF Placing
  <1>4. QED
    BY <1>2, <1>3

LEMMA EnteredPlacing ==
  ASSUME NEW frames \in Seq(Calls), Len(frames) > 0, Placing(frames), NEW f \in Calls,
         IsPrefix(Root, f.src), op.phase # "final" => f.src \in DOMAIN before,
         f.des = Base \o Within(Root, f.src), \A p \in f.todo : Front(p) = f.src
  PROVE  Placing(Append(frames, f))
  <1> DEFINE more == Append(frames, f)
  <1>1. /\ Len(frames) \in Nat /\ DOMAIN frames = 1..Len(frames)
        /\ more \in Seq(Calls) /\ Len(more) = Len(frames) + 1
        /\ \A i \in 1..Len(frames) : more[i] = frames[i]
        /\ more[Len(frames) + 1] = f
    BY AppendProperties, LenProperties
  <1>2. DOMAIN more = 1..(Len(frames) + 1)
    BY <1>1, LenProperties
  <1> HIDE DEF more
  <1>3. ASSUME NEW i \in DOMAIN more
        PROVE  IF i = 1
               THEN more[i].todo \subseteq {Root} /\ Append(more[i].des, op.name) = Base
               ELSE /\ IsPrefix(Root, more[i].src)
                    /\ op.phase # "final" => more[i].src \in DOMAIN before
                    /\ more[i].des = Base \o Within(Root, more[i].src)
                    /\ \A p \in more[i].todo : Front(p) = more[i].src
    <2>1. i \in DOMAIN frames \/ (i = Len(frames) + 1 /\ i # 1)
      BY <1>1, <1>2
    <2>2. CASE i \in DOMAIN frames
      <3>1. more[i] = frames[i]
        BY <1>1, <2>2
      <3>2. QED
        BY <2>2, <3>1 DEF Placing
    <2>3. CASE i = Len(frames) + 1 /\ i # 1
      <3>1. more[i] = f
        BY <1>1, <2>3
      <3>2. QED
        BY <2>3, <3>1
    <2>4. QED
      BY <2>1, <2>2, <2>3
  <1>4. QED
    BY <1>3 DEF Placing, more

LEMMA PlacingStays ==
  ASSUME SameCommand, op'.phase = op.phase, NEW f, Placing(f), stack' = f
  PROVE  Placing(stack)'
  <1>1. Root' = Root /\ Base' = Base
    BY DEF SameCommand, Root, Base
  <1>2. QED
    BY <1>1 DEF Placing, SameCommand

LEMMA OpGoesOn ==
  ASSUME OpOK, op' = op \/ op' = [op EXCEPT !.result = FALSE], before' = before
  PROVE  SameCommand /\ op'.phase = op.phase
  BY DEF OpOK, Commands, SameCommand

PInv == IInv /\ Idle /\ Pasting /\ NeverAstray

\* What a step of a walk must keep.
LEMMA PastingStays ==
  ASSUME Pasting, Kindly, op.phase # "done", SameCommand, op'.phase = op.phase,
         NEW f, Placing(f), stack' = f,
         op.phase # "final" => Subtree(disk', op.src) \subseteq DOMAIN before
  PROVE  Pasting'
  <1>1. Placing(stack)'
    BY PlacingStays
  <1>2. Base' = Base
    BY DEF SameCommand, Base
  <1>3. op.phase # "final" => Apart(op'.src, Base') /\ Subtree(disk', op'.src) \subseteq DOMAIN before'
    BY <1>2 DEF Pasting, SameCommand
  <1>4. op.phase # "only" =>
          ~op'.move /\ \A q \in DOMAIN before' : ~IsPrefix(Append(op'.tmp, op'.name), q)
    BY DEF Pasting, SameCommand
  <1>5. QED
    BY <1>1, <1>3, <1>4 DEF Pasting

LEMMA WalkPastes ==
  ASSUME PInv, op.kind = "paste", stack # <<>>, NEW p \in Top.todo,
         PasteFile(p) \/ PasteDir(p), UNCHANGED <<clip, before, given, left>>
  PROVE  Idle' /\ Pasting' /\ NeverAstray'
  <1> DEFINE t == Target(p)
             f == Frame(p, t, Children(p))
  <1>1. IInv /\ OpOK /\ stack \in Seq(Calls) /\ IsDisk(disk) /\ op.phase # "done"
    BY DEF PInv, IInv, Idle, DiskOK
  <1>2. op' = op \/ op' = [op EXCEPT !.result = FALSE]
    BY DEF PasteFile, PasteDir, GoOn
  <1>3. SameCommand /\ op'.phase = op.phase
    BY <1>1, <1>2, OpGoesOn
  <1>4. Idle'
    BY <1>1, <1>3 DEF Idle
  <1>5. Kindly' <=> Kindly
    BY <1>3, SameCommandSame
  <1>6. Effect(p, t)
    BY CopyFileEffect, MakesDirEffect, SameEffect DEF PasteFile, PasteDir
  <1>7. CASE ~Kindly
    BY <1>4, <1>5, <1>7, NeverAstrayIff DEF Pasting, NeverAstray, Kindly
  <1>8. CASE Kindly
    <2>1. Pasting /\ Placing(stack) /\ Either
      BY <1>1, <1>8, NeverAstrayIff DEF PInv, Pasting
    <2>2. Either' /\ (op.phase # "final" => Subtree(disk', op.src) \subseteq DOMAIN before)
      BY <1>1, <1>3, <1>6, <1>8, <2>1, EffectKeepsEither
    <2>3. NeverAstray'
      BY <1>3, <2>2, SameCommandSame DEF NeverAstray, Kindly, Either
    <2>4. IsDisk(disk')
      <3>1. IInv'
        BY <1>1, PasteFileKeeps, PasteDirKeeps
      <3>2. QED
        BY <3>1 DEF IInv, DiskOK
    <2>5. CASE \E ok \in BOOLEAN : GoOn(p, ok)
      <3>1. Alike(stack', stack)
        BY <1>1, <2>4, <2>5, GoOnKeeps
      <3>2. PICK g : stack' = g
        OBVIOUS
      <3>3. Placing(g)
        BY <2>1, <3>1, <3>2, AlikePlacing
      <3>4. Pasting'
        BY <1>1, <1>3, <1>8, <2>1, <2>2, <3>2, <3>3, PastingStays
      <3>5. QED
        BY <1>4, <2>3, <3>4
    <2>6. CASE EntryIsDir(p) /\ \E frames \in MayFind(Done(p)) : stack' = Append(frames, f)
      <3>1. PICK frames \in MayFind(Done(p)) : stack' = Append(frames, f)
        BY <2>6
      <3>2. Done(p) \in Seq(Calls) /\ Alike(Done(p), stack) /\ Len(Done(p)) = Len(stack)
        BY <1>1, DoneOK
      <3>3. frames \in Seq(Calls) /\ Alike(frames, Done(p)) /\ Len(frames) = Len(stack)
        BY <2>4, <3>1, <3>2, Found
      <3>4. Placing(frames) /\ Len(frames) > 0
        <4>1. Alike(frames, stack)
          BY <3>2, <3>3, AlikeTransitive
        <4>2. Len(stack) > 0
          BY <1>1, TopOK
        <4>3. QED
          BY <2>1, <3>3, <4>1, <4>2, AlikePlacing
      <3>5. p \in Paths /\ t \in Paths /\ Children(p) \subseteq Paths
            /\ \A q \in Children(p) : Front(q) = p
        BY <1>1, TargetOK, ChildrenOK
      <3>6. f \in Calls /\ f.src = p /\ f.des = t /\ f.todo = Children(p)
        BY <3>5 DEF Frame, Calls, Paths
      <3>7. IsPrefix(Root, p) /\ t = Base \o Within(Root, p)
        BY <1>1, <2>1, EntryPlace
      <3>8. op.phase # "final" => p \in DOMAIN before
        <4> SUFFICES ASSUME op.phase # "final" PROVE p \in DOMAIN before
          OBVIOUS
        <4>1. IsDir(p)
          BY <2>6 DEF EntryIsDir
        <4>2. p \in DOMAIN disk
          BY <3>5, <4>1 DEF IsDir, Paths
        <4>3. Subtree(disk, op.src) \subseteq DOMAIN before /\ Root = op.src
          BY <1>1, <1>8 DEF PInv, Pasting, Root
        <4>4. QED
          BY <3>7, <4>2, <4>3 DEF Subtree
      <3> HIDE DEF f, t
      <3>9. Placing(Append(frames, f))
        BY <3>3, <3>4, <3>5, <3>6, <3>7, <3>8, EnteredPlacing
      <3>10. Pasting'
        BY <1>1, <1>3, <1>8, <2>1, <2>2, <3>1, <3>9, PastingStays
      <3>11. QED
        BY <1>4, <2>3, <3>10
    <2>7. QED
      BY <2>5, <2>6 DEF PasteFile, PasteDir
  <1>9. QED
    BY <1>7, <1>8

\* A step that makes no progress but to return.
LEMMA ReturnPastes ==
  ASSUME PInv, Return
  PROVE  Idle' /\ Pasting' /\ NeverAstray'
  <1>1. /\ DiskOK /\ OpOK /\ stack \in Seq(Calls) /\ stack # <<>> /\ op.phase # "done"
        /\ before' = before
    BY DEF PInv, IInv, Idle, Return
  <1>2. op' = op \/ op' = [op EXCEPT !.result = FALSE]
    BY DEF Return, Leave
  <1>3. SameCommand /\ op'.phase = op.phase
    BY <1>1, <1>2, OpGoesOn
  <1>4. Idle'
    BY <1>1, <1>3 DEF Idle
  <1>5. Kindly' <=> Kindly
    BY <1>3, SameCommandSame
  <1>6. Settles
    BY <1>1, RemovesDirSettles, SameEffect DEF Return, Leave
  <1>7. CASE ~Kindly
    BY <1>4, <1>5, <1>7 DEF Pasting, NeverAstray, Kindly
  <1>8. CASE Kindly
    <2>1. Pasting /\ Placing(stack) /\ Either
      BY <1>1, <1>8, NeverAstrayIff DEF PInv, Pasting
    <2>2. Either'
      BY <1>3, <1>6, <2>1, SettlesKeepsEither
    <2>3. NeverAstray'
      BY <1>3, <2>2, SameCommandSame DEF NeverAstray, Kindly, Either
    <2>4. Subtree(disk', op.src) \subseteq Subtree(disk, op.src)
      BY <1>6 DEF Settles, Subtree
    <2>5. op.phase # "final" => Subtree(disk', op.src) \subseteq DOMAIN before
      BY <1>1, <1>8, <2>1, <2>4 DEF Pasting
    <2>6. stack' = SubSeq(stack, 1, Len(stack) - 1) \/ stack' = <<>>
      BY DEF Return, Leave
    <2>7. Alike(stack', stack)
      BY <1>1, <2>6, Popped, NoneLeft
    <2>8. PICK g : stack' = g
      OBVIOUS
    <2>9. Placing(g)
      BY <2>1, <2>7, <2>8, AlikePlacing
    <2>10. Pasting'
      BY <1>1, <1>3, <1>8, <2>1, <2>5, <2>8, <2>9, PastingStays
    <2>11. QED
      BY <1>4, <2>3, <2>10
  <1>9. QED
    BY <1>7, <1>8

\* The second walk begins: it reads what the first one has made.
LEMMA PasteFinalPastes ==
  ASSUME PInv, PasteFinal
  PROVE  Idle' /\ Pasting' /\ NeverAstray'
  <1> DEFINE f == Frame(op.tmp, op.des, {Append(op.tmp, op.name)})
  <1>1. OpOK /\ op.phase = "tmp" /\ op.kind = "paste" /\ UNCHANGED <<disk, before>>
    BY DEF PInv, IInv, OpOK, PasteFinal
  <1>2. op' = [op EXCEPT !.phase = "final", !.result = TRUE] /\ stack' = <<f>>
    BY DEF PasteFinal
  <1>3. SameCommand /\ op'.phase = "final"
    BY <1>1, <1>2 DEF OpOK, Commands, SameCommand
  <1>4. Idle'
    BY <1>3 DEF Idle
  <1>5. Kindly' <=> Kindly
    BY <1>3, SameCommandSame
  <1>6. CASE ~Kindly
    BY <1>4, <1>5, <1>6 DEF Pasting, NeverAstray, Kindly
  <1>7. CASE Kindly
    <2>1. Pasting /\ Either
      BY <1>7, NeverAstrayIff DEF PInv
    <2>2. Either'
      BY <1>1, <1>3, <2>1, SameEffect, SettlesKeepsEither
    <2>3. NeverAstray'
      BY <1>3, <2>2, SameCommandSame DEF NeverAstray, Kindly, Either
    <2>4. ~op'.move /\ \A q \in DOMAIN before' : ~IsPrefix(Append(op'.tmp, op'.name), q)
      BY <1>1, <1>3, <1>7, <2>1 DEF Pasting, SameCommand
    <2>5. Placing(stack)'
      <3>1. Root' = Append(op.tmp, op.name) /\ Base' = Append(op.des, op.name)
        BY <1>3 DEF Root, Base, SameCommand
      <3>2. f.todo = {Append(op.tmp, op.name)} /\ f.des = op.des
        BY DEF Frame
      <3> HIDE DEF f
      <3>3. DOMAIN stack' = {1} /\ stack'[1] = f
        BY <1>2
      <3>4. QED
        BY <1>3, <3>1, <3>2, <3>3 DEF Placing, SameCommand
    <2>6. Pasting'
      BY <1>3, <2>4, <2>5 DEF Pasting
    <2>7. QED
      BY <1>4, <2>3, <2>6
  <1>8. QED
    BY <1>6, <1>7

LEMMA FinishPastes ==
  ASSUME PInv, Finish
  PROVE  Idle' /\ Pasting' /\ NeverAstray'
  <1>1. DiskOK /\ OpOK /\ before' = before /\ stack' = <<>>
    BY DEF PInv, IInv, Finish
  <1>2. op' = [op EXCEPT !.phase = "done"]
    BY DEF Finish
  <1>3. SameCommand /\ op'.phase = "done"
    BY <1>1, <1>2 DEF OpOK, Commands, SameCommand
  <1>4. Idle' /\ Pasting'
    BY <1>1, <1>3 DEF Idle, Pasting
  <1>5. Kindly' <=> Kindly
    BY <1>3, SameCommandSame
  <1>6. Settles
    BY <1>1, RemovesDirSettles, SameEffect DEF Finish
  <1>7. CASE ~Kindly
    BY <1>4, <1>5, <1>7 DEF NeverAstray, Kindly
  <1>8. CASE Kindly
    <2>1. Either
      BY <1>8, NeverAstrayIff DEF PInv
    <2>2. Either'
      BY <1>3, <1>6, <2>1, SettlesKeepsEither
    <2>3. NeverAstray'
      BY <1>3, <2>2, SameCommandSame DEF NeverAstray, Kindly, Either
    <2>4. QED
      BY <1>4, <2>3
  <1>9. QED
    BY <1>7, <1>8

\* Whatever is no paste is not about one.
LEMMA OthersPaste ==
  ASSUME op'.kind # "paste", op'.phase = "done" => stack' = <<>>
  PROVE  Idle' /\ Pasting' /\ NeverAstray'
  BY DEF Idle, Pasting, NeverAstray, Kindly

LEMMA OncePastes ==
  ASSUME Once
  PROVE  Idle' /\ Pasting' /\ NeverAstray'
  <1>1. op'.kind # "paste" /\ stack' = <<>>
    BY DEF Once, Command
  <1>2. QED
    BY <1>1, OthersPaste

\* What is in a directory is not above it, and is a directory if it is above another.
LEMMA NotWithin ==
  ASSUME IsDisk(disk), NEW src \in Paths, NEW des \in Directories,
         ~IsDir(src) \/ ~IsPrefix(src, des)
  PROVE  ~IsPrefix(src, des)
  <1> SUFFICES ASSUME IsPrefix(src, des), ~IsDir(src) PROVE FALSE
    OBVIOUS
  <1>1. des # <<>>
    <2> SUFFICES ASSUME des = <<>> PROVE FALSE
      OBVIOUS
    <2>1. src \in Seq(Names) /\ <<>> \in Seq(Names) /\ Len(<<>>) = 0
      BY EmptySeq DEF Paths
    <2>2. Len(src) <= 0 /\ Len(src) > 0 /\ Len(src) \in Nat
      BY <2>1, PrefixIff, FrontOf DEF Paths
    <2>3. QED
      BY <2>2
  <1>2. des \in DOMAIN disk /\ disk[des] = Dir
    BY <1>1 DEF Directories
  <1>3. CASE src = des
    BY <1>2, <1>3 DEF IsDir
  <1>4. CASE src # des
    <2>1. src \in DOMAIN disk /\ disk[src] = Dir
      BY <1>2, <1>4, Ancestors
    <2>2. QED
      BY <2>1 DEF IsDir
  <1>5. QED
    BY <1>3, <1>4

\* A walk begins with the one entry it is for.
LEMMA BeginsPlacing ==
  ASSUME NEW src, NEW des, NEW name, NEW move, NEW tmp, NEW to,
         NEW phase \in {"only", "tmp"},
         Begin(Command("paste", src, des, name, move, tmp, phase), Frame(Front(src), to, {src})),
         to = IF phase = "tmp" THEN tmp ELSE des
  PROVE  /\ Placing(stack)' /\ op'.src = src /\ op'.des = des /\ op'.name = name
         /\ op'.move = move /\ op'.tmp = tmp /\ op'.phase = phase /\ op'.kind = "paste"
         /\ before' = disk /\ Root' = src /\ Base' = Append(to, name)
  <1> DEFINE f == Frame(Front(src), to, {src})
  <1>1. /\ op'.src = src /\ op'.des = des /\ op'.name = name /\ op'.move = move
        /\ op'.tmp = tmp /\ op'.phase = phase /\ op'.kind = "paste"
        /\ before' = disk /\ stack' = <<f>>
    BY DEF Begin, Command
  <1>2. Root' = src /\ Base' = Append(to, name)
    BY <1>1 DEF Root, Base
  <1>3. f.todo = {src} /\ f.des = to
    BY DEF Frame
  <1> HIDE DEF f
  <1>4. DOMAIN stack' = {1} /\ stack'[1] = f
    BY <1>1
  <1>5. Placing(stack)'
    BY <1>1, <1>2, <1>3, <1>4 DEF Placing
  <1>6. QED
    BY <1>1, <1>2, <1>5

\* A paste without a temporary directory.
LEMMA DirectlyPastes ==
  ASSUME IsDisk(disk), NEW src \in Paths, NEW des \in Directories, NEW name \in Names,
         NEW move \in BOOLEAN, ~IsDir(src) \/ ~IsPrefix(src, des), UNCHANGED disk,
         Begin(Command("paste", src, des, name, move, <<>>, "only"),
               Frame(Front(src), des, {src}))
  PROVE  Idle' /\ Pasting' /\ NeverAstray'
  <1> DEFINE target == Append(des, name)
  <1>1. /\ Placing(stack)' /\ op'.src = src /\ op'.des = des /\ op'.name = name
        /\ op'.phase = "only" /\ op'.kind = "paste"
        /\ before' = disk /\ Base' = target
    BY BeginsPlacing
  <1>2. ~IsPrefix(src, des)
    BY NotWithin
  <1>3. /\ des \in Seq(Names) /\ src \in Seq(Names)
        /\ target \in Seq(Names) /\ target \in Seq(Names) \ {<<>>} /\ Front(target) = des
    BY DirectoriesOK, NameIn DEF Paths
  <1> HIDE DEF target
  <1>4. IsPrefix(src, target) => src = target
    BY <1>2, <1>3, PrefixOfFront
  <1>5. Kindly' => Apart(src, target)
    <2>1. Kindly' => ~IsPrefix(target, src)
      BY <1>1 DEF Kindly, OverAncestor, target
    <2>2. IsPrefix(src, src)
      BY <1>3, PrefixSelf
    <2>3. QED
      BY <1>4, <2>1, <2>2 DEF Apart
  <1>6. Pasting'
    BY <1>1, <1>5 DEF Pasting, Subtree
  <1>7. NeverAstray'
    BY <1>1 DEF NeverAstray
  <1>8. QED
    BY <1>1, <1>6, <1>7 DEF Idle

\* A paste by way of a temporary directory.
LEMMA ByTheWayPastes ==
  ASSUME IsDisk(disk), NEW src \in Paths, IsDir(src), NEW des \in Directories,
         NEW n \in TmpNames, NEW tmp, tmp = Append(Front(src), n), ~IsDir(tmp),
         MakesDir(tmp) \/ MakesNoDir(tmp),
         Begin(Command("paste", src, des, Last(src), FALSE, tmp, "tmp"),
               Frame(Front(src), tmp, {src}))
  PROVE  Idle' /\ Pasting' /\ NeverAstray'
  <1> DEFINE name == Last(src)
             target == Append(tmp, name)
  <1>1. /\ Placing(stack)' /\ op'.src = src /\ op'.des = des /\ op'.name = name
        /\ op'.tmp = tmp /\ op'.move = FALSE
        /\ op'.phase = "tmp" /\ op'.kind = "paste"
        /\ before' = disk /\ Base' = target
    <2>1. PICK move, to, phase : move = FALSE /\ to = tmp /\ phase = "tmp"
      OBVIOUS
    <2>2. /\ Begin(Command("paste", src, des, name, move, tmp, phase), Frame(Front(src), to, {src}))
          /\ to = IF phase = "tmp" THEN tmp ELSE des
          /\ phase \in {"only", "tmp"}
      BY <2>1
    <2> HIDE DEF name, target
    <2>3. /\ Placing(stack)' /\ op'.src = src /\ op'.des = des /\ op'.name = name
          /\ op'.tmp = tmp /\ op'.move = move
          /\ op'.phase = phase /\ op'.kind = "paste"
          /\ before' = disk /\ Base' = Append(to, name)
      BY ONLY <2>2, BeginsPlacing, ZenonT(30)
    <2>4. QED
      BY <2>1, <2>3 DEF target
  <1>2. /\ n \in Names /\ name \in Names /\ src \in Seq(Names) /\ Front(src) \in Seq(Names)
        /\ Len(src) \in Nat /\ Len(Front(src)) = Len(src) - 1
    BY FilesAssumption, FrontOf DEF Paths
  <1>3. tmp \in Seq(Names) /\ tmp \in Paths /\ Len(tmp) = Len(src)
    BY <1>2, NameIn DEF Paths
  <1> HIDE DEF name
  <1>4. /\ target \in Seq(Names) /\ target \in Paths /\ Len(target) = Len(src) + 1
        /\ Front(target) = tmp
    BY <1>2, <1>3, NameIn DEF Paths
  <1> HIDE DEF target
  <1>5. ~IsPrefix(src, tmp)
    <2> SUFFICES ASSUME IsPrefix(src, tmp) PROVE FALSE
      OBVIOUS
    <2>1. Len(src) = Len(tmp) /\ \A i \in 1..Len(src) : src[i] = tmp[i]
      BY <1>2, <1>3, PrefixIff
    <2>2. src = tmp
      BY <1>2, <1>3, <2>1, PathsEqual
    <2>3. QED
      BY <2>2
  <1>6. Apart(src, target)
    <2>1. ~IsPrefix(target, src)
      BY <1>2, <1>4, PrefixIff
    <2>2. ~IsPrefix(src, target)
      <3>1. src # target
        BY <1>2, <1>4
      <3>2. QED
        BY <1>2, <1>4, <1>5, <3>1, PrefixOfFront DEF Paths
    <2>3. QED
      BY <2>1, <2>2 DEF Apart
  <1>7. ASSUME NEW q \in DOMAIN disk PROVE ~IsPrefix(target, q)
    <2> SUFFICES ASSUME IsPrefix(target, q) PROVE FALSE
      OBVIOUS
    <2>1. q \in Paths /\ q \in Seq(Names)
      BY OnDisk DEF Paths
    <2>2. IsPrefix(tmp, target) /\ tmp # target
      <3>1. IsPrefix(tmp, tmp)
        BY <1>3, PrefixSelf
      <3>2. QED
        BY <1>3, <1>4, <3>1, PrefixOfFront DEF Paths
    <2>3. IsPrefix(tmp, q)
      BY <1>3, <1>4, <2>1, <2>2, PrefixTransitive
    <2>4. tmp # q
      <3>1. Len(target) <= Len(q)
        BY <1>4, <2>1, PrefixIff
      <3>2. QED
        BY <1>2, <1>3, <1>4, <3>1
    <2>5. tmp \in DOMAIN disk /\ disk[tmp] = Dir
      BY <1>3, <2>3, <2>4, Ancestors
    <2>6. QED
      BY <2>5 DEF IsDir
  <1>8. \A q \in DOMAIN disk' : q \in DOMAIN disk \/ q = tmp
    BY MakesDirEffect DEF Effect
  <1>9. Subtree(disk', src) \subseteq DOMAIN disk
    BY <1>5, <1>8 DEF Subtree
  <1>10. Pasting'
    BY <1>1, <1>6, <1>7, <1>9 DEF Pasting, target
  <1>11. \A q \in DOMAIN disk : q \in DOMAIN disk' /\ disk'[q] = disk[q]
    BY DEF MakesDir, MakesNoDir, Free, With
  <1>12. NeverAstray'
    BY <1>1, <1>11 DEF NeverAstray
  <1>13. QED
    BY <1>1, <1>10, <1>12 DEF Idle

LEMMA PasteDirOrFilePastes ==
  ASSUME IsDisk(disk), NEW src \in Paths, NEW des \in Directories, NEW move \in BOOLEAN,
         PasteDirOrFile(src, des, move)
  PROVE  Idle' /\ Pasting' /\ NeverAstray'
  <1>1. Last(src) \in Names
    BY FrontOf DEF Paths
  <1>2. CASE ~IsDir(src)
    <2>1. PICK name \in IF des = Front(src)
                        THEN {n \in CopyNames : ~IsFile(Append(des, n))} ELSE {Last(src)} :
            /\ Begin(Command("paste", src, des, name, move, <<>>, "only"),
                     Frame(Front(src), des, {src}))
            /\ UNCHANGED <<disk, failures>>
      BY <1>2 DEF PasteDirOrFile
    <2>2. name \in Names
      BY <1>1, <2>1, FilesAssumption
    <2>3. QED
      BY <1>2, <2>1, <2>2, DirectlyPastes
  <1>3. CASE Once
    BY <1>3, OncePastes
  <1>4. CASE /\ ~IsPrefix(src, des)
             /\ Begin(Command("paste", src, des, Last(src), move, <<>>, "only"),
                      Frame(Front(src), des, {src}))
             /\ UNCHANGED <<disk, failures>>
    BY <1>1, <1>4, DirectlyPastes
  <1>5. ASSUME IsDir(src), NEW n \in TmpNames, NEW tmp, tmp = Append(Front(src), n), ~IsDir(tmp),
               MakesDir(tmp) \/ MakesNoDir(tmp),
               Begin(Command("paste", src, des, Last(src), FALSE, tmp, "tmp"),
                     Frame(Front(src), tmp, {src}))
        PROVE  Idle' /\ Pasting' /\ NeverAstray'
    BY <1>5, ByTheWayPastes
  <1>6. QED
    BY <1>2, <1>3, <1>4, <1>5 DEF PasteDirOrFile

LEMMA UserCommandPastes ==
  ASSUME IInv, UserCommand
  PROVE  Idle' /\ Pasting' /\ NeverAstray'
  <1>1. IsDisk(disk) /\ ClipOK
    BY DEF IInv, DiskOK
  <1>2. ASSUME NEW p \in DOMAIN disk, NEW move \in BOOLEAN, CutOrCopy(p, move)
        PROVE  Idle' /\ Pasting' /\ NeverAstray'
    BY <1>2, OncePastes DEF CutOrCopy
  <1>3. ASSUME NEW p \in DOMAIN disk, NEW move \in BOOLEAN, NEW des \in Directories,
               PasteTo(p, des, move)
        PROVE  Idle' /\ Pasting' /\ NeverAstray'
    BY <1>1, <1>3, OnDisk, PasteDirOrFilePastes DEF PasteTo
  <1>4. ASSUME NEW p \in DOMAIN disk, Delete(p) PROVE Idle' /\ Pasting' /\ NeverAstray'
    <2>1. op'.kind # "paste" /\ op'.phase # "done"
      BY <1>4 DEF Delete, Command
    <2>2. QED
      BY <2>1, OthersPaste
  <1>5. ASSUME NEW p \in DOMAIN disk, NEW n \in TypedNames, Rename(p, n)
        PROVE  Idle' /\ Pasting' /\ NeverAstray'
    BY <1>5, OncePastes DEF Rename
  <1>6. ASSUME NEW des \in Directories, Paste(des) PROVE Idle' /\ Pasting' /\ NeverAstray'
    <2>1. clip.path \in Paths /\ clip.move \in BOOLEAN
      BY <1>1, <1>6 DEF ClipOK, Paths, Paste
    <2>2. QED
      BY <1>1, <1>6, <2>1, PasteDirOrFilePastes DEF Paste
  <1>7. ASSUME NEW p, MakeDir(p) PROVE Idle' /\ Pasting' /\ NeverAstray'
    BY <1>7, OncePastes DEF MakeDir
  <1>8. QED
    BY <1>2, <1>3, <1>4, <1>5, <1>6, <1>7 DEF UserCommand

LEMMA PastesInit == Init => PInv
  <1> SUFFICES ASSUME Init PROVE PInv
    OBVIOUS
  <1>1. op.kind # "paste" /\ stack = <<>>
    BY DEF Init, Command
  <1>2. QED
    BY <1>1, InitInvariant DEF PInv, Idle, Pasting, NeverAstray, Kindly

LEMMA PastesNext == PInv /\ [Next]_vars => PInv'
  <1> SUFFICES ASSUME PInv, [Next]_vars PROVE PInv'
    OBVIOUS
  <1>1. IInv /\ IInv'
    BY NextInvariant DEF PInv
  <1>2. CASE UserCommand
    BY <1>1, <1>2, UserCommandPastes DEF PInv
  <1>3. CASE Walk
    <2>1. /\ stack # <<>> /\ UNCHANGED <<clip, before, given, left>>
          /\ \E p \in Top.todo : \/ (op.kind = "paste" /\ (PasteFile(p) \/ PasteDir(p)))
                                \/ (op.kind = "delete" /\ DeleteEntry(p))
      BY <1>3 DEF Walk
    <2>2. CASE op.kind = "paste"
      BY <1>1, <2>1, <2>2, WalkPastes DEF PInv
    <2>3. CASE op.kind = "delete"
      <3>1. op' = op \/ op' = [op EXCEPT !.result = FALSE]
        BY <2>1, <2>3 DEF DeleteEntry, GoOn
      <3>2. SameCommand /\ op'.phase = op.phase
        BY <1>1, <2>1, <3>1, OpGoesOn DEF IInv
      <3>3. op'.kind # "paste" /\ op'.phase # "done"
        BY <2>1, <2>3, <3>2 DEF SameCommand, PInv, Idle
      <3>4. QED
        BY <1>1, <3>3, OthersPaste DEF PInv
    <2>4. QED
      BY <2>1, <2>2, <2>3
  <1>4. CASE Return
    BY <1>1, <1>4, ReturnPastes DEF PInv
  <1>5. CASE PasteFinal
    BY <1>1, <1>5, PasteFinalPastes DEF PInv
  <1>6. CASE Finish
    BY <1>1, <1>6, FinishPastes DEF PInv
  <1>7. CASE UNCHANGED vars
    <2>1. Idle' /\ Pasting' /\ NeverAstray'
      BY <1>7 DEF vars, PInv, Idle, Pasting, Kindly, OverAncestor, Placing, Root, Base,
                  Subtree, NeverAstray, Pasted, Place
    <2>2. QED
      BY <1>1, <2>1 DEF PInv
  <1>8. QED
    BY <1>2, <1>3, <1>4, <1>5, <1>6, <1>7 DEF Next

LEMMA PastesAlways == Spec => []PInv
  BY PastesInit, PastesNext, PTL DEF Spec

\* Whatever fails and however the user answers, each file is where it was or where it
\* belongs (PasteDirOrFile, CopyDir, CopyFile).
THEOREM FilesNeverAstray == Spec => []NeverAstray
  <1>1. PInv => NeverAstray
    BY DEF PInv
  <1>2. QED
    BY <1>1, PastesAlways, PTL

\* A walk reads what was there before it began, and never what it has made itself
\* (PasteDirOrFile, CopyDir).
THEOREM WalksEnd == Spec => []ReadsWhatWasThere
  <1>1. PInv => ReadsWhatWasThere
    <2> SUFFICES ASSUME PInv, Kindly, NEW i \in 2..Len(stack)
                 PROVE  \/ stack[i].src \in DOMAIN before
                        \/ op.phase = "final" /\ IsPrefix(op.tmp, stack[i].src)
      BY DEF ReadsWhatWasThere, Kindly
    <2>1. stack \in Seq(Calls) /\ OpOK /\ op.kind = "paste"
      BY DEF PInv, IInv, Kindly
    <2>2. Len(stack) \in Nat /\ DOMAIN stack = 1..Len(stack)
      BY <2>1, LenProperties
    <2>3. i \in DOMAIN stack /\ i # 1
      BY <2>2
    <2>4. op.phase # "done"
      <3> SUFFICES ASSUME stack = <<>> PROVE FALSE
        BY DEF PInv, Idle
      <3>1. Len(stack) = 0
        OBVIOUS
      <3>2. QED
        BY <2>2, <2>3, <3>1
    <2>5. IsPrefix(Root, stack[i].src) /\ (op.phase # "final" => stack[i].src \in DOMAIN before)
      BY <2>3, <2>4 DEF PInv, Pasting, Placing
    <2>6. ASSUME op.phase = "final" PROVE IsPrefix(op.tmp, stack[i].src)
      <3>1. op.tmp \in Seq(Names) /\ op.name \in Names /\ Root = Append(op.tmp, op.name)
        BY <2>1, <2>6, RootAndBase DEF Root
      <3>2. Root \in Seq(Names) /\ Root \in Seq(Names) \ {<<>>} /\ Front(Root) = op.tmp
        BY <3>1, NameIn
      <3>3. IsPrefix(op.tmp, Root)
        <4>1. IsPrefix(op.tmp, Front(Root))
          BY <3>1, <3>2, PrefixSelf
        <4>2. QED
          BY <3>1, <3>2, <4>1, PrefixOfFront
      <3>4. stack[i].src \in Seq(Names)
        <4>1. stack[i] \in Calls
          BY <2>1, <2>2, <2>3, ElementOfSeq
        <4>2. QED
          BY <4>1 DEF Calls
      <3>5. QED
        BY <2>5, <3>1, <3>2, <3>3, <3>4, PrefixTransitive
    <2>7. QED
      BY <2>5, <2>6
  <1>2. QED
    BY <1>1, PastesAlways, PTL

-----------------------------------------------------------------------------
(* How far a paste has come as long as nobody was asked anything.          *)

\* Where the walk finds what was at q, and puts it.
Source(q) == Root \o Within(op.src, q)
Goal(q)   == Base \o Within(op.src, q)

Pending(frames, q) ==
  \E i \in DOMAIN frames : \E p \in frames[i].todo : IsPrefix(p, Source(q))
Begun(frames, q) == \E i \in DOMAIN frames : i # 1 /\ frames[i].src = Source(q)

\* What was at q is still where it was, in the walk.
Stays(frames, q) == ~Moving \/ Pending(frames, q) \/ Begun(frames, q)

\* Each call is in a directory of the one before, which it has no more to do with.
Deeper(frames) ==
  \A i \in DOMAIN frames : i # 1 =>
    /\ Len(frames[i].src) = Len(Root) + i - 2
    /\ \A j \in DOMAIN frames : \A p \in frames[j].todo : ~IsPrefix(p, frames[i].src)

\* All of the tree is where it was or where it belongs, and nothing else has changed.
Listed(frames) ==
  {Goal(q) : q \in {x \in Pasted : ~Pending(frames, x)}}
    \cup {Source(q) : q \in {x \in Pasted : Stays(frames, x)}}
    \cup (DOMAIN before \ (IF op.move THEN Pasted ELSE {}))

Progress(frames, d) ==
  /\ frames # <<>> /\ Deeper(frames)
  /\ \A q \in Pasted :
       IF Pending(frames, q) THEN Source(q) \in DOMAIN d /\ d[Source(q)] = before[q]
                             ELSE Goal(q) \in DOMAIN d /\ d[Goal(q)] = before[q]
  /\ DOMAIN d \ {op.tmp} = Listed(frames) \ {op.tmp}
  /\ op.phase # "only" /\ ~Pending(frames, op.src) => op.tmp \notin DOMAIN before

\* What a temporary directory is for.
Detour ==
  IF op.phase = "only" THEN op.tmp = <<>>
  ELSE /\ op.src \in DOMAIN before /\ before[op.src] = Dir /\ IsPrefix(op.src, op.des)
       /\ Apart(op.src, op.tmp) /\ (op.tmp \in DOMAIN before => before[op.tmp] # Dir)

Telling ==
  Kindly /\ op.phase # "done" => Detour /\ (~asked => Progress(stack, disk))

\* A paste that goes on, and was not asked about.
Going ==
  /\ PInv /\ Kindly /\ op.phase # "done" /\ stack \in Seq(Calls)
  /\ Detour /\ Progress(stack, disk)

LEMMA GoingOK ==
  ASSUME Going
  PROVE  /\ op.kind = "paste" /\ op.phase \in {"only", "tmp", "final"} /\ op.move \in BOOLEAN
         /\ Root \in Seq(Names) /\ Base \in Seq(Names) /\ Base # <<>>
         /\ op.src \in Seq(Names) /\ op.des \in Seq(Names) /\ op.tmp \in Seq(Names)
         /\ op.name \in Names /\ Append(op.tmp, op.name) \in Seq(Names)
         /\ IsDisk(disk) /\ IsDisk(before) /\ OpOK /\ IInv
         /\ Placing(stack) /\ Deeper(stack) /\ stack # <<>> /\ Either
         /\ op.phase # "final" => Apart(op.src, Base) /\ Subtree(disk, op.src) \subseteq DOMAIN before
         /\ op.phase # "only" =>
              ~op.move /\ \A q \in DOMAIN before : ~IsPrefix(Append(op.tmp, op.name), q)
  <1>1. op.kind = "paste" /\ OpOK /\ IInv /\ IsDisk(disk) /\ IsDisk(before)
    BY DEF Going, Kindly, PInv, IInv, DiskOK
  <1>2. /\ Root \in Seq(Names) /\ Base \in Seq(Names)
        /\ op.src \in Seq(Names) /\ op.des \in Seq(Names) /\ op.tmp \in Seq(Names)
        /\ op.name \in Names /\ Append(op.tmp, op.name) \in Seq(Names)
        /\ op.phase \in {"only", "tmp", "final", "done"} /\ op.move \in BOOLEAN
    BY <1>1, RootAndBase
  <1>3. op.phase \in {"only", "tmp", "final"}
    BY <1>2 DEF Going
  <1>4. Base # <<>>
    <2>1. Append(op.tmp, op.name) # <<>> /\ Append(op.des, op.name) # <<>>
      BY <1>2, NameIn
    <2>2. QED
      BY <2>1 DEF Base
  <1>5. /\ Placing(stack)
        /\ op.phase # "final" => Apart(op.src, Base) /\ Subtree(disk, op.src) \subseteq DOMAIN before
        /\ op.phase # "only" =>
             ~op.move /\ \A q \in DOMAIN before : ~IsPrefix(Append(op.tmp, op.name), q)
    BY DEF Going, PInv, Pasting
  <1>6. Deeper(stack) /\ stack # <<>> /\ Either
    BY NeverAstrayIff DEF Going, PInv, Progress
  <1>7. QED
    BY <1>1, <1>2, <1>3, <1>4, <1>5, <1>6

\* What was there, where the walk finds it, and where it puts it.
LEMMA Places ==
  ASSUME Going, NEW q \in Pasted
  PROVE  /\ q \in Paths /\ q \in DOMAIN before /\ IsPrefix(op.src, q)
         /\ Within(op.src, q) \in Seq(Names) /\ op.src \o Within(op.src, q) = q
         /\ Source(q) \in Seq(Names) /\ IsPrefix(Root, Source(q))
         /\ Goal(q) \in Seq(Names) /\ IsPrefix(Base, Goal(q))
         /\ Within(Root, Source(q)) = Within(op.src, q)
         /\ Within(Base, Goal(q)) = Within(op.src, q)
         /\ op.phase # "final" => Source(q) = q
  <1>1. /\ op.src \in Seq(Names) /\ Root \in Seq(Names) /\ Base \in Seq(Names) /\ IsDisk(before)
    BY GoingOK
  <1>2. q \in DOMAIN before /\ IsPrefix(op.src, q) /\ q \in Paths /\ q \in Seq(Names)
    BY <1>1, OnDisk DEF Pasted, Subtree, Paths
  <1>3. Within(op.src, q) \in Seq(Names) /\ op.src \o Within(op.src, q) = q
    BY <1>1, <1>2, WithinOf
  <1>4. /\ Source(q) \in Seq(Names) /\ IsPrefix(Root, Source(q))
        /\ Within(Root, Source(q)) = Within(op.src, q)
    BY <1>1, <1>3, Under DEF Source
  <1>5. /\ Goal(q) \in Seq(Names) /\ IsPrefix(Base, Goal(q))
        /\ Within(Base, Goal(q)) = Within(op.src, q)
    BY <1>1, <1>3, Under DEF Goal
  <1>6. op.phase # "final" => Source(q) = q
    BY <1>3 DEF Source, Root
  <1>7. QED
    BY <1>2, <1>3, <1>4, <1>5, <1>6

LEMMA Distinct ==
  ASSUME Going, NEW q \in Pasted, NEW x \in Pasted, q # x
  PROVE  Source(q) # Source(x) /\ Goal(q) # Goal(x)
  <1>1. /\ Within(Root, Source(q)) = Within(op.src, q)
        /\ Within(Base, Goal(q)) = Within(op.src, q)
        /\ op.src \o Within(op.src, q) = q
    BY Places
  <1>2. /\ Within(Root, Source(x)) = Within(op.src, x)
        /\ Within(Base, Goal(x)) = Within(op.src, x)
        /\ op.src \o Within(op.src, x) = x
    BY Places
  <1>3. QED
    BY <1>1, <1>2

\* The walk never reads where it puts something.
LEMMA TreesApart ==
  ASSUME Going
  PROVE  Apart(Root, Base)
  <1>1. /\ op.phase \in {"only", "tmp", "final"}
        /\ op.phase # "final" => Apart(op.src, Base)
        /\ op.src \in Seq(Names) /\ op.des \in Seq(Names) /\ op.tmp \in Seq(Names)
        /\ op.name \in Names /\ Root \in Seq(Names) /\ Base \in Seq(Names)
    BY GoingOK
  <1>2. CASE op.phase # "final"
    BY <1>1, <1>2 DEF Root
  <1>3. CASE op.phase = "final"
    <2>1. Root = Append(op.tmp, op.name) /\ Base = Append(op.des, op.name)
      BY <1>3 DEF Root, Base
    <2>2. IsPrefix(op.src, op.des) /\ Apart(op.src, op.tmp)
      BY <1>3 DEF Going, Detour
    <2>3. /\ Root \in Seq(Names) \ {<<>>} /\ Front(Root) = op.tmp
          /\ Base \in Seq(Names) \ {<<>>} /\ Front(Base) = op.des
      BY <1>1, <2>1, NameIn
    <2>4. IsPrefix(op.tmp, Front(Root)) /\ IsPrefix(op.src, Front(Base))
      BY <1>1, <2>2, <2>3, PrefixSelf
    <2>5. IsPrefix(op.tmp, Root) /\ IsPrefix(op.src, Base)
      BY <1>1, <2>3, <2>4, PrefixOfFront
    <2>6. ~IsPrefix(Root, Base)
      BY <1>1, <2>2, <2>5, PrefixTransitive, Comparable
    <2>7. ~IsPrefix(Base, Root)
      BY <1>1, <2>2, <2>5, PrefixTransitive, Comparable
    <2>8. QED
      BY <2>6, <2>7 DEF Apart
  <1>4. QED
    BY <1>2, <1>3

LEMMA NotBoth ==
  ASSUME Going, NEW y \in Seq(Names)
  PROVE  ~(IsPrefix(Root, y) /\ IsPrefix(Base, y))
  <1>1. Apart(Root, Base) /\ Root \in Seq(Names) /\ Base \in Seq(Names)
    BY TreesApart, GoingOK
  <1>2. QED
    BY <1>1, Comparable

\* The temporary directory is in neither tree.
LEMMA NotTmp ==
  ASSUME Going, NEW y \in Paths, IsPrefix(Root, y) \/ IsPrefix(Base, y)
  PROVE  y # op.tmp
  <1> SUFFICES ASSUME y = op.tmp PROVE FALSE
    OBVIOUS
  <1>1. /\ op.phase \in {"only", "tmp", "final"}
        /\ op.src \in Seq(Names) /\ op.des \in Seq(Names) /\ op.tmp \in Seq(Names)
        /\ op.name \in Names /\ Root \in Seq(Names) /\ Base \in Seq(Names)
    BY GoingOK
  <1>2. op.phase # "only"
    BY DEF Going, Detour, Paths
  <1>3. Apart(op.src, op.tmp) /\ IsPrefix(op.src, op.des)
    BY <1>2 DEF Going, Detour
  <1> DEFINE longer == Append(op.tmp, op.name)
             target == Append(op.des, op.name)
  <1>4. ~IsPrefix(longer, op.tmp)
    <2>1. longer \in Seq(Names) /\ Len(longer) = Len(op.tmp) + 1 /\ Len(op.tmp) \in Nat
      BY <1>1, NameIn, LenProperties
    <2> HIDE DEF longer
    <2>2. QED
      BY <1>1, <2>1, PrefixIff
  <1>5. ~IsPrefix(target, op.tmp)
    <2>1. target \in Seq(Names) /\ target \in Seq(Names) \ {<<>>} /\ Front(target) = op.des
      BY <1>1, NameIn
    <2> HIDE DEF target
    <2>2. IsPrefix(op.src, Front(target))
      BY <1>3, <2>1
    <2>3. IsPrefix(op.src, target)
      BY <1>1, <2>1, <2>2, PrefixOfFront
    <2>4. QED
      BY <1>1, <1>3, <2>1, <2>3, PrefixTransitive DEF Apart
  <1>6. CASE op.phase = "tmp"
    <2>1. Root = op.src /\ Base = longer
      BY <1>6 DEF Root, Base
    <2>2. QED
      BY <1>3, <1>4, <2>1 DEF Apart
  <1>7. CASE op.phase = "final"
    <2>1. Root = longer /\ Base = target
      BY <1>7 DEF Root, Base
    <2>2. QED
      BY <1>4, <1>5, <2>1
  <1>8. QED
    BY <1>1, <1>2, <1>6, <1>7

\* Whatever is found in the tree that is read was there before.
LEMMA Known ==
  ASSUME Going, NEW p \in DOMAIN disk, IsPrefix(Root, p)
  PROVE  p # op.tmp /\ \E x \in Pasted : Source(x) = p /\ Goal(x) = Base \o Within(Root, p)
  <1>1. p \in Paths /\ p \in Seq(Names) /\ op.src \in Seq(Names)
    BY GoingOK, OnDisk DEF Paths
  <1>2. p # op.tmp
    BY <1>1, NotTmp
  <1>3. CASE op.phase # "final"
    <2>1. Root = op.src /\ p \in Pasted
      BY <1>3, GoingOK DEF Root, Pasted, Subtree
    <2>2. Source(p) = p /\ Goal(p) = Base \o Within(Root, p)
      BY <1>3, <2>1, Places DEF Goal
    <2>3. QED
      BY <1>2, <2>1, <2>2
  <1>4. CASE op.phase = "final"
    <2>1. p \in Listed(stack)
      BY <1>2 DEF Going, Progress
    <2>2. p \notin DOMAIN before
      BY <1>4, GoingOK DEF Root
    <2>3. ASSUME NEW q \in Pasted PROVE p # Goal(q)
      <3>1. IsPrefix(Base, Goal(q))
        BY Places
      <3>2. QED
        BY <1>1, <3>1, NotBoth
    <2>4. PICK x \in Pasted : p = Source(x)
      BY <2>1, <2>2, <2>3 DEF Listed
    <2>5. Within(Root, p) = Within(op.src, x)
      BY <2>4, Places
    <2>6. QED
      BY <1>2, <2>4, <2>5 DEF Goal
  <1>5. QED
    BY <1>3, <1>4

-----------------------------------------------------------------------------
(* The entries of the calls.                                               *)

LEMMA EntryIs ==
  ASSUME Going, NEW i \in DOMAIN stack, NEW p \in stack[i].todo
  PROVE  /\ i \in Nat /\ i > 0 /\ p \in Paths /\ p \in Seq(Names)
         /\ Len(p) = Len(Root) + i - 1 /\ Len(Root) \in Nat
         /\ i # 1 => Front(p) = stack[i].src
         /\ i = 1 => p = Root
         /\ IsPrefix(Root, p)
  <1>1. /\ stack \in Seq(Calls) /\ Placing(stack) /\ Deeper(stack) /\ Root \in Seq(Names)
        /\ Len(stack) \in Nat /\ DOMAIN stack = 1..Len(stack)
    BY GoingOK, LenProperties DEF Going
  <1>2. i \in 1..Len(stack) /\ stack[i] \in Calls
    BY <1>1, ElementOfSeq
  <1>3. p \in Paths /\ p \in Seq(Names)
    BY <1>2 DEF Calls, Paths
  <1>4. i \in Nat /\ i > 0 /\ Len(Root) \in Nat
    BY <1>1, <1>2, LenProperties
  <1>5. CASE i = 1
    <2>1. p = Root
      BY <1>1, <1>5 DEF Placing
    <2>2. Len(p) = Len(Root) + i - 1
      BY <1>4, <1>5, <2>1
    <2>3. QED
      BY <1>1, <1>3, <1>4, <1>5, <2>1, <2>2, PrefixSelf
  <1>6. CASE i # 1
    <2>1. Front(p) = stack[i].src /\ IsPrefix(Root, stack[i].src)
      BY <1>1, <1>6 DEF Placing
    <2>2. Len(stack[i].src) = Len(Root) + i - 2
      BY <1>1, <1>6 DEF Deeper
    <2>3. Len(p) \in Nat /\ Len(Front(p)) = Len(p) - 1
      BY <1>3, FrontOf DEF Paths
    <2>4. Len(p) = Len(Root) + i - 1
      BY <1>4, <2>1, <2>2, <2>3
    <2>5. IsPrefix(Root, p)
      BY <1>1, <1>3, <2>1, PrefixOfFront DEF Paths
    <2>6. QED
      BY <1>3, <1>4, <1>6, <2>1, <2>4, <2>5
  <1>7. QED
    BY <1>5, <1>6

\* No entry is within another one.
LEMMA Unrelated ==
  ASSUME Going, NEW i \in DOMAIN stack, NEW p \in stack[i].todo,
         NEW j \in DOMAIN stack, NEW r \in stack[j].todo, IsPrefix(r, p)
  PROVE  r = p /\ i = j
  <1>1. /\ i \in Nat /\ i > 0 /\ p \in Paths /\ p \in Seq(Names)
        /\ Len(p) = Len(Root) + i - 1 /\ Len(Root) \in Nat
        /\ i # 1 => Front(p) = stack[i].src
    BY EntryIs
  <1>2. /\ j \in Nat /\ j > 0 /\ r \in Paths /\ r \in Seq(Names)
        /\ Len(r) = Len(Root) + j - 1
    BY EntryIs
  <1>3. r = p
    <2> SUFFICES ASSUME r # p PROVE FALSE
      OBVIOUS
    <2>1. IsPrefix(r, Front(p))
      BY <1>1, <1>2, PrefixOfFront DEF Paths
    <2>2. i # 1
      <3>1. Len(Front(p)) = Len(p) - 1 /\ Front(p) \in Seq(Names)
        BY <1>1, FrontOf DEF Paths
      <3>2. Len(r) <= Len(Front(p))
        BY <1>2, <2>1, <3>1, PrefixIff
      <3>3. QED
        BY <1>1, <1>2, <3>1, <3>2
    <2>3. ~IsPrefix(r, stack[i].src)
      BY <2>2, GoingOK DEF Deeper
    <2>4. QED
      BY <1>1, <2>1, <2>2, <2>3
  <1>4. i = j
    <2>1. Len(Root) + i - 1 = Len(Root) + j - 1
      BY <1>1, <1>2, <1>3
    <2>2. QED
      BY <1>1, <1>2, <2>1
  <1>5. QED
    BY <1>3, <1>4

\* One entry less for the newest call.
Less(frames, p) ==
  /\ frames \in Seq(Calls) /\ DOMAIN frames = DOMAIN stack /\ Len(frames) = Len(stack)
  /\ \A i \in DOMAIN stack :
       frames[i].src = stack[i].src /\ frames[i].todo = stack[i].todo \ {p}

\* wxDir::GetNext finds nothing new.
LEMMA FoundLess ==
  ASSUME Going, IsDisk(disk'), NEW p \in Top.todo, NEW t \in Paths, IsPrefix(Base, t),
         Effect(p, t), NEW g \in MayFind(Done(p))
  PROVE  Less(g, p)
  <1>1. /\ stack \in Seq(Calls) /\ stack # <<>> /\ Placing(stack)
        /\ Len(stack) \in Nat /\ DOMAIN stack = 1..Len(stack) /\ Len(stack) > 0
        /\ Top = stack[Len(stack)]
    BY GoingOK, TopOK DEF Going
  <1>2. Len(stack) \in DOMAIN stack
    BY <1>1
  <1>3. /\ Done(p) \in Seq(Calls) /\ Fewer(Done(p), stack) /\ Alike(Done(p), stack)
        /\ Len(Done(p)) = Len(stack)
        /\ \A i \in DOMAIN stack : stack[i].todo \ {p} \subseteq Done(p)[i].todo
        /\ p \notin Done(p)[Len(stack)].todo
    BY <1>1, DoneOK
  <1>4. /\ g \in Seq(Calls) /\ Alike(g, Done(p)) /\ Len(g) = Len(Done(p))
        /\ \A i \in DOMAIN Done(p) :
             /\ Done(p)[i].todo \subseteq g[i].todo
             /\ \A q \in g[i].todo :
                  \/ q \in Done(p)[i].todo
                  \/ i # 1 /\ Front(q) = Done(p)[i].src /\ q \in DOMAIN disk' \ DOMAIN disk
    BY <1>3, Found
  <1>5. DOMAIN Done(p) = DOMAIN stack /\ DOMAIN g = DOMAIN stack
    BY <1>1, <1>3, <1>4, LenProperties
  <1>6. ASSUME NEW i \in DOMAIN stack
        PROVE  g[i].src = stack[i].src /\ g[i].todo = stack[i].todo \ {p}
    <2>1. Done(p)[i].src = stack[i].src /\ g[i].src = stack[i].src
      BY <1>3, <1>4, <1>5 DEF Alike
    <2>2. ASSUME NEW q \in g[i].todo PROVE q \in Done(p)[i].todo
      <3> SUFFICES ASSUME i # 1, Front(q) = stack[i].src, q \in DOMAIN disk', q \notin DOMAIN disk
                   PROVE FALSE
        BY <1>4, <1>5, <2>1
      <3>1. q = t
        BY DEF Effect
      <3>2. IsPrefix(Root, Front(t)) /\ Root \in Seq(Names)
        BY <1>1, <3>1, GoingOK DEF Placing
      <3>3. IsPrefix(Root, t)
        BY <3>2, PrefixOfFront DEF Paths
      <3>4. QED
        BY <3>3, NotBoth DEF Paths
    <2>3. Done(p)[i].todo \subseteq stack[i].todo
      BY <1>3, <1>5 DEF Fewer
    <2>4. p \notin Done(p)[i].todo
      <3>1. CASE i = Len(stack)
        BY <1>3, <3>1
      <3>2. CASE i # Len(stack)
        <4>1. p \notin stack[i].todo
          <5> SUFFICES ASSUME p \in stack[i].todo PROVE FALSE
            OBVIOUS
          <5>1. p \in stack[Len(stack)].todo /\ p \in Seq(Names)
            BY <1>1, EntryIs
          <5>2. i = Len(stack)
            BY <1>2, <5>1, PrefixSelf, Unrelated
          <5>3. QED
            BY <3>2, <5>2
        <4>2. QED
          BY <2>3, <4>1
      <3>3. QED
        BY <3>1, <3>2
    <2>5. QED
      BY <1>3, <1>4, <1>5, <2>1, <2>2, <2>3, <2>4
  <1>7. QED
    BY <1>1, <1>3, <1>4, <1>5, <1>6 DEF Less

LEMMA LessDeeper ==
  ASSUME Going, NEW g, NEW p, Less(g, p)
  PROVE  g # <<>> /\ Deeper(g)
  <1>1. Deeper(stack) /\ stack # <<>> /\ stack \in Seq(Calls)
    BY GoingOK DEF Going
  <1>2. g # <<>>
    BY <1>1, TopOK, EmptySeq DEF Less
  <1>3. Deeper(g)
    BY <1>1 DEF Less, Deeper
  <1>4. QED
    BY <1>2, <1>3

\* An entry that is done with is no longer pending, and all others still are that are
\* not within it.
LEMMA LessPending ==
  ASSUME Going, NEW x \in Pasted, Source(x) \in Top.todo, NEW g, Less(g, Source(x)),
         NEW q \in Pasted, q = x \/ ~IsPrefix(Source(x), Source(q))
  PROVE  /\ Pending(g, q) <=> Pending(stack, q) /\ q # x
         /\ Begun(g, q) <=> Begun(stack, q)
  <1> DEFINE p == Source(x)
  <1>1. /\ Len(stack) \in DOMAIN stack /\ p \in stack[Len(stack)].todo
    BY GoingOK, TopOK DEF Going
  <1> HIDE DEF p
  <1>2. /\ DOMAIN g = DOMAIN stack
        /\ \A i \in DOMAIN stack : g[i].src = stack[i].src /\ g[i].todo = stack[i].todo \ {p}
    BY DEF Less, p
  <1>3. ASSUME q # x, Pending(stack, q) PROVE Pending(g, q)
    <2>1. PICK i \in DOMAIN stack : \E r \in stack[i].todo : IsPrefix(r, Source(q))
      BY <1>3 DEF Pending
    <2>2. PICK r \in stack[i].todo : IsPrefix(r, Source(q))
      BY <2>1
    <2>3. r # p
      BY <1>3, <2>2 DEF p
    <2>4. r \in g[i].todo /\ i \in DOMAIN g
      BY <1>2, <2>3
    <2>5. QED
      BY <2>2, <2>4 DEF Pending
  <1>4. ASSUME Pending(g, q) PROVE Pending(stack, q) /\ q # x
    <2>1. PICK i \in DOMAIN g : \E r \in g[i].todo : IsPrefix(r, Source(q))
      BY <1>4 DEF Pending
    <2>2. PICK r \in g[i].todo : IsPrefix(r, Source(q))
      BY <2>1
    <2>3. i \in DOMAIN stack /\ r \in stack[i].todo /\ r # p
      BY <1>2, <2>2
    <2>4. Pending(stack, q)
      BY <2>2, <2>3 DEF Pending
    <2>5. q # x
      <3> SUFFICES ASSUME q = x PROVE FALSE
        OBVIOUS
      <3>1. IsPrefix(r, p)
        BY <2>2 DEF p
      <3>2. r = p
        BY <1>1, <2>3, <3>1, Unrelated
      <3>3. QED
        BY <2>3, <3>2
    <2>6. QED
      BY <2>4, <2>5
  <1>5. Begun(g, q) <=> Begun(stack, q)
    BY <1>2 DEF Begun
  <1>6. QED
    BY <1>3, <1>4, <1>5

\* On the way to what is in a directory there is an entry of that directory.
LEMMA OnTheWay ==
  ASSUME IsDisk(disk), NEW p \in Paths, NEW y \in DOMAIN disk, IsPrefix(p, y), p # y
  PROVE  \E c \in Children(p) : IsPrefix(c, y)
  <1>1. p \in Seq(Names) /\ y \in Paths /\ y \in Seq(Names) /\ Len(p) \in Nat /\ Len(y) \in Nat
    BY OnDisk, LenProperties DEF Paths
  <1>2. Len(p) <= Len(y) /\ \A i \in 1..Len(p) : p[i] = y[i]
    BY <1>1, PrefixIff
  <1>3. Len(p) # Len(y)
    BY <1>1, <1>2, PathsEqual
  <1>4. PICK k \in Nat : k = Len(p) + 1 /\ k <= Len(y)
    BY <1>1, <1>2, <1>3
  <1>5. PICK c : c = SubSeq(y, 1, k)
    OBVIOUS
  <1>6. c \in Seq(Names) /\ Len(c) = k /\ \A i \in 1..k : c[i] = y[i]
    BY <1>1, <1>4, <1>5, BeginningOf
  <1>7. IsPrefix(c, y)
    BY <1>1, <1>4, <1>6, PrefixIff
  <1>8. c \in Paths
    BY <1>4, <1>6, EmptySeq DEF Paths
  <1>9. Front(c) = p
    <2>1. /\ Front(c) \in Seq(Names) /\ Len(Front(c)) = Len(c) - 1
          /\ \A i \in 1..(Len(c) - 1) : Front(c)[i] = c[i]
      BY <1>8, FrontOf DEF Paths
    <2>2. Len(Front(c)) = Len(p) /\ \A i \in 1..Len(Front(c)) : Front(c)[i] = p[i]
      BY <1>1, <1>2, <1>4, <1>6, <2>1
    <2>3. QED
      BY <1>1, <2>1, <2>2, PathsEqual
  <1>10. c \in DOMAIN disk
    <2>1. CASE c = y
      BY <2>1
    <2>2. CASE c # y
      BY <1>7, <1>8, <2>2, Ancestors
    <2>3. QED
      BY <2>1, <2>2
  <1>11. QED
    BY <1>7, <1>9, <1>10 DEF Children

\* A call of CopyDir begins: what was pending with the directory is pending in it.
LEMMA EnterPending ==
  ASSUME Going, NEW x \in Pasted, Source(x) \in Top.todo, NEW h, Less(h, Source(x)),
         NEW f \in Calls, f.src = Source(x), f.todo = Children(Source(x)),
         NEW g, g = Append(h, f)
  PROVE  /\ g # <<>> /\ Deeper(g)
         /\ \A q \in Pasted : /\ Pending(g, q) <=> Pending(stack, q) /\ q # x
                              /\ Begun(g, q) <=> Begun(stack, q) \/ q = x
  <1> DEFINE p == Source(x)
             n == Len(stack)
  <1>1. /\ n \in Nat /\ n > 0 /\ n \in DOMAIN stack /\ DOMAIN stack = 1..n
        /\ p \in stack[n].todo /\ IsDisk(disk) /\ Deeper(stack) /\ stack \in Seq(Calls)
        /\ Root \in Seq(Names) /\ Len(Root) \in Nat
    BY GoingOK, TopOK, LenProperties DEF Going
  <1> HIDE DEF p, n
  <1>2. /\ p \in Paths /\ p \in Seq(Names) /\ Len(p) = Len(Root) + n - 1
    BY <1>1, EntryIs
  <1>3. /\ h \in Seq(Calls) /\ DOMAIN h = 1..n /\ Len(h) = n
        /\ \A i \in 1..n : h[i].src = stack[i].src /\ h[i].todo = stack[i].todo \ {p}
    BY <1>1 DEF Less, p, n
  <1>4. /\ g \in Seq(Calls) /\ Len(g) = n + 1
        /\ \A i \in 1..n : g[i] = h[i]
        /\ g[n + 1] = f
    BY <1>3, AppendProperties
  <1>5. /\ DOMAIN g = 1..(n + 1)
        /\ \A i \in 1..n : g[i].src = stack[i].src /\ g[i].todo = stack[i].todo \ {p}
        /\ g[n + 1].src = p /\ g[n + 1].todo = Children(p)
    <2>1. DOMAIN g = 1..(n + 1)
      BY <1>4, LenProperties
    <2>2. QED
      BY <1>3, <1>4, <2>1 DEF p
  <1>6. \A i \in 1..(n + 1) : i \in 1..n \/ i = n + 1
    BY <1>1
  <1>7. n + 1 \in 1..(n + 1) /\ n + 1 # 1 /\ 1..n \subseteq 1..(n + 1)
    BY <1>1
  <1>8. \A c \in Children(p) : c \in Paths /\ c \in Seq(Names) /\ Front(c) = p /\ Len(c) = Len(Root) + n
    <2> SUFFICES ASSUME NEW c \in Children(p)
                 PROVE  c \in Paths /\ c \in Seq(Names) /\ Front(c) = p /\ Len(c) = Len(Root) + n
      OBVIOUS
    <2>1. c \in Paths /\ Front(c) = p
      BY <1>1, ChildrenOK
    <2>2. Len(c) \in Nat /\ Len(p) = Len(c) - 1
      BY <2>1, FrontOf DEF Paths
    <2>3. QED
      BY <1>1, <1>2, <2>1, <2>2 DEF Paths
  <1>9. Deeper(g)
    <2>1. ASSUME NEW i \in 1..n, i # 1
          PROVE  /\ Len(g[i].src) = Len(Root) + i - 2
                 /\ \A j \in 1..(n + 1) : \A r \in g[j].todo : ~IsPrefix(r, g[i].src)
      <3>1. g[i].src = stack[i].src /\ Len(stack[i].src) = Len(Root) + i - 2
        BY <1>1, <1>5, <2>1 DEF Deeper
      <3>2. ASSUME NEW j \in 1..n, NEW r \in g[j].todo PROVE ~IsPrefix(r, g[i].src)
        <4>1. r \in stack[j].todo
          BY <1>5, <3>2
        <4>2. QED
          BY <1>1, <2>1, <3>1, <4>1 DEF Deeper
      <3>3. ASSUME NEW r \in g[n + 1].todo PROVE ~IsPrefix(r, g[i].src)
        <4>1. r \in Seq(Names) /\ Len(r) = Len(Root) + n
          BY <1>5, <1>8, <3>3
        <4>2. stack[i].src \in Seq(Names)
          <5>1. stack[i] \in Calls
            BY <1>1, <2>1, ElementOfSeq DEF n
          <5>2. QED
            BY <5>1 DEF Calls
        <4>3. ~(Len(r) <= Len(stack[i].src))
          BY <1>1, <2>1, <3>1, <4>1
        <4>4. QED
          BY <3>1, <4>1, <4>2, <4>3, PrefixIff
      <3>4. QED
        BY <1>6, <3>1, <3>2, <3>3
    <2>2. Len(g[n + 1].src) = Len(Root) + (n + 1) - 2
      BY <1>1, <1>2, <1>5
    <2>3. ASSUME NEW j \in 1..n, NEW r \in g[j].todo PROVE ~IsPrefix(r, p)
      <3>1. r \in stack[j].todo /\ r # p
        BY <1>5, <2>3
      <3>2. QED
        BY <1>1, <3>1, Unrelated
    <2>4. ASSUME NEW r \in g[n + 1].todo PROVE ~IsPrefix(r, p)
      <3>1. r \in Seq(Names) /\ Len(r) = Len(Root) + n
        BY <1>5, <1>8, <2>4
      <3>2. ~(Len(r) <= Len(p))
        BY <1>1, <1>2, <3>1
      <3>3. QED
        BY <1>2, <3>1, <3>2, PrefixIff
    <2>5. \A j \in 1..(n + 1) : \A r \in g[j].todo : ~IsPrefix(r, g[n + 1].src)
      BY <1>5, <1>6, <2>3, <2>4
    <2>6. QED
      BY <1>5, <1>6, <2>1, <2>2, <2>5 DEF Deeper
  <1>10. g # <<>>
    BY <1>1, <1>4, EmptySeq
  <1>11. ASSUME NEW q \in Pasted PROVE Pending(g, q) <=> Pending(stack, q) /\ q # x
    <2>1. ASSUME q # x, Pending(stack, q) PROVE Pending(g, q)
      <3>1. PICK i \in DOMAIN stack : \E r \in stack[i].todo : IsPrefix(r, Source(q))
        BY <2>1 DEF Pending
      <3>2. PICK r \in stack[i].todo : IsPrefix(r, Source(q))
        BY <3>1
      <3>3. CASE r # p
        <4>1. i \in DOMAIN g /\ r \in g[i].todo
          BY <1>1, <1>5, <1>7, <3>3
        <4>2. QED
          BY <3>2, <4>1 DEF Pending
      <3>4. CASE r = p
        <4>1. Source(q) \in DOMAIN disk
          BY <2>1 DEF Going, Progress
        <4>2. Source(q) # p
          BY <2>1, Distinct DEF p
        <4>3. PICK c \in Children(p) : IsPrefix(c, Source(q))
          BY <1>1, <1>2, <3>2, <3>4, <4>1, <4>2, OnTheWay
        <4>4. n + 1 \in DOMAIN g /\ c \in g[n + 1].todo
          BY <1>5, <1>7
        <4>5. QED
          BY <4>3, <4>4 DEF Pending
      <3>5. QED
        BY <3>3, <3>4
    <2>2. ASSUME Pending(g, q) PROVE Pending(stack, q) /\ q # x
      <3>1. PICK i \in DOMAIN g : \E r \in g[i].todo : IsPrefix(r, Source(q))
        BY <2>2 DEF Pending
      <3>2. PICK r \in g[i].todo : IsPrefix(r, Source(q))
        BY <3>1
      <3>3. Source(q) \in Seq(Names)
        BY Places
      <3>4. CASE i \in 1..n
        <4>1. i \in DOMAIN stack /\ r \in stack[i].todo /\ r # p
          BY <1>1, <1>5, <3>2, <3>4
        <4>2. Pending(stack, q)
          BY <3>2, <4>1 DEF Pending
        <4>3. ~IsPrefix(r, p)
          BY <1>1, <4>1, Unrelated
        <4>4. QED
          BY <3>2, <4>2, <4>3 DEF p
      <3>5. CASE i = n + 1
        <4>1. r \in Seq(Names) /\ r \in Paths /\ Front(r) = p /\ Len(r) = Len(Root) + n
          BY <1>5, <1>8, <3>2, <3>5
        <4>2. IsPrefix(p, r)
          BY <1>2, <4>1, PrefixSelf, PrefixOfFront DEF Paths
        <4>3. IsPrefix(p, Source(q))
          BY <1>2, <3>2, <3>3, <4>1, <4>2, PrefixTransitive
        <4>4. Pending(stack, q)
          BY <1>1, <4>3 DEF Pending
        <4>5. Source(q) # p
          <5>1. Len(r) <= Len(Source(q))
            BY <3>2, <3>3, <4>1, PrefixIff
          <5>2. QED
            BY <1>1, <1>2, <4>1, <5>1
        <4>6. QED
          BY <4>4, <4>5 DEF p
      <3>6. QED
        BY <1>5, <1>6, <3>4, <3>5
    <2>3. QED
      BY <2>1, <2>2
  <1>12. ASSUME NEW q \in Pasted PROVE Begun(g, q) <=> Begun(stack, q) \/ q = x
    <2>1. ASSUME Begun(g, q) PROVE Begun(stack, q) \/ q = x
      <3>1. PICK i \in DOMAIN g : i # 1 /\ g[i].src = Source(q)
        BY <2>1 DEF Begun
      <3>2. CASE i \in 1..n
        BY <1>1, <1>5, <3>1, <3>2 DEF Begun
      <3>3. CASE i = n + 1
        BY <1>5, <3>1, <3>3, Distinct DEF p
      <3>4. QED
        BY <1>5, <1>6, <3>2, <3>3
    <2>2. ASSUME Begun(stack, q) PROVE Begun(g, q)
      <3>1. PICK i \in DOMAIN stack : i # 1 /\ stack[i].src = Source(q)
        BY <2>2 DEF Begun
      <3>2. i \in DOMAIN g /\ g[i].src = Source(q)
        BY <1>1, <1>5, <1>7, <3>1
      <3>3. QED
        BY <3>1, <3>2 DEF Begun
    <2>3. ASSUME q = x PROVE Begun(g, q)
      <3>1. n + 1 \in DOMAIN g /\ n + 1 # 1 /\ g[n + 1].src = Source(q)
        BY <1>5, <1>7, <2>3 DEF p
      <3>2. QED
        BY <3>1 DEF Begun
    <2>4. QED
      BY <2>1, <2>2, <2>3
  <1>13. QED
    BY <1>9, <1>10, <1>11, <1>12

-----------------------------------------------------------------------------
(* The disk follows the calls.                                             *)

Others == DOMAIN before \ (IF op.move THEN Pasted ELSE {})

LEMMA ListedIs ==
  ASSUME NEW f
  PROVE  /\ \A q \in Pasted : ~Pending(f, q) => Goal(q) \in Listed(f)
         /\ \A q \in Pasted : Stays(f, q) => Source(q) \in Listed(f)
         /\ Others \subseteq Listed(f)
         /\ \A y \in Listed(f) : \/ \E q \in Pasted : ~Pending(f, q) /\ y = Goal(q)
                                 \/ \E q \in Pasted : Stays(f, q) /\ y = Source(q)
                                 \/ y \in Others
  BY DEF Listed, Others

\* What is moved is not on the disk for another reason.
LEMMA GoneIsGone ==
  ASSUME Going, Moving, NEW x \in Pasted
  PROVE  Source(x) \notin Others /\ \A q \in Pasted : Source(x) # Goal(q)
  <1>1. Source(x) \notin Others
    <2>1. CASE op.phase = "final"
      <3>1. IsPrefix(Append(op.tmp, op.name), Source(x))
        BY <2>1, Places DEF Root
      <3>2. QED
        BY <2>1, <3>1, GoingOK DEF Others
    <2>2. CASE op.phase # "final"
      <3>1. op.move /\ Source(x) = x
        BY <2>2, Places DEF Moving
      <3>2. QED
        BY <3>1 DEF Others
    <2>3. QED
      BY <2>1, <2>2
  <1>2. ASSUME NEW q \in Pasted PROVE Source(x) # Goal(q)
    <2>1. IsPrefix(Base, Goal(q)) /\ IsPrefix(Root, Source(x)) /\ Source(x) \in Seq(Names)
      BY Places
    <2>2. QED
      BY <2>1, NotBoth
  <1>3. QED
    BY <1>1, <1>2

\* Something has arrived at the place where it belongs, and may have left its own.
LEMMA Arrival ==
  ASSUME Going, IsDisk(disk'), NEW x \in Pasted, Pending(stack, x),
         NEW gone, gone = {} \/ (gone = {Source(x)} /\ Moving),
         NEW g, g # <<>>, Deeper(g),
         \A q \in Pasted : /\ Pending(g, q) <=> Pending(stack, q) /\ q # x
                           /\ Stays(g, q) <=> Stays(stack, q) /\ (gone = {} \/ q # x),
         DOMAIN disk' = (DOMAIN disk \ gone) \cup {Goal(x)},
         disk'[Goal(x)] = before[x],
         \A y \in DOMAIN disk' : y # Goal(x) => disk'[y] = disk[y],
         op.phase # "only" /\ ~Pending(g, op.src) => op.tmp \notin DOMAIN before
  PROVE  Progress(g, disk')
  <1> DEFINE t == Goal(x)
  <1>1. /\ \A q \in Pasted : IF Pending(stack, q)
                             THEN Source(q) \in DOMAIN disk /\ disk[Source(q)] = before[q]
                             ELSE Goal(q) \in DOMAIN disk /\ disk[Goal(q)] = before[q]
        /\ DOMAIN disk \ {op.tmp} = Listed(stack) \ {op.tmp}
    BY DEF Going, Progress
  <1>2. \A y \in gone : Moving /\ y = Source(x)
    OBVIOUS
  <1>3. ASSUME NEW q \in Pasted
        PROVE  /\ q # x => Source(q) \notin gone
               /\ Goal(q) \notin gone /\ Source(q) # t /\ (q # x => Goal(q) # t)
    <2>1. q # x => Source(q) \notin gone /\ Goal(q) # t
      BY <1>2, Distinct
    <2>2. Goal(q) \notin gone
      BY <1>2, GoneIsGone
    <2>3. Source(q) # t
      <3>1. IsPrefix(Base, t) /\ IsPrefix(Root, Source(q)) /\ Source(q) \in Seq(Names)
        BY Places
      <3>2. QED
        BY <3>1, NotBoth
    <2>4. QED
      BY <2>1, <2>2, <2>3
  <1>4. gone \cap Others = {}
    BY <1>2, GoneIsGone
  <1>5. ASSUME NEW q \in Pasted
        PROVE  IF Pending(g, q) THEN Source(q) \in DOMAIN disk' /\ disk'[Source(q)] = before[q]
                                ELSE Goal(q) \in DOMAIN disk' /\ disk'[Goal(q)] = before[q]
    <2>1. CASE Pending(g, q)
      <3>1. Source(q) \in DOMAIN disk /\ disk[Source(q)] = before[q] /\ q # x
        BY <1>1, <2>1
      <3>2. Source(q) \in DOMAIN disk' /\ Source(q) # t
        BY <1>3, <3>1
      <3>3. QED
        BY <2>1, <3>1, <3>2
    <2>2. CASE ~Pending(g, q) /\ q # x
      <3>1. Goal(q) \in DOMAIN disk /\ disk[Goal(q)] = before[q]
        BY <1>1, <2>2
      <3>2. Goal(q) \in DOMAIN disk' /\ Goal(q) # t
        BY <1>3, <2>2, <3>1
      <3>3. QED
        BY <2>2, <3>1, <3>2
    <2>3. CASE q = x
      BY <2>3
    <2>4. QED
      BY <2>1, <2>2, <2>3
  <1> HIDE DEF t
  <1>6. ASSUME NEW y \in Listed(g) PROVE y \in (Listed(stack) \ gone) \cup {t}
    <2>1. CASE \E q \in Pasted : ~Pending(g, q) /\ y = Goal(q)
      <3>1. PICK q \in Pasted : ~Pending(g, q) /\ y = Goal(q)
        BY <2>1
      <3>2. CASE q = x
        BY <3>1, <3>2 DEF t
      <3>3. CASE q # x
        <4>1. ~Pending(stack, q)
          BY <3>1, <3>3
        <4>2. y \in Listed(stack) /\ y \notin gone
          BY <1>3, <3>1, <4>1, ListedIs
        <4>3. QED
          BY <4>2
      <3>4. QED
        BY <3>2, <3>3
    <2>2. CASE \E q \in Pasted : Stays(g, q) /\ y = Source(q)
      <3>1. PICK q \in Pasted : Stays(g, q) /\ y = Source(q)
        BY <2>2
      <3>2. Stays(stack, q) /\ (gone = {} \/ q # x)
        BY <3>1
      <3>3. y \in Listed(stack) /\ y \notin gone
        BY <1>3, <3>1, <3>2, ListedIs
      <3>4. QED
        BY <3>3
    <2>3. CASE y \in Others
      BY <1>4, <2>3, ListedIs
    <2>4. QED
      BY <2>1, <2>2, <2>3, ListedIs
  <1>7. ASSUME NEW y \in Listed(stack), y \notin gone PROVE y \in Listed(g)
    <2>1. CASE \E q \in Pasted : ~Pending(stack, q) /\ y = Goal(q)
      BY <2>1, ListedIs
    <2>2. CASE \E q \in Pasted : Stays(stack, q) /\ y = Source(q)
      <3>1. PICK q \in Pasted : Stays(stack, q) /\ y = Source(q)
        BY <2>2
      <3>2. gone = {} \/ q # x
        BY <1>7, <3>1
      <3>3. Stays(g, q)
        BY <3>1, <3>2
      <3>4. QED
        BY <3>1, <3>3, ListedIs
    <2>3. CASE y \in Others
      BY <2>3, ListedIs
    <2>4. QED
      BY <2>1, <2>2, <2>3, ListedIs
  <1>8. t \in Listed(g)
    <2>1. ~Pending(g, x)
      OBVIOUS
    <2>2. QED
      BY <2>1, ListedIs DEF t
  <1>9. Listed(g) = (Listed(stack) \ gone) \cup {t}
    BY <1>6, <1>7, <1>8
  <1>10. DOMAIN disk' = (DOMAIN disk \ gone) \cup {t}
    BY DEF t
  <1>11. DOMAIN disk' \ {op.tmp} = Listed(g) \ {op.tmp}
    BY <1>1, <1>9, <1>10
  <1>12. QED
    BY <1>5, <1>11 DEF Progress

\* A call has returned, and what it was for may be gone.
LEMMA Departure ==
  ASSUME Going, NEW gone, NEW g, g # <<>>, Deeper(g),
         gone = {} \/ (Moving /\ \E x \in Pasted : gone = {Source(x)} /\ ~Pending(stack, x)),
         \A q \in Pasted : /\ Pending(g, q) <=> Pending(stack, q)
                           /\ Stays(g, q) <=> Stays(stack, q) /\ Source(q) \notin gone,
         DOMAIN disk' = DOMAIN disk \ gone,
         \A y \in DOMAIN disk' : disk'[y] = disk[y]
  PROVE  Progress(g, disk')
  <1>1. /\ \A q \in Pasted : IF Pending(stack, q)
                             THEN Source(q) \in DOMAIN disk /\ disk[Source(q)] = before[q]
                             ELSE Goal(q) \in DOMAIN disk /\ disk[Goal(q)] = before[q]
        /\ DOMAIN disk \ {op.tmp} = Listed(stack) \ {op.tmp}
        /\ op.phase # "only" /\ ~Pending(stack, op.src) => op.tmp \notin DOMAIN before
    BY DEF Going, Progress
  <1>2. ASSUME NEW y \in gone
        PROVE  /\ y \notin Others /\ \A q \in Pasted : y # Goal(q)
               /\ \A q \in Pasted : y = Source(q) => ~Pending(stack, q)
    <2>1. PICK x \in Pasted : y = Source(x) /\ ~Pending(stack, x) /\ Moving
      BY <1>2
    <2>2. QED
      BY <2>1, GoneIsGone, Distinct
  <1>3. ASSUME NEW q \in Pasted
        PROVE  IF Pending(g, q) THEN Source(q) \in DOMAIN disk' /\ disk'[Source(q)] = before[q]
                                ELSE Goal(q) \in DOMAIN disk' /\ disk'[Goal(q)] = before[q]
    BY <1>1, <1>2
  <1>4. ASSUME NEW y \in Listed(g) PROVE y \in Listed(stack) \ gone
    <2>1. CASE \E q \in Pasted : ~Pending(g, q) /\ y = Goal(q)
      BY <1>2, <2>1, ListedIs
    <2>2. CASE \E q \in Pasted : Stays(g, q) /\ y = Source(q)
      BY <2>2, ListedIs
    <2>3. CASE y \in Others
      BY <1>2, <2>3, ListedIs
    <2>4. QED
      BY <2>1, <2>2, <2>3, ListedIs
  <1>5. ASSUME NEW y \in Listed(stack), y \notin gone PROVE y \in Listed(g)
    <2>1. CASE \E q \in Pasted : ~Pending(stack, q) /\ y = Goal(q)
      BY <2>1, ListedIs
    <2>2. CASE \E q \in Pasted : Stays(stack, q) /\ y = Source(q)
      BY <1>5, <2>2, ListedIs
    <2>3. CASE y \in Others
      BY <2>3, ListedIs
    <2>4. QED
      BY <2>1, <2>2, <2>3, ListedIs
  <1>6. DOMAIN disk' \ {op.tmp} = Listed(g) \ {op.tmp}
    BY <1>1, <1>4, <1>5
  <1>7. op.phase # "only" /\ ~Pending(g, op.src) => op.tmp \notin DOMAIN before
    <2>1. CASE op.phase = "only"
      BY <2>1
    <2>2. CASE op.phase # "only"
      <3>1. op.src \in Pasted
        <4>1. op.src \in DOMAIN before /\ op.src \in Seq(Names)
          BY <2>2, GoingOK DEF Going, Detour
        <4>2. QED
          BY <4>1, PrefixSelf DEF Pasted, Subtree
      <3>2. QED
        BY <1>1, <3>1
    <2>3. QED
      BY <2>1, <2>2
  <1>8. QED
    BY <1>3, <1>6, <1>7 DEF Progress

LEMMA ProgressStays ==
  ASSUME SameCommand, op'.phase = op.phase, NEW g, NEW d, Progress(g, d), stack' = g, disk' = d
  PROVE  Progress(stack, disk)'
  <1>1. Root' = Root /\ Base' = Base /\ Moving' = Moving /\ Pasted' = Pasted
    BY SameCommandSame DEF SameCommand, Root, Base, Moving
  <1>2. \A q : Source(q)' = Source(q) /\ Goal(q)' = Goal(q)
    BY <1>1 DEF Source, Goal, SameCommand
  <1>3. \A q : /\ Pending(stack, q)' <=> Pending(g, q)
               /\ Begun(stack, q)' <=> Begun(g, q)
    BY <1>2 DEF Pending, Begun
  <1>4. \A q : Stays(stack, q)' <=> Stays(g, q)
    BY <1>1, <1>3 DEF Stays
  <1>5. Listed(stack)' = Listed(g)
    BY <1>1, <1>2, <1>3, <1>4 DEF Listed, SameCommand
  <1>6. Deeper(stack)' <=> Deeper(g)
    BY <1>1 DEF Deeper
  <1>7. \A q \in Pasted :
          IF Pending(stack, q)' THEN Source(q) \in DOMAIN d /\ d[Source(q)] = before[q]
                                ELSE Goal(q) \in DOMAIN d /\ d[Goal(q)] = before[q]
    BY <1>3 DEF Progress
  <1>8. op.phase # "only" /\ ~Pending(g, op.src) => op.tmp \notin DOMAIN before
    BY DEF Progress
  <1>9. g # <<>> /\ Deeper(g) /\ DOMAIN d \ {op.tmp} = Listed(g) \ {op.tmp}
    BY DEF Progress
  <1>10. \A q \in Pasted' :
           IF Pending(stack, q)'
           THEN Source(q)' \in DOMAIN disk' /\ disk'[Source(q)'] = before'[q]
           ELSE Goal(q)' \in DOMAIN disk' /\ disk'[Goal(q)'] = before'[q]
    BY <1>1, <1>2, <1>7 DEF SameCommand
  <1>11. (op.phase # "only" /\ ~Pending(stack, op.src) => op.tmp \notin DOMAIN before)'
    <2>1. Pending(stack, op.src)' <=> Pending(g, op.src)
      BY <1>1 DEF Pending, Source, SameCommand
    <2>2. QED
      BY <1>8, <2>1 DEF SameCommand
  <1>12. stack' # <<>> /\ Deeper(stack)' /\ DOMAIN disk' \ {op'.tmp} = Listed(stack)' \ {op'.tmp}
    BY <1>5, <1>6, <1>9 DEF SameCommand
  <1>13. QED
    BY <1>10, <1>11, <1>12 DEF Progress

\* The tree that was there is a tree where the walk finds it.
LEMMA PrefixBack ==
  ASSUME Going, NEW q \in Pasted, NEW x \in Pasted, IsPrefix(Source(x), Source(q))
  PROVE  IsPrefix(x, q)
  <1> DEFINE v == Within(op.src, x)
             w == Within(op.src, q)
             u == Within(Source(x), Source(q))
  <1>1. /\ v \in Seq(Names) /\ op.src \o v = x /\ Source(x) = Root \o v
        /\ Source(x) \in Seq(Names) /\ x \in Seq(Names)
    BY Places DEF Source, Paths
  <1>2. /\ w \in Seq(Names) /\ op.src \o w = q /\ Source(q) = Root \o w
        /\ Source(q) \in Seq(Names)
    BY Places DEF Source
  <1>3. u \in Seq(Names) /\ Source(x) \o u = Source(q)
    BY <1>1, <1>2, WithinOf
  <1>4. Root \in Seq(Names) /\ op.src \in Seq(Names)
    BY GoingOK
  <1> HIDE DEF u, v, w
  <1>5. v \in Seq(Names) /\ u \in Seq(Names)
    BY <1>1, <1>3, Zenon
  <1>6. Root \o (v \o u) = Root \o w /\ v \o u \in Seq(Names)
    <2>1. (Root \o v) \o u = Root \o (v \o u)
      BY <1>5, <1>4, Associative, ZenonT(30)
    <2>2. v \o u \in Seq(Names)
      BY <1>1, <1>3, ConcatProperties
    <2>3. (Root \o v) \o u = Root \o w
      BY <1>1, <1>2, <1>3, Zenon
    <2>4. QED
      BY <2>1, <2>2, <2>3, Zenon
  <1>7. v \o u = w
    BY <1>2, <1>4, <1>6, CancelLeft
  <1>8. x \o u = q
    <2>1. (op.src \o v) \o u = op.src \o (v \o u)
      BY <1>5, <1>4, Associative, ZenonT(30)
    <2>2. QED
      BY <2>1, <1>1, <1>2, <1>7, Zenon
  <1>9. QED
    BY <1>1, <1>3, <1>8, Under

\* Nothing is within a file.
LEMMA FileAlone ==
  ASSUME Going, NEW x \in Pasted, before[x] # Dir, NEW q \in Pasted
  PROVE  q = x \/ ~IsPrefix(Source(x), Source(q))
  <1> SUFFICES ASSUME q # x, IsPrefix(Source(x), Source(q)) PROVE FALSE
    OBVIOUS
  <1>1. IsPrefix(x, q)
    BY PrefixBack
  <1>2. x \in Paths /\ q \in DOMAIN before /\ IsDisk(before)
    BY Places, GoingOK
  <1>3. QED
    BY <1>1, <1>2, Ancestors

\* Under a temporary directory nothing was.
LEMMA NoFileTmp ==
  ASSUME Going, op.phase # "only",
         op.tmp = <<>> \/ (op.tmp \in DOMAIN disk /\ disk[op.tmp] = Dir)
  PROVE  op.tmp \notin DOMAIN before
  <1> SUFFICES ASSUME op.tmp \in DOMAIN before PROVE FALSE
    OBVIOUS
  <1>1. op.tmp # <<>>
    BY GoingOK, OnDisk DEF Paths
  <1>2. before[op.tmp] # Dir /\ ~op.move /\ Either
    BY GoingOK DEF Going, Detour
  <1>3. disk[op.tmp] = before[op.tmp]
    BY <1>2 DEF Either
  <1>4. QED
    BY <1>1, <1>2, <1>3

LEMMA SrcPasted ==
  ASSUME Going, op.phase # "only"
  PROVE  op.src \in Pasted /\ before[op.src] = Dir /\ Source(op.src) = Root /\ Goal(op.src) = Base
  <1>1. op.src \in DOMAIN before /\ before[op.src] = Dir /\ op.src \in Seq(Names)
    BY GoingOK DEF Going, Detour
  <1>2. op.src \in Pasted
    BY <1>1, PrefixSelf DEF Pasted, Subtree
  <1>3. Root \in Seq(Names) /\ Base \in Seq(Names)
    BY GoingOK
  <1>4. QED
    BY <1>1, <1>2, <1>3, WithinSelf DEF Source, Goal

\* An entry of the walk that is on the disk.
LEMMA EntryKnown ==
  ASSUME Going, NEW p \in Top.todo, p \in DOMAIN disk
  PROVE  /\ p \in Paths /\ Target(p) \in Paths /\ IsPrefix(Base, Target(p))
         /\ \E x \in Pasted : /\ Source(x) = p /\ Goal(x) = Target(p) /\ Pending(stack, x)
                              /\ disk[p] = before[x] /\ ~Begun(stack, x)
  <1>1. IInv /\ Placing(stack) /\ op.kind = "paste" /\ stack # <<>> /\ stack \in Seq(Calls)
    BY GoingOK DEF Going
  <1>2. IsPrefix(Root, p) /\ Target(p) = Base \o Within(Root, p) /\ p \in Paths /\ Target(p) \in Paths
    BY <1>1, EntryPlace, TargetOK
  <1>3. PICK x \in Pasted : Source(x) = p /\ Goal(x) = Target(p)
    BY <1>2, Known
  <1>4. IsPrefix(Base, Target(p))
    BY <1>3, Places
  <1>5. Len(stack) \in DOMAIN stack /\ p \in stack[Len(stack)].todo
    BY <1>1, TopOK
  <1>6. IsPrefix(p, p)
    BY <1>2, PrefixSelf DEF Paths
  <1>7. Pending(stack, x)
    BY <1>3, <1>5, <1>6 DEF Pending
  <1>8. disk[p] = before[x]
    BY <1>3, <1>7 DEF Going, Progress
  <1>9. ~Begun(stack, x)
    BY <1>3, <1>5, <1>6, GoingOK DEF Begun, Deeper
  <1>10. QED
    BY <1>2, <1>3, <1>4, <1>7, <1>8, <1>9

LEMMA PasteFileTells ==
  ASSUME Going, IsDisk(disk'), NEW p \in Top.todo, PasteFile(p), asked' = FALSE
  PROVE  Progress(stack', disk')
  <1> DEFINE t == Target(p)
  <1>1. /\ p \in DOMAIN disk /\ disk[p] # Dir /\ Free(t)
        /\ disk' = With(IF Moving THEN Without(p) ELSE disk, t, disk[p])
        /\ stack' \in MayFind(Done(p))
    BY DEF PasteFile, CopyFile, Ask, IsFile, Transfers, GoOn
  <1>2. p \in Paths /\ t \in Paths /\ IsPrefix(Base, t)
    BY <1>1, EntryKnown
  <1>3. PICK x \in Pasted : /\ Source(x) = p /\ Goal(x) = t /\ Pending(stack, x)
                            /\ disk[p] = before[x] /\ ~Begun(stack, x)
    BY <1>1, EntryKnown
  <1>4. Effect(p, t)
    BY CopyFileEffect DEF PasteFile
  <1>5. PICK g : stack' = g
    OBVIOUS
  <1> HIDE DEF t
  <1>6. Less(g, p)
    BY <1>1, <1>2, <1>4, <1>5, FoundLess
  <1>7. g # <<>> /\ Deeper(g)
    BY <1>6, LessDeeper
  <1>8. \A q \in Pasted : /\ Pending(g, q) <=> Pending(stack, q) /\ q # x
                          /\ Begun(g, q) <=> Begun(stack, q)
    <2>1. ASSUME NEW q \in Pasted PROVE q = x \/ ~IsPrefix(Source(x), Source(q))
      BY <1>1, <1>3, FileAlone
    <2>2. QED
      BY <1>3, <1>6, <2>1, LessPending
  <1>9. PICK gone : gone = IF Moving THEN {p} ELSE {}
    OBVIOUS
  <1>10. /\ DOMAIN disk' = (DOMAIN disk \ gone) \cup {t} /\ disk'[t] = disk[p]
         /\ \A y \in DOMAIN disk' : y # t => disk'[y] = disk[y]
    <2>1. CASE Moving
      <3>1. /\ DOMAIN Without(p) = DOMAIN disk \ {p}
            /\ \A y \in DOMAIN disk \ {p} : Without(p)[y] = disk[y]
        BY DEF Without, Restrict
      <3>2. disk' = With(Without(p), t, disk[p]) /\ gone = {p}
        BY <1>1, <1>9, <2>1
      <3>3. QED
        BY <3>1, <3>2 DEF With
    <2>2. CASE ~Moving
      BY <1>1, <1>9, <2>2 DEF With
    <2>3. QED
      BY <2>1, <2>2
  <1>11. \A q \in Pasted : Stays(g, q) <=> Stays(stack, q) /\ (gone = {} \/ q # x)
    <2>1. CASE ~Moving
      BY <1>9, <2>1 DEF Stays
    <2>2. CASE Moving
      <3>1. gone # {}
        BY <1>9, <2>2
      <3>2. QED
        BY <1>3, <1>8, <2>2, <3>1 DEF Stays
    <2>3. QED
      BY <2>1, <2>2
  <1>12. op.phase # "only" /\ ~Pending(g, op.src) => op.tmp \notin DOMAIN before
    <2> SUFFICES ASSUME op.phase # "only", ~Pending(g, op.src) PROVE op.tmp \notin DOMAIN before
      OBVIOUS
    <2>1. op.src \in Pasted /\ op.src # x
      BY <1>1, <1>3, SrcPasted
    <2>2. ~Pending(stack, op.src)
      BY <1>8, <2>1
    <2>3. QED
      BY <2>2 DEF Going, Progress
  <1>13. gone = {} \/ (gone = {Source(x)} /\ Moving)
    BY <1>3, <1>9
  <1>14. Progress(g, disk')
    BY <1>3, <1>7, <1>8, <1>10, <1>11, <1>12, <1>13, Arrival
  <1>15. QED
    BY <1>5, <1>14

LEMMA PasteDirTells ==
  ASSUME Going, IsDisk(disk'), NEW p \in Top.todo, PasteDir(p), asked' = FALSE
  PROVE  Progress(stack', disk')
  <1> DEFINE t == Target(p)
             f == Frame(p, t, Children(p))
  <1>1. /\ EntryIsDir(p)
        /\ IF IsDir(t) THEN UNCHANGED <<disk, failures>> ELSE MakesDir(t)
        /\ \E frames \in MayFind(Done(p)) : stack' = Append(frames, f)
    BY DEF PasteDir, Ask
  <1>2. /\ IInv /\ Placing(stack) /\ op.kind = "paste" /\ stack # <<>> /\ stack \in Seq(Calls)
        /\ IsDisk(disk)
    BY GoingOK DEF Going
  <1>3. p \in Paths /\ t \in Paths
    BY <1>2, TargetOK
  <1>4. p \in DOMAIN disk /\ disk[p] = Dir
    <2>1. CASE AtRoot /\ op.phase = "final"
      <3>1. p = Root
        <4>1. Len(stack) \in DOMAIN stack /\ Len(stack) = 1 /\ p \in stack[Len(stack)].todo
          BY <1>2, <2>1, TopOK DEF AtRoot
        <4>2. QED
          BY <4>1, EntryIs
      <3>2. op.src \in Pasted /\ before[op.src] = Dir /\ Source(op.src) = p
        BY <2>1, <3>1, SrcPasted
      <3>3. Pending(stack, op.src)
        <4>1. Len(stack) \in DOMAIN stack /\ p \in stack[Len(stack)].todo
          BY <1>2, TopOK
        <4>2. IsPrefix(p, p)
          BY <1>3, PrefixSelf DEF Paths
        <4>3. QED
          BY <3>2, <4>1, <4>2 DEF Pending
      <3>4. QED
        BY <3>2, <3>3 DEF Going, Progress
    <2>2. CASE ~(AtRoot /\ op.phase = "final")
      BY <1>1, <1>3, <2>2 DEF EntryIsDir, IsDir, Paths
    <2>3. QED
      BY <2>1, <2>2
  <1>5. PICK x \in Pasted : /\ Source(x) = p /\ Goal(x) = t /\ Pending(stack, x)
                            /\ disk[p] = before[x] /\ ~Begun(stack, x)
    BY <1>4, EntryKnown
  <1>6. IsPrefix(Base, t)
    BY <1>5, Places
  <1>7. /\ DOMAIN disk' = (DOMAIN disk \ {}) \cup {t} /\ disk'[t] = before[x]
        /\ \A y \in DOMAIN disk' : y # t => disk'[y] = disk[y]
        /\ Effect(p, t)
    <2>1. CASE IsDir(t)
      <3>1. t \in DOMAIN disk /\ disk[t] = Dir /\ disk' = disk
        BY <1>1, <1>3, <2>1 DEF IsDir, Paths
      <3>2. QED
        BY <1>4, <1>5, <3>1, SameEffect
    <2>2. CASE ~IsDir(t)
      <3>1. t \notin DOMAIN disk /\ disk' = With(disk, t, Dir)
        BY <1>1, <2>2 DEF MakesDir, Free
      <3>2. QED
        BY <1>4, <1>5, <3>1, WithEffect DEF With
    <2>3. QED
      BY <2>1, <2>2
  <1>8. f \in Calls /\ f.src = p /\ f.todo = Children(p)
    BY <1>2, <1>3, ChildrenOK DEF Frame, Calls, Paths
  <1>9. op.phase # "only" /\ x = op.src => op.tmp \notin DOMAIN before
    <2> SUFFICES ASSUME op.phase # "only", x = op.src PROVE op.tmp \notin DOMAIN before
      OBVIOUS
    <2>1. p = Root /\ t = Base /\ op.tmp \in Seq(Names) /\ op.name \in Names
          /\ op.phase \in {"only", "tmp", "final"}
      BY <1>5, SrcPasted, GoingOK
    <2>2. Front(Append(op.tmp, op.name)) = op.tmp
      BY <2>1, NameIn
    <2>3. CASE op.phase = "final"
      <3>1. Front(p) = op.tmp
        BY <2>1, <2>2, <2>3 DEF Root
      <3>2. op.tmp # <<>> => op.tmp \in DOMAIN disk /\ disk[op.tmp] = Dir
        BY <1>2, <1>4, <3>1, OnDisk
      <3>3. QED
        BY <3>2, NoFileTmp
    <2>4. CASE op.phase = "tmp"
      <3>1. Front(t) = op.tmp
        BY <2>1, <2>2, <2>4 DEF Base
      <3>2. op.tmp # <<>> => op.tmp \in DOMAIN disk /\ disk[op.tmp] = Dir
        <4>1. CASE IsDir(t)
          <5>1. t \in DOMAIN disk
            BY <1>3, <4>1 DEF IsDir, Paths
          <5>2. QED
            BY <1>2, <3>1, <5>1, OnDisk
        <4>2. CASE ~IsDir(t)
          BY <1>1, <3>1, <4>2 DEF MakesDir, Free, IsDir
        <4>3. QED
          BY <4>1, <4>2
      <3>3. QED
        BY <3>2, NoFileTmp
    <2>5. QED
      BY <2>1, <2>3, <2>4
  <1>10. PICK h \in MayFind(Done(p)) : stack' = Append(h, f)
    BY <1>1
  <1> HIDE DEF t, f
  <1>11. Less(h, p)
    BY <1>3, <1>6, <1>7, FoundLess
  <1>12. PICK g : g = Append(h, f)
    OBVIOUS
  <1>13. /\ g # <<>> /\ Deeper(g)
         /\ \A q \in Pasted : /\ Pending(g, q) <=> Pending(stack, q) /\ q # x
                              /\ Begun(g, q) <=> Begun(stack, q) \/ q = x
    BY <1>5, <1>8, <1>11, <1>12, EnterPending
  <1>14. \A q \in Pasted : Stays(g, q) <=> Stays(stack, q)
    BY <1>5, <1>13 DEF Stays
  <1>15. op.phase # "only" /\ ~Pending(g, op.src) => op.tmp \notin DOMAIN before
    <2> SUFFICES ASSUME op.phase # "only", ~Pending(g, op.src), op.src # x
                 PROVE  op.tmp \notin DOMAIN before
      BY <1>9
    <2>1. ~Pending(stack, op.src)
      BY <1>13, SrcPasted
    <2>2. QED
      BY <2>1 DEF Going, Progress
  <1>16. PICK gone : gone = {}
    OBVIOUS
  <1>17. Progress(g, disk')
    BY <1>5, <1>7, <1>13, <1>14, <1>15, <1>16, Arrival
  <1>18. QED
    BY <1>10, <1>12, <1>17

LEMMA ReturnTells ==
  ASSUME Going, Return, asked' = FALSE
  PROVE  Progress(stack', disk')
  <1> DEFINE n == Len(stack)
             d == Top.src
  <1>1. /\ Top.todo = {} /\ ~AtRoot /\ stack' = SubSeq(stack, 1, n - 1)
        /\ IF op.kind = "delete" \/ Moving THEN RemovesDir(d) ELSE UNCHANGED <<disk, failures>>
    BY DEF Return, Leave, Ask
  <1>2. /\ op.kind = "paste" /\ stack # <<>> /\ stack \in Seq(Calls) /\ Placing(stack)
        /\ Deeper(stack) /\ IsDisk(disk) /\ Root \in Seq(Names) /\ Base \in Seq(Names)
        /\ Len(Root) \in Nat
    BY GoingOK, LenProperties DEF Going
  <1>3. /\ n \in Nat /\ n > 0 /\ n # 1 /\ n \in DOMAIN stack /\ DOMAIN stack = 1..n
        /\ stack[n].todo = {} /\ stack[n].src = d
    BY <1>1, <1>2, TopOK DEF AtRoot
  <1>4. PICK g : stack' = g
    OBVIOUS
  <1>5. g \in Seq(Calls) /\ Len(g) = n - 1 /\ \A i \in 1..(n - 1) : g[i] = stack[i]
    BY <1>1, <1>2, <1>4, Popped
  <1> HIDE DEF n, d
  <1>6. DOMAIN g = 1..(n - 1)
    BY <1>5, LenProperties
  <1>7. /\ 1..(n - 1) \subseteq DOMAIN stack
        /\ \A i \in DOMAIN stack : i \in 1..(n - 1) \/ i = n
        /\ n \notin 1..(n - 1)
    BY <1>3
  <1>8. g # <<>>
    <2>1. Len(g) # 0
      BY <1>3, <1>5
    <2>2. QED
      BY <1>5, <2>1, EmptySeq
  <1>9. Deeper(g)
    BY <1>2, <1>5, <1>6, <1>7 DEF Deeper
  <1>10. \A q : Pending(g, q) <=> Pending(stack, q)
    BY <1>3, <1>5, <1>6, <1>7 DEF Pending
  <1>11. \A q : Begun(stack, q) <=> Begun(g, q) \/ Source(q) = d
    BY <1>3, <1>5, <1>6, <1>7 DEF Begun
  <1>12. CASE ~Moving
    <2>1. PICK gone : gone = {}
      OBVIOUS
    <2>2. disk' = disk
      BY <1>1, <1>2, <1>12
    <2>3. \A q \in Pasted : Stays(g, q) <=> Stays(stack, q) /\ Source(q) \notin gone
      BY <1>12, <2>1 DEF Stays
    <2>4. Progress(g, disk')
      BY <1>8, <1>9, <1>10, <2>1, <2>2, <2>3, Departure
    <2>5. QED
      BY <1>4, <2>4
  <1>13. CASE Moving
    <2>1. IsDir(d) /\ disk' = Without(d)
      BY <1>1, <1>13 DEF RemovesDir
    <2>2. IsPrefix(Root, d) /\ d \in Seq(Names) /\ Len(d) = Len(Root) + n - 2
      <3>1. stack[n] \in Calls
        BY <1>2, <1>3, ElementOfSeq DEF n
      <3>2. d \in Seq(Names)
        BY <1>3, <3>1 DEF Calls
      <3>3. IsPrefix(Root, d)
        BY <1>2, <1>3 DEF Placing
      <3>4. Len(d) = Len(Root) + n - 2
        BY <1>2, <1>3 DEF Deeper
      <3>5. QED
        BY <3>2, <3>3, <3>4
    <2>3. d # <<>>
      <3> SUFFICES ASSUME d = <<>> PROVE FALSE
        OBVIOUS
      <3>1. Len(d) = 0 /\ Len(Base) \in Nat
        BY <1>2, LenProperties
      <3>2. Len(d) <= Len(Base) /\ \A i \in 1..Len(d) : d[i] = Base[i]
        BY <3>1
      <3>3. IsPrefix(d, Base)
        BY <1>2, <2>2, <3>2, PrefixIff
      <3>4. IsPrefix(Root, Base)
        BY <1>2, <2>2, <3>3, PrefixTransitive
      <3>5. QED
        BY <3>4, TreesApart DEF Apart
    <2>4. d \in DOMAIN disk
      BY <2>1, <2>3 DEF IsDir
    <2>5. PICK x \in Pasted : Source(x) = d
      BY <2>2, <2>4, Known
    <2>6. PICK gone : gone = {d}
      OBVIOUS
    <2>7. DOMAIN disk' = DOMAIN disk \ gone /\ \A y \in DOMAIN disk' : disk'[y] = disk[y]
      BY <2>1, <2>6 DEF Without, Restrict
    <2>8. \A q : Pending(stack, q) => Source(q) # d
      BY <1>2, <1>3 DEF Pending, Deeper
    <2>9. \A q : Begun(g, q) => Source(q) # d
      <3> SUFFICES ASSUME NEW i \in 1..(n - 1), i # 1, g[i].src = d PROVE FALSE
        BY <1>6 DEF Begun
      <3>1. stack[i].src = d /\ i \in DOMAIN stack
        BY <1>5, <1>7
      <3>2. Len(d) = Len(Root) + i - 2
        BY <1>2, <3>1 DEF Deeper
      <3>3. QED
        BY <1>2, <1>3, <2>2, <3>2
    <2>10. \A q \in Pasted : Stays(g, q) <=> Stays(stack, q) /\ Source(q) \notin gone
      BY <1>10, <1>11, <1>13, <2>6, <2>8, <2>9 DEF Stays
    <2>11. Moving /\ gone = {Source(x)} /\ ~Pending(stack, x)
      BY <1>13, <2>5, <2>6, <2>8
    <2>12. Progress(g, disk')
      BY <1>8, <1>9, <1>10, <2>7, <2>10, <2>11, Departure
    <2>13. QED
      BY <1>4, <2>12
  <1>14. QED
    BY <1>12, <1>13

-----------------------------------------------------------------------------
(* The steps of a paste that nobody was asked about.                       *)

TInv == PInv /\ Telling /\ TellsTheTruth

LEMMA IsGoing ==
  ASSUME TInv, Kindly, op.phase # "done", asked = FALSE
  PROVE  Going
  BY DEF TInv, Telling, Going, PInv, IInv

\* What a step of a walk must keep.
LEMMA TellingStays ==
  ASSUME TInv, op.phase # "done", SameCommand, op'.phase = op.phase, asked' \in BOOLEAN,
         asked' = FALSE => asked = FALSE,
         Going /\ asked' = FALSE => Progress(stack', disk')
  PROVE  Telling' /\ TellsTheTruth'
  <1>1. TellsTheTruth'
    BY DEF TellsTheTruth
  <1>2. Kindly' <=> Kindly
    BY SameCommandSame
  <1>3. Kindly => Detour'
    BY DEF TInv, Telling, Detour, SameCommand
  <1>4. ASSUME Kindly, asked' = FALSE PROVE Progress(stack, disk)'
    <2>1. Progress(stack', disk')
      BY <1>4, IsGoing
    <2>2. PICK g, d : stack' = g /\ disk' = d
      OBVIOUS
    <2>3. Progress(g, d)
      BY <2>1, <2>2
    <2>4. QED
      BY <2>2, <2>3, ProgressStays
  <1>5. QED
    BY <1>1, <1>2, <1>3, <1>4 DEF Telling

LEMMA WalkTells ==
  ASSUME TInv, IInv', op.kind = "paste", stack # <<>>, NEW p \in Top.todo,
         PasteFile(p) \/ PasteDir(p), UNCHANGED <<clip, before, given, left>>
  PROVE  Telling' /\ TellsTheTruth'
  <1>1. op.phase # "done" /\ OpOK /\ asked' \in BOOLEAN /\ IsDisk(disk')
    BY DEF TInv, PInv, IInv, Idle, DiskOK, RestOK
  <1>2. op' = op \/ op' = [op EXCEPT !.result = FALSE]
    BY DEF PasteFile, PasteDir, GoOn
  <1>3. SameCommand /\ op'.phase = op.phase
    BY <1>1, <1>2, OpGoesOn
  <1>4. asked' = FALSE => asked = FALSE
    BY DEF PasteFile, CopyFile, PasteDir, Ask
  <1>5. Going /\ asked' = FALSE => Progress(stack', disk')
    BY <1>1, PasteFileTells, PasteDirTells
  <1>6. QED
    BY <1>1, <1>3, <1>4, <1>5, TellingStays

LEMMA ReturnsTells ==
  ASSUME TInv, IInv', Return
  PROVE  Telling' /\ TellsTheTruth'
  <1>1. op.phase # "done" /\ OpOK /\ asked' \in BOOLEAN /\ before' = before
    BY DEF TInv, PInv, IInv, Idle, RestOK, Return
  <1>2. op' = op \/ op' = [op EXCEPT !.result = FALSE]
    BY DEF Return, Leave
  <1>3. SameCommand /\ op'.phase = op.phase
    BY <1>1, <1>2, OpGoesOn
  <1>4. asked' = FALSE => asked = FALSE
    BY DEF Return, Leave, Ask
  <1>5. Going /\ asked' = FALSE => Progress(stack', disk')
    BY ReturnTells
  <1>6. QED
    BY <1>1, <1>3, <1>4, <1>5, TellingStays

\* At the end of a walk all of the tree is where it was to be put.
LEMMA WalkedAll ==
  ASSUME Going, Walked
  PROVE  /\ \A q : ~Pending(stack, q) /\ ~Begun(stack, q)
         /\ \A q \in Pasted : Goal(q) \in DOMAIN disk /\ disk[Goal(q)] = before[q]
         /\ op.phase # "only" => op.tmp \notin DOMAIN before
         /\ DOMAIN disk \ {op.tmp} = Listed(stack) \ {op.tmp}
  <1>1. stack # <<>> /\ stack \in Seq(Calls)
    BY DEF Going, Progress
  <1>2. Len(stack) = 1 /\ stack[1].todo = {} /\ DOMAIN stack = {1}
    <2>1. Len(stack) = 1 /\ stack[1].todo = {}
      BY <1>1 DEF Walked, AtRoot, Top
    <2>2. DOMAIN stack = 1..1
      BY <1>1, <2>1, LenProperties
    <2>3. QED
      BY <2>1, <2>2
  <1>3. \A q : ~Pending(stack, q) /\ ~Begun(stack, q)
    BY <1>2 DEF Pending, Begun
  <1>4. QED
    BY <1>3 DEF Going, Progress

LEMMA PasteFinalTells ==
  ASSUME TInv, PasteFinal
  PROVE  Telling' /\ TellsTheTruth'
  <1> DEFINE f == Frame(op.tmp, op.des, {Append(op.tmp, op.name)})
  <1>1. OpOK /\ op.phase = "tmp" /\ Walked /\ UNCHANGED <<disk, before, asked>>
    BY DEF TInv, PInv, IInv, PasteFinal
  <1>2. op' = [op EXCEPT !.phase = "final", !.result = TRUE] /\ stack' = <<f>>
    BY DEF PasteFinal
  <1>3. SameCommand /\ op'.phase = "final"
    BY <1>1, <1>2 DEF OpOK, Commands, SameCommand
  <1>4. f.todo = {Append(op.tmp, op.name)}
    BY DEF Frame
  <1> HIDE DEF f
  <1>5. DOMAIN stack' = {1} /\ stack'[1] = f /\ stack' # <<>>
    BY <1>2
  <1>6. TellsTheTruth'
    BY <1>3 DEF TellsTheTruth
  <1>7. (Kindly' <=> Kindly) /\ Pasted' = Pasted
    BY <1>3, SameCommandSame
  <1>8. Kindly => Detour'
    BY <1>1, <1>3 DEF TInv, Telling, Detour, SameCommand
  <1>9. ASSUME Kindly, asked' = FALSE PROVE Progress(stack, disk)'
    <2>1. asked = FALSE /\ op.phase # "done"
      BY <1>1, <1>9
    <2>2. Going
      BY <1>9, <2>1, IsGoing
    <2>3. /\ \A q \in Pasted : Goal(q) \in DOMAIN disk /\ disk[Goal(q)] = before[q]
          /\ \A q : ~Pending(stack, q)
          /\ DOMAIN disk \ {op.tmp} = Listed(stack) \ {op.tmp}
      BY <1>1, <2>2, WalkedAll
    <2>4. /\ Base = Append(op.tmp, op.name) /\ Root' = Base /\ op.move = FALSE
      BY <1>1, <1>3, <2>2, GoingOK DEF Base, Root, SameCommand
    <2>5. \A q : Source(q)' = Goal(q)
      BY <1>3, <2>4 DEF Source, Goal, SameCommand
    <2>6. ASSUME NEW q \in Pasted PROVE Pending(stack, q)'
      <3>1. IsPrefix(Base, Goal(q)) /\ Base \in f.todo
        BY <1>4, <2>2, <2>4, Places
      <3>2. IsPrefix(Base, Source(q)')
        BY <2>5, <3>1
      <3>3. \E i \in DOMAIN stack' : \E p \in stack'[i].todo : IsPrefix(p, Source(q)')
        BY <1>5, <3>1, <3>2
      <3>4. QED
        BY <3>3 DEF Pending
    <2>7. Deeper(stack)'
      BY <1>5 DEF Deeper
    <2>8. Listed(stack) = {Goal(q) : q \in Pasted} \cup DOMAIN before
      <3>1. \A q \in Pasted : Source(q) \in DOMAIN before
        BY <1>1, <2>2, Places
      <3>2. QED
        BY <2>3, <2>4, <3>1 DEF Listed
    <2>9. Listed(stack)' = {Goal(q) : q \in Pasted} \cup DOMAIN before
      <3>1. op'.move = FALSE /\ before' = before
        BY <1>3, <2>4 DEF SameCommand
      <3>2. \A q \in Pasted : Pending(stack, q)' /\ Stays(stack, q)'
        BY <2>6 DEF Stays
      <3>3. {Goal(q)' : q \in {x \in Pasted' : ~Pending(stack, x)'}} = {}
        BY <1>7, <3>2
      <3>4. {Source(q)' : q \in {x \in Pasted' : Stays(stack, x)'}} = {Goal(q) : q \in Pasted}
        BY <1>7, <2>5, <3>2
      <3>5. Listed(stack)' = {} \cup {Goal(q) : q \in Pasted}
                               \cup (DOMAIN before' \ (IF op'.move THEN Pasted' ELSE {}))
        BY <3>3, <3>4 DEF Listed
      <3>6. QED
        BY <3>1, <3>5
    <2>10. Pending(stack, op.src)'
      <3>1. PICK s : s = op.src
        OBVIOUS
      <3>2. Pending(stack, s)'
        BY <1>1, <2>2, <2>6, <3>1, SrcPasted
      <3>3. op'.src = s
        BY <1>3, <3>1 DEF SameCommand
      <3>4. QED
        BY <3>2, <3>3 DEF Pending, Source
    <2>11. \A q \in Pasted' : Pending(stack, q)' /\ Source(q)' \in DOMAIN disk' /\ disk'[Source(q)'] = before'[q]
      BY <1>1, <1>7, <2>3, <2>5, <2>6
    <2>12. DOMAIN disk' \ {op'.tmp} = Listed(stack)' \ {op'.tmp}
      BY <1>1, <1>3, <2>3, <2>8, <2>9 DEF SameCommand
    <2>13. QED
      BY <1>5, <2>7, <2>10, <2>11, <2>12 DEF Progress
  <1>10. asked' = FALSE \/ asked' = TRUE
    BY <1>1 DEF TInv, PInv, IInv, RestOK
  <1>11. QED
    BY <1>6, <1>7, <1>8, <1>9, <1>10 DEF Telling

LEMMA FinishTells ==
  ASSUME TInv, Finish
  PROVE  Telling' /\ TellsTheTruth'
  <1>1. OpOK /\ op.phase \in {"only", "final"} /\ Walked /\ UNCHANGED <<before, asked>>
    BY DEF TInv, PInv, IInv, Finish
  <1>2. op' = [op EXCEPT !.phase = "done"]
    BY DEF Finish
  <1>3. SameCommand /\ op'.phase = "done"
    BY <1>1, <1>2 DEF OpOK, Commands, SameCommand
  <1>4. Telling'
    BY <1>3 DEF Telling
  <1>5. (Kindly' <=> Kindly) /\ Pasted' = Pasted /\ \A q : Place(q)' = Place(q)
    BY <1>3, SameCommandSame
  <1> DEFINE gone  == IF op.move THEN Pasted ELSE {}
             there == {Place(q) : q \in Pasted} \cup (DOMAIN before \ gone)
  <1>6. ASSUME Kindly, asked = FALSE
        PROVE  /\ \A q \in Pasted : Place(q) \in DOMAIN disk' /\ disk'[Place(q)] = before[q]
               /\ DOMAIN disk' \ {op.tmp} = there
    <2>1. Going
      <3>1. op.phase # "done"
        BY <1>1
      <3>2. QED
        BY <1>6, <3>1, IsGoing
    <2>2. /\ \A q \in Pasted : Goal(q) \in DOMAIN disk /\ disk[Goal(q)] = before[q]
          /\ \A q : ~Pending(stack, q) /\ ~Begun(stack, q)
          /\ op.phase # "only" => op.tmp \notin DOMAIN before
          /\ DOMAIN disk \ {op.tmp} = Listed(stack) \ {op.tmp}
      BY <1>1, <2>1, WalkedAll
    <2>3. /\ IsDisk(disk) /\ IsDisk(before)
          /\ op.phase # "only" => ~op.move
      BY <2>1, GoingOK
    <2>4. \A q : Goal(q) = Place(q)
      BY <1>1 DEF Goal, Place, Base
    <2>5. \A q \in Pasted : Place(q) # op.tmp
      <3> SUFFICES ASSUME NEW q \in Pasted PROVE Goal(q) # op.tmp
        BY <2>4
      <3>1. Goal(q) \in Paths /\ IsPrefix(Base, Goal(q))
        BY <2>1, <2>2, <2>3, OnDisk, Places
      <3>2. QED
        BY <2>1, <3>1, NotTmp
    <2>6. op.tmp \notin DOMAIN before
      <3>1. op.phase = "only" => op.tmp = <<>>
        BY <2>1 DEF Going, Detour
      <3>2. <<>> \notin DOMAIN before
        BY <2>3 DEF IsDisk
      <3>3. QED
        BY <2>2, <3>1, <3>2
    <2>7. Listed(stack) = there
      <3>1. \A q \in Pasted : Stays(stack, q) => Source(q) \in DOMAIN before \ gone
        <4> SUFFICES ASSUME NEW q \in Pasted, ~Moving PROVE Source(q) \in DOMAIN before \ gone
          BY <2>2 DEF Stays
        <4>1. op.phase # "final" /\ ~op.move
          BY DEF Moving
        <4>2. Source(q) = q /\ q \in DOMAIN before
          BY <2>1, <4>1, Places
        <4>3. QED
          BY <4>1, <4>2
      <3>2. Listed(stack) = {Goal(q) : q \in Pasted}
                              \cup {Source(q) : q \in {x \in Pasted : Stays(stack, x)}}
                              \cup (DOMAIN before \ gone)
        BY <2>2 DEF Listed
      <3> HIDE DEF gone
      <3>3. {Goal(q) : q \in Pasted} = {Place(q) : q \in Pasted}
        BY <2>4
      <3>4. QED
        BY <3>1, <3>2, <3>3
    <2>8. op.tmp \notin there
      BY <2>5, <2>6
    <2> HIDE DEF there, gone
    <2>9. /\ DOMAIN disk' \ {op.tmp} = DOMAIN disk \ {op.tmp}
          /\ \A y \in DOMAIN disk : y # op.tmp => y \in DOMAIN disk' /\ disk'[y] = disk[y]
      <3>1. CASE disk' = disk
        BY <3>1
      <3>2. CASE disk' = Without(op.tmp)
        BY <3>2 DEF Without, Restrict
      <3>3. QED
        BY <3>1, <3>2 DEF Finish, RemovesDir, RemovesNoDir
    <2>10. \A q \in Pasted : Place(q) \in DOMAIN disk' /\ disk'[Place(q)] = before[q]
      BY <2>2, <2>4, <2>5, <2>9
    <2>11. DOMAIN disk' \ {op.tmp} = there
      BY <2>2, <2>7, <2>8, <2>9
    <2>12. QED
      BY <2>10, <2>11
  <1>7. TellsTheTruth'
    <2> SUFFICES ASSUME Kindly', ~asked'
                 PROVE  /\ \A q \in Pasted' : /\ Place(q)' \in DOMAIN disk'
                                              /\ disk'[Place(q)'] = before'[q]
                        /\ DOMAIN disk' \ {op'.tmp} =
                             {Place(q)' : q \in Pasted'}
                               \cup (DOMAIN before' \ (IF op'.move THEN Pasted' ELSE {}))
      BY DEF TellsTheTruth, Kindly
    <2>1. Kindly /\ asked = FALSE
      <3>1. asked \in BOOLEAN
        BY DEF TInv, PInv, IInv, RestOK
      <3>2. QED
        BY <1>1, <1>5, <3>1
    <2>2. before' = before /\ op'.tmp = op.tmp /\ op'.move = op.move
      BY <1>3 DEF SameCommand
    <2>3. {Place(q)' : q \in Pasted'} = {Place(q) : q \in Pasted}
      BY <1>5
    <2>4. QED
      BY <1>5, <1>6, <2>1, <2>2, <2>3
  <1>8. QED
    BY <1>4, <1>7

-----------------------------------------------------------------------------
(* The beginning of a paste.                                               *)

LEMMA BeginsTelling ==
  ASSUME IsDisk(disk), NEW src \in Paths, NEW frame,
         frame.todo = {src}, stack' = <<frame>>, before' = disk,
         op'.src = src, Root' = src,
         DOMAIN disk' \ {op'.tmp} = DOMAIN disk \ {op'.tmp},
         \A q \in DOMAIN disk : q \in DOMAIN disk' /\ disk'[q] = disk[q],
         op'.phase # "only" => src \in DOMAIN disk
  PROVE  Progress(stack, disk)'
  <1>1. DOMAIN stack' = {1} /\ stack'[1] = frame /\ stack' # <<>>
    OBVIOUS
  <1>2. Deeper(stack)'
    BY <1>1 DEF Deeper
  <1>3. Pasted' = {q \in DOMAIN disk : IsPrefix(src, q)}
    BY DEF Pasted, Subtree
  <1>4. ASSUME NEW q \in DOMAIN disk, IsPrefix(src, q)
        PROVE  Source(q)' = q /\ Pending(stack, q)'
    <2>1. q \in Seq(Names) /\ src \in Seq(Names)
      BY OnDisk DEF Paths
    <2>2. src \o Within(src, q) = q
      BY <1>4, <2>1, WithinOf
    <2>3. Source(q)' = q
      BY <2>2 DEF Source
    <2>4. \E i \in DOMAIN stack' : \E p \in stack'[i].todo : IsPrefix(p, Source(q)')
      BY <1>1, <1>4, <2>3
    <2>5. QED
      BY <2>3, <2>4 DEF Pending
  <1>5. \A q \in Pasted' : Pending(stack, q)' /\ Source(q)' = q /\ q \in DOMAIN disk
    BY <1>3, <1>4
  <1>6. Listed(stack)' = DOMAIN disk
    <2>1. \A q \in Pasted' : Stays(stack, q)'
      BY <1>5 DEF Stays
    <2>2. Pasted' \subseteq DOMAIN disk
      BY <1>3
    <2>3. {Source(q)' : q \in {x \in Pasted' : Stays(stack, x)'}} = Pasted'
      BY <1>5, <2>1
    <2>4. {Goal(q)' : q \in {x \in Pasted' : ~Pending(stack, x)'}} = {}
      BY <1>5
    <2>5. Listed(stack)' = {} \cup Pasted' \cup (DOMAIN disk \ (IF op'.move THEN Pasted' ELSE {}))
      BY <2>3, <2>4 DEF Listed
    <2>6. QED
      BY <2>2, <2>5
  <1>7. op'.phase # "only" => Pending(stack, op.src)'
    <2>1. IsPrefix(src, src)
      BY PrefixSelf DEF Paths
    <2>2. op'.phase # "only" => Pending(stack, src)'
      BY <1>4, <2>1
    <2>3. QED
      BY <2>2 DEF Pending, Source
  <1>8. \A q \in Pasted' : /\ Pending(stack, q)' /\ Source(q)' \in DOMAIN disk'
                           /\ disk'[Source(q)'] = before'[q]
    BY <1>5
  <1>9. DOMAIN disk' \ {op'.tmp} = Listed(stack)' \ {op'.tmp}
    BY <1>6
  <1>10. QED
    BY <1>1, <1>2, <1>7, <1>8, <1>9 DEF Progress

LEMMA DirectlyTells ==
  ASSUME IsDisk(disk), NEW src \in Paths, NEW des, NEW name, NEW move, UNCHANGED disk,
         Begin(Command("paste", src, des, name, move, <<>>, "only"),
               Frame(Front(src), des, {src}))
  PROVE  Telling' /\ TellsTheTruth'
  <1> DEFINE f == Frame(Front(src), des, {src})
  <1>1. /\ op'.phase = "only" /\ op'.src = src /\ op'.tmp = <<>>
        /\ before' = disk /\ stack' = <<f>>
    BY DEF Begin, Command
  <1>2. f.todo = {src}
    BY DEF Frame
  <1>3. Root' = src
    BY <1>1 DEF Root
  <1> HIDE DEF f
  <1>4. Progress(stack, disk)'
    BY <1>1, <1>2, <1>3, BeginsTelling
  <1>5. Detour'
    BY <1>1 DEF Detour
  <1>6. QED
    BY <1>1, <1>4, <1>5 DEF Telling, TellsTheTruth

LEMMA ByTheWayTells ==
  ASSUME IsDisk(disk), NEW src \in Paths, IsDir(src), NEW des, IsPrefix(src, des),
         NEW n \in TmpNames, NEW tmp, tmp = Append(Front(src), n), ~IsDir(tmp),
         MakesDir(tmp) \/ MakesNoDir(tmp),
         Begin(Command("paste", src, des, Last(src), FALSE, tmp, "tmp"),
               Frame(Front(src), tmp, {src}))
  PROVE  Telling' /\ TellsTheTruth'
  <1> DEFINE f == Frame(Front(src), tmp, {src})
  <1>1. /\ op'.phase = "tmp" /\ op'.src = src /\ op'.tmp = tmp /\ op'.des = des
        /\ before' = disk /\ stack' = <<f>>
    BY DEF Begin, Command
  <1>2. f.todo = {src}
    BY DEF Frame
  <1>3. Root' = src
    BY <1>1 DEF Root
  <1> HIDE DEF f
  <1>4. src \in DOMAIN disk /\ disk[src] = Dir
    BY DEF IsDir, Paths
  <1>5. tmp \in DOMAIN disk => disk[tmp] # Dir
    BY DEF IsDir
  <1>6. /\ DOMAIN disk' \ {tmp} = DOMAIN disk \ {tmp}
        /\ \A q \in DOMAIN disk : q \in DOMAIN disk' /\ disk'[q] = disk[q]
    BY DEF MakesDir, MakesNoDir, Free, With
  <1>7. Progress(stack, disk)'
    BY <1>1, <1>2, <1>3, <1>4, <1>6, BeginsTelling
  <1>8. Apart(src, tmp)
    <2>1. /\ n \in Names /\ src \in Seq(Names) /\ Front(src) \in Seq(Names)
          /\ Len(src) \in Nat /\ Len(Front(src)) = Len(src) - 1
      BY FilesAssumption, FrontOf DEF Paths
    <2>2. tmp \in Seq(Names) /\ Len(tmp) = Len(src) /\ src # tmp
      <3>1. tmp \in Seq(Names) /\ Len(tmp) = Len(src)
        BY <2>1, NameIn
      <3>2. src # tmp
        OBVIOUS
      <3>3. QED
        BY <3>1, <3>2
    <2>3. ~IsPrefix(src, tmp)
      <3> SUFFICES ASSUME IsPrefix(src, tmp) PROVE FALSE
        OBVIOUS
      <3>1. \A i \in 1..Len(src) : src[i] = tmp[i]
        BY <2>1, <2>2, PrefixIff
      <3>2. QED
        BY <2>1, <2>2, <3>1, PathsEqual
    <2>4. ~IsPrefix(tmp, src)
      <3> SUFFICES ASSUME IsPrefix(tmp, src) PROVE FALSE
        OBVIOUS
      <3>1. \A i \in 1..Len(tmp) : tmp[i] = src[i]
        BY <2>1, <2>2, PrefixIff
      <3>2. QED
        BY <2>1, <2>2, <3>1, PathsEqual
    <2>5. QED
      BY <2>3, <2>4 DEF Apart
  <1>9. Detour'
    BY <1>1, <1>4, <1>5, <1>8 DEF Detour
  <1>10. QED
    BY <1>1, <1>7, <1>9 DEF Telling, TellsTheTruth

\* Whatever is no paste tells nothing of one.
LEMMA OthersTell ==
  ASSUME op'.kind # "paste"
  PROVE  Telling' /\ TellsTheTruth'
  BY DEF Telling, TellsTheTruth, Kindly

LEMMA OnceTells ==
  ASSUME Once
  PROVE  Telling' /\ TellsTheTruth'
  <1>1. op'.kind # "paste"
    BY DEF Once, Command
  <1>2. QED
    BY <1>1, OthersTell

LEMMA PasteDirOrFileTells ==
  ASSUME IsDisk(disk), NEW src \in Paths, NEW des, NEW move, PasteDirOrFile(src, des, move)
  PROVE  Telling' /\ TellsTheTruth'
  <1>1. CASE ~IsDir(src)
    <2>1. \E name : /\ Begin(Command("paste", src, des, name, move, <<>>, "only"),
                             Frame(Front(src), des, {src}))
                    /\ UNCHANGED <<disk, failures>>
      BY <1>1 DEF PasteDirOrFile
    <2>2. QED
      BY <2>1, DirectlyTells
  <1>2. CASE Once
    BY <1>2, OnceTells
  <1>3. CASE /\ Begin(Command("paste", src, des, Last(src), move, <<>>, "only"),
                      Frame(Front(src), des, {src}))
             /\ UNCHANGED <<disk, failures>>
    BY <1>3, DirectlyTells
  <1>4. ASSUME IsDir(src), IsPrefix(src, des), NEW n \in TmpNames, NEW tmp,
               tmp = Append(Front(src), n), ~IsDir(tmp), MakesDir(tmp) \/ MakesNoDir(tmp),
               Begin(Command("paste", src, des, Last(src), FALSE, tmp, "tmp"),
                     Frame(Front(src), tmp, {src}))
        PROVE  Telling' /\ TellsTheTruth'
    BY <1>4, ByTheWayTells
  <1>5. QED
    BY <1>1, <1>2, <1>3, <1>4 DEF PasteDirOrFile

LEMMA UserCommandTells ==
  ASSUME IInv, UserCommand
  PROVE  Telling' /\ TellsTheTruth'
  <1>1. IsDisk(disk) /\ ClipOK
    BY DEF IInv, DiskOK
  <1>2. ASSUME NEW p \in DOMAIN disk, NEW move \in BOOLEAN, CutOrCopy(p, move)
        PROVE  Telling' /\ TellsTheTruth'
    BY <1>2, OnceTells DEF CutOrCopy
  <1>3. ASSUME NEW p \in DOMAIN disk, NEW move \in BOOLEAN, NEW des \in Directories,
               PasteTo(p, des, move)
        PROVE  Telling' /\ TellsTheTruth'
    BY <1>1, <1>3, OnDisk, PasteDirOrFileTells DEF PasteTo
  <1>4. ASSUME NEW p \in DOMAIN disk, Delete(p) PROVE Telling' /\ TellsTheTruth'
    <2>1. op'.kind # "paste"
      BY <1>4 DEF Delete, Command
    <2>2. QED
      BY <2>1, OthersTell
  <1>5. ASSUME NEW p \in DOMAIN disk, NEW n \in TypedNames, Rename(p, n)
        PROVE  Telling' /\ TellsTheTruth'
    BY <1>5, OnceTells DEF Rename
  <1>6. ASSUME NEW des \in Directories, Paste(des) PROVE Telling' /\ TellsTheTruth'
    <2>1. clip.path \in Paths
      BY <1>1, <1>6 DEF ClipOK, Paths, Paste
    <2>2. QED
      BY <1>1, <1>6, <2>1, PasteDirOrFileTells DEF Paste
  <1>7. ASSUME NEW p, MakeDir(p) PROVE Telling' /\ TellsTheTruth'
    BY <1>7, OnceTells DEF MakeDir
  <1>8. QED
    BY <1>2, <1>3, <1>4, <1>5, <1>6, <1>7 DEF UserCommand

LEMMA TellsInit == Init => TInv
  <1> SUFFICES ASSUME Init PROVE TInv
    OBVIOUS
  <1>1. op.kind # "paste"
    BY DEF Init, Command
  <1>2. QED
    BY <1>1, PastesInit DEF TInv, Telling, TellsTheTruth, Kindly

LEMMA TellsNext == TInv /\ [Next]_vars => TInv'
  <1> SUFFICES ASSUME TInv, [Next]_vars PROVE TInv'
    OBVIOUS
  <1>1. PInv /\ PInv' /\ IInv /\ IInv'
    BY PastesNext DEF TInv, PInv
  <1>2. CASE UserCommand
    BY <1>1, <1>2, UserCommandTells DEF TInv
  <1>3. CASE Walk
    <2>1. /\ stack # <<>> /\ UNCHANGED <<clip, before, given, left>>
          /\ \E p \in Top.todo : \/ (op.kind = "paste" /\ (PasteFile(p) \/ PasteDir(p)))
                                \/ (op.kind = "delete" /\ DeleteEntry(p))
      BY <1>3 DEF Walk
    <2>2. CASE op.kind = "paste"
      BY <1>1, <2>1, <2>2, WalkTells DEF TInv
    <2>3. CASE op.kind = "delete"
      <3>1. op' = op \/ op' = [op EXCEPT !.result = FALSE]
        BY <2>1, <2>3 DEF DeleteEntry, GoOn
      <3>2. SameCommand
        BY <1>1, <2>1, <3>1, OpGoesOn DEF IInv
      <3>3. op'.kind # "paste"
        BY <2>3, <3>2 DEF SameCommand
      <3>4. QED
        BY <1>1, <3>3, OthersTell DEF TInv
    <2>4. QED
      BY <2>1, <2>2, <2>3
  <1>4. CASE Return
    BY <1>1, <1>4, ReturnsTells DEF TInv
  <1>5. CASE PasteFinal
    BY <1>1, <1>5, PasteFinalTells DEF TInv
  <1>6. CASE Finish
    BY <1>1, <1>6, FinishTells DEF TInv
  <1>7. CASE UNCHANGED vars
    <2>1. UNCHANGED <<disk, before, op, stack, asked>>
      BY <1>7 DEF vars
    <2>2. Telling' <=> Telling
      BY <2>1 DEF Telling, Kindly, OverAncestor, Detour, Progress, Deeper, Listed, Stays, Begun,
                  Pending, Source, Goal, Root, Base, Moving, Pasted, Subtree
    <2>3. TellsTheTruth' <=> TellsTheTruth
      BY <2>1 DEF TellsTheTruth, OverAncestor, Place, Pasted, Subtree
    <2>4. QED
      BY <1>1, <2>2, <2>3 DEF TInv
  <1>8. QED
    BY <1>2, <1>3, <1>4, <1>5, <1>6, <1>7 DEF Next

\* If the user was asked nothing, all of the tree that was pasted is where it belongs, one
\* that was moved has left its place, and nothing else is new (PasteDirOrFile, CopyDir).
THEOREM PastesAreTrue == Spec => []TellsTheTruth
  <1>1. TInv => TellsTheTruth
    BY DEF TInv
  <1>2. QED
    BY <1>1, TellsInit, TellsNext, PTL DEF Spec
=============================================================================
