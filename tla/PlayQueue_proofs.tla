-------------------------- MODULE PlayQueue_proofs --------------------------
(***************************************************************************)
(* Theorems about PlayQueue.  The inductive invariant is Sound(q): the     *)
(* order is a permutation of the tracks' indices, in the first-order form  *)
(* that IsPermutation has, and the cursor is an entry of it.  The loop of  *)
(* RemoveRows, a recursive function, is followed from the last row to the  *)
(* first by a least counterexample.  Each edit is then compared with what  *)
(* PlayList says of it.                                                    *)
(***************************************************************************)
EXTENDS PlayQueue, SequenceTheorems, FunctionTheorems, FiniteSetTheorems,
        WellFoundedInduction, NaturalsInduction, TLAPS

-----------------------------------------------------------------------------
(* Numbers and sequences. *)

LEMMA LeastNumber ==
  ASSUME NEW T, T \subseteq Nat, T # {}
  PROVE  \E m \in T : \A k \in T : m <= k
<1>1. PICK m \in T : \A k \in T : <<k, m>> \notin OpToRel(<, Nat)
  BY WFMin, NatLessThanWellFounded, Zenon
<1>2. \A k \in T : ~(k < m)
  BY <1>1, Zenon DEF OpToRel
<1> QED
  BY <1>2

LEMMA MinIs ==
  ASSUME NEW S, NEW x \in S, S \subseteq Int, \A y \in S : x <= y
  PROVE  Min(S) = x
<1>1. Min(S) \in S /\ \A y \in S : Min(S) <= y
  BY DEF Min
<1>2. Min(S) \in Int /\ x \in Int /\ Min(S) <= x /\ x <= Min(S)
  BY <1>1
<1> QED
  BY <1>2

LEMMA MaxIs ==
  ASSUME NEW S, NEW x \in S, S \subseteq Int, \A y \in S : x >= y
  PROVE  Max(S) = x
<1>1. Max(S) \in S /\ \A y \in S : Max(S) >= y
  BY DEF Max
<1>2. Max(S) \in Int /\ x \in Int /\ Max(S) >= x /\ x >= Max(S)
  BY <1>1
<1> QED
  BY <1>2

LEMMA MinPair ==
  ASSUME NEW a \in Int, NEW b \in Int
  PROVE  Min({a, b}) = IF a <= b THEN a ELSE b
<1>1. CASE a <= b
  BY <1>1, MinIs
<1>2. CASE b < a
  BY <1>2, MinIs
<1> QED
  BY <1>1, <1>2

LEMMA MaxPair ==
  ASSUME NEW a \in Int, NEW b \in Int
  PROVE  Max({a, b}) = IF a >= b THEN a ELSE b
<1>1. CASE a >= b
  BY <1>1, MaxIs
<1>2. CASE b > a
  BY <1>2, MaxIs
<1> QED
  BY <1>1, <1>2

\* Where a cursor ends up that is cut to n entries.
LEMMA ClampIs ==
  ASSUME NEW k \in Nat, NEW n \in Nat
  PROVE  Max({1, Min({k, n})}) = IF k <= n /\ k >= 1 THEN k ELSE IF n >= 1 /\ k >= 1 THEN n ELSE 1
<1>1. Min({k, n}) = IF k <= n THEN k ELSE n
  BY MinPair
<1>2. Max({1, Min({k, n})}) = IF 1 >= Min({k, n}) THEN 1 ELSE Min({k, n})
  BY <1>1, MaxPair
<1> QED
  BY <1>1, <1>2

LEMMA PrefixIs ==
  ASSUME NEW S, NEW s \in Seq(S), NEW n \in Nat, n <= Len(s)
  PROVE  /\ SubSeq(s, 1, n) \in Seq(S)
         /\ Len(SubSeq(s, 1, n)) = n
         /\ \A i \in 1..n : SubSeq(s, 1, n)[i] = s[i]
<1>1. \A i \in 1..n : s[i] \in S
  BY ElementOfSeq, LenProperties
<1> QED
  BY <1>1, SubSeqProperties

LEMMA SuffixIs ==
  ASSUME NEW S, NEW s \in Seq(S), NEW m \in Nat \ {0}, m <= Len(s) + 1
  PROVE  /\ SubSeq(s, m, Len(s)) \in Seq(S)
         /\ Len(SubSeq(s, m, Len(s))) = Len(s) - m + 1
         /\ \A i \in 1..(Len(s) - m + 1) : SubSeq(s, m, Len(s))[i] = s[m + i - 1]
<1>0. Len(s) \in Nat
  BY LenProperties
<1>1. \A i \in m..Len(s) : s[i] \in S
  BY <1>0, ElementOfSeq
<1> QED
  BY <1>0, <1>1, SubSeqProperties

LEMMA RemoveAtIs ==
  ASSUME NEW S, NEW s \in Seq(S), NEW p \in 1..Len(s)
  PROVE  /\ RemoveAt(s, p) \in Seq(S)
         /\ Len(RemoveAt(s, p)) = Len(s) - 1
         /\ \A i \in 1..(Len(s) - 1) : RemoveAt(s, p)[i] = IF i < p THEN s[i] ELSE s[i + 1]
<1> DEFINE a == SubSeq(s, 1, p - 1)
           b == SubSeq(s, p + 1, Len(s))
<1>0. Len(s) \in Nat /\ p \in Nat /\ 1 <= p /\ p <= Len(s)
  BY LenProperties
<1>1. a \in Seq(S) /\ Len(a) = p - 1 /\ \A i \in 1..(p - 1) : a[i] = s[i]
  BY <1>0, PrefixIs
<1>2. /\ b \in Seq(S) /\ Len(b) = Len(s) - p
      /\ \A i \in 1..(Len(s) - p) : b[i] = s[p + i]
  <2>1. p + 1 \in Nat \ {0} /\ p + 1 <= Len(s) + 1
    BY <1>0
  <2>2. /\ b \in Seq(S) /\ Len(b) = Len(s) - (p + 1) + 1
        /\ \A i \in 1..(Len(s) - (p + 1) + 1) : b[i] = s[(p + 1) + i - 1]
    BY <2>1, SuffixIs
  <2>3. Len(s) - (p + 1) + 1 = Len(s) - p
    BY <1>0
  <2>4. \A i \in 1..(Len(s) - p) : (p + 1) + i - 1 = p + i
    BY <1>0
  <2> QED
    BY <2>2, <2>3, <2>4
<1>3. RemoveAt(s, p) = a \o b
  BY DEF RemoveAt
<1> HIDE DEF a, b
<1>4. /\ a \o b \in Seq(S)
      /\ Len(a \o b) = Len(a) + Len(b)
      /\ \A i \in 1..(Len(a) + Len(b)) :
           (a \o b)[i] = IF i <= Len(a) THEN a[i] ELSE b[i - Len(a)]
  BY <1>1, <1>2, ConcatProperties
<1>5. Len(a) + Len(b) = Len(s) - 1
  BY <1>0, <1>1, <1>2
<1>6. ASSUME NEW i \in 1..(Len(s) - 1)
      PROVE  (a \o b)[i] = IF i < p THEN s[i] ELSE s[i + 1]
  <2>1. CASE i < p
    <3>1. i <= Len(a) /\ i \in 1..(p - 1)
      BY <2>1, <1>0, <1>1
    <3> QED
      BY <3>1, <1>1, <1>4, <1>5, <2>1
  <2>2. CASE ~(i < p)
    <3>1. ~(i <= Len(a)) /\ i - Len(a) \in 1..(Len(s) - p) /\ p + (i - Len(a)) = i + 1
      BY <2>2, <1>0, <1>1
    <3> QED
      BY <3>1, <1>2, <1>4, <1>5, <2>2
  <2> QED
    BY <2>1, <2>2
<1> QED
  BY <1>3, <1>4, <1>5, <1>6

LEMMA InsertAtIs ==
  ASSUME NEW S, NEW s \in Seq(S), NEW p \in 1..(Len(s) + 1), NEW e \in S
  PROVE  /\ InsertAt(s, p, e) \in Seq(S)
         /\ Len(InsertAt(s, p, e)) = Len(s) + 1
         /\ \A i \in 1..(Len(s) + 1) :
              InsertAt(s, p, e)[i] = IF i < p THEN s[i] ELSE IF i = p THEN e ELSE s[i - 1]
<1> DEFINE a == SubSeq(s, 1, p - 1)
           b == SubSeq(s, p, Len(s))
           m == a \o <<e>>
<1>0. Len(s) \in Nat /\ p \in Nat \ {0} /\ 1 <= p /\ p <= Len(s) + 1
  BY LenProperties
<1>1. a \in Seq(S) /\ Len(a) = p - 1 /\ \A i \in 1..(p - 1) : a[i] = s[i]
  BY <1>0, PrefixIs
<1>2. /\ b \in Seq(S) /\ Len(b) = Len(s) - p + 1
      /\ \A i \in 1..(Len(s) - p + 1) : b[i] = s[p + i - 1]
  BY <1>0, SuffixIs
<1>3. InsertAt(s, p, e) = m \o b
  BY DEF InsertAt
<1>4. <<e>> \in Seq(S) /\ Len(<<e>>) = 1 /\ <<e>>[1] = e
  OBVIOUS
<1> HIDE DEF a, b
<1>5. /\ m \in Seq(S)
      /\ Len(m) = p
      /\ \A i \in 1..p : m[i] = IF i < p THEN s[i] ELSE e
  <2>1. /\ m \in Seq(S)
        /\ Len(m) = Len(a) + 1
        /\ \A i \in 1..(Len(a) + 1) :
             m[i] = IF i <= Len(a) THEN a[i] ELSE <<e>>[i - Len(a)]
    BY <1>1, <1>4, ConcatProperties
  <2>2. Len(a) + 1 = p
    BY <1>0, <1>1
  <2>3. ASSUME NEW i \in 1..p PROVE m[i] = IF i < p THEN s[i] ELSE e
    <3>1. CASE i < p
      <4>1. i <= Len(a) /\ i \in 1..(p - 1)
        BY <3>1, <1>0, <1>1
      <4> QED
        BY <4>1, <1>1, <2>1, <2>2, <3>1
    <3>2. CASE ~(i < p)
      <4>1. ~(i <= Len(a)) /\ i - Len(a) = 1
        BY <3>2, <1>0, <1>1
      <4> QED
        BY <4>1, <1>4, <2>1, <2>2, <3>2
    <3> QED
      BY <3>1, <3>2
  <2> QED
    BY <2>1, <2>2, <2>3
<1> HIDE DEF m
<1>6. /\ m \o b \in Seq(S)
      /\ Len(m \o b) = Len(m) + Len(b)
      /\ \A i \in 1..(Len(m) + Len(b)) :
           (m \o b)[i] = IF i <= Len(m) THEN m[i] ELSE b[i - Len(m)]
  BY <1>2, <1>5, ConcatProperties
<1>7. Len(m) + Len(b) = Len(s) + 1
  BY <1>0, <1>2, <1>5
<1>8. ASSUME NEW i \in 1..(Len(s) + 1)
      PROVE  (m \o b)[i] = IF i < p THEN s[i] ELSE IF i = p THEN e ELSE s[i - 1]
  <2>1. CASE i <= p
    <3>1. i <= Len(m) /\ i \in 1..p
      BY <2>1, <1>0, <1>5
    <3>2. i < p \/ i = p
      BY <2>1, <1>0
    <3>3. (m \o b)[i] = m[i]
      BY <3>1, <1>6, <1>7
    <3>4. m[i] = IF i < p THEN s[i] ELSE e
      BY <3>1, <1>5
    <3> QED
      BY <3>2, <3>3, <3>4
  <2>2. CASE ~(i <= p)
    <3>1. ~(i <= Len(m)) /\ i - Len(m) \in 1..(Len(s) - p + 1) /\ p + (i - Len(m)) - 1 = i - 1
      BY <2>2, <1>0, <1>5
    <3>2. (m \o b)[i] = b[i - Len(m)]
      BY <3>1, <1>6, <1>7
    <3>3. b[i - Len(m)] = s[i - 1]
      BY <3>1, <1>2
    <3>4. ~(i < p) /\ i # p
      BY <2>2, <1>0
    <3> QED
      BY <3>2, <3>3, <3>4
  <2> QED
    BY <2>1, <2>2
<1> QED
  BY <1>3, <1>6, <1>7, <1>8

-----------------------------------------------------------------------------
(* The loop of RemoveRows. *)

\* What one turn of the loop of RemoveRows leaves, having left f[i - 1].
Turn(c, rows, f, i) ==
  IF i = 0 THEN c
  ELSE LET pos == Size(c) + 1 - i
       IN IF pos \in rows THEN RemovePos(f[i - 1], pos) ELSE f[i - 1]

IsSweep(c, rows, n, f) == f = [i \in 0..n |-> Turn(c, rows, f, i)]

LEMMA SweepExists ==
  ASSUME NEW c, NEW rows, NEW n \in Nat
  PROVE  \E f : IsSweep(c, rows, n, f)
<1> DEFINE T == {m \in Nat : ~ \E f : IsSweep(c, rows, m, f)}
<1>1. SUFFICES ASSUME T # {} PROVE FALSE
  OBVIOUS
<1>2. PICK m \in T : \A k \in T : m <= k
  BY <1>1, LeastNumber
<1>3. m # 0
  <2>1. IsSweep(c, rows, 0, [i \in 0..0 |-> c])
    <3>1. \A i \in 0..0 : i = 0
      OBVIOUS
    <3>2. \A i \in 0..0 : Turn(c, rows, [j \in 0..0 |-> c], i) = c
      BY <3>1 DEF Turn
    <3> QED
      BY <3>2 DEF IsSweep
  <2> QED
    BY <2>1, <1>2
<1>4. m - 1 \in Nat /\ m - 1 \notin T
  BY <1>2, <1>3
<1>5. PICK f : IsSweep(c, rows, m - 1, f)
  BY <1>4
<1> DEFINE g == [i \in 0..m |-> Turn(c, rows, f, i)]
<1>6. ASSUME NEW i \in 0..m PROVE Turn(c, rows, g, i) = Turn(c, rows, f, i)
  <2>1. CASE i = 0
    BY <2>1 DEF Turn
  <2>2. CASE i # 0
    <3>1. i - 1 \in 0..(m - 1) /\ i - 1 \in 0..m
      BY <2>2, <1>2
    <3>2. g[i - 1] = Turn(c, rows, f, i - 1)
      BY <3>1
    <3>3. f[i - 1] = Turn(c, rows, f, i - 1)
      BY <3>1, <1>5, Zenon DEF IsSweep
    <3> HIDE DEF g
    <3> QED
      BY <3>2, <3>3, <2>2 DEF Turn
  <2> QED
    BY <2>1, <2>2
<1>7. IsSweep(c, rows, m, g)
  BY <1>6, Zenon DEF IsSweep
<1> QED
  BY <1>7, <1>2

LEMMA RemoveRowsIs ==
  ASSUME NEW c, NEW rows, Size(c) \in Nat
  PROVE  \E f : /\ RemoveRows(c, rows) = f[Size(c)]
                /\ f[0] = c
                /\ \A i \in 1..Size(c) :
                     f[i] = IF Size(c) + 1 - i \in rows
                              THEN RemovePos(f[i - 1], Size(c) + 1 - i) ELSE f[i - 1]
<1> DEFINE n == Size(c)
           f == CHOOSE left : IsSweep(c, rows, n, left)
<1>1. RemoveRows(c, rows) = f[n]
  BY Zenon DEF RemoveRows, IsSweep, Turn
<1>2. IsSweep(c, rows, n, f)
  BY SweepExists
<1> HIDE DEF f
<1>3. \A i \in 0..n : f[i] = Turn(c, rows, f, i)
  BY <1>2, Zenon DEF IsSweep
<1>4. f[0] = c
  BY <1>3 DEF Turn
<1>5. ASSUME NEW i \in 1..n
      PROVE  f[i] = IF Size(c) + 1 - i \in rows
                      THEN RemovePos(f[i - 1], Size(c) + 1 - i) ELSE f[i - 1]
  <2>1. i \in 0..n /\ i # 0
    OBVIOUS
  <2> QED
    BY <2>1, <1>3, Zenon DEF Turn
<1> QED
  BY <1>1, <1>4, <1>5

-----------------------------------------------------------------------------
(* Sound queues. *)

Sound(c) ==
  /\ c \in Queues
  /\ IsPermutation(c.order, Len(c.songs))
  /\ c.cursor \in DOMAIN c.order \/ (c.order = <<>> /\ c.cursor = 1)
  /\ Len(c.songs) <= MaxLen

LEMMA EmptyIs ==
  ASSUME NEW S, NEW s \in Seq(S)
  PROVE  s = <<>> <=> Len(s) = 0
BY EmptySeq

\* The numbers and bounds of a sound queue.
LEMMA SoundIs ==
  ASSUME NEW c, Sound(c)
  PROVE  /\ Len(c.songs) \in Nat
         /\ Len(c.order) = Len(c.songs)
         /\ Size(c) = Len(c.songs)
         /\ c.songs \in Seq(VideoIds)
         /\ c.order \in Seq(1..Len(c.songs))
         /\ DOMAIN c.order = 1..Len(c.songs)
         /\ DOMAIN c.songs = 1..Len(c.songs)
         /\ \A i \in 1..Len(c.songs) : c.order[i] \in 1..Len(c.songs) /\ c.songs[i] \in VideoIds
         /\ \A i, j \in 1..Len(c.songs) : c.order[i] = c.order[j] => i = j
         /\ c.cursor \in Nat /\ 1 <= c.cursor
         /\ c.cursor <= Len(c.songs) \/ (Len(c.songs) = 0 /\ c.cursor = 1)
         /\ c.order = <<>> <=> Len(c.songs) = 0
         /\ c.songs = <<>> <=> Len(c.songs) = 0
         /\ c.shuffle \in BOOLEAN /\ c.repeat \in Repeats
         /\ Len(c.songs) <= MaxLen /\ MaxLen \in Nat
<1>1. c.songs \in Seq(VideoIds) /\ c.order \in Seq(Nat) /\ c.cursor \in Nat /\ c.cursor # 0
      /\ c.shuffle \in BOOLEAN /\ c.repeat \in Repeats
  BY DEF Sound, Queues
<1>2. Len(c.songs) \in Nat /\ DOMAIN c.songs = 1..Len(c.songs)
  BY <1>1, LenProperties
<1>3. Len(c.order) = Len(c.songs) /\ DOMAIN c.order = 1..Len(c.order)
  BY <1>1, LenProperties DEF Sound, IsPermutation
<1>4. \A i \in 1..Len(c.songs) : c.songs[i] \in VideoIds
  BY <1>1, ElementOfSeq
<1>5. /\ \A i \in 1..Len(c.songs) : c.order[i] \in 1..Len(c.songs)
      /\ \A i, j \in 1..Len(c.songs) : c.order[i] = c.order[j] => i = j
  BY DEF Sound, IsPermutation
<1>6. (c.order = <<>> <=> Len(c.songs) = 0) /\ (c.songs = <<>> <=> Len(c.songs) = 0)
  BY <1>1, <1>3, EmptyIs
<1>7. c.cursor <= Len(c.songs) \/ (Len(c.songs) = 0 /\ c.cursor = 1)
  BY <1>1, <1>2, <1>3, <1>6 DEF Sound
<1>8. c.order \in Seq(1..Len(c.songs))
  <2>1. c.order \in [1..Len(c.songs) -> 1..Len(c.songs)]
    BY <1>1, <1>3, <1>5, LenProperties
  <2> QED
    BY <2>1, <1>2, SeqDef
<1>9. Len(c.songs) <= MaxLen /\ MaxLen \in Nat
  BY QueueAssumption DEF Sound
<1> QED
  BY <1>1, <1>2, <1>3, <1>4, <1>5, <1>6, <1>7, <1>8, <1>9 DEF Size

LEMMA SoundIf ==
  ASSUME NEW c,
         c = [songs |-> c.songs, order |-> c.order, cursor |-> c.cursor,
              shuffle |-> c.shuffle, repeat |-> c.repeat],
         c.songs \in Seq(VideoIds), c.order \in Seq(Nat),
         IsPermutation(c.order, Len(c.songs)),
         c.cursor \in Nat, 1 <= c.cursor,
         c.cursor <= Len(c.songs) \/ (Len(c.songs) = 0 /\ c.cursor = 1),
         c.shuffle \in BOOLEAN, c.repeat \in Repeats,
         Len(c.songs) <= MaxLen
  PROVE  Sound(c)
<1>1. c \in Queues
  BY DEF Queues
<1>2. Len(c.songs) \in Nat /\ Len(c.order) = Len(c.songs) /\ DOMAIN c.order = 1..Len(c.songs)
  BY LenProperties DEF IsPermutation
<1>3. c.cursor \in DOMAIN c.order \/ (c.order = <<>> /\ c.cursor = 1)
  BY <1>2, EmptyIs
<1> QED
  BY <1>1, <1>3 DEF Sound

\* A permutation by its first-order description meets every index.
LEMMA PermutationCovers ==
  ASSUME NEW order \in Seq(Nat), NEW n \in Nat, IsPermutation(order, n)
  PROVE  ToSet(order) = 1..n
<1>1. order \in [1..n -> 1..n] /\ \A i, j \in 1..n : order[i] = order[j] => i = j
  BY LenProperties DEF IsPermutation
<1>2. order \in Injection(1..n, 1..n)
  BY <1>1, Fun_IsInj, Zenon
<1>3. IsFiniteSet(1..n) /\ 0 \in Int /\ n \in Int
  BY FS_Interval
<1>4. order \in Surjection(1..n, 1..n)
  BY <1>2, <1>3, FS_Injection, Zenon
<1>5. \A v \in 1..n : \E i \in 1..n : order[i] = v
  BY <1>4, Fun_SurjectionProperties, Zenon
<1>6. DOMAIN order = 1..n
  BY <1>1
<1>7. ASSUME NEW v \in ToSet(order) PROVE v \in 1..n
  BY <1>1, <1>6 DEF ToSet
<1>8. ASSUME NEW v \in 1..n PROVE v \in ToSet(order)
  BY <1>5, <1>6 DEF ToSet
<1> QED
  BY <1>7, <1>8

LEMMA SoundHasShape ==
  ASSUME Sound(q)
  PROVE  QueueShape
<1>1. q.order \in Seq(Nat) /\ Len(q.songs) \in Nat /\ Len(q.order) = Len(q.songs)
  BY SoundIs DEF Sound, Queues
<1>2. ToSet(q.order) = 1..Len(q.songs)
  BY <1>1, PermutationCovers DEF Sound
<1> QED
  BY <1>1, <1>2 DEF QueueShape, Sound

LEMMA EmptyIsSound == Sound(EmptyQueue)
<1> DEFINE e == EmptyQueue
<1>1. e.songs = <<>> /\ e.order = <<>> /\ e.cursor = 1 /\ e.shuffle = FALSE /\ e.repeat = "Off"
  BY DEF EmptyQueue
<1>2. <<>> \in Seq(VideoIds) /\ <<>> \in Seq(Nat) /\ Len(<<>>) = 0
  BY EmptySeq
<1>3. e \in Queues
  BY <1>1, <1>2 DEF Queues, EmptyQueue, Repeats
<1>4. IsPermutation(<<>>, 0)
  BY <1>2 DEF IsPermutation
<1> QED
  BY <1>1, <1>2, <1>3, <1>4, QueueAssumption DEF Sound

LEMMA CursorSound ==
  ASSUME NEW c, Sound(c), NEW pos \in 1..Len(c.songs)
  PROVE  Sound(AtCursor(c, pos))
<1> DEFINE r == AtCursor(c, pos)
<1>1. /\ r = [songs |-> r.songs, order |-> r.order, cursor |-> r.cursor,
              shuffle |-> r.shuffle, repeat |-> r.repeat]
      /\ r.songs = c.songs /\ r.order = c.order /\ r.cursor = pos /\ r.shuffle = c.shuffle
      /\ r.repeat = c.repeat
  BY DEF AtCursor
<1> HIDE DEF r
<1>2. c.order \in Seq(Nat) /\ IsPermutation(c.order, Len(c.songs))
  BY DEF Sound, Queues
<1>3. Len(c.songs) \in Nat /\ Len(c.songs) <= MaxLen /\ c.songs \in Seq(VideoIds)
      /\ c.shuffle \in BOOLEAN /\ c.repeat \in Repeats
  BY SoundIs
<1>4. pos \in Nat /\ 1 <= pos /\ pos <= Len(c.songs)
  BY <1>3
<1>5. /\ r.songs \in Seq(VideoIds) /\ r.order \in Seq(Nat) /\ IsPermutation(r.order, Len(r.songs))
      /\ r.cursor \in Nat /\ 1 <= r.cursor
      /\ r.cursor <= Len(r.songs) \/ (Len(r.songs) = 0 /\ r.cursor = 1)
      /\ r.shuffle \in BOOLEAN /\ r.repeat \in Repeats /\ Len(r.songs) <= MaxLen
  BY <1>1, <1>2, <1>3, <1>4
<1>6. Sound(r)
  BY <1>1, <1>5, SoundIf
<1> QED
  BY <1>6 DEF r

LEMMA RepeatSound ==
  ASSUME NEW c, Sound(c), NEW mode \in Repeats
  PROVE  Sound(WithRepeat(c, mode)) /\ Current(WithRepeat(c, mode)) = Current(c)
<1> DEFINE r == WithRepeat(c, mode)
<1>1. /\ r = [songs |-> r.songs, order |-> r.order, cursor |-> r.cursor,
              shuffle |-> r.shuffle, repeat |-> r.repeat]
      /\ r.songs = c.songs /\ r.order = c.order /\ r.cursor = c.cursor /\ r.shuffle = c.shuffle
      /\ r.repeat = mode
  BY DEF WithRepeat
<1> HIDE DEF r
<1>2. c.order \in Seq(Nat) /\ IsPermutation(c.order, Len(c.songs))
  BY DEF Sound, Queues
<1>3. Sound(r)
  BY <1>1, <1>2, SoundIs, SoundIf
<1> QED
  BY <1>1, <1>3 DEF r, Current, SongAt

-----------------------------------------------------------------------------
(* What a listener sees, and one removal. *)

\* What a listener sees.
LEMMA OrderedIs ==
  ASSUME NEW c, Sound(c)
  PROVE  /\ Ordered(c) \in Seq(VideoIds)
         /\ Len(Ordered(c)) = Size(c)
         /\ DOMAIN Ordered(c) = 1..Size(c)
         /\ \A p \in 1..Size(c) : /\ Ordered(c)[p] = c.songs[c.order[p]]
                                  /\ Ordered(c)[p] = SongAt(c, p)
<1>1. Ordered(c) = [p \in 1..Size(c) |-> c.songs[c.order[p]]] /\ Size(c) \in Nat
  BY SoundIs DEF Ordered
<1>2. \A p \in 1..Size(c) : c.songs[c.order[p]] \in VideoIds
  BY SoundIs
<1>3. Ordered(c) \in [1..Size(c) -> VideoIds]
  BY <1>1, <1>2
<1>4. Ordered(c) \in Seq(VideoIds)
  BY <1>1, <1>3, SeqDef
<1>5. DOMAIN Ordered(c) = 1..Size(c) /\ Len(Ordered(c)) \in Nat /\ DOMAIN Ordered(c) = 1..Len(Ordered(c))
  BY <1>1, <1>4, LenProperties
<1>6. Len(Ordered(c)) = Size(c)
  BY <1>1, <1>5
<1>7. \A p \in 1..Size(c) : SongAt(c, p) = c.songs[c.order[p]]
  BY SoundIs DEF SongAt
<1> QED
  BY <1>1, <1>4, <1>5, <1>6, <1>7

LEMMA CurrentIs ==
  ASSUME NEW c, Sound(c)
  PROVE  /\ Size(c) = 0 => Current(c) = NoSong
         /\ Size(c) # 0 => /\ c.cursor \in 1..Size(c)
                           /\ Current(c) = Ordered(c)[c.cursor]
                           /\ Current(c) # NoSong
<1>1. Size(c) = 0 => Current(c) = NoSong
  <2> HAVE Size(c) = 0
  <2>1. c.cursor \notin DOMAIN c.order
    BY SoundIs
  <2> QED
    BY <2>1 DEF Current, SongAt
<1>2. Size(c) # 0 => c.cursor \in 1..Size(c)
  BY SoundIs
<1>3. Size(c) # 0 => Current(c) = Ordered(c)[c.cursor] /\ Ordered(c)[c.cursor] \in VideoIds
  BY <1>2, OrderedIs, ElementOfSeq DEF Current
<1> QED
  BY <1>1, <1>2, <1>3, QueueAssumption

LEMMA RemovePosIs ==
  ASSUME NEW c, Sound(c), NEW pos \in 1..Size(c)
  PROVE  /\ Sound(RemovePos(c, pos))
         /\ Size(RemovePos(c, pos)) = Size(c) - 1
         /\ RemovePos(c, pos).repeat = c.repeat
         /\ RemovePos(c, pos).shuffle = c.shuffle
         /\ pos < c.cursor => RemovePos(c, pos).cursor = c.cursor - 1
         /\ pos >= c.cursor => RemovePos(c, pos).cursor =
                                 IF c.cursor < Size(c) THEN c.cursor
                                 ELSE IF Size(c) = 1 THEN 1 ELSE Size(c) - 1
         /\ \A p \in 1..(Size(c) - 1) :
              Ordered(RemovePos(c, pos))[p] =
                IF p < pos THEN Ordered(c)[p] ELSE Ordered(c)[p + 1]
<1> DEFINE r == RemovePos(c, pos)
           n == Size(c)
           gone == c.order[pos]
           rest == RemoveAt(c.order, pos)
           order == [i \in 1..(n - 1) |-> IF rest[i] > gone THEN rest[i] - 1 ELSE rest[i]]
           cursor == IF pos < c.cursor THEN c.cursor - 1 ELSE c.cursor
<1>1. /\ n \in Nat /\ n # 0 /\ Len(c.songs) = n /\ Len(c.order) = n /\ gone \in 1..n
      /\ pos \in 1..n /\ c.songs \in Seq(VideoIds) /\ c.order \in Seq(1..n)
      /\ \A i, j \in 1..n : c.order[i] = c.order[j] => i = j
      /\ \A i \in 1..n : c.order[i] \in 1..n
      /\ gone \in 1..Len(c.songs) /\ pos \in 1..Len(c.order)
  <2>1. n \in Nat /\ Len(c.songs) = n /\ Len(c.order) = n /\ c.songs \in Seq(VideoIds)
        /\ c.order \in Seq(1..n)
        /\ (\A i, j \in 1..n : c.order[i] = c.order[j] => i = j)
        /\ \A i \in 1..n : c.order[i] \in 1..n
    <3>1. n = Len(c.songs)
      BY SoundIs
    <3>2. Len(c.songs) \in Nat /\ Len(c.order) = Len(c.songs) /\ c.songs \in Seq(VideoIds)
          /\ c.order \in Seq(1..Len(c.songs))
      BY SoundIs
    <3>3. (\A i, j \in 1..Len(c.songs) : c.order[i] = c.order[j] => i = j)
          /\ \A i \in 1..Len(c.songs) : c.order[i] \in 1..Len(c.songs)
      BY SoundIs
    <3> HIDE DEF n
    <3> QED
      BY <3>1, <3>2, <3>3
  <2>2. pos \in 1..n /\ gone \in 1..n
    BY <2>1
  <2>3. n # 0
    BY <2>1, <2>2
  <2> QED
    BY <2>1, <2>2, <2>3
<1>2. /\ r = [c EXCEPT !.songs = RemoveAt(@, gone), !.order = order,
                       !.cursor = Max({1, Min({cursor, Len(order)})})]
  BY DEF RemovePos
<1>3. /\ c = [songs |-> c.songs, order |-> c.order, cursor |-> c.cursor,
              shuffle |-> c.shuffle, repeat |-> c.repeat]
  BY DEF Sound, Queues
<1> HIDE DEF r, n
<1>4. /\ rest \in Seq(1..n) /\ Len(rest) = n - 1
      /\ \A i \in 1..(n - 1) : rest[i] = IF i < pos THEN c.order[i] ELSE c.order[i + 1]
  <2> HIDE DEF gone
  <2>1. /\ rest \in Seq(1..n) /\ Len(rest) = Len(c.order) - 1
        /\ \A i \in 1..(Len(c.order) - 1) :
             rest[i] = IF i < pos THEN c.order[i] ELSE c.order[i + 1]
    BY <1>1, RemoveAtIs, ZenonT(30)
  <2> QED
    BY <1>1, <2>1
<1>5. /\ RemoveAt(c.songs, gone) \in Seq(VideoIds) /\ Len(RemoveAt(c.songs, gone)) = n - 1
      /\ \A i \in 1..(n - 1) :
           RemoveAt(c.songs, gone)[i] = IF i < gone THEN c.songs[i] ELSE c.songs[i + 1]
  <2> HIDE DEF gone
  <2> DEFINE s == RemoveAt(c.songs, gone)
  <2>1. /\ s \in Seq(VideoIds) /\ Len(s) = Len(c.songs) - 1
        /\ \A i \in 1..(Len(c.songs) - 1) :
             s[i] = IF i < gone THEN c.songs[i] ELSE c.songs[i + 1]
    BY <1>1, RemoveAtIs, ZenonT(30)
  <2> QED
    BY <1>1, <2>1
<1>6. \A i \in 1..(n - 1) : \E j \in 1..n :
        /\ rest[i] = c.order[j] /\ j # pos /\ j = IF i < pos THEN i ELSE i + 1
  <2> TAKE i \in 1..(n - 1)
  <2> DEFINE j == IF i < pos THEN i ELSE i + 1
  <2>1. j \in 1..n /\ j # pos
    BY <1>1
  <2>2. rest[i] = c.order[j]
    BY <1>4
  <2> QED
    BY <2>1, <2>2
<1>7. \A i \in 1..(n - 1) : rest[i] \in 1..n /\ rest[i] # gone
  BY <1>1, <1>6
<1>8. \A i, j \in 1..(n - 1) : rest[i] = rest[j] => i = j
  <2> TAKE i, j \in 1..(n - 1)
  <2>1. PICK x \in 1..n : rest[i] = c.order[x] /\ x = IF i < pos THEN i ELSE i + 1
    BY <1>6
  <2>2. PICK y \in 1..n : rest[j] = c.order[y] /\ y = IF j < pos THEN j ELSE j + 1
    BY <1>6
  <2>3. rest[i] = rest[j] => x = y
    BY <1>1, <2>1, <2>2
  <2>4. x = y => i = j
    BY <1>1, <2>1, <2>2, SMTT(30)
  <2> QED
    BY <2>3, <2>4
<1> HIDE DEF rest, gone
<1>9. \A i \in 1..(n - 1) : order[i] = (IF rest[i] > gone THEN rest[i] - 1 ELSE rest[i])
  OBVIOUS
<1>10. \A i \in 1..(n - 1) : order[i] \in 1..(n - 1)
  <2> TAKE i \in 1..(n - 1)
  <2> HIDE DEF order
  <2>1. rest[i] \in 1..n /\ rest[i] # gone /\ gone \in 1..n /\ n \in Nat
    BY <1>1, <1>7
  <2>2. (IF rest[i] > gone THEN rest[i] - 1 ELSE rest[i]) \in 1..(n - 1)
    BY <2>1
  <2> QED
    BY <2>2, <1>9
<1>11. \A i, j \in 1..(n - 1) : order[i] = order[j] => rest[i] = rest[j]
  BY <1>1, <1>7, <1>9
<1>12. order \in Seq(Nat) /\ Len(order) = n - 1
  <2>1. n - 1 \in Nat
    BY <1>1
  <2>2. order \in [1..(n - 1) -> Nat]
    BY <1>1, <1>10, SMTT(30)
  <2>3. order \in Seq(Nat)
    BY <2>1, <2>2, SeqDef
  <2>4. DOMAIN order = 1..(n - 1) /\ Len(order) \in Nat /\ DOMAIN order = 1..Len(order)
    BY <2>3, LenProperties
  <2> QED
    BY <2>1, <2>3, <2>4
<1> HIDE DEF order
<1>13. IsPermutation(order, n - 1)
  BY <1>8, <1>10, <1>11, <1>12 DEF IsPermutation
<1>14. r.songs = RemoveAt(c.songs, gone) /\ r.order = order
       /\ r.cursor = Max({1, Min({cursor, Len(order)})})
       /\ r.shuffle = c.shuffle /\ r.repeat = c.repeat
       /\ r = [songs |-> r.songs, order |-> r.order, cursor |-> r.cursor,
               shuffle |-> r.shuffle, repeat |-> r.repeat]
  BY <1>2, <1>3
<1>15. cursor \in Nat /\ c.cursor \in Nat /\ 1 <= c.cursor /\ c.cursor <= n /\ 1 <= cursor
  <2>1. /\ c.cursor \in Nat /\ 1 <= c.cursor
        /\ c.cursor <= Len(c.songs) \/ (Len(c.songs) = 0 /\ c.cursor = 1)
    BY SoundIs
  <2>2. pos \in Nat /\ 1 <= pos
    BY <1>1
  <2> QED
    BY <1>1, <2>1, <2>2
<1>16. r.cursor = IF cursor <= n - 1 /\ cursor >= 1 THEN cursor
                  ELSE IF n - 1 >= 1 /\ cursor >= 1 THEN n - 1 ELSE 1
  <2> HIDE DEF cursor
  <2>1. n - 1 \in Nat
    BY <1>1
  <2> QED
    BY <2>1, <1>12, <1>14, <1>15, ClampIs
<1>17. Sound(r)
  <2>1. Len(r.songs) = n - 1 /\ r.songs \in Seq(VideoIds) /\ r.order \in Seq(Nat)
        /\ IsPermutation(r.order, Len(r.songs))
    BY <1>5, <1>12, <1>13, <1>14
  <2>2. /\ r.cursor \in Nat /\ 1 <= r.cursor
        /\ r.cursor <= Len(r.songs) \/ (Len(r.songs) = 0 /\ r.cursor = 1)
    BY <1>1, <1>15, <1>16, <2>1
  <2>3. r.shuffle \in BOOLEAN /\ r.repeat \in Repeats /\ Len(r.songs) <= MaxLen
    BY <1>1, <1>14, <2>1, SoundIs
  <2> QED
    BY <1>14, <2>1, <2>2, <2>3, SoundIf
<1>18. Size(r) = n - 1
  BY <1>12, <1>14 DEF Size
<1>19. pos < c.cursor => r.cursor = c.cursor - 1
  BY <1>1, <1>15, <1>16
<1>20. pos >= c.cursor => r.cursor = IF c.cursor < n THEN c.cursor ELSE IF n = 1 THEN 1 ELSE n - 1
  BY <1>1, <1>15, <1>16
<1>21. ASSUME NEW p \in 1..(n - 1)
       PROVE  Ordered(r)[p] = IF p < pos THEN Ordered(c)[p] ELSE Ordered(c)[p + 1]
  <2> DEFINE j == IF p < pos THEN p ELSE p + 1
  <2>1. Ordered(r)[p] = r.songs[order[p]]
    BY <1>14, <1>17, <1>18, OrderedIs
  <2>2. order[p] \in 1..(n - 1) /\ order[p] = (IF rest[p] > gone THEN rest[p] - 1 ELSE rest[p])
        /\ rest[p] \in 1..n /\ rest[p] # gone
    BY <1>7, <1>9, <1>10
  <2>3. r.songs[order[p]] = IF order[p] < gone THEN c.songs[order[p]] ELSE c.songs[order[p] + 1]
    BY <1>5, <1>14, <2>2
  <2>4. r.songs[order[p]] = c.songs[rest[p]]
    <3>1. CASE rest[p] > gone
      <4>1. order[p] + 1 = rest[p] /\ ~(order[p] < gone)
        BY <3>1, <2>2, <1>1
      <4> QED
        BY <4>1, <2>3
    <3>2. CASE ~(rest[p] > gone)
      <4>1. order[p] = rest[p] /\ order[p] < gone
        BY <3>2, <2>2, <1>1
      <4> QED
        BY <4>1, <2>3
    <3> QED
      BY <3>1, <3>2
  <2>5. j \in 1..n /\ rest[p] = c.order[j]
    <3>1. PICK k \in 1..n : rest[p] = c.order[k] /\ k # pos /\ k = IF p < pos THEN p ELSE p + 1
      BY <1>6
    <3> QED
      BY <3>1
  <2>6. Ordered(c)[j] = c.songs[c.order[j]]
    BY <2>5, OrderedIs DEF n
  <2> QED
    BY <2>1, <2>4, <2>5, <2>6
<1> QED
  BY <1>14, <1>17, <1>18, <1>19, <1>20, <1>21 DEF r, n

-----------------------------------------------------------------------------
(* The loop of RemoveRows keeps what it should. *)

\* What the loop of RemoveRows has made of c when it has visited the positions
\* above k: m says which position of c each position of l was.
Swept(c, rows, k, l, m) ==
  /\ Sound(l)
  /\ l.repeat = c.repeat
  /\ l.shuffle = c.shuffle
  /\ k <= Size(l)
  /\ m \in [1..Size(l) -> 1..Size(c)]
  /\ \A x, y \in 1..Size(l) : x < y => m[x] < m[y]
  /\ \A x \in 1..k : m[x] = x
  /\ \A x \in 1..Size(l) : x > k => m[x] > k /\ m[x] \notin rows
  /\ \A r \in 1..Size(c) : r > k /\ r \notin rows => \E x \in 1..Size(l) : m[x] = r
  /\ \A x \in 1..Size(l) : Ordered(l)[x] = Ordered(c)[m[x]]

\* Where the cursor is then: untouched, or on the first row kept from it on,
\* or on the last row.
Placed(c, rows, k, l, m) ==
  /\ c.cursor <= k => l.cursor = c.cursor
  /\ c.cursor > k /\ (\E r \in 1..Size(c) : r >= c.cursor /\ r \notin rows) =>
       /\ l.cursor \in 1..Size(l)
       /\ m[l.cursor] >= c.cursor
       /\ m[l.cursor] \notin rows
       /\ \A r \in 1..Size(c) : r >= c.cursor /\ r \notin rows => m[l.cursor] <= r
  /\ c.cursor > k /\ ~(\E r \in 1..Size(c) : r >= c.cursor /\ r \notin rows) =>
       l.cursor = IF Size(l) = 0 THEN 1 ELSE Size(l)

LEMMA SweptKeep ==
  ASSUME NEW c, Sound(c), NEW rows, NEW k \in Nat, NEW l, NEW m,
         k + 1 <= Size(c), k + 1 \notin rows, Swept(c, rows, k + 1, l, m)
  PROVE  Swept(c, rows, k, l, m)
<1>1. Size(c) \in Nat /\ Size(l) \in Nat /\ k + 1 <= Size(l)
  BY SoundIs DEF Swept
<1>2. \A x \in 1..Size(l) : x > k => m[x] > k /\ m[x] \notin rows
  <2> TAKE x \in 1..Size(l)
  <2>1. CASE x > k + 1
    BY <2>1, <1>1 DEF Swept
  <2>2. CASE x = k + 1
    BY <2>2, <1>1 DEF Swept
  <2> QED
    BY <2>1, <2>2, <1>1
<1>3. \A r \in 1..Size(c) : r > k /\ r \notin rows => \E x \in 1..Size(l) : m[x] = r
  <2> TAKE r \in 1..Size(c)
  <2>1. CASE r > k + 1
    BY <2>1 DEF Swept
  <2>2. CASE r = k + 1
    <3>1. k + 1 \in 1..Size(l) /\ k + 1 \in 1..(k + 1)
      BY <1>1
    <3>2. m[k + 1] = k + 1
      BY <3>1 DEF Swept
    <3> QED
      BY <2>2, <3>1, <3>2
  <2> QED
    BY <2>1, <2>2, <1>1
<1>4. \A x \in 1..k : x \in 1..(k + 1)
  OBVIOUS
<1> QED
  BY <1>1, <1>2, <1>3, <1>4 DEF Swept

LEMMA PlacedKeep ==
  ASSUME NEW c, Sound(c), NEW rows, NEW k \in Nat, NEW l, NEW m,
         k + 1 <= Size(c), k + 1 \notin rows,
         Swept(c, rows, k + 1, l, m), Placed(c, rows, k + 1, l, m)
  PROVE  Placed(c, rows, k, l, m)
<1>1. Size(c) \in Nat /\ Size(l) \in Nat /\ k + 1 <= Size(l) /\ c.cursor \in Nat
  BY SoundIs DEF Swept
<1>2. CASE c.cursor <= k
  BY <1>1, <1>2 DEF Placed
<1>3. CASE c.cursor = k + 1
  <2>1. l.cursor = k + 1
    BY <1>1, <1>3 DEF Placed
  <2>2. k + 1 \in 1..Size(l) /\ k + 1 \in 1..Size(c) /\ k + 1 \in 1..(k + 1)
    BY <1>1
  <2>3. m[l.cursor] = c.cursor
    BY <1>3, <2>1, <2>2 DEF Swept
  <2>4. \E r \in 1..Size(c) : r >= c.cursor /\ r \notin rows
    BY <1>1, <1>3, <2>2
  <2> QED
    BY <1>1, <1>3, <2>1, <2>2, <2>3, <2>4 DEF Placed
<1>4. CASE c.cursor > k + 1
  BY <1>1, <1>4 DEF Placed
<1> QED
  BY <1>1, <1>2, <1>3, <1>4

\* One removal: the rows above move down.
LEMMA SweptRemove ==
  ASSUME NEW c, Sound(c), NEW rows, NEW k \in Nat, NEW l, NEW m,
         k + 1 <= Size(c), k + 1 \in rows,
         Swept(c, rows, k + 1, l, m), Placed(c, rows, k + 1, l, m)
  PROVE  \E h : /\ Swept(c, rows, k, RemovePos(l, k + 1), h)
                /\ Placed(c, rows, k, RemovePos(l, k + 1), h)
<1> DEFINE d == RemovePos(l, k + 1)
           n == Size(l)
           h == [x \in 1..(n - 1) |-> IF x < k + 1 THEN m[x] ELSE m[x + 1]]
<1>1. /\ Size(c) \in Nat /\ n \in Nat /\ k + 1 <= n /\ c.cursor \in Nat /\ l.cursor \in Nat
      /\ k + 1 \in 1..n /\ n - 1 \in Nat /\ Sound(l)
      /\ l.repeat = c.repeat /\ l.shuffle = c.shuffle
  BY SoundIs DEF Swept
<1>2. /\ m \in [1..n -> 1..Size(c)]
      /\ \A x, y \in 1..n : x < y => m[x] < m[y]
      /\ \A x \in 1..(k + 1) : m[x] = x
      /\ \A x \in 1..n : x > k + 1 => m[x] > k + 1 /\ m[x] \notin rows
      /\ \A r \in 1..Size(c) : r > k + 1 /\ r \notin rows => \E x \in 1..n : m[x] = r
      /\ \A x \in 1..n : Ordered(l)[x] = Ordered(c)[m[x]]
  BY DEF Swept
<1>3. /\ Sound(d) /\ Size(d) = n - 1 /\ d.repeat = c.repeat /\ d.shuffle = c.shuffle
      /\ k + 1 < l.cursor => d.cursor = l.cursor - 1
      /\ k + 1 >= l.cursor => d.cursor = IF l.cursor < n THEN l.cursor ELSE IF n = 1 THEN 1 ELSE n - 1
      /\ \A p \in 1..(n - 1) : Ordered(d)[p] = IF p < k + 1 THEN Ordered(l)[p] ELSE Ordered(l)[p + 1]
  BY <1>1, RemovePosIs
<1> HIDE DEF d, n
<1>4. ASSUME NEW x \in 1..(n - 1)
      PROVE  \E y \in 1..n : /\ h[x] = m[y] /\ y # k + 1
                             /\ y = IF x < k + 1 THEN x ELSE x + 1
  <2> DEFINE y == IF x < k + 1 THEN x ELSE x + 1
  <2>1. y \in 1..n /\ y # k + 1 /\ h[x] = m[y]
    BY <1>1
  <2> QED
    BY <2>1
<1>5. h \in [1..(n - 1) -> 1..Size(c)]
  BY <1>2, <1>4
<1> HIDE DEF h
<1>6. \A x, y \in 1..(n - 1) : x < y => h[x] < h[y]
  <2> SUFFICES ASSUME NEW x \in 1..(n - 1), NEW y \in 1..(n - 1), x < y
               PROVE  h[x] < h[y]
    OBVIOUS
  <2>1. PICK u \in 1..n : h[x] = m[u] /\ u = IF x < k + 1 THEN x ELSE x + 1
    BY <1>4
  <2>2. PICK v \in 1..n : h[y] = m[v] /\ v = IF y < k + 1 THEN y ELSE y + 1
    BY <1>4
  <2>3. u < v
    BY <1>1, <2>1, <2>2
  <2> QED
    BY <1>2, <2>1, <2>2, <2>3
<1>7. \A x \in 1..k : h[x] = x
  <2> TAKE x \in 1..k
  <2>1. x \in 1..(n - 1) /\ x < k + 1 /\ x \in 1..(k + 1)
    BY <1>1
  <2>2. h[x] = m[x]
    BY <1>4, <2>1
  <2> QED
    BY <1>2, <2>1, <2>2
<1>8. \A x \in 1..(n - 1) : x > k => h[x] > k /\ h[x] \notin rows
  <2> SUFFICES ASSUME NEW x \in 1..(n - 1), x > k PROVE h[x] > k /\ h[x] \notin rows
    OBVIOUS
  <2>1. PICK y \in 1..n : h[x] = m[y] /\ y = IF x < k + 1 THEN x ELSE x + 1
    BY <1>4
  <2>2. y > k + 1
    BY <1>1, <2>1
  <2>3. m[y] > k + 1 /\ m[y] \notin rows /\ m[y] \in Nat
    BY <1>2, <2>2
  <2> QED
    BY <2>1, <2>3
<1>9. \A r \in 1..Size(c) : r > k /\ r \notin rows => \E x \in 1..(n - 1) : h[x] = r
  <2> SUFFICES ASSUME NEW r \in 1..Size(c), r > k, r \notin rows
               PROVE  \E x \in 1..(n - 1) : h[x] = r
    OBVIOUS
  <2>1. r > k + 1
    BY <1>1
  <2>2. PICK y \in 1..n : m[y] = r
    BY <1>2, <2>1
  <2>3. y > k + 1
    <3>1. CASE y <= k + 1
      BY <3>1, <1>2, <2>1, <2>2
    <3> QED
      BY <3>1, <1>1
  <2>4. y - 1 \in 1..(n - 1) /\ ~(y - 1 < k + 1) /\ (y - 1) + 1 = y
    BY <1>1, <2>3
  <2>5. h[y - 1] = m[y]
    BY <1>4, <2>4
  <2> QED
    BY <2>2, <2>4, <2>5
<1>10. \A x \in 1..(n - 1) : Ordered(d)[x] = Ordered(c)[h[x]]
  <2> TAKE x \in 1..(n - 1)
  <2>1. PICK y \in 1..n : h[x] = m[y] /\ y = IF x < k + 1 THEN x ELSE x + 1
    BY <1>4
  <2>2. Ordered(d)[x] = Ordered(l)[y]
    BY <1>3, <2>1
  <2> QED
    BY <1>2, <2>1, <2>2
<1>11. Swept(c, rows, k, d, h)
  <2>1. k <= Size(d)
    BY <1>1, <1>3
  <2> QED
    BY <2>1, <1>3, <1>5, <1>6, <1>7, <1>8, <1>9, <1>10 DEF Swept
<1>12. ASSUME c.cursor <= k PROVE d.cursor = c.cursor
  <2>1. l.cursor = c.cursor
    BY <1>1, <1>12 DEF Placed
  <2> QED
    BY <1>1, <1>3, <1>12, <2>1
<1>13. ASSUME c.cursor > k, NEW s \in 1..Size(c), s >= c.cursor, s \notin rows
       PROVE  /\ d.cursor \in 1..(n - 1)
              /\ h[d.cursor] >= c.cursor
              /\ h[d.cursor] \notin rows
              /\ \A r \in 1..Size(c) : r >= c.cursor /\ r \notin rows => h[d.cursor] <= r
  <2>1. CASE c.cursor = k + 1
    <3>1. l.cursor = k + 1 /\ s > k + 1
      BY <1>1, <1>13, <2>1 DEF Placed
    <3>2. PICK y \in 1..n : m[y] = s
      BY <1>2, <1>13, <3>1
    <3>3. y > k + 1
      <4>1. CASE y <= k + 1
        BY <4>1, <1>2, <3>1, <3>2
      <4> QED
        BY <4>1, <1>1
    <3>4. l.cursor < n /\ d.cursor = k + 1 /\ k + 1 \in 1..(n - 1) /\ k + 2 \in 1..n
      BY <1>1, <1>3, <3>1, <3>3
    <3>5. h[k + 1] = m[k + 2]
      <4>1. PICK z \in 1..n : h[k + 1] = m[z] /\ z = IF k + 1 < k + 1 THEN k + 1 ELSE (k + 1) + 1
        BY <1>4, <3>4
      <4> QED
        BY <4>1, <3>4
    <3>6. m[k + 2] > k + 1 /\ m[k + 2] \notin rows /\ m[k + 2] \in Nat
      BY <1>1, <1>2, <3>4
    <3>7. ASSUME NEW r \in 1..Size(c), r >= c.cursor, r \notin rows PROVE m[k + 2] <= r
      <4>1. r > k + 1
        BY <1>1, <2>1, <3>7
      <4>2. PICK z \in 1..n : m[z] = r
        BY <1>2, <3>7, <4>1
      <4>3. z > k + 1
        <5>1. CASE z <= k + 1
          BY <5>1, <1>2, <4>1, <4>2
        <5> QED
          BY <5>1, <1>1
      <4>4. z = k + 2 \/ k + 2 < z
        BY <4>3
      <4> QED
        BY <1>2, <3>4, <3>6, <4>2, <4>4
    <3> QED
      BY <2>1, <3>4, <3>5, <3>6, <3>7
  <2>2. CASE c.cursor > k + 1
    <3>1. /\ l.cursor \in 1..n /\ m[l.cursor] >= c.cursor /\ m[l.cursor] \notin rows
          /\ \A r \in 1..Size(c) : r >= c.cursor /\ r \notin rows => m[l.cursor] <= r
      BY <1>13, <2>2 DEF Placed, n
    <3>2. l.cursor > k + 1
      <4>1. CASE l.cursor <= k + 1
        BY <4>1, <1>2, <2>2, <3>1, <1>1
      <4> QED
        BY <4>1, <1>1
    <3>3. d.cursor = l.cursor - 1 /\ d.cursor \in 1..(n - 1) /\ ~(d.cursor < k + 1)
          /\ d.cursor + 1 = l.cursor
      BY <1>1, <1>3, <3>1, <3>2
    <3>4. h[d.cursor] = m[l.cursor]
      BY <1>4, <3>3
    <3> QED
      BY <3>1, <3>3, <3>4
  <2> QED
    BY <1>1, <1>13, <2>1, <2>2
<1>14. ASSUME c.cursor > k, \A r \in 1..Size(c) : r >= c.cursor => r \in rows
       PROVE  d.cursor = IF n - 1 = 0 THEN 1 ELSE n - 1
  <2>1. CASE c.cursor = k + 1
    <3>1. l.cursor = k + 1
      BY <1>1, <2>1 DEF Placed
    <3>2. n = k + 1
      <4> SUFFICES ASSUME n > k + 1 PROVE FALSE
        BY <1>1
      <4>1. k + 2 \in 1..n
        BY <1>1
      <4>2. m[k + 2] > k + 1 /\ m[k + 2] \notin rows /\ m[k + 2] \in 1..Size(c)
        BY <1>1, <1>2, <4>1
      <4> QED
        BY <1>1, <1>14, <2>1, <4>2
    <3> QED
      BY <1>1, <1>3, <3>1, <3>2
  <2>2. CASE c.cursor > k + 1
    <3>1. l.cursor = IF n = 0 THEN 1 ELSE n
      BY <1>14, <2>2 DEF Placed, n
    <3> QED
      BY <1>1, <1>3, <3>1
  <2> QED
    BY <1>1, <1>14, <2>1, <2>2
<1>15. Placed(c, rows, k, d, h)
  BY <1>3, <1>12, <1>13, <1>14 DEF Placed
<1> QED
  BY <1>11, <1>15 DEF d

\* What RemoveRows leaves of a sound queue: the rows kept, in their order, and
\* the cursor on its track, or on the next one kept, or on the last.
LEMMA RemoveRowsKeeps ==
  ASSUME NEW c, Sound(c), NEW rows
  PROVE  \E m : Swept(c, rows, 0, RemoveRows(c, rows), m) /\ Placed(c, rows, 0, RemoveRows(c, rows), m)
<1> DEFINE n == Size(c)
<1>1. n \in Nat /\ c.cursor \in Nat /\ 1 <= c.cursor /\ (c.cursor <= n \/ n = 0)
  BY SoundIs
<1>2. PICK f : /\ RemoveRows(c, rows) = f[n]
               /\ f[0] = c
               /\ \A i \in 1..n : f[i] = IF n + 1 - i \in rows
                                            THEN RemovePos(f[i - 1], n + 1 - i) ELSE f[i - 1]
  BY <1>1, RemoveRowsIs
<1> DEFINE Good(i) == \E m : Swept(c, rows, n - i, f[i], m) /\ Placed(c, rows, n - i, f[i], m)
           Bad == {i \in 0..n : ~Good(i)}
<1>3. Good(0)
  <2> DEFINE m == [x \in 1..n |-> x]
  <2>1. n - 0 = n /\ f[0] = c
    BY <1>1, <1>2
  <2>2. Swept(c, rows, n, c, m)
    BY <1>1 DEF Swept
  <2>3. Placed(c, rows, n, c, m)
    <3>1. CASE c.cursor <= n
      BY <1>1, <3>1 DEF Placed
    <3>2. CASE n = 0 /\ c.cursor = 1
      BY <3>2 DEF Placed
    <3>3. c.cursor <= n \/ (n = 0 /\ c.cursor = 1)
      BY SoundIs, SMTT(30)
    <3> QED
      BY <3>1, <3>2, <3>3
  <2> QED
    BY <2>1, <2>2, <2>3
<1>4. ASSUME NEW i \in 1..n, Good(i - 1) PROVE Good(i)
  <2> DEFINE k == n - i
  <2>1. k \in Nat /\ k + 1 <= n /\ n - (i - 1) = k + 1 /\ n + 1 - i = k + 1
    BY <1>1
  <2>2. PICK m : Swept(c, rows, n - (i - 1), f[i - 1], m) /\ Placed(c, rows, n - (i - 1), f[i - 1], m)
    BY <1>4
  <2> HIDE DEF k
  <2>3. Swept(c, rows, k + 1, f[i - 1], m) /\ Placed(c, rows, k + 1, f[i - 1], m)
    BY <2>1, <2>2
  <2>4. CASE k + 1 \in rows
    <3>1. f[i] = RemovePos(f[i - 1], k + 1)
      BY <1>2, <2>1, <2>4
    <3>2. \E h : /\ Swept(c, rows, k, RemovePos(f[i - 1], k + 1), h)
                 /\ Placed(c, rows, k, RemovePos(f[i - 1], k + 1), h)
      BY <2>1, <2>3, <2>4, SweptRemove
    <3> QED
      BY <3>1, <3>2 DEF k
  <2>5. CASE k + 1 \notin rows
    <3>1. f[i] = f[i - 1]
      BY <1>2, <2>1, <2>5
    <3>2. Swept(c, rows, k, f[i - 1], m) /\ Placed(c, rows, k, f[i - 1], m)
      BY <2>1, <2>3, <2>5, SweptKeep, PlacedKeep
    <3> QED
      BY <3>1, <3>2 DEF k
  <2> QED
    BY <2>4, <2>5
<1> HIDE DEF Good
<1>5. Bad = {}
  <2> SUFFICES ASSUME Bad # {} PROVE FALSE
    OBVIOUS
  <2>1. Bad \subseteq Nat
    OBVIOUS
  <2>2. PICK i \in Bad : \A j \in Bad : i <= j
    BY <2>1, LeastNumber
  <2>3. i \in 0..n /\ ~Good(i)
    OBVIOUS
  <2>4. i # 0
    BY <1>3, <2>3
  <2>5. i \in 1..n /\ i - 1 \in 0..n /\ ~(i <= i - 1)
    BY <1>1, <2>3, <2>4
  <2>6. i - 1 \notin Bad
    BY <2>2, <2>5
  <2>7. Good(i - 1)
    BY <2>5, <2>6
  <2> QED
    BY <1>4, <2>3, <2>5, <2>7
<1>6. Good(n)
  BY <1>1, <1>5
<1>7. n - n = 0
  BY <1>1
<1> QED
  BY <1>2, <1>6, <1>7 DEF Good

-----------------------------------------------------------------------------
(* The same tracks in another order, and the tracks a block adds. *)

\* t holds the entries of s in some order.
Rearranged(s, t) ==
  /\ Len(s) = Len(t)
  /\ \E p \in SetToSeqs(DOMAIN s) : \A i \in DOMAIN s : t[i] = s[p[i]]

LEMMA PermutationIf ==
  ASSUME NEW n \in Nat, NEW p \in [1..n -> 1..n], \A i, j \in 1..n : p[i] = p[j] => i = j
  PROVE  p \in SetToSeqs(1..n)
<1>1. Cardinality(1..n) = n
  <2>1. Cardinality(1..n) = IF 1 > n THEN 0 ELSE n - 1 + 1
    BY FS_Interval
  <2> QED
    BY <2>1
<1> QED
  BY <1>1 DEF SetToSeqs

\* Two play orders of the same tracks differ by a permutation.
LEMMA OrdersRearranged ==
  ASSUME NEW n \in Nat, NEW o \in Seq(Nat), NEW u \in Seq(Nat),
         IsPermutation(o, n), IsPermutation(u, n)
  PROVE  \E p \in SetToSeqs(1..n) : \A i \in 1..n : p[i] \in 1..n /\ u[i] = o[p[i]]
<1>1. ToSet(o) = 1..n /\ DOMAIN o = 1..n
  BY PermutationCovers, LenProperties DEF IsPermutation
<1>2. \A w \in 1..n : \E v \in 1..n : o[v] = w
  BY <1>1 DEF ToSet
<1>3. /\ \A i \in 1..n : u[i] \in 1..n
      /\ \A i, j \in 1..n : u[i] = u[j] => i = j
  BY DEF IsPermutation
<1> DEFINE p == [i \in 1..n |-> CHOOSE v \in 1..n : o[v] = u[i]]
<1>4. \A i \in 1..n : p[i] \in 1..n /\ o[p[i]] = u[i]
  BY <1>2, <1>3
<1>5. p \in [1..n -> 1..n]
  BY <1>4
<1> HIDE DEF p
<1>6. \A i, j \in 1..n : p[i] = p[j] => i = j
  <2> TAKE i, j \in 1..n
  <2>1. p[i] = p[j] => u[i] = u[j]
    BY <1>4
  <2> QED
    BY <1>3, <2>1
<1>7. p \in SetToSeqs(1..n)
  BY <1>5, <1>6, PermutationIf
<1> QED
  BY <1>4, <1>7

LEMMA SameSongsRearranged ==
  ASSUME NEW c, Sound(c), NEW r, Sound(r), r.songs = c.songs
  PROVE  Rearranged(Ordered(c), Ordered(r))
<1> DEFINE n == Size(c)
<1>1. n \in Nat /\ Size(r) = n /\ Len(c.songs) = n /\ Len(r.songs) = n
  BY SoundIs
<1>2. c.order \in Seq(Nat) /\ r.order \in Seq(Nat) /\ IsPermutation(c.order, n)
      /\ IsPermutation(r.order, n)
  BY <1>1 DEF Sound, Queues
<1> HIDE DEF n
<1>3. PICK p \in SetToSeqs(1..n) : \A i \in 1..n : p[i] \in 1..n /\ r.order[i] = c.order[p[i]]
  BY <1>1, <1>2, OrdersRearranged
<1>4. /\ Len(Ordered(c)) = n /\ Len(Ordered(r)) = n /\ DOMAIN Ordered(c) = 1..n
      /\ \A i \in 1..n : Ordered(c)[i] = c.songs[c.order[i]]
      /\ \A i \in 1..n : Ordered(r)[i] = c.songs[r.order[i]]
  BY <1>1, OrderedIs DEF n
<1>5. \A i \in 1..n : Ordered(r)[i] = Ordered(c)[p[i]]
  BY <1>3, <1>4
<1> QED
  BY <1>4, <1>5 DEF Rearranged

-----------------------------------------------------------------------------
(* Insertions. *)

LEMMA FittingIs ==
  ASSUME NEW c, Sound(c), NEW more \in Seq(VideoIds)
  PROVE  /\ Fitting(c, more) \in Seq(VideoIds)
         /\ Len(Fitting(c, more)) \in Nat
         /\ Len(Fitting(c, more)) <= Len(more)
         /\ Len(c.songs) + Len(Fitting(c, more)) <= MaxLen
         /\ Fitting(c, more) = SubSeq(more, 1, Len(Fitting(c, more)))
         /\ Len(Fitting(c, more)) = 0 <=> Fitting(c, more) = <<>>
<1> DEFINE room == MaxLen - Len(c.songs)
           k == Min({Len(more), room})
<1>1. Len(more) \in Nat /\ room \in Nat /\ Len(c.songs) \in Nat /\ MaxLen \in Nat
  <2>1. Len(c.songs) \in Nat /\ Len(c.songs) <= MaxLen /\ MaxLen \in Nat
    BY SoundIs
  <2> QED
    BY <2>1, LenProperties
<1>2. k = IF Len(more) <= room THEN Len(more) ELSE room
  <2> HIDE DEF room
  <2> QED
    BY <1>1, MinPair
<1>3. Fitting(c, more) = SubSeq(more, 1, k)
  BY DEF Fitting
<1> HIDE DEF k
<1>4. k \in Nat /\ k <= Len(more) /\ Len(c.songs) + k <= MaxLen
  <2>1. room = MaxLen - Len(c.songs)
    OBVIOUS
  <2> HIDE DEF room
  <2>2. k \in Nat /\ k <= Len(more) /\ k <= room
    BY <1>1, <1>2
  <2> QED
    BY <1>1, <2>1, <2>2
<1>5. SubSeq(more, 1, k) \in Seq(VideoIds) /\ Len(SubSeq(more, 1, k)) = k
  BY <1>4, PrefixIs
<1> QED
  BY <1>3, <1>4, <1>5, EmptyIs

LEMMA NewIndicesIs ==
  ASSUME NEW c, Sound(c), NEW more \in Seq(VideoIds)
  PROVE  /\ NewIndices(c, more) \in Seq(Nat)
         /\ Len(NewIndices(c, more)) = Len(Fitting(c, more))
         /\ \A i \in 1..Len(Fitting(c, more)) : NewIndices(c, more)[i] = Len(c.songs) + i
<1> DEFINE k == Len(Fitting(c, more))
           s == NewIndices(c, more)
<1>1. k \in Nat /\ Len(c.songs) \in Nat
  BY FittingIs, SoundIs
<1>2. s = [i \in 1..k |-> Len(c.songs) + i]
  BY DEF NewIndices
<1> HIDE DEF k, s
<1>3. s \in [1..k -> Nat]
  BY <1>1, <1>2
<1>4. s \in Seq(Nat)
  BY <1>1, <1>3, SeqDef
<1>5. Len(s) = k
  <2>1. DOMAIN s = 1..k /\ DOMAIN s = 1..Len(s) /\ Len(s) \in Nat
    BY <1>3, <1>4, LenProperties
  <2> QED
    BY <1>1, <2>1
<1> QED
  BY <1>2, <1>4, <1>5 DEF k, s

\* A block of new indices, shuffled or not.
IsBlock(c, more, block) ==
  /\ block \in Seq(Nat)
  /\ Len(block) = Len(Fitting(c, more))
  /\ \A i \in 1..Len(Fitting(c, more)) :
       block[i] \in Len(c.songs) + 1 .. Len(c.songs) + Len(Fitting(c, more))
  /\ \A i, j \in 1..Len(Fitting(c, more)) : block[i] = block[j] => i = j

LEMMA NewIndicesBlock ==
  ASSUME NEW c, Sound(c), NEW more \in Seq(VideoIds)
  PROVE  IsBlock(c, more, NewIndices(c, more))
<1>1. Len(c.songs) \in Nat /\ Len(Fitting(c, more)) \in Nat
  BY SoundIs, FittingIs
<1> QED
  BY <1>1, NewIndicesIs DEF IsBlock

LEMMA ShuffledBlock ==
  ASSUME NEW c, Sound(c), NEW more \in Seq(VideoIds),
         NEW block \in Shuffled(c, NewIndices(c, more))
  PROVE  IsBlock(c, more, block)
<1> DEFINE k == Len(Fitting(c, more))
           b == Len(c.songs)
           s == NewIndices(c, more)
           S == ToSet(s)
<1>1. k \in Nat /\ b \in Nat
  BY SoundIs, FittingIs
<1>2. s \in Seq(Nat) /\ Len(s) = k /\ \A i \in 1..k : s[i] = b + i
  BY NewIndicesIs
<1>3. CASE ~c.shuffle
  BY <1>3, NewIndicesBlock DEF Shuffled
<1>4. CASE c.shuffle
  <2>1. block \in SetToSeqs(S)
    BY <1>4 DEF Shuffled
  <2> HIDE DEF s, k, b
  <2>2. S = {s[i] : i \in 1..k}
    BY <1>2, LenProperties DEF ToSet
  <2>3. S = b + 1 .. b + k
    <3>1. \A v \in b + 1 .. b + k : v - b \in 1..k /\ b + (v - b) = v
      BY <1>1
    <3>2. \A i \in 1..k : b + i \in b + 1 .. b + k
      BY <1>1
    <3> HIDE DEF S
    <3> QED
      BY <1>2, <2>2, <3>1, <3>2
  <2>4. Cardinality(S) = k
    <3>1. b + 1 \in Int /\ b + k \in Int
      BY <1>1
    <3>2. Cardinality(b + 1 .. b + k) = IF b + 1 > b + k THEN 0 ELSE (b + k) - (b + 1) + 1
      <4> DEFINE x == b + 1
                 y == b + k
      <4>1. x \in Int /\ y \in Int
        BY <3>1
      <4> HIDE DEF x, y
      <4>2. Cardinality(x..y) = IF x > y THEN 0 ELSE y - x + 1
        BY <4>1, FS_Interval
      <4>3. x = b + 1 /\ y = b + k
        BY DEF x, y
      <4> QED
        BY <4>2, <4>3
    <3> QED
      BY <1>1, <2>3, <3>2
  <2> HIDE DEF S
  <2>5. block \in [1..k -> S] /\ \A i, j \in 1..k : i # j => block[i] # block[j]
    BY <2>1, <2>4 DEF SetToSeqs
  <2>6. block \in Seq(Nat)
    <3>1. block \in [1..k -> Nat]
      BY <1>1, <2>3, <2>5
    <3> QED
      BY <1>1, <3>1, SeqDef
  <2>7. Len(block) = k
    <3>1. DOMAIN block = 1..k /\ DOMAIN block = 1..Len(block) /\ Len(block) \in Nat
      BY <2>5, <2>6, LenProperties
    <3> QED
      BY <1>1, <3>1
  <2> QED
    BY <2>3, <2>5, <2>6, <2>7 DEF IsBlock, k, b
<1> QED
  BY <1>3, <1>4

\* r is c with the tracks that fit put behind position at, in the order of block.
Inserted(c, more, at, block, r) ==
  LET k == Len(Fitting(c, more))
  IN /\ r.songs = c.songs \o Fitting(c, more)
     /\ r.order \in Seq(Nat)
     /\ Len(r.order) = Size(c) + k
     /\ \A i \in 1..(Size(c) + k) :
          r.order[i] = IF i <= at THEN c.order[i]
                       ELSE IF i <= at + k THEN block[i - at] ELSE c.order[i - k]

LEMMA InsertedIsSound ==
  ASSUME NEW c, Sound(c), NEW more \in Seq(VideoIds), NEW at \in 0..Size(c),
         NEW block, IsBlock(c, more, block), NEW r, Inserted(c, more, at, block, r),
         r = [songs |-> r.songs, order |-> r.order, cursor |-> r.cursor,
              shuffle |-> r.shuffle, repeat |-> r.repeat],
         r.cursor \in Nat, 1 <= r.cursor,
         r.cursor <= Size(c) + Len(Fitting(c, more))
           \/ (Size(c) + Len(Fitting(c, more)) = 0 /\ r.cursor = 1),
         r.shuffle = c.shuffle, r.repeat = c.repeat
  PROVE  /\ Sound(r)
         /\ Size(r) = Size(c) + Len(Fitting(c, more))
         /\ \A i \in 1..at : Ordered(r)[i] = Ordered(c)[i]
         /\ \A i \in at + 1 .. Size(c) : Ordered(r)[i + Len(Fitting(c, more))] = Ordered(c)[i]
         /\ \A i \in 1..Len(Fitting(c, more)) :
              Ordered(r)[at + i] = Fitting(c, more)[block[i] - Size(c)]
<1> DEFINE n == Size(c)
           fit == Fitting(c, more)
           k == Len(fit)
<1>1. n \in Nat /\ k \in Nat /\ at \in Nat /\ at <= n /\ Len(c.songs) = n /\ n + k <= MaxLen
      /\ n + k \in Nat
  BY SoundIs, FittingIs
<1>2. c.songs \in Seq(VideoIds) /\ fit \in Seq(VideoIds) /\ c.shuffle \in BOOLEAN
      /\ c.repeat \in Repeats
  BY SoundIs, FittingIs
<1>3. /\ \A i \in 1..n : c.order[i] \in 1..n
      /\ \A i, j \in 1..n : c.order[i] = c.order[j] => i = j
  BY <1>1, SoundIs
<1>4. /\ \A i \in 1..k : block[i] \in n + 1 .. n + k
      /\ \A i, j \in 1..k : block[i] = block[j] => i = j
  BY <1>1 DEF IsBlock
<1>5. /\ r.songs = c.songs \o fit /\ r.order \in Seq(Nat) /\ Len(r.order) = n + k
      /\ \A i \in 1..(n + k) :
           r.order[i] = IF i <= at THEN c.order[i]
                        ELSE IF i <= at + k THEN block[i - at] ELSE c.order[i - k]
  BY DEF Inserted
<1> HIDE DEF n, k, fit
<1>6. /\ r.songs \in Seq(VideoIds)
      /\ Len(r.songs) = n + k
      /\ \A i \in 1..n : r.songs[i] = c.songs[i]
      /\ \A i \in n + 1 .. n + k : r.songs[i] = fit[i - n]
  <2>1. /\ r.songs \in Seq(VideoIds)
        /\ Len(r.songs) = Len(c.songs) + Len(fit)
        /\ \A i \in 1..(Len(c.songs) + Len(fit)) :
             r.songs[i] = IF i <= Len(c.songs) THEN c.songs[i] ELSE fit[i - Len(c.songs)]
    BY <1>2, <1>5, ConcatProperties
  <2>2. Len(fit) = k
    BY DEF k
  <2>3. \A i \in 1..(n + k) : r.songs[i] = IF i <= n THEN c.songs[i] ELSE fit[i - n]
    BY <1>1, <2>1, <2>2
  <2>4. \A i \in 1..n : i \in 1..(n + k) /\ i <= n
    BY <1>1
  <2>5. \A i \in n + 1 .. n + k : i \in 1..(n + k) /\ ~(i <= n)
    BY <1>1
  <2>6. Len(r.songs) = n + k
    BY <1>1, <2>1, <2>2
  <2> QED
    BY <2>1, <2>3, <2>4, <2>5, <2>6
<1>7. ASSUME NEW i \in 1..(n + k)
      PROVE  \/ i <= at /\ i \in 1..n /\ r.order[i] = c.order[i]
             \/ i > at /\ i <= at + k /\ i - at \in 1..k /\ r.order[i] = block[i - at]
             \/ i > at + k /\ i - k \in 1..n /\ r.order[i] = c.order[i - k]
  <2>1. \/ i <= at /\ i \in 1..n
        \/ ~(i <= at) /\ i > at /\ i <= at + k /\ i - at \in 1..k
        \/ ~(i <= at) /\ ~(i <= at + k) /\ i > at + k /\ i - k \in 1..n
    BY <1>1
  <2> QED
    BY <1>5, <2>1
<1>8. \A i \in 1..(n + k) : r.order[i] \in 1..(n + k)
  <2> TAKE i \in 1..(n + k)
  <2>1. \A v \in 1..n : v \in 1..(n + k)
    BY <1>1
  <2>2. \A v \in n + 1 .. n + k : v \in 1..(n + k)
    BY <1>1
  <2> QED
    BY <1>3, <1>4, <1>7, <2>1, <2>2
<1>9. \A i, j \in 1..(n + k) : r.order[i] = r.order[j] => i = j
  <2> SUFFICES ASSUME NEW i \in 1..(n + k), NEW j \in 1..(n + k), r.order[i] = r.order[j]
               PROVE  i = j
    OBVIOUS
  <2>0. \A v \in 1..n : v \notin n + 1 .. n + k
    BY <1>1
  <2>1. CASE i <= at
    <3>1. i \in 1..n /\ r.order[i] = c.order[i]
      BY <1>1, <1>7, <2>1
    <3>2. c.order[i] \notin n + 1 .. n + k
      BY <1>3, <2>0, <3>1
    <3>3. \/ j <= at /\ j \in 1..n /\ r.order[j] = c.order[j]
          \/ j > at + k /\ j - k \in 1..n /\ r.order[j] = c.order[j - k]
      BY <1>4, <1>7, <3>1, <3>2
    <3>4. i = j \/ (j > at + k /\ i = j - k)
      BY <1>3, <3>1, <3>3
    <3> QED
      BY <1>1, <2>1, <3>4
  <2>2. CASE i > at /\ i <= at + k
    <3>1. i - at \in 1..k /\ r.order[i] = block[i - at]
      BY <1>1, <1>7, <2>2
    <3>2. block[i - at] \in n + 1 .. n + k
      BY <1>4, <3>1
    <3>3. j > at /\ j <= at + k /\ j - at \in 1..k /\ r.order[j] = block[j - at]
      BY <1>3, <1>7, <2>0, <3>1, <3>2, ZenonT(30)
    <3>4. i - at = j - at
      BY <1>4, <3>1, <3>3
    <3> QED
      BY <1>1, <3>4
  <2>3. CASE i > at + k
    <3>1. i - k \in 1..n /\ r.order[i] = c.order[i - k]
      BY <1>1, <1>7, <2>3, SMTT(30)
    <3>2. c.order[i - k] \notin n + 1 .. n + k
      BY <1>3, <2>0, <3>1
    <3>3. \/ j <= at /\ j \in 1..n /\ r.order[j] = c.order[j]
          \/ j > at + k /\ j - k \in 1..n /\ r.order[j] = c.order[j - k]
      BY <1>4, <1>7, <3>1, <3>2
    <3>4. (j <= at /\ i - k = j) \/ i - k = j - k
      BY <1>3, <3>1, <3>3
    <3> QED
      BY <1>1, <2>3, <3>4
  <2> QED
    BY <1>1, <2>1, <2>2, <2>3
<1>10. IsPermutation(r.order, n + k)
  BY <1>5, <1>8, <1>9 DEF IsPermutation
<1>11. Sound(r)
  <2>1. r.cursor <= n + k \/ (n + k = 0 /\ r.cursor = 1)
    BY DEF n, k, fit
  <2> QED
    BY <1>1, <1>2, <1>5, <1>6, <1>10, <2>1, SoundIf
<1>12. Size(r) = n + k
  BY <1>5 DEF Size
<1>13. /\ \A i \in 1..(n + k) : Ordered(r)[i] = r.songs[r.order[i]]
       /\ \A i \in 1..n : Ordered(c)[i] = c.songs[c.order[i]]
  BY <1>11, <1>12, OrderedIs DEF n
<1>14. \A i \in 1..at : Ordered(r)[i] = Ordered(c)[i]
  <2> TAKE i \in 1..at
  <2>1. i \in 1..n /\ i \in 1..(n + k) /\ i <= at
    BY <1>1
  <2>2. r.order[i] = c.order[i] /\ c.order[i] \in 1..n
    BY <1>3, <1>5, <2>1
  <2> QED
    BY <1>6, <1>13, <2>1, <2>2
<1>15. \A i \in at + 1 .. n : Ordered(r)[i + k] = Ordered(c)[i]
  <2> TAKE i \in at + 1 .. n
  <2>1. i \in 1..n /\ i + k \in 1..(n + k) /\ i + k > at + k /\ (i + k) - k = i
        /\ ~(i + k <= at) /\ ~(i + k <= at + k)
    BY <1>1
  <2>2. r.order[i + k] = c.order[i] /\ c.order[i] \in 1..n
    BY <1>3, <1>5, <2>1
  <2> QED
    BY <1>6, <1>13, <2>1, <2>2
<1>16. \A i \in 1..k : Ordered(r)[at + i] = fit[block[i] - n]
  <2> TAKE i \in 1..k
  <2>1. at + i \in 1..(n + k) /\ ~(at + i <= at) /\ at + i <= at + k /\ (at + i) - at = i
    BY <1>1
  <2>2. r.order[at + i] = block[i] /\ block[i] \in n + 1 .. n + k
    BY <1>4, <1>5, <2>1
  <2> QED
    BY <1>6, <1>13, <2>1, <2>2
<1> QED
  BY <1>11, <1>12, <1>14, <1>15, <1>16 DEF n, k, fit

LEMMA MiddleIs ==
  ASSUME NEW S, NEW s \in Seq(S), NEW a \in Nat, NEW k \in Nat, a + k <= Len(s)
  PROVE  /\ SubSeq(s, a + 1, a + k) \in Seq(S)
         /\ Len(SubSeq(s, a + 1, a + k)) = k
         /\ \A i \in 1..k : SubSeq(s, a + 1, a + k)[i] = s[a + i]
<1>0. Len(s) \in Nat
  BY LenProperties
<1> DEFINE x == a + 1
           y == a + k
<1>1. x \in Int /\ y \in Int /\ (IF x <= y THEN (y - x) + 1 ELSE 0) = k /\ (y - x) + 1 = k
  OBVIOUS
<1>2. \A i \in x..y : i \in 1..Len(s)
  BY <1>0
<1>3. \A i \in x..y : s[i] \in S
  BY <1>2, ElementOfSeq
<1>4. \A i \in 1..k : (x + i) - 1 = a + i
  OBVIOUS
<1> HIDE DEF x, y
<1>5. /\ SubSeq(s, x, y) \in Seq(S)
      /\ Len(SubSeq(s, x, y)) = IF x <= y THEN (y - x) + 1 ELSE 0
      /\ \A i \in 1..((y - x) + 1) : SubSeq(s, x, y)[i] = s[(x + i) - 1]
  BY <1>1, <1>3, SubSeqProperties
<1>6. /\ SubSeq(s, x, y) \in Seq(S)
      /\ Len(SubSeq(s, x, y)) = k
      /\ \A i \in 1..k : SubSeq(s, x, y)[i] = s[a + i]
  BY <1>1, <1>4, <1>5
<1> QED
  BY <1>6 DEF x, y

\* What PlayList says of an insertion, of two queues.
PutBehind(c, r, more, at) ==
  LET n == Len(Ordered(r)) - Len(Ordered(c))
  IN /\ at <= Len(Ordered(c))
     /\ n \in 1..Len(more)
     /\ SubSeq(Ordered(r), 1, at) = SubSeq(Ordered(c), 1, at)
     /\ SubSeq(Ordered(r), at + n + 1, Len(Ordered(r)))
          = SubSeq(Ordered(c), at + 1, Len(Ordered(c)))
     /\ Rearranged(SubSeq(more, 1, n), SubSeq(Ordered(r), at + 1, at + n))

LEMMA InsertedAsList ==
  ASSUME NEW c, Sound(c), NEW more \in Seq(VideoIds), Fitting(c, more) # <<>>,
         NEW at \in 0..Size(c), NEW block, IsBlock(c, more, block),
         NEW r, Sound(r),
         Size(r) = Size(c) + Len(Fitting(c, more)),
         \A i \in 1..at : Ordered(r)[i] = Ordered(c)[i],
         \A i \in at + 1 .. Size(c) : Ordered(r)[i + Len(Fitting(c, more))] = Ordered(c)[i],
         \A i \in 1..Len(Fitting(c, more)) :
           Ordered(r)[at + i] = Fitting(c, more)[block[i] - Size(c)]
  PROVE  PutBehind(c, r, more, at)
<1> DEFINE n == Size(c)
           fit == Fitting(c, more)
           k == Len(fit)
           s == Ordered(c)
           t == Ordered(r)
<1>1. n \in Nat /\ k \in Nat /\ k # 0 /\ at \in Nat /\ at <= n /\ Len(c.songs) = n
      /\ k <= Len(more) /\ Len(more) \in Nat
  <2>1. Len(more) \in Nat
    BY LenProperties
  <2> QED
    BY <2>1, SoundIs, FittingIs
<1>2. s \in Seq(VideoIds) /\ Len(s) = n /\ t \in Seq(VideoIds) /\ Len(t) = n + k
  BY OrderedIs
<1>3. fit = SubSeq(more, 1, k)
  BY FittingIs
<1>4. /\ \A i \in 1..k : block[i] \in n + 1 .. n + k
      /\ \A i, j \in 1..k : block[i] = block[j] => i = j
  BY <1>1 DEF IsBlock
<1>5. /\ \A i \in 1..at : t[i] = s[i]
      /\ \A i \in at + 1 .. n : t[i + k] = s[i]
      /\ \A i \in 1..k : t[at + i] = fit[block[i] - n]
  OBVIOUS
<1> HIDE DEF n, k, fit, s, t
<1>6. SubSeq(t, 1, at) = SubSeq(s, 1, at)
  <2>1. /\ SubSeq(s, 1, at) \in Seq(VideoIds) /\ Len(SubSeq(s, 1, at)) = at
        /\ \A i \in 1..at : SubSeq(s, 1, at)[i] = s[i]
    BY <1>1, <1>2, PrefixIs
  <2>2. /\ SubSeq(t, 1, at) \in Seq(VideoIds) /\ Len(SubSeq(t, 1, at)) = at
        /\ \A i \in 1..at : SubSeq(t, 1, at)[i] = t[i]
    <3>1. at <= Len(t)
      BY <1>1, <1>2
    <3> QED
      BY <1>1, <1>2, <3>1, PrefixIs
  <2>3. \A i \in 1..at : SubSeq(t, 1, at)[i] = SubSeq(s, 1, at)[i]
    BY <1>5, <2>1, <2>2
  <2> QED
    BY <2>1, <2>2, <2>3, SeqEqual
<1>7. SubSeq(t, at + k + 1, Len(t)) = SubSeq(s, at + 1, Len(s))
  <2> DEFINE u == SubSeq(t, at + k + 1, Len(t))
             v == SubSeq(s, at + 1, Len(s))
             x == at + k + 1
             y == at + 1
  <2>1. x \in Nat \ {0} /\ x <= Len(t) + 1 /\ y \in Nat \ {0} /\ y <= Len(s) + 1
        /\ (Len(t) - x) + 1 = n - at /\ (Len(s) - y) + 1 = n - at
    BY <1>1, <1>2
  <2>2. /\ u \in Seq(VideoIds) /\ Len(u) = (Len(t) - x) + 1
        /\ \A i \in 1..((Len(t) - x) + 1) : u[i] = t[(x + i) - 1]
    <3> HIDE DEF x
    <3>1. /\ SubSeq(t, x, Len(t)) \in Seq(VideoIds) /\ Len(SubSeq(t, x, Len(t))) = (Len(t) - x) + 1
          /\ \A i \in 1..((Len(t) - x) + 1) : SubSeq(t, x, Len(t))[i] = t[(x + i) - 1]
      BY <1>2, <2>1, SuffixIs
    <3> QED
      BY <3>1 DEF x
  <2>3. /\ v \in Seq(VideoIds) /\ Len(v) = (Len(s) - y) + 1
        /\ \A i \in 1..((Len(s) - y) + 1) : v[i] = s[(y + i) - 1]
    <3> HIDE DEF y
    <3>1. /\ SubSeq(s, y, Len(s)) \in Seq(VideoIds) /\ Len(SubSeq(s, y, Len(s))) = (Len(s) - y) + 1
          /\ \A i \in 1..((Len(s) - y) + 1) : SubSeq(s, y, Len(s))[i] = s[(y + i) - 1]
      BY <1>2, <2>1, SuffixIs
    <3> QED
      BY <3>1 DEF y
  <2>4. \A i \in 1..(n - at) : /\ (x + i) - 1 = (at + i) + k
                               /\ (y + i) - 1 = at + i
                               /\ at + i \in at + 1 .. n
    BY <1>1
  <2> HIDE DEF u, v, x, y
  <2>5. \A i \in 1..(n - at) : u[i] = v[i]
    <3> TAKE i \in 1..(n - at)
    <3>1. u[i] = t[(at + i) + k]
      BY <2>1, <2>2, <2>4
    <3>2. v[i] = s[at + i]
      BY <2>1, <2>3, <2>4
    <3> QED
      BY <1>5, <2>4, <3>1, <3>2
  <2>6. u = v
    BY <2>1, <2>2, <2>3, <2>5, SeqEqual
  <2> QED
    BY <2>6 DEF u, v
<1>8. Rearranged(SubSeq(more, 1, k), SubSeq(t, at + 1, at + k))
  <2> DEFINE u == SubSeq(t, at + 1, at + k)
             p == [i \in 1..k |-> block[i] - n]
  <2>1. u \in Seq(VideoIds) /\ Len(u) = k /\ \A i \in 1..k : u[i] = t[at + i]
    <3>1. at + k <= Len(t)
      BY <1>1, <1>2
    <3> QED
      BY <1>1, <1>2, <3>1, MiddleIs
  <2>2. p \in [1..k -> 1..k]
    <3>1. \A i \in 1..k : block[i] - n \in 1..k
      BY <1>1, <1>4
    <3> QED
      BY <3>1
  <2>3. \A i, j \in 1..k : p[i] = p[j] => i = j
    <3> TAKE i, j \in 1..k
    <3>1. p[i] = block[i] - n /\ p[j] = block[j] - n
      OBVIOUS
    <3>2. block[i] \in n + 1 .. n + k /\ block[j] \in n + 1 .. n + k
      BY <1>4
    <3> HIDE DEF p
    <3>3. p[i] = p[j] => block[i] = block[j]
      BY <1>1, <3>1, <3>2
    <3> QED
      BY <1>4, <3>3
  <2>4. \A i \in 1..k : p[i] = block[i] - n
    OBVIOUS
  <2> HIDE DEF u, p
  <2>5. p \in SetToSeqs(1..k)
    BY <1>1, <2>2, <2>3, PermutationIf
  <2>6. \A i \in 1..k : u[i] = fit[p[i]]
    BY <1>5, <2>1, <2>4
  <2>7. fit \in Seq(VideoIds) /\ Len(fit) = k /\ DOMAIN fit = 1..k
    <3>1. fit \in Seq(VideoIds) /\ Len(fit) = k
      BY FittingIs DEF fit, k
    <3> QED
      BY <3>1, LenProperties
  <2>8. Rearranged(fit, u)
    BY <2>1, <2>5, <2>6, <2>7 DEF Rearranged
  <2> QED
    BY <1>3, <2>8 DEF u
<1>9. Len(t) - Len(s) = k /\ k \in 1..Len(more) /\ at <= Len(s)
  BY <1>1, <1>2
<1> HIDE DEF s, t
<1> QED
  BY <1>6, <1>7, <1>8, <1>9 DEF PutBehind, s, t

LEMMA ExtendIs ==
  ASSUME NEW c, Sound(c), NEW more \in Seq(VideoIds), NEW r \in Extend(c, more)
  PROVE  /\ Sound(r)
         /\ Size(r) = Size(c) + Len(Fitting(c, more))
         /\ r.cursor = c.cursor /\ r.repeat = c.repeat /\ r.shuffle = c.shuffle
         /\ \A i \in 1..Size(c) : Ordered(r)[i] = Ordered(c)[i]
         /\ Fitting(c, more) # <<>> => PutBehind(c, r, more, Size(c))
<1> DEFINE n == Size(c)
           fit == Fitting(c, more)
           k == Len(fit)
<1>1. PICK block \in Shuffled(c, NewIndices(c, more)) :
        r = [c EXCEPT !.songs = @ \o fit, !.order = @ \o block]
  BY DEF Extend
<1>2. IsBlock(c, more, block)
  BY ShuffledBlock
<1>3. c = [songs |-> c.songs, order |-> c.order, cursor |-> c.cursor,
           shuffle |-> c.shuffle, repeat |-> c.repeat]
  BY DEF Sound, Queues
<1>4. /\ r.songs = c.songs \o fit /\ r.order = c.order \o block /\ r.cursor = c.cursor
      /\ r.shuffle = c.shuffle /\ r.repeat = c.repeat
      /\ r = [songs |-> r.songs, order |-> r.order, cursor |-> r.cursor,
              shuffle |-> r.shuffle, repeat |-> r.repeat]
  BY <1>1, <1>3
<1>5. n \in Nat /\ k \in Nat /\ n \in 0..n /\ Len(c.order) = n /\ c.order \in Seq(Nat)
  BY SoundIs, FittingIs DEF Sound, Queues
<1>6. block \in Seq(Nat) /\ Len(block) = k
  BY <1>2 DEF IsBlock
<1> HIDE DEF n, k, fit
<1>7. /\ r.order \in Seq(Nat) /\ Len(r.order) = n + k
      /\ \A i \in 1..(n + k) : r.order[i] = IF i <= n THEN c.order[i] ELSE block[i - n]
  <2>1. /\ c.order \o block \in Seq(Nat) /\ Len(c.order \o block) = Len(c.order) + Len(block)
        /\ \A i \in 1..(Len(c.order) + Len(block)) :
             (c.order \o block)[i] = IF i <= Len(c.order) THEN c.order[i] ELSE block[i - Len(c.order)]
    BY <1>5, <1>6, ConcatProperties
  <2> QED
    BY <1>4, <1>5, <1>6, <2>1
<1>8. Inserted(c, more, n, block, r)
  <2>1. \A i \in 1..(n + k) :
          r.order[i] = IF i <= n THEN c.order[i]
                       ELSE IF i <= n + k THEN block[i - n] ELSE c.order[i - k]
    BY <1>5, <1>7
  <2> QED
    BY <1>4, <1>7, <2>1 DEF Inserted, n, k, fit
<1>9. /\ r.cursor \in Nat /\ 1 <= r.cursor
      /\ r.cursor <= n + k \/ (n + k = 0 /\ r.cursor = 1)
  <2>1. c.cursor \in Nat /\ 1 <= c.cursor /\ (c.cursor <= n \/ (n = 0 /\ c.cursor = 1))
    <3>1. c.cursor \in Nat /\ 1 <= c.cursor
          /\ (c.cursor <= Len(c.songs) \/ (Len(c.songs) = 0 /\ c.cursor = 1))
      BY SoundIs
    <3>2. n = Len(c.songs)
      BY SoundIs DEF n
    <3> QED
      BY <3>1, <3>2
  <2> QED
    BY <1>4, <1>5, <2>1
<1>10. /\ Sound(r)
       /\ Size(r) = n + k
       /\ \A i \in 1..n : Ordered(r)[i] = Ordered(c)[i]
       /\ \A i \in n + 1 .. n : Ordered(r)[i + k] = Ordered(c)[i]
       /\ \A i \in 1..k : Ordered(r)[n + i] = fit[block[i] - n]
  <2>1. r.cursor <= Size(c) + Len(Fitting(c, more))
          \/ (Size(c) + Len(Fitting(c, more)) = 0 /\ r.cursor = 1)
    BY <1>9 DEF n, k, fit
  <2>2. n = Size(c) /\ k = Len(Fitting(c, more)) /\ fit = Fitting(c, more)
    BY DEF n, k, fit
  <2>3. n \in 0..Size(c) /\ Inserted(c, more, n, block, r)
    BY <2>2, <1>2, <1>4, <1>5, <1>8, <1>9
  <2>4. r.cursor \in Nat /\ 1 <= r.cursor /\ r.shuffle = c.shuffle /\ r.repeat = c.repeat
    BY <1>2, <1>4, <1>5, <1>8, <1>9
  <2>5. r = [songs |-> r.songs, order |-> r.order, cursor |-> r.cursor,
             shuffle |-> r.shuffle, repeat |-> r.repeat]
    BY <1>2, <1>4, <1>5, <1>8, <1>9
  <2>6. IsBlock(c, more, block)
    BY <1>2, <1>4, <1>5, <1>8, <1>9
  <2>7. /\ Sound(r)
        /\ Size(r) = Size(c) + Len(Fitting(c, more))
        /\ \A i \in 1..n : Ordered(r)[i] = Ordered(c)[i]
        /\ \A i \in n + 1 .. Size(c) : Ordered(r)[i + Len(Fitting(c, more))] = Ordered(c)[i]
        /\ \A i \in 1..Len(Fitting(c, more)) :
             Ordered(r)[n + i] = Fitting(c, more)[block[i] - Size(c)]
    BY <2>1, <2>3, <2>4, <2>5, <2>6, InsertedIsSound
  <2> QED
    BY <2>2, <2>7
<1>11. fit # <<>> => PutBehind(c, r, more, n)
  BY <1>2, <1>5, <1>10, InsertedAsList DEF n, k, fit
<1> QED
  BY <1>4, <1>10, <1>11 DEF n, k, fit

LEMMA InsertAfterIs ==
  ASSUME NEW c, Sound(c), NEW more \in Seq(VideoIds)
  PROVE  LET r == InsertAfterCurrent(c, more)
             at == IF Size(c) = 0 THEN 0 ELSE c.cursor
         IN /\ Sound(r)
            /\ Size(r) = Size(c) + Len(Fitting(c, more))
            /\ r.cursor = c.cursor /\ r.repeat = c.repeat /\ r.shuffle = c.shuffle
            /\ \A i \in 1..at : Ordered(r)[i] = Ordered(c)[i]
            /\ Fitting(c, more) # <<>> => PutBehind(c, r, more, at)
<1> DEFINE n == Size(c)
           fit == Fitting(c, more)
           k == Len(fit)
           r == InsertAfterCurrent(c, more)
           at == IF n = 0 THEN 0 ELSE c.cursor
           block == NewIndices(c, more)
           front == SubSeq(c.order, 1, at)
           back == SubSeq(c.order, at + 1, Len(c.order))
<1>1. /\ n \in Nat /\ k \in Nat /\ Len(c.order) = n /\ c.order \in Seq(Nat) /\ c.cursor \in Nat
      /\ 1 <= c.cursor /\ (c.cursor <= n \/ n = 0) /\ (c.order = <<>> <=> n = 0)
  BY SoundIs, FittingIs DEF Sound, Queues
<1>2. r = [c EXCEPT !.songs = @ \o fit, !.order = (front \o block) \o back]
  BY <1>1 DEF InsertAfterCurrent
<1>3. c = [songs |-> c.songs, order |-> c.order, cursor |-> c.cursor,
           shuffle |-> c.shuffle, repeat |-> c.repeat]
  BY DEF Sound, Queues
<1>4. IsBlock(c, more, block) /\ block \in Seq(Nat) /\ Len(block) = k
  BY NewIndicesBlock DEF IsBlock
<1> HIDE DEF n, k, fit, r, block, front, back
<1>5. /\ r.songs = c.songs \o fit /\ r.order = (front \o block) \o back /\ r.cursor = c.cursor
      /\ r.shuffle = c.shuffle /\ r.repeat = c.repeat
      /\ r = [songs |-> r.songs, order |-> r.order, cursor |-> r.cursor,
              shuffle |-> r.shuffle, repeat |-> r.repeat]
  BY <1>2, <1>3
<1>6. at \in Nat /\ at <= n /\ at \in 0..n
  BY <1>1
<1> HIDE DEF at
<1>7. front \in Seq(Nat) /\ Len(front) = at /\ \A i \in 1..at : front[i] = c.order[i]
  BY <1>1, <1>6, PrefixIs DEF front
<1>8. back \in Seq(Nat) /\ Len(back) = n - at /\ \A i \in 1..(n - at) : back[i] = c.order[at + i]
  <2> DEFINE y == at + 1
  <2>1. y \in Nat \ {0} /\ y <= Len(c.order) + 1 /\ (Len(c.order) - y) + 1 = n - at
    BY <1>1, <1>6
  <2>2. \A i \in 1..(n - at) : (y + i) - 1 = at + i
    BY <1>6
  <2> HIDE DEF y
  <2>3. /\ SubSeq(c.order, y, Len(c.order)) \in Seq(Nat)
        /\ Len(SubSeq(c.order, y, Len(c.order))) = (Len(c.order) - y) + 1
        /\ \A i \in 1..((Len(c.order) - y) + 1) :
             SubSeq(c.order, y, Len(c.order))[i] = c.order[(y + i) - 1]
    BY <1>1, <2>1, SuffixIs
  <2>4. back = SubSeq(c.order, y, Len(c.order))
    BY DEF back, y
  <2> QED
    BY <2>1, <2>2, <2>3, <2>4
<1>9. /\ front \o block \in Seq(Nat) /\ Len(front \o block) = at + k
      /\ \A i \in 1..(at + k) : (front \o block)[i] = IF i <= at THEN front[i] ELSE block[i - at]
  BY <1>4, <1>7, ConcatProperties
<1>10. /\ r.order \in Seq(Nat) /\ Len(r.order) = n + k
       /\ \A i \in 1..(n + k) :
            r.order[i] = IF i <= at + k THEN (front \o block)[i] ELSE back[i - (at + k)]
  <2> DEFINE w == front \o block
  <2>1. w \in Seq(Nat) /\ Len(w) = at + k
    BY <1>9
  <2> HIDE DEF w
  <2>2. /\ w \o back \in Seq(Nat) /\ Len(w \o back) = Len(w) + Len(back)
        /\ \A i \in 1..(Len(w) + Len(back)) :
             (w \o back)[i] = IF i <= Len(w) THEN w[i] ELSE back[i - Len(w)]
    BY <1>8, <2>1, ConcatProperties
  <2>3. Len(w) + Len(back) = n + k
    BY <1>1, <1>6, <1>8, <2>1
  <2>4. r.order = w \o back
    BY <1>5 DEF w
  <2> QED
    BY <2>1, <2>2, <2>3, <2>4 DEF w
<1>11. Inserted(c, more, at, block, r)
  <2>1. ASSUME NEW i \in 1..(n + k)
        PROVE  r.order[i] = IF i <= at THEN c.order[i]
                            ELSE IF i <= at + k THEN block[i - at] ELSE c.order[i - k]
    <3>1. CASE i <= at
      <4>1. i \in 1..at /\ i \in 1..(at + k) /\ i <= at + k
        BY <1>1, <1>6, <3>1
      <4> QED
        BY <1>7, <1>9, <1>10, <3>1, <4>1
    <3>2. CASE ~(i <= at) /\ i <= at + k
      <4>1. i \in 1..(at + k)
        BY <1>1, <1>6, <3>2
      <4> QED
        BY <1>9, <1>10, <3>2, <4>1
    <3>3. CASE ~(i <= at) /\ ~(i <= at + k)
      <4>1. i - (at + k) \in 1..(n - at) /\ at + (i - (at + k)) = i - k
        BY <1>1, <1>6, <3>3
      <4>2. back[i - (at + k)] = c.order[i - k]
        BY <1>8, <4>1
      <4> QED
        BY <1>10, <3>3, <4>2
    <3>4. i <= at \/ ~(i <= at)
      OBVIOUS
    <3> QED
      BY <3>1, <3>2, <3>3
  <2> QED
    BY <1>5, <1>10, <2>1 DEF Inserted, n, k, fit
<1>12. /\ r.cursor \in Nat /\ 1 <= r.cursor
       /\ r.cursor <= n + k \/ (n + k = 0 /\ r.cursor = 1)
  <2>1. c.cursor <= n \/ (n = 0 /\ c.cursor = 1)
    BY SoundIs, SMTT(30) DEF n
  <2> QED
    BY <1>1, <1>5, <2>1
<1>13. /\ Sound(r)
       /\ Size(r) = n + k
       /\ \A i \in 1..at : Ordered(r)[i] = Ordered(c)[i]
       /\ \A i \in at + 1 .. n : Ordered(r)[i + k] = Ordered(c)[i]
       /\ \A i \in 1..k : Ordered(r)[at + i] = fit[block[i] - n]
  <2>1. r.cursor <= Size(c) + Len(Fitting(c, more))
          \/ (Size(c) + Len(Fitting(c, more)) = 0 /\ r.cursor = 1)
    BY <1>12 DEF n, k, fit
  <2>2. n = Size(c) /\ k = Len(Fitting(c, more)) /\ fit = Fitting(c, more)
    BY DEF n, k, fit
  <2>3. at \in 0..Size(c) /\ Inserted(c, more, at, block, r)
    BY <2>2, <1>4, <1>5, <1>6, <1>11, <1>12
  <2>4. r.cursor \in Nat /\ 1 <= r.cursor /\ r.shuffle = c.shuffle /\ r.repeat = c.repeat
    BY <1>4, <1>5, <1>6, <1>11, <1>12
  <2>5. r = [songs |-> r.songs, order |-> r.order, cursor |-> r.cursor,
             shuffle |-> r.shuffle, repeat |-> r.repeat]
    BY <1>4, <1>5, <1>6, <1>11, <1>12
  <2>6. IsBlock(c, more, block)
    BY <1>4, <1>5, <1>6, <1>11, <1>12
  <2>7. /\ Sound(r)
        /\ Size(r) = Size(c) + Len(Fitting(c, more))
        /\ \A i \in 1..at : Ordered(r)[i] = Ordered(c)[i]
        /\ \A i \in at + 1 .. Size(c) : Ordered(r)[i + Len(Fitting(c, more))] = Ordered(c)[i]
        /\ \A i \in 1..Len(Fitting(c, more)) :
             Ordered(r)[at + i] = Fitting(c, more)[block[i] - Size(c)]
    BY <2>1, <2>3, <2>4, <2>5, <2>6, InsertedIsSound
  <2> QED
    BY <2>2, <2>7
<1>14. fit # <<>> => PutBehind(c, r, more, at)
  BY <1>4, <1>6, <1>13, InsertedAsList DEF n, k, fit
<1> QED
  BY <1>5, <1>13, <1>14 DEF n, k, fit, r, at

\* play_now_many: the first inserted track is current.
LEMMA PlayNowIs ==
  ASSUME NEW c, Sound(c), NEW more \in Seq(VideoIds)
  PROVE  LET r == PlayNow(c, more)
             at == IF Size(c) = 0 THEN 0 ELSE c.cursor
         IN /\ Sound(r)
            /\ Fitting(c, more) # <<>> => /\ PutBehind(c, r, more, at)
                                          /\ r.cursor = at + 1
<1> DEFINE n == Size(c)
           k == Len(Fitting(c, more))
           l == InsertAfterCurrent(c, more)
           r == PlayNow(c, more)
           at == IF n = 0 THEN 0 ELSE c.cursor
<1>1. /\ Sound(l) /\ Size(l) = n + k /\ l.cursor = c.cursor
      /\ Fitting(c, more) # <<>> => PutBehind(c, l, more, at)
  BY InsertAfterIs
<1>2. /\ n \in Nat /\ k \in Nat /\ (c.order = <<>> <=> n = 0) /\ (k = 0 <=> Fitting(c, more) = <<>>)
      /\ c.cursor \in Nat /\ 1 <= c.cursor /\ (c.cursor <= n \/ (n = 0 /\ c.cursor = 1))
  BY SoundIs, FittingIs
<1>3. CASE n = 0 \/ k = 0
  <2>1. r = l
    BY <1>2, <1>3 DEF PlayNow
  <2>2. k # 0 => r.cursor = at + 1
    BY <1>1, <1>2, <1>3, <2>1
  <2> HIDE DEF l, r
  <2> QED
    BY <1>1, <1>2, <2>1, <2>2 DEF r
<1>4. CASE n # 0 /\ k # 0
  <2>1. r = [l EXCEPT !.cursor = @ + 1]
    BY <1>2, <1>4 DEF PlayNow
  <2>2. l = [songs |-> l.songs, order |-> l.order, cursor |-> l.cursor,
             shuffle |-> l.shuffle, repeat |-> l.repeat]
    BY <1>1 DEF Sound, Queues
  <2> HIDE DEF l, r
  <2>3. r = AtCursor(l, c.cursor + 1)
    BY <1>1, <2>1, <2>2 DEF AtCursor
  <2>4. c.cursor + 1 \in 1..Len(l.songs)
    <3>1. Len(l.songs) = n + k
      BY <1>1, SoundIs
    <3> QED
      BY <1>2, <1>4, <3>1
  <2>5. Sound(r)
    BY <1>1, <2>3, <2>4, CursorSound
  <2>6. Ordered(r) = Ordered(l) /\ r.cursor = c.cursor + 1
    BY <2>3 DEF Ordered, AtCursor
  <2>7. PutBehind(c, r, more, at)
    BY <1>1, <1>2, <1>4, <2>6 DEF PutBehind
  <2> QED
    BY <1>4, <2>5, <2>6, <2>7 DEF r
<1> QED
  BY <1>2, <1>3, <1>4

-----------------------------------------------------------------------------
(* A dragged row. *)

LEMMA MoveItemIs ==
  ASSUME NEW c, Sound(c), NEW from \in 1..Size(c), NEW to \in 1..Size(c)
  PROVE  LET r == MoveItem(c, from, to)
         IN /\ Sound(r)
            /\ Size(r) = Size(c)
            /\ r.songs = c.songs
            /\ r.repeat = c.repeat
            /\ Ordered(r)[r.cursor] = Ordered(c)[c.cursor]
<1> DEFINE n == Size(c)
           o == c.order
           e == o[from]
           s == RemoveAt(o, from)
           t == InsertAt(s, to, e)
           g(i) == IF i < to THEN (IF i < from THEN i ELSE i + 1)
                   ELSE IF i = to THEN from ELSE (IF i - 1 < from THEN i - 1 ELSE i)
           cursor == CASE c.cursor = from                       -> to
                       [] from < c.cursor /\ to >= c.cursor     -> c.cursor - 1
                       [] from > c.cursor /\ to <= c.cursor     -> c.cursor + 1
                       [] OTHER                                 -> c.cursor
           r == MoveItem(c, from, to)
<1>1. n \in Nat /\ from \in 1..n /\ to \in 1..n /\ from \in Nat /\ to \in Nat /\ n # 0
  <2>1. n \in Nat
    BY SoundIs
  <2> HIDE DEF n
  <2>2. from \in 1..n /\ to \in 1..n
    BY DEF n
  <2> QED
    BY <2>1, <2>2
<1>2. /\ c.order \in Seq(1..n) /\ Len(c.order) = n /\ Len(c.songs) = n
      /\ \A i \in 1..n : c.order[i] \in 1..n
      /\ \A i, j \in 1..n : c.order[i] = c.order[j] => i = j
  <2>1. n = Len(c.songs)
    BY SoundIs
  <2>2. /\ c.order \in Seq(1..Len(c.songs)) /\ Len(c.order) = Len(c.songs)
        /\ \A i \in 1..Len(c.songs) : c.order[i] \in 1..Len(c.songs)
        /\ \A i, j \in 1..Len(c.songs) : c.order[i] = c.order[j] => i = j
    BY SoundIs
  <2> HIDE DEF n
  <2> QED
    BY <2>1, <2>2
<1>3. c.cursor \in 1..n
  BY <1>1, CurrentIs
<1>4. c = [songs |-> c.songs, order |-> c.order, cursor |-> c.cursor,
           shuffle |-> c.shuffle, repeat |-> c.repeat]
  BY DEF Sound, Queues
<1>5. r = [c EXCEPT !.order = t, !.cursor = cursor]
  BY DEF MoveItem
<1> HIDE DEF r
<1>6. /\ r.songs = c.songs /\ r.order = t /\ r.cursor = cursor /\ r.shuffle = c.shuffle
      /\ r.repeat = c.repeat
      /\ r = [songs |-> r.songs, order |-> r.order, cursor |-> r.cursor,
              shuffle |-> r.shuffle, repeat |-> r.repeat]
  BY <1>4, <1>5
<1> HIDE DEF n
<1>7. /\ s \in Seq(1..n) /\ Len(s) = n - 1
      /\ \A i \in 1..(n - 1) : s[i] = IF i < from THEN o[i] ELSE o[i + 1]
  <2>1. from \in 1..Len(o)
    BY <1>1, <1>2
  <2>2. /\ s \in Seq(1..n) /\ Len(s) = Len(o) - 1
        /\ \A i \in 1..(Len(o) - 1) : s[i] = IF i < from THEN o[i] ELSE o[i + 1]
    BY <1>2, <2>1, RemoveAtIs
  <2> QED
    BY <1>2, <2>2
<1>8. /\ t \in Seq(1..n) /\ Len(t) = n
      /\ \A i \in 1..n : t[i] = IF i < to THEN s[i] ELSE IF i = to THEN e ELSE s[i - 1]
  <2>1. to \in 1..(Len(s) + 1) /\ e \in 1..n /\ Len(s) + 1 = n
    BY <1>1, <1>2, <1>7
  <2> DEFINE S == 1..n
  <2> HIDE DEF s, e, S
  <2>3. s \in Seq(S) /\ e \in S
    BY <1>7, <2>1 DEF S
  <2>4. /\ t \in Seq(S) /\ Len(t) = Len(s) + 1
        /\ \A i \in 1..(Len(s) + 1) :
             t[i] = IF i < to THEN s[i] ELSE IF i = to THEN e ELSE s[i - 1]
    BY <2>1, <2>3, InsertAtIs
  <2>2. /\ t \in Seq(1..n) /\ Len(t) = Len(s) + 1
        /\ \A i \in 1..(Len(s) + 1) :
             t[i] = IF i < to THEN s[i] ELSE IF i = to THEN e ELSE s[i - 1]
    BY <2>4 DEF S
  <2> QED
    BY <2>1, <2>2
<1>9. ASSUME NEW i \in 1..n PROVE t[i] = o[g(i)] /\ g(i) \in 1..n
  <2>1. CASE i < to
    <3>1. i \in 1..(n - 1)
      BY <1>1, <2>1
    <3>2. t[i] = s[i] /\ s[i] = IF i < from THEN o[i] ELSE o[i + 1]
      BY <1>7, <1>8, <2>1, <3>1
    <3> HIDE DEF s, t
    <3>3. g(i) \in 1..n
      BY <1>1, <2>1
    <3> QED
      BY <2>1, <3>2, <3>3
  <2>2. CASE i = to
    <3> HIDE DEF s
    <3> QED
      BY <1>1, <1>8, <2>2
  <2>3. CASE i > to
    <3>1. i - 1 \in 1..(n - 1) /\ (i - 1) + 1 = i /\ ~(i < to) /\ i # to
      BY <1>1, <2>3
    <3>2. t[i] = s[i - 1] /\ s[i - 1] = IF i - 1 < from THEN o[i - 1] ELSE o[(i - 1) + 1]
      BY <1>7, <1>8, <3>1
    <3> HIDE DEF s, t
    <3>3. g(i) \in 1..n
      BY <1>1, <2>3
    <3> QED
      BY <3>1, <3>2, <3>3
  <2> QED
    BY <1>1, <2>1, <2>2, <2>3
<1> HIDE DEF s, t, e
<1>10. \A i, j \in 1..n : g(i) = g(j) => i = j
  BY <1>1
<1>11. \A i \in 1..n : t[i] \in 1..n
  BY <1>2, <1>9
<1>12. \A i, j \in 1..n : t[i] = t[j] => i = j
  <2> TAKE i, j \in 1..n
  <2>1. t[i] = o[g(i)] /\ g(i) \in 1..n /\ t[j] = o[g(j)] /\ g(j) \in 1..n
    BY <1>9
  <2> HIDE DEF g
  <2>2. t[i] = t[j] => g(i) = g(j)
    BY <1>2, <2>1
  <2> QED
    BY <1>10, <2>2
<1>13. cursor \in 1..n /\ g(cursor) = c.cursor
  <2>1. CASE c.cursor = from
    <3>1. cursor = to
      BY <2>1
    <3> HIDE DEF cursor
    <3> QED
      BY <1>1, <2>1, <3>1
  <2>2. CASE c.cursor # from /\ from < c.cursor /\ to >= c.cursor
    <3>1. cursor = c.cursor - 1
      BY <1>1, <1>3, <2>2
    <3> HIDE DEF cursor
    <3> QED
      BY <1>1, <1>3, <2>2, <3>1
  <2>3. CASE c.cursor # from /\ from > c.cursor /\ to <= c.cursor
    <3>1. cursor = c.cursor + 1
      BY <1>1, <1>3, <2>3
    <3> HIDE DEF cursor
    <3> QED
      BY <1>1, <1>3, <2>3, <3>1
  <2>4. CASE /\ c.cursor # from /\ ~(from < c.cursor /\ to >= c.cursor)
             /\ ~(from > c.cursor /\ to <= c.cursor)
    <3>1. cursor = c.cursor
      BY <2>4
    <3> HIDE DEF cursor
    <3> QED
      BY <1>1, <1>3, <2>4, <3>1
  <2> QED
    BY <2>1, <2>2, <2>3, <2>4
<1> HIDE DEF g, cursor
<1>14. t \in Seq(Nat) /\ IsPermutation(t, n)
  <2>1. t \in Seq(Nat)
    <3>1. 1..n \subseteq Nat
      OBVIOUS
    <3> QED
      BY <1>8, <3>1, SeqMonotonic
  <2> QED
    BY <1>8, <1>11, <1>12, <2>1 DEF IsPermutation
<1>15. Sound(r)
  <2>1. /\ r.songs \in Seq(VideoIds) /\ r.order \in Seq(Nat) /\ IsPermutation(r.order, Len(r.songs))
    BY <1>2, <1>6, <1>14, SoundIs
  <2>2. /\ r.cursor \in Nat /\ 1 <= r.cursor
        /\ r.cursor <= Len(r.songs) \/ (Len(r.songs) = 0 /\ r.cursor = 1)
    BY <1>1, <1>2, <1>6, <1>13
  <2>3. r.shuffle \in BOOLEAN /\ r.repeat \in Repeats /\ Len(r.songs) <= MaxLen
    BY <1>6, SoundIs
  <2> QED
    BY <1>6, <2>1, <2>2, <2>3, SoundIf
<1>16. Size(r) = n
  BY <1>6, <1>8 DEF Size
<1>17. Ordered(r)[r.cursor] = Ordered(c)[c.cursor]
  <2>1. Ordered(r)[r.cursor] = c.songs[t[cursor]]
    BY <1>6, <1>13, <1>15, <1>16, OrderedIs
  <2>2. t[cursor] = o[c.cursor]
    BY <1>9, <1>13
  <2>3. Ordered(c)[c.cursor] = c.songs[o[c.cursor]]
    BY <1>3, OrderedIs DEF n
  <2> QED
    BY <2>1, <2>2, <2>3
<1> QED
  BY <1>6, <1>15, <1>16, <1>17 DEF r, n

-----------------------------------------------------------------------------
(* Shuffles, replacements and restores. *)

\* The tracks and modes of a queue whose order may be stale.
Tracks(c) ==
  /\ c = [songs |-> c.songs, order |-> c.order, cursor |-> c.cursor,
          shuffle |-> c.shuffle, repeat |-> c.repeat]
  /\ c.songs \in Seq(VideoIds)
  /\ Len(c.songs) <= MaxLen
  /\ c.shuffle \in BOOLEAN
  /\ c.repeat \in Repeats

LEMMA RebuildOrderIs ==
  ASSUME NEW c, Tracks(c), NEW keep \in Nat, 1 <= keep,
         c.songs # <<>> => keep <= Len(c.songs),
         NEW r \in RebuildOrder(c, keep)
  PROVE  /\ Sound(r)
         /\ r.songs = c.songs /\ r.shuffle = c.shuffle /\ r.repeat = c.repeat
         /\ c.songs # <<>> => r.order[r.cursor] = keep
<1> DEFINE n == Len(c.songs)
           indices == [i \in 1..n |-> i]
<1>1. /\ n \in Nat /\ (c.songs = <<>> <=> n = 0) /\ (n # 0 => keep <= n)
      /\ c.songs \in Seq(VideoIds) /\ n <= MaxLen /\ c.shuffle \in BOOLEAN /\ c.repeat \in Repeats
  BY LenProperties, EmptyIs DEF Tracks
<1>2. c = [songs |-> c.songs, order |-> c.order, cursor |-> c.cursor,
           shuffle |-> c.shuffle, repeat |-> c.repeat]
  BY DEF Tracks
<1>3. ASSUME NEW o, NEW k, r = [c EXCEPT !.order = o, !.cursor = k]
      PROVE  /\ r.songs = c.songs /\ r.order = o /\ r.cursor = k /\ r.shuffle = c.shuffle
             /\ r.repeat = c.repeat
             /\ r = [songs |-> r.songs, order |-> r.order, cursor |-> r.cursor,
                     shuffle |-> r.shuffle, repeat |-> r.repeat]
  BY <1>2, <1>3
<1>4. CASE c.songs = <<>>
  <2>1. r = [c EXCEPT !.order = <<>>, !.cursor = 1]
    BY <1>4 DEF RebuildOrder
  <2>2. <<>> \in Seq(Nat) /\ IsPermutation(<<>>, 0)
    BY EmptySeq DEF IsPermutation
  <2>3. Sound(r)
    <3>1. n = 0
      BY <1>1, <1>4
    <3>2. /\ r.songs = c.songs /\ r.order = <<>> /\ r.cursor = 1 /\ r.shuffle = c.shuffle
          /\ r.repeat = c.repeat
          /\ r = [songs |-> r.songs, order |-> r.order, cursor |-> r.cursor,
                  shuffle |-> r.shuffle, repeat |-> r.repeat]
      BY <1>3, <2>1
    <3>3. Len(r.songs) = 0
      BY <3>1, <3>2
    <3> QED
      BY <1>1, <2>2, <3>1, <3>2, <3>3, SoundIf
  <2> QED
    BY <1>3, <1>4, <2>1, <2>3
<1>5. CASE c.songs # <<>> /\ c.shuffle
  <2>1. PICK o \in {p \in SetToSeqs(1..n) : p[1] = keep} : r = [c EXCEPT !.order = o, !.cursor = 1]
    BY <1>5 DEF RebuildOrder
  <2>2. Cardinality(1..n) = n
    <3> HIDE DEF n
    <3>1. Cardinality(1..n) = IF 1 > n THEN 0 ELSE (n - 1) + 1
      BY <1>1, FS_Interval
    <3> QED
      BY <1>1, <3>1
  <2> HIDE DEF n
  <2>3. o \in [1..n -> 1..n] /\ \A i, j \in 1..n : i # j => o[i] # o[j]
    BY <2>1, <2>2 DEF SetToSeqs
  <2>4. o \in Seq(Nat) /\ IsPermutation(o, n)
    <3>1. o \in [1..n -> Nat]
      BY <2>3
    <3>2. o \in Seq(Nat)
      BY <1>1, <3>1, SeqDef
    <3>3. Len(o) = n
      <4>1. DOMAIN o = 1..n /\ DOMAIN o = 1..Len(o) /\ Len(o) \in Nat
        BY <2>3, <3>2, LenProperties
      <4> QED
        BY <1>1, <4>1
    <3> QED
      BY <2>3, <3>2, <3>3 DEF IsPermutation
  <2>5. /\ r.songs = c.songs /\ r.order = o /\ r.cursor = 1 /\ r.shuffle = c.shuffle
        /\ r.repeat = c.repeat
        /\ r = [songs |-> r.songs, order |-> r.order, cursor |-> r.cursor,
                shuffle |-> r.shuffle, repeat |-> r.repeat]
    BY <1>3, <2>1
  <2>6. n # 0 /\ 1 <= n
    BY <1>1, <1>5
  <2>7. Len(r.songs) = n
    BY <2>5 DEF n
  <2>8. Sound(r)
    BY <1>1, <2>4, <2>5, <2>6, <2>7, SoundIf
  <2> QED
    BY <2>1, <2>5, <2>8
<1>6. CASE c.songs # <<>> /\ ~c.shuffle
  <2>1. r = [c EXCEPT !.order = indices, !.cursor = Min({keep, n})]
    BY <1>6 DEF RebuildOrder
  <2> HIDE DEF n
  <2>2. Min({keep, n}) = keep /\ n # 0 /\ keep <= n
    BY <1>1, <1>6, MinPair
  <2>3. indices \in [1..n -> 1..n] /\ \A i \in 1..n : indices[i] = i
    OBVIOUS
  <2> HIDE DEF indices
  <2>4. indices \in Seq(Nat) /\ IsPermutation(indices, n)
    <3>1. indices \in [1..n -> Nat]
      BY <2>3
    <3>2. indices \in Seq(Nat)
      BY <1>1, <3>1, SeqDef
    <3>3. Len(indices) = n
      <4>1. DOMAIN indices = 1..n /\ DOMAIN indices = 1..Len(indices) /\ Len(indices) \in Nat
        BY <2>3, <3>2, LenProperties
      <4> QED
        BY <1>1, <4>1
    <3> QED
      BY <2>3, <3>2, <3>3 DEF IsPermutation
  <2>5. /\ r.songs = c.songs /\ r.order = indices /\ r.cursor = keep /\ r.shuffle = c.shuffle
        /\ r.repeat = c.repeat
        /\ r = [songs |-> r.songs, order |-> r.order, cursor |-> r.cursor,
                shuffle |-> r.shuffle, repeat |-> r.repeat]
    BY <1>3, <2>1, <2>2
  <2>7. Len(r.songs) = n
    BY <2>5 DEF n
  <2>8. Sound(r)
    BY <1>1, <2>2, <2>4, <2>5, <2>7, SoundIf
  <2>9. keep \in 1..n
    BY <1>1, <2>2
  <2> QED
    BY <2>3, <2>5, <2>8, <2>9
<1> QED
  BY <1>1, <1>4, <1>5, <1>6

LEMMA SetShuffleIs ==
  ASSUME NEW c, Sound(c), NEW on \in BOOLEAN, NEW r \in SetShuffle(c, on)
  PROVE  /\ Sound(r)
         /\ Size(r) = Size(c)
         /\ r.songs = c.songs
         /\ r.repeat = c.repeat
         /\ Size(c) # 0 => Ordered(r)[r.cursor] = Ordered(c)[c.cursor]
<1> DEFINE n == Size(c)
           d == [c EXCEPT !.shuffle = on]
<1>1. /\ c = [songs |-> c.songs, order |-> c.order, cursor |-> c.cursor,
              shuffle |-> c.shuffle, repeat |-> c.repeat]
      /\ c.order \in Seq(Nat) /\ IsPermutation(c.order, Len(c.songs))
  BY DEF Sound, Queues
<1>2. /\ d.songs = c.songs /\ d.order = c.order /\ d.cursor = c.cursor /\ d.shuffle = on
      /\ d.repeat = c.repeat
      /\ d = [songs |-> d.songs, order |-> d.order, cursor |-> d.cursor,
              shuffle |-> d.shuffle, repeat |-> d.repeat]
  BY <1>1
<1>3. CASE on = c.shuffle \/ c.order = <<>>
  <2>1. r = d
    BY <1>3 DEF SetShuffle
  <2> HIDE DEF d
  <2>2. /\ d.songs \in Seq(VideoIds) /\ d.order \in Seq(Nat)
        /\ IsPermutation(d.order, Len(d.songs)) /\ d.cursor \in Nat /\ 1 <= d.cursor
        /\ d.cursor <= Len(d.songs) \/ (Len(d.songs) = 0 /\ d.cursor = 1)
        /\ d.shuffle \in BOOLEAN /\ d.repeat \in Repeats /\ Len(d.songs) <= MaxLen
    BY <1>1, <1>2, SoundIs
  <2>3. Sound(d)
    BY <1>2, <2>2, SoundIf
  <2>4. Size(d) = Size(c) /\ Ordered(d) = Ordered(c)
    BY <1>2 DEF Size, Ordered
  <2> QED
    BY <1>2, <2>1, <2>3, <2>4
<1>4. CASE ~(on = c.shuffle \/ c.order = <<>>)
  <2> DEFINE keep == c.order[c.cursor]
  <2>1. r \in RebuildOrder(d, keep)
    BY <1>4 DEF SetShuffle
  <2> HIDE DEF d
  <2>2. n # 0 /\ c.cursor \in 1..n /\ n = Len(c.songs)
    BY <1>4, SoundIs, CurrentIs
  <2>3. keep \in 1..Len(c.songs) /\ Len(c.songs) \in Nat
    BY <2>2, SoundIs
  <2>4. keep \in Nat /\ 1 <= keep /\ keep <= Len(d.songs)
    BY <1>2, <2>3
  <2>5. Tracks(d)
    <3>1. c.songs \in Seq(VideoIds) /\ Len(c.songs) <= MaxLen /\ c.repeat \in Repeats
      BY SoundIs
    <3> QED
      BY <1>2, <3>1 DEF Tracks
  <2>6. d.songs # <<>>
    BY <1>2, <2>2, SoundIs
  <2> HIDE DEF keep
  <2>7. /\ Sound(r) /\ r.songs = d.songs /\ r.repeat = d.repeat
        /\ r.order[r.cursor] = keep
    BY <2>1, <2>4, <2>5, <2>6, RebuildOrderIs
  <2>8. Size(r) = n /\ r.cursor \in 1..Size(r)
    <3>1. Size(r) = Len(r.songs)
      BY <2>7, SoundIs
    <3>2. Size(r) = n
      BY <1>2, <2>2, <2>7, <3>1
    <3> QED
      BY <2>2, <2>7, <3>2, CurrentIs
  <2>9. Ordered(r)[r.cursor] = c.songs[keep]
    BY <1>2, <2>7, <2>8, OrderedIs
  <2>10. Ordered(c)[c.cursor] = c.songs[keep]
    BY <2>2, OrderedIs DEF keep
  <2> QED
    BY <1>2, <2>7, <2>8, <2>9, <2>10
<1> QED
  BY <1>3, <1>4

\* A sound queue plays its tracks in some order.
LEMMA SongsRearranged ==
  ASSUME NEW r, Sound(r)
  PROVE  Rearranged(r.songs, Ordered(r))
<1> DEFINE n == Size(r)
<1>1. /\ n \in Nat /\ Len(r.songs) = n /\ DOMAIN r.songs = 1..n /\ Len(Ordered(r)) = n
      /\ \A i \in 1..n : Ordered(r)[i] = r.songs[r.order[i]]
  BY SoundIs, OrderedIs
<1>2. Len(r.order) = n /\ r.order \in Seq(Nat)
  BY SoundIs DEF Sound, Queues
<1>3. /\ \A i \in 1..n : r.order[i] \in 1..n
      /\ \A i, j \in 1..n : r.order[i] = r.order[j] => i = j
  BY <1>1 DEF Sound, IsPermutation
<1> HIDE DEF n
<1>4. r.order \in [1..n -> 1..n]
  BY <1>2, <1>3, LenProperties
<1>5. r.order \in SetToSeqs(1..n)
  BY <1>1, <1>3, <1>4, PermutationIf
<1> QED
  BY <1>1, <1>5 DEF Rearranged

\* What PlayList says of a replacement.
PutInstead(r, songs) ==
  /\ Len(Ordered(r)) = Min({Len(songs), MaxLen})
  /\ Rearranged(SubSeq(songs, 1, Len(Ordered(r))), Ordered(r))
  /\ Ordered(r) # <<>> => r.cursor \in DOMAIN Ordered(r)

LEMMA ReplacedIs ==
  ASSUME NEW c, Sound(c), NEW songs \in Seq(VideoIds), NEW start \in Nat, 1 <= start,
         NEW r \in Replaced(c, songs, start)
  PROVE  /\ Sound(r)
         /\ r.songs = SubSeq(songs, 1, Min({Len(songs), MaxLen}))
<1> DEFINE k == Min({Len(songs), MaxLen})
           kept == SubSeq(songs, 1, k)
           d == [c EXCEPT !.songs = kept]
           keep == Min({start, Max({1, Len(kept)})})
<1>1. Len(songs) \in Nat /\ MaxLen \in Nat
  BY LenProperties, QueueAssumption
<1>2. k \in Nat /\ k <= Len(songs) /\ k <= MaxLen
  <2>1. k = IF Len(songs) <= MaxLen THEN Len(songs) ELSE MaxLen
    BY <1>1, MinPair
  <2> HIDE DEF k
  <2> QED
    BY <1>1, <2>1
<1>3. r \in RebuildOrder(d, keep)
  BY DEF Replaced
<1> HIDE DEF k
<1>4. kept \in Seq(VideoIds) /\ Len(kept) = k
  BY <1>2, PrefixIs
<1>5. c = [songs |-> c.songs, order |-> c.order, cursor |-> c.cursor,
           shuffle |-> c.shuffle, repeat |-> c.repeat]
      /\ c.shuffle \in BOOLEAN /\ c.repeat \in Repeats
  BY DEF Sound, Queues
<1> HIDE DEF kept
<1>6. Tracks(d) /\ d.songs = kept
  <2>1. /\ d.songs = kept /\ d.shuffle = c.shuffle /\ d.repeat = c.repeat
        /\ d = [songs |-> d.songs, order |-> d.order, cursor |-> d.cursor,
                shuffle |-> d.shuffle, repeat |-> d.repeat]
    BY <1>5
  <2> HIDE DEF d
  <2> QED
    BY <1>2, <1>4, <1>5, <2>1 DEF Tracks
<1>7. keep \in Nat /\ 1 <= keep /\ (d.songs # <<>> => keep <= Len(d.songs))
  <2> DEFINE m == Max({1, k})
  <2>1. m = IF 1 >= k THEN 1 ELSE k
    BY <1>2, MaxPair
  <2> HIDE DEF m
  <2>2. m \in Nat /\ 1 <= m /\ (k # 0 => m <= k)
    BY <1>2, <2>1
  <2>3. keep = IF start <= m THEN start ELSE m
    <3>1. keep = Min({start, m})
      BY <1>4 DEF m
    <3> HIDE DEF keep
    <3> QED
      BY <2>2, <3>1, MinPair
  <2> HIDE DEF keep, d
  <2>4. d.songs # <<>> => k # 0
    BY <1>4, <1>6, EmptyIs
  <2> QED
    BY <1>4, <1>6, <2>2, <2>3, <2>4
<1> HIDE DEF d, keep
<1>8. Sound(r) /\ r.songs = d.songs
  BY <1>3, <1>6, <1>7, RebuildOrderIs
<1> QED
  BY <1>6, <1>8 DEF kept, k

LEMMA ReplacementIs ==
  ASSUME NEW c, Sound(c), NEW songs \in Seq(VideoIds), NEW start \in Nat, 1 <= start,
         NEW override \in {"keep", "on", "off"},
         NEW r \in Replacement(c, songs, start, override)
  PROVE  Sound(r) /\ PutInstead(r, songs)
<1> DEFINE k == Min({Len(songs), MaxLen})
<1>1. Sound(r) /\ r.songs = SubSeq(songs, 1, k)
  <2>1. CASE override = "keep"
    <3>1. r \in Replaced(c, songs, start)
      BY <2>1 DEF Replacement
    <3> QED
      BY <3>1, ReplacedIs
  <2>2. CASE override # "keep"
    <3>1. PICK d \in Replaced(c, songs, start) : r \in SetShuffle(d, override = "on")
      BY <2>2 DEF Replacement
    <3>2. Sound(d) /\ d.songs = SubSeq(songs, 1, k)
      BY <3>1, ReplacedIs
    <3> DEFINE on == override = "on"
    <3>3. on \in BOOLEAN /\ r \in SetShuffle(d, on)
      BY <3>1
    <3> HIDE DEF on, k
    <3>4. Sound(r) /\ r.songs = d.songs
      BY <3>2, <3>3, SetShuffleIs
    <3> QED
      BY <3>2, <3>4
  <2> QED
    BY <2>1, <2>2
<1>2. Len(songs) \in Nat /\ MaxLen \in Nat
  BY LenProperties, QueueAssumption
<1>3. k \in Nat /\ k <= Len(songs)
  <2>1. k = IF Len(songs) <= MaxLen THEN Len(songs) ELSE MaxLen
    BY <1>2, MinPair
  <2> HIDE DEF k
  <2> QED
    BY <1>2, <2>1
<1>4. Len(r.songs) = k
  <2> HIDE DEF k
  <2> QED
    BY <1>1, <1>3, PrefixIs
<1>5. Len(Ordered(r)) = k
  BY <1>1, <1>4, OrderedIs, SoundIs
<1>6. Rearranged(r.songs, Ordered(r))
  BY <1>1, SongsRearranged
<1>7. Ordered(r) # <<>> => r.cursor \in DOMAIN Ordered(r)
  <2>1. Size(r) # 0 => r.cursor \in 1..Size(r)
    BY <1>1, CurrentIs
  <2>2. DOMAIN Ordered(r) = 1..Size(r) /\ Ordered(r) \in Seq(VideoIds) /\ Len(Ordered(r)) = Size(r)
    BY <1>1, OrderedIs
  <2> QED
    BY <2>1, <2>2, EmptyIs
<1> QED
  BY <1>1, <1>5, <1>6, <1>7 DEF PutInstead

LEMMA RestoreIs ==
  ASSUME NEW c, NEW snapshot \in Queues, NEW r \in RestoreSnapshot(c, snapshot)
  PROVE  Sound(r)
<1> DEFINE m == Min({Len(snapshot.songs), MaxLen})
           kept == SubSeq(snapshot.songs, 1, m)
           n == Len(kept)
           restored == [snapshot EXCEPT !.songs = kept]
           cursor == Max({1, Min({snapshot.cursor, n})})
<1>1. /\ snapshot = [songs |-> snapshot.songs, order |-> snapshot.order, cursor |-> snapshot.cursor,
                     shuffle |-> snapshot.shuffle, repeat |-> snapshot.repeat]
      /\ snapshot.songs \in Seq(VideoIds) /\ snapshot.order \in Seq(Nat)
      /\ snapshot.cursor \in Nat /\ snapshot.cursor # 0
      /\ snapshot.shuffle \in BOOLEAN /\ snapshot.repeat \in Repeats
  BY DEF Queues
<1>2. Len(snapshot.songs) \in Nat /\ MaxLen \in Nat
  BY <1>1, LenProperties, QueueAssumption
<1>3. m \in Nat /\ m <= Len(snapshot.songs) /\ m <= MaxLen
  <2>1. m = IF Len(snapshot.songs) <= MaxLen THEN Len(snapshot.songs) ELSE MaxLen
    BY <1>2, MinPair
  <2> HIDE DEF m
  <2> QED
    BY <1>2, <2>1
<1>4. r \in IF IsPermutation(snapshot.order, n)
              THEN {[restored EXCEPT !.cursor = cursor]}
              ELSE RebuildOrder(restored, cursor)
  BY DEF RestoreSnapshot
<1> HIDE DEF m
<1>5. kept \in Seq(VideoIds) /\ n = m
  BY <1>1, <1>3, PrefixIs
<1> HIDE DEF kept
<1>6. /\ restored.songs = kept /\ restored.order = snapshot.order
      /\ restored.shuffle = snapshot.shuffle /\ restored.repeat = snapshot.repeat
      /\ restored = [songs |-> restored.songs, order |-> restored.order,
                     cursor |-> restored.cursor, shuffle |-> restored.shuffle,
                     repeat |-> restored.repeat]
  BY <1>1
<1>7. n \in Nat /\ n <= MaxLen /\ (kept = <<>> <=> n = 0)
  BY <1>3, <1>5, EmptyIs
<1> HIDE DEF restored
<1>8. /\ cursor \in Nat /\ 1 <= cursor
      /\ cursor <= n \/ (n = 0 /\ cursor = 1)
  <2> HIDE DEF n
  <2>1. cursor = IF snapshot.cursor <= n /\ snapshot.cursor >= 1 THEN snapshot.cursor
                 ELSE IF n >= 1 /\ snapshot.cursor >= 1 THEN n ELSE 1
    BY <1>1, <1>7, ClampIs
  <2> HIDE DEF cursor
  <2> QED
    BY <1>1, <1>7, <2>1
<1> HIDE DEF cursor
<1>9. CASE IsPermutation(snapshot.order, n)
  <2>1. r = [restored EXCEPT !.cursor = cursor]
    BY <1>4, <1>9
  <2>2. /\ r.songs = kept /\ r.order = snapshot.order /\ r.cursor = cursor
        /\ r.shuffle = snapshot.shuffle /\ r.repeat = snapshot.repeat
        /\ r = [songs |-> r.songs, order |-> r.order, cursor |-> r.cursor,
                shuffle |-> r.shuffle, repeat |-> r.repeat]
    BY <1>6, <2>1
  <2>3. Len(r.songs) = n
    BY <2>2
  <2> HIDE DEF n
  <2> QED
    BY <1>1, <1>5, <1>7, <1>8, <1>9, <2>2, <2>3, SoundIf
<1>10. CASE ~IsPermutation(snapshot.order, n)
  <2>1. r \in RebuildOrder(restored, cursor)
    BY <1>4, <1>10
  <2>2. Tracks(restored)
    BY <1>1, <1>5, <1>6, <1>7 DEF Tracks
  <2>3. restored.songs # <<>> => cursor <= Len(restored.songs)
    BY <1>6, <1>7, <1>8
  <2> QED
    BY <1>8, <2>1, <2>2, <2>3, RebuildOrderIs
<1> QED
  BY <1>9, <1>10

-----------------------------------------------------------------------------
(* The place after a removal. *)

\* The rows of S from the place of c on that are kept.
After(c, rows) == {r \in 1..Size(c) \ rows : r >= c.cursor}

Before(rows, v) == {t \in rows : t < v}

\* Counting: a kept row moves up by the removed rows before it.
LEMMA KeptPosition ==
  ASSUME NEW c, Sound(c), NEW rows \in SUBSET (1..Size(c)), NEW l, NEW m,
         Swept(c, rows, 0, l, m), NEW x \in 1..Size(l)
  PROVE  x = m[x] - Cardinality(Before(rows, m[x]))
<1> DEFINE v == m[x]
           K == {t \in 1..v : t \notin rows}
           R == {t \in rows : t < v}
           g == [y \in 1..x |-> m[y]]
<1>1. Size(c) \in Nat /\ Size(l) \in Nat /\ x \in Nat
  BY SoundIs DEF Swept
<1>2. /\ m \in [1..Size(l) -> 1..Size(c)]
      /\ \A y, z \in 1..Size(l) : y < z => m[y] < m[z]
      /\ \A y \in 1..Size(l) : m[y] \notin rows
      /\ \A r \in 1..Size(c) : r \notin rows => \E y \in 1..Size(l) : m[y] = r
  BY <1>1 DEF Swept
<1>3. v \in 1..Size(c) /\ v \in Nat /\ v \notin rows
  BY <1>1, <1>2
<1>4. \A y \in 1..x : y \in 1..Size(l) /\ m[y] \in K
  <2> TAKE y \in 1..x
  <2>1. y \in 1..Size(l) /\ (y = x \/ y < x)
    BY <1>1
  <2>2. m[y] \in 1..Size(c) /\ m[y] <= v /\ m[y] \notin rows
    BY <1>2, <1>3, <2>1
  <2> HIDE DEF v
  <2> QED
    BY <1>3, <2>1, <2>2
<1> HIDE DEF v
<1>5. g \in [1..x -> K]
  BY <1>4
<1>6. \A y, z \in 1..x : g[y] = g[z] => y = z
  <2> TAKE y, z \in 1..x
  <2>1. y \in 1..Size(l) /\ z \in 1..Size(l) /\ g[y] = m[y] /\ g[z] = m[z]
    BY <1>4
  <2>2. m[y] \in Nat /\ m[z] \in Nat
    BY <1>2, <2>1
  <2>3. y < z \/ z < y \/ y = z
    BY <2>1, <1>1
  <2> HIDE DEF g
  <2>4. g[y] = g[z] => ~(y < z) /\ ~(z < y)
    <3>1. (y < z => m[y] < m[z]) /\ (z < y => m[z] < m[y])
      BY <1>2, <2>1
    <3> QED
      BY <2>1, <2>2, <3>1
  <2> QED
    BY <2>3, <2>4
<1>7. \A t \in K : \E y \in 1..x : g[y] = t
  <2> TAKE t \in K
  <2>1. t \in 1..Size(c) /\ t \notin rows /\ t <= v /\ t \in Nat
    BY <1>1, <1>3
  <2>2. PICK y \in 1..Size(l) : m[y] = t
    BY <1>2, <2>1
  <2>3. y <= x
    <3> SUFFICES ASSUME y > x PROVE FALSE
      BY <1>1, <2>2
    <3>1. m[x] < m[y]
      BY <1>1, <1>2, <2>2
    <3> QED
      BY <1>3, <2>1, <2>2, <3>1 DEF v
  <2>4. y \in 1..x
    BY <1>1, <2>2, <2>3
  <2> QED
    BY <2>2, <2>4
<1> HIDE DEF g, K
<1>8. g \in Bijection(1..x, K)
  BY <1>5, <1>6, <1>7, Fun_IsBij
<1>9. IsFiniteSet(1..x) /\ Cardinality(1..x) = x
  <2>1. 1 \in Int /\ x \in Int /\ (IF 1 > x THEN 0 ELSE (x - 1) + 1) = x
    BY <1>1
  <2> QED
    BY <2>1, FS_Interval
<1>10. Cardinality(K) = x
  BY <1>8, <1>9, FS_Bijection DEF ExistsBijection
<1>11. IsFiniteSet(1..v) /\ Cardinality(1..v) = v
  <2>1. 1 \in Int /\ v \in Int /\ (IF 1 > v THEN 0 ELSE (v - 1) + 1) = v
    BY <1>3
  <2> QED
    BY <2>1, FS_Interval
<1>12. K = (1..v) \ R /\ (1..v) \cap R = R
  <2>1. \A t \in 1..v : t \notin rows <=> t \notin R
    BY <1>3
  <2>2. \A t \in R : t \in 1..v
    BY <1>3
  <2>3. K = {t \in 1..v : t \notin rows}
    BY DEF K
  <2> HIDE DEF R
  <2> QED
    BY <2>1, <2>2, <2>3
<1> HIDE DEF R
<1>13. Cardinality((1..v) \ R) = Cardinality(1..v) - Cardinality((1..v) \cap R)
  BY <1>11, FS_Difference
<1>14. IsFiniteSet(R) /\ Cardinality(R) \in Nat
  <2>1. R \in SUBSET (1..v)
    BY <1>12
  <2> QED
    BY <1>11, <2>1, FS_Subset, FS_CardinalityType
<1>15. x = v - Cardinality(R)
  BY <1>1, <1>3, <1>10, <1>11, <1>12, <1>13, <1>14
<1> QED
  BY <1>15 DEF v, R, Before

\* The first row kept from the place on, and where it moves.
LEMMA HeirPosition ==
  ASSUME NEW c, Sound(c), NEW rows \in SUBSET (1..Size(c)), NEW h \in After(c, rows),
         \A r \in After(c, rows) : h <= r
  PROVE  RemoveRows(c, rows).cursor = h - Cardinality(Before(rows, h))
<1> DEFINE l == RemoveRows(c, rows)
<1>1. PICK m : Swept(c, rows, 0, l, m) /\ Placed(c, rows, 0, l, m)
  BY RemoveRowsKeeps
<1> HIDE DEF l
<1>2. h \in 1..Size(c) /\ h \notin rows /\ h >= c.cursor /\ h \in Nat /\ c.cursor \in Nat
      /\ c.cursor > 0
  BY SoundIs DEF After
<1>3. /\ l.cursor \in 1..Size(l)
      /\ m[l.cursor] >= c.cursor
      /\ m[l.cursor] \notin rows
      /\ m[l.cursor] <= h
  BY <1>1, <1>2 DEF Placed
<1>4. m[l.cursor] \in 1..Size(c)
  BY <1>1, <1>3 DEF Swept
<1>5. m[l.cursor] \in After(c, rows)
  BY <1>3, <1>4 DEF After
<1>6. m[l.cursor] = h
  BY <1>2, <1>3, <1>4, <1>5
<1>7. l.cursor = m[l.cursor] - Cardinality(Before(rows, m[l.cursor]))
  <2> DEFINE x == l.cursor
  <2>1. x \in 1..Size(l)
    BY <1>3
  <2> HIDE DEF x
  <2>2. x = m[x] - Cardinality(Before(rows, m[x]))
    BY <1>1, <2>1, KeptPosition
  <2> QED
    BY <2>2 DEF x
<1> QED
  BY <1>6, <1>7 DEF l

\* What PlayList says of a removal.
Cut(c, r, rows) ==
  LET kept == DOMAIN Ordered(c) \ rows
      after == {p \in kept : p >= c.cursor}
  IN /\ rows # {}
     /\ \E m \in [DOMAIN Ordered(r) -> kept] :
          /\ \A i, j \in DOMAIN m : i < j => m[i] < m[j]
          /\ ToSet(m) = kept
          /\ \A i \in DOMAIN m : Ordered(r)[i] = Ordered(c)[m[i]]
          /\ IF after # {} THEN r.cursor \in DOMAIN m /\ m[r.cursor] = Min(after)
             ELSE r.cursor \in {1, IF Ordered(r) = <<>> THEN 1 ELSE Len(Ordered(r))}

LEMMA CutIs ==
  ASSUME NEW c, Sound(c), NEW rows \in SUBSET (1..Size(c)), rows # {},
         NEW r,
         \/ r = RemoveRows(c, rows)
         \/ /\ After(c, rows) = {}
            /\ Size(RemoveRows(c, rows)) # 0
            /\ r = AtCursor(RemoveRows(c, rows), 1)
  PROVE  Sound(r) /\ Cut(c, r, rows)
<1> DEFINE l == RemoveRows(c, rows)
           n == Size(c)
           kept == DOMAIN Ordered(c) \ rows
           after == {p \in kept : p >= c.cursor}
<1>1. PICK m : Swept(c, rows, 0, l, m) /\ Placed(c, rows, 0, l, m)
  BY RemoveRowsKeeps
<1>2. Sound(l)
  BY <1>1 DEF Swept
<1>3. r = l \/ (After(c, rows) = {} /\ Size(l) # 0 /\ r = AtCursor(l, 1))
  OBVIOUS
<1> HIDE DEF l
<1>4. Size(l) \in Nat /\ Len(l.songs) = Size(l) /\ n \in Nat /\ c.cursor \in Nat /\ c.cursor > 0
      /\ l.cursor \in Nat
  BY <1>2, SoundIs
<1>5. Sound(r) /\ Ordered(r) = Ordered(l) /\ Size(r) = Size(l)
  <2>1. CASE r = l
    BY <1>2, <2>1
  <2>2. CASE Size(l) # 0 /\ r = AtCursor(l, 1)
    <3>1. 1 \in 1..Len(l.songs)
      BY <1>4, <2>2
    <3>2. Sound(AtCursor(l, 1))
      BY <1>2, <3>1, CursorSound
    <3> QED
      BY <2>2, <3>2 DEF Ordered, Size, AtCursor
  <2> QED
    BY <1>3, <2>1, <2>2
<1>6. DOMAIN Ordered(c) = 1..n /\ DOMAIN Ordered(r) = 1..Size(l) /\ Len(Ordered(r)) = Size(l)
      /\ Ordered(r) \in Seq(VideoIds)
  BY <1>5, OrderedIs
<1>7. after = After(c, rows) /\ kept = 1..n \ rows
  BY <1>6 DEF After
<1> HIDE DEF n
<1>8. /\ m \in [1..Size(l) -> 1..n]
      /\ \A y, z \in 1..Size(l) : y < z => m[y] < m[z]
      /\ \A y \in 1..Size(l) : m[y] \notin rows
      /\ \A p \in 1..n : p \notin rows => \E y \in 1..Size(l) : m[y] = p
      /\ \A y \in 1..Size(l) : Ordered(l)[y] = Ordered(c)[m[y]]
  BY <1>1, <1>4 DEF Swept, n
<1>9. m \in [1..Size(l) -> kept] /\ DOMAIN m = 1..Size(l)
  BY <1>7, <1>8
<1>10. ToSet(m) = kept
  <2>1. ToSet(m) = {m[y] : y \in 1..Size(l)}
    BY <1>9 DEF ToSet
  <2> HIDE DEF kept
  <2> QED
    BY <1>7, <1>8, <1>9, <2>1
<1>11. CASE after # {}
  <2>1. \E p \in 1..n : p >= c.cursor /\ p \notin rows
    BY <1>7, <1>11 DEF After, n
  <2>2. /\ l.cursor \in 1..Size(l)
        /\ m[l.cursor] >= c.cursor
        /\ m[l.cursor] \notin rows
        /\ \A p \in 1..n : p >= c.cursor /\ p \notin rows => m[l.cursor] <= p
    BY <1>1, <1>4, <2>1 DEF Placed, n
  <2>3. r = l
    BY <1>3, <1>7, <1>11
  <2>4. m[l.cursor] \in after
    BY <1>7, <1>8, <2>2 DEF After, n
  <2>5. \A p \in after : m[l.cursor] <= p
    BY <1>7, <2>2 DEF After, n
  <2>6. after \subseteq Int
    BY <1>4, <1>7 DEF After
  <2> HIDE DEF after
  <2>7. Min(after) = m[l.cursor]
    BY <2>4, <2>5, <2>6, MinIs
  <2> QED
    BY <1>6, <1>8, <1>9, <1>10, <1>5, <1>11, <2>2, <2>3, <2>7 DEF Cut, after
<1>12. CASE after = {}
  <2>1. ~ \E p \in 1..n : p >= c.cursor /\ p \notin rows
    BY <1>7, <1>12 DEF After, n
  <2>2. l.cursor = IF Size(l) = 0 THEN 1 ELSE Size(l)
    BY <1>1, <1>4, <2>1 DEF Placed, n
  <2>3. Ordered(r) = <<>> <=> Size(l) = 0
    BY <1>6, EmptyIs
  <2>4. r.cursor = l.cursor \/ r.cursor = 1
    BY <1>3 DEF AtCursor
  <2>5. r.cursor \in {1, IF Ordered(r) = <<>> THEN 1 ELSE Len(Ordered(r))}
    BY <1>6, <2>2, <2>3, <2>4
  <2>6. \A i \in DOMAIN m : Ordered(r)[i] = Ordered(c)[m[i]]
    BY <1>5, <1>8, <1>9
  <2> HIDE DEF after, kept
  <2> QED
    BY <1>5, <1>6, <1>8, <1>9, <1>10, <1>12, <2>5, <2>6 DEF Cut, after, kept
<1> QED
  BY <1>11, <1>12

-----------------------------------------------------------------------------
(* The removals. *)

LEMMA SameCursor ==
  ASSUME NEW l, Sound(l)
  PROVE  AtCursor(l, l.cursor) = l
<1>1. l = [songs |-> l.songs, order |-> l.order, cursor |-> l.cursor,
           shuffle |-> l.shuffle, repeat |-> l.repeat]
  BY DEF Sound, Queues
<1> QED
  BY <1>1 DEF AtCursor

LEMMA RowsLeft ==
  ASSUME NEW c, Sound(c), NEW rows
  PROVE  /\ Sound(RemoveRows(c, rows))
         /\ RemoveRows(c, rows).cursor # NoPos
         /\ \A r \in 1..Size(c) : r \notin rows => Size(RemoveRows(c, rows)) # 0
<1> DEFINE l == RemoveRows(c, rows)
<1>1. PICK m : Swept(c, rows, 0, l, m)
  BY RemoveRowsKeeps
<1> HIDE DEF l
<1>2. Sound(l) /\ l.cursor # 0
  BY <1>1, SoundIs DEF Swept
<1>3. \A r \in 1..Size(c) : r \notin rows => Size(l) # 0
  <2> SUFFICES ASSUME NEW r \in 1..Size(c), r \notin rows PROVE Size(l) # 0
    OBVIOUS
  <2>1. r > 0 /\ Size(l) \in Nat
    BY <1>2, SoundIs
  <2>2. PICK x \in 1..Size(l) : m[x] = r
    BY <1>1, <2>1 DEF Swept
  <2> QED
    BY <2>1, <2>2
<1> QED
  BY <1>2, <1>3 DEF l, NoPos

LEMMA RangeHeir ==
  ASSUME NEW c, Sound(c), NEW lo \in 1..Size(c), NEW hi \in 1..Size(c), lo <= hi,
         c.cursor \in lo..hi, hi < Size(c)
  PROVE  RemoveRows(c, lo..hi).cursor = lo
<1> DEFINE n == Size(c)
           h == hi + 1
           rows == lo..hi
<1>1. n \in Nat /\ lo \in Nat /\ hi \in Nat /\ c.cursor \in Nat
  BY SoundIs
<1>2. rows \in SUBSET (1..n) /\ h \in 1..n /\ h \notin rows /\ h >= c.cursor
  BY <1>1
<1>3. h \in After(c, rows) /\ \A r \in After(c, rows) : h <= r
  <2>1. h \in After(c, rows)
    BY <1>2 DEF After
  <2>2. ASSUME NEW r \in After(c, rows) PROVE h <= r
    <3>1. r \in 1..n /\ r \notin lo..hi /\ r >= c.cursor
      BY DEF After
    <3> QED
      BY <1>1, <3>1
  <2> QED
    BY <2>1, <2>2
<1>4. Cardinality(Before(rows, h)) = (hi - lo) + 1
  <2>1. Before(rows, h) = lo..hi
    BY <1>1 DEF Before
  <2>2. Cardinality(lo..hi) = IF lo > hi THEN 0 ELSE (hi - lo) + 1
    BY <1>1, FS_Interval
  <2> QED
    BY <1>1, <2>1, <2>2
<1> HIDE DEF h, rows, n
<1>5. RemoveRows(c, rows).cursor = h - Cardinality(Before(rows, h))
  BY <1>2, <1>3, HeirPosition DEF n
<1>6. h - ((hi - lo) + 1) = lo
  BY <1>1 DEF h
<1> QED
  BY <1>4, <1>5, <1>6 DEF rows

LEMMA RangeAfter ==
  ASSUME NEW c, Sound(c), NEW lo \in 1..Size(c), c.cursor \in lo..Size(c)
  PROVE  After(c, lo..Size(c)) = {}
<1>1. Size(c) \in Nat /\ c.cursor \in Nat
  BY SoundIs
<1> QED
  BY <1>1 DEF After

\* A removed range: the rows that go, and where the cursor ends up.
LEMMA RemoveRangeIs ==
  ASSUME NEW c, Sound(c), NEW lo \in 1..Size(c), NEW hi \in 1..Size(c), lo <= hi
  PROVE  LET w == RemoveRange(c, lo, hi)
         IN /\ Sound(w.queue)
            /\ Cut(c, w.queue, lo..hi)
            /\ w.playback = "Unchanged" => c.cursor \notin lo..hi
<1> DEFINE n == Size(c)
           l == RemoveRows(c, lo..hi)
           playback == IF c.cursor \notin lo..hi THEN "Unchanged"
                       ELSE IF hi < n \/ (lo > 1 /\ c.repeat = "All")
                         THEN "LoadSelected" ELSE "Stop"
           selected == IF playback # "LoadSelected" THEN NoPos
                       ELSE IF hi < n THEN lo ELSE 1
           w == RemoveRange(c, lo, hi)
<1>1. n \in Nat /\ lo \in Nat /\ hi \in Nat /\ lo <= n /\ hi <= n
  BY SoundIs
<1>2. Min({lo, n}) = lo /\ Min({hi, n}) = hi
  BY <1>1, MinPair
<1>3. w = [queue |-> SelectCursor(l, selected), playback |-> playback]
  BY <1>2 DEF RemoveRange
<1> HIDE DEF w, l
<1>4. (playback = "Unchanged" => c.cursor \notin lo..hi) /\ w.playback = playback
      /\ w.queue = SelectCursor(l, selected)
  <2>1. playback = "Unchanged" => c.cursor \notin lo..hi
    OBVIOUS
  <2> HIDE DEF playback, selected
  <2> QED
    BY <1>3, <2>1
<1>5. Sound(l) /\ l.cursor # NoPos
  BY RowsLeft DEF l
<1>6. \/ w.queue = l
      \/ /\ After(c, lo..hi) = {}
         /\ Size(l) # 0
         /\ w.queue = AtCursor(l, 1)
  <2>1. CASE c.cursor \notin lo..hi
    <3>1. playback = "Unchanged"
      BY <2>1
    <3>2. selected = NoPos
      BY <3>1
    <3> HIDE DEF selected
    <3> QED
      BY <1>4, <3>2 DEF SelectCursor
  <2>2. CASE c.cursor \in lo..hi /\ hi < n
    <3>1. playback = "LoadSelected"
      BY <2>2
    <3>2. selected = lo
      BY <2>2, <3>1
    <3>3. l.cursor = lo
      BY <2>2, RangeHeir DEF l
    <3> HIDE DEF selected
    <3> QED
      BY <1>4, <1>5, <3>2, <3>3, SameCursor DEF SelectCursor
  <2>3. CASE c.cursor \in lo..hi /\ ~(hi < n) /\ lo > 1 /\ c.repeat = "All"
    <3>1. playback = "LoadSelected"
      BY <2>3
    <3>2. selected = 1
      BY <2>3, <3>1
    <3>3. hi = n
      BY <1>1, <2>3
    <3>4. After(c, lo..hi) = {}
      BY <2>3, <3>3, RangeAfter
    <3>5. 1 \in 1..Size(c) /\ 1 \notin lo..hi
      BY <1>1, <2>3
    <3>6. Size(l) # 0
      BY <3>5, RowsLeft DEF l
    <3> HIDE DEF selected
    <3> QED
      BY <1>4, <3>2, <3>4, <3>6 DEF SelectCursor, NoPos
  <2>4. CASE c.cursor \in lo..hi /\ ~(hi < n) /\ ~(lo > 1 /\ c.repeat = "All")
    <3>1. playback = "Stop"
      BY <2>4
    <3>2. selected = NoPos
      BY <3>1
    <3> HIDE DEF selected
    <3> QED
      BY <1>4, <3>2 DEF SelectCursor
  <2> QED
    BY <2>1, <2>2, <2>3, <2>4
<1>7. lo..hi \in SUBSET (1..Size(c)) /\ lo..hi # {}
  BY <1>1
<1> HIDE DEF playback, selected
<1>8. Sound(w.queue) /\ Cut(c, w.queue, lo..hi)
  BY <1>6, <1>7, CutIs DEF l
<1> QED
  BY <1>4, <1>8 DEF w

\* One row through the loop of many.
LEMMA RemoveOne ==
  ASSUME NEW c, Sound(c), NEW pos \in 1..Size(c)
  PROVE  RemoveRows(c, pos..pos) = RemovePos(c, pos)
<1> DEFINE n == Size(c)
<1>1. n \in Nat /\ pos \in Nat /\ 1 <= pos /\ pos <= n
  BY SoundIs
<1>2. PICK f : /\ RemoveRows(c, pos..pos) = f[n]
               /\ f[0] = c
               /\ \A i \in 1..n : f[i] = IF (n + 1) - i \in pos..pos
                                            THEN RemovePos(f[i - 1], (n + 1) - i) ELSE f[i - 1]
  <2>1. Size(c) \in Nat
    BY SoundIs
  <2>2. PICK f : /\ RemoveRows(c, pos..pos) = f[Size(c)]
                 /\ f[0] = c
                 /\ \A i \in 1..Size(c) : f[i] = IF Size(c) + 1 - i \in pos..pos
                                            THEN RemovePos(f[i - 1], Size(c) + 1 - i) ELSE f[i - 1]
    BY <2>1, RemoveRowsIs
  <2>3. \A i \in 1..n : (n + 1) - i = n + 1 - i
    BY <1>1
  <2> QED
    BY <2>2, <2>3
<1> DEFINE Good(i) == f[i] = IF i < (n + 1) - pos THEN c ELSE RemovePos(c, pos)
           Bad == {i \in 0..n : ~Good(i)}
<1> HIDE DEF n
<1>3. Good(0)
  BY <1>1, <1>2
<1>4. ASSUME NEW i \in 1..n, Good(i - 1) PROVE Good(i)
  <2>1. CASE i < (n + 1) - pos
    <3>1. (n + 1) - i \notin pos..pos /\ i - 1 < (n + 1) - pos
      BY <1>1, <2>1
    <3> QED
      BY <1>2, <1>4, <2>1, <3>1
  <2>2. CASE i = (n + 1) - pos
    <3>1. (n + 1) - i \in pos..pos /\ (n + 1) - i = pos /\ i - 1 < (n + 1) - pos
          /\ ~(i < (n + 1) - pos)
      BY <1>1, <2>2
    <3> QED
      BY <1>2, <1>4, <3>1
  <2>3. CASE i > (n + 1) - pos
    <3>1. (n + 1) - i \notin pos..pos /\ ~(i - 1 < (n + 1) - pos) /\ ~(i < (n + 1) - pos)
      BY <1>1, <2>3
    <3> QED
      BY <1>2, <1>4, <3>1
  <2> QED
    BY <1>1, <2>1, <2>2, <2>3
<1> HIDE DEF Good
<1>5. Bad = {}
  <2> SUFFICES ASSUME Bad # {} PROVE FALSE
    OBVIOUS
  <2>1. Bad \subseteq Nat
    OBVIOUS
  <2>2. PICK i \in Bad : \A j \in Bad : i <= j
    BY <2>1, LeastNumber
  <2>3. i \in 0..n /\ ~Good(i)
    OBVIOUS
  <2>4. i # 0
    BY <1>3, <2>3
  <2>5. i \in 1..n /\ i - 1 \in 0..n /\ ~(i <= i - 1)
    BY <1>1, <2>3, <2>4
  <2>6. i - 1 \notin Bad
    BY <2>2, <2>5
  <2>7. Good(i - 1)
    BY <2>5, <2>6
  <2> QED
    BY <1>4, <2>3, <2>5, <2>7
<1>6. Good(n) /\ ~(n < (n + 1) - pos)
  BY <1>1, <1>5
<1> QED
  BY <1>2, <1>6 DEF Good

LEMMA DaemonRemoves ==
  ASSUME NEW c, Sound(c), NEW pos \in 1..Size(c)
  PROVE  DaemonRemove(c, pos) = RemoveRange(c, pos, pos)
<1> DEFINE n == Size(c)
<1>1. n \in Nat /\ pos \in Nat /\ 1 <= pos /\ pos <= n /\ c.cursor \in Nat
  BY SoundIs
<1>2. Min({pos, n}) = pos
  BY <1>1, MinPair
<1>3. RemoveRows(c, pos..pos) = RemovePos(c, pos)
  BY RemoveOne
<1>4. c.cursor \in pos..pos <=> pos = c.cursor
  BY <1>1
<1> DEFINE d1 == IF pos # c.cursor \/ n = 1 THEN NoPos
                 ELSE IF pos < n THEN pos
                 ELSE IF c.repeat = "All" THEN 1 ELSE NoPos
           p1 == IF pos # c.cursor THEN "Unchanged"
                 ELSE IF d1 # NoPos THEN "LoadSelected" ELSE "Stop"
           p2 == IF c.cursor \notin pos..pos THEN "Unchanged"
                 ELSE IF pos < n \/ (pos > 1 /\ c.repeat = "All")
                   THEN "LoadSelected" ELSE "Stop"
           d2 == IF p2 # "LoadSelected" THEN NoPos
                 ELSE IF pos < n THEN pos ELSE 1
<1>5. DaemonRemove(c, pos) = [queue |-> SelectCursor(RemovePos(c, pos), d1), playback |-> p1]
  BY DEF DaemonRemove
<1>6. RemoveRange(c, pos, pos)
        = [queue |-> SelectCursor(RemoveRows(c, pos..pos), d2), playback |-> p2]
  BY <1>2 DEF RemoveRange
<1>7. d1 = d2 /\ p1 = p2
  <2> HIDE DEF n
  <2>1. CASE pos # c.cursor
    <3>1. d1 = NoPos /\ p1 = "Unchanged" /\ p2 = "Unchanged"
      BY <1>4, <2>1
    <3>2. d2 = NoPos
      BY <3>1
    <3> QED
      BY <3>1, <3>2
  <2>2. CASE pos = c.cursor /\ pos < n
    <3>1. n # 1 /\ pos # NoPos
      BY <1>1, <2>2 DEF NoPos
    <3>2. d1 = pos
      BY <2>2, <3>1
    <3>3. p2 = "LoadSelected"
      BY <1>4, <2>2
    <3>4. d2 = pos
      BY <2>2, <3>3
    <3>5. p1 = "LoadSelected"
      <4> HIDE DEF d1
      <4> QED
        BY <2>2, <3>1, <3>2
    <3> HIDE DEF d1, d2, p1, p2
    <3> QED
      BY <3>2, <3>3, <3>4, <3>5
  <2>3. CASE pos = c.cursor /\ ~(pos < n) /\ n = 1
    <3>1. ~(pos > 1)
      BY <1>1, <2>3
    <3>2. d1 = NoPos
      BY <2>3
    <3>3. p2 = "Stop"
      BY <1>4, <2>3, <3>1
    <3>4. d2 = NoPos
      BY <3>3
    <3>5. p1 = "Stop"
      <4> HIDE DEF d1
      <4> QED
        BY <2>3, <3>2
    <3> HIDE DEF d1, d2, p1, p2
    <3> QED
      BY <3>2, <3>3, <3>4, <3>5
  <2>4. CASE pos = c.cursor /\ ~(pos < n) /\ n # 1 /\ c.repeat = "All"
    <3>1. pos > 1 /\ 1 # NoPos
      BY <1>1, <2>4 DEF NoPos
    <3>2. d1 = 1
      BY <2>4
    <3>3. p2 = "LoadSelected"
      BY <1>4, <2>4, <3>1
    <3>4. d2 = 1
      BY <2>4, <3>3
    <3>5. p1 = "LoadSelected"
      <4> HIDE DEF d1
      <4> QED
        BY <2>4, <3>1, <3>2
    <3> HIDE DEF d1, d2, p1, p2
    <3> QED
      BY <3>2, <3>3, <3>4, <3>5
  <2>5. CASE pos = c.cursor /\ ~(pos < n) /\ n # 1 /\ c.repeat # "All"
    <3>2. d1 = NoPos
      BY <2>5
    <3>3. p2 = "Stop"
      BY <1>4, <2>5
    <3>4. d2 = NoPos
      BY <3>3
    <3>5. p1 = "Stop"
      <4> HIDE DEF d1
      <4> QED
        BY <2>5, <3>2
    <3> HIDE DEF d1, d2, p1, p2
    <3> QED
      BY <3>2, <3>3, <3>4, <3>5
  <2> QED
    BY <2>1, <2>2, <2>3, <2>4, <2>5
<1> HIDE DEF d1, d2, p1, p2
<1> QED
  BY <1>3, <1>5, <1>6, <1>7

\* The rows a purge takes, and the later rows that stay.
Purged(c, ids) == {pos \in DOMAIN c.order : SongAt(c, pos) \in ids}

Heirs(c, rows) == {pos \in DOMAIN c.order \ rows : pos > c.cursor}

\* What becomes of playback, and the row to play instead, as the purge decides.
PurgePlayback(c, rows) ==
  IF c.cursor \notin rows THEN "Unchanged"
  ELSE IF Heirs(c, rows) # {} \/ (rows # DOMAIN c.order /\ c.repeat = "All")
    THEN "LoadSelected" ELSE "Stop"

PurgeSelected(c, rows) ==
  IF PurgePlayback(c, rows) # "LoadSelected" THEN NoPos
  ELSE IF Heirs(c, rows) # {}
    THEN Min(Heirs(c, rows)) - Cardinality(Before(rows, Min(Heirs(c, rows))))
    ELSE 1

LEMMA PurgeForm ==
  ASSUME NEW c, NEW ids
  PROVE  Purge(c, ids) =
           [queue |-> SelectCursor(RemoveRows(c, Purged(c, ids)), PurgeSelected(c, Purged(c, ids))),
            playback |-> PurgePlayback(c, Purged(c, ids))]
BY DEF Purge, Purged, Heirs, PurgePlayback, PurgeSelected, Before

LEMMA HeirsAre ==
  ASSUME NEW c, Sound(c), NEW rows, c.cursor \in rows
  PROVE  Heirs(c, rows) = After(c, rows)
<1>1. DOMAIN c.order = 1..Size(c) /\ Size(c) \in Nat /\ c.cursor \in Nat
  BY SoundIs
<1> QED
  BY <1>1 DEF Heirs, After

LEMMA FirstAfter ==
  ASSUME NEW c, Sound(c), NEW rows, After(c, rows) # {}
  PROVE  /\ Min(After(c, rows)) \in After(c, rows)
         /\ \A r \in After(c, rows) : Min(After(c, rows)) <= r
<1>1. Size(c) \in Nat
  BY SoundIs
<1>2. After(c, rows) \subseteq Nat
  BY <1>1 DEF After
<1>3. PICK h \in After(c, rows) : \A r \in After(c, rows) : h <= r
  BY <1>2, LeastNumber
<1>4. After(c, rows) \subseteq Int
  BY <1>2
<1>5. Min(After(c, rows)) = h
  BY <1>3, <1>4, MinIs
<1> QED
  BY <1>3, <1>5

\* A purge: the rows that go, and where the cursor ends up.
LEMMA PurgeIs ==
  ASSUME NEW c, Sound(c), NEW ids, Purged(c, ids) # {}
  PROVE  /\ Sound(Purge(c, ids).queue)
         /\ Cut(c, Purge(c, ids).queue, Purged(c, ids))
         /\ Purge(c, ids).playback = "Unchanged" => c.cursor \notin Purged(c, ids)
<1> DEFINE rows == Purged(c, ids)
           l == RemoveRows(c, rows)
           playback == PurgePlayback(c, rows)
           selected == PurgeSelected(c, rows)
           w == Purge(c, ids)
<1>1. w = [queue |-> SelectCursor(l, selected), playback |-> playback]
  BY PurgeForm
<1>2. rows \in SUBSET (1..Size(c)) /\ rows # {} /\ DOMAIN c.order = 1..Size(c)
  BY SoundIs DEF Purged
<1>3. Size(c) \in Nat /\ c.cursor \in Nat
  BY SoundIs
<1> HIDE DEF rows
<1>4. playback = "Unchanged" => c.cursor \notin rows
  BY DEF PurgePlayback
<1>5. Sound(l) /\ l.cursor # NoPos
        /\ \A r \in 1..Size(c) : r \notin rows => Size(l) # 0
  BY RowsLeft
<1> HIDE DEF l
<1>6. SelectCursor(l, selected) = l
      \/ (After(c, rows) = {} /\ Size(l) # 0 /\ SelectCursor(l, selected) = AtCursor(l, 1))
  <2>1. CASE playback # "LoadSelected"
    <3>1. selected = NoPos
      BY <2>1 DEF PurgeSelected
    <3> HIDE DEF selected
    <3> QED
      BY <3>1 DEF SelectCursor
  <2>2. CASE playback = "LoadSelected"
    <3>1. c.cursor \in rows
      BY <2>2 DEF PurgePlayback
    <3>2. Heirs(c, rows) = After(c, rows)
      BY <3>1, HeirsAre
    <3>3. CASE After(c, rows) # {}
      <4> DEFINE h == Min(After(c, rows))
      <4>1. h \in After(c, rows) /\ \A r \in After(c, rows) : h <= r
        BY <3>3, FirstAfter
      <4>2. selected = h - Cardinality(Before(rows, h))
        BY <2>2, <3>2, <3>3 DEF PurgeSelected
      <4> HIDE DEF selected, h
      <4>3. l.cursor = h - Cardinality(Before(rows, h))
        BY <1>2, <4>1, HeirPosition DEF l
      <4>4. selected = l.cursor
        BY <4>2, <4>3
      <4> QED
        BY <1>5, <4>4, SameCursor DEF SelectCursor
    <3>4. CASE After(c, rows) = {}
      <4>1. selected = 1
        BY <2>2, <3>2, <3>4 DEF PurgeSelected
      <4>2. rows # DOMAIN c.order
        BY <2>2, <3>1, <3>2, <3>4 DEF PurgePlayback
      <4>3. PICK r \in 1..Size(c) : r \notin rows
        BY <1>2, <4>2
      <4>4. Size(l) # 0
        BY <1>5, <4>3
      <4> HIDE DEF selected
      <4> QED
        BY <3>4, <4>1, <4>4 DEF SelectCursor, NoPos
    <3> QED
      BY <3>3, <3>4
  <2> QED
    BY <2>1, <2>2
<1> HIDE DEF playback, selected
<1>7. Sound(w.queue) /\ Cut(c, w.queue, rows)
  <2>1. w.queue = SelectCursor(l, selected)
    BY <1>1
  <2> HIDE DEF w
  <2> QED
    BY <1>2, <1>6, <2>1, CutIs DEF l
<1>8. w.playback = playback
  BY <1>1
<1> QED
  BY <1>4, <1>7, <1>8 DEF rows

\* The rows behind the current one.
LEMMA ClearUpcomingIs ==
  ASSUME NEW c, Sound(c), c.cursor < Size(c)
  PROVE  /\ Sound(ClearUpcoming(c))
         /\ Cut(c, ClearUpcoming(c), (c.cursor + 1)..Size(c))
<1> DEFINE rows == (c.cursor + 1)..Size(c)
<1>1. Size(c) \in Nat /\ c.cursor \in Nat /\ 1 <= c.cursor
  BY SoundIs
<1>2. rows \in SUBSET (1..Size(c)) /\ rows # {}
  <2>1. c.cursor + 1 \in rows
    BY <1>1
  <2> QED
    BY <1>1, <2>1
<1>3. ClearUpcoming(c) = RemoveRows(c, rows)
  BY DEF ClearUpcoming
<1> HIDE DEF rows
<1>4. Sound(ClearUpcoming(c)) /\ Cut(c, ClearUpcoming(c), rows)
  BY <1>2, <1>3, CutIs
<1> QED
  BY <1>4 DEF rows

\* The current track is the same one if its row stays.
LEMMA CutKeepsCurrent ==
  ASSUME NEW c, Sound(c), NEW rows, NEW r, Sound(r), Cut(c, r, rows),
         c.cursor \notin rows, Size(c) # 0
  PROVE  /\ Size(r) # 0
         /\ Ordered(r)[r.cursor] = Ordered(c)[c.cursor]
<1> DEFINE kept == DOMAIN Ordered(c) \ rows
           after == {p \in kept : p >= c.cursor}
<1>1. /\ DOMAIN Ordered(c) = 1..Size(c) /\ DOMAIN Ordered(r) = 1..Size(r)
      /\ Size(c) \in Nat /\ Size(r) \in Nat /\ c.cursor \in 1..Size(c)
  BY SoundIs, OrderedIs, CurrentIs
<1>2. c.cursor \in kept
  BY <1>1
<1>3. after \subseteq Int /\ c.cursor \in after /\ \A p \in after : c.cursor <= p
  BY <1>1, <1>2
<1>4. Min(after) = c.cursor /\ after # {}
  <2> HIDE DEF after
  <2> QED
    BY <1>3, MinIs
<1>5. PICK m \in [DOMAIN Ordered(r) -> kept] :
        /\ \A i \in DOMAIN m : Ordered(r)[i] = Ordered(c)[m[i]]
        /\ IF after # {} THEN r.cursor \in DOMAIN m /\ m[r.cursor] = Min(after)
           ELSE r.cursor \in {1, IF Ordered(r) = <<>> THEN 1 ELSE Len(Ordered(r))}
  BY DEF Cut
<1> HIDE DEF after, kept
<1>6. r.cursor \in 1..Size(r) /\ m[r.cursor] = c.cursor
  BY <1>1, <1>4, <1>5
<1>7. Size(r) # 0
  BY <1>1, <1>6
<1> QED
  BY <1>1, <1>5, <1>6, <1>7

\* What stays keeps the queue from being empty.
LEMMA CutLeaves ==
  ASSUME NEW c, Sound(c), NEW rows, NEW r, Sound(r), Cut(c, r, rows),
         NEW pos \in 1..Size(c), pos \notin rows
  PROVE  Size(r) # 0
<1>1. pos \in DOMAIN Ordered(c) \ rows
  BY OrderedIs
<1>2. PICK m \in [DOMAIN Ordered(r) -> DOMAIN Ordered(c) \ rows] :
        ToSet(m) = DOMAIN Ordered(c) \ rows
  BY DEF Cut
<1>3. pos \in ToSet(m)
  BY <1>1, <1>2
<1>4. \E i \in DOMAIN m : m[i] = pos
  BY <1>3 DEF ToSet
<1>5. DOMAIN Ordered(r) # {}
  BY <1>2, <1>4
<1>6. DOMAIN Ordered(r) = 1..Size(r) /\ Size(r) \in Nat
  BY OrderedIs, SoundIs
<1> QED
  BY <1>5, <1>6

-----------------------------------------------------------------------------
\* The range lo..hi taken by its ids leaves what the range removal leaves.
LEMMA PurgeOfRange ==
  ASSUME NEW c, Sound(c), NEW lo \in 1..Size(c), NEW hi \in 1..Size(c), lo <= hi,
         NEW ids, Purged(c, ids) = lo..hi
  PROVE  Purge(c, ids) = RemoveRange(c, lo, hi)
<1> DEFINE n == Size(c)
           rows == lo..hi
           p1 == PurgePlayback(c, rows)
           s1 == PurgeSelected(c, rows)
           p2 == IF c.cursor \notin lo..hi THEN "Unchanged"
                 ELSE IF hi < n \/ (lo > 1 /\ c.repeat = "All")
                   THEN "LoadSelected" ELSE "Stop"
           s2 == IF p2 # "LoadSelected" THEN NoPos
                 ELSE IF hi < n THEN lo ELSE 1
           h == hi + 1
<1>1. n \in Nat /\ lo \in Nat /\ hi \in Nat /\ lo <= n /\ hi <= n /\ c.cursor \in Nat /\ 1 <= lo
      /\ DOMAIN c.order = 1..n
  BY SoundIs
<1>2. Min({lo, n}) = lo /\ Min({hi, n}) = hi
  BY <1>1, MinPair
<1>3. RemoveRange(c, lo, hi)
        = [queue |-> SelectCursor(RemoveRows(c, lo..hi), s2), playback |-> p2]
  BY <1>2 DEF RemoveRange
<1>4. Purge(c, ids) = [queue |-> SelectCursor(RemoveRows(c, lo..hi), s1), playback |-> p1]
  BY PurgeForm
<1>5. (c.cursor \in rows) => (Heirs(c, rows) # {} <=> hi < n)
  <2> SUFFICES ASSUME c.cursor \in rows PROVE Heirs(c, rows) # {} <=> hi < n
    OBVIOUS
  <2>1. ASSUME hi < n PROVE h \in Heirs(c, rows)
    BY <1>1, <2>1 DEF Heirs
  <2>2. ASSUME NEW p \in Heirs(c, rows) PROVE hi < n
    <3>1. p \in 1..n /\ p \notin lo..hi /\ p > c.cursor /\ c.cursor >= lo
      BY <1>1 DEF Heirs
    <3> QED
      BY <1>1, <3>1
  <2> QED
    BY <2>1, <2>2
<1>6. ~(hi < n) => (rows # DOMAIN c.order <=> lo > 1)
  <2> SUFFICES ASSUME ~(hi < n) PROVE rows # 1..n <=> lo > 1
    BY <1>1
  <2>1. hi = n
    BY <1>1
  <2>2. ASSUME lo > 1 PROVE 1 \in 1..n /\ 1 \notin rows
    BY <1>1, <2>1, <2>2
  <2>3. ASSUME ~(lo > 1) PROVE rows = 1..n
    BY <1>1, <2>1, <2>3
  <2> QED
    BY <2>2, <2>3
<1>7. p1 = p2
  BY <1>5, <1>6 DEF PurgePlayback
<1>8. (c.cursor \in rows /\ hi < n) =>
        Min(Heirs(c, rows)) - Cardinality(Before(rows, Min(Heirs(c, rows)))) = lo
  <2> SUFFICES ASSUME c.cursor \in rows, hi < n
               PROVE  Min(Heirs(c, rows)) - Cardinality(Before(rows, Min(Heirs(c, rows)))) = lo
    OBVIOUS
  <2>1. h \in Heirs(c, rows)
    BY <1>1 DEF Heirs
  <2>2. ASSUME NEW p \in Heirs(c, rows) PROVE h <= p
    <3>1. p \in 1..n /\ p \notin lo..hi /\ p > c.cursor /\ c.cursor >= lo
      BY <1>1 DEF Heirs
    <3> QED
      BY <1>1, <3>1
  <2>3. Heirs(c, rows) \subseteq Int
    BY <1>1 DEF Heirs
  <2>4. Before(rows, h) = lo..hi
    BY <1>1 DEF Before
  <2>5. Cardinality(lo..hi) = IF lo > hi THEN 0 ELSE (hi - lo) + 1
    BY <1>1, FS_Interval
  <2>6. h - ((hi - lo) + 1) = lo
    BY <1>1
  <2>7. Cardinality(Before(rows, h)) = (hi - lo) + 1
    BY <1>1, <2>4, <2>5
  <2> HIDE DEF h, rows
  <2>8. Min(Heirs(c, rows)) = h
    BY <2>1, <2>2, <2>3, MinIs
  <2> QED
    BY <2>6, <2>7, <2>8
<1>9. s1 = s2
  <2>1. CASE p2 # "LoadSelected"
    <3>1. s2 = NoPos
      BY <2>1
    <3>2. s1 = NoPos
      BY <1>7, <2>1 DEF PurgeSelected
    <3> QED
      BY <3>1, <3>2
  <2>2. CASE p2 = "LoadSelected" /\ hi < n
    <3>1. c.cursor \in rows
      BY <2>2
    <3>2. s2 = lo
      BY <2>2
    <3>3. Heirs(c, rows) # {}
      BY <1>5, <2>2, <3>1
    <3>4. s1 = Min(Heirs(c, rows)) - Cardinality(Before(rows, Min(Heirs(c, rows))))
      BY <1>7, <2>2, <3>3 DEF PurgeSelected
    <3> QED
      BY <1>8, <2>2, <3>1, <3>2, <3>4
  <2>3. CASE p2 = "LoadSelected" /\ ~(hi < n)
    <3>1. c.cursor \in rows
      BY <2>3
    <3>2. s2 = 1
      BY <2>3
    <3>3. Heirs(c, rows) = {}
      BY <1>5, <2>3, <3>1
    <3>4. s1 = 1
      BY <1>7, <2>3, <3>3 DEF PurgeSelected
    <3> QED
      BY <3>2, <3>4
  <2> QED
    BY <2>1, <2>2, <2>3
<1> HIDE DEF p1, p2, s1, s2
<1> QED
  BY <1>3, <1>4, <1>7, <1>9

LEMMA RemovalsAgreeIf ==
  ASSUME Sound(q)
  PROVE  RemovalsAgree
<1>1. DOMAIN q.order = 1..Size(q)
  BY SoundIs
<1>2. ASSUME NEW lo \in DOMAIN q.order, NEW hi \in DOMAIN q.order, lo <= hi,
             \A pos \in DOMAIN q.order \ (lo..hi) :
               SongAt(q, pos) \notin {SongAt(q, p) : p \in lo..hi}
      PROVE  Purge(q, {SongAt(q, p) : p \in lo..hi}) = RemoveRange(q, lo, hi)
  <2> DEFINE ids == {SongAt(q, p) : p \in lo..hi}
  <2>1. Size(q) \in Nat
    BY SoundIs
  <2>2. lo..hi \subseteq DOMAIN q.order
    BY <1>1, <2>1
  <2>3. Purged(q, ids) = lo..hi
    <3>1. ASSUME NEW p \in lo..hi PROVE p \in Purged(q, ids)
      BY <2>2 DEF Purged
    <3>2. ASSUME NEW p \in Purged(q, ids) PROVE p \in lo..hi
      BY <1>2 DEF Purged
    <3> QED
      BY <3>1, <3>2
  <2> HIDE DEF ids
  <2>4. lo \in 1..Size(q) /\ hi \in 1..Size(q)
    BY <1>1
  <2>5. Purge(q, ids) = RemoveRange(q, lo, hi)
    BY <1>2, <2>3, <2>4, PurgeOfRange
  <2> QED
    BY <2>5 DEF ids
<1>3. ASSUME NEW pos \in DOMAIN q.order PROVE DaemonRemove(q, pos) = RemoveRange(q, pos, pos)
  BY <1>1, DaemonRemoves
<1> QED
  BY <1>2, <1>3 DEF RemovalsAgree

-----------------------------------------------------------------------------
(* Laps. *)

LEMMA ModSmall ==
  ASSUME NEW n \in Nat \ {0}, NEW x \in 0..(n - 1)
  PROVE  x % n = x
OBVIOUS

LEMMA ModWrap ==
  ASSUME NEW n \in Nat \ {0}, NEW x \in n..(2 * n - 1)
  PROVE  x % n = x - n
OBVIOUS

\* The walk of manual nexts, entry by entry.
LEMMA WalkIs ==
  ASSUME NEW c, Sound(c), NEW from \in 1..Size(c)
  PROVE  /\ Len(Walk(c, from)) = IF c.repeat = "All" THEN Size(c) ELSE Size(c) + 1 - from
         /\ Len(Walk(c, from)) \in 1..Size(c)
         /\ DOMAIN Walk(c, from) = 1..Len(Walk(c, from))
         /\ \A i \in 1..Len(Walk(c, from)) :
              Walk(c, from)[i] = IF from + i <= Size(c) + 1 THEN (from + i) - 1
                                 ELSE ((from + i) - 1) - Size(c)
<1> DEFINE n == Size(c)
           k == IF c.repeat = "All" THEN n ELSE n + 1 - from
           walk == [i \in 1..k |-> ((from + i - 2) % n) + 1]
<1>1. n \in Nat \ {0} /\ from \in Nat /\ 1 <= from /\ from <= n
  BY SoundIs
<1>2. Walk(c, from) = walk
  BY DEF Walk
<1>3. k \in 1..n
  BY <1>1
<1> HIDE DEF n, k
<1>4. \A i \in 1..k : walk[i] = IF from + i <= n + 1 THEN (from + i) - 1 ELSE ((from + i) - 1) - n
  <2> TAKE i \in 1..k
  <2>1. i \in Nat /\ 1 <= i /\ i <= n
    BY <1>1, <1>3
  <2> DEFINE x == from + i - 2
  <2>2. walk[i] = (x % n) + 1
    OBVIOUS
  <2>3. CASE from + i <= n + 1
    <3>1. x \in 0..(n - 1) /\ x + 1 = (from + i) - 1
      BY <1>1, <2>1, <2>3
    <3> HIDE DEF x, walk
    <3>2. x % n = x
      BY <1>1, <3>1, ModSmall
    <3> QED
      BY <2>2, <2>3, <3>1, <3>2
  <2>4. CASE ~(from + i <= n + 1)
    <3>1. x \in n..(2 * n - 1) /\ (x - n) + 1 = ((from + i) - 1) - n
      BY <1>1, <2>1, <2>4
    <3> HIDE DEF x, walk
    <3>2. x % n = x - n
      BY <1>1, <3>1, ModWrap
    <3> QED
      BY <2>2, <2>4, <3>1, <3>2
  <2> QED
    BY <2>3, <2>4
<1>5. \A i \in 1..k : walk[i] \in Int
  BY <1>1, <1>3, <1>4
<1>6. walk \in Seq(Int) /\ Len(walk) = k /\ DOMAIN walk = 1..k
  <2>1. k \in Nat /\ DOMAIN walk = 1..k
    BY <1>1, <1>3
  <2>2. walk \in [1..k -> Int]
    BY <1>5
  <2> HIDE DEF walk
  <2>3. walk \in Seq(Int)
    BY <2>1, <2>2, SeqDef
  <2> QED
    BY <2>1, <2>3, LenProperties
<1> HIDE DEF walk
<1> QED
  BY <1>2, <1>3, <1>4, <1>6 DEF n, k

\* Within a lap, each entry is the manual next of the one before.
LEMMA WalkSteps ==
  ASSUME NEW c, Sound(c), NEW from \in 1..Size(c), NEW i \in 1..(Len(Walk(c, from)) - 1)
  PROVE  Walk(c, from)[i + 1] = PlanNext(c, Walk(c, from)[i], FALSE)
<1> DEFINE n == Size(c)
           walk == Walk(c, from)
           k == Len(walk)
<1>1. n \in Nat \ {0} /\ from \in Nat /\ 1 <= from /\ from <= n /\ DOMAIN c.order = 1..n
  BY SoundIs
<1>2. /\ k = IF c.repeat = "All" THEN n ELSE n + 1 - from
      /\ k \in 1..n
      /\ \A j \in 1..k : walk[j] = IF from + j <= n + 1 THEN (from + j) - 1 ELSE ((from + j) - 1) - n
  BY WalkIs
<1> HIDE DEF walk, k
<1>3. i \in 1..(k - 1)
  BY DEF k, walk
<1>4. i \in 1..k /\ i + 1 \in 1..k /\ i \in Nat /\ i + 1 <= n /\ k \in Nat
  BY <1>1, <1>2, <1>3, SMTT(30)
<1>5. PlanNext(c, walk[i], FALSE)
        = IF walk[i] \notin 1..n THEN NoPos
          ELSE IF walk[i] < n THEN walk[i] + 1
          ELSE IF c.repeat = "All" THEN 1 ELSE NoPos
  BY <1>1 DEF PlanNext
<1>6. walk[i] = IF from + i <= n + 1 THEN (from + i) - 1 ELSE ((from + i) - 1) - n
  BY <1>2, <1>4
<1>7. walk[i + 1] = IF from + (i + 1) <= n + 1 THEN (from + (i + 1)) - 1
                    ELSE ((from + (i + 1)) - 1) - n
  BY <1>2, <1>4
<1>8. c.repeat # "All" => from + (i + 1) <= n + 1
  BY <1>1, <1>2, <1>4
<1> DEFINE a == walk[i]
           b == walk[i + 1]
           next == PlanNext(c, walk[i], FALSE)
<1> HIDE DEF n, a, b, next
<1>9. /\ a = IF from + i <= n + 1 THEN (from + i) - 1 ELSE ((from + i) - 1) - n
      /\ b = IF from + (i + 1) <= n + 1 THEN (from + (i + 1)) - 1
             ELSE ((from + (i + 1)) - 1) - n
      /\ a \in 1..n => next = IF a < n THEN a + 1 ELSE IF c.repeat = "All" THEN 1 ELSE NoPos
  BY <1>5, <1>6, <1>7 DEF a, b, next
<1>10. ASSUME from + i <= n PROVE b = next
  <2>1. a = (from + i) - 1 /\ b = from + i /\ a \in 1..n /\ a < n
    BY <1>1, <1>4, <1>9, <1>10
  <2> QED
    BY <1>1, <1>4, <1>9, <2>1
<1>11. ASSUME from + i = n + 1 PROVE b = next
  <2>1. c.repeat = "All"
    BY <1>1, <1>4, <1>8, <1>11
  <2>2. a = n /\ b = 1 /\ a \in 1..n /\ ~(a < n)
    BY <1>1, <1>4, <1>9, <1>11
  <2> QED
    BY <1>9, <2>1, <2>2
<1>12. ASSUME from + i > n + 1 PROVE b = next
  <2>1. a = ((from + i) - 1) - n /\ b = (from + i) - n /\ a \in 1..n /\ a < n
    BY <1>1, <1>4, <1>9, <1>12
  <2> QED
    BY <1>1, <1>4, <1>9, <2>1
<1>13. b = next
  BY <1>1, <1>4, <1>10, <1>11, <1>12
<1> QED
  BY <1>13 DEF walk, a, b, next

LEMMA WalkCovers ==
  ASSUME NEW c, Sound(c), NEW from \in 1..Size(c), c.repeat = "All"
  PROVE  ToSet(Walk(c, from)) = 1..Size(c)
<1> DEFINE n == Size(c)
           walk == Walk(c, from)
<1>1. n \in Nat \ {0} /\ from \in Nat /\ 1 <= from /\ from <= n
  BY SoundIs
<1>2. /\ DOMAIN walk = 1..n
      /\ \A j \in 1..n : walk[j] = IF from + j <= n + 1 THEN (from + j) - 1 ELSE ((from + j) - 1) - n
  BY WalkIs
<1> HIDE DEF walk, n
<1>3. ASSUME NEW p \in ToSet(walk) PROVE p \in 1..n
  <2>1. PICK j \in 1..n : p = walk[j]
    BY <1>2 DEF ToSet
  <2> QED
    BY <1>1, <1>2, <2>1
<1>4. ASSUME NEW p \in 1..n PROVE p \in ToSet(walk)
  <2> DEFINE j == IF from <= p THEN (p - from) + 1 ELSE ((p + n) - from) + 1
  <2>1. j \in 1..n /\ (IF from + j <= n + 1 THEN (from + j) - 1 ELSE ((from + j) - 1) - n) = p
    BY <1>1
  <2> HIDE DEF j
  <2>2. walk[j] = p
    BY <1>2, <2>1
  <2> QED
    BY <1>2, <2>1, <2>2 DEF ToSet
<1>5. ToSet(walk) = 1..n
  BY <1>3, <1>4
<1> QED
  BY <1>5 DEF walk, n

LEMMA LapIf ==
  ASSUME Sound(q)
  PROVE  OneLapMeetsEveryTrack
<1>1. DOMAIN q.order = 1..Size(q) /\ Size(q) \in Nat
  BY SoundIs
<1> SUFFICES ASSUME NEW from \in DOMAIN q.order
             PROVE  /\ Walk(q, from)[1] = from
                    /\ \A i \in 1..(Len(Walk(q, from)) - 1) :
                         Walk(q, from)[i + 1] = PlanNext(q, Walk(q, from)[i], FALSE)
                    /\ q.repeat = "All" => ToSet(Walk(q, from)) = DOMAIN q.order
                    /\ q.repeat # "All" => Walk(q, from)[Len(Walk(q, from))] = Size(q)
  BY DEF OneLapMeetsEveryTrack
<1>2. from \in 1..Size(q) /\ from \in Nat
  BY <1>1
<1>3. /\ Len(Walk(q, from)) = IF q.repeat = "All" THEN Size(q) ELSE Size(q) + 1 - from
      /\ Len(Walk(q, from)) \in 1..Size(q)
      /\ \A i \in 1..Len(Walk(q, from)) :
           Walk(q, from)[i] = IF from + i <= Size(q) + 1 THEN (from + i) - 1
                              ELSE ((from + i) - 1) - Size(q)
  BY <1>2, WalkIs
<1> DEFINE k == Len(Walk(q, from))
           n == Size(q)
<1> HIDE DEF k, n
<1>4. k \in 1..n /\ 1 \in 1..k /\ k \in 1..k /\ k \in Nat /\ n \in Nat /\ from \in 1..n
  BY <1>1, <1>2, <1>3 DEF k, n
<1>5. Walk(q, from)[1] = from
  <2>1. Walk(q, from)[1] = IF from + 1 <= n + 1 THEN (from + 1) - 1 ELSE ((from + 1) - 1) - n
    BY <1>3, <1>4 DEF k, n
  <2> QED
    BY <1>4, <2>1
<1>6. q.repeat # "All" => Walk(q, from)[k] = n
  <2>1. Walk(q, from)[k] = IF from + k <= n + 1 THEN (from + k) - 1 ELSE ((from + k) - 1) - n
    BY <1>3, <1>4 DEF k, n
  <2>2. q.repeat # "All" => k = n + 1 - from
    BY <1>3 DEF k, n
  <2> QED
    BY <1>2, <1>4, <2>1, <2>2
<1> QED
  BY <1>1, <1>2, <1>5, <1>6, WalkSteps, WalkCovers DEF k, n

-----------------------------------------------------------------------------
(* The steps, as PlayList says them. *)

\* PlayList's copies of the library operators are the library's.
LEMMA SameHelpers ==
  ASSUME NEW S
  PROVE /\ PL!SetToSeqs(S) = SetToSeqs(S)
        /\ PL!ToSet(S) = ToSet(S)
        /\ PL!Min(S) = Min(S)
<1>1. PL!SetToSeqs(S) = SetToSeqs(S)
  BY DEF PL!SetToSeqs, SetToSeqs, PL!Cardinality, Cardinality
<1>2. PL!ToSet(S) = ToSet(S)
  BY DEF PL!ToSet, ToSet
<1>3. PL!Min(S) = Min(S)
  BY DEF PL!Min, Min
<1> QED
  BY <1>1, <1>2, <1>3

LEMMA SameTracksIs ==
  ASSUME NEW s, NEW t
  PROVE  PL!SameTracks(s, t) <=> Rearranged(s, t)
<1>1. PL!SetToSeqs(DOMAIN s) = SetToSeqs(DOMAIN s)
  BY SameHelpers
<1> QED
  BY <1>1 DEF PL!SameTracks, Rearranged

\* What PlayList says of a step, of the queues before and after it.
LEMMA ListAfter == Ordered(q)' = Ordered(q')
BY DEF Ordered

LEMMA InsertIf ==
  ASSUME NEW more \in Blocks, NEW at \in {q.cursor, Len(Ordered(q))},
         PutBehind(q, q', more, at),
         q'.cursor = at + 1 \/ q'.cursor = q.cursor
  PROVE  PL!Insert
<1> DEFINE n == Len(Ordered(q')) - Len(Ordered(q))
<1>1. PL!SameTracks(SubSeq(more, 1, n), SubSeq(Ordered(q'), at + 1, at + n))
  BY SameTracksIs DEF PutBehind
<1>2. /\ at <= Len(Ordered(q))
      /\ n \in 1..Len(more)
      /\ SubSeq(Ordered(q'), 1, at) = SubSeq(Ordered(q), 1, at)
      /\ SubSeq(Ordered(q'), at + n + 1, Len(Ordered(q')))
          = SubSeq(Ordered(q), at + 1, Len(Ordered(q)))
  BY DEF PutBehind
<1> QED
  BY <1>1, <1>2, ListAfter DEF PL!Insert

LEMMA DeleteIf ==
  ASSUME NEW rows \in SUBSET DOMAIN Ordered(q), Cut(q, q', rows)
  PROVE  PL!Delete
<1> DEFINE kept == DOMAIN Ordered(q) \ rows
           after == {p \in kept : p >= q.cursor}
<1>1. PICK m \in [DOMAIN Ordered(q') -> kept] :
          /\ \A i, j \in DOMAIN m : i < j => m[i] < m[j]
          /\ ToSet(m) = kept
          /\ \A i \in DOMAIN m : Ordered(q')[i] = Ordered(q)[m[i]]
          /\ IF after # {} THEN q'.cursor \in DOMAIN m /\ m[q'.cursor] = Min(after)
             ELSE q'.cursor \in {1, IF Ordered(q') = <<>> THEN 1 ELSE Len(Ordered(q'))}
  BY DEF Cut
<1>2. PL!Enumerates(m, kept)
  BY <1>1, SameHelpers DEF PL!Enumerates
<1>3. PL!Min(after) = Min(after)
  BY SameHelpers
<1>4. rows # {}
  BY DEF Cut
<1> QED
  BY <1>1, <1>2, <1>3, <1>4, ListAfter DEF PL!Delete

LEMMA ArrangeIf ==
  ASSUME Rearranged(Ordered(q), Ordered(q')),
         Ordered(q) # <<>> => Ordered(q')[q'.cursor] = Ordered(q)[q.cursor]
  PROVE  PL!Arrange
<1>1. PL!SameTracks(Ordered(q), Ordered(q'))
  BY SameTracksIs
<1> QED
  BY <1>1, ListAfter DEF PL!Arrange

LEMMA ReplaceIf ==
  ASSUME NEW songs \in Blocks, PutInstead(q', songs)
  PROVE  PL!Replace
<1>1. PL!SameTracks(SubSeq(songs, 1, Len(Ordered(q'))), Ordered(q'))
  BY SameTracksIs DEF PutInstead
<1>2. PL!Min({Len(songs), MaxLen}) = Min({Len(songs), MaxLen})
  BY SameHelpers
<1> QED
  BY <1>1, <1>2, ListAfter DEF PL!Replace, PutInstead

LEMMA BlockIs ==
  ASSUME NEW more \in Blocks
  PROVE  more \in Seq(VideoIds) /\ Len(more) \in Nat
BY QueueAssumption

\* An insertion of anything adds at least one track.
LEMMA SizeGrows ==
  ASSUME NEW c, Sound(c), NEW more \in Seq(VideoIds), Fitting(c, more) # <<>>
  PROVE  Len(Fitting(c, more)) \in Nat \ {0}
BY FittingIs

LEMMA MoveKeepsOrder ==
  ASSUME NEW c, NEW pos
  PROVE  /\ Ordered(AtCursor(c, pos)) = Ordered(c)
         /\ AtCursor(c, pos).cursor = pos
         /\ AtCursor(c, pos).songs = c.songs
         /\ Size(AtCursor(c, pos)) = Size(c)
BY DEF AtCursor, Ordered, Size

LEMMA InsertSteps ==
  ASSUME Sound(q), Inserting
  PROVE  Sound(q') /\ PL!Insert
<1>1. ASSUME ExtendTracks PROVE Sound(q') /\ PL!Insert
  <2>1. PICK more \in Blocks : \E c \in Extend(q, more) : Fitting(q, more) # <<>> /\ Commit(c)
    BY <1>1 DEF ExtendTracks
  <2>2. PICK c \in Extend(q, more) : Fitting(q, more) # <<>> /\ q' = c
    BY <2>1 DEF Commit
  <2>3. more \in Seq(VideoIds)
    BY BlockIs
  <2>4. Sound(c) /\ c.cursor = q.cursor /\ PutBehind(q, c, more, Size(q))
    BY <2>2, <2>3, ExtendIs
  <2>5. Size(q) = Len(Ordered(q))
    BY OrderedIs
  <2> QED
    BY <2>2, <2>4, <2>5, InsertIf
<1>2. ASSUME EnqueueIdle PROVE Sound(q') /\ PL!Insert
  <2>1. PICK more \in Blocks : \E c \in Extend(q, more) :
          Fitting(q, more) # <<>> /\ Commit(AtCursor(c, Size(q) + 1))
    BY <1>2 DEF EnqueueIdle
  <2>2. PICK c \in Extend(q, more) : Fitting(q, more) # <<>> /\ q' = AtCursor(c, Size(q) + 1)
    BY <2>1 DEF Commit
  <2>3. more \in Seq(VideoIds)
    BY BlockIs
  <2>4. Sound(c) /\ PutBehind(q, c, more, Size(q)) /\ Size(c) = Size(q) + Len(Fitting(q, more))
    BY <2>2, <2>3, ExtendIs
  <2>5. Size(q) = Len(Ordered(q)) /\ Size(q) \in Nat
    BY OrderedIs, SoundIs
  <2>6. Len(c.songs) = Size(c)
    BY <2>4, SoundIs
  <2>7. Size(q) + 1 \in 1..Len(c.songs)
    BY <2>2, <2>3, <2>4, <2>5, <2>6, SizeGrows
  <2>8. Sound(q')
    BY <2>2, <2>4, <2>7, CursorSound
  <2>9. q'.cursor = Size(q) + 1 /\ Ordered(q') = Ordered(c)
    BY <2>2, MoveKeepsOrder
  <2>10. PutBehind(q, q', more, Size(q))
    BY <2>4, <2>9 DEF PutBehind
  <2> QED
    BY <2>5, <2>8, <2>9, <2>10, InsertIf
<1>3. ASSUME InsertNextTracks PROVE Sound(q') /\ PL!Insert
  <2>1. PICK more \in Blocks : Fitting(q, more) # <<>> /\ q' = InsertAfterCurrent(q, more)
    BY <1>3 DEF InsertNextTracks, Commit
  <2> DEFINE at == IF Size(q) = 0 THEN 0 ELSE q.cursor
  <2>2. more \in Seq(VideoIds)
    BY BlockIs
  <2>3. Sound(q') /\ q'.cursor = q.cursor /\ PutBehind(q, q', more, at)
    BY <2>1, <2>2, InsertAfterIs
  <2>4. at \in {q.cursor, Len(Ordered(q))}
    BY OrderedIs
  <2> HIDE DEF at
  <2> QED
    BY <2>3, <2>4, InsertIf
<1>4. ASSUME PlayTracksNow PROVE Sound(q') /\ PL!Insert
  <2>1. PICK more \in Blocks : Fitting(q, more) # <<>> /\ q' = PlayNow(q, more)
    BY <1>4 DEF PlayTracksNow, Commit
  <2> DEFINE at == IF Size(q) = 0 THEN 0 ELSE q.cursor
  <2>2. more \in Seq(VideoIds)
    BY BlockIs
  <2>3. Sound(q') /\ q'.cursor = at + 1 /\ PutBehind(q, q', more, at)
    BY <2>1, <2>2, PlayNowIs
  <2>4. at \in {q.cursor, Len(Ordered(q))}
    BY OrderedIs
  <2> HIDE DEF at
  <2> QED
    BY <2>3, <2>4, InsertIf
<1> QED
  BY <1>1, <1>2, <1>3, <1>4 DEF Inserting

LEMMA RemoveSteps ==
  ASSUME Sound(q), Removing
  PROVE  Sound(q') /\ PL!Delete
<1>0. DOMAIN Ordered(q) = 1..Size(q) /\ DOMAIN q.order = 1..Size(q) /\ Size(q) \in Nat
      /\ q.cursor \in Nat
  BY OrderedIs, SoundIs, SMTT(30)
<1>1. ASSUME RemoveTracks PROVE Sound(q') /\ PL!Delete
  <2>1. PICK lo \in 1..Size(q), hi \in 1..Size(q) : lo <= hi /\ q' = RemoveRange(q, lo, hi).queue
    BY <1>0, <1>1 DEF RemoveTracks, Commit
  <2>2. Sound(q') /\ Cut(q, q', lo..hi)
    BY <2>1, RemoveRangeIs
  <2>3. lo..hi \in SUBSET DOMAIN Ordered(q)
    BY <1>0, <2>1
  <2> QED
    BY <2>2, <2>3, DeleteIf
<1>2. ASSUME RemoveTrack PROVE Sound(q') /\ PL!Delete
  <2>1. PICK pos \in 1..Size(q) : q' = DaemonRemove(q, pos).queue
    BY <1>0, <1>2 DEF RemoveTrack, Commit
  <2>2. q' = RemoveRange(q, pos, pos).queue
    BY <2>1, DaemonRemoves
  <2>3. pos <= pos
    BY <1>0
  <2>4. Sound(q') /\ Cut(q, q', pos..pos)
    BY <2>2, <2>3, RemoveRangeIs
  <2>5. pos..pos \in SUBSET DOMAIN Ordered(q)
    BY <1>0
  <2> QED
    BY <2>4, <2>5, DeleteIf
<1>3. ASSUME PurgeTracks PROVE Sound(q') /\ PL!Delete
  <2>1. PICK ids \in SUBSET VideoIds :
          /\ \E pos \in DOMAIN q.order : SongAt(q, pos) \in ids
          /\ q' = Purge(q, ids).queue
    BY <1>3 DEF PurgeTracks, Commit
  <2>2. Purged(q, ids) # {} /\ Purged(q, ids) \in SUBSET DOMAIN Ordered(q)
    BY <1>0, <2>1 DEF Purged
  <2>3. Sound(q') /\ Cut(q, q', Purged(q, ids))
    BY <2>1, <2>2, PurgeIs
  <2> QED
    BY <2>2, <2>3, DeleteIf
<1>4. ASSUME DropUpcoming PROVE Sound(q') /\ PL!Delete
  <2>1. q.cursor < Size(q) /\ q' = ClearUpcoming(q)
    BY <1>4 DEF DropUpcoming, Commit
  <2>2. Sound(q') /\ Cut(q, q', (q.cursor + 1)..Size(q))
    BY <2>1, ClearUpcomingIs
  <2>3. (q.cursor + 1)..Size(q) \in SUBSET DOMAIN Ordered(q)
    BY <1>0
  <2> QED
    BY <2>2, <2>3, DeleteIf
<1> QED
  BY <1>1, <1>2, <1>3, <1>4 DEF Removing

LEMMA ArrangeSteps ==
  ASSUME Sound(q), Arranging
  PROVE  Sound(q') /\ PL!Arrange
<1>1. /\ Sound(q')
      /\ q'.songs = q.songs
      /\ Size(q) # 0 => Ordered(q')[q'.cursor] = Ordered(q)[q.cursor]
  <2>1. CASE MoveTrack
    <3>1. DOMAIN q.order = 1..Size(q)
      BY SoundIs
    <3>2. PICK from \in 1..Size(q), to \in 1..Size(q) : q' = MoveItem(q, from, to)
      BY <2>1, <3>1 DEF MoveTrack, Commit
    <3> QED
      BY <3>2, MoveItemIs
  <2>2. CASE ChangeShuffle
    <3>1. PICK c \in SetShuffle(q, ~q.shuffle) : q' = c
      BY <2>2 DEF ChangeShuffle, Commit
    <3>2. (~q.shuffle) \in BOOLEAN
      OBVIOUS
    <3> QED
      BY <3>1, <3>2, SetShuffleIs
  <2> QED
    BY <2>1, <2>2 DEF Arranging
<1>2. Rearranged(Ordered(q), Ordered(q'))
  BY <1>1, SameSongsRearranged
<1>3. Ordered(q) # <<>> => Size(q) # 0
  BY OrderedIs, EmptyIs
<1> QED
  BY <1>1, <1>2, <1>3, ArrangeIf

LEMMA PlanIsPosition ==
  ASSUME NEW c, Sound(c), NEW from \in 1..Size(c), NEW auto \in BOOLEAN
  PROVE  /\ PlanNext(c, from, auto) \in 1..Size(c) \cup {NoPos}
         /\ PlanPrev(c, from) \in 1..Size(c)
<1>1. Size(c) \in Nat /\ from \in Nat /\ 1 <= from /\ from <= Size(c) /\ DOMAIN c.order = 1..Size(c)
  BY SoundIs
<1>2. PlanNext(c, from, auto) \in 1..Size(c) \cup {NoPos}
  BY <1>1 DEF PlanNext
<1>3. PlanPrev(c, from) \in 1..Size(c)
  BY <1>1 DEF PlanPrev
<1> QED
  BY <1>2, <1>3

LEMMA MoveSteps ==
  ASSUME Sound(q), Moving
  PROVE  Sound(q') /\ PL!Jump
<1>0. DOMAIN q.order = 1..Size(q) /\ Size(q) = Len(q.songs) /\ DOMAIN Ordered(q) = 1..Size(q)
      /\ (q.order # <<>> => Size(q) # 0)
  BY SoundIs, OrderedIs
<1>1. \E pos \in 1..Size(q) : q' = AtCursor(q, pos)
  <2>1. CASE StepNext
    <3>1. PICK auto \in BOOLEAN : /\ PlanNext(q, q.cursor, auto) # NoPos
                                  /\ q' = AtCursor(q, PlanNext(q, q.cursor, auto))
      BY <2>1 DEF StepNext, Keep
    <3>2. q.cursor \in 1..Size(q)
      BY <1>0, <3>1 DEF PlanNext
    <3> QED
      BY <3>1, <3>2, PlanIsPosition
  <2>2. CASE StepPrev
    <3>1. q.order # <<>> /\ q' = AtCursor(q, PlanPrev(q, q.cursor))
      BY <2>2 DEF StepPrev, Keep
    <3>2. q.cursor \in 1..Size(q)
      BY <1>0, <3>1, CurrentIs
    <3> QED
      BY <3>1, <3>2, PlanIsPosition
  <2>3. CASE JumpTo
    BY <1>0, <2>3 DEF JumpTo, Keep
  <2> QED
    BY <2>1, <2>2, <2>3 DEF Moving
<1>2. PICK pos \in 1..Size(q) : q' = AtCursor(q, pos)
  BY <1>1
<1>3. Sound(q')
  BY <1>0, <1>2, CursorSound
<1>4. Ordered(q') = Ordered(q) /\ q'.cursor = pos
  BY <1>2, MoveKeepsOrder
<1> QED
  BY <1>0, <1>3, <1>4, ListAfter DEF PL!Jump

LEMMA ReplaceSteps ==
  ASSUME Sound(q), ReplaceTracks
  PROVE  Sound(q') /\ PL!Replace
<1>1. PICK songs \in Blocks, override \in {"keep", "on", "off"} :
        \E start \in 1..Max({1, Len(songs)}) :
          \E c \in Replacement(q, songs, start, override) : Commit(c)
  BY DEF ReplaceTracks
<1>2. PICK start \in 1..Max({1, Len(songs)}) :
        \E c \in Replacement(q, songs, start, override) : q' = c
  BY <1>1 DEF Commit
<1>3. songs \in Seq(VideoIds) /\ Len(songs) \in Nat
  BY BlockIs
<1>4. Max({1, Len(songs)}) \in Nat
  BY <1>3, MaxPair
<1>5. start \in Nat /\ 1 <= start
  BY <1>4
<1>6. Sound(q') /\ PutInstead(q', songs)
  BY <1>2, <1>3, <1>5, ReplacementIs
<1> QED
  BY <1>6, ReplaceIf

-----------------------------------------------------------------------------
(* What the owners need: where playback starts, and that the current track  *)
(* stays.                                                                   *)

LEMMA FirstPlayableIs ==
  ASSUME NEW c, Sound(c), NEW from \in 1..Size(c)
  PROVE  FirstPlayable(c, from).target \in 1..Size(c)
<1> DEFINE walk == Walk(c, from)
           hits == {i \in DOMAIN walk : SongAt(c, walk[i]) \in Playable}
<1>1. Size(c) \in Nat \ {0} /\ from \in Nat /\ 1 <= from /\ from <= Size(c)
  BY SoundIs
<1>2. /\ Len(walk) \in 1..Size(c)
      /\ DOMAIN walk = 1..Len(walk)
      /\ \A i \in 1..Len(walk) :
           walk[i] = IF from + i <= Size(c) + 1 THEN (from + i) - 1
                     ELSE ((from + i) - 1) - Size(c)
  BY WalkIs
<1>3. FirstPlayable(c, from).target = IF hits = {} THEN walk[Len(walk)] ELSE walk[Min(hits)]
  BY DEF FirstPlayable
<1>4. hits \subseteq 1..Len(walk)
  BY <1>2
<1> HIDE DEF walk, hits
<1>5. \A i \in 1..Len(walk) : walk[i] \in 1..Size(c)
  <2> TAKE i \in 1..Len(walk)
  <2>1. i \in Nat /\ 1 <= i /\ i <= Size(c)
    BY <1>1, <1>2
  <2>2. walk[i] = IF from + i <= Size(c) + 1 THEN (from + i) - 1
                  ELSE ((from + i) - 1) - Size(c)
    BY <1>2
  <2> QED
    BY <1>1, <2>1, <2>2
<1>6. hits # {} => Min(hits) \in 1..Len(walk)
  <2> SUFFICES ASSUME hits # {} PROVE Min(hits) \in 1..Len(walk)
    OBVIOUS
  <2>1. hits \subseteq Nat /\ hits \subseteq Int
    BY <1>2, <1>4
  <2>2. PICK h \in hits : \A i \in hits : h <= i
    BY <2>1, LeastNumber
  <2>3. Min(hits) = h
    BY <2>1, <2>2, MinIs
  <2> QED
    BY <1>4, <2>3
<1>7. Len(walk) \in 1..Len(walk)
  BY <1>1, <1>2
<1> QED
  BY <1>3, <1>5, <1>6, <1>7

LEMMA CursorShows ==
  ASSUME NEW c, NEW pos
  PROVE  Current(AtCursor(c, pos)) = SongAt(c, pos)
BY DEF Current, AtCursor, SongAt

LEMMA SameTrackShown ==
  ASSUME NEW c, Sound(c), NEW r, Sound(r), Size(c) # 0, Size(r) # 0,
         Ordered(r)[r.cursor] = Ordered(c)[c.cursor]
  PROVE  Current(r) = Current(c)
BY CurrentIs

LEMMA NoneUpcoming ==
  ASSUME NEW c, Sound(c), ~(c.cursor < Size(c))
  PROVE  ClearUpcoming(c) = c
<1> DEFINE n == Size(c)
           rows == (c.cursor + 1)..n
<1>1. n \in Nat /\ c.cursor \in Nat
  BY SoundIs
<1>2. rows = {}
  BY <1>1
<1> HIDE DEF rows
<1>3. PICK f : /\ RemoveRows(c, rows) = f[n]
               /\ f[0] = c
               /\ \A i \in 1..n :
                    f[i] = IF n + 1 - i \in rows THEN RemovePos(f[i - 1], n + 1 - i) ELSE f[i - 1]
  BY <1>1, RemoveRowsIs
<1> DEFINE T == {i \in 0..n : f[i] # c}
<1>4. T = {}
  <2> SUFFICES ASSUME T # {} PROVE FALSE
    OBVIOUS
  <2>1. T \subseteq Nat
    BY <1>1
  <2>2. PICK i \in T : \A k \in T : i <= k
    BY <2>1, LeastNumber
  <2>3. i \in 1..n /\ f[i] # c
    BY <1>1, <1>3, <2>2
  <2>4. i - 1 \in 0..n /\ i - 1 \notin T
    BY <1>1, <2>2, <2>3
  <2> QED
    BY <1>2, <1>3, <2>3, <2>4
<1>5. f[n] = c
  BY <1>1, <1>4
<1> QED
  BY <1>3, <1>5 DEF ClearUpcoming, rows

-----------------------------------------------------------------------------
\* The play order stays a permutation of the tracks, with the cursor in it.
LEMMA SoundInit == Init => Sound(q)
BY EmptyIsSound DEF Init

LEMMA SoundStep == Sound(q) /\ [Next]_queueVars => Sound(q')
<1> SUFFICES ASSUME Sound(q), [Next]_queueVars PROVE Sound(q')
  OBVIOUS
<1>1. CASE Inserting
  BY <1>1, InsertSteps
<1>2. CASE Removing
  BY <1>2, RemoveSteps
<1>3. CASE Arranging
  BY <1>3, ArrangeSteps
<1>4. CASE Moving
  BY <1>4, MoveSteps
<1>5. CASE ReplaceTracks
  BY <1>5, ReplaceSteps
<1>6. CASE RestoreTracks
  <2>1. PICK snapshot \in Snapshots : \E c \in RestoreSnapshot(q, snapshot) : q' = c
    BY <1>6 DEF RestoreTracks, Commit
  <2>2. snapshot \in Queues
    BY QueueAssumption
  <2> QED
    BY <2>1, <2>2, RestoreIs
<1>7. CASE ChangeRepeat
  <2>1. PICK mode \in Repeats : q' = WithRepeat(q, mode)
    BY <1>7 DEF ChangeRepeat, Keep
  <2> QED
    BY <2>1, RepeatSound
<1>8. CASE UNCHANGED queueVars
  BY <1>8 DEF queueVars
<1> QED
  BY <1>1, <1>2, <1>3, <1>4, <1>5, <1>6, <1>7, <1>8 DEF Next

LEMMA AlwaysSound == Spec => []Sound(q)
<1>1. Sound(q) /\ [Next]_queueVars => Sound(q)'
  BY SoundStep DEF Sound, Queues, IsPermutation
<1> QED
  BY SoundInit, <1>1, PTL DEF Spec

\* The play order is a permutation of the tracks, the cursor points at an
\* entry and the hard cap holds, whatever sequence of edits, shuffles, moves and
\* restores of corrupt snapshots the owner applies.
THEOREM ShapeIsKept == Spec => []QueueShape
<1>1. Sound(q) => QueueShape
  BY SoundHasShape
<1> QED
  BY AlwaysSound, <1>1, PTL

\* The purge of a run of rows and its range removal, and the daemon's removal
\* of one row and the App's, leave the same queue and the same decision.
THEOREM RemovalsAlwaysAgree == Spec => []RemovalsAgree
<1>1. Sound(q) => RemovalsAgree
  BY RemovalsAgreeIf
<1> QED
  BY AlwaysSound, <1>1, PTL

\* One lap of manual nexts under repeat-all meets each entry, and the walk that
\* looks for a playable track is the walk of those nexts.
THEOREM LapsMeetEveryTrack == Spec => []OneLapMeetsEveryTrack
<1>1. Sound(q) => OneLapMeetsEveryTrack
  BY LapIf
<1> QED
  BY AlwaysSound, <1>1, PTL

\* Each group of edits does to the tracks a listener sees, and to the place
\* among them, what PlayList says.
THEOREM EditsRefinePlayList == Spec => EditsKeepThePlace
<1>1. Sound(q) /\ [Next]_queueVars =>
        [/\ Inserting => PL!Insert
         /\ Removing => PL!Delete
         /\ Arranging => PL!Arrange
         /\ Moving => PL!Jump
         /\ ReplaceTracks => PL!Replace]_queueVars
  BY InsertSteps, RemoveSteps, ArrangeSteps, MoveSteps, ReplaceSteps
<1> QED
  BY AlwaysSound, <1>1, PTL DEF Spec, EditsKeepThePlace
=============================================================================
