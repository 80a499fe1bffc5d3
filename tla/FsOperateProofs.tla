-------------------------- MODULE FsOperateProofs --------------------------
(***************************************************************************)
(* No edit loses the contents of an item, for any tree, mounts, links,     *)
(* edits and answers, with other programs that create files, copies that   *)
(* fail and kills at any moment, as long as no move goes through the       *)
(* directories of another (FilesAreKept).                                  *)
(*                                                                         *)
(* A rename is harmless where nothing of an item is at its target or below *)
(* (Clear).  The plan sees to that for each move, and a move keeps it for  *)
(* those that follow when no target is within another (Apart).             *)
(*                                                                         *)
(* The index follows the files (IndexIsFollowing) and an item keeps its    *)
(* identity (IdentityIsKept): while an edit runs, each row is true or is   *)
(* below the source of a move already made, which reindex() will redo, and *)
(* each item still stands for a file that the next run of the indexer, or  *)
(* rebind(), finds (IndexInv).  Both rest on what the moves of an edit are *)
(* to each other and to the index (EditInv): none goes through what        *)
(* another moves or makes, or both are moves of one path, which the user   *)
(* asks for by typing the number of a link again (Separate).  Then the     *)
(* first of them counts (Done, Left): what a later one finds at the path   *)
(* is nothing, or a file that the index does not know (Repeated).          *)
(*                                                                         *)
(* An edit that is confirmed does not stop half way unless a copy fails,   *)
(* another program has created a file meanwhile or a path is moved twice   *)
(* (NothingFailsHalfWay), and tags are written only when the index is up   *)
(* to date (TagsAreFollowing).                                             *)
(***************************************************************************)
EXTENDS FsOperate, FiniteSetTheorems, SequenceTheorems, NaturalsInduction,
        WellFoundedInduction, TLAPS

-----------------------------------------------------------------------------
(* Paths. *)

LEMMA PathsAre ==
    ASSUME NEW p \in Paths
    PROVE  p \in Seq(Names) /\ Len(p) \in Nat \ {0} /\ p # <<>>
  BY DEF Paths

LEMMA OneOrMore ==
    ASSUME NEW n \in Nat \ {0}
    PROVE  (n = 1 \/ n > 1) /\ (n # 1 => 1 \in 1 .. n - 1)
  OBVIOUS

LEMMA PrefixMeans ==
    ASSUME NEW s \in Seq(Names), NEW t \in Seq(Names)
    PROVE  IsPrefix(s, t) <=> /\ Len(s) <= Len(t)
                              /\ \A k \in 1 .. Len(s) : s[k] = t[k]
  <1>1. ASSUME Len(s) <= Len(t), SubSeq(s, 1, Len(s)) = SubSeq(t, 1, Len(s)),
               NEW k \in 1 .. Len(s)
        PROVE  s[k] = t[k]
    <2>1. SubSeq(s, 1, Len(s))[k] = s[k] /\ SubSeq(t, 1, Len(s))[k] = t[k]
      BY <1>1
    <2> QED BY <1>1, <2>1
  <1>2. ASSUME Len(s) <= Len(t), \A k \in 1 .. Len(s) : s[k] = t[k]
        PROVE  SubSeq(s, 1, Len(s)) = SubSeq(t, 1, Len(s))
    BY <1>2
  <1> QED BY <1>1, <1>2 DEF IsPrefix

LEMMA PrefixRefl ==
    ASSUME NEW s \in Seq(Names)
    PROVE  IsPrefix(s, s)
  BY PrefixMeans

LEMMA PrefixTrans ==
    ASSUME NEW a \in Seq(Names), NEW b \in Seq(Names), NEW c \in Seq(Names),
           IsPrefix(a, b), IsPrefix(b, c)
    PROVE  IsPrefix(a, c)
  BY PrefixMeans

LEMMA PrefixesCompare ==
    ASSUME NEW a \in Seq(Names), NEW b \in Seq(Names), NEW c \in Seq(Names),
           IsPrefix(a, c), IsPrefix(b, c)
    PROVE  IsPrefix(a, b) \/ IsPrefix(b, a)
  <1>1. /\ Len(a) <= Len(c) /\ \A k \in 1 .. Len(a) : a[k] = c[k]
        /\ Len(b) <= Len(c) /\ \A k \in 1 .. Len(b) : b[k] = c[k]
    BY PrefixMeans
  <1>2. Len(a) <= Len(b) \/ Len(b) <= Len(a)
    OBVIOUS
  <1> QED BY <1>1, <1>2, PrefixMeans

LEMMA PrefixAntisym ==
    ASSUME NEW a \in Seq(Names), NEW b \in Seq(Names),
           IsPrefix(a, b), IsPrefix(b, a)
    PROVE  a = b
  BY PrefixMeans

LEMMA Initials ==
    ASSUME NEW p \in Paths, NEW n \in 1 .. Len(p)
    PROVE  /\ SubSeq(p, 1, n) \in Paths /\ Len(SubSeq(p, 1, n)) = n
           /\ IsPrefix(SubSeq(p, 1, n), p)
           /\ \A k \in 1 .. n : SubSeq(p, 1, n)[k] = p[k]
  <1>1. /\ SubSeq(p, 1, n) \in Seq(Names) /\ Len(SubSeq(p, 1, n)) = n
        /\ \A k \in 1 .. n : SubSeq(p, 1, n)[k] = p[k]
    BY DEF Paths
  <1>2. SubSeq(p, 1, n) # <<>>
    BY <1>1
  <1>3. p \in Seq(Names) /\ n <= Len(p)
    BY PathsAre
  <1> HIDE DEF Paths
  <1>4. IsPrefix(SubSeq(p, 1, n), p)
    <2> DEFINE h == SubSeq(p, 1, n)
    <2>1. h \in Seq(Names) /\ Len(h) <= Len(p) /\ \A k \in 1 .. Len(h) : h[k] = p[k]
      BY <1>1, <1>3
    <2> HIDE DEF h
    <2>2. IsPrefix(h, p)
      BY <2>1, <1>3, PrefixMeans
    <2> QED BY <2>2 DEF h
  <1> QED BY <1>1, <1>2, <1>4 DEF Paths

LEMMA PrefixIsInitial ==
    ASSUME NEW s \in Paths, NEW p \in Paths, IsPrefix(s, p)
    PROVE  Len(s) \in 1 .. Len(p) /\ SubSeq(p, 1, Len(s)) = s
  <1>1. Len(s) <= Len(p) /\ Len(s) # 0 /\ \A k \in 1 .. Len(s) : s[k] = p[k]
    BY PrefixMeans DEF Paths
  <1>2. SubSeq(p, 1, Len(s)) \in Seq(Names) /\ Len(SubSeq(p, 1, Len(s))) = Len(s)
        /\ \A k \in 1 .. Len(s) : SubSeq(p, 1, Len(s))[k] = p[k]
    BY <1>1, Initials DEF Paths
  <1> QED BY <1>1, <1>2 DEF Paths

LEMMA WholePath ==
    ASSUME NEW p \in Paths
    PROVE  \E n \in 1 .. Len(p) : p = SubSeq(p, 1, n)
  <1> DEFINE S == 1 .. Len(p)
             T(n) == SubSeq(p, 1, n)
  <1>1. Len(p) \in S /\ p = T(Len(p))
    BY PathsAre, PrefixRefl, PrefixIsInitial
  <1> HIDE DEF S, T
  <1>2. \E n \in S : p = T(n)
    BY <1>1
  <1> QED BY <1>2 DEF S, T

LEMMA InitialOfInitial ==
    ASSUME NEW p \in Paths, NEW n \in 1 .. Len(p), NEW k \in 1 .. n
    PROVE  SubSeq(SubSeq(p, 1, n), 1, k) = SubSeq(p, 1, k)
  BY Initials DEF Paths

LEMMA ConcatIs ==
    ASSUME NEW s \in Seq(Names), NEW t \in Seq(Names)
    PROVE  /\ s \o t \in Seq(Names) /\ Len(s \o t) = Len(s) + Len(t)
           /\ \A k \in 1 .. Len(s) : (s \o t)[k] = s[k]
           /\ \A k \in Len(s) + 1 .. Len(s \o t) : (s \o t)[k] = t[k - Len(s)]
  <1>1. s \o t \in Seq(Names) /\ Len(s \o t) = Len(s) + Len(t)
    OBVIOUS
  <1>2. ASSUME NEW k \in 1 .. Len(s) PROVE (s \o t)[k] = s[k]
    OBVIOUS
  <1>3. ASSUME NEW k \in Len(s) + 1 .. Len(s \o t)
        PROVE  (s \o t)[k] = t[k - Len(s)]
    BY <1>1
  <1> QED BY <1>1, <1>2, <1>3

\* Where a path goes, and back.
LEMMA MovedIs ==
    ASSUME NEW from \in Paths, NEW to \in Paths, NEW p \in Paths,
           IsPrefix(from, p)
    PROVE  LET q == Moved(p, from, to)
           IN  /\ q \in Paths /\ Len(q) = Len(to) + Len(p) - Len(from)
               /\ \A k \in 1 .. Len(to) : q[k] = to[k]
               /\ \A k \in Len(to) + 1 .. Len(q) : q[k] = p[k - Len(to) + Len(from)]
               /\ IsPrefix(to, q)
  <1> DEFINE r == SubSeq(p, Len(from) + 1, Len(p))
             q == to \o r
  <1>1. Len(from) <= Len(p) /\ Len(from) > 0 /\ Len(to) > 0
    BY PrefixMeans DEF Paths
  <1>2. /\ r \in Seq(Names) /\ Len(r) = Len(p) - Len(from)
        /\ \A k \in 1 .. Len(r) : r[k] = p[k + Len(from)]
    BY <1>1 DEF Paths
  <1>3. /\ q \in Seq(Names) /\ Len(q) = Len(to) + Len(r)
        /\ \A k \in 1 .. Len(to) : q[k] = to[k]
        /\ \A k \in Len(to) + 1 .. Len(q) : q[k] = r[k - Len(to)]
    <2>1. to \in Seq(Names)
      BY PathsAre
    <2> HIDE DEF r
    <2> QED BY <1>2, <2>1, ConcatIs
  <1>4. q # <<>>
    BY <1>1, <1>2, <1>3
  <1>6. q = Moved(p, from, to)
    BY DEF Moved
  <1>8. /\ to \in Seq(Names) /\ Len(to) \in Nat /\ Len(from) \in Nat
        /\ Len(p) \in Nat
    BY PathsAre
  <1> HIDE DEF q, r
  <1>9. Len(r) \in Nat
    BY <1>2
  <1>5. IsPrefix(to, q)
    <2>1. Len(to) <= Len(q)
      BY <1>3, <1>8, <1>9
    <2> QED BY <2>1, <1>3, <1>8, PrefixMeans
  <1>7. ASSUME NEW k \in Len(to) + 1 .. Len(q)
        PROVE  q[k] = p[k - Len(to) + Len(from)]
    <2>1. k - Len(to) \in 1 .. Len(r)
      <3>1. Len(q) = Len(to) + Len(r)
        BY <1>3
      <3> QED BY <3>1, <1>8, <1>9
    <2>2. q[k] = r[k - Len(to)]
      BY <1>3
    <2> QED BY <2>1, <2>2, <1>2
  <1> QED BY <1>1, <1>2, <1>3, <1>4, <1>5, <1>6, <1>7 DEF Paths

LEMMA SamePath ==
    ASSUME NEW p \in Seq(Names), NEW q \in Seq(Names), Len(p) = Len(q),
           \A k \in 1 .. Len(p) : p[k] = q[k]
    PROVE  p = q
  OBVIOUS

LEMMA MovedBack ==
    ASSUME NEW from \in Paths, NEW to \in Paths, NEW p \in Paths,
           IsPrefix(from, p)
    PROVE  Moved(Moved(p, from, to), to, from) = p
  <1> DEFINE q == Moved(p, from, to)
             b == Moved(q, to, from)
  <1>1. /\ q \in Paths /\ Len(q) = Len(to) + Len(p) - Len(from)
        /\ \A k \in Len(to) + 1 .. Len(q) : q[k] = p[k - Len(to) + Len(from)]
        /\ IsPrefix(to, q)
    BY MovedIs
  <1>2. Len(from) <= Len(p) /\ \A k \in 1 .. Len(from) : from[k] = p[k]
    BY PrefixMeans DEF Paths
  <1> HIDE DEF q
  <1>3. /\ b \in Paths /\ Len(b) = Len(from) + Len(q) - Len(to)
        /\ \A k \in 1 .. Len(from) : b[k] = from[k]
        /\ \A k \in Len(from) + 1 .. Len(b) : b[k] = q[k - Len(from) + Len(to)]
    <2>1. q \in Paths /\ IsPrefix(to, q)
      BY <1>1
    <2> QED BY <2>1, MovedIs
  <1> HIDE DEF b
  <1>4. Len(b) = Len(p)
    BY <1>1, <1>3 DEF Paths
  <1>5. ASSUME NEW k \in 1 .. Len(p) PROVE b[k] = p[k]
    <2>1. CASE k <= Len(from)
      <3>1. k \in 1 .. Len(from)
        BY <2>1, PathsAre
      <3> QED BY <3>1, <1>2, <1>3
    <2>2. CASE k > Len(from)
      <3>1. k - Len(from) + Len(to) \in Len(to) + 1 .. Len(q)
        BY <2>2, <1>1 DEF Paths
      <3>2. b[k] = q[k - Len(from) + Len(to)]
        BY <2>2, <1>3, <1>4 DEF Paths
      <3>3. q[k - Len(from) + Len(to)] = p[k - Len(from) + Len(to) - Len(to) + Len(from)]
        BY <3>1, <1>1
      <3>4. k - Len(from) + Len(to) - Len(to) + Len(from) = k
        BY DEF Paths
      <3> QED BY <3>2, <3>3, <3>4
    <2> QED BY <2>1, <2>2 DEF Paths
  <1>6. b = p
    BY <1>3, <1>4, <1>5, SamePath DEF Paths
  <1> QED BY <1>6 DEF b, q

\* What is above a path that is moved along is above the target, or is moved
\* along as well.
LEMMA AboveMoved ==
    ASSUME NEW from \in Paths, NEW to \in Paths, NEW p \in Paths,
           IsPrefix(from, p), NEW n \in 1 .. Len(Moved(p, from, to)) - 1
    PROVE  \/ n < Len(to) /\ SubSeq(Moved(p, from, to), 1, n) = SubSeq(to, 1, n)
           \/ \E k \in Len(from) .. Len(p) - 1 :
                 /\ IsPrefix(from, SubSeq(p, 1, k))
                 /\ SubSeq(Moved(p, from, to), 1, n)
                       = Moved(SubSeq(p, 1, k), from, to)
  <1> DEFINE q == Moved(p, from, to)
  <1>1. /\ q \in Paths /\ Len(q) = Len(to) + Len(p) - Len(from)
        /\ \A k \in 1 .. Len(to) : q[k] = to[k]
        /\ \A k \in Len(to) + 1 .. Len(q) : q[k] = p[k - Len(to) + Len(from)]
    BY MovedIs
  <1>2. /\ Len(from) \in 1 .. Len(p) /\ \A k \in 1 .. Len(from) : from[k] = p[k]
        /\ Len(to) \in Nat \ {0} /\ Len(p) \in Nat /\ Len(q) \in Nat
    BY <1>1, PrefixMeans DEF Paths
  <1>a. n \in 1 .. Len(q) - 1
    OBVIOUS
  <1> HIDE DEF q
  <1>3. /\ SubSeq(q, 1, n) \in Paths /\ Len(SubSeq(q, 1, n)) = n
        /\ \A k \in 1 .. n : SubSeq(q, 1, n)[k] = q[k]
    BY <1>1, <1>2, <1>a, Initials
  <1>4. CASE n < Len(to)
    <2>1. /\ SubSeq(to, 1, n) \in Paths /\ Len(SubSeq(to, 1, n)) = n
          /\ \A k \in 1 .. n : SubSeq(to, 1, n)[k] = to[k]
      BY <1>2, <1>4, <1>a, Initials
    <2>2. SubSeq(q, 1, n) = SubSeq(to, 1, n)
      <3>1. \A k \in 1 .. n : SubSeq(q, 1, n)[k] = SubSeq(to, 1, n)[k]
        BY <2>1, <1>3, <1>1, <1>2, <1>4
      <3> QED BY <2>1, <1>3, <3>1, SamePath DEF Paths
    <2> QED BY <2>2, <1>4 DEF q
  <1>5. CASE n >= Len(to)
    <2> DEFINE k == n - Len(to) + Len(from)
               h == SubSeq(p, 1, k)
               g == Moved(h, from, to)
    <2>1. k \in Len(from) .. Len(p) - 1 /\ k \in 1 .. Len(p)
      BY <1>1, <1>2, <1>5, <1>a
    <2>2. /\ h \in Paths /\ Len(h) = k
          /\ \A j \in 1 .. k : h[j] = p[j]
      <3> HIDE DEF k
      <3> QED BY <2>1, Initials
    <2>3. IsPrefix(from, h)
      <3>1. Len(from) <= Len(h) /\ h \in Seq(Names) /\ from \in Seq(Names)
        BY <2>1, <2>2, PathsAre
      <3>2. \A j \in 1 .. Len(from) : h[j] = p[j]
        BY <2>1, <2>2, <1>2
      <3> HIDE DEF h
      <3> QED BY <3>1, <3>2, <1>2, PrefixMeans
    <2> HIDE DEF h
    <2>4. /\ g \in Paths /\ Len(g) = Len(to) + Len(h) - Len(from)
          /\ \A j \in 1 .. Len(to) : g[j] = to[j]
          /\ \A j \in Len(to) + 1 .. Len(g) : g[j] = h[j - Len(to) + Len(from)]
      BY <2>2, <2>3, MovedIs
    <2> HIDE DEF g
    <2>5. Len(g) = n
      BY <2>4, <2>2, <1>2
    <2>6. ASSUME NEW j \in 1 .. n PROVE SubSeq(q, 1, n)[j] = g[j]
      <3>1. SubSeq(q, 1, n)[j] = q[j]
        BY <1>3
      <3>2. CASE j <= Len(to)
        BY <3>1, <3>2, <1>1, <1>2, <2>4
      <3>3. CASE j > Len(to)
        <4>1. j - Len(to) + Len(from) \in 1 .. k
          BY <3>3, <1>2
        <4>2. g[j] = p[j - Len(to) + Len(from)]
          <5>1. g[j] = h[j - Len(to) + Len(from)]
            BY <2>4, <2>5, <3>3, <1>2
          <5> QED BY <5>1, <4>1, <2>2
        <4>3. j \in Len(to) + 1 .. Len(q)
          BY <3>3, <1>a, <1>2
        <4>4. q[j] = p[j - Len(to) + Len(from)]
          BY <4>3, <1>1
        <4> QED BY <4>2, <4>4, <3>1
      <3> QED BY <3>2, <3>3, <1>2
    <2>7. SubSeq(q, 1, n) = g
      BY <1>3, <2>4, <2>5, <2>6, SamePath DEF Paths
    <2> QED BY <2>1, <2>3, <2>7 DEF g, h, q
  <1> QED BY <1>4, <1>5, <1>2, <1>a

-----------------------------------------------------------------------------
(* What is computed step by step. *)

\* A set of numbers that has a member has a least one.
LEMMA LeastNumber ==
    ASSUME NEW S \in SUBSET Nat, S # {}
    PROVE  \E m \in S : \A n \in S : m <= n
  <1>1. PICK m \in S : \A n \in S : <<n, m>> \notin OpToRel(<, Nat)
    BY NatLessThanWellFounded, WFMin
  <1>2. \A n \in S : ~(n < m)
    BY <1>1 DEF OpToRel
  <1> QED
    BY <1>2

\* f holds what n steps make of a base, one after the other.
AreSteps(f, n, base, step) ==
    f[0] = base /\ \A k \in 1 .. n : f[k] = step[<<k, f[k - 1]>>]

\* A function of the steps made exists, and stays in a set that no step leaves.
LEMMA StepsExist ==
    ASSUME NEW n \in Nat, NEW S, NEW base \in S, NEW step \in [(1 .. n) \X S -> S]
    PROVE  \E f \in [0 .. n -> S] : AreSteps(f, n, base, step)
  <1> DEFINE Until(f, m) == f[0] = base /\ \A k \in 1 .. m : f[k] = step[<<k, f[k - 1]>>]
             Bad == {m \in 0 .. n : ~\E f \in [0 .. m -> S] : Until(f, m)}
  <1>1. ASSUME Bad # {} PROVE FALSE
    <2>1. Bad \in SUBSET Nat
      OBVIOUS
    <2>2. PICK m \in Bad : \A l \in Bad : m <= l
      <3> HIDE DEF Bad
      <3> QED BY <2>1, <1>1, LeastNumber
    <2>3. m # 0
      <3>1. Until([k \in 0 .. 0 |-> base], 0)
        OBVIOUS
      <3>2. [k \in 0 .. 0 |-> base] \in [0 .. 0 -> S]
        OBVIOUS
      <3> HIDE DEF Until
      <3> QED BY <3>1, <3>2
    <2>4. m - 1 \in 0 .. n /\ m \in 1 .. n /\ ~(m <= m - 1)
      BY <2>3
    <2>5. PICK f \in [0 .. m - 1 -> S] : Until(f, m - 1)
      BY <2>2, <2>4
    <2> DEFINE g == [k \in 0 .. m |-> IF k = m THEN step[<<m, f[m - 1]>>] ELSE f[k]]
    <2>6. f[m - 1] \in S
      BY <2>4
    <2>7. step[<<m, f[m - 1]>>] \in S
      BY <2>4, <2>6
    <2>8. g \in [0 .. m -> S]
      BY <2>7, <2>4
    <2>9. Until(g, m)
      <3>1. g[0] = base
        BY <2>3, <2>4, <2>5
      <3>2. ASSUME NEW k \in 1 .. m PROVE g[k] = step[<<k, g[k - 1]>>]
        <4>1. g[k - 1] = f[k - 1]
          BY <2>4
        <4>2. CASE k = m
          <5>1. g[k] = step[<<m, f[m - 1]>>]
            BY <4>2
          <5> HIDE DEF g
          <5> QED BY <5>1, <4>1, <4>2
        <4>3. CASE k # m
          <5>1. k \in 1 .. m - 1
            BY <4>3, <2>4
          <5>2. g[k] = f[k]
            BY <4>3, <5>1
          <5> QED BY <4>1, <5>1, <5>2, <2>5
        <4> QED BY <4>2, <4>3
      <3> HIDE DEF g
      <3> QED BY <3>1, <3>2
    <2> HIDE DEF g, Until
    <2> QED BY <2>8, <2>9
  <1> HIDE DEF Until
  <1>2. n \in 0 .. n /\ n \notin Bad
    BY <1>1
  <1>3. PICK f \in [0 .. n -> S] : Until(f, n)
    BY <1>2
  <1> QED BY <1>3 DEF Until, AreSteps

\* Sequences put together, one after the other.
LEMMA FlattenSteps ==
    ASSUME NEW M, NEW ss \in Seq(Seq(M))
    PROVE  \/ Len(ss) = 0 /\ FlattenSeq(ss) = <<>>
           \/ \E f : /\ Len(ss) \in Nat \ {0} /\ FlattenSeq(ss) = f[Len(ss)]
                     /\ \A i \in 1 .. Len(ss) :
                           /\ f[i] \in Seq(M)
                           /\ f[i] = IF i = 1 THEN ss[i] ELSE f[i - 1] \o ss[i]
  <1> DEFINE n == Len(ss)
             IsFlat(f) == f = [i \in 1 .. n |-> IF i = 1 THEN ss[i] ELSE f[i - 1] \o ss[i]]
  <1>1. CASE n = 0
    <2>1. ss = <<>>
      BY <1>1
    <2> QED BY <1>1, <2>1 DEF FlattenSeq
  <1>2. CASE n # 0
    <2>1. n \in Nat \ {0}
      BY <1>2
    <2> DEFINE step == [a \in (1 .. n) \X Seq(M) |-> a[2] \o ss[a[1]]]
    <2>2. step \in [(1 .. n) \X Seq(M) -> Seq(M)]
      <3>1. ASSUME NEW a \in (1 .. n) \X Seq(M) PROVE a[2] \o ss[a[1]] \in Seq(M)
        <4>1. a[2] \in Seq(M) /\ ss[a[1]] \in Seq(M)
          OBVIOUS
        <4> QED BY <4>1
      <3> QED BY <3>1
    <2>3. <<>> \in Seq(M)
      OBVIOUS
    <2>4. PICK g \in [0 .. n -> Seq(M)] :
              g[0] = <<>> /\ \A k \in 1 .. n : g[k] = step[<<k, g[k - 1]>>]
      <3> DEFINE S == Seq(M)
                 none == <<>>
      <3>1. n \in Nat /\ none \in S /\ step \in [(1 .. n) \X S -> S]
        BY <2>1, <2>2, <2>3
      <3> HIDE DEF step, n, S, none
      <3>2. \E g \in [0 .. n -> S] : AreSteps(g, n, none, step)
        BY <3>1, StepsExist
      <3> QED BY <3>2 DEF S, none, AreSteps
    <2>5. \A k \in 1 .. n : g[k] = g[k - 1] \o ss[k] /\ g[k] \in Seq(M)
      <3>1. ASSUME NEW k \in 1 .. n PROVE g[k] = g[k - 1] \o ss[k] /\ g[k] \in Seq(M)
        <4> HIDE DEF n
        <4>1. g[k - 1] \in Seq(M) /\ g[k] \in Seq(M)
          BY <2>1
        <4>2. <<k, g[k - 1]>> \in (1 .. n) \X Seq(M)
          BY <4>1
        <4>3. step[<<k, g[k - 1]>>] = g[k - 1] \o ss[k]
          BY <4>2
        <4> HIDE DEF step
        <4> QED BY <4>1, <4>3, <2>4
      <3> QED BY <3>1
    <2> DEFINE h == [k \in 1 .. n |-> g[k]]
    <2>6. IsFlat(h)
      <3>1. ASSUME NEW i \in 1 .. n
            PROVE  g[i] = IF i = 1 THEN ss[i] ELSE h[i - 1] \o ss[i]
        <4>1. CASE i = 1
          <5>1. ss[1] \in Seq(M)
            BY <4>1
          <5>2. g[1] = g[1 - 1] \o ss[1]
            BY <4>1, <2>5
          <5>3. g[1] = <<>> \o ss[1]
            <6>1. 1 - 1 = 0
              OBVIOUS
            <6> HIDE DEF n, h, step
            <6> QED BY <6>1, <5>2, <2>4
          <5> HIDE DEF h, n
          <5> QED BY <5>1, <5>3, <4>1
        <4>2. CASE i # 1
          <5>1. h[i - 1] = g[i - 1]
            BY <4>2, <2>1
          <5> HIDE DEF h
          <5> QED BY <5>1, <4>2, <2>5
        <4> QED BY <4>1, <4>2
      <3> QED BY <3>1
    <2> DEFINE f == CHOOSE e : IsFlat(e)
    <2>7. IsFlat(f)
      <3> HIDE DEF IsFlat, h
      <3> QED BY <2>6
    <2>8. FlattenSeq(ss) = f[n]
      BY <1>2 DEF FlattenSeq
    <2> HIDE DEF f
    <2>9. \A i \in 1 .. n : f[i] = IF i = 1 THEN ss[i] ELSE f[i - 1] \o ss[i]
      BY <2>7
    <2> DEFINE Bad == {i \in 1 .. n : f[i] \notin Seq(M)}
    <2>10. Bad = {}
      <3> SUFFICES ASSUME Bad # {} PROVE FALSE
        OBVIOUS
      <3>1. PICK i \in Bad : \A l \in Bad : i <= l
        <4>1. Bad \in SUBSET Nat
          OBVIOUS
        <4> HIDE DEF Bad
        <4> QED BY <4>1, LeastNumber
      <3>2. i # 1
        BY <2>9
      <3>3. i - 1 \in 1 .. n /\ i - 1 \notin Bad
        BY <3>1, <3>2
      <3>4. f[i - 1] \in Seq(M) /\ ss[i] \in Seq(M)
        BY <3>3
      <3>5. f[i] = f[i - 1] \o ss[i]
        BY <2>9, <3>2
      <3>6. f[i] \in Seq(M)
        BY <3>4, <3>5
      <3> QED BY <3>6
    <2> QED BY <2>1, <2>8, <2>9, <2>10
  <1> QED BY <1>1, <1>2

\* Sequences of sequences of members of M, put together, are members of M.
LEMMA FlattenType ==
    ASSUME NEW M, NEW ss \in Seq(Seq(M))
    PROVE  FlattenSeq(ss) \in Seq(M)
  <1>1. <<>> \in Seq(M)
    OBVIOUS
  <1> QED BY <1>1, FlattenSteps

\* What is in S at the start, and after each step if before it, stays in S.
LEMMA StaysIn ==
    ASSUME NEW n \in Nat, NEW S, NEW f, f[0] \in S,
           \A k \in 1 .. n : f[k - 1] \in S => f[k] \in S
    PROVE  \A k \in 0 .. n : f[k] \in S
  <1> DEFINE Bad == {k \in 0 .. n : f[k] \notin S}
  <1> SUFFICES ASSUME Bad # {} PROVE FALSE
    OBVIOUS
  <1>1. PICK k \in Bad : \A l \in Bad : k <= l
    <2>1. Bad \in SUBSET Nat
      OBVIOUS
    <2> HIDE DEF Bad
    <2> QED BY <2>1, LeastNumber
  <1>2. k # 0 /\ k \in 0 .. n
    OBVIOUS
  <1>3. k \in 1 .. n /\ k - 1 \in 0 .. n /\ ~(k <= k - 1)
    BY <1>2
  <1>4. k - 1 \notin Bad
    BY <1>1, <1>3
  <1>5. f[k - 1] \in S
    BY <1>3, <1>4
  <1> QED BY <1>3, <1>5

\* A finite set as a sequence: each member has one place.
LEMMA SetToSeqIs ==
    ASSUME NEW S, IsFiniteSet(S)
    PROVE  LET s == SetToSeq(S)
           IN  /\ Cardinality(S) \in Nat
               /\ s \in [1 .. Cardinality(S) -> S] /\ s \in Seq(S)
               /\ DOMAIN s = 1 .. Cardinality(S)
               /\ \A x \in S : \E k \in 1 .. Cardinality(S) : s[k] = x
               /\ \A k, l \in 1 .. Cardinality(S) : s[k] = s[l] => k = l
  <1> DEFINE n == Cardinality(S)
             s == SetToSeq(S)
  <1>1. n \in Nat /\ ExistsBijection(1 .. n, S)
    BY FS_CardinalityType
  <1>2. PICK f : f \in [1 .. n -> S] /\ IsInjective(f)
    <2>1. PICK f \in Bijection(1 .. n, S) : TRUE
      BY <1>1 DEF ExistsBijection
    <2> HIDE DEF n
    <2> QED BY <2>1 DEF Bijection, Injection
  <1>3. s \in [1 .. n -> S] /\ IsInjective(s)
    BY <1>2 DEF SetToSeq
  <1> HIDE DEF s
  <1>4. s \in Injection(1 .. n, S)
    BY <1>3 DEF Injection, IsInjective
  <1>5. Cardinality(1 .. n) = n /\ IsFiniteSet(1 .. n)
    BY <1>1, FS_Interval
  <1>6. s \in Surjection(1 .. n, S)
    BY <1>4, <1>5, FS_Injection
  <1>7. \A x \in S : \E k \in 1 .. n : s[k] = x
    BY <1>6 DEF Surjection
  <1>8. s \in Seq(S)
    BY <1>1, <1>3
  <1>9. \A k, l \in 1 .. n : s[k] = s[l] => k = l
    BY <1>3 DEF IsInjective
  <1> QED BY <1>1, <1>3, <1>7, <1>8, <1>9 DEF s

-----------------------------------------------------------------------------
(* The plan. *)

\* A move on which an edit can be confirmed.
PlannedMove ==
    {m \in [item : Items, from : Paths, to : Paths, crossed : BOOLEAN] :
        m.crossed => m.from[1] # m.to[1]}

\* Those whose source is there.
Ready == {m \in PlannedMove : m.from \in DOMAIN fs}

\* Those that can be planned: no file is in the place of the target's parent.
Fit == {m \in Ready : Exists(Parent(m.to)) => IsDir(Parent(m.to))}

LocationsOK == IsFiniteSet(locations) /\ \A l \in locations : l.path \in Paths

LEMMA ApplyNodeType ==
    ASSUME NEW p \in Paths, NEW n \in Nodes
    PROVE  ApplyNode(p, n) \in Paths
  <1>1. p \in Seq(Names) /\ Len(p) \in Nat \ {0}
    BY PathsAre
  <1>2. \A s \in Seq(Names) : \A x \in Names : Append(s, x) \in Paths
    <2>1. ASSUME NEW s \in Seq(Names), NEW x \in Names PROVE Append(s, x) \in Paths
      <3>1. Append(s, x) \in Seq(Names) /\ Len(Append(s, x)) = Len(s) + 1
        OBVIOUS
      <3>2. Len(Append(s, x)) # 0 /\ Len(<<>>) = 0
        BY <3>1
      <3> QED BY <3>1, <3>2 DEF Paths
    <2> QED BY <2>1
  <1>3. CASE n \in [kind : {"path"}, path : Paths]
    BY <1>3 DEF ApplyNode
  <1>4. CASE n \in [kind : {"parentdir"}, path : Paths]
    <2>1. n.path \in Seq(Names) /\ Last(p) \in Names /\ n.kind = "parentdir"
      BY <1>1, <1>4, PathsAre DEF Last
    <2> QED BY <2>1, <1>2 DEF ApplyNode
  <1>5. CASE n \in [kind : {"filename"}, name : Names]
    <2>1. Parent(p) \in Seq(Names) /\ n.name \in Names /\ n.kind = "filename"
      BY <1>1, <1>5 DEF Parent, Front
    <2> QED BY <2>1, <1>2 DEF ApplyNode
  <1>6. CASE n \in [kind : {"mtime"}]
    BY <1>6 DEF ApplyNode
  <1> QED BY <1>3, <1>4, <1>5, <1>6 DEF Nodes

LEMMA TargetType ==
    ASSUME NEW from \in Paths, NEW nodes \in Seq(Nodes)
    PROVE  Target(from, nodes) \in Paths
  <1> DEFINE n == Len(nodes)
             Is(f) == f = [k \in 0 .. n |-> IF k = 0 THEN from
                                            ELSE ApplyNode(f[k - 1], nodes[k])]
             step == [a \in (1 .. n) \X Paths |-> ApplyNode(a[2], nodes[a[1]])]
             after == CHOOSE f : Is(f)
  <1>1. n \in Nat /\ \A k \in 1 .. n : nodes[k] \in Nodes
    OBVIOUS
  <1>2. step \in [(1 .. n) \X Paths -> Paths]
    <2>1. ASSUME NEW a \in (1 .. n) \X Paths PROVE ApplyNode(a[2], nodes[a[1]]) \in Paths
      BY <1>1, ApplyNodeType
    <2> QED BY <2>1
  <1>3. PICK g \in [0 .. n -> Paths] : AreSteps(g, n, from, step)
    <2> HIDE DEF n, step
    <2> QED BY <1>1, <1>2, StepsExist
  <1>4. Is(g)
    <2>1. ASSUME NEW k \in 1 .. n PROVE g[k] = ApplyNode(g[k - 1], nodes[k])
      <3> HIDE DEF n
      <3>1. <<k, g[k - 1]>> \in (1 .. n) \X Paths
        BY <1>1
      <3>2. step[<<k, g[k - 1]>>] = ApplyNode(g[k - 1], nodes[k])
        BY <3>1
      <3> HIDE DEF step
      <3> QED BY <3>2, <1>3 DEF AreSteps
    <2>2. g[0] = from
      BY <1>3 DEF AreSteps
    <2> HIDE DEF n
    <2> QED BY <2>1, <2>2, <1>1
  <1>5. Is(after)
    <2> HIDE DEF Is
    <2> QED BY <1>4
  <1>6. Target(from, nodes) = after[n]
    BY DEF Target
  <1> HIDE DEF after, n
  <1>7. after[0] = from /\ \A k \in 1 .. n : after[k] = ApplyNode(after[k - 1], nodes[k])
    BY <1>1, <1>5
  <1>8. \A k \in 1 .. n : after[k - 1] \in Paths => after[k] \in Paths
    BY <1>1, <1>7, ApplyNodeType
  <1>9. \A k \in 0 .. n : after[k] \in Paths
    <2>1. after[0] \in Paths
      BY <1>7
    <2> QED BY <1>1, <1>8, <2>1, StaysIn
  <1> QED BY <1>1, <1>6, <1>9

LEMMA MovesType ==
    ASSUME NEW i \in Items, NEW from \in Paths, NEW nodes \in Seq(Nodes),
           ~Fatal(from, nodes)
    PROVE  Moves(i, from, nodes) \in Seq(Fit)
  <1> DEFINE to == Target(from, nodes)
             m == [item |-> i, from |-> from, to |-> to,
                   crossed |-> Device(from) # Device(to)]
  <1>1. to \in Paths
    BY TargetType
  <1> HIDE DEF to
  <1>2. m \in [item : Items, from : Paths, to : Paths, crossed : BOOLEAN]
    BY <1>1
  <1>3. m.crossed => m.from[1] # m.to[1]
    BY <1>1, PathsAre DEF Device
  <1>4. m \in Ready
    <2>1. from \in DOMAIN fs
      BY PathsAre DEF Fatal, Exists
    <2> QED BY <1>2, <1>3, <2>1 DEF PlannedMove, Ready
  <1> HIDE DEF m
  <1>5. (to # from => <<m>> \in Seq(Fit)) /\ <<>> \in Seq(Fit)
    <2> SUFFICES ASSUME to # from PROVE m \in Fit
      OBVIOUS
    <2>1. m.to = to
      BY DEF m
    <2> QED BY <1>4, <2>1 DEF Fit, Fatal, to
  <1>6. Moves(i, from, nodes) = IF to = from THEN <<>> ELSE <<m>>
    BY DEF Moves, to, m
  <1> QED BY <1>5, <1>6

LEMMA PathsOfType ==
    ASSUME LocationsOK, NEW i
    PROVE  IsFiniteSet(PathsOf(i)) /\ PathsOf(i) \subseteq Paths
  <1> DEFINE L == {k \in locations : k.item = i}
             f == [l \in L |-> l.path]
  <1>1. IsFiniteSet(L)
    BY FS_Subset DEF LocationsOK
  <1>2. f \in Surjection(L, PathsOf(i))
    BY DEF Surjection, PathsOf
  <1>3. IsFiniteSet(PathsOf(i))
    <2> HIDE DEF f, L
    <2> QED BY <1>1, <1>2, FS_Surjection
  <1> QED BY <1>3 DEF PathsOf, LocationsOK

LEMMA PlannedMovesType ==
    ASSUME LocationsOK, NEW e \in [item : Items, nodes : Seq(Nodes)],
           ~IssueFor(e)
    PROVE  PlannedMoves(e) \in Seq(Fit)
  <1>1. PathsOf(e.item) # {} => Place(e.item) \in Paths
    BY PathsOfType DEF Place
  <1>3. PathsOf(e.item) # {} /\ ~HasLinks(e.item, e.nodes)
           => ~Fatal(Place(e.item), e.nodes)
    BY DEF IssueFor
  <1>2. <<>> \in Seq(Fit)
    OBVIOUS
  <1> QED BY <1>1, <1>2, <1>3, MovesType DEF PlannedMoves

LEMMA CandidatesType ==
    ASSUME LocationsOK, NEW e \in [item : Items, nodes : Seq(Nodes)],
           ~IssueFor(e)
    PROVE  Candidates(e) \in Seq(Seq(Fit))
  <1> DEFINE paths == SetToSeq(PathsOf(e.item))
             each == [k \in DOMAIN paths |-> Moves(e.item, paths[k], e.nodes)]
             moves == FlattenSeq(each)
  <1>1. \E n \in Nat : DOMAIN paths = 1 .. n /\ paths \in [1 .. n -> Paths]
    BY PathsOfType, SetToSeqIs
  <1>6. HasLinks(e.item, e.nodes) => \A k \in DOMAIN paths : ~Fatal(paths[k], e.nodes)
    <2>1. \A k \in DOMAIN paths : paths[k] \in PathsOf(e.item)
      BY PathsOfType, SetToSeqIs
    <2> HIDE DEF paths
    <2> QED BY <2>1 DEF IssueFor
  <1> HIDE DEF paths
  <1>7. CASE ~HasLinks(e.item, e.nodes)
    <2>1. Candidates(e) = <<>>
      BY <1>7 DEF Candidates
    <2>2. <<>> \in Seq(Seq(Fit))
      OBVIOUS
    <2> QED BY <2>1, <2>2
  <1>8. CASE HasLinks(e.item, e.nodes)
    <2>2. each \in Seq(Seq(Fit))
      <3>1. \A k \in DOMAIN paths : Moves(e.item, paths[k], e.nodes) \in Seq(Fit)
        BY <1>1, <1>6, <1>8, MovesType
      <3>2. each \in [DOMAIN paths -> Seq(Fit)]
        BY <3>1
      <3> HIDE DEF each
      <3> QED BY <1>1, <3>2
    <2> HIDE DEF each
    <2>3. moves \in Seq(Fit)
      BY <2>2, FlattenType
    <2> HIDE DEF moves
    <2>4. <<moves>> \in Seq(Seq(Fit)) /\ <<>> \in Seq(Seq(Fit))
      BY <2>3
    <2>5. Candidates(e) = <<moves>> \/ Candidates(e) = <<>>
      BY DEF Candidates, moves, each, paths
    <2> QED BY <2>4, <2>5
  <1> QED BY <1>7, <1>8

-----------------------------------------------------------------------------
(* The invariant. *)

FsOK ==
    /\ IsTree(fs) /\ nextIno \in Nat
    /\ \A p \in DOMAIN fs : fs[p].ino < nextIno

\* Nothing of an item is at a path or below it: what is there has no other path.
Clear(to) ==
    \A p \in DOMAIN fs : IsPrefix(to, p) =>
        /\ fs[p].what = 0
        /\ \A q \in DOMAIN fs : fs[q].ino = fs[p].ino => q = p

\* No move goes to a path of another one, or below it.
Apart(moves) ==
    \A k, l \in DOMAIN moves : k # l => ~IsPrefix(moves[k].to, moves[l].to)

Fields == {"phase", "moves", "links", "attrs", "mkdirs", "next", "tagging",
           "scope", "skipped", "moved", "attrsSet", "failed"}

Confirming ==
    job.phase = "confirm" =>
        job.moves \in Seq(Ready) /\ job.links \in Seq(Seq(Ready))
Making ==
    job.phase \in {"confirm", "mkdir"} =>
        IsFiniteSet(job.mkdirs) /\ job.mkdirs \subseteq Paths
Moving ==
    job.phase \in {"mkdir", "move"} =>
        /\ job.moves \in Seq(PlannedMove) /\ Apart(job.moves)
        /\ \A k \in DOMAIN job.moves : k >= job.next => Clear(job.moves[k].to)
JobOK ==
    job # Idle =>
        /\ Fields \subseteq DOMAIN job
        /\ job.phase \in {"confirm", "mkdir", "move", "rebind", "reindex", "tags"}
        /\ job.next \in Nat \ {0}
        /\ Confirming /\ Making /\ Moving

FilesInv == FsOK /\ LocationsOK /\ JobOK /\ FilesKept

LEMMA ParentType ==
    ASSUME NEW p \in Paths
    PROVE  /\ Parent(p) \in Seq(Names) /\ Len(Parent(p)) = Len(p) - 1
           /\ \A k \in 1 .. Len(p) - 1 : Parent(p)[k] = p[k]
  <1>1. p \in Seq(Names) /\ Len(p) \in Nat \ {0}
    BY PathsAre
  <1>2. SubSeq(p, 1, Len(p) - 1) \in Seq(Names)
    BY <1>1
  <1>3. Len(SubSeq(p, 1, Len(p) - 1)) = Len(p) - 1
    <2> DEFINE n == Len(p) - 1
    <2>1. n \in Nat /\ \A k \in 1 .. n : p[k] \in Names
      BY <1>1
    <2> HIDE DEF n
    <2>2. (IF 1 <= n THEN n - 1 + 1 ELSE 0) = n
      BY <2>1
    <2>3. Len(SubSeq(p, 1, n)) = IF 1 <= n THEN n - 1 + 1 ELSE 0
      BY <2>1, SubSeqProperties
    <2> QED BY <2>2, <2>3 DEF n
  <1>4. ASSUME NEW k \in 1 .. Len(p) - 1 PROVE SubSeq(p, 1, Len(p) - 1)[k] = p[k]
    BY <1>1
  <1> QED BY <1>2, <1>3, <1>4 DEF Parent, Front

LEMMA MissingType ==
    ASSUME NEW moves \in Seq(PlannedMove)
    PROVE  IsFiniteSet(Missing(moves)) /\ Missing(moves) \subseteq Paths
  <1> DEFINE D == {k \in DOMAIN moves : ~Exists(Parent(moves[k].to))}
             f == [k \in D |-> Parent(moves[k].to)]
  <1>1. IsFiniteSet(DOMAIN moves)
    <2>1. Len(moves) \in Nat /\ DOMAIN moves = 1 .. Len(moves)
      OBVIOUS
    <2> QED BY <2>1, FS_Interval
  <1>2. IsFiniteSet(D)
    BY <1>1, FS_Subset
  <1>3. f \in Surjection(D, Missing(moves))
    <2>1. Missing(moves) = {f[k] : k \in D}
      BY DEF Missing, ToSet
    <2> QED BY <2>1 DEF Surjection
  <1>4. IsFiniteSet(Missing(moves))
    <2> HIDE DEF f, D
    <2> QED BY <1>2, <1>3, FS_Surjection
  <1>5. ASSUME NEW m \in ToSet(moves), ~Exists(Parent(m.to))
        PROVE  Parent(m.to) \in Paths
    <2>1. m \in PlannedMove
      BY DEF ToSet
    <2>2. Parent(m.to) \in Seq(Names)
      BY <2>1, ParentType DEF PlannedMove
    <2> QED BY <1>5, <2>2 DEF Exists, Paths
  <1> QED BY <1>4, <1>5 DEF Missing

LEMMA EachType ==
    ASSUME NEW edits \in Seq([item : Items, nodes : Seq(Nodes)]), LocationsOK,
           \A k \in DOMAIN edits : ~IssueFor(edits[k])
    PROVE  /\ Each(PlannedMoves, edits) \in Seq(Fit)
           /\ Each(Candidates, edits) \in Seq(Seq(Fit))
  <1>1. \A k \in DOMAIN edits : edits[k] \in [item : Items, nodes : Seq(Nodes)]
    <2> DEFINE E == [item : Items, nodes : Seq(Nodes)]
    <2> HIDE DEF E
    <2>1. edits \in Seq(E)
      BY DEF E
    <2>2. \A k \in DOMAIN edits : edits[k] \in E
      BY <2>1
    <2> QED BY <2>2 DEF E
  <1>2. Len(edits) \in Nat /\ DOMAIN edits = 1 .. Len(edits)
    OBVIOUS
  <1>3. [k \in DOMAIN edits |-> PlannedMoves(edits[k])] \in Seq(Seq(Fit))
    <2>1. [k \in DOMAIN edits |-> PlannedMoves(edits[k])] \in [DOMAIN edits -> Seq(Fit)]
      BY <1>1, PlannedMovesType
    <2> QED BY <1>2, <2>1
  <1>4. [k \in DOMAIN edits |-> Candidates(edits[k])] \in Seq(Seq(Seq(Fit)))
    <2>1. [k \in DOMAIN edits |-> Candidates(edits[k])] \in [DOMAIN edits -> Seq(Seq(Fit))]
      BY <1>1, CandidatesType
    <2> QED BY <1>2, <2>1
  <1> QED BY <1>3, <1>4, FlattenType DEF Each

LEMMA FitIsReady ==
    /\ \A s \in Seq(Fit) : s \in Seq(Ready)
    /\ \A ss \in Seq(Seq(Fit)) : ss \in Seq(Seq(Ready))
  <1>1. ASSUME NEW s \in Seq(Fit) PROVE s \in Seq(Ready)
    <2>1. \A m \in Fit : m \in Ready
      BY DEF Fit
    <2> QED BY <2>1
  <1>2. ASSUME NEW ss \in Seq(Seq(Fit)) PROVE ss \in Seq(Seq(Ready))
    <2> DEFINE A == Seq(Fit)
               B == Seq(Ready)
    <2>1. ss \in Seq(A) /\ \A s \in A : s \in B
      BY <1>1
    <2> HIDE DEF A, B
    <2>2. ss \in Seq(B)
      BY <2>1
    <2> QED BY <2>2 DEF B
  <1> QED BY <1>1, <1>2

LEMMA ReadyIsPlanned ==
    ASSUME NEW moves \in Seq(Ready)
    PROVE  moves \in Seq(PlannedMove)
  BY DEF Ready

LEMMA PlanKeeps ==
    ASSUME FilesInv, NEW r \in Requests, Plan(r)
    PROVE  FilesInv'
  <1> DEFINE moves == Each(PlannedMoves, r.edits)
             links == Each(Candidates, r.edits)
  <1>1. fs' = fs /\ nextIno' = nextIno /\ locations' = locations
    BY DEF Plan, index
  <1>2. FsOK' /\ LocationsOK' /\ FilesKept'
    BY <1>1 DEF FilesInv, FsOK, LocationsOK, FilesKept
  <1>3. moves \in Seq(Ready) /\ links \in Seq(Seq(Ready))
    BY NamesAssumption, EachType, FitIsReady DEF Plan, FilesInv
  <1>4. IsFiniteSet(Missing(moves)) /\ Missing(moves) \subseteq Paths
    BY <1>3, ReadyIsPlanned, MissingType
  <1>5. /\ DOMAIN job' = Fields /\ job'.phase = "confirm" /\ job'.next = 1
        /\ job'.moves = moves /\ job'.links = links /\ job'.mkdirs = Missing(moves)
    BY DEF Plan, Fields
  <1> HIDE DEF moves, links
  <1>6. Ready' = Ready
    BY <1>1 DEF Ready
  <1>7. JobOK'
    BY <1>3, <1>4, <1>5, <1>6 DEF JobOK, Confirming, Making, Moving
  <1> QED BY <1>2, <1>7 DEF FilesInv

-----------------------------------------------------------------------------
(* Confirming. *)

LEMMA TypedIs ==
    ASSUME NEW M, NEW moves \in Seq(M), NEW ns \in Typed(moves)
    PROVE  \E n \in Nat : ns \in [1 .. n -> DOMAIN moves]
  <1>1. CASE ns \in SeqOf(DOMAIN moves, MaxTyped)
    <2>1. \E n \in 0 .. MaxTyped : ns \in [1 .. n -> DOMAIN moves]
      BY <1>1 DEF SeqOf
    <2> QED BY <2>1, TypedAssumption
  <1>2. CASE ns = [n \in DOMAIN moves |-> n]
    <2> DEFINE D == DOMAIN moves
    <2>1. Len(moves) \in Nat /\ D = 1 .. Len(moves)
      OBVIOUS
    <2>2. ns = [n \in D |-> n]
      BY <1>2
    <2> HIDE DEF D
    <2>3. ns \in [D -> D]
      BY <2>2
    <2>4. \E n \in Nat : ns \in [1 .. n -> D]
      BY <2>1, <2>3
    <2> QED BY <2>4 DEF D
  <1> QED BY <1>1, <1>2 DEF Typed

\* What is picked is some of the moves, in some order.
LEMMA PickedType ==
    ASSUME NEW M, NEW moves \in Seq(M), NEW ns \in Typed(moves)
    PROVE  /\ Picked(moves, ns) \in Seq(M)
           /\ \A c \in DOMAIN Picked(moves, ns) :
                 \E a \in DOMAIN moves : Picked(moves, ns)[c] = moves[a]
  <1>1. PICK n \in Nat : ns \in [1 .. n -> DOMAIN moves]
    BY TypedIs
  <1>2. Picked(moves, ns) = [c \in 1 .. n |-> moves[ns[c]]]
    BY <1>1 DEF Picked
  <1>3. \A a \in DOMAIN moves : moves[a] \in M
    OBVIOUS
  <1>4. Picked(moves, ns) \in [1 .. n -> M]
    BY <1>1, <1>2, <1>3
  <1> QED BY <1>1, <1>2, <1>4

LEMMA ChosenType ==
    ASSUME job.links \in Seq(Seq(Ready)), NEW choice \in LinkChoices
    PROVE  ChosenMoves(choice) \in Seq(Ready)
  <1> DEFINE links == job.links
             each == [k \in DOMAIN links |-> Picked(links[k], choice[k])]
  <1>1. Len(links) \in Nat /\ DOMAIN links = 1 .. Len(links)
    OBVIOUS
  <1>2. \A k \in DOMAIN links : links[k] \in Seq(Ready)
    OBVIOUS
  <1>3. each \in [DOMAIN links -> Seq(Ready)]
    <2>1. \A k \in DOMAIN links : choice[k] \in Typed(links[k])
      BY DEF LinkChoices
    <2> QED BY <1>2, <2>1, PickedType
  <1>4. each \in Seq(Seq(Ready))
    <2> HIDE DEF each
    <2>1. \E n \in Nat : each \in [1 .. n -> Seq(Ready)]
      BY <1>1, <1>3
    <2> QED BY <2>1
  <1> HIDE DEF each
  <1>5. FlattenSeq(each) \in Seq(Ready)
    BY <1>4, FlattenType
  <1> QED BY <1>5 DEF ChosenMoves, each

\* A path that next_serial_path finds is in the same directory and free.
LEMMA SerialIsFree ==
    ASSUME NEW to \in Paths, NEW reserved, NEW p \in SerialPaths(to, reserved)
    PROVE  p \in Paths /\ p \notin DOMAIN fs /\ p \notin reserved
           /\ Len(p) = Len(to) /\ \A k \in 1 .. Len(to) - 1 : p[k] = to[k]
  <1> DEFINE names == SerialNames[Last(to)]
             d == Parent(to)
  <1>1. to \in Seq(Names) /\ Len(to) \in Nat \ {0} /\ Last(to) \in Names
    BY PathsAre DEF Last
  <1>2. names \in Seq(Names)
    BY <1>1, NamesAssumption
  <1>3. PICK n \in DOMAIN names : p = Append(d, names[n]) /\ ~Exists(p) /\ p \notin reserved
    BY DEF SerialPaths
  <1>4. names[n] \in Names
    BY <1>2
  <1>5. d \in Seq(Names) /\ Len(d) = Len(to) - 1 /\ \A k \in 1 .. Len(to) - 1 : d[k] = to[k]
    BY ParentType
  <1> HIDE DEF d, names
  <1>6. /\ p \in Seq(Names) /\ Len(p) = Len(to)
        /\ \A k \in 1 .. Len(to) - 1 : p[k] = to[k]
    BY <1>1, <1>3, <1>4, <1>5
  <1>7. p # <<>> /\ p \notin DOMAIN fs
    BY <1>3 DEF Exists
  <1> QED BY <1>3, <1>6, <1>7 DEF Paths

\* What has been settled: moves to different places where nothing is.
Accepted ==
    {a \in [moves : Seq(PlannedMove), reserved : SUBSET Paths,
            skipped : SUBSET Items, bound : BOOLEAN] :
        /\ \A k \in DOMAIN a.moves : a.moves[k].to \in a.reserved \ DOMAIN fs
        /\ \A k, l \in DOMAIN a.moves : k # l => a.moves[k].to # a.moves[l].to}

LEMMA AppendIs ==
    ASSUME NEW M, NEW s \in Seq(M), NEW x \in M
    PROVE  LET t == Append(s, x)
           IN  /\ t \in Seq(M) /\ DOMAIN t = DOMAIN s \cup {Len(s) + 1}
               /\ t[Len(s) + 1] = x /\ Len(s) + 1 \notin DOMAIN s
               /\ \A k \in DOMAIN s : t[k] = s[k]
  OBVIOUS

LEMMA TwoFields ==
    ASSUME NEW S, NEW T, NEW U, NEW V, NEW x \in S, NEW y \in T,
           NEW acc \in [moves : S, reserved : T, skipped : U, bound : V]
    PROVE  LET b == [acc EXCEPT !.moves = x, !.reserved = y]
           IN  /\ b \in [moves : S, reserved : T, skipped : U, bound : V]
               /\ b.moves = x /\ b.reserved = y
  OBVIOUS

LEMMA WithAccepted ==
    ASSUME NEW acc \in Accepted, NEW m \in PlannedMove,
           m.to \notin DOMAIN fs, m.to \notin acc.reserved
    PROVE  [acc EXCEPT !.moves = Append(@, m), !.reserved = @ \cup {m.to}] \in Accepted
  <1> DEFINE b == [acc EXCEPT !.moves = Append(@, m), !.reserved = @ \cup {m.to}]
  <1>1. /\ acc.moves \in Seq(PlannedMove) /\ acc.reserved \in SUBSET Paths
        /\ acc \in [moves : Seq(PlannedMove), reserved : SUBSET Paths,
                    skipped : SUBSET Items, bound : BOOLEAN]
    BY DEF Accepted
  <1> HIDE DEF b
  <1> DEFINE s == acc.moves
             t == Append(acc.moves, m)
             n == Len(s) + 1
  <1>3. /\ t \in Seq(PlannedMove) /\ DOMAIN t = DOMAIN s \cup {n}
        /\ t[n] = m /\ n \notin DOMAIN s /\ \A k \in DOMAIN s : t[k] = s[k]
    BY <1>1, AppendIs
  <1>4. m.to \in Paths
    BY DEF PlannedMove
  <1>5. /\ \A k \in DOMAIN s : s[k].to \in acc.reserved \ DOMAIN fs
        /\ \A k, l \in DOMAIN s : k # l => s[k].to # s[l].to
    BY DEF Accepted
  <1> HIDE DEF s, t, n
  <1>6. \A k \in DOMAIN t : t[k].to \in (acc.reserved \cup {m.to}) \ DOMAIN fs
    BY <1>3, <1>5
  <1>7. \A k, l \in DOMAIN t : k # l => t[k].to # t[l].to
    BY <1>3, <1>5
  <1>9. /\ b \in [moves : Seq(PlannedMove), reserved : SUBSET Paths,
                  skipped : SUBSET Items, bound : BOOLEAN]
        /\ b.moves = t /\ b.reserved = acc.reserved \cup {m.to}
    <2> DEFINE S == Seq(PlannedMove)
               T == SUBSET Paths
               y == acc.reserved \cup {m.to}
    <2>1. t \in S /\ y \in T /\ acc \in [moves : S, reserved : T,
                                       skipped : SUBSET Items, bound : BOOLEAN]
      BY <1>1, <1>3, <1>4
    <2>2. b = [acc EXCEPT !.moves = t, !.reserved = y]
      BY DEF b, t, s
    <2> HIDE DEF S, T, y
    <2>3. /\ b \in [moves : S, reserved : T, skipped : SUBSET Items, bound : BOOLEAN]
          /\ b.moves = t /\ b.reserved = y
      BY <2>1, <2>2, TwoFields
    <2> QED BY <2>3 DEF S, T, y
  <1>10. b \in Accepted
    <2>1. /\ \A k \in DOMAIN b.moves : b.moves[k].to \in b.reserved \ DOMAIN fs
          /\ \A k, l \in DOMAIN b.moves : k # l => b.moves[k].to # b.moves[l].to
      BY <1>6, <1>7, <1>9
    <2> QED BY <2>1, <1>9 DEF Accepted
  <1> QED BY <1>10 DEF b

\* A move that is given another free place in the same directory.
LEMMA Renumbered ==
    ASSUME FsOK, NEW m \in Ready, NEW to \in Paths, to \notin DOMAIN fs,
           \/ to = m.to
           \/ Len(to) = Len(m.to) /\ \A k \in 1 .. Len(m.to) - 1 : to[k] = m.to[k]
    PROVE  [m EXCEPT !.to = to] \in PlannedMove /\ [m EXCEPT !.to = to].to = to
  <1> DEFINE b == [m EXCEPT !.to = to]
  <1>1. /\ m \in [item : Items, from : Paths, to : Paths, crossed : BOOLEAN]
        /\ m.crossed => m.from[1] # m.to[1]
        /\ m.from \in DOMAIN fs /\ m.from \in Paths /\ m.to \in Paths
    BY DEF Ready, PlannedMove
  <1>2. /\ b \in [item : Items, from : Paths, to : Paths, crossed : BOOLEAN]
        /\ b.to = to /\ b.from = m.from /\ b.crossed = m.crossed
    BY <1>1
  <1> HIDE DEF b
  <1>3. ASSUME m.crossed PROVE m.from[1] # to[1]
    <2>1. CASE to = m.to
      BY <2>1, <1>1, <1>3
    <2>2. CASE to # m.to /\ Len(to) > 1
      <3>1. 1 \in 1 .. Len(m.to) - 1
        BY <2>2, <1>1, PathsAre
      <3>2. to[1] = m.to[1]
        BY <2>2, <3>1
      <3> QED BY <3>2, <1>1, <1>3
    <2>3. CASE Len(to) = 1
      <3> SUFFICES ASSUME m.from[1] = to[1] PROVE FALSE
        OBVIOUS
      <3>1. 1 \in 1 .. Len(m.from) /\ Len(m.from) \in Nat
        BY <1>1, PathsAre
      <3>2. /\ SubSeq(m.from, 1, 1) \in Paths /\ Len(SubSeq(m.from, 1, 1)) = 1
            /\ \A k \in 1 .. 1 : SubSeq(m.from, 1, 1)[k] = m.from[k]
        BY <1>1, <3>1, Initials
      <3>3. SubSeq(m.from, 1, 1) = to
        <4> DEFINE h == SubSeq(m.from, 1, 1)
        <4>1. h[1] = to[1]
          BY <3>2
        <4>2. \A k \in 1 .. Len(h) : h[k] = to[k]
          BY <3>2, <4>1
        <4>3. h \in Paths /\ Len(h) = Len(to)
          BY <3>2, <2>3
        <4> HIDE DEF h
        <4>4. h = to
          BY <4>2, <4>3, PathsAre, SamePath
        <4> QED BY <4>4 DEF h
      <3>4. CASE Len(m.from) = 1
        <4>1. m.from = to
          <5>1. IsPrefix(to, m.from)
            BY <3>2, <3>3, <1>1, <3>1, Initials
          <5>2. SubSeq(m.from, 1, Len(m.from)) = m.from
            BY <1>1, PrefixIsInitial, PrefixRefl, PathsAre
          <5> QED BY <5>2, <3>3, <3>4
        <4> QED BY <4>1, <1>1
      <3>5. CASE Len(m.from) # 1
        <4>1. 1 \in 1 .. Len(m.from) - 1
          BY <1>1, <3>5, PathsAre, OneOrMore
        <4>2. SubSeq(m.from, 1, 1) \in DOMAIN fs
          BY <1>1, <4>1 DEF FsOK, IsTree
        <4> QED BY <4>2, <3>3
      <3> QED BY <3>4, <3>5
    <2>4. Len(to) \in Nat \ {0}
      BY PathsAre
    <2>5. Len(to) = 1 \/ Len(to) > 1
      BY <2>4, OneOrMore
    <2> QED BY <2>1, <2>2, <2>3, <2>5
  <1>4. b \in PlannedMove
    BY <1>2, <1>3 DEF PlannedMove
  <1> QED BY <1>2, <1>4 DEF b

LEMMA SettledAccepted ==
    ASSUME FsOK, NEW acc \in Accepted, NEW m \in Ready, NEW answer
    PROVE  Settled(acc, m, answer) \in Accepted
  <1> DEFINE serial == SerialPaths(m.to, acc.reserved)
             other == CHOOSE to \in serial : TRUE
             With(to) == [acc EXCEPT !.moves = Append(@, [m EXCEPT !.to = to]),
                                     !.reserved = @ \cup {to}]
  <1>1. m.to \in Paths /\ m.item \in Items
    BY DEF Ready, PlannedMove
  <1>2. ASSUME NEW to \in Paths, to \notin DOMAIN fs, to \notin acc.reserved,
               \/ to = m.to
               \/ Len(to) = Len(m.to) /\ \A k \in 1 .. Len(m.to) - 1 : to[k] = m.to[k]
        PROVE  With(to) \in Accepted
    <2> DEFINE b == [m EXCEPT !.to = to]
    <2>1. b \in PlannedMove /\ b.to = to
      BY <1>2, Renumbered
    <2> HIDE DEF b
    <2>2. [acc EXCEPT !.moves = Append(@, b), !.reserved = @ \cup {b.to}] \in Accepted
      BY <2>1, <1>2, WithAccepted
    <2> QED BY <2>1, <2>2 DEF b
  <1>3. CASE ~Conflicts(m.to, acc.reserved)
    <2>1. m.to \notin DOMAIN fs /\ m.to \notin acc.reserved
      BY <1>3 DEF Conflicts, Exists
    <2>2. With(m.to) \in Accepted
      <3> HIDE DEF With
      <3> QED BY <2>1, <1>1, <1>2
    <2>3. Settled(acc, m, answer) = With(m.to)
      BY <1>3 DEF Settled
    <2> QED BY <2>2, <2>3
  <1>4. CASE Conflicts(m.to, acc.reserved) /\ answer = "skip"
    <2> DEFINE b == [acc EXCEPT !.skipped = @ \cup {m.item}]
    <2>1. Settled(acc, m, answer) = b
      BY <1>4 DEF Settled
    <2>2. /\ b \in [moves : Seq(PlannedMove), reserved : SUBSET Paths,
                    skipped : SUBSET Items, bound : BOOLEAN]
          /\ b.moves = acc.moves /\ b.reserved = acc.reserved
      BY <1>1 DEF Accepted
    <2> HIDE DEF b
    <2> QED BY <2>1, <2>2 DEF Accepted
  <1>5. CASE Conflicts(m.to, acc.reserved) /\ answer # "skip" /\ serial = {}
    <2> DEFINE b == [acc EXCEPT !.bound = TRUE]
    <2>1. Settled(acc, m, answer) = b
      BY <1>5 DEF Settled
    <2>2. /\ b \in [moves : Seq(PlannedMove), reserved : SUBSET Paths,
                    skipped : SUBSET Items, bound : BOOLEAN]
          /\ b.moves = acc.moves /\ b.reserved = acc.reserved
      BY DEF Accepted
    <2> HIDE DEF b
    <2> QED BY <2>1, <2>2 DEF Accepted
  <1>6. CASE Conflicts(m.to, acc.reserved) /\ answer # "skip" /\ serial # {}
    <2>1. other \in serial
      BY <1>6
    <2>2. Settled(acc, m, answer) = With(other)
      BY <1>6 DEF Settled
    <2>3. /\ other \in Paths /\ other \notin DOMAIN fs /\ other \notin acc.reserved
          /\ Len(other) = Len(m.to) /\ \A k \in 1 .. Len(m.to) - 1 : other[k] = m.to[k]
      <3> HIDE DEF other
      <3> QED BY <2>1, <1>1, SerialIsFree
    <2>4. With(other) \in Accepted
      <3> HIDE DEF With, other
      <3> QED BY <2>3, <1>2
    <2> QED BY <2>2, <2>4
  <1> QED BY <1>3, <1>4, <1>5, <1>6

\* What is settled before the first question.
Unsettled == [moves |-> <<>>, reserved |-> {}, skipped |-> {}, bound |-> FALSE]

LEMMA ResolvedSteps ==
    ASSUME FsOK, NEW moves \in Seq(Ready), NEW answer
    PROVE  \E after :
              /\ ResolveConflicts(moves, answer) = after[Len(moves)]
              /\ after[0] = Unsettled
              /\ \A k \in 1 .. Len(moves) :
                    after[k] = Settled(after[k - 1], moves[k], answer[k])
              /\ \A k \in 0 .. Len(moves) : after[k] \in Accepted
  <1> DEFINE n == Len(moves)
             none == Unsettled
             Is(f) == f = [k \in 0 .. n |-> IF k = 0 THEN none
                                            ELSE Settled(f[k - 1], moves[k], answer[k])]
             step == [a \in (1 .. n) \X Accepted
                        |-> Settled(a[2], moves[a[1]], answer[a[1]])]
             after == CHOOSE f : Is(f)
  <1>1. n \in Nat /\ \A k \in 1 .. n : moves[k] \in Ready
    OBVIOUS
  <1>2. none \in Accepted
    <2>1. none \in [moves : Seq(PlannedMove), reserved : SUBSET Paths,
                    skipped : SUBSET Items, bound : BOOLEAN]
      BY DEF Unsettled
    <2>2. none.moves = <<>> /\ DOMAIN <<>> = {}
      BY DEF Unsettled
    <2> HIDE DEF none
    <2> QED BY <2>1, <2>2 DEF Accepted
  <1> HIDE DEF none
  <1>3. step \in [(1 .. n) \X Accepted -> Accepted]
    <2>1. ASSUME NEW a \in (1 .. n) \X Accepted
          PROVE  Settled(a[2], moves[a[1]], answer[a[1]]) \in Accepted
      BY <1>1, SettledAccepted
    <2> QED BY <2>1
  <1>4. PICK g \in [0 .. n -> Accepted] : AreSteps(g, n, none, step)
    <2> HIDE DEF n, step
    <2> QED BY <1>1, <1>2, <1>3, StepsExist
  <1>5. Is(g)
    <2>1. ASSUME NEW k \in 1 .. n PROVE g[k] = Settled(g[k - 1], moves[k], answer[k])
      <3> HIDE DEF n
      <3>1. <<k, g[k - 1]>> \in (1 .. n) \X Accepted
        BY <1>1
      <3>2. step[<<k, g[k - 1]>>] = Settled(g[k - 1], moves[k], answer[k])
        BY <3>1
      <3> HIDE DEF step
      <3> QED BY <3>2, <1>4 DEF AreSteps
    <2>2. g[0] = none
      BY <1>4 DEF AreSteps
    <2> HIDE DEF n
    <2> QED BY <2>1, <2>2, <1>1
  <1>6. Is(after)
    <2> HIDE DEF Is
    <2> QED BY <1>5
  <1>7. ResolveConflicts(moves, answer) = after[n]
    BY DEF ResolveConflicts, none, Unsettled
  <1> HIDE DEF after, n
  <1>8. after[0] = none
        /\ \A k \in 1 .. n : after[k] = Settled(after[k - 1], moves[k], answer[k])
    BY <1>1, <1>6
  <1>9. \A k \in 1 .. n : after[k - 1] \in Accepted => after[k] \in Accepted
    BY <1>1, <1>8, SettledAccepted
  <1>10. \A k \in 0 .. n : after[k] \in Accepted
    <2>1. after[0] \in Accepted
      BY <1>2, <1>8
    <2> QED BY <1>1, <1>9, <2>1, StaysIn
  <1> QED BY <1>7, <1>8, <1>10 DEF n, none

LEMMA ResolvedAccepted ==
    ASSUME FsOK, NEW moves \in Seq(Ready), NEW answer
    PROVE  ResolveConflicts(moves, answer) \in Accepted
  BY ResolvedSteps

\* What is above an entry is a directory.
LEMMA AboveIsDir ==
    ASSUME NEW t, IsTree(t), NEW p \in DOMAIN t, NEW s \in Paths, IsPrefix(s, p), s # p
    PROVE  s \in DOMAIN t /\ t[s].dir
  <1>1. p \in Paths /\ p \in Seq(Names) /\ s \in Seq(Names)
    BY PathsAre DEF IsTree
  <1>2. Len(s) \in 1 .. Len(p) /\ SubSeq(p, 1, Len(s)) = s
    BY <1>1, PrefixIsInitial
  <1>3. Len(s) # Len(p)
    <2> SUFFICES ASSUME Len(s) = Len(p) PROVE FALSE
      OBVIOUS
    <2>1. \A k \in 1 .. Len(s) : s[k] = p[k]
      BY <1>1, PrefixMeans
    <2> QED BY <2>1, <1>1, SamePath
  <1>4. Len(s) \in 1 .. Len(p) - 1
    <2>1. Len(p) \in Nat /\ Len(s) \in Nat
      BY <1>1
    <2> QED BY <2>1, <1>2, <1>3
  <1> QED BY <1>2, <1>4 DEF IsTree

LEMMA FreeIsClear ==
    ASSUME FsOK, NEW to \in Paths, to \notin DOMAIN fs
    PROVE  Clear(to)
  <1>1. ASSUME NEW p \in DOMAIN fs, IsPrefix(to, p) PROVE FALSE
    BY <1>1, AboveIsDir DEF FsOK
  <1> QED BY <1>1 DEF Clear

LEMMA ConfirmKeeps ==
    ASSUME ~Nested, FilesInv, NEW choice \in LinkChoices, NEW answer,
           Confirm(choice, answer)
    PROVE  FilesInv'
  <1> DEFINE moves == job.moves \o ChosenMoves(choice)
             resolved == ResolveConflicts(moves, answer)
             new == resolved.moves
  <1>1. fs' = fs /\ nextIno' = nextIno /\ locations' = locations
    BY DEF Confirm, index
  <1>2. FsOK' /\ LocationsOK' /\ FilesKept'
    BY <1>1 DEF FilesInv, FsOK, LocationsOK, FilesKept
  <1>3. /\ job.phase = "confirm" /\ job # Idle /\ Fields \subseteq DOMAIN job
        /\ job.next \in Nat \ {0} /\ job.moves \in Seq(Ready)
        /\ job.links \in Seq(Seq(Ready))
        /\ IsFiniteSet(job.mkdirs) /\ job.mkdirs \subseteq Paths
    BY DEF Confirm, FilesInv, JobOK, Confirming, Making, Idle
  <1>4. moves \in Seq(Ready)
    <2>1. ChosenMoves(choice) \in Seq(Ready)
      BY <1>3, ChosenType
    <2> QED BY <2>1, <1>3
  <1>5. ~Overlap(new, job.attrs)
    BY DEF Confirm
  <1>6. /\ job'.phase = "mkdir" /\ DOMAIN job' = DOMAIN job
        /\ job'.moves = new /\ job'.next = job.next
        /\ job'.mkdirs = job.mkdirs \cup Missing(moves)
    BY <1>3 DEF Confirm, Fields
  <1> HIDE DEF moves
  <1>7. resolved \in Accepted
    BY <1>4, ResolvedAccepted DEF FilesInv
  <1>8. IsFiniteSet(Missing(moves)) /\ Missing(moves) \subseteq Paths
    BY <1>4, ReadyIsPlanned, MissingType
  <1>9. IsFiniteSet(job'.mkdirs) /\ job'.mkdirs \subseteq Paths
    BY <1>3, <1>6, <1>8, FS_Union
  <1> HIDE DEF resolved
  <1>10. /\ new \in Seq(PlannedMove)
         /\ \A k \in DOMAIN new : new[k].to \notin DOMAIN fs
         /\ \A k, l \in DOMAIN new : k # l => new[k].to # new[l].to
    BY <1>7 DEF Accepted
  <1> HIDE DEF new
  <1>11. Apart(new)
    <2>1. ASSUME NEW k \in DOMAIN new, NEW l \in DOMAIN new, k # l,
                 IsPrefix(new[k].to, new[l].to)
          PROVE  FALSE
      <3>1. new[k] \in ToSet(new) /\ new[l] \in ToSet(new)
        BY DEF ToSet
      <3>2. IsStrictPrefix(new[k].to, new[l].to)
        BY <2>1, <1>10 DEF IsStrictPrefix
      <3> QED BY <3>1, <3>2, <1>5 DEF Overlap
    <2> QED BY <2>1 DEF Apart
  <1>12. \A k \in DOMAIN new : Clear(new[k].to)
    <2>1. ASSUME NEW k \in DOMAIN new PROVE Clear(new[k].to)
      <3>1. new[k] \in PlannedMove
        BY <1>10
      <3> QED BY <3>1, <1>10, FreeIsClear DEF PlannedMove, FilesInv
    <2> QED BY <2>1
  <1>13. \A to : Clear(to)' <=> Clear(to)
    BY <1>1 DEF Clear
  <1>14. Moving'
    BY <1>6, <1>10, <1>11, <1>12, <1>13 DEF Moving
  <1>15. JobOK'
    BY <1>3, <1>6, <1>9, <1>14 DEF JobOK, Confirming, Making
  <1> QED BY <1>2, <1>15 DEF FilesInv

-----------------------------------------------------------------------------
(* What is made: directories, and the files of other programs. *)

\* Above a path whose parent is a directory are directories.
LEMMA AboveNew ==
    ASSUME FsOK, NEW p \in Paths, IsDir(Parent(p)), NEW n \in 1 .. Len(p) - 1
    PROVE  SubSeq(p, 1, n) \in DOMAIN fs /\ fs[SubSeq(p, 1, n)].dir
  <1> DEFINE d == Parent(p)
  <1>1. /\ p \in Seq(Names) /\ Len(p) \in Nat \ {0}
        /\ d \in Seq(Names) /\ Len(d) = Len(p) - 1
    BY PathsAre, ParentType
  <1>2. d # <<>>
    BY <1>1
  <1>3. d \in DOMAIN fs /\ fs[d].dir /\ d \in Paths
    BY <1>1, <1>2 DEF IsDir, Paths
  <1>4. d = SubSeq(p, 1, Len(p) - 1)
    BY DEF Parent, Front
  <1> HIDE DEF d
  <1>5. CASE n = Len(p) - 1
    BY <1>3, <1>4, <1>5
  <1>6. CASE n # Len(p) - 1
    <2>1. Len(p) - 1 \in 1 .. Len(p) /\ n \in 1 .. Len(p) - 1 /\ n \in 1 .. Len(d) - 1
      BY <1>1, <1>6
    <2>2. SubSeq(d, 1, n) = SubSeq(p, 1, n)
      BY <1>4, <2>1, InitialOfInitial
    <2>3. SubSeq(d, 1, n) \in DOMAIN fs /\ fs[SubSeq(d, 1, n)].dir
      BY <1>3, <2>1 DEF FsOK, IsTree
    <2> QED BY <2>2, <2>3
  <1> QED BY <1>5, <1>6

\* W is made, of entries that belong to no item.
Makes(W, e) ==
    /\ IsFiniteSet(W) /\ W \subseteq Paths /\ W \cap DOMAIN fs = {}
    /\ e \in [W -> Entries] /\ nextIno' \in Nat /\ nextIno <= nextIno'
    /\ fs' = [p \in DOMAIN fs \cup W |-> IF p \in DOMAIN fs THEN fs[p] ELSE e[p]]
    /\ \A p \in W : e[p].what = 0 /\ nextIno <= e[p].ino /\ e[p].ino < nextIno'
    /\ \A p, q \in W : e[p].ino = e[q].ino => p = q
    /\ \A p \in W : \A n \in 1 .. Len(p) - 1 :
          \/ SubSeq(p, 1, n) \in DOMAIN fs /\ fs[SubSeq(p, 1, n)].dir
          \/ SubSeq(p, 1, n) \in W /\ e[SubSeq(p, 1, n)].dir

LEMMA MadeKeeps ==
    ASSUME FsOK, NEW W, NEW e, Makes(W, e)
    PROVE  /\ FsOK' /\ (FilesKept => FilesKept') /\ DOMAIN fs \subseteq DOMAIN fs'
           /\ \A to : Clear(to) => Clear(to)'
  <1>1. /\ DOMAIN fs' = DOMAIN fs \cup W
        /\ \A p \in DOMAIN fs : fs'[p] = fs[p]
        /\ \A p \in W : p \notin DOMAIN fs /\ fs'[p] = e[p]
        /\ fs' = [p \in DOMAIN fs' |-> fs'[p]]
    BY DEF Makes
  <1>2. /\ IsFiniteSet(DOMAIN fs) /\ DOMAIN fs \subseteq Paths /\ fs \in [DOMAIN fs -> Entries]
        /\ \A p \in DOMAIN fs : fs[p] \in Entries /\ fs[p].ino \in Nat /\ fs[p].ino < nextIno
        /\ nextIno \in Nat /\ nextIno' \in Nat /\ nextIno <= nextIno'
        /\ \A p \in W : e[p] \in Entries /\ e[p].ino \in Nat
    BY DEF FsOK, IsTree, Makes, Entries
  <1>3. IsFiniteSet(DOMAIN fs') /\ DOMAIN fs' \subseteq Paths
    <2>1. IsFiniteSet(W) /\ W \subseteq Paths
      BY DEF Makes
    <2>2. IsFiniteSet(DOMAIN fs \cup W)
      BY <2>1, <1>2, FS_Union
    <2> QED BY <2>1, <2>2, <1>1, <1>2
  <1>4. \A p \in DOMAIN fs' : fs'[p] \in Entries /\ fs'[p].ino < nextIno'
    BY <1>1, <1>2 DEF Makes
  <1>5. fs' \in [DOMAIN fs' -> Entries]
    BY <1>1, <1>4
  <1>6. ASSUME NEW p \in DOMAIN fs', NEW n \in 1 .. Len(p) - 1
        PROVE  SubSeq(p, 1, n) \in DOMAIN fs' /\ fs'[SubSeq(p, 1, n)].dir
    <2>1. CASE p \in DOMAIN fs
      <3>1. SubSeq(p, 1, n) \in DOMAIN fs /\ fs[SubSeq(p, 1, n)].dir
        BY <2>1 DEF FsOK, IsTree
      <3> QED BY <3>1, <1>1
    <2>2. CASE p \in W
      <3>1. \/ SubSeq(p, 1, n) \in DOMAIN fs /\ fs[SubSeq(p, 1, n)].dir
            \/ SubSeq(p, 1, n) \in W /\ e[SubSeq(p, 1, n)].dir
        BY <2>2 DEF Makes
      <3> QED BY <3>1, <1>1
    <2> QED BY <2>1, <2>2, <1>1
  <1>7. FsOK'
    BY <1>2, <1>3, <1>4, <1>5, <1>6 DEF FsOK, IsTree
  <1>8. FilesKept => FilesKept'
    BY <1>1 DEF FilesKept
  <1>9. ASSUME NEW to, Clear(to) PROVE Clear(to)'
    <2> SUFFICES ASSUME NEW p \in DOMAIN fs', IsPrefix(to, p)
                 PROVE  /\ fs'[p].what = 0
                        /\ \A q \in DOMAIN fs' : fs'[q].ino = fs'[p].ino => q = p
      BY DEF Clear
    <2>1. CASE p \in DOMAIN fs
      <3>1. fs[p].what = 0 /\ \A q \in DOMAIN fs : fs[q].ino = fs[p].ino => q = p
        BY <1>9, <2>1 DEF Clear
      <3>2. \A q \in W : e[q].ino # fs[p].ino
        BY <1>2, <2>1 DEF Makes
      <3> QED BY <3>1, <3>2, <1>1, <2>1
    <2>2. CASE p \in W
      <3>1. \A q \in DOMAIN fs : fs[q].ino # e[p].ino
        BY <1>2, <2>2 DEF Makes
      <3> QED BY <3>1, <1>1, <2>2 DEF Makes
    <2> QED BY <2>1, <2>2, <1>1
  <1> QED BY <1>1, <1>7, <1>8, <1>9

LEMMA AppearMakes ==
    ASSUME FilesInv, NEW p \in AlienPaths, Appear(p)
    PROVE  \E e : Makes({p}, e)
  <1> DEFINE e == [q \in {p} |-> [ino |-> nextIno, what |-> 0, dir |-> FALSE]]
  <1>1. p \in Paths /\ p \notin DOMAIN fs
    BY NamesAssumption DEF Appear, Exists
  <1>2. nextIno \in Nat /\ nextIno' = nextIno + 1
    BY DEF Appear, FilesInv, FsOK
  <1>3. Makes({p}, e)
    <2>1. IsFiniteSet({p})
      BY FS_Singleton
    <2>2. e \in [{p} -> Entries]
      BY <1>2 DEF Entries
    <2>3. fs' = [q \in DOMAIN fs \cup {p} |-> IF q \in DOMAIN fs THEN fs[q] ELSE e[q]]
      BY <1>1 DEF Appear
    <2>4. /\ e[p].what = 0 /\ nextIno <= e[p].ino /\ e[p].ino < nextIno'
          /\ nextIno' \in Nat /\ nextIno <= nextIno'
      BY <1>2
    <2>5. \A n \in 1 .. Len(p) - 1 :
             SubSeq(p, 1, n) \in DOMAIN fs /\ fs[SubSeq(p, 1, n)].dir
      BY <1>1, AboveNew DEF Appear, FilesInv
    <2> HIDE DEF e
    <2> QED BY <1>1, <2>1, <2>2, <2>3, <2>4, <2>5 DEF Makes
  <1> QED BY <1>3

LEMMA AppearKeeps ==
    ASSUME FilesInv, NEW p \in AlienPaths, Appear(p)
    PROVE  FilesInv'
  <1>3. PICK e : Makes({p}, e)
    BY AppearMakes
  <1>4. /\ FsOK' /\ FilesKept' /\ DOMAIN fs \subseteq DOMAIN fs'
        /\ \A to : Clear(to) => Clear(to)'
    BY <1>3, MadeKeeps DEF FilesInv
  <1>5. job' = job /\ locations' = locations
    BY DEF Appear, index
  <1>6. LocationsOK'
    BY <1>5 DEF FilesInv, LocationsOK
  <1>7. Ready \subseteq Ready'
    BY <1>4 DEF Ready
  <1>8. ASSUME job # Idle PROVE Confirming' /\ Making' /\ Moving'
    <2>1. Confirming /\ Making /\ Moving
      BY <1>8 DEF FilesInv, JobOK
    <2>2. Making'
      BY <2>1, <1>5 DEF Making
    <2>3. Moving'
      BY <2>1, <1>4, <1>5 DEF Moving
    <2>4. Seq(Ready) \subseteq Seq(Ready')
      BY <1>7
    <2>5. Seq(Seq(Ready)) \subseteq Seq(Seq(Ready'))
      <3> DEFINE A == Seq(Ready)
                 B == Seq(Ready')
      <3>1. A \subseteq B
        BY <2>4
      <3> HIDE DEF A, B
      <3>2. Seq(A) \subseteq Seq(B)
        BY <3>1
      <3> QED BY <3>2 DEF A, B
    <2>6. Confirming'
      BY <2>1, <2>4, <2>5, <1>5 DEF Confirming
    <2> QED BY <2>2, <2>3, <2>6
  <1>9. JobOK'
    BY <1>5, <1>8 DEF FilesInv, JobOK
  <1> QED BY <1>4, <1>6, <1>9 DEF FilesInv

LEMMA InitialsFinite ==
    ASSUME NEW d \in Paths
    PROVE  IsFiniteSet({SubSeq(d, 1, n) : n \in 1 .. Len(d)})
  <1> DEFINE D == 1 .. Len(d)
             T == {SubSeq(d, 1, n) : n \in D}
             f == [n \in D |-> SubSeq(d, 1, n)]
  <1>1. IsFiniteSet(D)
    BY PathsAre, FS_Interval
  <1>2. f \in Surjection(D, T)
    BY DEF Surjection
  <1>3. IsFiniteSet(T)
    <2> HIDE DEF D, T, f
    <2> QED BY <1>1, <1>2, FS_Surjection
  <1> QED BY <1>3

\* Either something is in the way, or the directories are there afterwards.
LEMMA MkdirsMake ==
    ASSUME FilesInv, Mkdirs
    PROVE  \/ job' = Idle /\ fs' = fs /\ nextIno' = nextIno
           \/ /\ job' = [job EXCEPT !.phase = "move"]
              /\ \E W, e :
                    /\ Makes(W, e)
                    /\ \A p \in W : \E d \in job.mkdirs : \E n \in 1 .. Len(d) :
                          p = SubSeq(d, 1, n)
              /\ \A d \in job.mkdirs : IsDir(d)'
  <1> DEFINE dirs == job.mkdirs
             initials == {{SubSeq(d, 1, n) : n \in 1 .. Len(d)} : d \in dirs}
             wanted == {p \in UNION initials : ~Exists(p)}
             order == SetToSeq(wanted)
             blocked == \E d \in dirs : \E n \in 1 .. Len(d) :
                           Exists(SubSeq(d, 1, n)) /\ ~IsDir(SubSeq(d, 1, n))
             place == [p \in wanted |-> CHOOSE k \in DOMAIN order : order[k] = p]
             e == [p \in wanted |-> NewDir(nextIno - 1 + place[p])]
  <1>1. /\ job.phase = "mkdir" /\ job # Idle /\ Fields \subseteq DOMAIN job
        /\ job.next \in Nat \ {0} /\ IsFiniteSet(dirs) /\ dirs \subseteq Paths /\ Moving
    BY DEF Mkdirs, FilesInv, JobOK, Making, Idle
  <1>4. CASE blocked
    BY <1>4 DEF Mkdirs
  <1>5. CASE ~blocked
    <2>1. IsFiniteSet(wanted)
      <3> DEFINE f == [d \in dirs |-> {SubSeq(d, 1, n) : n \in 1 .. Len(d)}]
      <3>1. f \in Surjection(dirs, initials)
        BY DEF Surjection
      <3>2. IsFiniteSet(initials)
        <4> HIDE DEF f, initials, dirs
        <4> QED BY <1>1, <3>1, FS_Surjection
      <3>3. \A s \in initials : IsFiniteSet(s)
        BY <1>1, InitialsFinite
      <3>4. IsFiniteSet(UNION initials)
        <4> HIDE DEF initials
        <4> QED BY <3>2, <3>3, FS_UNION
      <3> HIDE DEF initials
      <3> QED BY <3>4, FS_Subset
    <2>2. \A p \in wanted : \E d \in dirs : \E n \in 1 .. Len(d) :
             p = SubSeq(d, 1, n) /\ ~Exists(p)
      OBVIOUS
    <2>3. wanted \subseteq Paths /\ wanted \cap DOMAIN fs = {}
      <3> HIDE DEF wanted, dirs
      <3> QED BY <2>2, <1>1, Initials DEF Exists
    <2>4. /\ Cardinality(wanted) \in Nat /\ DOMAIN order = 1 .. Cardinality(wanted)
          /\ \A p \in wanted : \E k \in DOMAIN order : order[k] = p
      <3> HIDE DEF wanted
      <3> QED BY <2>1, SetToSeqIs
    <2>5. \A p \in wanted : place[p] \in 1 .. Cardinality(wanted) /\ order[place[p]] = p
      <3>1. \A p \in wanted : place[p] \in DOMAIN order /\ order[place[p]] = p
        <4> HIDE DEF wanted, order
        <4> QED BY <2>4
      <3> HIDE DEF wanted, order, place
      <3> QED BY <3>1, <2>4
    <2>6. /\ nextIno' = nextIno + Cardinality(wanted)
          /\ job' = [job EXCEPT !.phase = "move"]
          /\ fs' = [p \in DOMAIN fs \cup wanted |-> IF p \in DOMAIN fs THEN fs[p] ELSE e[p]]
      <3>1. /\ nextIno' = nextIno + Cardinality(wanted)
            /\ job' = [job EXCEPT !.phase = "move"]
            /\ fs' = [p \in DOMAIN fs \cup wanted |->
                        IF p \in DOMAIN fs THEN fs[p]
                        ELSE NewDir(nextIno - 1 + CHOOSE k \in DOMAIN order : order[k] = p)]
        BY <1>5 DEF Mkdirs
      <3>2. \A p \in wanted : e[p] = NewDir(nextIno - 1 + CHOOSE k \in DOMAIN order : order[k] = p)
        <4> HIDE DEF wanted, order
        <4> QED OBVIOUS
      <3> HIDE DEF wanted, order, e
      <3> QED BY <3>1, <3>2
    <2>7. nextIno \in Nat
      BY DEF FilesInv, FsOK
    <2>8. /\ \A p \in wanted : /\ e[p].what = 0 /\ e[p].dir
                              /\ e[p].ino = nextIno - 1 + place[p]
                              /\ e[p] = [ino |-> e[p].ino, what |-> 0, dir |-> TRUE]
          /\ DOMAIN e = wanted /\ e = [p \in wanted |-> e[p]]
      <3> HIDE DEF wanted, place
      <3> QED BY DEF NewDir
    <2>9. ASSUME NEW p \in wanted, NEW n \in 1 .. Len(p) - 1
          PROVE  \/ SubSeq(p, 1, n) \in DOMAIN fs /\ fs[SubSeq(p, 1, n)].dir
                 \/ SubSeq(p, 1, n) \in wanted
      <3>1. PICK d \in dirs : \E m \in 1 .. Len(d) : p = SubSeq(d, 1, m)
        OBVIOUS
      <3>2. PICK m \in 1 .. Len(d) : p = SubSeq(d, 1, m)
        BY <3>1
      <3>3. d \in Paths /\ Len(d) \in Nat /\ Len(p) = m
        BY <1>1, <3>2, PathsAre, Initials
      <3>4. n \in 1 .. m /\ n \in 1 .. Len(d)
        BY <3>3
      <3>5. SubSeq(p, 1, n) = SubSeq(d, 1, n) /\ SubSeq(d, 1, n) \in Paths
        BY <3>2, <3>3, <3>4, InitialOfInitial, Initials
      <3>6. CASE Exists(SubSeq(d, 1, n))
        <4>1. IsDir(SubSeq(d, 1, n))
          BY <1>5, <3>4, <3>6
        <4>2. SubSeq(d, 1, n) # <<>>
          BY <3>5, PathsAre
        <4> QED BY <4>1, <4>2, <3>5 DEF IsDir
      <3>7. CASE ~Exists(SubSeq(d, 1, n))
        <4>1. SubSeq(d, 1, n) \in wanted
          BY <3>4, <3>7
        <4> QED BY <4>1, <3>5
      <3> QED BY <3>6, <3>7
    <2>10. Makes(wanted, e)
      <3> HIDE DEF wanted, place, order, e
      <3>1. \A p \in wanted : place[p] \in Nat /\ 1 <= place[p] /\ place[p] <= Cardinality(wanted)
        BY <2>4, <2>5
      <3>2. \A p \in wanted : /\ e[p].ino \in Nat /\ nextIno <= e[p].ino
                              /\ e[p].ino < nextIno'
        BY <3>1, <2>4, <2>6, <2>7, <2>8
      <3>3. nextIno' \in Nat /\ nextIno <= nextIno'
        BY <2>4, <2>6, <2>7
      <3>4. \A p \in wanted : e[p] \in Entries
        <4>1. \A x \in Nat : [ino |-> x, what |-> 0, dir |-> TRUE] \in Entries
          BY DEF Entries
        <4> QED BY <4>1, <3>2, <2>8
      <3>5. e \in [wanted -> Entries]
        BY <3>4, <2>8
      <3>6. \A p, q \in wanted : e[p].ino = e[q].ino => p = q
        <4>1. \A p, q \in wanted : e[p].ino = e[q].ino => place[p] = place[q]
          BY <3>1, <2>7, <2>8
        <4> QED BY <4>1, <2>5
      <3> QED BY <2>1, <2>3, <2>6, <2>8, <2>9, <3>2, <3>3, <3>5, <3>6 DEF Makes
    <2>11. \A d \in dirs : IsDir(d)'
      <3> SUFFICES ASSUME NEW d \in dirs PROVE IsDir(d)'
        OBVIOUS
      <3>1. d \in Paths /\ Len(d) \in 1 .. Len(d) /\ SubSeq(d, 1, Len(d)) = d /\ d # <<>>
        <4>1. d \in Paths /\ IsPrefix(d, d) /\ d # <<>>
          BY <1>1, PathsAre, PrefixRefl
        <4> QED BY <4>1, PrefixIsInitial
      <3>2. CASE d \in DOMAIN fs
        <4>1. fs[d].dir
          <5>1. Exists(d) => IsDir(d)
            BY <1>5, <3>1
          <5> QED BY <5>1, <3>1, <3>2 DEF Exists, IsDir
        <4> HIDE DEF wanted, e
        <4> QED BY <4>1, <3>2, <2>6 DEF IsDir
      <3>3. CASE d \notin DOMAIN fs
        <4>1. d \in wanted
          <5> HIDE DEF dirs, order, place, e, blocked
          <5>1. \E n \in 1 .. Len(d) : d = SubSeq(d, 1, n)
            BY <3>1, WholePath
          <5> DEFINE T == {SubSeq(d, 1, n) : n \in 1 .. Len(d)}
          <5>2. d \in T
            BY <5>1
          <5>3. T \in initials
            OBVIOUS
          <5>4. ~Exists(d)
            BY <3>1, <3>3 DEF Exists
          <5> HIDE DEF T, initials
          <5> QED BY <5>2, <5>3, <5>4
        <4> HIDE DEF wanted, e
        <4> QED BY <4>1, <3>3, <2>6, <2>8 DEF IsDir
      <3> QED BY <3>2, <3>3
    <2>12. \A p \in wanted : \E d \in dirs : \E n \in 1 .. Len(d) : p = SubSeq(d, 1, n)
      BY <2>2
    <2> HIDE DEF wanted, e
    <2> QED BY <2>6, <2>10, <2>11, <2>12
  <1> QED BY <1>4, <1>5

LEMMA MkdirsKeeps ==
    ASSUME FilesInv, Mkdirs
    PROVE  FilesInv'
  <1>1. /\ job.phase = "mkdir" /\ job # Idle /\ Fields \subseteq DOMAIN job
        /\ job.next \in Nat \ {0} /\ Moving /\ locations' = locations
    BY DEF Mkdirs, FilesInv, JobOK, Idle, index
  <1>2. LocationsOK'
    BY <1>1 DEF FilesInv, LocationsOK
  <1>3. CASE job' = Idle /\ fs' = fs /\ nextIno' = nextIno
    <2>1. FsOK' /\ FilesKept' /\ JobOK'
      BY <1>3 DEF FilesInv, FsOK, FilesKept, JobOK
    <2> QED BY <1>2, <2>1 DEF FilesInv
  <1>4. ASSUME NEW W, NEW e, Makes(W, e), job' = [job EXCEPT !.phase = "move"]
        PROVE  FilesInv'
    <2>1. FsOK' /\ FilesKept' /\ \A to : Clear(to) => Clear(to)'
      BY <1>4, MadeKeeps DEF FilesInv
    <2>2. /\ job'.phase = "move" /\ DOMAIN job' = DOMAIN job
          /\ job'.moves = job.moves /\ job'.next = job.next
      BY <1>1, <1>4 DEF Fields
    <2>3. JobOK'
      <3>1. Confirming' /\ Making'
        BY <2>2 DEF Confirming, Making
      <3>2. Moving'
        BY <1>1, <2>1, <2>2 DEF Moving
      <3> QED BY <1>1, <2>2, <3>1, <3>2 DEF JobOK
    <2> QED BY <1>2, <2>1, <2>3 DEF FilesInv
  <1> QED BY <1>3, <1>4, MkdirsMake

-----------------------------------------------------------------------------
(* What leaves the files alone. *)

LEMMA FilesStay ==
    ASSUME FilesInv, fs' = fs, nextIno' = nextIno
    PROVE  FsOK' /\ FilesKept'
  BY DEF FilesInv, FsOK, FilesKept

\* An edit that waits for nothing of the files.
LEMMA Afterwards ==
    ASSUME FilesInv, job # Idle, DOMAIN job' = DOMAIN job, job'.next = job.next,
           job'.phase \in {"rebind", "reindex", "tags"}
    PROVE  JobOK'
  BY DEF FilesInv, JobOK, Confirming, Making, Moving

LEMMA IdleOK ==
    ASSUME job' = Idle
    PROVE  JobOK'
  BY DEF JobOK

LEMMA AbortOK ==
    ASSUME FilesInv, job # Idle, NEW j, DOMAIN j = DOMAIN job, j.next = job.next,
           job' = Abort(j)
    PROVE  JobOK'
  <1>1. CASE job' = Idle
    BY <1>1, IdleOK
  <1>2. CASE job' = [j EXCEPT !.phase = "rebind", !.failed = TRUE]
    <2>1. Fields \subseteq DOMAIN j
      BY DEF FilesInv, JobOK
    <2>2. DOMAIN job' = DOMAIN job /\ job'.next = job.next /\ job'.phase = "rebind"
      BY <1>2, <2>1 DEF Fields
    <2> QED BY <2>2, Afterwards
  <1> QED BY <1>1, <1>2 DEF Abort

LEMMA QuietKeeps ==
    ASSUME FilesInv, Decline \/ SetAttrs \/ Rebind \/ WriteTags \/ Crash
    PROVE  FilesInv'
  <1>1. fs' = fs /\ nextIno' = nextIno /\ locations' = locations
    BY DEF Decline, SetAttrs, Rebind, WriteTags, Crash, index
  <1>2. FsOK' /\ FilesKept' /\ LocationsOK'
    BY <1>1, FilesStay DEF FilesInv, LocationsOK
  <1>3. CASE Decline \/ WriteTags \/ Crash
    BY <1>2, <1>3, IdleOK DEF Decline, WriteTags, Crash, FilesInv
  <1>4. CASE Rebind
    <2>1. job.phase = "rebind" /\ job # Idle
      BY <1>4 DEF Rebind, Idle
    <2>2. CASE job' = Idle
      BY <1>2, <2>2, IdleOK DEF FilesInv
    <2>3. CASE job' = [job EXCEPT !.phase = "reindex"]
      <3>1. Fields \subseteq DOMAIN job
        BY <2>1 DEF FilesInv, JobOK
      <3>2. DOMAIN job' = DOMAIN job /\ job'.next = job.next /\ job'.phase = "reindex"
        BY <2>3, <3>1 DEF Fields
      <3> QED BY <1>2, <2>1, <3>2, Afterwards DEF FilesInv
    <2> QED BY <1>4, <2>2, <2>3 DEF Rebind
  <1>5. CASE SetAttrs
    <2> DEFINE At(a) == IF TargetOf(a.item) = <<>> THEN a.from ELSE TargetOf(a.item)[1]
               bad == SelectInSeq(job.attrs, LAMBDA a : ~Exists(At(a)))
               done == IF bad = 0 THEN job.attrs ELSE SubSeq(job.attrs, 1, bad - 1)
               set == {At(a) : a \in ToSet(done)}
               j == [job EXCEPT !.attrsSet = set]
    <2>1. job.phase = "move" /\ job # Idle
      BY <1>5 DEF SetAttrs, Idle
    <2>2. Fields \subseteq DOMAIN job
      BY <2>1 DEF FilesInv, JobOK
    <2>3. job' = IF bad # 0 THEN Abort(j)
                 ELSE IF j.moved = <<>> /\ j.attrsSet = {}
                      THEN [j EXCEPT !.phase = "tags"]
                 ELSE [j EXCEPT !.phase = "rebind"]
      BY <1>5 DEF SetAttrs
    <2> HIDE DEF set, bad
    <2>4. DOMAIN j = DOMAIN job /\ j.next = job.next
      BY <2>2 DEF Fields
    <2> HIDE DEF j
    <2>5. CASE bad # 0
      <3>1. JobOK'
        BY <2>1, <2>3, <2>4, <2>5, AbortOK
      <3> QED BY <3>1, <1>2 DEF FilesInv
    <2>6. CASE bad = 0
      <3>1. DOMAIN job' = DOMAIN job /\ job'.next = job.next
            /\ job'.phase \in {"tags", "rebind"}
        BY <2>2, <2>3, <2>4, <2>6 DEF Fields
      <3>2. JobOK'
        BY <2>1, <3>1, Afterwards
      <3> QED BY <3>2, <1>2 DEF FilesInv
    <2> QED BY <2>5, <2>6
  <1> QED BY <1>3, <1>4, <1>5

LEMMA ReindexKeeps ==
    ASSUME FilesInv, Reindex
    PROVE  FilesInv'
  <1> DEFINE In(p) == \E d \in TouchedDirs : IsPrefix(d, p)
             D == {q \in DOMAIN fs : In(q)}
             f == [p \in D |-> [path |-> p, item |-> IdOf(fs[p].ino)]]
             found == {[path |-> p, item |-> IdOf(fs[p].ino)] : p \in D}
             left == {l \in locations : ~In(l.path)}
  <1>1. fs' = fs /\ nextIno' = nextIno /\ job.phase = "reindex" /\ job # Idle
    BY DEF Reindex, Idle
  <1>2. FsOK' /\ FilesKept'
    BY <1>1, FilesStay
  <1>3. locations' = found \cup left
    BY DEF Reindex, Index, Indexed
  <1> HIDE DEF In
  <1>4. IsFiniteSet(D) /\ D \subseteq Paths
    BY FS_Subset DEF FilesInv, FsOK, IsTree
  <1>5. f \in Surjection(D, found)
    BY DEF Surjection
  <1>6. IsFiniteSet(found)
    <2> HIDE DEF D, f, found
    <2> QED BY <1>4, <1>5, FS_Surjection
  <1>7. IsFiniteSet(left)
    BY FS_Subset DEF FilesInv, LocationsOK
  <1>8. \A l \in found \cup left : l.path \in Paths
    <2>1. \A l \in found : l.path \in D
      <3> HIDE DEF D
      <3> QED OBVIOUS
    <2>2. \A l \in left : l.path \in Paths
      BY DEF FilesInv, LocationsOK
    <2> HIDE DEF found, left
    <2> QED BY <2>1, <2>2, <1>4
  <1>9. LocationsOK'
    <2> HIDE DEF found, left
    <2>1. IsFiniteSet(found \cup left)
      BY <1>6, <1>7, FS_Union
    <2> QED BY <1>3, <1>8, <2>1 DEF LocationsOK
  <1>10. JobOK'
    <2>1. job' = Idle \/ job' = [job EXCEPT !.phase = "tags"]
      BY DEF Reindex
    <2>2. CASE job' = Idle
      BY <2>2, IdleOK
    <2>3. CASE job' = [job EXCEPT !.phase = "tags"]
      <3>1. Fields \subseteq DOMAIN job
        BY <1>1 DEF FilesInv, JobOK
      <3>2. DOMAIN job' = DOMAIN job /\ job'.next = job.next /\ job'.phase = "tags"
        BY <2>3, <3>1 DEF Fields
      <3> QED BY <1>1, <3>2, Afterwards
    <2> QED BY <2>1, <2>2, <2>3
  <1> QED BY <1>2, <1>9, <1>10 DEF FilesInv

-----------------------------------------------------------------------------
(* Moves. *)

\* What goes along when a path moves.
Going(from) == {p \in DOMAIN fs : IsPrefix(from, p)}

LEMMA GoingIs ==
    ASSUME FsOK, NEW from \in Paths, Exists(from)
    PROVE  /\ Below(from) \cup {from} = Going(from)
           /\ IsFiniteSet(Going(from)) /\ Going(from) \subseteq Paths
           /\ Going(from) \subseteq DOMAIN fs /\ from \in DOMAIN fs
           /\ Cardinality(Going(from)) = Cardinality(Below(from)) + 1
  <1>1. from \in DOMAIN fs /\ IsPrefix(from, from)
    BY PathsAre, PrefixRefl DEF Exists
  <1>2. Below(from) \cup {from} = Going(from)
    BY <1>1 DEF Below, Going, IsStrictPrefix
  <1>3. IsFiniteSet(DOMAIN fs) /\ DOMAIN fs \subseteq Paths
    BY DEF FsOK, IsTree
  <1>4. IsFiniteSet(Going(from)) /\ IsFiniteSet(Below(from))
    BY <1>3, FS_Subset DEF Going, Below
  <1>5. from \notin Below(from)
    BY DEF Below, IsStrictPrefix
  <1>6. Cardinality(Below(from) \cup {from}) = Cardinality(Below(from)) + 1
    BY <1>4, <1>5, FS_AddElement
  <1> QED BY <1>1, <1>2, <1>3, <1>4, <1>6 DEF Going

\* The places that they come to.
LEMMA TargetsAre ==
    ASSUME FsOK, NEW from \in Paths, NEW to \in Paths, Exists(from)
    PROVE  LET targets == {Moved(p, from, to) : p \in Going(from)}
           IN  /\ IsFiniteSet(targets) /\ targets \subseteq Paths
               /\ \A q \in targets : /\ IsPrefix(to, q)
                                     /\ Moved(q, to, from) \in Going(from)
                                     /\ q = Moved(Moved(q, to, from), from, to)
               /\ \A p \in Going(from) : Moved(Moved(p, from, to), to, from) = p
  <1> DEFINE targets == {Moved(p, from, to) : p \in Going(from)}
             f == [p \in Going(from) |-> Moved(p, from, to)]
  <1>1. /\ IsFiniteSet(Going(from)) /\ Going(from) \subseteq Paths
        /\ \A p \in Going(from) : IsPrefix(from, p)
    BY GoingIs DEF Going
  <1>2. f \in Surjection(Going(from), targets)
    BY DEF Surjection
  <1>3. IsFiniteSet(targets)
    <2> HIDE DEF f, targets
    <2> QED BY <1>1, <1>2, FS_Surjection
  <1>4. \A p \in Going(from) : /\ Moved(p, from, to) \in Paths
                               /\ IsPrefix(to, Moved(p, from, to))
                               /\ Moved(Moved(p, from, to), to, from) = p
    BY <1>1, MovedIs, MovedBack
  <1> QED BY <1>3, <1>4

LEMMA RenamedKeeps ==
    ASSUME FsOK, FilesKept, NEW from \in Paths, NEW to \in Paths,
           CanRename(from, to), Clear(to),
           fs' = Renamed(from, to), nextIno' = nextIno
    PROVE  /\ FsOK' /\ FilesKept'
           /\ \A u \in Paths : Clear(u) /\ ~IsPrefix(to, u) /\ ~IsPrefix(u, to)
                                  => Clear(u)'
  <1> DEFINE going == Going(from)
             stay == DOMAIN fs \ (going \cup {to})
             targets == {Moved(p, from, to) : p \in going}
  <1>1. /\ Below(from) \cup {from} = going /\ IsFiniteSet(going) /\ going \subseteq Paths
        /\ going \subseteq DOMAIN fs /\ from \in DOMAIN fs
    BY GoingIs DEF CanRename
  <1>2. /\ IsFiniteSet(targets) /\ targets \subseteq Paths
        /\ \A q \in targets : IsPrefix(to, q) /\ Moved(q, to, from) \in going
        /\ \A p \in going : Moved(Moved(p, from, to), to, from) = p
    BY TargetsAre DEF CanRename
  <1>3. /\ IsFiniteSet(DOMAIN fs) /\ DOMAIN fs \subseteq Paths
        /\ \A p \in DOMAIN fs : fs[p] \in Entries /\ fs[p].ino < nextIno
        /\ nextIno \in Nat
        /\ \A p \in DOMAIN fs : \A n \in 1 .. Len(p) - 1 :
             SubSeq(p, 1, n) \in DOMAIN fs /\ fs[SubSeq(p, 1, n)].dir
    BY DEF FsOK, IsTree
  <1>4. \A q \in DOMAIN fs : IsPrefix(to, q) => q = to
    <2> SUFFICES ASSUME NEW q \in DOMAIN fs, IsPrefix(to, q), q # to PROVE FALSE
      OBVIOUS
    <2>1. to \in DOMAIN fs /\ fs[to].dir
      BY AboveIsDir DEF FsOK
    <2>2. q \in Below(to)
      BY DEF Below, IsStrictPrefix
    <2> QED BY <2>1, <2>2 DEF CanRename, Exists, IsDir
  <1>5. targets \cap stay = {}
    BY <1>2, <1>4
  <1>6. fs' = [q \in stay \cup targets |->
                 IF q \in stay THEN fs[q] ELSE fs[Moved(q, to, from)]]
    BY <1>1 DEF Renamed
  <1> HIDE DEF targets, stay
  <1>7. /\ DOMAIN fs' = stay \cup targets /\ fs' = [q \in DOMAIN fs' |-> fs'[q]]
        /\ \A q \in stay : fs'[q] = fs[q]
        /\ \A q \in targets : fs'[q] = fs[Moved(q, to, from)]
    BY <1>5, <1>6
  <1>8. \A p \in going : Moved(p, from, to) \in targets
                         /\ fs'[Moved(p, from, to)] = fs[p]
    BY <1>2, <1>7 DEF targets
  <1>9. /\ stay \subseteq DOMAIN fs
        /\ \A q \in stay : ~IsPrefix(from, q) /\ q # to
        /\ \A q \in DOMAIN fs : ~IsPrefix(from, q) /\ q # to => q \in stay
    BY DEF stay, Going
  <1>10. IsFiniteSet(DOMAIN fs') /\ DOMAIN fs' \subseteq Paths
    <2>1. IsFiniteSet(stay)
      BY <1>3, <1>9, FS_Subset
    <2>2. IsFiniteSet(stay \cup targets)
      BY <1>2, <2>1, FS_Union
    <2> QED BY <2>2, <1>2, <1>3, <1>7, <1>9
  <1>11. \A q \in DOMAIN fs' : fs'[q] \in Entries /\ fs'[q].ino < nextIno'
    BY <1>1, <1>2, <1>3, <1>7, <1>9
  <1>12. fs' \in [DOMAIN fs' -> Entries]
    BY <1>7, <1>11
  <1>13. ASSUME NEW q \in DOMAIN fs', NEW n \in 1 .. Len(q) - 1
         PROVE  SubSeq(q, 1, n) \in DOMAIN fs' /\ fs'[SubSeq(q, 1, n)].dir
    <2> DEFINE h == SubSeq(q, 1, n)
    <2>1. q \in Paths /\ n \in 1 .. Len(q)
      BY <1>10, PathsAre
    <2>2. h \in Paths /\ Len(h) = n /\ IsPrefix(h, q)
      BY <2>1, Initials
    <2>3. CASE q \in stay
      <3>1. h \in DOMAIN fs /\ fs[h].dir
        BY <1>3, <1>9, <2>3
      <3>2. ~IsPrefix(from, h)
        <4>1. ~IsPrefix(from, q)
          BY <1>9, <2>3
        <4> HIDE DEF h
        <4> QED BY <4>1, <2>1, <2>2, PrefixTrans, PathsAre
      <3>3. h # to
        <4> HIDE DEF h
        <4> QED BY <1>4, <1>9, <2>2, <2>3
      <3> QED BY <3>1, <3>2, <3>3, <1>7, <1>9
    <2>4. CASE q \in targets
      <3>1. PICK p \in going : q = Moved(p, from, to)
        BY <2>4 DEF targets
      <3>2. p \in Paths /\ IsPrefix(from, p) /\ p \in DOMAIN fs
        BY <1>1 DEF Going
      <3>3. \/ n < Len(to) /\ h = SubSeq(to, 1, n)
            \/ \E k \in Len(from) .. Len(p) - 1 :
                  /\ IsPrefix(from, SubSeq(p, 1, k))
                  /\ h = Moved(SubSeq(p, 1, k), from, to)
        BY <3>1, <3>2, AboveMoved
      <3>4. CASE n < Len(to) /\ h = SubSeq(to, 1, n)
        <4>1. n \in 1 .. Len(to) - 1 /\ n \in 1 .. Len(to) /\ IsDir(Parent(to))
          BY <3>4, <2>1, PathsAre DEF CanRename
        <4>2. h \in DOMAIN fs /\ fs[h].dir
          BY <3>4, <4>1, AboveNew
        <4>3. IsPrefix(h, to)
          BY <3>4, <4>1, Initials
        <4> HIDE DEF h
        <4>4. ~IsPrefix(from, h)
          BY <4>3, <2>2, PrefixTrans, PathsAre DEF CanRename
        <4>5. h # to
          BY <3>4, <2>2, PathsAre
        <4>6. h \in DOMAIN fs' /\ fs'[h].dir
          BY <4>2, <4>4, <4>5, <1>7, <1>9
        <4> QED BY <4>6 DEF h
      <3>5. CASE \E k \in Len(from) .. Len(p) - 1 :
                    /\ IsPrefix(from, SubSeq(p, 1, k))
                    /\ h = Moved(SubSeq(p, 1, k), from, to)
        <4>1. PICK k \in Len(from) .. Len(p) - 1 :
                    /\ IsPrefix(from, SubSeq(p, 1, k))
                    /\ h = Moved(SubSeq(p, 1, k), from, to)
          BY <3>5
        <4>2. k \in 1 .. Len(p) - 1
          BY <3>2, PathsAre
        <4>3. SubSeq(p, 1, k) \in DOMAIN fs /\ fs[SubSeq(p, 1, k)].dir
          BY <1>3, <3>2, <4>2
        <4>4. SubSeq(p, 1, k) \in going
          BY <4>1, <4>3 DEF Going
        <4>5. h \in targets /\ fs'[h] = fs[SubSeq(p, 1, k)]
          <5> DEFINE s == SubSeq(p, 1, k)
          <5>1. s \in going /\ h = Moved(s, from, to)
            BY <4>1, <4>4
          <5> HIDE DEF s, h
          <5>2. h \in targets /\ fs'[h] = fs[s]
            BY <5>1, <1>8
          <5> QED BY <5>2 DEF s
        <4> HIDE DEF h
        <4>6. h \in DOMAIN fs' /\ fs'[h].dir
          BY <4>3, <4>5, <1>7
        <4> QED BY <4>6 DEF h
      <3> QED BY <3>3, <3>4, <3>5
    <2> QED BY <2>3, <2>4, <1>7
  <1>14. FsOK'
    BY <1>3, <1>10, <1>11, <1>12, <1>13 DEF FsOK, IsTree
  <1>15. FilesKept'
    <2> SUFFICES ASSUME NEW i \in Items PROVE \E q \in DOMAIN fs' : fs'[q].what = i
      BY DEF FilesKept
    <2>1. PICK p \in DOMAIN fs : fs[p].what = i
      BY DEF FilesKept
    <2>2. CASE p \in going
      BY <2>1, <2>2, <1>7, <1>8
    <2>3. CASE p \notin going
      <3>1. i # 0
        BY TreeAssumption
      <3>2. p # to
        BY <2>1, <3>1, PrefixRefl, PathsAre DEF Clear
      <3>3. p \in stay
        BY <2>3, <3>2, <1>9 DEF Going
      <3> QED BY <2>1, <3>3, <1>7
    <2> QED BY <2>2, <2>3
  <1>16. ASSUME NEW u \in Paths, Clear(u), ~IsPrefix(to, u), ~IsPrefix(u, to)
         PROVE  Clear(u)'
    <2> SUFFICES ASSUME NEW p \in DOMAIN fs', IsPrefix(u, p)
                 PROVE  /\ fs'[p].what = 0
                        /\ \A q \in DOMAIN fs' : fs'[q].ino = fs'[p].ino => q = p
      BY DEF Clear
    <2>1. p \notin targets
      BY <1>2, <1>10, <1>16, PrefixesCompare, PathsAre
    <2>2. p \in stay /\ p \in DOMAIN fs
      BY <2>1, <1>7, <1>9
    <2>3. fs[p].what = 0 /\ \A q \in DOMAIN fs : fs[q].ino = fs[p].ino => q = p
      BY <2>2, <1>16 DEF Clear
    <2>4. ASSUME NEW q \in DOMAIN fs', fs'[q].ino = fs'[p].ino PROVE q = p
      <3>1. fs'[p] = fs[p]
        BY <2>2, <1>7
      <3>2. CASE q \in stay
        BY <2>3, <2>4, <3>1, <3>2, <1>7, <1>9
      <3>3. CASE q \in targets
        <4>1. Moved(q, to, from) \in going /\ fs'[q] = fs[Moved(q, to, from)]
          BY <3>3, <1>2, <1>7
        <4>2. Moved(q, to, from) = p
          BY <4>1, <3>1, <2>3, <2>4, <1>1
        <4> QED BY <4>1, <4>2, <2>2, <1>9 DEF Going
      <3> QED BY <3>2, <3>3, <1>7
    <2> QED BY <2>2, <2>3, <2>4, <1>7
  <1> QED BY <1>14, <1>15, <1>16

\* What copy_and_delete has written before the source is deleted: t.
CopyMakes(t, from, to) ==
    LET targets == {Moved(p, from, to) : p \in Going(from)}
    IN  /\ DOMAIN t = DOMAIN fs \cup targets /\ t = [q \in DOMAIN t |-> t[q]]
        /\ \A q \in DOMAIN fs : q \notin targets => t[q] = fs[q]
        /\ \A q \in DOMAIN fs : t[q].ino = fs[q].ino /\ t[q].dir = fs[q].dir
        /\ \A q \in targets : /\ t[q].what = fs[Moved(q, to, from)].what
                              /\ q \in DOMAIN fs => fs[q].what = 0
                              /\ q \notin DOMAIN fs =>
                                    /\ t[q].dir = fs[Moved(q, to, from)].dir
                                    /\ nextIno <= t[q].ino
                                    /\ t[q].ino < nextIno + Cardinality(Going(from))
        /\ \A p, q \in targets :
              p \notin DOMAIN fs /\ q \notin DOMAIN fs /\ t[p].ino = t[q].ino => p = q
        /\ \A q \in DOMAIN t : t[q] \in Entries

LEMMA CopiedIs ==
    ASSUME FsOK, NEW from \in Paths, NEW to \in Paths,
           CanCopy(from, to), Clear(to)
    PROVE  CopyMakes(Copied(from, to), from, to)
  <1> DEFINE going == Below(from) \cup {from}
             order == SetToSeq(going)
             targets == {Moved(p, from, to) : p \in going}
             written == {fs[q].ino : q \in {x \in targets : Exists(x)}}
             Over(q) == CHOOSE x \in targets : Exists(x) /\ fs[x].ino = fs[q].ino
             place(p) == CHOOSE k \in DOMAIN order : order[k] = p
             t == Copied(from, to)
  <1>1. /\ going = Going(from) /\ IsFiniteSet(going) /\ going \subseteq Paths
        /\ going \subseteq DOMAIN fs /\ from \in DOMAIN fs
    BY GoingIs DEF CanCopy
  <1>2. /\ IsFiniteSet(targets) /\ targets \subseteq Paths
        /\ \A q \in targets : /\ IsPrefix(to, q) /\ Moved(q, to, from) \in going
                              /\ q = Moved(Moved(q, to, from), from, to)
    BY <1>1, TargetsAre DEF CanCopy
  <1>3. /\ nextIno \in Nat
        /\ \A p \in DOMAIN fs : fs[p] \in Entries
    BY DEF FsOK, IsTree
  <1>4. t = [q \in DOMAIN fs \cup targets |->
               IF q \in targets \ DOMAIN fs
               THEN [fs[Moved(q, to, from)] EXCEPT
                       !.ino = nextIno - 1 + place(Moved(q, to, from))]
               ELSE IF fs[q].ino \in written
                    THEN [fs[q] EXCEPT !.what = fs[Moved(Over(q), to, from)].what]
               ELSE fs[q]]
    BY DEF Copied
  <1>5. /\ Cardinality(going) \in Nat
        /\ \A p \in going : place(p) \in 1 .. Cardinality(going)
        /\ \A p, q \in going : place(p) = place(q) => p = q
    <2>1. /\ Cardinality(going) \in Nat /\ DOMAIN order = 1 .. Cardinality(going)
          /\ \A p \in going : \E k \in DOMAIN order : order[k] = p
      <3> HIDE DEF going
      <3> QED BY <1>1, SetToSeqIs
    <2> HIDE DEF going, order
    <2>2. \A p \in going : place(p) \in DOMAIN order /\ order[place(p)] = p
      BY <2>1
    <2> HIDE DEF place
    <2> QED BY <2>1, <2>2
  <1>6. \A x \in targets : Exists(x) <=> x \in DOMAIN fs
    BY <1>2, PathsAre DEF Exists
  <1> HIDE DEF going, t, order
  <1>t. targets = {Moved(p, from, to) : p \in Going(from)}
    BY <1>1
  <1> HIDE DEF targets
  <1>7. ASSUME NEW x \in targets, x \in DOMAIN fs
        PROVE  fs[x].what = 0 /\ \A q \in DOMAIN fs : fs[q].ino = fs[x].ino => q = x
    BY <1>7, <1>2 DEF Clear
  <1>8. \A q \in DOMAIN fs : fs[q].ino \in written <=> q \in targets
    BY <1>6, <1>7
  <1>9. ASSUME NEW q \in targets, q \in DOMAIN fs PROVE Over(q) = q
    <2>1. \E x \in targets : Exists(x) /\ fs[x].ino = fs[q].ino
      BY <1>6, <1>9
    <2>2. Over(q) \in targets /\ Exists(Over(q)) /\ fs[Over(q)].ino = fs[q].ino
      BY <2>1
    <2> HIDE DEF Over
    <2> QED BY <2>2, <1>6, <1>7, <1>9
  <1> HIDE DEF written, place, Over
  <1>10. /\ DOMAIN t = DOMAIN fs \cup targets /\ t = [q \in DOMAIN t |-> t[q]]
         /\ \A q \in targets : q \notin DOMAIN fs =>
              t[q] = [fs[Moved(q, to, from)] EXCEPT
                        !.ino = nextIno - 1 + place(Moved(q, to, from))]
         /\ \A q \in targets : q \in DOMAIN fs =>
              t[q] = [fs[q] EXCEPT !.what = fs[Moved(q, to, from)].what]
         /\ \A q \in DOMAIN fs : q \notin targets => t[q] = fs[q]
    BY <1>4, <1>8, <1>9
  <1>11. ASSUME NEW q \in targets, q \notin DOMAIN fs
         PROVE  /\ t[q].what = fs[Moved(q, to, from)].what
                /\ t[q].dir = fs[Moved(q, to, from)].dir
                /\ nextIno <= t[q].ino /\ t[q].ino < nextIno + Cardinality(going)
                /\ t[q] \in Entries
                /\ t[q].ino = nextIno - 1 + place(Moved(q, to, from))
    <2> DEFINE p == Moved(q, to, from)
               n == nextIno - 1 + place(p)
    <2>1. p \in going /\ fs[p] \in Entries
      BY <1>1, <1>2, <1>3
    <2>2. n \in Nat /\ nextIno <= n /\ n < nextIno + Cardinality(going)
      <3>1. place(p) \in 1 .. Cardinality(going)
        BY <2>1, <1>5
      <3> QED BY <3>1, <1>3, <1>5
    <2>3. t[q] = [fs[p] EXCEPT !.ino = n]
      BY <1>10, <1>11
    <2> HIDE DEF p, n
    <2>4. t[q].ino = n /\ t[q].what = fs[p].what /\ t[q].dir = fs[p].dir /\ t[q] \in Entries
      BY <2>1, <2>2, <2>3 DEF Entries
    <2> QED BY <2>2, <2>4 DEF p, n
  <1>12. ASSUME NEW q \in targets, q \in DOMAIN fs
         PROVE  /\ t[q].what = fs[Moved(q, to, from)].what /\ fs[q].what = 0
                /\ t[q].ino = fs[q].ino /\ t[q].dir = fs[q].dir /\ t[q] \in Entries
    <2> DEFINE w == fs[Moved(q, to, from)].what
    <2>1. fs[q] \in Entries /\ w \in Nat
      BY <1>1, <1>2, <1>3, <1>12 DEF Entries
    <2>2. t[q] = [fs[q] EXCEPT !.what = w]
      BY <1>10, <1>12
    <2> HIDE DEF w
    <2>3. /\ t[q].what = w /\ t[q].ino = fs[q].ino /\ t[q].dir = fs[q].dir
          /\ t[q] \in Entries
      BY <2>1, <2>2 DEF Entries
    <2> QED BY <2>3, <1>7, <1>12 DEF w
  <1>13. \A q \in DOMAIN t : t[q] \in Entries
    BY <1>3, <1>10, <1>11, <1>12
  <1>14. \A q \in DOMAIN fs : t[q].ino = fs[q].ino /\ t[q].dir = fs[q].dir
    BY <1>10, <1>12
  <1>15. \A q \in targets : /\ t[q].what = fs[Moved(q, to, from)].what
                            /\ q \in DOMAIN fs => fs[q].what = 0
                            /\ q \notin DOMAIN fs =>
                                  /\ t[q].dir = fs[Moved(q, to, from)].dir
                                  /\ nextIno <= t[q].ino
                                  /\ t[q].ino < nextIno + Cardinality(going)
    BY <1>11, <1>12
  <1>16. ASSUME NEW p \in targets, NEW q \in targets, p \notin DOMAIN fs,
                q \notin DOMAIN fs, t[p].ino = t[q].ino
         PROVE  p = q
    <2>1. Moved(p, to, from) \in going /\ Moved(q, to, from) \in going
      BY <1>2
    <2>2. place(Moved(p, to, from)) = place(Moved(q, to, from))
      <3> DEFINE j == place(Moved(p, to, from))
                 k == place(Moved(q, to, from))
      <3>1. j \in Nat /\ k \in Nat
        BY <2>1, <1>5
      <3>2. nextIno - 1 + j = nextIno - 1 + k
        BY <1>11, <1>16
      <3> HIDE DEF j, k
      <3>3. j = k
        BY <3>1, <3>2, <1>3
      <3> QED BY <3>3 DEF j, k
    <2>3. Moved(p, to, from) = Moved(q, to, from)
      BY <2>1, <2>2, <1>5
    <2> QED BY <2>3, <1>2
  <1>17. CopyMakes(t, from, to)
    BY <1>1, <1>t, <1>10, <1>13, <1>14, <1>15, <1>16 DEF CopyMakes
  <1> QED BY <1>17 DEF t

LEMMA CopyIsTree ==
    ASSUME FsOK, NEW from \in Paths, NEW to \in Paths, CanCopy(from, to),
           NEW t, CopyMakes(t, from, to)
    PROVE  /\ IsTree(t)
           /\ \A p \in DOMAIN t : t[p].ino < nextIno + Cardinality(Going(from))
           /\ nextIno + Cardinality(Going(from)) \in Nat
  <1> DEFINE going == Going(from)
             targets == {Moved(p, from, to) : p \in going}
  <1>1. /\ IsFiniteSet(going) /\ going \subseteq Paths /\ going \subseteq DOMAIN fs
        /\ Cardinality(going) \in Nat /\ going = Below(from) \cup {from}
    BY GoingIs, FS_CardinalityType DEF CanCopy
  <1>2. /\ IsFiniteSet(targets) /\ targets \subseteq Paths
        /\ \A q \in targets : IsPrefix(to, q) /\ Moved(q, to, from) \in going
        /\ \A p \in going : Moved(Moved(p, from, to), to, from) = p
    BY TargetsAre DEF CanCopy
  <1>3. /\ IsFiniteSet(DOMAIN fs) /\ DOMAIN fs \subseteq Paths
        /\ \A p \in DOMAIN fs : fs[p].ino < nextIno /\ fs[p].ino \in Nat
        /\ nextIno \in Nat
        /\ \A p \in DOMAIN fs : \A n \in 1 .. Len(p) - 1 :
             SubSeq(p, 1, n) \in DOMAIN fs /\ fs[SubSeq(p, 1, n)].dir
    BY DEF FsOK, IsTree, Entries
  <1>4. /\ DOMAIN t = DOMAIN fs \cup targets /\ t = [q \in DOMAIN t |-> t[q]]
        /\ \A q \in DOMAIN fs : t[q].ino = fs[q].ino /\ t[q].dir = fs[q].dir
        /\ \A q \in targets : q \notin DOMAIN fs =>
              /\ t[q].dir = fs[Moved(q, to, from)].dir
              /\ t[q].ino < nextIno + Cardinality(going)
        /\ \A q \in DOMAIN t : t[q] \in Entries
    BY DEF CopyMakes
  <1>5. \A p \in going : Moved(p, from, to) \in targets
    OBVIOUS
  <1>6. \A p \in going : Moved(p, from, to) \in DOMAIN fs =>
                            fs[Moved(p, from, to)].dir = fs[p].dir
    <2> SUFFICES ASSUME NEW p \in going, Moved(p, from, to) \in DOMAIN fs
                 PROVE  fs[Moved(p, from, to)].dir = fs[p].dir
      OBVIOUS
    <2>1. IsDir(p) = IsDir(Moved(p, from, to))
      BY <1>1 DEF CanCopy, Exists
    <2>2. p # <<>> /\ Moved(p, from, to) # <<>> /\ p \in DOMAIN fs
      BY <1>1, <1>3, PathsAre
    <2>3. fs[p].dir \in BOOLEAN /\ fs[Moved(p, from, to)].dir \in BOOLEAN
      BY <2>2 DEF FsOK, IsTree, Entries
    <2> QED BY <2>1, <2>2, <2>3 DEF IsDir
  <1> HIDE DEF targets
  <1>7. IsFiniteSet(DOMAIN t) /\ DOMAIN t \subseteq Paths
    <2>1. IsFiniteSet(DOMAIN fs \cup targets)
      BY <1>2, <1>3, FS_Union
    <2> QED BY <2>1, <1>2, <1>3, <1>4
  <1>8. t \in [DOMAIN t -> Entries]
    BY <1>4
  <1>9. ASSUME NEW p \in DOMAIN t PROVE t[p].ino < nextIno + Cardinality(going)
    <2>1. CASE p \in DOMAIN fs
      <3>1. t[p].ino = fs[p].ino /\ fs[p].ino < nextIno /\ fs[p].ino \in Nat
        BY <2>1, <1>3, <1>4
      <3> QED BY <3>1, <1>1, <1>3
    <2>2. CASE p \notin DOMAIN fs
      BY <2>2, <1>4
    <2> QED BY <2>1, <2>2
  <1>10. nextIno + Cardinality(going) \in Nat
    BY <1>1, <1>3
  <1>11. ASSUME NEW q \in DOMAIN t, NEW n \in 1 .. Len(q) - 1
         PROVE  SubSeq(q, 1, n) \in DOMAIN t /\ t[SubSeq(q, 1, n)].dir
    <2> DEFINE h == SubSeq(q, 1, n)
    <2>1. CASE q \in DOMAIN fs
      <3>1. h \in DOMAIN fs /\ fs[h].dir
        BY <1>3, <2>1
      <3> HIDE DEF h
      <3>2. h \in DOMAIN t /\ t[h].dir
        BY <3>1, <1>4
      <3> QED BY <3>2 DEF h
    <2>2. CASE q \in targets
      <3>1. PICK p \in going : q = Moved(p, from, to)
        BY <2>2 DEF targets
      <3>2. p \in Paths /\ IsPrefix(from, p) /\ p \in DOMAIN fs
        BY <1>1 DEF Going
      <3>3. \/ n < Len(to) /\ h = SubSeq(to, 1, n)
            \/ \E k \in Len(from) .. Len(p) - 1 :
                  /\ IsPrefix(from, SubSeq(p, 1, k))
                  /\ h = Moved(SubSeq(p, 1, k), from, to)
        BY <3>1, <3>2, AboveMoved
      <3>4. CASE n < Len(to) /\ h = SubSeq(to, 1, n)
        <4>1. n \in 1 .. Len(to) - 1 /\ IsDir(Parent(to))
          BY <3>4, <1>7, PathsAre DEF CanCopy
        <4>2. h \in DOMAIN fs /\ fs[h].dir
          BY <3>4, <4>1, AboveNew
        <4> HIDE DEF h
        <4>3. h \in DOMAIN t /\ t[h].dir
          BY <4>2, <1>4
        <4> QED BY <4>3 DEF h
      <3>5. CASE \E k \in Len(from) .. Len(p) - 1 :
                    /\ IsPrefix(from, SubSeq(p, 1, k))
                    /\ h = Moved(SubSeq(p, 1, k), from, to)
        <4>1. PICK k \in Len(from) .. Len(p) - 1 :
                    /\ IsPrefix(from, SubSeq(p, 1, k))
                    /\ h = Moved(SubSeq(p, 1, k), from, to)
          BY <3>5
        <4>2. k \in 1 .. Len(p) - 1
          BY <3>2, PathsAre
        <4>3. SubSeq(p, 1, k) \in DOMAIN fs /\ fs[SubSeq(p, 1, k)].dir
          BY <1>3, <3>2, <4>2
        <4> DEFINE s == SubSeq(p, 1, k)
        <4>4. s \in going /\ fs[s].dir /\ h = Moved(s, from, to)
          BY <4>1, <4>3 DEF Going
        <4> HIDE DEF s, h, going
        <4>5. h \in targets /\ Moved(h, to, from) = s
          BY <4>4, <1>2, <1>5
        <4>6. CASE h \in DOMAIN fs
          <5>1. t[h].dir
            BY <4>4, <4>6, <1>4, <1>6
          <5> QED BY <5>1, <4>5, <1>4 DEF h
        <4>7. CASE h \notin DOMAIN fs
          <5>1. t[h].dir
            BY <4>4, <4>5, <4>7, <1>4
          <5> QED BY <5>1, <4>5, <1>4 DEF h
        <4> QED BY <4>6, <4>7
      <3> QED BY <3>3, <3>4, <3>5
    <2> QED BY <2>1, <2>2, <1>4
  <1> QED BY <1>7, <1>8, <1>9, <1>10, <1>11 DEF IsTree

LEMMA MadeByCopy ==
    ASSUME FsOK, NEW from \in Paths, Exists(from)
    PROVE  Cardinality(Below(from)) + 1 = Cardinality(Going(from))
  BY GoingIs

\* The copy is made, and the source is still there.
LEMMA CopiedKeeps ==
    ASSUME FsOK, FilesKept, NEW from \in Paths, NEW to \in Paths,
           CanCopy(from, to), Clear(to), fs' = Copied(from, to),
           nextIno' = nextIno + Cardinality(Below(from)) + 1
    PROVE  FsOK' /\ FilesKept'
  <1>1. CopyMakes(fs', from, to)
    BY CopiedIs
  <1>2. nextIno \in Nat /\ Cardinality(Below(from)) \in Nat
    <2>1. IsFiniteSet(Below(from))
      BY FS_Subset DEF FsOK, IsTree, Below
    <2> QED BY <2>1, FS_CardinalityType DEF FsOK
  <1>3. nextIno' = nextIno + Cardinality(Going(from))
    <2>1. Cardinality(Below(from)) + 1 = Cardinality(Going(from))
      BY MadeByCopy DEF CanCopy
    <2> QED BY <2>1, <1>2
  <1>4. FsOK'
    BY <1>1, <1>3, CopyIsTree DEF FsOK
  <1>5. FilesKept'
    <2> SUFFICES ASSUME NEW i \in Items PROVE \E q \in DOMAIN fs' : fs'[q].what = i
      BY DEF FilesKept
    <2>1. PICK p \in DOMAIN fs : fs[p].what = i
      BY DEF FilesKept
    <2>2. i # 0
      BY TreeAssumption
    <2> QED BY <2>1, <2>2, <1>1 DEF CopyMakes
  <1> QED BY <1>4, <1>5

\* The copy takes the place of the source.
LEMMA DeletedKeeps ==
    ASSUME FsOK, FilesKept, NEW from \in Paths, NEW to \in Paths, from[1] # to[1],
           CanCopy(from, to), Clear(to), fs' = Deleted(Copied(from, to), from),
           nextIno' = nextIno + Cardinality(Below(from)) + 1
    PROVE  /\ FsOK' /\ FilesKept'
           /\ \A u \in Paths : Clear(u) /\ ~IsPrefix(to, u) /\ ~IsPrefix(u, to)
                                  => Clear(u)'
  <1> DEFINE t == Copied(from, to)
             going == Going(from)
             targets == {Moved(p, from, to) : p \in going}
  <1>1. CopyMakes(t, from, to)
    BY CopiedIs
  <1>2. nextIno \in Nat /\ Cardinality(Below(from)) \in Nat
    <2>1. IsFiniteSet(Below(from))
      BY FS_Subset DEF FsOK, IsTree, Below
    <2> QED BY <2>1, FS_CardinalityType DEF FsOK
  <1>3. nextIno' = nextIno + Cardinality(Going(from))
    <2>1. Cardinality(Below(from)) + 1 = Cardinality(Going(from))
      BY MadeByCopy DEF CanCopy
    <2> QED BY <2>1, <1>2
  <1>4. /\ IsTree(t) /\ nextIno' \in Nat
        /\ \A p \in DOMAIN t : t[p].ino < nextIno'
    <2> HIDE DEF t
    <2> QED BY <1>1, <1>3, CopyIsTree
  <1>5. fs' = [q \in {p \in DOMAIN t : ~IsPrefix(from, p)} |-> t[q]]
    BY DEF Deleted
  <1>6. /\ targets \subseteq Paths
        /\ \A q \in targets : IsPrefix(to, q) /\ Moved(q, to, from) \in going
        /\ \A p \in going : Moved(p, from, to) \in targets
                            /\ Moved(Moved(p, from, to), to, from) = p
        /\ going \subseteq DOMAIN fs
    BY TargetsAre, GoingIs DEF CanCopy
  <1>7. /\ DOMAIN t = DOMAIN fs \cup targets
        /\ \A q \in DOMAIN fs : q \notin targets => t[q] = fs[q]
        /\ \A q \in DOMAIN fs : t[q].ino = fs[q].ino
        /\ \A q \in targets : /\ t[q].what = fs[Moved(q, to, from)].what
                              /\ q \in DOMAIN fs => fs[q].what = 0
                              /\ q \notin DOMAIN fs => nextIno <= t[q].ino
        /\ \A q \in DOMAIN t : t[q] \in Entries
    BY <1>1 DEF CopyMakes
  <1> HIDE DEF t, targets
  <1>8. /\ DOMAIN fs' = {p \in DOMAIN t : ~IsPrefix(from, p)}
        /\ fs' = [q \in DOMAIN fs' |-> fs'[q]]
        /\ \A q \in DOMAIN fs' : fs'[q] = t[q] /\ q \in DOMAIN t /\ ~IsPrefix(from, q)
    BY <1>5
  <1>9. \A q \in targets : ~IsPrefix(from, q)
    <2> SUFFICES ASSUME NEW q \in targets, IsPrefix(from, q) PROVE FALSE
      OBVIOUS
    <2>1. q \in Paths /\ IsPrefix(to, q)
      BY <1>6
    <2>2. 1 \in 1 .. Len(from) /\ 1 \in 1 .. Len(to)
      BY PathsAre
    <2>3. from[1] = q[1] /\ to[1] = q[1]
      BY <2>1, <2>2, PathsAre, PrefixMeans
    <2> QED BY <2>3
  <1>10. FsOK'
    <2>1. IsFiniteSet(DOMAIN fs') /\ DOMAIN fs' \subseteq Paths
      BY <1>4, <1>8, FS_Subset DEF IsTree
    <2>2. fs' \in [DOMAIN fs' -> Entries]
      BY <1>7, <1>8
    <2>3. ASSUME NEW q \in DOMAIN fs', NEW n \in 1 .. Len(q) - 1
          PROVE  SubSeq(q, 1, n) \in DOMAIN fs' /\ fs'[SubSeq(q, 1, n)].dir
      <3> DEFINE h == SubSeq(q, 1, n)
      <3>1. h \in DOMAIN t /\ t[h].dir
        BY <1>4, <1>8 DEF IsTree
      <3>2. q \in Paths /\ n \in 1 .. Len(q)
        BY <2>1, PathsAre
      <3>3. h \in Paths /\ IsPrefix(h, q)
        BY <3>2, Initials
      <3> HIDE DEF h
      <3>4. ~IsPrefix(from, h)
        BY <3>2, <3>3, <1>8, PrefixTrans, PathsAre
      <3>5. h \in DOMAIN fs' /\ fs'[h].dir
        BY <3>1, <3>4, <1>8
      <3> QED BY <3>5 DEF h
    <2> QED BY <2>1, <2>2, <2>3, <1>4, <1>8 DEF FsOK, IsTree
  <1>11. FilesKept'
    <2> SUFFICES ASSUME NEW i \in Items PROVE \E q \in DOMAIN fs' : fs'[q].what = i
      BY DEF FilesKept
    <2>1. PICK p \in DOMAIN fs : fs[p].what = i
      BY DEF FilesKept
    <2>2. i # 0
      BY TreeAssumption
    <2>3. CASE p \in going
      <3> DEFINE q == Moved(p, from, to)
      <3>1. q \in targets /\ Moved(q, to, from) = p
        BY <2>3, <1>6
      <3> HIDE DEF q
      <3>2. q \in DOMAIN t /\ t[q].what = i /\ ~IsPrefix(from, q)
        BY <2>1, <3>1, <1>7, <1>9
      <3> QED BY <3>2, <1>8
    <2>4. CASE p \notin going
      <3>1. p \notin targets /\ ~IsPrefix(from, p)
        BY <2>1, <2>2, <2>4, <1>7 DEF Going
      <3>2. p \in DOMAIN t /\ t[p].what = i
        BY <2>1, <3>1, <1>7
      <3> QED BY <3>1, <3>2, <1>8
    <2> QED BY <2>3, <2>4
  <1>12. ASSUME NEW u \in Paths, Clear(u), ~IsPrefix(to, u), ~IsPrefix(u, to)
         PROVE  Clear(u)'
    <2> SUFFICES ASSUME NEW p \in DOMAIN fs', IsPrefix(u, p)
                 PROVE  /\ fs'[p].what = 0
                        /\ \A q \in DOMAIN fs' : fs'[q].ino = fs'[p].ino => q = p
      BY DEF Clear
    <2>1. p \notin targets
      BY <1>6, <1>12, PrefixesCompare, PathsAre
    <2>2. p \in DOMAIN fs /\ fs'[p] = fs[p]
      BY <2>1, <1>7, <1>8
    <2>3. fs[p].what = 0 /\ \A q \in DOMAIN fs : fs[q].ino = fs[p].ino => q = p
      BY <2>2, <1>12 DEF Clear
    <2>4. ASSUME NEW q \in DOMAIN fs', fs'[q].ino = fs'[p].ino PROVE q = p
      <3>1. t[q].ino = fs[p].ino /\ q \in DOMAIN t
        BY <2>2, <2>4, <1>8
      <3>2. fs[p].ino \in Nat /\ fs[p].ino < nextIno
        BY <2>2 DEF FsOK, IsTree, Entries
      <3>3. q \in DOMAIN fs
        BY <3>1, <3>2, <1>2, <1>7
      <3> QED BY <3>1, <3>3, <2>3, <1>7
    <2> QED BY <2>2, <2>3, <2>4
  <1> QED BY <1>10, <1>11, <1>12

-----------------------------------------------------------------------------
(* The steps. *)

LEMMA NextMoveIs ==
    ASSUME FilesInv, MovesLeft
    PROVE  /\ job # Idle /\ Fields \subseteq DOMAIN job /\ Moving
           /\ job.next \in DOMAIN job.moves /\ job.next \in Nat \ {0}
           /\ NextMove \in PlannedMove /\ Clear(NextMove.to)
           /\ NextMove.from \in Paths /\ NextMove.to \in Paths
           /\ NextMove.crossed => NextMove.from[1] # NextMove.to[1]
  <1>1. job # Idle /\ job.phase = "move"
    BY DEF MovesLeft, Idle
  <1>2. /\ Fields \subseteq DOMAIN job /\ Moving /\ job.next \in Nat \ {0}
        /\ job.moves \in Seq(PlannedMove)
        /\ \A k \in DOMAIN job.moves : k >= job.next => Clear(job.moves[k].to)
    BY <1>1 DEF FilesInv, JobOK, Moving
  <1>3. job.next \in DOMAIN job.moves
    BY <1>2 DEF MovesLeft
  <1>4. NextMove \in PlannedMove /\ Clear(NextMove.to)
    BY <1>2, <1>3 DEF NextMove
  <1> QED BY <1>1, <1>2, <1>3, <1>4 DEF PlannedMove

\* What the moves that are left go to stays free of items.
LEMMA AdvanceKeeps ==
    ASSUME FilesInv, MovesLeft, Advance,
           \A u \in Paths : Clear(u) /\ ~IsPrefix(NextMove.to, u)
                            /\ ~IsPrefix(u, NextMove.to) => Clear(u)'
    PROVE  JobOK'
  <1>1. /\ job # Idle /\ Fields \subseteq DOMAIN job /\ Moving /\ job.phase = "move"
        /\ job.next \in DOMAIN job.moves /\ job.next \in Nat \ {0}
    BY NextMoveIs DEF MovesLeft
  <1>2. /\ DOMAIN job' = DOMAIN job /\ job'.phase = "move"
        /\ job'.moves = job.moves /\ job'.next = job.next + 1
    BY <1>1 DEF Advance, Fields
  <1>3. job'.next \in Nat \ {0}
    BY <1>1, <1>2
  <1>4. job.moves \in Seq(PlannedMove) /\ Apart(job.moves)
        /\ \A k \in DOMAIN job.moves : k >= job.next => Clear(job.moves[k].to)
    BY <1>1 DEF Moving
  <1>5. ASSUME NEW k \in DOMAIN job.moves, k >= job.next + 1
        PROVE  Clear(job.moves[k].to)'
    <2> DEFINE u == job.moves[k].to
    <2>1. k # job.next /\ k >= job.next
      BY <1>1, <1>4, <1>5
    <2>2. Clear(u) /\ u \in Paths
      BY <1>4, <2>1 DEF PlannedMove
    <2>3. ~IsPrefix(NextMove.to, u) /\ ~IsPrefix(u, NextMove.to)
      BY <1>1, <1>4, <2>1 DEF Apart, NextMove
    <2>4. \A v : v = u => (v \in Paths => Clear(v)')
      BY <2>2, <2>3
    <2>5. job'.moves[k].to = u
      BY <1>2
    <2> QED BY <2>2, <2>4, <2>5, <1>2
  <1>6. Moving'
    BY <1>2, <1>4, <1>5 DEF Moving
  <1> QED BY <1>1, <1>2, <1>3, <1>6 DEF JobOK, Confirming, Making

LEMMA RenameKeeps ==
    ASSUME FilesInv, Rename
    PROVE  FilesInv'
  <1>1. /\ MovesLeft /\ nextIno' = nextIno /\ locations' = locations
    BY DEF Rename, index
  <1>2. LocationsOK'
    BY <1>1 DEF FilesInv, LocationsOK
  <1>3. /\ job # Idle /\ Clear(NextMove.to)
        /\ NextMove.from \in Paths /\ NextMove.to \in Paths
    BY <1>1, NextMoveIs
  <1>4. CASE CanRename(NextMove.from, NextMove.to)
    <2>1. fs' = Renamed(NextMove.from, NextMove.to) /\ Advance
      BY <1>4 DEF Rename
    <2>2. /\ FsOK' /\ FilesKept'
          /\ \A u \in Paths : Clear(u) /\ ~IsPrefix(NextMove.to, u)
                              /\ ~IsPrefix(u, NextMove.to) => Clear(u)'
      BY <1>1, <1>3, <1>4, <2>1, RenamedKeeps DEF FilesInv
    <2>3. JobOK'
      BY <1>1, <2>1, <2>2, AdvanceKeeps
    <2> QED BY <1>2, <2>2, <2>3 DEF FilesInv
  <1>5. CASE ~CanRename(NextMove.from, NextMove.to)
    <2>1. fs' = fs /\ job' = Abort(job)
      BY <1>5 DEF Rename
    <2>2. FsOK' /\ FilesKept'
      BY <1>1, <2>1, FilesStay
    <2>3. JobOK'
      BY <1>3, <2>1, AbortOK
    <2> QED BY <1>2, <2>2, <2>3 DEF FilesInv
  <1> QED BY <1>4, <1>5

LEMMA CopyAndDeleteKeeps ==
    ASSUME FilesInv, CopyAndDelete
    PROVE  FilesInv'
  <1> DEFINE m == NextMove
  <1>1. MovesLeft /\ m.crossed /\ locations' = locations
    BY DEF CopyAndDelete, index
  <1>2. LocationsOK'
    BY <1>1 DEF FilesInv, LocationsOK
  <1>3. job # Idle /\ Clear(m.to) /\ m.from \in Paths /\ m.to \in Paths
        /\ m.from[1] # m.to[1]
    BY <1>1, NextMoveIs
  <1>4. CASE CanCopy(m.from, m.to)
    <2>1. /\ fs' = Deleted(Copied(m.from, m.to), m.from) /\ Advance
          /\ nextIno' = nextIno + (Cardinality(Below(m.from)) + 1)
      BY <1>4 DEF CopyAndDelete
    <2>2. nextIno \in Nat /\ Cardinality(Below(m.from)) \in Nat
      <3>1. IsFiniteSet(Below(m.from))
        BY FS_Subset DEF FilesInv, FsOK, IsTree, Below
      <3> QED BY <3>1, FS_CardinalityType DEF FilesInv, FsOK
    <2>3. nextIno' = nextIno + Cardinality(Below(m.from)) + 1
      BY <2>1, <2>2
    <2>4. /\ FsOK' /\ FilesKept'
          /\ \A u \in Paths : Clear(u) /\ ~IsPrefix(m.to, u)
                              /\ ~IsPrefix(u, m.to) => Clear(u)'
      BY <1>1, <1>3, <1>4, <2>1, <2>3, DeletedKeeps DEF FilesInv
    <2>5. JobOK'
      BY <1>1, <2>1, <2>4, AdvanceKeeps
    <2> QED BY <1>2, <2>4, <2>5 DEF FilesInv
  <1>5. CASE ~CanCopy(m.from, m.to)
    <2>1. fs' = fs /\ nextIno' = nextIno /\ job' = Abort(job)
      BY <1>5 DEF CopyAndDelete
    <2>2. FsOK' /\ FilesKept'
      BY <2>1, FilesStay
    <2>3. JobOK'
      BY <1>3, <2>1, AbortOK
    <2> QED BY <1>2, <2>2, <2>3 DEF FilesInv
  <1> QED BY <1>4, <1>5

LEMMA CopyFailsKeeps ==
    ASSUME FilesInv, CopyFails
    PROVE  FilesInv'
  <1> DEFINE m == NextMove
  <1>1. /\ MovesLeft /\ locations' = locations /\ CanCopy(m.from, m.to)
        /\ fs' = Copied(m.from, m.to) /\ job' = Abort(job)
        /\ nextIno' = nextIno + Cardinality(Below(m.from)) + 1
    BY DEF CopyFails, index
  <1>2. LocationsOK'
    BY <1>1 DEF FilesInv, LocationsOK
  <1>3. job # Idle /\ Clear(m.to) /\ m.from \in Paths /\ m.to \in Paths
    BY <1>1, NextMoveIs
  <1>4. FsOK' /\ FilesKept'
    BY <1>1, <1>3, CopiedKeeps DEF FilesInv
  <1>5. JobOK'
    BY <1>1, <1>3, AbortOK
  <1> QED BY <1>2, <1>4, <1>5 DEF FilesInv

LEMMA InitHolds == Init => FilesInv
  <1> SUFFICES ASSUME Init PROVE FilesInv
    OBVIOUS
  <1> DEFINE D == {q \in DOMAIN Tree : Tree[q].what \in Items}
             f == [p \in D |-> [path |-> p, item |-> Tree[p].what]]
  <1>1. FsOK /\ FilesKept
    BY TreeAssumption DEF Init, FsOK, FilesKept
  <1>2. IsFiniteSet(D) /\ D \subseteq Paths
    BY TreeAssumption, FS_Subset DEF IsTree
  <1>3. locations = {[path |-> p, item |-> Tree[p].what] : p \in D}
    BY DEF Init
  <1> HIDE DEF D
  <1>4. f \in Surjection(D, locations)
    BY <1>3 DEF Surjection
  <1>5. IsFiniteSet(locations)
    <2> HIDE DEF f
    <2> QED BY <1>2, <1>4, FS_Surjection
  <1>6. LocationsOK
    BY <1>2, <1>3, <1>5 DEF LocationsOK
  <1>7. JobOK
    BY DEF Init, JobOK
  <1> QED BY <1>1, <1>6, <1>7 DEF FilesInv

LEMMA NextKeeps ==
    ASSUME ~Nested
    PROVE  FilesInv /\ [Next]_vars => FilesInv'
  <1> SUFFICES ASSUME FilesInv, [Next]_vars PROVE FilesInv'
    OBVIOUS
  <1>1. CASE Next
    <2>1. ASSUME NEW r \in Requests, Plan(r) PROVE FilesInv'
      BY <2>1, PlanKeeps
    <2>2. ASSUME Answered PROVE FilesInv'
      BY <2>2, ConfirmKeeps DEF Answered
    <2>3. ASSUME NEW p \in AlienPaths, Appear(p) PROVE FilesInv'
      BY <2>3, AppearKeeps
    <2> QED BY <1>1, <2>1, <2>2, <2>3, QuietKeeps, MkdirsKeeps, RenameKeeps,
               CopyAndDeleteKeeps, CopyFailsKeeps, ReindexKeeps DEF Next
  <1>2. CASE UNCHANGED vars
    <2>1. fs' = fs /\ nextIno' = nextIno /\ locations' = locations /\ job' = job
      BY <1>2 DEF vars, index
    <2>2. FsOK' /\ LocationsOK' /\ FilesKept'
      BY <2>1, FilesStay DEF FilesInv, LocationsOK
    <2>3. Ready' = Ready /\ \A u : Clear(u)' <=> Clear(u)
      BY <2>1 DEF Ready, Clear
    <2>4. JobOK'
      BY <2>1, <2>3 DEF FilesInv, JobOK, Confirming, Making, Moving
    <2> QED BY <2>2, <2>4 DEF FilesInv
  <1> QED BY <1>1, <1>2

\* As long as no move goes through the directories of another move of its edit,
\* no edit loses a file: for any files, links, devices and requests, any
\* number of edits, files that other programs create, copies that fail and
\* processes that are killed.
THEOREM FilesAreKept ==
    ASSUME ~Nested
    PROVE  Spec => []FilesKept
  <1>1. FilesInv => FilesKept
    BY DEF FilesInv
  <1> QED BY <1>1, InitHolds, NextKeeps, PTL DEF Spec

-----------------------------------------------------------------------------
(* The index while an edit runs. *)

\* The path is indexed as the item's.
HasRow(p, i) == \E l \in locations : l.path = p /\ l.item = i

\* A path is of one item, a file_id of one item.
Keyed == \A l, k \in locations : l.path = k.path => l.item = k.item
RefsOK ==
    /\ DOMAIN refs = {l.item : l \in locations}
    /\ \A i \in DOMAIN refs : /\ refs[i] \in Nat /\ refs[i] < nextIno
                              /\ i \in Items \/ i = NewItem(refs[i])
    /\ \A i, j \in DOMAIN refs : refs[i] = refs[j] => i = j

Known == {refs[i] : i \in DOMAIN refs}

\* Of two moves of an edit, neither goes through what the other moves or makes.
Sundered(m, o) ==
    /\ ~IsPrefix(m.from, o.from) /\ ~IsPrefix(m.to, o.to)
    /\ ~IsPrefix(o.from, m.from) /\ ~IsPrefix(o.to, m.to)
\* Or they are one link, chosen again.
Alike(m, o) == m.item = o.item /\ m.crossed = o.crossed
Again(m, o) == m.from = o.from /\ Alike(m, o) /\ ~IsPrefix(m.to, o.to)
Separate(moves) ==
    \A k, l \in DOMAIN moves :
        /\ ~IsPrefix(moves[k].from, moves[l].to)
        /\ ~IsPrefix(moves[l].to, moves[k].from)
        /\ k # l => Sundered(moves[k], moves[l]) \/ Again(moves[k], moves[l])
\* The first move of its path.
First(k) == \A l \in 1 .. k - 1 : job.moves[l].from # job.moves[k].from

Away == job.phase \in {"mkdir", "move", "rebind", "reindex"}
Underway == job.phase \in {"mkdir", "move"}
Tracks == [item : Items, to : Paths, crossed : BOOLEAN]
Track(m) == [item |-> m.item, to |-> m.to, crossed |-> m.crossed]

\* The moves that are confirmed, and what the job has noted of those made.
Routed ==
    Away =>
        /\ job.moves \in Seq(PlannedMove) /\ Separate(job.moves)
        /\ \A k \in DOMAIN job.moves : HasRow(job.moves[k].from, job.moves[k].item)
        /\ job.moved \in Seq(Tracks) /\ Len(job.moved) = job.next - 1
        /\ job.next - 1 <= Len(job.moves)
        /\ \A k \in 1 .. job.next - 1 : job.moved[k] = Track(job.moves[k])
        /\ job.phase = "mkdir" => job.next = 1

\* The moves that are made and to be made, those of a path that another has
\* moved aside.
Passed == IF Away THEN 1 .. job.next - 1 ELSE {}
Coming == IF Underway THEN job.next .. Len(job.moves) ELSE {}
Done == {job.moves[k] : k \in {n \in Passed : First(n)}}
Left == {job.moves[k] : k \in {n \in Coming : First(n)}}
Repeats == {job.moves[k] : k \in {n \in Coming : ~First(n)}}

Alone(p) == p \in DOMAIN fs /\ \A q \in DOMAIN fs : fs[q].ino = fs[p].ino => q = p
\* What came to a new device is a file that the index does not know.
Arrived ==
    \A m \in Done :
        /\ m.to \in DOMAIN fs
        /\ m.crossed => Alone(m.to)
        /\ m.crossed /\ job.phase # "reindex" => fs[m.to].ino \notin Known

Unseen(to) == \A p \in DOMAIN fs : IsPrefix(to, p) => fs[p].ino \notin Known
\* What a move finds at its source and at its target.
Ahead ==
    \A m \in Left :
        /\ m.from \in DOMAIN fs /\ Unseen(m.to)
        /\ ~DirCopies /\ m.crossed =>
              \A p \in Below(m.from) : fs[p].ino \notin Known
        /\ ~stranded => \A l \in locations : ~IsPrefix(m.to, l.path)

\* A path that is moved again is gone, or is a file that the index does not know.
Repeated ==
    /\ \A k \in Passed : job.moves[k].to \in DOMAIN fs
    /\ \A m \in Repeats :
          /\ Unseen(m.to)
          /\ ~stranded => \A l \in locations : ~IsPrefix(m.to, l.path)
    /\ Underway => \A m \in Done :
          m.from \in DOMAIN fs => ~fs[m.from].dir /\ fs[m.from].ino \notin Known

\* The moves that are offered have sources of their own.
Offered ==
    job.phase = "confirm" =>
        /\ \A a \in DOMAIN job.moves : HasRow(job.moves[a].from, job.moves[a].item)
        /\ \A a, b \in DOMAIN job.moves :
              job.moves[a].from = job.moves[b].from => a = b
        /\ \A k \in DOMAIN job.links : \A a \in DOMAIN job.links[k] :
              /\ HasRow(job.links[k][a].from, job.links[k][a].item)
              /\ \A b \in DOMAIN job.moves : job.moves[b].from # job.links[k][a].from
        /\ \A k, l \in DOMAIN job.links :
              \A a \in DOMAIN job.links[k], b \in DOMAIN job.links[l] :
                 job.links[k][a].from = job.links[l][b].from => k = l /\ a = b
        /\ job.next = 1 /\ job.moved = <<>>

EditInv == Keyed /\ RefsOK /\ Offered /\ Routed /\ Arrived /\ Ahead /\ Repeated

\* A file that is known by its file_id has the contents of its item.
Honest ==
    \A p \in DOMAIN fs, i \in Items \cap DOMAIN refs :
        fs[p].ino = refs[i] => fs[p].what = i
RowOK(l) ==
    /\ l.path \in DOMAIN fs
    /\ IF l.item \in Items THEN fs[l.path].what = l.item
       ELSE refs[l.item] = fs[l.path].ino
Gone(l) == \E m \in Done : IsPrefix(m.from, l.path)
\* Where the next run of the indexer finds an item, or rebind() will see to it.
Anchored(i) ==
    \/ \E p \in DOMAIN fs :
          /\ fs[p].ino = refs[i]
          /\ HasRow(p, i) \/ \E m \in Done : IsPrefix(m.to, p)
    \/ job.phase # "reindex" /\ \E m \in Done : m.crossed /\ m.item = i
IndexInv ==
    ~stranded =>
        /\ Honest
        /\ \A l \in locations : Gone(l) \/ RowOK(l)
        /\ \A m \in Done : fs[m.to].what = m.item
        /\ ~DirCopies => \A i \in Items : i \in DOMAIN refs /\ Anchored(i)

-----------------------------------------------------------------------------
(* What is offered. *)

\* No two places of a sequence have members with one key.
Differ(s, key) == \A a, b \in DOMAIN s : key[s[a]] = key[s[b]] => a = b

LEMMA ConcatOf ==
    ASSUME NEW M, NEW s \in Seq(M), NEW t \in Seq(M)
    PROVE  LET u == s \o t
           IN  /\ u \in Seq(M) /\ DOMAIN u = 1 .. Len(s) + Len(t)
               /\ \A a \in DOMAIN s : u[a] = s[a]
               /\ \A a \in DOMAIN u :
                     \/ a \in DOMAIN s /\ u[a] = s[a]
                     \/ /\ a \notin DOMAIN s /\ a - Len(s) \in DOMAIN t
                        /\ u[a] = t[a - Len(s)]
  OBVIOUS

LEMMA AsSequence ==
    ASSUME NEW S, NEW n \in Nat, NEW f \in [1 .. n -> S]
    PROVE  f \in Seq(S)
  OBVIOUS

\* Sequences that have no key in common and none twice, put together.
LEMMA FlattenDiffers ==
    ASSUME NEW M, NEW key, NEW ss \in Seq(Seq(M)),
           \A k, l \in DOMAIN ss : \A a \in DOMAIN ss[k], b \in DOMAIN ss[l] :
              key[ss[k][a]] = key[ss[l][b]] => k = l /\ a = b
    PROVE  Differ(FlattenSeq(ss), key)
  <1>1. CASE Len(ss) = 0 /\ FlattenSeq(ss) = <<>>
    BY <1>1 DEF Differ
  <1>2. CASE \E f : /\ Len(ss) \in Nat \ {0} /\ FlattenSeq(ss) = f[Len(ss)]
                    /\ \A i \in 1 .. Len(ss) :
                          /\ f[i] \in Seq(M)
                          /\ f[i] = IF i = 1 THEN ss[i] ELSE f[i - 1] \o ss[i]
    <2> DEFINE n == Len(ss)
               Good(k, s) ==
                  /\ s \in Seq(M) /\ Differ(s, key)
                  /\ \A a \in DOMAIN s : \E j \in 1 .. k : \E b \in DOMAIN ss[j] : s[a] = ss[j][b]
               S == {p \in (0 .. n) \X Seq(M) : Good(p[1], p[2])}
    <2>1. PICK f : /\ n \in Nat \ {0} /\ FlattenSeq(ss) = f[n]
                   /\ \A i \in 1 .. n : /\ f[i] \in Seq(M)
                                        /\ f[i] = IF i = 1 THEN ss[i] ELSE f[i - 1] \o ss[i]
      BY <1>2
    <2> DEFINE g == [k \in 0 .. n |-> IF k = 0 THEN <<0, <<>> >> ELSE <<k, f[k]>>]
    <2>2. DOMAIN ss = 1 .. n /\ \A k \in 1 .. n : ss[k] \in Seq(M)
      OBVIOUS
    <2> HIDE DEF n
    <2>3. g[0] \in S
      <3>1. g[0] = <<0, <<>> >> /\ <<>> \in Seq(M) /\ DOMAIN <<>> = {}
        BY <2>1
      <3> HIDE DEF g
      <3>2. Good(0, <<>>)
        BY <3>1 DEF Differ
      <3> DEFINE e == <<>>
      <3>3. e \in Seq(M) /\ 0 \in 0 .. n /\ g[0] = <<0, e>> /\ Good(0, e)
        BY <3>1, <3>2, <2>1
      <3> HIDE DEF Good, e
      <3> QED BY <3>3
    <2>4. ASSUME NEW k \in 1 .. n, g[k - 1] \in S PROVE g[k] \in S
      <3> DEFINE s == g[k - 1][2]
                 t == f[k]
      <3>1. k - 1 \in 0 .. n /\ k \in 0 .. n /\ g[k] = <<k, t>> /\ t \in Seq(M)
        BY <2>1
      <3>2. g[k - 1][1] = k - 1
        BY <3>1, <2>1
      <3>3. Good(k - 1, s)
        <4> HIDE DEF g, Good
        <4> QED BY <2>4, <3>2
      <3>4. t = s \o ss[k]
        <4>1. CASE k = 1
          <5>1. s = <<>> /\ t = ss[1] /\ ss[1] \in Seq(M)
            BY <4>1, <2>1, <2>2
          <5> HIDE DEF s, t
          <5> QED BY <5>1, <4>1
        <4>2. CASE k # 1
          <5>1. k - 1 \in 0 .. n /\ k - 1 # 0
            BY <4>2, <2>1
          <5>2. g[k - 1] = <<k - 1, f[k - 1]>>
            BY <5>1
          <5> HIDE DEF g, S, Good
          <5>3. s = f[k - 1]
            BY <5>2
          <5>4. t = f[k - 1] \o ss[k]
            <6> HIDE DEF s
            <6> QED BY <4>2, <2>1
          <5> HIDE DEF s, t
          <5> QED BY <5>3, <5>4
        <4> QED BY <4>1, <4>2
      <3> HIDE DEF s, t, g
      <3>5. ss[k] \in Seq(M) /\ s \in Seq(M)
        BY <2>2, <3>3
      <3>6. DOMAIN s = 1 .. Len(s) /\ Len(s) \in Nat
        BY <3>5
      <3>7. \A a \in DOMAIN t :
               \/ a \in DOMAIN s /\ t[a] = s[a]
               \/ a \notin DOMAIN s /\ a - Len(s) \in DOMAIN ss[k] /\ t[a] = ss[k][a - Len(s)]
        BY <3>4, <3>5, ConcatOf
      <3>8. DOMAIN t \subseteq Int
        BY <3>1
      <3>9. Differ(t, key)
        <4> SUFFICES ASSUME NEW a \in DOMAIN t, NEW b \in DOMAIN t, key[t[a]] = key[t[b]]
                     PROVE  a = b
          BY DEF Differ
        <4>1. CASE a \in DOMAIN s /\ b \in DOMAIN s
          BY <4>1, <3>3, <3>7 DEF Differ
        <4>2. CASE a \notin DOMAIN s /\ b \notin DOMAIN s
          <5>1. key[ss[k][a - Len(s)]] = key[ss[k][b - Len(s)]]
            BY <4>2, <3>7
          <5>2. a - Len(s) \in DOMAIN ss[k] /\ b - Len(s) \in DOMAIN ss[k]
            BY <4>2, <3>7
          <5>3. a - Len(s) = b - Len(s)
            BY <5>1, <5>2, <2>2
          <5> QED BY <5>3, <3>6, <3>8
        <4>3. ASSUME NEW c \in DOMAIN t, NEW d \in DOMAIN t, c \in DOMAIN s, d \notin DOMAIN s,
                     key[t[c]] = key[t[d]]
              PROVE  FALSE
          <5>1. PICK j \in 1 .. k - 1 : \E e \in DOMAIN ss[j] : s[c] = ss[j][e]
            BY <4>3, <3>3
          <5>2. PICK e \in DOMAIN ss[j] : s[c] = ss[j][e]
            BY <5>1
          <5>3. key[ss[j][e]] = key[ss[k][d - Len(s)]] /\ d - Len(s) \in DOMAIN ss[k]
            <6>1. d - Len(s) \in DOMAIN ss[k] /\ t[d] = ss[k][d - Len(s)]
              BY <4>3, <3>7
            <6>2. t[c] = ss[j][e]
              BY <4>3, <5>2, <3>7
            <6> QED BY <4>3, <6>1, <6>2
          <5>4. j \in 1 .. n /\ j # k
            BY <5>1, <2>1
          <5> QED BY <5>3, <5>4, <2>2
        <4> QED BY <4>1, <4>2, <4>3
      <3>10. \A a \in DOMAIN t : \E j \in 1 .. k : \E b \in DOMAIN ss[j] : t[a] = ss[j][b]
        <4> SUFFICES ASSUME NEW a \in DOMAIN t
                     PROVE  \E j \in 1 .. k : \E b \in DOMAIN ss[j] : t[a] = ss[j][b]
          OBVIOUS
        <4>1. CASE a \in DOMAIN s
          <5>1. PICK j \in 1 .. k - 1 : \E b \in DOMAIN ss[j] : s[a] = ss[j][b]
            BY <4>1, <3>3
          <5>2. j \in 1 .. k
            BY <5>1
          <5> QED BY <5>1, <5>2, <4>1, <3>7
        <4>2. CASE a \notin DOMAIN s
          <5>1. k \in 1 .. k
            OBVIOUS
          <5> QED BY <5>1, <4>2, <3>7
        <4> QED BY <4>1, <4>2
      <3>11. Good(k, t)
        BY <3>1, <3>9, <3>10
      <3> HIDE DEF Good
      <3> QED BY <3>1, <3>11
    <2>5. \A k \in 0 .. n : g[k] \in S
      <3> HIDE DEF g, S
      <3> QED BY <2>1, <2>3, <2>4, StaysIn
    <2>6. g[n] = <<n, f[n]>> /\ n \in 0 .. n
      BY <2>1
    <2>7. Good(n, f[n])
      <3>1. g[n] \in S
        BY <2>5, <2>6
      <3> HIDE DEF g, Good
      <3> QED BY <3>1, <2>6
    <2> QED BY <2>7, <2>1
  <1> QED BY <1>1, <1>2, FlattenSteps

LEMMA PathsAreRows ==
    ASSUME NEW i, NEW p
    PROVE  p \in PathsOf(i) <=> HasRow(p, i)
  BY DEF PathsOf, HasRow

LEMMA MovesAre ==
    ASSUME NEW i, NEW from, NEW nodes
    PROVE  LET s == Moves(i, from, nodes)
           IN  \A a \in DOMAIN s : a = 1 /\ s[a].item = i /\ s[a].from = from
  <1>1. Moves(i, from, nodes) = <<>> \/ \E m : Moves(i, from, nodes) = <<m>> /\ m.item = i /\ m.from = from
    BY DEF Moves
  <1>2. CASE Moves(i, from, nodes) = <<>>
    BY <1>2
  <1>3. ASSUME NEW m, Moves(i, from, nodes) = <<m>>, m.item = i, m.from = from
        PROVE  \A a \in DOMAIN Moves(i, from, nodes) :
                  a = 1 /\ Moves(i, from, nodes)[a].item = i /\ Moves(i, from, nodes)[a].from = from
    BY <1>3
  <1> QED BY <1>1, <1>2, <1>3

\* The move of an item with one path.
LEMMA PlannedMovesAre ==
    ASSUME NEW e
    PROVE  LET s == PlannedMoves(e)
           IN  \A a \in DOMAIN s :
                  /\ a = 1 /\ s[a].item = e.item /\ HasRow(s[a].from, e.item)
                  /\ ~HasLinks(e.item, e.nodes)
  <1>1. CASE PathsOf(e.item) = {} \/ HasLinks(e.item, e.nodes)
    <2>1. PlannedMoves(e) = <<>> /\ DOMAIN <<>> = {}
      BY <1>1 DEF PlannedMoves
    <2> QED BY <2>1
  <1>2. CASE ~(PathsOf(e.item) = {} \/ HasLinks(e.item, e.nodes))
    <2>1. PlannedMoves(e) = Moves(e.item, Place(e.item), e.nodes)
      BY <1>2 DEF PlannedMoves
    <2>2. HasRow(Place(e.item), e.item)
      BY <1>2, PathsAreRows DEF Place
    <2> QED BY <2>1, <2>2, <1>2, MovesAre
  <1> QED BY <1>1, <1>2

\* The moves of an item with several.
LinkMoves(i) == {m \in Ready : m.item = i /\ HasRow(m.from, i)}
LEMMA CandidatesAre ==
    ASSUME LocationsOK, NEW e \in [item : Items, nodes : Seq(Nodes)], ~IssueFor(e)
    PROVE  LET ss == Candidates(e)
           IN  \A k \in DOMAIN ss :
                  /\ k = 1 /\ HasLinks(e.item, e.nodes)
                  /\ ss[k] \in Seq(LinkMoves(e.item)) /\ ss[k] # <<>>
                  /\ \A a, b \in DOMAIN ss[k] : ss[k][a].from = ss[k][b].from => a = b
  <1> DEFINE paths == SetToSeq(PathsOf(e.item))
             each == [k \in DOMAIN paths |-> Moves(e.item, paths[k], e.nodes)]
             moves == FlattenSeq(each)
             M == LinkMoves(e.item)
             key == [m \in M |-> m.from]
  <1>1. /\ \E n \in Nat : DOMAIN paths = 1 .. n
        /\ \A k \in DOMAIN paths : paths[k] \in PathsOf(e.item)
        /\ \A k, l \in DOMAIN paths : paths[k] = paths[l] => k = l
    <2>1. IsFiniteSet(PathsOf(e.item))
      BY PathsOfType
    <2>2. /\ Cardinality(PathsOf(e.item)) \in Nat
          /\ paths \in [1 .. Cardinality(PathsOf(e.item)) -> PathsOf(e.item)]
          /\ DOMAIN paths = 1 .. Cardinality(PathsOf(e.item))
          /\ \A k, l \in 1 .. Cardinality(PathsOf(e.item)) : paths[k] = paths[l] => k = l
      BY <2>1, SetToSeqIs
    <2> HIDE DEF paths
    <2> QED BY <2>2
  <1> HIDE DEF paths
  <1>2. CASE ~HasLinks(e.item, e.nodes) \/ moves = <<>>
    <2>1. Candidates(e) = <<>> /\ DOMAIN <<>> = {}
      BY <1>2 DEF Candidates, paths
    <2> QED BY <2>1
  <1>3. CASE HasLinks(e.item, e.nodes) /\ moves # <<>>
    <2>1. \A k \in DOMAIN paths : Moves(e.item, paths[k], e.nodes) \in Seq(M)
      <3> SUFFICES ASSUME NEW k \in DOMAIN paths
                   PROVE  Moves(e.item, paths[k], e.nodes) \in Seq(M)
        OBVIOUS
      <3> DEFINE s == Moves(e.item, paths[k], e.nodes)
      <3>1. paths[k] \in Paths /\ ~Fatal(paths[k], e.nodes) /\ HasRow(paths[k], e.item)
        BY <1>1, <1>3, PathsOfType, PathsAreRows DEF IssueFor
      <3>2. s \in Seq(Ready)
        BY <3>1, MovesType, FitIsReady
      <3>3. \A a \in DOMAIN s : s[a].item = e.item /\ s[a].from = paths[k]
        BY MovesAre
      <3> HIDE DEF s
      <3>4. \A a \in DOMAIN s : s[a] \in M
        BY <3>1, <3>2, <3>3 DEF LinkMoves
      <3> HIDE DEF M
      <3>5. s \in Seq(M)
        BY <3>2, <3>4
      <3> QED BY <3>5 DEF s
    <2>2. each \in Seq(Seq(M))
      <3> HIDE DEF M
      <3>1. each \in [DOMAIN paths -> Seq(M)]
        BY <2>1
      <3> HIDE DEF each
      <3> QED BY <3>1, <1>1
    <2>3. \A k, l \in DOMAIN each : \A a \in DOMAIN each[k], b \in DOMAIN each[l] :
             key[each[k][a]] = key[each[l][b]] => k = l /\ a = b
      <3> SUFFICES ASSUME NEW k \in DOMAIN each, NEW l \in DOMAIN each,
                          NEW a \in DOMAIN each[k], NEW b \in DOMAIN each[l],
                          key[each[k][a]] = key[each[l][b]]
                   PROVE  k = l /\ a = b
        OBVIOUS
      <3>1. k \in DOMAIN paths /\ l \in DOMAIN paths
            /\ each[k] = Moves(e.item, paths[k], e.nodes) /\ each[l] = Moves(e.item, paths[l], e.nodes)
        OBVIOUS
      <3>2. a = 1 /\ each[k][a].from = paths[k] /\ b = 1 /\ each[l][b].from = paths[l]
        <4> HIDE DEF each, M
        <4> QED BY <3>1, MovesAre
      <3>3. each[k][a] \in M /\ each[l][b] \in M
        <4> HIDE DEF each, M
        <4> QED BY <2>2
      <3> HIDE DEF each, M
      <3>4. paths[k] = paths[l]
        BY <3>2, <3>3
      <3> QED BY <3>1, <3>2, <3>4, <1>1
    <2> HIDE DEF each, key
    <2>4. Differ(moves, key)
      BY <2>2, <2>3, FlattenDiffers
    <2>5. moves \in Seq(M)
      BY <2>2, FlattenType
    <2>6. Candidates(e) = <<moves>>
      BY <1>3 DEF Candidates, each, paths
    <2> HIDE DEF moves
    <2>7. \A a, b \in DOMAIN moves : moves[a].from = moves[b].from => a = b
      <3>1. \A a \in DOMAIN moves : moves[a] \in M
        BY <2>5
      <3> QED BY <3>1, <2>4 DEF Differ, key
    <2>8. DOMAIN Candidates(e) = {1} /\ Candidates(e)[1] = moves
      BY <2>6
    <2> QED BY <2>5, <2>7, <2>8, <1>3
  <1> QED BY <1>2, <1>3

\* The moves of a plan and the links that are asked about have different sources.
LEMMA PlannedApart ==
    ASSUME LocationsOK, Keyed,
           NEW edits \in Seq([item : Items, nodes : Seq(Nodes)]),
           \A k, l \in DOMAIN edits : k # l => edits[k].item # edits[l].item,
           \A k \in DOMAIN edits : ~IssueFor(edits[k])
    PROVE  LET moves == Each(PlannedMoves, edits)
               links == Each(Candidates, edits)
           IN  /\ \A a \in DOMAIN moves : HasRow(moves[a].from, moves[a].item)
               /\ \A a, b \in DOMAIN moves : moves[a].from = moves[b].from => a = b
               /\ \A k \in DOMAIN links : \A a \in DOMAIN links[k] :
                     /\ HasRow(links[k][a].from, links[k][a].item)
                     /\ \A b \in DOMAIN moves : moves[b].from # links[k][a].from
               /\ \A k, l \in DOMAIN links :
                     \A a \in DOMAIN links[k], b \in DOMAIN links[l] :
                        links[k][a].from = links[l][b].from => k = l /\ a = b
  <1> DEFINE planned == [k \in DOMAIN edits |-> PlannedMoves(edits[k])]
             offers == [k \in DOMAIN edits |-> Candidates(edits[k])]
             moves == FlattenSeq(planned)
             links == FlattenSeq(offers)
             Single(i) == \E k \in DOMAIN edits :
                             edits[k].item = i /\ ~HasLinks(i, edits[k].nodes)
             Several(i) == \E k \in DOMAIN edits :
                             edits[k].item = i /\ HasLinks(i, edits[k].nodes)
             M == {m \in Ready : HasRow(m.from, m.item) /\ Single(m.item)}
             L == {s \in Seq(Ready) :
                     /\ s # <<>>
                     /\ \A a, b \in DOMAIN s : s[a].from = s[b].from => a = b
                     /\ \A a \in DOMAIN s : /\ HasRow(s[a].from, s[a].item)
                                            /\ Several(s[a].item)
                                            /\ s[a].item = s[1].item}
             item == [m \in M |-> m.item]
             itemOf == [s \in L |-> s[1].item]
  <1>1. /\ \A k \in DOMAIN edits : edits[k] \in [item : Items, nodes : Seq(Nodes)]
        /\ Len(edits) \in Nat /\ DOMAIN edits = 1 .. Len(edits)
    <2> DEFINE E == [item : Items, nodes : Seq(Nodes)]
    <2> HIDE DEF E
    <2>1. edits \in Seq(E)
      BY DEF E
    <2>2. \A k \in DOMAIN edits : edits[k] \in E
      BY <2>1
    <2> QED BY <2>1, <2>2 DEF E
  <1>2. \A i : ~(Single(i) /\ Several(i))
    OBVIOUS
  <1>3. \A p, i, j : HasRow(p, i) /\ HasRow(p, j) => i = j
    BY DEF HasRow, Keyed
  <1>4. \A k \in DOMAIN edits : PlannedMoves(edits[k]) \in Seq(M)
    <2> SUFFICES ASSUME NEW k \in DOMAIN edits PROVE PlannedMoves(edits[k]) \in Seq(M)
      OBVIOUS
    <2> DEFINE s == PlannedMoves(edits[k])
    <2>1. s \in Seq(Ready)
      BY <1>1, PlannedMovesType, FitIsReady
    <2>2. \A a \in DOMAIN s : /\ s[a].item = edits[k].item /\ HasRow(s[a].from, edits[k].item)
                              /\ ~HasLinks(edits[k].item, edits[k].nodes)
      BY PlannedMovesAre
    <2> HIDE DEF s
    <2>3. \A a \in DOMAIN s : s[a] \in M
      <3> SUFFICES ASSUME NEW a \in DOMAIN s PROVE s[a] \in M
        OBVIOUS
      <3>1. Single(s[a].item)
        BY <2>2
      <3> HIDE DEF Single
      <3> QED BY <3>1, <2>1, <2>2
    <2> HIDE DEF M
    <2>4. s \in Seq(M)
      BY <2>1, <2>3
    <2> QED BY <2>4 DEF s
  <1>5. \A k \in DOMAIN edits : Candidates(edits[k]) \in Seq(L)
    <2> SUFFICES ASSUME NEW k \in DOMAIN edits PROVE Candidates(edits[k]) \in Seq(L)
      OBVIOUS
    <2> DEFINE ss == Candidates(edits[k])
               e == edits[k]
    <2>1. ss \in Seq(Seq(Ready))
      BY <1>1, CandidatesType, FitIsReady
    <2>2. \A b \in DOMAIN ss :
             /\ HasLinks(e.item, e.nodes) /\ ss[b] \in Seq(LinkMoves(e.item)) /\ ss[b] # <<>>
             /\ \A c, d \in DOMAIN ss[b] : ss[b][c].from = ss[b][d].from => c = d
      BY <1>1, CandidatesAre
    <2> HIDE DEF ss
    <2>3. ASSUME NEW b \in DOMAIN ss PROVE ss[b] \in L
      <3> DEFINE s == ss[b]
      <3>1. /\ s \in Seq(Ready) /\ s # <<>> /\ s \in Seq(LinkMoves(e.item))
            /\ \A c, d \in DOMAIN s : s[c].from = s[d].from => c = d
        BY <2>1, <2>2
      <3> HIDE DEF s
      <3>2. \A c \in DOMAIN s : s[c].item = e.item /\ HasRow(s[c].from, e.item)
        BY <3>1 DEF LinkMoves
      <3>3. 1 \in DOMAIN s
        BY <3>1
      <3>4. Several(e.item)
        BY <2>2
      <3> HIDE DEF Several, e
      <3>5. s \in L
        BY <3>1, <3>2, <3>3, <3>4
      <3> QED BY <3>5 DEF s
    <2> HIDE DEF L
    <2>4. ss \in Seq(L)
      BY <2>1, <2>3
    <2> QED BY <2>4 DEF ss
  <1>6. /\ planned \in Seq(Seq(M)) /\ DOMAIN planned = DOMAIN edits
        /\ offers \in Seq(Seq(L)) /\ DOMAIN offers = DOMAIN edits
    <2> HIDE DEF M, L
    <2>1. planned \in [DOMAIN edits -> Seq(M)]
      BY <1>4
    <2>2. offers \in [DOMAIN edits -> Seq(L)]
      BY <1>5
    <2> HIDE DEF planned, offers
    <2>3. planned \in Seq(Seq(M))
      BY <2>1, <1>1, AsSequence
    <2>4. offers \in Seq(Seq(L))
      BY <2>2, <1>1, AsSequence
    <2>5. DOMAIN planned = DOMAIN edits /\ DOMAIN offers = DOMAIN edits
      BY <2>1, <2>2
    <2> QED BY <2>3, <2>4, <2>5
  <1>7. \A k, l \in DOMAIN planned : \A a \in DOMAIN planned[k], b \in DOMAIN planned[l] :
           item[planned[k][a]] = item[planned[l][b]] => k = l /\ a = b
    <2> HIDE DEF M, L, item, itemOf, Single, Several
    <2> SUFFICES ASSUME NEW k \in DOMAIN edits, NEW l \in DOMAIN edits,
                        NEW a \in DOMAIN PlannedMoves(edits[k]),
                        NEW b \in DOMAIN PlannedMoves(edits[l]),
                        item[PlannedMoves(edits[k])[a]] = item[PlannedMoves(edits[l])[b]]
                 PROVE  k = l /\ a = b
      BY <1>6
    <2>1. /\ a = 1 /\ PlannedMoves(edits[k])[a].item = edits[k].item
          /\ b = 1 /\ PlannedMoves(edits[l])[b].item = edits[l].item
      BY PlannedMovesAre
    <2>2. PlannedMoves(edits[k])[a] \in M /\ PlannedMoves(edits[l])[b] \in M
      BY <1>4
    <2>3. edits[k].item = edits[l].item
      BY <2>1, <2>2 DEF item
    <2> QED BY <2>1, <2>3
  <1>8. \A k, l \in DOMAIN offers : \A a \in DOMAIN offers[k], b \in DOMAIN offers[l] :
           itemOf[offers[k][a]] = itemOf[offers[l][b]] => k = l /\ a = b
    <2> HIDE DEF M, L, item, itemOf, Single, Several
    <2> SUFFICES ASSUME NEW k \in DOMAIN edits, NEW l \in DOMAIN edits,
                        NEW a \in DOMAIN Candidates(edits[k]),
                        NEW b \in DOMAIN Candidates(edits[l]),
                        itemOf[Candidates(edits[k])[a]] = itemOf[Candidates(edits[l])[b]]
                 PROVE  k = l /\ a = b
      BY <1>6
    <2>1. /\ a = 1 /\ Candidates(edits[k])[a] \in Seq(LinkMoves(edits[k].item))
          /\ b = 1 /\ Candidates(edits[l])[b] \in Seq(LinkMoves(edits[l].item))
      BY <1>1, CandidatesAre
    <2>2. Candidates(edits[k])[a] \in L /\ Candidates(edits[l])[b] \in L
      BY <1>5
    <2>3. /\ 1 \in DOMAIN Candidates(edits[k])[a]
          /\ 1 \in DOMAIN Candidates(edits[l])[b]
      BY <2>2 DEF L
    <2>4. /\ Candidates(edits[k])[a][1].item = edits[k].item
          /\ Candidates(edits[l])[b][1].item = edits[l].item
      BY <2>1, <2>3 DEF LinkMoves
    <2>5. edits[k].item = edits[l].item
      BY <2>2, <2>4 DEF itemOf
    <2> QED BY <2>1, <2>5
  <1> HIDE DEF planned, offers, item, itemOf
  <1>9. /\ moves \in Seq(M) /\ links \in Seq(L)
        /\ Differ(moves, item) /\ Differ(links, itemOf)
    <2> HIDE DEF M, L, Single, Several
    <2>1. moves \in Seq(M) /\ links \in Seq(L)
      BY <1>6, FlattenType
    <2>2. Differ(moves, item)
      <3>1. planned \in Seq(Seq(M))
        BY <1>6
      <3> QED BY <3>1, <1>7, FlattenDiffers
    <2>3. Differ(links, itemOf)
      <3>1. offers \in Seq(Seq(L))
        BY <1>6
      <3> QED BY <3>1, <1>8, FlattenDiffers
    <2> QED BY <2>1, <2>2, <2>3
  <1>10. Each(PlannedMoves, edits) = moves /\ Each(Candidates, edits) = links
    BY DEF Each, planned, offers
  <1> HIDE DEF moves, links
  <1>11. /\ \A a \in DOMAIN moves : moves[a] \in M
         /\ \A k \in DOMAIN links : links[k] \in L
    <2> HIDE DEF M, L
    <2> QED BY <1>9
  <1>12. \A a \in DOMAIN moves : HasRow(moves[a].from, moves[a].item) /\ Single(moves[a].item)
    BY <1>11
  <1>13. \A k \in DOMAIN links : \A a, b \in DOMAIN links[k] :
            /\ HasRow(links[k][a].from, links[k][a].item) /\ Several(links[k][a].item)
            /\ links[k][a].item = links[k][1].item
            /\ links[k][a].from = links[k][b].from => a = b
    BY <1>11
  <1> HIDE DEF Single, Several
  <1>14. \A a, b \in DOMAIN moves : moves[a].from = moves[b].from => a = b
    <2> SUFFICES ASSUME NEW a \in DOMAIN moves, NEW b \in DOMAIN moves,
                        moves[a].from = moves[b].from
                 PROVE  a = b
      OBVIOUS
    <2>1. moves[a].item = moves[b].item
      BY <1>3, <1>12
    <2>2. moves[a] \in M /\ moves[b] \in M
      BY <1>11
    <2> HIDE DEF M
    <2>3. item[moves[a]] = item[moves[b]]
      BY <2>1, <2>2 DEF item
    <2> QED BY <2>3, <1>9 DEF Differ
  <1>15. \A k \in DOMAIN links : \A a \in DOMAIN links[k] :
            \A b \in DOMAIN moves : moves[b].from # links[k][a].from
    <2> SUFFICES ASSUME NEW k \in DOMAIN links, NEW a \in DOMAIN links[k],
                        NEW b \in DOMAIN moves, moves[b].from = links[k][a].from
                 PROVE  FALSE
      OBVIOUS
    <2>1. HasRow(moves[b].from, moves[b].item) /\ Single(moves[b].item)
      BY <1>12
    <2>2. HasRow(moves[b].from, links[k][a].item) /\ Several(links[k][a].item)
      BY <1>13
    <2>3. moves[b].item = links[k][a].item
      BY <2>1, <2>2, <1>3
    <2> QED BY <2>1, <2>2, <2>3, <1>2
  <1>16. \A k, l \in DOMAIN links : \A a \in DOMAIN links[k], b \in DOMAIN links[l] :
            links[k][a].from = links[l][b].from => k = l /\ a = b
    <2> SUFFICES ASSUME NEW k \in DOMAIN links, NEW l \in DOMAIN links,
                        NEW a \in DOMAIN links[k], NEW b \in DOMAIN links[l],
                        links[k][a].from = links[l][b].from
                 PROVE  k = l /\ a = b
      OBVIOUS
    <2>1. links[k][a].item = links[l][b].item
      BY <1>3, <1>13
    <2>2. links[k][1].item = links[l][1].item
      BY <2>1, <1>13
    <2>3. links[k] \in L /\ links[l] \in L
      BY <1>11
    <2> HIDE DEF L
    <2>4. itemOf[links[k]] = itemOf[links[l]]
      BY <2>2, <2>3 DEF itemOf
    <2>5. k = l
      BY <2>4, <1>9 DEF Differ
    <2> QED BY <2>5, <1>13
  <1> QED BY <1>10, <1>12, <1>13, <1>14, <1>15, <1>16

-----------------------------------------------------------------------------
(* What is confirmed. *)

LEMMA SerialStays ==
    ASSUME NEW to \in Paths, NEW reserved, NEW p \in SerialPaths(to, reserved)
    PROVE  p \in Paths /\ p \notin DOMAIN fs /\ p \notin reserved /\ Parent(p) = Parent(to)
  <1>1. /\ p \in Paths /\ p \notin DOMAIN fs /\ p \notin reserved
        /\ Len(p) = Len(to) /\ \A k \in 1 .. Len(to) - 1 : p[k] = to[k]
    BY SerialIsFree
  <1>2. /\ Parent(p) \in Seq(Names) /\ Len(Parent(p)) = Len(p) - 1
        /\ \A k \in 1 .. Len(p) - 1 : Parent(p)[k] = p[k]
    BY <1>1, ParentType
  <1>3. /\ Parent(to) \in Seq(Names) /\ Len(Parent(to)) = Len(to) - 1
        /\ \A k \in 1 .. Len(to) - 1 : Parent(to)[k] = to[k]
    BY ParentType
  <1> HIDE DEF Parent
  <1>4. \A k \in 1 .. Len(Parent(p)) : Parent(p)[k] = Parent(to)[k]
    BY <1>1, <1>2, <1>3
  <1>5. Parent(p) = Parent(to)
    BY <1>1, <1>2, <1>3, <1>4, SamePath
  <1> QED BY <1>1, <1>5

\* One question: the move is taken, to its place or to another in the same
\* directory, or it is not.
LEMMA SettledIs ==
    ASSUME NEW acc \in Accepted, NEW m \in Ready, NEW answer
    PROVE  LET b == Settled(acc, m, answer)
           IN  \/ \E to \in Paths :
                     /\ Parent(to) = Parent(m.to)
                     /\ b.moves = Append(acc.moves, [m EXCEPT !.to = to])
                     /\ b.reserved = acc.reserved \cup {to} /\ b.bound = acc.bound
               \/ /\ Conflicts(m.to, acc.reserved)
                  /\ b.moves = acc.moves /\ b.reserved = acc.reserved /\ b.bound = acc.bound
               \/ b.moves = acc.moves /\ b.reserved = acc.reserved /\ b.bound
  <1> DEFINE serial == SerialPaths(m.to, acc.reserved)
             other == CHOOSE to \in serial : TRUE
             With(to) == [acc EXCEPT !.moves = Append(@, [m EXCEPT !.to = to]),
                                     !.reserved = @ \cup {to}]
  <1>1. m.to \in Paths
    BY DEF Ready, PlannedMove
  <1>2. acc \in [moves : Seq(PlannedMove), reserved : SUBSET Paths,
                 skipped : SUBSET Items, bound : BOOLEAN]
    BY DEF Accepted
  <1>3. ASSUME NEW to
        PROVE  /\ With(to).moves = Append(acc.moves, [m EXCEPT !.to = to])
               /\ With(to).reserved = acc.reserved \cup {to} /\ With(to).bound = acc.bound
    BY <1>2
  <1>4. CASE ~Conflicts(m.to, acc.reserved)
    <2>1. Settled(acc, m, answer) = With(m.to)
      BY <1>4 DEF Settled
    <2> HIDE DEF With
    <2> QED BY <2>1, <1>1, <1>3
  <1>5. CASE Conflicts(m.to, acc.reserved) /\ answer = "skip"
    <2> DEFINE b == [acc EXCEPT !.skipped = @ \cup {m.item}]
    <2>1. Settled(acc, m, answer) = b
      BY <1>5 DEF Settled
    <2>2. b.moves = acc.moves /\ b.reserved = acc.reserved /\ b.bound = acc.bound
      BY <1>2
    <2> HIDE DEF b
    <2> QED BY <2>1, <2>2, <1>5
  <1>6. CASE Conflicts(m.to, acc.reserved) /\ answer # "skip" /\ serial = {}
    <2> DEFINE b == [acc EXCEPT !.bound = TRUE]
    <2>1. Settled(acc, m, answer) = b
      BY <1>6 DEF Settled
    <2>2. b.moves = acc.moves /\ b.reserved = acc.reserved /\ b.bound
      BY <1>2
    <2> HIDE DEF b
    <2> QED BY <2>1, <2>2
  <1>7. CASE Conflicts(m.to, acc.reserved) /\ answer # "skip" /\ serial # {}
    <2>1. other \in serial
      BY <1>7
    <2>2. Settled(acc, m, answer) = With(other)
      BY <1>7 DEF Settled
    <2>3. other \in Paths /\ Parent(other) = Parent(m.to)
      <3> HIDE DEF other
      <3> QED BY <2>1, <1>1, SerialStays
    <2> HIDE DEF With, other
    <2> QED BY <2>2, <2>3, <1>3
  <1> QED BY <1>4, <1>5, <1>6, <1>7

\* After k questions.
Descends(m, o) ==
    /\ m.item = o.item /\ m.from = o.from /\ m.crossed = o.crossed
    /\ Parent(m.to) = Parent(o.to)
Settling(moves, k, acc) ==
    /\ \A c \in DOMAIN acc.moves : \E j \in 1 .. k : Descends(acc.moves[c], moves[j])
    /\ \A c, d \in DOMAIN acc.moves :
          acc.moves[c].from = acc.moves[d].from => Alike(acc.moves[c], acc.moves[d])
    /\ \A to \in acc.reserved : \E c \in DOMAIN acc.moves : acc.moves[c].to = to
    /\ acc.bound \/ \A j \in 1 .. k :
          \/ Exists(moves[j].to)
          \/ \E c \in DOMAIN acc.moves : Parent(acc.moves[c].to) = Parent(moves[j].to)

LEMMA SettledKeeps ==
    ASSUME FsOK, NEW moves \in Seq(Ready), NEW k \in 1 .. Len(moves),
           \A a, b \in DOMAIN moves : moves[a].from = moves[b].from => moves[a] = moves[b],
           NEW acc \in Accepted, Settling(moves, k - 1, acc), NEW answer
    PROVE  Settling(moves, k, Settled(acc, moves[k], answer))
  <1> DEFINE m == moves[k]
             b == Settled(acc, m, answer)
  <1>1. m \in Ready /\ k \in DOMAIN moves /\ k \in Nat /\ \A j \in 1 .. k - 1 : j \in DOMAIN moves
    OBVIOUS
  <1>2. acc.moves \in Seq(PlannedMove)
    BY DEF Accepted
  <1>3. m \in [item : Items, from : Paths, to : Paths, crossed : BOOLEAN]
    BY <1>1 DEF Ready, PlannedMove
  <1>4. \/ \E to \in Paths :
              /\ Parent(to) = Parent(m.to)
              /\ b.moves = Append(acc.moves, [m EXCEPT !.to = to])
              /\ b.reserved = acc.reserved \cup {to} /\ b.bound = acc.bound
        \/ /\ Conflicts(m.to, acc.reserved)
           /\ b.moves = acc.moves /\ b.reserved = acc.reserved /\ b.bound = acc.bound
        \/ b.moves = acc.moves /\ b.reserved = acc.reserved /\ b.bound
    BY <1>1, SettledIs
  <1> HIDE DEF b, m
  <1>5. /\ \A c \in DOMAIN acc.moves : \E j \in 1 .. k - 1 : Descends(acc.moves[c], moves[j])
        /\ \A c, d \in DOMAIN acc.moves :
              acc.moves[c].from = acc.moves[d].from => Alike(acc.moves[c], acc.moves[d])
        /\ \A to \in acc.reserved : \E c \in DOMAIN acc.moves : acc.moves[c].to = to
        /\ acc.bound \/ \A j \in 1 .. k - 1 :
              \/ Exists(moves[j].to)
              \/ \E c \in DOMAIN acc.moves : Parent(acc.moves[c].to) = Parent(moves[j].to)
    BY DEF Settling
  <1>6. \A j : j \in 1 .. k <=> j \in 1 .. k - 1 \/ j = k
    BY <1>1
  <1>7. ASSUME NEW to \in Paths, Parent(to) = Parent(m.to),
               b.moves = Append(acc.moves, [m EXCEPT !.to = to]),
               b.reserved = acc.reserved \cup {to}, b.bound = acc.bound
        PROVE  Settling(moves, k, b)
    <2> DEFINE new == [m EXCEPT !.to = to]
               s == acc.moves
               t == b.moves
               n == Len(s) + 1
               M == [item : Items, from : Paths, to : Paths, crossed : BOOLEAN]
    <2>1. /\ new \in M /\ new.item = m.item /\ new.from = m.from /\ new.crossed = m.crossed
          /\ new.to = to
      BY <1>3
    <2> HIDE DEF new
    <2>2. /\ DOMAIN t = DOMAIN s \cup {n} /\ t[n] = new /\ n \notin DOMAIN s
          /\ \A c \in DOMAIN s : t[c] = s[c]
      <3>1. s \in Seq(M)
        <4>1. PlannedMove \subseteq M
          BY DEF PlannedMove
        <4> HIDE DEF M
        <4> QED BY <4>1, <1>2
      <3>2. t = Append(s, new)
        BY <1>7 DEF new
      <3> HIDE DEF s, t, M
      <3> QED BY <3>1, <3>2, <2>1, AppendIs
    <2>3. Descends(new, m)
      BY <2>1, <1>7 DEF Descends
    <2> HIDE DEF s, t, n, M
    <2>4. \A c \in DOMAIN t : \E j \in 1 .. k : Descends(t[c], moves[j])
      BY <2>2, <2>3, <1>5, <1>6 DEF m, s
    <2>5. \A c \in DOMAIN s : t[c].from = new.from => Alike(t[c], new)
      <3> SUFFICES ASSUME NEW c \in DOMAIN s, t[c].from = new.from
                   PROVE  Alike(t[c], new)
        OBVIOUS
      <3>1. PICK j \in 1 .. k - 1 : Descends(s[c], moves[j])
        BY <1>5 DEF s
      <3>2. moves[j].from = moves[k].from
        BY <3>1, <2>1, <2>2 DEF Descends, m
      <3>3. moves[j] = m
        BY <3>2, <1>1 DEF m
      <3> QED BY <3>1, <3>3, <2>1, <2>2 DEF Descends, Alike
    <2>6. \A c, d \in DOMAIN t : t[c].from = t[d].from => Alike(t[c], t[d])
      BY <2>2, <2>5, <1>5 DEF s, Alike
    <2>7. \A q \in b.reserved : \E c \in DOMAIN t : t[c].to = q
      BY <2>1, <2>2, <1>5, <1>7 DEF s
    <2>8. b.bound \/ \A j \in 1 .. k :
             \/ Exists(moves[j].to)
             \/ \E c \in DOMAIN t : Parent(t[c].to) = Parent(moves[j].to)
      <3> SUFFICES ASSUME ~b.bound, NEW j \in 1 .. k, ~Exists(moves[j].to)
                   PROVE  \E c \in DOMAIN t : Parent(t[c].to) = Parent(moves[j].to)
        OBVIOUS
      <3>1. CASE j = k
        BY <3>1, <2>2, <2>3 DEF Descends, m
      <3>2. CASE j # k
        <4>1. \E c \in DOMAIN s : Parent(s[c].to) = Parent(moves[j].to)
          BY <3>2, <1>5, <1>6, <1>7 DEF s
        <4> QED BY <4>1, <2>2
      <3> QED BY <3>1, <3>2
    <2> QED BY <2>4, <2>6, <2>7, <2>8 DEF Settling, t
  <1>8. ASSUME b.moves = acc.moves, b.reserved = acc.reserved,
               b.bound \/ (b.bound = acc.bound /\ Conflicts(m.to, acc.reserved))
        PROVE  Settling(moves, k, b)
    <2>1. \A c \in DOMAIN b.moves : \E j \in 1 .. k : Descends(b.moves[c], moves[j])
      BY <1>5, <1>6, <1>8
    <2>2. b.bound \/ \A j \in 1 .. k :
             \/ Exists(moves[j].to)
             \/ \E c \in DOMAIN b.moves : Parent(b.moves[c].to) = Parent(moves[j].to)
      <3> SUFFICES ASSUME ~b.bound, NEW j \in 1 .. k, ~Exists(moves[j].to)
                   PROVE  \E c \in DOMAIN b.moves : Parent(b.moves[c].to) = Parent(moves[j].to)
        OBVIOUS
      <3>1. CASE j = k
        <4>1. m.to \in acc.reserved
          BY <3>1, <1>8 DEF Conflicts, m
        <4> QED BY <4>1, <3>1, <1>5, <1>8 DEF m
      <3>2. CASE j # k
        BY <3>2, <1>5, <1>6, <1>8
      <3> QED BY <3>1, <3>2
    <2> QED BY <2>1, <2>2, <1>5, <1>8 DEF Settling
  <1>9. Settling(moves, k, b)
    <2>1. CASE \E to \in Paths :
                  /\ Parent(to) = Parent(m.to)
                  /\ b.moves = Append(acc.moves, [m EXCEPT !.to = to])
                  /\ b.reserved = acc.reserved \cup {to} /\ b.bound = acc.bound
      BY <2>1, <1>7
    <2>2. CASE /\ Conflicts(m.to, acc.reserved)
               /\ b.moves = acc.moves /\ b.reserved = acc.reserved /\ b.bound = acc.bound
      BY <2>2, <1>8
    <2>3. CASE b.moves = acc.moves /\ b.reserved = acc.reserved /\ b.bound
      <3>1. b.bound \/ (b.bound = acc.bound /\ Conflicts(m.to, acc.reserved))
        BY <2>3
      <3>2. b.moves = acc.moves
        BY <2>3
      <3>3. b.reserved = acc.reserved
        BY <2>3
      <3> QED BY <3>1, <3>2, <3>3, <1>8
    <2> QED BY <2>1, <2>2, <2>3, <1>4
  <1> QED BY <1>9 DEF b, m

LEMMA ResolvedIs ==
    ASSUME FsOK, NEW moves \in Seq(Ready), NEW answer,
           \A a, b \in DOMAIN moves : moves[a].from = moves[b].from => moves[a] = moves[b]
    PROVE  /\ ResolveConflicts(moves, answer) \in Accepted
           /\ Settling(moves, Len(moves), ResolveConflicts(moves, answer))
  <1> DEFINE n == Len(moves)
             S == {p \in (0 .. n) \X Accepted : Settling(moves, p[1], p[2])}
  <1>1. PICK after :
           /\ ResolveConflicts(moves, answer) = after[n]
           /\ after[0] = Unsettled
           /\ \A k \in 1 .. n : after[k] = Settled(after[k - 1], moves[k], answer[k])
           /\ \A k \in 0 .. n : after[k] \in Accepted
    BY ResolvedSteps
  <1>2. n \in Nat
    OBVIOUS
  <1> DEFINE f == [k \in 0 .. n |-> <<k, after[k]>>]
  <1>3. Settling(moves, 0, after[0])
    <2>1. /\ after[0].moves = <<>> /\ after[0].reserved = {} /\ DOMAIN <<>> = {}
      BY <1>1 DEF Unsettled
    <2> QED BY <2>1 DEF Settling
  <1>4. f[0] \in S
    BY <1>1, <1>2, <1>3
  <1>5. ASSUME NEW k \in 1 .. n, f[k - 1] \in S PROVE f[k] \in S
    <2>1. k - 1 \in 0 .. n /\ k \in 0 .. n /\ f[k] = <<k, after[k]>>
          /\ f[k - 1] = <<k - 1, after[k - 1]>>
      BY <1>2
    <2>2. Settling(moves, k - 1, after[k - 1]) /\ after[k - 1] \in Accepted
      <3> HIDE DEF f
      <3> QED BY <1>5, <2>1
    <2>3. Settling(moves, k, Settled(after[k - 1], moves[k], answer[k]))
      BY <2>2, SettledKeeps
    <2>4. Settling(moves, k, after[k]) /\ after[k] \in Accepted
      BY <2>1, <2>3, <1>1
    <2> HIDE DEF f
    <2> QED BY <2>1, <2>4
  <1>6. \A k \in 0 .. n : f[k] \in S
    <2> HIDE DEF f, S, n
    <2> QED BY <1>2, <1>4, <1>5, StaysIn
  <1>7. n \in 0 .. n /\ f[n] = <<n, after[n]>>
    BY <1>2
  <1>8. Settling(moves, n, after[n]) /\ after[n] \in Accepted
    <2>1. f[n] \in S
      BY <1>6, <1>7
    <2> HIDE DEF f
    <2> QED BY <2>1, <1>7
  <1> QED BY <1>1, <1>8

\* Chosen moves of one source are one candidate, picked again.
LEMMA ChosenApart ==
    ASSUME job.moves \in Seq(Ready), job.links \in Seq(Seq(Ready)), Offered,
           job.phase = "confirm", NEW choice \in LinkChoices
    PROVE  LET moves == job.moves \o ChosenMoves(choice)
           IN  /\ moves \in Seq(Ready)
               /\ \A a \in DOMAIN moves : HasRow(moves[a].from, moves[a].item)
               /\ \A a, b \in DOMAIN moves :
                     moves[a].from = moves[b].from => moves[a] = moves[b]
               /\ \A a \in DOMAIN moves :
                     \/ \E b \in DOMAIN job.moves : moves[a] = job.moves[b]
                     \/ \E k \in DOMAIN job.links : \E b \in DOMAIN job.links[k] :
                           moves[a] = job.links[k][b]
               /\ \A b \in DOMAIN job.moves : b \in DOMAIN moves /\ moves[b] = job.moves[b]
  <1> DEFINE links == job.links
             Linked == {m \in Ready : \E k \in DOMAIN links : \E a \in DOMAIN links[k] :
                                         m = links[k][a]}
             each == [k \in DOMAIN links |-> Picked(links[k], choice[k])]
             chosen == ChosenMoves(choice)
  <1>1. /\ \A a \in DOMAIN job.moves : HasRow(job.moves[a].from, job.moves[a].item)
        /\ \A a, b \in DOMAIN job.moves : job.moves[a].from = job.moves[b].from => a = b
        /\ \A k \in DOMAIN links : \A a \in DOMAIN links[k] :
              /\ HasRow(links[k][a].from, links[k][a].item)
              /\ \A b \in DOMAIN job.moves : job.moves[b].from # links[k][a].from
        /\ \A k, l \in DOMAIN links :
              \A a \in DOMAIN links[k], b \in DOMAIN links[l] :
                 links[k][a].from = links[l][b].from => k = l /\ a = b
    BY DEF Offered
  <1>2. /\ Len(links) \in Nat /\ DOMAIN links = 1 .. Len(links)
        /\ \A k \in DOMAIN links : links[k] \in Seq(Ready)
    OBVIOUS
  <1> HIDE DEF links
  <1>3. ASSUME NEW k \in DOMAIN links
        PROVE  Picked(links[k], choice[k]) \in Seq(Linked)
    <2>1. /\ Picked(links[k], choice[k]) \in Seq(Ready)
          /\ \A c \in DOMAIN Picked(links[k], choice[k]) :
                \E a \in DOMAIN links[k] : Picked(links[k], choice[k])[c] = links[k][a]
      <3>1. choice[k] \in Typed(links[k])
        BY DEF LinkChoices, links
      <3> QED BY <3>1, <1>2, PickedType
    <2> DEFINE s == Picked(links[k], choice[k])
    <2> HIDE DEF s
    <2>2. \A c \in DOMAIN s : s[c] \in Linked
      BY <2>1 DEF s
    <2> HIDE DEF Linked
    <2>3. s \in Seq(Linked)
      BY <2>1, <2>2 DEF s
    <2> QED BY <2>3 DEF s
  <1>4. each \in Seq(Seq(Linked)) /\ DOMAIN each = DOMAIN links
        /\ \A k \in DOMAIN links : each[k] = Picked(links[k], choice[k])
    <2> HIDE DEF Linked
    <2>1. each \in [1 .. Len(links) -> Seq(Linked)]
      BY <1>2, <1>3
    <2>2. each \in Seq(Seq(Linked))
      BY <2>1, <1>2, AsSequence
    <2> QED BY <2>2
  <1>5. chosen = FlattenSeq(each)
    BY DEF ChosenMoves, links
  <1> HIDE DEF each, chosen
  <1>7. chosen \in Seq(Linked)
    <2>1. each \in Seq(Seq(Linked))
      BY <1>4
    <2> HIDE DEF Linked
    <2> QED BY <2>1, <1>5, FlattenType
  <1> DEFINE moves == job.moves \o chosen
  <1>8. /\ moves \in Seq(Ready)
        /\ DOMAIN moves = 1 .. Len(job.moves) + Len(chosen)
        /\ \A a \in DOMAIN job.moves : moves[a] = job.moves[a]
        /\ \A a \in DOMAIN moves :
              \/ a \in DOMAIN job.moves /\ moves[a] = job.moves[a]
              \/ /\ a \notin DOMAIN job.moves /\ a - Len(job.moves) \in DOMAIN chosen
                 /\ moves[a] = chosen[a - Len(job.moves)]
    <2>1. Linked \subseteq Ready
      OBVIOUS
    <2> HIDE DEF Linked
    <2>2. chosen \in Seq(Ready)
      BY <2>1, <1>7
    <2> QED BY <2>2, ConcatOf
  <1>9. \A c \in DOMAIN chosen : chosen[c] \in Linked
    <2> HIDE DEF Linked
    <2> QED BY <1>7
  <1>10. \A c \in DOMAIN chosen :
            \E k \in DOMAIN links : \E b \in DOMAIN links[k] : chosen[c] = links[k][b]
    BY <1>9
  <1>11. \A c, d \in DOMAIN chosen : chosen[c].from = chosen[d].from => chosen[c] = chosen[d]
    BY <1>1, <1>10
  <1> HIDE DEF Linked, moves
  <1>12. \A a \in DOMAIN moves : HasRow(moves[a].from, moves[a].item)
    BY <1>1, <1>8, <1>10
  <1>13. \A a, b \in DOMAIN moves : moves[a].from = moves[b].from => moves[a] = moves[b]
    <2> SUFFICES ASSUME NEW a \in DOMAIN moves, NEW b \in DOMAIN moves,
                        moves[a].from = moves[b].from
                 PROVE  moves[a] = moves[b]
      OBVIOUS
    <2>1. CASE a \in DOMAIN job.moves /\ b \in DOMAIN job.moves
      BY <2>1, <1>1, <1>8
    <2>2. CASE a \notin DOMAIN job.moves /\ b \notin DOMAIN job.moves
      BY <2>2, <1>8, <1>11
    <2>3. ASSUME NEW c \in DOMAIN moves, NEW d \in DOMAIN moves,
                 c \in DOMAIN job.moves, d \notin DOMAIN job.moves,
                 moves[c].from = moves[d].from
          PROVE  FALSE
      BY <2>3, <1>1, <1>8, <1>10
    <2> QED BY <2>1, <2>2, <2>3
  <1>14. \A a \in DOMAIN moves :
            \/ \E b \in DOMAIN job.moves : moves[a] = job.moves[b]
            \/ \E k \in DOMAIN links : \E b \in DOMAIN links[k] : moves[a] = links[k][b]
    BY <1>8, <1>10
  <1>15. \A b \in DOMAIN job.moves : b \in DOMAIN moves /\ moves[b] = job.moves[b]
    <2>1. Len(chosen) \in Nat /\ Len(job.moves) \in Nat
      BY <1>7
    <2> QED BY <2>1, <1>8
  <1> QED BY <1>8, <1>12, <1>13, <1>14, <1>15 DEF moves, chosen, links

-----------------------------------------------------------------------------
(* Steps that leave the files and the index. *)

LEMMA NothingBelow ==
    ASSUME FsOK, NEW to \in Paths, to \notin DOMAIN fs
    PROVE  \A p \in DOMAIN fs : ~IsPrefix(to, p)
  BY AboveIsDir DEF FsOK

LEMMA IndexStays ==
    ASSUME Keyed, RefsOK, refs' = refs, locations' = locations,
           nextIno \in Nat, nextIno' \in Nat, nextIno <= nextIno'
    PROVE  /\ Keyed' /\ RefsOK' /\ Known' = Known
           /\ \A p, i : HasRow(p, i)' <=> HasRow(p, i)
  <1>1. Known' = Known /\ Keyed'
    BY DEF Known, Keyed
  <1>2. \A p, i : HasRow(p, i)' <=> HasRow(p, i)
    BY DEF HasRow
  <1>3. RefsOK'
    BY DEF RefsOK
  <1> QED BY <1>1, <1>2, <1>3

\* An edit that has ended, or whose moves are over and indexed.
LEMMA Over ==
    ASSUME job'.phase \in {"idle", "tags"}
    PROVE  /\ Offered' /\ Routed' /\ Arrived' /\ Ahead' /\ Repeated'
           /\ Done' = {} /\ Left' = {} /\ ~Away' /\ job'.phase # "reindex"
           /\ Repeats' = {} /\ Passed' = {} /\ ~Underway'
  <1>1. ~Away' /\ ~Underway' /\ job'.phase # "confirm" /\ job'.phase # "reindex"
    BY DEF Away, Underway
  <1>2. Passed' = {} /\ Coming' = {}
    BY <1>1 DEF Passed, Coming
  <1>3. Done' = {} /\ Left' = {} /\ Repeats' = {}
    BY <1>2 DEF Done, Left, Repeats
  <1> QED BY <1>1, <1>2, <1>3 DEF Offered, Routed, Arrived, Ahead, Repeated

LEMMA PassedIs ==
    /\ Away => Passed = 1 .. job.next - 1
    /\ Underway => Coming = job.next .. Len(job.moves)
    /\ ~Away => Passed = {} /\ Done = {}
    /\ ~Underway => Coming = {} /\ Left = {} /\ Repeats = {}
  BY DEF Passed, Coming, Done, Left, Repeats

LEMMA DoneIs ==
    \A m : m \in Done <=> \E k \in Passed : First(k) /\ m = job.moves[k]
  BY DEF Done

LEMMA LeftIs ==
    \A m : /\ m \in Left <=> \E k \in Coming : First(k) /\ m = job.moves[k]
           /\ m \in Repeats <=> \E k \in Coming : ~First(k) /\ m = job.moves[k]
  BY DEF Left, Repeats

\* Each path has a first move.
LEMMA FirstOf ==
    ASSUME NEW k \in Nat \ {0}
    PROVE  \E l \in 1 .. k : First(l) /\ job.moves[l].from = job.moves[k].from
  <1> DEFINE S == {l \in 1 .. k : job.moves[l].from = job.moves[k].from}
  <1>1. S \in SUBSET Nat /\ k \in S
    OBVIOUS
  <1>2. PICK l \in S : \A n \in S : l <= n
    <2> HIDE DEF S
    <2> QED BY <1>1, LeastNumber
  <1>3. l \in 1 .. k /\ job.moves[l].from = job.moves[k].from
    OBVIOUS
  <1>4. First(l)
    <2> SUFFICES ASSUME NEW n \in 1 .. l - 1, job.moves[n].from = job.moves[l].from
                 PROVE  FALSE
      BY DEF First
    <2>1. n \in S
      BY <1>3
    <2>2. l <= n
      BY <2>1, <1>2
    <2> QED BY <2>2, <1>3
  <1> QED BY <1>3, <1>4

\* What is known of the index stays while nothing it is about changes.
LEMMA IndexInvStays ==
    ASSUME IndexInv, fs' = fs, refs' = refs, locations' = locations,
           ~stranded' => ~stranded /\ Done' = Done,
           job.phase # "reindex" => job'.phase # "reindex"
    PROVE  IndexInv'
  <1> SUFFICES ASSUME ~stranded' PROVE IndexInv'
    BY DEF IndexInv
  <1>1. ~stranded /\ Done' = Done
    OBVIOUS
  <1>2. Honest' /\ \A l \in locations : Gone(l)' \/ RowOK(l)'
    <2>1. Honest'
      BY <1>1 DEF IndexInv, Honest
    <2>2. \A l : RowOK(l) => RowOK(l)'
      BY DEF RowOK
    <2>3. \A l : Gone(l) => Gone(l)'
      BY <1>1 DEF Gone
    <2> QED BY <1>1, <2>1, <2>2, <2>3 DEF IndexInv
  <1>3. \A i : Anchored(i) => Anchored(i)'
    BY <1>1 DEF Anchored, HasRow
  <1> QED BY <1>1, <1>2, <1>3 DEF IndexInv

LEMMA PlanEdits ==
    ASSUME FilesInv, EditInv, IndexInv, NEW r \in Requests, Plan(r)
    PROVE  EditInv' /\ IndexInv'
  <1> DEFINE moves == Each(PlannedMoves, r.edits)
             links == Each(Candidates, r.edits)
  <1>1. /\ fs' = fs /\ nextIno' = nextIno /\ locations' = locations /\ refs' = refs
        /\ stranded' = stranded /\ job = Idle
        /\ \A k \in DOMAIN r.edits : ~IssueFor(r.edits[k])
    BY DEF Plan, index
  <1>2. /\ job'.phase = "confirm" /\ job'.next = 1
        /\ job'.moves = moves /\ job'.links = links /\ job'.moved = <<>>
    BY DEF Plan
  <1>3. nextIno \in Nat
    BY DEF FilesInv, FsOK
  <1>4. Keyed' /\ RefsOK' /\ \A p, i : HasRow(p, i)' <=> HasRow(p, i)
    BY <1>1, <1>3, IndexStays DEF EditInv
  <1>5. ~Away' /\ ~Underway' /\ ~Away
    BY <1>1, <1>2 DEF Away, Underway, Idle
  <1>6. Done' = {} /\ Left' = {} /\ Repeats' = {} /\ Passed' = {} /\ Done = {}
    BY <1>5 DEF Passed, Coming, Done, Left, Repeats
  <1>7. Routed' /\ Arrived' /\ Ahead' /\ Repeated'
    BY <1>5, <1>6 DEF Routed, Arrived, Ahead, Repeated
  <1>8. Offered'
    <2>1. /\ r.edits \in Seq([item : Items, nodes : Seq(Nodes)])
          /\ \A k, l \in DOMAIN r.edits : k # l => r.edits[k].item # r.edits[l].item
      BY NamesAssumption
    <2>2. /\ \A a \in DOMAIN moves : HasRow(moves[a].from, moves[a].item)
          /\ \A a, b \in DOMAIN moves : moves[a].from = moves[b].from => a = b
          /\ \A k \in DOMAIN links : \A a \in DOMAIN links[k] :
                /\ HasRow(links[k][a].from, links[k][a].item)
                /\ \A b \in DOMAIN moves : moves[b].from # links[k][a].from
          /\ \A k, l \in DOMAIN links :
                \A a \in DOMAIN links[k], b \in DOMAIN links[l] :
                   links[k][a].from = links[l][b].from => k = l /\ a = b
      BY <1>1, <2>1, PlannedApart DEF FilesInv, EditInv
    <2> HIDE DEF moves, links
    <2> QED BY <1>2, <1>4, <2>2 DEF Offered
  <1>9. IndexInv'
    BY <1>1, <1>2, <1>6, IndexInvStays
  <1> QED BY <1>4, <1>7, <1>8, <1>9 DEF EditInv

LEMMA ConfirmEdits ==
    ASSUME ~Nested, FilesInv, EditInv, IndexInv, NEW choice \in LinkChoices,
           NEW answer, Confirm(choice, answer)
    PROVE  EditInv' /\ IndexInv'
  <1> DEFINE moves == job.moves \o ChosenMoves(choice)
             resolved == ResolveConflicts(moves, answer)
             new == resolved.moves
  <1>1. /\ fs' = fs /\ nextIno' = nextIno /\ locations' = locations /\ refs' = refs
        /\ stranded' = stranded
    BY DEF Confirm, index, history
  <1>2. /\ job.phase = "confirm" /\ job # Idle /\ Fields \subseteq DOMAIN job
        /\ job.next = 1 /\ job.moved = <<>> /\ job.moves \in Seq(Ready)
        /\ job.links \in Seq(Seq(Ready))
    BY DEF Confirm, FilesInv, JobOK, Confirming, Idle, EditInv, Offered
  <1>3. /\ moves \in Seq(Ready)
        /\ \A a \in DOMAIN moves : HasRow(moves[a].from, moves[a].item)
        /\ \A a, b \in DOMAIN moves : moves[a].from = moves[b].from => moves[a] = moves[b]
    BY <1>2, ChosenApart DEF EditInv
  <1>4. /\ ~Overlap(new, job.attrs)
        /\ ~DirCopies => \A m \in ToSet(new) : m.crossed => Below(m.from) = {}
    BY DEF Confirm
  <1>5. /\ job'.phase = "mkdir" /\ job'.moves = new /\ job'.next = 1
        /\ job'.moved = <<>>
    BY <1>2 DEF Confirm, Fields
  <1> HIDE DEF moves
  <1>6. resolved \in Accepted /\ Settling(moves, Len(moves), resolved)
    BY <1>3, ResolvedIs DEF FilesInv
  <1> HIDE DEF resolved
  <1>7. /\ new \in Seq(PlannedMove)
        /\ \A k \in DOMAIN new : new[k].to \notin DOMAIN fs
        /\ \A k, l \in DOMAIN new : k # l => new[k].to # new[l].to
    BY <1>6 DEF Accepted
  <1>8. /\ \A k \in DOMAIN new : \E j \in 1 .. Len(moves) : Descends(new[k], moves[j])
        /\ \A k, l \in DOMAIN new : new[k].from = new[l].from => Alike(new[k], new[l])
    BY <1>6 DEF Settling
  <1> HIDE DEF new
  <1>9. \A k \in DOMAIN new : /\ new[k].from \in DOMAIN fs /\ new[k].from \in Paths
                              /\ new[k].to \in Paths /\ new[k] \in ToSet(new)
                              /\ HasRow(new[k].from, new[k].item)
    <2> SUFFICES ASSUME NEW k \in DOMAIN new
                 PROVE  /\ new[k].from \in DOMAIN fs /\ new[k].from \in Paths
                        /\ new[k].to \in Paths /\ new[k] \in ToSet(new)
                        /\ HasRow(new[k].from, new[k].item)
      OBVIOUS
    <2>1. PICK j \in 1 .. Len(moves) : Descends(new[k], moves[j])
      BY <1>8
    <2>2. j \in DOMAIN moves /\ moves[j] \in Ready
      BY <1>3
    <2>3. new[k] \in PlannedMove
      BY <1>7
    <2>4. HasRow(moves[j].from, moves[j].item) /\ moves[j].from \in DOMAIN fs
      BY <2>2, <1>3 DEF Ready
    <2>5. new[k].from = moves[j].from /\ new[k].item = moves[j].item
      BY <2>1 DEF Descends
    <2> QED BY <2>3, <2>4, <2>5 DEF PlannedMove, ToSet
  <1>10. /\ Len(new) \in Nat /\ DOMAIN new = 1 .. Len(new)
    BY <1>7
  <1>11. Separate(new)
    <2> SUFFICES ASSUME NEW k \in DOMAIN new, NEW l \in DOMAIN new
                 PROVE  /\ ~IsPrefix(new[k].from, new[l].to)
                        /\ ~IsPrefix(new[l].to, new[k].from)
                        /\ k # l => /\ \/ ~IsPrefix(new[k].from, new[l].from)
                                       \/ /\ new[k].from = new[l].from
                                          /\ Alike(new[k], new[l])
                                    /\ ~IsPrefix(new[k].to, new[l].to)
      BY DEF Separate, Sundered, Again
    <2>1. \A p, q : IsPrefix(p, q) => p = q \/ IsStrictPrefix(p, q)
      BY DEF IsStrictPrefix
    <2>2. /\ ~IsStrictPrefix(new[k].from, new[l].from)
          /\ ~IsStrictPrefix(new[k].from, new[l].to)
          /\ ~IsStrictPrefix(new[k].to, new[l].to)
      BY <1>4, <1>9 DEF Overlap
    <2>3. new[k].from # new[l].to
      BY <1>7, <1>9
    <2>4. ~IsPrefix(new[l].to, new[k].from)
      BY <1>7, <1>9, NothingBelow DEF FilesInv
    <2>5. /\ k # l => new[k].to # new[l].to
          /\ new[k].from = new[l].from => Alike(new[k], new[l])
      BY <1>7, <1>8
    <2> QED BY <2>1, <2>2, <2>3, <2>4, <2>5
  <1>12. nextIno \in Nat
    BY DEF FilesInv, FsOK
  <1>13. Keyed' /\ RefsOK' /\ Known' = Known /\ \A p, i : HasRow(p, i)' <=> HasRow(p, i)
    BY <1>1, <1>12, IndexStays DEF EditInv
  <1>14. Away' /\ Underway' /\ ~Away
    BY <1>2, <1>5 DEF Away, Underway
  <1>15. Done' = {} /\ Passed' = {} /\ Done = {}
    <2>1. 1 .. 1 - 1 = {}
      OBVIOUS
    <2> QED BY <1>5, <1>14, <2>1 DEF Done, Passed
  <1>16. \A m : m \in Left' \/ m \in Repeats' => \E k \in DOMAIN new : m = new[k]
    BY <1>5, <1>10, <1>14 DEF Left, Repeats, Coming
  <1>17. Routed'
    <2>1. <<>> \in Seq(Tracks) /\ Len(<<>>) = 1 - 1 /\ 1 - 1 <= Len(new) /\ 1 .. 1 - 1 = {}
      BY <1>10
    <2> QED BY <1>5, <1>7, <1>9, <1>11, <1>13, <2>1 DEF Routed
  <1>18. ~stranded => \A l \in locations : l.path \in DOMAIN fs
    BY <1>15 DEF IndexInv, Gone, RowOK
  <1>19. Ahead' /\ Repeated'
    <2> SUFFICES ASSUME NEW k \in DOMAIN new
                 PROVE  /\ new[k].from \in DOMAIN fs
                        /\ \A p \in DOMAIN fs : ~IsPrefix(new[k].to, p)
                        /\ ~DirCopies /\ new[k].crossed => Below(new[k].from) = {}
                        /\ ~stranded => \A l \in locations : ~IsPrefix(new[k].to, l.path)
      <3>1. ASSUME NEW o, \E k \in DOMAIN new : o = new[k]
            PROVE  /\ o.from \in DOMAIN fs /\ Unseen(o.to)'
                   /\ ~DirCopies /\ o.crossed => Below(o.from)' = {}
                   /\ ~stranded => \A l \in locations : ~IsPrefix(o.to, l.path)
        BY <1>1, <1>13, <3>1 DEF Unseen, Below
      <3> QED BY <3>1, <1>1, <1>15, <1>16 DEF Ahead, Repeated
    <2>1. \A p \in DOMAIN fs : ~IsPrefix(new[k].to, p)
      BY <1>7, <1>9, NothingBelow DEF FilesInv
    <2> QED BY <2>1, <1>4, <1>9, <1>18
  <1>20. Offered' /\ Arrived'
    BY <1>5, <1>15 DEF Offered, Arrived
  <1>21. IndexInv'
    BY <1>1, <1>2, <1>5, <1>15, IndexInvStays
  <1> QED BY <1>13, <1>17, <1>19, <1>20, <1>21 DEF EditInv

-----------------------------------------------------------------------------
(* Steps that make files. *)

\* The files there stay, and those made are new.
Grows ==
    /\ \A p \in DOMAIN fs : p \in DOMAIN fs' /\ fs'[p] = fs[p]
    /\ \A p \in DOMAIN fs' : p \notin DOMAIN fs => nextIno <= fs'[p].ino
    /\ nextIno <= nextIno'

LEMMA MadeGrows ==
    ASSUME NEW W, NEW e, Makes(W, e)
    PROVE  Grows
  <1>1. \A p \in DOMAIN fs : p \in DOMAIN fs' /\ fs'[p] = fs[p]
    BY DEF Makes
  <1>2. \A p \in DOMAIN fs' : p \notin DOMAIN fs => p \in W /\ fs'[p] = e[p]
    BY DEF Makes
  <1>3. \A p \in W : nextIno <= e[p].ino
    BY DEF Makes
  <1> QED BY <1>1, <1>2, <1>3 DEF Grows, Makes

LEMMA InosAre ==
    ASSUME FsOK
    PROVE  /\ nextIno \in Nat
           /\ \A p \in DOMAIN fs : fs[p].ino \in Nat /\ fs[p].ino < nextIno
  <1>1. \A p \in DOMAIN fs : fs[p] \in Entries
    BY DEF FsOK, IsTree
  <1> QED BY <1>1 DEF FsOK, Entries

LEMMA KnownAre ==
    ASSUME RefsOK
    PROVE  \A x \in Known : x \in Nat /\ x < nextIno
  BY DEF RefsOK, Known

LEMMA GrowsKeeps ==
    ASSUME FilesInv, FsOK', EditInv, IndexInv, Grows, refs' = refs, locations' = locations,
           Done' = Done, \A m \in Left' : m \in Left, Offered', Routed',
           \A m \in Repeats' : m \in Repeats, Underway' => Underway,
           \A k \in Passed' : k \in Passed /\ job'.moves[k] = job.moves[k],
           \A m \in Done : m.from \in DOMAIN fs' \ DOMAIN fs => ~fs'[m.from].dir,
           stranded' = stranded, job.phase # "reindex" <=> job'.phase # "reindex"
    PROVE  EditInv' /\ IndexInv'
  <1>1. /\ nextIno \in Nat /\ nextIno' \in Nat /\ nextIno <= nextIno'
        /\ \A p \in DOMAIN fs : fs[p].ino \in Nat /\ fs[p].ino < nextIno
        /\ \A p \in DOMAIN fs' : fs'[p].ino \in Nat
    BY InosAre DEF FilesInv, Grows, FsOK, IsTree, Entries
  <1>2. /\ Keyed' /\ RefsOK' /\ Known' = Known
        /\ \A p, i : HasRow(p, i)' <=> HasRow(p, i)
    BY <1>1, IndexStays DEF EditInv
  <1>3. /\ \A p \in DOMAIN fs : p \in DOMAIN fs' /\ fs'[p] = fs[p]
        /\ \A p \in DOMAIN fs' : p \notin DOMAIN fs => nextIno <= fs'[p].ino
    BY DEF Grows
  <1>4. \A p \in DOMAIN fs' : p \notin DOMAIN fs => fs'[p].ino \notin Known
    <2> SUFFICES ASSUME NEW p \in DOMAIN fs', p \notin DOMAIN fs, fs'[p].ino \in Known
                 PROVE  FALSE
      OBVIOUS
    <2>1. fs'[p].ino \in Nat /\ fs'[p].ino < nextIno
      BY KnownAre DEF EditInv
    <2> QED BY <2>1, <1>1, <1>3
  <1>5. \A p : Alone(p) => Alone(p)'
    <2> SUFFICES ASSUME NEW p, Alone(p), NEW q \in DOMAIN fs', fs'[q].ino = fs'[p].ino
                 PROVE  q = p
      BY <1>3 DEF Alone
    <2>1. p \in DOMAIN fs /\ fs'[p] = fs[p]
      BY <1>3 DEF Alone
    <2>2. q \in DOMAIN fs
      BY <2>1, <1>1, <1>3
    <2> QED BY <2>1, <2>2, <1>3 DEF Alone
  <1>6. Arrived'
    <2> SUFFICES ASSUME NEW m \in Done
                 PROVE  /\ m.to \in DOMAIN fs'
                        /\ m.crossed => Alone(m.to)'
                        /\ m.crossed /\ job'.phase # "reindex" => fs'[m.to].ino \notin Known
      BY <1>2 DEF Arrived
    <2>1. /\ m.to \in DOMAIN fs /\ m.crossed => Alone(m.to)
          /\ m.crossed /\ job.phase # "reindex" => fs[m.to].ino \notin Known
      BY DEF EditInv, Arrived
    <2>2. m.to \in DOMAIN fs
      BY DEF EditInv, Arrived
    <2>3. m.crossed => Alone(m.to)
      BY DEF EditInv, Arrived
    <2>4. m.crossed /\ job.phase # "reindex" => fs[m.to].ino \notin Known
      BY DEF EditInv, Arrived
    <2> QED BY <2>2, <2>3, <2>4, <1>3, <1>5
  <1>7. Ahead'
    <2> SUFFICES ASSUME NEW m \in Left
                 PROVE  /\ m.from \in DOMAIN fs' /\ Unseen(m.to)'
                        /\ ~DirCopies /\ m.crossed =>
                              \A p \in Below(m.from)' : fs'[p].ino \notin Known
                        /\ ~stranded => \A l \in locations : ~IsPrefix(m.to, l.path)
      BY <1>2 DEF Ahead
    <2>1. m.from \in DOMAIN fs /\ Unseen(m.to)
      BY DEF EditInv, Ahead
    <2>2. ~DirCopies /\ m.crossed => \A p \in Below(m.from) : fs[p].ino \notin Known
      BY DEF EditInv, Ahead
    <2>3. ~stranded => \A l \in locations : ~IsPrefix(m.to, l.path)
      BY DEF EditInv, Ahead
    <2>4. Unseen(m.to)'
      BY <2>1, <1>2, <1>3, <1>4 DEF Unseen
    <2>5. ASSUME NEW p \in Below(m.from)' PROVE p \in Below(m.from) \/ fs'[p].ino \notin Known
      BY <1>4 DEF Below
    <2>6. \A p \in Below(m.from) : fs'[p] = fs[p]
      BY <1>3 DEF Below
    <2> QED BY <2>1, <2>2, <2>3, <2>4, <2>5, <2>6, <1>3
  <1>8. IndexInv'
    <2> SUFFICES ASSUME ~stranded PROVE IndexInv'
      BY DEF IndexInv
    <2>1. /\ Honest /\ \A l \in locations : Gone(l) \/ RowOK(l)
          /\ \A m \in Done : fs[m.to].what = m.item
      BY DEF IndexInv
    <2>2. Honest'
      <3> SUFFICES ASSUME NEW p \in DOMAIN fs', NEW i \in Items \cap DOMAIN refs,
                          fs'[p].ino = refs[i]
                   PROVE  fs'[p].what = i
        BY DEF Honest
      <3>1. p \in DOMAIN fs
        BY <1>4 DEF Known
      <3> QED BY <3>1, <1>3, <2>1 DEF Honest
    <2>3. \A l : RowOK(l) => RowOK(l)'
      BY <1>3 DEF RowOK
    <2>4. \A l : Gone(l) => Gone(l)'
      BY DEF Gone
    <2>5. \A m \in Done : fs'[m.to].what = m.item
      BY <2>1, <1>3 DEF EditInv, Arrived
    <2>6. \A i : Anchored(i) => Anchored(i)'
      <3> SUFFICES ASSUME NEW i, Anchored(i) PROVE Anchored(i)'
        OBVIOUS
      <3>1. CASE \E p \in DOMAIN fs :
                    /\ fs[p].ino = refs[i]
                    /\ HasRow(p, i) \/ \E m \in Done : IsPrefix(m.to, p)
        <4>1. PICK p \in DOMAIN fs :
                 /\ fs[p].ino = refs[i]
                 /\ HasRow(p, i) \/ \E m \in Done : IsPrefix(m.to, p)
          BY <3>1
        <4>2. p \in DOMAIN fs' /\ fs'[p].ino = refs'[i]
          BY <4>1, <1>3
        <4>3. HasRow(p, i)' \/ \E m \in Done' : IsPrefix(m.to, p)
          BY <4>1, <1>2
        <4> QED BY <4>2, <4>3 DEF Anchored
      <3>2. CASE job.phase # "reindex" /\ \E m \in Done : m.crossed /\ m.item = i
        BY <3>2 DEF Anchored
      <3> QED BY <3>1, <3>2 DEF Anchored
    <2>7. ~DirCopies => \A i \in Items : i \in DOMAIN refs /\ Anchored(i)
      BY DEF IndexInv
    <2> QED BY <2>1, <2>2, <2>3, <2>4, <2>5, <2>6, <2>7 DEF IndexInv
  <1>9. Repeated'
    <2>1. \A k \in Passed' : job'.moves[k].to \in DOMAIN fs'
      BY <1>3 DEF EditInv, Repeated
    <2>2. ASSUME NEW m \in Repeats
          PROVE  Unseen(m.to)' /\ (~stranded => \A l \in locations : ~IsPrefix(m.to, l.path))
      <3>1. Unseen(m.to)
        BY DEF EditInv, Repeated
      <3>2. Unseen(m.to)'
        BY <3>1, <1>2, <1>3, <1>4 DEF Unseen
      <3> QED BY <3>2 DEF EditInv, Repeated
    <2>3. ASSUME Underway, NEW m \in Done, m.from \in DOMAIN fs'
          PROVE  ~fs'[m.from].dir /\ fs'[m.from].ino \notin Known
      <3>1. m.from \in DOMAIN fs => ~fs[m.from].dir /\ fs[m.from].ino \notin Known
        BY <2>3 DEF EditInv, Repeated
      <3> QED BY <3>1, <2>3, <1>3, <1>4
    <2> QED BY <2>1, <2>2, <2>3, <1>2 DEF Repeated
  <1> QED BY <1>2, <1>6, <1>7, <1>8, <1>9 DEF EditInv

LEMMA AppearEdits ==
    ASSUME FilesInv, FilesInv', EditInv, IndexInv, NEW p \in AlienPaths, Appear(p)
    PROVE  EditInv' /\ IndexInv'
  <1>1. Grows
    BY AppearMakes, MadeGrows
  <1>2. job' = job /\ refs' = refs /\ locations' = locations /\ stranded' = stranded
    BY DEF Appear, index
  <1>3. \A q, i : HasRow(q, i)' <=> HasRow(q, i)
    BY <1>2 DEF HasRow
  <1>4. /\ Done' = Done /\ Left' = Left /\ (Away' <=> Away)
        /\ Repeats' = Repeats /\ Passed' = Passed /\ (Underway' <=> Underway)
    BY <1>2 DEF Done, Left, Repeats, Passed, Coming, First, Away, Underway
  <1>5. Offered' /\ Routed'
    BY <1>2, <1>3, <1>4 DEF Offered, Routed, EditInv
  <1>6. \A q \in DOMAIN fs' \ DOMAIN fs : ~fs'[q].dir
    BY DEF Appear
  <1> QED BY <1>1, <1>2, <1>4, <1>5, <1>6, GrowsKeeps DEF FilesInv

LEMMA MkdirsEdits ==
    ASSUME FilesInv, FilesInv', EditInv, IndexInv, Mkdirs
    PROVE  EditInv' /\ IndexInv'
  <1>1. /\ refs' = refs /\ locations' = locations /\ stranded' = stranded
        /\ job.phase = "mkdir" /\ job # Idle /\ Fields \subseteq DOMAIN job
    BY DEF Mkdirs, index, history, FilesInv, JobOK, Idle
  <1>2. job.next = 1 /\ Away /\ Underway
    BY <1>1 DEF EditInv, Routed, Away, Underway
  <1>3. Done = {}
    <2>1. 1 .. 1 - 1 = {}
      OBVIOUS
    <2> QED BY <1>2, <2>1 DEF Done, Passed
  <1>4. CASE job' = Idle /\ fs' = fs /\ nextIno' = nextIno
    <2>1. job'.phase = "idle"
      BY <1>4 DEF Idle
    <2>2. Keyed' /\ RefsOK'
      BY <1>1, <1>4, IndexStays DEF EditInv, FilesInv, FsOK
    <2>3. IndexInv'
      BY <1>1, <1>3, <1>4, <2>1, Over, IndexInvStays
    <2> QED BY <2>1, <2>2, <2>3, Over DEF EditInv
  <1>5. ASSUME NEW W, NEW e, Makes(W, e), job' = [job EXCEPT !.phase = "move"]
        PROVE  EditInv' /\ IndexInv'
    <2>1. /\ job'.phase = "move" /\ job'.moves = job.moves /\ job'.next = job.next
          /\ job'.moved = job.moved
      BY <1>1, <1>5 DEF Fields
    <2>2. Away' /\ Underway'
      BY <2>1 DEF Away, Underway
    <2>3. Done' = Done /\ Left' = Left /\ Repeats' = Repeats /\ Passed' = Passed
      BY <2>1, <2>2, <1>2 DEF Done, Left, Repeats, Passed, Coming, First
    <2>4. \A q, i : HasRow(q, i)' <=> HasRow(q, i)
      BY <1>1 DEF HasRow
    <2>5. Offered' /\ Routed'
      BY <2>1, <2>4, <1>2 DEF Offered, Routed, EditInv
    <2> QED BY <1>1, <1>2, <1>3, <1>5, <2>1, <2>3, <2>5, MadeGrows, GrowsKeeps DEF FilesInv
  <1> QED BY <1>4, <1>5, MkdirsMake

-----------------------------------------------------------------------------
(* What a move that is carried out does to the files. *)

\* Where a file goes on, that a move or its failing does not reach, or comes from.
Carries(from, to, crossed) ==
    /\ \A p \in DOMAIN fs : ~IsPrefix(from, p) /\ ~IsPrefix(to, p) =>
          p \in DOMAIN fs' /\ fs'[p] = fs[p]
    /\ \A p \in DOMAIN fs' : ~IsPrefix(to, p) => p \in DOMAIN fs /\ ~IsPrefix(from, p)
    /\ to \in DOMAIN fs' /\ fs'[to].what = fs[from].what
    /\ \A q \in DOMAIN fs' : IsPrefix(to, q) =>
          \/ nextIno <= fs'[q].ino
          \/ q \in DOMAIN fs /\ fs'[q].ino = fs[q].ino
          \/ ~crossed /\ \E p \in DOMAIN fs : IsPrefix(from, p) /\ fs'[q] = fs[p]
    /\ ~crossed => fs'[to] = fs[from]
    /\ ~crossed =>
          \A p \in DOMAIN fs : IsPrefix(from, p) =>
             \E q \in DOMAIN fs' : IsPrefix(to, q) /\ fs'[q] = fs[p]
    /\ crossed => \A q \in DOMAIN fs' : fs'[q].ino = fs'[to].ino => q = to

LEMMA MovedTop ==
    ASSUME NEW from \in Paths, NEW to \in Paths
    PROVE  Moved(from, from, to) = to /\ Moved(to, to, from) = from
  <1>1. ASSUME NEW a \in Paths, NEW b \in Paths PROVE Moved(a, a, b) = b
    <2>1. IsPrefix(a, a)
      BY PathsAre, PrefixRefl
    <2> DEFINE q == Moved(a, a, b)
    <2>2. /\ q \in Paths /\ Len(q) = Len(b) + Len(a) - Len(a)
          /\ \A k \in 1 .. Len(b) : q[k] = b[k]
      BY <2>1, MovedIs
    <2> HIDE DEF q
    <2>3. Len(a) \in Nat /\ Len(b) \in Nat /\ q \in Seq(Names) /\ b \in Seq(Names)
      BY <2>2, PathsAre
    <2>4. Len(q) = Len(b)
      BY <2>2, <2>3
    <2>5. q = b
      BY <2>2, <2>3, <2>4, SamePath
    <2> QED BY <2>5 DEF q
  <1> QED BY <1>1

LEMMA RenamedCarries ==
    ASSUME FsOK, NEW from \in Paths, NEW to \in Paths, CanRename(from, to),
           fs' = Renamed(from, to)
    PROVE  Carries(from, to, FALSE)
  <1> DEFINE going == Going(from)
             stay == DOMAIN fs \ (going \cup {to})
             targets == {Moved(p, from, to) : p \in going}
  <1>1. /\ Below(from) \cup {from} = going /\ going \subseteq Paths
        /\ going \subseteq DOMAIN fs /\ from \in DOMAIN fs /\ from \in going
    BY GoingIs DEF CanRename
  <1>2. /\ targets \subseteq Paths
        /\ \A q \in targets : IsPrefix(to, q) /\ Moved(q, to, from) \in going
        /\ \A p \in going : Moved(Moved(p, from, to), to, from) = p
    BY TargetsAre DEF CanRename
  <1>4. \A q \in DOMAIN fs : IsPrefix(to, q) => q = to
    <2> SUFFICES ASSUME NEW q \in DOMAIN fs, IsPrefix(to, q), q # to PROVE FALSE
      OBVIOUS
    <2>1. to \in DOMAIN fs /\ fs[to].dir
      BY AboveIsDir DEF FsOK
    <2>2. q \in Below(to)
      BY DEF Below, IsStrictPrefix
    <2> QED BY <2>1, <2>2 DEF CanRename, Exists, IsDir
  <1>5. targets \cap stay = {}
    BY <1>2, <1>4
  <1>6. fs' = [q \in stay \cup targets |->
                 IF q \in stay THEN fs[q] ELSE fs[Moved(q, to, from)]]
    BY <1>1 DEF Renamed
  <1> HIDE DEF targets, stay
  <1>7. /\ DOMAIN fs' = stay \cup targets
        /\ \A q \in stay : fs'[q] = fs[q]
        /\ \A q \in targets : fs'[q] = fs[Moved(q, to, from)]
    BY <1>5, <1>6
  <1>8. \A p \in going : Moved(p, from, to) \in targets
                         /\ fs'[Moved(p, from, to)] = fs[p]
    BY <1>2, <1>7 DEF targets
  <1>9. IsPrefix(to, to) /\ \A p \in going : IsPrefix(from, p)
    BY PathsAre, PrefixRefl DEF Going
  <1>10. \A q \in stay : q \in DOMAIN fs /\ ~IsPrefix(from, q) /\ ~IsPrefix(to, q)
    BY <1>4 DEF stay, Going
  <1>11. \A q \in DOMAIN fs : ~IsPrefix(from, q) /\ ~IsPrefix(to, q) => q \in stay
    BY <1>9 DEF stay, Going
  <1>12. to \in targets /\ fs'[to] = fs[from]
    BY <1>1, <1>8, MovedTop
  <1>13. \A p \in DOMAIN fs : IsPrefix(from, p) => p \in going
    BY DEF Going
  <1>14. \A p \in DOMAIN fs : IsPrefix(from, p) =>
             \E q \in DOMAIN fs' : IsPrefix(to, q) /\ fs'[q] = fs[p]
    <2> SUFFICES ASSUME NEW p \in DOMAIN fs, IsPrefix(from, p)
                 PROVE  \E q \in DOMAIN fs' : IsPrefix(to, q) /\ fs'[q] = fs[p]
      OBVIOUS
    <2> DEFINE q == Moved(p, from, to)
    <2>1. q \in targets /\ fs'[q] = fs[p]
      BY <1>8, <1>13
    <2> HIDE DEF q
    <2> QED BY <2>1, <1>2, <1>7
  <1>15. \A q \in targets : \E p \in DOMAIN fs : IsPrefix(from, p) /\ fs'[q] = fs[p]
    BY <1>1, <1>2, <1>7, <1>9
  <1> QED BY <1>7, <1>10, <1>11, <1>12, <1>14, <1>15, <1>2 DEF Carries

\* A copy is a file of its own.
LEMMA CopyIsAlone ==
    ASSUME FsOK, NEW from \in Paths, NEW to \in Paths, CanCopy(from, to), Clear(to),
           NEW t, CopyMakes(t, from, to), NEW q \in DOMAIN t, t[q].ino = t[to].ino
    PROVE  q = to
  <1> DEFINE targets == {Moved(p, from, to) : p \in Going(from)}
  <1>1. from \in Going(from) /\ to \in targets /\ IsPrefix(to, to)
    <2>1. from \in Going(from)
      BY GoingIs DEF CanCopy
    <2>2. Moved(from, from, to) = to
      BY MovedTop
    <2> QED BY <2>1, <2>2, PathsAre, PrefixRefl
  <1>2. /\ DOMAIN t = DOMAIN fs \cup targets
        /\ \A p \in DOMAIN fs : t[p].ino = fs[p].ino
        /\ \A p \in targets : p \notin DOMAIN fs => nextIno <= t[p].ino
        /\ \A p, k \in targets :
              p \notin DOMAIN fs /\ k \notin DOMAIN fs /\ t[p].ino = t[k].ino => p = k
    BY DEF CopyMakes
  <1>3. nextIno \in Nat /\ \A p \in DOMAIN fs : fs[p].ino \in Nat /\ fs[p].ino < nextIno
    BY InosAre
  <1> HIDE DEF targets
  <1>4. CASE to \in DOMAIN fs
    <2>1. \A p \in DOMAIN fs : fs[p].ino = fs[to].ino => p = to
      BY <1>1, <1>4 DEF Clear
    <2> QED BY <2>1, <1>2, <1>3, <1>4
  <1>5. CASE to \notin DOMAIN fs
    BY <1>1, <1>2, <1>3, <1>5
  <1> QED BY <1>4, <1>5

LEMMA CopiedCarries ==
    ASSUME FsOK, NEW from \in Paths, NEW to \in Paths, from[1] # to[1],
           CanCopy(from, to), Clear(to), fs' = Deleted(Copied(from, to), from)
    PROVE  Carries(from, to, TRUE)
  <1> DEFINE t == Copied(from, to)
             going == Going(from)
             targets == {Moved(p, from, to) : p \in going}
  <1>1. CopyMakes(t, from, to)
    BY CopiedIs
  <1>2. fs' = [q \in {p \in DOMAIN t : ~IsPrefix(from, p)} |-> t[q]]
    BY DEF Deleted
  <1>3. \A q \in DOMAIN t : t[q].ino = t[to].ino => q = to
    <2> HIDE DEF t
    <2> QED BY <1>1, CopyIsAlone
  <1>4. /\ DOMAIN t = DOMAIN fs \cup targets
        /\ \A q \in DOMAIN fs : q \notin targets => t[q] = fs[q]
        /\ \A q \in DOMAIN fs : t[q].ino = fs[q].ino
        /\ \A q \in targets : /\ t[q].what = fs[Moved(q, to, from)].what
                              /\ q \notin DOMAIN fs => nextIno <= t[q].ino
    BY <1>1 DEF CopyMakes
  <1>5. \A q \in targets : IsPrefix(to, q)
    BY TargetsAre DEF CanCopy
  <1>6. to \in targets /\ Moved(to, to, from) = from
    <2>1. from \in going
      BY GoingIs DEF CanCopy
    <2>2. Moved(from, from, to) = to /\ Moved(to, to, from) = from
      BY MovedTop
    <2> QED BY <2>1, <2>2
  <1> HIDE DEF t, targets
  <1>7. /\ DOMAIN fs' = {p \in DOMAIN t : ~IsPrefix(from, p)}
        /\ \A q \in DOMAIN fs' : fs'[q] = t[q]
    BY <1>2
  <1>8. ~IsPrefix(from, to)
    <2>1. 1 \in 1 .. Len(from)
      BY PathsAre
    <2> QED BY <2>1, PathsAre, PrefixMeans
  <1>9. to \in DOMAIN fs' /\ fs'[to].what = fs[from].what
    BY <1>4, <1>6, <1>7, <1>8
  <1> QED BY <1>3, <1>4, <1>5, <1>7, <1>9 DEF Carries

-----------------------------------------------------------------------------
(* The moves. *)

\* Two moves of an edit, whatever their sources.
Aside(m, o) ==
    /\ ~IsPrefix(m.to, o.to) /\ ~IsPrefix(o.to, m.to)
    /\ ~IsPrefix(m.from, o.to) /\ ~IsPrefix(m.to, o.from)
    /\ ~IsPrefix(o.from, m.to) /\ ~IsPrefix(o.to, m.from)

\* The move that comes next, among those made and those that are left.
LEMMA MoveIs ==
    ASSUME FilesInv, EditInv, MovesLeft
    PROVE  /\ Away /\ Underway /\ job.phase = "move"
           /\ NextMove \in PlannedMove /\ HasRow(NextMove.from, NextMove.item)
           /\ ~IsPrefix(NextMove.from, NextMove.to)
           /\ ~IsPrefix(NextMove.to, NextMove.from)
           /\ First(job.next) => NextMove \in Left
           /\ ~First(job.next) => /\ NextMove \in Repeats
                                  /\ \E o \in Done : o.from = NextMove.from
           /\ \A o : o \in Done \/ (o \in Left \cup Repeats /\ o # NextMove) =>
                 Aside(NextMove, o) /\ o \in PlannedMove
           /\ \A o : (o \in Done /\ First(job.next)) \/ (o \in Left /\ o # NextMove) =>
                 Sundered(NextMove, o)
           /\ \A k \in Passed : Aside(NextMove, job.moves[k])
  <1>1. /\ job # Idle /\ job.phase = "move" /\ Away /\ Underway
        /\ job.next \in DOMAIN job.moves /\ job.next \in Nat \ {0}
        /\ NextMove \in PlannedMove
    BY NextMoveIs DEF MovesLeft, Away, Underway
  <1>2. /\ job.moves \in Seq(PlannedMove) /\ Separate(job.moves)
        /\ \A k \in DOMAIN job.moves : HasRow(job.moves[k].from, job.moves[k].item)
        /\ job.next - 1 <= Len(job.moves)
    BY <1>1 DEF EditInv, Routed
  <1>3. DOMAIN job.moves = 1 .. Len(job.moves) /\ Len(job.moves) \in Nat
    BY <1>2
  <1>4. /\ job.next \in Coming
        /\ \A k \in Passed : k \in DOMAIN job.moves /\ k < job.next
        /\ \A k \in Coming : k \in DOMAIN job.moves /\ (k # job.next => job.next \in 1 .. k - 1)
    BY <1>1, <1>2, <1>3, PassedIs
  <1>5. /\ First(job.next) => NextMove \in Left
        /\ ~First(job.next) => NextMove \in Repeats
    BY <1>4, LeftIs DEF NextMove
  <1>6. ASSUME ~First(job.next) PROVE \E o \in Done : o.from = NextMove.from
    <2>1. PICK l \in 1 .. job.next : First(l) /\ job.moves[l].from = NextMove.from
      BY <1>1, FirstOf DEF NextMove
    <2>2. l # job.next
      BY <1>6, <2>1
    <2>3. l \in Passed
      BY <1>1, <2>2, PassedIs
    <2> QED BY <2>1, <2>3, DoneIs
  <1>7. ASSUME NEW k \in DOMAIN job.moves, k # job.next
        PROVE  LET o == job.moves[k] IN
               /\ Aside(NextMove, o) /\ o \in PlannedMove
               /\ Sundered(NextMove, o) \/ o.from = NextMove.from
    <2>1. job.moves[k] \in PlannedMove
      BY <1>2
    <2>2. LET o == job.moves[k] IN
          /\ Sundered(NextMove, o) \/ Again(NextMove, o)
          /\ Sundered(o, NextMove) \/ Again(o, NextMove)
          /\ ~IsPrefix(NextMove.from, o.to) /\ ~IsPrefix(NextMove.to, o.from)
          /\ ~IsPrefix(o.from, NextMove.to) /\ ~IsPrefix(o.to, NextMove.from)
      BY <1>1, <1>2, <1>7 DEF Separate, NextMove
    <2> QED BY <2>1, <2>2 DEF Aside, Sundered, Again
  <1>8. ASSUME NEW o, o \in Done \/ (o \in Left \cup Repeats /\ o # NextMove)
        PROVE  Aside(NextMove, o) /\ o \in PlannedMove
    <2>1. \E k \in DOMAIN job.moves : k # job.next /\ o = job.moves[k]
      <3>1. CASE o \in Done
        BY <1>1, <1>4, <3>1, DoneIs
      <3>2. CASE o \in Left \cup Repeats /\ o # NextMove
        BY <1>4, <3>2, LeftIs DEF NextMove
      <3> QED BY <1>8, <3>1, <3>2
    <2> QED BY <2>1, <1>7
  <1>9. ASSUME NEW o, (o \in Done /\ First(job.next)) \/ (o \in Left /\ o # NextMove)
        PROVE  Sundered(NextMove, o)
    <2>1. CASE o \in Done /\ First(job.next)
      <3>1. PICK k \in Passed : o = job.moves[k]
        BY <2>1, DoneIs
      <3>2. k \in 1 .. job.next - 1
        BY <1>1, PassedIs
      <3>3. o.from # NextMove.from
        BY <2>1, <3>1, <3>2 DEF First, NextMove
      <3> QED BY <3>1, <3>2, <3>3, <1>1, <1>4, <1>7
    <2>2. CASE o \in Left /\ o # NextMove
      <3>1. PICK k \in Coming : First(k) /\ o = job.moves[k]
        BY <2>2, LeftIs
      <3>2. k # job.next
        BY <2>2, <3>1 DEF NextMove
      <3>3. o.from # NextMove.from
        BY <3>1, <3>2, <1>4 DEF First, NextMove
      <3> QED BY <3>1, <3>2, <3>3, <1>4, <1>7
    <2> QED BY <1>9, <2>1, <2>2
  <1>10. ~IsPrefix(NextMove.from, NextMove.to) /\ ~IsPrefix(NextMove.to, NextMove.from)
    BY <1>1, <1>2 DEF Separate, NextMove
  <1>11. \A k \in Passed : Aside(NextMove, job.moves[k])
    BY <1>1, <1>4, <1>7
  <1>12. HasRow(NextMove.from, NextMove.item)
    BY <1>1, <1>2 DEF NextMove
  <1> QED BY <1>1, <1>5, <1>6, <1>8, <1>9, <1>10, <1>11, <1>12

\* The job after it.
LEMMA Advanced ==
    ASSUME FilesInv, EditInv, MovesLeft, Advance, locations' = locations
    PROVE  /\ Offered' /\ Routed' /\ job'.phase = "move"
           /\ \A o : o \in Done' <=> o \in Done \/ (o = NextMove /\ First(job.next))
           /\ \A o : o \in Left' => o \in Left /\ o # NextMove
           /\ \A o : o \in Repeats' => o \in Repeats /\ o # NextMove
           /\ \A k : k \in Passed' <=> k \in Passed \/ k = job.next
           /\ job'.moves = job.moves
  <1>1. /\ Fields \subseteq DOMAIN job /\ job.phase = "move" /\ Away /\ Underway
        /\ job.next \in DOMAIN job.moves /\ job.next \in Nat \ {0}
        /\ NextMove \in PlannedMove
    BY NextMoveIs, MoveIs
  <1>2. /\ job'.phase = "move" /\ job'.moves = job.moves /\ job'.next = job.next + 1
        /\ job'.moved = Append(job.moved, Track(NextMove))
    BY <1>1 DEF Advance, Fields, Track
  <1>3. /\ job.moves \in Seq(PlannedMove) /\ Separate(job.moves)
        /\ \A k \in DOMAIN job.moves : HasRow(job.moves[k].from, job.moves[k].item)
        /\ job.moved \in Seq(Tracks) /\ Len(job.moved) = job.next - 1
        /\ \A k \in 1 .. job.next - 1 : job.moved[k] = Track(job.moves[k])
    BY <1>1 DEF EditInv, Routed
  <1>4. DOMAIN job.moves = 1 .. Len(job.moves) /\ Len(job.moves) \in Nat
    BY <1>3
  <1>5. Away' /\ Underway'
    BY <1>2 DEF Away, Underway
  <1>6. Routed'
    <2> DEFINE s == job.moved
               t == Append(s, Track(NextMove))
    <2>1. Track(NextMove) \in Tracks
      BY <1>1 DEF Track, Tracks, PlannedMove
    <2>2. /\ t \in Seq(Tracks) /\ t[Len(s) + 1] = Track(NextMove)
          /\ \A k \in DOMAIN s : t[k] = s[k]
      BY <1>3, <2>1, AppendIs
    <2>3. Len(t) = Len(s) + 1 /\ DOMAIN s = 1 .. Len(s)
      BY <1>3
    <2> HIDE DEF s, t
    <2>4. Len(t) = job.next + 1 - 1 /\ job.next + 1 - 1 <= Len(job.moves)
      BY <1>1, <1>3, <1>4, <2>3 DEF s
    <2>5. \A k \in 1 .. job.next + 1 - 1 : t[k] = Track(job.moves[k])
      <3> SUFFICES ASSUME NEW k \in 1 .. job.next PROVE t[k] = Track(job.moves[k])
        BY <1>1
      <3>1. CASE k = job.next
        BY <3>1, <1>1, <1>3, <2>2 DEF s, NextMove
      <3>2. CASE k # job.next
        <4>1. k \in 1 .. job.next - 1
          BY <3>2, <1>1
        <4> QED BY <4>1, <1>3, <2>2, <2>3 DEF s
      <3> QED BY <3>1, <3>2
    <2>6. job'.moved = t
      BY <1>2 DEF t, s
    <2>7. \A p, i : HasRow(p, i)' <=> HasRow(p, i)
      BY DEF HasRow
    <2>8. /\ Len(job'.moved) = job'.next - 1 /\ job'.next - 1 <= Len(job'.moves)
          /\ \A k \in 1 .. job'.next - 1 : job'.moved[k] = Track(job'.moves[k])
      BY <1>1, <1>2, <2>4, <2>5, <2>6
    <2>9. /\ job'.moves \in Seq(PlannedMove) /\ Separate(job'.moves)
          /\ \A k \in DOMAIN job'.moves : HasRow(job.moves[k].from, job.moves[k].item)'
          /\ job'.moved \in Seq(Tracks) /\ job'.phase # "mkdir"
      BY <1>2, <1>3, <2>2, <2>6, <2>7
    <2> QED BY <2>8, <2>9 DEF Routed
  <1>7. Offered'
    BY <1>2 DEF Offered
  <1>8. /\ \A k : k \in Passed' <=> k \in Passed \/ k = job.next
        /\ \A k \in Coming' : k \in Coming /\ k # job.next /\ k \in DOMAIN job.moves
        /\ \A k : First(k)' <=> First(k)
    <2>1. Passed' = 1 .. job.next /\ Coming' = job.next + 1 .. Len(job.moves)
      BY <1>1, <1>2, <1>5 DEF Passed, Coming
    <2>2. /\ \A k : k \in 1 .. job.next <=> k \in 1 .. job.next - 1 \/ k = job.next
          /\ \A k \in job.next + 1 .. Len(job.moves) :
                k \in job.next .. Len(job.moves) /\ k # job.next /\ k \in DOMAIN job.moves
      BY <1>1, <1>4
    <2>3. \A k : First(k)' <=> First(k)
      BY <1>2 DEF First
    <2> QED BY <1>1, <2>1, <2>2, <2>3, PassedIs
  <1>9. \A o : o \in Done' <=> o \in Done \/ (o = NextMove /\ First(job.next))
    <2>1. \A o : o \in Done' <=> \E k \in Passed' : First(k) /\ o = job.moves[k]
      BY <1>2, <1>8 DEF Done
    <2> QED BY <2>1, <1>8, DoneIs DEF NextMove
  <1>10. \A k \in DOMAIN job.moves : k # job.next => job.moves[k] # NextMove
    <2> SUFFICES ASSUME NEW k \in DOMAIN job.moves, k # job.next,
                        job.moves[k] = job.moves[job.next]
                 PROVE  FALSE
      BY DEF NextMove
    <2>1. ~IsPrefix(job.moves[k].to, job.moves[k].to)
      BY <1>1, <1>3 DEF Separate, Sundered, Again
    <2>2. job.moves[k] \in PlannedMove
      BY <1>3
    <2> QED BY <2>1, <2>2, PathsAre, PrefixRefl DEF PlannedMove
  <1>11. \A o : /\ o \in Left' => o \in Left /\ o # NextMove
                /\ o \in Repeats' => o \in Repeats /\ o # NextMove
    <2>1. \A o : /\ o \in Left' <=> \E k \in Coming' : First(k) /\ o = job.moves[k]
                 /\ o \in Repeats' <=> \E k \in Coming' : ~First(k) /\ o = job.moves[k]
      BY <1>2, <1>8 DEF Left, Repeats
    <2> QED BY <2>1, <1>8, <1>10, LeftIs
  <1> QED BY <1>2, <1>6, <1>7, <1>8, <1>9, <1>11

\* The index while the files of a move go to their new places.
LEMMA MoveEdits ==
    ASSUME FilesInv, FilesInv', EditInv, IndexInv, MovesLeft, Advance,
           NextMove.from \in DOMAIN fs,
           Carries(NextMove.from, NextMove.to, NextMove.crossed),
           nextIno <= nextIno', refs' = refs, locations' = locations,
           stranded' = stranded, NEW m, NEW from, NEW to,
           m = NextMove, from = m.from, to = m.to
    PROVE  EditInv' /\ IndexInv'
  <1> DEFINE first == First(job.next)
  <1>1. /\ job.phase = "move" /\ Underway /\ m \in PlannedMove /\ HasRow(from, m.item)
        /\ ~IsPrefix(from, to) /\ ~IsPrefix(to, from)
        /\ first => m \in Left
        /\ ~first => m \in Repeats /\ \E o \in Done : o.from = from
    BY MoveIs
  <1>2. \A o : o \in Done \/ (o \in Left \cup Repeats /\ o # m) =>
           /\ o \in PlannedMove /\ ~IsPrefix(to, o.to) /\ ~IsPrefix(o.to, to)
           /\ ~IsPrefix(from, o.to) /\ ~IsPrefix(to, o.from)
           /\ ~IsPrefix(o.from, to) /\ ~IsPrefix(o.to, from)
    BY MoveIs DEF Aside
  <1>2a. \A o : (o \in Done /\ first) \/ (o \in Left /\ o # m) => Sundered(m, o)
    BY MoveIs
  <1>3. /\ Offered' /\ Routed' /\ job'.phase = "move"
        /\ \A o : o \in Done' <=> o \in Done \/ (o = m /\ first)
        /\ \A o : o \in Left' => o \in Left /\ o # m
        /\ \A o : o \in Repeats' => o \in Repeats /\ o # m
        /\ \A k : k \in Passed' <=> k \in Passed \/ k = job.next
        /\ job'.moves = job.moves
    BY Advanced
  <1> HIDE DEF first
  <1>4. /\ nextIno \in Nat
        /\ \A p \in DOMAIN fs : fs[p].ino \in Nat /\ fs[p].ino < nextIno
        /\ DOMAIN fs \subseteq Paths /\ DOMAIN fs' \subseteq Paths
        /\ nextIno' \in Nat /\ \A p \in DOMAIN fs' : fs'[p].ino \in Nat
    BY InosAre DEF FilesInv, FsOK, IsTree, Entries
  <1>5. /\ Keyed' /\ RefsOK' /\ Known' = Known
        /\ \A p, i : HasRow(p, i)' <=> HasRow(p, i)
    BY <1>4, IndexStays DEF EditInv
  <1>6. \A x \in Known : x \in Nat /\ x < nextIno
    BY KnownAre DEF EditInv
  <1>7. /\ m.item \in Items /\ from \in Paths /\ to \in Paths /\ m.crossed \in BOOLEAN
    BY <1>1 DEF PlannedMove
  <1>8. /\ Unseen(to)
        /\ ~stranded => \A l \in locations : ~IsPrefix(to, l.path)
    <2>1. CASE m \in Left
      BY <2>1 DEF EditInv, Ahead
    <2>2. CASE m \in Repeats
      BY <2>2 DEF EditInv, Repeated
    <2> QED BY <2>1, <2>2, <1>1
  <1>8a. ~first => ~fs[from].dir /\ fs[from].ino \notin Known
    BY <1>1 DEF EditInv, Repeated
  \* What is moved again is one file.
  <1>8b. ~first => \A p \in DOMAIN fs : IsPrefix(from, p) => p = from
    BY <1>7, <1>8a, AboveIsDir DEF FilesInv, FsOK
  <1>9. first /\ ~DirCopies /\ m.crossed => \A p \in Below(from) : fs[p].ino \notin Known
    BY <1>1 DEF EditInv, Ahead
  <1>10. /\ \A p \in DOMAIN fs : ~IsPrefix(from, p) /\ ~IsPrefix(to, p) =>
              p \in DOMAIN fs' /\ fs'[p] = fs[p]
         /\ \A p \in DOMAIN fs' : ~IsPrefix(to, p) => p \in DOMAIN fs /\ ~IsPrefix(from, p)
         /\ to \in DOMAIN fs' /\ fs'[to].what = fs[from].what
    BY DEF Carries
  <1>11. \A q \in DOMAIN fs' : IsPrefix(to, q) =>
           \/ nextIno <= fs'[q].ino
           \/ q \in DOMAIN fs /\ fs'[q].ino = fs[q].ino
           \/ ~m.crossed /\ \E p \in DOMAIN fs : IsPrefix(from, p) /\ fs'[q] = fs[p]
    BY DEF Carries
  <1>12. /\ ~m.crossed =>
              \A p \in DOMAIN fs : IsPrefix(from, p) =>
                 \E q \in DOMAIN fs' : IsPrefix(to, q) /\ fs'[q] = fs[p]
         /\ m.crossed => \A q \in DOMAIN fs' : fs'[q].ino = fs'[to].ino => q = to
    BY DEF Carries
  <1>13. \A p \in DOMAIN fs' : ~IsPrefix(to, p) => p \in DOMAIN fs /\ fs'[p] = fs[p]
    BY <1>10
  \* What came under the target and is known came by rename.
  <1>14. ASSUME NEW q \in DOMAIN fs', IsPrefix(to, q), fs'[q].ino \in Known
         PROVE  ~m.crossed /\ \E p \in DOMAIN fs : IsPrefix(from, p) /\ fs'[q] = fs[p]
    <2>1. ~(nextIno <= fs'[q].ino)
      BY <1>4, <1>6, <1>14
    <2>2. ~(q \in DOMAIN fs /\ fs'[q].ino = fs[q].ino)
      BY <1>8, <1>14 DEF Unseen
    <2> QED BY <2>1, <2>2, <1>11, <1>14
  <1>15. IsPrefix(to, to)
    BY <1>7, PathsAre, PrefixRefl
  <1>16. \A o \in Done : o.to \in DOMAIN fs /\ o.to \in DOMAIN fs' /\ fs'[o.to] = fs[o.to]
    BY <1>2, <1>10 DEF EditInv, Arrived
  <1>17. Arrived'
    <2>1. ASSUME NEW o \in Done
          PROVE  /\ o.to \in DOMAIN fs'
                 /\ o.crossed => Alone(o.to)'
                 /\ o.crossed /\ job'.phase # "reindex" => fs'[o.to].ino \notin Known'
      <3>1. o.to \in DOMAIN fs /\ o.to \in DOMAIN fs' /\ fs'[o.to] = fs[o.to]
        BY <1>16
      <3>2. o.crossed => Alone(o.to)
        BY DEF EditInv, Arrived
      <3>3. o.crossed => fs[o.to].ino \notin Known
        BY <1>1 DEF EditInv, Arrived
      <3>4. ASSUME o.crossed, NEW q \in DOMAIN fs', fs'[q].ino = fs'[o.to].ino
            PROVE  q = o.to
        <4>1. \A p \in DOMAIN fs : fs[p].ino = fs[o.to].ino => p = o.to
          BY <3>2, <3>4 DEF Alone
        <4>2. ~IsPrefix(to, o.to) /\ ~IsPrefix(from, o.to)
          BY <1>2
        <4>3. CASE ~IsPrefix(to, q)
          BY <4>1, <4>3, <3>1, <3>4, <1>13
        <4>4. CASE IsPrefix(to, q)
          <5>1. ~(nextIno <= fs'[q].ino)
            BY <3>1, <3>4, <1>4
          <5>2. ~(q \in DOMAIN fs /\ fs'[q].ino = fs[q].ino)
            BY <3>1, <3>4, <4>1, <4>2, <4>4
          <5>3. PICK p \in DOMAIN fs : IsPrefix(from, p) /\ fs'[q] = fs[p]
            BY <5>1, <5>2, <4>4, <1>11
          <5> QED BY <5>3, <3>1, <3>4, <4>1, <4>2
        <4> QED BY <4>3, <4>4
      <3> QED BY <3>1, <3>3, <3>4, <1>5 DEF Alone
    <2>2. m.crossed => fs'[to].ino \notin Known
      BY <1>10, <1>14, <1>15
    <2>3. m.crossed => Alone(to)'
      BY <1>10, <1>12 DEF Alone
    <2> QED BY <2>1, <2>2, <2>3, <1>3, <1>5, <1>10 DEF Arrived
  <1>17a. ASSUME NEW p \in DOMAIN fs', NEW u \in Paths, IsPrefix(u, p),
                 ~IsPrefix(u, to), ~IsPrefix(to, u)
          PROVE  p \in DOMAIN fs /\ fs'[p] = fs[p]
    <2>1. p \in Seq(Names) /\ u \in Seq(Names) /\ to \in Seq(Names)
      BY <1>4, <1>7, <1>17a, PathsAre
    <2>2. ~IsPrefix(to, p)
      BY <2>1, <1>17a, PrefixesCompare
    <2> QED BY <2>2, <1>13
  <1>18. Ahead'
    <2> SUFFICES ASSUME NEW o \in Left, o # m
                 PROVE  /\ o.from \in DOMAIN fs' /\ Unseen(o.to)'
                        /\ ~DirCopies /\ o.crossed =>
                              \A p \in Below(o.from)' : fs'[p].ino \notin Known'
                        /\ ~stranded => \A l \in locations : ~IsPrefix(o.to, l.path)
      BY <1>3 DEF Ahead
    <2>1. o.from \in DOMAIN fs /\ Unseen(o.to)
      BY DEF EditInv, Ahead
    <2>2. ~DirCopies /\ o.crossed => \A p \in Below(o.from) : fs[p].ino \notin Known
      BY DEF EditInv, Ahead
    <2>3. ~stranded => \A l \in locations : ~IsPrefix(o.to, l.path)
      BY DEF EditInv, Ahead
    <2>4. /\ ~IsPrefix(from, o.from) /\ ~IsPrefix(to, o.from) /\ ~IsPrefix(o.from, to)
          /\ ~IsPrefix(o.to, to) /\ ~IsPrefix(to, o.to)
          /\ o.from \in Paths /\ o.to \in Paths
      BY <1>2, <1>2a DEF Sundered, PlannedMove
    <2>5. o.from \in DOMAIN fs'
      BY <2>1, <2>4, <1>10
    <2>7. Unseen(o.to)'
      BY <2>1, <2>4, <1>17a, <1>5 DEF Unseen
    <2>8. \A p \in Below(o.from)' : p \in Below(o.from) /\ fs'[p] = fs[p]
      BY <2>4, <1>17a DEF Below, IsStrictPrefix
    <2> QED BY <2>2, <2>3, <2>5, <2>7, <2>8, <1>5
  <1>19. IndexInv'
    <2> SUFFICES ASSUME ~stranded PROVE IndexInv'
      BY DEF IndexInv
    <2>1. /\ Honest /\ \A l \in locations : Gone(l) \/ RowOK(l)
          /\ \A o \in Done : fs[o.to].what = o.item
          /\ ~DirCopies => \A i \in Items : i \in DOMAIN refs /\ Anchored(i)
      BY DEF IndexInv
    <2>2. Honest'
      <3> SUFFICES ASSUME NEW p \in DOMAIN fs', NEW i \in Items \cap DOMAIN refs,
                          fs'[p].ino = refs[i]
                   PROVE  fs'[p].what = i
        BY DEF Honest
      <3>1. fs'[p].ino \in Known
        BY DEF Known
      <3>2. \E q \in DOMAIN fs : fs'[p] = fs[q]
        BY <3>1, <1>13, <1>14
      <3> QED BY <3>2, <2>1 DEF Honest
    <2>3. ASSUME NEW l \in locations PROVE Gone(l)' \/ RowOK(l)'
      <3>1. CASE Gone(l)
        BY <3>1, <1>3 DEF Gone
      <3>2. CASE IsPrefix(from, l.path)
        <4>1. \E o \in Done' : o.from = from
          BY <1>1, <1>3
        <4> QED BY <4>1, <3>2 DEF Gone
      <3>3. CASE RowOK(l) /\ ~IsPrefix(from, l.path)
        <4>1. l.path \in DOMAIN fs /\ ~IsPrefix(to, l.path)
          BY <3>3, <1>8 DEF RowOK
        <4>2. l.path \in DOMAIN fs' /\ fs'[l.path] = fs[l.path]
          BY <4>1, <3>3, <1>10
        <4> QED BY <4>2, <3>3 DEF RowOK
      <3> QED BY <3>1, <3>2, <3>3, <2>1
    <2>4. \A o \in Done' : fs'[o.to].what = o.item
      <3>1. first => fs[from].what = m.item
        <4> SUFFICES ASSUME first PROVE fs[from].what = m.item
          OBVIOUS
        <4>1. PICK l \in locations : l.path = from /\ l.item = m.item
          BY <1>1 DEF HasRow
        <4>2. ~Gone(l)
          BY <4>1, <1>2a DEF Gone, Sundered
        <4>3. RowOK(l)
          BY <4>2, <2>1
        <4> QED BY <4>1, <4>3, <1>7 DEF RowOK
      <3>2. first => fs'[m.to].what = m.item
        BY <3>1, <1>10
      <3>3. \A o \in Done : fs'[o.to].what = o.item
        BY <2>1, <1>16
      <3> QED BY <3>2, <3>3, <1>3
    <2>5. ASSUME ~DirCopies, NEW i \in Items PROVE i \in DOMAIN refs' /\ Anchored(i)'
      <3>1. i \in DOMAIN refs /\ Anchored(i)
        BY <2>1, <2>5
      <3>2. CASE \E o \in Done : o.crossed /\ o.item = i
        BY <3>1, <3>2, <1>3 DEF Anchored
      <3>3. ASSUME NEW p \in DOMAIN fs, fs[p].ino = refs[i],
                   HasRow(p, i) \/ \E o \in Done : IsPrefix(o.to, p)
            PROVE  Anchored(i)'
        <4>1. fs[p].ino \in Known
          BY <3>1, <3>3 DEF Known
        <4>2. ~IsPrefix(to, p)
          BY <4>1, <1>8 DEF Unseen
        <4>3. HasRow(p, i)' \/ \E o \in Done' : IsPrefix(o.to, p)
          BY <3>3, <1>3, <1>5
        <4>3a. IsPrefix(from, p) => first
          BY <4>1, <1>8a, <1>8b
        <4>4. CASE ~IsPrefix(from, p)
          <5>1. p \in DOMAIN fs' /\ fs'[p].ino = refs'[i]
            BY <3>3, <4>2, <4>4, <1>10
          <5> QED BY <5>1, <4>3 DEF Anchored
        <4>5. CASE IsPrefix(from, p) /\ ~m.crossed
          <5>1. PICK q \in DOMAIN fs' : IsPrefix(to, q) /\ fs'[q] = fs[p]
            BY <4>5, <1>12
          <5>2. fs'[q].ino = refs'[i] /\ m \in Done' /\ IsPrefix(m.to, q)
            BY <5>1, <3>3, <4>3a, <4>5, <1>3
          <5> QED BY <5>2 DEF Anchored
        <4>6. CASE IsPrefix(from, p) /\ m.crossed
          <5>1. p = from
            BY <4>1, <4>3a, <4>6, <2>5, <1>9 DEF Below, IsStrictPrefix
          <5>2. ~\E o \in Done : IsPrefix(o.to, p)
            BY <5>1, <1>2
          <5>3. HasRow(from, i) /\ HasRow(from, m.item)
            BY <5>1, <5>2, <3>3, <1>1
          <5>4. m.item = i
            BY <5>3 DEF HasRow, EditInv, Keyed
          <5>5. m \in Done' /\ job'.phase # "reindex"
            BY <4>3a, <4>6, <1>3
          <5> QED BY <5>4, <5>5, <4>6 DEF Anchored
        <4> QED BY <4>4, <4>5, <4>6, <1>7
      <3> QED BY <3>1, <3>2, <3>3 DEF Anchored
    <2> QED BY <2>2, <2>3, <2>4, <2>5 DEF IndexInv
  <1>20. Repeated'
    <2>1. ASSUME NEW k \in Passed' PROVE job'.moves[k].to \in DOMAIN fs'
      <3>1. CASE k = job.next
        BY <3>1, <1>3, <1>10 DEF NextMove
      <3>2. CASE k \in Passed
        <4>1. /\ ~IsPrefix(from, job.moves[k].to) /\ ~IsPrefix(to, job.moves[k].to)
              /\ job.moves[k].to \in DOMAIN fs
          BY <3>2, MoveIs DEF Aside, EditInv, Repeated
        <4> QED BY <4>1, <1>3, <1>10
      <3> QED BY <3>1, <3>2, <1>3
    <2>2. ASSUME NEW o \in Repeats, o # m
          PROVE  Unseen(o.to)' /\ (~stranded => \A l \in locations : ~IsPrefix(o.to, l.path))
      <3>1. Unseen(o.to)
        BY DEF EditInv, Repeated
      <3>2. o.to \in Paths /\ ~IsPrefix(o.to, to) /\ ~IsPrefix(to, o.to)
        BY <2>2, <1>2 DEF PlannedMove
      <3>3. Unseen(o.to)'
        BY <3>1, <3>2, <1>17a, <1>5 DEF Unseen
      <3> QED BY <3>3 DEF EditInv, Repeated
    <2>3. ASSUME NEW o \in Done', o.from \in DOMAIN fs'
          PROVE  ~fs'[o.from].dir /\ fs'[o.from].ino \notin Known
      <3>1. o \in Done
        <4>1. from \notin DOMAIN fs'
          BY <1>1, <1>7, <1>13, <1>10, PathsAre, PrefixRefl
        <4> QED BY <4>1, <2>3, <1>3
      <3>2. o.from \in DOMAIN fs /\ fs'[o.from] = fs[o.from]
        BY <3>1, <2>3, <1>2, <1>13
      <3> QED BY <3>1, <3>2, <1>1 DEF EditInv, Repeated
    <2> QED BY <2>1, <2>2, <2>3, <1>3, <1>5 DEF Repeated
  <1> QED BY <1>3, <1>5, <1>17, <1>18, <1>19, <1>20 DEF EditInv

\* The moves are over.
Halts ==
    /\ Done' = Done /\ Left' = {} /\ Repeats' = {} /\ ~Underway'
    /\ \A k \in Passed' : k \in Passed /\ job'.moves[k] = job.moves[k]
    /\ Offered' /\ Routed' /\ job'.phase # "reindex"

\* Where the moves stop: what was written meanwhile, to W, is in no one's way.
LEMMA StopKeeps ==
    ASSUME FilesInv, FilesInv', EditInv, IndexInv, job.phase \in {"move", "rebind"},
           NEW W, W \cap {m.to : m \in Done} = {},
           ~stranded => \A l \in locations : l.path \notin W,
           \A p \in W \cap DOMAIN fs : fs[p].ino \notin Known,
           \A p \in DOMAIN fs : p \in DOMAIN fs' /\ fs'[p].ino = fs[p].ino
                                /\ (p \notin W => fs'[p] = fs[p]),
           \A p \in DOMAIN fs' : p \notin DOMAIN fs => nextIno <= fs'[p].ino,
           nextIno <= nextIno', refs' = refs, locations' = locations,
           stranded' = stranded, Halts
    PROVE  EditInv' /\ IndexInv'
  <1>0. Done' = Done /\ Left' = {} /\ Offered' /\ Routed' /\ job'.phase # "reindex"
    BY DEF Halts
  <1>1. /\ nextIno \in Nat /\ nextIno' \in Nat
        /\ \A p \in DOMAIN fs : fs[p].ino \in Nat /\ fs[p].ino < nextIno
        /\ \A p \in DOMAIN fs' : fs'[p].ino \in Nat
    BY InosAre DEF FilesInv, FsOK, IsTree, Entries
  <1>2. /\ Keyed' /\ RefsOK' /\ Known' = Known
        /\ \A p, i : HasRow(p, i)' <=> HasRow(p, i)
    BY <1>1, IndexStays DEF EditInv
  <1>3. \A x \in Known : x \in Nat /\ x < nextIno
    BY KnownAre DEF EditInv
  <1>4. \A p \in DOMAIN fs' : fs'[p].ino \in Known => p \in DOMAIN fs /\ fs'[p] = fs[p]
    <2> SUFFICES ASSUME NEW p \in DOMAIN fs', fs'[p].ino \in Known
                 PROVE  p \in DOMAIN fs /\ fs'[p] = fs[p]
      OBVIOUS
    <2>1. ~(nextIno <= fs'[p].ino)
      BY <1>1, <1>3
    <2> QED BY <2>1
  <1>5. \A m \in Done : m.to \in DOMAIN fs /\ m.to \in DOMAIN fs' /\ fs'[m.to] = fs[m.to]
    BY DEF EditInv, Arrived
  <1>6. Arrived'
    <2> SUFFICES ASSUME NEW m \in Done
                 PROVE  /\ m.to \in DOMAIN fs'
                        /\ m.crossed => Alone(m.to)' /\ fs'[m.to].ino \notin Known
      BY <1>0, <1>2 DEF Arrived
    <2>1. m.crossed => Alone(m.to) /\ fs[m.to].ino \notin Known
      BY DEF EditInv, Arrived
    <2>2. ASSUME m.crossed, NEW q \in DOMAIN fs', fs'[q].ino = fs'[m.to].ino
          PROVE  q = m.to
      <3>1. q \in DOMAIN fs
        BY <2>2, <1>1, <1>5
      <3> QED BY <3>1, <2>1, <2>2, <1>5 DEF Alone
    <2> QED BY <2>1, <2>2, <1>5 DEF Alone
  <1>7. Ahead' /\ Repeated'
    <2>1. \A k \in Passed' : job'.moves[k].to \in DOMAIN fs'
      BY DEF EditInv, Repeated, Halts
    <2> QED BY <2>1 DEF Ahead, Repeated, Halts
  <1>8. IndexInv'
    <2> SUFFICES ASSUME ~stranded PROVE IndexInv'
      BY DEF IndexInv
    <2>1. /\ Honest /\ \A l \in locations : Gone(l) \/ RowOK(l)
          /\ \A m \in Done : fs[m.to].what = m.item
          /\ ~DirCopies => \A i \in Items : i \in DOMAIN refs /\ Anchored(i)
      BY DEF IndexInv
    <2>2. Honest'
      BY <1>4, <2>1 DEF Honest, Known
    <2>3. \A l \in locations : RowOK(l) => RowOK(l)'
      BY DEF RowOK
    <2>4. \A l : Gone(l) => Gone(l)'
      BY <1>0 DEF Gone
    <2>5. \A i \in DOMAIN refs : Anchored(i) => Anchored(i)'
      <3> SUFFICES ASSUME NEW i \in DOMAIN refs, Anchored(i) PROVE Anchored(i)'
        OBVIOUS
      <3>1. ASSUME NEW p \in DOMAIN fs, fs[p].ino = refs[i],
                   HasRow(p, i) \/ \E m \in Done : IsPrefix(m.to, p)
            PROVE  Anchored(i)'
        <4>1. p \in DOMAIN fs' /\ fs'[p].ino = refs'[i]
          BY <3>1
        <4>2. HasRow(p, i)' \/ \E m \in Done' : IsPrefix(m.to, p)
          BY <3>1, <1>0, <1>2
        <4> QED BY <4>1, <4>2 DEF Anchored
      <3>2. CASE \E m \in Done : m.crossed /\ m.item = i
        BY <3>2, <1>0 DEF Anchored
      <3> QED BY <3>1, <3>2 DEF Anchored
    <2> QED BY <2>1, <2>2, <2>3, <2>4, <2>5, <1>0, <1>5 DEF IndexInv
  <1> QED BY <1>0, <1>2, <1>6, <1>7, <1>8 DEF EditInv

LEMMA StopKeepsFiles ==
    ASSUME FilesInv, FilesInv', EditInv, IndexInv, job.phase \in {"move", "rebind"},
           fs' = fs, nextIno <= nextIno', refs' = refs, locations' = locations,
           stranded' = stranded, Halts
    PROVE  EditInv' /\ IndexInv'
  <1> DEFINE W == {}
  <1>1. /\ W \cap {m.to : m \in Done} = {}
        /\ ~stranded => \A l \in locations : l.path \notin W
        /\ \A p \in W \cap DOMAIN fs : fs[p].ino \notin Known
    OBVIOUS
  <1> HIDE DEF W
  <1>2. \A p \in DOMAIN fs : p \in DOMAIN fs' /\ fs'[p].ino = fs[p].ino
                             /\ (p \notin W => fs'[p] = fs[p])
    OBVIOUS
  <1>3. \A p \in DOMAIN fs' : p \notin DOMAIN fs => nextIno <= fs'[p].ino
    OBVIOUS
  <1> QED BY <1>1, <1>2, <1>3, StopKeeps

\* The job after the last of its moves, done or not.
LEMMA JobStops ==
    ASSUME FilesInv, EditInv, job.phase = "move", NEW j,
           Fields \subseteq DOMAIN j, j.moves = job.moves, j.moved = job.moved,
           j.next = job.next, locations' = locations,
           \/ job' = Abort(j) \/ job' = [j EXCEPT !.phase = "rebind"]
           \/ j.moved = <<>> /\ job' = [j EXCEPT !.phase = "tags"]
    PROVE  Halts
  <1>1. Away
    BY DEF Away
  <1>2. /\ job.moved \in Seq(Tracks) /\ Len(job.moved) = job.next - 1
    BY <1>1 DEF EditInv, Routed
  <1>3. ASSUME job'.phase \in {"idle", "tags"}, job.moved = <<>>
        PROVE  Halts
    <2>1. 1 .. job.next - 1 = {}
      BY <1>2, <1>3
    <2>2. Done = {}
      BY <1>1, <2>1 DEF Done, Passed
    <2> QED BY <2>2, <1>3, Over DEF Halts
  <1>4. ASSUME job'.phase = "rebind", job'.moves = job.moves, job'.next = job.next,
               job'.moved = job.moved
        PROVE  Halts
    <2>1. Away' /\ ~Underway' /\ job'.phase # "reindex" /\ job'.phase # "mkdir"
      BY <1>4 DEF Away, Underway
    <2>2. Passed' = Passed /\ Done' = Done /\ Left' = {} /\ Repeats' = {}
      BY <2>1, <1>1, <1>4 DEF Passed, Coming, Done, Left, Repeats, First
    <2>3. Offered'
      BY <1>4 DEF Offered
    <2>4. \A p, i : HasRow(p, i)' <=> HasRow(p, i)
      BY DEF HasRow
    <2>5. Routed'
      BY <1>1, <1>4, <2>1, <2>4 DEF EditInv, Routed
    <2> QED BY <1>4, <2>1, <2>2, <2>3, <2>5 DEF Halts
  <1>5. CASE job' = Idle /\ j.moved = <<>>
    BY <1>3, <1>5 DEF Idle
  <1>6. CASE j.moved = <<>> /\ job' = [j EXCEPT !.phase = "tags"]
    BY <1>3, <1>6 DEF Fields
  <1>7. CASE job' = [j EXCEPT !.phase = "rebind", !.failed = TRUE]
    BY <1>4, <1>7 DEF Fields
  <1>8. CASE job' = [j EXCEPT !.phase = "rebind"]
    BY <1>4, <1>8 DEF Fields
  <1> QED BY <1>5, <1>6, <1>7, <1>8 DEF Abort

LEMMA RenameEdits ==
    ASSUME FilesInv, FilesInv', EditInv, IndexInv, Rename
    PROVE  EditInv' /\ IndexInv'
  <1>1. /\ MovesLeft /\ ~NextMove.crossed /\ nextIno' = nextIno /\ locations' = locations
        /\ refs' = refs /\ stranded' = stranded /\ nextIno \in Nat
    BY DEF Rename, index, history, FilesInv, FsOK
  <1>2. /\ job.phase = "move" /\ Fields \subseteq DOMAIN job /\ NextMove \in PlannedMove
        /\ NextMove.from \in Paths /\ NextMove.to \in Paths
    BY <1>1, NextMoveIs DEF MovesLeft
  <1>3. CASE CanRename(NextMove.from, NextMove.to)
    <2>1. fs' = Renamed(NextMove.from, NextMove.to) /\ Advance
      BY <1>3 DEF Rename
    <2>2. Carries(NextMove.from, NextMove.to, FALSE)
      BY <1>2, <1>3, <2>1, RenamedCarries DEF FilesInv
    <2>3. Carries(NextMove.from, NextMove.to, NextMove.crossed)
      <3>1. NextMove.crossed = FALSE
        BY <1>1, <1>2 DEF PlannedMove
      <3> QED BY <2>2, <3>1
    <2>4. nextIno <= nextIno'
      BY <1>1
    <2>5. NextMove.from \in DOMAIN fs
      BY <1>2, <1>3, PathsAre DEF CanRename, Exists
    <2> QED BY <1>1, <2>1, <2>3, <2>4, <2>5, MoveEdits
  <1>4. CASE ~CanRename(NextMove.from, NextMove.to)
    <2>1. fs' = fs /\ job' = Abort(job)
      BY <1>4 DEF Rename
    <2>2. Halts
      BY <1>1, <1>2, <2>1, JobStops
    <2>3. nextIno <= nextIno'
      BY <1>1
    <2> QED BY <1>1, <1>2, <2>1, <2>2, <2>3, StopKeepsFiles
  <1> QED BY <1>3, <1>4

LEMMA CopyAndDeleteEdits ==
    ASSUME FilesInv, FilesInv', EditInv, IndexInv, CopyAndDelete
    PROVE  EditInv' /\ IndexInv'
  <1>1. /\ MovesLeft /\ NextMove.crossed /\ locations' = locations
        /\ refs' = refs /\ stranded' = stranded /\ nextIno \in Nat
    BY DEF CopyAndDelete, index, history, FilesInv, FsOK
  <1>2. /\ job.phase = "move" /\ Fields \subseteq DOMAIN job /\ NextMove \in PlannedMove
        /\ NextMove.from \in Paths /\ NextMove.to \in Paths /\ Clear(NextMove.to)
        /\ NextMove.from[1] # NextMove.to[1]
    BY <1>1, NextMoveIs DEF MovesLeft
  <1>3. CASE CanCopy(NextMove.from, NextMove.to)
    <2>1. /\ fs' = Deleted(Copied(NextMove.from, NextMove.to), NextMove.from) /\ Advance
          /\ nextIno' = nextIno + (Cardinality(Below(NextMove.from)) + 1)
      BY <1>3 DEF CopyAndDelete
    <2>2. Carries(NextMove.from, NextMove.to, TRUE)
      BY <1>2, <1>3, <2>1, CopiedCarries DEF FilesInv
    <2>3. Carries(NextMove.from, NextMove.to, NextMove.crossed)
      <3>1. NextMove.crossed = TRUE
        BY <1>1, <1>2 DEF PlannedMove
      <3> QED BY <2>2, <3>1
    <2>4. nextIno <= nextIno'
      <3>1. IsFiniteSet(Below(NextMove.from))
        BY FS_Subset DEF FilesInv, FsOK, IsTree, Below
      <3>2. Cardinality(Below(NextMove.from)) \in Nat
        BY <3>1, FS_CardinalityType
      <3> QED BY <1>1, <2>1, <3>2
    <2>5. NextMove.from \in DOMAIN fs
      BY <1>2, <1>3, PathsAre DEF CanCopy, Exists
    <2> QED BY <1>1, <2>1, <2>3, <2>4, <2>5, MoveEdits
  <1>4. CASE ~CanCopy(NextMove.from, NextMove.to)
    <2>1. fs' = fs /\ nextIno' = nextIno /\ job' = Abort(job)
      BY <1>4 DEF CopyAndDelete
    <2>2. Halts
      BY <1>1, <1>2, <2>1, JobStops
    <2>3. nextIno <= nextIno'
      BY <1>1, <2>1
    <2> QED BY <1>1, <1>2, <2>1, <2>2, <2>3, StopKeepsFiles
  <1> QED BY <1>3, <1>4

LEMMA CopyFailsEdits ==
    ASSUME FilesInv, FilesInv', EditInv, IndexInv, CopyFails
    PROVE  EditInv' /\ IndexInv'
  <1>1. /\ MovesLeft /\ NextMove.crossed /\ locations' = locations
        /\ refs' = refs /\ stranded' = stranded /\ nextIno \in Nat
        /\ CanCopy(NextMove.from, NextMove.to) /\ job' = Abort(job)
        /\ nextIno' = nextIno + Cardinality(Below(NextMove.from)) + 1
    BY DEF CopyFails, index, history, FilesInv, FsOK
  <1>2. /\ job.phase = "move" /\ Fields \subseteq DOMAIN job /\ NextMove \in PlannedMove
        /\ NextMove.from \in Paths /\ NextMove.to \in Paths /\ Clear(NextMove.to)
    BY <1>1, NextMoveIs DEF MovesLeft
  <1> DEFINE from == NextMove.from
             to == NextMove.to
             t == Copied(from, to)
             targets == {Moved(p, from, to) : p \in Going(from)}
             W == targets
  <1>3. fs' = t
    BY DEF CopyFails
  <1>4. CopyMakes(t, from, to)
    BY <1>1, <1>2, CopiedIs DEF FilesInv
  <1> HIDE DEF t
  <1>5. /\ DOMAIN fs' = DOMAIN fs \cup targets
        /\ \A q \in DOMAIN fs : q \notin targets => fs'[q] = fs[q]
        /\ \A q \in DOMAIN fs : fs'[q].ino = fs[q].ino
        /\ \A q \in targets : q \notin DOMAIN fs => nextIno <= fs'[q].ino
    BY <1>3, <1>4 DEF CopyMakes
  <1>6. \A q \in targets : IsPrefix(to, q)
    BY <1>1, <1>2, TargetsAre DEF CanCopy, FilesInv
  <1> HIDE DEF targets
  <1>7. NextMove \in Left \/ NextMove \in Repeats
    BY <1>1, MoveIs
  <1>8. /\ \A m \in Done : ~IsPrefix(to, m.to)
        /\ ~stranded => \A l \in locations : ~IsPrefix(to, l.path)
        /\ \A p \in DOMAIN fs : IsPrefix(to, p) => fs[p].ino \notin Known
    <2>1. \A m \in Done : ~IsPrefix(to, m.to)
      BY <1>1, MoveIs DEF Aside
    <2>2. ~stranded => \A l \in locations : ~IsPrefix(to, l.path)
      BY <1>7 DEF EditInv, Ahead, Repeated
    <2>3. \A p \in DOMAIN fs : IsPrefix(to, p) => fs[p].ino \notin Known
      BY <1>7 DEF EditInv, Ahead, Repeated, Unseen
    <2> QED BY <2>1, <2>2, <2>3
  <1>9. nextIno <= nextIno'
    <2>1. IsFiniteSet(Below(from))
      BY FS_Subset DEF FilesInv, FsOK, IsTree, Below
    <2>2. Cardinality(Below(from)) \in Nat
      BY <2>1, FS_CardinalityType
    <2> QED BY <1>1, <2>2
  <1>10. Halts
    BY <1>1, <1>2, JobStops
  <1> HIDE DEF from, to
  <1>11. /\ W \cap {m.to : m \in Done} = {}
         /\ ~stranded => \A l \in locations : l.path \notin W
         /\ \A p \in W \cap DOMAIN fs : fs[p].ino \notin Known
         /\ \A p \in DOMAIN fs : p \in DOMAIN fs' /\ fs'[p].ino = fs[p].ino
                                 /\ (p \notin W => fs'[p] = fs[p])
         /\ \A p \in DOMAIN fs' : p \notin DOMAIN fs => nextIno <= fs'[p].ino
    BY <1>5, <1>6, <1>8
  <1> HIDE DEF W
  <1> QED BY <1>1, <1>2, <1>9, <1>10, <1>11, StopKeeps

\* The end of an edit, and a kill.
LEMMA EndEdits ==
    ASSUME FilesInv, EditInv, IndexInv, Decline \/ WriteTags \/ Crash
    PROVE  EditInv' /\ IndexInv'
  <1>1. /\ fs' = fs /\ refs' = refs /\ locations' = locations /\ nextIno' = nextIno
        /\ job' = Idle /\ nextIno \in Nat
    BY DEF Decline, WriteTags, Crash, index, FilesInv, FsOK
  <1>2. Keyed' /\ RefsOK'
    BY <1>1, IndexStays DEF EditInv
  <1>3. /\ Offered' /\ Routed' /\ Arrived' /\ Ahead' /\ Repeated' /\ Done' = {}
        /\ job'.phase # "reindex"
    BY <1>1, Over DEF Idle
  <1>4. CASE Crash
    <2>1. stranded'
      BY <1>4 DEF Crash
    <2> QED BY <2>1, <1>2, <1>3 DEF EditInv, IndexInv
  <1>5. CASE Decline \/ WriteTags
    <2>1. Done = {} /\ stranded' = stranded
      BY <1>5 DEF Decline, WriteTags, history, Done, Passed, Away
    <2>2. IndexInv'
      BY <1>1, <1>3, <2>1, IndexInvStays
    <2> QED BY <2>2, <1>2, <1>3 DEF EditInv
  <1> QED BY <1>4, <1>5

LEMMA SetAttrsEdits ==
    ASSUME FilesInv, FilesInv', EditInv, IndexInv, SetAttrs
    PROVE  EditInv' /\ IndexInv'
  <1> DEFINE At(a) == IF TargetOf(a.item) = <<>> THEN a.from ELSE TargetOf(a.item)[1]
             bad == SelectInSeq(job.attrs, LAMBDA a : ~Exists(At(a)))
             done == IF bad = 0 THEN job.attrs ELSE SubSeq(job.attrs, 1, bad - 1)
             set == {At(a) : a \in ToSet(done)}
             j == [job EXCEPT !.attrsSet = set]
  <1>1. /\ fs' = fs /\ refs' = refs /\ locations' = locations /\ nextIno' = nextIno
        /\ stranded' = stranded /\ nextIno \in Nat /\ job.phase = "move"
        /\ Fields \subseteq DOMAIN job
    BY DEF SetAttrs, index, history, FilesInv, FsOK, JobOK, Idle
  <1>2. job' = IF bad # 0 THEN Abort(j)
               ELSE IF j.moved = <<>> /\ j.attrsSet = {}
                    THEN [j EXCEPT !.phase = "tags"]
               ELSE [j EXCEPT !.phase = "rebind"]
    BY DEF SetAttrs
  <1> HIDE DEF set, bad
  <1>3. /\ Fields \subseteq DOMAIN j /\ j.moves = job.moves /\ j.moved = job.moved
        /\ j.next = job.next
    BY <1>1 DEF Fields
  <1> HIDE DEF j
  <1>4. \/ job' = Abort(j) \/ job' = [j EXCEPT !.phase = "rebind"]
        \/ j.moved = <<>> /\ job' = [j EXCEPT !.phase = "tags"]
    BY <1>2
  <1>5. Halts
    BY <1>1, <1>3, <1>4, JobStops
  <1>6. nextIno <= nextIno'
    BY <1>1
  <1> QED BY <1>1, <1>5, <1>6, StopKeepsFiles

-----------------------------------------------------------------------------
(* The index is brought up to date. *)

LEMMA LeastIs ==
    ASSUME NEW S \in SUBSET Nat, S # {}
    PROVE  Min(S) \in S /\ \A x \in S : Min(S) <= x
  <1>1. \E x \in S : \A y \in S : x <= y
    BY LeastNumber
  <1> QED BY <1>1 DEF Min

\* What the job has noted, of each move that is made.
LEMMA TracksAre ==
    ASSUME EditInv, Away
    PROVE  /\ Len(job.moved) \in Nat /\ DOMAIN job.moved = 1 .. Len(job.moved)
           /\ Passed = 1 .. Len(job.moved)
           /\ \A k \in Passed : /\ k \in DOMAIN job.moves /\ job.moves[k] \in PlannedMove
                                /\ job.moved[k] = Track(job.moves[k])
                                /\ job.moves[k].to \in DOMAIN fs
                                /\ \E l \in 1 .. k :
                                      /\ job.moves[l] \in Done
                                      /\ job.moves[l].from = job.moves[k].from
                                      /\ Alike(job.moves[l], job.moves[k])
           /\ \A m \in Done : \E k \in Passed : First(k) /\ m = job.moves[k]
  <1>1. /\ job.moved \in Seq(Tracks) /\ Len(job.moved) = job.next - 1
        /\ \A k \in 1 .. job.next - 1 : job.moved[k] = Track(job.moves[k])
        /\ job.moves \in Seq(PlannedMove) /\ job.next - 1 <= Len(job.moves)
        /\ Separate(job.moves)
    BY DEF EditInv, Routed
  <1>2. Len(job.moved) \in Nat /\ DOMAIN job.moved = 1 .. Len(job.moved)
    BY <1>1
  <1>3. Passed = 1 .. Len(job.moved)
    BY <1>1, PassedIs
  <1>4. ASSUME NEW k \in Passed
        PROVE  k \in DOMAIN job.moves /\ job.moves[k] \in PlannedMove /\ k \in Nat \ {0}
    <2>1. k \in 1 .. Len(job.moves)
      BY <1>1, <1>2, <1>3
    <2> QED BY <2>1, <1>1
  <1>5. ASSUME NEW k \in Passed
        PROVE  \E l \in 1 .. k : /\ job.moves[l] \in Done
                                 /\ job.moves[l].from = job.moves[k].from
                                 /\ Alike(job.moves[l], job.moves[k])
    <2>1. PICK l \in 1 .. k : First(l) /\ job.moves[l].from = job.moves[k].from
      BY <1>4, FirstOf
    <2>2. l \in Passed
      BY <1>2, <1>3
    <2>3. job.moves[l] \in Done
      BY <2>1, <2>2, DoneIs
    <2>4. Alike(job.moves[l], job.moves[k])
      <3>1. CASE l = k
        BY <3>1 DEF Alike
      <3>2. CASE l # k
        <4>1. Sundered(job.moves[l], job.moves[k]) \/ Again(job.moves[l], job.moves[k])
          BY <3>2, <2>2, <1>1, <1>4 DEF Separate
        <4>2. IsPrefix(job.moves[k].from, job.moves[k].from)
          BY <1>4, PathsAre, PrefixRefl DEF PlannedMove
        <4> QED BY <4>1, <4>2, <2>1 DEF Sundered, Again
      <3> QED BY <3>1, <3>2
    <2> QED BY <2>1, <2>3, <2>4
  <1>6. \A k \in Passed : job.moved[k] = Track(job.moves[k]) /\ job.moves[k].to \in DOMAIN fs
    BY <1>1, <1>3 DEF EditInv, Repeated
  <1> QED BY <1>2, <1>3, <1>4, <1>5, <1>6, DoneIs

\* Each move that is made has a target of its own.
LEMMA DoneApart ==
    ASSUME FilesInv, EditInv, Away
    PROVE  /\ \A m \in Done : m \in PlannedMove
           /\ \A m, o \in Done : m.to = o.to => m = o
  <1>1. /\ job.moves \in Seq(PlannedMove) /\ Separate(job.moves)
        /\ job.next - 1 <= Len(job.moves)
    BY DEF EditInv, Routed
  <1>2. /\ Len(job.moves) \in Nat /\ DOMAIN job.moves = 1 .. Len(job.moves)
        /\ job.next \in Nat
    BY <1>1 DEF FilesInv, JobOK, Away, Idle
  <1>3. \A k \in 1 .. job.next - 1 : k \in DOMAIN job.moves /\ job.moves[k] \in PlannedMove
    BY <1>1, <1>2
  <1>4. \A k, l \in 1 .. job.next - 1 : job.moves[k].to = job.moves[l].to => k = l
    <2> SUFFICES ASSUME NEW k \in 1 .. job.next - 1, NEW l \in 1 .. job.next - 1,
                        job.moves[k].to = job.moves[l].to, k # l
                 PROVE  FALSE
      OBVIOUS
    <2>1. ~IsPrefix(job.moves[k].to, job.moves[k].to)
      BY <1>1, <1>3 DEF Separate, Sundered, Again
    <2> QED BY <2>1, <1>3, PathsAre, PrefixRefl DEF PlannedMove
  <1> QED BY <1>3, <1>4, PassedIs, DoneIs

LEMMA ReboundIs ==
    ASSUME EditInv, Away
    PROVE  /\ DOMAIN Rebound = DOMAIN refs
           /\ \A i \in DOMAIN refs :
                 \/ /\ Rebound[i] = refs[i]
                    /\ ~\E m \in Done : m.crossed /\ m.item = i
                 \/ \E m \in Done : m.crossed /\ m.item = i /\ Rebound[i] = fs[m.to].ino
  <1> DEFINE hit(i) == {k \in 1 .. Len(job.moved) :
                          job.moved[k].crossed /\ job.moved[k].item = i}
             at(i) == SelectInSeq(job.moved, LAMBDA m : m.crossed /\ m.item = i)
  <1>1. /\ DOMAIN Rebound = DOMAIN refs
        /\ \A i \in DOMAIN refs :
              Rebound[i] = IF at(i) = 0 THEN refs[i] ELSE fs[job.moved[at(i)].to].ino
    BY DEF Rebound
  <1>2. \A i : at(i) = IF hit(i) # {} THEN Min(hit(i)) ELSE 0
    BY DEF SelectInSeq
  <1>3. \A i : hit(i) # {} => Min(hit(i)) \in hit(i) /\ \A k \in hit(i) : Min(hit(i)) <= k
    <2> SUFFICES ASSUME NEW i, hit(i) # {}
                 PROVE  Min(hit(i)) \in hit(i) /\ \A k \in hit(i) : Min(hit(i)) <= k
      OBVIOUS
    <2>1. hit(i) \in SUBSET Nat
      OBVIOUS
    <2> HIDE DEF hit
    <2> QED BY <2>1, LeastIs
  <1> HIDE DEF at
  <1>4. /\ \A k \in 1 .. Len(job.moved) :
              /\ job.moved[k] = Track(job.moves[k])
              /\ \E l \in 1 .. k : /\ job.moves[l] \in Done
                                   /\ Alike(job.moves[l], job.moves[k])
        /\ \A m \in Done : \E k \in 1 .. Len(job.moved) : m = job.moves[k]
        /\ Len(job.moved) \in Nat
    BY TracksAre
  <1> SUFFICES ASSUME NEW i \in DOMAIN refs
               PROVE  \/ /\ Rebound[i] = refs[i]
                         /\ ~\E m \in Done : m.crossed /\ m.item = i
                      \/ \E m \in Done : m.crossed /\ m.item = i
                                         /\ Rebound[i] = fs[m.to].ino
    BY <1>1
  <1>5. CASE hit(i) = {}
    <2>1. Rebound[i] = refs[i]
      BY <1>1, <1>2, <1>5
    <2>2. ~\E m \in Done : m.crossed /\ m.item = i
      <3> SUFFICES ASSUME NEW m \in Done, m.crossed, m.item = i PROVE FALSE
        OBVIOUS
      <3>1. PICK k \in 1 .. Len(job.moved) : job.moved[k] = Track(m)
        BY <1>4
      <3>2. job.moved[k].crossed /\ job.moved[k].item = i
        BY <3>1 DEF Track
      <3> QED BY <3>2, <1>5
    <2> QED BY <2>1, <2>2
  <1>6. CASE hit(i) # {}
    <2> DEFINE k == at(i)
    <2>1. /\ k \in 1 .. Len(job.moved) /\ job.moved[k].crossed /\ job.moved[k].item = i
          /\ \A l \in hit(i) : k <= l
      BY <1>2, <1>3, <1>6
    <2>2. k # 0
      BY <2>1, <1>4
    <2>3. Rebound[i] = fs[job.moved[k].to].ino
      BY <1>1, <2>2
    <2> HIDE DEF k
    \* No move before it is of the same path.
    <2>4. PICK l \in 1 .. k : job.moves[l] \in Done /\ Alike(job.moves[l], job.moves[k])
      BY <2>1, <1>4
    <2>5. l \in 1 .. Len(job.moved) /\ l <= k
      BY <2>1, <1>4
    <2>5a. job.moved[k] = Track(job.moves[k]) /\ job.moved[l] = Track(job.moves[l])
      BY <2>1, <2>5, <1>4
    <2>6. l \in hit(i)
      BY <2>1, <2>4, <2>5, <2>5a DEF Track, Alike
    <2>7. l = k
      BY <2>1, <2>5, <2>6, <1>4
    <2>8. job.moved[k].to = job.moves[k].to /\ job.moves[k].item = i /\ job.moves[k].crossed
      BY <2>1, <2>5a DEF Track
    <2> QED BY <2>3, <2>4, <2>7, <2>8
  <1> QED BY <1>5, <1>6

LEMMA RebindEdits ==
    ASSUME FilesInv, EditInv, IndexInv, Rebind
    PROVE  /\ EditInv' /\ IndexInv'
           /\ job' = [job EXCEPT !.phase = "reindex"]
  <1>1. /\ fs' = fs /\ locations' = locations /\ nextIno' = nextIno
        /\ stranded' = stranded /\ job.phase = "rebind" /\ Fields \subseteq DOMAIN job
        /\ Away /\ nextIno \in Nat /\ \A p \in DOMAIN fs : fs[p].ino \in Nat
                                                          /\ fs[p].ino < nextIno
    BY InosAre DEF Rebind, history, FilesInv, JobOK, Idle, Away
  <1>2. \A m \in ToSet(job.moved) : m.crossed => Exists(m.to)
    <2> SUFFICES ASSUME NEW k \in DOMAIN job.moved PROVE Exists(job.moved[k].to)
      BY DEF ToSet
    <2>1. job.moved[k] = Track(job.moves[k]) /\ job.moves[k].to \in DOMAIN fs
      BY <1>1, TracksAre
    <2> QED BY <2>1 DEF Track, Exists
  <1>3. refs' = Rebound /\ job' = [job EXCEPT !.phase = "reindex"]
    BY <1>2 DEF Rebind
  <1>4. /\ job'.phase = "reindex" /\ job'.moves = job.moves /\ job'.next = job.next
        /\ job'.moved = job.moved
    BY <1>1, <1>3 DEF Fields
  <1>5. /\ Away' /\ ~Underway' /\ Done' = Done /\ Passed' = Passed /\ Left' = {}
        /\ Repeats' = {}
    BY <1>1, <1>4 DEF Away, Underway, Passed, Coming, Done, Left, Repeats, First
  <1>6. \A p, i : HasRow(p, i)' <=> HasRow(p, i)
    BY <1>1 DEF HasRow
  <1>7. Offered' /\ Routed' /\ Ahead' /\ Keyed' /\ Repeated'
    <2>1. Offered' /\ Ahead'
      BY <1>4, <1>5 DEF Offered, Ahead
    <2>2. Routed'
      BY <1>1, <1>4, <1>6 DEF Routed, EditInv
    <2>3. Keyed'
      BY <1>1 DEF EditInv, Keyed
    <2>4. Repeated'
      BY <1>1, <1>4, <1>5 DEF EditInv, Repeated
    <2> QED BY <2>1, <2>2, <2>3, <2>4
  <1>8. /\ DOMAIN refs' = DOMAIN refs
        /\ \A i \in DOMAIN refs :
              \/ refs'[i] = refs[i] /\ ~\E m \in Done : m.crossed /\ m.item = i
              \/ \E m \in Done : m.crossed /\ m.item = i /\ refs'[i] = fs[m.to].ino
    BY <1>1, <1>3, ReboundIs
  <1>9. \A m \in Done : /\ m.to \in DOMAIN fs
                        /\ m.crossed => Alone(m.to) /\ fs[m.to].ino \notin Known
    BY <1>1 DEF EditInv, Arrived
  <1>10. \A m \in Done : m.item \in Items /\ m.to \in Paths
    BY <1>1, DoneApart DEF PlannedMove
  <1>11. RefsOK'
    <2>1. DOMAIN refs' = {l.item : l \in locations'}
      BY <1>1, <1>8 DEF EditInv, RefsOK
    <2>2. ASSUME NEW i \in DOMAIN refs
          PROVE  /\ refs'[i] \in Nat /\ refs'[i] < nextIno
                 /\ i \in Items \/ i = NewItem(refs'[i])
      <3>1. CASE refs'[i] = refs[i]
        BY <3>1 DEF EditInv, RefsOK
      <3>2. ASSUME NEW m \in Done, m.item = i, refs'[i] = fs[m.to].ino
            PROVE  refs'[i] \in Nat /\ refs'[i] < nextIno /\ i \in Items
        BY <3>2, <1>1, <1>9, <1>10
      <3> QED BY <3>1, <3>2, <1>8
    <2>3. ASSUME NEW i \in DOMAIN refs, NEW j \in DOMAIN refs, refs'[i] = refs'[j]
          PROVE  i = j
      <3>1. \A k \in DOMAIN refs : refs[k] \in Known
        BY DEF Known
      <3>2. CASE refs'[i] = refs[i] /\ refs'[j] = refs[j]
        BY <2>3, <3>2 DEF EditInv, RefsOK
      <3>3. ASSUME NEW m \in Done, m.crossed, NEW o \in Done, o.crossed,
                   fs[m.to].ino = fs[o.to].ino
            PROVE  m = o
        <4>1. m.to = o.to
          BY <3>3, <1>9 DEF Alone
        <4> QED BY <4>1, <1>1, DoneApart
      <3> QED BY <3>1, <3>2, <3>3, <2>3, <1>8, <1>9
    <2> QED BY <2>1, <2>2, <2>3, <1>1, <1>8 DEF RefsOK, NewItem
  <1>12. Arrived'
    <2>1. \A p : Alone(p)' <=> Alone(p)
      BY <1>1 DEF Alone
    <2> QED BY <2>1, <1>1, <1>4, <1>5, <1>9 DEF Arrived
  <1>13. IndexInv'
    <2> SUFFICES ASSUME ~stranded PROVE IndexInv'
      BY <1>1 DEF IndexInv
    <2>1. /\ Honest /\ \A l \in locations : Gone(l) \/ RowOK(l)
          /\ \A m \in Done : fs[m.to].what = m.item
          /\ ~DirCopies => \A i \in Items : i \in DOMAIN refs /\ Anchored(i)
      BY DEF IndexInv
    <2>2. Honest'
      <3> SUFFICES ASSUME NEW p \in DOMAIN fs, NEW i \in Items \cap DOMAIN refs,
                          fs[p].ino = refs'[i]
                   PROVE  fs[p].what = i
        BY <1>1, <1>8 DEF Honest
      <3>1. CASE refs'[i] = refs[i]
        BY <3>1, <2>1 DEF Honest
      <3>2. ASSUME NEW m \in Done, m.crossed, m.item = i, refs'[i] = fs[m.to].ino
            PROVE  fs[p].what = i
        <4>1. p = m.to
          BY <3>2, <1>9 DEF Alone
        <4> QED BY <4>1, <3>2, <2>1
      <3> QED BY <3>1, <3>2, <1>8
    <2>3. ASSUME NEW l \in locations PROVE Gone(l)' \/ RowOK(l)'
      <3>1. Gone(l) => Gone(l)'
        BY <1>5 DEF Gone
      <3>2. l.item \in DOMAIN refs
        BY DEF EditInv, RefsOK
      <3>3. l.item \notin Items => refs'[l.item] = refs[l.item]
        BY <3>2, <1>8, <1>10
      <3>4. RowOK(l) => RowOK(l)'
        BY <1>1, <3>3 DEF RowOK
      <3> QED BY <3>1, <3>4, <2>1
    <2>4. ASSUME ~DirCopies, NEW i \in Items PROVE i \in DOMAIN refs' /\ Anchored(i)'
      <3>1. i \in DOMAIN refs /\ Anchored(i)
        BY <2>1, <2>4
      <3>2. ASSUME NEW m \in Done, refs'[i] = fs[m.to].ino
            PROVE  Anchored(i)'
        <4>1. m.to \in DOMAIN fs' /\ fs'[m.to].ino = refs'[i]
          BY <3>2, <1>1, <1>9
        <4>2. m \in Done' /\ IsPrefix(m.to, m.to)
          BY <1>5, <1>10, PathsAre, PrefixRefl
        <4> QED BY <4>1, <4>2 DEF Anchored
      <3>3. CASE refs'[i] = refs[i] /\ ~\E m \in Done : m.crossed /\ m.item = i
        <4>1. PICK p \in DOMAIN fs :
                 /\ fs[p].ino = refs[i]
                 /\ HasRow(p, i) \/ \E m \in Done : IsPrefix(m.to, p)
          BY <3>1, <3>3 DEF Anchored
        <4>2. p \in DOMAIN fs' /\ fs'[p].ino = refs'[i]
          BY <4>1, <3>3, <1>1
        <4>3. HasRow(p, i)' \/ \E m \in Done' : IsPrefix(m.to, p)
          BY <4>1, <1>5, <1>6
        <4> QED BY <4>2, <4>3, <3>1, <1>8 DEF Anchored
      <3> QED BY <3>1, <3>2, <3>3, <1>8
    <2> QED BY <2>1, <2>2, <2>3, <2>4, <1>1, <1>5 DEF IndexInv
  <1> QED BY <1>3, <1>7, <1>11, <1>12, <1>13 DEF EditInv

\* An item is known by its file_id, or it is new.
LEMMA IdIs ==
    ASSUME RefsOK, NEW ino \in Nat
    PROVE  \/ IdOf(ino) \in DOMAIN refs /\ refs[IdOf(ino)] = ino
           \/ ino \notin Known /\ IdOf(ino) = NewItem(ino)
  <1> DEFINE known == {i \in DOMAIN refs : refs[i] = ino}
  <1>1. CASE known = {}
    BY <1>1 DEF IdOf, Known
  <1>2. CASE known # {}
    <2>1. PICK i \in DOMAIN refs : refs[i] = ino
      BY <1>2
    <2>2. \A k \in known : k = i
      BY <2>1 DEF RefsOK
    <2>3. i <= i
      <3>1. i \in Items \/ i = NewItem(refs[i])
        BY DEF RefsOK
      <3>2. FirstIno + ino \in Nat
        BY TreeAssumption
      <3>3. i \in Nat
        BY <3>1, <3>2, <2>1, TreeAssumption DEF NewItem
      <3> QED BY <3>3
    <2>4. (CHOOSE k \in known : \A l \in known : k <= l) \in known
      BY <2>1, <2>2, <2>3
    <2> QED BY <2>4, <1>2 DEF IdOf
  <1> QED BY <1>1, <1>2

\* An item that is new is none of those that were there at the start.
LEMMA NewItemIsNew ==
    ASSUME NEW ino \in Nat
    PROVE  NewItem(ino) \notin Items /\ NewItem(ino) \in Nat
           /\ NewItem(ino) - FirstIno = ino
  <1>1. FirstIno \in Nat /\ NewItem(ino) = FirstIno + ino
    BY TreeAssumption DEF NewItem
  <1>2. ASSUME NEW i \in Items PROVE i \in Nat /\ i < FirstIno
    <2>1. PICK p \in DOMAIN Tree : Tree[p].what = i
      BY TreeAssumption
    <2>2. Tree[p].ino = i /\ Tree[p].ino < FirstIno
      BY <2>1, TreeAssumption
    <2> QED BY <2>2, TreeAssumption
  <1> QED BY <1>1, <1>2

\* The directories on both ends of the moves that are made are looked through.
LEMMA TouchedAre ==
    ASSUME FilesInv, EditInv, Away, NEW k \in Passed, NEW m, m = job.moves[k],
           NEW p \in Paths
    PROVE  /\ IsPrefix(m.from, p) => \E d \in TouchedDirs : IsPrefix(d, p)
           /\ IsPrefix(m.to, p) => \E d \in TouchedDirs : IsPrefix(d, p)
  <1>1. m.from \in Paths /\ m.to \in Paths
    BY TracksAre DEF PlannedMove
  <1>2. ASSUME NEW u \in Paths, IsPrefix(u, p) PROVE IsPrefix(Parent(u), p)
    <2>1. /\ Parent(u) \in Seq(Names) /\ Len(Parent(u)) = Len(u) - 1
          /\ \A n \in 1 .. Len(u) - 1 : Parent(u)[n] = u[n]
      BY ParentType
    <2>2. u \in Seq(Names) /\ p \in Seq(Names) /\ Len(u) \in Nat \ {0} /\ Len(p) \in Nat
      BY PathsAre
    <2>3. Len(u) <= Len(p) /\ \A n \in 1 .. Len(u) : u[n] = p[n]
      BY <1>2, <2>2, PrefixMeans
    <2>4. Len(Parent(u)) <= Len(p) /\ \A n \in 1 .. Len(Parent(u)) : Parent(u)[n] = p[n]
      BY <2>1, <2>2, <2>3
    <2> QED BY <2>1, <2>2, <2>4, PrefixMeans
  <1>4. k \in DOMAIN job.moves /\ k \in DOMAIN job.moved /\ job.moved[k] = Track(m)
    BY TracksAre
  <1>5. Parent(m.from) \in TouchedDirs
    BY <1>4 DEF TouchedDirs, ToSet
  <1>6. Parent(m.to) \in TouchedDirs
    <2>1. job.moved[k] \in ToSet(job.moved) /\ job.moved[k].to = m.to
      BY <1>4 DEF ToSet, Track
    <2> QED BY <2>1 DEF TouchedDirs
  <1> QED BY <1>1, <1>2, <1>5, <1>6

LEMMA ReindexEdits ==
    ASSUME FilesInv, EditInv, IndexInv, Reindex
    PROVE  EditInv' /\ IndexInv'
  <1> DEFINE In(p) == \E d \in TouchedDirs : IsPrefix(d, p)
             ids == {l.item : l \in Indexed(TouchedDirs)}
             InoOf(i) == fs[(CHOOSE l \in locations' : l.item = i).path].ino
  <1>1. /\ fs' = fs /\ nextIno' = nextIno /\ stranded' = stranded
        /\ job.phase = "reindex" /\ Away /\ Fields \subseteq DOMAIN job
        /\ nextIno \in Nat
        /\ \A p \in DOMAIN fs : fs[p].ino \in Nat /\ fs[p].ino < nextIno
        /\ DOMAIN fs \subseteq Paths /\ \A l \in locations : l.path \in Paths
    BY InosAre DEF Reindex, history, FilesInv, JobOK, Idle, Away, FsOK, IsTree, LocationsOK
  <1>2. job'.phase \in {"idle", "tags"}
    BY <1>1 DEF Reindex, Idle, Fields
  <1>3. /\ Offered' /\ Routed' /\ Arrived' /\ Ahead' /\ Repeated' /\ Done' = {}
        /\ job'.phase # "reindex"
    BY <1>2, Over
  <1>4. locations' = Indexed(TouchedDirs)
    BY DEF Reindex, Index
  <1>5. refs' = [i \in ids |-> IF i \in DOMAIN refs THEN refs[i] ELSE InoOf(i)]
    BY <1>4 DEF Reindex, Index
  <1>6. /\ \A l \in locations' :
              \/ l.path \in DOMAIN fs /\ In(l.path) /\ l.item = IdOf(fs[l.path].ino)
              \/ l \in locations /\ ~In(l.path)
        /\ \A p \in DOMAIN fs : In(p) =>
              \E l \in locations' : l.path = p /\ l.item = IdOf(fs[p].ino)
        /\ \A l \in locations : ~In(l.path) => l \in locations'
    <2>1. Indexed(TouchedDirs) =
             {[path |-> p, item |-> IdOf(fs[p].ino)] : p \in {q \in DOMAIN fs : In(q)}}
             \cup {l \in locations : ~In(l.path)}
      BY DEF Indexed
    <2>2. \A p \in DOMAIN fs : In(p) =>
             [path |-> p, item |-> IdOf(fs[p].ino)] \in locations'
      BY <1>4, <2>1
    <2>3. \A p \in DOMAIN fs : In(p) =>
             \E l \in locations' : l.path = p /\ l.item = IdOf(fs[p].ino)
      <3> SUFFICES ASSUME NEW p \in DOMAIN fs, In(p)
                   PROVE  \E l \in locations' : l.path = p /\ l.item = IdOf(fs[p].ino)
        OBVIOUS
      <3>1. [path |-> p, item |-> IdOf(fs[p].ino)] \in locations'
        BY <2>2
      <3> QED BY <3>1
    <2>4. \A l \in locations' :
              \/ l.path \in DOMAIN fs /\ In(l.path) /\ l.item = IdOf(fs[l.path].ino)
              \/ l \in locations /\ ~In(l.path)
      BY <1>4, <2>1
    <2>5. \A l \in locations : ~In(l.path) => l \in locations'
      BY <1>4, <2>1
    <2> QED BY <2>3, <2>4, <2>5
  <1>7. ids = {l.item : l \in locations'}
    BY <1>4
  <1> HIDE DEF In, ids
  <1>8. RefsOK /\ \A l \in locations : l.item \in DOMAIN refs
    BY DEF EditInv, RefsOK
  <1>9. ASSUME NEW l \in locations', l.item \notin DOMAIN refs
        PROVE  /\ l.path \in DOMAIN fs /\ fs[l.path].ino \notin Known
               /\ l.item = NewItem(fs[l.path].ino)
    BY <1>1, <1>6, <1>8, <1>9, IdIs
  <1>10. ASSUME NEW i \in DOMAIN refs'
         PROVE  \/ i \in DOMAIN refs /\ refs'[i] = refs[i]
                \/ /\ i \notin DOMAIN refs /\ refs'[i] \in Nat /\ refs'[i] < nextIno
                   /\ refs'[i] \notin Known /\ i = NewItem(refs'[i]) /\ i \notin Items
    <2>1. i \in ids /\ (i \in DOMAIN refs => refs'[i] = refs[i])
      BY <1>5
    <2>2. CASE i \notin DOMAIN refs
      <3> DEFINE row == CHOOSE l \in locations' : l.item = i
      <3>1. row \in locations' /\ row.item = i
        BY <2>1, <1>7
      <3>2. refs'[i] = fs[row.path].ino
        BY <2>1, <2>2, <1>5
      <3> HIDE DEF row
      <3>3. /\ row.path \in DOMAIN fs /\ fs[row.path].ino \notin Known
            /\ i = NewItem(fs[row.path].ino)
        BY <3>1, <2>2, <1>9
      <3> QED BY <2>2, <3>2, <3>3, <1>1, NewItemIsNew
    <2> QED BY <2>1, <2>2
  <1>11. /\ DOMAIN refs' = {l.item : l \in locations'}
         /\ \A i \in DOMAIN refs : i \in DOMAIN refs' => refs'[i] = refs[i]
    BY <1>5, <1>7
  <1>12. RefsOK'
    <2>1. \A i \in DOMAIN refs : /\ refs[i] \in Nat /\ refs[i] < nextIno
                                 /\ i \in Items \/ i = NewItem(refs[i])
      BY <1>8 DEF RefsOK
    <2>2. ASSUME NEW i \in DOMAIN refs'
          PROVE  /\ refs'[i] \in Nat /\ refs'[i] < nextIno
                 /\ i \in Items \/ i = NewItem(refs'[i])
      BY <1>10, <2>1
    <2>3. ASSUME NEW i \in DOMAIN refs', NEW j \in DOMAIN refs', refs'[i] = refs'[j]
          PROVE  i = j
      <3>1. CASE i \in DOMAIN refs /\ j \in DOMAIN refs
        BY <3>1, <2>3, <1>8, <1>11 DEF RefsOK
      <3>2. CASE i \notin DOMAIN refs /\ j \notin DOMAIN refs
        <4>1. i = NewItem(refs'[i]) /\ j = NewItem(refs'[j])
          BY <3>2, <1>10
        <4> QED BY <4>1, <2>3
      <3>3. \A k \in DOMAIN refs : refs[k] \in Known
        BY DEF Known
      <3> QED BY <3>1, <3>2, <3>3, <2>3, <1>10
    <2> QED BY <2>2, <2>3, <1>1, <1>11 DEF RefsOK, NewItem
  <1>13. Keyed'
    <2> SUFFICES ASSUME NEW l \in locations', NEW k \in locations', l.path = k.path
                 PROVE  l.item = k.item
      BY DEF Keyed
    <2> QED BY <1>6 DEF EditInv, Keyed
  <1>14. IndexInv'
    <2> SUFFICES ASSUME ~stranded PROVE IndexInv'
      BY <1>1 DEF IndexInv
    <2>1. /\ Honest /\ \A l \in locations : Gone(l) \/ RowOK(l)
          /\ ~DirCopies => \A i \in Items : i \in DOMAIN refs /\ Anchored(i)
      BY DEF IndexInv
    <2>2. Honest'
      <3> SUFFICES ASSUME NEW p \in DOMAIN fs, NEW i \in Items \cap DOMAIN refs',
                          fs[p].ino = refs'[i]
                   PROVE  fs[p].what = i
        BY <1>1 DEF Honest
      <3>1. i \in DOMAIN refs /\ refs'[i] = refs[i]
        BY <1>10
      <3> QED BY <3>1, <2>1 DEF Honest
    <2>3. ASSUME NEW l \in locations' PROVE RowOK(l)'
      <3>1. l.item \in DOMAIN refs'
        BY <1>11
      <3>2. CASE l.path \in DOMAIN fs /\ In(l.path) /\ l.item = IdOf(fs[l.path].ino)
        <4>1. fs[l.path].ino \in Nat
          BY <3>2, <1>1
        <4>2. CASE l.item \in DOMAIN refs
          <5>1. refs[l.item] = fs[l.path].ino
            <6>1. CASE refs[l.item] = fs[l.path].ino
              BY <6>1
            <6>2. CASE fs[l.path].ino \notin Known /\ l.item = NewItem(fs[l.path].ino)
              <7>1. l.item \notin Items /\ l.item = NewItem(refs[l.item])
                    /\ refs[l.item] \in Nat
                BY <4>1, <4>2, <6>2, <1>8, NewItemIsNew DEF RefsOK
              <7>2. refs[l.item] = l.item - FirstIno /\ fs[l.path].ino = l.item - FirstIno
                BY <4>1, <6>2, <7>1, NewItemIsNew
              <7> QED BY <7>2
            <6> QED BY <3>2, <4>1, <6>1, <6>2, <1>8, IdIs
          <5>2. refs'[l.item] = refs[l.item]
            BY <3>1, <4>2, <1>11
          <5>3. l.item \in Items => fs[l.path].what = l.item
            BY <5>1, <3>2, <4>2, <2>1 DEF Honest
          <5> QED BY <5>1, <5>2, <5>3, <3>2, <1>1 DEF RowOK
        <4>3. CASE l.item \notin DOMAIN refs
          <5>1. l.item = NewItem(fs[l.path].ino) /\ l.item = NewItem(refs'[l.item])
                /\ l.item \notin Items /\ refs'[l.item] \in Nat
            BY <3>1, <4>3, <1>9, <1>10
          <5>2. refs'[l.item] = l.item - FirstIno /\ fs[l.path].ino = l.item - FirstIno
            BY <5>1, <4>1, NewItemIsNew
          <5> QED BY <5>1, <5>2, <3>2, <1>1 DEF RowOK
        <4> QED BY <4>2, <4>3
      <3>3. CASE l \in locations /\ ~In(l.path)
        <4>1. ~Gone(l)
          BY <3>3, <1>1, DoneIs, TouchedAre DEF Gone, In
        <4>2. RowOK(l) /\ l.item \in DOMAIN refs
          BY <3>3, <4>1, <2>1, <1>8
        <4>3. refs'[l.item] = refs[l.item]
          BY <3>1, <4>2, <1>11
        <4> QED BY <4>2, <4>3, <1>1 DEF RowOK
      <3> QED BY <3>2, <3>3, <1>6
    <2>4. ASSUME ~DirCopies, NEW i \in Items PROVE i \in DOMAIN refs' /\ Anchored(i)'
      <3>1. i \in DOMAIN refs /\ Anchored(i)
        BY <2>1, <2>4
      <3>2. PICK p \in DOMAIN fs :
               /\ fs[p].ino = refs[i]
               /\ HasRow(p, i) \/ \E m \in Done : IsPrefix(m.to, p)
        BY <3>1, <1>1 DEF Anchored
      <3>3. HasRow(p, i)'
        <4>1. CASE In(p)
          <5>1. fs[p].ino \in Known
            BY <3>1, <3>2 DEF Known
          <5>2. IdOf(fs[p].ino) \in DOMAIN refs /\ refs[IdOf(fs[p].ino)] = refs[i]
            BY <5>1, <3>2, <1>1, <1>8, IdIs
          <5>3. IdOf(fs[p].ino) = i
            BY <5>2, <3>1, <1>8 DEF RefsOK
          <5> QED BY <5>3, <4>1, <1>6 DEF HasRow
        <4>2. CASE ~In(p)
          <5>1. HasRow(p, i)
            BY <3>2, <4>2, <1>1, DoneIs, TouchedAre DEF In
          <5>2. PICK l \in locations : l.path = p /\ l.item = i
            BY <5>1 DEF HasRow
          <5>3. l \in locations'
            BY <5>2, <4>2, <1>6
          <5> QED BY <5>2, <5>3 DEF HasRow
        <4> QED BY <4>1, <4>2
      <3>4. i \in DOMAIN refs' /\ refs'[i] = refs[i]
        BY <3>1, <3>3, <1>11 DEF HasRow
      <3> QED BY <3>2, <3>3, <3>4, <1>1 DEF Anchored
    <2> QED BY <2>2, <2>3, <2>4, <1>3 DEF IndexInv
  <1> QED BY <1>3, <1>12, <1>13, <1>14 DEF EditInv

LEMMA InitEdits ==
    ASSUME Init
    PROVE  EditInv /\ IndexInv
  <1>1. /\ fs = Tree /\ refs = [i \in Items |-> i] /\ job.phase = "idle"
        /\ nextIno = FirstIno
        /\ locations = {[path |-> p, item |-> Tree[p].what] :
                           p \in {q \in DOMAIN Tree : Tree[q].what \in Items}}
    BY DEF Init, Idle
  <1>2. \A l \in locations : /\ l.path \in DOMAIN Tree /\ l.item = Tree[l.path].what
                             /\ l.item \in Items
    BY <1>1
  <1>3. \A p \in DOMAIN Tree : Tree[p].what \in Items => HasRow(p, Tree[p].what)
    <2> SUFFICES ASSUME NEW p \in DOMAIN Tree, Tree[p].what \in Items
                 PROVE  \E l \in locations : l.path = p /\ l.item = Tree[p].what
      BY DEF HasRow
    <2>1. [path |-> p, item |-> Tree[p].what] \in locations
      BY <1>1
    <2> QED BY <2>1
  <1>4. \A i \in Items : \E p \in DOMAIN Tree : Tree[p].ino = i /\ Tree[p].what = i
    BY TreeAssumption
  <1>5. /\ ~Away /\ Done = {} /\ Left = {} /\ Offered /\ Routed /\ Arrived /\ Ahead
        /\ Repeated
    <2>1. ~Away /\ ~Underway
      BY <1>1 DEF Away, Underway
    <2>2. Done = {} /\ Left = {} /\ Repeats = {} /\ Passed = {}
      BY <2>1, PassedIs
    <2> QED BY <1>1, <2>1, <2>2 DEF Offered, Routed, Arrived, Ahead, Repeated
  <1>6. Keyed
    BY <1>2 DEF Keyed
  <1>7. DOMAIN refs = {l.item : l \in locations}
    <2>1. \A i \in Items : \E l \in locations : l.item = i
      BY <1>3, <1>4 DEF HasRow
    <2> QED BY <2>1, <1>1, <1>2
  <1>8. RefsOK
    <2>1. \A i \in Items : i \in Nat /\ i < FirstIno
      BY <1>4, TreeAssumption
    <2> QED BY <2>1, <1>1, <1>7 DEF RefsOK
  <1>9. Honest
    BY <1>1, TreeAssumption DEF Honest
  <1>10. \A l \in locations : RowOK(l)
    BY <1>1, <1>2 DEF RowOK
  <1>11. ASSUME NEW i \in Items PROVE i \in DOMAIN refs /\ Anchored(i)
    <2>1. PICK p \in DOMAIN Tree : Tree[p].ino = i /\ Tree[p].what = i
      BY <1>4
    <2>2. HasRow(p, i)
      BY <2>1, <1>3
    <2> QED BY <2>1, <2>2, <1>1 DEF Anchored
  <1> QED BY <1>5, <1>6, <1>8, <1>9, <1>10, <1>11 DEF EditInv, IndexInv

LEMMA EditsKeep ==
    ASSUME ~Nested
    PROVE  /\ FilesInv /\ EditInv /\ IndexInv /\ [Next]_vars
           => FilesInv' /\ EditInv' /\ IndexInv'
  <1> SUFFICES ASSUME FilesInv, EditInv, IndexInv, [Next]_vars
               PROVE  FilesInv' /\ EditInv' /\ IndexInv'
    OBVIOUS
  <1>1. FilesInv'
    BY NextKeeps
  <1>2. CASE Next
    <2>1. ASSUME NEW r \in Requests, Plan(r) PROVE EditInv' /\ IndexInv'
      BY <2>1, PlanEdits
    <2>2. ASSUME Answered PROVE EditInv' /\ IndexInv'
      BY <2>2, ConfirmEdits DEF Answered
    <2>3. ASSUME NEW p \in AlienPaths, Appear(p) PROVE EditInv' /\ IndexInv'
      BY <2>3, <1>1, AppearEdits
    <2> QED BY <1>1, <1>2, <2>1, <2>2, <2>3, EndEdits, MkdirsEdits, RenameEdits,
               CopyAndDeleteEdits, CopyFailsEdits, SetAttrsEdits, RebindEdits,
               ReindexEdits DEF Next
  <1>3. CASE UNCHANGED vars
    <2>1. fs' = fs /\ refs' = refs /\ locations' = locations /\ job' = job
          /\ nextIno' = nextIno /\ stranded' = stranded /\ nextIno \in Nat
      BY <1>3 DEF vars, index, history, FilesInv, FsOK
    <2>2. Keyed' /\ RefsOK' /\ Known' = Known /\ \A p, i : HasRow(p, i)' <=> HasRow(p, i)
      BY <2>1, IndexStays DEF EditInv
    <2>3. /\ Done' = Done /\ Left' = Left /\ (Away' <=> Away)
          /\ Repeats' = Repeats /\ Passed' = Passed /\ (Underway' <=> Underway)
      BY <2>1 DEF Done, Left, Repeats, Passed, Coming, First, Away, Underway
    <2>4. Offered' /\ Routed'
      BY <2>1, <2>2, <2>3 DEF EditInv, Offered, Routed
    <2>5. \A p : Alone(p) => Alone(p)'
      BY <2>1 DEF Alone
    <2>6. Arrived'
      BY <2>1, <2>2, <2>3, <2>5 DEF EditInv, Arrived
    <2>7. \A p : (Unseen(p) => Unseen(p)') /\ Below(p)' = Below(p)
      BY <2>1, <2>2 DEF Unseen, Below
    <2>8. Ahead'
      BY <2>1, <2>2, <2>3, <2>7 DEF EditInv, Ahead
    <2>9. IndexInv'
      BY <2>1, <2>3, IndexInvStays
    <2>10. Repeated'
      BY <2>1, <2>2, <2>3, <2>7 DEF EditInv, Repeated
    <2> QED BY <1>1, <2>2, <2>4, <2>6, <2>8, <2>9, <2>10 DEF EditInv
  <1> QED BY <1>2, <1>3

LEMMA EditsHold ==
    ASSUME ~Nested
    PROVE  Spec => [](FilesInv /\ EditInv /\ IndexInv)
  <1>1. Init => FilesInv /\ EditInv /\ IndexInv
    BY InitHolds, InitEdits
  <1>2. FilesInv /\ EditInv /\ IndexInv /\ [Next]_vars
        => (FilesInv /\ EditInv /\ IndexInv)'
    BY EditsKeep
  <1> QED BY <1>1, <1>2, PTL DEF Spec

\* After an edit that has ended by itself, done, declined or stopped half way
\* and cleaned up after, each row of the index leads to the file that the index
\* takes it for: for any files, links, devices, requests and answers, any
\* number of edits, alien files and failed copies, unless a move may go through
\* the directories of another.
THEOREM IndexIsFollowing ==
    ASSUME ~Nested
    PROVE  Spec => []IndexFollowsFiles
  <1>1. ASSUME FilesInv, EditInv, IndexInv PROVE IndexFollowsFiles
    <2> SUFFICES ASSUME job = Idle, ~stranded, NEW l \in locations
                 PROVE  /\ l.path \in DOMAIN fs
                        /\ l.item \in {IdOf(fs[l.path].ino), fs[l.path].what}
      BY DEF IndexFollowsFiles
    <2>1. Done = {}
      BY DEF Done, Passed, Away, Idle
    <2>2. RowOK(l)
      BY <1>1, <2>1 DEF IndexInv, Gone
    <2>3. CASE l.item \in Items
      BY <2>2, <2>3 DEF RowOK
    <2>4. CASE l.item \notin Items
      <3>1. /\ l.path \in DOMAIN fs /\ refs[l.item] = fs[l.path].ino
            /\ l.item \in DOMAIN refs /\ RefsOK /\ fs[l.path].ino \in Nat
        BY <1>1, <2>2, <2>4, InosAre DEF RowOK, EditInv, RefsOK, FilesInv
      <3>2. IdOf(fs[l.path].ino) = l.item
        <4>1. fs[l.path].ino \in Known
          BY <3>1 DEF Known
        <4>2. /\ IdOf(fs[l.path].ino) \in DOMAIN refs
              /\ refs[IdOf(fs[l.path].ino)] = refs[l.item]
          BY <3>1, <4>1, IdIs
        <4> QED BY <3>1, <4>2 DEF RefsOK
      <3> QED BY <3>1, <3>2
    <2> QED BY <2>3, <2>4
  <1> QED BY <1>1, EditsHold, PTL

\* After such an edit each item that was there is still indexed where its
\* contents are, whatever was moved, to whatever device, if no directory with
\* something in it is copied to another one: the items in it would be new ones.
THEOREM IdentityIsKept ==
    ASSUME ~Nested, ~DirCopies
    PROVE  Spec => []IdentityKept
  <1>1. ASSUME FilesInv, EditInv, IndexInv PROVE IdentityKept
    <2> SUFFICES ASSUME job = Idle, ~stranded, NEW i \in Items
                 PROVE  \E l \in locations :
                           l.item = i /\ l.path \in DOMAIN fs /\ fs[l.path].what = i
      BY DEF IdentityKept
    <2>1. Done = {}
      BY DEF Done, Passed, Away, Idle
    <2>2. Anchored(i)
      BY <1>1 DEF IndexInv
    <2>3. PICK p \in DOMAIN fs : HasRow(p, i)
      BY <2>1, <2>2 DEF Anchored
    <2>4. PICK l \in locations : l.path = p /\ l.item = i
      BY <2>3 DEF HasRow
    <2>5. RowOK(l)
      BY <1>1, <2>1 DEF IndexInv, Gone
    <2> QED BY <2>4, <2>5 DEF RowOK
  <1> QED BY <1>1, EditsHold, PTL

-----------------------------------------------------------------------------
(* What is confirmed does not fail half way. *)

Attr == [item : Items, from : Paths]

\* Until it is confirmed: each move that is offered can be planned.
Fitting ==
    job.phase = "confirm" =>
        /\ job.moves \in Seq(Fit) /\ job.links \in Seq(Seq(Fit))
        /\ job.mkdirs = Missing(job.moves)
\* No target is taken, and its directory is there or will be made.
Open ==
    \A m \in Left :
        /\ m.to \notin DOMAIN fs
        /\ IsDir(Parent(m.to)) \/ (job.phase = "mkdir" /\ Parent(m.to) \in job.mkdirs)
Wanted ==
    job.phase = "mkdir" =>
        \A d \in job.mkdirs : \E m \in Left : d = Parent(m.to)
\* What is given an attribute is where it was, or went with a move of its own.
AttrOK(a) ==
    /\ HasRow(a.from, a.item)
    /\ a.from \in DOMAIN fs \/ \E m \in Done : m.item = a.item
    /\ \A m \in Left : ~IsStrictPrefix(m.from, a.from)
Attributed ==
    job.phase \in {"confirm", "mkdir", "move"} =>
        job.attrs \in Seq(Attr) /\ \A k \in DOMAIN job.attrs : AttrOK(job.attrs[k])
\* The edit that runs moves a path a second time.
Doubled == job.phase \notin {"idle", "confirm"} /\ MovedTwice(job.moves)
Sound ==
    ~disturbed /\ ~Doubled =>
        Fitting /\ Open /\ Wanted /\ Attributed /\ (job # Idle => ~job.failed)

LEMMA IdleSound ==
    ASSUME job' = Idle
    PROVE  Sound'
  <1>1. job'.phase = "idle"
    BY DEF Idle
  <1>2. Left' = {}
    BY <1>1 DEF Left, Coming, Underway
  <1> QED BY <1>1, <1>2 DEF Sound, Fitting, Open, Wanted, Attributed

\* Only confirm_with_prompt adds a move.
LEMMA DoubledStays ==
    ASSUME Doubled,
           \/ job' = Idle
           \/ job'.moves = job.moves /\ job'.phase \notin {"idle", "confirm"}
    PROVE  Sound'
  <1>1. CASE job' = Idle
    BY <1>1, IdleSound
  <1>2. CASE job'.moves = job.moves /\ job'.phase \notin {"idle", "confirm"}
    <2>1. Doubled'
      BY <1>2 DEF Doubled, MovedTwice
    <2> QED BY <2>1 DEF Sound
  <1> QED BY <1>1, <1>2

\* Otherwise each move is the first of its path.
LEMMA AllFirst ==
    ASSUME EditInv, Away, ~Doubled
    PROVE  \A k \in DOMAIN job.moves : First(k)
  <1>1. job.moves \in Seq(PlannedMove) /\ job.phase \notin {"idle", "confirm"}
    BY DEF EditInv, Routed, Away
  <1>2. Len(job.moves) \in Nat /\ DOMAIN job.moves = 1 .. Len(job.moves)
    BY <1>1
  <1>3. \A k, l \in DOMAIN job.moves : k # l => job.moves[k].from # job.moves[l].from
    BY <1>1 DEF Doubled, MovedTwice
  <1>4. \A k \in DOMAIN job.moves : \A l \in 1 .. k - 1 : l \in DOMAIN job.moves /\ l # k
    BY <1>2
  <1> QED BY <1>3, <1>4 DEF First

LEMMA AttrsPlanned ==
    ASSUME LocationsOK, NEW edits \in Seq([item : Items, nodes : Seq(Nodes)]),
           \A k \in DOMAIN edits : ~IssueFor(edits[k])
    PROVE  /\ Each(PlannedAttrs, edits) \in Seq(Attr)
           /\ \A k \in DOMAIN Each(PlannedAttrs, edits) :
                 LET a == Each(PlannedAttrs, edits)[k]
                 IN  a.from \in DOMAIN fs /\ HasRow(a.from, a.item)
  <1> DEFINE A == {a \in Attr : a.from \in DOMAIN fs /\ HasRow(a.from, a.item)}
             each == [k \in DOMAIN edits |-> PlannedAttrs(edits[k])]
  <1>1. /\ \A k \in DOMAIN edits : edits[k] \in [item : Items, nodes : Seq(Nodes)]
        /\ Len(edits) \in Nat /\ DOMAIN edits = 1 .. Len(edits)
    <2> DEFINE E == [item : Items, nodes : Seq(Nodes)]
    <2> HIDE DEF E
    <2>1. edits \in Seq(E)
      BY DEF E
    <2>2. \A k \in DOMAIN edits : edits[k] \in E
      BY <2>1
    <2> QED BY <2>1, <2>2 DEF E
  <1>2. ASSUME NEW k \in DOMAIN edits PROVE PlannedAttrs(edits[k]) \in Seq(A)
    <2> DEFINE e == edits[k]
               a == [item |-> e.item, from |-> Place(e.item)]
    <2>1. CASE SetsAttr(e.nodes) /\ PathsOf(e.item) # {} /\ ~HasLinks(e.item, e.nodes)
      <3>1. Place(e.item) \in PathsOf(e.item)
        BY <2>1 DEF Place
      <3>2. Place(e.item) \in Paths /\ HasRow(Place(e.item), e.item)
        BY <3>1, PathsOfType, PathsAreRows, <1>1
      <3>3. Exists(Place(e.item))
        BY <2>1 DEF IssueFor, Fatal
      <3>4. Place(e.item) \in DOMAIN fs
        BY <3>2, <3>3, PathsAre DEF Exists
      <3>5. a \in A
        BY <1>1, <3>2, <3>4 DEF Attr
      <3>6. PlannedAttrs(e) = <<a>>
        BY <2>1 DEF PlannedAttrs
      <3> HIDE DEF A, a, e
      <3>7. PlannedAttrs(e) \in Seq(A)
        BY <3>5, <3>6
      <3> QED BY <3>7 DEF e
    <2>2. CASE ~(SetsAttr(e.nodes) /\ PathsOf(e.item) # {} /\ ~HasLinks(e.item, e.nodes))
      <3>1. PlannedAttrs(e) = <<>>
        BY <2>2 DEF PlannedAttrs
      <3> HIDE DEF A
      <3> QED BY <3>1
    <2> QED BY <2>1, <2>2
  <1> DEFINE attrs == FlattenSeq(each)
  <1>3. attrs \in Seq(A)
    <2> HIDE DEF A
    <2>1. each \in [1 .. Len(edits) -> Seq(A)]
      BY <1>1, <1>2
    <2>2. each \in Seq(Seq(A))
      BY <2>1, <1>1, AsSequence
    <2> HIDE DEF each
    <2> QED BY <2>2, FlattenType
  <1>4. Each(PlannedAttrs, edits) = attrs
    BY DEF Each
  <1> HIDE DEF attrs
  <1>5. \A k \in DOMAIN attrs : attrs[k] \in A
    <2> HIDE DEF A
    <2> QED BY <1>3
  <1>6. attrs \in Seq(Attr)
    <2>1. A \subseteq Attr
      OBVIOUS
    <2> HIDE DEF A
    <2> QED BY <2>1, <1>3
  <1> QED BY <1>4, <1>5, <1>6

LEMMA PlanSound ==
    ASSUME FilesInv, NEW r \in Requests, Plan(r)
    PROVE  Sound'
  <1> DEFINE moves == Each(PlannedMoves, r.edits)
             links == Each(Candidates, r.edits)
             attrs == Each(PlannedAttrs, r.edits)
  <1>1. /\ fs' = fs /\ locations' = locations
        /\ \A k \in DOMAIN r.edits : ~IssueFor(r.edits[k])
        /\ r.edits \in Seq([item : Items, nodes : Seq(Nodes)])
    BY NamesAssumption DEF Plan, index
  <1>2. moves \in Seq(Fit) /\ links \in Seq(Seq(Fit))
    BY <1>1, EachType DEF FilesInv
  <1>3. /\ attrs \in Seq(Attr)
        /\ \A k \in DOMAIN attrs :
              attrs[k].from \in DOMAIN fs /\ HasRow(attrs[k].from, attrs[k].item)
    BY <1>1, AttrsPlanned DEF FilesInv
  <1>4. /\ job'.phase = "confirm" /\ job'.moves = moves /\ job'.links = links
        /\ job'.attrs = attrs /\ job'.mkdirs = Missing(moves) /\ job'.failed = FALSE
    BY DEF Plan
  <1> HIDE DEF moves, links, attrs
  <1>5. Left' = {} /\ \A p, i : HasRow(p, i)' <=> HasRow(p, i)
    BY <1>1, <1>4 DEF Left, Coming, Underway, HasRow
  <1>6. Ready' = Ready /\ \A p : (Exists(p)' <=> Exists(p)) /\ (IsDir(p)' <=> IsDir(p))
    BY <1>1 DEF Ready, Exists, IsDir
  <1>7. Fit' = Fit
    BY <1>6 DEF Fit
  <1>8. Fitting'
    <2>1. job'.mkdirs = Missing(job.moves)'
      BY <1>1, <1>4 DEF Missing, Exists
    <2> QED BY <2>1, <1>2, <1>4, <1>7 DEF Fitting
  <1>9. Open' /\ Wanted'
    BY <1>4, <1>5 DEF Open, Wanted
  <1>10. Attributed'
    BY <1>1, <1>3, <1>4, <1>5 DEF Attributed, AttrOK
  <1> QED BY <1>4, <1>8, <1>9, <1>10 DEF Sound

LEMMA MissingIs ==
    ASSUME NEW moves, NEW d
    PROVE  d \in Missing(moves) <=> \E k \in DOMAIN moves :
              d = Parent(moves[k].to) /\ ~Exists(Parent(moves[k].to))
  BY DEF Missing, ToSet

\* What is above a file is there.
LEMMA ParentIsAbove ==
    ASSUME FsOK, NEW p \in Paths, p \in DOMAIN fs
    PROVE  Exists(Parent(p))
  <1>1. /\ p \in Seq(Names) /\ Len(p) \in Nat \ {0} /\ Parent(p) = SubSeq(p, 1, Len(p) - 1)
    BY PathsAre DEF Parent, Front
  <1>2. CASE Len(p) = 1
    <2>1. Parent(p) = <<>>
      BY <1>1, <1>2
    <2> QED BY <2>1 DEF Exists
  <1>3. CASE Len(p) # 1
    <2> DEFINE n == Len(p)
    <2>1. n \in Nat \ {0} /\ n # 1
      BY <1>1, <1>3
    <2> HIDE DEF n
    <2>2. n - 1 \in 1 .. n - 1
      BY <2>1
    <2> QED BY <2>2, <1>1 DEF FsOK, IsTree, Exists, n
  <1> QED BY <1>2, <1>3

LEMMA ParentIsPrefix ==
    ASSUME NEW p \in Paths
    PROVE  /\ Parent(p) \in Seq(Names) /\ Len(Parent(p)) = Len(p) - 1
           /\ IsPrefix(Parent(p), p)
  <1>1. /\ Parent(p) \in Seq(Names) /\ Len(Parent(p)) = Len(p) - 1
        /\ \A k \in 1 .. Len(p) - 1 : Parent(p)[k] = p[k]
    BY ParentType
  <1>2. p \in Seq(Names) /\ Len(p) \in Nat \ {0}
    BY PathsAre
  <1> QED BY <1>1, <1>2, PrefixMeans

LEMMA ConfirmSound ==
    ASSUME ~Nested, FilesInv, EditInv, Sound, NEW choice \in LinkChoices,
           NEW answer, Confirm(choice, answer)
    PROVE  Sound'
  <1> DEFINE moves == job.moves \o ChosenMoves(choice)
             resolved == ResolveConflicts(moves, answer)
             new == resolved.moves
  <1>1. /\ fs' = fs /\ locations' = locations /\ disturbed' = disturbed
        /\ ~resolved.bound /\ ~Overlap(new, job.attrs)
    BY DEF Confirm, index, history
  <1>2. /\ job.phase = "confirm" /\ job # Idle /\ Fields \subseteq DOMAIN job
        /\ job.next = 1 /\ job.moves \in Seq(Ready) /\ job.links \in Seq(Seq(Ready))
    BY DEF Confirm, FilesInv, JobOK, Confirming, Idle, EditInv, Offered
  <1>3. /\ moves \in Seq(Ready)
        /\ \A a, b \in DOMAIN moves : moves[a].from = moves[b].from => moves[a] = moves[b]
        /\ \A a \in DOMAIN moves :
              \/ \E b \in DOMAIN job.moves : moves[a] = job.moves[b]
              \/ \E k \in DOMAIN job.links : \E b \in DOMAIN job.links[k] :
                    moves[a] = job.links[k][b]
        /\ \A b \in DOMAIN job.moves : b \in DOMAIN moves /\ moves[b] = job.moves[b]
    BY <1>2, ChosenApart DEF EditInv
  <1>4. /\ job'.phase = "mkdir" /\ job'.moves = new /\ job'.next = 1
        /\ job'.mkdirs = job.mkdirs \cup Missing(moves)
        /\ job'.attrs = job.attrs /\ job'.failed = job.failed
    BY <1>2 DEF Confirm, Fields
  <1> SUFFICES ASSUME ~disturbed, ~Doubled' PROVE Sound'
    BY <1>1 DEF Sound
  <1>5. Fitting /\ Attributed /\ ~job.failed
    BY <1>2 DEF Sound, Doubled
  <1>6. \A a \in DOMAIN moves : moves[a] \in Fit
    <2>1. /\ \A b \in DOMAIN job.moves : job.moves[b] \in Fit
          /\ \A k \in DOMAIN job.links : job.links[k] \in Seq(Fit)
      BY <1>2, <1>5 DEF Fitting
    <2>2. \A k \in DOMAIN job.links : \A b \in DOMAIN job.links[k] : job.links[k][b] \in Fit
      BY <2>1
    <2> HIDE DEF moves
    <2> QED BY <2>1, <2>2, <1>3
  <1> HIDE DEF moves
  <1>7. job'.mkdirs = Missing(moves)
    <2>1. job.mkdirs = Missing(job.moves)
      BY <1>2, <1>5 DEF Fitting
    <2>2. \A d \in Missing(job.moves) : d \in Missing(moves)
      BY <1>3, MissingIs
    <2> QED BY <2>1, <2>2, <1>4
  <1>8. resolved \in Accepted /\ Settling(moves, Len(moves), resolved)
    BY <1>3, ResolvedIs DEF FilesInv
  <1>9. Len(moves) \in Nat /\ DOMAIN moves = 1 .. Len(moves)
    BY <1>3
  <1> HIDE DEF resolved
  <1>10. /\ new \in Seq(PlannedMove)
         /\ \A k \in DOMAIN new : new[k].to \notin DOMAIN fs
    BY <1>8 DEF Accepted
  <1>11. /\ \A k \in DOMAIN new : \E j \in DOMAIN moves : Descends(new[k], moves[j])
         /\ \A j \in DOMAIN moves :
               \/ Exists(moves[j].to)
               \/ \E k \in DOMAIN new : Parent(new[k].to) = Parent(moves[j].to)
    BY <1>1, <1>8, <1>9 DEF Settling
  <1> HIDE DEF new
  <1>12. Len(new) \in Nat /\ DOMAIN new = 1 .. Len(new)
    BY <1>10
  <1>13. /\ \A m \in Left' : \E k \in DOMAIN new : m = new[k]
         /\ \A k \in DOMAIN new : new[k] \in Left'
    <2>1. \A k, l \in DOMAIN new : k # l => new[k].from # new[l].from
      BY <1>4 DEF Doubled, MovedTwice
    <2>2. \A k \in DOMAIN new : First(k)'
      BY <1>4, <1>12, <2>1 DEF First
    <2>3. Left' = {new[k] : k \in {n \in 1 .. Len(new) : First(n)'}}
      BY <1>4 DEF Left, Coming, Underway
    <2> QED BY <1>12, <2>2, <2>3
  <1>14. Fitting'
    BY <1>4 DEF Fitting
  <1>15. Open'
    <2> SUFFICES ASSUME NEW k \in DOMAIN new
                 PROVE  /\ new[k].to \notin DOMAIN fs
                        /\ IsDir(Parent(new[k].to)) \/ Parent(new[k].to) \in Missing(moves)
      BY <1>1, <1>4, <1>7, <1>13 DEF Open, IsDir
    <2>1. PICK j \in DOMAIN moves : Descends(new[k], moves[j])
      BY <1>11
    <2>2. Parent(new[k].to) = Parent(moves[j].to)
      BY <2>1 DEF Descends
    <2>3. Exists(Parent(moves[j].to)) => IsDir(Parent(moves[j].to))
      BY <1>6 DEF Fit
    <2> QED BY <2>2, <2>3, <1>10, MissingIs
  <1>16. Wanted'
    <2> SUFFICES ASSUME NEW d \in Missing(moves)
                 PROVE  \E k \in DOMAIN new : d = Parent(new[k].to)
      BY <1>4, <1>7, <1>13 DEF Wanted
    <2>1. PICK j \in DOMAIN moves : d = Parent(moves[j].to) /\ ~Exists(Parent(moves[j].to))
      BY MissingIs
    <2>2. moves[j].to \in Paths
      BY <1>6 DEF Fit, Ready, PlannedMove
    <2>3. ~Exists(moves[j].to)
      BY <2>1, <2>2, ParentIsAbove, PathsAre DEF Exists, FilesInv
    <2> QED BY <2>1, <2>3, <1>11
  <1>17. Attributed'
    <2> DEFINE attrs == job.attrs
    <2>1. attrs \in Seq(Attr) /\ \A k \in DOMAIN attrs : AttrOK(attrs[k])
      BY <1>2, <1>5 DEF Attributed
    <2>2. Done = {}
      BY <1>2 DEF Done, Passed, Away
    <2>3. \A p, i : HasRow(p, i)' <=> HasRow(p, i)
      BY <1>1 DEF HasRow
    <2>4. \A k \in DOMAIN attrs : \A j \in DOMAIN new : ~IsStrictPrefix(new[j].from, attrs[k].from)
      BY <1>1 DEF Overlap, ToSet
    <2>5. job'.attrs = attrs
      BY <1>4
    <2> HIDE DEF attrs
    <2>6. ASSUME NEW k \in DOMAIN attrs, NEW a, a = attrs[k] PROVE AttrOK(a)'
      <3>1. HasRow(a.from, a.item) /\ a.from \in DOMAIN fs
        BY <2>1, <2>2, <2>6 DEF AttrOK
      <3>2. \A m \in Left' : ~IsStrictPrefix(m.from, a.from)
        BY <2>4, <2>6, <1>13
      <3> QED BY <3>1, <3>2, <2>3, <1>1 DEF AttrOK
    <2> QED BY <2>1, <2>5, <2>6 DEF Attributed
  <1> QED BY <1>1, <1>4, <1>5, <1>14, <1>15, <1>16, <1>17 DEF Sound

\* The directories are made, and nothing where a move will go.
LEMMA MkdirsSound ==
    ASSUME FilesInv, EditInv, Sound, Mkdirs
    PROVE  Sound'
  <1>1. /\ job.phase = "mkdir" /\ job # Idle /\ Fields \subseteq DOMAIN job
        /\ locations' = locations /\ disturbed' = disturbed /\ job.mkdirs \subseteq Paths
    BY DEF Mkdirs, index, history, FilesInv, JobOK, Making, Idle
  <1>2. Away /\ Underway /\ job.next = 1
    BY <1>1 DEF Away, Underway, EditInv, Routed
  <1>3. /\ job.moves \in Seq(PlannedMove) /\ Separate(job.moves)
        /\ ~Doubled => \A m : m \in Left <=> \E k \in DOMAIN job.moves : m = job.moves[k]
    <2>1. job.moves \in Seq(PlannedMove) /\ Separate(job.moves)
      BY <1>2 DEF EditInv, Routed
    <2>2. DOMAIN job.moves = 1 .. Len(job.moves)
      BY <2>1
    <2>3. Coming = DOMAIN job.moves
      BY <1>2, <2>2 DEF Coming
    <2> QED BY <2>1, <2>3, <1>2, LeftIs, AllFirst
  <1> SUFFICES ASSUME ~disturbed PROVE Sound'
    BY <1>1 DEF Sound
  <1>4. ~Doubled => Open /\ Wanted /\ Attributed /\ ~job.failed
    BY <1>1 DEF Sound
  <1>5. CASE job' = Idle
    BY <1>5, IdleSound
  <1>6. ASSUME job' = [job EXCEPT !.phase = "move"], \A d \in job.mkdirs : IsDir(d)',
               NEW W, NEW e, Makes(W, e),
               \A p \in W : \E d \in job.mkdirs : \E n \in 1 .. Len(d) : p = SubSeq(d, 1, n)
        PROVE  Sound'
    <2>1. /\ job'.phase = "move" /\ job'.moves = job.moves /\ job'.next = job.next
          /\ job'.attrs = job.attrs /\ job'.failed = job.failed
      BY <1>1, <1>6 DEF Fields
    <2> SUFFICES ASSUME ~Doubled PROVE Sound'
      BY <2>1, DoubledStays
    <2>2. Away' /\ Underway'
      BY <2>1 DEF Away, Underway
    <2>3. Done' = Done /\ Left' = Left
      BY <2>1, <2>2, <1>2 DEF Done, Left, Passed, Coming, First
    <2>4. /\ \A p \in DOMAIN fs : p \in DOMAIN fs' /\ fs'[p] = fs[p]
          /\ \A p \in DOMAIN fs' : p \in DOMAIN fs \/ p \in W
      BY <1>6 DEF Makes
    <2>5. \A d : IsDir(d) => IsDir(d)'
      BY <2>4 DEF IsDir
    <2>6. ASSUME NEW m \in Left PROVE m.to \notin W
      <3> SUFFICES ASSUME m.to \in W PROVE FALSE
        OBVIOUS
      <3>1. PICK d \in job.mkdirs : \E n \in 1 .. Len(d) : m.to = SubSeq(d, 1, n)
        BY <1>6
      <3>2. PICK o \in Left : d = Parent(o.to)
        BY <1>1, <1>4 DEF Wanted
      <3>3. PICK k \in DOMAIN job.moves, l \in DOMAIN job.moves :
               m = job.moves[k] /\ o = job.moves[l]
        BY <1>3
      <3>4. m \in PlannedMove /\ o \in PlannedMove
        BY <1>3, <3>3
      <3>5. m.to \in Paths /\ o.to \in Paths /\ d \in Paths
        BY <3>4, <1>1 DEF PlannedMove
      <3>6. IsPrefix(m.to, d) /\ Len(m.to) \in 1 .. Len(d)
        <4>1. PICK n \in 1 .. Len(d) : m.to = SubSeq(d, 1, n)
          BY <3>1
        <4> QED BY <4>1, <3>5, Initials
      <3>7. IsPrefix(d, o.to) /\ Len(d) = Len(o.to) - 1
        BY <3>2, <3>5, ParentIsPrefix
      <3>8. IsPrefix(m.to, o.to)
        BY <3>5, <3>6, <3>7, PathsAre, PrefixTrans
      <3>9. k = l
        BY <3>3, <3>8, <1>3 DEF Separate, Sundered, Again
      <3>10. m = o /\ Len(m.to) \in Nat
        BY <3>3, <3>5, <3>9, PathsAre
      <3> QED BY <3>6, <3>7, <3>10
    <2>7. Open'
      <3> SUFFICES ASSUME NEW m \in Left
                   PROVE  m.to \notin DOMAIN fs' /\ IsDir(Parent(m.to))'
        BY <2>3 DEF Open
      <3>1. /\ m.to \notin DOMAIN fs
            /\ IsDir(Parent(m.to)) \/ Parent(m.to) \in job.mkdirs
        BY <1>4 DEF Open
      <3>2. IsDir(Parent(m.to))'
        BY <3>1, <2>5, <1>6
      <3> QED BY <3>1, <3>2, <2>4, <2>6
    <2>8. Attributed'
      <3> DEFINE attrs == job.attrs
      <3>1. attrs \in Seq(Attr) /\ \A k \in DOMAIN attrs : AttrOK(attrs[k])
        BY <1>1, <1>4 DEF Attributed
      <3>2. \A p, i : HasRow(p, i)' <=> HasRow(p, i)
        BY <1>1 DEF HasRow
      <3>3. \A a : AttrOK(a) => AttrOK(a)'
        BY <3>2, <2>3, <2>4 DEF AttrOK
      <3>4. job'.attrs = attrs
        BY <2>1
      <3> HIDE DEF attrs
      <3> QED BY <3>1, <3>3, <3>4 DEF Attributed
    <2> QED BY <2>1, <2>7, <2>8, <1>4 DEF Sound, Fitting, Wanted
  <1> QED BY <1>5, <1>6, MkdirsMake

\* A move that is carried out leaves room for the others.
LEMMA MoveSound ==
    ASSUME FilesInv, EditInv, Sound, MovesLeft, Advance, ~disturbed, ~Doubled,
           Carries(NextMove.from, NextMove.to, NextMove.crossed),
           locations' = locations
    PROVE  Sound'
  <1>1. PICK m : m = NextMove
    OBVIOUS
  <1>2. /\ job.phase = "move" /\ m \in Left /\ m \in PlannedMove /\ HasRow(m.from, m.item)
        /\ Fields \subseteq DOMAIN job /\ job # Idle /\ First(job.next)
    BY <1>1, MoveIs, NextMoveIs, AllFirst
  <1>3. \A o \in Left : o # m =>
           /\ o \in PlannedMove /\ Sundered(m, o)
           /\ ~IsPrefix(m.from, o.to) /\ ~IsPrefix(m.to, o.from)
    BY <1>1, MoveIs DEF Aside
  <1>4. /\ job'.phase = "move"
        /\ \A o : o \in Done' <=> o \in Done \/ o = m
        /\ \A o : o \in Left' => o \in Left /\ o # m
    BY <1>1, <1>2, Advanced
  <1>5. job'.attrs = job.attrs /\ job'.failed = job.failed
    BY <1>2 DEF Advance, Fields
  <1>6. Open /\ Attributed /\ ~job.failed
    BY <1>2 DEF Sound
  <1>7. /\ \A p \in DOMAIN fs : ~IsPrefix(m.from, p) /\ ~IsPrefix(m.to, p) =>
              p \in DOMAIN fs' /\ fs'[p] = fs[p]
        /\ \A p \in DOMAIN fs' : ~IsPrefix(m.to, p) => p \in DOMAIN fs
    BY <1>1 DEF Carries
  <1>8. m.from \in Paths /\ m.to \in Paths
    BY <1>2 DEF PlannedMove
  <1>9. Open'
    <2> SUFFICES ASSUME NEW o \in Left, o # m
                 PROVE  o.to \notin DOMAIN fs' /\ IsDir(Parent(o.to))'
      BY <1>4 DEF Open
    <2>1. o.to \notin DOMAIN fs /\ IsDir(Parent(o.to))
      BY <1>2, <1>6 DEF Open
    <2>2. ~IsPrefix(m.to, o.to) /\ ~IsPrefix(m.from, o.to) /\ o.to \in Paths
      BY <1>3 DEF Sundered, PlannedMove
    <2> DEFINE d == Parent(o.to)
    <2>3. IsDir(d)'
      <3>1. d \in Seq(Names) /\ IsPrefix(d, o.to)
        BY <2>2, ParentIsPrefix
      <3>2. ~IsPrefix(m.from, d) /\ ~IsPrefix(m.to, d)
        BY <2>2, <3>1, <1>8, PathsAre, PrefixTrans
      <3>3. IsDir(d)
        BY <2>1
      <3> HIDE DEF d
      <3> QED BY <3>2, <3>3, <1>7 DEF IsDir
    <2> QED BY <2>1, <2>2, <2>3, <1>7
  <1>10. Attributed'
    <2> DEFINE attrs == job.attrs
    <2>1. attrs \in Seq(Attr) /\ \A k \in DOMAIN attrs : AttrOK(attrs[k]) /\ attrs[k] \in Attr
      <3>1. attrs \in Seq(Attr) /\ \A k \in DOMAIN attrs : AttrOK(attrs[k])
        BY <1>2, <1>6 DEF Attributed
      <3> HIDE DEF attrs
      <3> QED BY <3>1
    <2>2. job'.attrs = attrs
      BY <1>5
    <2> HIDE DEF attrs
    <2>3. ASSUME NEW k \in DOMAIN attrs, NEW a, a = attrs[k] PROVE AttrOK(a)'
      <3>1. /\ HasRow(a.from, a.item) /\ \A o \in Left : ~IsStrictPrefix(o.from, a.from)
            /\ a.from \in DOMAIN fs \/ \E o \in Done : o.item = a.item
        BY <2>1, <2>3 DEF AttrOK
      <3>2. HasRow(a.from, a.item)' /\ \A o \in Left' : ~IsStrictPrefix(o.from, a.from)
        BY <3>1, <1>4 DEF HasRow
      <3>3. a.from \in DOMAIN fs' \/ \E o \in Done' : o.item = a.item
        <4>1. CASE \E o \in Done : o.item = a.item
          BY <4>1, <1>4
        <4>2. CASE a.from \in DOMAIN fs /\ m.from = a.from
          <5>1. m.item = a.item
            BY <4>2, <3>1, <1>2 DEF HasRow, EditInv, Keyed
          <5> QED BY <5>1, <1>4
        <4>3. CASE a.from \in DOMAIN fs /\ m.from # a.from
          <5>1. ~IsPrefix(m.from, a.from)
            BY <4>3, <3>1, <1>2 DEF IsStrictPrefix
          <5>2. m.to \notin DOMAIN fs
            BY <1>2, <1>6 DEF Open
          <5>3. ~IsPrefix(m.to, a.from)
            BY <4>3, <5>2, <1>8, NothingBelow DEF FilesInv
          <5> QED BY <5>1, <5>3, <4>3, <1>7
        <4> QED BY <4>1, <4>2, <4>3, <3>1
      <3> QED BY <3>2, <3>3 DEF AttrOK
    <2> QED BY <2>1, <2>2, <2>3 DEF Attributed
  <1> QED BY <1>4, <1>5, <1>6, <1>9, <1>10 DEF Sound, Fitting, Wanted

\* What is open can be moved.
LEMMA OpenMoves ==
    ASSUME FilesInv, EditInv, Sound, MovesLeft, ~disturbed, ~Doubled
    PROVE  CanRename(NextMove.from, NextMove.to) /\ CanCopy(NextMove.from, NextMove.to)
  <1>1. PICK m : m = NextMove
    OBVIOUS
  <1>2. /\ job.phase = "move" /\ m \in Left /\ m \in PlannedMove /\ ~IsPrefix(m.from, m.to)
    BY <1>1, MoveIs, NextMoveIs, AllFirst
  <1>3. m.from \in Paths /\ m.to \in Paths
    BY <1>2 DEF PlannedMove
  <1>4. m.to \notin DOMAIN fs /\ IsDir(Parent(m.to)) /\ m.from \in DOMAIN fs
    BY <1>2 DEF Sound, Open, EditInv, Ahead
  <1>5. Exists(m.from) /\ Exists(Parent(m.to)) /\ ~Exists(m.to)
    BY <1>3, <1>4, PathsAre DEF Exists, IsDir
  <1>6. CanRename(m.from, m.to)
    BY <1>2, <1>4, <1>5 DEF CanRename
  <1>7. \A p \in Below(m.from) \cup {m.from} : ~Exists(Moved(p, m.from, m.to))
    <2>1. Below(m.from) \cup {m.from} = Going(m.from)
      BY <1>3, <1>5, GoingIs DEF FilesInv
    <2>2. ASSUME NEW p \in Going(m.from) PROVE ~Exists(Moved(p, m.from, m.to))
      <3> DEFINE q == Moved(p, m.from, m.to)
      <3>1. q \in Paths /\ IsPrefix(m.to, q)
        <4>1. p \in Paths /\ IsPrefix(m.from, p)
          BY <1>3, <1>5, GoingIs DEF FilesInv, Going
        <4> QED BY <4>1, <1>3, MovedIs
      <3> HIDE DEF q
      <3>2. ~Exists(q)
        BY <3>1, <1>3, <1>4, NothingBelow, PathsAre DEF Exists, FilesInv
      <3> QED BY <3>2 DEF q
    <2> QED BY <2>1, <2>2
  <1>8. CanCopy(m.from, m.to)
    BY <1>4, <1>5, <1>7 DEF CanCopy
  <1> QED BY <1>1, <1>6, <1>8

\* The moves of a job that goes on or stops.
LEMMA GoesOn ==
    ASSUME FilesInv, job.phase = "move", NEW j, Fields \subseteq DOMAIN j,
           j.moves = job.moves,
           \/ job' = Abort(j) \/ (j = job /\ Advance)
           \/ job' = [j EXCEPT !.phase = "tags"] \/ job' = [j EXCEPT !.phase = "rebind"]
    PROVE  \/ job' = Idle
           \/ job'.moves = job.moves /\ job'.phase \notin {"idle", "confirm"}
  <1>1. CASE job' = Abort(j)
    <2>1. job' = Idle \/ job' = [j EXCEPT !.phase = "rebind", !.failed = TRUE]
      BY <1>1 DEF Abort
    <2> QED BY <2>1 DEF Fields
  <1>2. CASE j = job /\ Advance
    BY <1>2 DEF Advance, Fields
  <1>3. CASE job' = [j EXCEPT !.phase = "tags"] \/ job' = [j EXCEPT !.phase = "rebind"]
    BY <1>3 DEF Fields
  <1> QED BY <1>1, <1>2, <1>3

LEMMA RenameSound ==
    ASSUME FilesInv, EditInv, Sound, Rename
    PROVE  Sound'
  <1>1. MovesLeft /\ ~NextMove.crossed /\ locations' = locations /\ disturbed' = disturbed
    BY DEF Rename, index, history
  <1>2. NextMove \in PlannedMove /\ NextMove.from \in Paths /\ NextMove.to \in Paths
    BY <1>1, NextMoveIs
  <1> SUFFICES ASSUME ~disturbed, ~Doubled PROVE Sound'
    <2>1. job' = Abort(job) \/ Advance
      BY DEF Rename
    <2>2. Fields \subseteq DOMAIN job /\ job.phase = "move"
      BY <1>1, NextMoveIs DEF MovesLeft
    <2> QED BY <1>1, <2>1, <2>2, GoesOn, DoubledStays DEF Sound
  <1>3. CanRename(NextMove.from, NextMove.to)
    BY <1>1, OpenMoves
  <1>4. fs' = Renamed(NextMove.from, NextMove.to) /\ Advance
    BY <1>3 DEF Rename
  <1>5. Carries(NextMove.from, NextMove.to, FALSE)
    BY <1>2, <1>3, <1>4, RenamedCarries DEF FilesInv
  <1>6. NextMove.crossed = FALSE
    BY <1>1, <1>2 DEF PlannedMove
  <1> QED BY <1>1, <1>4, <1>5, <1>6, MoveSound

LEMMA CopyAndDeleteSound ==
    ASSUME FilesInv, EditInv, Sound, CopyAndDelete
    PROVE  Sound'
  <1>1. MovesLeft /\ NextMove.crossed /\ locations' = locations /\ disturbed' = disturbed
    BY DEF CopyAndDelete, index, history
  <1>2. /\ NextMove \in PlannedMove /\ NextMove.from \in Paths /\ NextMove.to \in Paths
        /\ Clear(NextMove.to) /\ NextMove.from[1] # NextMove.to[1]
    BY <1>1, NextMoveIs
  <1> SUFFICES ASSUME ~disturbed, ~Doubled PROVE Sound'
    <2>1. job' = Abort(job) \/ Advance
      BY DEF CopyAndDelete
    <2>2. Fields \subseteq DOMAIN job /\ job.phase = "move"
      BY <1>1, NextMoveIs DEF MovesLeft
    <2> QED BY <1>1, <2>1, <2>2, GoesOn, DoubledStays DEF Sound
  <1>3. CanCopy(NextMove.from, NextMove.to)
    BY <1>1, OpenMoves
  <1>4. fs' = Deleted(Copied(NextMove.from, NextMove.to), NextMove.from) /\ Advance
    BY <1>3 DEF CopyAndDelete
  <1>5. Carries(NextMove.from, NextMove.to, TRUE)
    BY <1>2, <1>3, <1>4, CopiedCarries DEF FilesInv
  <1>6. NextMove.crossed = TRUE
    BY <1>1, <1>2 DEF PlannedMove
  <1> QED BY <1>1, <1>4, <1>5, <1>6, MoveSound

\* Everything that is to be given an attribute is found.
LEMMA SetAttrsSound ==
    ASSUME FilesInv, EditInv, Sound, SetAttrs
    PROVE  Sound'
  <1> DEFINE At(a) == IF TargetOf(a.item) = <<>> THEN a.from ELSE TargetOf(a.item)[1]
             missing == {k \in 1 .. Len(job.attrs) : ~Exists(At(job.attrs[k]))}
             bad == SelectInSeq(job.attrs, LAMBDA a : ~Exists(At(a)))
             done == IF bad = 0 THEN job.attrs ELSE SubSeq(job.attrs, 1, bad - 1)
             set == {At(a) : a \in ToSet(done)}
             j == [job EXCEPT !.attrsSet = set]
  <1>1. /\ fs' = fs /\ locations' = locations /\ disturbed' = disturbed
        /\ job.phase = "move" /\ Fields \subseteq DOMAIN job /\ job # Idle /\ Away
    BY DEF SetAttrs, index, history, FilesInv, JobOK, Idle, Away
  <1> SUFFICES ASSUME ~disturbed, ~Doubled PROVE Sound'
    <2>1. Fields \subseteq DOMAIN j /\ j.moves = job.moves
      BY <1>1 DEF Fields
    <2>2. \/ job' = Abort(j)
          \/ job' = [j EXCEPT !.phase = "tags"] \/ job' = [j EXCEPT !.phase = "rebind"]
      BY DEF SetAttrs
    <2> HIDE DEF j
    <2> QED BY <1>1, <2>1, <2>2, GoesOn, DoubledStays DEF Sound
  <1>2. job.attrs \in Seq(Attr) /\ \A k \in DOMAIN job.attrs : AttrOK(job.attrs[k])
    BY <1>1 DEF Sound, Attributed
  <1>3. ~job.failed
    BY <1>1 DEF Sound
  <1>4. ASSUME NEW a, AttrOK(a) PROVE Exists(At(a))
    <2> DEFINE hit == {k \in 1 .. Len(job.moved) : job.moved[k].item = a.item}
               n == SelectInSeq(job.moved, LAMBDA m : m.item = a.item)
    <2>1. n = IF hit # {} THEN Min(hit) ELSE 0
      BY DEF SelectInSeq
    <2>2. TargetOf(a.item) = IF n = 0 THEN <<>> ELSE <<job.moved[n].to>>
      BY DEF TargetOf
    <2>3. hit # {} => Min(hit) \in hit
      <3>1. hit \in SUBSET Nat
        OBVIOUS
      <3> HIDE DEF hit
      <3> QED BY <3>1, LeastIs
    <2> HIDE DEF n
    <2>4. CASE hit = {}
      <3>1. At(a) = a.from
        BY <2>1, <2>2, <2>4
      <3>2. ~\E m \in Done : m.item = a.item
        <4> SUFFICES ASSUME NEW m \in Done, m.item = a.item PROVE FALSE
          OBVIOUS
        <4>1. PICK k \in 1 .. Len(job.moved) : job.moved[k] = Track(m)
          BY <1>1, TracksAre, DoneIs
        <4> QED BY <4>1, <2>4 DEF Track
      <3> QED BY <3>1, <3>2, <1>4 DEF AttrOK, Exists
    <2>5. CASE hit # {}
      <3>1. n \in 1 .. Len(job.moved) /\ n # 0
        BY <2>1, <2>3, <2>5
      <3>2. PICK m : m = job.moves[n] /\ job.moved[n] = Track(m) /\ m.to \in DOMAIN fs
        BY <3>1, <1>1, TracksAre
      <3>3. TargetOf(a.item) = <<m.to>>
        BY <2>2, <3>1, <3>2 DEF Track
      <3>4. At(a) = m.to
        BY <3>3
      <3> QED BY <3>2, <3>4 DEF Exists
    <2> QED BY <2>4, <2>5
  <1>5. bad = 0
    <2>1. bad = IF missing # {} THEN Min(missing) ELSE 0
      BY DEF SelectInSeq
    <2>2. \A k \in 1 .. Len(job.attrs) : AttrOK(job.attrs[k])
      BY <1>2
    <2> HIDE DEF At, bad
    <2>3. missing = {}
      BY <2>2, <1>4
    <2> QED BY <2>1, <2>3
  <1>6. \/ job' = [j EXCEPT !.phase = "tags"] \/ job' = [j EXCEPT !.phase = "rebind"]
    <2>1. job' = IF bad # 0 THEN Abort(j)
                 ELSE IF j.moved = <<>> /\ j.attrsSet = {}
                      THEN [j EXCEPT !.phase = "tags"]
                 ELSE [j EXCEPT !.phase = "rebind"]
      BY DEF SetAttrs
    <2> HIDE DEF bad, j
    <2> QED BY <2>1, <1>5
  <1> HIDE DEF set
  <1>7. job'.phase \in {"tags", "rebind"} /\ job'.failed = job.failed
    BY <1>1, <1>6 DEF Fields
  <1>8. Left' = {}
    BY <1>7 DEF Left, Coming, Underway
  <1> QED BY <1>3, <1>7, <1>8 DEF Sound, Fitting, Open, Wanted, Attributed

\* The edits end, or their files and attributes are left alone.
LEMMA RestSound ==
    ASSUME FilesInv, EditInv, IndexInv, Sound,
           \/ Decline \/ CopyFails \/ Rebind \/ Reindex \/ WriteTags \/ Crash
           \/ \E p \in AlienPaths : Appear(p)
    PROVE  Sound'
  <1>1. ASSUME job' = Idle PROVE Sound'
    BY <1>1, IdleSound
  <1>2. ASSUME disturbed' PROVE Sound'
    BY <1>2 DEF Sound
  <1>3. ASSUME job' = [job EXCEPT !.phase = "reindex"] \/ job' = [job EXCEPT !.phase = "tags"],
               disturbed' = disturbed, job.phase \in {"rebind", "reindex"}
        PROVE  Sound'
    <2>1. Fields \subseteq DOMAIN job /\ job # Idle
      BY <1>3 DEF FilesInv, JobOK, Idle
    <2>2. /\ job'.phase \in {"reindex", "tags"} /\ job'.failed = job.failed
          /\ job'.moves = job.moves
      BY <1>3, <2>1 DEF Fields
    <2>3. Left' = {}
      BY <2>2 DEF Left, Coming, Underway
    <2> SUFFICES ASSUME ~Doubled PROVE Sound'
      BY <2>2, DoubledStays
    <2> QED BY <2>1, <2>2, <2>3, <1>3 DEF Sound, Fitting, Open, Wanted, Attributed
  <1>4. CASE Decline \/ WriteTags \/ Crash
    BY <1>1, <1>4 DEF Decline, WriteTags, Crash
  <1>5. CASE CopyFails
    BY <1>2, <1>5 DEF CopyFails
  <1>6. CASE \E p \in AlienPaths : Appear(p)
    BY <1>2, <1>6 DEF Appear
  <1>7. CASE Rebind
    BY <1>3, <1>7, RebindEdits DEF Rebind, history
  <1>8. CASE Reindex
    BY <1>1, <1>3, <1>8 DEF Reindex, history
  <1> QED BY <1>4, <1>5, <1>6, <1>7, <1>8

\* A plan that is confirmed is carried out to its end unless a file appears that
\* another program makes, a copy fails, or the answers have the number of a link
\* twice: the checks of plan_fs() and the order of apply() leave no other error,
\* whatever the edits and the files and whatever else is answered.
THEOREM NothingFailsHalfWay ==
    ASSUME ~Nested
    PROVE  Spec => []NoPartialFailure
  <1> DEFINE Inv == FilesInv /\ EditInv /\ IndexInv /\ Sound
  <1>1. Init => Inv
    <2> SUFFICES ASSUME Init PROVE Inv
      OBVIOUS
    <2>1. job = Idle /\ job.phase = "idle"
      BY DEF Init, Idle
    <2>2. Left = {}
      BY <2>1 DEF Left, Coming, Underway
    <2>3. Sound
      BY <2>1, <2>2 DEF Sound, Fitting, Open, Wanted, Attributed
    <2> QED BY <2>3, InitHolds, InitEdits
  <1>2. Inv /\ [Next]_vars => Inv'
    <2> SUFFICES ASSUME Inv, [Next]_vars PROVE Inv'
      OBVIOUS
    <2>1. FilesInv' /\ EditInv' /\ IndexInv'
      BY EditsKeep
    <2>2. Sound'
      <3>1. CASE Next
        <4>1. ASSUME NEW r \in Requests, Plan(r) PROVE Sound'
          BY <4>1, PlanSound
        <4>2. ASSUME Answered PROVE Sound'
          BY <4>2, ConfirmSound DEF Answered
        <4> QED BY <3>1, <4>1, <4>2, MkdirsSound, RenameSound, CopyAndDeleteSound,
                   SetAttrsSound, RestSound DEF Next
      <3>2. CASE UNCHANGED vars
        <4>1. /\ fs' = fs /\ locations' = locations /\ job' = job /\ disturbed' = disturbed
          BY <3>2 DEF vars, index, history
        <4>2. Left' = Left /\ Done' = Done
          BY <4>1 DEF Left, Done, Coming, Passed, First, Underway, Away
        <4>3. \A a : AttrOK(a) => AttrOK(a)'
          BY <4>1, <4>2 DEF AttrOK, HasRow
        <4>4. Attributed => Attributed'
          BY <4>1, <4>3 DEF Attributed
        <4>5. Fit' = Fit
          BY <4>1 DEF Fit, Ready, Exists, IsDir
        <4>6. Fitting => Fitting'
          BY <4>1, <4>5 DEF Fitting, Missing, Exists
        <4>7. (Open => Open') /\ (Wanted => Wanted')
          BY <4>1, <4>2 DEF Open, Wanted, IsDir
        <4>8. Doubled' <=> Doubled
          BY <4>1 DEF Doubled, MovedTwice
        <4> QED BY <4>1, <4>4, <4>6, <4>7, <4>8 DEF Sound
      <3> QED BY <3>1, <3>2
    <2> QED BY <2>1, <2>2
  <1>3. Inv => NoPartialFailure
    BY DEF NoPartialFailure, Sound, Doubled
  <1> QED BY <1>1, <1>2, <1>3, PTL DEF Spec

-----------------------------------------------------------------------------
(* Files without links. *)

\* No file has two paths, and no edit is killed.
Lone ==
    /\ MaxCrashes = 0
    /\ \A p, q \in DOMAIN Tree : Tree[p].ino = Tree[q].ino => p = q

Linkless == \A p, q \in DOMAIN fs : fs[p].ino = fs[q].ino => p = q
\* A row is of the file that its item stands for.
Row(l) == l.path \in DOMAIN fs /\ fs[l.path].ino = refs[l.item]
Exact == \A l \in locations : Row(l)
\* Each item has one row, of the file that it stands for, or the file is gone
\* and the indexer has not been there yet.
Tidy ==
    /\ crashes = 0 /\ ~stranded /\ Linkless
    /\ \A l, k \in locations : l.item = k.item => l = k
    /\ \A l \in locations : Gone(l) \/ Row(l)

LEMMA NotKilled ==
    ASSUME Lone, crashes = 0, ~stranded, [Next]_vars
    PROVE  crashes' = 0 /\ ~stranded'
  <1>1. ~(crashes < MaxCrashes)
    BY DEF Lone
  <1>2. ASSUME NEW r \in Requests, Plan(r) PROVE crashes' = crashes /\ stranded' = stranded
    BY <1>2 DEF Plan
  <1>3. CASE Answered \/ Decline
    <2>1. ASSUME NEW choice, NEW answer, Confirm(choice, answer)
          PROVE  crashes' = crashes /\ stranded' = stranded
      BY <2>1 DEF Confirm, bounds, history
    <2> QED BY <1>3, <2>1 DEF Answered, Decline, bounds, history
  <1>4. CASE Mkdirs
    BY <1>4 DEF Mkdirs, bounds, history
  <1>5. CASE Rename \/ CopyAndDelete \/ CopyFails
    BY <1>5 DEF Rename, CopyAndDelete, CopyFails, bounds, history
  <1>6. CASE SetAttrs
    BY <1>6 DEF SetAttrs, bounds, history
  <1>7. CASE Rebind \/ Reindex \/ WriteTags
    BY <1>7 DEF Rebind, Reindex, WriteTags, bounds, history
  <1>8. ASSUME NEW p \in AlienPaths, Appear(p)
        PROVE  crashes' = crashes /\ stranded' = stranded
    BY <1>8 DEF Appear
  <1>9. ~Crash
    BY <1>1 DEF Crash
  <1>10. CASE UNCHANGED vars
    BY <1>10 DEF vars, bounds, history
  <1> QED BY <1>2, <1>3, <1>4, <1>5, <1>6, <1>7, <1>8, <1>9, <1>10 DEF Next

LEMMA TidyStays ==
    ASSUME Tidy, crashes' = 0, ~stranded', Linkless', refs' = refs,
           locations' = locations, \A m \in Done : m \in Done',
           \A l \in locations : Row(l) => Gone(l)' \/ Row(l)'
    PROVE  Tidy'
  <1>1. \A l : Gone(l) => Gone(l)'
    BY DEF Gone
  <1> QED BY <1>1 DEF Tidy

LEMMA QuietTidy ==
    ASSUME Tidy, crashes' = 0, ~stranded', fs' = fs, refs' = refs,
           locations' = locations, \A m \in Done : m \in Done'
    PROVE  Tidy'
  <1>1. Linkless'
    BY DEF Tidy, Linkless
  <1>2. \A l : Row(l) => Row(l)'
    BY DEF Row
  <1> QED BY <1>1, <1>2, TidyStays

LEMMA MadeTidy ==
    ASSUME FsOK, Tidy, crashes' = 0, ~stranded', NEW W, NEW e, Makes(W, e),
           refs' = refs, locations' = locations, \A m \in Done : m \in Done'
    PROVE  Tidy'
  <1>1. /\ DOMAIN fs' = DOMAIN fs \cup W
        /\ \A p \in DOMAIN fs : fs'[p] = fs[p]
        /\ \A p \in W : fs'[p].ino = e[p].ino /\ nextIno <= e[p].ino /\ e[p].ino \in Nat
        /\ \A p, q \in W : e[p].ino = e[q].ino => p = q
    BY DEF Makes, Entries
  <1>2. nextIno \in Nat /\ \A p \in DOMAIN fs : fs[p].ino \in Nat /\ fs[p].ino < nextIno
    BY InosAre
  <1>3. Linkless'
    <2> SUFFICES ASSUME NEW p \in DOMAIN fs', NEW q \in DOMAIN fs', fs'[p].ino = fs'[q].ino
                 PROVE  p = q
      BY DEF Linkless
    <2>1. CASE p \in DOMAIN fs /\ q \in DOMAIN fs
      BY <2>1, <1>1 DEF Tidy, Linkless
    <2> QED BY <2>1, <1>1, <1>2
  <1>4. \A l : Row(l) => Row(l)'
    BY <1>1 DEF Row
  <1> QED BY <1>3, <1>4, TidyStays

\* What is moved or copied to a place that is clear.
LEMMA CopyLinkless ==
    ASSUME FsOK, Linkless, NEW from, NEW to, NEW t, CopyMakes(t, from, to)
    PROVE  \A p, q \in DOMAIN t : t[p].ino = t[q].ino => p = q
  <1> DEFINE targets == {Moved(p, from, to) : p \in Going(from)}
  <1>1. /\ DOMAIN t = DOMAIN fs \cup targets
        /\ \A p \in DOMAIN fs : t[p].ino = fs[p].ino
        /\ \A p \in targets : p \notin DOMAIN fs => nextIno <= t[p].ino
        /\ \A p, k \in targets :
              p \notin DOMAIN fs /\ k \notin DOMAIN fs /\ t[p].ino = t[k].ino => p = k
    BY DEF CopyMakes
  <1>2. nextIno \in Nat /\ \A p \in DOMAIN fs : fs[p].ino \in Nat /\ fs[p].ino < nextIno
    BY InosAre
  <1> HIDE DEF targets
  <1> SUFFICES ASSUME NEW p \in DOMAIN t, NEW q \in DOMAIN t, t[p].ino = t[q].ino
               PROVE  p = q
    OBVIOUS
  <1>3. CASE p \in DOMAIN fs /\ q \in DOMAIN fs
    BY <1>1, <1>3 DEF Linkless
  <1>4. CASE p \notin DOMAIN fs /\ q \notin DOMAIN fs
    BY <1>1, <1>4
  <1> QED BY <1>1, <1>2, <1>3, <1>4

LEMMA CarriedLinkless ==
    ASSUME FsOK, Linkless, NEW from \in Paths, NEW to \in Paths, from[1] # to[1],
           CanCopy(from, to), Clear(to), fs' = Deleted(Copied(from, to), from)
    PROVE  Linkless'
  <1> DEFINE t == Copied(from, to)
  <1>1. CopyMakes(t, from, to)
    BY CopiedIs
  <1>2. fs' = [q \in {p \in DOMAIN t : ~IsPrefix(from, p)} |-> t[q]]
    BY DEF Deleted
  <1> HIDE DEF t
  <1>3. \A p, q \in DOMAIN t : t[p].ino = t[q].ino => p = q
    BY <1>1, CopyLinkless
  <1> QED BY <1>2, <1>3 DEF Linkless

LEMMA RenamedLinkless ==
    ASSUME FsOK, Linkless, NEW from \in Paths, NEW to \in Paths, CanRename(from, to),
           fs' = Renamed(from, to)
    PROVE  Linkless'
  <1> DEFINE going == Going(from)
             stay == DOMAIN fs \ (going \cup {to})
             targets == {Moved(p, from, to) : p \in going}
             source(q) == Moved(q, to, from)
  <1>1. Below(from) \cup {from} = going /\ going \subseteq DOMAIN fs
    BY GoingIs DEF CanRename
  <1>2. \A q \in targets : source(q) \in going /\ q = Moved(source(q), from, to)
    BY TargetsAre DEF CanRename
  <1>3. fs' = [q \in stay \cup targets |-> IF q \in stay THEN fs[q] ELSE fs[source(q)]]
    BY <1>1 DEF Renamed
  <1>4. stay \subseteq DOMAIN fs /\ stay \cap going = {}
    OBVIOUS
  <1> HIDE DEF targets, stay, source, going
  <1> SUFFICES ASSUME NEW p \in stay \cup targets, NEW q \in stay \cup targets,
                      fs'[p].ino = fs'[q].ino
               PROVE  p = q
    BY <1>3 DEF Linkless
  <1>5. CASE p \in stay /\ q \in stay
    BY <1>3, <1>4, <1>5 DEF Linkless
  <1>6. CASE p \notin stay /\ q \notin stay
    <2>1. fs[source(p)].ino = fs[source(q)].ino
      BY <1>3, <1>6
    <2>2. source(p) = source(q)
      BY <2>1, <1>1, <1>2, <1>6 DEF Linkless
    <2> QED BY <2>2, <1>2, <1>6
  <1>7. ASSUME NEW a \in stay, NEW b \in targets, b \notin stay, fs'[a].ino = fs'[b].ino
        PROVE  FALSE
    <2>1. fs[a].ino = fs[source(b)].ino
      BY <1>3, <1>7
    <2>2. a = source(b)
      BY <2>1, <1>1, <1>2, <1>4, <1>7 DEF Linkless
    <2> QED BY <2>2, <1>2, <1>4, <1>7
  <1> QED BY <1>5, <1>6, <1>7

LEMMA MoveTidy ==
    ASSUME FilesInv, EditInv, Tidy, MovesLeft, Advance, Linkless',
           Carries(NextMove.from, NextMove.to, NextMove.crossed),
           refs' = refs, locations' = locations, crashes' = 0, ~stranded'
    PROVE  Tidy'
  <1>1. PICK m : m = NextMove
    OBVIOUS
  <1>2. m \in Left \cup Repeats /\ ~stranded
    BY <1>1, MoveIs DEF Tidy
  <1>3. (\A o \in Done : o \in Done') /\ \E o \in Done' : o.from = m.from
    <2>1. \A o : o \in Done' <=> o \in Done \/ (o = m /\ First(job.next))
      BY <1>1, Advanced
    <2>2. ~First(job.next) => \E o \in Done : o.from = m.from
      BY <1>1, MoveIs
    <2> QED BY <2>1, <2>2
  <1>4. \A p \in DOMAIN fs : ~IsPrefix(m.from, p) /\ ~IsPrefix(m.to, p) =>
              p \in DOMAIN fs' /\ fs'[p] = fs[p]
    BY <1>1 DEF Carries
  <1>5. \A l \in locations : ~IsPrefix(m.to, l.path)
    BY <1>2 DEF EditInv, Ahead, Repeated
  <1>6. ASSUME NEW l \in locations, Row(l) PROVE Gone(l)' \/ Row(l)'
    <2>1. CASE IsPrefix(m.from, l.path)
      BY <2>1, <1>3 DEF Gone
    <2>2. CASE ~IsPrefix(m.from, l.path)
      BY <2>2, <1>4, <1>5, <1>6 DEF Row
    <2> QED BY <2>1, <2>2
  <1> QED BY <1>3, <1>6, TidyStays

LEMMA RenameTidy ==
    ASSUME FilesInv, EditInv, Tidy, crashes' = 0, ~stranded', Rename
    PROVE  Tidy'
  <1>1. MovesLeft /\ ~NextMove.crossed /\ locations' = locations /\ refs' = refs
    BY DEF Rename, index
  <1>2. /\ job.phase = "move" /\ Fields \subseteq DOMAIN job /\ NextMove \in PlannedMove
        /\ NextMove.from \in Paths /\ NextMove.to \in Paths
    BY <1>1, NextMoveIs DEF MovesLeft
  <1>3. CASE CanRename(NextMove.from, NextMove.to)
    <2>1. fs' = Renamed(NextMove.from, NextMove.to) /\ Advance
      BY <1>3 DEF Rename
    <2>2. Carries(NextMove.from, NextMove.to, FALSE)
      BY <1>2, <1>3, <2>1, RenamedCarries DEF FilesInv
    <2>3. NextMove.crossed = FALSE
      BY <1>1, <1>2 DEF PlannedMove
    <2>4. Linkless'
      BY <1>2, <1>3, <2>1, RenamedLinkless DEF FilesInv, Tidy
    <2> QED BY <1>1, <2>1, <2>2, <2>3, <2>4, MoveTidy
  <1>4. CASE ~CanRename(NextMove.from, NextMove.to)
    <2>1. fs' = fs /\ job' = Abort(job)
      BY <1>4 DEF Rename
    <2>2. Done' = Done
      BY <1>1, <1>2, <2>1, JobStops DEF Halts
    <2> QED BY <1>1, <2>1, <2>2, QuietTidy
  <1> QED BY <1>3, <1>4

LEMMA CopyAndDeleteTidy ==
    ASSUME FilesInv, EditInv, Tidy, crashes' = 0, ~stranded', CopyAndDelete
    PROVE  Tidy'
  <1>1. MovesLeft /\ NextMove.crossed /\ locations' = locations /\ refs' = refs
    BY DEF CopyAndDelete, index
  <1>2. /\ job.phase = "move" /\ Fields \subseteq DOMAIN job /\ NextMove \in PlannedMove
        /\ NextMove.from \in Paths /\ NextMove.to \in Paths /\ Clear(NextMove.to)
        /\ NextMove.from[1] # NextMove.to[1]
    BY <1>1, NextMoveIs DEF MovesLeft
  <1>3. CASE CanCopy(NextMove.from, NextMove.to)
    <2>1. fs' = Deleted(Copied(NextMove.from, NextMove.to), NextMove.from) /\ Advance
      BY <1>3 DEF CopyAndDelete
    <2>2. Carries(NextMove.from, NextMove.to, TRUE)
      BY <1>2, <1>3, <2>1, CopiedCarries DEF FilesInv
    <2>3. NextMove.crossed = TRUE
      BY <1>1, <1>2 DEF PlannedMove
    <2>4. Linkless'
      BY <1>2, <1>3, <2>1, CarriedLinkless DEF FilesInv, Tidy
    <2> QED BY <1>1, <2>1, <2>2, <2>3, <2>4, MoveTidy
  <1>4. CASE ~CanCopy(NextMove.from, NextMove.to)
    <2>1. fs' = fs /\ job' = Abort(job)
      BY <1>4 DEF CopyAndDelete
    <2>2. Done' = Done
      BY <1>1, <1>2, <2>1, JobStops DEF Halts
    <2> QED BY <1>1, <2>1, <2>2, QuietTidy
  <1> QED BY <1>3, <1>4

LEMMA CopyFailsTidy ==
    ASSUME FilesInv, EditInv, Tidy, crashes' = 0, ~stranded', CopyFails
    PROVE  Tidy'
  <1>1. /\ MovesLeft /\ CanCopy(NextMove.from, NextMove.to) /\ job' = Abort(job)
        /\ fs' = Copied(NextMove.from, NextMove.to) /\ locations' = locations
        /\ refs' = refs
    BY DEF CopyFails, index
  <1>2. /\ job.phase = "move" /\ Fields \subseteq DOMAIN job
        /\ NextMove.from \in Paths /\ NextMove.to \in Paths /\ Clear(NextMove.to)
    BY <1>1, NextMoveIs DEF MovesLeft
  <1> DEFINE from == NextMove.from
             to == NextMove.to
             t == Copied(from, to)
  <1>3. CopyMakes(t, from, to)
    BY <1>1, <1>2, CopiedIs DEF FilesInv
  <1>4. fs' = t
    BY <1>1
  <1> HIDE DEF t
  <1>5. \A p, q \in DOMAIN t : t[p].ino = t[q].ino => p = q
    BY <1>3, CopyLinkless DEF FilesInv, Tidy
  <1>6. Linkless'
    BY <1>4, <1>5 DEF Linkless
  <1>7. \A q \in DOMAIN fs : q \in DOMAIN fs' /\ fs'[q].ino = fs[q].ino
    BY <1>3, <1>4 DEF CopyMakes
  <1>8. \A l : Row(l) => Row(l)'
    BY <1>1, <1>7 DEF Row
  <1>9. Done' = Done
    BY <1>1, <1>2, JobStops DEF Halts
  <1> QED BY <1>1, <1>6, <1>8, <1>9, TidyStays

LEMMA SetAttrsTidy ==
    ASSUME FilesInv, EditInv, Tidy, crashes' = 0, ~stranded', SetAttrs
    PROVE  Tidy'
  <1> DEFINE At(a) == IF TargetOf(a.item) = <<>> THEN a.from ELSE TargetOf(a.item)[1]
             bad == SelectInSeq(job.attrs, LAMBDA a : ~Exists(At(a)))
             done == IF bad = 0 THEN job.attrs ELSE SubSeq(job.attrs, 1, bad - 1)
             set == {At(a) : a \in ToSet(done)}
             j == [job EXCEPT !.attrsSet = set]
  <1>1. /\ fs' = fs /\ refs' = refs /\ locations' = locations
        /\ job.phase = "move" /\ Fields \subseteq DOMAIN job
    BY DEF SetAttrs, index, FilesInv, JobOK, Idle
  <1>2. job' = IF bad # 0 THEN Abort(j)
               ELSE IF j.moved = <<>> /\ j.attrsSet = {}
                    THEN [j EXCEPT !.phase = "tags"]
               ELSE [j EXCEPT !.phase = "rebind"]
    BY DEF SetAttrs
  <1> HIDE DEF set, bad
  <1>3. /\ Fields \subseteq DOMAIN j /\ j.moves = job.moves /\ j.moved = job.moved
        /\ j.next = job.next
    BY <1>1 DEF Fields
  <1> HIDE DEF j
  <1>4. \/ job' = Abort(j) \/ job' = [j EXCEPT !.phase = "rebind"]
        \/ j.moved = <<>> /\ job' = [j EXCEPT !.phase = "tags"]
    BY <1>2
  <1>5. Done' = Done
    BY <1>1, <1>3, <1>4, JobStops DEF Halts
  <1> QED BY <1>1, <1>5, QuietTidy

LEMMA MkdirsTidy ==
    ASSUME FilesInv, EditInv, Tidy, crashes' = 0, ~stranded', Mkdirs
    PROVE  Tidy'
  <1>1. /\ refs' = refs /\ locations' = locations /\ job.phase = "mkdir" /\ job # Idle
        /\ Fields \subseteq DOMAIN job
    BY DEF Mkdirs, index, FilesInv, JobOK, Idle
  <1>2. CASE job' = Idle /\ fs' = fs
    <2>1. job.next = 1 /\ Away
      BY <1>1 DEF EditInv, Routed, Away
    <2>2. 1 .. 1 - 1 = {}
      OBVIOUS
    <2>3. Done = {}
      BY <2>1, <2>2 DEF Done, Passed
    <2> QED BY <1>1, <1>2, <2>3, QuietTidy
  <1>3. ASSUME NEW W, NEW e, Makes(W, e), job' = [job EXCEPT !.phase = "move"]
        PROVE  Tidy'
    <2>1. job'.phase = "move" /\ job'.moves = job.moves /\ job'.next = job.next
      BY <1>1, <1>3 DEF Fields
    <2>2. Done' = Done
      BY <2>1, <1>1 DEF Done, Passed, First, Away
    <2> QED BY <1>1, <1>3, <2>2, MadeTidy DEF FilesInv
  <1> QED BY <1>2, <1>3, MkdirsMake

LEMMA RebindTidy ==
    ASSUME FilesInv, EditInv, IndexInv, Tidy, crashes' = 0, ~stranded', Rebind
    PROVE  Tidy'
  <1>1. /\ fs' = fs /\ locations' = locations /\ job.phase = "rebind"
        /\ Fields \subseteq DOMAIN job /\ Away
    BY DEF Rebind, FilesInv, JobOK, Idle, Away
  <1>2. job' = [job EXCEPT !.phase = "reindex"]
    BY RebindEdits
  <1>3. refs' = Rebound
    <2>1. job' # Idle
      BY <1>1, <1>2 DEF Idle, Fields
    <2> QED BY <2>1 DEF Rebind
  <1>4. job'.phase = "reindex" /\ job'.moves = job.moves /\ job'.next = job.next
    BY <1>1, <1>2 DEF Fields
  <1>5. Done' = Done
    BY <1>1, <1>4 DEF Away, Done, Passed, First
  <1>6. \A m \in Done : HasRow(m.from, m.item) /\ IsPrefix(m.from, m.from)
    <2>1. \A k \in DOMAIN job.moves : HasRow(job.moves[k].from, job.moves[k].item)
      BY <1>1 DEF EditInv, Routed
    <2>2. \A k \in Passed : k \in DOMAIN job.moves /\ job.moves[k] \in PlannedMove
      BY <1>1, TracksAre
    <2>3. \A m \in Done : HasRow(m.from, m.item) /\ m \in PlannedMove
      BY <2>1, <2>2, DoneIs
    <2> QED BY <2>3, PathsAre, PrefixRefl DEF PlannedMove
  <1>7. ASSUME NEW l \in locations PROVE Gone(l)' \/ Row(l)'
    <2>1. Gone(l) => Gone(l)'
      BY <1>5 DEF Gone
    <2>2. l.item \in DOMAIN refs
      BY DEF EditInv, RefsOK
    <2>3. CASE \E m \in Done : m.crossed /\ m.item = l.item
      <3>1. PICK m \in Done : m.item = l.item
        BY <2>3
      <3>2. PICK k \in locations : k.path = m.from /\ k.item = m.item
        BY <1>6, <3>1 DEF HasRow
      <3>3. l.path = m.from
        BY <3>1, <3>2 DEF Tidy
      <3> QED BY <3>1, <3>3, <1>6, <2>1 DEF Gone
    <2>4. CASE ~\E m \in Done : m.crossed /\ m.item = l.item
      <3>1. Rebound[l.item] = refs[l.item]
        BY <1>1, <2>2, <2>4, ReboundIs
      <3>2. Row(l) => Row(l)'
        BY <1>1, <1>3, <3>1 DEF Row
      <3> QED BY <3>2, <2>1 DEF Tidy
    <2> QED BY <2>3, <2>4
  <1>8. Linkless'
    BY <1>1 DEF Tidy, Linkless
  <1> QED BY <1>1, <1>7, <1>8 DEF Tidy

LEMMA ReindexTidy ==
    ASSUME FilesInv, EditInv, EditInv', Tidy, crashes' = 0, ~stranded', Reindex
    PROVE  Tidy'
  <1> DEFINE In(p) == \E d \in TouchedDirs : IsPrefix(d, p)
             ids == {l.item : l \in Indexed(TouchedDirs)}
             InoOf(i) == fs[(CHOOSE l \in locations' : l.item = i).path].ino
  <1>1. /\ fs' = fs /\ job.phase = "reindex" /\ Away
        /\ \A p \in DOMAIN fs : fs[p].ino \in Nat
        /\ \A l \in locations : l.path \in Paths
        /\ locations' = Indexed(TouchedDirs)
    BY InosAre DEF Reindex, Index, FilesInv, Away, LocationsOK
  <1>2. refs' = [i \in ids |-> IF i \in DOMAIN refs THEN refs[i] ELSE InoOf(i)]
    BY <1>1 DEF Reindex, Index
  <1>3. \A l \in locations' :
              \/ l.path \in DOMAIN fs /\ In(l.path) /\ l.item = IdOf(fs[l.path].ino)
                 /\ l = [path |-> l.path, item |-> l.item]
              \/ l \in locations /\ ~In(l.path)
    BY <1>1 DEF Indexed
  <1>4. RefsOK /\ RefsOK'
    BY DEF EditInv
  <1>5. \A l \in locations' : l.item \in DOMAIN refs'
    BY <1>4 DEF RefsOK
  <1>6. \A i \in DOMAIN refs' : i \in DOMAIN refs => refs'[i] = refs[i]
    BY <1>2
  <1> HIDE DEF ids, InoOf, In
  \* What is found is the file that its item stands for.
  <1>7. ASSUME NEW l \in locations', l.path \in DOMAIN fs, l.item = IdOf(fs[l.path].ino)
        PROVE  refs'[l.item] = fs[l.path].ino
    <2>1. fs[l.path].ino \in Nat
      BY <1>1, <1>7
    <2>2. CASE IdOf(fs[l.path].ino) \in DOMAIN refs /\ refs[IdOf(fs[l.path].ino)] = fs[l.path].ino
      BY <2>2, <1>5, <1>6, <1>7
    <2>3. CASE IdOf(fs[l.path].ino) = NewItem(fs[l.path].ino)
      <3>1. /\ refs'[l.item] \in Nat
            /\ l.item \in Items \/ l.item = NewItem(refs'[l.item])
        BY <1>4, <1>5 DEF RefsOK, NewItem
      <3>2. l.item \notin Items /\ l.item - FirstIno = fs[l.path].ino
        BY <2>1, <2>3, <1>7, NewItemIsNew
      <3>3. l.item - FirstIno = refs'[l.item]
        BY <3>1, <3>2, NewItemIsNew
      <3> QED BY <3>2, <3>3
    <2> QED BY <2>1, <2>2, <2>3, <1>4, IdIs
  \* What is not looked at is not gone.
  <1>8. ASSUME NEW l \in locations, ~In(l.path), l \in locations'
        PROVE  l.path \in DOMAIN fs /\ refs'[l.item] = fs[l.path].ino
    <2>1. ~Gone(l)
      BY <1>1, <1>8, DoneIs, TouchedAre DEF Gone, In
    <2>2. Row(l) /\ l.item \in DOMAIN refs
      BY <2>1 DEF Tidy, EditInv, RefsOK
    <2> QED BY <2>2, <1>5, <1>6, <1>8 DEF Row
  <1>9. \A l \in locations' : l.path \in DOMAIN fs /\ refs'[l.item] = fs[l.path].ino
    BY <1>3, <1>7, <1>8
  <1>10. ASSUME NEW l \in locations', NEW k \in locations', l.item = k.item PROVE l = k
    <2>1. l.path = k.path
      BY <1>9, <1>10 DEF Tidy, Linkless
    <2>2. CASE l \in locations /\ k \in locations
      BY <2>2, <1>10 DEF Tidy
    <2>3. CASE ~(l \in locations /\ k \in locations)
      <3>1. /\ l = [path |-> l.path, item |-> l.item]
            /\ k = [path |-> k.path, item |-> k.item]
        BY <1>3, <2>1, <2>3
      <3> QED BY <3>1, <2>1, <1>10
    <2> QED BY <2>2, <2>3
  <1>11. Linkless'
    BY <1>1 DEF Tidy, Linkless
  <1>12. \A l \in locations' : Row(l)'
    BY <1>1, <1>9 DEF Row
  <1> QED BY <1>10, <1>11, <1>12 DEF Tidy

LEMMA InitTidy ==
    ASSUME Lone, Init
    PROVE  Tidy
  <1>1. /\ fs = Tree /\ refs = [i \in Items |-> i] /\ crashes = 0 /\ ~stranded
        /\ locations = {[path |-> p, item |-> Tree[p].what] :
                           p \in {q \in DOMAIN Tree : Tree[q].what \in Items}}
    BY DEF Init
  <1>2. Linkless
    BY <1>1 DEF Lone, Linkless
  <1>3. \A l \in locations : /\ l.path \in DOMAIN Tree /\ l.item = Tree[l.path].what
                             /\ l.item \in Items
                             /\ l = [path |-> l.path, item |-> l.item]
    BY <1>1
  <1>4. \A l \in locations : Tree[l.path].ino = l.item
    BY <1>3, TreeAssumption
  <1>5. \A l \in locations : Row(l)
    BY <1>1, <1>3, <1>4 DEF Row
  <1>6. \A l, k \in locations : l.item = k.item => l = k
    BY <1>3, <1>4 DEF Lone
  <1> QED BY <1>1, <1>2, <1>5, <1>6 DEF Tidy

LEMMA TidyKeeps ==
    ASSUME Lone, ~Nested, FilesInv, EditInv, IndexInv, Tidy, [Next]_vars
    PROVE  Tidy'
  <1>1. crashes' = 0 /\ ~stranded'
    BY NotKilled DEF Tidy
  <1>2. EditInv'
    BY EditsKeep
  <1>3. CASE Next
    <2>1. ASSUME NEW r \in Requests, Plan(r) PROVE Tidy'
      <3>1. /\ fs' = fs /\ refs' = refs /\ locations' = locations /\ Done = {}
        BY <2>1 DEF Plan, index, Done, Passed, Away, Idle
      <3> QED BY <3>1, <1>1, QuietTidy
    <2>2. ASSUME Answered PROVE Tidy'
      <3>1. /\ fs' = fs /\ refs' = refs /\ locations' = locations /\ Done = {}
        BY <2>2 DEF Answered, Confirm, index, Done, Passed, Away
      <3> QED BY <3>1, <1>1, QuietTidy
    <2>3. ASSUME NEW p \in AlienPaths, Appear(p) PROVE Tidy'
      <3>1. PICK e : Makes({p}, e)
        BY <2>3, AppearMakes
      <3>2. refs' = refs /\ locations' = locations /\ job' = job
        BY <2>3 DEF Appear, index
      <3>3. Done' = Done
        BY <3>2 DEF Done, Passed, First, Away
      <3> QED BY <3>1, <3>2, <3>3, <1>1, MadeTidy DEF FilesInv
    <2>4. CASE Decline \/ WriteTags
      <3>1. /\ fs' = fs /\ refs' = refs /\ locations' = locations /\ Done = {}
        BY <2>4 DEF Decline, WriteTags, index, Done, Passed, Away
      <3> QED BY <3>1, <1>1, QuietTidy
    <2>5. ~Crash
      BY DEF Crash, Lone, Tidy
    <2> QED BY <1>1, <1>2, <1>3, <2>1, <2>2, <2>3, <2>4, <2>5, MkdirsTidy, RenameTidy,
               CopyAndDeleteTidy, CopyFailsTidy, SetAttrsTidy, RebindTidy,
               ReindexTidy DEF Next
  <1>4. CASE UNCHANGED vars
    <2>1. fs' = fs /\ locations' = locations /\ job' = job /\ refs' = refs
      BY <1>4 DEF vars, index
    <2>2. Done' = Done
      BY <2>1 DEF Done, Passed, First, Away
    <2> QED BY <1>1, <2>1, <2>2, QuietTidy
  <1> QED BY <1>3, <1>4

LEMMA TidyIsExact ==
    ASSUME Tidy, job = Idle
    PROVE  Exact
  <1>1. Done = {}
    BY DEF Done, Passed, Away, Idle
  <1> QED BY <1>1 DEF Tidy, Gone, Exact

-----------------------------------------------------------------------------
(* Tags are written after the index has the files. *)

Indexable ==
    \A m \in ToSet(job.moves) :
        /\ \E l \in locations : l.path = m.to
        /\ \E o \in ToSet(job.moves) :
              o.item = m.item /\ [path |-> o.to, item |-> m.item] \in locations
\* What is moved is what its item stands for, at its new place too; a copy is
\* when rebind() has seen to it.
Aligned ==
    /\ asked \in Nat
    /\ asked = 0 => job = Idle
    /\ asked = 0 \/ job.phase = "confirm" => Exact
    /\ \A m \in Left : fs[m.from].ino = refs[m.item]
    /\ job.phase # "reindex" =>
          \A m \in Done : ~m.crossed => fs[m.to].ino = refs[m.item]
    /\ job.phase = "reindex" =>
          \A m \in Done : \E o \in Done :
             o.item = m.item /\ fs[o.to].ino = refs[o.item]
    /\ job.phase \in {"rebind", "reindex"} /\ ~job.failed =>
          job.next = Len(job.moves) + 1
    /\ job.phase = "tags" => Indexable

\* An edit that has ended or is given up.
LEMMA OverAligned ==
    ASSUME job'.phase = "idle", asked' \in Nat, asked' # 0
    PROVE  Aligned'
  <1>1. ~Away' /\ ~Underway'
    BY DEF Away, Underway
  <1>2. Done' = {} /\ Left' = {}
    BY <1>1 DEF Done, Left, Passed, Coming
  <1> QED BY <1>2 DEF Aligned

\* An edit that stops where it is.
LEMMA StopAligned ==
    ASSUME FilesInv, EditInv, Aligned, job.phase = "move", NEW j,
           j.moves = job.moves, j.next = job.next, Fields \subseteq DOMAIN j,
           job' = Abort(j), Done' = Done, Left' = {}, refs' = refs, asked' = asked,
           \A m \in Done : fs'[m.to].ino = fs[m.to].ino
    PROVE  Aligned'
  <1>1. asked \in Nat /\ asked # 0
    BY DEF Aligned, Idle
  <1>2. CASE job' = Idle
    BY <1>1, <1>2, OverAligned DEF Idle
  <1>3. CASE job' = [j EXCEPT !.phase = "rebind", !.failed = TRUE]
    <2>1. job'.phase = "rebind" /\ job'.failed
      BY <1>3 DEF Fields
    <2> QED BY <2>1, <1>1 DEF Aligned
  <1> QED BY <1>2, <1>3 DEF Abort

LEMMA PlanAligned ==
    ASSUME Aligned, Exact, NEW r \in Requests, Plan(r)
    PROVE  Aligned'
  <1>1. /\ fs' = fs /\ refs' = refs /\ locations' = locations /\ asked' = asked + 1
        /\ job'.phase = "confirm"
    BY DEF Plan, index
  <1>2. Exact'
    BY <1>1 DEF Aligned, Exact, Row
  <1>3. ~Away' /\ ~Underway'
    BY <1>1 DEF Away, Underway
  <1>4. Done' = {} /\ Left' = {}
    BY <1>3 DEF Done, Left, Passed, Coming
  <1> QED BY <1>1, <1>2, <1>4 DEF Aligned

LEMMA ConfirmAligned ==
    ASSUME FilesInv, EditInv, EditInv', Aligned, NEW choice, NEW answer,
           Confirm(choice, answer)
    PROVE  Aligned'
  <1>1. /\ fs' = fs /\ refs' = refs /\ locations' = locations /\ asked' = asked
        /\ job.phase = "confirm" /\ job # Idle /\ Fields \subseteq DOMAIN job
        /\ job.next = 1
    BY DEF Confirm, index, bounds, FilesInv, JobOK, Idle, EditInv, Offered
  <1>2. job'.phase = "mkdir" /\ job'.next = 1
    BY <1>1 DEF Confirm, Fields
  <1>3. Away' /\ Underway'
    BY <1>2 DEF Away, Underway
  <1>4. Done' = {}
    <2>1. 1 .. 1 - 1 = {}
      OBVIOUS
    <2> QED BY <2>1, <1>2, <1>3 DEF Done, Passed
  <1>5. \A m \in Left' : HasRow(m.from, m.item)'
    <2>1. /\ job'.moves \in Seq(PlannedMove)
          /\ \A k \in DOMAIN job'.moves : HasRow(job.moves[k].from, job.moves[k].item)'
      BY <1>3 DEF EditInv, Routed
    <2>2. DOMAIN job'.moves = 1 .. Len(job'.moves)
      BY <2>1
    <2> QED BY <2>1, <2>2, <1>2, <1>3 DEF Left, Coming
  <1>6. \A m \in Left' : fs'[m.from].ino = refs'[m.item]
    BY <1>1, <1>5 DEF Aligned, Exact, Row, HasRow
  <1> QED BY <1>1, <1>2, <1>4, <1>6 DEF Aligned

LEMMA GrowsAligned ==
    ASSUME FilesInv, EditInv, Aligned, Grows, refs' = refs, locations' = locations,
           asked' = asked, Done' = Done, Left' = Left,
           \/ job' = job
           \/ job' = [job EXCEPT !.phase = "move"] /\ job.phase = "mkdir"
    PROVE  Aligned'
  <1>1. \A p \in DOMAIN fs : p \in DOMAIN fs' /\ fs'[p] = fs[p]
    BY DEF Grows
  <1>2. /\ \A m \in Left : m.from \in DOMAIN fs
        /\ \A m \in Done : m.to \in DOMAIN fs
    BY DEF EditInv, Ahead, Arrived
  <1>3. Exact => Exact'
    BY <1>1 DEF Exact, Row
  <1>4. /\ \A m \in Left' : fs'[m.from].ino = refs'[m.item]
        /\ job.phase # "reindex" =>
              \A m \in Done' : ~m.crossed => fs'[m.to].ino = refs'[m.item]
        /\ job.phase = "reindex" =>
              \A m \in Done' : \E o \in Done' :
                 o.item = m.item /\ fs'[o.to].ino = refs'[o.item]
    BY <1>1, <1>2 DEF Aligned
  <1>5. CASE job' = job
    BY <1>3, <1>4, <1>5 DEF Aligned, Indexable
  <1>6. CASE job' = [job EXCEPT !.phase = "move"] /\ job.phase = "mkdir"
    <2>1. job # Idle /\ Fields \subseteq DOMAIN job
      BY <1>6 DEF FilesInv, JobOK, Idle
    <2>2. job'.phase = "move" /\ asked # 0
      BY <1>6, <2>1 DEF Fields, Aligned
    <2> QED BY <1>3, <1>4, <1>6, <2>2 DEF Aligned
  <1> QED BY <1>5, <1>6

LEMMA MkdirsAligned ==
    ASSUME FilesInv, EditInv, Aligned, Mkdirs
    PROVE  Aligned'
  <1>1. /\ job.phase = "mkdir" /\ job # Idle /\ Fields \subseteq DOMAIN job
        /\ refs' = refs /\ locations' = locations /\ asked' = asked
    BY DEF Mkdirs, index, bounds, FilesInv, JobOK, Idle
  <1>2. CASE job' = Idle
    BY <1>1, <1>2, OverAligned DEF Aligned, Idle
  <1>3. ASSUME NEW W, NEW e, Makes(W, e), job' = [job EXCEPT !.phase = "move"]
        PROVE  Aligned'
    <2>1. job'.phase = "move" /\ job'.moves = job.moves /\ job'.next = job.next
      BY <1>1, <1>3 DEF Fields
    <2>2. Away' /\ Underway' /\ Away /\ Underway
      BY <1>1, <2>1 DEF Away, Underway
    <2>3. Done' = Done /\ Left' = Left
      BY <2>1, <2>2 DEF Done, Left, Passed, Coming, First
    <2> QED BY <1>1, <1>3, <2>3, MadeGrows, GrowsAligned
  <1> QED BY <1>2, <1>3, MkdirsMake

LEMMA AppearAligned ==
    ASSUME FilesInv, EditInv, Aligned, NEW p \in AlienPaths, Appear(p)
    PROVE  Aligned'
  <1>1. job' = job /\ refs' = refs /\ locations' = locations /\ asked' = asked
    BY DEF Appear, index
  <1>2. Done' = Done /\ Left' = Left
    BY <1>1 DEF Done, Left, Passed, Coming, First, Away, Underway
  <1>3. Grows
    BY AppearMakes, MadeGrows DEF FilesInv
  <1> QED BY <1>1, <1>2, <1>3, GrowsAligned

LEMMA MoveAligned ==
    ASSUME FilesInv, EditInv, Aligned, MovesLeft, Advance,
           Carries(NextMove.from, NextMove.to, NextMove.crossed),
           refs' = refs, locations' = locations, asked' = asked
    PROVE  Aligned'
  <1>1. PICK m : m = NextMove
    OBVIOUS
  <1>2. job.phase = "move" /\ job # Idle /\ (First(job.next) => m \in Left)
    BY <1>1, MoveIs DEF Idle
  <1>3. /\ \A o \in Left : o # m => ~IsPrefix(m.from, o.from) /\ ~IsPrefix(m.to, o.from)
        /\ \A o \in Done : ~IsPrefix(m.from, o.to) /\ ~IsPrefix(m.to, o.to)
    BY <1>1, MoveIs DEF Sundered, Aside
  <1>4. /\ job'.phase = "move"
        /\ \A o : o \in Done' <=> o \in Done \/ (o = m /\ First(job.next))
        /\ \A o : o \in Left' => o \in Left /\ o # m
    BY <1>1, Advanced
  <1>5. /\ \A p \in DOMAIN fs : ~IsPrefix(m.from, p) /\ ~IsPrefix(m.to, p) =>
              fs'[p] = fs[p]
        /\ ~m.crossed => fs'[m.to] = fs[m.from]
    BY <1>1 DEF Carries
  <1>6. /\ \A o \in Left : o.from \in DOMAIN fs /\ fs[o.from].ino = refs[o.item]
        /\ \A o \in Done : o.to \in DOMAIN fs /\ (~o.crossed => fs[o.to].ino = refs[o.item])
    BY <1>2 DEF EditInv, Ahead, Arrived, Aligned
  <1>7. /\ \A o \in Left' : fs'[o.from].ino = refs'[o.item]
        /\ \A o \in Done' : ~o.crossed => fs'[o.to].ino = refs'[o.item]
    BY <1>2, <1>3, <1>4, <1>5, <1>6
  <1>8. asked \in Nat /\ asked # 0
    BY <1>2 DEF Aligned
  <1> QED BY <1>4, <1>7, <1>8 DEF Aligned

LEMMA RenameAligned ==
    ASSUME FilesInv, EditInv, Aligned, Rename
    PROVE  Aligned'
  <1>1. /\ MovesLeft /\ ~NextMove.crossed /\ locations' = locations /\ refs' = refs
        /\ asked' = asked
    BY DEF Rename, index, bounds
  <1>2. /\ job.phase = "move" /\ Fields \subseteq DOMAIN job /\ NextMove \in PlannedMove
        /\ NextMove.from \in Paths /\ NextMove.to \in Paths
    BY <1>1, NextMoveIs DEF MovesLeft
  <1>3. CASE CanRename(NextMove.from, NextMove.to)
    <2>1. fs' = Renamed(NextMove.from, NextMove.to) /\ Advance
      BY <1>3 DEF Rename
    <2>2. Carries(NextMove.from, NextMove.to, FALSE)
      BY <1>2, <1>3, <2>1, RenamedCarries DEF FilesInv
    <2>3. NextMove.crossed = FALSE
      BY <1>1, <1>2 DEF PlannedMove
    <2> QED BY <1>1, <2>1, <2>2, <2>3, MoveAligned
  <1>4. CASE ~CanRename(NextMove.from, NextMove.to)
    <2>1. fs' = fs /\ job' = Abort(job)
      BY <1>4 DEF Rename
    <2>2. Done' = Done /\ Left' = {}
      BY <1>1, <1>2, <2>1, JobStops DEF Halts
    <2> QED BY <1>1, <1>2, <2>1, <2>2, StopAligned
  <1> QED BY <1>3, <1>4

LEMMA CopyAndDeleteAligned ==
    ASSUME FilesInv, EditInv, Aligned, CopyAndDelete
    PROVE  Aligned'
  <1>1. /\ MovesLeft /\ NextMove.crossed /\ locations' = locations /\ refs' = refs
        /\ asked' = asked
    BY DEF CopyAndDelete, index, bounds
  <1>2. /\ job.phase = "move" /\ Fields \subseteq DOMAIN job /\ NextMove \in PlannedMove
        /\ NextMove.from \in Paths /\ NextMove.to \in Paths /\ Clear(NextMove.to)
        /\ NextMove.from[1] # NextMove.to[1]
    BY <1>1, NextMoveIs DEF MovesLeft
  <1>3. CASE CanCopy(NextMove.from, NextMove.to)
    <2>1. fs' = Deleted(Copied(NextMove.from, NextMove.to), NextMove.from) /\ Advance
      BY <1>3 DEF CopyAndDelete
    <2>2. Carries(NextMove.from, NextMove.to, TRUE)
      BY <1>2, <1>3, <2>1, CopiedCarries DEF FilesInv
    <2>3. NextMove.crossed = TRUE
      BY <1>1, <1>2 DEF PlannedMove
    <2> QED BY <1>1, <2>1, <2>2, <2>3, MoveAligned
  <1>4. CASE ~CanCopy(NextMove.from, NextMove.to)
    <2>1. fs' = fs /\ job' = Abort(job)
      BY <1>4 DEF CopyAndDelete
    <2>2. Done' = Done /\ Left' = {}
      BY <1>1, <1>2, <2>1, JobStops DEF Halts
    <2> QED BY <1>1, <1>2, <2>1, <2>2, StopAligned
  <1> QED BY <1>3, <1>4

LEMMA CopyFailsAligned ==
    ASSUME FilesInv, EditInv, Aligned, CopyFails
    PROVE  Aligned'
  <1>1. /\ MovesLeft /\ CanCopy(NextMove.from, NextMove.to) /\ job' = Abort(job)
        /\ fs' = Copied(NextMove.from, NextMove.to) /\ locations' = locations
        /\ refs' = refs /\ asked' = asked /\ nextIno \in Nat
    BY DEF CopyFails, index, FilesInv, FsOK
  <1>2. /\ job.phase = "move" /\ Fields \subseteq DOMAIN job
        /\ NextMove.from \in Paths /\ NextMove.to \in Paths /\ Clear(NextMove.to)
    BY <1>1, NextMoveIs DEF MovesLeft
  <1> DEFINE from == NextMove.from
             to == NextMove.to
             t == Copied(from, to)
  <1>3. CopyMakes(t, from, to)
    BY <1>1, <1>2, CopiedIs DEF FilesInv
  <1>4. fs' = t
    BY <1>1
  <1> HIDE DEF t
  <1>5. \A q \in DOMAIN fs : fs'[q].ino = fs[q].ino
    BY <1>3, <1>4 DEF CopyMakes
  <1>6. \A m \in Done : fs'[m.to].ino = fs[m.to].ino
    BY <1>5 DEF EditInv, Arrived
  <1>7. Done' = Done /\ Left' = {}
    BY <1>1, <1>2, JobStops DEF Halts
  <1> QED BY <1>1, <1>2, <1>6, <1>7, StopAligned

LEMMA SetAttrsAligned ==
    ASSUME FilesInv, EditInv, Aligned, SetAttrs
    PROVE  Aligned'
  <1> DEFINE At(a) == IF TargetOf(a.item) = <<>> THEN a.from ELSE TargetOf(a.item)[1]
             bad == SelectInSeq(job.attrs, LAMBDA a : ~Exists(At(a)))
             done == IF bad = 0 THEN job.attrs ELSE SubSeq(job.attrs, 1, bad - 1)
             set == {At(a) : a \in ToSet(done)}
             j == [job EXCEPT !.attrsSet = set]
  <1>1. /\ fs' = fs /\ refs' = refs /\ locations' = locations /\ asked' = asked
        /\ job.phase = "move" /\ Fields \subseteq DOMAIN job /\ job # Idle /\ Away
        /\ job.next > Len(job.moves) /\ job.next \in Nat
    BY DEF SetAttrs, index, bounds, FilesInv, JobOK, Idle, Away
  <1>2. job' = IF bad # 0 THEN Abort(j)
               ELSE IF j.moved = <<>> /\ j.attrsSet = {}
                    THEN [j EXCEPT !.phase = "tags"]
               ELSE [j EXCEPT !.phase = "rebind"]
    BY DEF SetAttrs
  <1> HIDE DEF set, bad
  <1>3. /\ Fields \subseteq DOMAIN j /\ j.moves = job.moves /\ j.moved = job.moved
        /\ j.next = job.next
    BY <1>1 DEF Fields
  <1> HIDE DEF j
  <1>4. \/ job' = Abort(j) \/ job' = [j EXCEPT !.phase = "rebind"]
        \/ j.moved = <<>> /\ job' = [j EXCEPT !.phase = "tags"]
    BY <1>2
  <1>5. Done' = Done /\ Left' = {}
    BY <1>1, <1>3, <1>4, JobStops DEF Halts
  <1>6. /\ Len(job.moves) \in Nat /\ Len(job.moved) = job.next - 1
        /\ job.next = Len(job.moves) + 1
    <2>1. /\ job.moves \in Seq(PlannedMove) /\ Len(job.moved) = job.next - 1
          /\ job.next - 1 <= Len(job.moves)
      BY <1>1 DEF EditInv, Routed
    <2> QED BY <2>1, <1>1
  <1>7. asked \in Nat /\ asked # 0
    BY <1>1 DEF Aligned
  <1>8. CASE job' = Abort(j)
    BY <1>1, <1>3, <1>5, <1>8, StopAligned
  <1>9. CASE job' = [j EXCEPT !.phase = "rebind"]
    <2>1. job'.phase = "rebind" /\ job'.next = job.next /\ job'.moves = job.moves
      BY <1>3, <1>9 DEF Fields
    <2> QED BY <2>1, <1>1, <1>5, <1>6, <1>7 DEF Aligned
  <1>10. CASE j.moved = <<>> /\ job' = [j EXCEPT !.phase = "tags"]
    <2>1. job'.phase = "tags" /\ job'.moves = job.moves
      BY <1>3, <1>10 DEF Fields
    <2>2. Len(job.moves) = 0
      BY <1>3, <1>6, <1>10
    <2>3. DOMAIN job.moves = {}
      <3>1. job.moves \in Seq(PlannedMove)
        BY <1>1 DEF EditInv, Routed
      <3> QED BY <3>1, <2>2
    <2>4. Indexable'
      BY <2>1, <2>3 DEF Indexable, ToSet
    <2>5. Done' = {}
      BY <2>1 DEF Done, Passed, Away
    <2> QED BY <2>1, <2>4, <2>5, <1>1, <1>5, <1>7 DEF Aligned
  <1> QED BY <1>4, <1>8, <1>9, <1>10

LEMMA RebindAligned ==
    ASSUME FilesInv, EditInv, IndexInv, Aligned, Rebind
    PROVE  Aligned'
  <1>1. /\ fs' = fs /\ asked' = asked /\ job.phase = "rebind" /\ job # Idle
        /\ Fields \subseteq DOMAIN job /\ Away /\ ~Underway
    BY DEF Rebind, bounds, FilesInv, JobOK, Idle, Away, Underway
  <1>2. job' = [job EXCEPT !.phase = "reindex"]
    BY RebindEdits
  <1>3. refs' = Rebound
    <2>1. job' # Idle
      BY <1>1, <1>2 DEF Idle, Fields
    <2> QED BY <2>1 DEF Rebind
  <1>4. /\ job'.phase = "reindex" /\ job'.moves = job.moves /\ job'.next = job.next
        /\ job'.failed = job.failed
    BY <1>1, <1>2 DEF Fields
  <1>5. Away' /\ ~Underway' /\ Done' = Done /\ Left' = {}
    BY <1>1, <1>4 DEF Away, Underway, Done, Left, Passed, Coming, First
  <1>6. \A m \in Done : m.item \in DOMAIN refs
    <2>1. \A k \in DOMAIN job.moves : HasRow(job.moves[k].from, job.moves[k].item)
      BY <1>1 DEF EditInv, Routed
    <2>2. \A k \in Passed : k \in DOMAIN job.moves
      BY <1>1, TracksAre
    <2> QED BY <2>1, <2>2, DoneIs DEF HasRow, EditInv, RefsOK
  <1>7. ASSUME NEW m \in Done
        PROVE  \E o \in Done : o.item = m.item /\ fs[o.to].ino = refs'[o.item]
    <2>1. \/ /\ Rebound[m.item] = refs[m.item]
             /\ ~\E o \in Done : o.crossed /\ o.item = m.item
          \/ \E o \in Done : /\ o.crossed /\ o.item = m.item
                             /\ Rebound[m.item] = fs[o.to].ino
      BY <1>1, <1>6, ReboundIs
    <2> QED BY <2>1, <1>1, <1>3 DEF Aligned
  <1>8. asked \in Nat /\ asked # 0
    BY <1>1 DEF Aligned
  <1> QED BY <1>1, <1>4, <1>5, <1>7, <1>8 DEF Aligned

LEMMA ReindexAligned ==
    ASSUME FilesInv, EditInv, Aligned, Reindex
    PROVE  Aligned'
  <1>1. /\ asked' = asked /\ job.phase = "reindex" /\ job # Idle
        /\ Fields \subseteq DOMAIN job /\ Away
        /\ locations' = Indexed(TouchedDirs)
    BY DEF Reindex, Index, bounds, FilesInv, JobOK, Idle, Away
  <1>2. asked \in Nat /\ asked # 0
    BY <1>1 DEF Aligned
  <1>3. CASE job.failed
    BY <1>2, <1>3, <1>1, OverAligned DEF Reindex, Idle
  <1>4. CASE ~job.failed
    <2>1. job'.phase = "tags" /\ job'.moves = job.moves
      BY <1>1, <1>4 DEF Reindex, Fields
    <2>2. DOMAIN job.moves = Passed
      <3>1. job.next = Len(job.moves) + 1 /\ job.moves \in Seq(PlannedMove)
        BY <1>1, <1>4 DEF Aligned, EditInv, Routed
      <3>2. DOMAIN job.moves = 1 .. Len(job.moves) /\ job.next - 1 = Len(job.moves)
        BY <3>1
      <3> QED BY <1>1, <3>2, PassedIs
    <2>3. ASSUME NEW k \in Passed, NEW m, m = job.moves[k]
          PROVE  [path |-> m.to, item |-> IdOf(fs[m.to].ino)] \in Indexed(TouchedDirs)
      <3>1. m.to \in DOMAIN fs /\ m.to \in Paths
        BY <1>1, <2>3, TracksAre DEF PlannedMove
      <3>2. \E d \in TouchedDirs : IsPrefix(d, m.to)
        <4>1. IsPrefix(m.to, m.to)
          BY <3>1, PathsAre, PrefixRefl
        <4> QED BY <4>1, <3>1, <1>1, <2>3, TouchedAre
      <3> QED BY <3>1, <3>2 DEF Indexed
    <2>4. ASSUME NEW m \in Done
          PROVE  \E n \in Passed :
                    /\ job.moves[n].item = m.item
                    /\ [path |-> job.moves[n].to, item |-> m.item] \in Indexed(TouchedDirs)
      <3>1. PICK o \in Done : o.item = m.item /\ fs[o.to].ino = refs[o.item]
        BY <1>1 DEF Aligned
      <3>2. PICK n \in Passed : o = job.moves[n] /\ o.item \in DOMAIN refs
        <4>1. PICK n \in Passed : o = job.moves[n]
          BY DoneIs
        <4>2. HasRow(o.from, o.item)
          BY <4>1, <2>2, <1>1 DEF EditInv, Routed
        <4> QED BY <4>1, <4>2 DEF HasRow, EditInv, RefsOK
      <3>3. IdOf(fs[o.to].ino) = o.item
        <4>1. RefsOK /\ refs[o.item] \in Nat /\ refs[o.item] \in Known
          BY <3>2 DEF EditInv, RefsOK, Known
        <4>2. /\ IdOf(fs[o.to].ino) \in DOMAIN refs
              /\ refs[IdOf(fs[o.to].ino)] = refs[o.item]
          BY <3>1, <4>1, IdIs
        <4> QED BY <3>2, <4>1, <4>2 DEF RefsOK
      <3> QED BY <2>3, <3>1, <3>2, <3>3
    <2>5. Indexable'
      <3> SUFFICES ASSUME NEW k \in Passed, NEW m, m = job.moves[k]
                   PROVE  /\ \E l \in locations' : l.path = m.to
                          /\ \E n \in Passed :
                                /\ job.moves[n].item = m.item
                                /\ [path |-> job.moves[n].to, item |-> m.item] \in locations'
        BY <2>1, <2>2 DEF Indexable, ToSet
      <3>1. \E l \in locations' : l.path = m.to
        <4>1. [path |-> m.to, item |-> IdOf(fs[m.to].ino)] \in locations'
          BY <2>3, <1>1
        <4> QED BY <4>1
      <3>2. PICK o \in Done : o.item = m.item
        BY <1>1, TracksAre DEF Alike
      <3> QED BY <3>1, <3>2, <2>4, <1>1
    <2>6. ~Away' /\ ~Underway'
      BY <2>1 DEF Away, Underway
    <2>7. Done' = {} /\ Left' = {}
      BY <2>6 DEF Done, Left, Passed, Coming
    <2> QED BY <2>1, <2>5, <2>7, <1>1, <1>2 DEF Aligned
  <1> QED BY <1>3, <1>4

\* The tags of an edit are written when each of its moves is made and indexed,
\* and each item that was moved has a row at a new place of its: the indexing of
\* apply() comes before the writing, and nothing is written if it stopped
\* earlier.  That is for the first edit of an index, which is exact as a run of
\* the indexer leaves it, and for any number of edits of files without links
\* that are not killed: a link left behind by a copy to another device may be
\* indexed as an item whose file it is not, and to move it makes it a new one.
THEOREM TagsAreFollowing ==
    ASSUME ~Nested, MaxCommands = 1 \/ Lone
    PROVE  Spec => TagsFollowFiles
  <1> DEFINE Inv == FilesInv /\ EditInv /\ IndexInv /\ Aligned /\ (Lone => Tidy)
             Step == tagged' # tagged => Indexable
  <1>1. Init => Inv
    <2> SUFFICES ASSUME Init PROVE Inv
      OBVIOUS
    <2>1. job = Idle /\ job.phase = "idle" /\ asked = 0 /\ fs = Tree
          /\ refs = [i \in Items |-> i]
          /\ locations = {[path |-> p, item |-> Tree[p].what] :
                             p \in {q \in DOMAIN Tree : Tree[q].what \in Items}}
      BY DEF Init, Idle
    <2>2. Left = {} /\ Done = {}
      BY <2>1 DEF Left, Done, Passed, Coming, Away, Underway
    <2>3. Exact
      <3>1. \A l \in locations : /\ l.path \in DOMAIN Tree
                               /\ l.item = Tree[l.path].what /\ l.item \in Items
        BY <2>1
      <3>2. \A l \in locations : Tree[l.path].ino = l.item
        BY <3>1, TreeAssumption
      <3> QED BY <2>1, <3>1, <3>2 DEF Exact, Row
    <2>4. Aligned
      BY <2>1, <2>2, <2>3 DEF Aligned
    <2> QED BY <2>4, InitHolds, InitEdits, InitTidy
  <1>2. Inv /\ [Next]_vars => Inv'
    <2> SUFFICES ASSUME Inv, [Next]_vars PROVE Inv'
      OBVIOUS
    <2>1. FilesInv' /\ EditInv' /\ IndexInv'
      BY EditsKeep
    <2>2. Aligned'
      <3>1. CASE Next
        <4>1. ASSUME asked < MaxCommands, NEW r \in Requests, Plan(r) PROVE Aligned'
          <5>1. job = Idle
            BY <4>1 DEF Plan
          <5>2. Exact
            BY <4>1, <5>1, TidyIsExact DEF Aligned
          <5> QED BY <4>1, <5>2, PlanAligned
        <4>2. ASSUME Answered PROVE Aligned'
          BY <2>1, <4>2, ConfirmAligned DEF Answered
        <4>3. ASSUME NEW p \in AlienPaths, Appear(p) PROVE Aligned'
          BY <4>3, AppearAligned
        <4>4. CASE Decline \/ WriteTags \/ Crash
          <5>1. job # Idle /\ job' = Idle /\ asked' = asked
            BY <4>4 DEF Decline, WriteTags, Crash, bounds, Idle
          <5> QED BY <5>1, OverAligned DEF Aligned, Idle
        <4> QED BY <3>1, <4>1, <4>2, <4>3, <4>4, MkdirsAligned, RenameAligned,
                   CopyAndDeleteAligned, CopyFailsAligned, SetAttrsAligned,
                   RebindAligned, ReindexAligned DEF Next
      <3>2. CASE UNCHANGED vars
        <4>1. /\ fs' = fs /\ locations' = locations /\ job' = job /\ refs' = refs
              /\ asked' = asked
          BY <3>2 DEF vars, index, bounds
        <4>2. Left' = Left /\ Done' = Done
          BY <4>1 DEF Left, Done, Passed, Coming, First, Underway, Away
        <4> QED BY <4>1, <4>2 DEF Aligned, Exact, Row, Indexable
      <3> QED BY <3>1, <3>2
    <2>3. Lone => Tidy'
      BY TidyKeeps
    <2> QED BY <2>1, <2>2, <2>3
  <1>3. Inv /\ [Next]_vars => Step
    <2> SUFFICES ASSUME Inv, [Next]_vars, tagged' # tagged PROVE Indexable
      OBVIOUS
    <2>1. WriteTags
      BY DEF Next, vars, Answered, Plan, Confirm, Decline, Mkdirs, Rename,
             CopyAndDelete, CopyFails, SetAttrs, Rebind, Reindex, Crash, Appear
    <2> QED BY <2>1 DEF WriteTags, Aligned
  <1>4. [Step]_vars <=> [tagged' # tagged =>
             \A m \in ToSet(job.moves) :
                /\ \E l \in locations : l.path = m.to
                /\ \E o \in ToSet(job.moves) :
                      o.item = m.item /\ [path |-> o.to, item |-> m.item] \in locations
           ]_vars
    BY DEF Indexable
  <1> QED BY <1>1, <1>2, <1>3, <1>4, PTL DEF Spec, TagsFollowFiles
=============================================================================
