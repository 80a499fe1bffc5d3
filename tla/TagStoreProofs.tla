--------------------------- MODULE TagStoreProofs ---------------------------
(***************************************************************************)
(* EditWrite implements TagStore, and casts and checks keep the labels of  *)
(* a configured type in its column: for any ids, types, notes and edits,   *)
(* with casts that fail and processes that die, as long as one client      *)
(* writes, a command writes each type in one column, and no deletion was   *)
(* cut short between item_references and user_tags.                        *)
(***************************************************************************)
EXTENDS EditProofs, SequenceTheorems

-----------------------------------------------------------------------------
(* The folds of the directives, and what they yield.                       *)

\* Two functions on the parts of a finite set are equal on the whole, if from
\* every part a member can be taken so that they agree on it when they agree on
\* the rest.
LEMMA SameFolds ==
    ASSUME NEW D, IsFiniteSet(D), NEW f, NEW g,
           f[{}] = g[{}],
           \A s \in SUBSET D : s # {} =>
              \E x \in s : f[s \ {x}] = g[s \ {x}] => f[s] = g[s]
    PROVE  f[D] = g[D]
  <1> DEFINE Bad == {s \in SUBSET D : f[s] # g[s]}
  <1> SUFFICES ASSUME Bad # {} PROVE FALSE
    OBVIOUS
  <1>1. Bad \subseteq FiniteSubsetsOf(D)
    BY FS_Subset DEF FiniteSubsetsOf
  <1>2. IsWellFoundedOn(StrictSubsetOrdering(D), FiniteSubsetsOf(D))
    BY FS_StrictSubsetOrderingWellFounded
  <1>3. PICK s \in Bad : \A t \in Bad : ~(<<t, s>> \in StrictSubsetOrdering(D))
    <2> HIDE DEF Bad
    <2> QED BY <1>1, <1>2, WFMin
  <1>4. PICK x \in s : f[s \ {x}] = g[s \ {x}] => f[s] = g[s]
    OBVIOUS
  <1>5. s \ {x} \in SUBSET D /\ s \ {x} \subseteq s /\ s \ {x} # s
    OBVIOUS
  <1>6. <<s \ {x}, s>> \in StrictSubsetOrdering(D)
    BY <1>5 DEF StrictSubsetOrdering
  <1>7. s \ {x} \notin Bad
    BY <1>3, <1>6
  <1> QED
    BY <1>4, <1>5, <1>7

IsLast(x, s) == s \subseteq Int /\ x \in s /\ \A k \in s : k <= x

\* The greatest of the places of a part of a sequence.
LEMMA LastPlace ==
    ASSUME NEW D, D \subseteq Int, IsFiniteSet(D), NEW s \in SUBSET D, s # {}
    PROVE  IsLast(Max(s), s) /\ Store!Max(s) = Max(s)
  <1>1. IsFiniteSet(s) /\ s \subseteq Int
    BY FS_Subset
  <1>2. \E m \in s : \A k \in s : k <= m
    BY <1>1, Extremes
  <1>3. \E m \in s : \A k \in s : m >= k
    BY <1>1, <1>2
  <1> QED
    BY <1>1, <1>3 DEF Max, Store!Max, IsLast

LEMMA Places ==
    ASSUME NEW X, NEW nodes \in Seq(X)
    PROVE  DOMAIN nodes \subseteq Int /\ IsFiniteSet(DOMAIN nodes)
  <1>1. DOMAIN nodes = 1 .. Len(nodes) /\ Len(nodes) \in Nat
    OBVIOUS
  <1> QED
    BY <1>1, FS_Interval

\* A node takes the place of a tag.
Overrides(t, h, definition) ==
    /\ h.type = t.type
    /\ t.type \in ReplaceTypes \/ (t.type = "bitical_type" /\ definition)

\* A node of command r leaves a tag where it is.
Passes(r, t, h, definition) ==
    IF r.kind = "tag" THEN ~Overrides(t, h, definition)
    ELSE IF t.col = "any" THEN h.type # t.type ELSE h # t

\* What the nodes at the places s make of some tags: those that none of the nodes
\* takes away, and the nodes that no later one replaces.
Done(had, r, s, definition, left) ==
    {h \in had : \A k \in s : r.nodes[k] \in left \/ Passes(r, r.nodes[k], h, definition)}
    \cup {r.nodes[k] : k \in {i \in s :
            /\ r.kind = "tag" /\ r.nodes[i] \notin left
            /\ \A m \in s : i < m /\ r.nodes[m] \notin left
                               => ~Overrides(r.nodes[m], r.nodes[i], definition)}}

Node(r, k) == r.nodes[k]

LEMMA DoneNext ==
    ASSUME NEW had, NEW r, NEW definition, NEW left, NEW s, NEW x, IsLast(x, s)
    PROVE  Done(had, r, s, definition, left)
           = LET acc == Done(had, r, s \ {x}, definition, left)
                 t == Node(r, x)
             IN  IF t \in left THEN acc
                 ELSE IF r.kind = "tag" THEN Store!Give(acc, t, definition)
                 ELSE Store!Take(acc, t)
  <1> DEFINE acc == Done(had, r, s \ {x}, definition, left)
             t == Node(r, x)
             all == Done(had, r, s, definition, left)
  <1>0. x \in s
    BY DEF IsLast
  <1>1. \A k \in s \ {x} : k < x
    BY DEF IsLast
  <1>2. \A m \in s : ~(x < m)
    BY DEF IsLast
  <1>3. CASE t \in left
    BY <1>0, <1>1, <1>2, <1>3 DEF Done, Node
  <1>4. CASE t \notin left /\ r.kind = "tag"
    <2>1. all = {h \in acc : ~Overrides(t, h, definition)} \cup {t}
      BY <1>0, <1>1, <1>2, <1>4 DEF Done, Passes, Node
    <2>2. Store!Give(acc, t, definition)
             = {h \in acc : ~Overrides(t, h, definition)} \cup {t}
      BY DEF Store!Give, Overrides
    <2> QED
      BY <1>4, <2>1, <2>2
  <1>5. CASE t \notin left /\ r.kind # "tag"
    <2>1. all = {h \in acc : Passes(r, t, h, definition)}
      BY <1>0, <1>1, <1>2, <1>5 DEF Done, Node
    <2>2. Store!Take(acc, t) = {h \in acc : Passes(r, t, h, definition)}
      BY <1>5 DEF Store!Take, Passes
    <2> QED
      BY <1>5, <2>1, <2>2
  <1> QED
    BY <1>3, <1>4, <1>5

LEMMA GiveNext ==
    ASSUME NEW had, NEW r, r.kind = "tag", NEW definition, NEW s, NEW x, IsLast(x, s)
    PROVE  Done(had, r, s, definition, {})
           = Store!Give(Done(had, r, s \ {x}, definition, {}), Node(r, x), definition)
  <1>1. ASSUME NEW left
        PROVE  Done(had, r, s, definition, left)
               = LET acc == Done(had, r, s \ {x}, definition, left)
                     t == Node(r, x)
                 IN  IF t \in left THEN acc
                     ELSE IF r.kind = "tag" THEN Store!Give(acc, t, definition)
                     ELSE Store!Take(acc, t)
    BY DoneNext
  <1>2. Node(r, x) \notin {}
    OBVIOUS
  <1> QED
    BY <1>1, <1>2

LEMMA InOrderIs ==
    ASSUME NEW had, NEW r, NEW definition, NEW left,
           DOMAIN r.nodes \subseteq Int, IsFiniteSet(DOMAIN r.nodes)
    PROVE  Store!InOrder(had, r, definition, left)
           = Done(had, r, DOMAIN r.nodes, definition, left)
  <1> DEFINE D == DOMAIN r.nodes
             Step(acc, t) == IF t \in left THEN acc
                             ELSE IF r.kind = "tag" THEN Store!Give(acc, t, definition)
                             ELSE Store!Take(acc, t)
             g == [s \in SUBSET D |-> Done(had, r, s, definition, left)]
             Fold(h) == h = [s \in SUBSET D |->
                               IF s = {} THEN had
                               ELSE Step(h[s \ {Store!Max(s)}], r.nodes[Store!Max(s)])]
             f == CHOOSE h : Fold(h)
  <1>1. D \subseteq Int /\ IsFiniteSet(D)
    OBVIOUS
  <1>2. Store!InOrder(had, r, definition, left) = f[D]
    BY DEF Store!InOrder, Store!FoldLeft, Store!MapThenFoldSet
  <1>3. ASSUME NEW s \in SUBSET D, s # {}
        PROVE  /\ Store!Max(s) \in s
               /\ g[s] = Step(g[s \ {Store!Max(s)}], r.nodes[Store!Max(s)])
    <2>1. IsLast(Store!Max(s), s) /\ Store!Max(s) \in s
      BY <1>1, <1>3, LastPlace DEF IsLast
    <2>2. s \ {Store!Max(s)} \in SUBSET D
      OBVIOUS
    <2>3. /\ g[s] = Done(had, r, s, definition, left)
          /\ g[s \ {Store!Max(s)}] = Done(had, r, s \ {Store!Max(s)}, definition, left)
      BY <2>2
    <2>4. Done(had, r, s, definition, left)
          = Step(Done(had, r, s \ {Store!Max(s)}, definition, left), Node(r, Store!Max(s)))
      BY <2>1, DoneNext
    <2> HIDE DEF g, Step
    <2> QED
      BY <2>1, <2>3, <2>4 DEF Node
  <1>4. g[{}] = had
    BY DEF Done
  <1>5. Fold(g)
    <2> SUFFICES ASSUME NEW s \in SUBSET D
                 PROVE  g[s] = IF s = {} THEN had
                               ELSE Step(g[s \ {Store!Max(s)}], r.nodes[Store!Max(s)])
      OBVIOUS
    <2> HIDE DEF g, Step
    <2> QED BY <1>3, <1>4
  <1>6. Fold(f)
    <2> HIDE DEF Fold
    <2> QED BY <1>5
  <1>7. f[{}] = g[{}]
    <2> HIDE DEF f, g
    <2> QED BY <1>4, <1>6
  <1>8. ASSUME NEW s \in SUBSET D, s # {}
        PROVE  \E x \in s : f[s \ {x}] = g[s \ {x}] => f[s] = g[s]
    <2>1. f[s] = Step(f[s \ {Store!Max(s)}], r.nodes[Store!Max(s)])
      <3> HIDE DEF f, Step
      <3> QED BY <1>6, <1>8
    <2> HIDE DEF f, g, Step
    <2> QED
      BY <1>3, <1>8, <2>1
  <1> HIDE DEF f, g, D
  <1>9. f[D] = g[D]
    BY <1>1, <1>7, <1>8, SameFolds
  <1> QED
    BY <1>2, <1>9 DEF g, D

LEMMA FoldVolatileIs ==
    ASSUME NEW nodes, DOMAIN nodes \subseteq Int, IsFiniteSet(DOMAIN nodes),
           NEW r, r.kind = "tag", r.nodes = nodes
    PROVE  FoldVolatile(nodes) = Done({}, r, DOMAIN nodes, TRUE, {})
  <1> DEFINE D == DOMAIN nodes
             Step(acc, t) == IF Replaces(t, TRUE) THEN {h \in acc : h.type # t.type} \cup {t}
                             ELSE acc \cup {t}
             g == [s \in SUBSET D |-> Done({}, r, s, TRUE, {})]
             Fold(h) == h = [s \in SUBSET D |->
                               IF s = {} THEN {}
                               ELSE Step(h[s \ {Max(s)}], nodes[Max(s)])]
             f == CHOOSE h : Fold(h)
  <1>1. D \subseteq Int /\ IsFiniteSet(D)
    OBVIOUS
  <1>2. FoldVolatile(nodes) = f[D]
    BY DEF FoldVolatile, FoldLeft, MapThenFoldSet
  <1>3. ASSUME NEW s \in SUBSET D, s # {}
        PROVE  /\ Max(s) \in s
               /\ g[s] = Step(g[s \ {Max(s)}], nodes[Max(s)])
    <2>1. IsLast(Max(s), s) /\ Max(s) \in s
      BY <1>1, <1>3, LastPlace DEF IsLast
    <2>2. s \ {Max(s)} \in SUBSET D
      OBVIOUS
    <2>3. /\ g[s] = Done({}, r, s, TRUE, {})
          /\ g[s \ {Max(s)}] = Done({}, r, s \ {Max(s)}, TRUE, {})
      BY <2>2
    <2> HIDE DEF g, f, D, Fold, Step
    <2>4. \A d : Done({}, r, s, d, {})
                 = Store!Give(Done({}, r, s \ {Max(s)}, d, {}), Node(r, Max(s)), d)
      BY <2>1, GiveNext
    <2>5. g[s] = Store!Give(g[s \ {Max(s)}], nodes[Max(s)], TRUE)
      BY <2>3, <2>4 DEF Node
    <2> QED
      BY <2>1, <2>5 DEF Store!Give, Replaces, Step
  <1>4. g[{}] = {}
    BY DEF Done
  <1>5. Fold(g)
    <2> SUFFICES ASSUME NEW s \in SUBSET D
                 PROVE  g[s] = IF s = {} THEN {} ELSE Step(g[s \ {Max(s)}], nodes[Max(s)])
      OBVIOUS
    <2> HIDE DEF g, Step
    <2> QED BY <1>3, <1>4
  <1>6. Fold(f)
    <2> HIDE DEF Fold
    <2> QED BY <1>5
  <1>7. f[{}] = g[{}]
    <2> HIDE DEF f, g
    <2> QED BY <1>4, <1>6
  <1>8. ASSUME NEW s \in SUBSET D, s # {}
        PROVE  \E x \in s : f[s \ {x}] = g[s \ {x}] => f[s] = g[s]
    <2>1. f[s] = Step(f[s \ {Max(s)}], nodes[Max(s)])
      <3> HIDE DEF f, Step
      <3> QED BY <1>6, <1>8
    <2> HIDE DEF f, g, Step
    <2> QED
      BY <1>3, <1>8, <2>1
  <1> HIDE DEF f, g, D
  <1>9. f[D] = g[D]
    BY <1>1, <1>7, <1>8, SameFolds
  <1> QED
    BY <1>2, <1>9 DEF g, D

\* An item that is not stored is given the same tags by fold_volatile and by the
\* nodes in their order.
LEMMA OwnTags ==
    ASSUME NEW X, NEW r, r.nodes \in Seq(X)
    PROVE  /\ r.kind = "tag" =>
                 /\ Store!InOrder({}, r, TRUE, {}) = FoldVolatile(r.nodes)
                 /\ FoldVolatile(r.nodes) \subseteq ToSet(r.nodes)
           /\ r.kind # "tag" => Store!InOrder({}, r, TRUE, {}) = {}
  <1>1. Store!InOrder({}, r, TRUE, {}) = Done({}, r, DOMAIN r.nodes, TRUE, {})
    BY Places, InOrderIs
  <1>2. r.kind = "tag" =>
           FoldVolatile(r.nodes) = Done({}, r, DOMAIN r.nodes, TRUE, {})
    BY Places, FoldVolatileIs
  <1>3. Done({}, r, DOMAIN r.nodes, TRUE, {}) \subseteq ToSet(r.nodes)
    BY DEF Done, ToSet
  <1>4. r.kind # "tag" => Done({}, r, DOMAIN r.nodes, TRUE, {}) = {}
    BY DEF Done
  <1> QED
    BY <1>1, <1>2, <1>3, <1>4

\* If no node that is used replaces another one, each of them is there in the end.
LEMMA DoneOnce ==
    ASSUME NEW had, NEW X, NEW r, r.nodes \in Seq(X), r.kind = "tag",
           NEW definition, NEW left,
           \A n, m \in ToSet(r.nodes) \ left : Overrides(n, m, definition) => n = m
    PROVE  \A h : h \in Done(had, r, DOMAIN r.nodes, definition, left) <=>
              \/ h \in had /\ \A n \in ToSet(r.nodes) \ left : ~Overrides(n, h, definition)
              \/ h \in ToSet(r.nodes) \ left
  <1> DEFINE D == DOMAIN r.nodes
             used == ToSet(r.nodes) \ left
  <1>1. D \subseteq Int /\ IsFiniteSet(D)
    BY Places
  <1>2. {h \in had : \A k \in D : r.nodes[k] \in left
                                  \/ Passes(r, r.nodes[k], h, definition)}
        = {h \in had : \A n \in used : ~Overrides(n, h, definition)}
    BY DEF Passes, ToSet
  <1>3. ASSUME NEW n \in used
        PROVE  \E i \in D : /\ r.nodes[i] = n
                            /\ \A m \in D : i < m /\ r.nodes[m] \notin left
                                   => ~Overrides(r.nodes[m], n, definition)
    <2> DEFINE at == {k \in D : r.nodes[k] = n}
    <2>1. at \in SUBSET D /\ at # {}
      BY DEF ToSet
    <2> HIDE DEF at
    <2>2. Max(at) \in at /\ \A k \in at : k <= Max(at)
      BY <1>1, <2>1, LastPlace DEF IsLast
    <2>3. ASSUME NEW m \in D, Max(at) < m, r.nodes[m] \notin left,
                 Overrides(r.nodes[m], n, definition)
          PROVE  FALSE
      <3>1. r.nodes[m] = n
        BY <2>3 DEF ToSet
      <3>2. m \in at
        BY <3>1 DEF at
      <3>3. m <= Max(at) /\ m \in Int /\ Max(at) \in Int
        BY <1>1, <2>1, <2>2, <3>2
      <3> QED
        BY <2>3, <3>3
    <2> QED
      BY <2>2, <2>3 DEF at
  <1>4. {r.nodes[k] : k \in {i \in D :
            /\ r.kind = "tag" /\ r.nodes[i] \notin left
            /\ \A m \in D : i < m /\ r.nodes[m] \notin left
                               => ~Overrides(r.nodes[m], r.nodes[i], definition)}}
        = used
    BY <1>3 DEF ToSet
  <1> QED
    BY <1>2, <1>4 DEF Done

\* A finite set of one member at most.
LEMMA AtMostOne ==
    ASSUME NEW S, IsFiniteSet(S), Cardinality(S) <= 1, NEW x \in S, NEW y \in S
    PROVE  x = y
  <1>1. Cardinality(S) \in Nat /\ (Cardinality(S) = 0 <=> S = {})
    BY FS_CardinalityType, FS_EmptySet
  <1>2. Cardinality(S) = 1
    BY <1>1
  <1> QED
    BY <1>2, FS_Singleton

LEMMA MoreThanOne ==
    ASSUME NEW S, IsFiniteSet(S), NEW x \in S
    PROVE  Cardinality(S) > 1 <=> \E y \in S : y # x
  <1>1. Cardinality(S) \in Nat
    BY FS_CardinalityType
  <1>2. (\A y \in S : y = x) => Cardinality(S) = 1
    <2>1. (\A y \in S : y = x) => S = {x}
      OBVIOUS
    <2> QED BY <2>1, FS_Singleton
  <1>3. Cardinality(S) <= 1 => \A y \in S : y = x
    BY AtMostOne
  <1> QED
    BY <1>1, <1>2, <1>3

LEMMA NodesAreFinite ==
    ASSUME NEW X, NEW nodes \in Seq(X)
    PROVE  IsFiniteSet(ToSet(nodes)) /\ ToSet(nodes) \subseteq X
  <1>1. nodes \in [1 .. Len(nodes) -> X] /\ Len(nodes) \in Nat
    OBVIOUS
  <1>2. IsFiniteSet(1 .. Len(nodes))
    BY <1>1, FS_Interval
  <1>3. nodes \in Surjection(1 .. Len(nodes), ToSet(nodes))
    BY <1>1 DEF ToSet, Surjection
  <1> QED
    BY <1>1, <1>2, <1>3, FS_Surjection DEF ToSet

ConfiguresOnce(nodes) ==
    Configures(nodes) =>
       Cardinality({n \in ToSet(nodes) : n.type = "bitical_type"}) = 1

\* Of the nodes that an answer leaves, none replaces another.
LEMMA GivenOnce ==
    ASSUME NEW nodes \in Seq(TagNodes), NEW answer \in Answers(nodes),
           ConfiguresOnce(nodes), NEW definition,
           NEW n \in Given(nodes, answer), NEW m \in Given(nodes, answer),
           Overrides(n, m, definition)
    PROVE  n = m
  <1>1. IsFiniteSet(ToSet(nodes))
    BY NodesAreFinite
  <1>2. n \in ToSet(nodes) /\ m \in ToSet(nodes) /\ n.type = m.type
    BY GivenIsFinite DEF Overrides
  <1> DEFINE same == {k \in ToSet(nodes) : k.type = n.type}
  <1>3. IsFiniteSet(same) /\ n \in same /\ m \in same
    BY <1>1, <1>2, FS_Subset
  <1>4. CASE n.type \in Clashing(nodes)
    BY <1>2, <1>4 DEF Given
  <1>5. CASE n.type \notin Clashing(nodes) /\ n.type \in ReplaceTypes
    <2>1. Cardinality(same) \in Nat /\ ~(Cardinality(same) > 1)
      BY <1>3, <1>5, FS_CardinalityType DEF Clashing
    <2> HIDE DEF same
    <2>2. Cardinality(same) <= 1
      BY <2>1
    <2> QED
      BY <1>3, <2>2, AtMostOne
  <1>6. CASE n.type \notin ReplaceTypes
    <2>1. n.type = "bitical_type"
      BY <1>6 DEF Overrides
    <2>2. Cardinality(same) = 1
      BY <1>2, <2>1 DEF ConfiguresOnce, Configures
    <2> HIDE DEF same
    <2> QED
      BY <1>3, <2>2, AtMostOne
  <1> QED
    BY <1>4, <1>5, <1>6

\* What a search, an edit and an answer make of the tags of an item.
LEMMA SettledIs ==
    ASSUME NEW nodes \in Seq(TagNodes), NEW answer \in Answers(nodes),
           ConfiguresOnce(nodes), NEW had, NEW definition,
           NEW r, r.kind = "tag", r.nodes = nodes, r.answer = answer
    PROVE  Store!Settled(had, r, definition)
           = {h \in had : \A t \in Given(nodes, answer) : ~Overrides(t, h, definition)}
             \cup Given(nodes, answer)
  <1> DEFINE given == Given(nodes, answer)
             clash == {n \in ToSet(nodes) : n.type \in Clashing(nodes)}
  <1>0. IsFiniteSet(ToSet(nodes)) /\ r.nodes \in Seq(TagNodes)
    BY NodesAreFinite
  <1>1. clash = {n \in Store!ToSet(r.nodes) :
                    /\ n.type \in ReplaceTypes
                    /\ \E m \in Store!ToSet(r.nodes) : m.type = n.type /\ m # n}
    <2>1. Store!ToSet(r.nodes) = ToSet(nodes)
      BY DEF Store!ToSet, ToSet
    <2>2. ASSUME NEW n \in ToSet(nodes)
          PROVE  Cardinality({m \in ToSet(nodes) : m.type = n.type}) > 1
                 <=> \E m \in ToSet(nodes) : m.type = n.type /\ m # n
      <3> DEFINE same == {m \in ToSet(nodes) : m.type = n.type}
      <3>1. IsFiniteSet(same) /\ n \in same
        BY <1>0, FS_Subset
      <3>2. (\E m \in same : m # n)
            <=> \E m \in ToSet(nodes) : m.type = n.type /\ m # n
        OBVIOUS
      <3> HIDE DEF same
      <3>3. Cardinality(same) > 1 <=> \E m \in same : m # n
        BY <3>1, MoreThanOne
      <3> QED
        BY <3>2, <3>3 DEF same
    <2> QED
      BY <2>1, <2>2 DEF Clashing
  <1>2. (Clashing(nodes) = {}) <=> (clash = {})
    <2>1. ASSUME NEW t \in Clashing(nodes) PROVE clash # {}
      <3>1. CASE \E n \in ToSet(nodes) : n.type = t
        BY <3>1
      <3>2. CASE \A n \in ToSet(nodes) : n.type # t
        <4>1. {n \in ToSet(nodes) : n.type = t} = {}
          BY <3>2
        <4>2. Cardinality({n \in ToSet(nodes) : n.type = t}) = 0
          BY <4>1, FS_EmptySet
        <4>3. Cardinality({n \in ToSet(nodes) : n.type = t}) > 1
          BY DEF Clashing
        <4> QED BY <4>2, <4>3
      <3> QED BY <3>1, <3>2
    <2> QED BY <2>1
  <1>3. ASSUME NEW left, ToSet(nodes) \ left = given
        PROVE  Store!InOrder(had, r, definition, left)
               = {h \in had : \A t \in given : ~Overrides(t, h, definition)} \cup given
    <2>1. \A n, m \in ToSet(nodes) \ left : Overrides(n, m, definition) => n = m
      BY <1>3, GivenOnce
    <2> HIDE DEF given
    <2>2. Store!InOrder(had, r, definition, left)
          = Done(had, r, DOMAIN r.nodes, definition, left)
      BY <1>0, Places, InOrderIs
    <2>3. \A n, m \in ToSet(r.nodes) \ left : Overrides(n, m, definition) => n = m
      BY <2>1
    <2>4. \A h : h \in Done(had, r, DOMAIN r.nodes, definition, left) <=>
             \/ h \in had /\ \A n \in ToSet(r.nodes) \ left : ~Overrides(n, h, definition)
             \/ h \in ToSet(r.nodes) \ left
      BY <1>0, <2>3, DoneOnce
    <2> QED
      BY <1>3, <2>2, <2>4
  <1>4. CASE clash = {}
    <2>1. Store!Settled(had, r, definition) = Store!InOrder(had, r, definition, {})
      BY <1>1, <1>4 DEF Store!Settled
    <2>2. ToSet(nodes) \ {} = given
      BY <1>2, <1>4 DEF Given, Answers, NoAnswer
    <2> HIDE DEF given, clash
    <2> QED BY <1>3, <2>1, <2>2 DEF given
  <1>5. CASE clash # {} /\ answer.kind = "take"
    <2>1. Store!Settled(had, r, definition)
          = Store!InOrder(had, r, definition, clash \ {answer.tag})
      BY <1>1, <1>5 DEF Store!Settled
    <2>2. answer.tag \in ToSet(nodes)
      BY <1>2, <1>5 DEF Answers
    <2>3. ToSet(nodes) \ (clash \ {answer.tag}) = given
      BY <1>2, <1>5, <2>2 DEF Given
    <2> HIDE DEF given, clash
    <2> QED BY <1>3, <2>1, <2>3 DEF given
  <1>6. CASE clash # {} /\ answer.kind = "skip"
    <2>1. answer.scope \in {"item", "fs_only"}
      BY <1>2, <1>6 DEF Answers
    <2>2. CASE answer.scope = "item"
      <3>1. Store!Settled(had, r, definition) = had
        BY <1>1, <1>6, <2>2 DEF Store!Settled
      <3>2. given = {}
        BY <1>6, <2>2 DEF Given
      <3> QED BY <3>1, <3>2
    <2>3. CASE answer.scope = "fs_only"
      <3>1. Store!Settled(had, r, definition) = Store!InOrder(had, r, definition, clash)
        BY <1>1, <1>6, <2>3 DEF Store!Settled
      <3>2. ToSet(nodes) \ clash = given
        BY <1>6, <2>3 DEF Given
      <3> HIDE DEF given, clash
      <3> QED BY <1>3, <3>1, <3>2 DEF given
    <2> QED BY <2>1, <2>2, <2>3
  <1>7. clash # {} => answer.kind \in {"take", "skip"}
    BY <1>2 DEF Answers
  <1> QED
    BY <1>4, <1>5, <1>6, <1>7

LEMMA UntaggedIs ==
    ASSUME NEW X, NEW r, r.nodes \in Seq(X), r.kind = "untag", NEW had, NEW definition
    PROVE  Store!Settled(had, r, definition)
           = {h \in had : \A n \in ToSet(r.nodes) :
                 IF n.col = "any" THEN h.type # n.type ELSE h # n}
  <1>1. Store!Settled(had, r, definition) = Store!InOrder(had, r, definition, {})
    BY DEF Store!Settled
  <1>2. Store!InOrder(had, r, definition, {})
        = Done(had, r, DOMAIN r.nodes, definition, {})
    BY Places, InOrderIs
  <1> QED
    BY <1>1, <1>2 DEF Done, Passes, ToSet

-----------------------------------------------------------------------------
(* Columns and configurations.                                             *)

\* No command that configures a type gives an item two values of a type that
\* replaces: where the conflict is settled by skipping the item, its labels are
\* cast and its definition is not changed.
ConfigsAlone == \A nodes \in TagQueries : Configures(nodes) => Clashing(nodes) = {}

Uniform(rows) ==
    \A q, r \in rows : q.type = r.type /\ q.type \in UserTypes => q.col = r.col

OneConfig(rows) ==
    \A q, r \in rows :
        q.type = "bitical_type" /\ r.type = "bitical_type" /\ q.item = r.item
        => q.text = r.text

Configured(refs, rows) ==
    \A d, r \in rows :
        d.type = "bitical_type" /\ r.type \in ContentsOf(refs, d.item) \cap UserTypes
        => r.col = d.text

Sound(refs, rows) ==
    /\ rows \subseteq Row
    /\ Uniform(rows) /\ OneConfig(rows) /\ Configured(refs, rows)

NamedBy(found, new) == AllContents(found) \cup new

\* What confirm has checked of a command that tags.
TagPlanned(found, new, nodes, answer) ==
    /\ nodes \in TagQueries /\ nodes \in Seq(TagNodes)
    /\ answer \in Answers(nodes)
    /\ found \subseteq Ids /\ new \subseteq UserTypes
    /\ \A t \in new : Volatile(t)
    /\ ResolvedNodes(nodes)
    /\ Configures(nodes) => \A i \in found : IsTypeItem(itemRefs, i) /\ Assignable(i)
    /\ ConfiguresOnce(nodes)
    /\ Cardinality(DetectTypeCasts(found, new, nodes)) <= 1
    /\ OneColumn(found, new, nodes)

CastOf(casts) == IF casts = {} THEN NoCast ELSE CHOOSE k \in casts : TRUE

Counted(cast) == IF \E r \in userTags : r.type = cast.type THEN cast ELSE NoCast

\* A type with labels has the column they are in.
LEMMA LabelsName ==
    ASSUME Sound(itemRefs, userTags), NEW r \in userTags, r.type \in UserTypes
    PROVE  BiticalType(r.type) = {r.col}
  <1> DEFINE t == r.type
             explicit == {q.text : q \in {k \in userTags :
                             k.type = "bitical_type" /\ t \in ContentsOf(itemRefs, k.item)}}
             Labelled(col) == \E q \in userTags : q.type = t /\ q.col = col
  <1>1. BiticalType(t) = IF explicit # {} THEN explicit
                         ELSE IF Labelled("string") THEN {"string"}
                         ELSE IF Labelled("integer") THEN {"integer"} ELSE {}
    BY DEF BiticalType
  <1>2. \A x \in explicit : x = r.col
    BY DEF Sound, Configured
  <1>3. Labelled(r.col) /\ r.col \in {"string", "integer"}
    BY DEF Sound, Row, Columns
  <1>4. \A col : Labelled(col) => col = r.col
    BY DEF Sound, Uniform
  <1> HIDE DEF explicit, Labelled, t
  <1>5. explicit # {} => explicit = {r.col}
    BY <1>2
  <1>6. BiticalType(t) = {r.col}
    BY <1>1, <1>3, <1>4, <1>5
  <1> QED
    BY <1>6 DEF t

\* A type whose definition names a column has that one.
LEMMA ConfigNames ==
    ASSUME Sound(itemRefs, userTags), OneDefinition,
           itemRefs \in [RefRow -> Nat], NEW d \in userTags, d.type = "bitical_type",
           NEW t \in ContentsOf(itemRefs, d.item) \cap UserTypes
    PROVE  BiticalType(t) = {d.text}
  <1> DEFINE explicit == {q.text : q \in {k \in userTags :
                             k.type = "bitical_type" /\ t \in ContentsOf(itemRefs, k.item)}}
  <1>1. d.text \in explicit
    OBVIOUS
  <1>2. ASSUME NEW q \in userTags, q.type = "bitical_type",
               t \in ContentsOf(itemRefs, q.item)
        PROVE  q.text = d.text
    <2>1. PICK x \in RefRow : x.id = q.item /\ itemRefs[x] > 0 /\ x.content = t
      BY <1>2 DEF ContentsOf
    <2>2. PICK y \in RefRow : y.id = d.item /\ itemRefs[y] > 0 /\ y.content = t
      BY DEF ContentsOf
    <2>3. q.item = d.item
      BY <2>1, <2>2 DEF OneDefinition
    <2> QED
      BY <1>2, <2>3 DEF Sound, OneConfig
  <1>3. explicit = {d.text}
    BY <1>1, <1>2
  <1> QED
    BY <1>3 DEF BiticalType

\* One node configures, at most.
LEMMA OneConfigNode ==
    ASSUME NEW nodes \in Seq(TagNodes), ConfiguresOnce(nodes),
           NEW n \in ToSet(nodes), NEW m \in ToSet(nodes),
           n.type = "bitical_type", m.type = "bitical_type"
    PROVE  n = m
  <1> DEFINE same == {k \in ToSet(nodes) : k.type = "bitical_type"}
  <1>1. IsFiniteSet(same) /\ n \in same /\ m \in same /\ Cardinality(same) = 1
    BY NodesAreFinite, FS_Subset DEF ConfiguresOnce, Configures
  <1> HIDE DEF same
  <1> QED
    BY <1>1, AtMostOne

LEMMA NodeIs ==
    ASSUME NEW nodes \in Seq(TagNodes), NEW n \in ToSet(nodes)
    PROVE  /\ n \in Tag /\ n = [type |-> n.type, col |-> n.col, text |-> n.text]
           /\ n.type \in UserTypes => n \in Written
           /\ n.type # "bitical_type" => n \in Written
           /\ n \in Written => n.type \in UserTypes /\ n.type # "bitical_type"
           /\ n.type = "bitical_type" => n.text \in Columns
  <1>1. n \in TagNodes
    BY NodesAreFinite
  <1>2. "bitical_type" \notin UserTypes
    BY TypesAssumption
  <1> QED
    BY <1>1, <1>2 DEF TagNodes, Written, Configs, Tag, TagTypes, AllTexts, Columns

LEMMA CastsAreFinite ==
    ASSUME NEW S, S \subseteq [type : UserTypes, col : Columns]
    PROVE  IsFiniteSet(S)
  <1> DEFINE all == [type : UserTypes, col : Columns]
             f == [x \in UserTypes \X Columns |-> [type |-> x[1], col |-> x[2]]]
  <1>1. IsFiniteSet(UserTypes) /\ IsFiniteSet(Columns)
    <2>1. Columns = {"string"} \cup {"integer"}
      BY DEF Columns
    <2> QED BY <2>1, TypesAssumption, FS_Singleton, FS_Union
  <1>2. IsFiniteSet(UserTypes \X Columns)
    BY <1>1, FS_Product
  <1>3. f \in Surjection(UserTypes \X Columns, all)
    <2>1. f \in [UserTypes \X Columns -> all]
      OBVIOUS
    <2>2. ASSUME NEW k \in all PROVE \E x \in UserTypes \X Columns : f[x] = k
      <3>1. <<k.type, k.col>> \in UserTypes \X Columns
        OBVIOUS
      <3>2. f[<<k.type, k.col>>] = k
        BY <3>1
      <3> QED BY <3>1, <3>2
    <2> QED BY <2>1, <2>2 DEF Surjection
  <1>4. IsFiniteSet(all)
    BY <1>2, <1>3, FS_Surjection
  <1> QED
    BY <1>4, FS_Subset

LEMMA NamedIs ==
    ASSUME NEW found, NEW new, NEW t
    PROVE  t \in NamedBy(found, new)
           <=> t \in new \/ \E i \in found : t \in ContentsOf(itemRefs, i)
  BY DEF NamedBy, AllContents

\* Where a type is configured, the items found are definitions of user types.
LEMMA ConfiguredAreTypes ==
    ASSUME OneItem, NEW found, NEW new, NEW nodes, NEW answer,
           TagPlanned(found, new, nodes, answer), Configures(nodes)
    PROVE  NamedBy(found, new) \subseteq UserTypes
  <1> SUFFICES ASSUME NEW i \in found, NEW t \in ContentsOf(itemRefs, i)
               PROVE  t \in UserTypes
    <2>1. new \subseteq UserTypes
      BY DEF TagPlanned
    <2> QED
      BY <2>1, NamedIs
  <1>1. IsTypeItem(itemRefs, i) /\ i \notin BuiltinIds
    BY DEF TagPlanned, Assignable
  <1>2. PICK k \in ContentsOf(itemRefs, i) : k \in UserTypes
    BY <1>1 DEF IsTypeItem
  <1>3. t = k
    BY DEF ContentsOf, OneItem
  <1> QED
    BY <1>2, <1>3

\* The cast of a command: of one type it names, to the column it configures.
LEMMA CastIs ==
    ASSUME OneItem, NEW found, NEW new, NEW nodes, NEW answer,
           TagPlanned(found, new, nodes, answer)
    PROVE  LET casts == DetectTypeCasts(found, new, nodes)
               cast == CastOf(casts)
           IN  /\ \A k \in casts : k = cast
               /\ casts = {} => cast = NoCast
               /\ casts # {} =>
                     /\ cast \in casts /\ Configures(nodes)
                     /\ cast.type \in NamedBy(found, new) \cap UserTypes
                     /\ cast.col \in Columns
                     /\ cast = [type |-> cast.type, col |-> cast.col]
                     /\ \A m \in ToSet(nodes) : m.type = "bitical_type" => m.text = cast.col
  <1> DEFINE casts == DetectTypeCasts(found, new, nodes)
             cast == CastOf(casts)
             named == (AllContents(found) \cap DefinedTypes) \cup new
             wanted == {n.text : n \in {m \in ToSet(nodes) : m.type = "bitical_type"}}
  <1>0. nodes \in Seq(TagNodes) /\ ConfiguresOnce(nodes)
    BY DEF TagPlanned
  <1>1. \A k \in casts : /\ k \in [type : named, col : wanted]
                         /\ k = [type |-> k.type, col |-> k.col]
    BY DEF DetectTypeCasts
  <1>2. wanted # {} => Configures(nodes)
    BY DEF Configures
  <1>3. wanted \subseteq Columns
    BY <1>0, NodeIs
  <1>4. named \subseteq NamedBy(found, new)
    BY DEF NamedBy
  <1>5. \A k \in casts : /\ Configures(nodes) /\ k.type \in NamedBy(found, new) \cap UserTypes
                         /\ k.col \in Columns /\ k.col \in wanted
                         /\ k = [type |-> k.type, col |-> k.col]
    <2> HIDE DEF casts, named, wanted
    <2> QED BY <1>1, <1>2, <1>3, <1>4, ConfiguredAreTypes
  <1>6. casts \subseteq [type : UserTypes, col : Columns]
    <2> HIDE DEF casts
    <2> QED BY <1>5
  <1>7. IsFiniteSet(casts) /\ Cardinality(casts) <= 1
    <2>1. Cardinality(casts) <= 1
      BY DEF TagPlanned
    <2> HIDE DEF casts
    <2> QED BY <1>6, <2>1, CastsAreFinite
  <1>8. casts # {} => cast \in casts
    <2> HIDE DEF casts
    <2> QED BY DEF CastOf
  <1>9. \A k \in casts : k = cast
    <2> HIDE DEF casts, cast
    <2> QED BY <1>7, <1>8, AtMostOne
  <1>10. \A x, y \in wanted : x = y
    <2>1. ASSUME NEW n \in ToSet(nodes), NEW m \in ToSet(nodes),
                 n.type = "bitical_type", m.type = "bitical_type"
          PROVE  n.text = m.text
      BY <1>0, <2>1, OneConfigNode
    <2> QED BY <2>1
  <1>11. casts = {} => cast = NoCast
    <2> HIDE DEF casts
    <2> QED BY DEF CastOf
  <1>12. \A m \in ToSet(nodes) : m.type = "bitical_type" => m.text \in wanted
    OBVIOUS
  <1> HIDE DEF casts, cast, wanted
  <1>13. casts # {} =>
            /\ cast \in casts /\ Configures(nodes)
            /\ cast.type \in NamedBy(found, new) \cap UserTypes
            /\ cast.col \in Columns
            /\ cast = [type |-> cast.type, col |-> cast.col]
            /\ \A m \in ToSet(nodes) : m.type = "bitical_type" => m.text = cast.col
    BY <1>5, <1>8, <1>10, <1>12
  <1> QED
    BY <1>9, <1>11, <1>13 DEF casts, cast

\* A type that is named, with labels in another column than the one configured,
\* is cast.
LEMMA OthersAreCast ==
    ASSUME NEW found, NEW new, NEW nodes, NEW t \in NamedBy(found, new) \cap UserTypes,
           NEW m \in ToSet(nodes), m.type = "bitical_type",
           NEW col, BiticalType(t) = {col}, col # m.text
    PROVE  [type |-> t, col |-> m.text] \in DetectTypeCasts(found, new, nodes)
  <1> DEFINE named == (AllContents(found) \cap DefinedTypes) \cup new
             wanted == {n.text : n \in {k \in ToSet(nodes) : k.type = "bitical_type"}}
             Now(k) == IF BiticalType(k) = {} THEN {"string"} ELSE BiticalType(k)
             cast == [type |-> t, col |-> m.text]
  <1>1. t \in named
    BY DEF NamedBy, DefinedTypes
  <1>2. m.text \in wanted
    OBVIOUS
  <1>3. cast \in [type : named, col : wanted] /\ cast.type = t /\ cast.col = m.text
    BY <1>1, <1>2
  <1>4. Now(t) = {col} /\ Now(t) # {m.text}
    OBVIOUS
  <1> QED
    BY <1>3, <1>4 DEF DetectTypeCasts

\* No label is in another column than the cast of its type makes.
LEMMA NotCast ==
    ASSUME NEW found, NEW new, NEW nodes,
           NEW cast \in DetectTypeCasts(found, new, nodes)
    PROVE  BiticalType(cast.type) # {cast.col}
  BY DEF DetectTypeCasts

\* The cast that a command makes: its rows are counted first.
CastFor(found, new, nodes) == Counted(CastOf(DetectTypeCasts(found, new, nodes)))

LEMMA CastRowIs ==
    ASSUME NEW r \in Row, NEW cast
    PROVE  CastRow(r, cast) = [item |-> r.item, type |-> r.type, text |-> r.text,
                               col |-> IF r.type = cast.type THEN cast.col ELSE r.col]
  BY DEF CastRow, Row

\* The type of a cast is one the command names, and has labels in another column.
LEMMA CastForIs ==
    ASSUME OneItem, NEW found, NEW new, NEW nodes, NEW answer,
           TagPlanned(found, new, nodes, answer)
    PROVE  LET cast == CastFor(found, new, nodes) IN
           \/ cast = NoCast
           \/ /\ cast \in DetectTypeCasts(found, new, nodes)
              /\ Configures(nodes)
              /\ cast.type \in NamedBy(found, new) \cap UserTypes
              /\ cast.col \in Columns
              /\ BiticalType(cast.type) # {cast.col}
              /\ \A m \in ToSet(nodes) : m.type = "bitical_type" => m.text = cast.col
  BY CastIs, NotCast DEF CastFor, Counted

LEMMA NoCastType ==
    NoCast.type = "none" /\ "none" \notin UserTypes /\ "none" \notin TagTypes
  BY TypesAssumption DEF NoCast, TagTypes

\* A value that is written is in the column that the labels of its type are in
\* after the cast.
LEMMA NewColumn ==
    ASSUME OneItem, Sound(itemRefs, userTags), NEW found, NEW new, NEW nodes, NEW answer,
           TagPlanned(found, new, nodes, answer),
           NEW n \in ToSet(nodes), NEW r \in userTags,
           n.type = r.type, r.type \in UserTypes
    PROVE  CastRow(r, CastFor(found, new, nodes)).col = n.col
  <1> DEFINE cast == CastFor(found, new, nodes)
  <1>1. r \in Row
    BY DEF Sound
  <1>2. BiticalType(r.type) = {r.col}
    BY LabelsName
  <1>3. nodes \in Seq(TagNodes) /\ n \in Written
    <2>1. nodes \in Seq(TagNodes)
      BY DEF TagPlanned
    <2> QED BY <2>1, NodeIs
  <1>4. n.col = r.col
    <2>1. Accepted(n)
      BY DEF TagPlanned, ResolvedNodes
    <2>2. n.type # "bitical_type"
      BY TypesAssumption
    <2> QED BY <1>2, <2>1, <2>2 DEF Accepted
  <1>5. ASSUME r.type = cast.type PROVE FALSE
    <2>1. cast # NoCast
      BY <1>5, NoCastType
    <2>2. /\ Configures(nodes)
          /\ cast.type \in NamedBy(found, new) \cap UserTypes
          /\ BiticalType(cast.type) # {cast.col}
          /\ \A m \in ToSet(nodes) : m.type = "bitical_type" => m.text = cast.col
      <3> HIDE DEF cast
      <3> QED BY <2>1, CastForIs DEF cast
    <2>3. PICK m \in ToSet(nodes) : m.type = "bitical_type"
      BY <2>2 DEF Configures
    <2>4. m.text = n.col
      <3>1. OneColumn(found, new, nodes)
        BY DEF TagPlanned
      <3> HIDE DEF cast
      <3> QED BY <1>3, <1>5, <2>2, <2>3, <3>1 DEF OneColumn, NamedBy
    <2> HIDE DEF cast
    <2> QED BY <1>2, <1>4, <1>5, <2>2, <2>3, <2>4
  <1> HIDE DEF cast
  <1>6. CastRow(r, cast).col = r.col
    BY <1>1, <1>5, CastRowIs
  <1> QED
    BY <1>4, <1>6 DEF cast

\* The labels of a type that is configured are moved to its column.
LEMMA NewConfigColumn ==
    ASSUME OneItem, Sound(itemRefs, userTags), NEW found, NEW new, NEW nodes, NEW answer,
           TagPlanned(found, new, nodes, answer),
           NEW m \in ToSet(nodes), m.type = "bitical_type",
           NEW r \in userTags, r.type \in NamedBy(found, new) \cap UserTypes
    PROVE  CastRow(r, CastFor(found, new, nodes)).col = m.text
  <1> DEFINE casts == DetectTypeCasts(found, new, nodes)
             cast == CastFor(found, new, nodes)
  <1>1. r \in Row
    BY DEF Sound
  <1>2. BiticalType(r.type) = {r.col}
    BY LabelsName
  <1>3. CASE r.col = m.text
    <2>1. ASSUME r.type = cast.type PROVE FALSE
      <3>1. cast # NoCast
        BY <2>1, NoCastType
      <3>2. BiticalType(cast.type) # {cast.col} /\ m.text = cast.col
        <4> HIDE DEF cast
        <4> QED BY <3>1, CastForIs DEF cast
      <3> HIDE DEF cast
      <3> QED BY <1>2, <1>3, <2>1, <3>2
    <2> HIDE DEF cast
    <2>2. CastRow(r, cast).col = r.col
      BY <1>1, <2>1, CastRowIs
    <2> QED BY <1>3, <2>2 DEF cast
  <1>4. CASE r.col # m.text
    <2> DEFINE k == [type |-> r.type, col |-> m.text]
    <2>1. k \in casts
      BY <1>2, <1>4, OthersAreCast
    <2>2. k = CastOf(casts)
      <3> HIDE DEF k, casts
      <3> QED BY <2>1, CastIs DEF casts
    <2>3. k.type = r.type /\ k.col = m.text
      OBVIOUS
    <2> HIDE DEF k, casts
    <2>4. cast = k
      BY <2>2, <2>3 DEF CastFor, Counted, casts
    <2>5. CastRow(r, k).col = m.text
      BY <1>1, <2>3, CastRowIs
    <2> QED BY <2>4, <2>5
  <1> QED
    BY <1>3, <1>4

\* The labels of a type that has its column, and is not configured, stay there.
LEMMA OldConfigColumn ==
    ASSUME OneItem, OneDefinition, itemRefs \in [RefRow -> Nat],
           Sound(itemRefs, userTags), NEW found, NEW new, NEW nodes, NEW answer,
           TagPlanned(found, new, nodes, answer),
           NEW d \in userTags, d.type = "bitical_type", Configures(nodes) => d.item \notin found,
           NEW r \in userTags, r.type \in ContentsOf(itemRefs, d.item) \cap UserTypes
    PROVE  CastRow(r, CastFor(found, new, nodes)).col = d.text
  <1> DEFINE cast == CastFor(found, new, nodes)
  <1>1. r \in Row
    BY DEF Sound
  <1>2. BiticalType(r.type) = {r.col} /\ BiticalType(r.type) = {d.text}
    BY LabelsName, ConfigNames
  <1>3. ASSUME r.type = cast.type PROVE FALSE
    <2>1. cast # NoCast
      BY <1>3, NoCastType
    <2>2. Configures(nodes) /\ cast.type \in NamedBy(found, new)
      <3> HIDE DEF cast
      <3> QED BY <2>1, CastForIs DEF cast
    <2> HIDE DEF cast
    <2>3. PICK q \in RefRow : q.id = d.item /\ q.content = r.type /\ itemRefs[q] > 0
      BY DEF ContentsOf
    <2>4. r.type \notin new
      <3>1. r.type \in new => Volatile(r.type)
        BY DEF TagPlanned
      <3> QED BY <2>3, <3>1 DEF Volatile
    <2>5. PICK i \in found : r.type \in ContentsOf(itemRefs, i)
      BY <1>3, <2>2, <2>4, NamedIs
    <2>6. PICK p \in RefRow : p.id = i /\ p.content = r.type /\ itemRefs[p] > 0
      BY <2>5 DEF ContentsOf
    <2>7. p = q
      BY <2>3, <2>6 DEF OneDefinition
    <2> QED BY <2>2, <2>3, <2>5, <2>6, <2>7
  <1> HIDE DEF cast
  <1>4. CastRow(r, cast).col = r.col
    BY <1>1, <1>3, CastRowIs
  <1> QED
    BY <1>2, <1>4 DEF cast

\* The rows of user_tags after a command that tags: those there were, cast; the
\* tags it gives to items; the names of the items it makes.
OldRow(x, found, nodes, cast) ==
    \E r \in userTags : /\ x = CastRow(r, cast)
                        /\ Configures(nodes) /\ r.item \in found => r.type # "bitical_type"
NewRow(x, owners, nodes) == \E i \in owners, n \in ToSet(nodes) : x = AsRow(i, n)
NameRow(x, ids) == \E i \in ids, k \in Contents : x = AsRow(i, InjectedName(k))

\* An id drawn has no tags and is a definition of what the command makes; what
\* other items are does not change.
FreshRefs(refs, ids, new) ==
    /\ ids \subseteq UserIds
    /\ \A r \in userTags : r.item \notin ids
    /\ \A i \in ids : ContentsOf(refs, i) \subseteq new
    /\ \A i \in Ids \ ids :
          ContentsOf(refs, i) \cap UserTypes \subseteq ContentsOf(itemRefs, i)

LEMMA OldRowIs ==
    ASSUME OneItem, Sound(itemRefs, userTags), NEW found, NEW new, NEW nodes, NEW answer,
           TagPlanned(found, new, nodes, answer),
           NEW x, OldRow(x, found, nodes, CastFor(found, new, nodes))
    PROVE  x \in Row /\ \E r \in userTags :
              /\ x = CastRow(r, CastFor(found, new, nodes))
              /\ r \in Row /\ x.item = r.item /\ x.type = r.type /\ x.text = r.text
              /\ Configures(nodes) /\ r.item \in found => r.type # "bitical_type"
  <1> DEFINE cast == CastFor(found, new, nodes)
  <1>1. PICK r \in userTags : /\ x = CastRow(r, cast)
                              /\ Configures(nodes) /\ r.item \in found
                                     => r.type # "bitical_type"
    BY DEF OldRow
  <1>2. r \in Row
    BY DEF Sound
  <1>3. cast = NoCast \/ cast.col \in Columns
    <2> HIDE DEF cast
    <2> QED BY CastForIs DEF cast
  <1> HIDE DEF cast
  <1>4. x = [item |-> r.item, type |-> r.type, text |-> r.text,
             col |-> IF r.type = cast.type THEN cast.col ELSE r.col]
    BY <1>1, <1>2, CastRowIs
  <1>5. r.type # "none" /\ r.col \in Columns /\ r.item \in Ids /\ r.type \in TagTypes
        /\ r.text \in AllTexts
    BY <1>2, NoCastType DEF Row
  <1>6. x.item = r.item /\ x.type = r.type /\ x.text = r.text /\ x.col \in Columns
    BY <1>3, <1>4, <1>5, NoCastType
  <1>7. x \in Row
    BY <1>4, <1>5, <1>6 DEF Row
  <1> QED
    BY <1>1, <1>2, <1>6, <1>7 DEF cast

LEMMA NewRowIs ==
    ASSUME NEW nodes \in Seq(TagNodes), NEW owners, owners \subseteq Ids,
           NEW x, NewRow(x, owners, nodes)
    PROVE  x \in Row /\ \E n \in ToSet(nodes) :
              /\ x.item \in owners /\ x.type = n.type /\ x.col = n.col /\ x.text = n.text
              /\ n.type \in UserTypes => n \in Written
  <1>1. PICK i \in owners, n \in ToSet(nodes) : x = AsRow(i, n)
    BY DEF NewRow
  <1>2. n \in Tag /\ (n.type \in UserTypes => n \in Written)
    BY NodeIs
  <1>3. /\ x = [item |-> i, type |-> n.type, col |-> n.col, text |-> n.text]
        /\ n.type \in TagTypes /\ n.col \in Columns /\ n.text \in AllTexts /\ i \in Ids
    BY <1>1, <1>2 DEF AsRow, Tag
  <1>4. x \in Row
    BY <1>3 DEF Row
  <1> QED
    BY <1>2, <1>3, <1>4

LEMMA NameRowIs ==
    ASSUME NEW ids, ids \subseteq UserIds, NEW x, NameRow(x, ids)
    PROVE  x \in Row /\ x.type = "name" /\ x.type \notin UserTypes
  <1>1. PICK i \in ids, k \in Contents : x = AsRow(i, InjectedName(k))
    BY DEF NameRow
  <1>2. x = [item |-> i, type |-> "name", col |-> "string", text |-> k]
    BY <1>1 DEF AsRow, InjectedName
  <1>3. i \in Ids /\ "name" \in TagTypes /\ "string" \in Columns /\ k \in AllTexts
    BY DEF Ids, TagTypes, Columns, AllTexts
  <1> QED
    BY <1>2, <1>3, TypesAssumption DEF Row

LEMMA SoundTag ==
    ASSUME OneItem, OneDefinition, itemRefs \in [RefRow -> Nat],
           Sound(itemRefs, userTags), NEW found, NEW new, NEW nodes, NEW answer,
           TagPlanned(found, new, nodes, answer),
           NEW refs, NEW ids, FreshRefs(refs, ids, new), NEW rows,
           \A x \in rows : \/ OldRow(x, found, nodes, CastFor(found, new, nodes))
                           \/ NewRow(x, found \cup ids, nodes)
                           \/ NameRow(x, ids)
    PROVE  Sound(refs, rows)
  <1> DEFINE cast == CastFor(found, new, nodes)
             Old(x) == \E r \in userTags :
                          /\ x = CastRow(r, cast)
                          /\ r \in Row /\ x.item = r.item /\ x.type = r.type
                          /\ x.text = r.text
                          /\ Configures(nodes) /\ r.item \in found
                                => r.type # "bitical_type"
             New(x) == \E n \in ToSet(nodes) :
                          /\ x.item \in found \cup ids /\ x.type = n.type
                          /\ x.col = n.col /\ x.text = n.text
                          /\ n.type \in UserTypes => n \in Written
             Plain(x) == x.type = "name" /\ x.type \notin UserTypes
  <1>1. nodes \in Seq(TagNodes) /\ found \cup ids \subseteq Ids /\ ids \subseteq UserIds
    BY DEF TagPlanned, FreshRefs, Ids
  <1>2. \A x \in rows : x \in Row /\ (Old(x) \/ New(x) \/ Plain(x))
    <2> SUFFICES ASSUME NEW x \in rows PROVE x \in Row /\ (Old(x) \/ New(x) \/ Plain(x))
      OBVIOUS
    <2>1. OldRow(x, found, nodes, cast) => x \in Row /\ Old(x)
      BY OldRowIs
    <2>2. NewRow(x, found \cup ids, nodes) => x \in Row /\ New(x)
      BY <1>1, NewRowIs
    <2>3. NameRow(x, ids) => x \in Row /\ Plain(x)
      BY <1>1, NameRowIs
    <2> HIDE DEF Old, New, Plain, cast
    <2> QED BY <2>1, <2>2, <2>3 DEF cast
  <1>3. OneColumn(found, new, nodes)
    BY DEF TagPlanned
  <1>4. Uniform(rows)
    <2> SUFFICES ASSUME NEW q \in rows, NEW r \in rows, q.type = r.type,
                        r.type \in UserTypes
                 PROVE  q.col = r.col
      BY DEF Uniform
    <2>1. ASSUME NEW x \in rows, Old(x), NEW y \in rows, Old(y),
                 x.type = y.type, y.type \in UserTypes
          PROVE  x.col = y.col
      <3>1. PICK a \in userTags : x = CastRow(a, cast) /\ a \in Row /\ x.type = a.type
        BY <2>1
      <3>2. PICK b \in userTags : y = CastRow(b, cast) /\ b \in Row /\ y.type = b.type
        BY <2>1
      <3>3. a.col = b.col
        BY <2>1, <3>1, <3>2 DEF Sound, Uniform
      <3> HIDE DEF cast, Old, New, Plain
      <3>4. x.col = IF a.type = cast.type THEN cast.col ELSE a.col
        BY <3>1, CastRowIs
      <3>5. y.col = IF b.type = cast.type THEN cast.col ELSE b.col
        BY <3>2, CastRowIs
      <3> QED BY <2>1, <3>1, <3>2, <3>3, <3>4, <3>5
    <2>2. ASSUME NEW x \in rows, Old(x), NEW y \in rows, New(y),
                 x.type = y.type, y.type \in UserTypes
          PROVE  x.col = y.col
      <3>1. PICK a \in userTags : x = CastRow(a, cast) /\ x.type = a.type
        BY <2>2
      <3>2. PICK n \in ToSet(nodes) : y.type = n.type /\ y.col = n.col
        BY <2>2
      <3>3. CastRow(a, cast).col = n.col
        BY <2>2, <3>1, <3>2, NewColumn
      <3> QED BY <3>1, <3>2, <3>3
    <2>3. ASSUME NEW x \in rows, New(x), NEW y \in rows, New(y),
                 x.type = y.type, y.type \in UserTypes
          PROVE  x.col = y.col
      <3>1. PICK m \in ToSet(nodes) : x.type = m.type /\ x.col = m.col
        BY <2>3
      <3>2. PICK n \in ToSet(nodes) :
               y.type = n.type /\ y.col = n.col /\ n \in Written
        BY <2>3
      <3> HIDE DEF Old, New, Plain
      <3>3. m.col = n.col
        BY <1>3, <2>3, <3>1, <3>2 DEF OneColumn
      <3> QED BY <3>1, <3>2, <3>3
    <2>4. q.type \in UserTypes /\ ~Plain(q) /\ ~Plain(r)
      OBVIOUS
    <2> HIDE DEF Old, New, Plain
    <2> QED BY <1>2, <2>1, <2>2, <2>3, <2>4
  <1>5. ASSUME NEW x \in rows, New(x), x.type = "bitical_type"
        PROVE  Configures(nodes) /\ x.item \in found \cup ids
               /\ \E n \in ToSet(nodes) : n.type = "bitical_type" /\ x.text = n.text
    BY <1>5 DEF Configures
  <1>6. OneConfig(rows)
    <2> SUFFICES ASSUME NEW q \in rows, NEW r \in rows, q.item = r.item,
                        q.type = "bitical_type", r.type = "bitical_type"
                 PROVE  q.text = r.text
      BY DEF OneConfig
    <2>1. ASSUME Old(q), Old(r) PROVE q.text = r.text
      BY <2>1 DEF Sound, OneConfig
    <2>2. ASSUME NEW x \in rows, NEW y \in rows, Old(x), New(y), x.item = y.item,
                 x.type = "bitical_type", y.type = "bitical_type"
          PROVE  FALSE
      <3>1. Configures(nodes) /\ y.item \in found \cup ids
        BY <1>5, <2>2
      <3>2. PICK a \in userTags : /\ x.item = a.item /\ x.type = a.type
                                  /\ Configures(nodes) /\ a.item \in found
                                        => a.type # "bitical_type"
        BY <2>2
      <3> QED BY <2>2, <3>1, <3>2 DEF FreshRefs
    <2>3. ASSUME New(q), New(r) PROVE q.text = r.text
      <3>1. ConfiguresOnce(nodes)
        BY DEF TagPlanned
      <3> HIDE DEF Old, New
      <3> QED BY <1>1, <1>5, <2>3, <3>1, OneConfigNode
    <2>4. ~Plain(q) /\ ~Plain(r)
      OBVIOUS
    <2> HIDE DEF Old, New, Plain
    <2> QED BY <1>2, <2>1, <2>2, <2>3, <2>4
  <1>7. Configured(refs, rows)
    <2> SUFFICES ASSUME NEW d \in rows, NEW r \in rows, d.type = "bitical_type",
                        r.type \in ContentsOf(refs, d.item) \cap UserTypes
                 PROVE  r.col = d.text
      BY DEF Configured
    <2>1. ~Plain(d) /\ ~Plain(r) /\ d.item \in Ids
      BY <1>2 DEF Row
    <2>2. CASE Old(d)
      <3>1. PICK a \in userTags : /\ d.item = a.item /\ d.type = a.type /\ d.text = a.text
                                  /\ Configures(nodes) /\ a.item \in found
                                        => a.type # "bitical_type"
        BY <2>2
      <3>2. r.type \in ContentsOf(itemRefs, a.item) \cap UserTypes
        BY <2>1, <3>1 DEF FreshRefs
      <3>3. Configures(nodes) => a.item \notin found
        BY <3>1
      <3>4. CASE Old(r)
        <4>1. PICK b \in userTags : r = CastRow(b, cast) /\ r.type = b.type
          BY <3>4
        <4>2. CastRow(b, cast).col = a.text
          BY <3>1, <3>2, <3>3, <4>1, OldConfigColumn
        <4> QED BY <3>1, <4>1, <4>2
      <3>5. CASE New(r)
        <4>1. PICK n \in ToSet(nodes) : r.type = n.type /\ r.col = n.col
          BY <3>5
        <4>2. Accepted(n) /\ n.type # "bitical_type"
          BY <4>1, TypesAssumption DEF TagPlanned, ResolvedNodes
        <4>3. BiticalType(n.type) = {a.text}
          BY <3>1, <3>2, <4>1, ConfigNames
        <4> QED BY <3>1, <4>1, <4>2, <4>3 DEF Accepted
      <3> HIDE DEF Old, New, Plain
      <3> QED BY <1>2, <2>1, <3>4, <3>5
    <2>3. CASE New(d)
      <3>1. PICK m \in ToSet(nodes) : m.type = "bitical_type" /\ d.text = m.text
        BY <1>5, <2>3
      <3>2. d.item \in found \cup ids
        BY <2>3
      <3>3. r.type \in NamedBy(found, new) \cap UserTypes
        BY <2>1, <3>2, NamedIs DEF FreshRefs
      <3>4. CASE Old(r)
        <4>1. PICK b \in userTags : r = CastRow(b, cast) /\ r.type = b.type
          BY <3>4
        <4>2. CastRow(b, cast).col = m.text
          BY <3>1, <3>3, <4>1, NewConfigColumn
        <4> QED BY <3>1, <4>1, <4>2
      <3>5. CASE New(r)
        <4>1. PICK n \in ToSet(nodes) : r.type = n.type /\ r.col = n.col /\ n \in Written
          BY <3>3, <3>5
        <4>2. m.text = n.col
          BY <1>3, <3>1, <3>3, <4>1 DEF OneColumn, NamedBy
        <4> QED BY <3>1, <4>1, <4>2
      <3> HIDE DEF Old, New, Plain
      <3> QED BY <1>2, <2>1, <3>4, <3>5
    <2> HIDE DEF Old, New, Plain
    <2> QED BY <1>2, <2>1, <2>2, <2>3
  <1> QED
    <2> HIDE DEF Old, New, Plain
    <2> QED BY <1>2, <1>4, <1>6, <1>7 DEF Sound

\* What only takes rows away, and names new items, leaves all of it as it is.
LEMMA SoundWithout ==
    ASSUME Sound(itemRefs, userTags), NEW refs, NEW ids, NEW new, FreshRefs(refs, ids, new),
           NEW rows, \A x \in rows : x \in userTags \/ NameRow(x, ids)
    PROVE  Sound(refs, rows)
  <1> DEFINE Plain(x) == x.type = "name" /\ x.type \notin UserTypes
  <1>1. \A x \in rows : x \in Row /\ (x \in userTags \/ Plain(x))
    <2>1. \A x \in userTags : x \in Row
      BY DEF Sound
    <2>2. ids \subseteq UserIds
      BY DEF FreshRefs
    <2>3. \A x : NameRow(x, ids) => x \in Row /\ Plain(x)
      BY <2>2, NameRowIs
    <2> HIDE DEF Plain
    <2> QED BY <2>1, <2>3
  <1>2. Uniform(rows) /\ OneConfig(rows)
    BY <1>1 DEF Sound, Uniform, OneConfig
  <1>3. Configured(refs, rows)
    <2> SUFFICES ASSUME NEW d \in rows, NEW r \in rows, d.type = "bitical_type",
                        r.type \in ContentsOf(refs, d.item) \cap UserTypes
                 PROVE  r.col = d.text
      BY DEF Configured
    <2>1. d \in userTags /\ r \in userTags /\ d.item \in Ids
      BY <1>1 DEF Row
    <2>2. r.type \in ContentsOf(itemRefs, d.item) \cap UserTypes
      BY <2>1 DEF FreshRefs
    <2> QED
      BY <2>1, <2>2 DEF Sound, Configured
  <1> QED
    BY <1>1, <1>2, <1>3 DEF Sound

-----------------------------------------------------------------------------
(* The tags of an item before and after a command.                         *)

TagsOf(rows, i) == {AsTag(r) : r \in {q \in rows : q.item = i}}

\* Store!TagsDone, of the tables that a command found.
TagsAfter(was, i, r, fresh) ==
    LET had == IF i \notin r.items THEN TagsOf(was.tags, i)
               ELSE IF r.kind = "forget" THEN {}
               ELSE Store!Settled(TagsOf(was.tags, i), r,
                                  Store!IsDefinition(i, ItemOf(was, i)))
        own == IF i \notin DOMAIN fresh \/ r.kind = "note" THEN {}
               ELSE Store!InOrder({}, r, TRUE, {}) \cup {Store!Named(fresh[i])}
    IN  {Store!Convert(t, r.cast) : t \in had \cup own}

LEMMA RowTags ==
    ASSUME NEW rows, rows \subseteq Row, NEW i, NEW t \in TagsOf(rows, i)
    PROVE  /\ t \in Tag /\ t = [type |-> t.type, col |-> t.col, text |-> t.text]
           /\ AsRow(i, t) \in rows
  <1>1. PICK r \in rows : r.item = i /\ t = AsTag(r)
    BY DEF TagsOf
  <1>2. r \in Row
    OBVIOUS
  <1>3. /\ t = [type |-> r.type, col |-> r.col, text |-> r.text]
        /\ t.type = r.type /\ t.col = r.col /\ t.text = r.text
    BY <1>1 DEF AsTag
  <1>4. AsRow(i, t) = r
    BY <1>1, <1>2, <1>3 DEF AsRow, Row
  <1> QED
    BY <1>2, <1>3, <1>4 DEF Row, Tag

\* What is saved of the tags of an item: those that are kept, cast, and new ones.
LEMMA SavedTagsOf ==
    ASSUME NEW rows, rows \subseteq Row, NEW j, NEW i
    PROVE  TagsOf(UserTagsWrite(rows, j), i)
           = {Store!Convert(t, j.cast) : t \in TagsOf(Kept(rows, j), i)}
             \cup TagsOf(j.inserts, i)
  <1>1. ASSUME NEW k \in Kept(rows, j)
        PROVE  /\ CastRow(k, j.cast).item = k.item
               /\ AsTag(CastRow(k, j.cast)) = Store!Convert(AsTag(k), j.cast)
    <2>1. k \in Row
      BY DEF Kept
    <2>2. CastRow(k, j.cast)
          = [item |-> k.item, type |-> k.type, text |-> k.text,
             col |-> IF k.type = j.cast.type THEN j.cast.col ELSE k.col]
      BY <2>1, CastRowIs
    <2>3. Store!Convert(AsTag(k), j.cast)
          = [type |-> k.type, text |-> k.text,
             col |-> IF k.type = j.cast.type THEN j.cast.col ELSE k.col]
      BY DEF Store!Convert, AsTag
    <2> QED
      BY <2>2, <2>3 DEF AsTag
  <1>2. TagsOf(UserTagsWrite(rows, j), i)
        = {AsTag(CastRow(k, j.cast)) : k \in {q \in Kept(rows, j) : q.item = i}}
          \cup TagsOf(j.inserts, i)
    BY <1>1 DEF TagsOf, UserTagsWrite
  <1>3. {AsTag(CastRow(k, j.cast)) : k \in {q \in Kept(rows, j) : q.item = i}}
        = {Store!Convert(t, j.cast) : t \in TagsOf(Kept(rows, j), i)}
    BY <1>1 DEF TagsOf
  <1> QED
    BY <1>2, <1>3

\* Tags that a command writes are in their column already.
LEMMA NodesFit ==
    ASSUME OneItem, NEW found, NEW new, NEW nodes, NEW answer,
           TagPlanned(found, new, nodes, answer), NEW t \in ToSet(nodes)
    PROVE  Store!Convert(t, CastOf(DetectTypeCasts(found, new, nodes))) = t
  <1> DEFINE casts == DetectTypeCasts(found, new, nodes)
             cast == CastOf(casts)
  <1>1. nodes \in Seq(TagNodes) /\ OneColumn(found, new, nodes)
    BY DEF TagPlanned
  <1>2. /\ t = [type |-> t.type, col |-> t.col, text |-> t.text] /\ t.type \in TagTypes
        /\ t.type \in UserTypes => t \in Written
    BY <1>1, NodeIs DEF Tag
  <1>3. ASSUME cast.type = t.type PROVE t.col = cast.col
    <2>1. casts # {}
      <3>1. casts = {} => cast = NoCast
        BY CastIs
      <3> HIDE DEF casts, cast
      <3> QED BY <1>2, <1>3, <3>1, NoCastType
    <2>2. /\ Configures(nodes) /\ cast.type \in NamedBy(found, new) \cap UserTypes
          /\ \A m \in ToSet(nodes) : m.type = "bitical_type" => m.text = cast.col
      <3> HIDE DEF casts, cast
      <3> QED BY <2>1, CastIs DEF casts, cast
    <2>3. PICK m \in ToSet(nodes) : m.type = "bitical_type"
      BY <2>2 DEF Configures
    <2> HIDE DEF casts, cast
    <2> QED BY <1>1, <1>2, <1>3, <2>2, <2>3 DEF OneColumn, NamedBy
  <1> HIDE DEF casts, cast
  <1>4. Store!Convert(t, cast) = t
    BY <1>2, <1>3 DEF Store!Convert
  <1> QED
    BY <1>4 DEF cast, casts

LEMMA ConvertNothing ==
    ASSUME NEW t, t.type \in TagTypes
    PROVE  Store!Convert(t, NoCast) = t
  BY NoCastType DEF Store!Convert

\* A cast of a type without labels would change none.
LEMMA CastsAlike ==
    ASSUME userTags \subseteq Row, NEW cast, NEW i, NEW t \in TagsOf(userTags, i)
    PROVE  Store!Convert(t, Counted(cast)) = Store!Convert(t, cast)
  <1>1. AsRow(i, t) \in userTags /\ AsRow(i, t).type = t.type /\ t.type \in TagTypes
    BY RowTags DEF AsRow, Tag
  <1>2. CASE cast.type = t.type
    BY <1>1, <1>2 DEF Counted
  <1>3. CASE cast.type # t.type
    <2>1. Store!Convert(t, cast) = t
      BY <1>3 DEF Store!Convert
    <2>2. Store!Convert(t, NoCast) = t
      BY <1>1, ConvertNothing
    <2> QED
      BY <2>1, <2>2 DEF Counted
  <1> QED
    BY <1>2, <1>3

Tables == [refs |-> itemRefs, tags |-> userTags, files |-> files]

LEMMA TablesAre ==
    Tables.refs = itemRefs /\ Tables.tags = userTags /\ Tables.files = files
  BY DEF Tables

\* A definition is one by its id or by its content.
LEMMA DefinitionIs ==
    ASSUME OneItem, files["file_references"] \subseteq FileIds,
           NEW i, IsTypeItem(itemRefs, i)
    PROVE  Store!IsDefinition(i, ItemOf(Tables, i))
  <1>1. CASE i \in BuiltinIds
    BY <1>1 DEF Store!IsDefinition
  <1>2. CASE i \notin BuiltinIds
    <2>1. PICK t \in ContentsOf(itemRefs, i) : t \in UserTypes
      BY <1>2 DEF IsTypeItem
    <2>2. PICK q \in RefRow : q.id = i /\ q.content = t /\ itemRefs[q] > 0
      BY <2>1 DEF ContentsOf
    <2>3. i \in UserIds /\ i \notin files["file_references"]
      BY <1>2, <2>2, RefRowFields, BlockAssumption
    <2>4. Stored(itemRefs, i)
      BY <2>2 DEF Stored
    <2>5. \A k \in ContentsOf(itemRefs, i) : k = t
      BY <2>1 DEF ContentsOf, OneItem
    <2>6. (CHOOSE k \in ContentsOf(itemRefs, i) : TRUE) = t
      BY <2>1, <2>5
    <2>7. ItemOf(Tables, i) = t
      BY <1>2, <2>3, <2>4, <2>6, TablesAre DEF ItemOf
    <2> QED
      BY <2>1, <2>7 DEF Store!IsDefinition
  <1> QED
    BY <1>1, <1>2

\* The deletions of a command leave the tags that no node replaces.
LEMMA KeptTag ==
    ASSUME OneItem, files["file_references"] \subseteq FileIds,
           userTags \subseteq Row, NEW found, NEW new, NEW nodes, NEW answer,
           TagPlanned(found, new, nodes, answer), NEW settled,
           settled = IF nodes = <<>> THEN {} ELSE found,
           NEW j, j.cascade = {}, j.deletes = DeletesFor(settled, nodes, answer),
           NEW i
    PROVE  TagsOf(Kept(userTags, j), i)
           = IF i \in found
             THEN {h \in TagsOf(userTags, i) : \A t \in Given(nodes, answer) :
                      ~Overrides(t, h, Store!IsDefinition(i, ItemOf(Tables, i)))}
             ELSE TagsOf(userTags, i)
  <1> DEFINE given == Given(nodes, answer)
             definition == Store!IsDefinition(i, ItemOf(Tables, i))
  <1>1. /\ nodes \in Seq(TagNodes) /\ given \subseteq ToSet(nodes)
        /\ nodes = <<>> => given = {}
    <2>1. nodes \in Seq(TagNodes) /\ given \subseteq ToSet(nodes)
      BY GivenIsFinite DEF TagPlanned
    <2>2. nodes = <<>> => ToSet(nodes) = {}
      BY DEF ToSet
    <2> QED BY <2>1, <2>2
  <1>2. ASSUME NEW k \in userTags
        PROVE  k \in Kept(userTags, j) <=>
                  /\ k.item \in settled =>
                        \A t \in given : t.type \in ReplaceTypes => k.type # t.type
                  /\ k.item \in settled /\ IsTypeItem(itemRefs, k.item)
                     /\ (\E t \in given : t.type = "bitical_type")
                     => k.type # "bitical_type"
    <2> DEFINE EachOf(type, x) == [item |-> x, target |-> [type |-> type, col |-> AnyColumn,
                                                           text |-> AnyColumn]]
               A == {EachOf(t.type, x) : x \in settled,
                                         t \in {g \in given : g.type \in ReplaceTypes}}
               owners == {x \in settled : IsTypeItem(itemRefs, x)
                                          /\ \E t \in given : t.type = "bitical_type"}
               B == {EachOf("bitical_type", x) : x \in owners}
    <2>1. j.deletes = A \cup B
      BY DEF DeletesFor
    <2>2. \A x, type : Survives(k, EachOf(type, x)) <=> k.item # x \/ k.type # type
      BY DEF Survives
    <2>3. (\A d \in A : Survives(k, d)) <=>
             (k.item \in settled =>
                 \A t \in given : t.type \in ReplaceTypes => k.type # t.type)
      <3>1. ASSUME \A d \in A : Survives(k, d), k.item \in settled,
                   NEW t \in given, t.type \in ReplaceTypes
            PROVE  k.type # t.type
        <4>1. EachOf(t.type, k.item) \in A
          BY <3>1
        <4> HIDE DEF EachOf, A
        <4> QED BY <2>2, <3>1, <4>1
      <3>2. ASSUME k.item \in settled =>
                      \A t \in given : t.type \in ReplaceTypes => k.type # t.type,
                   NEW d \in A
            PROVE  Survives(k, d)
        <4>1. PICK x \in settled, t \in given : t.type \in ReplaceTypes /\ d = EachOf(t.type, x)
          OBVIOUS
        <4> HIDE DEF EachOf, A
        <4> QED BY <2>2, <3>2, <4>1
      <3> QED BY <3>1, <3>2
    <2>4. (\A d \in B : Survives(k, d)) <=> (k.item \in owners => k.type # "bitical_type")
      <3> HIDE DEF owners, EachOf
      <3> QED BY <2>2
    <2>5. k \in Kept(userTags, j) <=> \A d \in A \cup B : Survives(k, d)
      <3> HIDE DEF A, B
      <3> QED BY <2>1 DEF Kept
    <2> QED
      <3> HIDE DEF A, B
      <3> QED BY <2>3, <2>4, <2>5
  <1>3. CASE i \notin found
    <2>1. \A k \in userTags : k.item = i => k \in Kept(userTags, j)
      BY <1>2, <1>3
    <2>2. Kept(userTags, j) \subseteq userTags
      BY DEF Kept
    <2> QED BY <1>3, <2>1, <2>2 DEF TagsOf
  <1>4. CASE i \in found
    <2>1. (\E t \in given : t.type = "bitical_type") => IsTypeItem(itemRefs, i) /\ definition
      <3> SUFFICES ASSUME NEW t \in given, t.type = "bitical_type"
                   PROVE  IsTypeItem(itemRefs, i) /\ definition
        OBVIOUS
      <3>1. Configures(nodes)
        BY <1>1 DEF Configures
      <3>2. IsTypeItem(itemRefs, i)
        BY <1>4, <3>1 DEF TagPlanned
      <3> QED BY <3>2, DefinitionIs
    <2>2. ASSUME NEW k \in userTags, k.item = i
          PROVE  k \in Kept(userTags, j)
                 <=> \A t \in given : ~Overrides(t, AsTag(k), definition)
      <3>1. \A t : Overrides(t, AsTag(k), definition) <=>
               /\ k.type = t.type
               /\ t.type \in ReplaceTypes \/ (t.type = "bitical_type" /\ definition)
        BY DEF Overrides, AsTag
      <3>2. (i \in settled <=> nodes # <<>>) /\ (nodes = <<>> => given = {})
        BY <1>1, <1>4
      <3> HIDE DEF given, definition
      <3> QED BY <1>2, <2>1, <2>2, <3>1, <3>2
    <2>3. Kept(userTags, j) \subseteq userTags
      BY DEF Kept
    <2> HIDE DEF given, definition
    <2>4. TagsOf(Kept(userTags, j), i)
          = {h \in TagsOf(userTags, i) : \A t \in given : ~Overrides(t, h, definition)}
      <3>1. ASSUME NEW h \in TagsOf(Kept(userTags, j), i)
            PROVE  h \in TagsOf(userTags, i) /\ \A t \in given : ~Overrides(t, h, definition)
        <4>1. PICK k \in Kept(userTags, j) : k.item = i /\ h = AsTag(k)
          BY DEF TagsOf
        <4> QED BY <2>2, <2>3, <4>1 DEF TagsOf
      <3>2. ASSUME NEW h \in TagsOf(userTags, i),
                   \A t \in given : ~Overrides(t, h, definition)
            PROVE  h \in TagsOf(Kept(userTags, j), i)
        <4>1. PICK k \in userTags : k.item = i /\ h = AsTag(k)
          BY DEF TagsOf
        <4> QED BY <2>2, <3>2, <4>1 DEF TagsOf
      <3> QED BY <3>1, <3>2
    <2> QED BY <1>4, <2>4 DEF given, definition
  <1> QED
    BY <1>3, <1>4

\* Ids that are drawn for new contents: no item has them, and no tag names them.
DrawnFor(new, ids, f) ==
    /\ ids \subseteq UserIds /\ f \in [ids -> new] /\ new = {f[i] : i \in ids}
    /\ \A i, k \in ids : f[i] = f[k] => i = k
    /\ \A i \in ids : ~Stored(itemRefs, i)
    /\ \A r \in userTags : r.item \notin ids
    /\ ids \cap Findable = {}

IsTag(t) == t = [type |-> t.type, col |-> t.col, text |-> t.text]

RowsFor(settled, added) == {AsRow(x, t) : x \in settled, t \in added}

\* The tags that a command adds to an item: to one it found, the nodes; to one it
\* makes, the nodes and a name.
LEMMA AddedTags ==
    ASSUME NEW settled, NEW added, \A t \in added : IsTag(t),
           NEW j, j.inserts = RowsFor(settled, added),
           \A t \in j.given : IsTag(t), NEW ids, NEW f, NEW i, i \in settled => i \notin ids
    PROVE  \A h : h \in TagsOf(DrawnTags(j, ids, f), i) <=>
              \/ i \in settled /\ h \in added
              \/ i \in ids /\ (h \in j.given \/ (j.named /\ h = Store!Named(f[i])))
  <1> DEFINE A == RowsFor(settled, added)
             B == {AsRow(x, t) : x \in ids, t \in j.given}
             C == {AsRow(x, InjectedName(f[x])) : x \in {k \in ids : j.named}}
  <1>1. DrawnTags(j, ids, f) = (A \cup B) \cup C
    BY DEF DrawnTags
  <1>2. \A x, t : IsTag(t) => AsTag(AsRow(x, t)) = t /\ AsRow(x, t).item = x
    BY DEF IsTag, AsTag, AsRow
  <1>3. \A h : h \in TagsOf(A, i) <=> i \in settled /\ h \in added
    <2>1. \A h : h \in TagsOf(A, i) => i \in settled /\ h \in added
      BY <1>2 DEF TagsOf, RowsFor
    <2>2. ASSUME NEW h \in added, i \in settled PROVE h \in TagsOf(A, i)
      <3>1. AsRow(i, h) \in A
        BY <2>2 DEF RowsFor
      <3> HIDE DEF A
      <3> QED BY <1>2, <2>2, <3>1 DEF TagsOf
    <2> HIDE DEF A
    <2> QED BY <2>1, <2>2
  <1>4. \A h : h \in TagsOf(B, i) <=> i \in ids /\ h \in j.given
    <2>1. \A h : h \in TagsOf(B, i) => i \in ids /\ h \in j.given
      BY <1>2 DEF TagsOf
    <2>2. ASSUME NEW h \in j.given, i \in ids PROVE h \in TagsOf(B, i)
      <3>1. AsRow(i, h) \in B
        BY <2>2
      <3> HIDE DEF B
      <3> QED BY <1>2, <2>2, <3>1 DEF TagsOf
    <2> HIDE DEF B
    <2> QED BY <2>1, <2>2
  <1>5. \A h : h \in TagsOf(C, i) <=> i \in ids /\ j.named /\ h = Store!Named(f[i])
    <2>1. \A k : InjectedName(k) = Store!Named(k) /\ IsTag(InjectedName(k))
      BY DEF InjectedName, Store!Named, IsTag
    <2>2. \A h : h \in TagsOf(C, i) => i \in ids /\ j.named /\ h = Store!Named(f[i])
      BY <1>2, <2>1 DEF TagsOf
    <2>3. ASSUME i \in ids, j.named PROVE Store!Named(f[i]) \in TagsOf(C, i)
      <3>1. AsRow(i, InjectedName(f[i])) \in C
        BY <2>3
      <3> HIDE DEF C
      <3> QED BY <1>2, <2>1, <3>1 DEF TagsOf
    <2> HIDE DEF C
    <2> QED BY <2>2, <2>3
  <1>6. \A h : h \in TagsOf(DrawnTags(j, ids, f), i)
              <=> h \in TagsOf(A, i) \/ h \in TagsOf(B, i) \/ h \in TagsOf(C, i)
    <2> HIDE DEF A, B, C
    <2> QED BY <1>1 DEF TagsOf
  <1> HIDE DEF A, B, C
  <1> QED BY <1>3, <1>4, <1>5, <1>6

SettledItems(r) == IF r.nodes = <<>> THEN {} ELSE r.items

\* The plan of a request to tag, before ids are drawn.
TagDraft(j, r) ==
    /\ r.kind = "tag" /\ r.items \subseteq Findable
    /\ TagPlanned(r.items, r.new, r.nodes, r.answer)
    /\ r.cast = CastOf(DetectTypeCasts(r.items, r.new, r.nodes))
    /\ j.new = r.new /\ j.given = FoldVolatile(r.nodes) /\ j.named = TRUE
    /\ j.inserts = AddsTo(SettledItems(r), r.nodes, r.answer)
    /\ j.deletes = DeletesFor(SettledItems(r), r.nodes, r.answer)
    /\ j.cascade = {} /\ j.cast = CastFor(r.items, r.new, r.nodes)

\* What a plan to tag saves of the plan that was drawn.
LEMMA DrawnFields ==
    ASSUME NEW j, NEW ids, NEW f, NEW p, p = DrawnPlan(j, ids, f)
    PROVE  /\ p.inserts = DrawnTags(j, ids, f) /\ p.deletes = j.deletes
           /\ p.cascade = j.cascade /\ p.cast = j.cast
           /\ p.refRows = DrawnRows(j, ids, f)
  BY DEF DrawnPlan

\* The nodes and answers of a request to tag.
LEMMA TagNodesOf ==
    ASSUME NEW j, NEW r, TagDraft(j, r)
    PROVE  /\ r.nodes \in Seq(TagNodes) /\ r.answer \in Answers(r.nodes)
           /\ ConfiguresOnce(r.nodes)
           /\ Given(r.nodes, r.answer) \subseteq ToSet(r.nodes)
           /\ FoldVolatile(r.nodes) \subseteq ToSet(r.nodes)
           /\ Store!InOrder({}, r, TRUE, {}) = FoldVolatile(r.nodes)
           /\ \A n \in ToSet(r.nodes) : n \in Tag /\ IsTag(n)
  <1>1. /\ r.nodes \in Seq(TagNodes) /\ r.answer \in Answers(r.nodes)
        /\ ConfiguresOnce(r.nodes) /\ r.kind = "tag"
    BY DEF TagDraft, TagPlanned
  <1>2. Given(r.nodes, r.answer) \subseteq ToSet(r.nodes)
    BY <1>1, GivenIsFinite
  <1>3. /\ FoldVolatile(r.nodes) \subseteq ToSet(r.nodes)
        /\ Store!InOrder({}, r, TRUE, {}) = FoldVolatile(r.nodes)
    BY <1>1, OwnTags
  <1>4. \A n \in ToSet(r.nodes) : n \in Tag /\ IsTag(n)
    BY <1>1, NodeIs DEF IsTag
  <1> QED
    BY <1>1, <1>2, <1>3, <1>4

\* What a command that tags has done to the tags of an item, once it has saved
\* them, is what TagStore says of it.
LEMMA TagOutcome ==
    ASSUME OneItem, files["file_references"] \subseteq FileIds,
           Sound(itemRefs, userTags), NEW j, NEW r, TagDraft(j, r),
           NEW ids, NEW f, DrawnFor(r.new, ids, f),
           NEW p, p = DrawnPlan(j, ids, f), NEW i
    PROVE  TagsOf(UserTagsWrite(userTags, p), i) = TagsAfter(Tables, i, r, f)
  <1> DEFINE given == Given(r.nodes, r.answer)
             settled == SettledItems(r)
             definition == Store!IsDefinition(i, ItemOf(Tables, i))
             stay == {h \in TagsOf(userTags, i) : \A t \in given : ~Overrides(t, h, definition)}
             Moved(S) == {Store!Convert(t, r.cast) : t \in S}
  <1>1. userTags \subseteq Row
    BY DEF Sound
  <1>2. TagPlanned(r.items, r.new, r.nodes, r.answer) /\ r.kind = "tag"
    BY DEF TagDraft
  <1>3. /\ given \subseteq ToSet(r.nodes) /\ FoldVolatile(r.nodes) \subseteq ToSet(r.nodes)
        /\ \A n \in ToSet(r.nodes) : IsTag(n)
    BY TagNodesOf
  <1>4. TagsOf(UserTagsWrite(userTags, p), i)
        = {Store!Convert(t, j.cast) : t \in TagsOf(Kept(userTags, p), i)}
          \cup TagsOf(DrawnTags(j, ids, f), i)
    BY <1>1, SavedTagsOf, DrawnFields
  <1>5. TagsOf(Kept(userTags, p), i)
        = IF i \in r.items THEN stay ELSE TagsOf(userTags, i)
    <2>1. p.cascade = {} /\ p.deletes = DeletesFor(settled, r.nodes, r.answer)
      BY DrawnFields DEF TagDraft
    <2>2. settled = IF r.nodes = <<>> THEN {} ELSE r.items
      BY DEF SettledItems
    <2> HIDE DEF settled
    <2> QED BY <1>1, <1>2, <2>1, <2>2, KeptTag
  <1>6. {Store!Convert(t, j.cast) : t \in TagsOf(Kept(userTags, p), i)}
        = Moved(TagsOf(Kept(userTags, p), i))
    <2>1. TagsOf(Kept(userTags, p), i) \subseteq TagsOf(userTags, i)
      BY <1>5
    <2>2. \A t \in TagsOf(userTags, i) : Store!Convert(t, j.cast) = Store!Convert(t, r.cast)
      BY <1>1, CastsAlike DEF TagDraft, CastFor
    <2> QED BY <2>1, <2>2
  <1>7. TagsOf(DrawnTags(j, ids, f), i)
        = IF i \in settled THEN given
          ELSE IF i \in ids THEN FoldVolatile(r.nodes) \cup {Store!Named(f[i])}
          ELSE {}
    <2>1. /\ j.inserts = RowsFor(settled, given)
          /\ j.given = FoldVolatile(r.nodes) /\ j.named
      BY DEF TagDraft, AddsTo, RowsFor
    <2>2. i \in settled => i \notin ids
      BY DEF TagDraft, DrawnFor, SettledItems
    <2>3. (\A t \in given : IsTag(t)) /\ (\A t \in j.given : IsTag(t))
      BY <1>3, <2>1
    <2> HIDE DEF settled, given
    <2>4. \A h : h \in TagsOf(DrawnTags(j, ids, f), i) <=>
             \/ i \in settled /\ h \in given
             \/ i \in ids /\ (h \in j.given \/ (j.named /\ h = Store!Named(f[i])))
      BY <2>1, <2>2, <2>3, AddedTags
    <2> QED BY <2>1, <2>2, <2>4
  <1>8. /\ \A t \in ToSet(r.nodes) : Store!Convert(t, r.cast) = t
        /\ \A k : Store!Convert(Store!Named(k), r.cast) = Store!Named(k)
    <2>1. \A t \in ToSet(r.nodes) : Store!Convert(t, r.cast) = t
      BY <1>2, NodesFit DEF TagDraft
    <2>2. r.cast = NoCast \/ r.cast.type \in UserTypes
      BY <1>2, CastIs DEF TagDraft
    <2>3. \A k : Store!Named(k).type = "name" /\ "name" \notin UserTypes /\ "name" # NoCast.type
      BY TypesAssumption DEF Store!Named, NoCast
    <2>4. \A k : Store!Convert(Store!Named(k), r.cast) = Store!Named(k)
      BY <2>2, <2>3 DEF Store!Convert
    <2> QED BY <2>1, <2>4
  <1>9. TagsAfter(Tables, i, r, f)
        = Moved((IF i \notin r.items THEN TagsOf(userTags, i)
                 ELSE Store!Settled(TagsOf(userTags, i), r, definition))
                \cup (IF i \notin ids THEN {}
                      ELSE FoldVolatile(r.nodes) \cup {Store!Named(f[i])}))
    <2>1. DOMAIN f = ids
      BY DEF DrawnFor
    <2> QED BY <1>2, <2>1, TablesAre, TagNodesOf DEF TagsAfter
  <1>10. Store!Settled(TagsOf(userTags, i), r, definition) = stay \cup given
    <2>1. /\ r.nodes \in Seq(TagNodes) /\ r.answer \in Answers(r.nodes)
          /\ ConfiguresOnce(r.nodes) /\ r.kind = "tag"
      BY <1>2, TagNodesOf
    <2> DEFINE had == TagsOf(userTags, i)
    <2>2. Store!Settled(had, r, definition)
          = {h \in had : \A t \in Given(r.nodes, r.answer) : ~Overrides(t, h, definition)}
            \cup Given(r.nodes, r.answer)
      <3> HIDE DEF definition, had
      <3> QED BY <2>1, SettledIs
    <2> QED BY <2>2
  <1>11. CASE i \in r.items
    <2>1. i \notin ids
      BY <1>11 DEF TagDraft, DrawnFor
    <2>2. i \in settled \/ given = {}
      <3>1. r.nodes = <<>> => ToSet(r.nodes) = {}
        BY DEF ToSet
      <3> QED BY <1>3, <1>11, <3>1 DEF SettledItems
    <2> HIDE DEF settled, given, stay, definition
    <2>3. TagsOf(UserTagsWrite(userTags, p), i) = Moved(stay) \cup given
      BY <1>4, <1>5, <1>6, <1>7, <1>11, <2>1, <2>2
    <2>4. TagsAfter(Tables, i, r, f) = Moved(stay \cup given)
      BY <1>9, <1>10, <1>11, <2>1
    <2>5. Moved(given) = given
      BY <1>3, <1>8
    <2> QED BY <2>3, <2>4, <2>5
  <1>12. CASE i \in ids
    <2>1. i \notin r.items /\ i \notin settled
      BY <1>12 DEF TagDraft, DrawnFor, SettledItems
    <2>2. TagsOf(userTags, i) = {}
      BY <1>12 DEF DrawnFor, TagsOf
    <2> DEFINE own == FoldVolatile(r.nodes) \cup {Store!Named(f[i])}
    <2>3. \A t \in own : Store!Convert(t, r.cast) = t
      BY <1>3, <1>8
    <2> HIDE DEF settled, given, stay, definition
    <2>4. TagsOf(UserTagsWrite(userTags, p), i) = Moved({}) \cup own
      BY <1>4, <1>5, <1>6, <1>7, <1>12, <2>1, <2>2
    <2>5. TagsAfter(Tables, i, r, f) = Moved({} \cup own)
      BY <1>9, <1>12, <2>1, <2>2
    <2> HIDE DEF own
    <2> QED BY <2>3, <2>4, <2>5
  <1>13. CASE i \notin r.items /\ i \notin ids
    <2>1. i \notin settled
      BY <1>13 DEF SettledItems
    <2> HIDE DEF settled, given, stay, definition
    <2> QED BY <1>4, <1>5, <1>6, <1>7, <1>9, <1>13, <2>1
  <1> QED BY <1>11, <1>12, <1>13

\* After a command that tags, the labels of a configured type are in its column.
LEMMA TagSound ==
    ASSUME ConfigsAlone, OneItem, OneDefinition, itemRefs \in [RefRow -> Nat],
           files["file_references"] \subseteq FileIds,
           Sound(itemRefs, userTags), NEW j, NEW r, TagDraft(j, r),
           NEW ids, NEW f, DrawnFor(r.new, ids, f),
           NEW p, p = DrawnPlan(j, ids, f), NEW refs, FreshRefs(refs, ids, r.new)
    PROVE  Sound(refs, UserTagsWrite(userTags, p))
  <1> DEFINE given == Given(r.nodes, r.answer)
             settled == SettledItems(r)
             cast == CastFor(r.items, r.new, r.nodes)
  <1>1. TagPlanned(r.items, r.new, r.nodes, r.answer)
    BY DEF TagDraft
  <1>2. /\ userTags \subseteq Row /\ p.cast = cast /\ p.cascade = {}
        /\ p.deletes = DeletesFor(settled, r.nodes, r.answer)
        /\ p.inserts = DrawnTags(j, ids, f)
    BY DrawnFields DEF TagDraft, Sound
  <1>3. ASSUME NEW k \in Kept(userTags, p), Configures(r.nodes), k.item \in r.items
        PROVE  k.type # "bitical_type"
    <2>1. PICK n \in ToSet(r.nodes) : n.type = "bitical_type"
      BY <1>3 DEF Configures
    <2>2. n \in given
      <3>1. Clashing(r.nodes) = {}
        BY <1>1, <1>3 DEF ConfigsAlone, TagPlanned
      <3>2. r.answer = NoAnswer
        BY <1>1, <3>1 DEF TagPlanned, Answers
      <3> QED BY <3>1, <3>2 DEF Given, NoAnswer
    <2> DEFINE definition == Store!IsDefinition(k.item, ItemOf(Tables, k.item))
    <2>3. definition
      <3>1. IsTypeItem(itemRefs, k.item)
        BY <1>1, <1>3 DEF TagPlanned
      <3> QED BY <3>1, DefinitionIs
    <2>4. \A h \in TagsOf(Kept(userTags, p), k.item) :
             \A t \in given : ~Overrides(t, h, definition)
      <3>1. settled = IF r.nodes = <<>> THEN {} ELSE r.items
        BY DEF SettledItems
      <3>2. ASSUME NEW i
            PROVE  TagsOf(Kept(userTags, p), i)
                   = IF i \in r.items
                     THEN {h \in TagsOf(userTags, i) : \A t \in Given(r.nodes, r.answer) :
                              ~Overrides(t, h, Store!IsDefinition(i, ItemOf(Tables, i)))}
                     ELSE TagsOf(userTags, i)
        <4> HIDE DEF settled
        <4> QED BY <1>1, <1>2, <3>1, KeptTag
      <3> QED BY <1>3, <3>2
    <2>5. AsTag(k) \in TagsOf(Kept(userTags, p), k.item) /\ AsTag(k).type = k.type
      BY DEF TagsOf, AsTag
    <2>6. ~Overrides(n, AsTag(k), definition)
      <3> HIDE DEF given, definition
      <3> QED BY <2>2, <2>4, <2>5
    <2> HIDE DEF given, definition
    <2> QED BY <2>1, <2>3, <2>5, <2>6 DEF Overrides
  <1>4. ASSUME NEW x \in UserTagsWrite(userTags, p)
        PROVE  \/ OldRow(x, r.items, r.nodes, cast)
               \/ NewRow(x, r.items \cup ids, r.nodes)
               \/ NameRow(x, ids)
    <2>1. CASE \E k \in Kept(userTags, p) : x = CastRow(k, cast)
      <3>1. PICK k \in Kept(userTags, p) : x = CastRow(k, cast)
        BY <2>1
      <3>2. k \in userTags
        BY DEF Kept
      <3> HIDE DEF cast
      <3> QED BY <1>3, <3>1, <3>2 DEF OldRow
    <2>2. CASE x \in DrawnTags(j, ids, f)
      <3>1. /\ j.inserts = AddsTo(settled, r.nodes, r.answer)
            /\ j.given = FoldVolatile(r.nodes) /\ settled \subseteq r.items
        BY DEF TagDraft, SettledItems
      <3>2. given \subseteq ToSet(r.nodes) /\ FoldVolatile(r.nodes) \subseteq ToSet(r.nodes)
        BY TagNodesOf
      <3>3. f \in [ids -> r.new] /\ r.new \subseteq Contents
        BY <1>1 DEF DrawnFor, TagPlanned, Contents, DefinedTypes
      <3>4. CASE x \in j.inserts
        <4>1. PICK i \in settled, t \in given : x = AsRow(i, t)
          BY <3>1, <3>4 DEF AddsTo
        <4> HIDE DEF settled, given
        <4> QED BY <3>1, <3>2, <4>1 DEF NewRow
      <3>5. CASE \E i \in ids, t \in j.given : x = AsRow(i, t)
        BY <3>1, <3>2, <3>5 DEF NewRow
      <3>6. CASE \E i \in ids : x = AsRow(i, InjectedName(f[i]))
        BY <3>3, <3>6 DEF NameRow
      <3> QED BY <2>2, <3>4, <3>5, <3>6 DEF DrawnTags
    <2> HIDE DEF cast
    <2> QED BY <1>2, <2>1, <2>2 DEF UserTagsWrite
  <1> QED
    <2> HIDE DEF cast
    <2> QED BY <1>1, <1>4, SoundTag DEF cast

\* An item that has one content is that.
LEMMA ItemStored ==
    ASSUME NEW seen, NEW i, i \notin BuiltinIds, i \notin seen.files["file_references"],
           NEW k \in ContentsOf(seen.refs, i), \A m \in ContentsOf(seen.refs, i) : m = k
    PROVE  ItemOf(seen, i) = k
  <1>1. Stored(seen.refs, i)
    BY DEF ContentsOf, Stored
  <1>2. (CHOOSE m \in ContentsOf(seen.refs, i) : TRUE) = k
    OBVIOUS
  <1> QED
    BY <1>1, <1>2 DEF ItemOf

LEMMA ItemNone ==
    ASSUME NEW seen, NEW i, i \notin BuiltinIds, i \notin seen.files["file_references"],
           ContentsOf(seen.refs, i) = {}
    PROVE  ItemOf(seen, i) = NoContent
  <1>1. ~Stored(seen.refs, i)
    BY DEF ContentsOf, Stored
  <1> QED
    BY <1>1 DEF ItemOf

LEMMA OneContent ==
    ASSUME OneItem, NEW i, NEW k \in ContentsOf(itemRefs, i), NEW m \in ContentsOf(itemRefs, i)
    PROVE  k = m
  BY DEF ContentsOf, OneItem

-----------------------------------------------------------------------------
(* Items.                                                                  *)

\* Store!ItemsDone, of the tables that a command found.
ItemAfter(was, i, r, fresh) ==
    IF i \in DOMAIN fresh THEN fresh[i]
    ELSE IF r.kind = "forget" /\ i \in r.items \ BuiltinIds THEN NoContent
    ELSE ItemOf(was, i)

\* The plan of any request deletes what it forgets, and nothing else.
Cascades(j, r) ==
    /\ r.items \subseteq Findable /\ j.new = r.new
    /\ j.cascade = IF r.kind = "forget" THEN r.items ELSE {}

\* What is saved of the rows of an id: those of a new item, or those there were.
LEMMA SavedContents ==
    ASSUME itemRefs \in [RefRow -> Nat], NEW j, NEW r, Cascades(j, r),
           NEW ids, NEW f, DrawnFor(r.new, ids, f), RowsAreDrawn(j, ids, f),
           NEW p, p = DrawnPlan(j, ids, f), NEW refs, refs = ItemReferencesWrite(itemRefs, p)
    PROVE  /\ \A i \in ids : f[i] \in ContentsOf(refs, i)
                             /\ \A k \in ContentsOf(refs, i) : k = f[i]
           /\ \A i : i \notin ids /\ i \notin BuiltinIds =>
                ContentsOf(refs, i) = IF i \in j.cascade \ FileIds THEN {}
                                      ELSE ContentsOf(itemRefs, i)
           /\ \A b \in BuiltinIds : ContentsOf(refs, b) \cap UserTypes = {}
  <1> DEFINE rows == DrawnRows(j, ids, f)
             gone == j.cascade \ FileIds
  <1>1. /\ rows \in [RefRow -> Nat]
        /\ \A q \in RefRow : rows[q] > 0 =>
              \/ q.id \in ids /\ q.content = f[q.id]
              \/ q.id \in BuiltinIds /\ q.id \notin UserIds
        /\ \A i \in ids : \E q \in RefRow : q.id = i /\ rows[q] > 0
    BY DEF RowsAreDrawn
  <1> HIDE DEF rows, gone
  <1>2. \A q \in RefRow : refs[q] = (IF q.id \in gone THEN 0 ELSE itemRefs[q]) + rows[q]
    BY DrawnFields DEF ItemReferencesWrite, rows, gone
  <1>3. \A q \in RefRow : refs[q] > 0 <=>
           (q.id \notin gone /\ itemRefs[q] > 0) \/ rows[q] > 0
    <2> SUFFICES ASSUME NEW q \in RefRow
                 PROVE  refs[q] > 0 <=> (q.id \notin gone /\ itemRefs[q] > 0) \/ rows[q] > 0
      OBVIOUS
    <2>1. itemRefs[q] \in Nat /\ rows[q] \in Nat
      BY <1>1
    <2>2. refs[q] = (IF q.id \in gone THEN 0 ELSE itemRefs[q]) + rows[q]
      BY <1>2
    <2>3. CASE q.id \in gone
      BY <2>1, <2>2, <2>3
    <2>4. CASE q.id \notin gone
      BY <2>1, <2>2, <2>4
    <2> QED BY <2>3, <2>4
  <1>4. ids \subseteq UserIds /\ UserIds \cap BuiltinIds = {}
    BY BlockAssumption DEF DrawnFor
  <1>5. ASSUME NEW i \in ids
        PROVE  f[i] \in ContentsOf(refs, i) /\ \A k \in ContentsOf(refs, i) : k = f[i]
    <2>1. PICK q \in RefRow : q.id = i /\ rows[q] > 0
      BY <1>1
    <2>2. q.content = f[i]
      BY <1>1, <1>4, <2>1
    <2>3. f[i] \in ContentsOf(refs, i)
      BY <1>3, <2>1, <2>2 DEF ContentsOf
    <2>4. ASSUME NEW k \in ContentsOf(refs, i) PROVE k = f[i]
      <3>1. PICK s \in RefRow : s.id = i /\ s.content = k /\ refs[s] > 0
        BY DEF ContentsOf
      <3>2. ~(itemRefs[s] > 0)
        BY <3>1 DEF DrawnFor, Stored
      <3> QED BY <1>1, <1>3, <1>4, <3>1, <3>2
    <2> QED BY <2>3, <2>4
  <1>6. ASSUME NEW i, i \notin ids, i \notin BuiltinIds
        PROVE  ContentsOf(refs, i) = IF i \in gone THEN {} ELSE ContentsOf(itemRefs, i)
    <2>1. \A q \in RefRow : q.id = i => (refs[q] > 0 <=> i \notin gone /\ itemRefs[q] > 0)
      BY <1>1, <1>3, <1>6
    <2> QED BY <2>1 DEF ContentsOf
  <1>7. \A b \in BuiltinIds : ContentsOf(refs, b) \cap UserTypes = {}
    BY RefRowFields DEF ContentsOf
  <1> QED BY <1>5, <1>6, <1>7 DEF gone

LEMMA SavedFresh ==
    ASSUME itemRefs \in [RefRow -> Nat], NEW j, NEW r, Cascades(j, r),
           NEW ids, NEW f, DrawnFor(r.new, ids, f), RowsAreDrawn(j, ids, f),
           NEW p, p = DrawnPlan(j, ids, f), NEW refs, refs = ItemReferencesWrite(itemRefs, p)
    PROVE  FreshRefs(refs, ids, r.new)
  <1>1. /\ \A i \in ids : \A k \in ContentsOf(refs, i) : k = f[i]
        /\ \A i : i \notin ids /\ i \notin BuiltinIds =>
             ContentsOf(refs, i) = IF i \in j.cascade \ FileIds THEN {}
                                   ELSE ContentsOf(itemRefs, i)
        /\ \A b \in BuiltinIds : ContentsOf(refs, b) \cap UserTypes = {}
    BY SavedContents
  <1>2. /\ ids \subseteq UserIds /\ f \in [ids -> r.new]
        /\ \A x \in userTags : x.item \notin ids
    BY DEF DrawnFor
  <1>3. \A i \in ids : ContentsOf(refs, i) \subseteq r.new
    BY <1>1, <1>2
  <1>4. \A i \in Ids \ ids : ContentsOf(refs, i) \cap UserTypes \subseteq ContentsOf(itemRefs, i)
    BY <1>1
  <1> QED BY <1>2, <1>3, <1>4 DEF FreshRefs

\* What a command has done to an item, once its tables are saved, is what TagStore
\* says of it.
LEMMA ItemOutcome ==
    ASSUME OneItem, itemRefs \in [RefRow -> Nat], files["file_references"] \subseteq FileIds,
           NEW j, NEW r, Cascades(j, r),
           NEW ids, NEW f, DrawnFor(r.new, ids, f), RowsAreDrawn(j, ids, f),
           NEW p, p = DrawnPlan(j, ids, f), NEW seen,
           seen.refs = ItemReferencesWrite(itemRefs, p),
           seen.files["file_references"] = files["file_references"] \ p.cascade,
           NEW i \in Ids
    PROVE  ItemOf(seen, i) = ItemAfter(Tables, i, r, f)
  <1>1. /\ i \in ids => f[i] \in ContentsOf(seen.refs, i)
                        /\ \A k \in ContentsOf(seen.refs, i) : k = f[i]
        /\ i \notin ids /\ i \notin BuiltinIds =>
             ContentsOf(seen.refs, i) = IF i \in j.cascade \ FileIds THEN {}
                                        ELSE ContentsOf(itemRefs, i)
    BY SavedContents
  <1>2. /\ ids \subseteq UserIds /\ DOMAIN f = ids /\ ids \cap Findable = {}
    BY DEF DrawnFor
  <1>3. seen.files["file_references"] = files["file_references"] \ j.cascade
    BY DrawnFields
  <1>4. /\ UserIds \cap FileIds = {} /\ UserIds \cap BuiltinIds = {}
        /\ FileIds \cap BuiltinIds = {}
    BY BlockAssumption
  <1>5. CASE i \in BuiltinIds
    BY <1>2, <1>4, <1>5 DEF ItemAfter, ItemOf
  <1>6. CASE i \in ids
    <2>1. i \notin BuiltinIds /\ i \notin seen.files["file_references"]
      BY <1>2, <1>3, <1>4, <1>6
    <2>2. ItemOf(seen, i) = f[i]
      BY <1>1, <1>6, <2>1, ItemStored
    <2> QED BY <1>2, <1>6, <2>2 DEF ItemAfter
  <1>7. CASE i \notin BuiltinIds /\ i \notin ids /\ i \in files["file_references"]
    <2>1. i \in FileIds /\ ItemOf(Tables, i) = FileContent
      BY <1>7, TablesAre DEF ItemOf
    <2>2. CASE i \in j.cascade
      <3>1. ContentsOf(seen.refs, i) = {}
        BY <1>4, <2>1, RefRowFields DEF ContentsOf
      <3>2. ItemOf(seen, i) = NoContent
        BY <1>3, <1>7, <2>2, <3>1, ItemNone
      <3> QED BY <1>2, <1>7, <2>2, <3>2 DEF ItemAfter, Cascades
    <2>3. CASE i \notin j.cascade
      <3>1. ItemOf(seen, i) = FileContent
        BY <1>3, <1>7, <2>3 DEF ItemOf
      <3> QED BY <1>2, <1>7, <2>1, <2>3, <3>1 DEF ItemAfter, Cascades
    <2> QED BY <2>2, <2>3
  <1>8. CASE i \notin BuiltinIds /\ i \notin ids /\ i \notin files["file_references"]
    <2>1. i \notin seen.files["file_references"] /\ i \notin Tables.files["file_references"]
      BY <1>3, <1>8, TablesAre
    <2>2. CASE i \in j.cascade
      <3>1. ContentsOf(seen.refs, i) = {}
        BY <1>1, <1>4, <1>8, <2>2, RefRowFields DEF ContentsOf
      <3>2. ItemOf(seen, i) = NoContent
        BY <1>8, <2>1, <3>1, ItemNone
      <3> QED BY <1>2, <1>8, <2>2, <3>2 DEF ItemAfter, Cascades
    <2>3. CASE i \notin j.cascade
      <3>1. ContentsOf(seen.refs, i) = ContentsOf(Tables.refs, i)
        BY <1>1, <1>8, <2>3, TablesAre
      <3>2. ItemOf(seen, i) = ItemOf(Tables, i)
        <4>1. CASE ContentsOf(Tables.refs, i) = {}
          BY <1>8, <2>1, <3>1, <4>1, ItemNone
        <4>2. ASSUME NEW k \in ContentsOf(Tables.refs, i)
              PROVE  ItemOf(seen, i) = ItemOf(Tables, i)
          <5>1. \A m \in ContentsOf(Tables.refs, i) : m = k
            BY TablesAre, OneContent
          <5>2. ItemOf(seen, i) = k
            BY <1>8, <2>1, <3>1, <5>1, ItemStored
          <5>3. ItemOf(Tables, i) = k
            BY <1>8, <2>1, <5>1, ItemStored
          <5> QED BY <5>2, <5>3
        <4> QED BY <4>1, <4>2
      <3> QED BY <1>2, <1>8, <2>3, <3>2 DEF ItemAfter, Cascades
    <2> QED BY <2>2, <2>3
  <1> QED BY <1>5, <1>6, <1>7, <1>8

-----------------------------------------------------------------------------
(* The commands that give no tags.                                         *)

UntagDraft(j, r) ==
    /\ r.kind = "untag" /\ r.nodes \in Seq(UntagNodes) /\ r.new \subseteq UserTypes
    /\ j.named = TRUE /\ j.deletes = Removals(r.items, r.nodes)

ForgetDraft(j, r) ==
    r.kind = "forget" /\ r.new = {} /\ j.named = FALSE /\ j.deletes = {}

NoteDraft(j, r) ==
    /\ r.kind = "note" /\ r.items = {} /\ r.new \subseteq Notes
    /\ j.named = FALSE /\ j.deletes = {}

\* The plan of a request that gives no tags, before ids are drawn.
PlainDraft(j, r) ==
    /\ UntagDraft(j, r) \/ ForgetDraft(j, r) \/ NoteDraft(j, r)
    /\ j.given = {} /\ j.inserts = {} /\ j.cast = NoCast /\ r.cast = NoCast

LEMMA UntagNodeIs ==
    ASSUME NEW nodes \in Seq(UntagNodes), NEW n \in ToSet(nodes)
    PROVE  /\ IsTag(n)
           /\ n.col # AnyColumn => n.type \in UserTypes /\ n.col \in Columns
  <1>1. n \in UntagNodes
    BY NodesAreFinite
  <1> QED
    BY <1>1 DEF UntagNodes, Written, AnyOf, AnyColumn, IsTag

\* An untag takes the tags that its nodes name from the items it found.
LEMMA UntaggedTag ==
    ASSUME Sound(itemRefs, userTags), NEW nodes \in Seq(UntagNodes), NEW found,
           NEW j, j.cascade = {}, j.deletes = Removals(found, nodes), NEW i
    PROVE  \A h : h \in TagsOf(Kept(userTags, j), i) <=>
              /\ h \in TagsOf(userTags, i)
              /\ i \in found => \A n \in ToSet(nodes) :
                    IF n.col = "any" THEN h.type # n.type ELSE h # n
  <1> DEFINE Stays(k) == \A n \in ToSet(nodes) :
                            IF n.col = "any" THEN k.type # n.type ELSE AsTag(k) # n
             To(x, n) == [item |-> x, target |-> n]
  <1>1. \A n \in ToSet(nodes) :
           /\ IsTag(n)
           /\ n.col # "any" => n.type \in UserTypes
    BY UntagNodeIs DEF AnyColumn
  <1>2. \A d : d \in j.deletes <=>
           \E x \in found, n \in ToSet(nodes) :
              /\ d = To(x, n) /\ (n.col = "any" \/ AsRow(x, n) \in userTags)
    <2>1. \A d : d \in j.deletes <=>
             /\ d \in [item : found, target : ToSet(nodes)]
             /\ d.target.col = "any" \/ AsRow(d.item, d.target) \in userTags
      BY DEF Removals, AnyColumn
    <2>2. \A d : d \in [item : found, target : ToSet(nodes)] <=>
             \E x \in found, n \in ToSet(nodes) : d = To(x, n)
      OBVIOUS
    <2>3. \A x, n : To(x, n).item = x /\ To(x, n).target = n
      OBVIOUS
    <2> HIDE DEF To
    <2> QED BY <2>1, <2>2, <2>3
  <1>3. \A k, x, n : Survives(k, To(x, n)) <=>
           \/ k.item # x \/ k.type # n.type
           \/ n.col # "any" /\ k.col = n.col /\ k.text # n.text
    BY DEF Survives, AnyColumn
  <1>4. ASSUME NEW k \in userTags
        PROVE  k \in Kept(userTags, j) <=> (k.item \in found => Stays(k))
    <2>1. /\ AsTag(k) = [type |-> k.type, col |-> k.col, text |-> k.text]
          /\ AsTag(k).type = k.type /\ AsTag(k).col = k.col /\ AsTag(k).text = k.text
          /\ AsRow(k.item, AsTag(k)) = k
      BY DEF AsTag, AsRow, Sound, Row
    <2>2. k \in Kept(userTags, j) <=> \A d \in j.deletes : Survives(k, d)
      BY DEF Kept
    <2>3. ASSUME \A d \in j.deletes : Survives(k, d), k.item \in found,
                 NEW n \in ToSet(nodes)
          PROVE  IF n.col = "any" THEN k.type # n.type ELSE AsTag(k) # n
      <3>1. n.col = "any" \/ AsTag(k) = n => To(k.item, n) \in j.deletes
        BY <1>2, <2>1, <2>3
      <3>2. To(k.item, n) \in j.deletes =>
               k.type # n.type \/ (n.col # "any" /\ k.text # n.text)
        BY <1>3, <2>3
      <3> QED BY <2>1, <3>1, <3>2
    <2>4. ASSUME k.item \in found => Stays(k), NEW d \in j.deletes
          PROVE  Survives(k, d)
      <3>1. PICK x \in found, n \in ToSet(nodes) :
               d = To(x, n) /\ (n.col = "any" \/ AsRow(x, n) \in userTags)
        BY <1>2
      <3>2. ASSUME k.item = x, k.type = n.type
            PROVE  n.col # "any" /\ k.col = n.col /\ k.text # n.text
        <4>1. n.col # "any" /\ AsTag(k) # n
          BY <2>4, <3>2
        <4>2. AsRow(x, n) \in userTags /\ n.type \in UserTypes /\ IsTag(n)
          BY <1>1, <3>1, <4>1
        <4>3. AsRow(x, n).type = n.type /\ AsRow(x, n).col = n.col
          BY DEF AsRow
        <4>4. k.col = n.col
          BY <3>2, <4>2, <4>3 DEF Sound, Uniform
        <4>5. k.text # n.text
          BY <2>1, <3>2, <4>1, <4>2, <4>4 DEF IsTag
        <4> QED BY <4>1, <4>4, <4>5
      <3> QED BY <1>3, <3>1, <3>2
    <2> QED BY <2>2, <2>3, <2>4
  <1>5. Kept(userTags, j) \subseteq userTags
    BY DEF Kept
  <1>6. \A h, k : h = AsTag(k) => (Stays(k) <=> \A n \in ToSet(nodes) :
                    IF n.col = "any" THEN h.type # n.type ELSE h # n)
    BY DEF AsTag
  <1>7. ASSUME NEW h \in TagsOf(Kept(userTags, j), i)
        PROVE  /\ h \in TagsOf(userTags, i)
               /\ i \in found => \A n \in ToSet(nodes) :
                     IF n.col = "any" THEN h.type # n.type ELSE h # n
    <2>1. PICK k \in Kept(userTags, j) : k.item = i /\ h = AsTag(k)
      BY DEF TagsOf
    <2>2. k \in userTags /\ (i \in found => Stays(k))
      BY <1>4, <1>5, <2>1
    <2> HIDE DEF Stays
    <2> QED BY <1>6, <2>1, <2>2 DEF TagsOf
  <1>8. ASSUME NEW h \in TagsOf(userTags, i),
               i \in found => \A n \in ToSet(nodes) :
                  IF n.col = "any" THEN h.type # n.type ELSE h # n
        PROVE  h \in TagsOf(Kept(userTags, j), i)
    <2>1. PICK k \in userTags : k.item = i /\ h = AsTag(k)
      BY DEF TagsOf
    <2>2. i \in found => Stays(k)
      BY <1>6, <1>8, <2>1
    <2> HIDE DEF Stays
    <2> QED BY <1>4, <2>1, <2>2 DEF TagsOf
  <1> QED BY <1>7, <1>8

\* What a command that gives no tags keeps of the tags of an item is what TagStore
\* says of it.
LEMMA PlainKept ==
    ASSUME Sound(itemRefs, userTags), NEW j, NEW r, PlainDraft(j, r), Cascades(j, r),
           NEW p, p.deletes = j.deletes, p.cascade = j.cascade, NEW i, NEW definition
    PROVE  TagsOf(Kept(userTags, p), i)
           = IF i \notin r.items THEN TagsOf(userTags, i)
             ELSE IF r.kind = "forget" THEN {}
             ELSE Store!Settled(TagsOf(userTags, i), r, definition)
  <1>1. CASE UntagDraft(j, r)
    <2>1. /\ r.kind = "untag" /\ r.nodes \in Seq(UntagNodes)
          /\ p.deletes = Removals(r.items, r.nodes) /\ p.cascade = {}
      BY <1>1 DEF UntagDraft, Cascades
    <2> DEFINE had == TagsOf(userTags, i)
    <2>2. \A h : h \in TagsOf(Kept(userTags, p), i) <=>
             /\ h \in had
             /\ i \in r.items => \A n \in ToSet(r.nodes) :
                   IF n.col = "any" THEN h.type # n.type ELSE h # n
      BY <2>1, UntaggedTag
    <2>3. Store!Settled(had, r, definition)
          = {h \in had : \A n \in ToSet(r.nodes) :
                IF n.col = "any" THEN h.type # n.type ELSE h # n}
      <3> HIDE DEF had
      <3> QED BY <2>1, UntaggedIs
    <2> HIDE DEF had
    <2>4. CASE i \in r.items
      BY <2>1, <2>2, <2>3, <2>4 DEF had
    <2>5. CASE i \notin r.items
      BY <2>2, <2>5 DEF had
    <2> QED BY <2>4, <2>5
  <1>2. CASE ForgetDraft(j, r) \/ NoteDraft(j, r)
    <2>1. p.deletes = {} /\ p.cascade = r.items
          /\ (r.kind = "forget" \/ r.items = {})
      BY <1>2 DEF ForgetDraft, NoteDraft, Cascades
    <2>2. \A k : k \in Kept(userTags, p) <=> k \in userTags /\ k.item \notin r.items
      BY <2>1 DEF Kept
    <2>3. CASE i \in r.items
      BY <2>1, <2>2, <2>3 DEF TagsOf
    <2>4. CASE i \notin r.items
      BY <2>2, <2>4 DEF TagsOf
    <2> QED BY <2>1, <2>3, <2>4
  <1> QED BY <1>1, <1>2 DEF PlainDraft

LEMMA PlainOutcome ==
    ASSUME Sound(itemRefs, userTags), NEW j, NEW r, PlainDraft(j, r), Cascades(j, r),
           NEW ids, NEW f, DrawnFor(r.new, ids, f),
           NEW p, p = DrawnPlan(j, ids, f), NEW i
    PROVE  TagsOf(UserTagsWrite(userTags, p), i) = TagsAfter(Tables, i, r, f)
  <1> DEFINE definition == Store!IsDefinition(i, ItemOf(Tables, i))
             kept == TagsOf(Kept(userTags, p), i)
             added == IF i \in ids /\ r.kind # "note" THEN {Store!Named(f[i])} ELSE {}
  <1>1. /\ userTags \subseteq Row /\ r.cast = NoCast /\ p.cast = NoCast
        /\ p.deletes = j.deletes /\ p.cascade = j.cascade
        /\ p.inserts = DrawnTags(j, ids, f)
    BY DrawnFields DEF PlainDraft, Sound
  <1>2. kept = IF i \notin r.items THEN TagsOf(userTags, i)
               ELSE IF r.kind = "forget" THEN {}
               ELSE Store!Settled(TagsOf(userTags, i), r, definition)
    <2> HIDE DEF definition
    <2> QED BY <1>1, PlainKept
  <1>3. \A t : t \in kept => t \in TagsOf(userTags, i)
    BY DEF TagsOf, Kept
  <1>4. \A t : t \in kept => Store!Convert(t, NoCast) = t
    <2>1. \A t \in TagsOf(userTags, i) : t.type \in TagTypes
      BY <1>1, RowTags DEF Tag
    <2> QED BY <1>3, <2>1, ConvertNothing
  <1>5. TagsOf(UserTagsWrite(userTags, p), i) = kept \cup TagsOf(DrawnTags(j, ids, f), i)
    <2>1. TagsOf(UserTagsWrite(userTags, p), i)
          = {Store!Convert(t, p.cast) : t \in kept} \cup TagsOf(p.inserts, i)
      <3>1. userTags \subseteq Row
        BY DEF Sound
      <3> QED BY <3>1, SavedTagsOf
    <2>2. \A t : t \in kept => Store!Convert(t, p.cast) = t
      BY <1>1, <1>4
    <2> HIDE DEF kept
    <2> QED BY <1>1, <2>1, <2>2
  <1>6. TagsOf(DrawnTags(j, ids, f), i) = added
    <2>1. j.given = {} /\ j.inserts = RowsFor({}, {})
          /\ (j.named <=> r.kind # "note" /\ r.kind # "forget")
          /\ (r.kind = "forget" => r.new = {})
      BY DEF PlainDraft, UntagDraft, ForgetDraft, NoteDraft, RowsFor
    <2>2. \A h : h \in TagsOf(DrawnTags(j, ids, f), i) <=>
             \/ i \in {} /\ h \in {}
             \/ i \in ids /\ (h \in j.given \/ (j.named /\ h = Store!Named(f[i])))
      BY <2>1, AddedTags
    <2>3. i \in ids => r.kind # "forget"
      BY <2>1 DEF DrawnFor
    <2> QED BY <2>1, <2>2, <2>3
  <1>7. TagsAfter(Tables, i, r, f) = {Store!Convert(t, NoCast) : t \in kept \cup added}
    <2>1. DOMAIN f = ids
      BY DEF DrawnFor
    <2>2. Store!InOrder({}, r, TRUE, {}) = {} \/ r.kind = "note" \/ ids = {}
      <3>1. CASE UntagDraft(j, r)
        <4>1. r.nodes \in Seq(UntagNodes) /\ r.kind # "tag"
          BY <3>1 DEF UntagDraft
        <4> QED BY <4>1, OwnTags
      <3>2. CASE ForgetDraft(j, r)
        BY <3>2 DEF ForgetDraft, DrawnFor
      <3> QED BY <3>1, <3>2 DEF PlainDraft, NoteDraft
    <2> HIDE DEF kept, definition
    <2>3. (IF i \notin DOMAIN f \/ r.kind = "note" THEN {}
           ELSE Store!InOrder({}, r, TRUE, {}) \cup {Store!Named(f[i])}) = added
      BY <2>1, <2>2
    <2> HIDE DEF added
    <2> QED BY <1>1, <1>2, <2>3, TablesAre DEF TagsAfter, definition
  <1>8. \A t \in added : Store!Convert(t, NoCast) = t
    <2>1. \A k : Store!Named(k).type = "name"
      BY DEF Store!Named
    <2> QED BY <2>1, ConvertNothing DEF TagTypes
  <1> HIDE DEF kept, added
  <1> QED BY <1>4, <1>5, <1>6, <1>7, <1>8

LEMMA PlainSound ==
    ASSUME Sound(itemRefs, userTags), NEW j, NEW r, PlainDraft(j, r),
           NEW ids, NEW f, DrawnFor(r.new, ids, f),
           NEW p, p = DrawnPlan(j, ids, f), NEW refs, FreshRefs(refs, ids, r.new)
    PROVE  Sound(refs, UserTagsWrite(userTags, p))
  <1>1. /\ userTags \subseteq Row /\ p.cast = NoCast /\ p.inserts = DrawnTags(j, ids, f)
        /\ j.inserts = {} /\ j.given = {}
    BY DrawnFields DEF PlainDraft, Sound
  <1>2. f \in [ids -> r.new] /\ r.new \subseteq Contents
    BY DEF PlainDraft, UntagDraft, ForgetDraft, NoteDraft, DrawnFor, Contents, DefinedTypes
  <1>3. ASSUME NEW x \in UserTagsWrite(userTags, p)
        PROVE  x \in userTags \/ NameRow(x, ids)
    <2>1. CASE \E k \in Kept(userTags, p) : x = CastRow(k, NoCast)
      <3>1. PICK k \in userTags : x = CastRow(k, NoCast)
        BY <2>1 DEF Kept
      <3>2. k \in Row /\ k.type # NoCast.type
        BY <1>1, NoCastType DEF Row
      <3> QED BY <3>1, <3>2 DEF CastRow
    <2>2. CASE x \in DrawnTags(j, ids, f)
      BY <1>1, <1>2, <2>2 DEF DrawnTags, NameRow
    <2> QED BY <1>1, <2>1, <2>2 DEF UserTagsWrite
  <1> QED BY <1>3, SoundWithout

-----------------------------------------------------------------------------
(* What a command will have done, from the moment its ids are drawn.       *)

\* The plan of a request, before ids are drawn.
Draft(j, r) == Cascades(j, r) /\ (TagDraft(j, r) \/ PlainDraft(j, r))

\* The tables as a plan leaves them.
Saved(was, j) ==
    [refs |-> ItemReferencesWrite(was.refs, j), tags |-> UserTagsWrite(was.tags, j),
     files |-> [was.files EXCEPT !["file_references"] = @ \ j.cascade]]

\* Store!FreshIds, of the tables that a command found.
FreshFor(was, r) ==
    {f \in UNION {[S -> r.new] : S \in SUBSET {i \in Ids : ItemOf(was, i) = NoContent}} :
        /\ \A i, k \in DOMAIN f : f[i] = f[k] => i = k
        /\ \A n \in r.new : \E i \in DOMAIN f : f[i] = n
        /\ \A i \in DOMAIN f : i \in UserIds}

Outcome(was, r, j, fresh) ==
    \A i \in Ids : /\ TagsOf(Saved(was, j).tags, i) = TagsAfter(was, i, r, fresh)
                   /\ ItemOf(Saved(was, j), i) = ItemAfter(was, i, r, fresh)

Commands == {"tag", "untag", "forget", "note"}

\* Whatever the command has saved, configured types are in their columns; and all
\* it saves is what TagStore says of the request.
Promised(was, r, j) ==
    /\ Sound(Saved(was, j).refs, was.tags) /\ Sound(Saved(was, j).refs, Saved(was, j).tags)
    /\ r.kind \in Commands /\ j.cascade = IF r.kind = "forget" THEN r.items ELSE {}
    /\ r.new \subseteq Contents
    /\ \E fresh \in FreshFor(was, r) : Outcome(was, r, j, fresh)

LEMMA SavedIs ==
    ASSUME NEW j
    PROVE  /\ Saved(Tables, j).refs = ItemReferencesWrite(itemRefs, j)
           /\ Saved(Tables, j).tags = UserTagsWrite(userTags, j)
           /\ files \in [ToSet(FileTables) -> SUBSET FileIds] =>
                 Saved(Tables, j).files["file_references"]
                 = files["file_references"] \ j.cascade
  BY TablesAre, FileTableNames DEF Saved

LEMMA DrawnAreFresh ==
    ASSUME files \in [ToSet(FileTables) -> SUBSET FileIds],
           NEW r, NEW ids, NEW f, DrawnFor(r.new, ids, f)
    PROVE  f \in FreshFor(Tables, r)
  <1>1. ids \subseteq {i \in Ids : ItemOf(Tables, i) = NoContent}
    <2> SUFFICES ASSUME NEW i \in ids PROVE i \in Ids /\ ItemOf(Tables, i) = NoContent
      OBVIOUS
    <2>1. i \in UserIds /\ i \notin Findable
      BY DEF DrawnFor
    <2>2. i \in Ids /\ i \notin BuiltinIds
      BY <2>1, BlockAssumption DEF Ids
    <2>3. i \notin files["file_references"] /\ ~Stored(itemRefs, i)
      BY <2>1, <2>2, FileTableNames DEF Findable
    <2>4. ItemOf(Tables, i) = NoContent
      BY <2>2, <2>3, TablesAre DEF ItemOf
    <2> QED BY <2>2, <2>4
  <1>2. /\ f \in [ids -> r.new] /\ r.new = {f[i] : i \in ids} /\ ids \subseteq UserIds
        /\ \A i, k \in ids : f[i] = f[k] => i = k
    BY DEF DrawnFor
  <1> QED BY <1>1, <1>2 DEF FreshFor

\* Once ids are drawn, all that the command is about to save is decided.
LEMMA DrawnPromise ==
    ASSUME ConfigsAlone, EditInv, Sound(itemRefs, userTags), NEW j, NEW r, Draft(j, r),
           NEW ids, NEW f, DrawnFor(r.new, ids, f), RowsAreDrawn(j, ids, f),
           NEW p, p = DrawnPlan(j, ids, f)
    PROVE  Promised(Tables, r, p)
  <1>1. /\ OneItem /\ OneDefinition /\ itemRefs \in [RefRow -> Nat]
        /\ files \in [ToSet(FileTables) -> SUBSET FileIds]
    BY DEF EditInv, Typed
  <1>2. files["file_references"] \subseteq FileIds
    BY <1>1, FileTableNames
  <1>3. Cascades(j, r)
    BY DEF Draft
  <1> DEFINE refs == ItemReferencesWrite(itemRefs, p)
             rows == UserTagsWrite(userTags, p)
  <1>4. FreshRefs(refs, ids, r.new)
    BY <1>1, <1>3, SavedFresh
  <1>5. Sound(refs, userTags)
    <2>1. \A x \in userTags : x \in userTags \/ NameRow(x, ids)
      OBVIOUS
    <2> HIDE DEF refs
    <2> QED BY <1>4, <2>1, SoundWithout
  <1>6. Sound(refs, rows)
    <2> HIDE DEF refs
    <2>1. CASE TagDraft(j, r)
      BY <1>1, <1>2, <1>4, <2>1, TagSound
    <2>2. CASE PlainDraft(j, r)
      BY <1>4, <2>2, PlainSound
    <2> QED BY <2>1, <2>2 DEF Draft
  <1>7. /\ Saved(Tables, p).refs = refs /\ Saved(Tables, p).tags = rows
        /\ Saved(Tables, p).files["file_references"] = files["file_references"] \ p.cascade
    BY <1>1, SavedIs
  <1>8. Outcome(Tables, r, p, f)
    <2> SUFFICES ASSUME NEW i \in Ids
                 PROVE  /\ TagsOf(Saved(Tables, p).tags, i) = TagsAfter(Tables, i, r, f)
                        /\ ItemOf(Saved(Tables, p), i) = ItemAfter(Tables, i, r, f)
      BY DEF Outcome
    <2>1. TagsOf(rows, i) = TagsAfter(Tables, i, r, f)
      <3>1. CASE TagDraft(j, r)
        BY <1>1, <1>2, <3>1, TagOutcome
      <3>2. CASE PlainDraft(j, r)
        BY <1>3, <3>2, PlainOutcome
      <3> QED BY <3>1, <3>2 DEF Draft
    <2>2. ItemOf(Saved(Tables, p), i) = ItemAfter(Tables, i, r, f)
      BY <1>1, <1>2, <1>3, <1>7, ItemOutcome
    <2> QED BY <1>7, <2>1, <2>2
  <1>9. /\ r.kind \in Commands /\ p.cascade = IF r.kind = "forget" THEN r.items ELSE {}
        /\ r.new \subseteq Contents
    <2>1. r.kind \in Commands /\ r.new \subseteq Contents
      BY DEF Draft, TagDraft, TagPlanned, PlainDraft, UntagDraft, ForgetDraft, NoteDraft, Commands,
             Contents, DefinedTypes
    <2> QED BY <1>3, <2>1, DrawnFields DEF Cascades
  <1>10. f \in FreshFor(Tables, r)
    BY <1>1, DrawnAreFresh
  <1> HIDE DEF refs, rows
  <1> QED BY <1>5, <1>6, <1>7, <1>8, <1>9, <1>10, TablesAre DEF Promised

\* No tag names an id that is drawn, if no deletion left some under it.
LEMMA DrawnIds ==
    ASSUME EditInv, NEW c, Clients = {c}, Phase(c) = "draw", torn \cap UserIds = {},
           NEW new, NEW ids, NEW f, Draws(new, ids, f), ids \subseteq UserIds
    PROVE  DrawnFor(new, ids, f)
  <1>1. AreFree(ids, f)
    BY DrawnAreFree
  <1>2. f \in [ids -> new] /\ new = {f[i] : i \in ids}
    BY DEF Draws
  <1>3. /\ \A i, k \in ids : f[i] = f[k] => i = k
        /\ \A i \in ids : ~Stored(itemRefs, i)
    BY <1>1 DEF AreFree
  <1>4. /\ files \in [ToSet(FileTables) -> SUBSET FileIds]
        /\ files["file_references"] \subseteq FileIds
    BY FileTableNames DEF EditInv, Typed
  <1>5. \A i \in ids : i \notin FileIds /\ i \notin BuiltinIds /\ i \notin torn
    BY BlockAssumption
  <1>6. \A i \in ids : ~HasItem(i)
    BY <1>3, <1>4, <1>5 DEF HasItem
  <1>7. \A r \in userTags : r.item \notin ids
    <2>1. \A r \in userTags : HasItem(r.item)
      BY DEF EditInv, Backed
    <2> QED BY <1>6, <2>1
  <1>8. ids \cap Findable = {}
    <2>1. \A t \in DOMAIN files : files[t] \subseteq FileIds
      BY <1>4
    <2> QED BY <1>3, <1>5, <1>7, <2>1 DEF Findable
  <1> QED BY <1>2, <1>3, <1>7, <1>8 DEF DrawnFor

-----------------------------------------------------------------------------
(* Requests.                                                               *)

SameTables == UNCHANGED <<itemRefs, userTags, files>>

LEMMA TypesKept ==
    ASSUME SameTables
    PROVE  /\ \A t : BiticalType(t)' = BiticalType(t)
           /\ \A t : Accepted(t)' <=> Accepted(t)
           /\ \A t : Volatile(t)' <=> Volatile(t)
           /\ \A i : IsTypeItem(itemRefs, i)' <=> IsTypeItem(itemRefs, i)
           /\ Findable' = Findable
  <1>1. itemRefs' = itemRefs /\ userTags' = userTags /\ files' = files
    BY DEF SameTables
  <1>2. ASSUME NEW t PROVE BiticalType(t)' = BiticalType(t)
    BY <1>1 DEF BiticalType, ContentsOf
  <1>3. ASSUME NEW t PROVE Accepted(t)' <=> Accepted(t)
    BY <1>2 DEF Accepted
  <1>4. ASSUME NEW t PROVE Volatile(t)' <=> Volatile(t)
    BY <1>1 DEF Volatile
  <1>5. ASSUME NEW i PROVE IsTypeItem(itemRefs, i)' <=> IsTypeItem(itemRefs, i)
    BY <1>1 DEF IsTypeItem
  <1>6. Findable' = Findable
    BY <1>1 DEF Findable
  <1> QED BY <1>2, <1>3, <1>4, <1>5, <1>6

LEMMA CastsKept ==
    ASSUME SameTables, NEW found, NEW new, NEW nodes
    PROVE  /\ DetectTypeCasts(found, new, nodes)' = DetectTypeCasts(found, new, nodes)
           /\ CastFor(found, new, nodes)' = CastFor(found, new, nodes)
           /\ OneColumn(found, new, nodes)' <=> OneColumn(found, new, nodes)
  <1>1. itemRefs' = itemRefs /\ userTags' = userTags
    BY DEF SameTables
  <1>2. AllContents(found)' = AllContents(found)
    BY <1>1 DEF AllContents
  <1>3. \A t : BiticalType(t)' = BiticalType(t)
    BY TypesKept
  <1>4. DetectTypeCasts(found, new, nodes)' = DetectTypeCasts(found, new, nodes)
    BY <1>2, <1>3 DEF DetectTypeCasts
  <1>5. \A cast : Counted(cast)' = Counted(cast)
    BY <1>1 DEF Counted
  <1>6. CastFor(found, new, nodes)' = CastFor(found, new, nodes)
    BY <1>4, <1>5 DEF CastFor
  <1>7. OneColumn(found, new, nodes)' <=> OneColumn(found, new, nodes)
    BY <1>2 DEF OneColumn
  <1> QED BY <1>4, <1>6, <1>7

LEMMA PlannedKept ==
    ASSUME SameTables, NEW found, NEW new, NEW nodes, NEW answer,
           TagPlanned(found, new, nodes, answer)
    PROVE  TagPlanned(found, new, nodes, answer)'
  <1>1. ResolvedNodes(nodes)'
    BY TypesKept DEF TagPlanned, ResolvedNodes
  <1>2. Configures(nodes) => \A i \in found : IsTypeItem(itemRefs, i)' /\ Assignable(i)
    BY TypesKept DEF TagPlanned
  <1>3. \A t \in new : Volatile(t)'
    BY TypesKept DEF TagPlanned
  <1>4. Cardinality(DetectTypeCasts(found, new, nodes)') <= 1
        /\ OneColumn(found, new, nodes)'
    BY CastsKept DEF TagPlanned
  <1> QED BY <1>1, <1>2, <1>3, <1>4 DEF TagPlanned

\* A plan that was made stays one as long as no table changes.
LEMMA DraftKept ==
    ASSUME SameTables, NEW j, NEW r, Draft(j, r)
    PROVE  Draft(j, r)'
  <1>1. Cascades(j, r)'
    BY TypesKept DEF Draft, Cascades
  <1>2. ASSUME TagDraft(j, r) PROVE TagDraft(j, r)'
    <2>1. TagPlanned(r.items, r.new, r.nodes, r.answer)'
      BY <1>2, PlannedKept DEF TagDraft
    <2>2. /\ DetectTypeCasts(r.items, r.new, r.nodes)' = DetectTypeCasts(r.items, r.new, r.nodes)
          /\ CastFor(r.items, r.new, r.nodes)' = CastFor(r.items, r.new, r.nodes)
      BY CastsKept
    <2>3. DeletesFor(SettledItems(r), r.nodes, r.answer)'
          = DeletesFor(SettledItems(r), r.nodes, r.answer)
      BY DEF DeletesFor, SameTables, IsTypeItem, ContentsOf
    <2>4. Findable' = Findable
      BY TypesKept
    <2> QED BY <1>2, <2>1, <2>2, <2>3, <2>4 DEF TagDraft
  <1>3. ASSUME PlainDraft(j, r) PROVE PlainDraft(j, r)'
    <2>1. Removals(r.items, r.nodes)' = Removals(r.items, r.nodes)
      BY DEF Removals, SameTables
    <2> QED BY <1>3, <2>1 DEF PlainDraft, UntagDraft, ForgetDraft, NoteDraft
  <1> QED BY <1>1, <1>2, <1>3 DEF Draft

LEMMA SeqOfMore ==
    ASSUME NEW X, NEW Y, X \subseteq Y, NEW s \in Seq(X)
    PROVE  s \in Seq(Y)
  <1>1. s = [k \in 1 .. Len(s) |-> s[k]] /\ Len(s) \in Nat
    OBVIOUS
  <1>2. \A k \in 1 .. Len(s) : s[k] \in Y
    OBVIOUS
  <1> QED BY <1>1, <1>2, IsASeq

\* A plan of a request is one that the command may begin with.
IsPlanned(c, j, r) ==
    Starts(c, j, r) /\ j.phase = "draw" /\ Draft(j, r) /\ r \in AllRequests

LEMMA RequestFields ==
    ASSUME NEW kind \in Commands, NEW found \in SUBSET Ids, NEW new \in SUBSET Contents,
           NEW nodes \in Seq(TagNodes \cup UntagNodes),
           NEW answer \in {NoAnswer} \cup [kind : {"take"}, tag : Written]
                          \cup [kind : {"skip"}, scope : {"item", "fs_only"}],
           NEW cast \in {NoCast} \cup [type : DefinedTypes, col : Columns]
    PROVE  [kind |-> kind, items |-> found, new |-> new, nodes |-> nodes,
            answer |-> answer, cast |-> cast] \in AllRequests
  BY DEF AllRequests, Commands

LEMMA PlanTagAsks ==
    ASSUME ~MixedColumns, EditInv, NEW c, NEW found, NEW new \in SUBSET UserTypes,
           NEW nodes \in TagQueries, NEW answer, PlanTag(c, found, new, nodes, answer)
    PROVE  \E j, r : IsPlanned(c, j, r)
  <1> DEFINE cast == CastOf(DetectTypeCasts(found, new, nodes))
             settled == IF nodes = <<>> THEN {} ELSE found
             j == [Nothing EXCEPT
                     !.new = new, !.given = FoldVolatile(nodes), !.named = TRUE,
                     !.adds = [b \in BuiltinIds |->
                                 IF b \in settled
                                 THEN Cardinality(Given(nodes, answer)) ELSE 0],
                     !.inserts = AddsTo(settled, nodes, answer),
                     !.deletes = DeletesFor(settled, nodes, answer),
                     !.cast = Counted(cast)]
             r == [kind |-> "tag", items |-> found, new |-> new, nodes |-> nodes,
                   answer |-> answer, cast |-> cast]
  <1>1. Starts(c, j, r)
    BY DEF PlanTag, CastOf, Counted
  <1>2. /\ Selection(found, new) /\ answer \in Answers(nodes) /\ ResolvedNodes(nodes)
        /\ Configures(nodes) => /\ \A i \in found : IsTypeItem(itemRefs, i) /\ Assignable(i)
                                /\ Cardinality({n \in ToSet(nodes) : n.type = "bitical_type"}) = 1
        /\ Cardinality(DetectTypeCasts(found, new, nodes)) <= 1
        /\ OneColumn(found, new, nodes)
    BY DEF PlanTag
  <1>3. found \subseteq Findable /\ found \subseteq Ids /\ \A t \in new : Volatile(t)
    BY <1>2 DEF Selection, Findable
  <1>4. nodes \in Seq(TagNodes)
    BY QueryAssumption
  <1>5. TagPlanned(found, new, nodes, answer)
    BY <1>2, <1>3, <1>4 DEF TagPlanned, ConfiguresOnce
  <1> HIDE DEF cast
  <1>6. /\ r.kind = "tag" /\ r.items = found /\ r.new = new /\ r.nodes = nodes
        /\ r.answer = answer /\ r.cast = cast
    OBVIOUS
  <1>7. /\ j.phase = "draw" /\ j.new = new /\ j.given = FoldVolatile(nodes) /\ j.named = TRUE
        /\ j.inserts = AddsTo(settled, nodes, answer)
        /\ j.deletes = DeletesFor(settled, nodes, answer)
        /\ j.cascade = {} /\ j.cast = Counted(cast)
    BY DEF Nothing
  <1> HIDE DEF j
  <1>8. Draft(j, r)
    <2>1. Cascades(j, r)
      BY <1>3, <1>6, <1>7 DEF Cascades
    <2>2. SettledItems(r) = settled
      BY <1>6 DEF SettledItems
    <2> HIDE DEF r, settled
    <2>3. TagDraft(j, r)
      BY <1>3, <1>5, <1>6, <1>7, <2>2 DEF TagDraft, CastFor, cast
    <2> QED BY <2>1, <2>3 DEF Draft
  <1>9. r \in AllRequests
    <2>1. new \in SUBSET Contents /\ found \in SUBSET Ids /\ "tag" \in Commands
      BY <1>3 DEF Contents, DefinedTypes, Commands
    <2>2. nodes \in Seq(TagNodes \cup UntagNodes)
      BY <1>4, SeqOfMore
    <2>3. answer \in {NoAnswer} \cup [kind : {"take"}, tag : Written]
                     \cup [kind : {"skip"}, scope : {"item", "fs_only"}]
      <3>1. \A n \in ToSet(nodes) : n.type \in Clashing(nodes) => n \in Written
        BY <1>4, NodeIs, TypesAssumption DEF Clashing
      <3> QED BY <1>2, <3>1 DEF Answers
    <2>4. cast \in {NoCast} \cup [type : DefinedTypes, col : Columns]
      <3>1. OneItem
        BY DEF EditInv
      <3>2. \/ cast = NoCast
            \/ /\ cast.type \in UserTypes /\ cast.col \in Columns
               /\ cast = [type |-> cast.type, col |-> cast.col]
        BY <1>5, <3>1, CastIs DEF cast
      <3> QED BY <3>2 DEF DefinedTypes
    <2> QED BY <2>1, <2>2, <2>3, <2>4, RequestFields
  <1> HIDE DEF r
  <1> QED BY <1>1, <1>7, <1>8, <1>9 DEF IsPlanned

LEMMA PlanUntagAsks ==
    ASSUME NEW c, NEW found, NEW new \in SUBSET UserTypes,
           NEW nodes \in UntagQueries, PlanUntag(c, found, new, nodes)
    PROVE  \E j, r : IsPlanned(c, j, r)
  <1> DEFINE j == [Nothing EXCEPT !.new = new, !.named = TRUE,
                                 !.deletes = Removals(found, nodes)]
             r == [kind |-> "untag", items |-> found, new |-> new, nodes |-> nodes,
                   answer |-> NoAnswer, cast |-> NoCast]
  <1>1. Starts(c, j, r)
    BY DEF PlanUntag
  <1>2. found \subseteq Findable /\ found \in SUBSET Ids /\ new \in SUBSET Contents
    BY DEF PlanUntag, Selection, Findable, Contents, DefinedTypes
  <1>3. nodes \in Seq(UntagNodes)
    BY QueryAssumption
  <1>4. /\ j.phase = "draw" /\ j.new = new /\ j.given = {} /\ j.named = TRUE
        /\ j.inserts = {} /\ j.deletes = Removals(found, nodes) /\ j.cascade = {}
        /\ j.cast = NoCast
    BY DEF Nothing
  <1> HIDE DEF j
  <1>5. Draft(j, r)
    BY <1>2, <1>3, <1>4 DEF Draft, Cascades, PlainDraft, UntagDraft
  <1>6. r \in AllRequests
    BY <1>2, <1>3, SeqOfMore, RequestFields DEF Commands
  <1> HIDE DEF r
  <1> QED BY <1>1, <1>4, <1>5, <1>6 DEF IsPlanned

LEMMA EmptyNodes ==
    <<>> \in Seq(TagNodes \cup UntagNodes)
  OBVIOUS

LEMMA PlanForgetAsks ==
    ASSUME NEW c, NEW found, PlanForget(c, found)
    PROVE  \E j, r : IsPlanned(c, j, r)
  <1> DEFINE j == [Nothing EXCEPT !.cascade = found]
             r == [kind |-> "forget", items |-> found, new |-> {}, nodes |-> <<>>,
                   answer |-> NoAnswer, cast |-> NoCast]
  <1>1. Starts(c, j, r)
    BY DEF PlanForget
  <1>2. found \subseteq Findable /\ found \in SUBSET Ids /\ {} \in SUBSET Contents
    BY DEF PlanForget, Selection, Findable
  <1>3. /\ j.phase = "draw" /\ j.new = {} /\ j.given = {} /\ j.named = FALSE
        /\ j.inserts = {} /\ j.deletes = {} /\ j.cascade = found /\ j.cast = NoCast
    BY DEF Nothing
  <1> HIDE DEF j
  <1>4. Draft(j, r)
    BY <1>2, <1>3 DEF Draft, Cascades, PlainDraft, ForgetDraft
  <1>5. r \in AllRequests
    BY <1>2, EmptyNodes, RequestFields DEF Commands
  <1> HIDE DEF r
  <1> QED BY <1>1, <1>3, <1>4, <1>5 DEF IsPlanned

LEMMA PlanNoteAsks ==
    ASSUME NEW c, NEW n \in Notes, PlanNote(c, n)
    PROVE  \E j, r : IsPlanned(c, j, r)
  <1> DEFINE j == [Nothing EXCEPT !.new = {n}]
             r == [kind |-> "note", items |-> {}, new |-> {n}, nodes |-> <<>>,
                   answer |-> NoAnswer, cast |-> NoCast]
  <1>1. Starts(c, j, r)
    BY DEF PlanNote
  <1>2. {n} \in SUBSET Contents /\ {} \in SUBSET Ids
    BY DEF Contents
  <1>3. /\ j.phase = "draw" /\ j.new = {n} /\ j.given = {} /\ j.named = FALSE
        /\ j.inserts = {} /\ j.deletes = {} /\ j.cascade = {} /\ j.cast = NoCast
    BY DEF Nothing
  <1> HIDE DEF j
  <1>4. Draft(j, r)
    BY <1>3 DEF Draft, Cascades, PlainDraft, NoteDraft
  <1>5. r \in AllRequests
    BY <1>2, EmptyNodes, RequestFields DEF Commands
  <1> HIDE DEF r
  <1> QED BY <1>1, <1>3, <1>4, <1>5 DEF IsPlanned

LEMMA PlanAsks ==
    ASSUME ~MixedColumns, EditInv, NEW c, Plan(c)
    PROVE  \E j, r : IsPlanned(c, j, r)
  <1>1. ASSUME NEW found, NEW new \in SUBSET UserTypes, NEW nodes \in TagQueries, NEW answer,
               PlanTag(c, found, new, nodes, answer)
        PROVE  \E j, r : IsPlanned(c, j, r)
    BY <1>1, PlanTagAsks
  <1>2. ASSUME NEW found, NEW new \in SUBSET UserTypes, NEW nodes \in UntagQueries,
               PlanUntag(c, found, new, nodes)
        PROVE  \E j, r : IsPlanned(c, j, r)
    BY <1>2, PlanUntagAsks
  <1>3. ASSUME NEW found, PlanForget(c, found)
        PROVE  \E j, r : IsPlanned(c, j, r)
    BY <1>3, PlanForgetAsks
  <1>4. ASSUME NEW n \in Notes, PlanNote(c, n)
        PROVE  \E j, r : IsPlanned(c, j, r)
    BY <1>4, PlanNoteAsks
  <1> QED BY <1>1, <1>2, <1>3, <1>4 DEF Plan

-----------------------------------------------------------------------------
(* What TagStore sees of one client.                                       *)

\* The tables that the command found.
Was(c) == IF before[c] # <<>> THEN before[c][1] ELSE Tables

LEMMA SeenIs ==
    ASSUME NEW c, Clients = {c}
    PROVE  Seen = Was(c) /\ Seen' = Was(c)'
  <1>1. (\E k \in Clients : before[k] # <<>>) <=> before[c] # <<>>
    OBVIOUS
  <1>2. before[c] # <<>> => (CHOOSE k \in Clients : before[k] # <<>>) = c
    OBVIOUS
  <1>3. (\E k \in Clients : before'[k] # <<>>) <=> before'[c] # <<>>
    OBVIOUS
  <1>4. before'[c] # <<>> => (CHOOSE k \in Clients : before'[k] # <<>>) = c
    OBVIOUS
  <1>5. Seen = Was(c)
    BY <1>1, <1>2 DEF Seen, Was, Tables
  <1>6. Seen' = Was(c)'
    BY <1>3, <1>4 DEF Seen, Was, Tables
  <1> QED BY <1>5, <1>6

\* The command that runs, as TagStore sees it.
Command(c) == IF Running(c) THEN request[c] ELSE NoRequest

SeenRequest ==
    IF \E k \in Clients : Running(k)
    THEN request[CHOOSE k \in Clients : Running(k)] ELSE NoRequest

LEMMA CommandIs ==
    ASSUME NEW c, Clients = {c}
    PROVE  SeenRequest = Command(c) /\ SeenRequest' = Command(c)'
  <1>1. (\E k \in Clients : Running(k)) <=> Running(c)
    OBVIOUS
  <1>2. Running(c) => (CHOOSE k \in Clients : Running(k)) = c
    OBVIOUS
  <1>3. (\E k \in Clients : Running(k)') <=> Running(c)'
    OBVIOUS
  <1>4. Running(c)' => (CHOOSE k \in Clients : Running(k)') = c
    OBVIOUS
  <1>5. SeenRequest = Command(c)
    BY <1>1, <1>2 DEF SeenRequest, Command
  <1>6. SeenRequest' = Command(c)'
    BY <1>3, <1>4 DEF SeenRequest, Command
  <1> QED BY <1>5, <1>6

LEMMA DoneIs ==
    ASSUME NEW c, Clients = {c}, NEW i \in Ids, NEW r, NEW fresh
    PROVE  /\ Store!ItemsDone(i, r, fresh) = ItemAfter(Was(c), i, r, fresh)
           /\ Store!TagsDone(i, r, fresh) = TagsAfter(Was(c), i, r, fresh)
  <1>1. Seen = Was(c)
    BY SeenIs
  <1>2. [k \in Ids |-> ItemOf(Seen, k)][i] = ItemOf(Was(c), i)
    BY <1>1
  <1>3. [k \in Ids |-> {AsTag(q) : q \in {x \in Seen.tags : x.item = k}}][i]
        = TagsOf(Was(c).tags, i)
    BY <1>1 DEF TagsOf
  <1>4. Store!ItemsDone(i, r, fresh) = ItemAfter(Was(c), i, r, fresh)
    BY <1>2 DEF Store!ItemsDone, ItemAfter
  <1>5. Store!TagsDone(i, r, fresh) = TagsAfter(Was(c), i, r, fresh)
    BY <1>2, <1>3 DEF Store!TagsDone, TagsAfter
  <1> QED BY <1>4, <1>5

LEMMA FreshIs ==
    ASSUME NEW c, Clients = {c}, NEW r, r.new \subseteq Contents,
           NEW f \in FreshFor(Was(c), r)
    PROVE  f \in Store!FreshIds(r)
  <1>1. Seen = Was(c)
    BY SeenIs
  <1>2. Store!Live = {i \in Ids : ItemOf(Was(c), i) # NoContent}
    BY <1>1 DEF Store!Live
  <1>3. PICK S \in SUBSET {i \in Ids : ItemOf(Was(c), i) = NoContent} : f \in [S -> r.new]
    BY DEF FreshFor
  <1>4. S \in SUBSET (Ids \ Store!Live)
    BY <1>2, <1>3
  <1>5. /\ \A i, k \in DOMAIN f : f[i] = f[k] => i = k
        /\ \A n \in r.new : \E i \in DOMAIN f : f[i] = n
        /\ \A i \in DOMAIN f : i \in UserIds
    BY DEF FreshFor
  <1>6. \A i \in DOMAIN f : i \in [content \in Contents |-> UserIds][f[i]]
    BY <1>3, <1>5
  <1> HIDE DEF Store!Live
  <1> QED BY <1>3, <1>4, <1>5, <1>6 DEF Store!FreshIds

\* What the tables show of items and tags.
Items(was) == [i \in Ids |-> ItemOf(was, i)]
Tags(was) == [i \in Ids |-> TagsOf(was.tags, i)]

LEMMA StoreIs ==
    ASSUME NEW c, Clients = {c}
    PROVE  /\ Store!vars = <<Items(Was(c)), Tags(Was(c)), Command(c)>>
           /\ Store!vars' = <<Items(Was(c)'), Tags(Was(c)'), Command(c)'>>
  <1>1. Store!vars = <<Items(Seen), Tags(Seen), SeenRequest>>
    BY DEF Store!vars, Items, Tags, TagsOf, SeenRequest
  <1>2. Store!vars' = <<Items(Seen'), Tags(Seen'), SeenRequest'>>
    BY DEF Store!vars, Items, Tags, TagsOf, SeenRequest
  <1> QED BY <1>1, <1>2, SeenIs, CommandIs

LEMMA StoreStutters ==
    ASSUME NEW c, Clients = {c}, Was(c)' = Was(c), Command(c)' = Command(c)
    PROVE  UNCHANGED Store!vars
  BY StoreIs

LEMMA StoreAsks ==
    ASSUME NEW c, Clients = {c}, Was(c)' = Was(c),
           Command(c) = NoRequest, Command(c)' \in AllRequests
    PROVE  Store!Ask
  <1>1. Seen' = Seen
    BY SeenIs
  <1>2. SeenRequest = NoRequest /\ SeenRequest' \in AllRequests
    BY CommandIs
  <1> QED BY <1>1, <1>2 DEF Store!Ask, SeenRequest

LEMMA StorePerforms ==
    ASSUME NEW c, Clients = {c}, Command(c) # NoRequest, Command(c)' = NoRequest,
           Command(c).new \subseteq Contents, NEW fresh \in FreshFor(Was(c), Command(c)),
           \A i \in Ids :
              /\ ItemOf(Was(c)', i) = ItemAfter(Was(c), i, Command(c), fresh)
              /\ TagsOf(Was(c)'.tags, i) = TagsAfter(Was(c), i, Command(c), fresh)
    PROVE  Store!Perform
  <1>1. SeenRequest = Command(c) /\ SeenRequest' = NoRequest /\ SeenRequest # NoRequest
    BY CommandIs
  <1>2. fresh \in Store!FreshIds(SeenRequest)
    BY <1>1, FreshIs
  <1>3. Seen' = Was(c)'
    BY SeenIs
  <1>4. \A i \in Ids :
           /\ ItemOf(Seen', i) = Store!ItemsDone(i, SeenRequest, fresh)
           /\ TagsOf(Seen'.tags, i) = Store!TagsDone(i, SeenRequest, fresh)
    BY <1>1, <1>3, DoneIs
  <1>5. /\ [i \in Ids |-> ItemOf(Seen', i)]
           = [i \in Ids |-> Store!ItemsDone(i, SeenRequest, fresh)]
        /\ [i \in Ids |-> TagsOf(Seen'.tags, i)]
           = [i \in Ids |-> Store!TagsDone(i, SeenRequest, fresh)]
    BY <1>4
  <1> QED BY <1>1, <1>2, <1>5 DEF Store!Perform, SeenRequest, TagsOf

\* The command stops before it saved anything, or after so many saves.
LEMMA StoreStops ==
    ASSUME NEW c, Clients = {c}, Command(c) # NoRequest, Command(c)' = NoRequest,
           Was(c)' = Was(c)
    PROVE  Store!Interrupted
  <1>1. SeenRequest # NoRequest /\ SeenRequest' = NoRequest /\ Seen' = Seen
    BY CommandIs, SeenIs
  <1> QED BY <1>1 DEF Store!Interrupted, SeenRequest

LEMMA StoreStopsAfter ==
    ASSUME NEW c, Clients = {c}, Command(c) # NoRequest, Command(c)' = NoRequest,
           Command(c).new \subseteq Contents, NEW fresh \in FreshFor(Was(c), Command(c)),
           NEW saves \in 1 .. 3,
           \A i \in Ids :
              /\ ItemOf(Was(c)', i) = IF i \in FileIds /\ saves < 3 THEN ItemOf(Was(c), i)
                                      ELSE ItemAfter(Was(c), i, Command(c), fresh)
              /\ TagsOf(Was(c)'.tags, i) = IF saves < 2 THEN TagsOf(Was(c).tags, i)
                                           ELSE TagsAfter(Was(c), i, Command(c), fresh)
    PROVE  Store!Interrupted
  <1>1. SeenRequest = Command(c) /\ SeenRequest' = NoRequest /\ SeenRequest # NoRequest
    BY CommandIs
  <1>2. fresh \in Store!FreshIds(SeenRequest)
    BY <1>1, FreshIs
  <1>3. Seen' = Was(c)' /\ Seen = Was(c)
    BY SeenIs
  <1>4. \A i \in Ids :
           /\ ItemOf(Seen', i) = IF i \in FileIds /\ saves < 3
                                 THEN [k \in Ids |-> ItemOf(Seen, k)][i]
                                 ELSE Store!ItemsDone(i, SeenRequest, fresh)
           /\ TagsOf(Seen'.tags, i) = IF saves < 2 THEN [k \in Ids |-> TagsOf(Seen.tags, k)][i]
                                      ELSE Store!TagsDone(i, SeenRequest, fresh)
    BY <1>1, <1>3, DoneIs
  <1>5. /\ [i \in Ids |-> ItemOf(Seen', i)]
           = [i \in Ids |-> IF i \in FileIds /\ saves < 3 THEN [k \in Ids |-> ItemOf(Seen, k)][i]
                            ELSE Store!ItemsDone(i, SeenRequest, fresh)]
        /\ [i \in Ids |-> TagsOf(Seen'.tags, i)]
           = [i \in Ids |-> IF saves < 2 THEN [k \in Ids |-> TagsOf(Seen.tags, k)][i]
                            ELSE Store!TagsDone(i, SeenRequest, fresh)]
    BY <1>4
  <1> QED BY <1>1, <1>2, <1>5 DEF Store!Interrupted, SeenRequest, TagsOf

LEMMA ItemOfSame ==
    ASSUME NEW a, NEW b, NEW i, a.refs = b.refs,
           i \in a.files["file_references"] <=> i \in b.files["file_references"]
    PROVE  ItemOf(a, i) = ItemOf(b, i)
  BY DEF ItemOf

\* Items of the File block are not in item_references.
LEMMA FileItem ==
    ASSUME NEW a, NEW b, NEW i \in FileIds,
           i \in a.files["file_references"] <=> i \in b.files["file_references"]
    PROVE  ItemOf(a, i) = ItemOf(b, i)
  <1>1. \A refs : ~Stored(refs, i)
    BY BlockAssumption, RefRowFields DEF Stored
  <1> QED BY <1>1, BlockAssumption DEF ItemOf

LEMMA CommandRuns ==
    ASSUME NEW c, Running(c), request[c].kind \in Commands
    PROVE  Command(c) = request[c] /\ Command(c) # NoRequest
  BY DEF Command, NoRequest, Commands

\* A command that has saved all there was to save has done what it promised.
LEMMA PromisePerforms ==
    ASSUME NEW c, Clients = {c}, Running(c), ~Running(c)',
           Promised(Was(c), request[c], job[c]), NEW saved, saved = Saved(Was(c), job[c]),
           Was(c)'.refs = saved.refs, Was(c)'.tags = saved.tags,
           Was(c)'.files["file_references"] = saved.files["file_references"]
    PROVE  Store!Perform
  <1>1. /\ Command(c) = request[c] /\ Command(c) # NoRequest /\ Command(c)' = NoRequest
        /\ request[c].new \subseteq Contents
    BY CommandRuns DEF Promised, Command
  <1>2. PICK fresh \in FreshFor(Was(c), request[c]) :
           Outcome(Was(c), request[c], job[c], fresh)
    BY DEF Promised
  <1>3. \A i \in Ids : ItemOf(Was(c)', i) = ItemOf(saved, i)
    BY ItemOfSame
  <1>4. \A i \in Ids :
           /\ ItemOf(Was(c)', i) = ItemAfter(Was(c), i, request[c], fresh)
           /\ TagsOf(Was(c)'.tags, i) = TagsAfter(Was(c), i, request[c], fresh)
    BY <1>2, <1>3 DEF Outcome
  <1> QED BY <1>1, <1>2, <1>4, StorePerforms

\* A command that stops between two saves has done a part that TagStore allows.
LEMMA PromiseStops ==
    ASSUME NEW c, Clients = {c}, Running(c), ~Running(c)',
           Promised(Was(c), request[c], job[c]), NEW saved, saved = Saved(Was(c), job[c]),
           Was(c).files["file_references"] \subseteq FileIds,
           saved.files["file_references"] \subseteq FileIds,
           NEW saves \in 1 .. 3, Was(c)'.refs = saved.refs,
           Was(c)'.tags = IF saves < 2 THEN Was(c).tags ELSE saved.tags,
           Was(c)'.files["file_references"]
           = IF saves < 3 THEN Was(c).files["file_references"]
                          ELSE saved.files["file_references"]
    PROVE  Store!Interrupted
  <1>1. /\ Command(c) = request[c] /\ Command(c) # NoRequest /\ Command(c)' = NoRequest
        /\ request[c].new \subseteq Contents
    BY CommandRuns DEF Promised, Command
  <1>2. PICK fresh \in FreshFor(Was(c), request[c]) :
           Outcome(Was(c), request[c], job[c], fresh)
    BY DEF Promised
  <1>3. ASSUME NEW i \in Ids
        PROVE  ItemOf(Was(c)', i) = IF i \in FileIds /\ saves < 3 THEN ItemOf(Was(c), i)
                                    ELSE ItemAfter(Was(c), i, request[c], fresh)
    <2>1. CASE i \in FileIds /\ saves < 3
      <3>1. Was(c)'.files["file_references"] = Was(c).files["file_references"]
        BY <2>1
      <3> QED BY <2>1, <3>1, FileItem
    <2>2. CASE ~(i \in FileIds /\ saves < 3)
      <3>1. i \in Was(c)'.files["file_references"] <=> i \in saved.files["file_references"]
        BY <2>2
      <3>2. ItemOf(Was(c)', i) = ItemOf(saved, i)
        BY <3>1, ItemOfSame
      <3>3. ItemOf(saved, i) = ItemAfter(Was(c), i, request[c], fresh)
        BY <1>2 DEF Outcome
      <3> QED BY <2>2, <3>2, <3>3
    <2> QED BY <2>1, <2>2
  <1>4. ASSUME NEW i \in Ids
        PROVE  TagsOf(Was(c)'.tags, i) = IF saves < 2 THEN TagsOf(Was(c).tags, i)
                                         ELSE TagsAfter(Was(c), i, request[c], fresh)
    <2>1. TagsOf(saved.tags, i) = TagsAfter(Was(c), i, request[c], fresh)
      BY <1>2 DEF Outcome
    <2>2. CASE saves < 2
      <3>1. Was(c)'.tags = Was(c).tags
        BY <2>2
      <3> QED BY <2>2, <3>1
    <2>3. CASE ~(saves < 2)
      <3>1. Was(c)'.tags = saved.tags
        BY <2>3
      <3> QED BY <2>1, <2>3, <3>1
    <2> QED BY <2>2, <2>3
  <1> QED BY <1>1, <1>2, <1>3, <1>4, StoreStopsAfter

-----------------------------------------------------------------------------
(* The invariant.                                                          *)

ItemsSaved(c) ==
    /\ itemRefs = Saved(Was(c), job[c]).refs
    /\ userTags = Was(c).tags /\ files = Was(c).files

TagsSaved(c) ==
    /\ itemRefs = Saved(Was(c), job[c]).refs /\ userTags = Saved(Was(c), job[c]).tags
    /\ files["file_references"] \in {Was(c).files["file_references"],
                                     Saved(Was(c), job[c]).files["file_references"]}

\* A command that has drawn its ids has decided all it will do, and the tables are
\* as it found them up to the saves it has made.
Promises(c) ==
    /\ Promised(Was(c), request[c], job[c])
    /\ Was(c).files \in [ToSet(FileTables) -> SUBSET FileIds]

StoreInv(c) ==
    /\ Sound(itemRefs, userTags)
    /\ request = [k \in Clients |-> request[k]]
    /\ before = [k \in Clients |-> before[k]]
    /\ Phase(c) \in {"idle", "draw", "refs", "refs_copied"} => before[c] = <<>>
    /\ Phase(c) = "draw" => Draft(job[c], request[c])
    /\ Running(c) => request[c].kind \in Commands
    /\ Phase(c) \in {"refs", "refs_copied", "tags", "tags_copied", "files"} => Promises(c)
    /\ Phase(c) \in {"tags", "tags_copied"} => ItemsSaved(c)
    /\ Phase(c) = "files" => TagsSaved(c)

LEMMA WasTables ==
    ASSUME NEW c, before[c] = <<>>
    PROVE  Was(c) = Tables
  BY DEF Was

LEMMA WasIs ==
    ASSUME NEW c, before'[c] = <<>>
    PROVE  /\ Was(c)'.refs = itemRefs' /\ Was(c)'.tags = userTags'
           /\ Was(c)'.files = files'
  <1>1. Was(c)' = Tables'
    BY DEF Was
  <1> QED BY <1>1 DEF Tables

\* While a command goes on, what it found stays what it found.
LEMMA WasKept ==
    ASSUME NEW c \in Clients, StoreInv(c), NEW j, NEW phase, phase # "idle",
           Enters(c, j, phase)
    PROVE  /\ Was(c)' = Was(c) /\ request' = request
           /\ before' = [k \in Clients |-> before'[k]]
           /\ SameTables => before' = before
  <1>1. /\ before' = IF tables' = tables \/ before[c] # <<>> THEN before
                     ELSE [before EXCEPT ![c] = <<Tables>>]
        /\ request' = request
    BY DEF Enters, Tables
  <1>2. before = [k \in Clients |-> before[k]]
    BY DEF StoreInv
  <1>3. CASE before[c] # <<>>
    BY <1>1, <1>2, <1>3 DEF Was
  <1>4. CASE before[c] = <<>> /\ tables' = tables
    <2>1. Tables' = Tables
      BY <1>4 DEF Tables, tables
    <2> QED BY <1>1, <1>2, <1>4, <2>1 DEF Was
  <1>5. CASE before[c] = <<>> /\ tables' # tables
    <2>1. before' = [before EXCEPT ![c] = <<Tables>>]
      BY <1>1, <1>5
    <2>2. before'[c] = <<Tables>>
      BY <1>2, <2>1
    <2>3. Was(c)' = Tables
      BY <2>2 DEF Was
    <2>4. ~SameTables
      BY <1>5 DEF SameTables, tables
    <2> QED BY <1>1, <1>2, <1>5, <2>1, <2>3, <2>4 DEF Was
  <1> QED BY <1>3, <1>4, <1>5

\* A plan that goes on is the same plan.
LEMMA SavedSame ==
    ASSUME NEW was, NEW j, NEW k, SamePlan(j, k)
    PROVE  /\ Saved(was, k) = Saved(was, j)
           /\ \A r : Promised(was, r, j) => Promised(was, r, k)
  <1>1. k.cascade = j.cascade
    BY DEF SamePlan
  <1>2. Saved(was, k) = Saved(was, j)
    BY DEF Saved, SamePlan, ItemReferencesWrite, UserTagsWrite, Kept
  <1>3. \A r, fresh : Outcome(was, r, j, fresh) <=> Outcome(was, r, k, fresh)
    BY <1>2 DEF Outcome
  <1> QED BY <1>1, <1>2, <1>3 DEF Promised

\* A command that has ended leaves nothing behind but the tables.
LEMMA EndsInv ==
    ASSUME EditInv, NEW c \in Clients, StoreInv(c), Ends(c), Sound(itemRefs', userTags')
    PROVE  StoreInv(c)' /\ ~Running(c)' /\ before'[c] = <<>>
  <1>1. job = [k \in Clients |-> job[k]]
    BY DEF EditInv, Typed
  <1>2. ~Running(c)' /\ Phase(c)' = "idle"
    BY <1>1 DEF Ends, Running, Phase
  <1>3. /\ before = [k \in Clients |-> before[k]]
        /\ request = [k \in Clients |-> request[k]]
    BY DEF StoreInv
  <1>4. /\ before'[c] = <<>> /\ before' = [k \in Clients |-> before'[k]]
        /\ request' = [k \in Clients |-> request'[k]]
    BY <1>3 DEF Ends
  <1> QED BY <1>2, <1>4 DEF StoreInv

-----------------------------------------------------------------------------
(* The steps.                                                              *)

StoreStep == Store!Next \/ UNCHANGED Store!vars

LEMMA StutterSteps ==
    ASSUME NEW c, Clients = {c}, Was(c)' = Was(c), Running(c), Running(c)',
           request' = request
    PROVE  StoreStep
  <1>1. Command(c)' = Command(c)
    BY DEF Command
  <1> QED BY <1>1, StoreStutters DEF StoreStep

LEMMA PlanSteps ==
    ASSUME ~MixedColumns, EditInv, NEW c, Clients = {c}, StoreInv(c), Plan(c)
    PROVE  StoreInv(c)' /\ StoreStep
  <1>1. PICK j, r : IsPlanned(c, j, r)
    BY PlanAsks
  <1>2. /\ job' = [job EXCEPT ![c] = j] /\ request' = [request EXCEPT ![c] = r]
        /\ UNCHANGED <<itemRefs, userTags, files, before>>
        /\ j.phase = "draw" /\ Draft(j, r) /\ r \in AllRequests
    BY <1>1 DEF IsPlanned, Starts, tables
  <1>3. /\ job = [k \in Clients |-> job[k]] /\ request = [k \in Clients |-> request[k]]
        /\ before = [k \in Clients |-> before[k]]
    BY DEF EditInv, Typed, StoreInv
  <1>4. job'[c] = j /\ request'[c] = r /\ request' = [k \in Clients |-> request'[k]]
    BY <1>2, <1>3
  <1>5. Running(c)' /\ Phase(c)' = "draw"
    BY <1>2, <1>4 DEF Running, Phase, Idle
  <1>6. ~Running(c) /\ before[c] = <<>>
    BY DEF Plan, StoreInv, Phase
  <1>7. SameTables
    BY <1>2 DEF SameTables
  <1>8. (Draft(job[c], request[c]))'
    BY <1>2, <1>4, <1>7, DraftKept
  <1>9. r.kind \in Commands
    BY <1>2 DEF Draft, TagDraft, PlainDraft, UntagDraft, ForgetDraft, NoteDraft, Commands
  <1>10. Sound(itemRefs', userTags')
    BY <1>2 DEF StoreInv
  <1>11. StoreInv(c)'
    BY <1>2, <1>3, <1>4, <1>5, <1>6, <1>8, <1>9, <1>10 DEF StoreInv
  <1>12. Was(c)' = Was(c)
    BY <1>2 DEF Was, Tables
  <1>13. Command(c) = NoRequest /\ Command(c)' \in AllRequests
    BY <1>2, <1>4, <1>5, <1>6 DEF Command
  <1> QED BY <1>11, <1>12, <1>13, StoreAsks DEF StoreStep, Store!Next

LEMMA AfterIs ==
    ASSUME NEW j
    PROVE  /\ AfterRefs(j) = IF NeedsTags(j) THEN "tags" ELSE "idle"
           /\ AfterDraw(j) = IF NeedsRefs(j) THEN "refs"
                             ELSE IF NeedsTags(j) THEN "tags" ELSE "idle"
  BY DEF AfterRefs, AfterDraw, AfterTags, NeedsTags

\* What a plan does not need to save would not change.
LEMMA RefsUnneeded ==
    ASSUME itemRefs \in [RefRow -> Nat], NEW j, j.refRows \in [RefRow -> Nat], ~NeedsRefs(j)
    PROVE  ItemReferencesWrite(itemRefs, j) = itemRefs
  <1>1. \A r \in RefRow : j.refRows[r] = 0 /\ itemRefs[r] \in Nat
    BY DEF NeedsRefs
  <1>2. j.cascade \ FileIds = {}
    BY DEF NeedsRefs
  <1> QED BY <1>1, <1>2 DEF ItemReferencesWrite

LEMMA TagsUnneeded ==
    ASSUME NEW rows, rows \subseteq Row, NEW j, ~NeedsTags(j)
    PROVE  UserTagsWrite(rows, j) = rows
  <1>1. j.inserts = {} /\ j.deletes = {} /\ j.cascade = {} /\ j.cast = NoCast
    BY DEF NeedsTags
  <1>2. Kept(rows, j) = rows
    BY <1>1 DEF Kept
  <1>3. \A r \in rows : CastRow(r, NoCast) = r
    BY NoCastType DEF CastRow, Row
  <1> QED BY <1>1, <1>2, <1>3 DEF UserTagsWrite

\* A command that goes on after drawing its ids has the plan that was drawn.
LEMMA EntersDrawn ==
    ASSUME EditInv, NEW c \in Clients, NEW j, NEW ids, NEW f, NEW p, p = DrawnPlan(j, ids, f),
           NEW phase \in WritePhases, Enters(c, p, phase)
    PROVE  Running(c)' /\ Phase(c)' = phase /\ SamePlan(p, job'[c])
  <1>1. job' = [job EXCEPT ![c] = [p EXCEPT !.phase = phase]]
    BY DEF Enters, WritePhases
  <1>2. job = [k \in Clients |-> job[k]]
    BY DEF EditInv, Typed
  <1>3. job'[c] = [p EXCEPT !.phase = phase]
    BY <1>1, <1>2
  <1>4. /\ job'[c].phase = phase /\ job'[c].new = p.new /\ job'[c].adds = p.adds
        /\ job'[c].refRows = p.refRows /\ job'[c].inserts = p.inserts
        /\ job'[c].deletes = p.deletes /\ job'[c].cascade = p.cascade
        /\ job'[c].cast = p.cast
    BY <1>3 DEF DrawnPlan
  <1>5. Running(c)' /\ Phase(c)' = phase
    BY <1>4 DEF Running, Phase, Idle, WritePhases
  <1> QED BY <1>4, <1>5 DEF SamePlan

LEMMA DrawSteps ==
    ASSUME ConfigsAlone, EditInv, NEW c, Clients = {c}, StoreInv(c),
           torn \cap UserIds = {}, ResolveVolatiles(c)
    PROVE  StoreInv(c)' /\ StoreStep
  <1> DEFINE j == job[c]
             r == request[c]
             ids == NextUserId .. NextUserId + Cardinality(j.new) - 1
  <1>1. Phase(c) = "draw" /\ Running(c) /\ IsPlan(j)
    BY WritesPlan DEF ResolveVolatiles, WritePhases
  <1>2. /\ ids \subseteq UserIds /\ SameTables
        /\ \E f \in [ids -> j.new] :
              /\ j.new = {f[i] : i \in ids}
              /\ Enters(c, DrawnPlan(j, ids, f), AfterDraw(DrawnPlan(j, ids, f)))
    BY <1>1, DrawsPlan DEF tables, SameTables
  <1>3. PICK f \in [ids -> j.new] :
           /\ j.new = {f[i] : i \in ids}
           /\ Enters(c, DrawnPlan(j, ids, f), AfterDraw(DrawnPlan(j, ids, f)))
    BY <1>2
  <1>4. /\ before[c] = <<>> /\ Draft(j, r) /\ Sound(itemRefs, userTags)
        /\ r.kind \in Commands
    BY <1>1 DEF StoreInv
  <1>5. DrawnFor(j.new, ids, f)
    <2>1. Draws(j.new, ids, f)
      BY <1>1, <1>3 DEF Draws, IsPlan
    <2> QED BY <1>1, <1>2, <2>1, DrawnIds
  <1>6. RowsAreDrawn(j, ids, f)
    BY <1>1, <1>2, <1>3, DrawnRowsFacts DEF IsPlan
  <1> DEFINE p == DrawnPlan(j, ids, f)
             phase == AfterDraw(p)
  <1>7. Promised(Tables, r, p)
    <2>1. DrawnFor(r.new, ids, f)
      BY <1>4, <1>5 DEF Draft, Cascades
    <2> HIDE DEF ids
    <2> QED BY <1>4, <1>6, <2>1, DrawnPromise
  <1>8. p.refRows \in [RefRow -> Nat]
    BY <1>6, DrawnFields DEF RowsAreDrawn
  <1>9. Enters(c, p, phase)
    BY <1>3
  <1>10. /\ itemRefs' = itemRefs /\ userTags' = userTags /\ files' = files
    BY <1>2 DEF SameTables
  <1>11. /\ itemRefs \in [RefRow -> Nat] /\ files \in [ToSet(FileTables) -> SUBSET FileIds]
    BY DEF EditInv, Typed
  <1>12. /\ Saved(Tables, p).refs = ItemReferencesWrite(itemRefs, p)
         /\ Tables.tags = userTags /\ Tables.files = files /\ Was(c) = Tables
    BY <1>4, SavedIs, TablesAre, WasTables
  <1>13. /\ phase = IF NeedsRefs(p) THEN "refs" ELSE IF NeedsTags(p) THEN "tags" ELSE "idle"
         /\ ~NeedsRefs(p) => ItemReferencesWrite(itemRefs, p) = itemRefs
    BY <1>8, <1>11, AfterIs, RefsUnneeded
  <1>14. CASE phase = "idle"
    <2>1. Ends(c)
      BY <1>9, <1>14 DEF Enters
    <2>2. StoreInv(c)' /\ ~Running(c)' /\ before'[c] = <<>>
      BY <1>4, <1>10, <2>1, EndsInv
    <2>3. Was(c)' = Was(c)
      BY <1>4, <1>10, <2>2 DEF Was, Tables
    <2>4. Command(c) # NoRequest /\ Command(c)' = NoRequest
      BY <1>1, <1>4, <2>2, CommandRuns DEF Command
    <2> QED BY <2>2, <2>3, <2>4, StoreStops DEF StoreStep, Store!Next
  <1>15. CASE phase # "idle"
    <2>1. phase \in {"refs", "tags"}
      BY <1>13, <1>15
    <2>2. Running(c)' /\ Phase(c)' = phase /\ SamePlan(p, job'[c])
      <3> HIDE DEF j, ids, phase
      <3> QED BY <1>9, <2>1, EntersDrawn DEF WritePhases
    <2> HIDE DEF p, phase
    <2>3. /\ Was(c)' = Was(c) /\ request' = request
          /\ before' = [k \in Clients |-> before'[k]] /\ before' = before
      BY <1>2, <1>9, <1>15, WasKept
    <2>4. Saved(Tables, job'[c]) = Saved(Tables, p) /\ Promised(Tables, r, job'[c])
      BY <1>7, <2>2, SavedSame
    <2>5. Promises(c)'
      BY <1>11, <1>12, <2>3, <2>4 DEF Promises
    <2>6. phase = "tags" => ItemsSaved(c)'
      <3> SUFFICES ASSUME phase = "tags" PROVE ItemsSaved(c)'
        OBVIOUS
      <3>1. itemRefs = Saved(Tables, p).refs
        BY <1>12, <1>13
      <3> QED BY <1>10, <1>12, <2>3, <2>4, <3>1 DEF ItemsSaved
    <2>7. Sound(itemRefs', userTags')
      BY <1>4, <1>10
    <2>8. StoreInv(c)'
      BY <1>4, <2>1, <2>2, <2>3, <2>5, <2>6, <2>7 DEF StoreInv
    <2> QED BY <1>1, <2>2, <2>3, <2>8, StutterSteps
  <1> QED BY <1>14, <1>15

\* A copy is not seen by anybody.
LEMMA CopyKeeps ==
    ASSUME EditInv, NEW c, Clients = {c}, StoreInv(c), NEW phase \in WritePhases,
           job[c].phase \in WritePhases, job' = [job EXCEPT ![c].phase = phase],
           UNCHANGED <<tables, history>>
    PROVE  /\ Was(c)' = Was(c) /\ Running(c)' /\ Phase(c)' = phase /\ StoreStep
           /\ request' = request /\ before' = before /\ Sound(itemRefs', userTags')
           /\ Promises(c) => Promises(c)'
           /\ ItemsSaved(c) => ItemsSaved(c)'
  <1>1. /\ SameTables /\ request' = request /\ before' = before
    BY DEF tables, history, SameTables
  <1>2. Running(c) /\ IsPlan(job[c]) /\ DeletesOrAdds(job[c])
    BY WritesPlan
  <1>3. GoesOn(c, phase)
    BY <1>2, CopyGoesOn
  <1>4. Running(c)' /\ Phase(c)' = phase /\ SamePlan(job[c], job'[c])
    BY <1>3 DEF GoesOn, WritePhases
  <1>5. Was(c)' = Was(c)
    BY <1>1 DEF Was, Tables, SameTables
  <1>6. /\ Saved(Was(c), job'[c]) = Saved(Was(c), job[c])
        /\ Promised(Was(c), request[c], job[c]) => Promised(Was(c), request[c], job'[c])
    BY <1>4, SavedSame
  <1>7. Promises(c) => Promises(c)'
    BY <1>1, <1>5, <1>6 DEF Promises
  <1>8. ItemsSaved(c) => ItemsSaved(c)'
    BY <1>1, <1>5, <1>6 DEF ItemsSaved, SameTables
  <1>9. Sound(itemRefs', userTags')
    BY <1>1 DEF StoreInv, SameTables
  <1> QED BY <1>1, <1>2, <1>4, <1>5, <1>7, <1>8, <1>9, StutterSteps

LEMMA CopyRefsSteps ==
    ASSUME EditInv, NEW c, Clients = {c}, StoreInv(c), CopyRefs(c)
    PROVE  StoreInv(c)' /\ StoreStep
  <1>1. /\ job[c].phase = "refs" /\ job' = [job EXCEPT ![c].phase = "refs_copied"]
        /\ UNCHANGED <<tables, history>>
    BY DEF CopyRefs
  <1>2. Phase(c) = "refs" /\ Running(c)
    BY <1>1, WritesPlan DEF WritePhases
  <1>3. /\ Was(c)' = Was(c) /\ Running(c)' /\ Phase(c)' = "refs_copied" /\ StoreStep
        /\ request' = request /\ before' = before /\ Sound(itemRefs', userTags')
        /\ Promises(c) => Promises(c)'
    BY <1>1, CopyKeeps DEF WritePhases
  <1>4. /\ before[c] = <<>> /\ Promises(c) /\ request[c].kind \in Commands
        /\ request = [k \in Clients |-> request[k]] /\ before = [k \in Clients |-> before[k]]
    BY <1>2 DEF StoreInv
  <1> QED BY <1>3, <1>4 DEF StoreInv

LEMMA RenameRefsSteps ==
    ASSUME EditInv, NEW c, Clients = {c}, StoreInv(c), RenameRefs(c)
    PROVE  StoreInv(c)' /\ StoreStep
  <1> DEFINE j == job[c]
             phase == AfterRefs(j)
  <1>1. job[c].phase = "refs_copied"
    BY DEF RenameRefs
  <1>2. Phase(c) = "refs_copied" /\ Running(c) /\ IsPlan(j) /\ DeletesOrAdds(j)
    BY <1>1, WritesPlan DEF WritePhases
  <1>3. tmp.refs = <<ItemReferencesWrite(itemRefs, j)>>
    BY <1>2 DEF EditInv, Copied
  <1>4. tmp.refs # <<>> /\ tmp.refs[1] = ItemReferencesWrite(itemRefs, j)
    BY <1>3
  <1>5. /\ itemRefs' = ItemReferencesWrite(itemRefs, j)
        /\ UNCHANGED <<userTags, files>> /\ Enters(c, j, phase)
    BY <1>4 DEF RenameRefs
  <1>6. /\ before[c] = <<>> /\ Promises(c) /\ request[c].kind \in Commands
        /\ request = [k \in Clients |-> request[k]] /\ before = [k \in Clients |-> before[k]]
        /\ userTags \subseteq Row
    BY <1>2 DEF StoreInv, Sound
  <1>7. files \in [ToSet(FileTables) -> SUBSET FileIds]
    BY DEF EditInv, Typed
  <1>8. /\ Was(c).refs = itemRefs /\ Was(c).tags = userTags /\ Was(c).files = files
        /\ Saved(Was(c), j).refs = ItemReferencesWrite(itemRefs, j)
        /\ Saved(Was(c), j).tags = UserTagsWrite(userTags, j)
        /\ Saved(Was(c), j).files["file_references"] = files["file_references"] \ j.cascade
    <2>1. Was(c) = Tables
      BY <1>6, WasTables
    <2>2. /\ Saved(Tables, j).refs = ItemReferencesWrite(itemRefs, j)
          /\ Saved(Tables, j).tags = UserTagsWrite(userTags, j)
          /\ Saved(Tables, j).files["file_references"] = files["file_references"] \ j.cascade
      BY <1>7, SavedIs
    <2> HIDE DEF j
    <2> QED BY <2>1, <2>2, TablesAre
  <1>9. Promised(Was(c), request[c], j)
    BY <1>6 DEF Promises
  <1>10. Sound(itemRefs', userTags')
    BY <1>5, <1>8, <1>9 DEF Promised
  <1>11. phase = IF NeedsTags(j) THEN "tags" ELSE "idle"
    BY AfterIs
  <1>12. CASE phase = "idle"
    <2>1. Ends(c)
      BY <1>5, <1>12 DEF Enters
    <2>2. StoreInv(c)' /\ ~Running(c)' /\ before'[c] = <<>>
      BY <1>10, <2>1, EndsInv
    <2>3. UserTagsWrite(userTags, j) = userTags /\ j.cascade = {}
      BY <1>6, <1>11, <1>12, TagsUnneeded DEF NeedsTags
    <2> HIDE DEF j
    <2>4. /\ Was(c)'.refs = Saved(Was(c), j).refs /\ Was(c)'.tags = Saved(Was(c), j).tags
          /\ Was(c)'.files["file_references"] = Saved(Was(c), j).files["file_references"]
      BY <1>5, <1>8, <2>2, <2>3, WasIs
    <2>5. Store!Perform
      BY <1>2, <1>9, <2>2, <2>4, PromisePerforms DEF j
    <2> QED BY <2>2, <2>5 DEF StoreStep, Store!Next
  <1>13. CASE phase = "tags"
    <2>1. Running(c)' /\ Phase(c)' = "tags" /\ SamePlan(j, job'[c])
      BY <1>2, <1>5, <1>13, EntersGoesOn DEF WritePhases, GoesOn
    <2>2. /\ Was(c)' = Was(c) /\ request' = request
          /\ before' = [k \in Clients |-> before'[k]]
      BY <1>5, <1>13, WasKept
    <2>3. /\ Saved(Was(c), job'[c]) = Saved(Was(c), j)
          /\ Promised(Was(c), request[c], job'[c])
      BY <1>9, <2>1, SavedSame
    <2>4. Promises(c)'
      BY <1>6, <2>2, <2>3 DEF Promises
    <2>5. ItemsSaved(c)'
      BY <1>5, <1>8, <2>2, <2>3 DEF ItemsSaved
    <2>6. StoreInv(c)'
      BY <1>6, <1>10, <2>1, <2>2, <2>4, <2>5 DEF StoreInv
    <2> QED BY <1>2, <2>1, <2>2, <2>6, StutterSteps
  <1> QED BY <1>11, <1>12, <1>13

LEMMA SavedFiles ==
    ASSUME NEW was, was.files \in [ToSet(FileTables) -> SUBSET FileIds], NEW j
    PROVE  /\ Saved(was, j).files["file_references"]
              = was.files["file_references"] \ j.cascade
           /\ was.files["file_references"] \subseteq FileIds
           /\ Saved(was, j).files["file_references"] \subseteq FileIds
           /\ Saved(was, j).refs = ItemReferencesWrite(was.refs, j)
           /\ Saved(was, j).tags = UserTagsWrite(was.tags, j)
  BY FileTableNames DEF Saved

\* A command that fails or dies has saved what TagStore says it may have.
LEMMA StopSteps ==
    ASSUME EditInv, NEW c, Clients = {c}, StoreInv(c), Running(c), Ends(c), SameTables
    PROVE  StoreInv(c)' /\ StoreStep
  <1>1. /\ itemRefs' = itemRefs /\ userTags' = userTags /\ files' = files
        /\ Sound(itemRefs', userTags') /\ request[c].kind \in Commands
    BY DEF SameTables, StoreInv
  <1>2. StoreInv(c)' /\ ~Running(c)' /\ before'[c] = <<>>
    BY <1>1, EndsInv
  <1>3. /\ Was(c)'.refs = itemRefs /\ Was(c)'.tags = userTags /\ Was(c)'.files = files
    BY <1>1, <1>2, WasIs
  <1>4. Phase(c) \in WritePhases
    BY DEF EditInv, Typed, IsPlan, Phase
  <1>5. CASE Phase(c) \in {"draw", "refs", "refs_copied"}
    <2>1. before[c] = <<>>
      BY <1>5 DEF StoreInv
    <2>2. Was(c)' = Was(c)
      BY <1>1, <1>2, <2>1 DEF Was, Tables
    <2>3. Command(c) # NoRequest /\ Command(c)' = NoRequest
      BY <1>1, <1>2, CommandRuns DEF Command
    <2> QED BY <1>2, <2>2, <2>3, StoreStops DEF StoreStep, Store!Next
  <1> DEFINE saved == Saved(Was(c), job[c])
  <1>6. CASE Phase(c) \in {"tags", "tags_copied"}
    <2>1. Promises(c) /\ ItemsSaved(c)
      BY <1>6 DEF StoreInv
    <2>2. /\ Was(c).files["file_references"] \subseteq FileIds
          /\ saved.files["file_references"] \subseteq FileIds
      BY <2>1, SavedFiles DEF Promises
    <2>3. /\ Was(c)'.refs = saved.refs /\ Was(c)'.tags = Was(c).tags
          /\ Was(c)'.files["file_references"] = Was(c).files["file_references"]
      BY <1>3, <2>1 DEF ItemsSaved
    <2>4. Promised(Was(c), request[c], job[c])
      BY <2>1 DEF Promises
    <2>5. PICK saves \in 1 .. 3 : saves = 1
      OBVIOUS
    <2>6. /\ Was(c)'.tags = IF saves < 2 THEN Was(c).tags ELSE saved.tags
          /\ Was(c)'.files["file_references"]
             = IF saves < 3 THEN Was(c).files["file_references"]
                            ELSE saved.files["file_references"]
      BY <2>3, <2>5
    <2> HIDE DEF saved
    <2>7. Store!Interrupted
      BY <1>2, <2>2, <2>3, <2>4, <2>6, PromiseStops DEF saved
    <2> QED BY <1>2, <2>7 DEF StoreStep, Store!Next
  <1>7. CASE Phase(c) = "files"
    <2>1. Promises(c) /\ TagsSaved(c)
      BY <1>7 DEF StoreInv
    <2>2. /\ Was(c).files["file_references"] \subseteq FileIds
          /\ saved.files["file_references"] \subseteq FileIds
      BY <2>1, SavedFiles DEF Promises
    <2>3. /\ Was(c)'.refs = saved.refs /\ Was(c)'.tags = saved.tags
          /\ Was(c)'.files["file_references"]
             \in {Was(c).files["file_references"], saved.files["file_references"]}
      BY <1>3, <2>1 DEF TagsSaved
    <2>4. Promised(Was(c), request[c], job[c])
      BY <2>1 DEF Promises
    <2>5. PICK saves \in 1 .. 3 :
             /\ saves >= 2
             /\ Was(c)'.files["file_references"]
                = IF saves < 3 THEN Was(c).files["file_references"]
                               ELSE saved.files["file_references"]
      <3>1. CASE Was(c)'.files["file_references"] = Was(c).files["file_references"]
        <4>1. 2 \in 1 .. 3 /\ 2 >= 2 /\ 2 < 3
          OBVIOUS
        <4> HIDE DEF saved
        <4> QED BY <3>1, <4>1
      <3>2. CASE Was(c)'.files["file_references"] = saved.files["file_references"]
        <4>1. 3 \in 1 .. 3 /\ 3 >= 2 /\ ~(3 < 3)
          OBVIOUS
        <4> HIDE DEF saved
        <4> QED BY <3>2, <4>1
      <3> HIDE DEF saved
      <3> QED BY <2>3, <3>1, <3>2
    <2>6. Was(c)'.tags = IF saves < 2 THEN Was(c).tags ELSE saved.tags
      BY <2>3, <2>5
    <2> HIDE DEF saved
    <2>7. Store!Interrupted
      BY <1>2, <2>2, <2>3, <2>4, <2>5, <2>6, PromiseStops DEF saved
    <2> QED BY <1>2, <2>7 DEF StoreStep, Store!Next
  <1> QED BY <1>4, <1>5, <1>6, <1>7 DEF WritePhases

LEMMA CopyTagsSteps ==
    ASSUME EditInv, NEW c, Clients = {c}, StoreInv(c), CopyTags(c)
    PROVE  StoreInv(c)' /\ StoreStep
  <1>1. job[c].phase = "tags" /\ UNCHANGED tables
    BY DEF CopyTags
  <1>2. Phase(c) = "tags" /\ Running(c)
    BY <1>1, WritesPlan DEF WritePhases
  <1>3. CASE job' = [job EXCEPT ![c].phase = "tags_copied"] /\ UNCHANGED history
    <2>1. /\ Was(c)' = Was(c) /\ Running(c)' /\ Phase(c)' = "tags_copied" /\ StoreStep
          /\ request' = request /\ before' = before /\ Sound(itemRefs', userTags')
          /\ Promises(c) => Promises(c)'
          /\ ItemsSaved(c) => ItemsSaved(c)'
      BY <1>1, <1>3, CopyKeeps DEF WritePhases
    <2>2. /\ Promises(c) /\ ItemsSaved(c) /\ request[c].kind \in Commands
          /\ request = [k \in Clients |-> request[k]] /\ before = [k \in Clients |-> before[k]]
      BY <1>2 DEF StoreInv
    <2> QED BY <2>1, <2>2 DEF StoreInv
  <1>4. CASE Stops(c)
    BY <1>1, <1>2, <1>4, StopSteps DEF Stops, SameTables, tables
  <1> QED BY <1>3, <1>4 DEF CopyTags

LEMMA RenameTagsSteps ==
    ASSUME EditInv, NEW c, Clients = {c}, StoreInv(c), RenameTags(c)
    PROVE  StoreInv(c)' /\ StoreStep
  <1> DEFINE j == job[c]
             phase == AfterTags(j)
             saved == Saved(Was(c), j)
  <1>1. job[c].phase = "tags_copied"
    BY DEF RenameTags
  <1>2. Phase(c) = "tags_copied" /\ Running(c) /\ IsPlan(j) /\ DeletesOrAdds(j)
    BY <1>1, WritesPlan DEF WritePhases
  <1>3. tmp.tags = <<UserTagsWrite(userTags, j)>>
    BY <1>2 DEF EditInv, Copied
  <1>4. tmp.tags # <<>> /\ tmp.tags[1] = UserTagsWrite(userTags, j)
    BY <1>3
  <1>5. /\ userTags' = UserTagsWrite(userTags, j)
        /\ UNCHANGED <<itemRefs, files>> /\ Enters(c, j, phase)
    BY <1>4 DEF RenameTags
  <1>6. /\ Promises(c) /\ ItemsSaved(c) /\ request[c].kind \in Commands
        /\ request = [k \in Clients |-> request[k]] /\ before = [k \in Clients |-> before[k]]
    BY <1>2 DEF StoreInv
  <1>7. /\ saved.files["file_references"] = Was(c).files["file_references"] \ j.cascade
        /\ Was(c).files["file_references"] \subseteq FileIds
        /\ saved.tags = UserTagsWrite(Was(c).tags, j)
    BY <1>6, SavedFiles DEF Promises
  <1>8. /\ itemRefs' = saved.refs /\ userTags' = saved.tags /\ files' = Was(c).files
    BY <1>5, <1>6, <1>7 DEF ItemsSaved
  <1>9. Promised(Was(c), request[c], j)
    BY <1>6 DEF Promises
  <1>10. Sound(itemRefs', userTags')
    BY <1>8, <1>9 DEF Promised
  <1>11. /\ phase = IF j.cascade \cap FileIds = {} THEN "idle" ELSE "files"
    BY DEF AfterTags
  <1>12. CASE phase = "idle"
    <2>1. Ends(c)
      BY <1>5, <1>12 DEF Enters
    <2>2. StoreInv(c)' /\ ~Running(c)' /\ before'[c] = <<>>
      BY <1>10, <2>1, EndsInv
    <2>3. saved.files["file_references"] = Was(c).files["file_references"]
      BY <1>7, <1>11, <1>12
    <2> HIDE DEF j, saved
    <2>4. /\ Was(c)'.refs = saved.refs /\ Was(c)'.tags = saved.tags
          /\ Was(c)'.files["file_references"] = saved.files["file_references"]
      BY <1>8, <2>2, <2>3, WasIs
    <2>5. Store!Perform
      BY <1>2, <1>9, <2>2, <2>4, PromisePerforms DEF j, saved
    <2> QED BY <2>2, <2>5 DEF StoreStep, Store!Next
  <1>13. CASE phase = "files"
    <2>1. Running(c)' /\ Phase(c)' = "files" /\ SamePlan(j, job'[c])
      BY <1>2, <1>5, <1>13, EntersGoesOn DEF WritePhases, GoesOn
    <2>2. /\ Was(c)' = Was(c) /\ request' = request
          /\ before' = [k \in Clients |-> before'[k]]
      BY <1>5, <1>13, WasKept
    <2>3. /\ Saved(Was(c), job'[c]) = saved
          /\ Promised(Was(c), request[c], job'[c])
      BY <1>9, <2>1, SavedSame
    <2>4. Promises(c)'
      BY <1>6, <2>2, <2>3 DEF Promises
    <2>5. TagsSaved(c)'
      <3> HIDE DEF saved
      <3> QED BY <1>8, <2>2, <2>3 DEF TagsSaved
    <2>6. StoreInv(c)'
      BY <1>6, <1>10, <2>1, <2>2, <2>4, <2>5 DEF StoreInv
    <2> QED BY <1>2, <2>1, <2>2, <2>6, StutterSteps
  <1> QED BY <1>11, <1>12, <1>13

LEMMA CascadeFileSteps ==
    ASSUME EditInv, NEW c, Clients = {c}, StoreInv(c), CascadeFile(c)
    PROVE  StoreInv(c)' /\ StoreStep
  <1> DEFINE j == job[c]
             gone == j.cascade
             left == {k \in DOMAIN FileTables : files[FileTables[k]] \cap gone # {}}
             next == CHOOSE k \in left : \A m \in left : k <= m
             last == left \subseteq {next}
             phase == IF last THEN "idle" ELSE "files"
             fr == "file_references"
             saved == Saved(Was(c), j)
  <1>1. job[c].phase = "files"
    BY DEF CascadeFile
  <1>2. Phase(c) = "files" /\ Running(c) /\ IsPlan(j) /\ DeletesOrAdds(j)
    BY <1>1, WritesPlan DEF WritePhases
  <1>3. /\ IF left = {} THEN files' = files
           ELSE files' = [files EXCEPT ![FileTables[next]] = @ \ gone]
        /\ UNCHANGED <<itemRefs, userTags>> /\ Enters(c, j, phase)
    BY DEF CascadeFile
  <1>4. /\ Promises(c) /\ TagsSaved(c) /\ request[c].kind \in Commands
        /\ request = [k \in Clients |-> request[k]] /\ before = [k \in Clients |-> before[k]]
        /\ Sound(itemRefs, userTags)
    BY <1>2 DEF StoreInv
  <1> HIDE DEF next
  <1>5. phase \in {"files", "idle"} /\ (phase = "idle" <=> last)
    OBVIOUS
  <1>6. files \in [ToSet(FileTables) -> SUBSET FileIds]
    BY DEF EditInv, Typed
  <1>7. files'[fr] \in {files[fr], files[fr] \ gone}
    <2> HIDE DEF left, gone
    <2> QED BY <1>3, <1>6, FileTableNames
  <1>8. last => files'[fr] \cap gone = {}
    <2> SUFFICES ASSUME last, NEW i \in files'[fr], i \in gone
                 PROVE  FALSE
      OBVIOUS
    <2>1. PICK k \in DOMAIN FileTables : fr = FileTables[k]
      BY FileTableNames
    <2>2. k \in left
      BY <1>7, <2>1
    <2>3. k = next /\ left # {}
      BY <2>2
    <2> HIDE DEF left, gone
    <2>4. files'[fr] = files[fr] \ gone
      BY <1>3, <1>6, <2>1, <2>3, FileTableNames
    <2> QED BY <2>4
  <1> HIDE DEF left, last
  <1>9. saved.files[fr] = Was(c).files[fr] \ gone
    BY <1>4, SavedFiles DEF Promises
  <1>10. Promised(Was(c), request[c], j) /\ itemRefs = saved.refs /\ userTags = saved.tags
         /\ files[fr] \in {Was(c).files[fr], saved.files[fr]}
    BY <1>4 DEF Promises, TagsSaved
  <1> HIDE DEF saved, gone
  <1>11. files'[fr] \in {Was(c).files[fr], saved.files[fr]}
    BY <1>7, <1>9, <1>10
  <1>12. last => files'[fr] = saved.files[fr]
    BY <1>8, <1>9, <1>11
  <1>13. /\ itemRefs' = saved.refs /\ userTags' = saved.tags /\ Sound(itemRefs', userTags')
    BY <1>3, <1>4, <1>10
  <1>14. CASE phase = "idle"
    <2>1. Ends(c)
      BY <1>3, <1>14 DEF Enters
    <2>2. StoreInv(c)' /\ ~Running(c)' /\ before'[c] = <<>>
      BY <1>13, <2>1, EndsInv
    <2>3. /\ Was(c)'.refs = saved.refs /\ Was(c)'.tags = saved.tags
          /\ Was(c)'.files[fr] = saved.files[fr]
      BY <1>5, <1>12, <1>13, <1>14, <2>2, WasIs
    <2> HIDE DEF j
    <2>4. Store!Perform
      BY <1>2, <1>10, <2>2, <2>3, PromisePerforms DEF j, saved
    <2> QED BY <2>2, <2>4 DEF StoreStep, Store!Next
  <1>15. CASE phase = "files"
    <2>1. Running(c)' /\ Phase(c)' = "files" /\ SamePlan(j, job'[c])
      BY <1>2, <1>3, <1>15, EntersGoesOn DEF WritePhases, GoesOn
    <2>2. /\ Was(c)' = Was(c) /\ request' = request
          /\ before' = [k \in Clients |-> before'[k]]
      BY <1>3, <1>4, <1>15, WasKept
    <2>3. /\ Saved(Was(c), job'[c]) = saved
          /\ Promised(Was(c), request[c], job'[c])
      BY <1>10, <2>1, SavedSame DEF saved
    <2>4. Promises(c)'
      BY <1>4, <2>2, <2>3 DEF Promises
    <2>5. TagsSaved(c)'
      BY <1>11, <1>13, <2>2, <2>3 DEF TagsSaved
    <2>6. StoreInv(c)'
      BY <1>4, <1>13, <2>1, <2>2, <2>4, <2>5 DEF StoreInv
    <2> QED BY <1>2, <2>1, <2>2, <2>6, StutterSteps
  <1> QED BY <1>5, <1>14, <1>15

LEMMA CrashSteps ==
    ASSUME EditInv, NEW c, Clients = {c}, StoreInv(c), Crash(c)
    PROVE  StoreInv(c)' /\ StoreStep
  BY StopSteps DEF Crash, Stops, SameTables, tables

\* A step that changes nothing.
LEMMA StillInv ==
    ASSUME NEW c, StoreInv(c), UNCHANGED vars
    PROVE  StoreInv(c)' /\ Was(c)' = Was(c) /\ Command(c)' = Command(c)
  <1>1. /\ SameTables /\ UNCHANGED <<job, before, request>>
        /\ UNCHANGED <<itemRefs, userTags, files>>
    BY DEF vars, tables, history, SameTables
  <1>2. /\ Running(c)' <=> Running(c)
        /\ Phase(c)' = Phase(c)
    BY <1>1 DEF Running, Phase
  <1>3. Was(c)' = Was(c)
    BY <1>1 DEF Was, Tables
  <1>4. Command(c)' = Command(c)
    BY <1>1, <1>2 DEF Command
  <1>5. Draft(job[c], request[c]) => Draft(job[c], request[c])'
    BY <1>1, DraftKept
  <1>6. Promises(c) => Promises(c)'
    BY <1>1, <1>3 DEF Promises
  <1>7. ItemsSaved(c) => ItemsSaved(c)'
    BY <1>1, <1>3 DEF ItemsSaved
  <1>8. TagsSaved(c) => TagsSaved(c)'
    BY <1>1, <1>3 DEF TagsSaved
  <1> QED BY <1>1, <1>2, <1>3, <1>4, <1>5, <1>6, <1>7, <1>8 DEF StoreInv

-----------------------------------------------------------------------------
(* The specification.                                                      *)

LEMMA InitStore ==
    ASSUME NEW c, Clients = {c}, Init
    PROVE  StoreInv(c) /\ Store!Init
  <1>1. ~Running(c) /\ Phase(c) = "idle" /\ before[c] = <<>>
        /\ userTags = {} /\ files["file_references"] = FileIds
        /\ itemRefs = [r \in RefRow |-> 0]
    BY FileTableNames DEF Init, Running, Phase
  <1>2. Sound(itemRefs, userTags)
    BY <1>1 DEF Sound, Uniform, OneConfig, Configured
  <1>3. StoreInv(c)
    BY <1>1, <1>2 DEF StoreInv, Init
  <1>4. Was(c) = Tables /\ Command(c) = NoRequest
    BY <1>1 DEF Was, Command
  <1>5. ASSUME NEW i \in Ids
        PROVE  /\ Items(Tables)[i] \in Contents \cup {FileContent, NoContent}
               /\ Tags(Tables)[i] = {}
    <2>1. Tags(Tables)[i] = {}
      BY <1>1 DEF Tags, Tables, TagsOf
    <2>2. ~Stored(itemRefs, i)
      BY <1>1 DEF Stored
    <2>3. i \in BuiltinIds => BuiltinName[i] \in Contents
      BY DEF Contents, DefinedTypes, BuiltinTypes
    <2>4. ItemOf(Tables, i) \in Contents \cup {FileContent, NoContent}
      BY <2>2, <2>3 DEF ItemOf, Tables
    <2> QED BY <2>1, <2>4 DEF Items
  <1>6. Store!vars = <<Items(Tables), Tags(Tables), NoRequest>>
    BY <1>4, StoreIs
  <1> QED BY <1>3, <1>5, <1>6 DEF Store!Init, Store!vars

LEMMA NextSteps ==
    ASSUME ~MixedColumns, ConfigsAlone, EditInv, NEW c, Clients = {c}, StoreInv(c),
           torn \cap UserIds = {}, [Next]_vars
    PROVE  StoreInv(c)' /\ StoreStep
  <1>1. CASE Plan(c)
    BY <1>1, PlanSteps
  <1>2. CASE Write(c)
    BY <1>2, DrawSteps, CopyRefsSteps, RenameRefsSteps, CopyTagsSteps, RenameTagsSteps,
       CascadeFileSteps DEF Write
  <1>3. CASE Crash(c)
    BY <1>3, CrashSteps
  <1>4. CASE UNCHANGED vars
    BY <1>4, StillInv, StoreStutters DEF StoreStep
  <1> QED BY <1>1, <1>2, <1>3, <1>4 DEF Next

\* What was cut short once stays in cut.
LEMMA CutSteps ==
    ASSUME NEW c, Clients = {c}, torn \subseteq cut, [Next]_vars
    PROVE  torn' \subseteq cut' /\ cut \subseteq cut'
  <1>1. CASE Plan(c)
    <2>1. \A j, r : Starts(c, j, r) => torn' = torn /\ cut' = cut
      BY DEF Starts
    <2>2. PICK found, new, nodes, answer, n :
             \/ PlanTag(c, found, new, nodes, answer) \/ PlanUntag(c, found, new, nodes)
             \/ PlanForget(c, found) \/ PlanNote(c, n)
      BY <1>1 DEF Plan
    <2>3. \E j, r : Starts(c, j, r)
      BY <2>2 DEF PlanTag, PlanUntag, PlanForget, PlanNote
    <2> QED BY <2>1, <2>3
  <1>2. ASSUME Stops(c) PROVE torn' \subseteq cut' /\ cut \subseteq cut'
    BY <1>2 DEF Stops
  <1>3. ASSUME torn' \subseteq torn, cut' = cut
        PROVE  torn' \subseteq cut' /\ cut \subseteq cut'
    BY <1>3
  <1>4. CASE Write(c)
    <2>1. CASE ResolveVolatiles(c)
      BY <1>3, <2>1 DEF ResolveVolatiles
    <2>2. CASE CopyRefs(c)
      BY <1>3, <2>2 DEF CopyRefs, history
    <2>3. CASE RenameRefs(c)
      BY <1>2, <1>3, <2>3 DEF RenameRefs
    <2>4. CASE CopyTags(c)
      BY <1>2, <1>3, <2>4 DEF CopyTags, history
    <2>5. CASE RenameTags(c)
      <3>1. Stops(c) \/ (torn' = torn \ (job[c].cascade \ FileIds) /\ cut' = cut)
        BY <2>5 DEF RenameTags
      <3>2. Stops(c) \/ (torn' \subseteq torn /\ cut' = cut)
        BY <3>1
      <3> QED BY <1>2, <1>3, <3>2
    <2>6. CASE CascadeFile(c)
      <3>1. (torn' = torn \/ torn' = torn \ job[c].cascade) /\ cut' = cut
        BY <2>6 DEF CascadeFile
      <3> QED BY <1>3, <3>1
    <2> QED BY <1>4, <2>1, <2>2, <2>3, <2>4, <2>5, <2>6 DEF Write
  <1>5. CASE Crash(c)
    BY <1>2, <1>5 DEF Crash
  <1>6. CASE UNCHANGED vars
    BY <1>3, <1>6 DEF vars, history
  <1> QED BY <1>1, <1>4, <1>5, <1>6 DEF Next

\* The invariant of the write engine, while no deletion was cut short.
StoreKept(c) == torn \subseteq cut /\ (NothingCut => StoreInv(c))

LEMMA StoreKeptHolds ==
    ASSUME NEW c, Clients = {c}, ~MixedColumns, ConfigsAlone
    PROVE  Spec => []StoreKept(c)
  <1>1. Init => StoreKept(c)
    <2>1. Init => torn \subseteq cut
      BY DEF Init
    <2> QED BY <2>1, InitStore DEF StoreKept
  <1>2. EditInv /\ StoreKept(c) /\ [Next]_vars => StoreKept(c)'
    <2> SUFFICES ASSUME EditInv, StoreKept(c), [Next]_vars
                 PROVE  StoreKept(c)'
      OBVIOUS
    <2>1. torn \subseteq cut /\ torn' \subseteq cut' /\ cut \subseteq cut'
      BY CutSteps DEF StoreKept
    <2>2. ASSUME NothingCut' PROVE StoreInv(c)'
      <3>1. NothingCut /\ torn \cap UserIds = {}
        BY <2>1, <2>2 DEF NothingCut
      <3> QED BY <3>1, NextSteps DEF StoreKept
    <2> QED BY <2>1, <2>2 DEF StoreKept
  <1>3. Spec => []EditInv
    BY EditInvHolds
  <1> QED
    BY <1>1, <1>2, <1>3, PTL DEF Spec

\* All labels of a type that a definition configures are in the column of that
\* type, whatever the order in which casts, tags and configurations are given and
\* saved, and wherever a command fails or dies: until the deletion of an item that
\* a user made stops half way.
THEOREM ConfigsAreKept ==
    ASSUME NEW c, Clients = {c}, ~MixedColumns, ConfigsAlone
    PROVE  Spec => []ConfigMatchesRows
  <1>1. StoreKept(c) => ConfigMatchesRows
    BY DEF StoreKept, StoreInv, Sound, Configured, ConfigMatchesRows
  <1> QED
    BY <1>1, StoreKeptHolds, PTL

\* The write engine implements TagStore: the plan of merged deletions, rows to
\* add and one cast, saved by three writes, does what the nodes of the command
\* say one after the other, and shows nothing of it before its end.
THEOREM ImplementsTagStore ==
    ASSUME NEW c, Clients = {c}, ~MixedColumns, ConfigsAlone
    PROVE  Spec /\ []NothingCut => TagStoreSpec
  <1>1. Init => Store!Init
    BY InitStore
  <1>2. /\ EditInv /\ NothingCut /\ StoreKept(c) /\ [Next]_vars
        => [Store!Next]_(Store!vars)
    <2> SUFFICES ASSUME EditInv, NothingCut, StoreKept(c), [Next]_vars
                 PROVE  StoreStep
      BY DEF StoreStep
    <2>1. torn \cap UserIds = {} /\ StoreInv(c)
      BY DEF NothingCut, StoreKept
    <2> QED BY <2>1, NextSteps
  <1>3. Spec => []EditInv
    BY EditInvHolds
  <1>4. Spec => []StoreKept(c)
    BY StoreKeptHolds
  <1> QED
    BY <1>1, <1>2, <1>3, <1>4, PTL DEF Spec, TagStoreSpec, Store!Spec
=============================================================================
