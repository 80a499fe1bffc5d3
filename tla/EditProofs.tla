----------------------------- MODULE EditProofs -----------------------------
(***************************************************************************)
(* What holds of EditWrite when one client writes, for any ids, types,     *)
(* notes and edits, with casts that fail and processes that die between    *)
(* any two saves: an id is one item, a type has one definition, and every  *)
(* tag has its item.                                                       *)
(***************************************************************************)
EXTENDS EditWrite, FiniteSetTheorems, WellFoundedInduction, TLAPS

WritePhases == {"draw", "refs", "refs_copied", "tags", "tags_copied", "files"}

Phase(c) == IF Running(c) THEN job[c].phase ELSE "idle"

HasItem(i) == \/ Stored(itemRefs, i)
              \/ i \in files["file_references"]
              \/ i \in torn

\* The rows of item_references that a command is about to add give i an item.
Makes(j, i) == \E q \in RefRow : q.id = i /\ j.refRows[q] > 0

IsRow(r) ==
    /\ r = [item |-> r.item, type |-> r.type, col |-> r.col, text |-> r.text]
    /\ r.item \in Ids

IsPlan(j) ==
    /\ j = [phase |-> j.phase, new |-> j.new, given |-> j.given,
            named |-> j.named, adds |-> j.adds, refRows |-> j.refRows,
            inserts |-> j.inserts, deletes |-> j.deletes,
            cascade |-> j.cascade, cast |-> j.cast]
    /\ j.phase \in WritePhases
    /\ j.new \subseteq UserTypes \cup Notes /\ IsFiniteSet(j.new)
    /\ j.adds \in [BuiltinIds -> Nat]
    /\ j.refRows \in [RefRow -> Nat]
    /\ j.cascade \subseteq Ids
    /\ \A r \in j.inserts : IsRow(r)

\* A command deletes items or adds rows, not both.
DeletesOrAdds(j) ==
    j.cascade # {} => /\ j.new = {} /\ j.inserts = {}
                      /\ \A b \in BuiltinIds : j.adds[b] = 0
                      /\ \A q \in RefRow : j.refRows[q] = 0

Typed ==
    /\ itemRefs \in [RefRow -> Nat]
    /\ \A r \in userTags : IsRow(r)
    /\ files \in [ToSet(FileTables) -> SUBSET FileIds]
    /\ tmp = [refs |-> tmp.refs, tags |-> tmp.tags]
    /\ job = [c \in Clients |-> job[c]]
    /\ \A c \in Clients : Running(c) => IsPlan(job[c]) /\ DeletesOrAdds(job[c])

\* What is planned before ids are drawn: tags for items there are, or for a
\* built-in type whose definition is about to be stored, and new definitions
\* of types that have none.
Planned ==
    \A c \in Clients : Phase(c) = "draw" =>
        /\ \A r \in job[c].inserts :
              HasItem(r.item) \/ (r.item \in BuiltinIds /\ job[c].adds[r.item] > 0)
        /\ \A q \in RefRow : q.content \in job[c].new \cap UserTypes => itemRefs[q] = 0

\* The rows about to be added: ids nobody has, one content for each of them,
\* and one id for each type.
Drawn ==
    \A c \in Clients : Phase(c) \in {"refs", "refs_copied"} =>
        /\ \A r \in job[c].inserts : HasItem(r.item) \/ Makes(job[c], r.item)
        /\ \A q \in RefRow :
              job[c].refRows[q] > 0 /\ q.id \in UserIds =>
                  job[c].refRows[q] = 1 /\ ~Stored(itemRefs, q.id)
        /\ \A q, r \in RefRow :
              /\ job[c].refRows[q] > 0 /\ job[c].refRows[r] > 0 /\ q.id \in UserIds
              /\ q.id = r.id \/ (q.content = r.content /\ q.content \in UserTypes)
              => q = r
        /\ \A q, r \in RefRow :
              job[c].refRows[q] > 0 /\ q.content \in UserTypes /\ r.content = q.content
              => itemRefs[r] = 0

\* A rename finds the copy this command made.
Copied ==
    \A c \in Clients :
        /\ Phase(c) = "refs_copied" => tmp.refs = <<ItemReferencesWrite(itemRefs, job[c])>>
        /\ Phase(c) = "tags_copied" => tmp.tags = <<UserTagsWrite(userTags, job[c])>>

\* Tags come after their items, and leave before the rows of files do.
Backed ==
    /\ \A c \in Clients : Phase(c) \in {"tags", "tags_copied"} =>
          \A r \in job[c].inserts : HasItem(r.item)
    /\ \A r \in userTags :
          \/ HasItem(r.item)
          \/ \E c \in Clients : /\ Phase(c) \in {"tags", "tags_copied"}
                                /\ r.item \in job[c].cascade \ FileIds
    /\ \A c \in Clients : Phase(c) = "files" =>
          \A r \in userTags : r.item \notin job[c].cascade

\* A row in any table of files names an item of file_references, unless a
\* deletion of it is under way or was stopped.
FilesBacked ==
    \A t \in ToSet(FileTables) : \A i \in files[t] :
        \/ i \in files["file_references"] \cup torn
        \/ \E c \in Clients : Phase(c) = "files" /\ i \in job[c].cascade

OneItem ==
    \A q, r \in RefRow :
        q.id = r.id /\ itemRefs[q] > 0 /\ itemRefs[r] > 0 => q = r

EditInv ==
    /\ Typed /\ Planned /\ Drawn /\ Copied /\ Backed /\ FilesBacked
    /\ OneItem /\ OneDefinition

-----------------------------------------------------------------------------
(* Ids.                                                                    *)

\* Finitely many numbers have a greatest and a least one.
LEMMA Extremes ==
    ASSUME NEW S, S \subseteq Int, S # {}, IsFiniteSet(S)
    PROVE  /\ \E m \in S : \A k \in S : k <= m
           /\ \E m \in S : \A k \in S : m <= k
  <1> DEFINE Above(m) == {k \in S : m < k}
             Under(m) == {k \in S : k < m}
  <1>1. IsWellFoundedOn(StrictSubsetOrdering(S), FiniteSubsetsOf(S))
    BY FS_StrictSubsetOrderingWellFounded
  <1>2. \A m \in S : Above(m) \in FiniteSubsetsOf(S) /\ Under(m) \in FiniteSubsetsOf(S)
    BY FS_Subset DEF FiniteSubsetsOf
  <1>3. \E m \in S : \A k \in S : k <= m
    <2> DEFINE T == {Above(m) : m \in S}
    <2>1. T \subseteq FiniteSubsetsOf(S) /\ T # {}
      BY <1>2
    <2>2. PICK x \in T : \A y \in T : ~(<<y, x>> \in StrictSubsetOrdering(S))
      <3> HIDE DEF T
      <3> QED BY <1>1, <2>1, WFMin
    <2>3. PICK m \in S : x = Above(m)
      BY <2>2
    <2>4. ASSUME NEW k \in S, m < k PROVE FALSE
      <3>1. Above(k) \in T
        OBVIOUS
      <3>2. m \in Int /\ k \in Int /\ ~(k < k)
        OBVIOUS
      <3>3. Above(k) \subseteq Above(m) /\ k \in Above(m) /\ k \notin Above(k)
        <4>1. ASSUME NEW i \in S, k < i PROVE m < i
          <5> i \in Int
            OBVIOUS
          <5> QED BY <2>4, <3>2, <4>1
        <4> QED BY <2>4, <3>2, <4>1
      <3>4. <<Above(k), Above(m)>> \in StrictSubsetOrdering(S)
        BY <3>3 DEF StrictSubsetOrdering
      <3> QED
        BY <2>2, <2>3, <3>1, <3>4
    <2> QED
      BY <2>4
  <1>4. \E m \in S : \A k \in S : m <= k
    <2> DEFINE T == {Under(m) : m \in S}
    <2>1. T \subseteq FiniteSubsetsOf(S) /\ T # {}
      BY <1>2
    <2>2. PICK x \in T : \A y \in T : ~(<<y, x>> \in StrictSubsetOrdering(S))
      <3> HIDE DEF T
      <3> QED BY <1>1, <2>1, WFMin
    <2>3. PICK m \in S : x = Under(m)
      BY <2>2
    <2>4. ASSUME NEW k \in S, k < m PROVE FALSE
      <3>1. Under(k) \in T
        OBVIOUS
      <3>2. m \in Int /\ k \in Int /\ ~(k < k)
        OBVIOUS
      <3>3. Under(k) \subseteq Under(m) /\ k \in Under(m) /\ k \notin Under(k)
        <4>1. ASSUME NEW i \in S, i < k PROVE i < m
          <5> i \in Int
            OBVIOUS
          <5> QED BY <2>4, <3>2, <4>1
        <4> QED BY <2>4, <3>2, <4>1
      <3>4. <<Under(k), Under(m)>> \in StrictSubsetOrdering(S)
        BY <3>3 DEF StrictSubsetOrdering
      <3> QED
        BY <2>2, <2>3, <3>1, <3>4
    <2> QED
      BY <2>4
  <1> QED
    BY <1>3, <1>4

\* The id drawn next is above every id in use.
LEMMA NextIsFree ==
    /\ NextUserId \in Int
    /\ \A i \in UserIds : Stored(itemRefs, i) => i < NextUserId
  <1> DEFINE used == {i \in UserIds : Stored(itemRefs, i)}
  <1>1. UserIds \subseteq Int /\ IsFiniteSet(UserIds) /\ UserIds # {}
    BY BlockAssumption DEF Ids
  <1>2. used \subseteq Int /\ IsFiniteSet(used)
    BY <1>1, FS_Subset
  <1>3. CASE used = {}
    <2> DEFINE least == CHOOSE i \in UserIds : \A k \in UserIds : i <= k
    <2>1. \E i \in UserIds : \A k \in UserIds : i <= k
      BY <1>1, Extremes
    <2>2. least \in UserIds
      BY <2>1
    <2>3. NextUserId = least
      BY <1>3 DEF NextUserId
    <2> QED
      BY <1>1, <1>3, <2>2, <2>3
  <1>4. CASE used # {}
    <2> DEFINE greatest == CHOOSE i \in used : \A k \in used : k <= i
    <2>1. \E i \in used : \A k \in used : k <= i
      <3> HIDE DEF used
      <3> QED BY <1>2, <1>4, Extremes
    <2>2. greatest \in used /\ \A k \in used : k <= greatest
      <3> HIDE DEF used
      <3> QED BY <2>1
    <2>3. NextUserId = 1 + greatest
      BY <1>4 DEF NextUserId
    <2>4. greatest \in Int
      BY <1>2, <2>2
    <2>5. ASSUME NEW i \in UserIds, Stored(itemRefs, i) PROVE i < NextUserId
      <3>1. i \in used /\ i \in Int
        BY <2>5, <1>1
      <3>2. i <= greatest
        BY <2>2, <3>1
      <3> HIDE DEF greatest, used
      <3> QED
        BY <2>3, <2>4, <3>1, <3>2
    <2> QED
      <3> HIDE DEF greatest, used
      <3> QED BY <2>3, <2>4, <2>5
  <1> QED
    BY <1>3, <1>4

LEMMA IntervalSize ==
    ASSUME NEW lo \in Int, NEW n \in Nat
    PROVE  /\ IsFiniteSet(lo .. lo + n - 1) /\ Cardinality(lo .. lo + n - 1) = n
           /\ \A i \in lo .. lo + n - 1 : i \in Int /\ lo <= i
  <1>1. /\ IsFiniteSet(lo .. lo + n - 1)
        /\ Cardinality(lo .. lo + n - 1) = IF lo > lo + n - 1 THEN 0 ELSE (lo + n - 1) - lo + 1
    BY FS_Interval
  <1>2. n = IF lo > lo + n - 1 THEN 0 ELSE (lo + n - 1) - lo + 1
    OBVIOUS
  <1> QED
    BY <1>1, <1>2

LEMMA NotBothWays == \A a, b \in Int : ~(a < b /\ b <= a)
  OBVIOUS

Draws(new, ids, f) ==
    /\ IsFiniteSet(new) /\ f \in [ids -> new] /\ new = {f[i] : i \in ids}
    /\ ids = NextUserId .. NextUserId + Cardinality(new) - 1

AreFree(ids, f) ==
    /\ \A i \in ids \cap UserIds : ~Stored(itemRefs, i)
    /\ \A i, k \in ids : f[i] = f[k] => i = k

\* The ids drawn are free, and as many as the contents they are for: each
\* content gets one.
LEMMA DrawnAreFree ==
    ASSUME NEW new, NEW ids, NEW f, Draws(new, ids, f)
    PROVE  AreFree(ids, f)
  <1>0. /\ IsFiniteSet(new) /\ f \in [ids -> new] /\ new = {f[i] : i \in ids}
        /\ ids = NextUserId .. NextUserId + Cardinality(new) - 1
    BY DEF Draws
  <1> DEFINE lo == NextUserId
  <1>1. Cardinality(new) \in Nat /\ lo \in Int
    BY <1>0, FS_CardinalityType, NextIsFree
  <1>2. IsFiniteSet(ids) /\ Cardinality(ids) = Cardinality(new)
    BY <1>0, <1>1, IntervalSize
  <1>3. f \in Surjection(ids, new)
    BY <1>0 DEF Surjection
  <1>4. f \in Injection(ids, new)
    BY <1>0, <1>2, <1>3, FS_Surjection
  <1>5. ASSUME NEW i \in ids \cap UserIds, Stored(itemRefs, i) PROVE FALSE
    <2>1. i < lo
      BY <1>5, NextIsFree
    <2>2. lo <= i /\ i \in Int /\ lo \in Int
      BY <1>0, <1>1, IntervalSize
    <2> QED
      BY <2>1, <2>2, NotBothWays
  <1> QED
    BY <1>4, <1>5 DEF AreFree, Injection, IsInjective

-----------------------------------------------------------------------------
(* What a client runs next.                                                *)

\* The record of a command that runs is never that of no command.
LEMMA RunningPhase ==
    ASSUME NEW c, job[c].phase \in WritePhases
    PROVE  Running(c) /\ Phase(c) = job[c].phase
  BY DEF Running, Phase, Idle, WritePhases

\* Enters changes the phase of a command and nothing else of it.
LEMMA EntersJob ==
    ASSUME Typed, NEW c \in Clients, NEW j, IsPlan(j),
           NEW phase \in WritePhases \cup {"idle"}, Enters(c, j, phase)
    PROVE  /\ job' = [k \in Clients |-> job'[k]]
           /\ phase = "idle" => ~Running(c)' /\ Phase(c)' = "idle"
           /\ phase # "idle" =>
                 /\ Running(c)' /\ Phase(c)' = phase /\ IsPlan(job[c])'
                 /\ job'[c].new = j.new /\ job'[c].adds = j.adds
                 /\ job'[c].refRows = j.refRows /\ job'[c].inserts = j.inserts
                 /\ job'[c].deletes = j.deletes /\ job'[c].cascade = j.cascade
                 /\ job'[c].cast = j.cast
  <1>1. CASE phase = "idle"
    <2>1. job' = [job EXCEPT ![c] = Idle]
      BY <1>1 DEF Enters, Ends
    <2> QED
      BY <1>1, <2>1 DEF Typed, Running, Phase
  <1>2. CASE phase # "idle"
    <2> DEFINE k == [j EXCEPT !.phase = phase]
    <2>1. job' = [job EXCEPT ![c] = k]
      BY <1>2 DEF Enters
    <2>2. job' = [i \in Clients |-> job'[i]] /\ job'[c] = k
      BY <2>1 DEF Typed
    <2>3. k = [phase |-> phase, new |-> j.new, given |-> j.given,
               named |-> j.named, adds |-> j.adds, refRows |-> j.refRows,
               inserts |-> j.inserts, deletes |-> j.deletes,
               cascade |-> j.cascade, cast |-> j.cast]
      BY DEF IsPlan
    <2>4. /\ k.phase = phase /\ k.new = j.new /\ k.adds = j.adds
          /\ k.refRows = j.refRows /\ k.inserts = j.inserts
          /\ k.deletes = j.deletes /\ k.cascade = j.cascade /\ k.cast = j.cast
          /\ k.given = j.given /\ k.named = j.named
      BY <2>3
    <2>5. IsPlan(k)
      <3> HIDE DEF k
      <3> QED BY <1>2, <2>3, <2>4 DEF IsPlan
    <2>6. Running(c)' /\ Phase(c)' = phase
      <3> HIDE DEF k
      <3> QED BY <1>2, <2>2, <2>4 DEF Running, Phase, Idle
    <2>7. IsPlan(job[c])'
      <3> HIDE DEF k
      <3>1. IsPlan(k)' <=> IsPlan(job[c])'
        BY <2>2
      <3> QED BY <2>2, <2>5 DEF IsPlan, IsRow
    <2> QED
      <3> HIDE DEF k
      <3> QED BY <1>2, <2>2, <2>4, <2>6, <2>7
  <1> QED
    BY <1>1, <1>2

\* A command that fails or dies leaves what it has saved, and its cascade is
\* torn from the moment its first table was saved.
LEMMA StopInv ==
    ASSUME EditInv, NEW c, Clients = {c}, Running(c), Stops(c),
           UNCHANGED <<itemRefs, userTags, files>>,
           tmp' = [refs |-> tmp'.refs, tags |-> tmp'.tags]
    PROVE  EditInv'
  <1>1. job' = [k \in Clients |-> job'[k]] /\ ~Running(c)' /\ Phase(c)' = "idle"
    BY DEF EditInv, Typed, Stops, Ends, Running, Phase
  <1>2. torn \subseteq torn'
    BY DEF Stops
  <1>3. \A i : HasItem(i) => HasItem(i)'
    BY <1>2 DEF HasItem, Stored
  <1>4. Typed'
    BY <1>1 DEF EditInv, Typed, IsRow
  <1>5. Backed'
    <2>1. ASSUME NEW r \in userTags, ~HasItem(r.item)
          PROVE  HasItem(r.item)'
      <3>1. Phase(c) \in {"tags", "tags_copied"} /\ r.item \in job[c].cascade \ FileIds
        BY <2>1 DEF EditInv, Backed
      <3>2. r.item \in torn'
        BY <3>1 DEF Stops, Phase
      <3> QED
        BY <3>2 DEF HasItem
    <2> QED
      BY <1>1, <1>3, <2>1 DEF Backed
  <1>6. FilesBacked'
    <2>1. Phase(c) = "files" => job[c].cascade \subseteq torn'
      BY DEF Stops, Phase
    <2> QED
      BY <1>1, <1>2, <2>1 DEF EditInv, FilesBacked
  <1>7. (Planned /\ Drawn /\ Copied)'
    BY <1>1 DEF Planned, Drawn, Copied
  <1>8. (OneItem /\ OneDefinition)'
    BY DEF EditInv, OneItem, OneDefinition
  <1> QED
    BY <1>4, <1>5, <1>6, <1>7, <1>8 DEF EditInv

-----------------------------------------------------------------------------
(* Planning.                                                               *)

LEMMA FindableBacked ==
    ASSUME EditInv, NEW c, Clients = {c}, ~Running(c), NEW i \in Findable
    PROVE  i \in BuiltinIds \/ HasItem(i)
  <1>1. Phase(c) = "idle"
    BY DEF Phase
  <1>2. ASSUME NEW t \in DOMAIN files, i \in files[t] PROVE HasItem(i)
    BY <1>1, <1>2 DEF EditInv, Typed, FilesBacked, HasItem
  <1>3. ASSUME NEW r \in userTags, r.item = i PROVE HasItem(i)
    BY <1>1, <1>3 DEF EditInv, Backed
  <1> QED
    BY <1>2, <1>3 DEF Findable, HasItem

\* A command may begin with any plan that gives tags to items there are and
\* makes definitions of types that have none.
LEMMA StartInv ==
    ASSUME EditInv, NEW c, Clients = {c}, ~Running(c),
           NEW plan, NEW r, Starts(c, plan, r),
           IsPlan(plan), plan.phase = "draw", DeletesOrAdds(plan),
           \A x \in plan.inserts :
              HasItem(x.item) \/ (x.item \in BuiltinIds /\ plan.adds[x.item] > 0),
           \A q \in RefRow : q.content \in plan.new \cap UserTypes => itemRefs[q] = 0
    PROVE  EditInv'
  <1>1. /\ job' = [k \in Clients |-> job'[k]] /\ job'[c] = plan
        /\ UNCHANGED <<itemRefs, userTags, files, tmp, torn>>
    BY DEF EditInv, Typed, Starts, tables
  <1>2. Running(c)' /\ Phase(c)' = "draw"
    BY <1>1 DEF Running, Phase, Idle
  <1>3. \A i : HasItem(i)' <=> HasItem(i)
    BY <1>1 DEF HasItem, Stored
  <1>4. Typed'
    BY <1>1 DEF EditInv, Typed, IsRow, IsPlan, DeletesOrAdds
  <1>5. Planned'
    BY <1>1, <1>2, <1>3 DEF Planned
  <1>6. (Drawn /\ Copied)'
    BY <1>2 DEF Drawn, Copied
  <1>7. Phase(c) = "idle"
    BY DEF Phase
  <1>8. (Backed /\ FilesBacked)'
    BY <1>1, <1>2, <1>3, <1>7 DEF EditInv, Backed, FilesBacked
  <1>9. (OneItem /\ OneDefinition)'
    BY <1>1 DEF EditInv, OneItem, OneDefinition
  <1> QED
    BY <1>4, <1>5, <1>6, <1>8, <1>9 DEF EditInv

LEMMA GivenIsFinite ==
    ASSUME NEW nodes \in Seq(TagNodes), NEW answer \in Answers(nodes)
    PROVE  /\ Given(nodes, answer) \subseteq ToSet(nodes)
           /\ Cardinality(Given(nodes, answer)) \in Nat
           /\ \A t \in Given(nodes, answer) : Cardinality(Given(nodes, answer)) > 0
  <1> DEFINE given == Given(nodes, answer)
  <1>1. given \subseteq ToSet(nodes)
    <2>1. answer.kind = "take" => answer.tag \in ToSet(nodes)
      BY DEF Answers, NoAnswer
    <2> QED
      BY <2>1 DEF Given
  <1>2. IsFiniteSet(ToSet(nodes))
    <2>1. nodes \in [1 .. Len(nodes) -> TagNodes] /\ Len(nodes) \in Nat
      OBVIOUS
    <2>2. IsFiniteSet(1 .. Len(nodes))
      BY <2>1, FS_Interval
    <2>3. nodes \in Surjection(1 .. Len(nodes), ToSet(nodes))
      BY <2>1 DEF ToSet, Surjection
    <2> QED
      BY <2>2, <2>3, FS_Surjection
  <1>3. IsFiniteSet(given)
    BY <1>1, <1>2, FS_Subset
  <1>4. Cardinality(given) \in Nat /\ (Cardinality(given) = 0 <=> given = {})
    BY <1>3, FS_CardinalityType, FS_EmptySet
  <1> QED
    <2> HIDE DEF given
    <2>1. \A t \in given : Cardinality(given) > 0
      BY <1>4
    <2> QED BY <1>1, <1>4, <2>1 DEF given

LEMMA SelectionType ==
    ASSUME NEW found, NEW new \in SUBSET UserTypes, Selection(found, new)
    PROVE  /\ found \subseteq Findable /\ found \subseteq Ids
           /\ new \subseteq UserTypes \cup Notes /\ IsFiniteSet(new)
           /\ \A q \in RefRow : q.content \in new \cap UserTypes => itemRefs[q] = 0
  <1>1. IsFiniteSet(new)
    BY TypesAssumption, FS_Subset
  <1>2. Findable \subseteq Ids
    BY DEF Findable
  <1> QED
    BY <1>1, <1>2 DEF Selection, Volatile

LEMMA PlanTagInv ==
    ASSUME EditInv, NEW c, Clients = {c}, ~Running(c), NEW found,
           NEW new \in SUBSET UserTypes, NEW nodes \in TagQueries,
           NEW answer, PlanTag(c, found, new, nodes, answer)
    PROVE  EditInv'
  <1> DEFINE settled == IF nodes = <<>> THEN {} ELSE found
             n == Cardinality(Given(nodes, answer))
             adds == [b \in BuiltinIds |-> IF b \in settled THEN n ELSE 0]
             inserts == AddsTo(settled, nodes, answer)
  <1>1. PICK cast, r :
           Starts(c, [Nothing EXCEPT
                        !.new = new, !.given = FoldVolatile(nodes), !.named = TRUE,
                        !.adds = adds, !.inserts = inserts,
                        !.deletes = DeletesFor(settled, nodes, answer),
                        !.cast = cast], r)
    BY DEF PlanTag
  <1>2. Selection(found, new) /\ answer \in Answers(nodes)
    BY DEF PlanTag
  <1>3. nodes \in Seq(TagNodes)
    BY QueryAssumption
  <1>4. n \in Nat /\ \A t \in Given(nodes, answer) : n > 0
    BY <1>2, <1>3, GivenIsFinite
  <1>5. settled \subseteq Findable /\ settled \subseteq Ids
    BY <1>2, SelectionType
  <1> DEFINE plan == [phase |-> "draw", new |-> new, given |-> FoldVolatile(nodes),
                      named |-> TRUE, adds |-> adds, refRows |-> [q \in RefRow |-> 0],
                      inserts |-> inserts, deletes |-> DeletesFor(settled, nodes, answer),
                      cascade |-> {}, cast |-> cast]
  <1>6. Starts(c, plan, r)
    <2>1. ASSUME NEW p, p = [Nothing EXCEPT
                    !.new = new, !.given = FoldVolatile(nodes), !.named = TRUE,
                    !.adds = adds, !.inserts = inserts,
                    !.deletes = DeletesFor(settled, nodes, answer), !.cast = cast]
          PROVE  p = plan
      <3> HIDE DEF adds, inserts, settled
      <3> QED BY <2>1 DEF Nothing
    <2> HIDE DEF plan, adds, inserts, settled
    <2> QED BY <1>1, <2>1
  <1>7. adds \in [BuiltinIds -> Nat]
    BY <1>4
  <1>8. \A x \in inserts : IsRow(x)
    BY <1>5 DEF AddsTo, AsRow, IsRow
  <1>9. IsPlan(plan) /\ DeletesOrAdds(plan) /\ plan.phase = "draw"
    <2> HIDE DEF adds, inserts, settled
    <2> QED BY <1>2, <1>7, <1>8, SelectionType DEF IsPlan, DeletesOrAdds, WritePhases
  <1>10. \A x \in inserts :
            HasItem(x.item) \/ (x.item \in BuiltinIds /\ adds[x.item] > 0)
    <2>1. ASSUME NEW x \in inserts
          PROVE  HasItem(x.item) \/ (x.item \in BuiltinIds /\ adds[x.item] > 0)
      <3>1. PICK i \in settled, t \in Given(nodes, answer) : x = AsRow(i, t)
        BY DEF AddsTo
      <3>2. x.item = i /\ n > 0
        BY <1>4, <3>1 DEF AsRow
      <3>3. i \in BuiltinIds \/ HasItem(i)
        BY <1>5, FindableBacked
      <3>4. i \in BuiltinIds => adds[i] = n
        OBVIOUS
      <3> HIDE DEF adds, n, settled
      <3> QED BY <3>2, <3>3, <3>4
    <2> QED
      BY <2>1
  <1> HIDE DEF adds, inserts
  <1>11. plan.inserts = inserts /\ plan.adds = adds /\ plan.new = new
    OBVIOUS
  <1> HIDE DEF plan
  <1> QED
    BY <1>2, <1>6, <1>9, <1>10, <1>11, SelectionType, StartInv

WithoutTags(new, named, deletes, cascade) ==
    [phase |-> "draw", new |-> new, given |-> {}, named |-> named,
     adds |-> [b \in BuiltinIds |-> 0], refRows |-> [q \in RefRow |-> 0],
     inserts |-> {}, deletes |-> deletes, cascade |-> cascade, cast |-> NoCast]

\* A plan without new tags may begin at once.
LEMMA PlanWithoutTags ==
    ASSUME EditInv, NEW c, Clients = {c}, ~Running(c), NEW r, NEW new, NEW named,
           NEW deletes, NEW cascade \in SUBSET Ids,
           Starts(c, WithoutTags(new, named, deletes, cascade), r),
           new \subseteq UserTypes \cup Notes, IsFiniteSet(new),
           cascade # {} => new = {},
           \A q \in RefRow : q.content \in new \cap UserTypes => itemRefs[q] = 0
    PROVE  EditInv'
  <1> DEFINE plan == WithoutTags(new, named, deletes, cascade)
  <1>1. IsPlan(plan) /\ DeletesOrAdds(plan) /\ plan.phase = "draw"
    BY DEF WithoutTags, IsPlan, DeletesOrAdds, WritePhases
  <1>2. plan.inserts = {} /\ plan.new = new
    BY DEF WithoutTags
  <1> HIDE DEF plan
  <1> QED
    BY <1>1, <1>2, StartInv DEF plan

LEMMA PlanUntagInv ==
    ASSUME EditInv, NEW c, Clients = {c}, ~Running(c), NEW found,
           NEW new \in SUBSET UserTypes, NEW nodes, PlanUntag(c, found, new, nodes)
    PROVE  EditInv'
  <1>1. PICK r : Starts(c, [Nothing EXCEPT !.new = new, !.named = TRUE,
                                           !.deletes = Removals(found, nodes)], r)
    BY DEF PlanUntag
  <1>2. Selection(found, new)
    BY DEF PlanUntag
  <1>3. ASSUME NEW p, p = [Nothing EXCEPT !.new = new, !.named = TRUE,
                                          !.deletes = Removals(found, nodes)]
        PROVE  p = WithoutTags(new, TRUE, Removals(found, nodes), {})
    BY <1>3 DEF Nothing, WithoutTags
  <1>4. Starts(c, WithoutTags(new, TRUE, Removals(found, nodes), {}), r)
    BY <1>1, <1>3
  <1>5. /\ new \subseteq UserTypes \cup Notes /\ IsFiniteSet(new)
        /\ \A q \in RefRow : q.content \in new \cap UserTypes => itemRefs[q] = 0
        /\ {} \in SUBSET Ids
    BY <1>2, SelectionType
  <1> QED
    BY <1>4, <1>5, PlanWithoutTags

LEMMA PlanForgetInv ==
    ASSUME EditInv, NEW c, Clients = {c}, ~Running(c), NEW found, PlanForget(c, found)
    PROVE  EditInv'
  <1>1. PICK r : Starts(c, [Nothing EXCEPT !.cascade = found], r)
    BY DEF PlanForget
  <1>2. Selection(found, {})
    BY DEF PlanForget
  <1>3. ASSUME NEW p, p = [Nothing EXCEPT !.cascade = found]
        PROVE  p = WithoutTags({}, FALSE, {}, found)
    BY <1>3 DEF Nothing, WithoutTags
  <1>4. Starts(c, WithoutTags({}, FALSE, {}, found), r)
    BY <1>1, <1>3
  <1>5. {} \in SUBSET UserTypes /\ found \in SUBSET Ids /\ IsFiniteSet({})
    BY <1>2, SelectionType, FS_EmptySet
  <1> QED
    BY <1>4, <1>5, PlanWithoutTags

LEMMA PlanNoteInv ==
    ASSUME EditInv, NEW c, Clients = {c}, ~Running(c), NEW n \in Notes, PlanNote(c, n)
    PROVE  EditInv'
  <1>1. PICK r : Starts(c, [Nothing EXCEPT !.new = {n}], r)
    BY DEF PlanNote
  <1>2. ASSUME NEW p, p = [Nothing EXCEPT !.new = {n}]
        PROVE  p = WithoutTags({n}, FALSE, {}, {})
    BY <1>2 DEF Nothing, WithoutTags
  <1>3. Starts(c, WithoutTags({n}, FALSE, {}, {}), r)
    BY <1>1, <1>2
  <1>4. {n} \subseteq UserTypes \cup Notes /\ IsFiniteSet({n}) /\ {n} \cap UserTypes = {}
    <2>1. n \notin UserTypes
      BY TypesAssumption
    <2>2. IsFiniteSet({n})
      BY FS_Singleton
    <2> QED BY <2>1, <2>2
  <1>5. /\ \A q \in RefRow : q.content \in {n} \cap UserTypes => itemRefs[q] = 0
        /\ {} \in SUBSET Ids
    BY <1>4
  <1> QED
    BY <1>3, <1>4, <1>5, PlanWithoutTags

-----------------------------------------------------------------------------
(* Drawing ids.                                                            *)

LEMMA RefRowFields ==
    /\ \A q \in RefRow : q = [id |-> q.id, content |-> q.content]
    /\ \A q \in RefRow :
          \/ q.id \in UserIds /\ q.id \notin BuiltinIds
          \/ /\ q.id \in BuiltinIds /\ q.id \notin UserIds
             /\ q.content = BuiltinName[q.id] /\ q.content \notin UserTypes
    /\ \A i \in UserIds, k \in UserTypes \cup Notes : [id |-> i, content |-> k] \in RefRow
    /\ \A b \in BuiltinIds : [id |-> b, content |-> BuiltinName[b]] \in RefRow
  BY BlockAssumption, TypesAssumption DEF RefRow, BuiltinTypes

DrawnPlan(j, ids, f) ==
    [phase |-> j.phase, new |-> {}, given |-> {}, named |-> j.named,
     adds |-> j.adds, refRows |-> DrawnRows(j, ids, f),
     inserts |-> DrawnTags(j, ids, f), deletes |-> j.deletes,
     cascade |-> j.cascade, cast |-> j.cast]

LEMMA DrawsPlan ==
    ASSUME NEW c, IsPlan(job[c]), ResolveVolatiles(c)
    PROVE  LET j == job[c]
               ids == NextUserId .. NextUserId + Cardinality(j.new) - 1
           IN  /\ ids \subseteq UserIds
               /\ UNCHANGED <<tables, tmp, torn>>
               /\ \E f \in [ids -> j.new] :
                     /\ j.new = {f[i] : i \in ids}
                     /\ Enters(c, DrawnPlan(j, ids, f), AfterDraw(DrawnPlan(j, ids, f)))
  <1> DEFINE j == job[c]
             ids == NextUserId .. NextUserId + Cardinality(j.new) - 1
  <1>1. PICK f \in [ids -> j.new] :
           j.new = {f[i] : i \in ids} /\ Enters(c, Resolved(j, ids, f), AfterDraw(Resolved(j, ids, f)))
    BY DEF ResolveVolatiles
  <1>2. ASSUME NEW p, p = Resolved(j, ids, f) PROVE p = DrawnPlan(j, ids, f)
    <2>1. j = [phase |-> j.phase, new |-> j.new, given |-> j.given,
               named |-> j.named, adds |-> j.adds, refRows |-> j.refRows,
               inserts |-> j.inserts, deletes |-> j.deletes,
               cascade |-> j.cascade, cast |-> j.cast]
      BY DEF IsPlan
    <2> HIDE DEF j, ids
    <2> QED
      BY <1>2, <2>1 DEF Resolved, DrawnPlan
  <1>3. ids \subseteq UserIds /\ UNCHANGED <<tables, tmp, torn>>
    BY DEF ResolveVolatiles
  <1> QED
    BY <1>1, <1>2, <1>3

\* What the rows drawn are.
RowsAreDrawn(j, ids, f) ==
    LET rows == DrawnRows(j, ids, f) IN
    /\ rows \in [RefRow -> Nat]
    /\ \A q \in RefRow : rows[q] > 0 =>
          \/ q.id \in ids /\ q.content = f[q.id] /\ rows[q] = 1
          \/ q.id \in BuiltinIds /\ q.id \notin UserIds /\ j.adds[q.id] > 0
             /\ q.content \notin UserTypes
    /\ \A i \in ids : \E q \in RefRow : q.id = i /\ rows[q] > 0
    /\ \A b \in BuiltinIds : j.adds[b] > 0 =>
          Stored(itemRefs, b) \/ \E q \in RefRow : q.id = b /\ rows[q] > 0

LEMMA DrawnRowsFacts ==
    ASSUME NEW j, NEW ids, NEW f, j.adds \in [BuiltinIds -> Nat], ids \subseteq UserIds,
           j.new \subseteq UserTypes \cup Notes, f \in [ids -> j.new]
    PROVE  RowsAreDrawn(j, ids, f)
  <1> DEFINE rows == DrawnRows(j, ids, f)
  <1>1. rows \in [RefRow -> Nat]
    BY DEF DrawnRows
  <1>2. \A q \in RefRow : rows[q] > 0 =>
           \/ q.id \in ids /\ q.content = f[q.id] /\ rows[q] = 1
           \/ q.id \in BuiltinIds /\ q.id \notin UserIds /\ j.adds[q.id] > 0
              /\ q.content \notin UserTypes
    BY RefRowFields DEF DrawnRows
  <1>3. ASSUME NEW i \in ids PROVE \E q \in RefRow : q.id = i /\ rows[q] > 0
    <2> DEFINE q == [id |-> i, content |-> f[i]]
    <2>1. q \in RefRow /\ q.id = i /\ q.content = f[i]
      BY RefRowFields
    <2>2. rows[q] = 1
      <3> HIDE DEF q
      <3> QED BY <2>1 DEF DrawnRows
    <2> HIDE DEF q
    <2> QED
      BY <2>1, <2>2
  <1>4. ASSUME NEW b \in BuiltinIds, j.adds[b] > 0, ~Stored(itemRefs, b)
        PROVE  \E q \in RefRow : q.id = b /\ rows[q] > 0
    <2> DEFINE q == [id |-> b, content |-> BuiltinName[b]]
    <2>1. q \in RefRow /\ q.id = b /\ q.content = BuiltinName[b] /\ b \notin ids
      BY RefRowFields, BlockAssumption
    <2>2. rows[q] = j.adds[b]
      <3> HIDE DEF q
      <3> QED BY <1>4, <2>1 DEF DrawnRows
    <2> HIDE DEF q
    <2> QED
      BY <1>4, <2>1, <2>2
  <1> HIDE DEF rows
  <1> QED
    BY <1>1, <1>2, <1>3, <1>4 DEF RowsAreDrawn, rows

LEMMA DrawInv ==
    ASSUME EditInv, NEW c, Clients = {c}, ResolveVolatiles(c)
    PROVE  EditInv'
  <1> DEFINE j == job[c]
             ids == NextUserId .. NextUserId + Cardinality(j.new) - 1
  <1>1. Running(c) /\ Phase(c) = "draw" /\ j.phase = "draw" /\ IsPlan(j) /\ DeletesOrAdds(j)
    <2>1. job[c].phase = "draw" /\ job[c].phase \in WritePhases
      BY DEF ResolveVolatiles, WritePhases
    <2>2. Running(c) /\ Phase(c) = "draw"
      BY <2>1, RunningPhase
    <2> QED
      BY <2>1, <2>2 DEF EditInv, Typed
  <1>2. /\ ids \subseteq UserIds
        /\ UNCHANGED <<itemRefs, userTags, files, tmp, torn>>
        /\ \E f \in [ids -> j.new] :
              /\ j.new = {f[i] : i \in ids}
              /\ Enters(c, DrawnPlan(j, ids, f), AfterDraw(DrawnPlan(j, ids, f)))
    BY <1>1, DrawsPlan DEF tables
  <1>3. PICK f \in [ids -> j.new] :
           /\ j.new = {f[i] : i \in ids}
           /\ Enters(c, DrawnPlan(j, ids, f), AfterDraw(DrawnPlan(j, ids, f)))
    BY <1>2
  <1>4. /\ \A i \in ids : ~Stored(itemRefs, i)
        /\ \A i, k \in ids : f[i] = f[k] => i = k
    <2>1. IsFiniteSet(j.new)
      BY <1>1 DEF IsPlan
    <2>2. Draws(j.new, ids, f)
      BY <1>3, <2>1 DEF Draws
    <2> HIDE DEF ids, j
    <2>3. AreFree(ids, f)
      BY <2>2, DrawnAreFree
    <2> QED
      BY <1>2, <2>3 DEF AreFree
  <1> DEFINE rows == DrawnRows(j, ids, f)
             tags == DrawnTags(j, ids, f)
             p == DrawnPlan(j, ids, f)
             phase == AfterDraw(p)
  <1>5. /\ p.phase = "draw" /\ p.new = {} /\ p.adds = j.adds /\ p.refRows = rows
        /\ p.inserts = tags /\ p.deletes = j.deletes /\ p.cascade = j.cascade
        /\ p.cast = j.cast
        /\ p = [phase |-> p.phase, new |-> p.new, given |-> p.given,
                named |-> p.named, adds |-> p.adds, refRows |-> p.refRows,
                inserts |-> p.inserts, deletes |-> p.deletes,
                cascade |-> p.cascade, cast |-> p.cast]
    BY <1>1 DEF DrawnPlan
  <1>6. /\ rows \in [RefRow -> Nat]
        /\ \A q \in RefRow : rows[q] > 0 =>
              \/ q.id \in ids /\ q.content = f[q.id] /\ rows[q] = 1
              \/ q.id \in BuiltinIds /\ q.id \notin UserIds /\ j.adds[q.id] > 0
                 /\ q.content \notin UserTypes
        /\ \A i \in ids : \E q \in RefRow : q.id = i /\ rows[q] > 0
        /\ \A b \in BuiltinIds : j.adds[b] > 0 =>
              Stored(itemRefs, b) \/ \E q \in RefRow : q.id = b /\ rows[q] > 0
    <2>1. j.adds \in [BuiltinIds -> Nat] /\ j.new \subseteq UserTypes \cup Notes
      BY <1>1 DEF IsPlan
    <2>2. ids \subseteq UserIds /\ f \in [ids -> j.new]
      BY <1>2, <1>3
    <2>3. RowsAreDrawn(j, ids, f)
      <3> HIDE DEF j, ids
      <3> QED BY <2>1, <2>2, DrawnRowsFacts
    <2> HIDE DEF j, ids
    <2> QED
      BY <2>3 DEF RowsAreDrawn
  <1>7. \A x \in tags : x \in j.inserts \/ (IsRow(x) /\ x.item \in ids)
    BY <1>2 DEF DrawnTags, AsRow, IsRow, Ids
  <1>8. IsPlan(p)
    <2>1. \A x \in tags : IsRow(x)
      BY <1>1, <1>7 DEF IsPlan
    <2> HIDE DEF p, rows, tags, j
    <2> QED
      BY <1>1, <1>5, <1>6, <2>1, FS_EmptySet DEF IsPlan, WritePhases
  <1>9. j.cascade # {} => tags = {} /\ \A q \in RefRow : rows[q] = 0
    <2>1. ASSUME j.cascade # {} PROVE ids = {} /\ j.inserts = {} /\ \A b \in BuiltinIds : j.adds[b] = 0
      BY <1>1, <1>3, <2>1 DEF DeletesOrAdds
    <2>2. ids = {} /\ j.inserts = {} => tags = {}
      BY DEF DrawnTags
    <2> HIDE DEF rows, tags, j, ids
    <2> QED
      BY <1>6, <2>1, <2>2
  <1>10. DeletesOrAdds(p)
    <2> HIDE DEF p, rows, tags, j
    <2> QED BY <1>1, <1>5, <1>9 DEF DeletesOrAdds
  <1> HIDE DEF p, rows, tags
  <1>11. phase \in {"refs", "tags", "idle"}
    BY <1>5 DEF AfterDraw, AfterRefs, AfterTags, NeedsTags
  <1>12. phase = "tags" => \A q \in RefRow : rows[q] = 0
    BY <1>5, <1>6 DEF AfterDraw, NeedsRefs
  <1>13. /\ job' = [k \in Clients |-> job'[k]]
         /\ phase = "idle" => ~Running(c)' /\ Phase(c)' = "idle"
         /\ phase # "idle" =>
               /\ Running(c)' /\ Phase(c)' = phase /\ IsPlan(job[c])'
               /\ job'[c].new = {} /\ job'[c].adds = j.adds
               /\ job'[c].refRows = rows /\ job'[c].inserts = tags
               /\ job'[c].cascade = j.cascade
    <2> HIDE DEF phase
    <2>1. phase \in WritePhases \cup {"idle"} /\ Enters(c, p, phase) /\ c \in Clients
      BY <1>3, <1>11 DEF WritePhases, phase, p
    <2> QED
      BY <1>5, <1>8, <2>1, EntersJob DEF EditInv
  <1> HIDE DEF phase
  <1>14. \A i : HasItem(i)' <=> HasItem(i)
    BY <1>2 DEF HasItem, Stored
  <1>15. Typed'
    <2>1. Running(c)' => IsPlan(job[c])' /\ DeletesOrAdds(job[c])'
      BY <1>1, <1>9, <1>13 DEF DeletesOrAdds
    <2> QED
      BY <1>2, <1>13, <2>1 DEF EditInv, Typed, IsRow
  <1>16. \A x \in tags : HasItem(x.item) \/ \E q \in RefRow : q.id = x.item /\ rows[q] > 0
    <2>1. \A x \in j.inserts :
             HasItem(x.item) \/ (x.item \in BuiltinIds /\ j.adds[x.item] > 0)
      BY <1>1 DEF EditInv, Planned
    <2> HIDE DEF ids, j
    <2> QED
      BY <1>6, <1>7, <2>1 DEF HasItem
  <1>17. Drawn'
    <2> SUFFICES ASSUME phase = "refs" PROVE Drawn'
      BY <1>11, <1>13 DEF Drawn
    <2>1. \A x \in tags : (HasItem(x.item) \/ Makes(job[c], x.item))'
      BY <1>13, <1>14, <1>16 DEF Makes
    <2>2. ASSUME NEW q \in RefRow, rows[q] > 0, q.id \in UserIds
          PROVE  rows[q] = 1 /\ q.id \in ids /\ q.content = f[q.id] /\ ~Stored(itemRefs, q.id)
      <3> HIDE DEF ids
      <3> QED BY <1>4, <1>6, <2>2
    <2>3. ASSUME NEW q \in RefRow, NEW r \in RefRow, rows[q] > 0, rows[r] > 0, q.id \in UserIds,
                 q.id = r.id \/ (q.content = r.content /\ q.content \in UserTypes)
          PROVE  q = r
      <3> HIDE DEF ids
      <3>1. r.id \in UserIds /\ q.id \in ids /\ q.content = f[q.id]
        BY <1>2, <1>6, <2>2, <2>3
      <3>2. r.id \in ids /\ r.content = f[r.id]
        BY <2>2, <2>3, <3>1
      <3>3. q.id = r.id
        BY <1>4, <2>3, <3>1, <3>2
      <3> QED
        BY <3>1, <3>2, <3>3, RefRowFields
    <2>4. ASSUME NEW q \in RefRow, NEW r \in RefRow, rows[q] > 0, q.content \in UserTypes,
                 r.content = q.content
          PROVE  itemRefs[r] = 0
      <3>1. r.content \in j.new
        <4> HIDE DEF ids, j
        <4> QED BY <1>3, <1>6, <2>4
      <3> QED
        BY <1>1, <2>4, <3>1 DEF EditInv, Planned
    <2>5. \A q \in RefRow : rows[q] > 0 /\ q.id \in UserIds => rows[q] = 1 /\ ~Stored(itemRefs, q.id)
      BY <2>2
    <2>6. \A q, r \in RefRow :
             /\ rows[q] > 0 /\ rows[r] > 0 /\ q.id \in UserIds
             /\ q.id = r.id \/ (q.content = r.content /\ q.content \in UserTypes)
             => q = r
      BY <2>3
    <2>7. \A q, r \in RefRow :
             rows[q] > 0 /\ q.content \in UserTypes /\ r.content = q.content => itemRefs[r] = 0
      BY <2>4
    <2>8. \A q : Stored(itemRefs, q)' <=> Stored(itemRefs, q)
      BY <1>2 DEF Stored
    <2> HIDE DEF ids, j
    <2> QED
      BY <1>2, <1>13, <2>1, <2>5, <2>6, <2>7, <2>8 DEF Drawn
  <1>18. (Planned /\ Copied)'
    BY <1>11, <1>13 DEF Planned, Copied
  <1>19. Backed'
    <2>1. \A x \in userTags : HasItem(x.item)
      BY <1>1 DEF EditInv, Backed
    <2>2. phase = "tags" => \A x \in tags : HasItem(x.item)
      BY <1>12, <1>16
    <2> HIDE DEF ids, j
    <2> QED
      BY <1>2, <1>11, <1>13, <1>14, <2>1, <2>2 DEF Backed
  <1>20. FilesBacked'
    BY <1>1, <1>2 DEF EditInv, FilesBacked
  <1>21. (OneItem /\ OneDefinition)'
    BY <1>2 DEF EditInv, OneItem, OneDefinition
  <1> QED
    BY <1>15, <1>17, <1>18, <1>19, <1>20, <1>21 DEF EditInv

-----------------------------------------------------------------------------
(* Saving.                                                                 *)

SamePlan(j, k) ==
    /\ k.new = j.new /\ k.adds = j.adds /\ k.refRows = j.refRows
    /\ k.inserts = j.inserts /\ k.deletes = j.deletes
    /\ k.cascade = j.cascade /\ k.cast = j.cast

\* A command goes on to its next step with the same plan, or has ended.
GoesOn(c, phase) ==
    /\ job' = [k \in Clients |-> job'[k]]
    /\ phase = "idle" => ~Running(c)' /\ Phase(c)' = "idle"
    /\ phase # "idle" => /\ Running(c)' /\ Phase(c)' = phase
                         /\ IsPlan(job[c])' /\ DeletesOrAdds(job[c])'
                         /\ SamePlan(job[c], job'[c])

LEMMA WritesPlan ==
    ASSUME EditInv, NEW c, Clients = {c}, job[c].phase \in WritePhases
    PROVE  /\ Running(c) /\ Phase(c) = job[c].phase
           /\ IsPlan(job[c]) /\ DeletesOrAdds(job[c])
  BY RunningPhase DEF EditInv, Typed

LEMMA EntersGoesOn ==
    ASSUME EditInv, NEW c, Clients = {c}, IsPlan(job[c]), DeletesOrAdds(job[c]),
           NEW phase \in WritePhases \cup {"idle"}, Enters(c, job[c], phase)
    PROVE  GoesOn(c, phase)
  <1>1. Typed
    BY DEF EditInv
  <1>2. /\ job' = [k \in Clients |-> job'[k]]
        /\ phase = "idle" => ~Running(c)' /\ Phase(c)' = "idle"
        /\ phase # "idle" => /\ Running(c)' /\ Phase(c)' = phase /\ IsPlan(job[c])'
                             /\ SamePlan(job[c], job'[c])
    BY <1>1, EntersJob DEF SamePlan
  <1>3. phase # "idle" => DeletesOrAdds(job[c])'
    BY <1>2 DEF SamePlan, DeletesOrAdds
  <1> QED
    BY <1>2, <1>3 DEF GoesOn

LEMMA CopyGoesOn ==
    ASSUME EditInv, NEW c, Clients = {c}, IsPlan(job[c]), DeletesOrAdds(job[c]),
           NEW phase \in WritePhases, job' = [job EXCEPT ![c].phase = phase]
    PROVE  GoesOn(c, phase)
  <1> DEFINE k == [job[c] EXCEPT !.phase = phase]
  <1>1. job = [i \in Clients |-> job[i]]
    BY DEF EditInv, Typed
  <1>2. job' = [i \in Clients |-> job'[i]] /\ job'[c] = k
    BY <1>1
  <1>3. k.phase = phase /\ SamePlan(job[c], k) /\ k.given = job[c].given /\ k.named = job[c].named
        /\ k = [phase |-> k.phase, new |-> k.new, given |-> k.given,
                named |-> k.named, adds |-> k.adds, refRows |-> k.refRows,
                inserts |-> k.inserts, deletes |-> k.deletes,
                cascade |-> k.cascade, cast |-> k.cast]
    BY DEF SamePlan, IsPlan
  <1> HIDE DEF k
  <1>4. IsPlan(k) /\ DeletesOrAdds(k)
    BY <1>3 DEF SamePlan, IsPlan, DeletesOrAdds
  <1>5. IsPlan(job[c])' /\ DeletesOrAdds(job[c])'
    BY <1>2, <1>4 DEF IsPlan, DeletesOrAdds, IsRow
  <1>6. Running(c)' /\ Phase(c)' = phase
    BY <1>2, <1>3 DEF Running, Phase, Idle, WritePhases
  <1> QED
    BY <1>2, <1>3, <1>5, <1>6 DEF GoesOn, WritePhases

LEMMA CopyRefsInv ==
    ASSUME EditInv, NEW c, Clients = {c}, CopyRefs(c)
    PROVE  EditInv'
  <1>1. /\ job[c].phase = "refs" /\ job' = [job EXCEPT ![c].phase = "refs_copied"]
        /\ tmp' = [tmp EXCEPT !.refs = <<ItemReferencesWrite(itemRefs, job[c])>>]
        /\ UNCHANGED <<itemRefs, userTags, files, torn>>
    BY DEF CopyRefs, tables, history
  <1>2. /\ Running(c) /\ Phase(c) = "refs"
        /\ IsPlan(job[c]) /\ DeletesOrAdds(job[c])
    BY <1>1, WritesPlan DEF WritePhases
  <1>3. GoesOn(c, "refs_copied")
    BY <1>1, <1>2, CopyGoesOn DEF WritePhases
  <1>4. /\ tmp' = [refs |-> tmp'.refs, tags |-> tmp'.tags]
        /\ tmp'.refs = <<ItemReferencesWrite(itemRefs, job[c])>>
    BY <1>1 DEF EditInv, Typed
  <1>5. \A i : (HasItem(i)' <=> HasItem(i)) /\ (Stored(itemRefs, i)' <=> Stored(itemRefs, i))
    BY <1>1 DEF HasItem, Stored
  <1>6. Typed'
    BY <1>1, <1>3, <1>4 DEF EditInv, Typed, GoesOn, IsRow
  <1>7. Drawn'
    <2>1. \A i : Makes(job[c], i)' <=> Makes(job[c], i)
      BY <1>3 DEF GoesOn, SamePlan, Makes
    <2> QED
      BY <1>1, <1>2, <1>3, <1>5, <2>1 DEF EditInv, Drawn, GoesOn, SamePlan
  <1>8. Copied'
    BY <1>1, <1>3, <1>4 DEF Copied, GoesOn, SamePlan, ItemReferencesWrite
  <1>9. (Planned /\ Backed /\ FilesBacked)'
    BY <1>1, <1>2, <1>3, <1>5 DEF EditInv, Planned, Backed, FilesBacked, GoesOn
  <1>10. (OneItem /\ OneDefinition)'
    BY <1>1 DEF EditInv, OneItem, OneDefinition
  <1> QED
    BY <1>6, <1>7, <1>8, <1>9, <1>10 DEF EditInv

\* What is saved of item_references keeps every id one item and every type one
\* definition.
LEMMA SavedRefs ==
    ASSUME EditInv, NEW c, Clients = {c}, Phase(c) = "refs_copied",
           IsPlan(job[c]), DeletesOrAdds(job[c]),
           itemRefs' = ItemReferencesWrite(itemRefs, job[c])
    PROVE  (OneItem /\ OneDefinition)'
  <1> DEFINE j == job[c]
             rows == job[c].refRows
             gone == j.cascade \ FileIds
             New(q) == rows[q] > 0
             Old(q) == itemRefs[q] > 0
             Now(q) == itemRefs'[q] > 0
  <1>1. /\ itemRefs \in [RefRow -> Nat] /\ rows \in [RefRow -> Nat]
        /\ \A q \in RefRow : itemRefs'[q] = (IF q.id \in gone THEN 0 ELSE itemRefs[q]) + rows[q]
    BY DEF EditInv, Typed, IsPlan, ItemReferencesWrite
  <1>2. /\ \A q \in RefRow : Now(q) => Old(q) \/ New(q)
        /\ \A q \in RefRow : ~New(q) /\ itemRefs[q] <= 1 => itemRefs'[q] <= 1
        /\ \A q \in RefRow : rows[q] = 1 /\ ~Old(q) => itemRefs'[q] <= 1
    <2> HIDE DEF rows, gone
    <2> QED BY <1>1
  <1>3. \A q \in RefRow : New(q) /\ q.id \in UserIds =>
           rows[q] = 1 /\ \A r \in RefRow : r.id = q.id => ~Old(r)
    <2>1. \A q \in RefRow : New(q) /\ q.id \in UserIds => rows[q] = 1 /\ ~Stored(itemRefs, q.id)
      BY DEF EditInv, Drawn
    <2> HIDE DEF rows
    <2> QED
      BY <2>1 DEF Stored
  <1>4. \A q, r \in RefRow :
           /\ New(q) /\ New(r) /\ q.id \in UserIds
           /\ q.id = r.id \/ (q.content = r.content /\ q.content \in UserTypes)
           => q = r
    BY DEF EditInv, Drawn
  <1>5. \A q, r \in RefRow :
           New(q) /\ q.content \in UserTypes /\ r.content = q.content => ~Old(r)
    <2>1. \A q, r \in RefRow :
             New(q) /\ q.content \in UserTypes /\ r.content = q.content => itemRefs[r] = 0
      BY DEF EditInv, Drawn
    <2> HIDE DEF rows
    <2> QED BY <2>1
  <1>6. \A q, r \in RefRow : q.id = r.id /\ Old(q) /\ Old(r) => q = r
    BY DEF EditInv, OneItem
  <1>7. \A q, r \in RefRow :
           q.content \in UserTypes /\ q.content = r.content /\ Old(q) /\ Old(r) => q = r
    BY DEF EditInv, OneDefinition
  <1>8. \A q \in RefRow : q.content \in UserTypes => itemRefs[q] <= 1
    BY DEF EditInv, OneDefinition
  <1>9. \A q \in RefRow : q.content \in UserTypes => itemRefs'[q] <= 1
    <2> HIDE DEF rows, gone, New, Old, Now
    <2> QED BY <1>2, <1>3, <1>8, RefRowFields
  <1>10. \A q, r \in RefRow : q.id = r.id /\ Now(q) /\ Now(r) => q = r
    <2> SUFFICES ASSUME NEW q \in RefRow, NEW r \in RefRow, q.id = r.id, Now(q), Now(r)
                 PROVE  q = r
      OBVIOUS
    <2> HIDE DEF rows, gone, New, Old, Now
    <2>1. CASE q.id \in BuiltinIds
      <3>1. q.content = BuiltinName[q.id] /\ r.content = BuiltinName[r.id]
        BY <2>1, RefRowFields
      <3> QED
        BY <3>1, RefRowFields
    <2>2. CASE q.id \in UserIds
      BY <1>2, <1>3, <1>4, <1>6, <2>2
    <2> QED
      BY <2>1, <2>2, RefRowFields
  <1>11. \A q, r \in RefRow :
            q.content \in UserTypes /\ q.content = r.content /\ Now(q) /\ Now(r) => q = r
    <2> HIDE DEF rows, gone, New, Old, Now
    <2> QED BY <1>2, <1>4, <1>5, <1>7, RefRowFields
  <1> QED
    BY <1>9, <1>10, <1>11 DEF OneItem, OneDefinition

LEMMA RenameRefsInv ==
    ASSUME EditInv, NEW c, Clients = {c}, RenameRefs(c)
    PROVE  EditInv'
  <1> DEFINE j == job[c]
             rows == job[c].refRows
             gone == j.cascade \ FileIds
             phase == AfterRefs(job[c])
  <1>1. job[c].phase = "refs_copied"
    BY DEF RenameRefs
  <1>2. /\ Running(c) /\ Phase(c) = "refs_copied"
        /\ IsPlan(job[c]) /\ DeletesOrAdds(job[c])
    BY <1>1, WritesPlan DEF WritePhases
  <1>3. tmp.refs = <<ItemReferencesWrite(itemRefs, job[c])>> /\ tmp.refs # <<>>
        /\ tmp.refs[1] = ItemReferencesWrite(itemRefs, job[c])
    BY <1>2 DEF EditInv, Copied
  <1>4. /\ itemRefs' = ItemReferencesWrite(itemRefs, job[c])
        /\ tmp' = [tmp EXCEPT !.refs = <<>>]
        /\ UNCHANGED <<userTags, files, torn>>
        /\ Enters(c, job[c], phase)
    BY <1>3 DEF RenameRefs
  <1>5. phase \in {"tags", "idle"} /\ (phase = "idle" => j.cascade = {} /\ j.inserts = {})
    BY DEF AfterRefs, AfterTags, NeedsTags
  <1> HIDE DEF phase
  <1>6. GoesOn(c, phase)
    BY <1>2, <1>4, <1>5, EntersGoesOn DEF WritePhases
  <1>7. tmp' = [refs |-> tmp'.refs, tags |-> tmp'.tags]
    BY <1>4 DEF EditInv, Typed
  <1>8. /\ itemRefs \in [RefRow -> Nat] /\ rows \in [RefRow -> Nat] /\ itemRefs' \in [RefRow -> Nat]
        /\ \A q \in RefRow : itemRefs'[q] = (IF q.id \in gone THEN 0 ELSE itemRefs[q]) + rows[q]
    BY <1>2, <1>4 DEF EditInv, Typed, IsPlan, ItemReferencesWrite
  <1>9. \A q \in RefRow :
           /\ rows[q] > 0 => itemRefs'[q] > 0
           /\ itemRefs[q] > 0 /\ q.id \notin gone => itemRefs'[q] > 0
    <2> HIDE DEF rows, gone
    <2> SUFFICES ASSUME NEW q \in RefRow
                 PROVE  /\ rows[q] > 0 => itemRefs'[q] > 0
                        /\ itemRefs[q] > 0 /\ q.id \notin gone => itemRefs'[q] > 0
      OBVIOUS
    <2>1. /\ itemRefs[q] \in Nat /\ rows[q] \in Nat
          /\ itemRefs'[q] = (IF q.id \in gone THEN 0 ELSE itemRefs[q]) + rows[q]
      BY <1>8
    <2>2. CASE q.id \in gone
      BY <2>1, <2>2
    <2>3. CASE q.id \notin gone
      BY <2>1, <2>3
    <2> QED
      BY <2>2, <2>3
  <1>10. /\ \A i : HasItem(i) /\ i \notin gone => HasItem(i)'
         /\ \A i : Makes(job[c], i) => HasItem(i)'
    <2>1. /\ \A i : Stored(itemRefs, i) /\ i \notin gone => Stored(itemRefs, i)'
          /\ \A i : Makes(job[c], i) => Stored(itemRefs, i)'
      <3>1. ASSUME NEW i, Stored(itemRefs, i), i \notin gone PROVE Stored(itemRefs, i)'
        <4>1. PICK q \in RefRow : q.id = i /\ itemRefs[q] > 0
          BY <3>1 DEF Stored
        <4>2. itemRefs'[q] > 0
          <5> HIDE DEF rows, gone
          <5> QED BY <1>9, <3>1, <4>1
        <4> QED
          BY <4>1, <4>2 DEF Stored
      <3>2. ASSUME NEW i, Makes(job[c], i) PROVE Stored(itemRefs, i)'
        <4>1. PICK q \in RefRow : q.id = i /\ rows[q] > 0
          BY <3>2 DEF Makes
        <4>2. itemRefs'[q] > 0
          <5> HIDE DEF rows, gone
          <5> QED BY <1>9, <4>1
        <4> QED
          BY <4>1, <4>2 DEF Stored
      <3> QED
        BY <3>1, <3>2
    <2> HIDE DEF gone
    <2> QED
      BY <1>4, <2>1 DEF HasItem
  <1>11. Typed'
    BY <1>4, <1>6, <1>7, <1>8 DEF EditInv, Typed, GoesOn, IsRow
  <1>12. (Planned /\ Drawn /\ Copied)'
    BY <1>5, <1>6 DEF Planned, Drawn, Copied, GoesOn
  <1>13. Backed'
    <2>1. \A r \in j.inserts : HasItem(r.item)'
      <3>1. \A r \in j.inserts : HasItem(r.item) \/ Makes(j, r.item)
        BY <1>2 DEF EditInv, Drawn
      <3>2. j.inserts # {} => gone = {}
        BY <1>2 DEF DeletesOrAdds
      <3> HIDE DEF gone
      <3> QED
        BY <1>10, <3>1, <3>2
    <2>2. \A r \in userTags : HasItem(r.item)' \/ r.item \in gone
      <3>1. \A r \in userTags : HasItem(r.item)
        BY <1>2 DEF EditInv, Backed
      <3> HIDE DEF gone
      <3> QED BY <1>10, <3>1
    <2>3. phase = "idle" => gone = {}
      BY <1>5
    <2>4. phase = "tags" => job'[c].inserts = j.inserts /\ job'[c].cascade \ FileIds = gone
      BY <1>6 DEF GoesOn, SamePlan
    <2> HIDE DEF gone, j
    <2> QED
      BY <1>4, <1>5, <1>6, <2>1, <2>2, <2>3, <2>4 DEF Backed, GoesOn
  <1>14. FilesBacked'
    BY <1>2, <1>4 DEF EditInv, FilesBacked
  <1>15. (OneItem /\ OneDefinition)'
    BY <1>2, <1>4, SavedRefs
  <1> QED
    BY <1>11, <1>12, <1>13, <1>14, <1>15 DEF EditInv

LEMMA CopyTagsInv ==
    ASSUME EditInv, NEW c, Clients = {c}, CopyTags(c)
    PROVE  EditInv'
  <1>1. job[c].phase = "tags" /\ UNCHANGED <<itemRefs, userTags, files>>
    BY DEF CopyTags, tables
  <1>2. /\ Running(c) /\ Phase(c) = "tags"
        /\ IsPlan(job[c]) /\ DeletesOrAdds(job[c])
    BY <1>1, WritesPlan DEF WritePhases
  <1>3. \/ Stops(c) /\ UNCHANGED tmp
        \/ /\ tmp' = [tmp EXCEPT !.tags = <<UserTagsWrite(userTags, job[c])>>]
           /\ job' = [job EXCEPT ![c].phase = "tags_copied"]
           /\ UNCHANGED history
    BY DEF CopyTags
  <1>4. CASE Stops(c) /\ UNCHANGED tmp
    <2>1. tmp' = [refs |-> tmp'.refs, tags |-> tmp'.tags]
      BY <1>4 DEF EditInv, Typed
    <2> QED
      BY <1>1, <1>2, <1>4, <2>1, StopInv
  <1>5. CASE /\ tmp' = [tmp EXCEPT !.tags = <<UserTagsWrite(userTags, job[c])>>]
             /\ job' = [job EXCEPT ![c].phase = "tags_copied"]
             /\ UNCHANGED history
    <2>1. GoesOn(c, "tags_copied") /\ torn' = torn
      BY <1>2, <1>5, CopyGoesOn DEF WritePhases, history
    <2>2. /\ tmp' = [refs |-> tmp'.refs, tags |-> tmp'.tags]
          /\ tmp'.tags = <<UserTagsWrite(userTags, job[c])>>
      BY <1>5 DEF EditInv, Typed
    <2>3. \A i : HasItem(i)' <=> HasItem(i)
      BY <1>1, <2>1 DEF HasItem, Stored
    <2>4. Typed'
      BY <1>1, <2>1, <2>2 DEF EditInv, Typed, GoesOn, IsRow
    <2>5. Copied'
      BY <1>1, <2>1, <2>2 DEF Copied, GoesOn, SamePlan, UserTagsWrite, Kept
    <2>6. Backed'
      BY <1>1, <1>2, <2>1, <2>3 DEF EditInv, Backed, GoesOn, SamePlan
    <2>7. (Planned /\ Drawn)'
      BY <2>1 DEF Planned, Drawn, GoesOn
    <2>8. FilesBacked'
      BY <1>1, <1>2, <2>1 DEF EditInv, FilesBacked
    <2>9. (OneItem /\ OneDefinition)'
      BY <1>1 DEF EditInv, OneItem, OneDefinition
    <2> QED
      BY <2>4, <2>5, <2>6, <2>7, <2>8, <2>9 DEF EditInv
  <1> QED
    BY <1>3, <1>4, <1>5

LEMMA SavedTags ==
    ASSUME EditInv, NEW c, Clients = {c}, Phase(c) = "tags_copied",
           IsPlan(job[c]), DeletesOrAdds(job[c]),
           NEW r \in UserTagsWrite(userTags, job[c])
    PROVE  IsRow(r) /\ HasItem(r.item) /\ r.item \notin job[c].cascade
  <1> DEFINE j == job[c]
  <1>1. CASE r \in j.inserts
    BY <1>1 DEF EditInv, Backed, IsPlan, DeletesOrAdds
  <1>2. CASE \E k \in Kept(userTags, j) : r = CastRow(k, j.cast)
    <2>1. PICK k \in userTags : r = CastRow(k, j.cast) /\ k.item \notin j.cascade
      BY <1>2 DEF Kept
    <2>2. IsRow(k)
      BY DEF EditInv, Typed
    <2>3. IsRow(r) /\ r.item = k.item
      BY <2>1, <2>2 DEF IsRow, CastRow
    <2>4. HasItem(k.item)
      BY <2>1 DEF EditInv, Backed
    <2> QED
      BY <2>1, <2>3, <2>4
  <1> QED
    BY <1>1, <1>2 DEF UserTagsWrite

LEMMA RenameTagsInv ==
    ASSUME EditInv, NEW c, Clients = {c}, RenameTags(c)
    PROVE  EditInv'
  <1> DEFINE gone == job[c].cascade \ FileIds
             phase == AfterTags(job[c])
  <1>1. job[c].phase = "tags_copied"
    BY DEF RenameTags
  <1>2. /\ Running(c) /\ Phase(c) = "tags_copied"
        /\ IsPlan(job[c]) /\ DeletesOrAdds(job[c])
    BY <1>1, WritesPlan DEF WritePhases
  <1>3. tmp.tags # <<>> /\ tmp.tags[1] = UserTagsWrite(userTags, job[c])
    BY <1>2 DEF EditInv, Copied
  <1>4. /\ userTags' = UserTagsWrite(userTags, job[c])
        /\ tmp' = [tmp EXCEPT !.tags = <<>>]
        /\ torn' = torn \ gone
        /\ UNCHANGED <<itemRefs, files>>
        /\ Enters(c, job[c], phase)
    BY <1>3 DEF RenameTags
  <1>5. phase \in {"files", "idle"}
    BY DEF AfterTags
  <1> HIDE DEF phase
  <1>6. GoesOn(c, phase)
    BY <1>2, <1>4, <1>5, EntersGoesOn DEF WritePhases
  <1>7. tmp' = [refs |-> tmp'.refs, tags |-> tmp'.tags]
    BY <1>4 DEF EditInv, Typed
  <1>8. \A r \in userTags' : IsRow(r) /\ HasItem(r.item) /\ r.item \notin job[c].cascade
    BY <1>2, <1>4, SavedTags
  <1>9. \A i : HasItem(i) /\ i \notin gone => HasItem(i)'
    BY <1>4 DEF HasItem, Stored
  <1>10. Typed'
    BY <1>4, <1>6, <1>7, <1>8 DEF EditInv, Typed, GoesOn, IsRow
  <1>11. (Planned /\ Drawn /\ Copied)'
    BY <1>5, <1>6 DEF Planned, Drawn, Copied, GoesOn
  <1>12. Backed'
    <2>1. \A r \in userTags' : HasItem(r.item)'
      BY <1>8, <1>9
    <2> QED
      BY <1>5, <1>6, <1>8, <2>1 DEF Backed, GoesOn, SamePlan
  <1>13. FilesBacked'
    <2>1. ASSUME NEW t \in ToSet(FileTables), NEW i \in files[t]
          PROVE  i \in files["file_references"] \cup torn'
      <3>1. i \in FileIds
        BY DEF EditInv, Typed
      <3>2. i \in files["file_references"] \cup torn
        BY <1>2 DEF EditInv, FilesBacked
      <3> QED
        BY <1>4, <3>1, <3>2
    <2> QED
      BY <1>4, <2>1 DEF FilesBacked
  <1>14. (OneItem /\ OneDefinition)'
    BY <1>4 DEF EditInv, OneItem, OneDefinition
  <1> QED
    BY <1>10, <1>11, <1>12, <1>13, <1>14 DEF EditInv

LEMMA FileTableNames ==
    /\ "file_references" \in ToSet(FileTables)
    /\ \A t \in ToSet(FileTables) : \E k \in DOMAIN FileTables : t = FileTables[k]
    /\ \A k, m \in DOMAIN FileTables : FileTables[k] = FileTables[m] => k = m
  <1>1. DOMAIN FileTables = {1, 2, 3, 4}
    BY DEF FileTables
  <1>2. FileTables[1] = "file_references" /\ FileTables[2] = "locations"
        /\ FileTables[3] = "base_tags" /\ FileTables[4] = "removed_files"
    BY DEF FileTables
  <1> QED
    BY <1>1, <1>2 DEF ToSet

LEMMA CascadeFileInv ==
    ASSUME EditInv, NEW c, Clients = {c}, CascadeFile(c)
    PROVE  EditInv'
  <1> DEFINE gone == job[c].cascade
             left == {k \in DOMAIN FileTables : files[FileTables[k]] \cap gone # {}}
             next == CHOOSE k \in left : \A m \in left : k <= m
             last == left \subseteq {next}
             phase == IF last THEN "idle" ELSE "files"
  <1>1. job[c].phase = "files"
    BY DEF CascadeFile
  <1>2. /\ Running(c) /\ Phase(c) = "files"
        /\ IsPlan(job[c]) /\ DeletesOrAdds(job[c])
    BY <1>1, WritesPlan DEF WritePhases
  <1>3. /\ IF left = {} THEN files' = files
           ELSE files' = [files EXCEPT ![FileTables[next]] = @ \ gone]
        /\ torn' = IF last THEN torn \ gone ELSE torn
        /\ UNCHANGED <<itemRefs, userTags, tmp>>
        /\ Enters(c, job[c], phase)
    BY DEF CascadeFile
  <1> HIDE DEF next
  <1>4. phase \in {"files", "idle"} /\ (phase = "idle" <=> last)
    OBVIOUS
  <1>5. GoesOn(c, phase)
    <2> HIDE DEF phase
    <2> QED BY <1>2, <1>3, <1>4, EntersGoesOn DEF WritePhases
  <1>6. files \in [ToSet(FileTables) -> SUBSET FileIds]
    BY DEF EditInv, Typed
  <1>7. /\ files' \in [ToSet(FileTables) -> SUBSET FileIds]
        /\ \A t \in ToSet(FileTables) :
              files'[t] \subseteq files[t] /\ files[t] \ gone \subseteq files'[t]
    <2> HIDE DEF left, gone
    <2> QED BY <1>3, <1>6
  <1>8. last => \A t \in ToSet(FileTables) : files'[t] \cap gone = {}
    <2> SUFFICES ASSUME last, NEW t \in ToSet(FileTables), NEW i \in files'[t], i \in gone
                 PROVE  FALSE
      OBVIOUS
    <2>1. PICK k \in DOMAIN FileTables : t = FileTables[k]
      BY FileTableNames
    <2>2. k \in left
      BY <1>7, <2>1
    <2>3. k = next /\ left # {}
      BY <2>2
    <2> HIDE DEF left, gone
    <2>4. files'[t] = files[t] \ gone
      BY <1>3, <1>6, <2>1, <2>3
    <2> QED
      BY <2>4
  <1>9. \A i : HasItem(i) /\ i \notin gone => HasItem(i)'
    BY <1>3, <1>7, FileTableNames DEF HasItem, Stored
  <1> HIDE DEF left, last
  <1>10. Typed'
    <2> HIDE DEF phase
    <2> QED BY <1>3, <1>4, <1>5, <1>7 DEF EditInv, Typed, GoesOn, IsRow
  <1>11. (Planned /\ Drawn /\ Copied)'
    <2> HIDE DEF phase
    <2> QED BY <1>4, <1>5 DEF Planned, Drawn, Copied, GoesOn
  <1>12. Backed'
    <2>1. \A r \in userTags : HasItem(r.item)' /\ r.item \notin gone
      BY <1>2, <1>9 DEF EditInv, Backed
    <2> HIDE DEF phase
    <2> QED
      BY <1>3, <1>4, <1>5, <2>1 DEF Backed, GoesOn, SamePlan
  <1>13. FilesBacked'
    <2> SUFFICES ASSUME NEW t \in ToSet(FileTables), NEW i \in files'[t],
                        i \notin files'["file_references"] \cup torn'
                 PROVE  Phase(c)' = "files" /\ i \in job'[c].cascade
      BY DEF FilesBacked
    <2>1. i \in gone
      <3>1. i \in files["file_references"] \cup torn \cup gone
        BY <1>7 DEF EditInv, FilesBacked
      <3> QED
        BY <1>3, <1>7, <3>1, FileTableNames
    <2>2. ~last
      BY <1>8, <2>1
    <2> HIDE DEF phase
    <2> QED
      BY <1>4, <1>5, <2>1, <2>2 DEF GoesOn, SamePlan
  <1>14. (OneItem /\ OneDefinition)'
    BY <1>3 DEF EditInv, OneItem, OneDefinition
  <1> QED
    BY <1>10, <1>11, <1>12, <1>13, <1>14 DEF EditInv

-----------------------------------------------------------------------------
(* The specification.                                                      *)

LEMMA InitInv ==
    ASSUME NEW c, Clients = {c}, Init
    PROVE  EditInv
  <1>1. ~Running(c) /\ Phase(c) = "idle"
    BY DEF Init, Running, Phase
  <1>2. Typed
    <2>1. files \in [ToSet(FileTables) -> SUBSET FileIds]
      BY DEF Init
    <2>2. itemRefs \in [RefRow -> Nat] /\ userTags = {} /\ job = [k \in Clients |-> job[k]]
      BY DEF Init
    <2>3. tmp = [refs |-> tmp.refs, tags |-> tmp.tags]
      BY DEF Init
    <2> QED
      BY <1>1, <2>1, <2>2, <2>3 DEF Typed
  <1>3. Planned /\ Drawn /\ Copied
    BY <1>1 DEF Planned, Drawn, Copied
  <1>4. Backed
    BY <1>1 DEF Init, Backed
  <1>5. FilesBacked
    <2>1. files = [t \in ToSet(FileTables) |-> IF t = "removed_files" THEN {} ELSE FileIds]
      BY DEF Init
    <2> QED
      BY <2>1, FileTableNames DEF FilesBacked
  <1>6. OneItem /\ OneDefinition
    BY DEF Init, OneItem, OneDefinition
  <1> QED
    BY <1>2, <1>3, <1>4, <1>5, <1>6 DEF EditInv

LEMMA StutterInv ==
    ASSUME EditInv, UNCHANGED vars
    PROVE  EditInv'
  <1>1. UNCHANGED <<itemRefs, userTags, files, tmp, job, torn>>
    BY DEF vars, tables, history
  <1>2. /\ \A i : (HasItem(i)' <=> HasItem(i)) /\ (Stored(itemRefs, i)' <=> Stored(itemRefs, i))
        /\ \A k : (Running(k)' <=> Running(k)) /\ Phase(k)' = Phase(k)
        /\ \A j, i : Makes(j, i)' <=> Makes(j, i)
    BY <1>1 DEF HasItem, Stored, Running, Phase, Makes
  <1>3. Typed'
    BY <1>1, <1>2 DEF EditInv, Typed, IsPlan, IsRow, DeletesOrAdds
  <1>4. (Planned /\ Drawn)'
    BY <1>1, <1>2 DEF EditInv, Planned, Drawn
  <1>5. Copied'
    BY <1>1, <1>2 DEF EditInv, Copied, ItemReferencesWrite, UserTagsWrite, Kept
  <1>6. (Backed /\ FilesBacked)'
    BY <1>1, <1>2 DEF EditInv, Backed, FilesBacked
  <1>7. (OneItem /\ OneDefinition)'
    BY <1>1 DEF EditInv, OneItem, OneDefinition
  <1> QED
    BY <1>3, <1>4, <1>5, <1>6, <1>7 DEF EditInv

LEMMA NextInv ==
    ASSUME EditInv, NEW c, Clients = {c}, [Next]_vars
    PROVE  EditInv'
  <1>1. CASE Plan(c)
    <2>1. ~Running(c)
      BY <1>1 DEF Plan
    <2>2. ASSUME NEW found \in SUBSET Findable, NEW new \in SUBSET UserTypes,
                 NEW nodes \in TagQueries, NEW answer \in Answers(nodes),
                 PlanTag(c, found, new, nodes, answer)
          PROVE  EditInv'
      BY <2>1, <2>2, PlanTagInv
    <2>3. ASSUME NEW found \in SUBSET Findable, NEW new \in SUBSET UserTypes,
                 NEW nodes \in UntagQueries, PlanUntag(c, found, new, nodes)
          PROVE  EditInv'
      BY <2>1, <2>3, PlanUntagInv
    <2>4. ASSUME NEW found \in SUBSET Findable, PlanForget(c, found)
          PROVE  EditInv'
      BY <2>1, <2>4, PlanForgetInv
    <2>5. ASSUME NEW n \in Notes, PlanNote(c, n)
          PROVE  EditInv'
      BY <2>1, <2>5, PlanNoteInv
    <2> QED
      BY <1>1, <2>2, <2>3, <2>4, <2>5 DEF Plan
  <1>2. CASE Write(c)
    BY <1>2, DrawInv, CopyRefsInv, RenameRefsInv, CopyTagsInv, RenameTagsInv, CascadeFileInv
       DEF Write
  <1>3. CASE Crash(c)
    <2>1. Running(c) /\ Stops(c) /\ UNCHANGED <<itemRefs, userTags, files, tmp>>
      BY <1>3 DEF Crash, tables
    <2>2. tmp' = [refs |-> tmp'.refs, tags |-> tmp'.tags]
      BY <2>1 DEF EditInv, Typed
    <2> QED
      BY <2>1, <2>2, StopInv
  <1>4. CASE UNCHANGED vars
    BY <1>4, StutterInv
  <1> QED
    BY <1>1, <1>2, <1>3, <1>4 DEF Next

LEMMA EditInvHolds ==
    ASSUME NEW c, Clients = {c}
    PROVE  Spec => []EditInv
  <1>1. Init => EditInv
    BY InitInv
  <1>2. EditInv /\ [Next]_vars => EditInv'
    BY NextInv
  <1> QED
    BY <1>1, <1>2, PTL DEF Spec

\* Whatever one client writes, wherever it fails or dies, an id never names two
\* items: identifier::next draws above every id in use.
THEOREM UniqueIds ==
    ASSUME NEW c, Clients = {c}
    PROVE  Spec => []IdsUnique
  <1>1. EditInv => IdsUnique
    <2> SUFFICES ASSUME EditInv, NEW i \in Ids
                 PROVE  Cardinality(ContentsOf(itemRefs, i)) <= 1
      BY DEF IdsUnique
    <2> DEFINE held == ContentsOf(itemRefs, i)
    <2>1. \A x, y \in held : x = y
      BY DEF EditInv, OneItem, ContentsOf
    <2>2. held = {} \/ \E x : held = {x}
      <3> HIDE DEF held
      <3> QED BY <2>1
    <2>3. Cardinality(held) = 0 \/ Cardinality(held) = 1
      <3> HIDE DEF held
      <3> QED BY <2>2, FS_EmptySet, FS_Singleton
    <2> HIDE DEF held
    <2>4. Cardinality(held) <= 1
      BY <2>3
    <2> QED
      BY <2>4 DEF held
  <1> QED
    BY <1>1, EditInvHolds, PTL

\* A type a user made up never gets a second definition, nor a second row for
\* its only one: a command defines what the search before it did not find.
THEOREM DefinitionsUnique ==
    ASSUME NEW c, Clients = {c}
    PROVE  Spec => []OneDefinition
  <1>1. EditInv => OneDefinition
    BY DEF EditInv
  <1> QED
    BY <1>1, EditInvHolds, PTL

\* A tag never stands alone, in whatever order the saves of a command are cut
\* short: items are saved before their tags, and their tags are deleted before
\* the rows of files.
THEOREM TagsAreBacked ==
    ASSUME NEW c, Clients = {c}
    PROVE  Spec => []TagsHaveItem
  <1>1. EditInv => TagsHaveItem
    <2> SUFFICES ASSUME EditInv, NEW r \in userTags, ~HasItem(r.item)
                 PROVE  r.item \in BeingDeleted
      BY DEF TagsHaveItem, HasItem
    <2>1. Phase(c) \in {"tags", "tags_copied"} /\ r.item \in job[c].cascade
      BY DEF EditInv, Backed
    <2>2. Running(c)
      BY <2>1 DEF Phase
    <2> QED
      BY <2>1, <2>2 DEF BeingDeleted
  <1> QED
    BY <1>1, EditInvHolds, PTL
=============================================================================
