------------------------------- MODULE Search -------------------------------
(***************************************************************************)
(* What a search answers: OneView built from the tables (oneview.rs,       *)
(* query/lens_reader.rs), the items and definitions a query picks, fetches *)
(* and counts (query/sql), q() (search/eval.rs), and the pages a client    *)
(* reads one after the other, each from the tables or from the result      *)
(* cache (search/mod.rs, search/cache.rs).                                 *)
(*                                                                         *)
(* The tables do not change while a client reads; ResultCache is about     *)
(* tables that do.  NestQuery has the projections, nests and aggregations  *)
(* a query may also hold, CaptureEdit the labels it may give.              *)
(***************************************************************************)
EXTENDS Integers, Sequences, FiniteSets, SequencesExt, FiniteSetsExt, Functions, TLC

CONSTANTS
    Tables,     \* contents of the index to start from
    Searches,   \* [query, orders, n]: what a client may ask
    Registry,   \* the registered types: [name, rank, id, origin], id may be NoId
    OriginOf,   \* Origin::within: the block an id lies in
    Alphabet    \* every string, in the order strings have

VARIABLES
    tables,     \* the index
    search,     \* what is asked
    seen,       \* the rows of the pages read so far
    more,       \* whether the last page said has_more
    cached,     \* the rows in the result cache, or NoFile
    usedCache   \* whether a page came from the cache

vars == <<tables, search, seen, more, cached, usedCache>>

NoId == -1000           \* a NULL id: no row of the database has it
NoText == << >>         \* a NULL label, name or representative; in a term: any label
NoFile == {"no file"}

-----------------------------------------------------------------------------
(* OneView.  A row is one tag of one item, with the item's rank and kind.  *)
(* Texts are sequences of strings: <<"hue">> is a type, <<"hue", "red">>   *)
(* the tag hue:red.  [files: id -> rank, names: the names of locations,    *)
(* removed: ids, defs: rows of item_references, user: user_tags that are   *)
(* texts, ranks: user_tags of type rank].                                  *)

Row(id, type, label, origin, rank, kind) ==
    [id |-> id, type |-> type, label |-> label, origin |-> origin,
     rank |-> rank, kind |-> kind]

Defined(t, id) == {d \in t.defs : d.id = id}

\* build_item_kind_expr, build_rank_expr: a tag's row joins file_references and
\* item_references.
TagKind(t, id) ==
    IF id \in DOMAIN t.files THEN "file"
    ELSE IF Defined(t, id) # {} THEN (CHOOSE d \in Defined(t, id) : TRUE).kind
    ELSE "volatile"
TagRank(t, id) ==
    IF id \in DOMAIN t.files THEN t.files[id]
    ELSE IF Defined(t, id) # {} THEN (CHOOSE d \in Defined(t, id) : TRUE).rank
    ELSE 0

\* spec_typed_tag: CONCAT takes a NULL label for the empty text
TypedTag(r) == <<r.type>> \o (IF r.label = NoText THEN <<"">> ELSE r.label)

TagRow(t, id, type, label) ==
    Row(id, type, label, "user", TagRank(t, id), TagKind(t, id))

TagRows(t) ==
    {TagRow(t, u.id, u.type, <<u.label>>) : u \in t.user}
        \cup {TagRow(t, r.id, "rank", <<ToString(r.rank)>>) : r \in t.ranks}
PhysicalRows(t) ==
    {Row(i, "size", <<"0">>, "file", t.files[i], "file") : i \in DOMAIN t.files}
        \cup {Row(l.id, "filename", <<l.name>>, "file", t.files[l.id], "file") : l \in t.names}
DefinitionRows(t) ==
    UNION {{Row(d.id, "content", d.name, OriginOf[d.id], d.rank, d.kind),
            Row(d.id, "item_kind", <<d.kind>>, OriginOf[d.id], d.rank, d.kind),
            Row(d.id, "name", NoText, OriginOf[d.id], d.rank, d.kind)} : d \in t.defs}
RemovedRows(t) ==
    {Row(i, "removed_file_path", <<"0">>, "file", 0, "file") : i \in t.removed}

\* resolved_sources_sql: a rank the user gave wins, the highest if there are
\* several; what is neither file nor definition but was removed is a file.
\* Mutant: the rank the user gave is looked up for tags only.
ResolvedTagsOnly(t, r) ==
    LET given == {x.rank : x \in {y \in t.ranks : y.id = r.id /\ r.origin = "user"}}
    IN  [r EXCEPT !.rank = IF given = {} THEN @ ELSE Max(given),
                  !.kind = IF @ = "volatile" /\ r.id \in t.removed THEN "file" ELSE @]
Resolved(t, r) ==
    LET given == {x.rank : x \in {y \in t.ranks : y.id = r.id}}
    IN  [r EXCEPT !.rank = IF given = {} THEN @ ELSE Max(given),
                  !.kind = IF @ = "volatile" /\ r.id \in t.removed THEN "file" ELSE @]

Sources(t) ==
    {Resolved(t, r) : r \in TagRows(t) \cup PhysicalRows(t) \cup DefinitionRows(t)
                               \cup RemovedRows(t)}

\* NameFn::read, resolution_select: one name per item, the user's if there is
\* one, else that of a file; of several file names, any.
Names(rows, id) ==
    {r \in rows : r.id = id /\ r.type = "name"}
        \cup {[r EXCEPT !.type = "name"] : r \in {x \in rows : x.id = id /\ x.type = "filename"}}
NameOf(rows, id) ==
    LET c == Names(rows, id)
        mine == {r \in c : r.origin = "user"}
        given == {r \in c : r.label # NoText}
    IN  CHOOSE r \in (IF mine # {} THEN mine ELSE IF given # {} THEN given ELSE c) : TRUE

View(t) ==
    LET rows == Sources(t)
        ids == {id \in {r.id : r \in rows} : Names(rows, id) # {}}
    IN  {r \in rows : r.type # "name"} \cup {NameOf(rows, id) : id \in ids}

-----------------------------------------------------------------------------
(* Queries.  "has" is a term, "id" a term for one item, "def" a reference  *)
(* to the definitions a pattern names, "origin" an origin: term, "column"  *)
(* and "registered" what it expands to.                                    *)

Has(type, label) == [op |-> "has", type |-> type, label |-> label]
ItemIs(id) == [op |-> "id", id |-> id]
Exact(name) == [glob |-> FALSE, name |-> name]
Glob(start) == [glob |-> TRUE, name |-> start]
Def(kind, pattern) == [op |-> "def", kind |-> kind, pattern |-> pattern]
OriginIs(o) == [op |-> "origin", o |-> o]
Column(o) == [op |-> "column", o |-> o]
Registered(o) == [op |-> "registered", o |-> o]
And(qs) == [op |-> "and", qs |-> qs]
Or(qs) == [op |-> "or", qs |-> qs]
Minus(l, r) == [op |-> "minus", qs |-> <<l, r>>]
Eval(q) == [op |-> "eval", q |-> q]

IsDef(q) == q.op \in {"def", "registered"}
Labelled(r, label) == label = NoText \/ r.label = label
Meets(p, name) == IF p.glob THEN IsPrefix(p.name, name) ELSE name = p.name

\* OriginFn::expand
SystemOrigins == <<"builtin", "file", "plugin">>
OriginTerm(o) ==
    IF \E c \in Registry : c.origin = o THEN Or(<<Column(o), Registered(o)>>)
    ELSE Column(o)
OriginTerms(o) ==
    IF o = "system" THEN Or([j \in 1..3 |-> OriginTerm(SystemOrigins[j])])
    ELSE OriginTerm(o)

-----------------------------------------------------------------------------
(* Definitions: query/sql/definition.rs.                                   *)

KindOf(q) == IF q.op = "registered" THEN "type" ELSE q.kind
Named(q, name) == q.op = "registered" \/ Meets(q.pattern, name)

\* definition_candidates, exact_match_candidate: what is registered, or the one
\* name that is asked for
Known(kind) == IF kind = "type" THEN Registry ELSE {}
Placeholder(name) ==
    [name |-> name, id |-> NoId, origin |-> "user",
     rank |-> IF \E c \in Registry : c.name = name
              THEN (CHOOSE c \in Registry : c.name = name).rank ELSE 0]
Candidates(q) ==
    IF q.op = "registered" THEN {c \in Registry : c.origin = q.o}
    ELSE IF q.pattern.glob THEN Known(q.kind)
    ELSE LET c == {x \in Known(q.kind) : x.name = q.pattern.name}
         IN  IF c = {} THEN {Placeholder(q.pattern.name)} ELSE c

\* A definition row.  tags tells rows apart whose tags the query makes up:
\* their type: is the kind asked for.
DefRow(id, name, rank, kind, tags) ==
    [id |-> id, name |-> name, rank |-> rank, kind |-> kind, tags |-> tags]

Stored(rows, kind) ==
    {DefRow(r.id, r.label, r.rank, kind, "own") :
        r \in {x \in rows : x.type = "content" /\ x.kind = kind}}

\* the types, or the user's tags, that rows bear and nobody registered
InUse(rows, q) ==
    LET names == IF KindOf(q) = "tag"
                 THEN {TypedTag(r) : r \in {x \in rows : x.origin = "user"}}
                 ELSE {<<r.type>> : r \in {x \in rows : q.op = "registered" => x.origin = q.o}}
    IN  names \ {c.name : c \in Candidates(q) \cup Registry}

\* registered types with a fixed id are of their kind, all else is volatile
Made(rows, q) ==
    {DefRow(c.id, c.name, c.rank, IF c.id = NoId THEN "volatile" ELSE KindOf(q), KindOf(q)) :
        c \in Candidates(q)}
    \cup {DefRow(NoId, n, 0, "volatile", KindOf(q)) : n \in InUse(rows, q)}

\* build_definition_rows, name_condition: a name the index stores is not made up
\* again; an origin: term leaves the stored ones to the column.
\* Mutant: what the index stores is listed beside what is registered and in use.
DefinitionsTwice(rows, q) ==
    {d \in Stored(rows, KindOf(q)) \cup Made(rows, q) : Named(q, d.name)}
Definitions(rows, q) ==
    LET stored == Stored(rows, KindOf(q))
        new == {d \in Made(rows, q) : \A s \in stored : s.name # d.name}
    IN  {d \in (IF q.op = "registered" THEN {} ELSE stored) \cup new : Named(q, d.name)}

-----------------------------------------------------------------------------
(* Picks and fetches: query/sql/low_dispatcher.rs, boolean.rs, mod.rs.     *)

Triples(rows) == {[id |-> r.id, rank |-> r.rank, kind |-> r.kind] : r \in rows}

\* Mutant: INTERSECT keeps its first filter only.
RECURSIVE PickFirst(_, _)
PickFirst(rows, q) ==
    CASE q.op = "and" -> IF q.qs = <<>> THEN Triples(rows) ELSE PickFirst(rows, q.qs[1])
      [] q.op = "or" -> UNION {PickFirst(rows, q.qs[j]) : j \in DOMAIN q.qs}
      [] q.op = "minus" -> PickFirst(rows, q.qs[1]) \ PickFirst(rows, q.qs[2])
      [] q.op = "has" -> Triples({r \in rows : r.type = q.type /\ Labelled(r, q.label)})
      [] q.op = "id" -> Triples({r \in rows : r.id = q.id})
      [] q.op = "column" -> Triples({r \in rows : r.origin = q.o})
      [] IsDef(q) -> Triples(Definitions(rows, q))
RECURSIVE Pick(_, _)
Pick(rows, q) ==
    CASE q.op = "and" ->
           {x \in IF q.qs = <<>> THEN Triples(rows) ELSE Pick(rows, q.qs[1]) :
               \A j \in DOMAIN q.qs : x \in Pick(rows, q.qs[j])}
      [] q.op = "or" -> UNION {Pick(rows, q.qs[j]) : j \in DOMAIN q.qs}
      [] q.op = "minus" -> Pick(rows, q.qs[1]) \ Pick(rows, q.qs[2])
      [] q.op = "has" -> Triples({r \in rows : r.type = q.type /\ Labelled(r, q.label)})
      [] q.op = "id" -> Triples({r \in rows : r.id = q.id})
      [] q.op = "column" -> Triples({r \in rows : r.origin = q.o})
      [] IsDef(q) -> Triples(Definitions(rows, q))

\* split_definition_branches: the definitions reached through Or alone, and the rest
RECURSIVE Branches(_)
Branches(q) ==
    IF q.op = "or" THEN FlattenSeq([j \in DOMAIN q.qs |-> Branches(q.qs[j])]) ELSE <<q>>
DefBranches(q) == SelectSeq(Branches(q), IsDef)
Rest(q) == Or(SelectSeq(Branches(q), LAMBDA b : ~IsDef(b)))

\* A row of an answer: rep is the representative column, name the one to sort by.
AnswerRow(id, rank, kind, rep, name, tags) ==
    [id |-> id, rank |-> rank, kind |-> kind, rep |-> rep, name |-> name, tags |-> tags]
NameTag(rows, id) ==
    LET n == {r.label : r \in {x \in rows : x.id = id /\ x.type = "name"}}
    IN  IF n = {} THEN NoText ELSE CHOOSE l \in n : TRUE

\* build_fetch_items_sql: the items of OneView with one of the ids
ItemsOf(rows, ids) ==
    {AnswerRow(r.id, r.rank, r.kind, NoText, NameTag(rows, r.id), "own") :
        r \in {x \in rows : x.id \in ids}}
IdsOf(triples) == {x.id : x \in triples}

\* build_definition_fetch_sql: one branch; add_definitions: UNION of them and the rest
DefinitionRowsOf(rows, b) ==
    {AnswerRow(d.id, d.rank, d.kind, d.name, d.name, d.tags) : d \in Definitions(rows, b)}
FetchDefinitions(rows, q) ==
    UNION {DefinitionRowsOf(rows, b) : b \in Range(DefBranches(q))}
        \cup ItemsOf(rows, IdsOf(Pick(rows, Rest(q))))

Fetch(rows, q) ==
    IF DefBranches(q) = <<>> THEN ItemsOf(rows, IdsOf(Pick(rows, q)))
    ELSE FetchDefinitions(rows, q)

\* build_definition_name_sql, count_definitions: a name several branches list is one
NamesListed(rows, b) == {d.name : d \in Definitions(rows, b)}
CountDefinitions(rows, q) ==
    Cardinality(UNION {NamesListed(rows, b) : b \in Range(DefBranches(q))})
\* build_count_expr: names of definitions and ids of the rest
Count(rows, q) ==
    CountDefinitions(rows, q) + Cardinality(IdsOf(Pick(rows, Rest(q))) \ {NoId})

-----------------------------------------------------------------------------
(* q(): search/eval.rs.                                                    *)

Content(rows, id) ==
    LET c == {r.label : r \in {x \in rows : x.id = id /\ x.type = "content"}}
    IN  IF c = {} THEN NoText ELSE CHOOSE l \in c : TRUE

\* what decode_nest_item_from_row and fetch_for_eval make the representative
Representative(r) == IF r.rep # NoText THEN r.rep ELSE r.name
TextOf(rows, r) ==
    IF Representative(r) # NoText THEN Representative(r) ELSE Content(rows, r.id)

Nothing == Or(<<>>)
Listed(S) == FoldSet(LAMBDA x, l : Append(l, x), <<>>, S)

\* item_to_query_term.  kind is the type of the first definitions asked for: the
\* type every representative gets.
\* Mutant: a type definition is a term for the definition itself.
TermOfType(rows, r, kind) ==
    LET text == TextOf(rows, r)
    IN  CASE r.kind = "tag" ->
               IF Len(text) = 2 THEN Has(text[1], <<text[2]>>) ELSE Nothing
          [] r.kind = "type" -> IF text = NoText THEN Nothing ELSE Def("type", Exact(text))
          [] r.kind = "file" -> ItemIs(r.id)
          [] OTHER -> IF r.rep # NoText THEN Def(kind, Exact(r.rep))
                      ELSE IF r.name # NoText THEN Has("name", r.name) ELSE Nothing
Term(rows, r, kind) ==
    LET text == TextOf(rows, r)
    IN  CASE r.kind = "tag" ->
               IF Len(text) = 2 THEN Has(text[1], <<text[2]>>) ELSE Nothing
          [] r.kind = "type" -> IF text = NoText THEN Nothing ELSE Has(text[1], NoText)
          [] r.kind = "file" -> ItemIs(r.id)
          [] OTHER -> IF r.rep # NoText THEN Def(kind, Exact(r.rep))
                      ELSE IF r.name # NoText THEN Has("name", r.name) ELSE Nothing

\* expand_eval, and OriginFn::expand for the origin: terms
RECURSIVE Expand(_, _)
Expand(rows, q) ==
    CASE q.op \in {"and", "or", "minus"} ->
           [q EXCEPT !.qs = [j \in DOMAIN @ |-> Expand(rows, @[j])]]
      [] q.op = "origin" -> OriginTerms(q.o)
      [] q.op = "eval" ->
           LET p == Expand(rows, q.q)
               kind == IF DefBranches(p) = <<>> THEN "type" ELSE KindOf(DefBranches(p)[1])
           IN  Or(Listed({Term(rows, r, kind) : r \in Fetch(rows, p)}))
      [] OTHER -> q

-----------------------------------------------------------------------------
(* Orders and pages: sql/order.rs, with_order, n + 1 rows for has_more.    *)

Nulls == 1000           \* NULLS LAST
Rank(string) == CHOOSE j \in DOMAIN Alphabet : Alphabet[j] = string
Place(text) == IF text = NoText THEN Nulls ELSE Rank(text[1])
Turned(desc, v) == IF v = Nulls \/ ~desc THEN v ELSE -v
NameKey(name) ==
    <<Place(name), IF Len(name) < 2 THEN 0 ELSE Rank(name[2])>>
IdKey(id) == IF id = NoId THEN Nulls ELSE -id

\* preferred_order_from_query: a reference to types alone lists the highest id first
Orders(q, orders) ==
    IF orders = <<>> /\ q.op = "def" /\ q.kind = "type"
    THEN <<[key |-> "item_id", desc |-> TRUE]>> ELSE orders

\* The label an order takes of an item: the first row a subquery meets.
Labels(rows, id, type) ==
    {r.label : r \in {x \in rows : x.id = id /\ x.type = type}}
OrderKey(rows, r, o) ==
    CASE o.key = "rank" -> Turned(o.desc, r.rank)
      [] o.key = "item_id" -> IF r.id = NoId THEN Nulls ELSE Turned(o.desc, r.id)
      [] OTHER -> LET l == Labels(rows, r.id, o.key)
                  IN  IF l = {} THEN Nulls ELSE Turned(o.desc, Place(CHOOSE x \in l : TRUE))

Before(a, b) == \E j \in DOMAIN a : a[j] < b[j] /\ \A k \in 1..(j - 1) : a[k] = b[k]
ItemKey(rows, orders, x) ==
    [j \in DOMAIN orders |-> OrderKey(rows, x, orders[j])] \o <<-x.rank, IdKey(x.id)>>
\* build_add_definitions_sql: the name is a column there
DefinitionKey(rows, orders, r) ==
    [j \in DOMAIN orders |->
        IF orders[j].key = "name" THEN Turned(orders[j].desc, Place(r.name))
        ELSE OrderKey(rows, r, orders[j])] \o <<-r.rank>> \o NameKey(r.name) \o <<IdKey(r.id)>>

Sorted(S, Key(_)) == SortSeq(Listed(S), LAMBDA a, b : Before(Key(a), Key(b)))
Cut(s, offset, n) == SubSeq(s, offset + 1, Min({offset + n, Len(s)}))

\* build_fetch_items_sql cuts the picked ids, add_definitions the rows
PageRows(rows, q, orders, offset, n) ==
    IF DefBranches(q) = <<>>
    THEN LET ids == Cut(Sorted(Pick(rows, q), LAMBDA x : ItemKey(rows, orders, x)), offset, n)
         IN  Sorted(ItemsOf(rows, IdsOf(Range(ids))), LAMBDA r : ItemKey(rows, orders, r))
    ELSE Cut(Sorted(FetchDefinitions(rows, q), LAMBDA r : DefinitionKey(rows, orders, r)),
             offset, n)

-----------------------------------------------------------------------------
(* A client reads the pages of one search.                                 *)

Asked == Expand(View(tables), search.q)

\* search_core, try_resolve_cache: n + 1 rows are fetched, n are given
\* Mutant: only n rows are fetched.
ReadNoPeek(rows) ==
    LET page == PageRows(rows, Asked, Orders(Asked, search.orders), Len(seen), search.n)
    IN  /\ seen' = seen \o Cut(page, 0, search.n)
        /\ more' = (Len(page) > search.n)
Read(rows) ==
    LET page == PageRows(rows, Asked, Orders(Asked, search.orders), Len(seen), search.n + 1)
    IN  /\ seen' = seen \o Cut(page, 0, search.n)
        /\ more' = (Len(page) > search.n)

Init ==
    /\ tables \in Tables
    /\ search \in Searches
    /\ seen = <<>>
    /\ more = TRUE
    /\ cached = NoFile
    /\ usedCache = FALSE

\* search: nothing cached for it yet
ReadTables ==
    /\ more
    /\ Read(View(tables))
    /\ UNCHANGED <<tables, search, cached, usedCache>>

\* run_cache_worker, build_flat_table_sql: all rows of the items picked
BuildCache ==
    /\ more
    /\ seen # <<>>
    /\ cached = NoFile
    /\ cached' = {r \in View(tables) : r.id \in IdsOf(Pick(View(tables), Asked))}
    /\ UNCHANGED <<tables, search, seen, more, usedCache>>

\* try_resolve_cache: the query again, on the file
ReadCache ==
    /\ more
    /\ cached # NoFile
    /\ Read(cached)
    /\ usedCache' = TRUE
    /\ UNCHANGED <<tables, search, cached>>

Next == ReadTables \/ BuildCache \/ ReadCache

Spec == Init /\ [][Next]_vars

-----------------------------------------------------------------------------
(* What a query means: a set of things, an item or a definition the index  *)
(* does not store.                                                         *)

Item(id) == [id |-> id, kind |-> "", name |-> NoText]
Unstored(kind, name) == [id |-> NoId, kind |-> kind, name |-> name]

\* The names there are: stored, registered, borne by a row, or asked for.
NamesOf(rows, kind, pattern) ==
    LET stored == {r.label : r \in {x \in rows : x.type = "content" /\ x.kind = kind}}
        known == IF kind = "type"
                 THEN {c.name : c \in Registry} \cup {<<r.type>> : r \in rows}
                 ELSE {TypedTag(r) : r \in {x \in rows : x.origin = "user"}}
        asked == IF pattern.glob THEN {} ELSE {pattern.name}
    IN  {n \in stored \cup known \cup asked : Meets(pattern, n)}
DefThing(rows, kind, name) ==
    LET s == {x \in rows : x.type = "content" /\ x.kind = kind /\ x.label = name}
    IN  IF s = {} THEN Unstored(kind, name) ELSE Item((CHOOSE x \in s : TRUE).id)

\* The table of QUERY.md: a tag or type stands for the items that have it, any
\* other item for itself.
StandsFor(rows, thing) ==
    LET row == CHOOSE r \in rows : r.id = thing.id
        kind == IF thing.id = NoId THEN thing.kind ELSE row.kind
        name == IF thing.id = NoId THEN thing.name ELSE Content(rows, thing.id)
        bears(type, label) ==
            {Item(r.id) : r \in {x \in rows : x.type = type /\ Labelled(x, label)}}
    IN  CASE kind = "tag" -> bears(name[1], <<name[2]>>)
          [] kind = "type" -> bears(name[1], NoText)
          [] OTHER -> {thing}

RECURSIVE Meaning(_, _)
Meaning(rows, q) ==
    CASE q.op = "and" -> {t \in {Item(r.id) : r \in rows}
                                \cup UNION {Meaning(rows, q.qs[j]) : j \in DOMAIN q.qs} :
                            \A j \in DOMAIN q.qs : t \in Meaning(rows, q.qs[j])}
      [] q.op = "or" -> UNION {Meaning(rows, q.qs[j]) : j \in DOMAIN q.qs}
      [] q.op = "minus" -> Meaning(rows, q.qs[1]) \ Meaning(rows, q.qs[2])
      [] q.op = "has" ->
           {Item(r.id) : r \in {x \in rows : x.type = q.type /\ Labelled(x, q.label)}}
      [] q.op = "id" -> {Item(r.id) : r \in {x \in rows : x.id = q.id}}
      [] q.op = "def" ->
           {DefThing(rows, q.kind, n) : n \in NamesOf(rows, q.kind, q.pattern)}
      [] q.op = "origin" ->
           LET blocks == IF q.o = "system" THEN Range(SystemOrigins) ELSE {q.o}
           IN  {Item(r.id) : r \in {x \in rows : x.origin \in blocks}}
               \cup {t \in {DefThing(rows, "type", c.name) :
                               c \in {x \in Registry : x.origin \in blocks}} : t.id = NoId}
      [] q.op = "eval" -> UNION {StandsFor(rows, t) : t \in Meaning(rows, q.q)}

\* A definition that is not stored is found by itself and beside others, never
\* through an And or a Minus: those work on the rows of items.
Found(rows, q) ==
    UNION {IF b.op \in {"def", "origin"} THEN Meaning(rows, b)
           ELSE {t \in Meaning(rows, b) : t.id # NoId} : b \in Range(Branches(q))}

ThingOf(rows, r) ==
    IF \E x \in rows : x.id = r.id THEN Item(r.id) ELSE Unstored(r.tags, r.name)

\* q() takes a definition that is not stored, unless it is a built-in type, for
\* itself, and one the user named by that name.
RECURSIVE EvalMisreads(_, _)
EvalMisreads(rows, q) ==
    \/ q.op = "eval" /\ \/ EvalMisreads(rows, q.q)
                        \/ \E r \in Fetch(rows, Expand(rows, q.q)) :
                              \/ r.kind = "volatile"
                              \/ r.kind \in {"type", "tag"} /\ r.rep = NoText /\ r.name # NoText
    \/ q.op \in {"and", "or", "minus"} /\ \E j \in DOMAIN q.qs : EvalMisreads(rows, q.qs[j])

(***************************************************************************)
(* Properties.                                                             *)
(***************************************************************************)

\* The rows of one item agree about its rank and kind whatever table they come
\* from, and it has one name at most: INTERSECT and EXCEPT compare item_id, rank
\* and item_kind together (sql/boolean.rs), so an item two sources disagree about
\* would be missed by And and kept by Minus.
ViewResolved ==
    LET rows == View(tables)
    IN  /\ \A r, s \in rows : r.id = s.id => r.rank = s.rank /\ r.kind = s.kind
        /\ \A r, s \in rows : r.id = s.id /\ r.type = "name" /\ s.type = "name" => r = s

\* The rows fetched are the things the query means, whether the index stores them,
\* the registry knows them, or a tag bears them.
AnswerIsMeaning ==
    LET rows == View(tables)
    IN  ~EvalMisreads(rows, search.q) =>
            {ThingOf(rows, r) : r \in Fetch(rows, Asked)} = Found(rows, search.q)

\* count(q) is the number of rows q lists, although it is computed from names and
\* ids and never looks at the rows.  A built-in type counts where an And or Minus
\* holds it and no row lists it.
CountsUnlisted(rows, q) ==
    \E x \in Pick(rows, Rest(q)) : x.id # NoId /\ \A r \in rows : r.id # x.id
CountIsLength ==
    LET rows == View(tables)
    IN  ~CountsUnlisted(rows, Asked) => Count(rows, Asked) = Cardinality(Fetch(rows, Asked))

\* The pages a client reads until has_more is false share the answer out: every
\* row once, in one order, whichever pages came from the cache.  Two kinds of
\* query do otherwise: ids without a row fill the page an And or Minus cuts
\* (sql/mod.rs), and the cache lacks the rows that bear the names of definitions.
FillsWithNothing(rows, q) ==
    DefBranches(q) = <<>> /\ \E x \in Pick(rows, q) : \A r \in rows : r.id # x.id
CacheLacksNames(rows, q) ==
    \E b \in Range(DefBranches(q)) :
        \E d \in Definitions(rows, b) :
            d \notin Definitions({r \in rows : r.id \in IdsOf(Pick(rows, q))}, b)
Whole(rows) ==
    PageRows(rows, Asked, Orders(Asked, search.orders), 0,
             Cardinality(Fetch(rows, Asked)) + Cardinality(Pick(rows, Asked)))
PagesShareOut ==
    LET rows == View(tables)
    IN  ~more /\ ~FillsWithNothing(rows, Asked)
              /\ (usedCache => ~CacheLacksNames(rows, Asked))
        => seen = Whole(rows) /\ IsInjective(seen)
=============================================================================
