---------------------------- MODULE CaptureEdit ----------------------------
(* An edit that refers to what the globs of its search captured:
   `ttfm tag 'filename:proj_*' 'project:{1}'`.  The edit is parsed, the search
   is run, and for each item it found the labels of the query are read a second
   time, as captures, and put in the places of their references
   (edit/search_and_apply_captures.rs).  Items are independent of each other, so
   that the model follows one of them.                                    *)
EXTENDS Labels

CONSTANTS
    Items,      \* items: a set of tags and a rank
    Queries,    \* queries: terms joined by "and" or "or"
    Edits,      \* edits: sequences of nodes
    Nows        \* the times at which a step may happen

VARIABLES
    phase,      \* query, search, apply, done or refused
    item,
    query,
    edit,
    now,        \* the present
    asked,      \* when the search was made
    out         \* the nodes of the edit that is to be applied to the item

vars == <<phase, item, query, edit, now, asked, out>>

(* ---- units: walk, collect_units ---------------------------------------- *)

\* A unit is a type and a label, or one of them, with the number its first
\* metacharacter gets.  Patterns are literals; Nothing is no pattern.
Nothing == Text("")
Unit(ty, label) == [ty |-> ty, label |-> label]

Units(q) ==
    CASE q.form = "tag"  -> <<Unit(Text(q.ty), q.lit)>>
      [] q.form = "cmp"  -> <<Unit(Text(q.ty), Nothing), Unit(Nothing, q.lit)>>
      [] q.form = "flip" -> <<Unit(Nothing, q.lit), Unit(Text(q.ty), Nothing)>>

AllUnits(q) == FlattenSeq([i \in DOMAIN q.terms |-> Units(q.terms[i])])

\* pattern_text: without quotes it is what stands in the query, escapes and all.
Pattern(lit) == IF lit.quoted THEN Unescape(lit.raw) ELSE lit.raw

\* number_metachars: a number has none; in a date they are the stars.
Holes(lit) ==
    CASE IsDateLit(lit) -> {f \in Field : lit.date[f] = Free}
      [] IsNumber(lit)  -> {}
      [] OTHER          -> 1..Metachars(Pattern(lit))
UnitHoles(u) == Cardinality(Holes(u.ty)) + Cardinality(Holes(u.label))
Total(us) == FoldLeft(LAMBDA n, u : n + UnitHoles(u), 0, us)
FirstOf(us, i) == Total(SubSeq(us, 1, i - 1))
Numbers(us, i) == (FirstOf(us, i) + 1)..(FirstOf(us, i) + UnitHoles(us[i]))

(* ---- what a unit captures from an item: fit_type, fit_label, capture --- *)

Registry == {"size", "is_dir", "mtime", "extension", "label", "rank"}
AllTypes == Registry \cup {t.ty : t \in item.tags}

\* A pattern that is a number is compared, any other is a glob.
FitText(lit, s) ==
    IF IsNumber(lit) THEN IF s = lit.raw THEN {<< >>} ELSE {}
    ELSE GlobCaptures(Pattern(lit), s)

FitType(u, ty) == FitText(u.ty, ty)

\* zero_pad
Pad(n) == IF n < 10 THEN "0" \o ToString(n) ELSE ToString(n)

\* MtimeFn::capture: the fields the stars stand for, as clocks show them now;
\* the other fields are not looked at.
\* Mutant: each timestamp is read with its own offset.
FitSlotsOwnOffset(w, t) ==
    LET free == SetToSortSeq({f \in Field : w[f] = Free}, LAMBDA f, g : f < g)
    IN  {[i \in DOMAIN free |-> Pad(Civil(Local(t))[free[i]])]}
FitSlots(w, t) ==
    LET free == SetToSortSeq({f \in Field : w[f] = Free}, LAMBDA f, g : f < g)
    IN  {[i \in DOMAIN free |-> Pad(Civil(t + Offset(now))[free[i]])]}

\* The tags a type reads its labels from: LabelFn reads those whose label is a
\* text, whatever their type, and RankFn reads the rank of the item.
EntriesOf(ty) ==
    CASE ty = "label" -> {t.v : t \in {u \in item.tags : u.v.col = "str"}}
      [] ty = "rank"  -> {IntV(item.rank)}
      [] OTHER        -> {t.v : t \in {u \in item.tags : u.ty = ty}}

FitEntry(lit, ty, v) ==
    CASE ~IsDateLit(lit) -> FitText(lit, AsStr(v))
      [] IsDateLit(lit) /\ ty = "mtime" /\ IsSlots(lit.date) -> FitSlots(lit.date, v.n)
      [] OTHER -> {}

FitLabel(lit, ty) == UNION {FitEntry(lit, ty, v) : v \in EntriesOf(ty)}

\* hits_for_unit
Hits(u) ==
    CASE u.ty # Nothing /\ u.label # Nothing ->
           UNION {{head \o tail : head \in FitType(u, ty), tail \in FitLabel(u.label, ty)} :
                  ty \in AllTypes}
      [] u.label = Nothing -> UNION {FitType(u, ty) : ty \in AllTypes}
      [] u.ty = Nothing    -> UNION {FitLabel(u.label, ty) : ty \in AllTypes}

\* Mutant: a unit that hits nothing leaves the product empty.
BindingsOfHits(us, i) ==
    {[n \in Numbers(us, i) |-> hit[n - FirstOf(us, i)]] : hit \in Hits(us[i])}

\* A binding gives numbers their captures; a unit that hits nothing binds none.
Bindings(us, i) ==
    IF Hits(us[i]) = {} THEN {<< >>}
    ELSE {[n \in Numbers(us, i) |-> hit[n - FirstOf(us, i)]] : hit \in Hits(us[i])}

(* ---- the edit: parse_edit_query, reject_glob, resolve_refs ------------- *)

\* A node has a type and a label, sequences of texts and references.
PartText(s) == [ref |-> -1, s |-> s]
PartRef(n)  == [ref |-> n, s |-> ""]
Node(ty, label) == [ty |-> ty, label |-> label]

IsRef(p) == p.ref >= 0
HasRef(leaf) == \E i \in DOMAIN leaf : IsRef(leaf[i])
Parts(e) == UNION {ToSet(e[i].ty \o e[i].label) : i \in DOMAIN e}
Refs(e) == {p.ref : p \in {p \in Parts(e) : IsRef(p)}}

\* The value of a leaf without references.
LeafValue(leaf) == DropGlobEscapes(FoldLeft(LAMBDA s, p : s \o p.s, "", leaf))

MetaTypes == {"type", "label", "tag"}
Forbidden == {"size", "is_dir"}       \* registered, without an Edit
ReplaceTypes == {"name", "rank"}

\* reject_static_multi_literal
RejectsTwice(e) ==
    \E i, j \in DOMAIN e :
        /\ i # j /\ LeafValue(e[i].ty) = LeafValue(e[j].ty)
        /\ LeafValue(e[i].ty) \in ReplaceTypes
        /\ \A k \in {i, j} : ~HasRef(e[k].ty) /\ ~HasRef(e[k].label)

EditRefused(e) ==
    \/ \E i \in DOMAIN e : ~HasRef(e[i].ty) /\
           LeafValue(e[i].ty) \in {""} \cup MetaTypes \cup Forbidden
    \/ RejectsTwice(e)
    \/ \E p \in Parts(e) : ~IsRef(p) /\ HasUnescapedMetachar(p.s)

RefsRefused(e, us) == \E n \in Refs(e) : n = 0 \/ n > Total(us)

(* ---- the edit of one item: cartesian_bindings, materialise ------------- *)

\* Only units some reference names are bound.
Axes(e, us) == {i \in DOMAIN us : Numbers(us, i) \cap Refs(e) # {}}

\* The bindings made of one binding of each unit; << >> binds nothing.
Product(us, axes) ==
    FoldLeft(LAMBDA acc, i : {b @@ c : b \in acc, c \in Bindings(us, i)},
             {<< >>}, SetToSortSeq(axes, LAMBDA i, j : i < j))

Bound(leaf, b) == \A i \in DOMAIN leaf : IsRef(leaf[i]) => leaf[i].ref \in DOMAIN b
\* Mutant: only a reference in front is filled in.
FillLeafFirst(leaf, b) ==
    [i \in DOMAIN leaf |->
        IF i = 1 /\ IsRef(leaf[i]) THEN PartText(b[leaf[i].ref]) ELSE leaf[i]]
FillLeaf(leaf, b) ==
    [i \in DOMAIN leaf |-> IF IsRef(leaf[i]) THEN PartText(b[leaf[i].ref]) ELSE leaf[i]]
Materialise(e, b) ==
    {Node(FillLeaf(n.ty, b), FillLeaf(n.label, b)) :
        n \in {n \in ToSet(e) : Bound(n.ty, b) /\ Bound(n.label, b)}}

ApplyCaptures(e, us) ==
    UNION {Materialise(e, b) : b \in Product(us, Axes(e, us))}

(* ---- the search -------------------------------------------------------- *)

Terms(q) == ToSet(q.terms)

\* compose_implication: a tag that has an extension is a file's.
Implied(q) ==
    q.form = "tag" /\ Kind(q.ty) = "extension" =>
        \E t \in item.tags : t.ty = "is_dir" /\ t.v = BoolV(0)

PickedBy(q, t, time) == TypeFits(q.ty, t.ty) /\ Holds(q, t.v, time)
Picks(q) == Implied(q) /\ \E t \in item.tags : PickedBy(q, t, now)
Found(q) ==
    IF q.join = "and" THEN \A c \in Terms(q) : Picks(c) ELSE \E c \in Terms(q) : Picks(c)

(* ---- steps: search_and_apply_captures ---------------------------------- *)

Init ==
    /\ phase = "query"
    /\ item \in Items /\ query \in Queries
    /\ edit = << >> /\ out = {}
    /\ now \in Nows /\ asked = now

ParseEdit ==
    /\ phase = "query"
    /\ edit' \in Edits
    /\ phase' = IF EditRefused(edit') THEN "refused" ELSE "search"
    /\ UNCHANGED <<item, query, now, asked, out>>

Search ==
    /\ phase = "search"
    /\ asked' = now
    /\ phase' = CASE \E q \in Terms(query) : Refused(q) -> "refused"
                  [] ~(\E q \in Terms(query) : Refused(q)) /\ Found(query) -> "apply"
                  [] OTHER -> "done"
    /\ UNCHANGED <<item, query, edit, now, out>>

\* The clock goes on between the search and the captures.
TimePasses ==
    /\ phase = "apply"
    /\ now' \in Nows /\ now' > now
    /\ UNCHANGED <<phase, item, query, edit, asked, out>>

Apply ==
    /\ phase = "apply"
    /\ LET us == AllUnits(query)
       IN  IF RefsRefused(edit, us)
           THEN phase' = "refused" /\ out' = out
           ELSE phase' = "done" /\ out' = ApplyCaptures(edit, us)
    /\ UNCHANGED <<item, query, edit, now, asked>>

Next == ParseEdit \/ Search \/ TimePasses \/ Apply

Spec == Init /\ [][Next]_vars

(* ---- properties -------------------------------------------------------- *)

\* The atoms with texts in the places of their first metacharacters.
Spelled(s) == [i \in 1..Len(s) |-> Ch(At(s, i))]
RECURSIVE Refilled(_, _)
Refilled(atoms, caps) ==
    IF atoms = << >> \/ caps = << >> THEN atoms
    ELSE IF IsMetachar(Head(atoms))
         THEN Spelled(Head(caps)) \o Refilled(Tail(atoms), Tail(caps))
         ELSE <<Head(atoms)>> \o Refilled(Tail(atoms), caps)

\* The k-th metacharacter, a star, could stand for n characters only.
CouldBe(atoms, caps, k, n, s) ==
    LET filled == Refilled(atoms, SubSeq(caps, 1, k - 1))
        star == Min({i \in DOMAIN filled : IsMetachar(filled[i])})
    IN  /\ filled[star] = AnyRun
        /\ Meets(SubSeq(filled, 1, star - 1) \o [i \in 1..n |-> One]
                     \o SubSeq(filled, star + 1, Len(filled)), s)

\* A glob captures something from a text exactly when GLOB matches it, its
\* captures in the places of its metacharacters spell the text, and no star has
\* more than it needs, given the captures in front of it (最短マッチ, EDIT.md:419).
FitsLeast(p, s) ==
    LET atoms == Lex(p)
    IN  /\ Globbed(p, s) = (GlobCaptures(p, s) # {})
        /\ \A caps \in GlobCaptures(p, s) :
             /\ Len(caps) = Metachars(p) /\ Refilled(atoms, caps) = Spelled(s)
             /\ \A k \in DOMAIN caps : \A n \in 0..(Len(caps[k]) - 1) :
                   ~CouldBe(atoms, caps, k, n, s)
CapturesFit ==
    phase = "query" =>
        \A q \in Terms(query), t \in item.tags : FitsLeast(Pattern(q.lit), AsStr(t.v))

\* Where a search and a capture read one label differently: the fields of a date
\* that have values, sizes with a unit, globs on numbers and words, numbers with
\* a fraction, letters of an extension, and escapes.
ReadsOtherwise(q, v) ==
    \/ IsDateLit(q.lit)
    \/ Kind(q.ty) = "size" /\ SizeRange(q.lit) # {}
    \/ Kind(q.ty) \in {"is_dir", "float"} /\ ~IsFullMatchGlob(q.lit.raw)
    \/ Kind(q.ty) = "any" /\ v.col # "str" /\ ~IsFullMatchGlob(q.lit.raw)
    \/ Kind(q.ty) = "extension" /\ ExtensionText(q.lit.raw) # q.lit.raw
    \/ Lex(Pattern(q.lit)) # Lex(Written(q.lit))

\* What an edit captures is what its search found: of the tags a term names, a
\* label is captured exactly when the term had picked its tag, but for the
\* readings above; from a date it found, the fields that clocks showed when it
\* was asked, unless the offset has changed.
FieldsAsAsked(lit, v, caps) ==
    \A i \in DOMAIN caps : \E f \in Field :
        /\ lit.date[f] = Free /\ Cardinality({g \in Holes(lit) : g <= f}) = i
        /\ caps[i] = Pad(Civil(v.n + Offset(asked))[f])
CapturedIsPicked ==
    phase = "apply" =>
        \A q \in {q \in Terms(query) : q.form = "tag" /\ Holes(q.lit) # {}} :
        \A t \in {t \in item.tags : TypeFits(q.ty, t.ty)} :
            LET caps == FitEntry(q.lit, t.ty, t.v)
            IN  /\ ~ReadsOtherwise(q, t.v) => (caps # {}) = PickedBy(q, t, asked)
                /\ IsDateLit(q.lit) /\ PickedBy(q, t, asked) /\ Offset(now) = Offset(asked) =>
                     caps # {} /\ \A c \in caps : FieldsAsAsked(q.lit, t.v, c)

\* Every node of an edit is made once for each way to choose one capture for
\* each unit it refers to, whatever the other nodes refer to; it is left out
\* when a unit captured nothing, and then alone (EDIT.md:413, EDIT.md:427).
RefersTo(n, us, i) == \E p \in ToSet(n.ty \o n.label) : p.ref \in Numbers(us, i)
WaysToChoose(n, us) ==
    LET named == {i \in DOMAIN us : RefersTo(n, us, i)}
    IN  {c \in [named -> UNION {Hits(us[i]) : i \in named}] : \A i \in named : c[i] \in Hits(us[i])}
Chosen(leaf, us, c) ==
    [k \in DOMAIN leaf |->
        IF ~IsRef(leaf[k]) THEN leaf[k]
        ELSE LET i == CHOOSE i \in DOMAIN c : leaf[k].ref \in Numbers(us, i)
             IN  PartText(c[i][leaf[k].ref - FirstOf(us, i)])]
Expanded(n, us) ==
    {Node(Chosen(n.ty, us, c), Chosen(n.label, us, c)) : c \in WaysToChoose(n, us)}
EditsByNode ==
    [][phase = "apply" /\ phase' = "done" =>
           out' = UNION {Expanded(n, AllUnits(query)) : n \in ToSet(edit)}]_vars

\* The column a comparison asks, and whether the row of v has its label there.
Column(q) ==
    CASE Kind(q.ty) \in {"any", "float"} ->
           IF Kind(q.ty) = "float" /\ IsDecimalGlob(q.lit.raw) THEN "dbl"
           ELSE Coerced(q.lit, Kind(q.ty)).col
      [] Kind(q.ty) = "is_dir" -> RawValue(q.lit).col
      [] Kind(q.ty) = "extension" -> "str"
      [] Kind(q.ty) \in {"size", "mtime"} -> "int"

\* A label has a place in the order of labels: it is no glob, and a date with
\* stars only among the dates that agree with it in front of the first star.
HasPlace(q, v) ==
    LET s == AsStr(RawValue(q.lit))
    IN  CASE IsDateLit(q.lit) /\ IsSlots(q.lit.date) ->
               SameIn(Leading(q.lit.date), Civil(v.n + Offset(now)), q.lit.date)
          [] IsDateLit(q.lit) /\ ~IsSlots(q.lit.date) -> TRUE
          [] ~IsDateLit(q.lit) /\ SizeRange(q.lit) # {} /\ Kind(q.ty) = "size" -> TRUE
          [] OTHER -> Column(q) = "dbl" \/ ~IsGlobPattern(s)

\* The six operators share out the rows of a column: a label is equal or not,
\* and one that has a place is before, at or behind it, by < = > and by <= >=.
ComparisonsPartition ==
    phase = "query" =>
        \A q \in Terms(query), t \in item.tags :
            LET asks(op) == [q EXCEPT !.op = op]
                holds(op) == Holds(asks(op), t.v, now)
            IN  /\ q.form # "tag" /\ TypeFits(q.ty, t.ty) /\ Column(q) = t.v.col
                /\ \A op \in BasicOp : ~Refused(asks(op))
                => /\ holds("ne") # holds("eq")
                   /\ HasPlace(q, t.v) =>
                        /\ Cardinality({op \in {"lt", "eq", "gt"} : holds(op)}) = 1
                        /\ holds("le") = ~holds("gt") /\ holds("ge") = ~holds("lt")

\* Where the three ways to write a term differ: is_dir takes the word of a tag
\* for a value and that of a comparison for a text, and a swapped term knows no
\* glob for is_dir, the first moment of a period only, and no unit of a band.
WrittenOtherwise(q) ==
    CASE q.form = "tag"  -> Kind(q.ty) = "is_dir" /\ Parsed(Written(q.lit)).col = "bool"
      [] q.form = "cmp"  -> FALSE
      [] q.form = "flip" ->
           \/ Kind(q.ty) = "is_dir" /\ IsGlobPattern(Written(q.lit))
           \/ Kind(q.ty) = "size" /\ \E r \in SizeRange(q.lit) : r.unit > 0
           \/ Kind(q.ty) = "mtime" /\ HasInterval(q.lit.date)
                /\ Floor(q.lit.date) # Ceiling(q.lit.date)

\* `ty:label` asks what `ty: := label` asks, and `label :op ty:` what the
\* comparison with the operator turned round asks, but for the above.
OneMeaning ==
    phase = "query" =>
        \A q \in Terms(query), t \in item.tags :
            LET c == [q EXCEPT !.form = "cmp",
                               !.op = IF q.form = "flip" THEN Flip(q.op) ELSE q.op]
            IN  TypeFits(q.ty, t.ty) /\ ~Refused(q) /\ ~WrittenOtherwise(q) =>
                    ~Refused(c) /\ Holds(q, t.v, now) = Holds(c, t.v, now)

\* A period is equal to a timestamp when the fields that clocks showed then are
\* those that are written, and behind it or before it by the first field that
\* differs, summer or winter; but when its last hour is shown twice, the second
\* one is behind it.  A pattern does so as long as the offset was today's.
ByFields(op, c, w) ==
    CASE op = "eq" -> SameIn(Given(w), c, w)          [] op = "ne" -> ~SameIn(Given(w), c, w)
      [] op = "gt" -> OrderedIn(Given(w), "gt", c, w) [] op = "le" -> ~OrderedIn(Given(w), "gt", c, w)
      [] op = "lt" -> OrderedIn(Given(w), "lt", c, w) [] op = "ge" -> ~OrderedIn(Given(w), "lt", c, w)
DatesAreLocal ==
    phase = "query" =>
        \A q \in Terms(query), t \in {t \in item.tags : t.ty = "mtime"} :
            LET w == q.lit.date
                shown == Civil(Local(t.v.n))
            IN  IsDateLit(q.lit) /\ q.form # "flip" /\ ~Refused(q) =>
                    /\ ~IsSlots(w) /\ Cardinality(Instants(Ceiling(w))) = 1 =>
                         Holds(q, t.v, now) = ByFields(q.op, shown, w)
                    /\ IsSlots(w) /\ Offset(t.v.n) = Offset(now) =>
                         Holds(q, t.v, now) = (/\ q.op \in OrderOp => SameIn(Leading(w), shown, w)
                                               /\ ByFields(q.op, shown, w))
=============================================================================
