---------------------------- MODULE Calculations ----------------------------
(***************************************************************************)
(* What a comparison of types, calculations and aggregations finds:        *)
(* logical expansion folds literals, splits chains and lifts filters       *)
(* (query/logical_resolver.rs), resolution orders the two operands         *)
(* (resolve_single_match, query/lens_resolver.rs), query/sql/ dispatches   *)
(* the forms and turns each into SQL over OneView, evaluated here by what  *)
(* it selects.  One action per pass.                                       *)
(*                                                                         *)
(* Nests are in NestQuery, single labels, globs and dates in CaptureEdit.  *)
(* Left out here: aggregations in aggregations, the aggregation of texts,  *)
(* projections of calculations, remainders, divisions by zero, "not".      *)
(***************************************************************************)
EXTENDS Integers, Sequences, FiniteSets, SequencesExt, FiniteSetsExt

CONSTANTS
    Items,      \* the items of OneView, numbers
    Views,      \* the tables to ask: [rows |-> {[i |-> item, k |-> type, v |-> label]}, rank |-> ...]
    Queries,    \* the parsed queries to ask
    Null        \* the NULL of SQL

VARIABLES
    view,       \* OneView
    query,      \* the query as parsed
    scan,       \* the order DuckDB reads rows in, which decides what ANY_VALUE is
    stage,      \* the passes done
    node,       \* QueryNode, then ResolvedNode
    answer      \* what is shown

vars == <<view, query, scan, stage, node, answer>>

\* numbers are counted in twelfths, to be halved and averaged exactly
One == 12

\* StorageMapping: "fixed", or the column of a tag's labels
Storage == [rank |-> "fixed", size |-> "label_int", width |-> "label_int",
            pts |-> "label_double", name |-> "label_str"]
IsBasic(k) == Storage[k] # "fixed"
IsText(k) == Storage[k] = "label_str"

-----------------------------------------------------------------------------
(* Operands and queries.  "of" is a parenthesised filter beside a          *)
(* projection; an aggregation has a filter and the operand aggregated,     *)
(* None where it has none.  A comparison is a chain of operators, all of   *)
(* them those of labels (:<) or all of scalars (<).                        *)

None == [t |-> "none"]
Lit(n) == [t |-> "lit", n |-> n]
Type(k) == [t |-> "type", k |-> k]
Calc(l, op, r) == [t |-> "calc", op |-> op, l |-> l, r |-> r]
Agg(f, c, x) == [t |-> "agg", f |-> f, c |-> c, x |-> x]
Of(c, o) == [t |-> "of", c |-> c, o |-> o]

Than(op, o) == [op |-> op, o |-> o]
Cmp(kind, first, rest) == [t |-> "cmp", kind |-> kind, first |-> first, rest |-> rest]
And(qs) == [t |-> "and", qs |-> qs]
Value(o) == [t |-> "value", o |-> o]

\* two operands resolved, and what the passes answer
Form(l, op, r) == [t |-> "form", l |-> l, op |-> op, r |-> r]
Refused == [t |-> "refused"]
Failed == [t |-> "failed"]
Found(s) == [t |-> "items", s |-> s]
Row(v) == [t |-> "row", v |-> v]
Number(v) == [t |-> "number", v |-> v]

Map(Op(_), s) == [j \in DOMAIN s |-> Op(s[j])]

\* None, the node itself, or the conjunction of several
Conj(s) == IF s = <<>> THEN None ELSE IF Len(s) = 1 THEN s[1] ELSE And(s)

Flip(op) == CASE op = "<" -> ">" [] op = ">" -> "<" [] OTHER -> op

\* SQL's comparison and arithmetic: NULL if either side is
Holds(l, op, r) == CASE op = "<" -> l < r [] op = ">" -> l > r [] OTHER -> l = r
Compare(l, op, r) == IF Null \in {l, r} THEN Null ELSE Holds(l, op, r)

Compute(l, op, r) ==
    IF Null \in {l, r} THEN Null
    ELSE CASE op = "+" -> l + r
           [] op = "-" -> l - r
           [] op = "*" -> (l * r) \div One
           [] op = "/" -> (l * One) \div r

\* the types an operand reads for itself, and its aggregations
RECURSIVE TypesOf(_), AggsOf(_)
TypesOf(o) == CASE o.t = "type" -> {o.k}
                [] o.t = "calc" -> TypesOf(o.l) \cup TypesOf(o.r)
                [] o.t = "of" -> TypesOf(o.o)
                [] OTHER -> {}
AggsOf(o) == CASE o.t = "agg" -> {o}
               [] o.t = "calc" -> AggsOf(o.l) \cup AggsOf(o.r)
               [] OTHER -> {}

ContainsTag(o) == \E k \in TypesOf(o) : IsBasic(k)

-----------------------------------------------------------------------------
(* What the two resolvers refuse.                                          *)

\* the queries in a query, the filters of its operands among them
RECURSIVE Subqueries(_), OperandQueries(_)
Subqueries(q) ==
    {q} \cup CASE q.t = "and" -> UNION {Subqueries(q.qs[j]) : j \in DOMAIN q.qs}
               [] q.t = "cmp" -> OperandQueries(q.first)
                                 \cup UNION {OperandQueries(q.rest[j].o) : j \in DOMAIN q.rest}
               [] q.t = "value" -> OperandQueries(q.o)
OperandQueries(o) ==
    CASE o.t = "calc" -> OperandQueries(o.l) \cup OperandQueries(o.r)
      [] o.t = "of" -> Subqueries(o.c) \cup OperandQueries(o.o)
      [] o.t = "agg" -> (IF o.c = None THEN {} ELSE Subqueries(o.c)) \cup OperandQueries(o.x)
      [] OTHER -> {}

OperandsOf(q) == CASE q.t = "cmp" -> {q.first} \cup {q.rest[j].o : j \in DOMAIN q.rest}
                   [] q.t = "value" -> {q.o}
                   [] OTHER -> {}

\* texts are added and joined to texts only
RECURSIVE IsTextual(_), WellTyped(_)
IsTextual(o) == CASE o.t = "type" -> IsText(o.k)
                  [] o.t = "calc" -> IsTextual(o.l) /\ IsTextual(o.r)
                  [] o.t = "of" -> IsTextual(o.o)
                  [] OTHER -> FALSE
WellTyped(o) ==
    CASE o.t = "calc" -> /\ WellTyped(o.l) /\ WellTyped(o.r)
                         /\ IsTextual(o.l) = IsTextual(o.r)
                         /\ IsTextual(o.l) => o.op \in {"+", "*"}
      [] o.t = "agg" -> WellTyped(o.x)
      [] o.t = "of" -> WellTyped(o.o)
      [] OTHER -> TRUE

\* a set operation takes no scalar comparison (a chain is split only later)
IsSet(q) == q.t # "cmp" \/ q.kind = "label"

Sound(q) == \A n \in Subqueries(q) :
                /\ n.t = "and" => \A j \in DOMAIN n.qs : IsSet(n.qs[j])
                /\ \A o \in OperandsOf(n) : WellTyped(o)

\* a label comparison of a scalar calculation with a literal (not of a literal with one)
ScalarCalc(o) == o.t = "calc" /\ TypesOf(o) = {}
Resolvable(q) == \A n \in Subqueries(q) :
                    ~(n.t = "cmp" /\ n.kind = "label" /\ ScalarCalc(n.first) /\ n.rest[1].o.t = "lit")

-----------------------------------------------------------------------------
(* Logical expansion.                                                      *)

\* literals are integers here: their quotient is cut
FoldCalc(l, op, r) ==
    IF l.t # "lit" \/ r.t # "lit" THEN Calc(l, op, r)
    ELSE Lit(IF op = "/" THEN One * (l.n \div r.n) ELSE Compute(l.n, op, r.n))

\* an operand without its filters, and these
RECURSIVE ExpandQuery(_), ExpandOperand(_), ExpandAggregation(_)
\* the filters below an aggregation stay its own
ExpandAggregation(a) ==
    LET x == ExpandOperand(a.x)
        c == IF a.c = None THEN <<>> ELSE <<ExpandQuery(a.c)>>
    IN Agg(a.f, Conj(c \o x.filters), x.o)

ExpandOperand(o) ==
    CASE o.t = "calc" -> LET l == ExpandOperand(o.l)
                             r == ExpandOperand(o.r)
                         IN [o |-> FoldCalc(l.o, o.op, r.o), filters |-> l.filters \o r.filters]
      [] o.t = "of" -> LET x == ExpandOperand(o.o)
                       IN [o |-> x.o, filters |-> <<ExpandQuery(o.c)>> \o x.filters]
      [] o.t = "agg" -> [o |-> ExpandAggregation(o), filters |-> <<>>]
      [] OTHER -> [o |-> o, filters |-> <<>>]

\* the pairs of neighbours of a chain
Links(q) == [j \in DOMAIN q.rest |->
                Cmp(q.kind, IF j = 1 THEN q.first ELSE q.rest[j - 1].o, <<q.rest[j]>>)]

ExpandQuery(q) ==
    CASE q.t = "and" -> And(Map(ExpandQuery, q.qs))
      [] q.t = "cmp" /\ Len(q.rest) > 1 -> And(Map(ExpandQuery, Links(q)))
      [] q.t = "cmp" /\ Len(q.rest) = 1 ->
            LET l == ExpandOperand(q.first)
                r == ExpandOperand(q.rest[1].o)
            IN Conj(l.filters \o r.filters \o <<Cmp(q.kind, l.o, <<Than(q.rest[1].op, r.o)>>)>>)
      [] q.t = "value" -> Value(ExpandOperand(q.o).o)

-----------------------------------------------------------------------------
(* Resolution: whichever side they are written on, an aggregation comes    *)
(* before a type, before a calculation, before a literal.                  *)

Place == [agg |-> 1, type |-> 2, calc |-> 3, lit |-> 4]

\* Mutant: the operands are exchanged and the operator is not
MatchUnflipped(l, op, r) == IF Place[r.t] < Place[l.t] THEN Form(r, op, l) ELSE Form(l, op, r)

Match(l, op, r) == IF Place[r.t] < Place[l.t] THEN Form(r, Flip(op), l) ELSE Form(l, op, r)

RECURSIVE ResolveQuery(_), ResolveOperand(_), ResolveCalculation(_), ResolveAggregation(_)
ResolveCalculation(o) == Calc(ResolveOperand(o.l), o.op, ResolveOperand(o.r))
ResolveAggregation(a) ==
    Agg(a.f, IF a.c = None THEN None ELSE ResolveQuery(a.c), ResolveOperand(a.x))
ResolveOperand(o) == CASE o.t = "calc" -> ResolveCalculation(o)
                       [] o.t = "agg" -> ResolveAggregation(o)
                       [] OTHER -> o
ResolveQuery(q) ==
    CASE q.t = "and" -> And(Map(ResolveQuery, q.qs))
      [] q.t = "cmp" -> Match(ResolveOperand(q.first), q.rest[1].op, ResolveOperand(q.rest[1].o))
      [] q.t = "value" -> Value(ResolveOperand(q.o))

-----------------------------------------------------------------------------
(* The values SQL computes from OneView.  The labels of a type are in one  *)
(* column, which other types may share; a calculation reads the columns of *)
(* the row it stands on.                                                   *)

RowsOf(i) == {r \in view.rows : r.i = i}

Cell(k, r) == IF ~IsBasic(k) THEN view.rank[r.i]
              ELSE IF Storage[r.k] = Storage[k] THEN r.v ELSE Null

Labels(k, i) == IF IsBasic(k) THEN {r.v : r \in {q \in RowsOf(i) : q.k = k}} ELSE {view.rank[i]}

\* ANY_VALUE skips NULL and takes the first value the scan meets
AnyValue(s) == IF s = {} THEN Null ELSE IF scan = "up" THEN Min(s) ELSE Max(s)

RECURSIVE AtRow(_, _)
AtRow(o, r) == CASE o.t = "lit" -> o.n
                 [] o.t = "type" -> Cell(o.k, r)
                 [] o.t = "calc" -> Compute(AtRow(o.l, r), o.op, AtRow(o.r, r))

\* the sum, average, least or greatest of the values of some keys: {<<key, value>>, ...}
Summary(f, s) ==
    LET total == MapThenSumSet(LAMBDA p : p[2], s)
        values == {p[2] : p \in s}
    IN IF s = {} THEN Null
       ELSE CASE f = "sum" -> total
              [] f = "avg" -> total \div Cardinality(s)
              [] f = "min" -> Min(values)
              [] f = "max" -> Max(values)

\* MAX over the rows of the type, numbers only: how a type is read where rows are grouped by item
\* Mutant: MIN, so the other of two labels
LowestLabel(k, i) == IF IsText(k) \/ Labels(k, i) = {} THEN Null ELSE Min(Labels(k, i))
GroupLabel(k, i) == IF IsText(k) \/ Labels(k, i) = {} THEN Null ELSE Max(Labels(k, i))

\* AtItem: HAVING of a pick.  An aggregation there is over the rows of the one item.
\* AtFilter: HAVING of an aggregation's filter, where an aggregation is a scalar subquery.
\* AsScalar: no row at all, so a type beside an aggregation is 0.
RECURSIVE AtItem(_, _), AtFilter(_, _), AsScalar(_), Scalar(_), Chosen(_)
AtItem(o, i) ==
    CASE o.t = "lit" -> o.n
      [] o.t = "type" -> GroupLabel(o.k, i)
      [] o.t = "calc" -> Compute(AtItem(o.l, i), o.op, AtItem(o.r, i))
      [] o.t = "agg" /\ o.f = "count" ->
            IF o.c # None /\ i \notin Chosen(o.c) THEN 0
            ELSE IF o.x = None THEN One
            ELSE One * Cardinality({Cell(o.x.k, r) : r \in RowsOf(i)} \ {Null})
      [] o.t = "agg" /\ o.f # "count" ->
            IF o.c # None /\ i \notin Chosen(o.c) THEN Null ELSE AtItem(o.x, i)

AtFilter(o, i) ==
    CASE o.t = "lit" -> o.n
      [] o.t = "type" -> GroupLabel(o.k, i)
      [] o.t = "calc" -> Compute(AtFilter(o.l, i), o.op, AtFilter(o.r, i))
      [] o.t = "agg" -> Scalar(o)

AsScalar(o) ==
    CASE o.t = "lit" -> o.n
      [] o.t = "type" -> 0
      [] o.t = "calc" -> Compute(AsScalar(o.l), o.op, AsScalar(o.r))
      [] o.t = "agg" -> Scalar(o)

\* the rows an aggregation reads: of its operand's types, of the items its filter picks
AggRows(a) == LET tags == {k \in TypesOf(a.x) : IsBasic(k)}
                  items == IF a.c = None THEN Items ELSE Chosen(a.c)
              IN {r \in view.rows : r.i \in items /\ (tags # {} => r.k \in tags)}

\* COUNT(DISTINCT ...) of ids or labels
\* Mutant: not DISTINCT, an item is counted once for each of its rows
CountedRows(a, rows) == IF a.x = None THEN rows ELSE {Cell(a.x.k, r) : r \in rows} \ {Null}
Counted(a, rows) == IF a.x = None THEN {r.i : r \in rows} ELSE {Cell(a.x.k, r) : r \in rows} \ {Null}

\* each item adds one of the values its rows have: {<<item, value>>, ...}
ItemValues(a, rows) ==
    LET ValuesOf(i) == {AtRow(a.x, r) : r \in {q \in rows : q.i = i}} \ {Null}
    IN {<<i, AnyValue(ValuesOf(i))>> : i \in {j \in Items : ValuesOf(j) # {}}}

Scalar(a) ==
    LET rows == AggRows(a)
    IN IF a.f = "count" THEN One * Cardinality(Counted(a, rows))
       ELSE Summary(a.f, ItemValues(a, rows))

-----------------------------------------------------------------------------
(* The items a form picks.                                                 *)

Truth(l, op, r) == Compare(l, op, r) = TRUE

\* some row of the type has such a label
Matches(n) == {i \in Items : \E v \in Labels(n.l.k, i) : Truth(v, n.op, n.r.n)}

TagTags(n) == {i \in Items : Truth(GroupLabel(n.l.k, i), n.op, GroupLabel(n.r.k, i))}

\* LIMIT 1
OneIf(b) == IF b THEN {AnyValue(Items)} ELSE {}

\* the items of an aggregation's filter
Chosen(n) ==
    CASE n.t = "and" -> {i \in Items : \A j \in DOMAIN n.qs : i \in Chosen(n.qs[j])}
      [] n.t = "form" /\ n.l.t = "type" /\ n.r.t = "lit" -> Matches(n)
      [] n.t = "form" /\ n.l.t = "type" /\ n.r.t = "type" -> TagTags(n)
      [] n.t = "form" /\ n.l.t = "lit" -> OneIf(Holds(n.l.n, n.op, n.r.n))
      [] OTHER -> {i \in Items : Truth(AtFilter(n.l, i), n.op, AtFilter(n.r, i))}

\* the type whose storage an operand is taken to have, "" if none
RECURSIVE FirstType(_)
FirstType(o) == CASE o.t = "type" -> o.k
                  [] o.t = "calc" -> IF FirstType(o.l) # "" THEN FirstType(o.l) ELSE FirstType(o.r)
                  [] OTHER -> ""

\* the value an operand has on one row: a row of one type has no other
TypedCell(k, r) == IF IsBasic(k) /\ r.k # k THEN Null ELSE Cell(k, r)
RECURSIVE AtTypedRow(_, _)
AtTypedRow(o, r) == CASE o.t = "lit" -> o.n
                      [] o.t = "type" -> TypedCell(o.k, r)
                      [] o.t = "calc" -> Compute(AtTypedRow(o.l, r), o.op, AtTypedRow(o.r, r))

\* an aggregation where each row adds its value
OverRows(a, rows) ==
    IF a.f = "count" THEN One * Cardinality(Counted(a, rows))
    ELSE Summary(a.f, {p \in {<<r, AtTypedRow(a.x, r)>> : r \in rows} : p[2] # Null})

\* an aggregation compared with a literal is one row, a "volatile" item with the id of any item
\* the aggregation read
PickAggregation(n) ==
    LET a == n.l
        items == IF a.c = None THEN Items ELSE Chosen(a.c)
        key == FirstType(a.x)
        rows == {r \in view.rows : r.i \in items /\ (key # "" /\ IsBasic(key) => r.k = key)}
    IN IF Truth(OverRows(a, rows), n.op, n.r.n) THEN {AnyValue({r.i : r \in rows})} \ {Null} ELSE {}

\* one side where rows are not grouped: an aggregation makes a calculation a scalar
AlongRow(o, r) == IF AggsOf(o) # {} THEN AsScalar(o) ELSE AtRow(o, r)
PickByRow(n) ==
    {i \in Items : \E r \in RowsOf(i) :
        /\ n.l.t = "agg" /\ n.r.t = "type" /\ IsBasic(n.r.k) => r.k = n.r.k
        /\ Truth(AlongRow(n.l, r), n.op, AlongRow(n.r, r))}

\* calculations are compared by item as soon as one side reads a tag
Grouped(n) == /\ n.l.t \in {"type", "calc"} /\ n.r.t \in {"calc", "lit"}
              /\ n.l.t = "calc" \/ n.r.t = "calc"
              /\ \/ n.l.t = "calc" /\ n.r.t = "calc"
                 \/ ContainsTag(n.l) \/ ContainsTag(n.r)

\* rows grouped by item: a type and a calculation, or two operands one of which is a calculation
TagCalc(n) == {i \in Items : Truth(GroupLabel(n.l.k, i), n.op, AtItem(n.r, i))}
CalcByItem(n) == {i \in Items : Truth(AtItem(n.l, i), n.op, AtItem(n.r, i))}

IsAggregationMatch(n) == n.t = "form" /\ n.l.t = "agg" /\ n.r.t = "lit"

\* INTERSECT is of item, rank and kind: a volatile row is no item
RECURSIVE Pick(_)
Pick(n) ==
    CASE n.t = "and" ->
            LET volatile == {j \in DOMAIN n.qs : IsAggregationMatch(n.qs[j])}
            IN IF volatile \notin {{}, DOMAIN n.qs} THEN {}
               ELSE {i \in Items : \A j \in DOMAIN n.qs : i \in Pick(n.qs[j])}
      [] IsAggregationMatch(n) -> PickAggregation(n)
      [] n.t = "form" /\ n.l.t = "type" /\ n.r.t = "lit" -> Matches(n)
      [] n.t = "form" /\ n.l.t = "type" /\ n.r.t = "type" -> TagTags(n)
      [] n.t = "form" /\ n.l.t = "lit" -> OneIf(Holds(n.l.n, n.op, n.r.n))
      [] n.t = "form" /\ Grouped(n) -> IF n.l.t = "type" THEN TagCalc(n) ELSE CalcByItem(n)
      [] OTHER -> PickByRow(n)

-----------------------------------------------------------------------------
(* What is fetched: items, or one row with a value.                        *)

\* the aggregations of a node, those in the filters of others too
RECURSIVE Aggregations(_), AggregationsIn(_)
AggregationsIn(o) == UNION {{a} \cup (IF a.c = None THEN {} ELSE Aggregations(a.c)) : a \in AggsOf(o)}
Aggregations(n) == CASE n.t = "and" -> UNION {Aggregations(n.qs[j]) : j \in DOMAIN n.qs}
                     [] n.t = "form" -> AggregationsIn(n.l) \cup AggregationsIn(n.r)
                     [] n.t = "value" -> AggregationsIn(n.o)
                     [] OTHER -> {}

RECURSIVE Forms(_)
Forms(n) == CASE n.t = "and" -> UNION {Forms(n.qs[j]) : j \in DOMAIN n.qs}
              [] n.t = "form" -> {n}
              [] OTHER -> {}

\* the filter of an aggregation must not compare one itself: unreachable!
Panics(n) == \E a \in Aggregations(n) : a.c # None /\ \E g \in Forms(a.c) : g.l.t = "agg"

IsBooleanOnly(n) == /\ n.t = "form"
                    /\ \/ n.l.t = "agg"
                       \/ n.l.t = "lit"
                       \/ n.l.t = "calc" /\ n.r.t = "lit" /\ ~ContainsTag(n.l)

Exists(n) == Row(Pick(n) # {})

\* a comparison answered by one row: the scalars are compared without any table
Boolean(n) ==
    IF n.l.t = "lit" THEN Row(Holds(n.l.n, n.op, n.r.n))
    ELSE IF n.l.t = "calc" \/ n.r.t = "type" THEN Exists(n)
    ELSE IF n.r.t = "calc" /\ AggsOf(n.r) = {} /\ TypesOf(n.r) # {} THEN Failed
    ELSE Row(Compare(Scalar(n.l), n.op, AsScalar(n.r)))

\* the picks put together must have a rank and a kind where no row around them has
Fetch(n) ==
    IF Panics(n) THEN Failed
    ELSE CASE n.t = "value" -> Number(AsScalar(n.o))
           [] n.t = "form" /\ IsBooleanOnly(n) -> Boolean(n)
           [] n.t = "and" /\ \A j \in DOMAIN n.qs : IsBooleanOnly(n.qs[j]) ->
                IF \A j \in DOMAIN n.qs : IsAggregationMatch(n.qs[j]) THEN Exists(n) ELSE Failed
           [] OTHER -> Found(Pick(n))

Prepare(q) == IF ~Sound(q) THEN Refused
              ELSE LET x == ExpandQuery(q) IN IF Resolvable(x) THEN ResolveQuery(x) ELSE Refused
Answer(q) == LET n == Prepare(q) IN IF n = Refused THEN Refused ELSE Fetch(n)

-----------------------------------------------------------------------------
(* The passes.                                                             *)

Init == /\ view \in Views /\ query \in Queries
        /\ scan \in {"up", "down"}
        /\ stage = "parsed" /\ node = query /\ answer = None

\* Resolver::from_node, its first half: expand_query_node
ExpandPass ==
    /\ stage = "parsed"
    /\ IF Sound(query) THEN stage' = "expanded" /\ node' = ExpandQuery(query) /\ answer' = None
       ELSE stage' = "answered" /\ node' = Refused /\ answer' = Refused
    /\ UNCHANGED <<view, query, scan>>

\* its second half: resolve_query_node
ResolvePass ==
    /\ stage = "expanded"
    /\ IF Resolvable(node) THEN stage' = "resolved" /\ node' = ResolveQuery(node) /\ answer' = None
       ELSE stage' = "answered" /\ node' = Refused /\ answer' = Refused
    /\ UNCHANGED <<view, query, scan>>

\* build_fetch_sql and what DuckDB answers to it
FetchPass ==
    /\ stage = "resolved"
    /\ stage' = "answered"
    /\ answer' = Fetch(node)
    /\ UNCHANGED <<view, query, scan, node>>

Next == ExpandPass \/ ResolvePass \/ FetchPass

Spec == Init /\ [][Next]_vars

-----------------------------------------------------------------------------
(* What the documentation promises (design/QUERY.md): a comparison with a  *)
(* projection finds the items of which some choice of one label for each   *)
(* type makes every link of the chain true; an aggregation is one number   *)
(* for all of them, over every label of every item its filter finds; a     *)
(* comparison of scalars is true, false or NULL.                           *)

LabelChoices(i, ks) == {e \in [ks -> {Null} \cup UNION {Labels(k, i) : k \in ks}] :
                      \A k \in ks : IF Labels(k, i) = {} THEN e[k] = Null ELSE e[k] \in Labels(k, i)}

\* the greatest label of a type, if it is no text
GreatestLabel(k, i) == IF IsText(k) \/ Labels(k, i) = {} THEN Null ELSE Max(Labels(k, i))

RECURSIVE FiltersOf(_)
FiltersOf(o) == CASE o.t = "of" -> {o.c} \cup FiltersOf(o.o)
                  [] o.t = "calc" -> FiltersOf(o.l) \cup FiltersOf(o.r)
                  [] OTHER -> {}

\* a comparison of a type with a literal
LinkByLabel(l) == {l.first.t, l.rest[1].o.t} = {"type", "lit"}

RECURSIVE Meant(_, _, _), Whole(_, _), Satisfies(_, _, _)
\* the value of an operand, given a label for each type it reads
Meant(o, e, reading) ==
    CASE o.t = "lit" -> o.n
      [] o.t = "type" -> e[o.k]
      [] o.t = "calc" -> Compute(Meant(o.l, e, reading), o.op, Meant(o.r, e, reading))
      [] o.t = "of" -> Meant(o.o, e, reading)
      [] o.t = "agg" -> Whole(o, reading)

Whole(a, reading) ==
    LET filters == (IF a.c = None THEN {} ELSE {a.c}) \cup FiltersOf(a.x)
        items == {i \in Items : \A c \in filters : Satisfies(i, c, reading)}
        added == UNION {{<<<<i, e>>, Meant(a.x, e, reading)>> : e \in LabelChoices(i, TypesOf(a.x))} : i \in items}
    IN IF a.f # "count" THEN Summary(a.f, {p \in added : p[2] # Null})
       ELSE One * Cardinality(IF a.x = None THEN items ELSE UNION {Labels(a.x.k, i) : i \in items})

LinkValue(l, e, reading) ==
    Compare(Meant(l.first, e, reading), l.rest[1].op, Meant(l.rest[1].o, e, reading))
LinksOf(q) == {Links(q)[j] : j \in DOMAIN q.rest}

\* "meant": some choice of labels makes every link true.  "greatest", as the code reads them: each
\* link is true of its own choice, which is any for a label and a literal and the greatest labels
\* (and never a text) for the others.
Satisfies(i, q, reading) ==
    LET types == UNION {TypesOf(o) : o \in OperandsOf(q)}
        any == LabelChoices(i, types)
    IN IF q.t = "and" THEN \A j \in DOMAIN q.qs : Satisfies(i, q.qs[j], reading)
       ELSE /\ \A o \in OperandsOf(q) : \A c \in FiltersOf(o) : Satisfies(i, c, reading)
            /\ IF reading = "meant"
               THEN \E e \in any : \A l \in LinksOf(q) : LinkValue(l, e, reading) = TRUE
               ELSE \A l \in LinksOf(q) :
                       \E e \in IF LinkByLabel(l) THEN any ELSE {[k \in types |-> GreatestLabel(k, i)]} :
                           LinkValue(l, e, reading) = TRUE

MeansItems(q) == q.t = "and" \/ (q.t = "cmp" /\ \E o \in OperandsOf(q) : TypesOf(o) # {})

Meaning(q, reading) ==
    IF ~Sound(q) THEN Refused
    ELSE IF MeansItems(q) THEN Found({i \in Items : Satisfies(i, q, reading)})
    ELSE IF q.t = "value" THEN Number(Meant(q.o, <<>>, reading))
    ELSE LET vs == {LinkValue(l, <<>>, reading) : l \in LinksOf(q)}
         IN Row(IF FALSE \in vs THEN FALSE ELSE IF Null \in vs THEN Null ELSE TRUE)

\* the answer, or whether there are such items, or false for what is not known
Agrees(reading) == LET m == Meaning(query, reading)
                   IN \/ answer = m
                      \/ m.t = "items" /\ answer = Row(m.s # {})
                      \/ m.t = "row" /\ m.v = Null /\ answer = Row(FALSE)

-----------------------------------------------------------------------------
(* Where the code departs from it.                                         *)

SeveralLabels(ks) == \E k \in ks : \E i \in Items : Cardinality(Labels(k, i)) > 1
Tags(o) == {k \in TypesOf(o) : IsBasic(k)}
\* forms that are no label and literal read the greatest label of a type (and no text); the links of
\* a chain may be true of different labels
Singly == Agrees("greatest")

\* an aggregation reads one label of an item, and a row that has one type only
OneLabelEach == \E a \in Aggregations(node) : a.f # "count" /\ SeveralLabels(TypesOf(a.x))
RowHoldsOneType == \E a \in Aggregations(node) : a.f # "count" /\ Cardinality(Tags(a.x)) > 1

\* where items are compared one by one an aggregation is of that item
AggregationIsOwnValue == \E n \in Forms(node) : Grouped(n) /\ AggsOf(n.l) \cup AggsOf(n.r) # {}

\* beside an aggregation, where they are not, a type is 0
TypesAreZero == \E n \in Forms(node) : ~Grouped(n) /\ \E o \in {n.l, n.r} : AggsOf(o) # {} /\ TypesOf(o) # {}

\* an aggregation is compared with a calculation of types without any row to read
NoRowToRead == node.t = "form" /\ node.l.t = "agg" /\ node.r.t = "calc" /\ TypesOf(node.r) # {}
               /\ answer = Failed

\* an aggregation is compared in the filter of another
FilterPanics == Panics(node) /\ answer = Failed

\* the rows of compared aggregations are of no item, and those of some links cannot be put together
NoCommonRow == node.t = "and" /\ (\A j \in DOMAIN node.qs : IsBooleanOnly(node.qs[j])) /\ answer = Failed
VolatileIsNoItem == node.t = "and" /\ \E j \in DOMAIN node.qs : IsAggregationMatch(node.qs[j])

\* the quotient of two literals is cut to an integer, that of anything else is not
LiteralsDivideWhole == \E n \in Subqueries(query) : \E o \in OperandsOf(n) :
                          o.t = "calc" /\ o.op = "/" /\ o.l.t = "lit" /\ o.r.t = "lit"

\* (sum(size:) + 1) :> 2 is refused, 2 :< (sum(size:) + 1) is not
OneSideRefused == answer = Refused /\ ~Resolvable(ExpandQuery(query))

Departs == \/ Singly \/ OneLabelEach \/ RowHoldsOneType \/ AggregationIsOwnValue
           \/ TypesAreZero \/ NoRowToRead \/ FilterPanics \/ NoCommonRow
           \/ VolatileIsNoItem \/ LiteralsDivideWhole \/ OneSideRefused

\* A comparison of types, calculations and aggregations is answered as it is meant, but for the
\* departures named: folding, splitting, lifting, exchanging sides and grouping lose nothing else.
AnswerIsMeaning == stage = "answered" => Agrees("meant") \/ Departs

\* A comparison answers the same whichever side its operands are written on, < become >: the
\* resolver puts them in order and may not forget the operator; but one side may be refused.
SwapKeepsAnswer ==
    stage = "answered" /\ query.t = "cmp" /\ Len(query.rest) = 1 =>
        LET swapped == Cmp(query.kind, query.rest[1].o, <<Than(Flip(query.rest[1].op), query.first)>>)
        IN swapped \in Queries /\ Refused \notin {answer, Answer(swapped)} => answer = Answer(swapped)

\* The count of the items of a query is the number of items the query finds, although the SQL
\* of a filter (precompute.rs) is built apart from that of a search (pick.rs).
CountsWhatItFinds ==
    /\ stage = "answered" /\ query.t # "value" /\ answer.t = "items"
    /\ \A n \in Forms(node) : n.l.t # "agg"
    =>  \/ Answer(Value(Agg("count", query, None))) = Number(One * Cardinality(answer.s))
        \/ AggregationIsOwnValue \/ TypesAreZero
=============================================================================
